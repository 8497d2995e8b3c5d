---------------------------- MODULE Cancellation ----------------------------
(***************************************************************************)
(* Cancelling a build (request_cancellation and run_action_commands in     *)
(* crates/frostbuild-exec/src/lib.rs).  The signal handler's thread and    *)
(* the terminal's raise a flag and terminate the process groups that are   *)
(* registered; a worker spawns a command first and registers it after,     *)
(* looking at the flag under the same mutex.                               *)
(*                                                                         *)
(* A critical section is one step.  A worker stands for the process group  *)
(* of its command: a group's id is taken not to be reused before it is     *)
(* removed from the register.  Workers go on taking actions, as they do    *)
(* with --keep-going; otherwise a failure stops them (Scheduler).          *)
(***************************************************************************)
EXTENDS Naturals, FiniteSets

CONSTANTS Workers,
          Requesters,   \* calls of request_cancellation
          MaxActions,   \* actions of the build
          Commands      \* commands of an action: argv and followup_argv

ASSUME CountsAssumption == MaxActions \in Nat /\ Commands \in Nat \ {0}

VARIABLES
    cancelled,  \* CANCELLED, which nothing resets
    groups,     \* RUNNING_PROCESS_GROUPS
    asked,      \* where each call of request_cancellation is
    left,       \* actions no worker has taken yet
    pc,         \* where each worker is in execute()
    command,    \* the command of its action that it is at
    proc        \* what that command does

vars == <<cancelled, groups, asked, left, pc, command, proc>>
build == <<left, pc, command>>

Init ==
    /\ cancelled = FALSE
    /\ groups = {}
    /\ asked = [r \in Requesters |-> "no"]
    /\ left = MaxActions
    /\ pc = [w \in Workers |-> "idle"]
    /\ command = [w \in Workers |-> 1]
    /\ proc = [w \in Workers |-> "none"]

-----------------------------------------------------------------------------
(* request_cancellation                                                    *)

Ask(r) ==
    /\ asked[r] = "no"
    /\ asked' = [asked EXCEPT ![r] = "flagged"]
    /\ cancelled' = TRUE
    /\ UNCHANGED <<groups, build, proc>>

\* SIGTERM to what still runs in a group.
Terminated(S) ==
    [w \in Workers |-> IF w \in S /\ proc[w] = "running" THEN "terminated" ELSE proc[w]]

\* Mutant: only one group is terminated.
Mut_TerminateOne(r) ==
    /\ asked[r] = "flagged"
    /\ \E S \in SUBSET groups :
          /\ Cardinality(S) <= 1
          /\ S = {} => groups = {}
          /\ proc' = Terminated(S)
    /\ asked' = [asked EXCEPT ![r] = "done"]
    /\ UNCHANGED <<cancelled, groups, build>>
TerminateAll(r) ==
    /\ asked[r] = "flagged"
    /\ proc' = Terminated(groups)
    /\ asked' = [asked EXCEPT ![r] = "done"]
    /\ UNCHANGED <<cancelled, groups, build>>

-----------------------------------------------------------------------------
(* A worker                                                                *)

\* An action that is taken after the cancellation fails at once and leaves
\* its outputs alone.
Take(w) ==
    /\ pc[w] = "idle" /\ left > 0
    /\ left' = left - 1
    /\ pc' = [pc EXCEPT ![w] = IF cancelled THEN "idle" ELSE "spawning"]
    /\ command' = [command EXCEPT ![w] = 1]
    /\ UNCHANGED <<cancelled, groups, asked, proc>>

Spawn(w) ==
    /\ pc[w] = "spawning"
    /\ \/ /\ pc' = [pc EXCEPT ![w] = "unregistered"]
          /\ proc' = [proc EXCEPT ![w] = "running"]
       \/ /\ pc' = [pc EXCEPT ![w] = "idle"]       \* it cannot be spawned
          /\ UNCHANGED proc
    /\ UNCHANGED <<cancelled, groups, asked, left, command>>

\* Mutant: the flag is not looked at again.
Mut_RegisterBlindly(w) ==
    /\ pc[w] = "unregistered"
    /\ groups' = groups \cup {w}
    /\ pc' = [pc EXCEPT ![w] = "waiting"]
    /\ UNCHANGED <<cancelled, asked, left, command, proc>>
\* "Either that call kills us or this check does."
Register(w) ==
    /\ pc[w] = "unregistered"
    /\ groups' = groups \cup {w}
    /\ proc' = IF cancelled THEN Terminated({w}) ELSE proc
    /\ pc' = [pc EXCEPT ![w] = "waiting"]
    /\ UNCHANGED <<cancelled, asked, left, command>>

\* The command ends by itself, if it ever does.
Exit(w) ==
    /\ proc[w] = "running"
    /\ \E result \in {"ok", "failed"} : proc' = [proc EXCEPT ![w] = result]
    /\ UNCHANGED <<cancelled, groups, asked, build>>

\* It ends because it was told to; it may have a handler that exits with 0.
Obey(w) ==
    /\ proc[w] = "terminated"
    /\ \E result \in {"ok", "failed"} : proc' = [proc EXCEPT ![w] = result]
    /\ UNCHANGED <<cancelled, groups, asked, build>>

Reap(w) ==
    /\ pc[w] = "waiting"
    /\ proc[w] \in {"ok", "failed"}
    /\ pc' = [pc EXCEPT ![w] = "reaped"]
    /\ UNCHANGED <<cancelled, groups, asked, left, command, proc>>

\* Mutant: the group stays registered.
Mut_NeverRemoved(w) == groups
Removed(w) == groups \ {w}

\* The group is removed; the action fails, goes on with its next command, or
\* has succeeded and will be recorded.
Continue(w) ==
    /\ pc[w] = "reaped"
    /\ groups' = Removed(w)
    /\ \/ /\ proc[w] = "failed"
          /\ pc' = [pc EXCEPT ![w] = "idle"]
          /\ UNCHANGED command
       \/ /\ proc[w] = "ok" /\ command[w] < Commands
          /\ pc' = [pc EXCEPT ![w] = "spawning"]
          /\ command' = [command EXCEPT ![w] = @ + 1]
       \/ /\ proc[w] = "ok" /\ command[w] = Commands
          /\ pc' = [pc EXCEPT ![w] = "recording"]
          /\ UNCHANGED command
    /\ proc' = [proc EXCEPT ![w] = "none"]
    /\ UNCHANGED <<cancelled, asked, left>>

Record(w) ==
    /\ pc[w] = "recording"
    /\ pc' = [pc EXCEPT ![w] = "idle"]
    /\ UNCHANGED <<cancelled, groups, asked, left, command, proc>>

WorkerStep(w) ==
    Take(w) \/ Spawn(w) \/ Register(w) \/ Reap(w) \/ Continue(w) \/ Record(w)

Next ==
    \/ \E r \in Requesters : Ask(r) \/ TerminateAll(r)
    \/ \E w \in Workers : WorkerStep(w) \/ Exit(w) \/ Obey(w)

\* Threads keep running and a command that is told to end does; one that is
\* not may run for ever, and nobody need ever cancel the build.
Fairness ==
    /\ \A r \in Requesters : WF_vars(TerminateAll(r))
    /\ \A w \in Workers : WF_vars(WorkerStep(w)) /\ WF_vars(Obey(w))

Spec == Init /\ [][Next]_vars
FairSpec == Spec /\ Fairness

-----------------------------------------------------------------------------

\* Types, and the register has exactly the groups between registration and
\* removal.
TypeOK ==
    /\ cancelled \in BOOLEAN
    /\ asked \in [Requesters -> {"no", "flagged", "done"}]
    /\ left \in 0..MaxActions
    /\ pc \in [Workers -> {"idle", "spawning", "unregistered", "waiting",
                            "reaped", "recording"}]
    /\ command \in [Workers -> 1..Commands]
    /\ proc \in [Workers -> {"none", "running", "terminated", "ok", "failed"}]
    /\ groups = {w \in Workers : pc[w] \in {"waiting", "reaped"}}

\* Whenever a call of request_cancellation has returned, no registered command
\* runs on untold, however its spawn and registration fell between the flag
\* and the loop over the groups; and none is registered untold later.
CancellationReachesAll ==
    (\E r \in Requesters : asked[r] = "done") =>
        \A w \in groups : proc[w] # "running"

\* A cancelled build ends, even if its commands would run for ever and
\* whichever of its commands it was at.
CancelledBuildsEnd ==
    cancelled ~> (left = 0 /\ \A w \in Workers : pc[w] = "idle")
=============================================================================
