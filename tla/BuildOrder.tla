---------------------------- MODULE BuildOrder ----------------------------
(***************************************************************************)
(* What the scheduler of frostbuild-exec promises, with no threads, locks  *)
(* or queues: actions run once each, never before their producers, a       *)
(* failure reaches exactly the actions downstream of it, and a build that  *)
(* is not told to keep going starts nothing after its first failure.       *)
(***************************************************************************)
EXTENDS Naturals, FiniteSets

CONSTANTS Actions, Jobs, Graphs, Pending

VARIABLES deps, keepGoing, dryRun,
          running,      \* the actions being worked on
          outcomes      \* the outcome of every action that has ended

vars == <<deps, keepGoing, dryRun, running, outcomes>>

Ended == {i \in Actions : outcomes[i] # Pending}
Stopped == ~keepGoing /\ \E i \in Actions : outcomes[i] = "failed"

Init ==
    /\ deps \in Graphs
    /\ keepGoing \in BOOLEAN
    /\ dryRun \in BOOLEAN
    /\ running = {}
    /\ outcomes = [i \in Actions |-> Pending]

\* What may be started once the actions in `ended` have ended.
Startable(ended) ==
    {i \in Actions \ (ended \cup running) : deps[i] \subseteq ended}

Start(i) ==
    /\ ~Stopped
    /\ Cardinality(running) < Jobs
    /\ i \in Startable(Ended)
    /\ running' = running \cup {i}
    /\ UNCHANGED <<deps, keepGoing, dryRun, outcomes>>

\* An outcome an action may report, given the outcomes of its producers.
Legal(i, o) ==
    LET of(S) == \E p \in deps[i] : outcomes[p] \in S IN
    IF of({"failed", "skipped"}) THEN o = "skipped"
    ELSE IF of({"would", "may"}) THEN o = "may"
    ELSE o \in IF dryRun THEN {"ok", "failed", "would"} ELSE {"ok", "failed"}

\* An action ends; unless the build stops there, the one who worked on it
\* may start another action at once.
Finish(i, o, next) ==
    /\ i \in running
    /\ Legal(i, o)
    /\ outcomes' = [outcomes EXCEPT ![i] = o]
    /\ next \subseteq Startable(Ended \cup {i})
    /\ Cardinality(next) <= 1
    /\ next = {} \/ (~Stopped /\ (keepGoing \/ o # "failed"))
    /\ running' = (running \ {i}) \cup next
    /\ UNCHANGED <<deps, keepGoing, dryRun>>

Next ==
    \/ \E i \in Actions : Start(i)
    \/ \E i \in Actions, o \in {"ok", "failed", "skipped", "would", "may"} :
          \/ Finish(i, o, {})
          \/ \E j \in Actions : Finish(i, o, {j})

Spec == Init /\ [][Next]_vars
=============================================================================
