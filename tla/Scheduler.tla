----------------------------- MODULE Scheduler -----------------------------
(***************************************************************************)
(* The work-scheduling core of the build engine                            *)
(* (crates/frostbuild-exec/src/lib.rs): the worker threads of Engine::run, *)
(* the state they share under one mutex, and the condition variable on     *)
(* which idle workers sleep.  One action of this module is one critical    *)
(* section of a worker, or one call it makes with the mutex released.      *)
(*                                                                         *)
(* What a build action does between being claimed and being finished is    *)
(* abstracted to the outcome it reports; module Engine models that part.   *)
(***************************************************************************)
EXTENDS Naturals, FiniteSets, FiniteSetsExt

CONSTANTS Actions,      \* the closure: local indices, in closure order
          Workers,      \* the worker threads, opts.jobs of them
          Graphs,       \* the producer maps a run may be given
          Duration,     \* estimated duration of every action (Estimates)
          NoAction, Pending     \* "none" values of a claim and of an outcome

ASSUME ActionsAssumption == Actions \subseteq Nat /\ IsFiniteSet(Actions)
ASSUME WorkersAssumption == IsFiniteSet(Workers) /\ Workers # {}
ASSUME GraphsAssumption == Graphs \subseteq [Actions -> SUBSET Actions]
ASSUME DurationAssumption == Duration \in [Actions -> Nat]
ASSUME NoneAssumption ==
    /\ NoAction \notin Actions
    /\ Pending \notin {"ok", "failed", "skipped", "would", "may"}

VARIABLES
    deps,        \* in-closure producers of every action; fixed for the build
    keepGoing,   \* opts.keep_going
    dryRun,      \* opts.dry_run
    ready,       \* Shared.ready, the heap, as the set of its indices
    waiting,     \* Shared.waiting, producers an action still waits for
    outcomes,    \* Shared.outcomes
    pending,     \* Shared.pending
    abort,       \* Shared.abort
    pc,          \* where each worker is, see TypeOK
    job,         \* the action a worker holds (`local`, or `continuation`)
    upstream,    \* what process() read in the outcomes of the producers
    signals,     \* notify_one calls a worker has still to make
    report       \* results of run(), once the workers have been joined

options == <<deps, keepGoing, dryRun>>
shared == <<ready, waiting, outcomes, pending, abort>>
threads == <<pc, job, upstream, signals>>
vars == <<options, shared, threads, report>>

Outcomes == {"ok", "failed", "skipped", "would", "may"}
\* The outcomes process() can reach by itself: "ok" is Executed or Cached,
\* "would" is WouldRun, reported by a dry run only.
WorkOutcomes == IF dryRun THEN {"ok", "failed", "would"} ELSE {"ok", "failed"}

Dependents(i) == {d \in Actions : i \in deps[d]}

(***************************************************************************)
(* Schedule::plan: the priority of an action is the longest chain of       *)
(* durations that starts at it.  The code fills the vector from the last   *)
(* index to the first, so a dependent with a smaller index still counts 0. *)
(***************************************************************************)
LongestChain(duration) ==
    LET chain[i \in Actions] ==
            duration[i] + Max({0} \cup {chain[d] : d \in {e \in Dependents(i) : e > i}})
    IN  chain
Priority == LongestChain(Duration)

\* The heap's order on (priority, Reverse(index)): i is what pop() returns.
PopsFrom(i, heap) ==
    /\ i \in heap
    /\ \A j \in heap \ {i} :
          \/ Priority[i] > Priority[j]
          \/ Priority[i] = Priority[j] /\ i < j

Init ==
    /\ deps \in Graphs
    /\ keepGoing \in BOOLEAN
    /\ dryRun \in BOOLEAN
    /\ waiting = [i \in Actions |-> Cardinality(deps[i])]
    /\ ready = {i \in Actions : deps[i] = {}}
    /\ outcomes = [i \in Actions |-> Pending]
    /\ pending = Cardinality(Actions)
    /\ abort = FALSE
    /\ pc = [w \in Workers |-> "look"]
    /\ job = [w \in Workers |-> NoAction]
    /\ upstream = [w \in Workers |-> "none"]
    /\ signals = [w \in Workers |-> 0]
    /\ report = <<>>

-----------------------------------------------------------------------------
(* A worker looks for work: the loop at the head of worker().              *)

\* Mutant: the top of the heap is peeked at and never popped.
Mut_ClaimPeeks(w) ==
    /\ pc[w] = "look"
    /\ \E i \in ready : PopsFrom(i, ready) /\ job' = [job EXCEPT ![w] = i]
    /\ pc' = [pc EXCEPT ![w] = "claimed"]
    /\ UNCHANGED <<options, shared, upstream, signals, report>>

Claim(w) ==
    /\ pc[w] = "look"
    /\ \E i \in ready :
          /\ PopsFrom(i, ready)
          /\ ready' = ready \ {i}
          /\ job' = [job EXCEPT ![w] = i]
    /\ pc' = [pc EXCEPT ![w] = "claimed"]
    /\ UNCHANGED <<options, waiting, outcomes, pending, abort,
                   upstream, signals, report>>

Return(w) ==
    /\ pc[w] = "look"
    /\ ready = {}
    /\ abort \/ pending = 0
    /\ pc' = [pc EXCEPT ![w] = "returned"]
    /\ UNCHANGED <<options, shared, job, upstream, signals, report>>

Sleep(w) ==
    /\ pc[w] = "look"
    /\ ready = {}
    /\ ~abort /\ pending # 0
    /\ pc' = [pc EXCEPT ![w] = "asleep"]
    /\ UNCHANGED <<options, shared, job, upstream, signals, report>>

-----------------------------------------------------------------------------
(* process(): the outcomes of the producers are read in a critical section *)
(* of their own, before the action does anything else.                     *)

\* Mutant: a skipped producer is not treated like a failed one.
Mut_UpstreamIgnoresSkipped(i) ==
    IF \E p \in deps[i] : outcomes[p] = "failed" THEN "failed"
    ELSE IF \E p \in deps[i] : outcomes[p] \in {"would", "may"} THEN "dirty"
    ELSE "clean"

UpstreamOf(i) ==
    IF \E p \in deps[i] : outcomes[p] \in {"failed", "skipped"} THEN "failed"
    ELSE IF \E p \in deps[i] : outcomes[p] \in {"would", "may"} THEN "dirty"
    ELSE "clean"

Inspect(w) ==
    /\ pc[w] = "claimed"
    /\ pc' = [pc EXCEPT ![w] = "working"]
    /\ upstream' = [upstream EXCEPT ![w] = UpstreamOf(job[w])]
    /\ UNCHANGED <<options, shared, job, signals, report>>

\* The outcome process() returns, given what it read of its producers.
MayReport(w, o) ==
    \/ upstream[w] = "failed" /\ o = "skipped"
    \/ upstream[w] = "dirty" /\ o = "may"
    \/ upstream[w] = "clean" /\ o \in WorkOutcomes

-----------------------------------------------------------------------------
(* The critical section that ends an action: record the outcome, abort or  *)
(* release the dependents, and claim a continuation.                       *)

Ending(w, o) ==
    /\ pc[w] = "working"
    /\ MayReport(w, o)
    /\ outcomes' = [outcomes EXCEPT ![job[w]] = o]
    /\ pending' = pending - 1
    /\ upstream' = [upstream EXCEPT ![w] = "none"]
    /\ UNCHANGED <<options, report>>

\* The end of the build is in sight: nothing is claimed, all sleepers will
\* be woken.
NoContinuation(w) ==
    /\ pc' = [pc EXCEPT ![w] = "broadcast"]
    /\ job' = [job EXCEPT ![w] = NoAction]
    /\ UNCHANGED signals

\* Mutant: the queue survives the abort.
Mut_AbortKeepsQueue(w) ==
    /\ ~keepGoing
    /\ Ending(w, "failed")
    /\ abort' = TRUE
    /\ NoContinuation(w)
    /\ UNCHANGED <<ready, waiting>>

\* A failure without --keep-going aborts the build.
FinishAborting(w) ==
    /\ ~keepGoing
    /\ Ending(w, "failed")
    /\ abort' = TRUE
    /\ ready' = {}
    /\ NoContinuation(w)
    /\ UNCHANGED waiting

\* Mutant: a worker with a continuation forgets the failure it just recorded.
Mut_NeverAborts(o) == o = "failed" /\ FALSE

Aborts(o) == o = "failed" /\ ~keepGoing

\* An action that ends after another one aborted the build.
FinishAborted(w, o) ==
    /\ abort /\ ~Aborts(o)
    /\ Ending(w, o)
    /\ NoContinuation(w)
    /\ UNCHANGED <<ready, waiting, abort>>

\* Mutants: released before the last producer; tested before the decrement.
Mut_ReleasedEarly(i) == {d \in Dependents(i) : waiting[d] >= 1}
Mut_ReleasedLate(i) == {d \in Dependents(i) : waiting[d] = 0}

Released(i) == {d \in Dependents(i) : waiting[d] = 1}

\* Mutant: the counters of actions that do not depend on i go down too.
Mut_ReleaseAll(i) ==
    waiting' = [d \in Actions |-> IF d # i THEN waiting[d] - 1 ELSE waiting[d]]

Release(i) ==
    waiting' = [d \in Actions |->
                   IF d \in Dependents(i) THEN waiting[d] - 1 ELSE waiting[d]]

\* The action that ends the build.
FinishLast(w, o) ==
    /\ ~abort /\ ~Aborts(o)
    /\ pending = 1
    /\ Ending(w, o)
    /\ Release(job[w])
    /\ ready' = ready \cup Released(job[w])
    /\ NoContinuation(w)
    /\ UNCHANGED abort

\* Mutant: the continuation is taken off the count twice.
Mut_OwedTooFew(released, claimed) ==
    IF released > 2 * claimed THEN released - 2 * claimed ELSE 0

\* Any other action: the worker keeps the best ready action for itself and
\* owes a notify_one for every other action it released.
Owed(released, claimed) == IF released > claimed THEN released - claimed ELSE 0

FinishAndGoOn(w, o) ==
    LET heap == ready \cup Released(job[w]) IN
    /\ ~abort /\ ~Aborts(o)
    /\ pending # 1
    /\ Ending(w, o)
    /\ Release(job[w])
    /\ \E next \in heap \cup {NoAction} :
          /\ IF heap = {} THEN next = NoAction ELSE PopsFrom(next, heap)
          /\ ready' = heap \ {next}
          /\ job' = [job EXCEPT ![w] = next]
          /\ signals' = [signals EXCEPT ![w] =
                Owed(Cardinality(Released(job[w])), IF next = NoAction THEN 0 ELSE 1)]
    /\ pc' = [pc EXCEPT ![w] = "signal"]
    /\ UNCHANGED abort

-----------------------------------------------------------------------------
(* The wake-ups, made with the mutex released.                             *)

Asleep == {w \in Workers : pc[w] = "asleep"}
Woken(S) == [w \in Workers |-> IF w \in S THEN "look" ELSE pc[w]]

NotifyOne(w) ==
    /\ pc[w] = "signal"
    /\ signals[w] > 0
    /\ signals' = [signals EXCEPT ![w] = @ - 1]
    /\ \/ \E s \in Asleep : pc' = Woken({s})
       \/ Asleep = {} /\ UNCHANGED pc
    /\ UNCHANGED <<options, shared, job, upstream, report>>

Continue(w) ==
    /\ pc[w] = "signal"
    /\ signals[w] = 0
    /\ pc' = [pc EXCEPT ![w] = IF job[w] = NoAction THEN "look" ELSE "claimed"]
    /\ UNCHANGED <<options, shared, job, upstream, signals, report>>

\* Mutants: one sleeper is woken at the end, or none.
Mut_NotifyAllWakesOne(w) ==
    /\ pc[w] = "broadcast"
    /\ IF Asleep = {} THEN pc' = Woken({w})
       ELSE \E s \in Asleep : pc' = Woken({w, s})
    /\ UNCHANGED <<options, shared, job, upstream, signals, report>>
Mut_NotifyAllWakesNone(w) ==
    /\ pc[w] = "broadcast"
    /\ pc' = Woken({w})
    /\ UNCHANGED <<options, shared, job, upstream, signals, report>>

NotifyAll(w) ==
    /\ pc[w] = "broadcast"
    /\ pc' = Woken(Asleep \cup {w})
    /\ UNCHANGED <<options, shared, job, upstream, signals, report>>

\* A condition variable may wake a sleeper that nobody notified.
SpuriousWakeup(w) ==
    /\ pc[w] = "asleep"
    /\ pc' = [pc EXCEPT ![w] = "look"]
    /\ UNCHANGED <<options, shared, job, upstream, signals, report>>

-----------------------------------------------------------------------------
(* run() joins the workers and turns what is missing into "not run".       *)

Join ==
    /\ report = <<>>
    /\ \A w \in Workers : pc[w] = "returned"
    /\ report' = [i \in Actions |->
                     IF outcomes[i] = Pending THEN "skipped" ELSE outcomes[i]]
    /\ UNCHANGED <<options, shared, threads>>

Reported == report # <<>> /\ UNCHANGED vars

WorkerStep(w) ==
    \/ Claim(w) \/ Return(w) \/ Sleep(w)
    \/ Inspect(w)
    \/ FinishAborting(w)
    \/ \E o \in Outcomes :
          FinishAborted(w, o) \/ FinishLast(w, o) \/ FinishAndGoOn(w, o)
    \/ NotifyOne(w) \/ Continue(w) \/ NotifyAll(w)

Next ==
    \/ \E w \in Workers : WorkerStep(w) \/ SpuriousWakeup(w)
    \/ Join
    \/ Reported

\* Every thread keeps running and every command comes to an end; nothing is
\* assumed about spurious wake-ups.
Fairness == (\A w \in Workers : WF_vars(WorkerStep(w))) /\ WF_vars(Join)

Spec == Init /\ [][Next]_vars
FairSpec == Spec /\ Fairness

-----------------------------------------------------------------------------
(* Properties.                                                             *)

Finished == abort \/ pending = 0
Holders(i) == {w \in Workers : job[w] = i}

\* The values the shared state and the threads' state may take.
TypeOK ==
    /\ deps \in Graphs
    /\ keepGoing \in BOOLEAN /\ dryRun \in BOOLEAN /\ abort \in BOOLEAN
    /\ ready \subseteq Actions
    /\ waiting \in [Actions -> Nat]
    /\ outcomes \in [Actions -> Outcomes \cup {Pending}]
    /\ pending \in Nat
    /\ pc \in [Workers -> {"look", "claimed", "working", "signal",
                            "broadcast", "asleep", "returned"}]
    /\ job \in [Workers -> Actions \cup {NoAction}]
    /\ upstream \in [Workers -> {"none", "clean", "dirty", "failed"}]
    /\ signals \in [Workers -> Nat]
    /\ report = <<>> \/ report \in [Actions -> Outcomes]

\* An action is never in two places: the one worker that holds it took it off
\* the queue, and it has not ended.  The claim in the loop head, the
\* continuation and the release of dependents all hand actions out.
OneOwner ==
    \A w \in Workers : job[w] # NoAction =>
        /\ job[w] \notin ready
        /\ outcomes[job[w]] = Pending
        /\ \A v \in Workers \ {w} : job[v] # job[w]

\* process() takes for granted that "producers finished before we became
\* ready": whatever is queued or held has no unfinished producer.
ProducersFirst ==
    \A i \in Actions : (i \in ready \/ Holders(i) # {}) =>
        \A p \in deps[i] : outcomes[p] # Pending

\* Until the build aborts no action drops out of it: one that has not ended
\* is queued, held, or waits for a producer that has not ended either.
NothingLost ==
    ~abort => \A i \in Actions : outcomes[i] = Pending =>
        \/ i \in ready
        \/ Holders(i) # {}
        \/ \E p \in deps[i] : outcomes[p] = Pending

\* Every action is handed to one worker, once, after its producers, and none
\* is forgotten: what Engine::worker's two ways of taking an action and its
\* counters of unfinished producers are for.
EachOnceInOrder == OneOwner /\ ProducersFirst /\ NothingLost

\* No lost wake-up.  While there is work to do some worker is up; once there
\* is none, a worker that still sleeps is going to be woken by a broadcast.
NoStall ==
    /\ ~Finished => \E w \in Workers : pc[w] \notin {"asleep", "returned"}
    /\ Finished /\ Asleep # {} => \E w \in Workers : pc[w] = "broadcast"

\* The notify_one calls that are still to be made, each with its worker.
OwedCalls == UNION {{w} \X (1..signals[w]) : w \in Workers}

Lookers == {w \in Workers : pc[w] = "look"}

\* A worker sleeps only while every queued action has somebody on the way to
\* it: a worker about to look, or a notify_one somebody still owes.  The
\* engine wakes one worker per action that became runnable instead of all of
\* them and claims one itself, which must not leave parallelism unused.
NobodySleepsOnWork ==
    Asleep # {} =>
        Cardinality(ready) <= Cardinality(OwedCalls) + Cardinality(Lookers)

\* The report of a finished build: an action is skipped for a reason, and a
\* failure is never reported as success further down.
ReportIsSound ==
    report # <<>> =>
        LET bad(i) == \E p \in deps[i] : report[p] \in {"failed", "skipped"}
            dirty(i) == \E p \in deps[i] : report[p] \in {"would", "may"}
            failure == \E i \in Actions : report[i] = "failed"
        IN  \A i \in Actions :
              /\ bad(i) => report[i] = "skipped"
              /\ report[i] = "skipped" => bad(i) \/ (failure /\ ~keepGoing)
              /\ report[i] = "may" => dirty(i)
              /\ report[i] = "ok" => ~dirty(i)

\* Once the build has aborted no worker takes another action: what was
\* already being worked on ends, and that is all.
NothingStartsAfterAbort ==
    [][abort => \A w \in Workers : job'[w] \in {job[w], NoAction}]_vars

\* Every build ends: no interleaving leaves run() waiting for its workers.
EveryBuildReports == <>(report # <<>>)

\* What the workers hold: the actions being worked on.
Running == {job[w] : w \in Workers} \ {NoAction}

\* The threads implement the abstract build order.
Order == INSTANCE BuildOrder WITH
    Jobs <- Cardinality(Workers), running <- Running

ImplementsBuildOrder == Order!Spec

\* No action waits for itself: every group of actions has one that needs
\* nothing of the group.  Nothing in the scheduler checks it.
Acyclic(g) ==
    \A S \in SUBSET Actions : S # {} => \E i \in S : g[i] \cap S = {}
=============================================================================
