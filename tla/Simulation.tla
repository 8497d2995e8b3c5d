----------------------------- MODULE Simulation -----------------------------
(***************************************************************************)
(* Planning a build without running it: the durations a schedule assumes   *)
(* (Estimates), the critical path it reports (Schedule::plan), the         *)
(* discrete-event run of `frost simulate` (Schedule::simulate_against) and *)
(* the comparison of strategies (Sweep::run).                              *)
(*                                                                         *)
(* These are functions of the producer map `deps` that Scheduler chose for *)
(* the build; the simulation counts producers down and orders the queue    *)
(* as the engine does.  Recorded durations of actions outside the closure, *)
(* which the learned medians also see, are left out.                       *)
(***************************************************************************)
EXTENDS Scheduler, SequencesExt

CONSTANTS Kind,         \* the ActionKind of every action
          DefaultOf,    \* default_duration
          Recorded      \* durations in the journal, 0 where there is none

\* Actions are positions in vectors.
ASSUME PositionsAssumption == Actions = 0..Cardinality(Actions) - 1
ASSUME EstimatesAssumption ==
    /\ Recorded \in [Actions -> Nat]
    /\ \A i \in Actions : DefaultOf[Kind[i]] \in Nat \ {0}

Estimators == {"static", "heuristic", "journal", "learned"}
Schedulers == {"critical-path", "fifo"}

-----------------------------------------------------------------------------
(* Estimates: what an action is taken to last.                             *)

\* The actions of one kind that have a recorded duration.
Samples(kind) == {i \in Actions : Kind[i] = kind /\ Recorded[i] > 0}
NoLonger(samples, i) == {j \in samples : Recorded[j] <= Recorded[i]}

\* What stands in the middle when the durations are sorted, with an even number
\* of them the later one: the least that more than half do not exceed.
Median(samples) ==
    Min({Recorded[i] : i \in {j \in samples :
            Cardinality(NoLonger(samples, j)) > Cardinality(samples) \div 2}})

Estimate(e, i) ==
    CASE e = "static" -> 1
      [] e = "heuristic" -> DefaultOf[Kind[i]]
      [] e \in {"journal", "learned"} /\ Recorded[i] > 0 -> Recorded[i]
      [] e = "learned" /\ Recorded[i] = 0 /\ Samples(Kind[i]) # {} -> Median(Samples(Kind[i]))
      [] OTHER -> DefaultOf[Kind[i]]

Estimates(e) == [i \in Actions |-> Estimate(e, i)]

-----------------------------------------------------------------------------
(* Schedule::plan                                                          *)

SumOf(list) ==
    LET sum[k \in 0..Len(list)] == IF k = 0 THEN 0 ELSE sum[k - 1] + list[k]
    IN  sum[Len(list)]
Total(durations) == SumOf([k \in 1..Cardinality(Actions) |-> durations[k - 1]])
Highest(f) == Max({0} \cup {f[i] : i \in Actions})

CriticalPathMs(e) == Highest(LongestChain(Estimates(e)))

\* max_by_key returns the last of several maxima.
LastBest(S, f) ==
    CHOOSE i \in S : \A j \in S \ {i} : f[j] < f[i] \/ (f[j] = f[i] /\ j < i)

\* Mutant: the walk takes any dependent.
Mut_AnyDependent(route, chain) ==
    LET next == Dependents(Last(route)) IN
    IF next = {} THEN route ELSE Append(route, Min(next))
Step(route, chain) ==
    LET next == Dependents(Last(route)) IN
    IF next = {} THEN route ELSE Append(route, LastBest(next, chain))

\* The chain that a report names: from the best root, always to the best
\* dependent.  No chain is longer than the number of actions.
CriticalPath(e) ==
    LET chain == LongestChain(Estimates(e))
        roots == {i \in Actions : deps[i] = {}}
        route[k \in 0..Cardinality(Actions)] ==
            IF k = 0 THEN <<LastBest(roots, chain)>> ELSE Step(route[k - 1], chain)
    IN  IF roots = {} THEN <<>> ELSE route[Cardinality(Actions)]

\* FIFO forgets the priorities after the critical path has been computed.
Priorities(scheduler, e) ==
    IF scheduler = "fifo" THEN [i \in Actions |-> 0] ELSE LongestChain(Estimates(e))

-----------------------------------------------------------------------------
(* Schedule::simulate_against: list scheduling with a clock.  A simulation *)
(* is a record: the counters and the queue of the engine, the running      *)
(* actions with the time they end at, the clock and what has been done.    *)

Begun == [waiting |-> [i \in Actions |-> Cardinality(deps[i])],
          ready |-> {i \in Actions : deps[i] = {}},
          running |-> {}, now |-> 0, busy |-> 0, done |-> 0]

Best(heap, priority) ==
    CHOOSE i \in heap : \A j \in heap \ {i} :
        priority[i] > priority[j] \/ (priority[i] = priority[j] /\ i < j)

\* Mutant: one more than `jobs` is started.
Mut_Overfill(s, jobs, priority, lasts) ==
    IF Cardinality(s.running) > jobs \/ s.ready = {} THEN s
    ELSE LET i == Best(s.ready, priority) IN
         [s EXCEPT !.ready = @ \ {i},
                   !.running = @ \cup {[ends |-> s.now + lasts[i], action |-> i]},
                   !.busy = @ + lasts[i]]
Start(s, jobs, priority, lasts) ==
    IF Cardinality(s.running) >= jobs \/ s.ready = {} THEN s
    ELSE LET i == Best(s.ready, priority) IN
         [s EXCEPT !.ready = @ \ {i},
                   !.running = @ \cup {[ends |-> s.now + lasts[i], action |-> i]},
                   !.busy = @ + lasts[i]]

Fill(s, jobs, priority, lasts) ==
    LET filled[k \in 0..jobs] ==
            IF k = 0 THEN s ELSE Start(filled[k - 1], jobs, priority, lasts)
    IN  filled[jobs]

EarliestEnd(running) ==
    CHOOSE r \in running : \A q \in running \ {r} :
        r.ends < q.ends \/ (r.ends = q.ends /\ r.action < q.action)

\* The clock jumps to the next end, and the dependents are counted down.
Advance(s) ==
    LET r == EarliestEnd(s.running)
        left == [d \in Actions |->
                    IF d \in Dependents(r.action) THEN s.waiting[d] - 1 ELSE s.waiting[d]]
    IN  [s EXCEPT !.now = r.ends, !.done = @ + 1,
                  !.running = @ \ {r},
                  !.waiting = left,
                  !.ready = @ \cup {d \in Dependents(r.action) : left[d] = 0}]

\* Every round ends one action, or nothing is left to end.
Round(s, jobs, priority, lasts) ==
    LET filled == Fill(s, jobs, priority, lasts)
    IN  IF filled.running = {} THEN filled ELSE Advance(filled)
Simulated(jobs, priority, lasts) ==
    LET after[k \in 0..Cardinality(Actions)] ==
            IF k = 0 THEN Begun ELSE Round(after[k - 1], jobs, priority, lasts)
    IN  after[Cardinality(Actions)]

\* A point of Sweep::run: a strategy, scored against the recorded durations.
Point(scheduler, e, jobs) ==
    Simulated(jobs, Priorities(scheduler, e), Estimates("journal"))

-----------------------------------------------------------------------------
(* Properties, of the plan of a build that has not begun.                  *)

Planned == pending = Cardinality(Actions) /\ \A w \in Workers : pc[w] = "look"

\* What a sweep prints is possible: whatever order an estimator and a queue
\* discipline give, every action is run once, the workers are never kept
\* beyond what list scheduling allows, and "no schedule can finish faster
\* than the critical path" of the recorded durations.  With a worker for
\* every action the critical path is reached.
SimulationIsListScheduling ==
    Planned => \A scheduler \in Schedulers, e \in Estimators, jobs \in 1..Cardinality(Actions) :
        LET s == Point(scheduler, e, jobs)
            work == Total(Estimates("journal"))
            bound == CriticalPathMs("journal")
        IN  /\ s.done = Cardinality(Actions) /\ s.busy = work
            /\ s.now >= bound
            /\ jobs * s.now >= work
            /\ jobs * s.now <= work + (jobs - 1) * bound
            /\ jobs = Cardinality(Actions) => s.now = bound

\* The critical path a report names is a chain of actions each of which needs
\* the one before it, it lasts as long as the report says, and it is the
\* longest there is.
CriticalPathIsRealised ==
    Planned => \A e \in Estimators :
        LET route == CriticalPath(e)
            lasts(r) == SumOf([k \in DOMAIN r |-> Estimate(e, r[k])])
            chains == UNION {[1..n -> Actions] : n \in 1..Cardinality(Actions)}
            isChain(r) == \A n \in 1..Len(r) - 1 : r[n] \in deps[r[n + 1]]
        IN  /\ isChain(route)
            /\ lasts(route) = CriticalPathMs(e)
            /\ \A r \in chains : isChain(r) => lasts(r) <= CriticalPathMs(e)

\* A plan is one the engine could keep, and its critical path is real.
PlansAreSound == SimulationIsListScheduling /\ CriticalPathIsRealised
=============================================================================
