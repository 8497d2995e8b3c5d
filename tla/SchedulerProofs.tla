-------------------------- MODULE SchedulerProofs --------------------------
(***************************************************************************)
(* Proofs about Scheduler and Simulation, for every set of actions, number *)
(* of workers, dependency graph and duration estimate.                     *)
(*                                                                         *)
(* The inductive invariant adds to the checked invariants what makes them  *)
(* inductive: the two counters (`waiting`, `pending`) mean what they are   *)
(* used for, an ended action has ended producers, an aborted build has an  *)
(* empty queue, and a worker holds an action exactly where it should.      *)
(* Then comes what is recorded of the actions, that the threads implement  *)
(* BuildOrder, and last that what Simulation plans is what list scheduling *)
(* promises.                                                               *)
(***************************************************************************)
EXTENDS Simulation, FiniteSetTheorems, WellFoundedInduction, TLAPS

Unfinished == {i \in Actions : outcomes[i] = Pending}
PendingProducers(i) == {p \in deps[i] : outcomes[p] = Pending}

Counts ==
    /\ pending = Cardinality(Unfinished)
    /\ ~abort => \A i \in Actions :
                    waiting[i] = Cardinality(PendingProducers(i))

EndedInOrder ==
    \A i \in Actions : outcomes[i] # Pending => PendingProducers(i) = {}

QueueOK ==
    /\ \A i \in ready : outcomes[i] = Pending
    /\ abort => ready = {}

ThreadsOK ==
    \A w \in Workers :
        /\ pc[w] \in {"claimed", "working"} => job[w] # NoAction
        /\ pc[w] \in {"look", "asleep", "broadcast", "returned"} =>
              job[w] = NoAction
        /\ pc[w] = "returned" => Finished

IInv ==
    /\ TypeOK
    /\ OneOwner
    /\ ProducersFirst
    /\ NothingLost
    /\ Counts
    /\ EndedInOrder
    /\ QueueOK
    /\ ThreadsOK

-----------------------------------------------------------------------------

\* The sets that are counted are finite.
LEMMA FiniteCounts ==
    ASSUME TypeOK
    PROVE  /\ IsFiniteSet(Unfinished)
           /\ \A i \in Actions : IsFiniteSet(PendingProducers(i))
           /\ \A i \in Actions : deps[i] \subseteq Actions
<1>1. \A i \in Actions : deps[i] \subseteq Actions
  BY GraphsAssumption DEF TypeOK
<1>2. IsFiniteSet(Unfinished)
  <2>1. Unfinished \in SUBSET Actions
    BY DEF Unfinished
  <2> QED BY <2>1, FS_Subset, ActionsAssumption
<1>3. ASSUME NEW i \in Actions PROVE IsFiniteSet(PendingProducers(i))
  <2>1. PendingProducers(i) \in SUBSET Actions
    BY <1>1 DEF PendingProducers
  <2> QED BY <2>1, FS_Subset, ActionsAssumption
<1> QED BY <1>1, <1>2, <1>3

\* The initial state satisfies the invariant.
LEMMA InitIInv == ASSUME Init PROVE IInv
<1> USE DEF Init
<1>1. /\ deps \in [Actions -> SUBSET Actions]
      /\ \A i \in Actions : IsFiniteSet(deps[i])
  <2>1. deps \in [Actions -> SUBSET Actions]
    BY GraphsAssumption
  <2> QED BY <2>1, FS_Subset, ActionsAssumption
<1>2. TypeOK
  <2>1. waiting \in [Actions -> Nat]
    BY <1>1, FS_CardinalityType
  <2>2. pending \in Nat
    BY FS_CardinalityType, ActionsAssumption
  <2> QED BY <2>1, <2>2 DEF TypeOK
<1>3. Unfinished = Actions /\ \A i \in Actions : PendingProducers(i) = deps[i]
  BY <1>1 DEF Unfinished, PendingProducers
<1>4. Counts
  BY <1>3 DEF Counts
<1>5. OneOwner /\ ThreadsOK /\ QueueOK /\ EndedInOrder
  BY DEF OneOwner, ThreadsOK, QueueOK, EndedInOrder
<1>6. ProducersFirst
  BY NoneAssumption DEF ProducersFirst, Holders
<1>7. NothingLost
  BY <1>1 DEF NothingLost
<1> QED BY <1>2, <1>4, <1>5, <1>6, <1>7 DEF IInv

\* A step that touches neither the shared state nor what the workers hold
\* keeps the invariant if it keeps the types and the threads in order.
LEMMA QuietStep ==
    ASSUME IInv, UNCHANGED <<options, shared, job>>, TypeOK', ThreadsOK'
    PROVE  IInv'
<1> USE DEF options, shared
<1>1. Counts'
  BY DEF IInv, Counts, Unfinished, PendingProducers
<1>2. EndedInOrder' /\ QueueOK' /\ OneOwner'
  BY DEF IInv, EndedInOrder, QueueOK, OneOwner, PendingProducers
<1>3. ProducersFirst' /\ NothingLost'
  BY DEF IInv, ProducersFirst, NothingLost, Holders
<1> QED BY <1>1, <1>2, <1>3 DEF IInv

\* Popping the queue moves an action from it to the worker.
LEMMA ClaimStep ==
    ASSUME IInv, NEW w \in Workers, Claim(w)
    PROVE  IInv'
<1> USE DEF options
<1>1. PICK i \in ready : ready' = ready \ {i} /\ job' = [job EXCEPT ![w] = i]
  BY DEF Claim
<1>2. i \in Actions /\ i # NoAction /\ outcomes[i] = Pending /\ job[w] = NoAction
  BY <1>1, NoneAssumption DEF IInv, TypeOK, QueueOK, ThreadsOK, Claim
<1>3. \A v \in Workers : job[v] # i
  BY <1>1, <1>2 DEF IInv, OneOwner
<1>4. TypeOK'
  BY <1>1, <1>2 DEF IInv, TypeOK, Claim
<1>5. Counts' /\ EndedInOrder' /\ QueueOK'
  BY <1>1 DEF IInv, Counts, EndedInOrder, QueueOK, Unfinished,
              PendingProducers, Claim
<1>6. OneOwner'
  BY <1>1, <1>2, <1>3 DEF IInv, OneOwner, TypeOK, Claim
<1>7. ProducersFirst'
  BY <1>1, <1>2 DEF IInv, ProducersFirst, Holders, TypeOK, Claim
<1>8. NothingLost'
  <2> SUFFICES ASSUME ~abort', NEW j \in Actions, outcomes'[j] = Pending
               PROVE  \/ j \in ready'
                      \/ \E v \in Workers : job'[v] = j
                      \/ \E p \in deps'[j] : outcomes'[p] = Pending
    BY DEF NothingLost, Holders
  <2>1. CASE j = i
    BY <2>1, <1>1 DEF IInv, TypeOK
  <2>2. CASE j # i
    <3>1. \/ j \in ready \/ \E v \in Workers : job[v] = j
          \/ \E p \in deps[j] : outcomes[p] = Pending
      BY DEF IInv, NothingLost, Holders, Claim
    <3>2. \A v \in Workers : job[v] = j => job'[v] = j
      BY <1>1, <1>2, NoneAssumption DEF IInv, TypeOK
    <3> QED BY <3>1, <3>2, <2>2, <1>1 DEF Claim
  <2> QED BY <2>1, <2>2
<1>9. ThreadsOK'
  BY <1>1, <1>2 DEF IInv, ThreadsOK, TypeOK, Claim, Finished
<1> QED BY <1>4, <1>5, <1>6, <1>7, <1>8, <1>9 DEF IInv

\* What every way of ending an action does to the outcomes and to the count
\* of actions still pending.
LEMMA EndingFacts ==
    ASSUME IInv, NEW w \in Workers, NEW o, Ending(w, o)
    PROVE  /\ job[w] \in Actions /\ outcomes[job[w]] = Pending
           /\ outcomes' \in [Actions -> Outcomes \cup {Pending}]
           /\ \A i \in Actions : outcomes'[i] = Pending
                                  <=> outcomes[i] = Pending /\ i # job[w]
           /\ pending \in Nat \ {0}
           /\ pending' = Cardinality(Unfinished')
           /\ \A i \in Actions :
                  PendingProducers(i)' = PendingProducers(i) \ {job[w]}
           /\ EndedInOrder'
<1> DEFINE k == job[w]
<1>1. k \in Actions /\ outcomes[k] = Pending
  BY DEF IInv, TypeOK, ThreadsOK, OneOwner, Ending
<1>2. o \in Outcomes /\ o # Pending
  BY NoneAssumption DEF Ending, MayReport, WorkOutcomes, Outcomes
<1>3. outcomes' = [outcomes EXCEPT ![k] = o] /\ deps' = deps
  BY DEF Ending, options
<1>4. outcomes' \in [Actions -> Outcomes \cup {Pending}]
  BY <1>1, <1>2, <1>3 DEF IInv, TypeOK
<1>5. \A i \in Actions : outcomes'[i] = Pending
                          <=> outcomes[i] = Pending /\ i # k
  BY <1>1, <1>2, <1>3 DEF IInv, TypeOK
<1>6. Unfinished' = Unfinished \ {k} /\ k \in Unfinished
  BY <1>1, <1>5 DEF Unfinished
<1>7. pending \in Nat \ {0} /\ pending' = Cardinality(Unfinished')
  <2>1. IsFiniteSet(Unfinished)
    BY FiniteCounts DEF IInv
  <2>2. Cardinality(Unfinished \ {k}) = Cardinality(Unfinished) - 1
    BY <2>1, <1>6, FS_RemoveElement
  <2>3. Cardinality(Unfinished \ {k}) \in Nat /\ Cardinality(Unfinished) \in Nat
    BY <2>1, FS_RemoveElement, FS_CardinalityType
  <2> QED BY <2>2, <2>3, <1>6 DEF IInv, Counts, Ending
<1>8. ASSUME NEW i \in Actions
      PROVE  PendingProducers(i)' = PendingProducers(i) \ {k}
  <2>1. deps[i] \subseteq Actions
    BY FiniteCounts DEF IInv
  <2> QED BY <2>1, <1>3, <1>5 DEF PendingProducers
<1>9. EndedInOrder'
  <2> SUFFICES ASSUME NEW i \in Actions, outcomes'[i] # Pending
               PROVE  PendingProducers(i)' = {}
    BY DEF EndedInOrder
  <2>1. CASE i = k
    <3>1. PendingProducers(k) = {}
      BY <1>1 DEF IInv, ProducersFirst, Holders, PendingProducers
    <3> QED BY <3>1, <2>1, <1>8
  <2>2. CASE i # k
    BY <2>2, <1>5, <1>8 DEF IInv, EndedInOrder
  <2> QED BY <2>1, <2>2
<1> HIDE DEF k
<1>10. k = job[w]
  BY DEF k
<1> QED BY <1>1, <1>4, <1>5, <1>7, <1>8, <1>9, <1>10

\* Releasing the dependents keeps the counters right, and the actions released
\* are exactly those whose last pending producer has just ended.
LEMMA ReleaseFacts ==
    ASSUME IInv, NEW w \in Workers, NEW o, Ending(w, o), ~abort, Release(job[w])
    PROVE  /\ waiting' \in [Actions -> Nat]
           /\ \A i \in Actions : waiting'[i] = Cardinality(PendingProducers(i)')
           /\ \A d \in Released(job[w]) :
                 /\ d \in Actions /\ outcomes[d] = Pending /\ d # job[w]
                 /\ d \notin ready /\ \A v \in Workers : job[v] # d
                 /\ PendingProducers(d)' = {}
           /\ \A d \in Actions :
                 PendingProducers(d) = {job[w]} => d \in Released(job[w])
<1> DEFINE k == job[w]
<1>1. /\ k \in Actions /\ outcomes[k] = Pending
      /\ \A i \in Actions : PendingProducers(i)' = PendingProducers(i) \ {k}
  BY EndingFacts
<1>2. \A d \in Actions : d \in Dependents(k) <=> k \in PendingProducers(d)
  BY <1>1 DEF Dependents, PendingProducers
<1>3. /\ \A d \in Actions : IsFiniteSet(PendingProducers(d))
      /\ \A d \in Actions : waiting[d] = Cardinality(PendingProducers(d))
  BY FiniteCounts DEF IInv, Counts
<1>4. waiting' = [d \in Actions |->
                    IF d \in Dependents(k) THEN waiting[d] - 1 ELSE waiting[d]]
  BY DEF Release
<1>5. ASSUME NEW d \in Actions
      PROVE  waiting'[d] = Cardinality(PendingProducers(d)') /\ waiting'[d] \in Nat
  <2>1. Cardinality(PendingProducers(d) \ {k})
          = IF k \in PendingProducers(d) THEN Cardinality(PendingProducers(d)) - 1
            ELSE Cardinality(PendingProducers(d))
    BY <1>3, FS_RemoveElement
  <2>2. Cardinality(PendingProducers(d) \ {k}) \in Nat
    BY <1>3, FS_RemoveElement, FS_CardinalityType
  <2> QED BY <2>1, <2>2, <1>1, <1>2, <1>3, <1>4
<1>6. waiting' \in [Actions -> Nat]
  BY <1>4, <1>5
<1>7. ASSUME NEW d \in Actions
      PROVE  d \in Released(k) <=> PendingProducers(d) = {k}
  <2>1. Cardinality(PendingProducers(d)) = 1 <=> \E x : PendingProducers(d) = {x}
    BY <1>3, FS_Singleton
  <2>2. d \in Released(k)
          <=> k \in PendingProducers(d) /\ Cardinality(PendingProducers(d)) = 1
    BY <1>2, <1>3 DEF Released, Dependents
  <2> QED BY <2>1, <2>2
<1>8. ASSUME NEW d \in Released(k)
      PROVE  /\ d \in Actions /\ outcomes[d] = Pending /\ d # k
             /\ d \notin ready /\ \A v \in Workers : job[v] # d
             /\ PendingProducers(d)' = {}
  <2>1. d \in Actions
    BY DEF Released, Dependents
  <2>2. PendingProducers(d) = {k}
    BY <2>1, <1>7
  <2>3. outcomes[d] = Pending
    BY <2>1, <2>2 DEF IInv, EndedInOrder
  <2>4. d \notin ready /\ \A v \in Workers : job[v] # d
    BY <2>1, <2>2 DEF IInv, ProducersFirst, Holders, PendingProducers
  <2> QED BY <2>1, <2>2, <2>3, <2>4, <1>1
<1> QED BY <1>5, <1>6, <1>7, <1>8

\* After an action has ended, no worker's claim and no queued action is out
\* of place if what is queued (or handed to w) was queued or released before.
LEMMA Placement ==
    ASSUME IInv, NEW w \in Workers, NEW o, Ending(w, o),
           NEW next, job' = [job EXCEPT ![w] = next], next \notin ready',
           \A d \in ready' \cup ({next} \ {NoAction}) :
              /\ d \in Actions /\ outcomes[d] = Pending /\ d # job[w]
              /\ \A v \in Workers : job[v] # d
              /\ PendingProducers(d)' = {}
    PROVE  /\ job' \in [Workers -> Actions \cup {NoAction}]
           /\ OneOwner'
           /\ ProducersFirst'
           /\ \A i \in ready' : outcomes'[i] = Pending
<1> DEFINE k == job[w]
<1>1. /\ k \in Actions /\ outcomes[k] = Pending /\ k # NoAction
      /\ \A i \in Actions : outcomes'[i] = Pending
                            <=> outcomes[i] = Pending /\ i # k
      /\ \A i \in Actions :
            PendingProducers(i)' = PendingProducers(i) \ {k}
  BY EndingFacts, NoneAssumption
<1>2. job \in [Workers -> Actions \cup {NoAction}] /\ deps' = deps
  BY DEF IInv, TypeOK, Ending, options
<1>3. \A v \in Workers : job'[v] = IF v = w THEN next ELSE job[v]
  BY <1>2
<1>4. \A v \in Workers \ {w} : job[v] # k
  BY <1>1 DEF IInv, OneOwner
<1>5. OneOwner'
  <2> SUFFICES ASSUME NEW v \in Workers, job'[v] # NoAction
               PROVE  /\ job'[v] \notin ready'
                      /\ outcomes'[job'[v]] = Pending
                      /\ \A u \in Workers \ {v} : job'[u] # job'[v]
    BY DEF OneOwner
  <2>1. CASE v = w
    BY <2>1, <1>1, <1>3
  <2>2. CASE v # w
    <3>1. job'[v] = job[v] /\ job[v] \in Actions /\ job[v] # k
      BY <2>2, <1>2, <1>3, <1>4
    <3>2. outcomes[job[v]] = Pending /\ \A u \in Workers \ {v} : job[u] # job[v]
      BY <3>1 DEF IInv, OneOwner
    <3> QED BY <3>1, <3>2, <1>1, <1>3, <2>2
  <2> QED BY <2>1, <2>2
<1>6. ProducersFirst'
  <2> SUFFICES ASSUME NEW i \in Actions,
                      i \in ready' \/ \E v \in Workers : job'[v] = i
               PROVE  PendingProducers(i)' = {}
    BY DEF ProducersFirst, Holders, PendingProducers
  <2>1. CASE i \in ready' \/ i = next
    BY <2>1, NoneAssumption
  <2>2. CASE \E v \in Workers \ {w} : job[v] = i
    <3>1. PendingProducers(i) = {}
      BY <2>2 DEF IInv, ProducersFirst, Holders, PendingProducers
    <3> QED BY <3>1, <1>1
  <2> QED BY <2>1, <2>2, <1>3
<1>7. job' \in [Workers -> Actions \cup {NoAction}]
  BY <1>2
<1>8. \A i \in ready' : outcomes'[i] = Pending
  BY <1>1
<1> QED BY <1>5, <1>6, <1>7, <1>8

\* A failure that aborts the build.
LEMMA FinishAbortingStep ==
    ASSUME IInv, NEW w \in Workers, FinishAborting(w)
    PROVE  IInv'
<1>1. Ending(w, "failed") /\ abort' = TRUE /\ ready' = {} /\ waiting' = waiting
  BY DEF FinishAborting
<1>2. job' = [job EXCEPT ![w] = NoAction] /\ pc' = [pc EXCEPT ![w] = "broadcast"]
      /\ signals' = signals
  BY DEF FinishAborting, NoContinuation
<1>3. job' \in [Workers -> Actions \cup {NoAction}] /\ OneOwner' /\ ProducersFirst'
  BY <1>1, <1>2, Placement
<1>4. /\ outcomes' \in [Actions -> Outcomes \cup {Pending}] /\ EndedInOrder'
      /\ pending \in Nat \ {0} /\ pending' = pending - 1
      /\ pending' = Cardinality(Unfinished') /\ UNCHANGED <<options, report>>
  BY <1>1, EndingFacts DEF Ending
<1>5. upstream' = [upstream EXCEPT ![w] = "none"]
  BY <1>1 DEF Ending
<1>6. TypeOK'
  BY <1>1, <1>2, <1>3, <1>4, <1>5 DEF IInv, TypeOK, options
<1>7. Counts' /\ QueueOK' /\ NothingLost'
  BY <1>1, <1>4 DEF Counts, QueueOK, NothingLost
<1>8. ThreadsOK'
  BY <1>1, <1>2 DEF IInv, ThreadsOK, TypeOK, Finished
<1> QED BY <1>3, <1>4, <1>6, <1>7, <1>8 DEF IInv

\* An action that ends in a build already aborted.
LEMMA FinishAbortedStep ==
    ASSUME IInv, NEW w \in Workers, NEW o, FinishAborted(w, o)
    PROVE  IInv'
<1>1. Ending(w, o) /\ abort /\ UNCHANGED <<ready, waiting, abort>> /\ ready = {}
  BY DEF FinishAborted, IInv, QueueOK
<1>2. job' = [job EXCEPT ![w] = NoAction] /\ pc' = [pc EXCEPT ![w] = "broadcast"]
      /\ signals' = signals
  BY DEF FinishAborted, NoContinuation
<1>3. job' \in [Workers -> Actions \cup {NoAction}] /\ OneOwner' /\ ProducersFirst'
  BY <1>1, <1>2, Placement
<1>4. /\ outcomes' \in [Actions -> Outcomes \cup {Pending}] /\ EndedInOrder'
      /\ pending \in Nat \ {0} /\ pending' = pending - 1
      /\ pending' = Cardinality(Unfinished') /\ UNCHANGED <<options, report>>
  BY <1>1, EndingFacts DEF Ending
<1>5. upstream' = [upstream EXCEPT ![w] = "none"]
  BY <1>1 DEF Ending
<1>6. TypeOK'
  BY <1>1, <1>2, <1>3, <1>4, <1>5 DEF IInv, TypeOK, options
<1>7. Counts' /\ QueueOK' /\ NothingLost'
  BY <1>1, <1>4 DEF Counts, QueueOK, NothingLost
<1>8. ThreadsOK'
  BY <1>1, <1>2 DEF IInv, ThreadsOK, TypeOK, Finished
<1> QED BY <1>3, <1>4, <1>6, <1>7, <1>8 DEF IInv

\* Ending an action of a build that is not aborted: an action that waited for
\* it alone is released, and nothing else leaves its place.
LEMMA NothingLostStep ==
    ASSUME IInv, NEW w \in Workers, NEW o, Ending(w, o), ~abort, Release(job[w]),
           NEW next, job' = [job EXCEPT ![w] = next],
           ready \cup Released(job[w]) \subseteq ready' \cup {next}
    PROVE  NothingLost'
<1> DEFINE k == job[w]
<1>1. \A i \in Actions : /\ outcomes'[i] = Pending => outcomes[i] = Pending /\ i # k
                         /\ PendingProducers(i)' = PendingProducers(i) \ {k}
  BY EndingFacts
<1>2. \A v \in Workers : job'[v] = IF v = w THEN next ELSE job[v]
  BY DEF IInv, TypeOK
<1> SUFFICES ASSUME NEW i \in Actions, outcomes'[i] = Pending
             PROVE  \/ i \in ready' \/ \E v \in Workers : job'[v] = i
                    \/ PendingProducers(i)' # {}
  BY DEF NothingLost, Holders, PendingProducers
<1>3. \/ i \in ready \/ \E v \in Workers \ {w} : job[v] = i
      \/ PendingProducers(i) # {}
  BY <1>1 DEF IInv, NothingLost, Holders, PendingProducers
<1>4. CASE i \in ready
  BY <1>4, <1>2
<1>5. CASE \E v \in Workers \ {w} : job[v] = i
  BY <1>5, <1>2
<1>6. CASE PendingProducers(i) # {} /\ PendingProducers(i)' = {}
  <2>1. PendingProducers(i) = {k}
    BY <1>6, <1>1
  <2>2. i \in Released(k)
    BY <2>1, ReleaseFacts
  <2> QED BY <2>2, <1>2
<1> QED BY <1>3, <1>4, <1>5, <1>6

\* What is queued or released when an action ends may be handed out.
LEMMA QueuedInPlace ==
    ASSUME IInv, NEW w \in Workers, NEW o, Ending(w, o), ~abort, Release(job[w])
    PROVE  \A d \in ready \cup Released(job[w]) :
              /\ d \in Actions /\ outcomes[d] = Pending /\ d # job[w]
              /\ \A v \in Workers : job[v] # d
              /\ PendingProducers(d)' = {}
<1>1. ASSUME NEW d \in ready
      PROVE  /\ d \in Actions /\ outcomes[d] = Pending /\ d # job[w]
             /\ \A v \in Workers : job[v] # d
             /\ PendingProducers(d)' = {}
  <2>1. d \in Actions /\ outcomes[d] = Pending /\ PendingProducers(d) = {}
    BY DEF IInv, TypeOK, QueueOK, ProducersFirst, PendingProducers
  <2>2. \A v \in Workers : job[v] # d
    BY <2>1, NoneAssumption DEF IInv, OneOwner
  <2> QED BY <2>1, <2>2, EndingFacts
<1> QED BY <1>1, ReleaseFacts

\* The last action of a build.
LEMMA FinishLastStep ==
    ASSUME IInv, NEW w \in Workers, NEW o, FinishLast(w, o)
    PROVE  IInv'
<1>1. /\ Ending(w, o) /\ ~abort /\ abort' = abort /\ Release(job[w])
      /\ ready' = ready \cup Released(job[w]) /\ pending = 1
  BY DEF FinishLast
<1>2. job' = [job EXCEPT ![w] = NoAction] /\ pc' = [pc EXCEPT ![w] = "broadcast"]
      /\ signals' = signals
  BY DEF FinishLast, NoContinuation
<1>3. /\ outcomes' \in [Actions -> Outcomes \cup {Pending}] /\ EndedInOrder'
      /\ pending \in Nat \ {0} /\ pending' = pending - 1
      /\ pending' = Cardinality(Unfinished') /\ UNCHANGED <<options, report>>
      /\ upstream' = [upstream EXCEPT ![w] = "none"]
  BY <1>1, EndingFacts DEF Ending
<1>4. \A d \in ready' :
         /\ d \in Actions /\ outcomes[d] = Pending /\ d # job[w]
         /\ \A v \in Workers : job[v] # d
         /\ PendingProducers(d)' = {}
  BY <1>1, QueuedInPlace
<1>5. NoAction \notin ready'
  BY <1>4, NoneAssumption
<1>6. /\ job' \in [Workers -> Actions \cup {NoAction}] /\ OneOwner'
      /\ ProducersFirst' /\ \A i \in ready' : outcomes'[i] = Pending
  BY <1>1, <1>2, <1>4, <1>5, Placement
<1>7. waiting' \in [Actions -> Nat] /\ Counts'
  BY <1>1, <1>3, ReleaseFacts DEF Counts
<1>8. TypeOK'
  BY <1>1, <1>2, <1>3, <1>4, <1>6, <1>7 DEF IInv, TypeOK, options
<1>9. QueueOK'
  BY <1>1, <1>6 DEF QueueOK
<1>10. NothingLost'
  BY <1>1, <1>2, NothingLostStep
<1>11. ThreadsOK'
  BY <1>1, <1>2, <1>3 DEF IInv, ThreadsOK, TypeOK, Finished
<1> QED BY <1>3, <1>6, <1>7, <1>8, <1>9, <1>10, <1>11 DEF IInv

\* Any other action: its worker goes on with the best of what is queued.
LEMMA FinishAndGoOnStep ==
    ASSUME IInv, NEW w \in Workers, NEW o, FinishAndGoOn(w, o)
    PROVE  IInv'
<1> DEFINE heap == ready \cup Released(job[w])
<1>1. /\ Ending(w, o) /\ ~abort /\ abort' = abort /\ Release(job[w])
      /\ pc' = [pc EXCEPT ![w] = "signal"] /\ pending # 1
  BY DEF FinishAndGoOn
<1>2. PICK next \in heap \cup {NoAction} :
         /\ ready' = heap \ {next}
         /\ job' = [job EXCEPT ![w] = next]
         /\ signals' = [signals EXCEPT ![w] =
               Owed(Cardinality(Released(job[w])), IF next = NoAction THEN 0 ELSE 1)]
  BY DEF FinishAndGoOn
<1>3. /\ outcomes' \in [Actions -> Outcomes \cup {Pending}] /\ EndedInOrder'
      /\ pending \in Nat \ {0} /\ pending' = pending - 1
      /\ pending' = Cardinality(Unfinished') /\ UNCHANGED <<options, report>>
      /\ upstream' = [upstream EXCEPT ![w] = "none"]
  BY <1>1, EndingFacts DEF Ending
<1>4. \A d \in heap :
         /\ d \in Actions /\ outcomes[d] = Pending /\ d # job[w]
         /\ \A v \in Workers : job[v] # d
         /\ PendingProducers(d)' = {}
  BY <1>1, QueuedInPlace
<1>5. /\ job' \in [Workers -> Actions \cup {NoAction}] /\ OneOwner'
      /\ ProducersFirst' /\ \A i \in ready' : outcomes'[i] = Pending
  <2>1. next \notin ready' /\ ready' \cup ({next} \ {NoAction}) \subseteq heap
    BY <1>2
  <2>2. job' = [job EXCEPT ![w] = next]
    BY <1>2
  <2>3. \A d \in ready' \cup ({next} \ {NoAction}) :
           /\ d \in Actions /\ outcomes[d] = Pending /\ d # job[w]
           /\ \A v \in Workers : job[v] # d
           /\ PendingProducers(d)' = {}
    BY <2>1, <1>4
  <2> HIDE DEF heap
  <2> QED BY <2>1, <2>2, <2>3, <1>1, Placement
<1>6. waiting' \in [Actions -> Nat] /\ Counts'
  BY <1>1, <1>3, ReleaseFacts DEF Counts
<1>7. signals' \in [Workers -> Nat]
  <2>1. Released(job[w]) \in SUBSET Actions
    BY DEF Released, Dependents
  <2>2. Cardinality(Released(job[w])) \in Nat
    BY <2>1, ActionsAssumption, FS_Subset, FS_CardinalityType
  <2>3. \A c \in {0, 1} : Owed(Cardinality(Released(job[w])), c) \in Nat
    BY <2>2 DEF Owed
  <2> QED BY <1>2, <2>3 DEF IInv, TypeOK
<1>8. TypeOK'
  <2>1. ready' \subseteq Actions
    BY <1>2, <1>4
  <2>2. pending' \in Nat /\ pc' \in [Workers -> {"look", "claimed", "working",
                                 "signal", "broadcast", "asleep", "returned"}]
    BY <1>1, <1>3 DEF IInv, TypeOK
  <2>3. upstream' \in [Workers -> {"none", "clean", "dirty", "failed"}]
    BY <1>3 DEF IInv, TypeOK
  <2> HIDE DEF heap
  <2> QED BY <2>1, <2>2, <2>3, <1>1, <1>3, <1>5, <1>6, <1>7 DEF IInv, TypeOK, options
<1>9. QueueOK'
  BY <1>1, <1>5 DEF QueueOK
<1>10. NothingLost'
  BY <1>1, <1>2, NothingLostStep
<1>11. ThreadsOK'
  <2>1. \A v \in Workers : pc[v] # "returned"
    BY <1>1, <1>3 DEF IInv, ThreadsOK, Finished
  <2> QED BY <2>1, <1>1, <1>2 DEF IInv, ThreadsOK, TypeOK
<1> QED BY <1>3, <1>5, <1>6, <1>8, <1>9, <1>10, <1>11 DEF IInv

\* The steps that move a worker and nothing else.
LEMMA ThreadStep ==
    ASSUME IInv, NEW w \in Workers,
           Return(w) \/ Sleep(w) \/ Inspect(w) \/ NotifyOne(w) \/ Continue(w)
             \/ NotifyAll(w) \/ SpuriousWakeup(w)
    PROVE  IInv'
<1>1. CASE Return(w)
  <2>1. UNCHANGED <<options, shared, job>> /\ TypeOK'
    BY <1>1 DEF IInv, TypeOK, Return, options, shared
  <2>2. ThreadsOK'
    BY <1>1 DEF IInv, TypeOK, ThreadsOK, Finished, Return, shared
  <2> QED BY <2>1, <2>2, QuietStep
<1>2. CASE Sleep(w)
  <2>1. UNCHANGED <<options, shared, job>> /\ TypeOK'
    BY <1>2 DEF IInv, TypeOK, Sleep, options, shared
  <2>2. ThreadsOK'
    BY <1>2 DEF IInv, TypeOK, ThreadsOK, Finished, Sleep, shared
  <2> QED BY <2>1, <2>2, QuietStep
<1>3. CASE Inspect(w)
  <2>1. UNCHANGED <<options, shared, job>> /\ TypeOK'
    BY <1>3 DEF IInv, TypeOK, Inspect, UpstreamOf, options, shared
  <2>2. ThreadsOK'
    BY <1>3 DEF IInv, TypeOK, ThreadsOK, Finished, Inspect, shared
  <2> QED BY <2>1, <2>2, QuietStep
<1>4. CASE NotifyOne(w)
  <2>1. UNCHANGED <<options, shared, job>> /\ TypeOK'
    BY <1>4 DEF IInv, TypeOK, NotifyOne, Woken, Asleep, options, shared
  <2>2. ThreadsOK'
    BY <1>4 DEF IInv, TypeOK, ThreadsOK, Finished, NotifyOne, Woken, Asleep, shared
  <2> QED BY <2>1, <2>2, QuietStep
<1>5. CASE Continue(w)
  <2>1. UNCHANGED <<options, shared, job>> /\ TypeOK'
    BY <1>5 DEF IInv, TypeOK, Continue, options, shared
  <2>2. ThreadsOK'
    BY <1>5 DEF IInv, TypeOK, ThreadsOK, Finished, Continue, shared
  <2> QED BY <2>1, <2>2, QuietStep
<1>6. CASE NotifyAll(w)
  <2>1. UNCHANGED <<options, shared, job>> /\ TypeOK'
    BY <1>6 DEF IInv, TypeOK, NotifyAll, Woken, Asleep, options, shared
  <2>2. ThreadsOK'
    BY <1>6 DEF IInv, TypeOK, ThreadsOK, Finished, NotifyAll, Woken, Asleep, shared
  <2> QED BY <2>1, <2>2, QuietStep
<1>7. CASE SpuriousWakeup(w)
  <2>1. UNCHANGED <<options, shared, job>> /\ TypeOK'
    BY <1>7 DEF IInv, TypeOK, SpuriousWakeup, options, shared
  <2>2. ThreadsOK'
    BY <1>7 DEF IInv, TypeOK, ThreadsOK, Finished, SpuriousWakeup, shared
  <2> QED BY <2>1, <2>2, QuietStep
<1> QED BY <1>1, <1>2, <1>3, <1>4, <1>5, <1>6, <1>7

\* Joining the workers.
LEMMA JoinStep ==
    ASSUME IInv, Join
    PROVE  IInv'
<1>1. UNCHANGED <<options, shared, job, pc>> /\ ThreadsOK'
  BY DEF IInv, Join, threads, shared, ThreadsOK, Finished
<1>2. TypeOK'
  BY DEF IInv, TypeOK, Join, threads, shared, options, Outcomes
<1> QED BY <1>1, <1>2, QuietStep

\* Every step keeps the invariant.
LEMMA NextIInv ==
    ASSUME IInv, [Next]_vars
    PROVE  IInv'
<1>1. CASE UNCHANGED vars
  <2>1. UNCHANGED <<options, shared, job>> /\ TypeOK' /\ ThreadsOK'
    BY <1>1 DEF IInv, TypeOK, ThreadsOK, Finished, vars, options, shared, threads
  <2> QED BY <2>1, QuietStep
<1>2. ASSUME NEW w \in Workers, WorkerStep(w) \/ SpuriousWakeup(w)
      PROVE  IInv'
  <2>1. CASE Claim(w)
    BY <2>1, ClaimStep
  <2>2. CASE FinishAborting(w)
    BY <2>2, FinishAbortingStep
  <2>3. CASE \E o \in Outcomes : FinishAborted(w, o)
    BY <2>3, FinishAbortedStep
  <2>4. CASE \E o \in Outcomes : FinishLast(w, o)
    BY <2>4, FinishLastStep
  <2>5. CASE \E o \in Outcomes : FinishAndGoOn(w, o)
    BY <2>5, FinishAndGoOnStep
  <2>6. CASE Return(w) \/ Sleep(w) \/ Inspect(w) \/ NotifyOne(w) \/ Continue(w)
             \/ NotifyAll(w) \/ SpuriousWakeup(w)
    BY <2>6, ThreadStep
  <2> QED BY <1>2, <2>1, <2>2, <2>3, <2>4, <2>5, <2>6 DEF WorkerStep
<1>3. CASE Join
  BY <1>3, JoinStep
<1>4. CASE Reported
  BY <1>4, <1>1 DEF Reported
<1> QED BY <1>1, <1>2, <1>3, <1>4 DEF Next

-----------------------------------------------------------------------------

\* The properties below, with the counts and the order of the threads that
\* keep them true, hold of every state the workers can reach.
THEOREM InductiveInvariant == Spec => []IInv
<1>1. Init => IInv
  BY InitIInv
<1>2. IInv /\ [Next]_vars => IInv'
  BY NextIInv
<1> QED BY <1>1, <1>2, PTL DEF Spec

\* The shared state and the threads keep their types: in particular neither
\* `pending` nor an element of `waiting` goes below zero.
THEOREM TypeCorrect == Spec => []TypeOK
<1>1. IInv => TypeOK
  BY DEF IInv
<1> QED BY <1>1, InductiveInvariant, PTL

\* No action is handed to two workers, or handed out twice.
THEOREM OneOwnerHolds == Spec => []OneOwner
<1>1. IInv => OneOwner
  BY DEF IInv
<1> QED BY <1>1, InductiveInvariant, PTL

\* No action is handed out before all its producers have ended.
THEOREM ProducersFirstHolds == Spec => []ProducersFirst
<1>1. IInv => ProducersFirst
  BY DEF IInv
<1> QED BY <1>1, InductiveInvariant, PTL

\* No action drops out of a build that has not aborted.
THEOREM NothingLostHolds == Spec => []NothingLost
<1>1. IInv => NothingLost
  BY DEF IInv
<1> QED BY <1>1, InductiveInvariant, PTL

\* Every action is handed out once, in order, and none is forgotten.
THEOREM EachOnceInOrderHolds == Spec => []EachOnceInOrder
<1>1. OneOwner /\ ProducersFirst /\ NothingLost <=> EachOnceInOrder
  BY DEF EachOnceInOrder
<1> QED BY <1>1, OneOwnerHolds, ProducersFirstHolds, NothingLostHolds, PTL

\* A worker takes no action in a build that has aborted.
THEOREM NothingStartsAfterAbortHolds == Spec => NothingStartsAfterAbort
<1> DEFINE Quiet == abort => \A w \in Workers : job'[w] \in {job[w], NoAction}
<1>1. ASSUME IInv, [Next]_vars PROVE [Quiet]_vars
  <2> SUFFICES ASSUME abort, NEW v \in Workers
               PROVE  job'[v] \in {job[v], NoAction}
    OBVIOUS
  <2>1. ready = {} /\ job \in [Workers -> Actions \cup {NoAction}]
    BY <1>1 DEF IInv, QueueOK, TypeOK
  <2>2. CASE UNCHANGED vars
    BY <2>2 DEF vars, threads
  <2>3. ASSUME NEW w \in Workers, WorkerStep(w) \/ SpuriousWakeup(w)
        PROVE  job'[v] \in {job[v], NoAction}
    <3>1. ~Claim(w) /\ \A o \in Outcomes : ~FinishLast(w, o) /\ ~FinishAndGoOn(w, o)
      BY <2>1 DEF Claim, FinishLast, FinishAndGoOn
    <3>2. CASE FinishAborting(w) \/ \E o \in Outcomes : FinishAborted(w, o)
      BY <3>2, <2>1 DEF FinishAborting, FinishAborted, NoContinuation
    <3>3. CASE Return(w) \/ Sleep(w) \/ Inspect(w) \/ NotifyOne(w)
                 \/ Continue(w) \/ NotifyAll(w) \/ SpuriousWakeup(w)
      BY <3>3 DEF Return, Sleep, Inspect, NotifyOne, Continue, NotifyAll,
                  SpuriousWakeup
    <3> QED BY <2>3, <3>1, <3>2, <3>3 DEF WorkerStep
  <2>4. CASE Join \/ Reported
    BY <2>4 DEF Join, Reported, threads, vars
  <2> QED BY <1>1, <2>2, <2>3, <2>4 DEF Next
<1>2. IInv /\ [Next]_vars => [Quiet]_vars
  BY <1>1
<1> QED BY <1>2, InductiveInvariant, PTL DEF Spec, NothingStartsAfterAbort

-----------------------------------------------------------------------------
(* No lost wake-up.                                                        *)

Awake(w) == pc[w] \notin {"asleep", "returned"}

\* In a build that has not finished, somebody holds an action or one is queued:
\* the first unfinished action of an acyclic graph waits for nothing.
LEMMA WorkRemains ==
    ASSUME IInv, ~Finished, \A g \in Graphs : Acyclic(g)
    PROVE  ready # {} \/ \E w \in Workers : job[w] # NoAction
<1>1. Unfinished # {} /\ Unfinished \in SUBSET Actions
  BY FS_EmptySet DEF IInv, Counts, Finished, Unfinished
<1>2. PICK i \in Unfinished : deps[i] \cap Unfinished = {}
  BY <1>1 DEF IInv, TypeOK, Acyclic
<1>3. i \in Actions /\ outcomes[i] = Pending
  BY <1>2 DEF Unfinished
<1>4. ~\E p \in deps[i] : outcomes[p] = Pending
  BY <1>2, <1>3, FiniteCounts DEF IInv, Unfinished
<1>5. i \in ready \/ Holders(i) # {}
  BY <1>3, <1>4 DEF IInv, NothingLost, Finished
<1> QED BY <1>5, <1>3, NoneAssumption DEF Holders

\* No step puts the last worker that is up to sleep while work remains, or
\* leaves a sleeper behind when there is none.
LEMMA NoStallStep ==
    ASSUME IInv, NoStall, [Next]_vars, \A g \in Graphs : Acyclic(g)
    PROVE  NoStall'
<1>1. pc \in [Workers -> {"look", "claimed", "working", "signal",
                          "broadcast", "asleep", "returned"}]
  BY DEF IInv, TypeOK
<1>2. CASE UNCHANGED <<pc, abort, pending>>
  BY <1>2 DEF NoStall, Finished, Asleep
<1>3. ASSUME NEW w \in Workers, pc' = [pc EXCEPT ![w] = "broadcast"]
      PROVE  NoStall'
  BY <1>1, <1>3 DEF NoStall
<1>4. ASSUME NEW w \in Workers, UNCHANGED <<abort, pending>>, pc[w] # "broadcast",
             NEW to \in {"look", "claimed", "working", "signal"},
             pc' = [pc EXCEPT ![w] = to]
      PROVE  NoStall'
  BY <1>1, <1>4 DEF NoStall, Finished, Asleep
<1>5. ASSUME NEW w \in Workers, NEW o, FinishAndGoOn(w, o)
      PROVE  NoStall'
  <2>1. ~Finished' /\ pc'[w] = "signal"
    <3>1. pending \in Nat \ {0} /\ pending' = pending - 1
      BY <1>5, EndingFacts DEF FinishAndGoOn, Ending
    <3> QED BY <1>1, <1>5, <3>1 DEF FinishAndGoOn, Finished
  <2> QED BY <2>1 DEF NoStall
<1>6. ASSUME NEW w \in Workers, Sleep(w)
      PROVE  NoStall'
  <2>1. ~Finished /\ ~Finished' /\ ready = {} /\ job[w] = NoAction
    BY <1>6 DEF Sleep, Finished, shared, IInv, ThreadsOK
  <2>2. PICK v \in Workers : job[v] # NoAction
    BY <2>1, WorkRemains
  <2>3. v # w /\ pc[v] \notin {"asleep", "returned"}
    BY <2>1, <2>2 DEF IInv, ThreadsOK
  <2>4. pc'[v] = pc[v]
    BY <2>3, <1>1, <1>6 DEF Sleep
  <2> QED BY <2>1, <2>3, <2>4 DEF NoStall
<1>7. ASSUME NEW w \in Workers, Return(w)
      PROVE  NoStall'
  BY <1>1, <1>7 DEF NoStall, Finished, Asleep, Return, shared
<1>8. ASSUME NEW w \in Workers, NotifyOne(w)
      PROVE  NoStall'
  BY <1>1, <1>8 DEF NoStall, Finished, Asleep, NotifyOne, Woken, shared
<1>9. ASSUME NEW w \in Workers, NotifyAll(w)
      PROVE  NoStall'
  BY <1>1, <1>9 DEF NoStall, Finished, Asleep, NotifyAll, Woken, shared
<1>10. ASSUME NEW w \in Workers, WorkerStep(w) \/ SpuriousWakeup(w)
       PROVE  NoStall'
  <2>1. CASE Claim(w) \/ Inspect(w) \/ Continue(w) \/ SpuriousWakeup(w)
    BY <2>1, <1>4 DEF Claim, Inspect, Continue, SpuriousWakeup, shared
  <2>2. CASE FinishAborting(w) \/ \E o \in Outcomes :
                FinishAborted(w, o) \/ FinishLast(w, o)
    BY <2>2, <1>3 DEF FinishAborting, FinishAborted, FinishLast, NoContinuation
  <2> QED BY <1>10, <2>1, <2>2, <1>5, <1>6, <1>7, <1>8, <1>9 DEF WorkerStep
<1>11. CASE Join \/ Reported
  BY <1>11, <1>2 DEF Join, Reported, threads, shared, vars
<1>12. CASE UNCHANGED vars
  BY <1>12, <1>2 DEF vars, threads, shared
<1> QED BY <1>10, <1>11, <1>12 DEF Next

\* On acyclic graphs some worker is up while there is work, and the workers
\* asleep at the end are woken.
THEOREM NoStallHolds ==
    ASSUME \A g \in Graphs : Acyclic(g)
    PROVE  Spec => []NoStall
<1>1. Init => NoStall
  BY WorkersAssumption DEF Init, NoStall, Finished, Asleep
<1>2. IInv /\ NoStall /\ [Next]_vars => NoStall'
  BY NoStallStep
<1> QED BY <1>1, <1>2, InductiveInvariant, PTL DEF Spec

-----------------------------------------------------------------------------
(* Nobody sleeps on work.                                                  *)

\* Only a worker that has just released actions owes calls.
OwedBySignallers ==
    \A w \in Workers : signals[w] # 0 => pc[w] = "signal"

CallsOf(w, n) == {w} \X (1..n)

\* The sets that are counted here are finite too.
LEMMA CallsOfFinite ==
    ASSUME NEW w, NEW n \in Nat
    PROVE  IsFiniteSet(CallsOf(w, n)) /\ Cardinality(CallsOf(w, n)) = n
<1>1. IsFiniteSet(1..n) /\ Cardinality(1..n) = n
  BY FS_Interval
<1>2. IsFiniteSet({w}) /\ Cardinality({w}) = 1
  BY FS_Singleton
<1>3. /\ IsFiniteSet({w} \X (1..n))
      /\ Cardinality({w} \X (1..n)) = Cardinality({w}) * Cardinality(1..n)
  BY <1>1, <1>2, FS_Product
<1> QED BY <1>1, <1>2, <1>3 DEF CallsOf

\* The calls owed by the workers of a set, given what each of them owes.
CallsIn(S, owed) == UNION {CallsOf(v, owed[v]) : v \in S}

\* The calls owed are those of one worker and those of the others.
LEMMA CallsSplit ==
    ASSUME NEW owed \in [Workers -> Nat], NEW w \in Workers
    PROVE  /\ IsFiniteSet(CallsIn(Workers \ {w}, owed))
           /\ Cardinality(CallsIn(Workers, owed)) = Cardinality(CallsIn(Workers \ {w}, owed)) + owed[w]
<1> DEFINE Sets == {CallsOf(v, owed[v]) : v \in Workers \ {w}}
           f == [v \in Workers \ {w} |-> CallsOf(v, owed[v])]
<1>1. f \in Surjection(Workers \ {w}, Sets)
  BY DEF Surjection
<1>2. IsFiniteSet(Workers \ {w})
  BY WorkersAssumption, FS_RemoveElement
<1>3. IsFiniteSet(Sets)
  <2> HIDE DEF f, Sets
  <2> QED BY <1>1, <1>2, FS_Surjection
<1>4. \A T \in Sets : IsFiniteSet(T)
  BY CallsOfFinite
<1>5. IsFiniteSet(CallsIn(Workers \ {w}, owed))
  <2>1. CallsIn(Workers \ {w}, owed) = UNION Sets
    BY DEF CallsIn
  <2> HIDE DEF Sets
  <2> QED BY <2>1, <1>3, <1>4, FS_UNION
<1>6. CallsIn(Workers, owed) = CallsIn(Workers \ {w}, owed) \cup CallsOf(w, owed[w])
  BY DEF CallsIn, CallsOf
<1>7. CallsIn(Workers \ {w}, owed) \cap CallsOf(w, owed[w]) = {}
  BY DEF CallsIn, CallsOf
<1>8. owed[w] \in Nat
  OBVIOUS
<1>9. /\ IsFiniteSet(CallsOf(w, owed[w]))
      /\ Cardinality(CallsOf(w, owed[w])) = owed[w]
  BY <1>8, CallsOfFinite
<1>10. Cardinality(CallsIn(Workers \ {w}, owed) \cap CallsOf(w, owed[w])) = 0
  BY <1>7, FS_EmptySet
<1>11. Cardinality(CallsIn(Workers, owed))
         = Cardinality(CallsIn(Workers \ {w}, owed)) + Cardinality(CallsOf(w, owed[w]))
             - Cardinality(CallsIn(Workers \ {w}, owed) \cap CallsOf(w, owed[w]))
  BY <1>5, <1>6, <1>9, FS_Union
<1>12. Cardinality(CallsIn(Workers \ {w}, owed)) \in Nat
  BY <1>5, FS_CardinalityType
<1> QED BY <1>5, <1>8, <1>9, <1>10, <1>11, <1>12

\* One worker's count changes: the calls owed change by as much.
LEMMA CallsChange ==
    ASSUME signals \in [Workers -> Nat], NEW w \in Workers, NEW n \in Nat,
           signals' = [signals EXCEPT ![w] = n]
    PROVE  /\ Cardinality(OwedCalls) \in Nat
           /\ Cardinality(OwedCalls') \in Nat
           /\ Cardinality(OwedCalls') = Cardinality(OwedCalls) + n - signals[w]
<1>1. signals' \in [Workers -> Nat] /\ signals'[w] = n /\ signals[w] \in Nat
  OBVIOUS
<1>2. CallsIn(Workers \ {w}, signals') = CallsIn(Workers \ {w}, signals)
  <2>1. \A v \in Workers \ {w} : signals'[v] = signals[v]
    OBVIOUS
  <2> QED BY <2>1 DEF CallsIn
<1>3. OwedCalls = CallsIn(Workers, signals) /\ OwedCalls' = CallsIn(Workers, signals')
  BY DEF OwedCalls, CallsIn, CallsOf
<1>4. /\ IsFiniteSet(CallsIn(Workers \ {w}, signals))
      /\ Cardinality(CallsIn(Workers, signals))
           = Cardinality(CallsIn(Workers \ {w}, signals)) + signals[w]
  BY CallsSplit
<1>5. Cardinality(CallsIn(Workers, signals'))
        = Cardinality(CallsIn(Workers \ {w}, signals')) + signals'[w]
  BY <1>1, CallsSplit
<1>6. Cardinality(CallsIn(Workers \ {w}, signals)) \in Nat
  BY <1>4, FS_CardinalityType
<1> QED BY <1>1, <1>2, <1>3, <1>4, <1>5, <1>6

\* How the number of those who are about to look changes with one worker.
LEMMA LookersChange ==
    /\ IsFiniteSet(Lookers) /\ Cardinality(Lookers) \in Nat
    /\ \A w \in Workers :
          /\ w \notin Lookers => Cardinality(Lookers \cup {w}) = Cardinality(Lookers) + 1
          /\ w \in Lookers => Cardinality(Lookers \ {w}) = Cardinality(Lookers) - 1
<1>1. Lookers \in SUBSET Workers
  BY DEF Lookers
<1>2. IsFiniteSet(Lookers) /\ Cardinality(Lookers) \in Nat
  BY <1>1, WorkersAssumption, FS_Subset, FS_CardinalityType
<1>3. \A w : /\ Cardinality(Lookers \cup {w}) =
                  IF w \in Lookers THEN Cardinality(Lookers) ELSE Cardinality(Lookers) + 1
             /\ Cardinality(Lookers \ {w}) =
                  IF w \in Lookers THEN Cardinality(Lookers) - 1 ELSE Cardinality(Lookers)
  BY <1>2, FS_AddElement, FS_RemoveElement
<1> QED BY <1>2, <1>3

\* The queue before and after an action has ended, with what it released.
LEMMA QueueChange ==
    ASSUME IInv, NEW w \in Workers, NEW o, Ending(w, o), ~abort, Release(job[w]),
           NEW next, ready' = (ready \cup Released(job[w])) \ {next},
           next \in ready \cup Released(job[w])
    PROVE  /\ Cardinality(ready) \in Nat /\ Cardinality(ready') \in Nat
           /\ Cardinality(Released(job[w])) \in Nat
           /\ Cardinality(ready') =
                 Cardinality(ready) + Cardinality(Released(job[w])) - 1
<1> DEFINE R == Released(job[w])
<1>1. ready \in SUBSET Actions /\ R \in SUBSET Actions
  BY DEF IInv, TypeOK, Released, Dependents
<1>2. IsFiniteSet(ready) /\ IsFiniteSet(R)
  BY <1>1, ActionsAssumption, FS_Subset
<1>3. ready \cap R = {}
  BY ReleaseFacts
<1>4. Cardinality(ready \cap R) = 0
  BY <1>3, FS_EmptySet
<1> HIDE DEF R
<1>5. /\ Cardinality(ready) \in Nat /\ Cardinality(R) \in Nat
      /\ IsFiniteSet(ready \cup R)
      /\ Cardinality(ready \cup R) = Cardinality(ready) + Cardinality(R)
  <2>1. /\ IsFiniteSet(ready \cup R)
        /\ Cardinality(ready \cup R)
             = Cardinality(ready) + Cardinality(R) - Cardinality(ready \cap R)
    BY <1>2, FS_Union
  <2>2. Cardinality(ready) \in Nat /\ Cardinality(R) \in Nat
    BY <1>2, FS_CardinalityType
  <2> QED BY <2>1, <2>2, <1>4
<1>6. ready' = (ready \cup R) \ {next} /\ next \in ready \cup R
  BY DEF R
<1>7. /\ Cardinality(ready') = Cardinality(ready \cup R) - 1
      /\ IsFiniteSet(ready')
  <2> DEFINE H == ready \cup R
  <2>1. IsFiniteSet(H) /\ next \in H /\ ready' = H \ {next}
    BY <1>5, <1>6
  <2> HIDE DEF H
  <2>2. IsFiniteSet(H \ {next}) /\ Cardinality(H \ {next}) = Cardinality(H) - 1
    BY <2>1, FS_RemoveElement
  <2>3. ready' = H \ {next}
    BY <2>1
  <2> QED BY <2>2, <2>3 DEF H
<1>8. Cardinality(ready') \in Nat
  BY <1>7, FS_CardinalityType
<1> QED BY <1>5, <1>7, <1>8 DEF R

\* The counts stay naturals.
LEMMA CountsAreNaturals ==
    TypeOK => /\ Cardinality(ready) \in Nat
              /\ Cardinality(OwedCalls) \in Nat
              /\ Cardinality(Lookers) \in Nat
<1> SUFFICES ASSUME TypeOK
             PROVE  /\ Cardinality(ready) \in Nat
                    /\ Cardinality(OwedCalls) \in Nat
                    /\ Cardinality(Lookers) \in Nat
  OBVIOUS
<1>1. Cardinality(ready) \in Nat
  BY ActionsAssumption, FS_Subset, FS_CardinalityType DEF TypeOK
<1>2. Lookers \in SUBSET Workers
  BY DEF Lookers
<1>3. Cardinality(Lookers) \in Nat
  BY <1>2, WorkersAssumption, FS_Subset, FS_CardinalityType
<1>4. PICK w \in Workers : TRUE
  BY WorkersAssumption
<1>5. /\ OwedCalls = CallsIn(Workers, signals) /\ signals[w] \in Nat
      /\ signals \in [Workers -> Nat]
  BY DEF OwedCalls, CallsIn, CallsOf, TypeOK
<1>6. /\ IsFiniteSet(CallsIn(Workers \ {w}, signals))
      /\ Cardinality(OwedCalls)
           = Cardinality(CallsIn(Workers \ {w}, signals)) + signals[w]
  BY <1>5, CallsSplit
<1>7. Cardinality(CallsIn(Workers \ {w}, signals)) \in Nat
  BY <1>6, FS_CardinalityType
<1> QED BY <1>1, <1>3, <1>5, <1>6, <1>7

\* The wake-ups keep pace with the queue.
LEMMA NobodySleepsStep ==
    ASSUME IInv, OwedBySignallers, NobodySleepsOnWork, [Next]_vars
    PROVE  OwedBySignallers' /\ NobodySleepsOnWork'
<1>1. /\ pc \in [Workers -> {"look", "claimed", "working", "signal",
                             "broadcast", "asleep", "returned"}]
      /\ signals \in [Workers -> Nat] /\ TypeOK /\ TypeOK'
  BY NextIInv DEF IInv, TypeOK
<1>2. /\ Cardinality(ready) \in Nat /\ Cardinality(ready') \in Nat
      /\ Cardinality(OwedCalls) \in Nat /\ Cardinality(OwedCalls') \in Nat
      /\ Cardinality(Lookers) \in Nat /\ Cardinality(Lookers') \in Nat
  <2>1. (TypeOK => /\ Cardinality(ready) \in Nat
                   /\ Cardinality(OwedCalls) \in Nat
                   /\ Cardinality(Lookers) \in Nat)'
    BY CountsAreNaturals, PTL
  <2> QED BY <2>1, <1>1, CountsAreNaturals
<1>3. CASE UNCHANGED <<ready, signals, pc>>
  BY <1>3 DEF OwedBySignallers, NobodySleepsOnWork, Asleep, OwedCalls, Lookers
<1>4. ASSUME NEW w \in Workers, UNCHANGED <<ready, signals>>,
             NEW to, pc' = [pc EXCEPT ![w] = to], pc[w] # "look", to # "asleep",
             signals[w] = 0
      PROVE  OwedBySignallers' /\ NobodySleepsOnWork'
  <2>1. Cardinality(Lookers') >= Cardinality(Lookers)
    <3>1. w \in Workers /\ w \notin Lookers
      BY <1>4 DEF Lookers
    <3>2. Lookers' = Lookers \cup {w} \/ Lookers' = Lookers
      BY <1>1, <1>4 DEF Lookers
    <3>3. Cardinality(Lookers \cup {w}) = Cardinality(Lookers) + 1
      BY <3>1, LookersChange
    <3>4. CASE Lookers' = Lookers \cup {w}
      <4>1. Cardinality(Lookers') = Cardinality(Lookers) + 1
        BY <3>3, <3>4
      <4> QED BY <4>1, <1>2
    <3>5. CASE Lookers' = Lookers
      <4>1. Cardinality(Lookers') = Cardinality(Lookers)
        BY <3>5
      <4> QED BY <4>1, <1>2
    <3> QED BY <3>2, <3>4, <3>5
  <2>2. Asleep' \subseteq Asleep /\ OwedCalls' = OwedCalls
    BY <1>1, <1>4 DEF Asleep, OwedCalls
  <2> QED BY <2>1, <2>2, <1>1, <1>2, <1>4 DEF OwedBySignallers, NobodySleepsOnWork
<1>5. ASSUME NEW w \in Workers, UNCHANGED signals, signals[w] = 0,
             NEW to, pc' = [pc EXCEPT ![w] = to], ready' = {}
      PROVE  OwedBySignallers' /\ NobodySleepsOnWork'
  <2>1. Cardinality(ready') = 0
    BY <1>5, FS_EmptySet
  <2> QED BY <2>1, <1>1, <1>2, <1>5 DEF OwedBySignallers, NobodySleepsOnWork
<1>6. ASSUME NEW w \in Workers, Claim(w)
      PROVE  OwedBySignallers' /\ NobodySleepsOnWork'
  <2>1. PICK i \in ready : ready' = ready \ {i}
    BY <1>6 DEF Claim
  <2>2. Cardinality(ready') = Cardinality(ready) - 1
    BY <2>1, <1>1, ActionsAssumption, FS_Subset, FS_RemoveElement DEF TypeOK
  <2>3. pc' = [pc EXCEPT ![w] = "claimed"] /\ pc[w] = "look" /\ signals' = signals
    BY <1>6 DEF Claim
  <2>4. Cardinality(Lookers') = Cardinality(Lookers) - 1
    <3>1. Lookers' = Lookers \ {w} /\ w \in Lookers
      BY <2>3, <1>1 DEF Lookers
    <3> QED BY <3>1, LookersChange
  <2>5. Asleep' = Asleep /\ OwedCalls' = OwedCalls
    BY <2>3, <1>1 DEF Asleep, OwedCalls
  <2> QED BY <2>2, <2>3, <2>4, <2>5, <1>1, <1>2
          DEF OwedBySignallers, NobodySleepsOnWork
<1>7. ASSUME NEW w \in Workers, NEW o, FinishLast(w, o)
      PROVE  OwedBySignallers' /\ NobodySleepsOnWork'
  <2>1. /\ Ending(w, o) /\ ~abort /\ Release(job[w]) /\ pending' = pending - 1
        /\ ready' = ready \cup Released(job[w]) /\ pending = 1
    BY <1>7 DEF FinishLast, Ending
  <2>2. Unfinished' = {}
    <3>1. Cardinality(Unfinished') = 0
      BY <2>1, EndingFacts
    <3>2. Unfinished' \in SUBSET Unfinished
      BY <2>1, EndingFacts DEF Unfinished
    <3>3. IsFiniteSet(Unfinished')
      BY <3>2, FiniteCounts, FS_Subset DEF IInv
    <3> QED BY <3>1, <3>3, FS_EmptySet
  <2>3. \A d \in ready' : d \in Unfinished'
    <3>1. \A d \in ready' : d \in Actions /\ outcomes[d] = Pending /\ d # job[w]
      BY <2>1, QueuedInPlace
    <3> QED BY <3>1, <2>1, EndingFacts DEF Unfinished
  <2>4. pc' = [pc EXCEPT ![w] = "broadcast"] /\ signals' = signals
    BY <1>7 DEF FinishLast, NoContinuation
  <2>5. signals[w] = 0
    BY <2>1, <1>1 DEF OwedBySignallers, Ending
  <2> QED BY <2>2, <2>3, <2>4, <2>5, <1>5
<1>8. ASSUME NEW w \in Workers, NEW o, FinishAndGoOn(w, o)
      PROVE  OwedBySignallers' /\ NobodySleepsOnWork'
  <2> DEFINE R == Cardinality(Released(job[w]))
  <2>1. /\ Ending(w, o) /\ ~abort /\ Release(job[w]) /\ pc[w] = "working"
        /\ pc' = [pc EXCEPT ![w] = "signal"]
    BY <1>8 DEF FinishAndGoOn, Ending
  <2>2. PICK next \in (ready \cup Released(job[w])) \cup {NoAction} :
           /\ IF ready \cup Released(job[w]) = {} THEN next = NoAction
              ELSE next \in ready \cup Released(job[w])
           /\ ready' = (ready \cup Released(job[w])) \ {next}
           /\ signals' = [signals EXCEPT ![w] = Owed(R, IF next = NoAction THEN 0 ELSE 1)]
    BY <1>8 DEF FinishAndGoOn, PopsFrom
  <2>3. signals[w] = 0
    BY <2>1, <1>1 DEF OwedBySignallers
  <2>4. Asleep' = Asleep /\ Cardinality(Lookers') = Cardinality(Lookers)
    <3>1. Asleep' = Asleep
      BY <2>1, <1>1 DEF Asleep
    <3>2. Lookers' = Lookers
      BY <2>1, <1>1 DEF Lookers
    <3> QED BY <3>1, <3>2
  <2>5. OwedBySignallers'
    BY <2>1, <2>2, <1>1 DEF OwedBySignallers
  <2>6. CASE ready \cup Released(job[w]) = {}
    <3>1. Cardinality(ready') = 0
      BY <2>2, <2>6, FS_EmptySet
    <3> QED BY <3>1, <2>5, <1>2 DEF NobodySleepsOnWork
  <2>7. CASE ready \cup Released(job[w]) # {}
    <3>1. /\ R \in Nat
          /\ Cardinality(ready') = Cardinality(ready) + R - 1
      BY <2>1, <2>2, <2>7, QueueChange
    <3>2. next # NoAction
      BY <2>1, <2>2, <2>7, QueuedInPlace, NoneAssumption
    <3>3. PICK n \in Nat : n = Owed(R, 1) /\ n >= R - 1
      BY <3>1 DEF Owed
    <3> HIDE DEF R
    <3>4. Cardinality(OwedCalls') = Cardinality(OwedCalls) + n
      <4>1. signals' = [signals EXCEPT ![w] = n]
        BY <2>2, <3>2, <3>3
      <4>2. Cardinality(OwedCalls') = Cardinality(OwedCalls) + n - signals[w]
        BY <4>1, <1>1, CallsChange
      <4> QED BY <4>2, <2>3, <1>2
    <3> QED BY <3>1, <3>3, <3>4, <2>4, <2>5, <1>2 DEF NobodySleepsOnWork
  <2> QED BY <2>6, <2>7
<1>9. ASSUME NEW w \in Workers, NotifyOne(w)
      PROVE  OwedBySignallers' /\ NobodySleepsOnWork'
  <2>1. /\ pc[w] = "signal" /\ signals[w] > 0 /\ ready' = ready
        /\ signals' = [signals EXCEPT ![w] = signals[w] - 1]
    BY <1>9 DEF NotifyOne, shared
  <2>2. Cardinality(OwedCalls') = Cardinality(OwedCalls) - 1
    <3>1. signals[w] \in Nat /\ signals[w] - 1 \in Nat
      BY <2>1, <1>1
    <3>2. Cardinality(OwedCalls')
            = Cardinality(OwedCalls) + (signals[w] - 1) - signals[w]
      BY <3>1, <2>1, <1>1, CallsChange
    <3> QED BY <3>1, <3>2, <1>2
  <2>3. CASE Asleep = {} /\ UNCHANGED pc
    BY <2>1, <2>3, <1>1 DEF OwedBySignallers, NobodySleepsOnWork, Asleep
  <2>4. ASSUME NEW s \in Asleep, pc' = Woken({s})
        PROVE  OwedBySignallers' /\ NobodySleepsOnWork'
    <3>1. s \in Workers /\ pc[s] = "asleep" /\ s # w
          /\ pc' = [pc EXCEPT ![s] = "look"]
      BY <2>1, <2>4, <1>1 DEF Asleep, Woken
    <3>2. Cardinality(Lookers') = Cardinality(Lookers) + 1
      <4>1. Lookers' = Lookers \cup {s} /\ s \notin Lookers
        BY <3>1, <1>1 DEF Lookers
      <4> QED BY <3>1, <4>1, LookersChange
    <3>3. OwedBySignallers' /\ Asleep # {}
      BY <3>1, <2>1, <2>4, <1>1 DEF OwedBySignallers
    <3> QED BY <3>2, <3>3, <2>1, <2>2, <1>2 DEF NobodySleepsOnWork
  <2> QED BY <1>9, <2>3, <2>4 DEF NotifyOne
<1>10. ASSUME NEW w \in Workers, NotifyAll(w)
       PROVE  OwedBySignallers' /\ NobodySleepsOnWork'
  BY <1>1, <1>10 DEF OwedBySignallers, NobodySleepsOnWork, NotifyAll, Woken, Asleep
<1>11. ASSUME NEW w \in Workers, WorkerStep(w) \/ SpuriousWakeup(w)
       PROVE  OwedBySignallers' /\ NobodySleepsOnWork'
  <2>1. CASE Inspect(w) \/ Continue(w) \/ SpuriousWakeup(w)
    BY <2>1, <1>1, <1>4 DEF Inspect, Continue, SpuriousWakeup, shared, OwedBySignallers
  <2>2. CASE Return(w) \/ Sleep(w)
    BY <2>2, <1>1, <1>5 DEF Return, Sleep, shared, OwedBySignallers
  <2>3. CASE FinishAborting(w)
    BY <2>3, <1>1, <1>5 DEF FinishAborting, Ending, NoContinuation, OwedBySignallers
  <2>4. ASSUME NEW o, FinishAborted(w, o)
        PROVE  OwedBySignallers' /\ NobodySleepsOnWork'
    <3>1. ready' = {}
      BY <2>4 DEF FinishAborted, IInv, QueueOK
    <3> QED BY <3>1, <2>4, <1>1, <1>5
            DEF FinishAborted, Ending, NoContinuation, OwedBySignallers
  <2> QED BY <1>11, <2>1, <2>2, <2>3, <2>4, <1>6, <1>7, <1>8, <1>9, <1>10
          DEF WorkerStep
<1>12. CASE Join \/ Reported \/ UNCHANGED vars
  BY <1>12, <1>3 DEF Join, Reported, vars, threads, shared
<1> QED BY <1>11, <1>12 DEF Next

\* While an action is queued nobody sleeps that is needed for it: enough
\* workers are about to look, or are still owed a call of notify_one.
THEOREM NobodySleepsOnWorkHolds == Spec => []NobodySleepsOnWork
<1>1. Init => OwedBySignallers /\ NobodySleepsOnWork
  BY DEF Init, OwedBySignallers, NobodySleepsOnWork, Asleep
<1>2. IInv /\ OwedBySignallers /\ NobodySleepsOnWork /\ [Next]_vars
        => OwedBySignallers' /\ NobodySleepsOnWork'
  BY NobodySleepsStep
<1> QED BY <1>1, <1>2, InductiveInvariant, PTL DEF Spec

-----------------------------------------------------------------------------
(* The threads implement BuildOrder, and what run() reports is what        *)
(* BuildOrder promises.  The invariant above is about who holds which      *)
(* action; RecordOK, below, about what is recorded of it: the flag `abort` *)
(* stands for a recorded failure, what a worker read of the producers is   *)
(* still so when it uses it, and every recorded outcome is one its         *)
(* producers allow.                                                        *)

\* What run() makes of the outcomes.
FinalReport ==
    [i \in Actions |-> IF outcomes[i] = Pending THEN "skipped" ELSE outcomes[i]]

AbortIsFailure == abort <=> Order!Stopped

StillUpstream ==
    \A w \in Workers : pc[w] = "working" => upstream[w] = UpstreamOf(job[w])

OutcomesAreLegal ==
    \A i \in Actions, o \in Outcomes : outcomes[i] = o => Order!Legal(i, o)

ReportIsFinal ==
    report # <<>> => /\ \A w \in Workers : pc[w] = "returned"
                     /\ report = FinalReport

RecordOK ==
    /\ AbortIsFailure
    /\ StillUpstream
    /\ OutcomesAreLegal
    /\ ReportIsFinal

-----------------------------------------------------------------------------
(* The lemmas.                                                             *)

\* Nothing is recorded when a build starts.
LEMMA InitRecordOK == ASSUME Init PROVE RecordOK
<1>1. AbortIsFailure
  BY NoneAssumption DEF Init, AbortIsFailure, Order!Stopped
<1>2. StillUpstream /\ OutcomesAreLegal /\ ReportIsFinal
  BY NoneAssumption DEF Init, Outcomes, StillUpstream, OutcomesAreLegal, ReportIsFinal
<1> QED BY <1>1, <1>2 DEF RecordOK

\* What process() may report of an action is what BuildOrder allows.
LEMMA ReportsLegally ==
    ASSUME IInv, RecordOK, NEW w \in Workers, NEW o, Ending(w, o)
    PROVE  o \in Outcomes /\ o # Pending /\ Order!Legal(job[w], o)
<1>1. pc[w] = "working" /\ MayReport(w, o)
  BY DEF Ending
<1>2. upstream[w] = UpstreamOf(job[w])
  BY <1>1 DEF RecordOK, StillUpstream
<1>3. o \in Outcomes /\ o # Pending
  BY <1>1, NoneAssumption DEF MayReport, WorkOutcomes, Outcomes
<1>4. Order!Legal(job[w], o)
  BY <1>1, <1>2 DEF MayReport, WorkOutcomes, UpstreamOf, Order!Legal
<1> QED BY <1>3, <1>4

\* The producers of an action that has ended, or that somebody holds, ended
\* before: what was read of them cannot change any more.
LEMMA ProducersSettled ==
    ASSUME IInv, NEW w \in Workers, NEW o, Ending(w, o), NEW i \in Actions,
           PendingProducers(i) = {}
    PROVE  /\ deps'[i] = deps[i]
           /\ \A p \in deps[i] : outcomes'[p] = outcomes[p]
<1>1. outcomes[job[w]] = Pending /\ job[w] \in Actions
  BY EndingFacts
<1>2. deps[i] \subseteq Actions
  BY FiniteCounts DEF IInv
<1>3. \A p \in deps[i] : p # job[w]
  BY <1>1 DEF PendingProducers
<1> QED BY <1>1, <1>2, <1>3 DEF Ending, options, IInv, TypeOK

\* Recording an outcome keeps the record in order, if the build is aborted
\* exactly when it has to be and nobody starts to work at once.
LEMMA EndingRecord ==
    ASSUME IInv, RecordOK, NEW w \in Workers, NEW o, Ending(w, o),
           abort' <=> abort \/ Aborts(o),
           NEW to \in {"broadcast", "signal"}, pc' = [pc EXCEPT ![w] = to],
           \A v \in Workers \ {w} : job'[v] = job[v]
    PROVE  RecordOK'
<1> DEFINE k == job[w]
<1>1. /\ k \in Actions /\ outcomes[k] = Pending
      /\ outcomes' = [outcomes EXCEPT ![k] = o]
      /\ UNCHANGED <<deps, keepGoing, dryRun, report>>
      /\ upstream' = [upstream EXCEPT ![w] = "none"]
  BY EndingFacts DEF Ending, options
<1>2. /\ outcomes \in [Actions -> Outcomes \cup {Pending}]
      /\ pc \in [Workers -> {"look", "claimed", "working", "signal",
                             "broadcast", "asleep", "returned"}]
      /\ upstream \in [Workers -> {"none", "clean", "dirty", "failed"}]
  BY DEF IInv, TypeOK
<1>3. o \in Outcomes /\ o # Pending /\ Order!Legal(k, o)
  BY ReportsLegally
<1>4. AbortIsFailure'
  BY <1>1, <1>2, <1>3, NoneAssumption
     DEF RecordOK, AbortIsFailure, Order!Stopped, Aborts
<1>5. ASSUME NEW i \in Actions, PendingProducers(i) = {}
      PROVE  /\ UpstreamOf(i)' = UpstreamOf(i)
             /\ \A r : Order!Legal(i, r)' <=> Order!Legal(i, r)
  <2>1. /\ deps'[i] = deps[i] /\ dryRun' = dryRun
        /\ \A p \in deps[i] : outcomes'[p] = outcomes[p]
    BY <1>1, <1>5, ProducersSettled
  <2>2. UpstreamOf(i)' = UpstreamOf(i)
    BY <2>1 DEF UpstreamOf
  <2>3. ASSUME NEW r PROVE Order!Legal(i, r)' <=> Order!Legal(i, r)
    BY <2>1 DEF Order!Legal
  <2> QED BY <2>2, <2>3
<1>6. StillUpstream'
  <2> SUFFICES ASSUME NEW v \in Workers, pc'[v] = "working"
               PROVE  upstream'[v] = UpstreamOf(job[v])' /\ job'[v] = job[v]
    BY DEF StillUpstream, UpstreamOf
  <2>1. v # w /\ pc[v] = "working" /\ job'[v] = job[v]
    BY <1>2
  <2>2. job[v] \in Actions /\ PendingProducers(job[v]) = {}
    BY <2>1 DEF IInv, TypeOK, ThreadsOK, ProducersFirst, Holders, PendingProducers
  <2>3. upstream'[v] = upstream[v] /\ upstream[v] = UpstreamOf(job[v])
    BY <2>1, <1>1, <1>2 DEF RecordOK, StillUpstream
  <2> QED BY <2>1, <2>2, <2>3, <1>5 DEF UpstreamOf
<1>7. OutcomesAreLegal'
  <2> SUFFICES ASSUME NEW i \in Actions, NEW r \in Outcomes, outcomes'[i] = r
               PROVE  Order!Legal(i, r)'
    BY DEF OutcomesAreLegal
  <2>1. CASE i = k
    <3>1. PendingProducers(k) = {}
      BY <1>1 DEF IInv, ProducersFirst, Holders, PendingProducers
    <3> QED BY <3>1, <2>1, <1>1, <1>2, <1>3, <1>5
  <2>2. CASE i # k
    <3>1. outcomes[i] = r /\ r # Pending
      BY <2>2, <1>1, <1>2, NoneAssumption DEF Outcomes
    <3>2. PendingProducers(i) = {}
      BY <3>1 DEF IInv, EndedInOrder
    <3>3. Order!Legal(i, r)
      BY <3>1 DEF RecordOK, OutcomesAreLegal
    <3> QED BY <3>2, <3>3, <1>5
  <2> QED BY <2>1, <2>2
<1>8. ReportIsFinal'
  BY <1>1 DEF RecordOK, ReportIsFinal, Ending
<1> QED BY <1>4, <1>6, <1>7, <1>8 DEF RecordOK

\* A step that records nothing keeps the record in order, if nobody starts to
\* work by it and a finished report stays as it is.
LEMMA QuietRecord ==
    ASSUME IInv, RecordOK, UNCHANGED <<options, outcomes, abort>>,
           \A v \in Workers : pc'[v] = "working" =>
              /\ pc[v] = "working"
              /\ upstream'[v] = upstream[v] /\ job'[v] = job[v],
           ReportIsFinal'
    PROVE  RecordOK'
<1> USE DEF options
<1>1. AbortIsFailure' /\ OutcomesAreLegal'
  BY DEF RecordOK, AbortIsFailure, OutcomesAreLegal, Order!Stopped, Order!Legal
<1>2. StillUpstream'
  BY DEF RecordOK, StillUpstream, UpstreamOf
<1> QED BY <1>1, <1>2 DEF RecordOK

\* A worker that moves shows that the workers have not been joined.
LEMMA NotJoined ==
    ASSUME RecordOK, NEW w \in Workers, pc[w] # "returned", UNCHANGED report
    PROVE  ReportIsFinal'
BY DEF RecordOK, ReportIsFinal

\* The steps of the workers that record nothing.
LEMMA ThreadRecord ==
    ASSUME IInv, RecordOK, NEW w \in Workers,
           Claim(w) \/ Return(w) \/ Sleep(w) \/ Inspect(w) \/ NotifyOne(w)
             \/ Continue(w) \/ NotifyAll(w) \/ SpuriousWakeup(w)
    PROVE  RecordOK'
<1> USE DEF shared
<1>1. /\ UNCHANGED <<options, outcomes, abort>> /\ pc[w] # "returned"
      /\ UNCHANGED report
  BY DEF Claim, Return, Sleep, Inspect, NotifyOne, Continue, NotifyAll,
         SpuriousWakeup
<1>2. ReportIsFinal'
  BY <1>1, NotJoined
<1>3. /\ pc \in [Workers -> {"look", "claimed", "working", "signal",
                             "broadcast", "asleep", "returned"}]
      /\ job \in [Workers -> Actions \cup {NoAction}]
      /\ upstream \in [Workers -> {"none", "clean", "dirty", "failed"}]
  BY DEF IInv, TypeOK
<1>4. CASE Inspect(w)
  <2>1. AbortIsFailure' /\ OutcomesAreLegal'
    BY <1>1 DEF RecordOK, AbortIsFailure, OutcomesAreLegal, options,
                Order!Stopped, Order!Legal
  <2>2. \A v \in Workers : UpstreamOf(job[v])' = UpstreamOf(job[v])
    BY <1>1, <1>4 DEF Inspect, UpstreamOf, options
  <2>3. StillUpstream'
    BY <2>2, <1>3, <1>4 DEF RecordOK, StillUpstream, Inspect
  <2> QED BY <2>1, <2>3, <1>2 DEF RecordOK
<1>5. CASE ~Inspect(w)
  <2>1. \A v \in Workers : pc'[v] = "working" => pc[v] = "working"
    BY <1>3, <1>5 DEF Claim, Return, Sleep, NotifyOne, Continue, NotifyAll,
                      SpuriousWakeup, Woken
  <2>2. \A v \in Workers : pc[v] = "working" =>
           upstream'[v] = upstream[v] /\ job'[v] = job[v]
    BY <1>3, <1>5 DEF Claim, Return, Sleep, NotifyOne, Continue, NotifyAll,
                      SpuriousWakeup
  <2> QED BY <2>1, <2>2, <1>1, <1>2, QuietRecord
<1> QED BY <1>4, <1>5

\* The four ways in which an action ends.
LEMMA FinishRecord ==
    ASSUME IInv, RecordOK, NEW w \in Workers, NEW o,
           \/ FinishAborting(w) \/ FinishAborted(w, o)
           \/ FinishLast(w, o) \/ FinishAndGoOn(w, o)
    PROVE  RecordOK'
<1>1. CASE FinishAborting(w)
  BY <1>1, EndingRecord DEF FinishAborting, NoContinuation, Aborts, IInv, TypeOK
<1>2. CASE FinishAborted(w, o)
  BY <1>2, EndingRecord DEF FinishAborted, NoContinuation, IInv, TypeOK
<1>3. CASE FinishLast(w, o)
  BY <1>3, EndingRecord DEF FinishLast, NoContinuation, IInv, TypeOK
<1>4. CASE FinishAndGoOn(w, o)
  BY <1>4, EndingRecord DEF FinishAndGoOn, IInv, TypeOK
<1> QED BY <1>1, <1>2, <1>3, <1>4

\* Joining the workers reports what was recorded.
LEMMA JoinRecord ==
    ASSUME IInv, RecordOK, Join
    PROVE  RecordOK'
<1>1. ReportIsFinal'
  BY DEF Join, ReportIsFinal, FinalReport, threads, shared
<1> QED BY <1>1, QuietRecord DEF Join, threads, shared

\* Every step keeps the record in order.
LEMMA NextRecordOK ==
    ASSUME IInv, RecordOK, [Next]_vars
    PROVE  RecordOK'
<1>1. CASE UNCHANGED vars
  <2>1. ReportIsFinal'
    BY <1>1 DEF RecordOK, ReportIsFinal, FinalReport, vars, shared, threads
  <2> QED BY <2>1, <1>1, QuietRecord DEF vars, shared, threads
<1>2. ASSUME NEW w \in Workers, WorkerStep(w) \/ SpuriousWakeup(w)
      PROVE  RecordOK'
  BY <1>2, ThreadRecord, FinishRecord DEF WorkerStep
<1>3. CASE Join
  BY <1>3, JoinRecord
<1>4. CASE Reported
  BY <1>4, <1>1 DEF Reported
<1> QED BY <1>1, <1>2, <1>3, <1>4 DEF Next

-----------------------------------------------------------------------------
(* What is reported.                                                       *)

\* The two invariants together, which is what the theorems below need.
THEOREM RecordInvariant == Spec => [](IInv /\ RecordOK)
<1>1. Init => RecordOK
  BY InitRecordOK
<1>2. IInv /\ RecordOK /\ [Next]_vars => RecordOK'
  BY NextRecordOK
<1> QED BY <1>1, <1>2, InductiveInvariant, PTL DEF Spec

\* An action is reported as skipped because a producer failed or was skipped,
\* or because the build was told not to go on after a failure; no failure is
\* reported as a success further down.
THEOREM ReportIsSoundHolds == Spec => []ReportIsSound
<1>1. ASSUME IInv, RecordOK
      PROVE  ReportIsSound
  <2> SUFFICES ASSUME report # <<>>, NEW i \in Actions
               PROVE  LET bad == \E p \in deps[i] : report[p] \in {"failed", "skipped"}
                          dirty == \E p \in deps[i] : report[p] \in {"would", "may"}
                          failure == \E j \in Actions : report[j] = "failed"
                      IN  /\ bad => report[i] = "skipped"
                          /\ report[i] = "skipped" => bad \/ (failure /\ ~keepGoing)
                          /\ report[i] = "may" => dirty
                          /\ report[i] = "ok" => ~dirty
    BY DEF ReportIsSound
  <2>1. /\ \A j \in Actions : report[j] = IF outcomes[j] = Pending THEN "skipped"
                                          ELSE outcomes[j]
        /\ \A w \in Workers : pc[w] = "returned"
    BY <1>1 DEF RecordOK, ReportIsFinal, FinalReport
  <2>2. Finished
    BY <2>1, <1>1, WorkersAssumption DEF IInv, ThreadsOK
  <2>3. deps[i] \subseteq Actions /\ outcomes \in [Actions -> Outcomes \cup {Pending}]
    BY <1>1, FiniteCounts DEF IInv, TypeOK
  <2>4. CASE outcomes[i] = Pending
    <3>1. Unfinished # {} /\ IsFiniteSet(Unfinished)
      BY <2>4, <1>1, FiniteCounts DEF Unfinished, IInv
    <3>2. pending # 0
      BY <3>1, <1>1, FS_EmptySet DEF IInv, Counts
    <3>3. ~keepGoing /\ \E j \in Actions : outcomes[j] = "failed"
      BY <3>2, <2>2, <1>1 DEF Finished, RecordOK, AbortIsFailure, Order!Stopped
    <3>4. \E j \in Actions : report[j] = "failed"
      BY <3>3, <2>1, NoneAssumption
    <3> QED BY <3>3, <3>4, <2>1, <2>4
  <2>5. CASE outcomes[i] # Pending
    <3>1. \A p \in deps[i] : report[p] = outcomes[p] /\ outcomes[p] # Pending
      BY <2>1, <2>3, <2>5, <1>1 DEF IInv, EndedInOrder, PendingProducers
    <3>2. report[i] = outcomes[i] /\ Order!Legal(i, report[i])
      BY <2>1, <2>3, <2>5, <1>1 DEF RecordOK, OutcomesAreLegal
    <3> QED BY <3>1, <3>2 DEF Order!Legal
  <2> QED BY <2>4, <2>5
<1>2. IInv /\ RecordOK => ReportIsSound
  BY <1>1
<1> QED BY <1>2, RecordInvariant, PTL

-----------------------------------------------------------------------------
(* The refinement.                                                         *)

\* BuildOrder counts as Scheduler does.
LEMMA SameCardinality == \A S : Order!Cardinality(S) = Cardinality(S)
BY DEF Cardinality, Order!Cardinality

\* A worker that holds nothing leaves room for one more action.
LEMMA RoomForOne ==
    ASSUME IInv, NEW w \in Workers, job[w] = NoAction
    PROVE  Cardinality(Running) < Cardinality(Workers)
<1> DEFINE Busy == {v \in Workers : job[v] # NoAction}
           Held == [v \in Busy |-> job[v]]
<1>1. Busy \in SUBSET (Workers \ {w})
  OBVIOUS
<1>2. /\ IsFiniteSet(Workers \ {w})
      /\ Cardinality(Workers \ {w}) = Cardinality(Workers) - 1
      /\ Cardinality(Workers) \in Nat
  BY FS_RemoveElement, FS_CardinalityType, WorkersAssumption
<1>3. IsFiniteSet(Busy) /\ Cardinality(Busy) <= Cardinality(Workers \ {w})
  BY <1>1, <1>2, FS_Subset
<1>4. Held \in Surjection(Busy, Running)
  BY DEF Surjection, Running
<1>5. IsFiniteSet(Running) /\ Cardinality(Running) <= Cardinality(Busy)
  BY <1>3, <1>4, FS_Surjection
<1>6. Cardinality(Running) \in Nat /\ Cardinality(Busy) \in Nat
  BY <1>3, <1>5, FS_CardinalityType
<1> HIDE DEF Busy
<1> QED BY <1>2, <1>3, <1>5, <1>6

\* Taking an action off the queue starts it.
LEMMA ClaimStarts ==
    ASSUME IInv, RecordOK, NEW w \in Workers, Claim(w)
    PROVE  \E i \in Actions : Order!Start(i)
<1>1. PICK i \in ready : job' = [job EXCEPT ![w] = i]
  BY DEF Claim
<1>2. /\ i \in Actions /\ outcomes[i] = Pending /\ job[w] = NoAction
      /\ i # NoAction /\ ~Order!Stopped
  BY NoneAssumption
     DEF IInv, TypeOK, QueueOK, ThreadsOK, Claim, RecordOK, AbortIsFailure
<1>3. Cardinality(Running) < Cardinality(Workers)
  BY <1>2, RoomForOne
<1>4. i \in Order!Startable(Order!Ended)
  <2>1. \A v \in Workers : job[v] # i
    BY <1>2 DEF IInv, OneOwner
  <2>2. \A p \in deps[i] : p \in Actions /\ outcomes[p] # Pending
    BY <1>2, FiniteCounts DEF IInv, ProducersFirst
  <2> QED BY <1>2, <2>1, <2>2 DEF Order!Startable, Order!Ended, Running
<1>5. Running' = Running \cup {i}
  <2>1. \A v \in Workers : job'[v] = IF v = w THEN i ELSE job[v]
    BY <1>1 DEF IInv, TypeOK
  <2> QED BY <2>1, <1>2 DEF Running
<1>6. UNCHANGED <<deps, keepGoing, dryRun, outcomes>>
  BY DEF Claim, options
<1>7. Order!Start(i)
  BY <1>2, <1>3, <1>4, <1>5, <1>6, SameCardinality DEF Order!Start
<1> QED BY <1>2, <1>7

\* What a worker that ends an action does to the actions being worked on.
LEMMA RunningAfterEnding ==
    ASSUME IInv, NEW w \in Workers, NEW o, Ending(w, o),
           NEW next, job' = [job EXCEPT ![w] = next]
    PROVE  /\ job[w] \in Running
           /\ Running' = (Running \ {job[w]}) \cup ({next} \ {NoAction})
<1>1. job[w] \in Actions /\ outcomes[job[w]] = Pending /\ job[w] # NoAction
  BY EndingFacts, NoneAssumption
<1>2. \A v \in Workers : job'[v] = IF v = w THEN next ELSE job[v]
  BY DEF IInv, TypeOK
<1>3. \A v \in Workers \ {w} : job[v] # job[w]
  BY <1>1 DEF IInv, OneOwner
<1> QED BY <1>1, <1>2, <1>3 DEF Running

\* An action that ends without another one being taken.
LEMMA EndsAlone ==
    ASSUME IInv, RecordOK, NEW w \in Workers, NEW o, Ending(w, o),
           job' = [job EXCEPT ![w] = NoAction]
    PROVE  Order!Finish(job[w], o, {}) /\ job[w] \in Actions /\ o \in Outcomes
<1>1. /\ job[w] \in Running
      /\ Running' = (Running \ {job[w]}) \cup {}
  BY RunningAfterEnding
<1>2. o \in Outcomes /\ Order!Legal(job[w], o) /\ job[w] \in Actions
  BY ReportsLegally, EndingFacts
<1>3. outcomes' = [outcomes EXCEPT ![job[w]] = o]
      /\ UNCHANGED <<deps, keepGoing, dryRun>>
  BY DEF Ending, options
<1>4. Cardinality({}) = 0
  BY FS_EmptySet
<1> QED BY <1>1, <1>2, <1>3, <1>4, SameCardinality DEF Order!Finish

\* An action that ends while its worker goes on with another one.
LEMMA EndsAndStarts ==
    ASSUME IInv, RecordOK, NEW w \in Workers, NEW o, FinishAndGoOn(w, o)
    PROVE  \/ Order!Finish(job[w], o, {})
           \/ \E j \in Actions : Order!Finish(job[w], o, {j})
<1>1. /\ Ending(w, o) /\ ~abort /\ Release(job[w]) /\ ~Aborts(o)
  BY DEF FinishAndGoOn
<1>2. PICK next \in (ready \cup Released(job[w])) \cup {NoAction} :
         job' = [job EXCEPT ![w] = next]
  BY DEF FinishAndGoOn
<1>3. CASE next = NoAction
  BY <1>1, <1>2, <1>3, EndsAlone
<1>4. CASE next # NoAction
  <2>1. /\ next \in Actions /\ outcomes[next] = Pending /\ next # job[w]
        /\ \A v \in Workers : job[v] # next
        /\ PendingProducers(next)' = {}
    BY <1>1, <1>2, <1>4, QueuedInPlace
  <2>2. /\ job[w] \in Running
        /\ Running' = (Running \ {job[w]}) \cup {next}
    <3>1. {next} \ {NoAction} = {next}
      BY <1>4
    <3> QED BY <3>1, <1>1, <1>2, RunningAfterEnding
  <2>3. next \in Order!Startable(Order!Ended \cup {job[w]})
    <3>1. \A p \in deps[next] : p \in Actions /\ p \in Order!Ended \cup {job[w]}
      BY <1>1, <2>1, EndingFacts, FiniteCounts
         DEF IInv, PendingProducers, Order!Ended
    <3> QED BY <2>1, <3>1 DEF Order!Startable, Order!Ended, Running
  <2>4. ~Order!Stopped /\ (keepGoing \/ o # "failed")
    BY <1>1 DEF RecordOK, AbortIsFailure, Aborts
  <2>5. Order!Legal(job[w], o)
    BY <1>1, ReportsLegally
  <2>6. outcomes' = [outcomes EXCEPT ![job[w]] = o]
        /\ UNCHANGED <<deps, keepGoing, dryRun>>
    BY <1>1 DEF Ending, options
  <2>7. Cardinality({next}) = 1
    BY FS_Singleton
  <2>8. Order!Finish(job[w], o, {next})
    BY <2>2, <2>3, <2>4, <2>5, <2>6, <2>7, SameCardinality DEF Order!Finish
  <2> QED BY <2>1, <2>8
<1> QED BY <1>3, <1>4

\* A step of the threads is a step of BuildOrder or changes nothing of it.
LEMMA StepIsOrdered ==
    ASSUME IInv, RecordOK, [Next]_vars
    PROVE  [Order!Next]_(Order!vars)
<1>1. ASSUME UNCHANGED <<options, outcomes, job>>
      PROVE  UNCHANGED Order!vars
  BY <1>1 DEF Order!vars, options, Running
<1>2. ASSUME NEW w \in Workers, WorkerStep(w) \/ SpuriousWakeup(w)
      PROVE  [Order!Next]_(Order!vars)
  <2>1. CASE Claim(w)
    BY <2>1, ClaimStarts DEF Order!Next
  <2>2. ASSUME NEW o, \/ FinishAborting(w) /\ o = "failed"
                      \/ FinishAborted(w, o)
                      \/ FinishLast(w, o)
        PROVE  Order!Next
    <3>1. Ending(w, o) /\ job' = [job EXCEPT ![w] = NoAction]
      BY <2>2 DEF FinishAborting, FinishAborted, FinishLast, NoContinuation
    <3> QED BY <3>1, EndsAlone DEF Order!Next, Outcomes
  <2>3. ASSUME NEW o \in Outcomes, FinishAndGoOn(w, o)
        PROVE  Order!Next
    <3>1. job[w] \in Actions
      BY <2>3, EndingFacts DEF FinishAndGoOn
    <3> QED BY <2>3, <3>1, EndsAndStarts DEF Order!Next, Outcomes
  <2>4. CASE Return(w) \/ Sleep(w) \/ Inspect(w) \/ NotifyOne(w) \/ Continue(w)
               \/ NotifyAll(w) \/ SpuriousWakeup(w)
    BY <2>4, <1>1 DEF Return, Sleep, Inspect, NotifyOne, Continue, NotifyAll,
                      SpuriousWakeup, shared
  <2> QED BY <1>2, <2>1, <2>2, <2>3, <2>4 DEF WorkerStep
<1>3. CASE Join \/ Reported \/ UNCHANGED vars
  BY <1>3, <1>1 DEF Join, Reported, vars, shared, threads
<1> QED BY <1>2, <1>3 DEF Next

\* The worker threads, with their queue, counters, continuations and wake-ups,
\* implement the build order: each action runs once, after its producers, with
\* an outcome they allow, and nothing starts after a failure that stops the
\* build.
THEOREM ImplementsBuildOrderHolds == Spec => ImplementsBuildOrder
<1>1. Init => Order!Init
  BY WorkersAssumption DEF Init, Order!Init, Running
<1>2. IInv /\ RecordOK /\ [Next]_vars => [Order!Next]_(Order!vars)
  BY StepIsOrdered
<1> QED BY <1>1, <1>2, RecordInvariant, PTL DEF Spec, Order!Spec, ImplementsBuildOrder

-----------------------------------------------------------------------------
(* Plans, for graphs whose actions come after their producers.             *)

Size == Cardinality(Actions)
InOrder(graph) == \A i \in Actions : \A p \in graph[i] : p < i
PlanGraph == deps \in [Actions -> SUBSET Actions] /\ InOrder(deps)

LEMMA SizeIs == Size \in Nat /\ Actions = 0..Size - 1
BY ActionsAssumption, PositionsAssumption, FS_CardinalityType DEF Size

LEMMA LeastNumber ==
    ASSUME NEW S \in SUBSET Nat, S # {}
    PROVE  \E n \in S : \A m \in S : n <= m
<1>1. PICK n \in S : \A m \in S : ~ (<<m, n>> \in OpToRel(<, Nat))
  <2> HIDE DEF OpToRel
  <2> QED BY NatLessThanWellFounded, WFMin
<1>2. \A m \in S : ~ (m < n)
  BY <1>1 DEF OpToRel
<1> QED BY <1>2

\* What holds of 0, and of a number if of the one before, holds up to any bound.
LEMMA UpTo ==
    ASSUME NEW n \in Nat, NEW S, 0 \in S, \A k \in 1..n : k - 1 \in S => k \in S
    PROVE  \A k \in 0..n : k \in S
<1> DEFINE Failing == {k \in 0..n : k \notin S}
<1>1. SUFFICES ASSUME Failing # {} PROVE FALSE
  OBVIOUS
<1>2. PICK m \in Failing : \A k \in Failing : m <= k
  <2>1. Failing \in SUBSET Nat
    OBVIOUS
  <2> HIDE DEF Failing
  <2> QED BY <1>1, <2>1, LeastNumber
<1>3. m \in 1..n /\ m \notin S
  BY <1>2
<1>4. m - 1 \in 0..n /\ ~ (m <= m - 1)
  BY <1>3
<1>5. m - 1 \in S
  BY <1>2, <1>4
<1> QED BY <1>3, <1>5

\* Of some actions one comes before all others in a linear order.
LEMMA OneIsFirst ==
    ASSUME NEW S \in SUBSET Actions, S # {}, NEW before,
           \A i, j \in Actions : i # j => <<i, j>> \in before \/ <<j, i>> \in before,
           \A i, j, k \in Actions :
              <<i, j>> \in before /\ <<j, k>> \in before => <<i, k>> \in before
    PROVE  \E i \in S : \A j \in S \ {i} : <<i, j>> \in before
<1> DEFINE First(T) == \E i \in T : \A j \in T \ {i} : <<i, j>> \in before
           Below(k) == {i \in S : i < k}
           Good == {k \in 0..Size : Below(k) = {} \/ First(Below(k))}
<1>0. Size \in Nat /\ \A i \in S : i \in Nat /\ i < Size
  BY SizeIs
<1>1. 0 \in Good
  <2>1. Below(0) = {}
    BY <1>0
  <2> QED BY <1>0, <2>1
<1>2. ASSUME NEW k \in 1..Size, k - 1 \in Good PROVE k \in Good
  <2>1. k \in 0..Size /\ k - 1 \in Actions
    BY SizeIs
  <2>2. Below(k) = Below(k - 1) \cup (S \cap {k - 1})
    <3>1. \A i \in S : i < k <=> i < k - 1 \/ i = k - 1
      BY <1>0
    <3> QED BY <3>1
  <2>3. CASE k - 1 \notin S
    BY <1>2, <2>1, <2>2, <2>3
  <2>4. CASE k - 1 \in S /\ Below(k - 1) = {}
    BY <2>1, <2>2, <2>4
  <2>5. CASE k - 1 \in S /\ First(Below(k - 1))
    <3> DEFINE B == Below(k - 1)
               m == k - 1
    <3>1. B \subseteq Actions /\ m \in Actions /\ Below(k) = B \cup {m} /\ m \notin B
      <4>1. B \subseteq S /\ m \in Actions /\ Below(k) = B \cup {m}
        BY <2>1, <2>2, <2>5
      <4>2. m \notin B
        BY <1>0
      <4> QED BY <4>1, <4>2
    <3> HIDE DEF B, Below, m
    <3>2. PICK i \in B : \A j \in B \ {i} : <<i, j>> \in before
      BY <2>5 DEF B
    <3>3. CASE <<i, m>> \in before
      <4>1. \A j \in (B \cup {m}) \ {i} : <<i, j>> \in before
        BY <3>2, <3>3
      <4> QED BY <2>1, <3>1, <3>2, <4>1
    <3>4. CASE <<m, i>> \in before
      <4>1. \A j \in (B \cup {m}) \ {m} : <<m, j>> \in before
        BY <3>1, <3>2, <3>4
      <4> QED BY <2>1, <3>1, <4>1
    <3> QED BY <3>1, <3>2, <3>3, <3>4
  <2> QED BY <1>2, <2>3, <2>4, <2>5
<1>3. Below(Size) = {} \/ First(Below(Size))
  <2> HIDE DEF First, Below
  <2>1. \A k \in 1..Size : k - 1 \in Good => k \in Good
    BY <1>2
  <2> HIDE DEF Good
  <2>2. Size \in Good
    BY <1>1, <2>1, SizeIs, UpTo
  <2> QED BY <2>2 DEF Good
<1>4. Below(Size) = S
  BY <1>0
<1> QED BY <1>3, <1>4

\* One action that has most.
LEMMA OneIsMost ==
    ASSUME NEW S \in SUBSET Actions, S # {}, NEW f \in [Actions -> Nat]
    PROVE  \E i \in S : \A j \in S : f[j] <= f[i]
<1> DEFINE before == {p \in Actions \X Actions : f[p[1]] > f[p[2]] \/ (f[p[1]] = f[p[2]] /\ p[1] < p[2])}
<1>1. \A i, j \in Actions : <<i, j>> \in before <=> f[i] > f[j] \/ (f[i] = f[j] /\ i < j)
  OBVIOUS
<1> HIDE DEF before
<1>2. \A i, j \in Actions : i # j => <<i, j>> \in before \/ <<j, i>> \in before
  BY <1>1, SizeIs
<1>3. \A i, j, k \in Actions : <<i, j>> \in before /\ <<j, k>> \in before => <<i, k>> \in before
  BY <1>1, SizeIs
<1>4. PICK i \in S : \A j \in S \ {i} : <<i, j>> \in before
  BY <1>2, <1>3, OneIsFirst
<1>5. ASSUME NEW j \in S PROVE f[j] <= f[i]
  <2>1. f[i] \in Nat /\ f[j] \in Nat
    OBVIOUS
  <2>2. CASE j = i
    BY <2>1, <2>2
  <2>3. CASE j # i
    <3>1. f[i] > f[j] \/ (f[i] = f[j] /\ i < j)
      BY <1>1, <1>4, <2>3
    <3> QED BY <2>1, <3>1
  <2> QED BY <2>2, <2>3
<1> QED BY <1>5

\* The top of the queue is in it.
LEMMA BestIs ==
    ASSUME NEW S \in SUBSET Actions, S # {}, NEW f \in [Actions -> Nat]
    PROVE  Best(S, f) \in S
<1> DEFINE before == {p \in Actions \X Actions : f[p[1]] > f[p[2]] \/ (f[p[1]] = f[p[2]] /\ p[1] < p[2])}
<1>1. \A i, j \in Actions : <<i, j>> \in before <=> f[i] > f[j] \/ (f[i] = f[j] /\ i < j)
  OBVIOUS
<1> HIDE DEF before
<1>2. \A i, j \in Actions : i # j => <<i, j>> \in before \/ <<j, i>> \in before
  BY <1>1, SizeIs
<1>3. \A i, j, k \in Actions : <<i, j>> \in before /\ <<j, k>> \in before => <<i, k>> \in before
  BY <1>1, SizeIs
<1>4. PICK i \in S : \A j \in S \ {i} : <<i, j>> \in before
  BY <1>2, <1>3, OneIsFirst
<1>5. \A j \in S \ {i} : f[i] > f[j] \/ (f[i] = f[j] /\ i < j)
  BY <1>1, <1>4
<1> QED BY <1>5 DEF Best

\* The last of those that have most.
LEMMA LastBestIs ==
    ASSUME NEW S \in SUBSET Actions, S # {}, NEW f \in [Actions -> Nat]
    PROVE  LastBest(S, f) \in S /\ \A j \in S : f[j] <= f[LastBest(S, f)]
<1> DEFINE before == {p \in Actions \X Actions : f[p[1]] > f[p[2]] \/ (f[p[1]] = f[p[2]] /\ p[2] < p[1])}
           Last_(i) == \A j \in S \ {i} : f[j] < f[i] \/ (f[j] = f[i] /\ j < i)
<1>1. \A i, j \in Actions : <<i, j>> \in before <=> f[i] > f[j] \/ (f[i] = f[j] /\ j < i)
  OBVIOUS
<1> HIDE DEF before
<1>2. \A i, j \in Actions : i # j => <<i, j>> \in before \/ <<j, i>> \in before
  BY <1>1, SizeIs
<1>3. \A i, j, k \in Actions : <<i, j>> \in before /\ <<j, k>> \in before => <<i, k>> \in before
  BY <1>1, SizeIs
<1>4. PICK i \in S : \A j \in S \ {i} : <<i, j>> \in before
  BY <1>2, <1>3, OneIsFirst
<1>5. Last_(i)
  BY <1>1, <1>4
<1>6. LastBest(S, f) = CHOOSE m \in S : Last_(m)
  BY DEF LastBest
<1> HIDE DEF Last_
<1>7. LastBest(S, f) \in S /\ Last_(LastBest(S, f))
  BY <1>5, <1>6
<1> QED BY <1>7 DEF Last_

\* The first to end of some running actions.
LEMMA EarliestIs ==
    ASSUME NEW S \in SUBSET Actions, S # {}, NEW f \in [Actions -> Nat], NEW now \in Nat
    PROVE  \E i \in S :
              /\ EarliestEnd({[ends |-> now + f[j], action |-> j] : j \in S})
                    = [ends |-> now + f[i], action |-> i]
              /\ \A j \in S : f[i] <= f[j]
<1> DEFINE before == {p \in Actions \X Actions : f[p[1]] < f[p[2]] \/ (f[p[1]] = f[p[2]] /\ p[1] < p[2])}
           Run(j) == [ends |-> now + f[j], action |-> j]
           running == {Run(j) : j \in S}
           First(r) == \A q \in running \ {r} :
                          r.ends < q.ends \/ (r.ends = q.ends /\ r.action < q.action)
<1>1. \A i, j \in Actions : <<i, j>> \in before <=> f[i] < f[j] \/ (f[i] = f[j] /\ i < j)
  OBVIOUS
<1> HIDE DEF before
<1>2. \A i, j \in Actions : i # j => <<i, j>> \in before \/ <<j, i>> \in before
  BY <1>1, SizeIs
<1>3. \A i, j, k \in Actions : <<i, j>> \in before /\ <<j, k>> \in before => <<i, k>> \in before
  BY <1>1, SizeIs
<1>4. PICK i \in S : \A j \in S \ {i} : <<i, j>> \in before
  BY <1>2, <1>3, OneIsFirst
<1>5. First(Run(i))
  <2> SUFFICES ASSUME NEW j \in S, Run(j) # Run(i)
               PROVE  now + f[i] < now + f[j] \/ (now + f[i] = now + f[j] /\ i < j)
    OBVIOUS
  <2>1. j # i
    OBVIOUS
  <2>2. f[i] \in Nat /\ f[j] \in Nat
    OBVIOUS
  <2>3. f[i] < f[j] \/ (f[i] = f[j] /\ i < j)
    BY <1>1, <1>4, <2>1
  <2> HIDE DEF Run
  <2> QED BY <2>2, <2>3
<1>6. EarliestEnd(running) = CHOOSE r \in running : First(r)
  BY DEF EarliestEnd
<1>7. Run(i) \in running
  OBVIOUS
<1> HIDE DEF First
<1>8. PICK m \in S : EarliestEnd(running) = Run(m) /\ First(Run(m))
  <2>1. EarliestEnd(running) \in running /\ First(EarliestEnd(running))
    <3> HIDE DEF running
    <3> QED BY <1>5, <1>6, <1>7
  <2> QED BY <2>1
<1>9. ASSUME NEW j \in S PROVE f[m] <= f[j]
  <2>1. CASE j = m
    BY <2>1
  <2>2. CASE j # m
    <3>1. Run(j) \in running \ {Run(m)}
      BY <2>2
    <3>2. Run(m).ends < Run(j).ends \/ (Run(m).ends = Run(j).ends /\ Run(m).action < Run(j).action)
      BY <1>8, <3>1 DEF First
    <3>3. now + f[m] <= now + f[j] /\ f[m] \in Nat /\ f[j] \in Nat
      BY <3>2
    <3> QED BY <3>3
  <2> QED BY <2>1, <2>2
<1> QED BY <1>8, <1>9

\* The highest of some values, 0 if there are none.
LEMMA MaxIs ==
    ASSUME NEW S \in SUBSET Actions, NEW f \in [Actions -> Nat]
    PROVE  /\ Max({0} \cup {f[i] : i \in S}) \in Nat
           /\ \A i \in S : f[i] <= Max({0} \cup {f[j] : j \in S})
           /\ \/ Max({0} \cup {f[i] : i \in S}) = 0
              \/ \E i \in S : f[i] = Max({0} \cup {f[j] : j \in S})
<1> DEFINE V == {0} \cup {f[i] : i \in S}
<1>1. V \subseteq Nat
  OBVIOUS
<1>2. \E x \in V : \A y \in V : x >= y
  <2>1. CASE S = {}
    BY <2>1
  <2>2. CASE S # {}
    <3>1. PICK i \in S : \A j \in S : f[j] <= f[i]
      BY <2>2, OneIsMost
    <3>2. \A y \in V : f[i] >= y
      BY <3>1
    <3>3. f[i] \in V
      OBVIOUS
    <3> QED BY <3>2, <3>3
  <2> QED BY <2>1, <2>2
<1>3. Max(V) \in V /\ \A y \in V : Max(V) >= y
  <2> HIDE DEF V
  <2> QED BY <1>2 DEF Max
<1>4. \A i \in S : f[i] \in V
  OBVIOUS
<1> QED BY <1>1, <1>3, <1>4

LEMMA HighestIs ==
    ASSUME NEW f \in [Actions -> Nat]
    PROVE  /\ Highest(f) \in Nat /\ \A i \in Actions : f[i] <= Highest(f)
           /\ Highest(f) = 0 \/ \E i \in Actions : f[i] = Highest(f)
BY MaxIs DEF Highest

-----------------------------------------------------------------------------
(* Sums.                                                                   *)

LEMMA SumIs ==
    ASSUME NEW n \in Nat, NEW list \in [1..n -> Nat]
    PROVE  \E sum \in [0..n -> Nat] :
              /\ sum[0] = 0 /\ \A k \in 1..n : sum[k] = sum[k - 1] + list[k]
              /\ SumOf(list) = sum[n]
<1> DEFINE next(g, k) == IF k = 0 THEN 0 ELSE g[k - 1] + list[k]
           sum == CHOOSE g : g = [k \in 0..n |-> next(g, k)]
           Exists(m) == \E g : g = [k \in 0..m |-> next(g, k)]
           Defined == {m \in 0..n : Exists(m)}
<1>1. SumOf(list) = sum[n]
  <2>1. Len(list) = n
    OBVIOUS
  <2> QED BY <2>1 DEF SumOf
<1> HIDE DEF sum
<1>2. Exists(0)
  <2> DEFINE g == [k \in 0..0 |-> 0]
  <2>1. \A k \in 0..0 : next(g, k) = 0
    OBVIOUS
  <2> HIDE DEF next
  <2>2. g = [k \in 0..0 |-> next(g, k)]
    BY <2>1
  <2> HIDE DEF g
  <2> QED BY <2>2
<1>3. ASSUME NEW m \in 1..n, Exists(m - 1) PROVE Exists(m)
  <2>1. PICK g : g = [k \in 0..m - 1 |-> next(g, k)]
    BY <1>3
  <2> DEFINE h == [k \in 0..m |-> IF k = m THEN next(g, m) ELSE g[k]]
  <2>2. ASSUME NEW k \in 0..m PROVE h[k] = next(h, k)
    <3>1. k # 0 => h[k - 1] = g[k - 1]
      OBVIOUS
    <3> HIDE DEF h
    <3>2. next(h, k) = next(g, k)
      BY <3>1
    <3> HIDE DEF next
    <3>3. k # m => k \in 0..m - 1
      OBVIOUS
    <3>4. k # m => g[k] = next(g, k)
      BY <2>1, <3>3
    <3> QED BY <3>2, <3>4 DEF h
  <2> HIDE DEF next
  <2> DEFINE r == [k \in 0..m |-> next(h, k)]
  <2>3. DOMAIN h = DOMAIN r /\ \A k \in 0..m : h[k] = r[k]
    BY <2>2
  <2>4. h = r
    BY <2>3
  <2> HIDE DEF h
  <2> QED BY <2>4
<1>4. n \in Defined
  <2> HIDE DEF Exists
  <2>1. 0 \in Defined /\ \A m \in 1..n : m - 1 \in Defined => m \in Defined
    BY <1>2, <1>3
  <2> HIDE DEF Defined
  <2>2. n \in 0..n
    OBVIOUS
  <2> QED BY <2>1, <2>2, UpTo
<1> HIDE DEF next
<1>5. sum = [k \in 0..n |-> next(sum, k)]
  BY <1>4 DEF sum
<1>6. sum[0] = 0 /\ \A k \in 1..n : sum[k] = sum[k - 1] + list[k]
  <2>1. \A k \in 0..n : sum[k] = next(sum, k)
    BY <1>5
  <2>2. 0 \in 0..n /\ \A k \in 1..n : k \in 0..n /\ k # 0
    OBVIOUS
  <2>3. sum[0] = 0
    BY <2>1, <2>2 DEF next
  <2>4. ASSUME NEW k \in 1..n PROVE sum[k] = sum[k - 1] + list[k]
    <3>1. sum[k] = next(sum, k) /\ k # 0
      BY <2>1, <2>2
    <3> QED BY <3>1 DEF next
  <2> QED BY <2>3, <2>4
<1>7. sum \in [0..n -> Nat]
  <2> DEFINE Good == {k \in 0..n : sum[k] \in Nat}
  <2>1. 0 \in Good
    BY <1>6
  <2>2. ASSUME NEW k \in 1..n, k - 1 \in Good PROVE k \in Good
    <3>1. sum[k] = sum[k - 1] + list[k] /\ sum[k - 1] \in Nat /\ list[k] \in Nat
      BY <1>6, <2>2
    <3> QED BY <3>1
  <2> HIDE DEF Good
  <2>3. \A k \in 0..n : k \in Good
    BY <2>1, <2>2, UpTo
  <2>4. \A k \in 0..n : sum[k] \in Nat
    BY <2>3 DEF Good
  <2> QED BY <1>5, <2>4
<1> QED BY <1>1, <1>6, <1>7

LEMMA TotalIs ==
    ASSUME NEW f \in [Actions -> Nat]
    PROVE  \E sum \in [0..Size -> Nat] :
              /\ sum[0] = 0 /\ \A k \in 1..Size : sum[k] = sum[k - 1] + f[k - 1]
              /\ Total(f) = sum[Size]
<1> DEFINE list == [k \in 1..Size |-> f[k - 1]]
<1>1. Size \in Nat /\ \A k \in 1..Size : k - 1 \in Actions
  BY SizeIs
<1>2. list \in [1..Size -> Nat] /\ Total(f) = SumOf(list)
  BY <1>1 DEF Total, Size
<1>3. PICK sum \in [0..Size -> Nat] :
          /\ sum[0] = 0 /\ \A k \in 1..Size : sum[k] = sum[k - 1] + list[k]
          /\ SumOf(list) = sum[Size]
  <2> HIDE DEF list
  <2> QED BY <1>1, <1>2, SumIs
<1>4. \A k \in 1..Size : sum[k] = sum[k - 1] + f[k - 1]
  BY <1>3
<1> QED BY <1>2, <1>3, <1>4

LEMMA TotalIsNat ==
    ASSUME NEW f \in [Actions -> Nat]
    PROVE  Total(f) \in Nat
BY TotalIs, SizeIs

\* Nothing adds up to nothing.
LEMMA TotalOfNothing ==
    ASSUME NEW f \in [Actions -> Nat], \A i \in Actions : f[i] = 0
    PROVE  Total(f) = 0
<1>1. PICK sum \in [0..Size -> Nat] :
          /\ sum[0] = 0 /\ \A k \in 1..Size : sum[k] = sum[k - 1] + f[k - 1]
          /\ Total(f) = sum[Size]
  BY TotalIs
<1> DEFINE Good == {k \in 0..Size : sum[k] = 0}
<1>2. 0 \in Good
  BY <1>1, SizeIs
<1>3. ASSUME NEW k \in 1..Size, k - 1 \in Good PROVE k \in Good
  <2>1. k - 1 \in Actions /\ k \in 0..Size
    BY SizeIs
  <2> QED BY <1>1, <1>3, <2>1
<1> HIDE DEF Good
<1>4. Size \in Good
  <2>1. \A k \in 1..Size : k - 1 \in Good => k \in Good
    BY <1>3
  <2>2. Size \in Nat /\ Size \in 0..Size
    BY SizeIs
  <2>3. \A k \in 0..Size : k \in Good
    BY <1>2, <2>1, <2>2, UpTo
  <2> QED BY <2>2, <2>3
<1> QED BY <1>1, <1>4 DEF Good

\* One value is exchanged for another.
LEMMA TotalWithAnother ==
    ASSUME NEW f \in [Actions -> Nat], NEW g \in [Actions -> Nat], NEW x \in Actions,
           \A i \in Actions \ {x} : g[i] = f[i]
    PROVE  Total(g) + f[x] = Total(f) + g[x]
<1>1. PICK u \in [0..Size -> Nat] :
          /\ u[0] = 0 /\ \A k \in 1..Size : u[k] = u[k - 1] + f[k - 1]
          /\ Total(f) = u[Size]
  BY TotalIs
<1>2. PICK v \in [0..Size -> Nat] :
          /\ v[0] = 0 /\ \A k \in 1..Size : v[k] = v[k - 1] + g[k - 1]
          /\ Total(g) = v[Size]
  BY TotalIs
<1>3. Size \in Nat /\ x \in Nat /\ x < Size /\ f[x] \in Nat /\ g[x] \in Nat
  BY SizeIs
<1> DEFINE Good == {k \in 0..Size : IF x < k THEN v[k] + f[x] = u[k] + g[x] ELSE v[k] = u[k]}
<1>4. 0 \in Good
  BY <1>1, <1>2, <1>3
<1>5. ASSUME NEW k \in 1..Size, k - 1 \in Good PROVE k \in Good
  <2>1. k - 1 \in Actions /\ k \in 0..Size /\ k - 1 \in 0..Size
    BY SizeIs
  <2>2. /\ u[k] = u[k - 1] + f[k - 1] /\ v[k] = v[k - 1] + g[k - 1]
        /\ u[k - 1] \in Nat /\ v[k - 1] \in Nat /\ f[k - 1] \in Nat /\ g[k - 1] \in Nat
    BY <1>1, <1>2, <2>1
  <2>3. IF x < k - 1 THEN v[k - 1] + f[x] = u[k - 1] + g[x] ELSE v[k - 1] = u[k - 1]
    BY <1>5
  <2>4. CASE k - 1 = x
    BY <1>3, <2>1, <2>2, <2>3, <2>4
  <2>5. CASE k - 1 # x
    <3>1. g[k - 1] = f[k - 1]
      BY <2>1, <2>5
    <3>2. x < k <=> x < k - 1
      BY <1>3, <2>1, <2>5
    <3>3. CASE x < k - 1
      <4>1. v[k - 1] + f[x] = u[k - 1] + g[x]
        BY <2>3, <3>3
      <4> DEFINE a == v[k - 1]
                 b == u[k - 1]
                 d == f[k - 1]
                 y == f[x]
                 z == g[x]
      <4>2. a \in Nat /\ b \in Nat /\ d \in Nat /\ u[k] = b + d /\ v[k] = a + d
        BY <2>2, <3>1
      <4>3. a + y = b + z /\ y \in Nat /\ z \in Nat
        BY <1>3, <4>1
      <4> HIDE DEF a, b, d, y, z
      <4>4. (a + d) + y = (b + d) + z
        BY <4>2, <4>3
      <4>5. v[k] + y = u[k] + z
        BY <4>2, <4>4
      <4>6. v[k] + f[x] = u[k] + g[x]
        BY <4>5 DEF y, z
      <4> QED BY <2>1, <3>2, <3>3, <4>6
    <3>4. CASE ~ (x < k - 1)
      BY <1>3, <2>1, <2>2, <2>3, <3>1, <3>2, <3>4
    <3> QED BY <3>3, <3>4
  <2> QED BY <2>4, <2>5
<1> HIDE DEF Good
<1>6. Size \in Good
  <2>1. \A k \in 1..Size : k - 1 \in Good => k \in Good
    BY <1>5
  <2>2. Size \in Nat /\ Size \in 0..Size
    BY SizeIs
  <2>3. \A k \in 0..Size : k \in Good
    BY <1>4, <2>1, <2>2, UpTo
  <2> QED BY <2>2, <2>3
<1> QED BY <1>1, <1>2, <1>3, <1>6 DEF Good

\* f is g with so much more for the actions of S.
MoreIn(S, f, g, less) ==
    \A i \in Actions : f[i] = IF i \in S THEN g[i] + less ELSE g[i]

LEMMA TotalOfLess ==
    ASSUME NEW f \in [Actions -> Nat], NEW g \in [Actions -> Nat], NEW less \in Nat,
           NEW S \in SUBSET Actions,
           MoreIn(S, f, g, less)
    PROVE  Total(f) = Total(g) + less * Cardinality(S)
<1>1. PICK u \in [0..Size -> Nat] :
          /\ u[0] = 0 /\ \A k \in 1..Size : u[k] = u[k - 1] + f[k - 1]
          /\ Total(f) = u[Size]
  BY TotalIs
<1>2. PICK v \in [0..Size -> Nat] :
          /\ v[0] = 0 /\ \A k \in 1..Size : v[k] = v[k - 1] + g[k - 1]
          /\ Total(g) = v[Size]
  BY TotalIs
<1> DEFINE Below(k) == {i \in S : i < k}
           c(k) == Cardinality(Below(k))
           Good == {k \in 0..Size : u[k] = v[k] + less * c(k)}
<1>3. Size \in Nat /\ \A i \in S : i \in Nat /\ i < Size
  BY SizeIs
<1>4. ASSUME NEW k \in Nat PROVE IsFiniteSet(Below(k)) /\ c(k) \in Nat
  <2>1. IsFiniteSet(S)
    BY ActionsAssumption, FS_Subset
  <2>2. Below(k) \in SUBSET S
    OBVIOUS
  <2> HIDE DEF Below
  <2> QED BY <2>1, <2>2, FS_Subset, FS_CardinalityType
<1>5. 0 \in Good
  <2>1. Below(0) = {}
    BY <1>3
  <2>2. c(0) = 0
    BY <2>1, FS_EmptySet
  <2> HIDE DEF c
  <2> QED BY <1>1, <1>2, <1>3, <2>2
<1>6. ASSUME NEW k \in 1..Size, k - 1 \in Good PROVE k \in Good
  <2>1. k - 1 \in Actions /\ k \in 0..Size /\ k - 1 \in 0..Size /\ k \in Nat /\ k - 1 \in Nat
    BY SizeIs
  <2>2. /\ u[k] = u[k - 1] + f[k - 1] /\ v[k] = v[k - 1] + g[k - 1]
        /\ u[k - 1] \in Nat /\ v[k - 1] \in Nat /\ f[k - 1] \in Nat /\ g[k - 1] \in Nat
    BY <1>1, <1>2, <2>1
  <2>3. u[k - 1] = v[k - 1] + less * c(k - 1)
    BY <1>6
  <2>4. c(k) \in Nat /\ c(k - 1) \in Nat
    BY <1>4, <2>1
  <2>5. CASE k - 1 \in S
    <3>1. Below(k) = Below(k - 1) \cup {k - 1} /\ k - 1 \notin Below(k - 1)
      BY <1>3, <2>1, <2>5
    <3>2. c(k) = c(k - 1) + 1
      <4> HIDE DEF Below
      <4> QED BY <1>4, <2>1, <3>1, FS_AddElement
    <3>3. f[k - 1] = g[k - 1] + less
      BY <2>1, <2>5 DEF MoreIn
    <3> HIDE DEF c
    <3>4. less * c(k) = less * c(k - 1) + less
      BY <2>4, <3>2
    <3>5. less * c(k) \in Nat /\ less * c(k - 1) \in Nat
      BY <2>4
    <3> QED BY <2>1, <2>2, <2>3, <3>3, <3>4, <3>5
  <2>6. CASE k - 1 \notin S
    <3>1. Below(k) = Below(k - 1)
      <4>1. \A i \in S : i < k <=> i < k - 1
        <5> SUFFICES ASSUME NEW i \in S PROVE i < k <=> i < k - 1
          OBVIOUS
        <5>1. i \in Nat /\ k \in Nat /\ k >= 1 /\ i # k - 1
          BY <1>3, <2>1, <2>6
        <5> QED BY <5>1
      <4> QED BY <4>1
    <3>2. c(k) = c(k - 1)
      BY <3>1
    <3>3. f[k - 1] = g[k - 1]
      BY <2>1, <2>6 DEF MoreIn
    <3> HIDE DEF c
    <3>4. less * c(k - 1) \in Nat
      BY <2>4
    <3> QED BY <2>1, <2>2, <2>3, <3>2, <3>3, <3>4
  <2> QED BY <2>5, <2>6
<1> HIDE DEF Good
<1>7. Size \in Good
  <2>1. \A k \in 1..Size : k - 1 \in Good => k \in Good
    BY <1>6
  <2>2. Size \in Nat /\ Size \in 0..Size
    BY SizeIs
  <2>3. \A k \in 0..Size : k \in Good
    BY <1>5, <2>1, <2>2, UpTo
  <2> QED BY <2>2, <2>3
<1>8. Below(Size) = S
  BY <1>3
<1> QED BY <1>1, <1>2, <1>7, <1>8 DEF Good

-----------------------------------------------------------------------------
(* Estimates and chains.                                                   *)

LEMMA MedianIs ==
    ASSUME NEW S \in SUBSET Actions, S # {}
    PROVE  Median(S) \in Nat
<1> DEFINE half == Cardinality(S) \div 2
           T == {i \in S : Cardinality(NoLonger(S, i)) > half}
           V == {Recorded[i] : i \in T}
<1>1. Cardinality(S) \in Nat \ {0}
  <2>1. IsFiniteSet(S)
    BY ActionsAssumption, FS_Subset
  <2> QED BY <2>1, FS_CardinalityType, FS_EmptySet
<1>2. PICK i \in S : \A j \in S : Recorded[j] <= Recorded[i]
  BY OneIsMost, EstimatesAssumption
<1>3. NoLonger(S, i) = S
  BY <1>2 DEF NoLonger
<1>4. i \in T
  <2>1. Cardinality(S) > half
    BY <1>1
  <2> QED BY <1>3, <2>1
<1>5. V \in SUBSET Nat /\ V # {}
  BY <1>4, EstimatesAssumption
<1>6. Median(S) = Min(V)
  BY DEF Median
<1> HIDE DEF V
<1>7. PICK m \in V : \A k \in V : m <= k
  BY <1>5, LeastNumber
<1>8. Min(V) \in V
  BY <1>7 DEF Min
<1> QED BY <1>5, <1>6, <1>8

LEMMA EstimateIs ==
    ASSUME NEW e \in Estimators, NEW i \in Actions
    PROVE  Estimate(e, i) \in Nat
<1>1. Recorded[i] \in Nat /\ DefaultOf[Kind[i]] \in Nat
  BY EstimatesAssumption
<1>2. Samples(Kind[i]) # {} => Median(Samples(Kind[i])) \in Nat
  <2>1. Samples(Kind[i]) \in SUBSET Actions
    BY DEF Samples
  <2> QED BY <2>1, MedianIs
<1>3. Recorded[i] > 0 \/ Recorded[i] = 0
  BY <1>1
<1>4. Recorded[i] > 0 => Recorded[i] # 0
  BY <1>1
<1>5. CASE e = "static"
  BY <1>5 DEF Estimate
<1>6. CASE e = "heuristic"
  BY <1>1, <1>6 DEF Estimate
<1>7. CASE e = "journal"
  <2>1. CASE Recorded[i] > 0
    BY <1>1, <1>4, <1>7, <2>1 DEF Estimate
  <2>2. CASE ~ (Recorded[i] > 0)
    BY <1>1, <1>7, <2>2 DEF Estimate
  <2> QED BY <2>1, <2>2
<1>8. CASE e = "learned"
  <2>1. CASE Recorded[i] > 0
    BY <1>1, <1>4, <1>8, <2>1 DEF Estimate
  <2>2. CASE ~ (Recorded[i] > 0) /\ Samples(Kind[i]) # {}
    BY <1>2, <1>3, <1>8, <2>2 DEF Estimate
  <2>3. CASE ~ (Recorded[i] > 0) /\ Samples(Kind[i]) = {}
    BY <1>1, <1>8, <2>3 DEF Estimate
  <2> QED BY <2>1, <2>2, <2>3
<1> QED BY <1>5, <1>6, <1>7, <1>8 DEF Estimators

LEMMA EstimatesAre ==
    ASSUME NEW e \in Estimators
    PROVE  Estimates(e) \in [Actions -> Nat]
BY EstimateIs DEF Estimates

\* A chain lasts as long as its first action and, if it goes on, the longest of
\* what can follow it.
ChainsOf(chain, lasts) ==
    /\ chain \in [Actions -> Nat]
    /\ \A i \in Actions :
          /\ chain[i] >= lasts[i]
          /\ \A d \in Dependents(i) : chain[i] >= lasts[i] + chain[d]
          /\ chain[i] = lasts[i] \/ \E d \in Dependents(i) : chain[i] = lasts[i] + chain[d]

LEMMA LongestChainIs ==
    ASSUME PlanGraph, NEW lasts \in [Actions -> Nat]
    PROVE  ChainsOf(LongestChain(lasts), lasts)
<1> DEFINE Behind(i) == {e \in Dependents(i) : e > i}
           After(g, i) == Max({0} \cup {g[d] : d \in Behind(i)})
           Solves(g, k) == \A i \in Actions : i >= Size - k => g[i] = lasts[i] + After(g, i)
           Good == {k \in 0..Size : \E g \in [Actions -> Nat] : Solves(g, k)}
<1>1. \A i \in Actions : Behind(i) = Dependents(i) /\ Behind(i) \in SUBSET Actions
  BY DEF PlanGraph, InOrder, Dependents
<1>2. ASSUME NEW g \in [Actions -> Nat], NEW i \in Actions
      PROVE  /\ After(g, i) \in Nat /\ \A d \in Dependents(i) : g[d] <= After(g, i)
             /\ After(g, i) = 0 \/ \E d \in Dependents(i) : g[d] = After(g, i)
  <2> HIDE DEF Behind
  <2> QED BY <1>1, MaxIs
<1>3. 0 \in Good
  <2>1. \A i \in Actions : ~ (i >= Size - 0)
    BY SizeIs
  <2>2. [i \in Actions |-> 0] \in [Actions -> Nat] /\ 0 \in 0..Size
    BY SizeIs
  <2> HIDE DEF After
  <2> QED BY <2>1, <2>2
<1>4. ASSUME NEW k \in 1..Size, k - 1 \in Good PROVE k \in Good
  <2>1. PICK g \in [Actions -> Nat] : Solves(g, k - 1)
    BY <1>4
  <2> DEFINE m == Size - k
             h == [g EXCEPT ![m] = lasts[m] + After(g, m)]
  <2>2. m \in Actions /\ k \in 0..Size /\ \A i \in Actions : i >= m <=> i = m \/ i >= Size - (k - 1)
    BY SizeIs
  <2>3. h \in [Actions -> Nat]
    <3> DEFINE x == lasts[m] + After(g, m)
    <3>1. lasts[m] \in Nat /\ After(g, m) \in Nat
      BY <1>2, <2>2
    <3>2. x \in Nat
      <4> HIDE DEF After, m
      <4> QED BY <3>1
    <3> HIDE DEF x, m
    <3>3. [g EXCEPT ![m] = x] \in [Actions -> Nat]
      BY <3>2
    <3> QED BY <3>3 DEF x
  <2>4. \A i \in Actions : i # m => h[i] = g[i]
    OBVIOUS
  <2>5. h[m] = lasts[m] + After(g, m)
    BY <2>2
  <2> HIDE DEF h
  <2>6. ASSUME NEW i \in Actions, i >= m PROVE After(h, i) = After(g, i)
    <3>1. \A d \in Behind(i) : d \in Actions /\ d # m
      <4>1. \A d \in Behind(i) : d \in Actions /\ d > i
        BY DEF Dependents
      <4>2. m \in Int /\ \A d \in Actions : d \in Int
        BY SizeIs
      <4> HIDE DEF Behind, m
      <4> QED BY <2>6, <4>1, <4>2
    <3>2. \A d \in Behind(i) : h[d] = g[d]
      BY <2>4, <3>1
    <3> HIDE DEF Behind
    <3>3. {h[d] : d \in Behind(i)} = {g[d] : d \in Behind(i)}
      BY <3>2
    <3> QED BY <3>3
  <2>7. Solves(h, k)
    <3> SUFFICES ASSUME NEW i \in Actions, i >= m PROVE h[i] = lasts[i] + After(g, i)
      BY <2>6
    <3> HIDE DEF After
    <3> QED BY <2>1, <2>2, <2>4, <2>5
  <2> HIDE DEF Solves
  <2> QED BY <2>2, <2>3, <2>7
<1>5. PICK g \in [Actions -> Nat] : Solves(g, Size)
  <2> HIDE DEF Solves
  <2>1. \A k \in 1..Size : k - 1 \in Good => k \in Good
    BY <1>4
  <2>2. Size \in Nat /\ Size \in 0..Size
    BY SizeIs
  <2> HIDE DEF Good
  <2>3. Size \in Good
    BY <1>3, <2>1, <2>2, UpTo
  <2> QED BY <2>3 DEF Good
<1>6. g = [i \in Actions |-> lasts[i] + After(g, i)]
  <2>1. \A i \in Actions : i >= Size - Size
    BY SizeIs
  <2> HIDE DEF After
  <2>2. \A i \in Actions : g[i] = lasts[i] + After(g, i)
    BY <1>5, <2>1
  <2> QED BY <2>2
<1> DEFINE chain == LongestChain(lasts)
<1>7. chain = CHOOSE c : c = [i \in Actions |-> lasts[i] + After(c, i)]
  BY DEF LongestChain
<1> HIDE DEF chain, After
<1>8. chain = [i \in Actions |-> lasts[i] + After(chain, i)]
  BY <1>6, <1>7
<1>9. chain \in [Actions -> Nat]
  \* The equation has one solution, from the last action to the first.
  <2> DEFINE Same == {k \in 0..Size : \A i \in Actions : i >= Size - k => chain[i] = g[i]}
  <2>1. 0 \in Same
    <3>1. \A i \in Actions : ~ (i >= Size - 0)
      BY SizeIs
    <3>2. 0 \in 0..Size
      BY SizeIs
    <3> QED BY <3>1, <3>2
  <2>2. ASSUME NEW k \in 1..Size, k - 1 \in Same PROVE k \in Same
    <3> DEFINE m == Size - k
    <3>1. m \in Actions /\ k \in 0..Size /\ m \in Int /\ \A i \in Actions : i \in Int
      BY SizeIs
    <3>2. \A i \in Actions : i > m => chain[i] = g[i]
      <4>1. \A i \in Actions : i > m <=> i >= Size - (k - 1)
        BY SizeIs
      <4> QED BY <2>2, <4>1
    <3> HIDE DEF m
    <3>3. \A d \in Behind(m) : chain[d] = g[d]
      BY <3>2 DEF Dependents
    <3> HIDE DEF Behind
    <3>4. {chain[d] : d \in Behind(m)} = {g[d] : d \in Behind(m)}
      BY <3>3
    <3>5. After(chain, m) = After(g, m)
      BY <3>4 DEF After
    <3>6. chain[m] = g[m]
      BY <1>6, <1>8, <3>1, <3>5
    <3>7. \A i \in Actions : i >= m => chain[i] = g[i]
      BY <3>1, <3>2, <3>6
    <3> QED BY <3>1, <3>7 DEF m
  <2>3. Size \in Same
    <3>1. \A k \in 1..Size : k - 1 \in Same => k \in Same
      BY <2>2
    <3>2. Size \in Nat /\ Size \in 0..Size
      BY SizeIs
    <3> HIDE DEF Same
    <3> QED BY <2>1, <3>1, <3>2, UpTo
  <2>4. \A i \in Actions : i >= Size - Size
    BY SizeIs
  <2>5. \A i \in Actions : chain[i] = g[i]
    BY <2>3, <2>4
  <2>6. DOMAIN chain = Actions
    BY <1>8
  <2>7. chain = [i \in Actions |-> chain[i]]
    BY <1>8, <2>6
  <2> QED BY <2>5, <2>7
<1>10. ASSUME NEW i \in Actions
       PROVE  /\ chain[i] >= lasts[i]
              /\ \A d \in Dependents(i) : chain[i] >= lasts[i] + chain[d]
              /\ chain[i] = lasts[i] \/ \E d \in Dependents(i) : chain[i] = lasts[i] + chain[d]
  <2>1. chain[i] = lasts[i] + After(chain, i) /\ lasts[i] \in Nat
    BY <1>8
  <2>2. /\ After(chain, i) \in Nat /\ \A d \in Dependents(i) : chain[d] <= After(chain, i)
        /\ After(chain, i) = 0 \/ \E d \in Dependents(i) : chain[d] = After(chain, i)
    BY <1>2, <1>9
  <2>3. \A d \in Dependents(i) : chain[d] \in Nat
    BY <1>9 DEF Dependents
  <2>4. \A d \in Dependents(i) : chain[i] >= lasts[i] + chain[d]
    BY <2>1, <2>2, <2>3
  <2> QED BY <2>1, <2>2, <2>4
<1> QED BY <1>9, <1>10 DEF ChainsOf, chain

-----------------------------------------------------------------------------
(* The critical path.                                                      *)

RouteLasts(e, r) == SumOf([k \in DOMAIN r |-> Estimate(e, r[k])])
IsChain(r) == \A n \in 1..Len(r) - 1 : r[n] \in deps[r[n + 1]]

LEMMA RouteLastsIs ==
    ASSUME NEW e \in Estimators, NEW n \in Nat, NEW r \in [1..n -> Actions]
    PROVE  \E sum \in [0..n -> Nat] :
              /\ sum[0] = 0 /\ \A k \in 1..n : sum[k] = sum[k - 1] + Estimate(e, r[k])
              /\ RouteLasts(e, r) = sum[n]
<1> DEFINE list == [k \in 1..n |-> Estimate(e, r[k])]
<1>1. list \in [1..n -> Nat] /\ RouteLasts(e, r) = SumOf(list)
  BY EstimateIs DEF RouteLasts
<1>2. \A k \in 1..n : list[k] = Estimate(e, r[k])
  OBVIOUS
<1> HIDE DEF list
<1>3. PICK sum \in [0..n -> Nat] :
          /\ sum[0] = 0 /\ \A k \in 1..n : sum[k] = sum[k - 1] + list[k]
          /\ SumOf(list) = sum[n]
  BY <1>1, SumIs
<1> QED BY <1>1, <1>2, <1>3

\* Nothing that must happen in turn takes longer than the critical path.
LEMMA NoChainIsLonger ==
    ASSUME PlanGraph, NEW e \in Estimators, NEW n \in Nat \ {0}, NEW r \in [1..n -> Actions],
           IsChain(r)
    PROVE  RouteLasts(e, r) <= CriticalPathMs(e)
<1> DEFINE lasts == Estimates(e)
           chain == LongestChain(lasts)
<1>1. lasts \in [Actions -> Nat] /\ \A i \in Actions : lasts[i] = Estimate(e, i)
  BY EstimatesAre DEF Estimates
<1>2. ChainsOf(chain, lasts)
  BY <1>1, LongestChainIs
<1>3. PICK sum \in [0..n -> Nat] :
          /\ sum[0] = 0 /\ \A k \in 1..n : sum[k] = sum[k - 1] + Estimate(e, r[k])
          /\ RouteLasts(e, r) = sum[n]
  BY RouteLastsIs
<1>4. CriticalPathMs(e) = Highest(chain)
  BY DEF CriticalPathMs
<1> HIDE DEF lasts, chain
<1>5. chain \in [Actions -> Nat] /\ \A i \in Actions : chain[i] <= Highest(chain)
  BY <1>2, HighestIs DEF ChainsOf
<1>6. \A k \in 1..n : /\ sum[k] \in Nat /\ sum[k - 1] \in Nat /\ r[k] \in Actions
                      /\ lasts[r[k]] \in Nat /\ chain[r[k]] \in Nat
                      /\ sum[k] = sum[k - 1] + lasts[r[k]] /\ chain[r[k]] >= lasts[r[k]]
  BY <1>1, <1>2, <1>3, <1>5 DEF ChainsOf
<1> DEFINE Good == {k \in 0..n : k = 0 \/ sum[k] + chain[r[k]] <= chain[r[1]] + lasts[r[k]]}
<1>7. 0 \in Good
  OBVIOUS
<1>8. ASSUME NEW k \in 1..n, k - 1 \in Good PROVE k \in Good
  <2>1. CASE k = 1
    BY <1>3, <1>6, <2>1
  <2>2. CASE k # 1
    <3> DEFINE j == k - 1
    <3>1. j \in 1..n /\ j \in 1..Len(r) - 1 /\ j + 1 = k
      BY <2>2
    <3>2. r[j] \in deps[r[k]]
      BY <3>1 DEF IsChain
    <3>3. r[k] \in Dependents(r[j])
      BY <1>6, <3>2 DEF Dependents
    <3>4. chain[r[j]] >= lasts[r[j]] + chain[r[k]]
      BY <1>2, <1>6, <3>1, <3>3 DEF ChainsOf
    <3>5. sum[j] + chain[r[j]] <= chain[r[1]] + lasts[r[j]]
      BY <1>8, <3>1
    <3>6. /\ sum[j] \in Nat /\ lasts[r[j]] \in Nat /\ chain[r[j]] \in Nat /\ chain[r[1]] \in Nat
          /\ sum[k] = sum[j] + lasts[r[k]] /\ lasts[r[k]] \in Nat /\ chain[r[k]] \in Nat
      <4>1. 1 \in 1..n /\ j \in 1..n /\ k - 1 = j
        BY <3>1
      <4> HIDE DEF j
      <4> QED BY <1>6, <4>1
    <3> HIDE DEF j
    <3> DEFINE a == sum[j]
               b == lasts[r[j]]
               c == chain[r[j]]
               x == lasts[r[k]]
               y == chain[r[k]]
               z == chain[r[1]]
    <3>7. a \in Nat /\ b \in Nat /\ c \in Nat /\ x \in Nat /\ y \in Nat /\ z \in Nat
      BY <3>6
    <3>8. c >= b + y /\ a + c <= z + b /\ sum[k] = a + x
      BY <3>4, <3>5, <3>6
    <3> HIDE DEF a, b, c, x, y, z
    <3>9. sum[k] + y <= z + x
      BY <3>7, <3>8
    <3> QED BY <3>9 DEF x, y, z
  <2> QED BY <2>1, <2>2
<1>9. n \in Good
  <2>1. \A k \in 1..n : k - 1 \in Good => k \in Good
    BY <1>8
  <2>2. n \in 0..n
    OBVIOUS
  <2> HIDE DEF Good
  <2> QED BY <1>7, <2>1, <2>2, UpTo
<1>10. sum[n] <= chain[r[1]] /\ chain[r[1]] <= Highest(chain)
  <2>1. sum[n] + chain[r[n]] <= chain[r[1]] + lasts[r[n]] /\ 1 \in 1..n /\ n \in 1..n
    BY <1>9
  <2> QED BY <1>5, <1>6, <2>1
<1>11. Highest(chain) \in Nat
  BY <1>5, HighestIs
<1> QED BY <1>3, <1>4, <1>6, <1>10, <1>11

Roots == {i \in Actions : deps[i] = {}}

\* The highest chains begin with a root.
LEMMA RootsAreHighest ==
    ASSUME PlanGraph, Actions # {}, NEW lasts \in [Actions -> Nat], NEW chain,
           ChainsOf(chain, lasts)
    PROVE  Roots # {} /\ chain[LastBest(Roots, chain)] = Highest(chain)
<1> DEFINE Good == {k \in 0..Size :
                      \A i \in Actions : i < k => \E j \in Roots : chain[j] >= chain[i]}
<1>1. chain \in [Actions -> Nat]
  BY DEF ChainsOf
<1>2. 0 \in Good
  BY SizeIs
<1>3. ASSUME NEW k \in 1..Size, k - 1 \in Good PROVE k \in Good
  <2>1. k - 1 \in Actions /\ k \in 0..Size /\ \A i \in Actions : i < k <=> i = k - 1 \/ i < k - 1
    BY SizeIs
  <2> DEFINE m == k - 1
  <2>2. \E j \in Roots : chain[j] >= chain[m]
    <3>1. CASE deps[m] = {}
      <4>1. m \in Roots /\ chain[m] \in Nat
        BY <1>1, <2>1, <3>1 DEF Roots
      <4> QED BY <4>1
    <3>2. CASE deps[m] # {}
      <4>1. PICK p \in deps[m] : TRUE
        BY <3>2
      <4>2. p \in Actions /\ p < m /\ m \in Dependents(p)
        BY <2>1 DEF PlanGraph, InOrder, Dependents
      <4>3. PICK j \in Roots : chain[j] >= chain[p]
        BY <1>3, <4>2
      <4>4. chain[p] >= lasts[p] + chain[m] /\ lasts[p] \in Nat
        BY <4>2 DEF ChainsOf
      <4>5. chain[p] \in Nat /\ chain[m] \in Nat /\ chain[j] \in Nat
        BY <1>1, <2>1, <4>2 DEF Roots
      <4> QED BY <4>3, <4>4, <4>5
    <3> QED BY <3>1, <3>2
  <2>3. \A i \in Actions : i < m => \E j \in Roots : chain[j] >= chain[i]
    BY <1>3
  <2> QED BY <2>1, <2>2, <2>3
<1>4. \A i \in Actions : \E j \in Roots : chain[j] >= chain[i]
  <2>1. \A k \in 1..Size : k - 1 \in Good => k \in Good
    BY <1>3
  <2>2. Size \in Nat /\ Size \in 0..Size /\ \A i \in Actions : i < Size
    BY SizeIs
  <2>3. Size \in Good
    <3> HIDE DEF Good
    <3> QED BY <1>2, <2>1, <2>2, UpTo
  <2> QED BY <2>2, <2>3
<1>5. Roots # {} /\ Roots \in SUBSET Actions
  BY <1>4 DEF Roots
<1> DEFINE top == LastBest(Roots, chain)
<1>6. top \in Roots /\ \A j \in Roots : chain[j] <= chain[top]
  BY <1>1, <1>5, LastBestIs
<1> HIDE DEF top
<1>7. top \in Actions /\ chain[top] \in Nat
  BY <1>1, <1>5, <1>6
<1>8. \A i \in Actions : chain[i] <= chain[top]
  <2> SUFFICES ASSUME NEW i \in Actions PROVE chain[i] <= chain[top]
    OBVIOUS
  <2>1. PICK j \in Roots : chain[j] >= chain[i]
    BY <1>4
  <2>2. chain[j] <= chain[top] /\ chain[j] \in Nat /\ chain[i] \in Nat
    BY <1>1, <1>5, <1>6
  <2> QED BY <1>7, <2>1, <2>2
<1>9. /\ Highest(chain) \in Nat /\ \A i \in Actions : chain[i] <= Highest(chain)
      /\ Highest(chain) = 0 \/ \E i \in Actions : chain[i] = Highest(chain)
  BY <1>1, HighestIs
<1>10. chain[top] = Highest(chain)
  BY <1>7, <1>8, <1>9
<1> QED BY <1>5, <1>10 DEF top

\* The walk, as far as it has got: every action takes what its chain does, but
\* for the chain of the next one.
Walked(r, k, lasts, chain) ==
    /\ r \in Seq(Actions) /\ r # <<>> /\ IsChain(r)
    /\ chain[r[1]] = Highest(chain)
    /\ \A n \in 1..Len(r) : r[n] >= n - 1
    /\ \A n \in 1..Len(r) - 1 : chain[r[n]] = lasts[r[n]] + chain[r[n + 1]]
    /\ Dependents(Last(r)) = {} \/ Len(r) = k + 1

LEMMA StepWalks ==
    ASSUME PlanGraph, NEW lasts \in [Actions -> Nat], NEW chain, ChainsOf(chain, lasts),
           NEW k \in Nat, NEW r, Walked(r, k, lasts, chain)
    PROVE  Walked(Step(r, chain), k + 1, lasts, chain)
<1> DEFINE next == Dependents(Last(r))
           d == LastBest(next, chain)
           n == Len(r)
           t == Append(r, d)
<1>1. n \in Nat \ {0} /\ Last(r) = r[n] /\ r[n] \in Actions /\ DOMAIN r = 1..n
  BY DEF Walked, Last
<1>2. CASE next = {}
  BY <1>2 DEF Walked, Step
<1>3. CASE next # {}
  <2>1. chain \in [Actions -> Nat] /\ next \in SUBSET Actions
    BY DEF ChainsOf, Dependents
  <2>2. d \in next /\ \A j \in next : chain[j] <= chain[d]
    BY <1>3, <2>1, LastBestIs
  <2>3. Step(r, chain) = t
    BY <1>3 DEF Step
  <2> HIDE DEF d
  <2>4. d \in Actions /\ r[n] \in deps[d] /\ r[n] < d
    BY <1>1, <2>2 DEF Dependents, PlanGraph, InOrder
  <2>5. chain[r[n]] = lasts[r[n]] + chain[d]
    <3>1. /\ chain[r[n]] >= lasts[r[n]] + chain[d] /\ chain[r[n]] >= lasts[r[n]]
          /\ chain[r[n]] = lasts[r[n]] \/ \E j \in next : chain[r[n]] = lasts[r[n]] + chain[j]
      BY <1>1, <2>2 DEF ChainsOf
    <3>2. /\ lasts[r[n]] \in Nat /\ chain[r[n]] \in Nat /\ chain[d] \in Nat
          /\ \A j \in next : chain[j] \in Nat
      BY <1>1, <2>1, <2>4
    <3>3. CASE chain[r[n]] = lasts[r[n]]
      BY <3>1, <3>2, <3>3
    <3>4. CASE \E j \in next : chain[r[n]] = lasts[r[n]] + chain[j]
      <4>1. PICK j \in next : chain[r[n]] = lasts[r[n]] + chain[j]
        BY <3>4
      <4>2. chain[j] <= chain[d] /\ chain[j] \in Nat
        BY <2>2, <3>2
      <4> QED BY <3>1, <3>2, <4>1, <4>2
    <3> QED BY <3>1, <3>3, <3>4
  <2>6. /\ t \in Seq(Actions) /\ t # <<>> /\ Len(t) = n + 1 /\ t[n + 1] = d /\ Last(t) = d
        /\ \A i \in 1..n : t[i] = r[i]
    <3>1. r \in Seq(Actions) /\ d \in Actions
      BY <2>4 DEF Walked
    <3>2. t \in Seq(Actions) /\ Len(t) = n + 1 /\ t[n + 1] = d /\ \A i \in 1..n : t[i] = r[i]
      BY <3>1
    <3>3. Last(t) = d
      BY <3>2 DEF Last
    <3>4. t # <<>>
      BY <1>1, <3>2
    <3> QED BY <3>2, <3>3, <3>4
  <2> HIDE DEF t
  <2>7. ASSUME NEW i \in 1..Len(t) - 1
        PROVE  /\ i \in 1..n /\ t[i] = r[i]
               /\ (i \in 1..n - 1 /\ t[i + 1] = r[i + 1]) \/ (i = n /\ t[i + 1] = d)
    <3>1. i \in 1..n /\ (i = n \/ (i \in 1..n - 1 /\ i + 1 \in 1..n))
      <4>1. Len(t) - 1 = n
        BY <1>1, <2>6
      <4>2. i \in 1..n
        BY <4>1
      <4> HIDE DEF n
      <4> QED BY <1>1, <4>2
    <3> QED BY <2>6, <3>1
  <2>8. IsChain(t)
    BY <2>4, <2>7 DEF Walked, IsChain
  <2>9. chain[t[1]] = Highest(chain)
    <3>1. 1 \in 1..n
      BY <1>1
    <3>2. t[1] = r[1]
      BY <2>6, <3>1
    <3> QED BY <3>2 DEF Walked
  <2>10. \A i \in 1..Len(t) : t[i] >= i - 1
    <3>1. r[n] >= n - 1 /\ r[n] \in Nat /\ d \in Nat
      <4>1. n \in 1..Len(r)
        BY <1>1
      <4>2. r[n] >= n - 1
        BY <4>1 DEF Walked
      <4>3. r[n] \in Nat /\ d \in Nat
        BY <1>1, <2>4, SizeIs
      <4> QED BY <4>2, <4>3
    <3>2. d >= n
      BY <1>1, <2>4, <3>1
    <3>3. ASSUME NEW i \in 1..Len(t) PROVE t[i] >= i - 1
      <4>1. (i \in 1..n /\ t[i] = r[i]) \/ (i = n + 1 /\ t[i] = d)
        BY <1>1, <2>6
      <4>2. CASE i \in 1..n
        BY <2>6, <4>2 DEF Walked
      <4>3. CASE i = n + 1
        BY <1>1, <2>6, <3>2, <4>3
      <4> QED BY <4>1, <4>2, <4>3
    <3> QED BY <3>3
  <2>11. \A i \in 1..Len(t) - 1 : chain[t[i]] = lasts[t[i]] + chain[t[i + 1]]
    BY <2>5, <2>7 DEF Walked
  <2>12. Len(t) = k + 1 + 1
    <3>1. n = k + 1
      BY <1>3 DEF Walked
    <3> QED BY <2>6, <3>1
  <2> QED BY <2>3, <2>6, <2>8, <2>9, <2>10, <2>11, <2>12 DEF Walked
<1> QED BY <1>2, <1>3

\* The recursive walk, unrolled.
LEMMA WalkIs ==
    ASSUME NEW e \in Estimators, Roots # {}
    PROVE  \E walk : LET chain == LongestChain(Estimates(e)) IN
              /\ walk[0] = <<LastBest(Roots, chain)>>
              /\ \A k \in 1..Size : walk[k] = Step(walk[k - 1], chain)
              /\ CriticalPath(e) = walk[Size]
<1> DEFINE chain == LongestChain(Estimates(e))
           first == <<LastBest(Roots, chain)>>
           next(g, k) == IF k = 0 THEN first ELSE Step(g[k - 1], chain)
           walk == CHOOSE g : g = [k \in 0..Size |-> next(g, k)]
           Exists(m) == \E g : g = [k \in 0..m |-> next(g, k)]
           Defined == {m \in 0..Size : Exists(m)}
<1>1. CriticalPath(e) = walk[Size]
  BY DEF CriticalPath, Roots, Size
<1> HIDE DEF walk, first, chain
<1>2. Exists(0)
  <2> DEFINE g == [k \in 0..0 |-> first]
  <2>1. \A k \in 0..0 : next(g, k) = first
    OBVIOUS
  <2> HIDE DEF next
  <2>2. g = [k \in 0..0 |-> next(g, k)]
    BY <2>1
  <2> HIDE DEF g
  <2> QED BY <2>2
<1>3. ASSUME NEW m \in 1..Size, Exists(m - 1) PROVE Exists(m)
  <2>1. PICK g : g = [k \in 0..m - 1 |-> next(g, k)]
    BY <1>3
  <2> DEFINE h == [k \in 0..m |-> IF k = m THEN next(g, m) ELSE g[k]]
  <2>2. ASSUME NEW k \in 0..m PROVE h[k] = next(h, k)
    <3>1. k # 0 => h[k - 1] = g[k - 1]
      BY SizeIs
    <3> HIDE DEF h
    <3>2. next(h, k) = next(g, k)
      BY <3>1
    <3> HIDE DEF next
    <3>3. k # m => k \in 0..m - 1
      BY SizeIs
    <3>4. k # m => g[k] = next(g, k)
      BY <2>1, <3>3
    <3> QED BY <3>2, <3>4 DEF h
  <2> HIDE DEF next
  <2> DEFINE r == [k \in 0..m |-> next(h, k)]
  <2>3. DOMAIN h = DOMAIN r /\ \A k \in 0..m : h[k] = r[k]
    BY <2>2
  <2>4. h = r
    BY <2>3
  <2> HIDE DEF h
  <2> QED BY <2>4
<1>4. Size \in Defined
  <2> HIDE DEF Exists
  <2>1. 0 \in Defined /\ \A m \in 1..Size : m - 1 \in Defined => m \in Defined
    BY <1>2, <1>3, SizeIs
  <2> HIDE DEF Defined
  <2>2. Size \in 0..Size /\ Size \in Nat
    BY SizeIs
  <2> QED BY <2>1, <2>2, UpTo
<1> HIDE DEF next
<1>5. walk = [k \in 0..Size |-> next(walk, k)]
  BY <1>4 DEF walk
<1>6. \A k \in 0..Size : walk[k] = next(walk, k)
  BY <1>5
<1>7. 0 \in 0..Size /\ \A k \in 1..Size : k \in 0..Size /\ k # 0
  BY SizeIs
<1>8. walk[0] = first
  BY <1>6, <1>7 DEF next
<1>9. ASSUME NEW k \in 1..Size PROVE walk[k] = Step(walk[k - 1], chain)
  <2>1. walk[k] = next(walk, k) /\ k # 0
    BY <1>6, <1>7
  <2> QED BY <2>1 DEF next
<1> QED BY <1>1, <1>8, <1>9 DEF chain, first

\* What is reported as the critical path is a chain, and lasts as long as is said.
LEMMA CriticalPathIs ==
    ASSUME PlanGraph, NEW e \in Estimators
    PROVE  IsChain(CriticalPath(e)) /\ RouteLasts(e, CriticalPath(e)) = CriticalPathMs(e)
<1> DEFINE lasts == Estimates(e)
           chain == LongestChain(lasts)
           route == CriticalPath(e)
<1>1. lasts \in [Actions -> Nat] /\ \A i \in Actions : lasts[i] = Estimate(e, i)
  BY EstimatesAre DEF Estimates
<1>2. ChainsOf(chain, lasts)
  BY <1>1, LongestChainIs
<1>3. CriticalPathMs(e) = Highest(chain)
  BY DEF CriticalPathMs
<1>4. CASE Actions = {}
  <2>1. route = <<>>
    BY <1>4 DEF CriticalPath
  <2>2. IsChain(<<>>)
    BY DEF IsChain
  <2> DEFINE nothing == [k \in 1..0 |-> Estimate(e, route[k])]
  <2>3. nothing \in [1..0 -> Nat] /\ RouteLasts(e, route) = SumOf(nothing)
    BY <2>1 DEF RouteLasts
  <2> HIDE DEF nothing
  <2>4. SumOf(nothing) = 0
    <3>1. PICK sum \in [0..0 -> Nat] : sum[0] = 0 /\ SumOf(nothing) = sum[0]
      BY <2>3, SumIs
    <3> QED BY <3>1
  <2>5. Highest(chain) = 0
    <3>1. chain \in [Actions -> Nat]
      BY <1>2 DEF ChainsOf
    <3> HIDE DEF chain
    <3> QED BY <1>4, <3>1, HighestIs
  <2> QED BY <1>3, <2>1, <2>2, <2>3, <2>4, <2>5
<1>5. CASE Actions # {}
  <2>1. Roots # {} /\ chain[LastBest(Roots, chain)] = Highest(chain)
    BY <1>1, <1>2, <1>5, RootsAreHighest
  <2>2. PICK walk : /\ walk[0] = <<LastBest(Roots, chain)>>
                    /\ \A k \in 1..Size : walk[k] = Step(walk[k - 1], chain)
                    /\ route = walk[Size]
    BY <2>1, WalkIs
  <2> DEFINE Good == {k \in 0..Size : Walked(walk[k], k, lasts, chain)}
  <2> HIDE DEF lasts, chain, route
  <2>3. 0 \in Good
    <3> DEFINE root == LastBest(Roots, chain)
    <3>1. chain \in [Actions -> Nat] /\ Roots \in SUBSET Actions
      BY <1>2 DEF ChainsOf, Roots
    <3>2. root \in Actions /\ chain[root] = Highest(chain) /\ walk[0] = <<root>>
      BY <2>1, <2>2, <3>1, LastBestIs
    <3> HIDE DEF root
    <3>3. <<root>> \in Seq(Actions) /\ Len(<<root>>) = 1 /\ <<root>>[1] = root /\ <<root>> # <<>>
      BY <3>2
    <3>4. root >= 0
      BY <3>2, SizeIs
    <3>5. Walked(<<root>>, 0, lasts, chain)
      BY <3>2, <3>3, <3>4 DEF Walked, IsChain
    <3> QED BY <3>2, <3>5, SizeIs
  <2>4. \A k \in 1..Size : k - 1 \in Good => k \in Good
    <3> SUFFICES ASSUME NEW k \in 1..Size, k - 1 \in Good PROVE k \in Good
      OBVIOUS
    <3>1. k - 1 \in Nat /\ (k - 1) + 1 = k /\ k \in 0..Size
      BY SizeIs
    <3>2. Walked(walk[k - 1], k - 1, lasts, chain)
      OBVIOUS
    <3>3. Walked(Step(walk[k - 1], chain), (k - 1) + 1, lasts, chain)
      BY <1>1, <1>2, <3>1, <3>2, StepWalks
    <3>4. walk[k] = Step(walk[k - 1], chain)
      BY <2>2
    <3> QED BY <3>1, <3>3, <3>4
  <2>5. Walked(route, Size, lasts, chain)
    <3>1. Size \in Nat /\ Size \in 0..Size
      BY SizeIs
    <3> HIDE DEF Good
    <3>2. Size \in Good
      BY <2>3, <2>4, <3>1, UpTo
    <3> QED BY <2>2, <3>2 DEF Good
  <2> DEFINE n == Len(route)
  <2>6. n \in Nat \ {0} /\ route \in [1..n -> Actions] /\ Last(route) = route[n]
    BY <2>5 DEF Walked, Last
  <2> HIDE DEF n
  <2>7. 1 \in 1..n /\ n \in 1..n
    BY <2>6
  <2>8. Dependents(route[n]) = {}
    <3>1. CASE n = Size + 1
      <4>1. route[n] >= n - 1
        BY <2>5, <2>7 DEF Walked, n
      <4>2. route[n] \in Actions /\ Size \in Nat
        BY <2>6, <2>7, SizeIs
      <4>3. route[n] \in Nat /\ route[n] < Size
        BY <4>2, SizeIs
      <4> QED BY <3>1, <4>1, <4>2, <4>3
    <3> QED BY <2>5, <2>6, <3>1 DEF Walked, n
  <2>9. chain[route[n]] = lasts[route[n]]
    BY <1>2, <2>6, <2>7, <2>8 DEF ChainsOf
  <2>10. PICK sum \in [0..n -> Nat] :
            /\ sum[0] = 0 /\ \A k \in 1..n : sum[k] = sum[k - 1] + Estimate(e, route[k])
            /\ RouteLasts(e, route) = sum[n]
    BY <2>6, RouteLastsIs
  <2>11. \A k \in 1..n : /\ sum[k] \in Nat /\ sum[k - 1] \in Nat /\ route[k] \in Actions
                         /\ lasts[route[k]] \in Nat /\ chain[route[k]] \in Nat
                         /\ sum[k] = sum[k - 1] + lasts[route[k]]
    BY <1>1, <1>2, <2>6, <2>10 DEF ChainsOf
  <2> DEFINE Told == {k \in 0..n : k = 0 \/ sum[k] + chain[route[k]] = chain[route[1]] + lasts[route[k]]}
  <2>12. 0 \in Told
    BY <2>6
  <2>13. \A k \in 1..n : k - 1 \in Told => k \in Told
    <3> SUFFICES ASSUME NEW k \in 1..n, k - 1 \in Told PROVE k \in Told
      OBVIOUS
    <3>1. CASE k = 1
      <4>1. sum[1] = lasts[route[1]]
        BY <2>7, <2>10, <2>11
      <4> QED BY <2>7, <2>11, <3>1, <4>1
    <3>2. CASE k # 1
      <4> DEFINE j == k - 1
      <4>1. j \in 1..n /\ j \in 1..n - 1 /\ j + 1 = k /\ k \in 0..n
        BY <2>6, <3>2
      <4>2. chain[route[j]] = lasts[route[j]] + chain[route[k]]
        BY <2>5, <4>1 DEF Walked, n
      <4>3. sum[j] + chain[route[j]] = chain[route[1]] + lasts[route[j]]
        BY <4>1
      <4>4. k - 1 = j
        OBVIOUS
      <4> HIDE DEF j
      <4> DEFINE a == sum[j]
                 b == lasts[route[j]]
                 c == chain[route[j]]
                 x == lasts[route[k]]
                 y == chain[route[k]]
                 z == chain[route[1]]
      <4>5. a \in Nat /\ b \in Nat /\ c \in Nat /\ x \in Nat /\ y \in Nat /\ z \in Nat
        BY <2>7, <2>11, <4>1
      <4>6. c = b + y /\ a + c = z + b /\ sum[k] = a + x
        BY <2>11, <4>2, <4>3, <4>4
      <4> HIDE DEF a, b, c, x, y, z
      <4>7. sum[k] + y = z + x
        BY <4>5, <4>6
      <4> QED BY <4>1, <4>7 DEF x, y, z
    <3> QED BY <3>1, <3>2
  <2>14. n \in Told
    <3> HIDE DEF Told
    <3>1. n \in Nat /\ n \in 0..n
      BY <2>6
    <3> QED BY <2>12, <2>13, <3>1, UpTo
  <2>15. sum[n] = chain[route[1]]
    <3>1. sum[n] + chain[route[n]] = chain[route[1]] + lasts[route[n]]
      BY <2>6, <2>14
    <3>2. sum[n] \in Nat /\ chain[route[n]] \in Nat /\ chain[route[1]] \in Nat
      BY <2>7, <2>11
    <3> QED BY <2>9, <3>1, <3>2
  <2>16. chain[route[1]] = Highest(chain) /\ IsChain(route)
    BY <2>5 DEF Walked
  <2> QED BY <1>3, <2>10, <2>15, <2>16 DEF lasts, chain, route
<1> QED BY <1>4, <1>5

LEMMA CriticalPathsAreRealised ==
    ASSUME PlanGraph
    PROVE  CriticalPathIsRealised
<1>1. ASSUME NEW e \in Estimators, NEW n \in 1..Size, NEW r \in [1..n -> Actions], IsChain(r)
      PROVE  RouteLasts(e, r) <= CriticalPathMs(e)
  <2>1. n \in Nat \ {0}
    BY SizeIs
  <2> QED BY <1>1, <2>1, NoChainIsLonger
<1>2. \A e \in Estimators :
        IsChain(CriticalPath(e)) /\ RouteLasts(e, CriticalPath(e)) = CriticalPathMs(e)
  BY CriticalPathIs
<1> QED BY <1>1, <1>2 DEF CriticalPathIsRealised, RouteLasts, IsChain, Size

-----------------------------------------------------------------------------
(* The simulation.                                                         *)

Sims == [waiting : [Actions -> Nat], ready : SUBSET Actions,
         running : SUBSET [ends : Nat, action : Actions],
         now : Nat, busy : Nat, done : Nat]
OnClock(now, A, left) == {[ends |-> now + left[i], action |-> i] : i \in A}
Started(lasts, S) == [i \in Actions |-> IF i \in S THEN lasts[i] ELSE 0]

\* What a simulation is in the middle of: the actions of fin have ended, those of
\* A are running, and left is what is left of every action.
Going(s, jobs, lasts, fin, A, left) ==
    /\ s \in Sims
    /\ fin \in SUBSET Actions /\ A \in SUBSET Actions /\ fin \cap A = {}
    /\ left \in [Actions -> Nat]
    /\ \A i \in fin : left[i] = 0
    /\ \A i \in Actions \ (fin \cup A) : left[i] = lasts[i]
    /\ \A i \in fin \cup A : deps[i] \subseteq fin
    /\ \A i \in Actions : s.waiting[i] = Cardinality(deps[i] \ fin)
    /\ s.ready = {i \in Actions \ (fin \cup A) : deps[i] \subseteq fin}
    /\ s.running = OnClock(s.now, A, left)
    /\ s.busy = Total(Started(lasts, fin \cup A))
    /\ s.done = Cardinality(fin)
    /\ Cardinality(A) <= jobs

LEMMA FiniteActions ==
    ASSUME NEW S \in SUBSET Actions
    PROVE  IsFiniteSet(S) /\ Cardinality(S) \in Nat /\ Cardinality(S) <= Size
           /\ (Cardinality(S) = 0 <=> S = {}) /\ (Cardinality(S) = Size => S = Actions)
BY ActionsAssumption, FS_Subset, FS_CardinalityType, FS_EmptySet DEF Size

\* As many are running as there are entries.
LEMMA OnClockIs ==
    ASSUME NEW now, NEW A \in SUBSET Actions, NEW left
    PROVE  Cardinality(OnClock(now, A, left)) = Cardinality(A)
           /\ (OnClock(now, A, left) = {} <=> A = {})
<1> DEFINE R == OnClock(now, A, left)
           f == [i \in A |-> [ends |-> now + left[i], action |-> i]]
<1>1. \A i \in A : f[i] \in R /\ f[i].action = i
  BY DEF OnClock
<1>2. \A r \in R : \E i \in A : f[i] = r
  BY DEF OnClock
<1>3. f \in [A -> R]
  <2>1. f = [i \in A |-> f[i]]
    OBVIOUS
  <2> HIDE DEF f, R
  <2> QED BY <1>1, <2>1
<1> HIDE DEF f, R
<1>4. f \in Bijection(A, R)
  <2>1. f \in Injection(A, R)
    BY <1>1, <1>3 DEF Injection, IsInjective
  <2>2. f \in Surjection(A, R)
    BY <1>2, <1>3 DEF Surjection
  <2> QED BY <2>1, <2>2 DEF Bijection
<1>5. ExistsBijection(A, R)
  BY <1>4 DEF ExistsBijection
<1>6. IsFiniteSet(A)
  BY FiniteActions
<1>7. Cardinality(R) = Cardinality(A)
  BY <1>5, <1>6, FS_Bijection
<1> QED BY <1>1, <1>2, <1>7 DEF R

\* Before the first round.
LEMMA BegunIs ==
    ASSUME PlanGraph, NEW jobs \in Nat, NEW lasts \in [Actions -> Nat]
    PROVE  Going(Begun, jobs, lasts, {}, {}, lasts)
<1>1. \A i \in Actions : deps[i] \in SUBSET Actions /\ Cardinality(deps[i]) \in Nat
  BY FiniteActions DEF PlanGraph
<1>2. Begun \in Sims
  BY <1>1 DEF Begun, Sims
<1>3. Total(Started(lasts, {})) = 0
  <2>1. Started(lasts, {}) \in [Actions -> Nat] /\ \A i \in Actions : Started(lasts, {})[i] = 0
    BY DEF Started
  <2> QED BY <2>1, TotalOfNothing
<1>4. Cardinality({}) = 0
  BY FS_EmptySet
<1>5. Begun.waiting = [i \in Actions |-> Cardinality(deps[i])]
      /\ Begun.ready = {i \in Actions : deps[i] = {}} /\ Begun.running = {}
      /\ Begun.busy = 0 /\ Begun.done = 0 /\ Begun.now = 0
  BY DEF Begun
<1>6. \A i \in Actions : deps[i] \ {} = deps[i] /\ (deps[i] \subseteq {} <=> deps[i] = {})
  OBVIOUS
<1>7. OnClock(Begun.now, {}, lasts) = {}
  BY DEF OnClock
<1> QED BY <1>2, <1>3, <1>4, <1>5, <1>6, <1>7 DEF Going

\* One attempt to start an action.
LEMMA StartIs ==
    ASSUME PlanGraph, NEW jobs \in Nat, NEW lasts \in [Actions -> Nat],
           NEW priority \in [Actions -> Nat],
           NEW s, NEW fin, NEW A, NEW left, Going(s, jobs, lasts, fin, A, left)
    PROVE  \E B : /\ Going(Start(s, jobs, priority, lasts), jobs, lasts, fin, B, left)
                  /\ Start(s, jobs, priority, lasts).now = s.now
                  /\ \/ B = A /\ Start(s, jobs, priority, lasts) = s
                        /\ (Cardinality(A) >= jobs \/ s.ready = {})
                     \/ Cardinality(B) = Cardinality(A) + 1
<1> DEFINE t == Start(s, jobs, priority, lasts)
<1>1. /\ s \in Sims /\ fin \in SUBSET Actions /\ A \in SUBSET Actions /\ fin \cap A = {}
      /\ left \in [Actions -> Nat]
      /\ s.ready = {i \in Actions \ (fin \cup A) : deps[i] \subseteq fin}
      /\ s.running = OnClock(s.now, A, left)
      /\ s.busy = Total(Started(lasts, fin \cup A))
      /\ \A i \in Actions \ (fin \cup A) : left[i] = lasts[i]
  BY DEF Going
<1>2. Cardinality(s.running) = Cardinality(A) /\ Cardinality(A) \in Nat
  BY <1>1, OnClockIs, FiniteActions
<1>3. CASE Cardinality(A) >= jobs \/ s.ready = {}
  <2>1. t = s
    BY <1>2, <1>3 DEF Start
  <2> QED BY <1>3, <2>1
<1>4. CASE ~ (Cardinality(A) >= jobs) /\ s.ready # {}
  <2> DEFINE i == Best(s.ready, priority)
             B == A \cup {i}
             r == [ends |-> s.now + lasts[i], action |-> i]
  <2>1. i \in s.ready
    <3>1. s.ready \in SUBSET Actions
      BY <1>1
    <3> QED BY <1>4, <3>1, BestIs
  <2>2. t = [s EXCEPT !.ready = @ \ {i}, !.running = @ \cup {r}, !.busy = @ + lasts[i]]
    BY <1>2, <1>4 DEF Start
  <2> HIDE DEF i
  <2>3. i \in Actions /\ i \notin fin /\ i \notin A /\ deps[i] \subseteq fin /\ left[i] = lasts[i]
    BY <1>1, <2>1
  <2>4. r \in [ends : Nat, action : Actions]
    BY <1>1, <2>3 DEF Sims
  <2> HIDE DEF r, t
  <2>5. /\ t \in Sims /\ t.ready = s.ready \ {i} /\ t.running = s.running \cup {r}
        /\ t.busy = s.busy + lasts[i] /\ t.now = s.now /\ t.done = s.done /\ t.waiting = s.waiting
    <3>1. s.busy + lasts[i] \in Nat
      BY <1>1, <2>3 DEF Sims
    <3> QED BY <1>1, <2>2, <2>4, <3>1 DEF Sims
  <2>6. Cardinality(B) = Cardinality(A) + 1 /\ B \in SUBSET Actions
    <3>1. IsFiniteSet(A)
      BY <1>1, FiniteActions
    <3> QED BY <1>1, <2>3, <3>1, FS_AddElement
  <2>7. s.running \cup {r} = OnClock(s.now, B, left)
    BY <1>1, <2>3 DEF OnClock, r
  <2>8. s.busy + lasts[i] = Total(Started(lasts, fin \cup B))
    <3> DEFINE f == Started(lasts, fin \cup A)
               g == Started(lasts, fin \cup B)
    <3>1. /\ f \in [Actions -> Nat] /\ g \in [Actions -> Nat] /\ f[i] = 0 /\ g[i] = lasts[i]
          /\ \A j \in Actions \ {i} : g[j] = f[j]
      BY <2>3 DEF Started
    <3> HIDE DEF f, g
    <3>2. Total(g) + f[i] = Total(f) + g[i] /\ Total(g) \in Nat /\ Total(f) \in Nat
      BY <2>3, <3>1, TotalWithAnother, TotalIsNat
    <3>3. Total(g) = Total(f) + lasts[i]
      BY <3>1, <3>2
    <3> QED BY <1>1, <3>3 DEF f, g
  <2>9. s.ready \ {i} = {j \in Actions \ (fin \cup B) : deps[j] \subseteq fin}
    BY <1>1, <2>3
  <2>10. Cardinality(B) <= jobs
    BY <1>2, <1>4, <2>6
  <2>11. Going(t, jobs, lasts, fin, B, left)
    <3>1. fin \cap B = {}
      BY <1>1, <2>3
    <3>2. \A j \in Actions \ (fin \cup B) : left[j] = lasts[j]
      BY <1>1
    <3>3. \A j \in fin \cup B : deps[j] \subseteq fin
      <4>1. \A j \in fin \cup A : deps[j] \subseteq fin
        BY DEF Going
      <4> QED BY <2>3, <4>1
    <3>4. \A j \in fin : left[j] = 0
      BY DEF Going
    <3>5. (\A j \in Actions : s.waiting[j] = Cardinality(deps[j] \ fin)) /\ s.done = Cardinality(fin)
      BY DEF Going
    <3>6. t.busy = Total(Started(lasts, fin \cup B))
      BY <2>5, <2>8
    <3> HIDE DEF B
    <3> QED BY <1>1, <2>5, <2>6, <2>7, <2>9, <2>10, <3>1, <3>2, <3>3, <3>4, <3>5, <3>6 DEF Going
  <2> QED BY <2>5, <2>6, <2>11 DEF t
<1> QED BY <1>2, <1>3, <1>4

\* The recursive filling, unrolled.
LEMMA FilledIs ==
    ASSUME NEW s, NEW jobs \in Nat, NEW priority, NEW lasts
    PROVE  \E filled : /\ filled[0] = s
                       /\ \A k \in 1..jobs : filled[k] = Start(filled[k - 1], jobs, priority, lasts)
                       /\ Fill(s, jobs, priority, lasts) = filled[jobs]
<1> DEFINE next(g, k) == IF k = 0 THEN s ELSE Start(g[k - 1], jobs, priority, lasts)
           filled == CHOOSE g : g = [k \in 0..jobs |-> next(g, k)]
           Exists(m) == \E g : g = [k \in 0..m |-> next(g, k)]
           Defined == {m \in 0..jobs : Exists(m)}
<1>1. Fill(s, jobs, priority, lasts) = filled[jobs]
  BY DEF Fill
<1> HIDE DEF filled
<1>2. Exists(0)
  <2> DEFINE g == [k \in 0..0 |-> s]
  <2>1. \A k \in 0..0 : next(g, k) = s
    OBVIOUS
  <2> HIDE DEF next
  <2>2. g = [k \in 0..0 |-> next(g, k)]
    BY <2>1
  <2> HIDE DEF g
  <2> QED BY <2>2
<1>3. ASSUME NEW m \in 1..jobs, Exists(m - 1) PROVE Exists(m)
  <2>1. PICK g : g = [k \in 0..m - 1 |-> next(g, k)]
    BY <1>3
  <2> DEFINE h == [k \in 0..m |-> IF k = m THEN next(g, m) ELSE g[k]]
  <2>2. ASSUME NEW k \in 0..m PROVE h[k] = next(h, k)
    <3>1. k # 0 => h[k - 1] = g[k - 1]
      OBVIOUS
    <3> HIDE DEF h
    <3>2. next(h, k) = next(g, k)
      BY <3>1
    <3> HIDE DEF next
    <3>3. k # m => k \in 0..m - 1
      OBVIOUS
    <3>4. k # m => g[k] = next(g, k)
      BY <2>1, <3>3
    <3> QED BY <3>2, <3>4 DEF h
  <2> HIDE DEF next
  <2> DEFINE r == [k \in 0..m |-> next(h, k)]
  <2>3. DOMAIN h = DOMAIN r /\ \A k \in 0..m : h[k] = r[k]
    BY <2>2
  <2>4. h = r
    BY <2>3
  <2> HIDE DEF h
  <2> QED BY <2>4
<1>4. jobs \in Defined
  <2> HIDE DEF Exists
  <2>1. 0 \in Defined /\ \A m \in 1..jobs : m - 1 \in Defined => m \in Defined
    BY <1>2, <1>3
  <2> HIDE DEF Defined
  <2>2. jobs \in 0..jobs
    OBVIOUS
  <2> QED BY <2>1, <2>2, UpTo
<1> HIDE DEF next
<1>5. filled = [k \in 0..jobs |-> next(filled, k)]
  BY <1>4 DEF filled
<1>6. \A k \in 0..jobs : filled[k] = next(filled, k)
  BY <1>5
<1>7. 0 \in 0..jobs /\ \A k \in 1..jobs : k \in 0..jobs /\ k # 0
  OBVIOUS
<1>8. filled[0] = s
  BY <1>6, <1>7 DEF next
<1>9. ASSUME NEW k \in 1..jobs PROVE filled[k] = Start(filled[k - 1], jobs, priority, lasts)
  <2>1. filled[k] = next(filled, k) /\ k # 0
    BY <1>6, <1>7
  <2> QED BY <2>1 DEF next
<1> QED BY <1>1, <1>8, <1>9

\* When no more can be started, nothing is ready or every worker has an action.
LEMMA FillIs ==
    ASSUME PlanGraph, NEW jobs \in Nat, NEW lasts \in [Actions -> Nat],
           NEW priority \in [Actions -> Nat],
           NEW s, NEW fin, NEW A, NEW left, Going(s, jobs, lasts, fin, A, left)
    PROVE  LET t == Fill(s, jobs, priority, lasts) IN
           \E B : /\ Going(t, jobs, lasts, fin, B, left) /\ t.now = s.now
                  /\ t.ready = {} \/ Cardinality(B) = jobs
<1>1. PICK filled :
         /\ filled[0] = s
         /\ \A k \in 1..jobs : filled[k] = Start(filled[k - 1], jobs, priority, lasts)
         /\ Fill(s, jobs, priority, lasts) = filled[jobs]
  BY FilledIs
<1> DEFINE At(t, k) == \E B : /\ Going(t, jobs, lasts, fin, B, left) /\ t.now = s.now
                              /\ t.ready = {} \/ Cardinality(B) >= k
           Good == {k \in 0..jobs : At(filled[k], k)}
<1>2. 0 \in Good
  <2>1. A \in SUBSET Actions
    BY DEF Going
  <2>2. Cardinality(A) \in Nat
    BY <2>1, FiniteActions
  <2>3. Cardinality(A) >= 0
    BY <2>2
  <2>4. At(s, 0)
    BY <2>3
  <2> HIDE DEF At
  <2> QED BY <1>1, <2>4
<1>3. ASSUME NEW k \in 1..jobs, NEW t, At(t, k - 1)
      PROVE  At(Start(t, jobs, priority, lasts), k)
  <2>1. PICK C : /\ Going(t, jobs, lasts, fin, C, left) /\ t.now = s.now
                 /\ t.ready = {} \/ Cardinality(C) >= k - 1
    BY <1>3
  <2>2. CASE t.ready = {}
    <3>1. Start(t, jobs, priority, lasts) = t
      BY <2>2 DEF Start
    <3> QED BY <2>1, <2>2, <3>1
  <2>3. CASE t.ready # {}
    <3>1. PICK B : /\ Going(Start(t, jobs, priority, lasts), jobs, lasts, fin, B, left)
                   /\ Start(t, jobs, priority, lasts).now = t.now
                   /\ \/ B = C /\ Start(t, jobs, priority, lasts) = t
                         /\ (Cardinality(C) >= jobs \/ t.ready = {})
                      \/ Cardinality(B) = Cardinality(C) + 1
      <4>1. Going(t, jobs, lasts, fin, C, left)
        BY <2>1
      <4> QED BY ONLY PlanGraph, jobs \in Nat, lasts \in [Actions -> Nat],
                      priority \in [Actions -> Nat], <4>1, StartIs
    <3>2. C \in SUBSET Actions
      BY <2>1 DEF Going
    <3>3. Cardinality(C) \in Nat
      BY <3>2, FiniteActions
    <3>4. Cardinality(B) >= k
      BY <2>1, <2>3, <3>1, <3>3
    <3> QED BY <2>1, <3>1, <3>4
  <2> QED BY <2>2, <2>3
<1> HIDE DEF At
<1>4. \A k \in 1..jobs : k - 1 \in Good => k \in Good
  BY <1>1, <1>3
<1>5. jobs \in Good
  <2> HIDE DEF Good
  <2>1. jobs \in 0..jobs
    OBVIOUS
  <2> QED BY <1>2, <1>4, <2>1, UpTo
<1>6. PICK B : /\ Going(filled[jobs], jobs, lasts, fin, B, left) /\ filled[jobs].now = s.now
               /\ filled[jobs].ready = {} \/ Cardinality(B) >= jobs
  BY <1>5 DEF At
<1>7. B \in SUBSET Actions /\ Cardinality(B) <= jobs
  BY <1>6 DEF Going
<1>8. Cardinality(B) \in Nat
  BY <1>7, FiniteActions
<1>9. filled[jobs].ready = {} \/ Cardinality(B) = jobs
  BY <1>6, <1>7, <1>8
<1> QED BY <1>1, <1>6, <1>9

\* What is left when some time has passed.
Later(left, A, passes) ==
    [i \in Actions |-> IF i \in A THEN left[i] - passes ELSE left[i]]

\* The clock jumps to the end of an action that no running one ends before.
LEMMA AdvanceIs ==
    ASSUME PlanGraph, NEW jobs \in Nat, NEW lasts \in [Actions -> Nat],
           NEW s, NEW fin, NEW A, NEW left, Going(s, jobs, lasts, fin, A, left), A # {}
    PROVE  \E a \in A :
              /\ \A i \in A : left[a] <= left[i]
              /\ Advance(s).now = s.now + left[a]
              /\ Going(Advance(s), jobs, lasts, fin \cup {a}, A \ {a}, Later(left, A, left[a]))
<1>1. /\ s \in Sims /\ fin \in SUBSET Actions /\ A \in SUBSET Actions /\ fin \cap A = {}
      /\ left \in [Actions -> Nat]
      /\ \A i \in fin : left[i] = 0
      /\ \A i \in Actions \ (fin \cup A) : left[i] = lasts[i]
      /\ \A i \in fin \cup A : deps[i] \subseteq fin
      /\ \A i \in Actions : s.waiting[i] = Cardinality(deps[i] \ fin)
      /\ s.ready = {i \in Actions \ (fin \cup A) : deps[i] \subseteq fin}
      /\ s.running = OnClock(s.now, A, left)
      /\ s.busy = Total(Started(lasts, fin \cup A))
      /\ s.done = Cardinality(fin)
      /\ Cardinality(A) <= jobs
  BY DEF Going
<1>2. s.now \in Nat /\ s.done \in Nat /\ s.busy \in Nat
  BY <1>1 DEF Sims
<1>3. PICK a \in A :
         /\ EarliestEnd(OnClock(s.now, A, left)) = [ends |-> s.now + left[a], action |-> a]
         /\ \A i \in A : left[a] <= left[i]
  BY <1>1, <1>2, EarliestIs DEF OnClock
<1> DEFINE t == Advance(s)
           F == fin \cup {a}
           B == A \ {a}
           after == [i \in Actions |-> IF i \in A THEN left[i] - left[a] ELSE left[i]]
           r == [ends |-> s.now + left[a], action |-> a]
           counted == [d \in Actions |->
                         IF d \in Dependents(a) THEN s.waiting[d] - 1 ELSE s.waiting[d]]
<1>4. /\ t.now = s.now + left[a] /\ t.done = s.done + 1 /\ t.busy = s.busy
      /\ t.running = s.running \ {r} /\ t.waiting = counted
      /\ t.ready = s.ready \cup {d \in Dependents(a) : counted[d] = 0}
      /\ t = [waiting |-> t.waiting, ready |-> t.ready, running |-> t.running,
              now |-> t.now, busy |-> t.busy, done |-> t.done]
  <2>1. EarliestEnd(s.running) = r
    BY <1>1, <1>3
  <2>2. t = [s EXCEPT !.now = r.ends, !.done = @ + 1, !.running = @ \ {r},
                      !.waiting = counted,
                      !.ready = @ \cup {d \in Dependents(a) : counted[d] = 0}]
    BY <2>1 DEF Advance
  <2>3. s = [waiting |-> s.waiting, ready |-> s.ready, running |-> s.running,
             now |-> s.now, busy |-> s.busy, done |-> s.done]
    BY <1>1 DEF Sims
  <2> HIDE DEF counted, t
  <2> QED BY <2>2, <2>3
<1> HIDE DEF t
<1>5. a \in Actions /\ a \notin fin /\ left[a] \in Nat
  BY <1>1
<1>6. \A d \in Actions : counted[d] = Cardinality(deps[d] \ F)
  <2> SUFFICES ASSUME NEW d \in Actions PROVE counted[d] = Cardinality(deps[d] \ F)
    OBVIOUS
  <2>1. deps[d] \in SUBSET Actions /\ deps[d] \ fin \in SUBSET Actions
    BY DEF PlanGraph
  <2>2. IsFiniteSet(deps[d] \ fin) /\ s.waiting[d] = Cardinality(deps[d] \ fin)
    BY <1>1, <2>1, FiniteActions
  <2>3. CASE d \in Dependents(a)
    <3>1. a \in deps[d] \ fin /\ deps[d] \ F = (deps[d] \ fin) \ {a}
      BY <1>5, <2>3 DEF Dependents
    <3> HIDE DEF F
    <3>2. Cardinality((deps[d] \ fin) \ {a}) = Cardinality(deps[d] \ fin) - 1
      BY <2>2, <3>1, FS_RemoveElement
    <3> QED BY <2>2, <2>3, <3>1, <3>2
  <2>4. CASE d \notin Dependents(a)
    <3>1. deps[d] \ F = deps[d] \ fin
      BY <2>4 DEF Dependents
    <3> QED BY <2>2, <2>4, <3>1
  <2> QED BY <2>3, <2>4
<1> HIDE DEF counted
<1>7. \A d \in Actions : /\ deps[d] \ F \in SUBSET Actions /\ counted[d] \in Nat
                         /\ (counted[d] = 0 <=> deps[d] \subseteq F)
  <2> SUFFICES ASSUME NEW d \in Actions
               PROVE  /\ deps[d] \ F \in SUBSET Actions /\ counted[d] \in Nat
                      /\ (counted[d] = 0 <=> deps[d] \subseteq F)
    OBVIOUS
  <2>1. deps[d] \ F \in SUBSET Actions
    BY DEF PlanGraph
  <2> HIDE DEF F
  <2> DEFINE S == deps[d] \ F
  <2>2. S \in SUBSET Actions /\ counted[d] = Cardinality(S)
    BY <1>6, <2>1
  <2>3. S = {} <=> deps[d] \subseteq F
    OBVIOUS
  <2> HIDE DEF S
  <2>4. Cardinality(S) \in Nat /\ (Cardinality(S) = 0 <=> S = {})
    BY <2>2, FiniteActions
  <2> QED BY <2>1, <2>2, <2>3, <2>4
<1>8. /\ F \in SUBSET Actions /\ B \in SUBSET Actions /\ F \cap B = {}
      /\ F \cup B = fin \cup A
  BY <1>1, <1>5
<1>9. after \in [Actions -> Nat]
  <2>1. \A i \in A : left[i] - left[a] \in Nat
    BY <1>1, <1>3, <1>5
  <2> QED BY <1>1, <2>1
<1>10. /\ \A i \in F : after[i] = 0
       /\ \A i \in Actions \ (F \cup B) : after[i] = lasts[i]
  BY <1>1, <1>5
<1>11. \A i \in F \cup B : deps[i] \subseteq F
  BY <1>1, <1>8
<1>12. t.ready = {i \in Actions \ (F \cup B) : deps[i] \subseteq F}
  <2>1. \A i \in Dependents(a) : i \in Actions /\ i \notin fin \cup A
    BY <1>1, <1>5 DEF Dependents
  <2>2. \A i \in Actions : deps[i] \subseteq F => deps[i] \subseteq fin \/ i \in Dependents(a)
    BY DEF Dependents
  <2> HIDE DEF F, B
  <2>3. t.ready = {i \in Actions \ (fin \cup A) : deps[i] \subseteq fin}
                    \cup {d \in Dependents(a) : deps[d] \subseteq F}
    BY <1>1, <1>4, <1>7, <2>1
  <2>4. fin \subseteq F
    BY DEF F
  <2> QED BY <1>8, <2>1, <2>2, <2>3, <2>4
<1>13. t.running = OnClock(t.now, B, after)
  <2>1. \A i \in B : t.now + after[i] = s.now + left[i]
    BY <1>1, <1>2, <1>4, <1>5
  <2>2. OnClock(t.now, B, after) = {[ends |-> s.now + left[i], action |-> i] : i \in B}
    BY <2>1 DEF OnClock
  <2>3. OnClock(s.now, A, left) \ {r} = {[ends |-> s.now + left[i], action |-> i] : i \in B}
    BY DEF OnClock
  <2> QED BY <1>1, <1>4, <2>2, <2>3
<1>14. t.done = Cardinality(F) /\ t.busy = Total(Started(lasts, F \cup B))
  <2>1. IsFiniteSet(fin)
    BY <1>1, FiniteActions
  <2>2. Cardinality(F) = Cardinality(fin) + 1
    BY <1>5, <2>1, FS_AddElement
  <2> QED BY <1>1, <1>4, <1>8, <2>2
<1>15. Cardinality(B) <= jobs
  <2>1. IsFiniteSet(A) /\ Cardinality(A) \in Nat
    BY <1>1, FiniteActions
  <2>2. Cardinality(B) = Cardinality(A) - 1
    BY <2>1, FS_RemoveElement
  <2> QED BY <1>1, <2>1, <2>2
<1>16. t \in Sims
  <2>1. t.waiting \in [Actions -> Nat]
    BY <1>4, <1>7 DEF counted
  <2>2. t.ready \in SUBSET Actions
    BY <1>12
  <2>3. t.running \in SUBSET [ends : Nat, action : Actions]
    BY <1>1, <1>4 DEF Sims
  <2>4. t.now \in Nat /\ t.busy \in Nat /\ t.done \in Nat
    BY <1>2, <1>4, <1>5
  <2> QED BY <1>4, <2>1, <2>2, <2>3, <2>4 DEF Sims
<1>17. \A i \in Actions : t.waiting[i] = Cardinality(deps[i] \ F)
  BY <1>4, <1>6
<1> HIDE DEF F, B, after
<1>18. Going(t, jobs, lasts, F, B, after)
  BY <1>8, <1>9, <1>10, <1>11, <1>12, <1>13, <1>14, <1>15, <1>16, <1>17 DEF Going
<1> QED BY <1>3, <1>4, <1>18 DEF t, F, B, after, Later

-----------------------------------------------------------------------------
(* How long a simulation can take.                                         *)

\* The longest chain of what has not ended.
ToGo(chain, lasts, fin, left) ==
    [i \in Actions |-> IF i \in fin THEN 0 ELSE chain[i] - lasts[i] + left[i]]
Rest(chain, lasts, fin, left) == Highest(ToGo(chain, lasts, fin, left))

\* Every moment up to now shortened the work of all workers, or the rest.
InTime(now, jobs, work, bound, over, rest) ==
    /\ jobs * now + over >= work
    /\ jobs * now + over + (jobs - 1) * rest <= work + (jobs - 1) * bound
    /\ now + rest >= bound
    /\ jobs >= Size => now + rest <= bound

LEMMA ToGoIs ==
    ASSUME NEW lasts \in [Actions -> Nat], NEW chain, ChainsOf(chain, lasts),
           NEW fin, NEW left \in [Actions -> Nat]
    PROVE  ToGo(chain, lasts, fin, left) \in [Actions -> Nat]
<1>1. \A i \in Actions : chain[i] - lasts[i] + left[i] \in Nat
  <2> SUFFICES ASSUME NEW i \in Actions PROVE chain[i] - lasts[i] + left[i] \in Nat
    OBVIOUS
  <2>1. chain[i] \in Nat /\ lasts[i] \in Nat /\ left[i] \in Nat /\ chain[i] >= lasts[i]
    BY DEF ChainsOf
  <2> QED BY <2>1
<1> QED BY <1>1 DEF ToGo

\* The rest shrinks by no more than the time that passes, and by all of it when
\* nothing waits for a worker.
LEMMA RestShrinks ==
    ASSUME PlanGraph, NEW jobs \in Nat, NEW lasts \in [Actions -> Nat],
           NEW chain, ChainsOf(chain, lasts),
           NEW s, NEW fin, NEW A, NEW left, Going(s, jobs, lasts, fin, A, left),
           NEW a \in A, \A i \in A : left[a] <= left[i]
    PROVE  LET old == Rest(chain, lasts, fin, left)
               new == Rest(chain, lasts, fin \cup {a}, Later(left, A, left[a]))
           IN  /\ new <= old /\ old <= new + left[a]
               /\ s.ready = {} => new + left[a] <= old
<1> DEFINE after == [i \in Actions |-> IF i \in A THEN left[i] - left[a] ELSE left[i]]
           F == fin \cup {a}
           f == ToGo(chain, lasts, fin, left)
           g == ToGo(chain, lasts, F, after)
           old == Highest(f)
           new == Highest(g)
<1>1. /\ fin \in SUBSET Actions /\ A \in SUBSET Actions /\ fin \cap A = {}
      /\ left \in [Actions -> Nat]
      /\ \A i \in fin : left[i] = 0
      /\ \A i \in Actions \ (fin \cup A) : left[i] = lasts[i]
      /\ \A i \in fin \cup A : deps[i] \subseteq fin
      /\ s.ready = {i \in Actions \ (fin \cup A) : deps[i] \subseteq fin}
  BY DEF Going
<1>2. a \in Actions /\ a \notin fin /\ left[a] \in Nat
  BY <1>1
<1>3. after \in [Actions -> Nat]
  <2>1. \A i \in A : left[i] - left[a] \in Nat
    BY <1>1, <1>2
  <2> QED BY <1>1, <2>1
<1>4. f \in [Actions -> Nat] /\ g \in [Actions -> Nat]
  BY <1>1, <1>3, ToGoIs
<1>5. \A i \in Actions : /\ chain[i] \in Nat /\ lasts[i] \in Nat /\ left[i] \in Nat
                         /\ chain[i] >= lasts[i]
  BY <1>1 DEF ChainsOf
<1>6. /\ \A i \in fin : f[i] = 0 /\ g[i] = 0
      /\ g[a] = 0 /\ f[a] = chain[a] - lasts[a] + left[a]
      /\ \A i \in A \ {a} : f[i] = chain[i] - lasts[i] + left[i] /\ g[i] = f[i] - left[a]
      /\ \A i \in Actions \ (fin \cup A) : f[i] = chain[i] /\ g[i] = chain[i]
  <2>1. \A i \in Actions : f[i] = IF i \in fin THEN 0 ELSE chain[i] - lasts[i] + left[i]
    BY DEF ToGo
  <2>2. \A i \in Actions : g[i] = IF i \in F THEN 0 ELSE chain[i] - lasts[i] + after[i]
    BY DEF ToGo
  <2> HIDE DEF f, g
  <2>3. \A i \in fin : f[i] = 0 /\ g[i] = 0
    BY <1>1, <2>1, <2>2
  <2>4. g[a] = 0 /\ f[a] = chain[a] - lasts[a] + left[a]
    BY <1>2, <2>1, <2>2
  <2>5. ASSUME NEW i \in A \ {a}
        PROVE  f[i] = chain[i] - lasts[i] + left[i] /\ g[i] = f[i] - left[a]
    <3>1. i \in Actions /\ i \notin F /\ after[i] = left[i] - left[a]
      BY <1>1
    <3> HIDE DEF F, after
    <3>2. f[i] = chain[i] - lasts[i] + left[i] /\ g[i] = chain[i] - lasts[i] + after[i]
      BY <1>1, <2>1, <2>2, <3>1
    <3> QED BY <1>2, <1>5, <3>1, <3>2
  <2>6. ASSUME NEW i \in Actions \ (fin \cup A) PROVE f[i] = chain[i] /\ g[i] = chain[i]
    <3>1. i \notin F /\ after[i] = left[i] /\ left[i] = lasts[i]
      BY <1>1
    <3> HIDE DEF F, after
    <3>2. f[i] = chain[i] - lasts[i] + lasts[i] /\ g[i] = chain[i] - lasts[i] + lasts[i]
      BY <2>1, <2>2, <3>1
    <3> QED BY <1>5, <3>2
  <2> QED BY <2>3, <2>4, <2>5, <2>6
<1> HIDE DEF f, g, F, after
<1>7. /\ old \in Nat /\ (\A i \in Actions : f[i] <= old)
      /\ old = 0 \/ \E i \in Actions : f[i] = old
  BY <1>4, HighestIs
<1>8. /\ new \in Nat /\ (\A i \in Actions : g[i] <= new)
      /\ new = 0 \/ \E i \in Actions : g[i] = new
  BY <1>4, HighestIs
<1> HIDE DEF old, new
<1>9. \A i \in Actions : i \in fin \/ i = a \/ i \in A \ {a} \/ i \in Actions \ (fin \cup A)
  OBVIOUS
<1>10. \A i \in Actions : f[i] \in Nat /\ g[i] \in Nat
  BY <1>4
<1>11. \A i \in Actions : g[i] <= f[i]
  BY <1>2, <1>6, <1>9, <1>10
<1>12. new <= old
  <2>1. CASE new = 0
    BY <1>7, <2>1
  <2>2. CASE \E i \in Actions : g[i] = new
    <3>1. PICK i \in Actions : g[i] = new
      BY <2>2
    <3>2. new <= f[i] /\ f[i] <= old /\ f[i] \in Nat
      BY <1>7, <1>10, <1>11, <3>1
    <3> QED BY <1>7, <1>8, <3>2
  <2> QED BY <1>8, <2>1, <2>2
<1>13. old <= new + left[a]
  <2>1. \A i \in Actions : f[i] <= new + left[a]
    <3> SUFFICES ASSUME NEW i \in Actions PROVE f[i] <= new + left[a]
      OBVIOUS
    <3>1. f[i] \in Nat /\ g[i] \in Nat /\ g[i] <= new
      BY <1>8, <1>10
    <3>2. CASE i # a
      <4>1. f[i] <= g[i] + left[a]
        BY <1>2, <1>6, <1>9, <3>1, <3>2
      <4> QED BY <1>2, <1>8, <3>1, <4>1
    <3>3. CASE i = a
      <4>1. CASE chain[a] = lasts[a]
        <5>1. f[a] = left[a]
          BY <1>2, <1>5, <1>6, <4>1
        <5> QED BY <1>2, <1>8, <3>3, <5>1
      <4>2. CASE \E d \in Dependents(a) : chain[a] = lasts[a] + chain[d]
        <5>1. PICK d \in Actions : a \in deps[d] /\ chain[a] = lasts[a] + chain[d]
          BY <4>2 DEF Dependents
        <5>2. d \in Actions \ (fin \cup A)
          BY <1>1, <1>2, <5>1
        <5>3. g[d] = chain[d] /\ f[a] = chain[d] + left[a] /\ chain[d] \in Nat
          <6>1. chain[d] \in Nat /\ lasts[a] \in Nat /\ g[d] = chain[d]
            BY <1>2, <1>5, <1>6, <5>1, <5>2
          <6>2. f[a] = chain[a] - lasts[a] + left[a]
            BY <1>6
          <6> QED BY <1>2, <5>1, <6>1, <6>2
        <5>4. g[d] <= new
          BY <1>8, <5>1
        <5> QED BY <1>2, <1>8, <3>3, <5>3, <5>4
      <4> QED BY <1>2, <4>1, <4>2 DEF ChainsOf
    <3> QED BY <3>2, <3>3
  <2> QED BY <1>2, <1>7, <1>8, <2>1
<1>14. ASSUME s.ready = {} PROVE new + left[a] <= old
  <2>1. f[a] >= left[a] /\ left[a] <= old
    BY <1>2, <1>5, <1>6, <1>7
  <2>2. \A i \in Actions \ (fin \cup A) : chain[i] + left[a] <= old
    <3> DEFINE Long == {i \in Actions \ (fin \cup A) : ~ (chain[i] + left[a] <= old)}
    <3>1. SUFFICES ASSUME Long # {} PROVE FALSE
      OBVIOUS
    <3>2. PICK m \in Long : \A i \in Long : m <= i
      <4>1. Long \in SUBSET Nat
        BY ActionsAssumption
      <4> HIDE DEF Long
      <4> QED BY <3>1, <4>1, LeastNumber
    <3>3. m \in Actions \ (fin \cup A) /\ ~ (chain[m] + left[a] <= old) /\ m \in Nat
      BY <3>2, ActionsAssumption
    <3>4. PICK p \in deps[m] : p \notin fin
      BY <1>1, <1>14, <3>3
    <3>5. p \in Actions /\ p < m /\ p \in Nat /\ m \in Dependents(p)
      BY <3>3, ActionsAssumption DEF PlanGraph, InOrder, Dependents
    <3>6. chain[p] >= lasts[p] + chain[m] /\ chain[p] \in Nat /\ lasts[p] \in Nat /\ chain[m] \in Nat
      BY <1>5, <3>3, <3>5 DEF ChainsOf
    <3>7. CASE p \in A
      <4>1. f[p] = chain[p] - lasts[p] + left[p] /\ left[a] <= left[p] /\ left[p] \in Nat
        BY <1>5, <1>6, <3>5, <3>7
      <4>2. f[p] <= old /\ f[p] \in Nat
        BY <1>7, <1>10, <3>5
      <4> QED BY <1>2, <1>7, <3>3, <3>6, <4>1, <4>2
    <3>8. CASE p \notin A
      <4>1. p \in Actions \ (fin \cup A) /\ ~ (m <= p)
        BY <3>3, <3>4, <3>5, <3>8
      <4>2. chain[p] + left[a] <= old
        BY <3>2, <4>1
      <4> QED BY <1>2, <1>7, <3>3, <3>6, <4>2
    <3> QED BY <3>7, <3>8
  <2>3. \A i \in Actions : g[i] + left[a] <= old
    <3> SUFFICES ASSUME NEW i \in Actions PROVE g[i] + left[a] <= old
      OBVIOUS
    <3>1. CASE i \in fin \/ i = a
      BY <1>2, <1>6, <2>1, <3>1
    <3>2. CASE i \in A \ {a}
      <4>1. f[i] <= old /\ g[i] = f[i] - left[a] /\ f[i] \in Nat
        BY <1>6, <1>7, <1>10, <3>2
      <4> QED BY <1>2, <1>7, <4>1
    <3>3. CASE i \in Actions \ (fin \cup A)
      BY <1>6, <2>2, <3>3
    <3> QED BY <1>9, <3>1, <3>2, <3>3
  <2> QED BY <1>2, <1>7, <1>8, <2>1, <2>3
<1> QED BY <1>12, <1>13, <1>14 DEF old, new, f, g, F, after, Later, Rest

\* The time passes for as many actions as run; that leaves no worker idle, or
\* shortens the rest.
LEMMA TimePasses ==
    ASSUME NEW now \in Nat, NEW jobs \in Nat \ {0}, NEW work \in Nat, NEW bound \in Nat,
           NEW over \in Nat, NEW rest \in Nat, InTime(now, jobs, work, bound, over, rest),
           NEW passes \in Nat, NEW count \in 1..jobs, NEW under \in Nat, NEW new \in Nat,
           over = under + passes * count,
           new <= rest, rest <= new + passes,
           count = jobs \/ new + passes <= rest,
           jobs >= Size => new + passes <= rest
    PROVE  InTime(now + passes, jobs, work, bound, under, new)
<1> DEFINE idle == jobs - count
           others == jobs - 1
           spent == jobs * now
           lost == passes * idle
           shorter == rest - new
<1>1. idle \in Nat /\ others \in Nat /\ shorter \in Nat
  OBVIOUS
<1>2. lost \in Nat /\ spent \in Nat /\ others * bound \in Nat
      /\ others * rest \in Nat /\ others * new \in Nat /\ passes * count \in Nat
  BY <1>1
<1>3. jobs * (now + passes) = spent + passes * count + lost
  <2>1. jobs = count + idle
    OBVIOUS
  <2>2. jobs * (now + passes) = spent + passes * jobs
    OBVIOUS
  <2> HIDE DEF idle
  <2>3. passes * jobs = passes * count + passes * idle
    BY <1>1, <2>1
  <2> DEFINE p == passes * jobs
             q == passes * count
             all == jobs * (now + passes)
  <2>4. p \in Nat /\ q \in Nat /\ all = spent + p /\ p = q + lost
    BY <1>2, <2>2, <2>3
  <2> HIDE DEF spent, lost, p, q, all
  <2>5. all = spent + q + lost
    BY <1>2, <2>4
  <2> QED BY <2>5 DEF all, q
<1>4. lost + others * new <= others * rest
  <2>1. others * rest = others * new + others * shorter
    <3>1. rest = new + shorter
      OBVIOUS
    <3> HIDE DEF shorter, others
    <3> QED BY <1>1, <3>1
  <2>2. CASE count = jobs
    <3>1. lost = 0
      BY <2>2
    <3>2. others * shorter \in Nat
      BY <1>1
    <3> HIDE DEF lost, others, shorter
    <3> QED BY <1>2, <2>1, <3>1, <3>2
  <2>3. CASE new + passes <= rest
    <3> DEFINE x == others - idle
               y == shorter - passes
    <3>1. x \in Nat /\ y \in Nat /\ others = idle + x /\ shorter = passes + y
      BY <2>3
    <3> HIDE DEF x, y, idle, others, shorter
    <3>2. others * shorter = passes * idle + idle * y + x * passes + x * y
      BY <1>1, <3>1
    <3>3. idle * y \in Nat /\ x * passes \in Nat /\ x * y \in Nat
      BY <1>1, <3>1
    <3>4. others * shorter \in Nat /\ passes * idle \in Nat
      BY <1>1
    <3>5. passes * idle <= others * shorter
      BY <3>2, <3>3, <3>4
    <3> QED BY <1>2, <2>1, <3>4, <3>5
  <2> QED BY <2>2, <2>3
<1>5. /\ spent + over >= work
      /\ spent + over + others * rest <= work + others * bound
      /\ now + rest >= bound /\ (jobs >= Size => now + rest <= bound)
  BY DEF InTime
<1>6. now + passes + new >= bound /\ (jobs >= Size => now + passes + new <= bound)
  BY <1>5
<1> DEFINE busy == passes * count
           a == others * bound
           b == others * rest
           c == others * new
           all == jobs * (now + passes)
<1>7. /\ busy \in Nat /\ a \in Nat /\ b \in Nat /\ c \in Nat /\ all = spent + busy + lost
      /\ over = under + busy /\ lost + c <= b /\ spent \in Nat /\ lost \in Nat
      /\ spent + over >= work /\ spent + over + b <= work + a
  BY <1>2, <1>3, <1>4, <1>5
<1> HIDE DEF busy, a, b, c, all, spent, lost
<1>8. all + under >= work /\ all + under + c <= work + a
  BY <1>7
<1> QED BY <1>6, <1>8 DEF InTime, all, a, c

-----------------------------------------------------------------------------
(* A simulation to its end.                                                *)

\* A simulation in time, in which so many actions have ended, or all.
Reached(s, jobs, lasts, chain, k) ==
    \E fin, A, left :
        /\ Going(s, jobs, lasts, fin, A, left)
        /\ InTime(s.now, jobs, Total(lasts), Highest(chain), Total(left),
                  Rest(chain, lasts, fin, left))
        /\ Cardinality(fin) >= k \/ fin = Actions

LEMMA BegunIsReached ==
    ASSUME PlanGraph, NEW jobs \in Nat \ {0}, NEW lasts \in [Actions -> Nat],
           NEW chain, ChainsOf(chain, lasts)
    PROVE  Reached(Begun, jobs, lasts, chain, 0)
<1>1. Going(Begun, jobs, lasts, {}, {}, lasts)
  BY BegunIs
<1>2. Begun.now = 0 /\ Cardinality({}) = 0
  BY FS_EmptySet DEF Begun
<1>3. ToGo(chain, lasts, {}, lasts) = chain
  <2>1. \A i \in Actions : chain[i] - lasts[i] + lasts[i] = chain[i]
    <3> SUFFICES ASSUME NEW i \in Actions PROVE chain[i] - lasts[i] + lasts[i] = chain[i]
      OBVIOUS
    <3>1. chain[i] \in Nat /\ lasts[i] \in Nat
      BY DEF ChainsOf
    <3> QED BY <3>1
  <2>2. chain \in [Actions -> Nat]
    BY DEF ChainsOf
  <2> QED BY <2>1, <2>2 DEF ToGo
<1> DEFINE work == Total(lasts)
           bound == Highest(chain)
<1>4. work \in Nat /\ bound \in Nat /\ Rest(chain, lasts, {}, lasts) = bound
  BY <1>3, TotalIsNat, HighestIs DEF Rest, ChainsOf
<1> HIDE DEF work, bound
<1>5. InTime(0, jobs, work, bound, work, bound)
  <2>1. jobs * 0 = 0
    OBVIOUS
  <2> DEFINE a == (jobs - 1) * bound
  <2>2. a \in Nat
    BY <1>4
  <2> HIDE DEF a
  <2>3. 0 + work + a <= work + a /\ 0 + work >= work
    BY <1>4, <2>2
  <2> QED BY <1>4, <2>1, <2>3 DEF InTime, a
<1>6. 0 >= 0
  OBVIOUS
<1> QED BY <1>1, <1>2, <1>4, <1>5, <1>6 DEF Reached, work, bound

\* When nothing runs and nothing is ready, everything has ended.
LEMMA NothingIsLeft ==
    ASSUME PlanGraph, NEW jobs, NEW lasts, NEW s, NEW fin, NEW left,
           Going(s, jobs, lasts, fin, {}, left), s.ready = {}
    PROVE  fin = Actions
<1>1. fin \in SUBSET Actions /\ \A i \in Actions \ fin : ~ (deps[i] \subseteq fin)
  BY DEF Going
<1> DEFINE Open == Actions \ fin
<1>2. SUFFICES ASSUME Open # {} PROVE FALSE
  BY <1>1
<1>3. PICK m \in Open : \A i \in Open : m <= i
  <2>1. Open \in SUBSET Nat
    BY ActionsAssumption
  <2> HIDE DEF Open
  <2> QED BY <1>2, <2>1, LeastNumber
<1>4. PICK p \in deps[m] : p \notin fin
  BY <1>1, <1>3
<1>5. p \in Open /\ p < m /\ p \in Nat /\ m \in Nat
  BY <1>3, <1>4, ActionsAssumption DEF PlanGraph, InOrder
<1>6. m <= p
  BY <1>3, <1>5
<1> QED BY <1>5, <1>6

LEMMA RoundIsReached ==
    ASSUME PlanGraph, NEW jobs \in Nat \ {0}, NEW lasts \in [Actions -> Nat],
           NEW chain, ChainsOf(chain, lasts), NEW priority \in [Actions -> Nat],
           NEW k \in Nat, NEW s, Reached(s, jobs, lasts, chain, k)
    PROVE  Reached(Round(s, jobs, priority, lasts), jobs, lasts, chain, k + 1)
<1> DEFINE t == Fill(s, jobs, priority, lasts)
           work == Total(lasts)
           bound == Highest(chain)
<1>1. PICK fin, C, left :
         /\ Going(s, jobs, lasts, fin, C, left)
         /\ InTime(s.now, jobs, work, bound, Total(left), Rest(chain, lasts, fin, left))
         /\ Cardinality(fin) >= k \/ fin = Actions
  BY DEF Reached
<1>2. jobs \in Nat
  OBVIOUS
<1>3. PICK A : /\ Going(t, jobs, lasts, fin, A, left) /\ t.now = s.now
               /\ t.ready = {} \/ Cardinality(A) = jobs
  <2>1. Going(s, jobs, lasts, fin, C, left)
    BY <1>1
  <2> QED BY ONLY PlanGraph, <1>2, lasts \in [Actions -> Nat],
                  priority \in [Actions -> Nat], <2>1, FillIs
<1> HIDE DEF t
<1>4. /\ t \in Sims /\ fin \in SUBSET Actions /\ A \in SUBSET Actions /\ fin \cap A = {}
      /\ left \in [Actions -> Nat] /\ t.running = OnClock(t.now, A, left)
      /\ t.ready = {i \in Actions \ (fin \cup A) : deps[i] \subseteq fin}
      /\ Cardinality(A) <= jobs
  BY <1>3 DEF Going
<1>5. t.now \in Nat /\ (t.running = {} <=> A = {})
  BY <1>4, OnClockIs DEF Sims
<1>6. CASE A = {}
  <2>1. Round(s, jobs, priority, lasts) = t
    BY <1>5, <1>6 DEF Round, t
  <2>2. t.ready = {}
    <3>1. Cardinality(A) = 0
      BY <1>6, FS_EmptySet
    <3> QED BY <1>3, <3>1
  <2>3. fin = Actions
    <3>1. Going(t, jobs, lasts, fin, {}, left)
      BY <1>3, <1>6
    <3> QED BY <2>2, <3>1, NothingIsLeft
  <2> QED BY <1>1, <1>3, <2>1, <2>3 DEF Reached
<1>7. CASE A # {}
  <2>1. Round(s, jobs, priority, lasts) = Advance(t)
    BY <1>5, <1>7 DEF Round, t
  <2>2. Going(t, jobs, lasts, fin, A, left)
    BY <1>3
  <2>3. PICK a \in A :
           /\ \A i \in A : left[a] <= left[i]
           /\ Advance(t).now = t.now + left[a]
           /\ Going(Advance(t), jobs, lasts, fin \cup {a}, A \ {a}, Later(left, A, left[a]))
    BY ONLY PlanGraph, <1>2, lasts \in [Actions -> Nat], <1>7, <2>2, AdvanceIs
  <2> DEFINE after == Later(left, A, left[a])
             F == fin \cup {a}
             passes == left[a]
             rest == Rest(chain, lasts, fin, left)
             new == Rest(chain, lasts, F, after)
             count == Cardinality(A)
  <2>4. /\ \A i \in A : left[a] <= left[i]
        /\ Advance(t).now = t.now + passes
        /\ Going(Advance(t), jobs, lasts, F, A \ {a}, after)
    BY <2>3
  <2>5. /\ new <= rest /\ rest <= new + passes
        /\ t.ready = {} => new + passes <= rest
    BY <1>2, <2>2, <2>4, RestShrinks
  <2>6. a \in Actions /\ a \notin fin /\ passes \in Nat
    BY <1>4
  <2>7. after \in [Actions -> Nat]
    <3>1. \A i \in A : left[i] - left[a] \in Nat
      BY <1>4, <2>4, <2>6
    <3> QED BY <1>4, <3>1 DEF Later
  <2>8. count \in 1..jobs
    <3>1. Cardinality(A) \in Nat /\ Cardinality(A) # 0
      BY <1>4, <1>7, FiniteActions
    <3> QED BY <1>4, <3>1
  <2>9. Total(left) = Total(after) + passes * count
    <3>1. MoreIn(A, left, after, passes)
      <4> SUFFICES ASSUME NEW i \in Actions
                   PROVE  left[i] = IF i \in A THEN after[i] + passes ELSE after[i]
        BY DEF MoreIn
      <4>1. left[i] \in Nat /\ after[i] = IF i \in A THEN left[i] - left[a] ELSE left[i]
        BY <1>4 DEF Later
      <4> HIDE DEF after
      <4> QED BY <2>6, <4>1
    <3> HIDE DEF after, passes
    <3> HIDE DEF count
    <3>2. left \in [Actions -> Nat] /\ A \in SUBSET Actions
      BY <1>4
    <3>3. Total(left) = Total(after) + passes * Cardinality(A)
      BY ONLY <2>6, <2>7, <3>1, <3>2, TotalOfLess
    <3> QED BY <3>3 DEF count
  <2>10. jobs >= Size => t.ready = {}
    <3>1. CASE jobs >= Size /\ Cardinality(A) = jobs
      <4>1. Cardinality(A) <= Size /\ Cardinality(A) \in Nat /\ Size \in Nat
        BY <1>4, FiniteActions, SizeIs
      <4>2. Cardinality(A) = Size
        BY <3>1, <4>1
      <4>3. A = Actions
        BY <1>4, <4>2, FiniteActions
      <4> QED BY <1>4, <4>3
    <3> QED BY <1>3, <3>1
  <2>11. work \in Nat /\ bound \in Nat /\ Total(left) \in Nat /\ Total(after) \in Nat
    BY <1>4, <2>7, TotalIsNat, HighestIs DEF ChainsOf
  <2>12. rest \in Nat /\ new \in Nat
    BY <1>4, <2>7, ToGoIs, HighestIs DEF Rest
  <2>13. InTime(t.now, jobs, work, bound, Total(left), rest)
    BY <1>1, <1>3
  <2> HIDE DEF after, F, passes, rest, new, count, work, bound
  <2>14. count = jobs \/ new + passes <= rest
    BY <1>3, <2>5 DEF count
  <2>15. jobs >= Size => new + passes <= rest
    BY <2>5, <2>10
  <2> DEFINE over == Total(left)
             under == Total(after)
             now == t.now
  <2>16. InTime(now + passes, jobs, work, bound, under, new)
    <3>1. over \in Nat /\ under \in Nat /\ over = under + passes * count
      BY <2>9, <2>11
    <3>2. now \in Nat /\ InTime(now, jobs, work, bound, over, rest)
      BY <1>5, <2>13
    <3> HIDE DEF over, under, now
    <3> QED BY <2>5, <2>6, <2>8, <2>11, <2>12, <2>14, <2>15, <3>1, <3>2, TimePasses
  <2>17. Cardinality(F) >= k + 1 \/ F = Actions
    <3>1. CASE fin = Actions
      BY <2>6, <3>1
    <3>2. CASE Cardinality(fin) >= k
      <4>1. IsFiniteSet(fin) /\ Cardinality(fin) \in Nat
        BY <1>4, FiniteActions
      <4>2. Cardinality(F) = Cardinality(fin) + 1
        BY <2>6, <4>1, FS_AddElement DEF F
      <4> QED BY <3>2, <4>1, <4>2
    <3> QED BY <1>1, <3>1, <3>2
  <2>18. /\ Going(Advance(t), jobs, lasts, F, A \ {a}, after)
         /\ InTime(Advance(t).now, jobs, Total(lasts), Highest(chain), Total(after),
                   Rest(chain, lasts, F, after))
    BY <2>4, <2>16 DEF work, bound, new
  <2>19. Reached(Advance(t), jobs, lasts, chain, k + 1)
    BY <2>17, <2>18 DEF Reached
  <2> QED BY <2>1, <2>19
<1> QED BY <1>6, <1>7

\* The recursive simulation, unrolled.
LEMMA AfterIs ==
    ASSUME NEW jobs, NEW priority, NEW lasts
    PROVE  \E after : /\ after[0] = Begun
                      /\ \A k \in 1..Size : after[k] = Round(after[k - 1], jobs, priority, lasts)
                      /\ Simulated(jobs, priority, lasts) = after[Size]
<1> DEFINE next(g, k) == IF k = 0 THEN Begun ELSE Round(g[k - 1], jobs, priority, lasts)
           after == CHOOSE g : g = [k \in 0..Size |-> next(g, k)]
           Exists(m) == \E g : g = [k \in 0..m |-> next(g, k)]
           Defined == {m \in 0..Size : Exists(m)}
<1>1. Simulated(jobs, priority, lasts) = after[Size]
  BY DEF Simulated, Size
<1> HIDE DEF after
<1>2. Exists(0)
  <2> DEFINE g == [k \in 0..0 |-> Begun]
  <2>1. \A k \in 0..0 : next(g, k) = Begun
    OBVIOUS
  <2> HIDE DEF next
  <2>2. g = [k \in 0..0 |-> next(g, k)]
    BY <2>1
  <2> HIDE DEF g
  <2> QED BY <2>2
<1>3. ASSUME NEW m \in 1..Size, Exists(m - 1) PROVE Exists(m)
  <2>1. PICK g : g = [k \in 0..m - 1 |-> next(g, k)]
    BY <1>3
  <2> DEFINE h == [k \in 0..m |-> IF k = m THEN next(g, m) ELSE g[k]]
  <2>2. ASSUME NEW k \in 0..m PROVE h[k] = next(h, k)
    <3>1. k # 0 => h[k - 1] = g[k - 1]
      BY SizeIs
    <3> HIDE DEF h
    <3>2. next(h, k) = next(g, k)
      BY <3>1
    <3> HIDE DEF next
    <3>3. k # m => k \in 0..m - 1
      BY SizeIs
    <3>4. k # m => g[k] = next(g, k)
      BY <2>1, <3>3
    <3> QED BY <3>2, <3>4 DEF h
  <2> HIDE DEF next
  <2> DEFINE r == [k \in 0..m |-> next(h, k)]
  <2>3. DOMAIN h = DOMAIN r /\ \A k \in 0..m : h[k] = r[k]
    BY <2>2
  <2>4. h = r
    BY <2>3
  <2> HIDE DEF h
  <2> QED BY <2>4
<1>4. Size \in Defined
  <2> HIDE DEF Exists
  <2>1. 0 \in Defined /\ \A m \in 1..Size : m - 1 \in Defined => m \in Defined
    BY <1>2, <1>3, SizeIs
  <2> HIDE DEF Defined
  <2>2. Size \in 0..Size /\ Size \in Nat
    BY SizeIs
  <2> QED BY <2>1, <2>2, UpTo
<1> HIDE DEF next
<1>5. after = [k \in 0..Size |-> next(after, k)]
  BY <1>4 DEF after
<1>6. \A k \in 0..Size : after[k] = next(after, k)
  BY <1>5
<1>7. 0 \in 0..Size /\ \A k \in 1..Size : k \in 0..Size /\ k # 0
  BY SizeIs
<1>8. after[0] = Begun
  BY <1>6, <1>7 DEF next
<1>9. ASSUME NEW k \in 1..Size PROVE after[k] = Round(after[k - 1], jobs, priority, lasts)
  <2>1. after[k] = next(after, k) /\ k # 0
    BY <1>6, <1>7
  <2> QED BY <2>1 DEF next
<1> QED BY <1>1, <1>8, <1>9

LEMMA SimulatedIs ==
    ASSUME PlanGraph, NEW jobs \in Nat \ {0}, NEW lasts \in [Actions -> Nat],
           NEW chain, ChainsOf(chain, lasts), NEW priority \in [Actions -> Nat]
    PROVE  Reached(Simulated(jobs, priority, lasts), jobs, lasts, chain, Size)
<1>1. PICK after :
         /\ after[0] = Begun
         /\ \A k \in 1..Size : after[k] = Round(after[k - 1], jobs, priority, lasts)
         /\ Simulated(jobs, priority, lasts) = after[Size]
  BY AfterIs
<1> DEFINE Good == {k \in 0..Size : Reached(after[k], jobs, lasts, chain, k)}
<1>2. 0 \in Good
  BY <1>1, BegunIsReached, SizeIs
<1>3. ASSUME NEW k \in 1..Size, k - 1 \in Good PROVE k \in Good
  <2>1. k - 1 \in Nat /\ (k - 1) + 1 = k /\ k \in 0..Size
    BY SizeIs
  <2> DEFINE s == after[k - 1]
  <2>2. Reached(s, jobs, lasts, chain, k - 1) /\ after[k] = Round(s, jobs, priority, lasts)
    BY <1>1, <1>3
  <2> HIDE DEF s
  <2>3. Reached(Round(s, jobs, priority, lasts), jobs, lasts, chain, (k - 1) + 1)
    BY <2>1, <2>2, RoundIsReached
  <2> QED BY <2>1, <2>2, <2>3
<1>4. Size \in Good
  <2>1. \A k \in 1..Size : k - 1 \in Good => k \in Good
    BY <1>3
  <2>2. Size \in Nat /\ Size \in 0..Size
    BY SizeIs
  <2> HIDE DEF Good
  <2> QED BY <1>2, <2>1, <2>2, UpTo
<1> QED BY <1>1, <1>4

\* Once all have ended, what was in time is the bound of list scheduling.
LEMMA EndIs ==
    ASSUME PlanGraph, NEW jobs \in Nat \ {0}, NEW lasts \in [Actions -> Nat],
           NEW chain, ChainsOf(chain, lasts), NEW s, Reached(s, jobs, lasts, chain, Size)
    PROVE  LET work == Total(lasts)
               bound == Highest(chain)
           IN  /\ s.done = Size /\ s.busy = work
               /\ s.now >= bound
               /\ jobs * s.now >= work
               /\ jobs * s.now <= work + (jobs - 1) * bound
               /\ jobs = Size => s.now = bound
<1> DEFINE work == Total(lasts)
           bound == Highest(chain)
<1>1. PICK fin, A, left :
         /\ Going(s, jobs, lasts, fin, A, left)
         /\ InTime(s.now, jobs, work, bound, Total(left), Rest(chain, lasts, fin, left))
         /\ Cardinality(fin) >= Size \/ fin = Actions
  BY DEF Reached
<1>2. /\ s \in Sims /\ fin \in SUBSET Actions /\ A \in SUBSET Actions /\ fin \cap A = {}
      /\ left \in [Actions -> Nat] /\ \A i \in fin : left[i] = 0
      /\ s.busy = Total(Started(lasts, fin \cup A)) /\ s.done = Cardinality(fin)
  BY <1>1 DEF Going
<1>3. fin = Actions
  <2>1. Cardinality(fin) \in Nat /\ Cardinality(fin) <= Size /\ Size \in Nat
    BY <1>2, FiniteActions, SizeIs
  <2>2. CASE Cardinality(fin) >= Size
    <3>1. Cardinality(fin) = Size
      BY <2>1, <2>2
    <3> QED BY <1>2, <3>1, FiniteActions
  <2> QED BY <1>1, <2>2
<1>4. s.done = Size
  BY <1>2, <1>3 DEF Size
<1>5. s.busy = work
  <2>1. fin \cup A = Actions
    BY <1>2, <1>3
  <2>2. Started(lasts, Actions) = lasts
    BY DEF Started
  <2> QED BY <1>2, <2>1, <2>2
<1>6. Total(left) = 0
  BY <1>2, <1>3, TotalOfNothing
<1>7. Rest(chain, lasts, fin, left) = 0
  <2> DEFINE f == ToGo(chain, lasts, fin, left)
  <2>1. f \in [Actions -> Nat] /\ \A i \in Actions : f[i] = 0
    BY <1>3 DEF ToGo
  <2> HIDE DEF f
  <2>2. Highest(f) = 0 \/ \E i \in Actions : f[i] = Highest(f)
    BY <2>1, HighestIs
  <2> QED BY <2>1, <2>2 DEF Rest, f
<1>8. InTime(s.now, jobs, work, bound, 0, 0)
  BY <1>1, <1>6, <1>7
<1>9. s.now \in Nat /\ work \in Nat /\ bound \in Nat
  BY <1>2, TotalIsNat, HighestIs DEF Sims, ChainsOf
<1> HIDE DEF work, bound
<1> DEFINE now == s.now
           all == jobs * now
           most == (jobs - 1) * bound
<1>10. /\ now \in Nat /\ all \in Nat /\ most \in Nat /\ (jobs - 1) * 0 = 0
       /\ all + 0 >= work /\ all + 0 + (jobs - 1) * 0 <= work + most
       /\ now + 0 >= bound /\ (jobs >= Size => now + 0 <= bound)
  BY <1>8, <1>9 DEF InTime
<1> HIDE DEF now, all, most
<1>11. all >= work /\ all <= work + most
  BY <1>9, <1>10
<1>12. now >= bound /\ (jobs = Size => now = bound)
  BY <1>9, <1>10, SizeIs
<1> QED BY <1>4, <1>5, <1>11, <1>12 DEF work, bound, now, all, most

LEMMA SimulationsAreListScheduling ==
    ASSUME PlanGraph
    PROVE  SimulationIsListScheduling
<1> SUFFICES ASSUME NEW scheduler \in Schedulers, NEW e \in Estimators, NEW jobs \in 1..Size
             PROVE  LET s == Point(scheduler, e, jobs)
                        work == Total(Estimates("journal"))
                        bound == CriticalPathMs("journal")
                    IN  /\ s.done = Size /\ s.busy = work
                        /\ s.now >= bound
                        /\ jobs * s.now >= work
                        /\ jobs * s.now <= work + (jobs - 1) * bound
                        /\ jobs = Size => s.now = bound
  BY DEF SimulationIsListScheduling, Size
<1> DEFINE lasts == Estimates("journal")
           chain == LongestChain(lasts)
           priority == Priorities(scheduler, e)
<1>1. lasts \in [Actions -> Nat] /\ ChainsOf(chain, lasts)
  <2>1. "journal" \in Estimators
    BY DEF Estimators
  <2> QED BY <2>1, EstimatesAre, LongestChainIs
<1>2. priority \in [Actions -> Nat]
  <2>1. Estimates(e) \in [Actions -> Nat]
    BY EstimatesAre
  <2>2. LongestChain(Estimates(e)) \in [Actions -> Nat]
    BY <2>1, LongestChainIs DEF ChainsOf
  <2> QED BY <2>2 DEF Priorities
<1>3. jobs \in Nat \ {0}
  BY SizeIs
<1>4. Point(scheduler, e, jobs) = Simulated(jobs, priority, lasts)
      /\ CriticalPathMs("journal") = Highest(chain)
  BY DEF Point, CriticalPathMs
<1> HIDE DEF lasts, chain, priority
<1>5. Reached(Simulated(jobs, priority, lasts), jobs, lasts, chain, Size)
  BY <1>1, <1>2, <1>3, SimulatedIs
<1> DEFINE s == Simulated(jobs, priority, lasts)
<1> HIDE DEF s
<1>6. /\ s.done = Size /\ s.busy = Total(lasts)
      /\ s.now >= Highest(chain)
      /\ jobs * s.now >= Total(lasts)
      /\ jobs * s.now <= Total(lasts) + (jobs - 1) * Highest(chain)
      /\ jobs = Size => s.now = Highest(chain)
  BY <1>1, <1>3, <1>5, EndIs DEF s
<1> QED BY <1>4, <1>6 DEF lasts, s

-----------------------------------------------------------------------------

\* Whatever estimator and queue discipline is asked for, a simulated build runs
\* every action once and takes no longer than list scheduling allows, no less
\* than the critical path, and exactly as long with a worker for each action; and
\* the critical path that is reported (Schedule::plan) is the longest chain.  The
\* code fills in the priorities from the last action to the first, which is what
\* they are meant to be only if producers come before their dependents.
THEOREM PlansAreSoundHolds ==
    ASSUME \A g \in Graphs : InOrder(g)
    PROVE  Spec => []PlansAreSound
<1>1. TypeOK => PlanGraph
  BY GraphsAssumption DEF TypeOK, PlanGraph
<1>2. PlanGraph => PlansAreSound
  BY SimulationsAreListScheduling, CriticalPathsAreRealised DEF PlansAreSound
<1>3. TypeOK => PlansAreSound
  BY <1>1, <1>2
<1> QED BY <1>3, TypeCorrect, PTL
=============================================================================
