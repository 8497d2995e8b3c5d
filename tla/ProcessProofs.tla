--------------------------- MODULE ProcessProofs ---------------------------
(***************************************************************************)
(* Proofs about the two modules whose subject is the life of processes:    *)
(* Cancellation, for any workers, requesters and actions, and Watch, for   *)
(* any manifests, outputs, versions and bounds.                            *)
(*                                                                         *)
(* Cancellation: a group registered after a call has returned finds the    *)
(* flag raised, one registered before was terminated.                      *)
(*                                                                         *)
(* Watch: a development process is started only where the last one is      *)
(* stopped through the handle the loop has on it (StopChild), so the       *)
(* handle must never be lost while its process lives; what a build has     *)
(* read must be a pair of versions for the handle to name one.             *)
(***************************************************************************)
EXTENDS Cancellation, Watch, TLAPS

-----------------------------------------------------------------------------
(* Cancellation.                                                           *)

\* A call that has begun has raised the flag.  Together with the exact contents
\* of the register this is inductive: a group registered after a call has
\* returned finds the flag raised, one registered before was terminated.
IInv ==
    /\ TypeOK
    /\ \A r \in Requesters : asked[r] # "no" => cancelled
    /\ CancellationReachesAll

\* Initially nothing is registered and nobody has asked.
LEMMA InitIInv == ASSUME Init PROVE IInv
<1>1. \A w \in Workers : pc[w] = "idle"
  BY DEF Init
<1>2. groups = {w \in Workers : pc[w] \in {"waiting", "reaped"}}
  BY <1>1 DEF Init
<1>3. left \in 0..MaxActions /\ command \in [Workers -> 1..Commands]
  BY CountsAssumption DEF Init
<1>4. TypeOK
  BY <1>2, <1>3 DEF Init, TypeOK
<1>5. CancellationReachesAll /\ \A r \in Requesters : asked[r] = "no"
  BY DEF Init, CancellationReachesAll
<1> QED BY <1>4, <1>5 DEF IInv

\* Types, the register and the flag.
LEMMA TypeStep ==
    ASSUME IInv, [Next]_vars
    PROVE  TypeOK' /\ \A r \in Requesters : asked'[r] # "no" => cancelled'
<1>1. TypeOK /\ \A r \in Requesters : asked[r] # "no" => cancelled
  BY DEF IInv
<1>2. ASSUME NEW r \in Requesters, Ask(r) \/ TerminateAll(r)
      PROVE  TypeOK' /\ \A q \in Requesters : asked'[q] # "no" => cancelled'
  BY <1>1, <1>2 DEF TypeOK, Ask, TerminateAll, Terminated, build
<1>3. ASSUME NEW w \in Workers, WorkerStep(w) \/ Exit(w) \/ Obey(w)
      PROVE  TypeOK' /\ \A q \in Requesters : asked'[q] # "no" => cancelled'
  <2>1. CASE Take(w)
    BY <2>1, <1>1, CountsAssumption DEF TypeOK, Take
  <2>2. CASE Spawn(w)
    BY <2>2, <1>1 DEF TypeOK, Spawn
  <2>3. CASE Register(w)
    BY <2>3, <1>1 DEF TypeOK, Register, Terminated
  <2>4. CASE Exit(w) \/ Obey(w)
    <3>1. UNCHANGED <<cancelled, groups, asked, left, pc, command>>
      BY <2>4 DEF Exit, Obey, build
    <3>2. PICK result \in {"ok", "failed"} : proc' = [proc EXCEPT ![w] = result]
      BY <2>4 DEF Exit, Obey
    <3> QED BY <3>1, <3>2, <1>1 DEF TypeOK
  <2>5. CASE Reap(w)
    BY <2>5, <1>1 DEF TypeOK, Reap
  <2>6. CASE Continue(w)
    BY <2>6, <1>1, CountsAssumption DEF TypeOK, Continue, Removed
  <2>7. CASE Record(w)
    BY <2>7, <1>1 DEF TypeOK, Record
  <2> QED BY <1>3, <2>1, <2>2, <2>3, <2>4, <2>5, <2>6, <2>7 DEF WorkerStep
<1>4. CASE UNCHANGED vars
  BY <1>4, <1>1 DEF TypeOK, vars
<1> QED BY <1>2, <1>3, <1>4 DEF Next

\* A command is terminated by the call or by its own registration.
LEMMA ReachStep ==
    ASSUME IInv, [Next]_vars
    PROVE  CancellationReachesAll'
<1>1. TypeOK /\ CancellationReachesAll
  BY DEF IInv
<1>2. \A r \in Requesters : asked[r] # "no" => cancelled
  BY DEF IInv
<1>3. ASSUME NEW r \in Requesters, Ask(r)
      PROVE  CancellationReachesAll'
  BY <1>1, <1>3 DEF TypeOK, CancellationReachesAll, Ask, build
<1>4. ASSUME NEW r \in Requesters, TerminateAll(r)
      PROVE  CancellationReachesAll'
  BY <1>1, <1>4 DEF TypeOK, CancellationReachesAll, TerminateAll, Terminated, build
<1>5. ASSUME NEW w \in Workers, WorkerStep(w) \/ Exit(w) \/ Obey(w)
      PROVE  CancellationReachesAll'
  <2>1. CASE Take(w) \/ Record(w) \/ Reap(w)
    BY <2>1, <1>1 DEF TypeOK, CancellationReachesAll, Take, Record, Reap
  <2>2. CASE Spawn(w)
    BY <2>2, <1>1 DEF TypeOK, CancellationReachesAll, Spawn
  <2>3. CASE Register(w)
    BY <2>3, <1>1, <1>2 DEF TypeOK, CancellationReachesAll, Register, Terminated
  <2>4. CASE Exit(w) \/ Obey(w)
    BY <2>4, <1>1 DEF TypeOK, CancellationReachesAll, Exit, Obey, build
  <2>5. CASE Continue(w)
    BY <2>5, <1>1 DEF TypeOK, CancellationReachesAll, Continue, Removed
  <2> QED BY <1>5, <2>1, <2>2, <2>3, <2>4, <2>5 DEF WorkerStep
<1>6. CASE UNCHANGED vars
  BY <1>6, <1>1 DEF CancellationReachesAll, vars
<1> QED BY <1>3, <1>4, <1>5, <1>6 DEF Next

\* The register, the flag and what a finished call guarantees hold throughout.
THEOREM CancellationInvariant == Spec => []IInv
<1>1. IInv /\ [Next]_vars => IInv'
  BY TypeStep, ReachStep DEF IInv
<1>2. Init => IInv
  BY InitIInv
<1> QED BY <1>1, <1>2, PTL DEF Spec

\* The register has exactly the groups of the commands that were registered
\* and not removed yet, and every variable keeps its type.
THEOREM TypeCorrect == Spec => []TypeOK
<1>1. IInv => TypeOK
  BY DEF IInv
<1> QED BY <1>1, CancellationInvariant, PTL

\* request_cancellation leaves no command behind that nobody told to end: it
\* closes the race with a spawn that has not been registered yet.
THEOREM CancellationReachesAllHolds == Spec => []CancellationReachesAll
<1>1. IInv => CancellationReachesAll
  BY DEF IInv
<1> QED BY <1>1, CancellationInvariant, PTL

-----------------------------------------------------------------------------
(* The watch loop.                                                         *)

\* Between its steps a build knows what it has read, and after a success what it built.
WInv ==
    /\ WatchTypeOK
    /\ manifest \in Manifests /\ source \in Versions
    /\ at \in {"read", "run"} => reading \in Pairs
    /\ at = "succeeded" => built \in Pairs
    /\ OneDevelopmentProcess

\* The users, the watcher, the process and the Ctrl-C.
LEMMA OutsideKeeps ==
    ASSUME WInv,
           \/ \E m \in Manifests : EditManifest(m)
           \/ \E v \in Versions : EditSource(v)
           \/ WatcherFails \/ ProcessExits \/ Cancel \/ Bail
    PROVE  WInv'
<1> USE DEF WInv, WatchTypeOK, OneDevelopmentProcess, building, files, bounds
<1>1. CASE (\E m \in Manifests : EditManifest(m)) \/ (\E v \in Versions : EditSource(v))
  BY <1>1 DEF EditManifest, EditSource, Edit
<1>2. CASE WatcherFails
  <2>1. UNCHANGED <<files, at, building, child, interrupted, alive>> /\ lost' \in BOOLEAN
    BY <1>2 DEF WatcherFails
  <2> QED BY <2>1
<1>3. CASE ProcessExits \/ Cancel \/ Bail
  BY <1>3 DEF ProcessExits, Cancel, Bail, Stopped
<1> QED BY <1>1, <1>2, <1>3

\* The build.
LEMMA BuildKeeps ==
    ASSUME WInv,
           \/ LoadGraph \/ ReadSources \/ BuildCompletes \/ BuildCancelled
           \/ \E o \in Written : Write(o)
    PROVE  WInv'
<1> USE DEF WInv, WatchTypeOK, OneDevelopmentProcess, Idle, files, bounds
<1>1. CASE LoadGraph
  BY <1>1 DEF LoadGraph, Now, Pairs
<1>2. CASE ReadSources
  <2>1. reading[1] \in Manifests /\ reading' = <<reading[1], source>> /\ source \in Versions
    BY <1>2 DEF ReadSources, Pairs
  <2>2. reading' \in Pairs
    BY <2>1 DEF Pairs
  <2>3. PICK work \in Work(reading') : writing' = work \cup (Parents[reading[1]] \ directories)
    BY <1>2 DEF ReadSources
  <2>4. work \subseteq Outputs[reading[1]] \cup Depfiles[reading[1]] \cup {Staging}
    BY <2>1, <2>3 DEF Work
  <2>5. Outputs[reading[1]] \cup Depfiles[reading[1]] \cup Parents[reading[1]] \subseteq Written
    BY <2>1 DEF Written
  <2>6. Staging \in Written
    BY DEF Written
  <2>7. writing' \subseteq Written
    <3> HIDE DEF WInv, WatchTypeOK, Idle
    <3> QED BY <2>3, <2>4, <2>5, <2>6
  <2> QED BY <1>2, <2>2, <2>7 DEF ReadSources
<1>3. CASE BuildCompletes \/ BuildCancelled
  BY <1>3 DEF BuildCompletes, BuildCancelled
<1>4. CASE \E o \in Written : Write(o)
  BY <1>4 DEF Write
<1> QED BY <1>1, <1>2, <1>3, <1>4

\* The loop: whenever a process is started or the loop ends, none is left behind.
LEMMA LoopKeeps ==
    ASSUME WInv,
           \/ AfterFailure \/ AfterSuccess \/ ReapChild
           \/ NothingReceived \/ Receive \/ Collect \/ Collected \/ Stop
    PROVE  WInv'
<1> USE DEF WInv, WatchTypeOK, OneDevelopmentProcess, Idle, files, bounds, building
<1>1. StopChild = {}
  BY DEF StopChild
<1>2. CASE AfterFailure
  BY <1>2 DEF AfterFailure
<1>3. CASE AfterSuccess
  <2>1. /\ child' \in Pairs \cup {None} /\ alive' \subseteq {child'}
        /\ UNCHANGED <<files, writing, built, intact, directories, interrupted, lost>>
        /\ at' = "loop" /\ reading' = None /\ at = "succeeded"
    BY <1>1, <1>3 DEF AfterSuccess
  <2> QED BY <2>1
<1>4. CASE ReapChild
  BY <1>4 DEF ReapChild
<1>5. CASE NothingReceived \/ Receive \/ Collect \/ Collected
  BY <1>5 DEF NothingReceived, Receive, Collect, Collected
<1>6. CASE Stop
  BY <1>1, <1>6 DEF Stop
<1> QED BY <1>2, <1>3, <1>4, <1>5, <1>6

\* The invariant holds however edits, failures, exits and cancellations fall.
THEOREM WatchInvariant == WatchSpec => []WInv
<1>1. WatchInit => WInv
  BY DEF WatchInit, WInv, WatchTypeOK, OneDevelopmentProcess
<1>2. WInv /\ [WatchNext]_watchVars => WInv'
  <2> SUFFICES ASSUME WInv, [WatchNext]_watchVars PROVE WInv'
    OBVIOUS
  <2>1. CASE UNCHANGED watchVars
    BY <2>1 DEF WInv, WatchTypeOK, OneDevelopmentProcess, watchVars, files, building, bounds
  <2> QED BY <2>1, OutsideKeeps, BuildKeeps, LoopKeeps DEF WatchNext, Loop
<1> QED BY <1>1, <1>2, PTL DEF WatchSpec

\* The types of the loop's state, and that outputs are written by a build that runs.
THEOREM WatchTypeCorrect == WatchSpec => []WatchTypeOK
<1>1. WInv => WatchTypeOK
  BY DEF WInv
<1> QED BY <1>1, WatchInvariant, PTL

\* However builds, spawns, exits and the Ctrl-C interleave, the one development process
\* that lives is the one the loop has a handle on, and a loop that stops leaves none
\* (stop_dev_process in main.rs).
THEOREM OneDevelopmentProcessHolds == WatchSpec => []OneDevelopmentProcess
<1>1. WInv => OneDevelopmentProcess
  BY DEF WInv
<1> QED BY <1>1, WatchInvariant, PTL
=============================================================================
