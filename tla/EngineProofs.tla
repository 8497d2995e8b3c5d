---------------------------- MODULE EngineProofs ----------------------------
(***************************************************************************)
(* Proofs about Engine, for any actions and files, whatever the commands   *)
(* read and make.                                                          *)
(*                                                                         *)
(* The argument.  While a build runs, a file that an action depends on     *)
(* changes only if the user edits it (edited): generated ones have their   *)
(* producers behind them (Upstream), and what the digest cache says of     *)
(* either is what is on disk (SourcesAreSettled, OutputsAreSettled).  So   *)
(* the digests of the key, the content the command reads and the digests   *)
(* that are recorded are all the content on disk, or of edited files       *)
(* (KeyIsRead, Work).  When nothing was edited every action that is cached *)
(* or executed leaves an entry that matches the disk (Matching), and a     *)
(* later build finds it so (CalmMatches).                                  *)
(*                                                                         *)
(* The last part is about what a build from nothing would leave.  That is  *)
(* a recursive definition, which defines something if no action waits for  *)
(* itself (SolutionExists).  A build that ended well and undisturbed has   *)
(* left matching entries (EndedMatches) whose inputs there were            *)
(* (Readable); these say truly what the commands make of the disk, and     *)
(* where that is so the disk is what a build from nothing leaves           *)
(* (EntriesAreClean).                                                      *)
(***************************************************************************)
EXTENDS Engine, TLAPS

States == {"todo", "start", "running", "read", "ran", "stored", "done"}
Results == {None, "skipped", "cached", "executed", "failed", "wouldrun", "mayrun"}

\* What is recorded of an action.
IsEntry(a, e) ==
    /\ e.discovered \subseteq (Sources \cup OrderOnly[a]) \ Declared[a]
    /\ e.inputs \in Views(Declared[a] \cup e.discovered)
    /\ e.outputs \in [Outputs[a] -> Contents]

\* Types, and what TypeOK leaves out of them.
FilesOK == disk \in Views(Files) /\ settled \in [Files -> Digests \cup {NotSettled}]

JournalOK ==
    /\ DOMAIN journal = Actions
    /\ \A a \in Actions : journal[a] # NoEntry => IsEntry(a, journal[a])

ProgressOK ==
    /\ build \in {"none", "preflight", "running", "ended"}
    /\ at \in [Actions -> States] /\ outcome \in [Actions -> Results]
    /\ DOMAIN inputs = Actions /\ DOMAIN got = Actions
    /\ cas \subseteq Digests

\* Only a running build has begun with anything.
OnlyRunningWorks ==
    build # "running" =>
        /\ at = [a \in Actions |-> "todo"]
        /\ settled = [f \in Files |-> NotSettled]

\* An action of a running build has an outcome when it is done.
DoneHasOutcome ==
    build \in {"preflight", "running"} =>
        \A a \in Actions :
            /\ at[a] # "done" => outcome[a] = None
            /\ at[a] = "done" => outcome[a] \in {"skipped", "cached", "executed", "failed"}

Working(a) == at[a] \notin {"todo", "done"}
SucceededNow(a) == build = "running" /\ Succeeded(a)

\* An action works, or succeeds, after all its producers have succeeded.
ProducersSucceeded(a) == \A p \in Producers(a) : SucceededNow(p)
Upstream ==
    \A a \in Actions : Working(a) \/ SucceededNow(a) => ProducersSucceeded(a)

\* The digests in memory are what is on disk.
SourcesAreSettled ==
    \A f \in Sources : settled[f] \in {NotSettled, disk[f]} \/ f \in edited

SettledOf(a) ==
    \A o \in Outputs[a] :
        /\ at[a] \in {"todo", "start", "stored"} \/ Succeeded(a) =>
              settled[o] \in {NotSettled, disk[o]}
        /\ at[a] \in {"running", "read", "ran"} => settled[o] = NotSettled
        /\ at[a] = "stored" => settled[o] = disk[o]
OutputsAreSettled == \A a \in Actions : SettledOf(a)

\* The digests that an action is keyed on.
KeyReadOf(a) ==
    at[a] \in {"start", "running", "read", "ran"} =>
        /\ Declared[a] \subseteq DOMAIN inputs[a]
        /\ \A f \in Declared[a] : /\ inputs[a][f] \in Digests \cup {Missing}
                                  /\ inputs[a][f] = disk[f] \/ f \in edited
KeyIsRead == \A a \in Actions : KeyReadOf(a)

\* What a command reads when it sees `view`.
ReadsAll(a, view) ==
    view \in Views(Declared[a] \cup Reads(a, Restrict(view, Declared[a])))

\* What a command has read, written and recorded.
WorkOf(a) ==
    /\ at[a] \in {"read", "ran", "stored"} =>
          /\ ReadsAll(a, got[a])
          /\ \A f \in DOMAIN got[a] : got[a][f] = disk[f] \/ f \in edited
    /\ at[a] \in {"ran", "stored"} => Missing \notin Range(got[a])
    /\ at[a] \in {"running", "read"} /\ a \notin Preserve =>
          \A o \in Outputs[a] : disk[o] = Missing
    /\ at[a] = "ran" => \A o \in Outputs[a] : disk[o] \in {Missing, Produce(a, o, got[a])}
    /\ at[a] = "stored" =>
          /\ \A o \in Outputs[a] : disk[o] = Produce(a, o, got[a])
          /\ inputs[a] \in Views(DOMAIN got[a])
          /\ \A f \in DOMAIN got[a] : inputs[a][f] = disk[f] \/ f \in edited

Work == \A a \in Actions : WorkOf(a)

\* The entry of an action is of the files as they are.
Matches(a) ==
    /\ journal[a] # NoEntry
    /\ \A f \in DOMAIN journal[a].inputs : disk[f] = journal[a].inputs[f]
    /\ \A o \in Outputs[a] : disk[o] = journal[a].outputs[o]

Matching == edited = {} => \A a \in Actions : SucceededNow(a) => Matches(a)

CalmMatches ==
    calm => edited = {} /\ \A a \in Actions : ~Working(a) /\ Matches(a)

IInv ==
    /\ FilesOK /\ JournalOK /\ ProgressOK
    /\ OnlyRunningWorks /\ DoneHasOutcome /\ Upstream
    /\ SourcesAreSettled /\ OutputsAreSettled
    /\ KeyIsRead /\ Work
    /\ Matching /\ CalmMatches
    /\ TrueTraces

-----------------------------------------------------------------------------
(* Files, digests and producers.                                           *)

\* The files an action may depend on.
Needs(a) == Sources \cup Declared[a] \cup OrderOnly[a]

\* Generated ones among them come from its producers.
LEMMA NeedsFacts ==
    ASSUME NEW a \in Actions
    PROVE  /\ Needs(a) \subseteq Files
           /\ \A p \in Actions, f \in Needs(a) : f \in Outputs[p] => p \in Producers(a)
           /\ \A f \in Needs(a) \ Sources : \E p \in Producers(a) : f \in Outputs[p]
           /\ Outputs[a] \subseteq Files /\ Declared[a] \subseteq Needs(a)
<1>1. Needs(a) \subseteq Files
  BY InputsAssumption DEF Needs, Files
<1>2. \A p \in Actions, f \in Needs(a) : f \in Outputs[p] => p \in Producers(a)
  BY ShapeAssumption DEF Needs, Producers
<1>3. Outputs[a] \subseteq Files
  BY DEF Files, Generated
<1>4. ASSUME NEW f \in Needs(a) \ Sources PROVE \E p \in Producers(a) : f \in Outputs[p]
  <2>1. PICK p \in Actions : f \in Outputs[p]
    BY <1>1 DEF Files, Generated
  <2> QED BY <2>1, <1>2
<1> QED BY <1>1, <1>2, <1>3, <1>4 DEF Needs

\* The key of an action is about files it may depend on.
LEMMA KeyPathsAreNeeds ==
    ASSUME JournalOK, NEW a \in Actions
    PROVE  KeyPaths(a) \subseteq Needs(a)
<1>1. CASE journal[a] = NoEntry
  <2>1. journal[a].discovered = {}
    BY <1>1 DEF NoEntry
  <2> QED BY <2>1 DEF KeyPaths, Needs
<1>2. CASE journal[a] # NoEntry
  <2>1. journal[a].discovered \subseteq (Sources \cup OrderOnly[a]) \ Declared[a]
    BY <1>2 DEF JournalOK, IsEntry
  <2> QED BY <2>1 DEF KeyPaths, Needs
<1> QED BY <1>1, <1>2

\* What settling does to one file.
LEMMA SettledByFacts ==
    ASSUME NEW paths, NEW f \in Files
    PROVE  /\ SettledBy(paths)[f] = settled[f]
              \/ (f \in paths /\ settled[f] = NotSettled /\ SettledBy(paths)[f] = disk[f])
           /\ f \in paths /\ Digest(f) # Missing => SettledBy(paths)[f] = Digest(f)
           /\ Digest(f) \in {settled[f], disk[f]}
BY DEF SettledBy, Digest

\* Settling and forgetting keep the digests digests.
LEMMA SettledTypes ==
    ASSUME FilesOK, NEW paths
    PROVE  /\ SettledBy(paths) \in [Files -> Digests \cup {NotSettled}]
           /\ \A f \in Files : Digest(f) \in Digests \cup {Missing}
BY DEF FilesOK, SettledBy, Digest, Views, Digests

\* Who may be checked has its producers behind it.
LEMMA CheckableFacts ==
    ASSUME DoneHasOutcome, NEW a \in Actions, Checkable(a)
    PROVE  ProducersSucceeded(a) /\ build = "running" /\ at[a] = "todo"
BY DEF DoneHasOutcome, Checkable, Ready, ProducersSucceeded, SucceededNow, Succeeded, Producers

\* The digest of a file that an action depends on is the file's.
LEMMA DigestIsDisk ==
    ASSUME SourcesAreSettled, OutputsAreSettled,
           NEW a \in Actions, ProducersSucceeded(a), NEW f \in Needs(a)
    PROVE  Digest(f) = disk[f] \/ f \in edited
<1>1. CASE f \in Sources
  BY <1>1 DEF SourcesAreSettled, Digest
<1>2. CASE f \notin Sources
  <2>1. PICK p \in Producers(a) : f \in Outputs[p]
    BY <1>2, NeedsFacts
  <2>2. p \in Actions /\ Succeeded(p)
    BY <2>1 DEF Producers, ProducersSucceeded, SucceededNow
  <2> QED BY <2>1, <2>2 DEF OutputsAreSettled, SettledOf, Digest
<1> QED BY <1>1, <1>2

\* What a command has read is what it may depend on.
LEMMA ReadsAreNeeds ==
    ASSUME NEW a \in Actions, NEW view, ReadsAll(a, view)
    PROVE  /\ DOMAIN view \subseteq Needs(a) /\ Declared[a] \subseteq DOMAIN view
           /\ Restrict(view, Declared[a]) \in Views(Declared[a])
           /\ DOMAIN view \ Declared[a] = Reads(a, Restrict(view, Declared[a])) \ Declared[a]
<1>1. /\ DOMAIN view = Declared[a] \cup Reads(a, Restrict(view, Declared[a]))
      /\ \A f \in DOMAIN view : view[f] \in Digests \cup {Missing}
  BY DEF ReadsAll, Views
<1>2. Restrict(view, Declared[a]) \in Views(Declared[a])
  BY <1>1 DEF Views, Restrict
<1>3. Reads(a, Restrict(view, Declared[a])) \subseteq Needs(a)
  BY <1>2, InputsAssumption DEF Needs
<1> QED BY <1>1, <1>2, <1>3, NeedsFacts

\* What a command makes of files that are there is a content.
LEMMA ProductsAreContents ==
    ASSUME NEW a \in Actions, NEW view, ReadsAll(a, view), Missing \notin Range(view)
    PROVE  \A o \in Outputs[a] : Produce(a, o, view) \in Contents
<1>1. view \in [Declared[a] \cup Reads(a, Restrict(view, Declared[a])) -> Digests]
  BY DEF ReadsAll, Views, Range
<1>2. Restrict(view, Declared[a]) \in Views(Declared[a])
  BY ReadsAreNeeds
<1> QED BY <1>1, <1>2, ProduceAssumption

-----------------------------------------------------------------------------
(* A step of one action.                                                   *)

\* What it leaves alone: the other actions and everything but its outputs, and
\* digests become known only of files on disk.
OthersKept(a) ==
    /\ UNCHANGED <<build, edited, calm>>
    /\ \A b \in Actions \ {a} :
          /\ at'[b] = at[b] /\ outcome'[b] = outcome[b]
          /\ inputs'[b] = inputs[b] /\ got'[b] = got[b] /\ journal'[b] = journal[b]
          /\ (b \in raced') = (b \in raced)

FilesKept(a) ==
    \A f \in Files \ Outputs[a] :
        /\ disk'[f] = disk[f]
        /\ settled'[f] = settled[f]
              \/ (settled'[f] = disk[f] /\ f \in Needs(a) /\ ProducersSucceeded(a))

\* Where an action is when it steps.
LEMMA ActionIsBusy ==
    ASSUME OnlyRunningWorks, NEW a \in Actions, ActionStep(a)
    PROVE  build = "running" /\ at[a] # "done"
<1>1. CASE at[a] = "todo"
  BY <1>1 DEF ActionStep, SkipAction, HashFails, HitIntact, HitRestored, Miss, Checkable, Ready,
              RefuseCancelled, Begin, SpawnFails, CommandReads, CommandSucceeds, CommandFails,
              Ingest, IngestFails, RerunFails, Record, RecordFails
<1>2. CASE at[a] # "todo"
  <2>1. at[a] # "done"
    BY <1>2 DEF ActionStep, SkipAction, HashFails, HitIntact, HitRestored, Miss, Checkable,
              Ready, RefuseCancelled, Begin, SpawnFails, CommandReads, CommandSucceeds,
              CommandFails, Ingest, IngestFails, RerunFails, Record, RecordFails
  <2> QED BY <1>2, <2>1 DEF OnlyRunningWorks
<1> QED BY <1>1, <1>2

\* Its own variables are all it changes.
LEMMA OthersAreKept ==
    ASSUME JournalOK, ProgressOK, NEW a \in Actions, ActionStep(a)
    PROVE  OthersKept(a)
<1> USE DEF OthersKept, End, observers
<1>0. /\ DOMAIN at = Actions /\ DOMAIN outcome = Actions /\ DOMAIN journal = Actions
      /\ DOMAIN inputs = Actions /\ DOMAIN got = Actions
  BY DEF ProgressOK, JournalOK
<1>1. CASE SkipAction(a) \/ HashFails(a) \/ HitIntact(a) \/ HitRestored(a)
  BY <1>0, <1>1 DEF SkipAction, HashFails, HitIntact, HitRestored
<1>2. CASE Miss(a)
  BY <1>0, <1>2 DEF Miss
<1>3. CASE RefuseCancelled(a) \/ Begin(a) \/ SpawnFails(a) \/ RecordFails(a)
  BY <1>0, <1>3 DEF RefuseCancelled, Begin, SpawnFails, RecordFails
<1>4. CASE CommandReads(a) \/ CommandSucceeds(a) \/ CommandFails(a)
  BY <1>0, <1>4 DEF CommandReads, CommandSucceeds, CommandFails
<1>5. CASE Ingest(a) \/ IngestFails(a) \/ RerunFails(a)
  BY <1>0, <1>5 DEF Ingest, IngestFails, RerunFails
<1>6. CASE Record(a)
  BY <1>0, <1>6 DEF Record
<1> QED BY <1>1, <1>2, <1>3, <1>4, <1>5, <1>6 DEF ActionStep

\* Only its outputs are written, and what it settles is what it depends on.
LEMMA FilesAreKept ==
    ASSUME FilesOK, JournalOK, DoneHasOutcome, Upstream, Work,
           NEW a \in Actions, ActionStep(a)
    PROVE  FilesKept(a)
<1>1. ASSUME NEW paths, NEW f \in Files, f \in paths => f \in Needs(a), ProducersSucceeded(a),
             disk'[f] = disk[f], settled'[f] = SettledBy(paths)[f]
      PROVE  settled'[f] = settled[f]
                \/ (settled'[f] = disk[f] /\ f \in Needs(a) /\ ProducersSucceeded(a))
  BY <1>1, SettledByFacts
<1>2. ASSUME KeyMatches(a)
      PROVE  /\ DOMAIN journal[a].outputs = Outputs[a]
             /\ InStore(a) \subseteq Outputs[a] /\ Stale(a) \subseteq Outputs[a]
  BY <1>2 DEF KeyMatches, InStore, Stale, JournalOK, IsEntry
<1>3. Checkable(a) => ProducersSucceeded(a)
  BY CheckableFacts
<1>4. Working(a) => ProducersSucceeded(a)
  BY DEF Upstream
<1>5. KeyPaths(a) \subseteq Needs(a)
  BY KeyPathsAreNeeds
<1>6. at[a] \in {"read", "ran", "stored"} => Found(a) \subseteq Needs(a)
  BY ReadsAreNeeds DEF Work, WorkOf, Found
<1>7. CASE UNCHANGED <<disk, settled>>
  BY <1>7 DEF FilesKept
<1>8. CASE HitIntact(a)
  <2>1. /\ UNCHANGED disk /\ ProducersSucceeded(a)
        /\ settled' = SettledBy(KeyPaths(a) \cup Outputs[a])
    BY <1>2, <1>3, <1>8 DEF HitIntact
  <2> QED BY <1>1, <1>5, <2>1 DEF FilesKept
<1>9. ASSUME NEW outs \in SUBSET Outputs[a], Materialized(a, outs), ProducersSucceeded(a),
             KeyMatches(a)
      PROVE  FilesKept(a)
  <2>1. PICK seen \in LookedAt(a) :
           settled' = [f \in Files |->
              IF f \in outs THEN NotSettled ELSE SettledBy(KeyPaths(a) \cup seen)[f]]
    BY <1>9 DEF Materialized
  <2>2. seen \subseteq Outputs[a]
    BY <1>2, <1>9 DEF LookedAt
  <2>3. ASSUME NEW f \in Files \ Outputs[a]
        PROVE  disk'[f] = disk[f] /\ settled'[f] = SettledBy(KeyPaths(a) \cup seen)[f]
    BY <1>9, <2>1, <2>3 DEF Materialized
  <2> QED BY <1>1, <1>5, <1>9, <2>2, <2>3 DEF FilesKept
<1>10. CASE HitRestored(a)
  BY <1>2, <1>3, <1>9, <1>10 DEF HitRestored
<1>11. CASE Miss(a)
  <2>1. CASE KeyMatches(a)
    BY <1>2, <1>3, <1>9, <1>11, <2>1 DEF Miss
  <2>2. CASE ~KeyMatches(a)
    <3>1. UNCHANGED disk /\ ProducersSucceeded(a) /\ settled' = SettledBy(KeyPaths(a))
      BY <1>3, <1>11, <2>2 DEF Miss
    <3> QED BY <1>1, <1>5, <3>1 DEF FilesKept
  <2> QED BY <2>1, <2>2
<1>12. CASE Begin(a)
  BY <1>12 DEF Begin, Forgotten, FilesKept
<1>13. CASE SpawnFails(a)
  BY <1>13 DEF SpawnFails, FilesKept
<1>14. CASE CommandSucceeds(a)
  BY <1>14 DEF CommandSucceeds, FilesKept
<1>15. CASE CommandFails(a)
  BY <1>15 DEF CommandFails, FilesKept
<1>16. CASE Ingest(a) \/ IngestFails(a)
  <2>1. UNCHANGED disk /\ at[a] = "ran" /\ settled' = SettledBy(Found(a) \cup Outputs[a])
    BY <1>16 DEF Ingest, IngestFails
  <2>2. ProducersSucceeded(a) /\ Found(a) \subseteq Needs(a)
    BY <1>4, <1>6, <2>1 DEF Working
  <2> QED BY <1>1, <2>1, <2>2 DEF FilesKept
<1>17. CASE RerunFails(a)
  BY <1>17 DEF RerunFails, FilesKept
<1> QED
  BY <1>7, <1>8, <1>10, <1>11, <1>12, <1>13, <1>14, <1>15, <1>16, <1>17
  DEF ActionStep, SkipAction, HashFails, RefuseCancelled, CommandReads, Record, RecordFails

\* The types after a step of one action.
LEMMA ActionFilesOK ==
    ASSUME FilesOK, JournalOK, Work, NEW a \in Actions, ActionStep(a)
    PROVE  FilesOK'
<1>1. /\ \A f \in Files : disk[f] \in Digests \cup {Missing}
      /\ \A f \in Files : settled[f] \in Digests \cup {NotSettled}
  BY DEF FilesOK, Views
<1>2. \A paths : SettledBy(paths) \in [Files -> Digests \cup {NotSettled}]
  BY SettledTypes
<1>3. CASE UNCHANGED <<disk, settled>>
  BY <1>3 DEF FilesOK
<1>4. CASE HitIntact(a) \/ Ingest(a) \/ IngestFails(a)
  BY <1>2, <1>4 DEF FilesOK, HitIntact, Ingest, IngestFails
<1>5. ASSUME NEW outs \in SUBSET InStore(a), Materialized(a, outs), KeyMatches(a)
      PROVE  FilesOK'
  <2>1. \A f \in outs : journal[a].outputs[f] \in Digests
    BY <1>5 DEF InStore, KeyMatches, JournalOK, IsEntry, Digests
  <2>2. disk' \in Views(Files)
    BY <1>1, <1>5, <2>1 DEF Materialized, Views
  <2>3. PICK seen \in LookedAt(a) :
           settled' = [f \in Files |->
              IF f \in outs THEN NotSettled ELSE SettledBy(KeyPaths(a) \cup seen)[f]]
    BY <1>5 DEF Materialized
  <2>4. \A f \in Files : SettledBy(KeyPaths(a) \cup seen)[f] \in Digests \cup {NotSettled}
    BY <1>2
  <2> QED BY <2>2, <2>3, <2>4 DEF FilesOK
<1>6. CASE HitRestored(a)
  BY <1>5, <1>6 DEF HitRestored
<1>7. CASE Miss(a)
  <2>1. CASE KeyMatches(a)
    BY <1>5, <1>7, <2>1 DEF Miss
  <2>2. CASE ~KeyMatches(a)
    BY <1>2, <1>7, <2>2 DEF Miss, FilesOK
  <2> QED BY <2>1, <2>2
<1>8. CASE Begin(a)
  BY <1>1, <1>8 DEF Begin, Forgotten, FilesOK, Views
<1>9. CASE SpawnFails(a)
  BY <1>1, <1>9 DEF SpawnFails, FilesOK, Views, Digests
<1>10. CASE CommandSucceeds(a)
  <2>1. \A o \in Outputs[a] : Produce(a, o, got[a]) \in Digests
    BY <1>10, ProductsAreContents DEF CommandSucceeds, Work, WorkOf, Digests
  <2> QED BY <1>1, <1>10, <2>1 DEF CommandSucceeds, FilesOK, Views
<1>11. CASE CommandFails(a)
  BY <1>1, <1>11 DEF CommandFails, FilesOK, Views
<1>12. CASE RerunFails(a)
  BY <1>1, <1>12 DEF RerunFails, FilesOK, Views, Digests
<1> QED
  BY <1>3, <1>4, <1>6, <1>7, <1>8, <1>9, <1>10, <1>11, <1>12
  DEF ActionStep, SkipAction, HashFails, RefuseCancelled, CommandReads, Record, RecordFails

\* So are its progress and the store.
LEMMA ActionProgressOK ==
    ASSUME FilesOK, JournalOK, ProgressOK, NEW a \in Actions, ActionStep(a)
    PROVE  ProgressOK'
<1> USE DEF End
<1>1. /\ at \in [Actions -> States] /\ outcome \in [Actions -> Results]
      /\ DOMAIN inputs = Actions /\ DOMAIN got = Actions /\ cas \subseteq Digests
  BY DEF ProgressOK
<1>2. build' = build
  BY OthersAreKept DEF OthersKept
<1>3. at' \in [Actions -> States]
  <2>1. \E s \in States : at' = [at EXCEPT ![a] = s]
    BY DEF States, ActionStep, SkipAction, HashFails, HitIntact, HitRestored, Miss,
           RefuseCancelled, Begin, SpawnFails, CommandReads, CommandSucceeds, CommandFails,
           Ingest, IngestFails, RerunFails, Record, RecordFails
  <2> QED BY <1>1, <2>1
<1>4. outcome' \in [Actions -> Results]
  <2>1. outcome' = outcome \/ \E r \in Results : outcome' = [outcome EXCEPT ![a] = r]
    BY DEF Results, ActionStep, SkipAction, HashFails, HitIntact, HitRestored, Miss,
           RefuseCancelled, Begin, SpawnFails, CommandReads, CommandSucceeds, CommandFails,
           Ingest, IngestFails, RerunFails, Record, RecordFails
  <2> QED BY <1>1, <2>1
<1>5. DOMAIN inputs' = Actions /\ DOMAIN got' = Actions
  <2>1. inputs' = inputs \/ \E v : inputs' = [inputs EXCEPT ![a] = v]
    BY DEF ActionStep, SkipAction, HashFails, HitIntact, HitRestored, Miss,
           RefuseCancelled, Begin, SpawnFails, CommandReads, CommandSucceeds, CommandFails,
           Ingest, IngestFails, RerunFails, Record, RecordFails
  <2>2. got' = got \/ \E v : got' = [got EXCEPT ![a] = v]
    BY DEF ActionStep, SkipAction, HashFails, HitIntact, HitRestored, Miss,
           RefuseCancelled, Begin, SpawnFails, CommandReads, CommandSucceeds, CommandFails,
           Ingest, IngestFails, RerunFails, Record, RecordFails
  <2> QED BY <1>1, <2>1, <2>2
<1>6. cas' \subseteq Digests
  <2>1. \A o \in Outputs[a] : Digest(o) \in Digests \cup {Missing}
    BY SettledTypes, NeedsFacts
  <2>2. CASE Ingest(a)
    BY <1>1, <2>1, <2>2 DEF Ingest, AllCreated
  <2>3. CASE IngestFails(a)
    BY <1>1, <2>1, <2>3 DEF IngestFails
  <2>4. CASE cas' = cas
    BY <1>1, <2>4
  <2> QED
    BY <2>2, <2>3, <2>4
    DEF ActionStep, SkipAction, HashFails, HitIntact, HitRestored, Miss, RefuseCancelled,
        Begin, SpawnFails, CommandReads, CommandSucceeds, CommandFails, RerunFails, Record,
        RecordFails
<1> QED BY <1>2, <1>3, <1>4, <1>5, <1>6 DEF ProgressOK

-----------------------------------------------------------------------------
(* What is left to prove of the other actions.                             *)

\* The files of an action whose producers are done stay as they are.
LEMMA NeedsStay ==
    ASSUME DoneHasOutcome, NEW a \in Actions, OthersKept(a), FilesKept(a),
           build = "running", at[a] # "done",
           NEW b \in Actions, ProducersSucceeded(b)
    PROVE  /\ ProducersSucceeded(b)' /\ a \notin Producers(b)
           /\ \A f \in Needs(b) : disk'[f] = disk[f]
<1>1. ~Succeeded(a)
  BY DEF DoneHasOutcome, Succeeded, None
<1>2. a \notin Producers(b)
  BY <1>1 DEF ProducersSucceeded, SucceededNow
<1>3. \A p \in Producers(b) : outcome'[p] = outcome[p]
  BY <1>2 DEF OthersKept, Producers
<1>4. ProducersSucceeded(b)'
  BY <1>3 DEF ProducersSucceeded, SucceededNow, Succeeded, OthersKept
<1>5. \A f \in Needs(b) : f \in Files \ Outputs[a]
  BY <1>2, NeedsFacts
<1> QED BY <1>2, <1>4, <1>5 DEF FilesKept

\* Sources are settled as they are.
LEMMA SourcesStay ==
    ASSUME SourcesAreSettled, NEW a \in Actions, OthersKept(a), FilesKept(a)
    PROVE  SourcesAreSettled'
<1>1. \A f \in Sources : f \in Files \ Outputs[a]
  BY ShapeAssumption DEF Files
<1> QED BY <1>1 DEF SourcesAreSettled, OthersKept, FilesKept

\* The other actions keep their invariants.
LEMMA OthersStay ==
    ASSUME DoneHasOutcome, Upstream, OutputsAreSettled, KeyIsRead, Work,
           NEW a \in Actions, OthersKept(a), FilesKept(a), build = "running", at[a] # "done",
           NEW b \in Actions, b # a
    PROVE  /\ at'[b] # "done" => outcome'[b] = None
           /\ at'[b] = "done" => outcome'[b] \in {"skipped", "cached", "executed", "failed"}
           /\ (Working(b) \/ SucceededNow(b) => ProducersSucceeded(b))'
           /\ SettledOf(b)' /\ KeyReadOf(b)' /\ WorkOf(b)'
<1>1. /\ at'[b] = at[b] /\ outcome'[b] = outcome[b] /\ inputs'[b] = inputs[b]
      /\ got'[b] = got[b] /\ journal'[b] = journal[b] /\ edited' = edited /\ build' = build
  BY DEF OthersKept
<1>2. /\ at[b] # "done" => outcome[b] = None
      /\ at[b] = "done" => outcome[b] \in {"skipped", "cached", "executed", "failed"}
  BY DEF DoneHasOutcome
<1>3. (Working(b) \/ SucceededNow(b))' => Working(b) \/ SucceededNow(b)
  BY <1>1 DEF Working, SucceededNow, Succeeded
<1>4. Working(b) \/ SucceededNow(b) => ProducersSucceeded(b)
  BY DEF Upstream
<1>5. Working(b) => \A f \in Needs(b) : disk'[f] = disk[f]
  BY <1>4, NeedsStay
<1>6. \A o \in Outputs[b] : o \in Files \ Outputs[a]
  BY ShapeAssumption, NeedsFacts
<1>7. \A o \in Outputs[b] : disk'[o] = disk[o]
  BY <1>6 DEF FilesKept
<1>8. ASSUME NEW o \in Outputs[b], settled'[o] # settled[o]
      PROVE  settled'[o] = disk'[o] /\ at[b] = "done"
  <2>1. settled'[o] = disk[o] /\ o \in Needs(a) /\ ProducersSucceeded(a)
    BY <1>6, <1>8 DEF FilesKept
  <2>2. b \in Producers(a)
    BY <2>1, NeedsFacts
  <2>3. Succeeded(b)
    BY <2>1, <2>2 DEF ProducersSucceeded, SucceededNow
  <2> QED BY <1>2, <1>7, <2>1, <2>3 DEF Succeeded, None
<1>9. SettledOf(b)'
  BY <1>1, <1>7, <1>8 DEF OutputsAreSettled, SettledOf, Succeeded
<1>10. KeyReadOf(b)'
  <2>1. Declared[b] \subseteq Needs(b)
    BY DEF Needs
  <2> QED BY <1>1, <1>5, <2>1 DEF KeyIsRead, KeyReadOf, Working
<1>11. WorkOf(b)'
  <2>1. WorkOf(b)
    BY DEF Work
  <2>2. at[b] \in {"read", "ran", "stored"} => DOMAIN got[b] \subseteq Needs(b)
    BY <2>1, ReadsAreNeeds DEF WorkOf
  <2>3. at[b] \in {"read", "ran", "stored"} => Working(b)
    BY DEF Working
  <2> QED BY <1>1, <1>5, <1>7, <2>1, <2>2, <2>3 DEF WorkOf, ReadsAll
<1> QED BY <1>1, <1>2, <1>3, <1>4, <1>9, <1>10, <1>11, NeedsStay

-----------------------------------------------------------------------------
(* What is left to prove of the action itself.                             *)

\* The parts of the invariant that are about one action.
OwnOK(a) ==
    /\ at[a] # "done" => outcome[a] = None
    /\ at[a] = "done" => outcome[a] \in {"skipped", "cached", "executed", "failed"}
    /\ Working(a) \/ SucceededNow(a) => ProducersSucceeded(a)
    /\ SettledOf(a) /\ KeyReadOf(a) /\ WorkOf(a)

\* An action that fails or is skipped has nothing to keep.
LEMMA EndsBadly ==
    ASSUME NEW a \in Actions, at'[a] = "done", outcome'[a] \in {"failed", "skipped"}
    PROVE  OwnOK(a)'
BY DEF OwnOK, Working, SucceededNow, Succeeded, SettledOf, KeyReadOf, WorkOf

\* What holds of the action and its files before any of its steps.
Before(a) ==
    /\ FilesOK /\ JournalOK /\ ProgressOK /\ DoneHasOutcome /\ Upstream
    /\ SourcesAreSettled /\ OutputsAreSettled /\ KeyIsRead /\ Work
    /\ OthersKept(a) /\ FilesKept(a) /\ build = "running" /\ at[a] # "done"

\* The steps from the key to the decision whether the command has to run.
LEMMA OwnHits ==
    ASSUME NEW a \in Actions, Before(a), HitIntact(a) \/ HitRestored(a)
    PROVE  OwnOK(a)'
<1>1. at'[a] = "done" /\ outcome'[a] = "cached" /\ Checkable(a) /\ KeyMatches(a)
  BY DEF HitIntact, HitRestored, End, Before, ProgressOK
<1>2. ProducersSucceeded(a)'
  BY <1>1, CheckableFacts, NeedsStay DEF Before
<1>3. DOMAIN journal[a].outputs = Outputs[a]
  BY <1>1 DEF KeyMatches, Before, JournalOK, IsEntry
<1>4. ASSUME NEW o \in Outputs[a] PROVE settled'[o] \in {NotSettled, disk'[o]}
  <2>1. settled[o] \in {NotSettled, disk[o]} /\ o \in Files
    BY <1>1, CheckableFacts, NeedsFacts DEF Before, OutputsAreSettled, SettledOf
  <2>2. CASE HitIntact(a)
    BY <2>1, <2>2, SettledByFacts DEF HitIntact
  <2>3. CASE HitRestored(a)
    BY <1>3, <2>1, <2>3 DEF HitRestored, Materialized
  <2> QED BY <2>2, <2>3
<1> QED BY <1>1, <1>2, <1>4 DEF OwnOK, Working, SettledOf, KeyReadOf, WorkOf

\* A miss leaves the digests of its inputs behind.
LEMMA OwnMiss ==
    ASSUME NEW a \in Actions, Before(a), Miss(a)
    PROVE  OwnOK(a)'
<1>1. /\ at'[a] = "start" /\ outcome' = outcome /\ inputs'[a] = KeyOf(a) /\ edited' = edited
      /\ Checkable(a) /\ ProducersSucceeded(a) /\ at[a] = "todo" /\ outcome[a] = None
  BY CheckableFacts DEF Miss, Before, ProgressOK, observers, DoneHasOutcome
<1>2. ProducersSucceeded(a)' /\ \A f \in Needs(a) : disk'[f] = disk[f]
  BY <1>1, NeedsStay DEF Before
<1>3. ASSUME NEW o \in Outputs[a] PROVE settled'[o] \in {NotSettled, disk'[o]}
  <2>1. settled[o] \in {NotSettled, disk[o]} /\ o \in Files
    BY <1>1, NeedsFacts DEF Before, OutputsAreSettled, SettledOf
  <2>2. CASE ~KeyMatches(a)
    BY <2>1, <2>2, SettledByFacts DEF Miss
  <2>3. CASE KeyMatches(a)
    <3>1. PICK outs : Materialized(a, outs)
      BY <2>3 DEF Miss
    <3>2. PICK seen :
             settled' = [f \in Files |->
                IF f \in outs THEN NotSettled ELSE SettledBy(KeyPaths(a) \cup seen)[f]]
      BY <3>1 DEF Materialized
    <3>3. CASE o \in outs
      BY <2>1, <3>2, <3>3
    <3>4. CASE o \notin outs
      <4>1. disk'[o] = disk[o] /\ settled'[o] = SettledBy(KeyPaths(a) \cup seen)[o]
        BY <2>1, <3>1, <3>2, <3>4 DEF Materialized
      <4> QED BY <2>1, <4>1, SettledByFacts
    <3> QED BY <3>3, <3>4
  <2> QED BY <2>2, <2>3
<1>4. KeyReadOf(a)'
  <2>1. ASSUME NEW f \in Declared[a]
        PROVE  /\ f \in DOMAIN inputs'[a] /\ inputs'[a][f] \in Digests \cup {Missing}
               /\ inputs'[a][f] = disk'[f] \/ f \in edited
    <3>1. f \in KeyPaths(a) /\ f \in Needs(a) /\ f \in Files
      BY NeedsFacts DEF KeyPaths
    <3>2. inputs'[a][f] = Digest(f)
      BY <1>1, <3>1 DEF KeyOf
    <3>3. Digest(f) \in Digests \cup {Missing}
      BY <3>1, SettledTypes DEF Before
    <3>4. Digest(f) = disk[f] \/ f \in edited
      BY <1>1, <3>1, DigestIsDisk DEF Before
    <3> QED BY <1>1, <1>2, <3>1, <3>2, <3>3, <3>4 DEF KeyOf
  <2> QED BY <1>1, <2>1 DEF KeyReadOf
<1> QED BY <1>1, <1>2, <1>3, <1>4 DEF OwnOK, SettledOf, WorkOf

\* The run of the command.
LEMMA OwnRuns ==
    ASSUME NEW a \in Actions, Before(a), Begin(a) \/ CommandReads(a) \/ CommandSucceeds(a)
    PROVE  OwnOK(a)'
<1>1. /\ at[a] \in {"start", "running", "read"} /\ outcome' = outcome /\ inputs' = inputs
      /\ edited' = edited /\ outcome[a] = None
  BY DEF Begin, CommandReads, CommandSucceeds, Before, observers, DoneHasOutcome
<1>2. at'[a] \in {"running", "read", "ran"}
  BY DEF Begin, CommandReads, CommandSucceeds, Before, ProgressOK
<1>3. ProducersSucceeded(a)' /\ \A f \in Needs(a) : disk'[f] = disk[f]
  BY <1>1, NeedsStay DEF Before, Upstream, Working
<1>4. ASSUME NEW o \in Outputs[a] PROVE settled'[o] = NotSettled
  BY <1>4, NeedsFacts
     DEF Begin, CommandReads, CommandSucceeds, Forgotten, Before, OutputsAreSettled, SettledOf
<1>5. SettledOf(a)'
  BY <1>1, <1>2, <1>4 DEF SettledOf
<1>6. KeyReadOf(a)'
  BY <1>1, <1>3, NeedsFacts DEF KeyReadOf, KeyIsRead, Before
<1>7. WorkOf(a)'
  <2>1. CASE Begin(a)
    <3>1. at'[a] = "running"
      BY <2>1 DEF Begin, Before, ProgressOK
    <3>2. a \notin Preserve => \A o \in Outputs[a] : disk'[o] = Missing
      BY <2>1, NeedsFacts DEF Begin
    <3> QED BY <3>1, <3>2 DEF WorkOf
  <2>2. CASE CommandReads(a)
    <3> DEFINE paths == Declared[a] \cup Reads(a, Restrict(disk, Declared[a]))
    <3>1. /\ at'[a] = "read" /\ disk' = disk /\ at[a] = "running"
          /\ got'[a] = [f \in paths |-> disk[f]]
      BY <2>2 DEF CommandReads, Before, ProgressOK
    <3>2. Restrict(got'[a], Declared[a]) = Restrict(disk, Declared[a])
      BY <3>1 DEF Restrict
    <3>3. \A f \in Files : disk[f] \in Digests \cup {Missing}
      BY DEF Before, FilesOK, Views
    <3>4. Restrict(disk, Declared[a]) \in Views(Declared[a])
      BY <3>3, NeedsFacts DEF Restrict, Views
    <3>5. paths \subseteq Files
      BY <3>4, InputsAssumption, NeedsFacts DEF Needs
    <3>6. ReadsAll(a, got'[a])
      BY <3>1, <3>2, <3>3, <3>5 DEF ReadsAll, Views
    <3>7. ReadsAll(a, got[a])'
      BY <3>6 DEF ReadsAll
    <3>8. \A f \in DOMAIN got'[a] : got'[a][f] = disk'[f]
      BY <3>1
    <3>9. a \notin Preserve => \A o \in Outputs[a] : disk'[o] = Missing
      BY <3>1 DEF Before, Work, WorkOf
    <3> QED BY <3>1, <3>7, <3>8, <3>9 DEF WorkOf
  <2>3. CASE CommandSucceeds(a)
    <3>1. at'[a] = "ran" /\ at[a] = "read" /\ got' = got /\ Missing \notin Range(got[a])
      BY <2>3 DEF CommandSucceeds, Before, ProgressOK
    <3>2. /\ ReadsAll(a, got[a])
          /\ \A f \in DOMAIN got[a] : got[a][f] = disk[f] \/ f \in edited
          /\ a \notin Preserve => \A o \in Outputs[a] : disk[o] = Missing
      BY <3>1 DEF Before, Work, WorkOf
    <3>3. \A f \in DOMAIN got[a] : got[a][f] = disk'[f] \/ f \in edited
      BY <1>3, <3>2, ReadsAreNeeds
    <3>4. \A o \in Outputs[a] : disk'[o] \in {Missing, Produce(a, o, got[a])}
      BY <2>3, <3>2, NeedsFacts DEF CommandSucceeds
    <3>5. ReadsAll(a, got[a])'
      BY <3>1, <3>2 DEF ReadsAll
    <3> QED BY <1>1, <3>1, <3>3, <3>4, <3>5 DEF WorkOf
  <2> QED BY <2>1, <2>2, <2>3
<1> QED BY <1>1, <1>2, <1>3, <1>5, <1>6, <1>7 DEF OwnOK

\* The outputs are digested, and with them what the depfile names.
LEMMA OwnIngest ==
    ASSUME NEW a \in Actions, Before(a), Ingest(a)
    PROVE  OwnOK(a)'
<1>1. /\ at[a] = "ran" /\ at'[a] = "stored" /\ outcome' = outcome /\ outcome[a] = None
      /\ edited' = edited /\ got' = got /\ disk' = disk /\ ProducersSucceeded(a)
  BY DEF Ingest, Before, ProgressOK, observers, DoneHasOutcome, Upstream, Working
<1>2. /\ ReadsAll(a, got[a]) /\ Missing \notin Range(got[a])
      /\ \A f \in DOMAIN got[a] : got[a][f] = disk[f] \/ f \in edited
      /\ \A o \in Outputs[a] : disk[o] \in {Missing, Produce(a, o, got[a])}
  BY <1>1 DEF Before, Work, WorkOf
<1>3. ASSUME NEW o \in Outputs[a]
      PROVE  settled'[o] = disk'[o] /\ disk'[o] = Produce(a, o, got[a])
  <2>1. settled[o] = NotSettled /\ o \in Files
    BY <1>1, NeedsFacts DEF Before, OutputsAreSettled, SettledOf
  <2>2. Digest(o) = disk[o] /\ Digest(o) # Missing
    BY <2>1 DEF Digest, Ingest, AllCreated
  <2>3. SettledBy(Found(a) \cup Outputs[a])[o] = Digest(o)
    BY <2>1, <2>2, SettledByFacts
  <2> QED BY <1>1, <1>2, <2>2, <2>3 DEF Ingest
<1>4. /\ inputs'[a] = RecordedInputs(a)
      /\ DOMAIN got[a] = Declared[a] \cup Found(a)
  BY <1>2, ReadsAreNeeds DEF Ingest, Before, ProgressOK, Found
<1>5. ASSUME NEW f \in DOMAIN got[a]
      PROVE  /\ inputs'[a][f] \in Digests \cup {Missing}
             /\ inputs'[a][f] = disk[f] \/ f \in edited
  <2>1. f \in Needs(a) /\ f \in Files
    BY <1>2, ReadsAreNeeds, NeedsFacts
  <2>2. CASE f \in Declared[a]
    BY <1>1, <1>4, <2>2 DEF RecordedInputs, Before, KeyIsRead, KeyReadOf
  <2>3. CASE f \notin Declared[a]
    <3>1. inputs'[a][f] = Digest(f)
      BY <1>4, <2>3 DEF RecordedInputs
    <3>2. Digest(f) \in Digests \cup {Missing}
      BY <2>1, SettledTypes DEF Before
    <3> QED BY <1>1, <2>1, <3>1, <3>2, DigestIsDisk DEF Before
  <2> QED BY <2>2, <2>3
<1>6. inputs'[a] \in Views(DOMAIN got[a])
  BY <1>4, <1>5 DEF RecordedInputs, Views
<1>7. WorkOf(a)'
  <2>1. ReadsAll(a, got[a])'
    BY <1>1, <1>2 DEF ReadsAll
  <2> QED BY <1>1, <1>2, <1>3, <1>5, <1>6, <2>1 DEF WorkOf, Views
<1>8. ProducersSucceeded(a)'
  BY <1>1, NeedsStay DEF Before
<1> QED BY <1>1, <1>3, <1>7, <1>8 DEF OwnOK, SettledOf, KeyReadOf

\* The action is recorded, and done.
LEMMA OwnRecord ==
    ASSUME NEW a \in Actions, Before(a), Record(a)
    PROVE  OwnOK(a)'
<1>1. /\ at[a] = "stored" /\ at'[a] = "done" /\ outcome'[a] = "executed"
      /\ UNCHANGED <<disk, settled>> /\ ProducersSucceeded(a)
  BY DEF Record, End, Before, ProgressOK, Upstream, Working
<1>2. \A o \in Outputs[a] : settled'[o] = disk'[o]
  BY <1>1 DEF Before, OutputsAreSettled, SettledOf
<1>3. ProducersSucceeded(a)'
  BY <1>1, NeedsStay DEF Before
<1> QED BY <1>1, <1>2, <1>3 DEF OwnOK, SettledOf, KeyReadOf, WorkOf

\* Every step keeps what is about its action.
LEMMA OwnStep ==
    ASSUME NEW a \in Actions, Before(a), ActionStep(a)
    PROVE  OwnOK(a)'
<1>1. CASE HitIntact(a) \/ HitRestored(a)
  BY <1>1, OwnHits
<1>2. CASE Miss(a)
  BY <1>2, OwnMiss
<1>3. CASE Begin(a) \/ CommandReads(a) \/ CommandSucceeds(a)
  BY <1>3, OwnRuns
<1>4. CASE Ingest(a)
  BY <1>4, OwnIngest
<1>5. CASE Record(a)
  BY <1>5, OwnRecord
<1>6. CASE \/ SkipAction(a) \/ HashFails(a) \/ RefuseCancelled(a) \/ SpawnFails(a)
           \/ CommandFails(a) \/ IngestFails(a) \/ RerunFails(a) \/ RecordFails(a)
  <2>1. End(a, "skipped") \/ End(a, "failed")
    BY <1>6 DEF SkipAction, HashFails, RefuseCancelled, SpawnFails, CommandFails, IngestFails,
                RerunFails, RecordFails
  <2> QED BY <2>1, EndsBadly DEF End, Before, ProgressOK
<1> QED BY <1>1, <1>2, <1>3, <1>4, <1>5, <1>6 DEF ActionStep

-----------------------------------------------------------------------------
(* Entries.                                                                *)

\* What TrueTraces says of one action.
TrueTrace(a) ==
    journal[a] # NoEntry /\ a \notin raced =>
        LET e == journal[a] IN
        /\ e.discovered = Reads(a, Restrict(e.inputs, Declared[a])) \ Declared[a]
        /\ \A o \in Outputs[a] : e.outputs[o] = Produce(a, o, e.inputs)

\* It is TrueTraces one action at a time.
LEMMA TrueTracesParts == TrueTraces <=> \A a \in Actions : TrueTrace(a)
BY DEF TrueTraces, TrueTrace

\* An entry is recorded of the content the command has read, unless the user
\* edited some of it meanwhile, and of what it made of it.
LEMMA RecordFacts ==
    ASSUME NEW a \in Actions, Before(a), Record(a)
    PROVE  /\ IsEntry(a, journal'[a]) /\ journal'[a] # NoEntry
           /\ TrueTrace(a)'
           /\ edited = {} => Matches(a)'
<1>1. /\ at[a] = "stored" /\ UNCHANGED <<disk, settled, edited>>
      /\ journal'[a] = [inputs |-> inputs[a], discovered |-> Found(a),
                        outputs |-> Restrict(settled, Outputs[a])]
  BY DEF Record, Before, JournalOK
<1>2. /\ ReadsAll(a, got[a]) /\ Missing \notin Range(got[a])
      /\ \A f \in DOMAIN got[a] : got[a][f] = disk[f] \/ f \in edited
      /\ \A o \in Outputs[a] : disk[o] = Produce(a, o, got[a]) /\ settled[o] = disk[o]
      /\ inputs[a] \in Views(DOMAIN got[a])
      /\ \A f \in DOMAIN got[a] : inputs[a][f] = disk[f] \/ f \in edited
  BY <1>1 DEF Before, Work, WorkOf, OutputsAreSettled, SettledOf
<1>3. /\ DOMAIN got[a] = Declared[a] \cup Found(a)
      /\ Found(a) = Reads(a, Restrict(got[a], Declared[a])) \ Declared[a]
      /\ Found(a) \subseteq (Sources \cup OrderOnly[a]) \ Declared[a]
      /\ Declared[a] \subseteq DOMAIN got[a]
  BY <1>2, ReadsAreNeeds DEF Found, Needs
<1>4. \A o \in Outputs[a] : journal'[a].outputs[o] = Produce(a, o, got[a])
  BY <1>1, <1>2 DEF Restrict
<1>5. IsEntry(a, journal'[a])
  <2>1. \A o \in Outputs[a] : Produce(a, o, got[a]) \in Contents
    BY <1>2, ProductsAreContents
  <2>2. journal'[a].outputs \in [Outputs[a] -> Contents]
    BY <1>1, <1>4, <2>1 DEF Restrict
  <2> QED BY <1>1, <1>2, <1>3, <2>2 DEF IsEntry
<1>6. journal'[a] # NoEntry
  <2>1. DOMAIN journal'[a].outputs = Outputs[a] /\ Outputs[a] # {}
    BY <1>1, ShapeAssumption DEF Restrict
  <2>2. DOMAIN NoEntry.outputs = {}
    BY DEF NoEntry
  <2> QED BY <2>1, <2>2
<1>7. TrueTrace(a)'
  <2>1. SUFFICES ASSUME a \notin raced'
                 PROVE  /\ Found(a) = Reads(a, Restrict(inputs[a], Declared[a])) \ Declared[a]
                        /\ \A o \in Outputs[a] :
                              journal'[a].outputs[o] = Produce(a, o, inputs[a])
    BY <1>1 DEF TrueTrace
  <2>2. DOMAIN inputs[a] \cap edited = {}
    BY <2>1 DEF Record
  <2>3. DOMAIN inputs[a] = DOMAIN got[a]
    BY <1>2 DEF Views
  <2>4. \A f \in DOMAIN got[a] : inputs[a][f] = got[a][f]
    BY <1>2, <2>2, <2>3
  <2>5. inputs[a] = got[a]
    BY <1>2, <2>4 DEF Views, ReadsAll
  <2> QED BY <1>3, <1>4, <2>5
<1>8. ASSUME edited = {} PROVE Matches(a)'
  <2>1. \A f \in DOMAIN inputs[a] : disk[f] = inputs[a][f]
    BY <1>2, <1>8 DEF Views
  <2>2. \A o \in Outputs[a] : disk[o] = journal'[a].outputs[o]
    BY <1>2, <1>4
  <2> QED BY <1>1, <1>6, <2>1, <2>2 DEF Matches
<1> QED BY <1>5, <1>6, <1>7, <1>8

\* What the key of an action says of the disk when it can be checked at all.
LEMMA KeySaysDisk ==
    ASSUME NEW a \in Actions, Before(a), Checkable(a), edited = {}
    PROVE  /\ \A f \in KeyPaths(a) : Digest(f) = disk[f]
           /\ \A o \in Outputs[a] : Digest(o) = disk[o]
<1>1. ProducersSucceeded(a) /\ at[a] = "todo"
  BY CheckableFacts DEF Before
<1>2. \A f \in KeyPaths(a) : f \in Needs(a)
  BY KeyPathsAreNeeds DEF Before
<1>3. \A f \in KeyPaths(a) : Digest(f) = disk[f]
  BY <1>1, <1>2, DigestIsDisk DEF Before
<1>4. \A o \in Outputs[a] : Digest(o) = disk[o]
  BY <1>1 DEF Before, OutputsAreSettled, SettledOf, Digest
<1> QED BY <1>3, <1>4

\* The domains of an entry.
LEMMA EntryDomains ==
    ASSUME JournalOK, NEW a \in Actions, journal[a] # NoEntry
    PROVE  /\ DOMAIN journal[a].inputs = KeyPaths(a)
           /\ DOMAIN journal[a].outputs = Outputs[a]
BY DEF JournalOK, IsEntry, Views, KeyPaths

\* A hit leaves the files as they are recorded.
LEMMA HitsMatch ==
    ASSUME NEW a \in Actions, Before(a), edited = {}, HitIntact(a) \/ HitRestored(a)
    PROVE  Matches(a)'
<1>1. /\ Checkable(a) /\ KeyMatches(a) /\ journal' = journal /\ journal[a] # NoEntry
      /\ ProducersSucceeded(a)
  BY CheckableFacts DEF HitIntact, HitRestored, KeyMatches, Before
<1>2. /\ DOMAIN journal[a].inputs = KeyPaths(a) /\ DOMAIN journal[a].outputs = Outputs[a]
      /\ KeyPaths(a) \subseteq Needs(a) /\ Outputs[a] \subseteq Files
  BY <1>1, EntryDomains, KeyPathsAreNeeds, NeedsFacts DEF Before
<1>3. \A f \in Needs(a) : disk'[f] = disk[f]
  BY <1>1, NeedsStay DEF Before
<1>4. \A f \in KeyPaths(a) : journal[a].inputs[f] = disk[f]
  BY <1>1, KeySaysDisk DEF KeyMatches, KeyOf
<1>5. \A o \in Outputs[a] : disk'[o] = journal[a].outputs[o]
  <2>1. CASE HitIntact(a)
    <3>1. \A o \in Outputs[a] : Digest(o) = journal[a].outputs[o]
      BY <1>2, <2>1 DEF HitIntact, Intact, Stale
    <3> QED BY <1>1, <2>1, <3>1, KeySaysDisk DEF HitIntact
  <2>2. CASE HitRestored(a)
    BY <1>2, <2>2 DEF HitRestored, Materialized
  <2> QED BY <2>1, <2>2
<1> QED BY <1>1, <1>2, <1>3, <1>4, <1>5 DEF Matches

\* Whoever has succeeded leaves an entry of the files as they are, and it stays one.
LEMMA MatchingStays ==
    ASSUME NEW a \in Actions, Before(a), Matching, ActionStep(a)
    PROVE  Matching'
<1>1. edited' = edited /\ build' = build
  BY DEF Before, OthersKept
<1>2. SUFFICES ASSUME edited = {}, NEW b \in Actions, SucceededNow(b)'
               PROVE  Matches(b)'
  BY <1>1 DEF Matching
<1>3. CASE b # a
  <2>1. journal'[b] = journal[b] /\ outcome'[b] = outcome[b]
    BY <1>3 DEF Before, OthersKept
  <2>2. SucceededNow(b)
    BY <1>1, <1>2, <2>1 DEF SucceededNow, Succeeded
  <2>3. Matches(b) /\ ProducersSucceeded(b)
    BY <1>2, <2>2 DEF Matching, Before, Upstream
  <2>4. DOMAIN journal[b].inputs \subseteq Needs(b)
    BY <2>3, EntryDomains, KeyPathsAreNeeds DEF Matches, Before
  <2>5. \A f \in Needs(b) : disk'[f] = disk[f]
    BY <2>3, NeedsStay DEF Before
  <2>6. \A o \in Outputs[b] : o \in Files \ Outputs[a]
    BY <1>3, ShapeAssumption, NeedsFacts
  <2>7. \A o \in Outputs[b] : disk'[o] = disk[o]
    BY <2>6 DEF Before, FilesKept
  <2> QED BY <2>1, <2>3, <2>4, <2>5, <2>7 DEF Matches
<1>4. CASE b = a
  <2>1. outcome[a] = None /\ DOMAIN outcome = Actions
    BY DEF Before, DoneHasOutcome, ProgressOK
  <2>2. outcome'[a] \in {"cached", "executed"}
    BY <1>2, <1>4 DEF SucceededNow, Succeeded
  <2>3. HitIntact(a) \/ HitRestored(a) \/ Record(a)
    <3>1. outcome' # outcome
      BY <2>1, <2>2 DEF None
    <3>2. ~End(a, "failed") /\ ~End(a, "skipped")
      BY <2>1, <2>2 DEF End
    <3> QED
      BY <3>1, <3>2
      DEF ActionStep, SkipAction, HashFails, Miss, RefuseCancelled, Begin, SpawnFails,
          CommandReads, CommandSucceeds, CommandFails, Ingest, IngestFails, RerunFails,
          RecordFails
  <2> QED BY <1>2, <1>4, <2>3, HitsMatch, RecordFacts
<1> QED BY <1>3, <1>4

\* After a build that succeeded, and that nobody disturbed, there is nothing to do but
\* to find that out again.
LEMMA CalmStays ==
    ASSUME NEW a \in Actions, Before(a), CalmMatches, ActionStep(a)
    PROVE  CalmMatches'
<1>1. edited' = edited /\ calm' = calm
  BY DEF Before, OthersKept
<1>2. SUFFICES ASSUME calm PROVE \A b \in Actions : ~Working(b)' /\ Matches(b)'
  BY <1>1 DEF CalmMatches
<1>3. edited = {} /\ \A b \in Actions : ~Working(b) /\ Matches(b)
  BY <1>2 DEF CalmMatches
<1>4. at[a] = "todo"
  BY <1>3 DEF Working, Before
<1>5. ASSUME Checkable(a) PROVE KeyMatches(a) /\ Intact(a)
  <2>1. /\ \A f \in KeyPaths(a) : Digest(f) = disk[f]
        /\ \A o \in Outputs[a] : Digest(o) = disk[o]
    BY <1>3, <1>5, KeySaysDisk
  <2>2. /\ journal[a] # NoEntry /\ DOMAIN journal[a].outputs = Outputs[a]
        /\ DOMAIN journal[a].inputs = KeyPaths(a)
        /\ journal[a].inputs \in Views(KeyPaths(a))
    BY <1>3, EntryDomains DEF Matches, Before, JournalOK, IsEntry, KeyPaths
  <2>3. \A f \in KeyPaths(a) : journal[a].inputs[f] = Digest(f)
    BY <1>3, <2>1, <2>2 DEF Matches
  <2>4. journal[a].inputs = KeyOf(a)
    BY <2>2, <2>3 DEF KeyOf, Views
  <2> QED BY <1>3, <2>1, <2>2, <2>4 DEF KeyMatches, Intact, Stale, Matches
<1>6. SkipAction(a) \/ HashFails(a) \/ HitIntact(a)
  BY <1>4, <1>5
  DEF ActionStep, HitRestored, Miss, RefuseCancelled, Begin, SpawnFails, CommandReads,
      CommandSucceeds, CommandFails, Ingest, IngestFails, RerunFails, Record, RecordFails
<1>7. UNCHANGED <<disk, journal>> /\ at'[a] = "done"
  BY <1>6 DEF SkipAction, HashFails, HitIntact, End, Before, ProgressOK
<1>8. \A b \in Actions : at'[b] \in {at[b], "done"}
  BY <1>7 DEF Before, OthersKept
<1> QED BY <1>3, <1>7, <1>8 DEF Working, Matches

\* The journal and the truth of its entries.
LEMMA EntriesStay ==
    ASSUME NEW a \in Actions, Before(a), TrueTraces, ActionStep(a)
    PROVE  JournalOK' /\ TrueTraces'
<1>1. \A b \in Actions : TrueTrace(b)
  BY TrueTracesParts
<1>2. CASE Record(a)
  <2>1. DOMAIN journal' = Actions
    BY <1>2 DEF Record, Before, JournalOK
  <2>2. \A b \in Actions \ {a} : journal'[b] = journal[b] /\ (b \in raced') = (b \in raced)
    BY DEF Before, OthersKept
  <2>3. JournalOK'
    BY <1>2, <2>1, <2>2, RecordFacts DEF JournalOK, IsEntry, Before
  <2>4. \A b \in Actions : TrueTrace(b)'
    <3>1. TrueTrace(a)'
      BY <1>2, RecordFacts
    <3>2. \A b \in Actions \ {a} : TrueTrace(b)'
      BY <1>1, <2>2 DEF TrueTrace
    <3> QED BY <3>1, <3>2
  <2>5. TrueTraces'
    BY <2>4 DEF TrueTraces, TrueTrace
  <2> QED BY <2>3, <2>5
<1>3. CASE ~Record(a)
  <2>1. UNCHANGED <<journal, raced>>
    BY <1>3
    DEF ActionStep, SkipAction, HashFails, HitIntact, HitRestored, Miss, RefuseCancelled, Begin,
        SpawnFails, CommandReads, CommandSucceeds, CommandFails, Ingest, IngestFails,
        RerunFails, RecordFails, observers
  <2> QED BY <2>1 DEF JournalOK, IsEntry, TrueTraces, Before
<1> QED BY <1>2, <1>3

\* A step of an action preserves the invariant.
LEMMA ActionKeeps ==
    ASSUME IInv, NEW a \in Actions, ActionStep(a)
    PROVE  IInv'
<1>1. Before(a)
  BY ActionIsBusy, OthersAreKept, FilesAreKept DEF Before, IInv
<1>2. \A b \in Actions \ {a} : OwnOK(b)'
  BY <1>1, OthersStay DEF Before, OwnOK
<1>3. OwnOK(a)'
  BY <1>1, OwnStep
<1>4. \A b \in Actions : OwnOK(b)'
  BY <1>2, <1>3
<1>5. FilesOK' /\ ProgressOK' /\ SourcesAreSettled'
  BY <1>1, ActionFilesOK, ActionProgressOK, SourcesStay DEF Before, IInv
<1>6. OnlyRunningWorks'
  BY <1>1 DEF OnlyRunningWorks, Before, OthersKept
<1>7. DoneHasOutcome' /\ Upstream' /\ OutputsAreSettled' /\ KeyIsRead' /\ Work'
  BY <1>4 DEF OwnOK, DoneHasOutcome, Upstream, OutputsAreSettled, KeyIsRead, Work
<1>8. JournalOK' /\ TrueTraces'
  BY <1>1, EntriesStay DEF IInv
<1>9. Matching' /\ CalmMatches'
  BY <1>1, MatchingStays, CalmStays DEF IInv
<1> QED BY <1>5, <1>6, <1>7, <1>8, <1>9 DEF IInv

-----------------------------------------------------------------------------
(* Steps of a build as a whole, and of the user.                           *)

\* Nothing has begun, and no action of a build under way has an outcome yet.
Rest ==
    /\ disk \in Views(Files)
    /\ at = [a \in Actions |-> "todo"]
    /\ settled = [f \in Files |-> NotSettled]
    /\ build \in {"preflight", "running"} => \A a \in Actions : outcome[a] = None

\* Then the invariant is about the disk and the journal only.
LEMMA RestIsFine ==
    Rest /\ JournalOK /\ ProgressOK /\ TrueTraces /\ CalmMatches => IInv
<1> SUFFICES ASSUME Rest, JournalOK, ProgressOK, TrueTraces, CalmMatches
             PROVE  IInv
  OBVIOUS
<1>1. \A a \in Actions : at[a] = "todo" /\ ~Working(a) /\ ~SucceededNow(a)
  BY DEF Rest, Working, SucceededNow, Succeeded, None
<1>2. \A f \in Files : settled[f] = NotSettled
  BY DEF Rest
<1>3. FilesOK
  BY DEF FilesOK, Rest
<1>4. OnlyRunningWorks /\ DoneHasOutcome /\ Upstream
  BY <1>1 DEF OnlyRunningWorks, DoneHasOutcome, Upstream, Rest
<1>5. SourcesAreSettled /\ OutputsAreSettled
  <2>1. Sources \subseteq Files /\ \A a \in Actions : Outputs[a] \subseteq Files
    BY NeedsFacts DEF Files
  <2> QED BY <1>1, <1>2, <2>1 DEF SourcesAreSettled, OutputsAreSettled, SettledOf
<1>6. KeyIsRead /\ Work
  BY <1>1 DEF KeyIsRead, KeyReadOf, Work, WorkOf
<1>7. Matching
  BY <1>1 DEF Matching
<1> QED BY <1>3, <1>4, <1>5, <1>6, <1>7 DEF IInv

\* Between builds nothing has begun.
LEMMA IdleRests ==
    ASSUME FilesOK, ProgressOK, OnlyRunningWorks, DoneHasOutcome, build # "running"
    PROVE  Rest
BY DEF FilesOK, ProgressOK, OnlyRunningWorks, DoneHasOutcome, Rest

\* The invariant is not about the other variables.
LEMMA OthersDoNotCount ==
    ASSUME IInv, cas' \subseteq Digests,
           UNCHANGED <<disk, settled, journal, build, at, inputs, got, outcome, observers>>
    PROVE  IInv'
<1> USE DEF IInv, observers
<1>1. FilesOK' /\ JournalOK' /\ ProgressOK' /\ OnlyRunningWorks' /\ DoneHasOutcome'
  BY DEF FilesOK, JournalOK, IsEntry, ProgressOK, OnlyRunningWorks, DoneHasOutcome
<1>2. Upstream' /\ SourcesAreSettled' /\ OutputsAreSettled' /\ KeyIsRead'
  BY DEF Upstream, Working, SucceededNow, Succeeded, ProducersSucceeded, SourcesAreSettled,
         OutputsAreSettled, SettledOf, KeyIsRead, KeyReadOf
<1>3. Work'
  BY DEF Work, WorkOf, ReadsAll
<1>4. Matching' /\ CalmMatches'
  BY DEF Matching, CalmMatches, Matches, Working, SucceededNow, Succeeded
<1>5. TrueTraces'
  BY DEF TrueTraces
<1> QED BY <1>1, <1>2, <1>3, <1>4, <1>5

\* What no step but Record changes.
LEMMA JournalStays ==
    ASSUME IInv, UNCHANGED <<journal, raced>>
    PROVE  JournalOK' /\ TrueTraces'
BY DEF IInv, JournalOK, IsEntry, TrueTraces

\* Builds start with nothing in memory.
LEMMA StartBuildKeeps ==
    ASSUME IInv, StartBuild PROVE IInv'
<1>1. JournalOK' /\ TrueTraces'
  BY JournalStays DEF StartBuild
<1>2. Rest' /\ ProgressOK'
  BY DEF IInv, FilesOK, ProgressOK, StartBuild, FreshMemory, FreshWork, Rest, States, Results
<1>3. CalmMatches'
  BY DEF IInv, StartBuild, FreshMemory, FreshWork, CalmMatches, Matches, Working
<1> QED BY <1>1, <1>2, <1>3, RestIsFine, PTL

\* Where all is as recorded the build ends, and is calm if nobody edits.
LEMMA PreflightKeeps ==
    ASSUME IInv, Preflight PROVE IInv'
<1>1. JournalOK' /\ TrueTraces'
  BY JournalStays DEF Preflight
<1>2. Rest
  BY IdleRests DEF IInv, Preflight
<1>3. disk' \in Views(Files)
  BY DEF IInv, FilesOK, Preflight
<1>4. Rest' /\ ProgressOK'
  BY <1>2, <1>3 DEF IInv, ProgressOK, Preflight, bounds, Rest, Results
<1>5. CalmMatches'
  <2>1. CASE EverythingMatches /\ calm' = (edited = {})
    <3>1. \A a \in Actions : Matches(a)
      <4> TAKE a \in Actions
      <4>1. /\ journal[a] # NoEntry /\ DOMAIN journal[a].outputs = Outputs[a]
            /\ \A f \in DOMAIN journal[a].inputs : disk[f] = journal[a].inputs[f]
            /\ \A f \in DOMAIN journal[a].outputs : disk[f] = journal[a].outputs[f]
        BY <2>1 DEF EverythingMatches
      <4> QED BY <4>1 DEF Matches
    <3>2. UNCHANGED <<disk, journal, edited>>
      BY DEF Preflight
    <3>3. \A a \in Actions : ~Working(a)' /\ Matches(a)'
      BY <1>4, <3>1, <3>2 DEF Rest, Working, Matches
    <3> QED BY <2>1, <3>2, <3>3 DEF CalmMatches
  <2>2. CASE UNCHANGED calm
    BY <2>2 DEF IInv, Preflight, CalmMatches, Working, Matches
  <2> QED BY <2>1, <2>2 DEF Preflight
<1> QED BY <1>1, <1>4, <1>5, RestIsFine, PTL

\* A build that succeeded without an edit leaves entries that match.
LEMMA EndBuildKeeps ==
    ASSUME IInv, EndBuild PROVE IInv'
<1>1. JournalOK' /\ TrueTraces'
  BY JournalStays DEF EndBuild
<1>2. Rest'
  BY DEF IInv, FilesOK, EndBuild, FreshWork, Rest
<1>3. ProgressOK'
  BY DEF IInv, ProgressOK, EndBuild, FreshWork, States, Results
<1>4. CalmMatches'
  <2>1. SUFFICES ASSUME calm' PROVE edited' = {} /\ \A a \in Actions : ~Working(a)' /\ Matches(a)'
    BY DEF CalmMatches
  <2>2. edited = {} /\ \A a \in Actions : SucceededNow(a)
    BY <2>1 DEF EndBuild, SucceededNow, Succeeded
  <2>3. \A a \in Actions : Matches(a)
    BY <2>2 DEF IInv, Matching
  <2>4. UNCHANGED <<disk, journal, edited>>
    BY DEF EndBuild
  <2> QED BY <1>2, <2>2, <2>3, <2>4 DEF Matches, Working, Rest
<1> QED BY <1>1, <1>2, <1>3, <1>4, RestIsFine, PTL

\* What a build that dies leaves is garbage at worst.
LEMMA CrashKeeps ==
    ASSUME IInv, Crash PROVE IInv'
<1>1. JournalOK' /\ TrueTraces'
  BY JournalStays DEF Crash
<1>2. disk' \in Views(Files)
  BY DEF IInv, FilesOK, Crash, Views, Digests
<1>3. Rest' /\ ProgressOK'
  BY <1>2 DEF IInv, ProgressOK, Crash, bounds, FreshMemory, FreshWork, Rest, States, Results
<1>4. CalmMatches'
  BY DEF Crash, CalmMatches
<1> QED BY <1>1, <1>3, <1>4, RestIsFine, PTL

\* A dry run restores what is recorded: nothing, when all is as recorded.
LEMMA DryRunKeeps ==
    ASSUME IInv, DryRun PROVE IInv'
<1>1. JournalOK' /\ TrueTraces'
  BY JournalStays DEF DryRun
<1>2. PICK plan \in Plans : outcome' = plan /\ disk' = Restored(plan)
  BY DEF DryRun
<1>3. ASSUME NEW f \in Generated, plan[Producer(f)] = "cached"
      PROVE  /\ Producer(f) \in Actions /\ f \in Outputs[Producer(f)]
             /\ journal[Producer(f)] # NoEntry
  <2>1. Producer(f) \in Actions /\ f \in Outputs[Producer(f)]
    BY <1>3 DEF Generated, Producer
  <2> QED BY <1>3, <2>1 DEF Plans
<1>4. \A f \in Files : disk'[f] = IF f \in Generated /\ plan[Producer(f)] = "cached"
                                  THEN journal[Producer(f)].outputs[f] ELSE disk[f]
  BY <1>2 DEF Restored
<1>5. disk' \in Views(Files)
  <2>1. \A f \in Files : disk'[f] \in Digests \cup {Missing}
    <3> TAKE f \in Files
    <3>1. disk[f] \in Digests \cup {Missing}
      BY DEF IInv, FilesOK, Views
    <3>2. ASSUME f \in Generated, plan[Producer(f)] = "cached"
          PROVE  journal[Producer(f)].outputs[f] \in Digests
      <4>1. IsEntry(Producer(f), journal[Producer(f)]) /\ f \in Outputs[Producer(f)]
        BY <1>3, <3>2 DEF IInv, JournalOK
      <4> QED BY <4>1 DEF IsEntry, Digests
    <3> QED BY <1>4, <3>1, <3>2
  <2> QED BY <1>2, <2>1 DEF Restored, Views
<1>6. Rest' /\ ProgressOK'
  BY <1>2, <1>5 DEF IInv, ProgressOK, DryRun, FreshWork, Rest, States, Results, Plans
<1>7. CalmMatches'
  <2>1. SUFFICES ASSUME calm' PROVE edited' = {} /\ \A a \in Actions : ~Working(a)' /\ Matches(a)'
    BY DEF CalmMatches
  <2>2. \A a \in Actions : Matches(a)
    BY <2>1 DEF DryRun, IInv, CalmMatches
  <2>3. \A f \in Files : disk'[f] = disk[f]
    BY <1>3, <1>4, <2>2 DEF Matches
  <2>4. \A a \in Actions : Outputs[a] \subseteq Files /\ DOMAIN journal[a].inputs \subseteq Files
    BY <2>2, EntryDomains, KeyPathsAreNeeds, NeedsFacts DEF IInv, Matches
  <2>5. \A a \in Actions : Matches(a)'
    BY <2>2, <2>3, <2>4 DEF Matches, DryRun
  <2> QED BY <1>6, <2>5 DEF DryRun, Rest, Working
<1> QED BY <1>1, <1>6, <1>7, RestIsFine, PTL

\* An edit is known to be one when a build is under way.
LEMMA EditKeeps ==
    ASSUME IInv, NEW f \in Files, NEW v \in Digests \cup {Missing}, Edit(f, v)
    PROVE  IInv'
<1>1. JournalOK' /\ TrueTraces'
  BY JournalStays DEF Edit
<1>2. /\ disk' \in Views(Files) /\ ProgressOK' /\ CalmMatches'
      /\ \A g \in Files : g # f => disk'[g] = disk[g]
  BY DEF IInv, FilesOK, Views, ProgressOK, CalmMatches, Edit, Results
<1>3. CASE build # "running"
  <2>1. Rest
    BY <1>3, IdleRests DEF IInv
  <2>2. Rest'
    BY <1>2, <1>3, <2>1 DEF Rest, Edit
  <2>3. ProgressOK' /\ CalmMatches'
    BY <1>2
  <2> QED BY <1>1, <2>2, <2>3, RestIsFine, PTL
<1>4. CASE build = "running"
  <2>1. /\ f \in Sources /\ edited' = edited \cup {f} /\ build' = build
        /\ UNCHANGED <<settled, at, inputs, got, outcome>>
    BY <1>4 DEF Edit, Files
  <2>2. \A a \in Actions : \A o \in Outputs[a] : disk'[o] = disk[o]
    BY <1>2, <2>1, ShapeAssumption, NeedsFacts
  <2>3. FilesOK' /\ OnlyRunningWorks' /\ DoneHasOutcome' /\ Upstream'
    BY <1>2, <1>4, <2>1
    DEF IInv, FilesOK, OnlyRunningWorks, DoneHasOutcome, Upstream, Working, SucceededNow,
        Succeeded, ProducersSucceeded
  <2>4. SourcesAreSettled'
    BY <1>2, <2>1 DEF IInv, SourcesAreSettled, Files
  <2>5. OutputsAreSettled'
    BY <2>1, <2>2 DEF IInv, OutputsAreSettled, SettledOf, Succeeded
  <2>6. KeyIsRead'
    <3> SUFFICES ASSUME NEW a \in Actions PROVE KeyReadOf(a)'
      BY DEF KeyIsRead
    <3> QED BY <1>2, <2>1, NeedsFacts DEF IInv, KeyIsRead, KeyReadOf
  <2>7. Work'
    <3> SUFFICES ASSUME NEW a \in Actions PROVE WorkOf(a)'
      BY DEF Work
    <3>1. WorkOf(a)
      BY DEF IInv, Work
    <3>2. at[a] \in {"read", "ran", "stored"} => DOMAIN got[a] \subseteq Files
      BY <3>1, ReadsAreNeeds, NeedsFacts DEF WorkOf
    <3> QED BY <1>2, <2>1, <2>2, <3>1, <3>2 DEF WorkOf, ReadsAll
  <2>8. Matching'
    BY <2>1 DEF Matching
  <2> QED BY <1>1, <1>2, <2>3, <2>4, <2>5, <2>6, <2>7, <2>8 DEF IInv
<1> QED BY <1>3, <1>4

-----------------------------------------------------------------------------
(* The theorems.                                                           *)

\* A fresh checkout: nothing is recorded, and only sources are on disk.
LEMMA InitIInv == Init => IInv
<1> SUFFICES ASSUME Init PROVE IInv
  OBVIOUS
<1>1. disk \in Views(Files)
  <2>1. PICK contents \in Initially :
           disk = [f \in Files |-> IF f \in Sources THEN contents[f] ELSE Missing]
    BY DEF Init
  <2>2. \A f \in Sources : contents[f] \in Contents
    BY ShapeAssumption
  <2> QED BY <2>1, <2>2 DEF Views, Digests
<1>2. Rest /\ ProgressOK
  BY <1>1 DEF Init, Rest, ProgressOK, States, Results
<1>3. JournalOK /\ TrueTraces /\ CalmMatches
  BY DEF Init, JournalOK, TrueTraces, CalmMatches
<1> QED BY <1>2, <1>3, RestIsFine

\* No step disturbs the invariant, whoever takes it.
LEMMA NextIInv == IInv /\ [Next]_vars => IInv'
<1> SUFFICES ASSUME IInv, [Next]_vars PROVE IInv'
  OBVIOUS
<1>1. CASE StartBuild \/ DryRun \/ Preflight \/ EndBuild \/ Crash
  BY <1>1, StartBuildKeeps, DryRunKeeps, PreflightKeeps, EndBuildKeeps, CrashKeeps
<1>2. CASE \E a \in Actions : ActionStep(a)
  BY <1>2, ActionKeeps
<1>3. CASE Cancel
  BY <1>3, OthersDoNotCount DEF Cancel, IInv, ProgressOK
<1>4. CASE \E d \in cas : Evict(d)
  <2>1. cas' \subseteq Digests
    BY <1>4 DEF Evict, IInv, ProgressOK
  <2> QED BY <1>4, <2>1, OthersDoNotCount DEF Evict
<1>5. CASE \E f \in Sources, v \in Values \cup {Missing} : Edit(f, v)
  <2>1. Sources \subseteq Files /\ Values \cup {Missing} \subseteq Digests \cup {Missing}
    BY ShapeAssumption DEF Files, Digests
  <2> QED BY <1>5, <2>1, EditKeeps
<1>6. CASE \E f \in Generated, v \in {Missing, Garbage} : Edit(f, v)
  <2>1. Generated \subseteq Files /\ {Missing, Garbage} \subseteq Digests \cup {Missing}
    BY DEF Files, Digests
  <2> QED BY <1>6, <2>1, EditKeeps
<1>7. CASE UNCHANGED vars
  BY <1>7, OthersDoNotCount DEF vars, program, observers, IInv, ProgressOK
<1> QED BY <1>1, <1>2, <1>3, <1>4, <1>5, <1>6, <1>7 DEF Next

\* The inductive invariant holds of every build after every other: the digests in
\* memory are those of the disk except where the user edits, actions work after their
\* producers, what they record is of files as they are, and what a quiet build that
\* succeeded has recorded is still so.
THEOREM EngineInvariant == Spec => []IInv
<1> QED BY InitIInv, NextIInv, PTL DEF Spec

\* The types of the files, the digests, the store and the outcomes, and that an entry is
\* about the inputs and the outputs of its action (JournalEntry in journal.rs).
THEOREM TypeCorrect == Spec => []TypeOK
<1>1. IInv => TypeOK
  <2> SUFFICES ASSUME IInv PROVE TypeOK
    OBVIOUS
  <2>1. ASSUME NEW a \in Actions, journal[a] # NoEntry
        PROVE  /\ DOMAIN journal[a].inputs = Declared[a] \cup journal[a].discovered
               /\ DOMAIN journal[a].outputs = Outputs[a]
               /\ Range(journal[a].outputs) \subseteq Contents
    <3>1. IsEntry(a, journal[a])
      BY <2>1 DEF IInv, JournalOK
    <3>2. Range(journal[a].outputs) \subseteq Contents
      BY <3>1 DEF IsEntry, Range
    <3> QED BY <3>1, <3>2 DEF IsEntry, Views
  <2> QED BY <2>1 DEF TypeOK, IInv, FilesOK, ProgressOK, States, Results
<1> QED BY <1>1, EngineInvariant, PTL

\* Whatever builds are cancelled, fail, die or race with edits: an entry of the journal
\* is what the command makes of the inputs its key is computed from, and names all it
\* read, unless one of them, declared or discovered, was edited at any time during the
\* build that recorded it (record in lib.rs).
THEOREM TrueTracesHolds == Spec => []TrueTraces
<1>1. IInv => TrueTraces
  BY DEF IInv
<1> QED BY <1>1, EngineInvariant, PTL

\* After a build that succeeded no command starts, until something is edited or a build
\* dies: neither the all_cached shortcut nor process() finds an action out of date.
THEOREM NothingRunsTwiceHolds == Spec => NothingRunsTwice
<1>1. IInv /\ [Next]_vars => [calm => \A a \in Actions : at[a] = "start" => at'[a] = "start"]_vars
  <2> SUFFICES ASSUME IInv, calm, NEW a \in Actions, at[a] = "start" PROVE FALSE
    OBVIOUS
  <2> QED BY DEF IInv, CalmMatches, Working
<1> QED BY <1>1, EngineInvariant, PTL DEF Spec, NothingRunsTwice

-----------------------------------------------------------------------------
(* What a recursive definition defines.  Clean and Lineage are functions    *)
(* that call themselves for what an action depends on; where no action      *)
(* waits for itself there is such a function.                               *)

\* Sets of things whose definition needs nothing outside, and a function that
\* is as defined on such a set.
Closed(S, below) == \A x \in S : below[x] \subseteq S
Solves(g, S, step) == \A x \in S : g[x] = step[g][x]

\* A definition: every step is from what is below, and nothing is below itself.
Definition(D, V, below, step) ==
    /\ below \in [D -> SUBSET D]
    /\ \A S \in SUBSET D : S # {} => \E x \in S : below[x] \cap S = {}
    /\ step \in [[D -> V] -> [D -> V]]
    /\ \A g, h \in [D -> V], x \in D :
          (\A y \in below[x] : g[y] = h[y]) => step[g][x] = step[h][x]

\* Two functions that are as defined agree where both are.
LEMMA SolutionsAgree ==
    ASSUME NEW D, NEW V, NEW below, NEW step, Definition(D, V, below, step),
           NEW g \in [D -> V], NEW S \in SUBSET D, Closed(S, below), Solves(g, S, step),
           NEW h \in [D -> V], NEW T \in SUBSET D, Closed(T, below), Solves(h, T, step),
           NEW x \in S \cap T
    PROVE  g[x] = h[x]
<1> DEFINE Bad == {y \in S \cap T : g[y] # h[y]}
<1>1. SUFFICES ASSUME x \in Bad PROVE FALSE
  OBVIOUS
<1>2. Bad \in SUBSET D /\ Bad # {}
  BY <1>1
<1>3. PICK y \in Bad : below[y] \cap Bad = {}
  <2> HIDE DEF Bad
  <2> QED BY <1>2 DEF Definition
<1>4. y \in S /\ y \in T /\ y \in D /\ g[y] # h[y]
  BY <1>3
<1>5. \A z \in below[y] : g[z] = h[z]
  BY <1>3, <1>4 DEF Closed
<1>6. step[g][y] = step[h][y]
  BY <1>4, <1>5 DEF Definition
<1> QED BY <1>4, <1>6 DEF Solves

\* There is a function that is as defined everywhere.
LEMMA SolutionExists ==
    ASSUME NEW D, NEW V, NEW below, NEW step, Definition(D, V, below, step),
           NEW start \in [D -> V]
    PROVE  \E g \in [D -> V] : g = step[g]
<1> DEFINE Is(x, v) == \E S \in SUBSET D, g \in [D -> V] :
                          /\ Closed(S, below) /\ Solves(g, S, step) /\ x \in S /\ v = g[x]
           Z == {x \in D : \E v \in V : Is(x, v)}
           h == [x \in D |-> IF x \in Z THEN CHOOSE v \in V : Is(x, v) ELSE start[x]]
<1>1. ASSUME NEW S \in SUBSET D, NEW g \in [D -> V], Closed(S, below), Solves(g, S, step),
             NEW x \in S
      PROVE  x \in Z /\ h[x] = g[x]
  <2>1. x \in D /\ g[x] \in V /\ Is(x, g[x])
    BY <1>1
  <2>2. x \in Z /\ h[x] \in V /\ Is(x, h[x])
    <3> HIDE DEF Is
    <3> QED BY <2>1
  <2>3. PICK T \in SUBSET D, f \in [D -> V] :
           Closed(T, below) /\ Solves(f, T, step) /\ x \in T /\ h[x] = f[x]
    <3> HIDE DEF Z, h
    <3> QED BY <2>2
  <2>4. g[x] = f[x]
    BY <1>1, <2>3, SolutionsAgree
  <2> QED BY <2>2, <2>3, <2>4
<1>2. h \in [D -> V]
  <2> HIDE DEF Is
  <2> QED OBVIOUS
<1>3. ASSUME NEW x \in Z
      PROVE  x \in D /\ below[x] \subseteq Z /\ h[x] = step[h][x]
  <2>1. PICK S \in SUBSET D, g \in [D -> V] : Closed(S, below) /\ Solves(g, S, step) /\ x \in S
    OBVIOUS
  <2>2. below[x] \subseteq S /\ x \in D
    BY <2>1 DEF Closed
  <2>3. \A y \in S : y \in Z /\ h[y] = g[y]
    <3> HIDE DEF Z, h
    <3> QED BY <1>1, <2>1
  <2> HIDE DEF Z, h
  <2>4. step[h][x] = step[g][x]
    BY <1>2, <2>2, <2>3 DEF Definition
  <2> QED BY <2>1, <2>2, <2>3, <2>4 DEF Solves
<1>4. Z \in SUBSET D
  OBVIOUS
<1>5. Z = D
  <2> HIDE DEF Z, h
  <2>1. SUFFICES ASSUME D \ Z # {} PROVE FALSE
    BY <1>4
  <2>2. PICK x \in D \ Z : below[x] \cap (D \ Z) = {}
    BY <2>1 DEF Definition
  <2>3. below[x] \subseteq Z
    BY <2>2 DEF Definition
  <2> DEFINE k == [h EXCEPT ![x] = step[h][x]]
             S == Z \cup {x}
  <2>4. step[h][x] \in V /\ k \in [D -> V]
    BY <1>2 DEF Definition
  <2>5. /\ S \in SUBSET D /\ Closed(S, below)
        /\ \A y \in Z : k[y] = h[y]
        /\ k[x] = step[h][x]
    BY <1>2, <1>3, <1>4, <2>2, <2>3 DEF Closed
  <2>6. ASSUME NEW y \in S PROVE step[k][y] = step[h][y]
    <3>1. below[y] \subseteq Z /\ y \in D
      BY <1>3, <2>2, <2>3
    <3>2. \A z \in below[y] : k[z] = h[z]
      BY <2>5, <3>1
    <3> HIDE DEF k, S
    <3> QED BY <1>2, <2>4, <3>1, <3>2 DEF Definition
  <2>7. Solves(k, S, step)
    BY <1>3, <2>5, <2>6 DEF Solves
  <2>8. x \in Z
    <3> HIDE DEF k
    <3> QED BY <1>1, <2>4, <2>5, <2>7
  <2> QED BY <2>2, <2>8
<1>6. step[h] = h
  <2> HIDE DEF Z, h
  <2>1. step[h] \in [D -> V] /\ \A x \in D : step[h][x] = h[x]
    BY <1>2, <1>3, <1>5 DEF Definition
  <2> QED BY <1>2, <2>1
<1> QED BY <1>2, <1>6

\* No action waits for itself: every group of actions has one that needs nothing
\* of the group.  The graph builder does not make sure of it, but no build of a
\* graph with a cycle ends, and no clean tree is defined there.
Acyclic == \A S \in SUBSET Actions : S # {} => \E a \in S : Producers(a) \cap S = {}

\* The lineage of an action is itself and the lineages of its producers.
LEMMA LineageIs ==
    ASSUME Acyclic
    PROVE  \A a \in Actions : Lineage[a] = {a} \cup UNION {Lineage[p] : p \in Producers(a)}
<1> DEFINE V == SUBSET Actions
           below == [a \in Actions |-> Producers(a)]
           made(g) == [a \in Actions |-> {a} \cup UNION {g[p] : p \in Producers(a)}]
           step == [g \in [Actions -> V] |-> made(g)]
<1>1. \A a \in Actions : Producers(a) \subseteq Actions
  BY DEF Producers
<1>2. \A g \in [Actions -> V] : made(g) \in [Actions -> V]
  BY <1>1
<1>3. ASSUME NEW g \in [Actions -> V], NEW h \in [Actions -> V], NEW a \in Actions,
             \A p \in Producers(a) : g[p] = h[p]
      PROVE  made(g)[a] = made(h)[a]
  BY <1>3
<1>4. Definition(Actions, V, below, step)
  <2>1. below \in [Actions -> SUBSET Actions]
    BY <1>1
  <2>2. \A S \in SUBSET Actions : S # {} => \E a \in S : below[a] \cap S = {}
    BY DEF Acyclic
  <2> HIDE DEF V, made
  <2>3. step \in [[Actions -> V] -> [Actions -> V]]
    BY <1>2
  <2>4. \A g, h \in [Actions -> V], a \in Actions :
           (\A p \in below[a] : g[p] = h[p]) => step[g][a] = step[h][a]
    BY <1>3
  <2> QED BY <2>1, <2>2, <2>3, <2>4 DEF Definition
<1>5. \E g \in [Actions -> V] : g = step[g]
  <2> DEFINE start == [a \in Actions |-> {}]
  <2>1. start \in [Actions -> V]
    OBVIOUS
  <2> HIDE DEF V, below, step, start
  <2> QED BY <1>4, <2>1, SolutionExists
<1>6. \E g : g = made(g)
  BY <1>5
<1>7. Lineage = CHOOSE g : g = made(g)
  BY DEF Lineage
<1>8. Lineage = made(Lineage)
  <2> HIDE DEF made
  <2> QED BY <1>6, <1>7
<1> QED BY <1>8

\* What a build from nothing makes of each file, given what it makes of the rest.
MadeFrom(clean) ==
    [f \in Files |->
        IF f \in Sources THEN disk[f]
        ELSE LET a == Producer(f)
                 declared == [g \in Declared[a] |-> clean[g]]
                 view == [g \in Declared[a] \cup Reads(a, declared) |-> clean[g]]
             IN  IF Missing \in Range(view) THEN Missing ELSE Produce(a, f, view)]

\* Every generated file has one producer.
LEMMA ProducerIs ==
    /\ \A f \in Files \ Sources : Producer(f) \in Actions /\ f \in Outputs[Producer(f)]
    /\ \A a \in Actions : \A o \in Outputs[a] : o \in Files \ Sources /\ Producer(o) = a
<1>1. ASSUME NEW a \in Actions, NEW o \in Outputs[a]
      PROVE  o \in Files \ Sources /\ Producer(o) \in Actions /\ o \in Outputs[Producer(o)]
  BY ShapeAssumption DEF Files, Generated, Producer
<1>2. ASSUME NEW f \in Files \ Sources PROVE \E a \in Actions : f \in Outputs[a]
  BY DEF Files, Generated
<1>3. \A a \in Actions : \A o \in Outputs[a] : Producer(o) = a
  BY <1>1, ShapeAssumption
<1> QED BY <1>1, <1>2, <1>3

\* What an action is made from are files that it may depend on.
LEMMA MadeFromNeeds ==
    ASSUME NEW a \in Actions, NEW clean \in Views(Files)
    PROVE  LET declared == [g \in Declared[a] |-> clean[g]] IN
           /\ declared \in Views(Declared[a])
           /\ Declared[a] \cup Reads(a, declared) \subseteq Needs(a)
<1> DEFINE declared == [g \in Declared[a] |-> clean[g]]
<1>1. declared \in Views(Declared[a])
  BY NeedsFacts DEF Views
<1>2. Reads(a, declared) \subseteq Sources \cup Declared[a] \cup OrderOnly[a]
  BY <1>1, InputsAssumption
<1> QED BY <1>1, <1>2 DEF Needs

\* It makes contents, or nothing.
LEMMA MadeFromIsView ==
    ASSUME disk \in Views(Files), NEW clean \in Views(Files)
    PROVE  MadeFrom(clean) \in Views(Files)
<1>1. SUFFICES ASSUME NEW f \in Files PROVE MadeFrom(clean)[f] \in Digests \cup {Missing}
  BY DEF MadeFrom, Views
<1>2. CASE f \in Sources
  BY <1>2 DEF MadeFrom, Views
<1>3. CASE f \notin Sources
  <2> DEFINE a == Producer(f)
             declared == [g \in Declared[a] |-> clean[g]]
             view == [g \in Declared[a] \cup Reads(a, declared) |-> clean[g]]
  <2>1. a \in Actions /\ f \in Outputs[a]
    BY <1>3, ProducerIs
  <2>2. MadeFrom(clean)[f] = IF Missing \in Range(view) THEN Missing ELSE Produce(a, f, view)
    BY <1>3 DEF MadeFrom
  <2>3. /\ declared \in Views(Declared[a])
        /\ Declared[a] \cup Reads(a, declared) \subseteq Files
    BY <2>1, MadeFromNeeds, NeedsFacts
  <2>4. Restrict(view, Declared[a]) = declared
    BY DEF Restrict
  <2>5. Missing \notin Range(view) => view \in [Declared[a] \cup Reads(a, declared) -> Digests]
    BY <2>3 DEF Views, Range
  <2>6. Missing \notin Range(view) => Produce(a, f, view) \in Contents
    <3> HIDE DEF a, declared, view
    <3> QED BY <2>1, <2>3, <2>4, <2>5, ProduceAssumption
  <2> HIDE DEF a, declared, view
  <2> QED BY <2>2, <2>6 DEF Digests
<1> QED BY <1>2, <1>3

\* It depends on no other files.
LEMMA MadeFromBelow ==
    ASSUME NEW g \in Views(Files), NEW h \in Views(Files), NEW f \in Files,
           f \notin Sources => \A x \in Needs(Producer(f)) : g[x] = h[x]
    PROVE  MadeFrom(g)[f] = MadeFrom(h)[f]
<1>1. CASE f \in Sources
  BY <1>1 DEF MadeFrom
<1>2. CASE f \notin Sources
  <2> DEFINE a == Producer(f)
             read(v) == [x \in Declared[a] |-> v[x]]
             view(v) == [x \in Declared[a] \cup Reads(a, read(v)) |-> v[x]]
  <2>1. a \in Actions
    BY <1>2, ProducerIs
  <2>2. read(g) = read(h)
    BY <1>2, <2>1, NeedsFacts
  <2>3. Declared[a] \cup Reads(a, read(g)) \subseteq Needs(a)
    BY <2>1, MadeFromNeeds
  <2>4. view(g) = view(h)
    <3>1. \A x \in Declared[a] \cup Reads(a, read(g)) : g[x] = h[x]
      BY <1>2, <2>3
    <3> HIDE DEF a, read
    <3> QED BY <2>2, <3>1
  <2>5. \A v : MadeFrom(v)[f] = IF Missing \in Range(view(v)) THEN Missing
                                ELSE Produce(a, f, view(v))
    BY <1>2 DEF MadeFrom
  <2> HIDE DEF a, view
  <2> QED BY <2>4, <2>5
<1> QED BY <1>1, <1>2

\* The clean tree is what a build from nothing makes of itself.
LEMMA CleanIs ==
    ASSUME Acyclic, disk \in Views(Files)
    PROVE  Clean = MadeFrom(Clean)
<1> DEFINE V == Digests \cup {Missing}
           below == [f \in Files |-> IF f \in Sources THEN {} ELSE Needs(Producer(f))]
           step == [g \in [Files -> V] |-> MadeFrom(g)]
<1>1. Views(Files) = [Files -> V]
  BY DEF Views
<1>2. below \in [Files -> SUBSET Files]
  BY ProducerIs, NeedsFacts
<1>3. ASSUME NEW S \in SUBSET Files, S # {}
      PROVE  \E f \in S : below[f] \cap S = {}
  <2>1. CASE S \cap Sources # {}
    BY <2>1
  <2>2. CASE S \cap Sources = {}
    <3> DEFINE A == {Producer(f) : f \in S}
    <3>1. A \in SUBSET Actions /\ A # {}
      BY <1>3, <2>2, ProducerIs
    <3>2. PICK a \in A : Producers(a) \cap A = {}
      <4> HIDE DEF A
      <4> QED BY <3>1 DEF Acyclic
    <3>3. PICK f \in S : a = Producer(f)
      BY <3>2
    <3>4. ASSUME NEW g \in Needs(a), g \in S PROVE FALSE
      <4>1. g \notin Sources
        BY <2>2, <3>4
      <4>2. PICK p \in Producers(a) : g \in Outputs[p]
        BY <3>1, <3>2, <4>1, NeedsFacts
      <4>3. p \in Actions /\ Producer(g) = p
        BY <4>2, ProducerIs DEF Producers
      <4> QED BY <3>2, <3>4, <4>2, <4>3
    <3>5. below[f] = Needs(a)
      BY <2>2, <3>3
    <3> QED BY <3>4, <3>5
  <2> QED BY <2>1, <2>2
<1>4. Definition(Files, V, below, step)
  <2>1. \A g \in [Files -> V] : MadeFrom(g) \in [Files -> V]
    BY <1>1, MadeFromIsView
  <2>2. \A g, h \in [Files -> V], f \in Files :
           (\A x \in below[f] : g[x] = h[x]) => MadeFrom(g)[f] = MadeFrom(h)[f]
    <3> SUFFICES ASSUME NEW g \in [Files -> V], NEW h \in [Files -> V], NEW f \in Files,
                        \A x \in below[f] : g[x] = h[x]
                 PROVE  MadeFrom(g)[f] = MadeFrom(h)[f]
      OBVIOUS
    <3>1. f \notin Sources => \A x \in Needs(Producer(f)) : g[x] = h[x]
      OBVIOUS
    <3> HIDE DEF V, below
    <3> QED BY <1>1, <3>1, MadeFromBelow
  <2> HIDE DEF V, below
  <2> QED BY <1>2, <1>3, <2>1, <2>2 DEF Definition
<1>5. \E g \in [Files -> V] : g = step[g]
  <2> HIDE DEF V, below, step
  <2> QED BY <1>1, <1>4, SolutionExists
<1>6. \E g : g = MadeFrom(g)
  BY <1>5
<1>7. Clean = CHOOSE g : g = MadeFrom(g)
  BY DEF Clean, MadeFrom
<1> QED BY <1>6, <1>7

-----------------------------------------------------------------------------
(* Quiet builds are clean.                                                  *)

\* What an entry that nobody raced with was made of was all there.
ReadableOf(a) ==
    journal[a] # NoEntry /\ a \notin raced => Missing \notin Range(journal[a].inputs)
Readable == \A a \in Actions : ReadableOf(a)

\* When a quiet build has ended, what has succeeded is as recorded, and so are
\* its producers.
EndedMatches ==
    build = "ended" /\ edited = {} =>
        \A a \in Actions : Succeeded(a) =>
            Matches(a) /\ \A p \in Producers(a) : Succeeded(p)

\* Only Record changes an entry.
LEMMA ReadableStays ==
    ASSUME IInv, Readable, [Next]_vars
    PROVE  Readable'
<1>1. CASE UNCHANGED <<journal, raced>>
  BY <1>1 DEF Readable, ReadableOf
<1>2. CASE \E a \in Actions : ActionStep(a)
  <2>1. PICK a \in Actions : ActionStep(a)
    BY <1>2
  <2>2. CASE UNCHANGED <<journal, raced>>
    BY <2>2 DEF Readable, ReadableOf
  <2>3. CASE Record(a)
    <3>1. /\ at[a] = "stored"
          /\ journal' = [journal EXCEPT ![a] = [inputs |-> inputs[a], discovered |-> Found(a),
                                                outputs |-> Restrict(settled, Outputs[a])]]
          /\ a \in raced' \/ DOMAIN inputs[a] \cap edited = {}
          /\ \A b \in Actions \ {a} : b \notin raced' => b \notin raced
      BY <2>3 DEF Record
    <3>2. /\ Missing \notin Range(got[a]) /\ DOMAIN inputs[a] = DOMAIN got[a]
          /\ \A f \in DOMAIN got[a] : got[a][f] = disk[f] \/ f \in edited
          /\ \A f \in DOMAIN got[a] : inputs[a][f] = disk[f] \/ f \in edited
      BY <3>1 DEF IInv, Work, WorkOf, Views
    <3>3. a \in raced' \/ Missing \notin Range(inputs[a])
      BY <3>1, <3>2 DEF Range
    <3>4. DOMAIN journal = Actions
      BY DEF IInv, JournalOK
    <3>5. ReadableOf(a)'
      BY <3>1, <3>3, <3>4 DEF ReadableOf
    <3>6. \A b \in Actions \ {a} : ReadableOf(b)'
      BY <3>1 DEF Readable, ReadableOf
    <3> QED BY <3>5, <3>6 DEF Readable
  <2> QED BY <2>1, <2>2, <2>3
          DEF ActionStep, SkipAction, HashFails, HitIntact, HitRestored, Miss, RefuseCancelled,
              Begin, SpawnFails, CommandReads, CommandSucceeds, CommandFails, Ingest,
              IngestFails, RerunFails, RecordFails, observers
<1> QED BY <1>1, <1>2 DEF Next, StartBuild, DryRun, Preflight, EndBuild, Crash, Cancel, Evict,
                          Edit, vars, program, observers

\* The shortcut ends a build only where every entry matches.
LEMMA PreflightEnds ==
    ASSUME IInv, Preflight PROVE EndedMatches'
<1>1. SUFFICES ASSUME EverythingMatches, outcome' = [a \in Actions |-> "cached"],
                      UNCHANGED <<disk, journal>>
               PROVE  EndedMatches'
  BY DEF Preflight, EndedMatches
<1>2. \A a \in Actions : Matches(a)'
  <2> TAKE a \in Actions
  <2>1. /\ journal[a] # NoEntry /\ DOMAIN journal[a].outputs = Outputs[a]
        /\ \A f \in DOMAIN journal[a].inputs : disk[f] = journal[a].inputs[f]
        /\ \A f \in DOMAIN journal[a].outputs : disk[f] = journal[a].outputs[f]
    BY <1>1 DEF EverythingMatches
  <2> QED BY <1>1, <2>1 DEF Matches
<1> QED BY <1>1, <1>2 DEF EndedMatches, Succeeded, Producers

\* The end of a build changes no outcome of an action that had one.
LEMMA EndBuildEnds ==
    ASSUME IInv, EndBuild PROVE EndedMatches'
<1>1. /\ build = "running" /\ UNCHANGED <<disk, journal, edited>>
      /\ outcome' = [a \in Actions |-> IF outcome[a] = None THEN "skipped" ELSE outcome[a]]
  BY DEF EndBuild
<1>2. \A a \in Actions : Succeeded(a)' <=> SucceededNow(a)
  BY <1>1 DEF Succeeded, SucceededNow, None
<1>3. SUFFICES ASSUME edited = {}, NEW a \in Actions, SucceededNow(a)
               PROVE  Matches(a)' /\ \A p \in Producers(a) : Succeeded(p)'
  BY <1>1, <1>2 DEF EndedMatches
<1>4. Matches(a)
  BY <1>3 DEF IInv, Matching
<1>5. ProducersSucceeded(a)
  BY <1>3 DEF IInv, Upstream
<1> QED BY <1>1, <1>2, <1>4, <1>5 DEF Matches, ProducersSucceeded, Producers

\* A dry run calls cached what has only cached producers and is as recorded, or
\* is restored to be.
LEMMA DryRunEnds ==
    ASSUME IInv, DryRun PROVE EndedMatches'
<1>1. PICK plan \in Plans : Planned(plan) /\ outcome' = plan /\ disk' = Restored(plan)
  BY DEF DryRun
<1>2. journal' = journal
  BY DEF DryRun
<1>3. SUFFICES ASSUME NEW a \in Actions, plan[a] = "cached"
               PROVE  Matches(a)' /\ \A p \in Producers(a) : plan[p] = "cached"
  <2>1. \A a \in Actions : Succeeded(a)' <=> plan[a] = "cached"
    BY <1>1 DEF Succeeded, Plans
  <2> QED BY <2>1 DEF EndedMatches, Producers
<1>4. /\ \A p \in Producers(a) : plan[p] \notin {"failed", "skipped", "wouldrun", "mayrun"}
      /\ journal[a] # NoEntry
      /\ journal[a].inputs = [f \in KeyPaths(a) |-> Restored(plan)[f]]
  BY <1>1, <1>3 DEF Planned, Waits
<1>5. \A p \in Producers(a) : plan[p] = "cached"
  BY <1>4 DEF Plans, Producers
<1>6. \A f \in DOMAIN journal[a].inputs : disk'[f] = journal[a].inputs[f]
  BY <1>1, <1>4
<1>7. \A o \in Outputs[a] : disk'[o] = journal[a].outputs[o]
  <2> TAKE o \in Outputs[a]
  <2>1. o \in Files /\ o \in Generated /\ Producer(o) = a
    BY ProducerIs DEF Generated, Files
  <2> QED BY <1>1, <1>3, <2>1 DEF Restored
<1> QED BY <1>2, <1>4, <1>5, <1>6, <1>7 DEF Matches

\* Every other step leaves an ended build as it is, or is not of one.
LEMMA EndedStays ==
    ASSUME IInv, EndedMatches, [Next]_vars
    PROVE  EndedMatches'
<1>1. CASE UNCHANGED <<disk, journal, build, outcome, edited>>
  BY <1>1 DEF EndedMatches, Matches, Succeeded
<1>2. CASE build' # "ended"
  BY <1>2 DEF EndedMatches
<1>3. CASE Preflight \/ EndBuild \/ DryRun
  BY <1>3, PreflightEnds, EndBuildEnds, DryRunEnds
<1>4. CASE \E a \in Actions : ActionStep(a)
  <2>1. build' = "running"
    BY <1>4, ActionIsBusy, OthersAreKept DEF IInv, OthersKept
  <2> QED BY <1>2, <2>1
<1>5. CASE StartBuild \/ Crash \/ Cancel \/ \E d \in cas : Evict(d)
  BY <1>1, <1>2, <1>5 DEF StartBuild, Crash, Cancel, Evict, observers
<1>6. CASE \E f, v : Edit(f, v)
  BY <1>2, <1>6 DEF Edit
<1> QED BY <1>1, <1>3, <1>4, <1>5, <1>6 DEF Next, vars, program, observers

\* What an entry is made of is clean when the outputs of its producers are.
LEMMA EntriesAreClean ==
    ASSUME Acyclic, IInv, Readable, NEW a \in Actions, Matches(a), a \notin raced,
           \A p \in Producers(a) : \A f \in Outputs[p] : disk[f] = Clean[f]
    PROVE  \A o \in Outputs[a] : disk[o] = Clean[o]
<1> DEFINE e == journal[a]
           declared == [g \in Declared[a] |-> Clean[g]]
           view == [g \in Declared[a] \cup Reads(a, declared) |-> Clean[g]]
<1>1. Clean = MadeFrom(Clean)
  BY CleanIs DEF IInv, FilesOK
<1>2. \A f \in Sources : Clean[f] = disk[f]
  <2>1. \A f \in Sources : MadeFrom(Clean)[f] = disk[f]
    BY DEF MadeFrom, Files
  <2> HIDE DEF Clean
  <2> QED BY <1>1, <2>1
<1>3. /\ journal[a] # NoEntry /\ IsEntry(a, e)
      /\ \A f \in DOMAIN e.inputs : disk[f] = e.inputs[f]
      /\ \A o \in Outputs[a] : disk[o] = e.outputs[o]
      /\ e.discovered = Reads(a, Restrict(e.inputs, Declared[a])) \ Declared[a]
      /\ \A o \in Outputs[a] : e.outputs[o] = Produce(a, o, e.inputs)
      /\ Missing \notin Range(e.inputs)
  BY DEF IInv, JournalOK, Matches, TrueTraces, Readable, ReadableOf
<1> HIDE DEF Clean, e
<1>4. /\ DOMAIN e.inputs = Declared[a] \cup e.discovered
      /\ e.inputs = [f \in DOMAIN e.inputs |-> e.inputs[f]]
      /\ DOMAIN e.inputs \subseteq Needs(a)
  BY <1>3 DEF IsEntry, Views, Needs
<1>5. \A f \in Needs(a) : disk[f] = Clean[f]
  <2> SUFFICES ASSUME NEW f \in Needs(a), f \notin Sources PROVE disk[f] = Clean[f]
    BY <1>2
  <2> QED BY NeedsFacts
<1>6. \A f \in DOMAIN e.inputs : e.inputs[f] = Clean[f]
  BY <1>3, <1>4, <1>5
<1>7. Restrict(e.inputs, Declared[a]) = declared
  BY <1>4, <1>6 DEF Restrict
<1>8. Declared[a] \cup Reads(a, declared) = DOMAIN e.inputs
  BY <1>3, <1>4, <1>7
<1>9. view = e.inputs
  BY <1>4, <1>6, <1>8
<1>10. ASSUME NEW o \in Outputs[a] PROVE Clean[o] = Produce(a, o, e.inputs)
  <2>1. o \in Files \ Sources /\ Producer(o) = a
    BY ProducerIs
  <2>2. MadeFrom(Clean)[o] = IF Missing \in Range(view) THEN Missing ELSE Produce(a, o, view)
    BY <2>1 DEF MadeFrom
  <2> HIDE DEF view, declared
  <2> QED BY <1>1, <1>3, <1>9, <2>2
<1> QED BY <1>3, <1>10

\* The first action that would not be clean is made of what is.
LEMMA MatchingIsClean ==
    ASSUME Acyclic, IInv, Readable, EndedMatches
    PROVE  QuietBuildIsClean
<1> DEFINE Unclean(a) == \E o \in Outputs[a] : disk[o] # Clean[o]
           Bad == {a \in Actions : Succeeded(a) /\ Trusted(a) /\ Unclean(a)}
<1>1. SUFFICES ASSUME build = "ended", edited = {}, Bad # {} PROVE FALSE
  BY DEF QuietBuildIsClean
<1>2. PICK a \in Bad : Producers(a) \cap Bad = {}
  <2>1. Bad \in SUBSET Actions
    OBVIOUS
  <2> HIDE DEF Bad
  <2> QED BY <1>1, <2>1 DEF Acyclic
<1>3. a \in Actions /\ Succeeded(a) /\ Trusted(a) /\ Unclean(a)
  BY <1>2
<1> HIDE DEF Bad
<1>4. Matches(a) /\ \A p \in Producers(a) : Succeeded(p)
  BY <1>1, <1>3 DEF EndedMatches
<1>5. Lineage[a] = {a} \cup UNION {Lineage[p] : p \in Producers(a)}
  BY <1>3, LineageIs
<1>6. a \notin raced /\ \A p \in Producers(a) : Trusted(p)
  BY <1>3, <1>5 DEF Trusted
<1>7. \A p \in Producers(a) : ~Unclean(p)
  BY <1>2, <1>4, <1>6 DEF Bad, Producers
<1>8. \A o \in Outputs[a] : disk[o] = Clean[o]
  BY <1>3, <1>4, <1>6, <1>7, EntriesAreClean
<1> QED BY <1>3, <1>8

\* A build that nobody disturbs leaves, for every action it reports as cached or
\* executed, what a build from nothing would make of the sources: however earlier
\* builds ended, and whatever was edited, deleted or evicted before (process,
\* execute and all_cached in lib.rs), unless an entry that it rests on was recorded in
\* a build in which one of its sources was edited.  It holds where no action waits for
\* itself.
THEOREM QuietBuildIsCleanHolds ==
    ASSUME Acyclic
    PROVE  Spec => []QuietBuildIsClean
<1>1. Init => Readable /\ EndedMatches
  BY DEF Init, Readable, ReadableOf, EndedMatches
<1>2. IInv /\ Readable /\ EndedMatches /\ [Next]_vars => Readable' /\ EndedMatches'
  BY ReadableStays, EndedStays
<1>3. IInv /\ Readable /\ EndedMatches => QuietBuildIsClean
  BY MatchingIsClean
<1> QED BY <1>1, <1>2, <1>3, EngineInvariant, PTL DEF Spec
=============================================================================
