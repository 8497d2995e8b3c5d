------------------------------- MODULE Engine -------------------------------
(***************************************************************************)
(* What the build engine does for one action (Engine::process and          *)
(* Engine::execute in crates/frostbuild-exec/src/lib.rs), over the state   *)
(* it decides from: the files on disk, the digests established during the  *)
(* build, the journal and the content-addressed store.  Builds follow one  *)
(* another; users edit files, builds fail, are cancelled or die between.   *)
(*                                                                         *)
(* Contents stand for their digests.  The order in which actions may run   *)
(* is Scheduler's, the torn records of a journal are Journal's.  Left out  *)
(* are --no-cache for tests, the sandbox, damage to the store and commands *)
(* that fail to write their depfile.                                       *)
(***************************************************************************)
EXTENDS Naturals, FiniteSets, Functions

CONSTANTS
    Actions,
    Sources,            \* files the user edits
    Declared,           \* declared inputs of every action: sources or outputs
    OrderOnly,          \* generated files an action only waits for
    Outputs,            \* declared outputs of every action
    Preserve,           \* the actions with preserve_outputs
    Values,             \* contents of sources
    Contents,           \* contents of any file
    Reads(_, _),        \* Reads(a, view): what the command finds by itself
    Produce(_, _, _),   \* Produce(a, o, view): what it writes into output o
    Initially,          \* contents of the sources to begin with
    MaxEdits, MaxBuilds, MaxDisturbed   \* bounds

Missing == "MISSING"    \* hashcache::MISSING
Garbage == "garbage"    \* what a command that dies leaves in an output
None == "none"

ASSUME ShapeAssumption ==
    /\ \A a \in Actions : Outputs[a] # {} /\ Outputs[a] \cap Sources = {}
    /\ \A a, b \in Actions : a # b => Outputs[a] \cap Outputs[b] = {}
    /\ \A a \in Actions : OrderOnly[a] \cap Declared[a] = {}
    /\ Preserve \subseteq Actions /\ Initially \subseteq [Sources -> Values]
    /\ {Missing, Garbage, None} \cap Contents = {} /\ Values \subseteq Contents

VARIABLES
    disk,       \* content of every file
    settled,    \* HashCache.settled: digests established during this build
    journal,    \* the last entry recorded for every action
    cas,        \* the objects in the store
    build,      \* "none", "preflight", "running", "ended"
    at,         \* how far the build is with each action
    inputs,     \* the digests that feed the key of a running action
    got,        \* what the command of an action has read
    outcome,    \* Outcome of every action in this build
    cancelled,  \* was_cancelled()
    edits, builds,
    \* Observers:
    edited,     \* the sources edited while this build ran
    raced,      \* actions with an entry that names one of them
    calm        \* nothing happened since a build succeeded

program == <<disk, settled, journal, cas, build, at, inputs, got, outcome, cancelled>>
bounds == <<edits, builds>>
observers == <<edited, raced, calm>>
vars == <<program, bounds, observers>>

Generated == UNION {Outputs[a] : a \in Actions}
Files == Sources \cup Generated
Producer(f) == CHOOSE a \in Actions : f \in Outputs[a]
\* Mutant: order-only inputs do not order anything.
Mut_DeclaredProducers(a) == {p \in Actions : Outputs[p] \cap Declared[a] # {}}
Producers(a) == {p \in Actions : Outputs[p] \cap (Declared[a] \cup OrderOnly[a]) # {}}

Digests == Contents \cup {Garbage}
Views(paths) == [paths -> Digests \cup {Missing}]

\* A generated file that a command reads is declared or waited for: of any other
\* "nothing closes" the gap (docs/16_action_key_audit.md).
ASSUME InputsAssumption ==
    \A a \in Actions :
        /\ Declared[a] \cup OrderOnly[a] \subseteq Files
        /\ \A view \in Views(Declared[a]) :
              Reads(a, view) \subseteq Sources \cup Declared[a] \cup OrderOnly[a]

ASSUME ProduceAssumption ==
    \A a \in Actions : \A declared \in Views(Declared[a]) :
        \A view \in [Declared[a] \cup Reads(a, declared) -> Digests] :
            Restrict(view, Declared[a]) = declared =>
                \A o \in Outputs[a] : Produce(a, o, view) \in Contents

NoEntry == [inputs |-> <<>>, discovered |-> {}, outputs |-> <<>>]
NotSettled == None

Init ==
    /\ \E contents \in Initially :
          disk = [f \in Files |-> IF f \in Sources THEN contents[f] ELSE Missing]
    /\ settled = [f \in Files |-> NotSettled]
    /\ journal = [a \in Actions |-> NoEntry]
    /\ cas = {}
    /\ build = "none"
    /\ at = [a \in Actions |-> "todo"]
    /\ inputs = [a \in Actions |-> <<>>]
    /\ got = [a \in Actions |-> <<>>]
    /\ outcome = [a \in Actions |-> None]
    /\ cancelled = FALSE
    /\ edits = 0 /\ builds = 0
    /\ edited = {} /\ raced = {} /\ calm = FALSE

-----------------------------------------------------------------------------
(* HashCache within one build: a path digested once keeps its digest until *)
(* frost itself rewrites it; a missing file is never settled.              *)

Digest(f) == IF settled[f] # NotSettled THEN settled[f] ELSE disk[f]

SettledBy(paths) ==
    [f \in Files |->
        IF f \in paths /\ Digest(f) # Missing THEN Digest(f) ELSE settled[f]]

\* Mutant: frost's own rewrites are not told to the cache.
Mut_NothingForgotten(paths) == settled
Forgotten(paths) ==
    [f \in Files |-> IF f \in paths THEN NotSettled ELSE settled[f]]

-----------------------------------------------------------------------------

\* What a process keeps in memory; its report is all that is left in the end.
FreshWork ==
    /\ settled' = [f \in Files |-> NotSettled]
    /\ at' = [a \in Actions |-> "todo"]
    /\ inputs' = [a \in Actions |-> <<>>]
    /\ got' = [a \in Actions |-> <<>>]
    /\ cancelled' = FALSE
FreshMemory == FreshWork /\ outcome' = [a \in Actions |-> None]

StartBuild ==
    /\ build \in {"none", "ended"}
    /\ builds < MaxBuilds
    /\ builds' = builds + 1
    /\ build' = "preflight"
    /\ FreshMemory
    /\ edited' = {}
    /\ UNCHANGED <<disk, journal, cas, edits, raced, calm>>

\* Mutant: the outputs are not looked at.
Mut_InputsMatch ==
    \A a \in Actions :
        /\ journal[a] # NoEntry
        /\ DOMAIN journal[a].inputs = Declared[a] \cup journal[a].discovered
        /\ \A f \in DOMAIN journal[a].inputs : disk[f] = journal[a].inputs[f]
\* all_cached: every action has an entry for its present declared inputs, and
\* every recorded file, input or output, still has its recorded content.
EverythingMatches ==
    \A a \in Actions :
        LET e == journal[a] IN
        /\ e # NoEntry
        /\ DOMAIN e.inputs = Declared[a] \cup e.discovered
        /\ DOMAIN e.outputs = Outputs[a]
        /\ \A f \in DOMAIN e.inputs : disk[f] = e.inputs[f]
        /\ \A f \in DOMAIN e.outputs : disk[f] = e.outputs[f]

\* The workers start unless everything matches; an error in finding out counts
\* as a mismatch.
Preflight ==
    /\ build = "preflight"
    /\ \/ /\ EverythingMatches
          /\ build' = "ended"
          /\ outcome' = [a \in Actions |-> "cached"]
          /\ calm' = (edited = {})
       \/ build' = "running" /\ UNCHANGED <<outcome, calm>>
    /\ UNCHANGED <<disk, settled, journal, cas, at, inputs, got, cancelled,
                   bounds, edited, raced>>

End(a, o) ==
    /\ at' = [at EXCEPT ![a] = "done"]
    /\ outcome' = [outcome EXCEPT ![a] = o]

\* What process() keys an action on: its declared inputs, and those its last
\* recorded run discovered.
KeyPaths(a) == Declared[a] \cup journal[a].discovered

Ready(a) ==
    /\ build = "running" /\ at[a] = "todo"
    /\ \A p \in Producers(a) : at[p] = "done"

SkipAction(a) ==
    /\ Ready(a)
    /\ \E p \in Producers(a) : outcome[p] \in {"failed", "skipped"}
    /\ End(a, "skipped")
    /\ UNCHANGED <<disk, settled, journal, cas, build, inputs, got, cancelled,
                   bounds, observers>>

KeyOf(a) == [f \in KeyPaths(a) |-> Digest(f)]
KeyMatches(a) == journal[a] # NoEntry /\ journal[a].inputs = KeyOf(a)
Stale(a) == {o \in DOMAIN journal[a].outputs : Digest(o) # journal[a].outputs[o]}
Intact(a) == Stale(a) = {}
InStore(a) == {o \in DOMAIN journal[a].outputs : journal[a].outputs[o] \in cas}

Checkable(a) ==
    /\ Ready(a)
    /\ \A p \in Producers(a) : outcome[p] \notin {"failed", "skipped"}

\* An input or a recorded output cannot be read.
HashFails(a) ==
    /\ Checkable(a)
    /\ End(a, "failed")
    /\ UNCHANGED <<disk, settled, journal, cas, build, inputs, got, cancelled,
                   bounds, observers>>

HitIntact(a) ==
    /\ Checkable(a)
    /\ KeyMatches(a) /\ Intact(a)
    /\ settled' = SettledBy(KeyPaths(a) \cup DOMAIN journal[a].outputs)
    /\ End(a, "cached")
    /\ UNCHANGED <<disk, journal, cas, build, inputs, got, cancelled,
                   bounds, observers>>

\* outputs_intact digests one output after the other, up to the first stale one.
LookedAt(a) ==
    {good \cup {bad} : good \in SUBSET (Outputs[a] \ Stale(a)), bad \in Stale(a)}

\* restore_outputs goes through the outputs and stops at the first that the
\* store does not have or cannot copy; those before it are in place by then.
Materialized(a, outs) ==
    /\ disk' = [f \in Files |-> IF f \in outs THEN journal[a].outputs[f] ELSE disk[f]]
    /\ \E seen \in LookedAt(a) :
          settled' = [f \in Files |->
              IF f \in outs THEN NotSettled ELSE SettledBy(KeyPaths(a) \cup seen)[f]]

HitRestored(a) ==
    /\ Checkable(a)
    /\ KeyMatches(a) /\ ~Intact(a)
    /\ InStore(a) = DOMAIN journal[a].outputs
    /\ Materialized(a, DOMAIN journal[a].outputs)
    /\ End(a, "cached")
    /\ UNCHANGED <<journal, cas, build, inputs, got, cancelled, bounds, observers>>

Miss(a) ==
    /\ Checkable(a)
    /\ IF KeyMatches(a)
       THEN /\ ~Intact(a)
            /\ \E outs \in SUBSET InStore(a) \ {DOMAIN journal[a].outputs} :
                  Materialized(a, outs)
       ELSE settled' = SettledBy(KeyPaths(a)) /\ UNCHANGED disk
    /\ inputs' = [inputs EXCEPT ![a] = KeyOf(a)]
    /\ at' = [at EXCEPT ![a] = "start"]
    /\ UNCHANGED <<journal, cas, build, got, outcome, cancelled, bounds, observers>>

-----------------------------------------------------------------------------
(* execute()                                                               *)

RefuseCancelled(a) ==
    /\ at[a] = "start" /\ cancelled
    /\ End(a, "failed")
    /\ UNCHANGED <<disk, settled, journal, cas, build, inputs, got, cancelled,
                   bounds, observers>>

\* The outputs are removed before the command runs, unless it keeps them.
Begin(a) ==
    /\ at[a] = "start" /\ ~cancelled
    /\ settled' = Forgotten(Outputs[a])
    /\ disk' = [f \in Files |->
          IF f \in Outputs[a] /\ a \notin Preserve THEN Missing ELSE disk[f]]
    /\ at' = [at EXCEPT ![a] = "running"]
    /\ UNCHANGED <<journal, cas, build, inputs, got, outcome, cancelled,
                   bounds, observers>>

\* The intermediates cannot be reset or a command cannot be spawned; if it is
\* a later command of the action, what the first one wrote stays.
SpawnFails(a) ==
    /\ at[a] \in {"running", "read"}
    /\ \E written \in SUBSET Outputs[a] :
          /\ at[a] = "running" => written = {}
          /\ disk' = [f \in Files |-> IF f \in written THEN Garbage ELSE disk[f]]
    /\ End(a, "failed")
    /\ UNCHANGED <<settled, journal, cas, build, inputs, got, cancelled,
                   bounds, observers>>

\* The command reads its declared inputs and whatever they include.
CommandReads(a) ==
    /\ at[a] = "running"
    /\ got' = [got EXCEPT ![a] =
          [f \in Declared[a] \cup Reads(a, Restrict(disk, Declared[a])) |-> disk[f]]]
    /\ at' = [at EXCEPT ![a] = "read"]
    /\ UNCHANGED <<disk, settled, journal, cas, build, inputs, outcome, cancelled,
                   bounds, observers>>

\* It exits with 0.  One that does not keep its outputs may have forgotten one.
CommandSucceeds(a) ==
    /\ at[a] = "read"
    /\ Missing \notin Range(got[a])
    /\ \E written \in SUBSET Outputs[a] :
          /\ a \in Preserve => written = Outputs[a]
          /\ disk' = [f \in Files |->
                IF f \in written THEN Produce(a, f, got[a]) ELSE disk[f]]
    /\ at' = [at EXCEPT ![a] = "ran"]
    /\ UNCHANGED <<settled, journal, cas, build, inputs, got, outcome, cancelled,
                   bounds, observers>>

\* It fails, or is killed; what it wrote is removed.
CommandFails(a) ==
    /\ at[a] = "read"
    /\ disk' = [f \in Files |-> IF f \in Outputs[a] THEN Missing ELSE disk[f]]
    /\ End(a, "failed")
    /\ UNCHANGED <<settled, journal, cas, build, inputs, got, cancelled,
                   bounds, observers>>

\* The depfile names what the command read beside its declared inputs.
Found(a) == DOMAIN got[a] \ Declared[a]

\* Mutant: the digests of the last run's discovered inputs are kept.
Mut_RecordedKeepsOld(a) ==
    [f \in DOMAIN inputs[a] \cup Found(a) |->
        IF f \in DOMAIN inputs[a] THEN inputs[a][f] ELSE Digest(f)]
\* The inputs of the recorded key: the declared digests of before the run, and
\* those of the files the depfile names, taken after it.
RecordedInputs(a) ==
    [f \in Declared[a] \cup Found(a) |->
        IF f \in Declared[a] THEN inputs[a][f] ELSE Digest(f)]

\* Mutant: a declared output that was not created goes unnoticed.
Mut_AnyCreated(a) == \E o \in Outputs[a] : Digest(o) # Missing
AllCreated(a) == \A o \in Outputs[a] : Digest(o) # Missing

\* Depfile, digests of the outputs, store.
Ingest(a) ==
    /\ at[a] = "ran"
    /\ AllCreated(a)
    /\ settled' = SettledBy(Found(a) \cup Outputs[a])
    /\ inputs' = [inputs EXCEPT ![a] = RecordedInputs(a)]
    /\ cas' = cas \cup {Digest(o) : o \in Outputs[a]}
    /\ at' = [at EXCEPT ![a] = "stored"]
    /\ UNCHANGED <<disk, journal, build, got, outcome, cancelled, bounds, observers>>

\* An output is missing, the depfile cannot be parsed, or a digest or the
\* store fails: the action fails, its outputs stay as the command left them.
IngestFails(a) ==
    /\ at[a] = "ran"
    /\ \E stored \in SUBSET {Digest(o) : o \in Outputs[a]} :
          cas' = cas \cup (stored \ {Missing})
    /\ settled' = SettledBy(Found(a) \cup Outputs[a])
    /\ End(a, "failed")
    /\ UNCHANGED <<disk, journal, build, inputs, got, cancelled, bounds, observers>>

\* --check-determinism: the commands run again before the action is recorded,
\* over the outputs of the first run.  An input has __TIME__ in it; or the rerun
\* fails and is not told to the cache; or it makes something else, once all
\* outputs are digested.  One that makes the same changes nothing.
RerunFails(a) ==
    /\ at[a] = "stored"
    /\ \E other \in SUBSET Outputs[a] :
          /\ disk' = [f \in Files |-> IF f \in other THEN Garbage ELSE disk[f]]
          /\ settled' \in {settled, [f \in Files |-> IF f \in other THEN Garbage ELSE settled[f]]}
    /\ End(a, "failed")
    /\ UNCHANGED <<journal, cas, build, inputs, got, cancelled, bounds, observers>>

Record(a) ==
    /\ at[a] = "stored"
    /\ journal' = [journal EXCEPT ![a] =
          [inputs |-> inputs[a], discovered |-> Found(a),
           outputs |-> Restrict(settled, Outputs[a])]]
    /\ End(a, "executed")
    /\ raced' = IF DOMAIN inputs[a] \cap edited = {} THEN raced \ {a} ELSE raced \cup {a}
    /\ UNCHANGED <<disk, settled, cas, build, inputs, got, cancelled,
                   bounds, edited, calm>>

RecordFails(a) ==
    /\ at[a] = "stored"
    /\ End(a, "failed")
    /\ UNCHANGED <<disk, settled, journal, cas, build, inputs, got, cancelled,
                   bounds, observers>>

-----------------------------------------------------------------------------
(* A dry run, of which `frost test --affected` makes its selection.        *)

\* Mutant: what would be rebuilt upstream is taken as it is.
Mut_Waits(a, plan) == FALSE
\* "Inputs on disk are stale, so no honest key exists."
Waits(a, plan) == \E p \in Producers(a) : plan[p] \in {"wouldrun", "mayrun"}

Restorable == {a \in Actions : journal[a] # NoEntry /\ Range(journal[a].outputs) \subseteq cas}

Plans ==
    {plan \in [Actions -> {"skipped", "cached", "failed", "wouldrun", "mayrun"}] :
        \A a \in Actions : plan[a] = "cached" => journal[a] # NoEntry}

\* Outputs that are not as recorded are restored in a dry run too.
Restored(plan) ==
    [f \in Files |-> IF f \in Generated /\ plan[Producer(f)] = "cached"
                     THEN journal[Producer(f)].outputs[f] ELSE disk[f]]

\* process() of one action after the other; any may be unreadable, or fail to be
\* restored.
Planned(plan) ==
    \A a \in Actions :
        plan[a] \in
           IF \E p \in Producers(a) : plan[p] \in {"failed", "skipped"} THEN {"skipped"}
           ELSE IF Waits(a, plan) THEN {"mayrun"}
           ELSE IF \/ journal[a] = NoEntry
                   \/ journal[a].inputs # [f \in KeyPaths(a) |-> Restored(plan)[f]]
                THEN {"failed", "wouldrun"}
           ELSE IF \A o \in Outputs[a] : disk[o] = journal[a].outputs[o]
                THEN {"failed", "cached"}
           ELSE {"failed", "wouldrun"} \cup (IF a \in Restorable THEN {"cached"} ELSE {})

\* No command runs and nothing is recorded.  What it restores for an action that
\* would still run is left out: the command removes or rewrites it.  It counts as a build.
DryRun ==
    /\ build \in {"none", "ended"}
    /\ builds < MaxBuilds
    /\ builds' = builds + 1
    /\ build' = "ended" /\ edited' = {}
    /\ FreshWork
    /\ \E plan \in Plans : Planned(plan) /\ outcome' = plan /\ disk' = Restored(plan)
    /\ UNCHANGED <<journal, cas, edits, raced, calm>>

-----------------------------------------------------------------------------

InProgress == {a \in Actions : at[a] \notin {"todo", "done"}}

\* Every action has ended, or a failure keeps the rest from being started.
EndBuild ==
    /\ build = "running"
    /\ InProgress = {}
    /\ \/ \A a \in Actions : at[a] = "done"
       \/ \E a \in Actions : outcome[a] = "failed"
    /\ outcome' = [a \in Actions |-> IF outcome[a] = None THEN "skipped" ELSE outcome[a]]
    /\ build' = "ended"
    /\ calm' = (edited = {} /\ \A a \in Actions : outcome[a] \in {"cached", "executed"})
    /\ FreshWork
    /\ UNCHANGED <<disk, journal, cas, bounds, edited, raced>>

\* cas.gc: the store drops objects of its choice.
Evict(d) ==
    /\ build = "ended"
    /\ cas' = cas \ {d}
    /\ UNCHANGED <<disk, settled, journal, build, at, inputs, got, outcome,
                   cancelled, bounds, observers>>

Cancel ==
    /\ build = "running" /\ ~cancelled
    /\ cancelled' = TRUE
    /\ UNCHANGED <<disk, settled, journal, cas, build, at, inputs, got, outcome,
                   bounds, observers>>

\* The process dies, and its commands with it, whatever they have written.
Crash ==
    /\ build \in {"preflight", "running"}
    /\ build' = "none"
    /\ LET dying == {a \in Actions : at[a] \in {"running", "read"}}
       IN  \E half \in SUBSET UNION {Outputs[a] : a \in dying} :
              disk' = [f \in Files |-> IF f \in half THEN Garbage ELSE disk[f]]
    /\ FreshMemory
    /\ calm' = FALSE
    /\ UNCHANGED <<journal, cas, bounds, edited, raced>>

\* The user changes a source, while one of the first MaxDisturbed builds runs
\* or between two builds, or meddles with an output between two builds.
Edit(f, v) ==
    /\ edits < MaxEdits
    /\ build \in {"none", "ended"} \/ builds <= MaxDisturbed
    /\ f \in Generated => build \in {"none", "ended"}
    /\ disk[f] # v
    /\ disk' = [disk EXCEPT ![f] = v]
    /\ edits' = edits + 1
    /\ build' = IF build = "ended" THEN "none" ELSE build
    /\ edited' = IF build \in {"preflight", "running"} THEN edited \cup {f} ELSE {}
    /\ calm' = FALSE
    /\ outcome' = IF build = "ended" THEN [a \in Actions |-> None] ELSE outcome
    /\ UNCHANGED <<settled, journal, cas, at, inputs, got, cancelled, builds, raced>>

ActionStep(a) ==
    \/ SkipAction(a) \/ HashFails(a) \/ HitIntact(a) \/ HitRestored(a) \/ Miss(a)
    \/ RefuseCancelled(a) \/ Begin(a) \/ SpawnFails(a)
    \/ CommandReads(a) \/ CommandSucceeds(a) \/ CommandFails(a)
    \/ Ingest(a) \/ IngestFails(a) \/ RerunFails(a) \/ Record(a) \/ RecordFails(a)

Next ==
    \/ StartBuild \/ DryRun \/ Preflight \/ EndBuild \/ Cancel \/ Crash
    \/ \E a \in Actions : ActionStep(a)
    \/ \E d \in cas : Evict(d)
    \/ \E f \in Sources, v \in Values \cup {Missing} : Edit(f, v)
    \/ \E f \in Generated, v \in {Missing, Garbage} : Edit(f, v)

Spec == Init /\ [][Next]_vars

-----------------------------------------------------------------------------

TypeOK ==
    /\ disk \in Views(Files)
    /\ settled \in [Files -> Digests \cup {NotSettled}]
    /\ \A a \in Actions : journal[a] # NoEntry =>
          /\ DOMAIN journal[a].inputs = Declared[a] \cup journal[a].discovered
          /\ DOMAIN journal[a].outputs = Outputs[a]
          /\ Range(journal[a].outputs) \subseteq Contents
    /\ cas \subseteq Digests
    /\ at \in [Actions -> {"todo", "start", "running", "read", "ran", "stored", "done"}]
    /\ outcome \in [Actions -> {None, "skipped", "cached", "executed", "failed",
                               "wouldrun", "mayrun"}]

\* What a build from nothing yields, given the sources as they are.
Clean ==
    LET clean[f \in Files] ==
          IF f \in Sources THEN disk[f]
          ELSE LET a == Producer(f)
                   declared == [g \in Declared[a] |-> clean[g]]
                   view == [g \in Declared[a] \cup Reads(a, declared) |-> clean[g]]
               IN  IF Missing \in Range(view) THEN Missing ELSE Produce(a, f, view)
    IN  clean

Succeeded(a) == outcome[a] \in {"cached", "executed"}

\* The entries an action's outputs come from, its own and its producers'.
Lineage[a \in Actions] == {a} \cup UNION {Lineage[p] : p \in Producers(a)}
Trusted(a) == Lineage[a] \cap raced = {}

\* A build that nobody disturbs leaves, for every action it reports as cached
\* or executed, what a clean build of the same sources yields: whatever earlier
\* builds did, however they ended, and whatever was edited, deleted or evicted
\* in between or meanwhile.  It is what an incremental build is for; docs/16
\* calls its failure silent, and lasting until someone deletes .frost.  An
\* edit during a build spoils only what was recorded in it with that source, as a
\* declared input or a discovered one.
QuietBuildIsClean ==
    build = "ended" /\ edited = {} =>
        \A a \in Actions : Succeeded(a) /\ Trusted(a) =>
            \A o \in Outputs[a] : disk[o] = Clean[o]

\* Every journal entry is true: its outputs are what the command makes of the
\* inputs its key is computed from, and these are all it read, unless it was recorded
\* in a build in which somebody edited one of them (`raced`).
TrueTraces ==
    \A a \in Actions : journal[a] # NoEntry /\ a \notin raced =>
        LET e == journal[a] IN
        /\ e.discovered = Reads(a, Restrict(e.inputs, Declared[a])) \ Declared[a]
        /\ \A o \in Outputs[a] : e.outputs[o] = Produce(a, o, e.inputs)

\* A build that succeeded is not repeated: no command starts while nothing was
\* edited and no build died since.
NothingRunsTwice ==
    [][calm => \A a \in Actions : at[a] = "start" => at'[a] = "start"]_vars

=============================================================================
