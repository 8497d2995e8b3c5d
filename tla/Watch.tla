-------------------------------- MODULE Watch --------------------------------
(***************************************************************************)
(* The development loop of `frost watch` and `frost dev` (run_watch in     *)
(* crates/frostbuild-cli/src/main.rs): a watcher that queues events, a     *)
(* build per change set, exclusions that keep a build's own outputs from   *)
(* starting the next one, and a development process that is restarted      *)
(* after successful builds.                                                *)
(*                                                                         *)
(* The sources are one version.  A build reads the manifest, then the      *)
(* sources; it runs its actions unless they last succeeded on the same     *)
(* versions (that it knows so is Engine's affair), and a failing action    *)
(* runs every time.  Besides the outputs it writes depfiles, makes the     *)
(* directories they need, and restores outputs by way of a staging file    *)
(* beside them.  What lies below .frost is never relevant and is left out. *)
(* The builds' own order of actions is Scheduler's.                        *)
(* Its names do not clash with those of Cancellation, beside which         *)
(* ProcessProofs puts it.                                                  *)
(***************************************************************************)
EXTENDS Naturals, Sequences, FiniteSets

CONSTANTS
    Manifests, Versions,
    Outputs,            \* the outputs each manifest declares in the source tree
    Depfiles,           \* its depfiles there, outside the clean directories
    Parents,            \* the directories of both that a checkout does not have
    Loadable,           \* the manifests that can be loaded
    Failing,            \* the pairs <<manifest, version>> an action fails on
    None,
    MaxEdits, MaxFaults,
    MaxLeft             \* bound: how many events a deadline may leave in the channel

Pairs == Manifests \X Versions

\* The paths a build writes or makes; "staging" is `.materialize.<pid>.<n>.tmp`.
Staging == "staging"
Written ==
    {Staging} \cup UNION {Outputs[m] \cup Depfiles[m] \cup Parents[m] : m \in Manifests}

ASSUME WatchAssumption ==
    Loadable \subseteq Manifests /\ Failing \subseteq Pairs /\ None \notin Pairs

VARIABLES
    manifest, source,
    queue,          \* the channel from the watcher: kinds of events
    at,
    initial,        \* this is the initial build
    reading,        \* what the build has read: manifest and version
    writing,        \* paths it has still to write
    built,          \* the pair of the last build that succeeded
    intact,         \* the outputs are those of that build
    directories,    \* directories that have been made
    exclusions,     \* outputs
    changed,        \* the change set that is being collected
    child,          \* the handle on the development process: what it was built of
    interrupted,
    \* Observers and bounds:
    alive,          \* development processes (leaders) that live
    attempted,      \* the pair the last build has read
    settled,        \* the manifest at the end of the first or the last successful build
    lost,           \* the watcher has failed
    edits, faults

files == <<manifest, source>>
building == <<initial, reading, writing, built, intact, directories, attempted, settled>>
bounds == <<edits, faults>>
watchVars == <<files, queue, at, building, exclusions, changed, child, interrupted, alive, lost, bounds>>

WatchInit ==
    /\ manifest \in Manifests /\ source \in Versions
    /\ queue = <<>> /\ at = "build"
    /\ initial = TRUE /\ reading = None /\ writing = {}
    /\ built = None /\ intact = FALSE /\ directories = {}
    /\ attempted = None /\ settled = None
    /\ exclusions = {} /\ changed = {}
    /\ child = None /\ interrupted = FALSE
    /\ alive = {} /\ lost = FALSE
    /\ edits = 0 /\ faults = 0

Now == <<manifest, source>>
Stopped == at \in {"stopped", "bailed"}

-----------------------------------------------------------------------------
(* Users, the watcher and the development process                          *)

Edit(path, m, v) ==
    /\ edits < MaxEdits /\ ~Stopped
    /\ edits' = edits + 1
    /\ manifest' = m /\ source' = v
    /\ queue' = Append(queue, path)
    /\ UNCHANGED <<at, building, exclusions, changed, child, interrupted, alive, lost, faults>>

EditManifest(m) == m # manifest /\ Edit("manifest", m, source)
EditSource(v) == v # source /\ Edit("source", manifest, v)

\* An error takes events with it, of which nobody will know; "access" stands
\* for events of the kinds that change no file.
WatcherFails ==
    /\ faults < MaxFaults /\ ~Stopped
    /\ faults' = faults + 1
    /\ queue' \in {<<"error">>, Append(queue, "access")}
    /\ lost' = (lost \/ queue' = <<"error">>)
    /\ UNCHANGED <<files, at, building, exclusions, changed, child, interrupted, alive, edits>>

ProcessExits ==
    /\ \E p \in alive : alive' = alive \ {p}
    /\ UNCHANGED <<files, queue, at, building, exclusions, changed, child, interrupted, lost, bounds>>

Cancel ==
    /\ ~interrupted /\ ~Stopped
    /\ interrupted' = TRUE
    /\ UNCHANGED <<files, queue, at, building, exclusions, changed, child, alive, lost, bounds>>

-----------------------------------------------------------------------------
(* run_build, as the loop sees it                                          *)

Idle == UNCHANGED <<files, child, interrupted, alive, lost, bounds>>

\* The graph is loaded first; without it the build fails.
LoadGraph ==
    /\ at = "build"
    /\ IF manifest \in Loadable
       THEN at' = "read" /\ UNCHANGED attempted
       ELSE at' = "failed" /\ attempted' = Now
    /\ reading' = Now
    /\ UNCHANGED <<initial, writing, built, intact, directories, settled, queue, exclusions, changed>> /\ Idle

\* Mutant: outputs are restored without asking whether they are intact.
Mut_AlwaysRestored(pair) ==
    LET m == pair[1] IN
    IF pair # built THEN {Outputs[m] \cup Depfiles[m]} ELSE {Outputs[m] \cup {Staging}}
\* What actions write: all there is when they run; when they last succeeded on
\* what is read, nothing, or what a build that failed since has taken is restored,
\* or made again if the store does not have it any more.
Work(pair) ==
    LET m == pair[1]
        run == Outputs[m] \cup Depfiles[m]
    IN  IF pair # built THEN {run}
        ELSE IF intact THEN {{}} ELSE {run, Outputs[m] \cup {Staging}}

\* The directories are made first; the sources are digested and the actions run
\* that have something to do.
ReadSources ==
    /\ at = "read"
    /\ reading' = <<reading[1], source>>
    /\ attempted' = reading'
    /\ \E work \in Work(reading') : writing' = work \cup (Parents[reading[1]] \ directories)
    /\ intact' = (intact /\ reading' = built)
    /\ at' = "run"
    /\ UNCHANGED <<initial, built, directories, settled, queue, exclusions, changed>> /\ Idle

\* A file is written or a directory made.
Write(o) ==
    /\ at = "run" /\ o \in writing
    /\ writing' = writing \ {o}
    /\ directories' = directories \cup ({o} \cap Parents[reading[1]])
    /\ queue' = Append(queue, o)
    /\ UNCHANGED <<at, initial, reading, built, intact, attempted, settled, exclusions, changed>>
    /\ Idle

BuildCompletes ==
    /\ at = "run" /\ writing = {} /\ ~interrupted
    /\ IF reading \in Failing
       THEN at' = "failed" /\ UNCHANGED <<built, intact>>
       ELSE at' = "succeeded" /\ built' = reading /\ intact' = TRUE
    /\ UNCHANGED <<initial, reading, writing, directories, attempted, settled, queue, exclusions, changed>>
    /\ Idle

\* Mutant: outputs are written after the end.
Mut_CancelKeepsWriting ==
    /\ at = "run" /\ interrupted
    /\ at' = "failed"
    /\ UNCHANGED <<initial, reading, writing, built, intact, directories, attempted, settled, queue, exclusions, changed>>
    /\ Idle

\* A cancelled build fails, whatever it was about to do.
BuildCancelled ==
    /\ at = "run" /\ interrupted
    /\ at' = "failed" /\ writing' = {}
    /\ UNCHANGED <<initial, reading, built, intact, directories, attempted, settled, queue, exclusions, changed>>
    /\ Idle

-----------------------------------------------------------------------------
(* run_watch                                                               *)

\* watch_exclusions: of the graph as it can be loaded now.
Exclusions == IF manifest \in Loadable THEN Outputs[manifest] ELSE {}

\* A failed build leaves the exclusions and the development process alone; only
\* after the initial one there were none to leave.
AfterFailure ==
    /\ at = "failed"
    /\ exclusions' = IF initial THEN Exclusions ELSE exclusions
    /\ settled' = IF initial THEN manifest ELSE settled
    /\ initial' = FALSE /\ reading' = None /\ at' = "loop"
    /\ UNCHANGED <<writing, built, intact, directories, attempted, queue, changed>> /\ Idle

\* Mutant: the exclusions of the first build are kept.
Mut_ExcludeOnce == IF initial THEN Exclusions ELSE exclusions
Refreshed == Exclusions

\* Mutant: the old process is not stopped.
Mut_StopNothing == alive
\* stop_dev_process
StopChild == alive \ {child}

\* After a successful one the exclusions are those of the present graph, and the
\* process is stopped and started anew, if the artifact is found and can run.
AfterSuccess ==
    /\ at = "succeeded"
    /\ exclusions' = Refreshed /\ settled' = manifest
    /\ \/ /\ child' = built
          /\ alive' = StopChild \cup {built}
       \/ child' = None /\ alive' = StopChild       \* it cannot be spawned
       \/ UNCHANGED <<child, alive>>                \* there is no artifact
    /\ initial' = FALSE /\ reading' = None /\ at' = "loop"
    /\ UNCHANGED <<files, writing, built, intact, directories, attempted, queue, changed, interrupted, lost, bounds>>

ReapChild ==
    /\ at = "loop" /\ ~interrupted
    /\ child' = IF child \in alive THEN child ELSE None
    /\ at' = "receive"
    /\ UNCHANGED <<files, queue, building, exclusions, changed, interrupted, alive, lost, bounds>>

\* Mutant: every event is relevant.
Mut_Everything(event) == {event} \ {"access", "error"}
\* relevant_watch_path of an event that changes files
Relevant(event) == {event} \ ({"access", "error"} \cup exclusions)

\* 200 ms without an event
NothingReceived ==
    /\ at = "receive" /\ queue = <<>>
    /\ at' = "loop"
    /\ UNCHANGED <<queue, building, exclusions, changed>> /\ Idle

Receive ==
    /\ at = "receive" /\ queue # <<>>
    /\ queue' = Tail(queue)
    /\ changed' = Relevant(Head(queue))
    /\ at' = IF Head(queue) = "error" THEN "loop" ELSE "collect"
    /\ UNCHANGED <<building, exclusions>> /\ Idle

\* Mutant: an event replaces the change set.
Mut_CollectLast ==
    /\ at = "collect" /\ queue # <<>>
    /\ queue' = Tail(queue)
    /\ changed' = Relevant(Head(queue))
    /\ UNCHANGED <<at, building, exclusions>> /\ Idle

\* Events are added to the change set until none has come for a while ...
Collect ==
    /\ at = "collect" /\ queue # <<>>
    /\ queue' = Tail(queue)
    /\ changed' = changed \cup Relevant(Head(queue))
    /\ UNCHANGED <<at, building, exclusions>> /\ Idle

\* ... or until the deadline, which only relevant events put off.
Collected ==
    /\ at = "collect" /\ Len(queue) <= MaxLeft
    /\ at' = IF changed = {} THEN "loop" ELSE "build"
    /\ changed' = {}
    /\ UNCHANGED <<queue, building, exclusions>> /\ Idle

\* The loop ends on a cancellation, and takes the process with it.
Stop ==
    /\ at = "loop" /\ interrupted
    /\ at' = "stopped"
    /\ alive' = StopChild /\ child' = None
    /\ UNCHANGED <<files, queue, building, exclusions, changed, interrupted, lost, bounds>>

\* The watcher's end of the channel is gone: the command fails.
Bail ==
    /\ at \in {"receive", "collect"} /\ faults < MaxFaults
    /\ faults' = faults + 1
    /\ at' = "bailed"
    /\ UNCHANGED <<files, queue, building, exclusions, changed, child, interrupted, alive, lost, edits>>

Loop ==
    \/ LoadGraph \/ ReadSources \/ BuildCompletes \/ BuildCancelled
    \/ \E o \in Written : Write(o)
    \/ AfterFailure \/ AfterSuccess \/ ReapChild
    \/ NothingReceived \/ Receive \/ Collect \/ Collected \/ Stop

WatchNext ==
    \/ Loop \/ Bail
    \/ \E m \in Manifests : EditManifest(m)
    \/ \E v \in Versions : EditSource(v)
    \/ WatcherFails \/ ProcessExits \/ Cancel

\* The loop goes on: builds end, and waits have their time limits.
WatchSpec == WatchInit /\ [][WatchNext]_watchVars /\ WF_watchVars(Loop)

-----------------------------------------------------------------------------

WatchTypeOK ==
    /\ at \in {"build", "read", "run", "failed", "succeeded", "loop", "receive", "collect",
               "stopped", "bailed"}
    /\ reading \in Pairs \cup {None} /\ built \in Pairs \cup {None}
    /\ writing \subseteq Written
    /\ (at = "run") \/ writing = {}
    /\ intact \in BOOLEAN /\ directories \subseteq Written
    /\ child \in Pairs \cup {None}
    /\ interrupted \in BOOLEAN /\ lost \in BOOLEAN

\* However the edits fall (before the watcher's first build, during a build,
\* while a change set is collected), the last of them is built: in the end the
\* last build has read the files as they are.  Only a failing watcher can lose one.
EditsAreBuilt ==
    <>[](Stopped \/ interrupted \/ lost \/ attempted = Now)

\* A failing action runs in every build, and its depfile, which nothing excludes,
\* starts the next one.
StartsItself == Now \in Failing /\ Depfiles[manifest] # {}

\* Builds do not start each other for ever ("prevents executed tool wrappers,
\* builds and the action materializer from retriggering the watch loop", docs/22):
\* when nobody edits any more, they come to an end, though new directories, the
\* depfile of a success and staging files start another one each.  The exceptions
\* are a failing action with a depfile in the source tree, and a manifest that no
\* build has succeeded with since it was edited: what it declares anew is not
\* excluded, and a failing build runs for ever.
BuildsComeToAnEnd ==
    <>[](at \notin {"build", "read", "run"} \/ manifest # settled \/ StartsItself)

\* The loop comes to rest, on the last edit.
WatchSettles == EditsAreBuilt /\ BuildsComeToAnEnd

\* No development process outlives its successor, or the loop: the one process
\* that lives is the one the loop has a handle on.  (A loop that fails leaves it.)
OneDevelopmentProcess ==
    /\ alive \subseteq {child}
    /\ at = "stopped" => alive = {}
=============================================================================
