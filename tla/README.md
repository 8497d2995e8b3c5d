# Frostbuild in TLA+

Frostbuild is an incremental build system in Rust. It compiles manifests into a
graph of actions, keys every action on the contents of its inputs, skips those
whose key and outputs are as recorded, restores outputs from a content-addressed
store where it can, and runs the rest on worker threads. A daemon that watches
the workspace can answer "nothing to do" without looking at the files.

This directory holds its specification: modules translated from the source,
TLC configurations that check them on small instances, and proofs that TLAPS
checks for every instance. `PROJECT.json` maps every definition to the lines it
stands for, and lists the runs, the mutants that show each property can fail,
the hazards and the theorems.

## The system

| Part | Source (under `src/crates/frostbuild-`) | State | Operations |
|---|---|---|---|
| manifests and graph | `core/src/{manifest,graph}.rs` | none after compilation: files, actions, targets | load, choose a configuration, toposort, one translation per kind of target, closures, queries |
| graph store | `core/src/graph_store.rs` | `.frost/graph-*.bin`: graph, stamp of the sources | load or compile, stamp |
| schedule | `exec/src/lib.rs`, `bench/src/lib.rs` | none | estimates, critical path, simulation, sweep |
| action key | `core/src/lib.rs` | none | canonical payload, digest |
| digest cache | `core/src/hashcache.rs` | `.frost/hashcache.bin`: digest and stat triple per path; in memory what is settled in this build | digest, digest_many, matches_many, invalidate, save |
| toolchain | `exec/src/lib.rs` | `.frost/toolchain.bin`: identity and digest of every tool | fingerprint |
| journal | `core/src/journal.rs` | `.frost/journal.bin`: the last record per action | load, record, save |
| store | `core/src/cas.rs`, `fastcdc.rs` | `.frost/cas`: objects, chunks, manifests, heads, deltas | put, materialize, gc, stats |
| engine | `exec/src/lib.rs` | `Shared` under a mutex, a condition variable, `previous`, `journal`; the process groups of running commands | plan, all_cached, worker, process, execute, request_cancellation |
| no-op certificate | `exec/src/fast_noop.rs` | `.frost/noop-*.bin` | save, check, check_for_daemon |
| daemon | `daemon/src/lib.rs` | `DaemonState` under a mutex: dirty paths, epoch, cached answer | watcher callback, barrier, handle |
| command line | `cli/src/main.rs` | the watch loop's change set, exclusions and process | build, test selection, watch, run via the daemon, clean, query |

How they interact. `frost build` asks the no-op certificate, and if that has
nothing to say the graph store for a graph (which calls the manifest loader when
its stamp does not match); it fingerprints the toolchain, loads digest cache,
journal and store into an `Engine`, and calls `run`. `run` first compares everything
with the journal (`all_cached`); only if that fails do the workers start. They
share `Shared` under one mutex and sleep on one condition variable; everything
an action does in between (hashing, the command, the store, the journal) is
done with that mutex released. The journal and the digest cache have mutexes
of their own. After the build comes gc, the saving of the digest cache, and a
new certificate. Between processes nothing is locked: two `frost build` on one
workspace share the journal, the store and the outputs; the daemon serialises
its own builds only. Users edit files at any time.

What is hard: wake-ups of workers that each claim their next action themselves;
aborting while others run; a crash in the middle of a journal frame; digests
taken before, during and after a command that reads and writes the same files;
failures half way through restoring or storing; caches, stamps and certificates
trusted across builds, over timestamps that are coarser than the builds; chunks
collected while they are being reused; the daemon's answer against the
watcher's late events; a watch loop whose builds write what it watches.

What makes each part correct:

- scheduler: every action runs once, after its producers; no wake-up is lost; a
  failure reaches exactly what is downstream of it; every build ends. A plan is
  one the scheduler could keep.
- engine: a build that nobody disturbs leaves what a clean build would leave,
  whatever happened in earlier builds; what is up to date is not run again.
- journal: what record() acknowledged is what the next build loads.
- digest cache: a digest is that of the file at some moment of the build, and
  frost's own writes are always seen.
- store: what is materialised has the digest that was asked for; what a put has
  stored stays restorable until it is collected.
- graph store, toolchain, certificate, daemon: an answer from a cache is one a
  full evaluation could have given between the request and the answer.
- manifests and graph: what is accepted can be built; outputs have one owner;
  what is generated comes first; a request selects exactly what it needs;
  clean removes exactly what was selected.
- watch loop: the last edit is built, and builds do not start each other for ever.

## The modules and the code

| Module | Models | With |
|---|---|---|
| `BuildOrder` | what the scheduler promises: actions that run once, after their producers, and how failures spread | |
| `Scheduler` | the worker threads of `Engine::run` and the state they share | implements `BuildOrder` |
| `SchedulerProofs` | theorems about `Scheduler`, that it implements `BuildOrder`, and about `Simulation` | |
| `Simulation` | estimates, the reported critical path, `frost simulate` and the sweep | extends `Scheduler` |
| `Journal` | `journal.bin`: appending, tearing, loading, compacting, several processes | |
| `JournalProofs` | theorems about `Journal` | |
| `Engine` | what `process()` and `execute()` do for one action, over files, digests, journal and store, through several builds | |
| `EngineProofs` | theorems about `Engine` | |
| `HashCache` | the digest cache over stat triples and a coarse clock | |
| `FastNoop` | plain builds one after the other: stamps of graph and toolchain, certificate, preflight | extends `HashCache` |
| `FastNoopProofs` | theorems about `HashCache` and `FastNoop` | |
| `FastCdc` | the content-defined chunker, against the byte-wise definition | |
| `Cas` | the content-addressed store, by several processes | chunks of `FastCdc` |
| `ChunkedCas` | the store with the chunker that fills it | extends `FastCdc` and `Cas` |
| `CasProofs` | theorems about `Cas` and `FastCdc` | |
| `Daemon` | the daemon, its watcher and its clients | |
| `DaemonProofs` | theorems about `Daemon` | |
| `Watch` | the loop of `frost watch` and `frost dev` | |
| `Manifest` | from `frost.toml` files to targets | |
| `ActionGraph` | from targets to actions, requests and clean | extends `Manifest` |
| `GraphQueries` | `frost query`, and what sharing export sets is compared with | extends `ActionGraph` |
| `ActionGraphProofs` | theorems about `Manifest` and `ActionGraph` | |
| `Cancellation` | `request_cancellation` against `run_action_commands` | |
| `ProcessProofs` | theorems about `Cancellation` and `Watch`, the modules whose subject is the life of processes | |
| `MC*` | the instances TLC checks | |

**Scheduler.** One action is one critical section of `worker()`, or one call a
worker makes with the mutex released. `ready`, `waiting`, `outcomes`, `pending`
and `abort` are the fields of `Shared`; the heap is the set of its indices,
popped in the order of `(priority, Reverse(index))`. `pc` says where a worker
is: `look` is the head of the loop, `claimed` is before `process()` has read
its producers' outcomes, `working` is everything until the action ends,
`signal` and `broadcast` are the calls of `notify_one` and `notify_all`. The
critical section that ends an action has four forms: it aborts the build
(`FinishAborting`), finds it aborted (`FinishAborted`), ends it (`FinishLast`)
or goes on with a continuation (`FinishAndGoOn`). The work itself is the
outcome it reports.

**Simulation.** `Estimates`, the walk along the critical path and the
discrete-event simulation are functions of the graph `Scheduler` has chosen;
`Fill` and `Advance` are the two halves of the loop of `simulate_against`
(`Round`). Loops are functions of the number of their turns, not steps. Actions
are the positions of the closure. Recorded durations of actions outside it are
left out, and the graphs of the run have producers before their dependents, which
the builder does not always see to (see *Where code and documents disagree*).

**Journal.** The file is a sequence of chunks, one per `write_all`: magic
number, length, payload. A crash or a failed write leaves the next chunk out
or leaves `Junk`. `DecodedPositions` is `decode_bytes`: it stops where a frame
is not complete. `writer` says whether the file a process has open is still
the one under that name, because a compaction renames another into its place.
`exclusive` is fixed at the start of a behaviour and tells the intended use, one
process at a time, from two that nothing serialises.

**Engine.** `disk` is the content of every file (contents stand for their
digests), `settled` the digests the cache will not look up again in this build,
`journal` and `cas` what persists. `at` follows one action through
`process()` (`Ready`, `HitIntact`, `HitRestored`, `Miss`) and `execute()`
(`Begin`, `CommandReads`, `CommandSucceeds`, `Ingest`, `Record`), each with
the failures that are possible there, the determinism rerun (`RerunFails`)
among them. `DryRun` is a whole build with `dry_run`: one step, because it runs no
command and records nothing, and what it restores nobody waits for; it counts as a
build. Builds follow one another; the user edits
sources, deletes or damages outputs, between them and during them (`edited`
are the sources edited in this build, `raced` the actions that recorded one),
and the store drops objects. What a command reads and writes is given by the
constants `Reads` and `Produce`. `Clean` is the reference: what a build from
nothing makes of the present sources.

**HashCache.** A file is its bytes, its mode and the granule of its last change;
`StatTriple` is what the code compares (all contents have one length and keep
their inode). `snapshot`, `updates` and `settled` are the fields of the cache,
`hashcache` the file. A call of `digest`, `digest_many` or `matches_many` is an
operation `op` whose steps look at one path, hash it, and complete; edits fall
between them. `past` collects what a file has been since the build began or
frost removed it; `lost` the paths of which a build that died, or whose gc
failed, has lost the tombstones.

**FastNoop.** A process looks whether the certificate is of the stored graph
(`Start`), of the tool there is (`StatTool`, `HashTool`) and of the files
(`CheckIdentity`). Failing that it takes the stored graph or compiles one
(`LoadCached`, `LoadOrCompile`), fingerprints the tool, goes through the preflight
and the action (`Preflight` to `Record`) and, if nothing ran, on to `CaptureGraph`
and `Certify`, with the second look `save` takes before it writes. It may `Die`
anywhere. A manifest and a tool are versions; the graph is the version it was
compiled from. There is one action, which may write anything, because what it
writes is `Engine`'s.

**FastCdc and Cas.** `Boundary` rolls two bytes a turn with doubled masks as the
code does; a mask is the set of the weights of its bits, none of which is the
highest. `AgreesWithReference` compares it with one byte a turn. A file of the
store is a name and a content; a digest is the content it is the digest of. One
action is one look at, or change of, the file system: staging, renaming,
chunks, deltas, manifest and head of a `put`; object, manifest, chunks and
reconstruction of a restore, which removes the output (`Materialize`) and then
renames the verified copy (`Place`); listing, measuring and removing of gc. Any process
may die between two of them, a put may fail among its chunks (`WriteFails`), and
files may rot.

**Daemon.** `queue` holds events that have not reached the callback yet, in
order, the barrier's own among them. `pc` follows the one thread that serves:
the cached answer and its recheck, the barrier file and the wait for it, the
certificate scanned file by file, the child build. The identity of a file is the
number of the change that made it; `clean` observes whether the workspace has
been as certified at some moment since the request. The client sends, starts a
daemon when nobody answers, and sends again once. The status request by which a
starting client sees that a daemon is up is part of `StartDaemon`; a daemon that
is told to stop does what one that dies does (`Die`).

**Watch.** The channel, the change set that is collected until things are
quiet, the exclusions taken from the last graph, the build, and the development
process. Sources are one version; a build reads the manifest, then the
sources, and makes the directories it lacks and writes files one by one
(`Written`). Which these are is `Work`: outputs and depfiles when actions run, outputs
and a staging file when they are restored, nothing when they are `intact`. The
`Exclusions` cover the outputs only, as the code's do.

**Manifest and ActionGraph.** A workspace is a root file and packages; a name
or a path component is a tuple of the pieces the code joins, so that paths
collide exactly where the code makes them equal. `Load` and `Configure` are a
step each; `toposort_targets` is a step per call, return or refusal of
`visit()`; the translation is a step per target (`ActionsOf` has a case per
kind); a request is one step. Loops whose length is known before they begin are
functions of the number of their turns: `Flatten` pops one reference a turn as
`SharedSet::flatten` does (`Turn`), `PushEach` is `push_action` for one action of a
target after the other, `Reachable` is `action_closure` level by level.
`CleanDirsValid` compares every reset directory with the `Earlier` ones. The
queries are in `GraphQueries`, written with RECURSIVE operators. They and
`RemovedBy`, what `frost clean` removes, are operators of the finished graph.

**Cancellation.** A requester raises the flag (`Ask`) and later, under the
mutex, terminates what is registered (`TerminateAll`). A worker looks at the
flag (`Take`), spawns, registers and looks at the flag again (`Register`),
waits (`Reap`), removes its group (`Continue`). A command may end by itself,
ends after it has been told to (with 0 or not), or runs for ever.

How they fit together: `ActionGraph` yields the producers that `Scheduler`
takes as `Graphs` and `Engine` as `Declared` and `OrderOnly`; it guarantees
one producer per file, which is `Engine`'s `ShapeAssumption`, but not an
acyclic graph, which is the assumption of `NoStallHolds`. `Scheduler` leaves
the work of an action to `Engine`, which runs actions in any order
`Scheduler` allows. `Engine`'s `cancelled` is what `Cancellation` details,
its `journal` is what `Journal` stores, read there as an update that either
happens or does not, its `settled` is what `HashCache` keeps in one build, and
its `cas` the objects of `Cas`, whose damage is a miss there. `Daemon` takes
from `FastNoop` that a certificate is true when it is saved, and `Watch` from
`Engine` that a build knows whether there is anything to do.

## The runs

| Run | Instance | What it shows |
|---|---|---|
| `scheduler` | 3 workers, 7 graphs of 4 actions, both options, 150 thousand states | owners and order, no stall, no sleeper while work is unattended, a sound report, refinement of `BuildOrder`, every build reports; plans that could happen |
| `journal` | 2 processes, 2 ids, 3 records, 2 faults, compaction above 4 chunks, 1.2 million states | in turns: what is loaded is what was completed unless a frame is torn, and nothing loadable is lost. Not in turns: no append makes another build's history unreadable |
| `engine` | a generator and a compilation, 3 builds, 2 edits of which one during a build, 1.2 million states | an undisturbed build or dry run reports as up to date only what a clean one would leave; journal entries are true; nothing up to date is run |
| `noop` | 4 builds, 2 changes, clock 0..2, one source, one output, 2 contents, manifests and tools, 2.8 million states | the digest cache, the preflight, the certificate and the stamps of graph and toolchain never vouch for what was not there |
| `cas` | 2 processes, 3 blobs of one output, 3 operations, one changed output, one crash, failed write or rotten file, an empty or an earlier build's store, 1.3 million states | restores hand out what was asked for or nothing, and heal; puts are kept; the store is what its names and report say; the chunker cuts where its definition does |
| `daemon` | 1 client, 3 requests, one change, certificate and fault, one file inside and one outside the watch, 2 tools | "up to date" was true during the request, proofs in memory are current, every request ends |
| `watch` | 2 edits, 1 fault, manifests that are broken, small (with a depfile in the source tree) and large (in a new directory), a version each fails on, 1.8 million states | the last edit is built, builds do not start each other for ever but for two named cases, one development process lives |
| `graph` | six families of workspaces and their configurations, 235 thousand states | what is accepted is complete and can be built; target order; ownership; what is needed is generated first and selected; shared sets and queries are exact; clean is exact but for what is `Overlooked` |
| `cancellation` | 2 workers, 2 requests, 3 actions of 2 commands, 9 thousand states | no command is left untold; a cancelled build ends |
| `journal_torn`, `graph_cycle`, `noop_away` | small | the code does not do what it says, see *Where code and documents disagree* |

Several properties are conjunctions of named parts that are checked together;
each part has a mutant of its own.

Why the bounds are enough, and what is assumed:

- *Scheduler.* A lost wake-up needs one worker that sleeps, one that releases
  and one that takes what was released; four actions give fan-out, join,
  diamond, chains, and two joins sharing a producer, so that a worker can
  release none, one, two or three dependents. The theorems remove the bounds for
  everything but liveness.
  That nothing starts after an abort is part of the refinement. The plans
  are checked for one to four workers, both queue disciplines and all four
  estimators, on durations some of which are recorded and some not.
- *Journal.* Two records and the magic number exceed `CompactAt`, so that a
  compaction is followed by further records; two faults allow a torn frame
  after a torn frame; one process more than the design has in mind is enough to
  have a writer of a replaced file.
- *Engine.* What a build can go wrong about is what another build left. Three
  builds are one that records, one that fails, restores or half-restores, and
  one that must not be misled; two edits change and change back. The generator
  makes the same listing of both its sources (early cutoff) and different
  headers; the compilation finds or drops the header depending on its own
  source; one action has two outputs, so that some may be missing, stored or
  stale while others are not; the other one keeps its outputs
  (`preserve_outputs`). At most one edit falls into a build (`MaxDisturbed`).
  The generator's source has one content to begin with, the other being the
  same but for the header.
- *FastNoop.* One source is enough to be edited and one output to be rewritten
  while the other file is being looked at. Four builds are one that runs, one
  that certifies, one that answers from the certificate, and one more that a
  death or an edit of any of these may mislead. Two granules after the first one
  let an edit and a rewrite fall together or apart. Users change a file, or
  replace the tool, in a later granule than its last change (frost itself
  rewrites outputs in the same one), and change its mode at most once per
  version. Four exceptions are named, and reached: `lost` (a rewrite by a
  build that did not live to save the digest cache), `torn` (a manifest changed
  between its reading and its stamp), `outlived` (frost rewrote a certified
  output in its granule), `CapturedAway` (a file that was gone only while the
  certificate was being captured; `noop_away` is about it).
- *Cas.* The first blob's second chunk is the base of the second blob's delta;
  the small blob has no chunks. Three operations are a put, whatever races it,
  and the restore or second put that shows the result; gc keeps six files, fewer
  than two large blobs need. The chunker is compared on all strings of two bytes
  up to length nine, with lengths of a few bytes and hashes of four bits. The
  listing of gc is one step.
- *Daemon.* One connection is served at a time, so that one client shows what
  the thread can do; a change, a certificate and a fault at any moment are what
  an answer can be wrong about. `overflowed` excepts a watcher that lost events
  and said so only by an event of the kind the callback drops.
- *Watch.* One edit starts a build and the other one falls anywhere into what
  follows. Stopping the process and taking over exclusions are parts of a
  step; an action's outputs below `.frost` are never relevant; a
  deadline leaves at most `MaxLeft` events in the channel. Excepted are a
  failing watcher (`lost`), manifests with which no build has succeeded yet, and
  a failing action with a depfile in the source tree (`StartsItself`); all are
  reached.
- *ActionGraph.* A cycle through an intermediate target, a dependency through a
  target of another kind, and a producer selected through an order-only input
  need three targets (family `Triples`); a diamond of exports needs four
  (`Diamonds`). Lists of dependencies have at most two entries, in both orders.
  `Fields` has one target with any optional field; `Globs` has sources that
  match some, none or ignored files; `Packaged` has two packages and a root
  whose labels and path keys collide; `Variants` has commands with templates,
  reset directories and tools that one configuration lacks, and one workspace
  whose outputs meet in one tree only; where no profile is declared it also asks
  for one nobody declared, which builds. What plain `clean` overlooks of such a build
  is excepted by name (`Overlooked`), and reached. A platform that is
  named like a profile is left out (`NamesApart`): they would share trees.
- *Cancellation.* Two workers so that one registers while the other is
  terminated; two commands so that a cancellation falls between them; two
  requests because the signal's thread and the terminal's may both ask.

`CHECK_DEADLOCK FALSE` is set where behaviours end: the builds, edits, requests or
operations are used up, the loop has stopped, or all actions are taken.
`Scheduler` and `Journal` are checked for deadlock; a finished build of
`Scheduler` stutters through `Reported`.

### Fairness

`Scheduler`: weak fairness of every worker's step and of the join: threads
keep running, and every command comes to an end. Nothing is assumed of
`SpuriousWakeup`, so a worker that nobody wakes sleeps for ever. Mutual
exclusion itself is not modelled as waiting: a critical section is one step, and
weak fairness suffices because no other worker can disable a step of a worker
that is not asleep, it can only change which one is enabled.

`Cancellation`: weak fairness of the workers, of the second half of a request
and of `Obey`: a command that is told to end does. None for `Exit`, so that
`CancelledBuildsEnd` is shown for commands that would run for ever, and none for
`Ask`. A command that ignores SIGTERM does stop the build from ending; the
code sends no other signal on Unix.

`Daemon`: weak fairness of the thread that serves (its only wait has a deadline,
and a child build ends) and of the client that starts a daemon or sends again;
strong fairness of `Accept`, because a daemon that dies and comes back is not
always there to accept, but no connection is passed over for ever. None for the
watcher: events may never arrive.

`Watch`: weak fairness of the loop: builds end and receiving has a time limit.
Users may edit as long as the bound allows, or never.

## The proofs

TLAPS checks the theorems for every value of the constants: any actions, files,
processes, clients, graphs, commands and versions, and any bound. Each module
`XProofs` extends `X`, begins with the argument, states one inductive
invariant, has a lemma per action or group of actions, and ends with the
theorems. Every invariant was first checked by TLC on the instance of the run.

| Module | States properties of the runs | What else it takes |
|---|---|---|
| `SchedulerProofs` | `TypeOK`, `EachOnceInOrder`, `NoStall`, `NobodySleepsOnWork`, `ReportIsSound`, `ImplementsBuildOrder` (and `NothingStartsAfterAbort`, which no run checks by itself); of `Simulation` `PlansAreSound` | actions are the positions of a finite vector, workers finite and at least one; `NoStall`: acyclic graphs; `PlansAreSound`: producers have lower positions than their dependents |
| `JournalProofs` | `TypeOK`, `LoadsWhatWasCompleted`, `HistoryIsKept` | finitely many ids |
| `EngineProofs` | `TypeOK`, `TrueTraces`, `NothingRunsTwice`, `QuietBuildIsClean` | one producer per file; a command reads what it declares and sources, and makes contents; `QuietBuildIsClean`: acyclic graphs |
| `FastNoopProofs` | `TypeOK`, `CacheIsTrue`, `UpToDateIsTrue`, `StampsAreCurrent` | that `None`, `MISSING` and tombstones are no values |
| `CasProofs` | `TypeOK`, `StoreIsTrue`, `PutsAreKept`, `RestoresAreSound`, `ChunkerIsReference` | finitely many blobs and processes; a blob is cut into a sequence of chunks, in any way; `None`, `Absent` and `Garbage` are no contents; the chunker: a minimum of two bytes, and masks without the highest bit |
| `DaemonProofs` | `TypeOK`, `AnswersAndProofsAreTrue` | watched and other files are disjoint |
| `ActionGraphProofs` | `TypeOK`, `LoadedIsWhole`, `TargetsInOrder`, `OutputsAreOwned`, `NeedsAreMet` | workspaces are what reading TOML yields (`WorkspacesAssumption`): lists are lists, no path is empty, no two targets of a file and no two packages share a name; finitely many files |
| `ProcessProofs` | of `Cancellation` `TypeOK`, `CancellationReachesAll`; of `Watch` `WatchTypeOK`, `OneDevelopmentProcess` | none but names and bounds |

The assumptions are those stated in the modules, and TLC evaluates them in the
runs.

**Scheduler.** `IInv` conjoins
`TypeOK`, `OneOwner`, `ProducersFirst` and `NothingLost`, none of which is
inductive alone, with `Counts` (`waiting` is the number of unfinished
producers and `pending` that of unfinished actions: without it a release
might be early, or a counter negative), `EndedInOrder` (an action that has
ended had all its producers ended), `QueueOK` (what is queued is unfinished,
the queue is empty after an abort) and `ThreadsOK` (which workers hold an
action, owe a signal, or have returned). `EndingFacts`,
`ReleaseFacts` and `Placement` are what the four ways of ending an action share.
For `NoStallHolds`, `WorkRemains` is the heart: the
set of unfinished actions has a member that needs none of the others, which
by `Counts` and `NothingLost` is queued or held. For `NobodySleepsOnWorkHolds`
the queued actions are counted against the wake-ups that are owed and the workers that
will look; a step that adds one to the queue adds one to these.

**Scheduler and BuildOrder.** `RecordOK` adds what is recorded: the flag `abort` stands for a
recorded failure unless the build keeps going, what a worker read of its producers'
outcomes is still so when it reports (they have ended, `ProducersSettled`), and
every outcome is one its producers allow. With it each step of
the threads is `Start`, `Finish` or a stutter of `BuildOrder`, and the report is
final.

**Simulation.** An induction over positions shows that `LongestChain` is what lasts
longest of all that can follow (`ChainsOf`), which needs producers to come first; then
no chain of actions lasts longer (`NoChainIsLonger`), and the walk from the best
root to the best dependent realises it (`CriticalPathIs`). Sums are over positions:
that the total changes by what one value changes (`TotalWithAnother`), or by as much
for each of a set of actions (`TotalOfLess`), is an induction of its own. `Going`
says what a simulation is in the middle of: which actions have ended and which run,
and how long everything still takes. After `Fill` every worker has an action or nothing
is ready (`FillIs`); `Advance` takes the same time from all that run (`AdvanceIs`). The
bounds are kept by every round (`InTime`): the work that is left and the time of all
workers never fall below the whole work; the longest rest of a chain shrinks no faster
than the clock runs, and just as fast while a worker is idle, because then everything that
waits is behind something that runs (`RestShrinks`). So what idle workers lose is
paid for by the critical path (`TimePasses`), which is the bound of list
scheduling; with a worker for each action nobody ever waits.

**Journal.** An append takes no decoded position away and adds at most its own
(`PositionsAppended`), so `HistoryIsKept` needs nothing about other processes
except for the numbers. For turns the invariant says that memory covers the file
(`Covered`), and, until a frame is torn, that the file consists of whole
frames but for the one being written (`Framed`) and says the same as memory and
what was completed (`Agreed`). `FileOfIsDecoded` shows that a compacted file reads
as what it was made of.

**Engine.** While a build runs, a file an action depends on changes only if the
user edits it, because generated ones have their producers behind them
(`Upstream`) and what the cache says of either is on disk
(`SourcesAreSettled`, `OutputsAreSettled`). So the digests of the key, what the
command reads and what is recorded are the same, except for files edited in
this build (`KeyIsRead`, `Work`): that is `TrueTraces`, with `raced` as its only
exception. If nothing was edited, every action that is cached or executed leaves an
entry that matches the disk (`Matching`), and a later build of an untouched
workspace finds it so (`CalmMatches`): `NothingRunsTwice`.
For `QuietBuildIsClean` this must still hold when the build has ended, by any of
its ways (`EndedMatches`), and what it read must have been there (`Readable`). Then
a matching, trusted entry records what its command makes of what is on disk
(`TrueTraces`), which is what a build from nothing makes if its producers' outputs
are such (`EntriesAreClean`); and the first action for which it were not
so would have producers for which it is (`MatchingIsClean`). `Clean` and `Lineage` are recursive
definitions; that there is a function which satisfies them follows from acyclicity
(`SolutionExists`). The graph builder does not make sure of that (`graph_cycle`).

**HashCache and FastNoop.** Every stat triple that the cache, the certificate or
an operation under way remembers is at most the file's present one
(`Remembered`), because triples grow with every write but one: that of a
command, in the granule of the last version. What is remembered
either does not match any more or is true, and a command's outputs are forgotten before
it runs (`CacheTells`). A digest a build has come by was the file's during the
build (`Recent`). The identities of a certificate were looked at before the
second check of the digests it vouches for (`SecondLook`), so that a file that still
has the one has the other (`Vouches`). `ToolsInv` and `GraphInv` say the same of the
two stamps. The attempt to prove the part about certificates showed
what `noop_away` now shows: see below.

**Cas.** Most steps are quiet: one process adds one file that is what its name
says (`Grown`), or none, and everything the others rely on stays (`QuietKeeps`).
Undamaged files are true (`Truth`): what is renamed was verified, and what is
cut from a true object makes its blob. A manifest comes after its chunks
(`Complete`), and while nothing was collected and nobody killed, a chunk without a
manifest belongs to a put under way (`NoStray`); so at rest the manifests list
exactly the chunk directory, and the deduplication report is right. What was
promised rests on a blob's carriers, its manifest and chunks or its object, and
nobody is about to remove one of these (`Promised`), because what is about to be
removed was found not to be what it should (`Bad`). Reading and removing are two
steps, and two readers of one rotten file may remove it twice, the slower
one after somebody has published it anew; that is why nothing is promised
anew after damage, and why `RebuildingHeals` is about puts that begin when
nobody is about to remove anything. The steps that lose something give up the
promises they touch. A restore that missed has removed the object it
could not use, or there was none, or it was right (`Heals`), so the put that
follows, which trusts any object it finds, trusts none wrongly. An output is taken
away only when a verified copy is there to take its place, so a restore that ends in an
error leaves it alone or missing, never wrong (`PlaceKeeps`).

**FastCdc.** At an even offset the hash that is rolled by pairs is the doubled
byte-wise hash, at an odd one the byte-wise hash itself (`PairsAreBytes`); a bit
below the highest survives the doubling one place higher, so the doubled mask
tests the same bits (`DoubledBit`, `DoubledClear`). Hence both find the same cuts.
Every chunk takes at least one byte, so the iterator ends, and by induction from the
end of the string the chunks are what is left of it (`EveryStringAgrees`). Induction
is over sets of offsets (`LevelInduction`), as no operator can be passed to a lemma.

**Daemon.** Identities of files only grow, so a certificate that does not match
will not match again (`KnownCertificates`), and `clean` covers every moment at which
the answer may have been true (`CleanCovers`). A scan that finds every file as certified shows
that all of them matched when it began (`ScanOK`); a proof that survives a barrier
matched when the marker was written, because the marker is behind every event
of an earlier change (`QuickOK`).

**Watch.** A process is started only after the last one was stopped
through the handle on it, so the handle must not be lost while it lives; what a
build has read must be a pair of versions for the handle to name one.

**Manifest and ActionGraph.** Loading is one step, so `LoadedIsWhole` is about
functions: what `expand_paths` makes of a list is the union of what its entries
stand for (`Meanings`), and every target of the manifest stands for one of a file
(`StandsFor`), because the check that a label is unique finds the one it is looked up
by. For `TargetsInOrder`, `Visiting` says what the stack of `visit()` knows: the
targets being visited are those on it, each depends on the one below (`Chain`: so a
dependency that is on the stack closes a cycle), and the dependencies that
a frame has passed are done or next on the stack (`DepsBehind`: so a
target is left behind all of them). `Reachable` counts its rounds by the number of
targets or actions; that this many are enough, and that the result is the least set
closed under the step, is a count of what each round adds. `BuildOK` says that no
two actions so far make one file (`push_action` compares with all before,
itself included) and that what compiles waits for `GeneratedFor`
its target (`MadeOK`). That `Flatten` ends and finds what every upstream target
generates is a measure: each turn pops one reference, and a set pushes its
references once, when it is first visited (`Ahead`); at the end all that
is reachable is visited (`Walked`). `OutputsAreOwned` is this and the check of
`validate_clean_dirs`, which is about pairs and needs no induction.

**Cancellation.** Whoever has begun a
request has raised the flag, so that a registration after the request finds it
raised; with the exact contents of the register this is inductive.

Only model-checked, and why:

- liveness (`EveryBuildReports`, `CancelledBuildsEnd`, `EveryRequestEnds`,
  `WatchSettles`): it needs fairness and ENABLED;
- `WalksAreExact`: the queries are RECURSIVE operators, and so is the copying that
  the order of shared sets is compared with. That they contain what they
  should is part of `NeedsAreMet`;
- `CleanIsExact`: it is true of the workspaces of the run and not of all, see the
  output under a name of a platform below. It excepts `Overlooked`.

## Where code and documents disagree

Shown by a run:

- `journal_torn`: after a torn frame, later records are appended behind it and
  never read again, though each is flushed "preserving crash-tail recovery".
  A build repeats work, build after build, until a compaction rewrites the file.
- `graph_cycle`: a genrule that names its own output, or that of a
  dependent, is accepted, though "the graph builder rejects cycles".
- `noop_away`: a source that is removed after the preflight and is back for the
  second check is certified as absent (`exec/src/fast_noop.rs:95`). Once it is removed
  for good the certificate matches, and answers "up to date" for a build that would
  fail, though the certificate is never to make a changed build look current. It was
  found while proving `HitIsSound`, which excepts exactly this.

Met while modelling, without a run of their own:

- `frost clean --platform host` looks for trees named `host`, but the host's
  trees are named after the profile alone (`cli/src/main.rs:1086`); nothing is
  removed.
- An output `x/arm/${config}` on the host and one `x/${config}` on a platform
  `arm` are the same file (`graph.rs:153-160`, `graph.rs:1028`), against "host and
  device builds stay warm concurrently" (`docs/06_manifest_spec.md:99-100`); `clean`
  of one takes the other's.
- A genrule that names the output of one it does not depend on (`graph.rs:201`) may be
  numbered before it. Priorities are "computed once in reverse topological order"
  (`exec/src/lib.rs:459`), but the order is that of the numbers: the producer's chain
  is summed without its dependent's, so the priority and the reported critical path
  are too short. `PlansAreSoundHolds` excepts such graphs; what may run when is not
  affected.
- An action that fails after its command has succeeded (`exec/src/lib.rs:1288`)
  leaves its outputs, though "failed actions have partial outputs removed"
  (`DESIGN.md:76`). They are never taken for good: the `engine` run has the step
  and holds `QuietBuildIsClean`.
- A discovered input edited while the command runs is digested after it
  (`exec/src/lib.rs:1255`); the stale output is taken for current by later builds.
  `QuietBuildIsClean` and `TrueTraces` except the entries in `raced`: those recorded
  in a build in which one of their inputs, declared or discovered, was edited at any
  time. That is more than the entries that are wrong. A declared input edited between its
  digest and the reading of it by the command gives one too, which a build
  that looks at files while they are edited cannot avoid.
- With no profile declared any name builds (`graph.rs:137`). `frost clean` then tries
  `debug` alone (`cli/src/main.rs:1059-1069`): it removes the whole native tree, but what
  commands of such a build made outside `.frost` stays, though clean is to load
  every configured graph for these (`docs/06_manifest_spec.md:265-266`). `CleanIsExact`
  excepts it (`Overlooked`).
- Builds of `frost watch` start another one by what they write in the source tree besides
  outputs: staging files of restores (`cas.rs:238`), new directories of outputs
  (`exec/src/lib.rs:1475-1497`), depfiles (`manifest.rs:656-661`). The exclusions are
  outputs and clean directories (`cli/src/main.rs:1653-1659`), though they are to prevent
  "builds and the action materializer from retriggering"
  (`docs/22_developer_loop.md:44-48`). `WatchSettles` shows that this comes to an end,
  except for a failing command with a depfile in the source tree (`StartsItself`),
  which starts itself for ever.
- An output listed twice makes `push_action` index out of bounds where it should
  report the collision (`graph.rs:727`).
- A restore that loses its object to gc between looking and copying is an error,
  where the comment on gc calls it a miss (`cas.rs:571`). The engine treats
  both as a miss.
- `test --affected` drops a test whose inputs cannot be read and exits with
  success (`cli/src/main.rs:3038`), against the no-miss promise of
  `docs/08_predictive_selection.md:11`.
- The daemon's callback drops events of kind Other (`daemon/src/lib.rs:182`), by
  which backends report that they lost some: `overflowed`.
- A failing build with an output in the source tree that its manifest declares
  anew starts itself for ever (`cli/src/main.rs:1909`), against
  `docs/22_developer_loop.md:44-48`.
- Off Unix the identity of a tool is its length (`exec/src/lib.rs:2111`).
- The root manifest refuses `:name` (`manifest.rs:304-316`), which
  `docs/06_manifest_spec.md:16-18` says resolves in the current package.

## Not modelled

- The sandbox and test stamps of `execute()`, `--no-cache`; the digests of
  commands and environment in a key, which do not change between the builds of one
  manifest; the canonical bytes of keys; depfile syntax and commands that fail
  to write their depfile; the legacy `journal.json`.
- Reading TOML; flags, argv and templates other than the configuration;
  includes; the naming of archives after their directory; DOT output; targets a
  request names that do not exist. The tools of genrule steps count as tools of
  the target, and the kofun compiler as one of them.
- Damage to the files of the graph store and the certificate, and the versions
  of their formats; directories and ignore files in the stamp of the sources,
  which stand with the manifest.
- Commands that outlive a frost that is killed: they have process groups of their own and
  nothing tells them (`exec/src/lib.rs:1560`), so they may write on while the next
  build runs. `Engine.Crash` ends them with the build.
- The staging files of what a put adds to the store, which gc may remove: a write that
  fails, for whatever reason, is `WriteFails`. What materialize looks at on the way to
  one chunk is one step (`FetchChunk`), as is the reading of a file that is
  hashed (`HashCache.Hash`); a file edited in the middle has some digest,
  and its stat triple does not match afterwards any more than in the model.
- The temporary file of a compaction (`journal.bin.tmp`), which two savers share: writing and
  renaming it is one step of `Journal.Compact`.
- The stamp of the graph's sources as a part of the certificate that is looked at before the
  tools: in `Daemon` manifests are among the files, which are scanned after them.
- Process groups whose leader has exited, and the reuse of process ids; two
  daemons that start at once; framing of messages and the Windows endpoint.
- Parsing of arguments, progress, listings, `gc`, `run`, `debug` and `ide`
  commands, importers, archives, benchmarks: I/O or pure conversions without
  state that outlives a command.

## Plan

1. Done: `Scheduler` with `BuildOrder` and `Simulation`; `Journal`; `Engine`;
   `HashCache` and `FastNoop`; `FastCdc` and `Cas`; `Daemon`; `Watch`; `Manifest` and
   `ActionGraph`; `Cancellation`.
2. Done: the theorems about `Scheduler`, its refinement of `BuildOrder` and its
   report; `Simulation`; `Journal`; `Engine`; `HashCache` and `FastNoop`; `FastCdc` and
   `Cas`; `Daemon`; `Watch`; `Manifest` and `ActionGraph`; `Cancellation`.
3. Not proved yet: `WalksAreExact`, for which the queries have to be written as
   functions of the number of their turns, and `CleanIsExact`, which has to except
   the names that collide.
