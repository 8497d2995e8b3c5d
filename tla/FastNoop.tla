------------------------------- MODULE FastNoop -------------------------------
(***************************************************************************)
(* Plain builds, one after the other, as `frost build` decides whether     *)
(* there is anything to do: the no-op certificate                          *)
(* (crates/frostbuild-exec/src/fast_noop.rs), the stamp of the compiled    *)
(* graph (crates/frostbuild-core/src/graph_store.rs), the fingerprint   *)
(* of the toolchain (crates/frostbuild-exec/src/lib.rs) and the preflight  *)
(* of the engine over the digest cache (HashCache), while users edit files *)
(* and the manifest, replace the tool, and processes die.                  *)
(*                                                                         *)
(* There is one action, from every source to every output; it may write    *)
(* anything.  A manifest is a version, the stamp of the tree the version   *)
(* it was taken from (directories and ignore files with it), the compiled  *)
(* graph the version it was compiled from.  The toolchain is one tool that *)
(* is always there; the variables an action passes on are fixed.           *)
(* Restoring outputs from the store counts as running.                     *)
(***************************************************************************)
EXTENDS HashCache

CONSTANTS
    Sources,        \* the paths users write; the others are outputs
    Manifests,      \* versions of the manifest
    Tools,          \* contents of the tool, all of one length
    MaxStarts, MaxEdits     \* bounds

ASSUME FilesAssumption == Sources \subseteq Paths
ASSUME NoneAssumption == None \notin Manifests \cup Tools \cup [fp : Manifests, stamp : Manifests]

Outputs == Paths \ Sources

VARIABLES
    manifest,
    tool,           \* the binary on the PATH: [bytes, mtime]
    graphStore,     \* .frost/graph-*.bin: [fp, stamp]
    toolStamp,      \* .frost/toolchain.bin: [stat, hash]
    journal,        \* the entry of the action: [key, files]
    certificate,    \* .frost/noop-*.bin
    pc,             \* where the process is
    env,            \* the fingerprint of the toolchain it works with
    toolStat,       \* the identity under which it hashes the tool
    graph,          \* the graph it works with
    todo,           \* the files whose identity it still has to look at
    evidence,       \* the identities it has captured
    fingerprint,    \* and the fingerprint of the graph
    \* Observers:
    manifests,      \* versions of the manifest since the process began
    tools,          \* and of the tool
    torn,           \* a manifest changed between its reading and its stamp
    outlived,       \* a certified identity came back with other bytes
    starts, edits

world == <<manifest, tool>>
saved == <<graphStore, toolStamp, journal, certificate>>
process == <<env, toolStat, graph, todo, evidence, fingerprint>>
observers == <<manifests, tools, torn, outlived>>
bounds == <<starts, edits>>
vars == <<cacheVars, world, saved, pc, process, observers, bounds>>

Init ==
    /\ CacheInit
    /\ \A p \in Paths : Exists(p) <=> p \in Sources
    /\ manifest \in Manifests
    /\ tool \in [bytes : Tools, mtime : {0}]
    /\ toolStamp = None /\ toolStat = None
    /\ graphStore = None /\ journal = None /\ certificate = None
    /\ pc = "idle"
    /\ env = None /\ graph = None /\ fingerprint = None
    /\ todo = {} /\ evidence = [p \in Paths |-> None]
    /\ manifests = {} /\ tools = {} /\ torn = FALSE /\ outlived = FALSE
    /\ starts = 0 /\ edits = 0

-----------------------------------------------------------------------------
(* The compiled graph                                                      *)

\* sources_stamp: digests of the manifests and ignore files, and of the names in
\* every directory that packages and globs are looked for in.
SourcesStamp == manifest
\* ensure_sources_current: the stamp is taken anew, from the tree there is now.
SourcesCurrent == graphStore.stamp = SourcesStamp
\* save_graph: a graph compiled from manifest m, stamped with the sources as they
\* are now, replaces the stored one at once.
SaveGraph(m) == graphStore' = [fp |-> m, stamp |-> SourcesStamp]

\* Mutant: the stamp is not compared with the sources.
Mut_AnyStamp == IF graphStore = None THEN None ELSE graphStore.fp
\* GraphStore::cached_fingerprint, and load_cached's graph
CachedFingerprint == IF graphStore # None /\ SourcesCurrent THEN graphStore.fp ELSE None

\* load_graph of the command line
LoadCached ==
    /\ pc = "load"
    /\ IF CachedFingerprint # None
       THEN graph' = CachedFingerprint /\ pc' = "tool"
       ELSE graph' = manifest /\ pc' = "compile"    \* Manifest::load
    /\ UNCHANGED <<cacheVars, world, saved, env, toolStat, todo, evidence, fingerprint, observers>>

\* GraphStore::load_or_compile: a stored graph of this manifest is used, and
\* stamped anew if its stamp is stale; otherwise the compiled one is stored.
LoadOrCompile ==
    /\ pc = "compile"
    /\ IF graphStore # None /\ graphStore.fp = graph /\ SourcesCurrent
       THEN UNCHANGED <<graphStore, torn>>
       ELSE SaveGraph(graph) /\ torn' = (torn \/ manifest # graph)
    /\ pc' = "tool"
    /\ UNCHANGED <<cacheVars, world, toolStamp, journal, certificate, process, manifests, tools,
                   outlived>>

-----------------------------------------------------------------------------
(* The toolchain: the certificate's while it is checked, the graph's after. *)

\* Mutant: the length alone, as where there is no inode to ask.
Mut_LengthOnly == 0
\* stat_identity: all versions have one length and keep their inode.
StatIdentity == tool.mtime

Fingerprinted(f) ==
    /\ env' = f
    /\ IF graph # None THEN pc' = "open" /\ UNCHANGED todo
       ELSE IF certificate.env = f THEN pc' = "identities" /\ todo' = Paths
       ELSE pc' = "load" /\ UNCHANGED todo

\* The stamp's fingerprint is used if the tool has the stamp's identity;
\* otherwise the tool is hashed, later.
StatTool ==
    /\ pc = "tool"
    /\ IF toolStamp # None /\ toolStamp.stat = StatIdentity
       THEN Fingerprinted(toolStamp.hash) /\ UNCHANGED toolStat
       ELSE toolStat' = StatIdentity /\ pc' = "hash tool" /\ UNCHANGED <<env, todo>>
    /\ UNCHANGED <<cacheVars, world, saved, graph, evidence, fingerprint, observers>>

HashTool ==
    /\ pc = "hash tool"
    /\ Fingerprinted(tool.bytes)
    /\ toolStamp' = [stat |-> toolStat, hash |-> tool.bytes]
    /\ toolStat' = None
    /\ UNCHANGED <<cacheVars, world, graphStore, journal, certificate, graph, evidence,
                   fingerprint, observers>>

-----------------------------------------------------------------------------
(* The certificate                                                         *)

FileIdentity(p) == IF Exists(p) THEN Stat(p) ELSE None

HeaderMatches ==
    /\ certificate # None
    /\ certificate.fp = CachedFingerprint

\* A process begins with the certificate of the last one that found nothing to
\* do.  What the files have been so far does not matter to it.
Start ==
    /\ pc = "idle"
    /\ pc' = IF HeaderMatches THEN "tool" ELSE "load"
    /\ past' = [p \in Paths |-> {Content(p)}]
    /\ manifests' = {manifest} /\ tools' = {tool.bytes}
    /\ UNCHANGED <<disks, hashcache, memory, op, lost, world, saved, process, torn, outlived>>

CheckIdentity(p) ==
    /\ pc = "identities" /\ p \in todo
    /\ IF FileIdentity(p) = certificate.files[p]
       THEN todo' = todo \ {p} /\ pc' = IF todo = {p} THEN "hit" ELSE pc
       ELSE todo' = {} /\ pc' = "load"
    /\ UNCHANGED <<cacheVars, world, saved, env, toolStat, graph, evidence, fingerprint, observers>>

\* fast_noop::save, of a closure that the preflight found cached: identities,
\* the graph's fingerprint, and once more the digests.
Capture(p) ==
    /\ pc = "capture" /\ p \in todo
    /\ evidence' = [evidence EXCEPT ![p] = FileIdentity(p)]
    /\ todo' = todo \ {p}
    /\ UNCHANGED <<cacheVars, world, saved, pc, env, toolStat, graph, fingerprint, observers>>

CaptureGraph ==
    /\ pc = "capture" /\ todo = {}
    /\ fingerprint' = CachedFingerprint
    /\ IF CachedFingerprint = None
       THEN pc' = "finish" /\ UNCHANGED op
       ELSE pc' = "verify" /\ BeginOp("match", Paths)
    /\ UNCHANGED <<disks, hashcache, memory, past, lost, world, saved, env, toolStat, graph,
                   todo, evidence, observers>>

Recorded == op.kind = "done" /\ \A p \in Paths : op.got[p] = journal.files[p]

\* Mutant: the digests are not checked again.
Mut_Unverified == op.kind = "done"
Verified == Recorded

\* The certificate carries no digests; `digests` is what it vouches for.
Certify ==
    /\ pc = "verify" /\ op.kind \in {"done", "failed"}
    /\ certificate' = IF Verified
          THEN [env |-> env, fp |-> fingerprint, files |-> evidence,
                digests |-> journal.files, graph |-> graph]
          ELSE certificate
    /\ outlived' = (outlived /\ ~Verified)
    /\ pc' = "finish" /\ op' = NoOp
    /\ UNCHANGED <<disks, hashcache, memory, past, lost, world, graphStore, toolStamp,
                   journal, process, manifests, tools, torn>>

-----------------------------------------------------------------------------
(* The engine                                                              *)

\* Engine::new loads the digest cache; all_cached asks only if every action has
\* an entry.
Open ==
    /\ pc = "open"
    /\ Load
    /\ IF journal # None
       THEN pc' = "preflight" /\ BeginOp("match", Paths)
       ELSE pc' = "inputs" /\ BeginOp("digest", Sources)
    /\ UNCHANGED <<disks, hashcache, past, lost, world, saved, process, observers>>

\* action_key, over the inputs' digests
Key(digests) == <<graph, env, [s \in Sources |-> digests[s]]>>

Preflight ==
    /\ pc = "preflight" /\ op.kind \in {"done", "failed"}
    /\ IF Recorded /\ Key(journal.files) = journal.key
       THEN pc' = "capture" /\ op' = NoOp /\ todo' = Paths
       ELSE pc' = "inputs" /\ BeginOp("digest", Sources) /\ UNCHANGED todo
    /\ UNCHANGED <<disks, hashcache, memory, past, lost, world, saved, env, toolStat, graph,
                   evidence, fingerprint, observers>>

\* The inputs are digested: is the recorded key theirs?
Keyed ==
    /\ pc = "inputs" /\ op.kind \in {"done", "failed"}
    /\ \/ op.kind = "failed" /\ pc' = "finish" /\ op' = NoOp /\ UNCHANGED evidence
       \/ /\ op.kind = "done"
          /\ evidence' = op.got
          /\ IF journal # None /\ journal.key = Key(op.got)
             THEN pc' = "outputs" /\ BeginOp("digest", Outputs)
             ELSE pc' = "execute" /\ op' = NoOp
    /\ UNCHANGED <<disks, hashcache, memory, past, lost, world, saved, env, toolStat, graph,
                   todo, fingerprint, observers>>

\* outputs_intact
Intact ==
    /\ pc = "outputs" /\ op.kind \in {"done", "failed"}
    /\ pc' = IF op.kind = "failed" \/ \A o \in Outputs : op.got[o] = journal.files[o]
             THEN "finish" ELSE "execute"
    /\ op' = NoOp
    /\ UNCHANGED <<disks, hashcache, memory, past, lost, world, saved, process, observers>>

\* The outputs are forgotten and removed, in whatever granule this is.
Execute ==
    /\ pc = "execute"
    /\ disk' = [p \in Paths |-> IF p \in Outputs /\ Exists(p)
                   THEN [bytes |-> Absent, exec |-> FALSE, mtime |-> clock] ELSE disk[p]]
    /\ past' = [p \in Paths |-> IF p \in Outputs THEN {MISSING} ELSE past[p]]
    /\ Forget(Outputs)
    /\ pc' = "command"
    /\ UNCHANGED <<clock, hashcache, snapshot, op, lost, world, saved, process, observers>>

\* It writes its outputs, as new files with the old inodes at worst.
Command(bytes) ==
    /\ pc = "command"
    /\ disk' = [p \in Paths |-> IF p \in Outputs
                   THEN [bytes |-> bytes[p], exec |-> FALSE, mtime |-> clock] ELSE disk[p]]
    /\ past' = [p \in Paths |-> past[p] \cup {HashFile(disk'[p])}]
    /\ outlived' = (outlived \/ (certificate # None /\ \E o \in Outputs :
                       /\ certificate.files[o] = StatTriple(disk'[o])
                       /\ certificate.digests[o] # HashFile(disk'[o])))
    /\ pc' = "record" /\ BeginOp("digest", Outputs)
    /\ UNCHANGED <<clock, hashcache, memory, lost, world, saved, process, manifests, tools,
                   torn>>

CommandFails ==
    /\ pc = "command"
    /\ pc' = "finish"
    /\ UNCHANGED <<cacheVars, world, saved, process, observers>>

Record ==
    /\ pc = "record" /\ op.kind \in {"done", "failed"}
    /\ journal' = IF op.kind = "done" /\ \A o \in Outputs : op.got[o] # MISSING
          THEN [key |-> Key(evidence),
                files |-> [p \in Paths |-> IF p \in Sources THEN evidence[p] ELSE op.got[p]]]
          ELSE journal
    /\ pc' = "finish" /\ op' = NoOp
    /\ UNCHANGED <<disks, hashcache, memory, past, lost, world, graphStore, toolStamp,
                   certificate, process, observers>>

-----------------------------------------------------------------------------
(* The end                                                                 *)

\* A rewrite is lost on the saved cache if only the digest tells it.
Unseen == {p \in Paths : ~Exact(hashcache, p)}

EndProcess ==
    /\ pc' = "idle"
    /\ snapshot' = [p \in Paths |-> None]
    /\ updates' = [p \in Paths |-> None]
    /\ settled' = [p \in Paths |-> None]
    /\ op' = NoOp
    /\ env' = None /\ toolStat' = None /\ graph' = None /\ fingerprint' = None
    /\ todo' = {} /\ evidence' = [p \in Paths |-> None]
    /\ past' = [p \in Paths |-> {}] /\ manifests' = {} /\ tools' = {}
    /\ UNCHANGED <<disks, world, saved, torn, outlived>>

Answer == pc = "hit" /\ EndProcess /\ UNCHANGED <<hashcache, lost>>

Finish == pc = "finish" /\ Save /\ EndProcess /\ UNCHANGED lost

\* The process dies, or the collection of the store fails before the save.
Die ==
    /\ pc # "idle"
    /\ EndProcess
    /\ lost' = lost \cup Unseen
    /\ UNCHANGED hashcache

EditManifest(v) ==
    /\ v # manifest
    /\ manifest' = v
    /\ manifests' = IF pc = "idle" THEN {} ELSE manifests \cup {v}
    /\ UNCHANGED <<cacheVars, tool, saved, pc, process, tools, torn, outlived>>

\* The tool is replaced, by one that is newer than it.  Once a process has its
\* fingerprint the tool is not looked at again, and commands may write anything:
\* a later replacement is the same as one before the next process.
ReplaceTool(b) ==
    /\ pc \in {"idle", "load", "compile", "tool", "hash tool"}
    /\ b # tool.bytes /\ clock > tool.mtime
    /\ tool' = [bytes |-> b, mtime |-> clock]
    /\ tools' = IF pc = "idle" THEN {} ELSE tools \cup {b}
    /\ UNCHANGED <<cacheVars, manifest, saved, pc, process, manifests, torn, outlived>>

World == UNCHANGED <<world, saved, pc, process, observers>>

Step ==
    \/ StatTool \/ HashTool \/ LoadCached \/ LoadOrCompile \/ Open
    \/ \E p \in Paths : CheckIdentity(p) \/ Capture(p)
    \/ OpStep /\ World
    \/ Preflight \/ CaptureGraph \/ Certify
    \/ Keyed \/ Intact \/ Execute \/ CommandFails \/ Record
    \/ \E bytes \in [Outputs -> Bytes] : Command(bytes)
    \/ Answer \/ Finish \/ Die

Edit ==
    \/ \E p \in Paths, b \in Bytes \cup {Absent} : UserWrites(p, b) /\ World
    \/ \E s \in Sources : Chmod(s) /\ World
    \/ \E v \in Manifests : EditManifest(v)
    \/ \E b \in Tools : ReplaceTool(b)

Next ==
    \/ Step /\ UNCHANGED bounds
    \/ Tick /\ World /\ UNCHANGED bounds
    \/ starts < MaxStarts /\ starts' = starts + 1 /\ UNCHANGED edits /\ Start
    \/ edits < MaxEdits /\ edits' = edits + 1 /\ UNCHANGED starts /\ Edit

Spec == Init /\ [][Next]_vars

-----------------------------------------------------------------------------

TypeOK ==
    /\ CacheTypeOK
    /\ manifest \in Manifests
    /\ graphStore \in [fp : Manifests, stamp : Manifests] \cup {None}
    /\ journal # None => journal.files \in [Paths -> Digests \cup {MISSING}]
    /\ certificate # None =>
          /\ certificate.files \in [Paths -> Stats \cup {None}]
          /\ certificate.fp \in Manifests
    /\ env \in Tools \cup {None} /\ tool.bytes \in Tools
    /\ toolStamp \in [stat : 0..clock, hash : Tools] \cup {None}
    /\ todo \subseteq Paths

\* What is saved is right for as long as the triple is the file's: whatever was
\* edited while it was hashed, and even for outputs that frost rewrites within
\* one granule of the clock ("a fast rewrite can land in the same mtime granule
\* with the same size").  The exceptions are rewrites that a build did not live
\* to save.
SavedEntriesAreExact ==
    pc = "idle" => \A p \in Paths \ lost : Exact(hashcache, p)

\* "A build is a single point in time": a digest a build has settled on is one
\* the file had during this build, and for outputs since frost removed them.
SettledIsRecent ==
    \A p \in Paths \ lost : settled[p] # None => settled[p] \in past[p]

\* The digest cache, on disk and in memory, never tells an old digest for new, but
\* for the paths in `lost`.
CacheIsTrue == SavedEntriesAreExact /\ SettledIsRecent

\* The preflight calls a closure cached only if every file had its recorded
\* digest at some moment of this build, but for the paths in `lost`.
CachedIsExact ==
    pc = "capture" => \A p \in Paths \ lost : journal.files[p] \in past[p]

\* A file was there for both checks, but not for the capture between them.
CapturedAway(p) == certificate.files[p] = None /\ certificate.digests[p] # MISSING

\* A certificate answers in place of a build only if every file, at some moment
\* of the answering, is what the certifying build had checked, and its toolchain
\* was there too: whatever was edited between that build's check, its capture and
\* its second look.  The exceptions are a rewrite by frost that fell into the
\* granule of a certified output (`outlived`), files that were captured away, and
\* those that a build which died had rewritten (`lost`).
HitIsSound ==
    pc = "hit" /\ ~outlived =>
        /\ certificate.env \in tools
        /\ \A p \in Paths \ lost :
              ~CapturedAway(p) => certificate.digests[p] \in past[p]

\* "The certificate never makes a changed build look current": no hit while a
\* file is other than it was checked (which those that were captured away are).
HitIsExact ==
    pc = "hit" /\ ~outlived =>
        \A p \in Paths \ lost : certificate.digests[p] \in past[p]

\* "Up to date" is true, whether the preflight says so or a certificate, with the
\* exceptions each of them names.
UpToDateIsTrue == CachedIsExact /\ HitIsSound

\* "A few stats on the warm path, and the binaries are re-hashed only when one of
\* them actually changed": the fingerprint a process works with, its own or a
\* stamp's, is of a tool that was there since it began, although the tool may be
\* replaced between the look at it and its hashing.
ToolsAreCurrent == env # None => env \in tools

\* The graph a build works with, or answers for, is of a manifest there was
\* since the build began, unless a manifest changed between its reading and the
\* taking of the stamp, once, ever since.
GraphIsCurrent ==
    ~torn =>
        /\ graph # None => graph \in manifests
        /\ pc = "hit" => certificate.graph \in manifests

\* What is taken over from a stamp is as it would be computed anew.
StampsAreCurrent == ToolsAreCurrent /\ GraphIsCurrent
=============================================================================
