--------------------------------- MODULE Cas ---------------------------------
(***************************************************************************)
(* The content-addressed store of a workspace (LocalCas): whole objects,   *)
(* chunks of the large ones, the manifests that list the chunks, and       *)
(* deltas from which a lost chunk can be rebuilt.  Several processes (or   *)
(* worker threads of one) put outputs, restore outputs and collect garbage *)
(* without a lock; any of them may be killed; files of the store may rot.  *)
(* One action is one look at, or change of, the file system.               *)
(*                                                                         *)
(* A file of the store is a name, a value is the file's content.  A blob   *)
(* is its own content; Garbage is what a damaged file holds.  A digest is  *)
(* modelled by the content it is the digest of, so "hash(file) = digest"   *)
(* is "content = name".                                                     *)
(***************************************************************************)
EXTENDS Integers, Sequences, FiniteSets

CONSTANTS
    Procs,
    Artifacts,      \* workspace paths of outputs
    Blobs,          \* the contents outputs can have, strings of bytes
    Threshold,      \* blobs longer than this are chunked too (CHUNKING_THRESHOLD)
    ChunksOf,       \* Blobs -> sequence of strings: FastCdc!Chunks
    Shrinks,        \* pairs <<base, target>> of chunks whose patch is small
    MaxFiles,       \* max_bytes of the collector, every file counting one
    Earlier,        \* sets of large blobs an earlier build may have stored, at most one each
    Absent, Garbage, None,  \* no file, the content of a damaged one, no value
    MaxOps, MaxEdits, MaxFaults     \* bounds: operations, changed outputs, crashes (or failed writes) and rot

Pieces(content) == IF content = Garbage THEN <<Garbage>> ELSE ChunksOf[content]
ChunkIds == {Garbage} \union UNION {{Pieces(b)[i] : i \in DOMAIN Pieces(b)} : b \in Blobs}
Large    == {b \in Blobs : Len(b) > Threshold}

\* ---- names of files
Object(b)         == <<"object", b>>
Chunk(c)          == <<"chunk", c>>
Manifest(b)       == <<"manifest", b>>
Delta(base, c)    == <<"delta", base, c>>
Staged(p)         == <<"staged", p>>        \* the temporary file of a put

Files == {Object(b) : b \in Blobs} \union {Chunk(c) : c \in ChunkIds}
         \union {Manifest(b) : b \in Large} \union {Delta(s[1], s[2]) : s \in Shrinks}
         \union {Staged(p) : p \in Procs}

\* An entry of a manifest: a chunk and the base of its delta, or None.
Ref == [chunk : ChunkIds, base : ChunkIds \union {None}]

ASSUME ContentsAssumption ==
    /\ IsFiniteSet(Blobs) /\ IsFiniteSet(Procs) /\ IsFiniteSet(Shrinks)
    /\ \A b \in Blobs : ChunksOf[b] \in Seq(ChunkIds)
    /\ Shrinks \subseteq (ChunkIds \ {Garbage}) \X (ChunkIds \ {Garbage})
    /\ Earlier \subseteq SUBSET Large
    /\ MaxFiles \in Nat

ASSUME ValuesAssumption ==
    /\ Garbage \notin Blobs /\ Absent # None
    /\ {Absent, None} \cap ({Garbage} \union Blobs \union ChunkIds) = {}
    /\ {Absent, Garbage} \cap Seq(Ref) = {}
    /\ None \notin Files
    /\ None \notin {"hit", "miss", "vanished", "stored", "error"}

VARIABLES
    store,      \* Files -> content: the directories under .frost/cas
    head,       \* Artifacts -> the blob last chunked for it (artifacts/)
    out,        \* Artifacts -> content of the output in the workspace
    job,        \* Procs -> what the process is doing
    vouched,    \* history: blobs a put of which has succeeded, no file lost since it began
    carried,    \* history: the same in a store that has lost nothing but objects, ever
    used        \* how often the environment and the processes have acted

vars == <<store, head, out, job, vouched, carried, used>>

Idle == [pc |-> "idle", blob |-> None, artifact |-> None, refs |-> << >>, todo |-> {},
         previous |-> << >>, failed |-> FALSE, drop |-> None, copy |-> None,
         count |-> 0, sure |-> FALSE, heals |-> FALSE, answer |-> None]

\* The store is empty, or one large output has been put into it.
Init ==
    \E earlier \in Earlier :
        LET kept == {Object(b) : b \in earlier} \union UNION {
                        {Chunk(Pieces(b)[i]) : i \in DOMAIN Pieces(b)} : b \in earlier} IN
        /\ store = [f \in Files |->
                CASE f \in kept -> f[2]
                  [] f \in {Manifest(b) : b \in earlier} ->
                        [i \in DOMAIN Pieces(f[2]) |-> [chunk |-> Pieces(f[2])[i], base |-> None]]
                  [] OTHER -> Absent]
        /\ head \in [Artifacts -> IF earlier = {} THEN {None} ELSE earlier]
        /\ out = [a \in Artifacts |-> None]
        /\ job = [p \in Procs |-> Idle]
        /\ vouched = {} /\ carried = {}
        /\ used = [ops |-> 0, damage |-> 0, edits |-> 0, crashes |-> 0, swept |-> FALSE]

Here(f)   == store[f] # Absent
Set(p, j) == job' = [job EXCEPT ![p] = j]
\* A file that was read and did not hash to its name is removed next.
At(p, pc) == job[p].pc = pc /\ job[p].drop = None
Step(p, pc)   == Set(p, [job[p] EXCEPT !.pc = pc])
\* What a process knows after a miss it may act on; other answers leave nothing.
Answer(p, a) == Set(p, IF a = "miss" THEN [Idle EXCEPT !.blob = job[p].blob, !.sure = job[p].sure,
                                                       !.heals = job[p].heals, !.answer = a]
                       ELSE [Idle EXCEPT !.answer = a])
Verified(content, digest) == content = digest

\* Temporary file and rename: the content appears whole, unless it is there.
Publish(f, content) == store' = [store EXCEPT ![f] = IF Here(f) THEN @ ELSE content]

\* A manifest that can be decoded and fits its name and the chunker's limits.
Valid(b) == store[Manifest(b)] \notin {Absent, Garbage}

\* What the chunks that a manifest lists make, put one after the other.
Spliced(refs, b) == IF [i \in DOMAIN refs |-> refs[i].chunk] = Pieces(b) THEN b ELSE Garbage
------------------------------------------------------------------------------
(* Beginning an operation, and what happens around the processes. *)

\* A command has written the output; execute() puts it under the digest it has
\* just computed of it, as a rule because a restore of it has missed.
BeginPut(p, a, b) ==
    /\ job[p].pc = "idle" /\ used.ops < MaxOps
    /\ out' = [out EXCEPT ![a] = b]
    /\ Set(p, [Idle EXCEPT !.pc = "put", !.blob = b, !.artifact = a, !.sure = TRUE,
                    !.heals = /\ job[p].heals /\ job[p].answer = "miss" /\ job[p].blob = b
                              /\ \A q \in Procs : job[q].drop = None])
    /\ used' = [used EXCEPT !.ops = @ + 1]
    /\ UNCHANGED <<store, head, vouched, carried>>

\* restore_outputs() asks for the digest the journal has.
BeginGet(p, a, b) ==
    /\ job[p].pc = "idle" /\ used.ops < MaxOps
    /\ Set(p, [Idle EXCEPT !.pc = "get", !.blob = b, !.artifact = a,
                    !.sure = b \in vouched \union carried, !.heals = TRUE])
    /\ used' = [used EXCEPT !.ops = @ + 1]
    /\ UNCHANGED <<store, head, out, vouched, carried>>

\* Whether a scan is due (`changed`, gc.stamp) is left open.
BeginGc(p) ==
    /\ job[p].pc = "idle" /\ used.ops < MaxOps /\ MaxFiles > 0
    /\ Set(p, [Idle EXCEPT !.pc = "list"])
    /\ used' = [used EXCEPT !.ops = @ + 1]
    /\ UNCHANGED <<store, head, out, vouched, carried>>

\* Somebody writes the output again before it has been copied.
Edit(a, b) ==
    /\ used.edits < MaxEdits /\ out[a] # b
    /\ \E p \in Procs : job[p].pc = "put" /\ job[p].artifact = a
    /\ out' = [out EXCEPT ![a] = b]
    /\ used' = [used EXCEPT !.edits = @ + 1]
    /\ UNCHANGED <<store, head, job, vouched, carried>>

\* History: the loss of a file, or of an object only.
Doubt       == [p \in Procs |-> [job[p] EXCEPT !.sure = FALSE, !.heals = FALSE]]
DoubtObject == [p \in Procs |-> [job[p] EXCEPT !.heals = FALSE,
                                    !.sure = job[p].sure /\ job[p].blob \in carried]]

\* A file rots, keeping its length. (A temporary file does not live long enough.)
Damage(f) ==
    /\ used.damage + used.crashes < MaxFaults /\ store[f] \notin {Absent, Garbage}
    /\ f \notin {Staged(p) : p \in Procs}
    /\ store' = [store EXCEPT ![f] = Garbage]
    /\ used' = [used EXCEPT !.damage = @ + 1]
    /\ IF f \in {Object(b) : b \in Large}
       THEN job' = DoubtObject /\ UNCHANGED carried
       ELSE job' = Doubt /\ carried' = {}
    /\ vouched' = {}
    /\ UNCHANGED <<head, out>>

\* A chunk, a delta, the manifest or the head cannot be written (no room, or the
\* collector took its temporary file): the put ends without the rest of them.
WriteFails(p) == (At(p, "chunk") \/ At(p, "head")) /\ Answer(p, "error")

\* A process stops.  One that is killed leaves a temporary file behind that the
\* collector counts, and an output that it had taken away missing.
Crash(p) ==
    /\ used.damage + used.crashes < MaxFaults /\ job[p].pc # "idle"
    /\ Set(p, Idle) \/ WriteFails(p)
    /\ used' = [used EXCEPT !.crashes = @ + 1]
    /\ UNCHANGED <<store, head, out, vouched, carried>>

\* The second half of every "did not verify": remove_file, errors ignored.
Drop(p) ==
    /\ job[p].drop # None
    /\ store' = [store EXCEPT ![job[p].drop] = Absent]
    /\ Set(p, [job[p] EXCEPT !.drop = None])
    /\ UNCHANGED <<head, out, vouched, carried, used>>
------------------------------------------------------------------------------
(* put() *)

\* Mutant: the copy is not hashed.
Mut_Unhashed(p) ==
    /\ At(p, "put")
    /\ LET b == job[p].blob IN
       IF Here(Object(b)) THEN Step(p, "stat") /\ UNCHANGED store
       ELSE Step(p, "publish") /\ store' = [store EXCEPT ![Staged(p)] = out[job[p].artifact]]
    /\ UNCHANGED <<head, out, vouched, carried, used>>

\* Staging: the copy is hashed, and an output that changed meanwhile is refused.
Stage(p) ==
    /\ At(p, "put")
    /\ LET b == job[p].blob   content == out[job[p].artifact] IN
       CASE Here(Object(b))        -> Step(p, "stat") /\ UNCHANGED store
         [] Verified(content, b) /\ ~Here(Object(b)) ->
                Step(p, "publish") /\ store' = [store EXCEPT ![Staged(p)] = content]
         [] OTHER                  -> Answer(p, "error") /\ UNCHANGED store
    /\ UNCHANGED <<head, out, vouched, carried, used>>

\* The rename fails when the collector took the temporary file; another
\* writer's object will do then.
RenameStaged(p, object) == Here(Staged(p)) \/ Here(object)

PublishObject(p) ==
    /\ At(p, "publish")
    /\ IF RenameStaged(p, Object(job[p].blob)) THEN Step(p, "stat") ELSE Answer(p, "error")
    /\ store' = IF Here(Staged(p))
                THEN [store EXCEPT ![Object(job[p].blob)] = store[Staged(p)], ![Staged(p)] = Absent]
                ELSE store
    /\ UNCHANGED <<head, out, vouched, carried, used>>

\* A put has succeeded.
Stored(p) ==
    /\ Answer(p, "stored")
    /\ vouched' = IF job[p].sure /\ used.damage = 0 THEN vouched \union {job[p].blob} ELSE vouched
    /\ carried' = IF used.damage = 0 /\ ~used.swept THEN carried \union {job[p].blob} ELSE carried

\* The manifest the artifact's head names, when it is there and readable.
PreviousManifest(a) ==
    IF head[a] # None /\ Valid(head[a]) THEN store[Manifest(head[a])] ELSE << >>

\* put_chunks: the object is opened, cut, and each piece is yet to be prepared.
Opened(p) ==
    LET pieces == Pieces(store[Object(job[p].blob)]) IN
    [job[p] EXCEPT !.pc = "chunk", !.todo = DOMAIN pieces,
                   !.refs = [i \in DOMAIN pieces |-> [chunk |-> pieces[i], base |-> Absent]],
                   !.previous = PreviousManifest(job[p].artifact)]

\* Small objects are done, and those that have a manifest; others are opened.
StatObject(p) ==
    /\ At(p, "stat")
    /\ LET b == job[p].blob   object == Object(b) IN
       CASE ~Here(object) -> Answer(p, "error") /\ UNCHANGED <<vouched, carried>>
         [] Here(object) /\ (b \notin Large \/ Here(Manifest(b))) -> Stored(p)
         [] OTHER -> Set(p, Opened(p)) /\ UNCHANGED <<vouched, carried>>
    /\ UNCHANGED <<store, head, out, used>>

\* Where piece i of a sequence of chunks lies.
Offset(chunks, i) ==
    LET sum[n \in 0 .. i - 1] == IF n = 0 THEN 0 ELSE sum[n - 1] + Len(chunks[n]) IN sum[i - 1]
Overlap(old, j, new, i) ==
    LET from == Offset(old, j)   till == from + Len(old[j])
        low  == Offset(new, i)   high == low + Len(new[i])
        start == IF from > low THEN from ELSE low
        end   == IF till < high THEN till ELSE high
    IN IF end > start THEN end - start ELSE 0

\* The chunk of the previous manifest that covers most of the new one's
\* place; of equals the last.
PositionalBase(previous, new, i) ==
    LET old == [j \in DOMAIN previous |-> previous[j].chunk]
        covering == {j \in DOMAIN old : Overlap(old, j, new, i) > 0}
        best == {j \in covering : \A k \in covering :
                    \/ Overlap(old, k, new, i) < Overlap(old, j, new, i)
                    \/ Overlap(old, k, new, i) = Overlap(old, j, new, i) /\ k <= j}
    IN IF Garbage \in {old[j] : j \in DOMAIN old} \union {new[j] : j \in DOMAIN new} \/ best = {}
       THEN None ELSE old[CHOOSE j \in best : TRUE]

\* The delta of a chunk against what lay in its place before, if that is there
\* and intact and the patch pays. A base that has rotted is removed.
DeltaBase(p, i) ==
    LET new  == [j \in DOMAIN job[p].refs |-> job[p].refs[j].chunk]
        base == PositionalBase(job[p].previous, new, i)
        read == base # None /\ Here(Chunk(base))
        intact == read /\ Verified(store[Chunk(base)], base)
    IN [base |-> IF intact /\ <<base, new[i]>> \in Shrinks THEN base ELSE None,
        drop |-> IF read /\ ~intact THEN Chunk(base) ELSE None]

\* A chunk that is stored already needs no delta.
Prepare(p, i) ==
    /\ At(p, "chunk") /\ i \in job[p].todo /\ job[p].refs[i].base = Absent
    /\ LET c     == job[p].refs[i].chunk
           delta == IF Here(Chunk(c)) THEN [base |-> None, drop |-> None] ELSE DeltaBase(p, i)
       IN /\ IF delta.base # None THEN Publish(Delta(delta.base, c), c) ELSE UNCHANGED store
          /\ Set(p, [job[p] EXCEPT !.refs[i].base = delta.base, !.drop = delta.drop])
    /\ UNCHANGED <<head, out, vouched, carried, used>>

PublishChunk(p, i) ==
    /\ At(p, "chunk") /\ i \in job[p].todo /\ job[p].refs[i].base # Absent
    /\ LET c == job[p].refs[i].chunk IN Publish(Chunk(c), c)
    /\ Set(p, [job[p] EXCEPT !.todo = @ \ {i}])
    /\ UNCHANGED <<head, out, vouched, carried, used>>

\* Mutant: the manifest does not wait for the chunks.
Mut_ManifestEarly(p) ==
    /\ At(p, "chunk")
    /\ Publish(Manifest(job[p].blob), job[p].refs)
    /\ Step(p, "head")
    /\ UNCHANGED <<head, out, vouched, carried, used>>

\* After all the chunks the manifest, and after it the head of the artifact.
PublishManifest(p) ==
    /\ At(p, "chunk") /\ job[p].todo = {}
    /\ Publish(Manifest(job[p].blob), job[p].refs)
    /\ Step(p, "head")
    /\ UNCHANGED <<head, out, vouched, carried, used>>

PublishHead(p) ==
    /\ At(p, "head")
    /\ head' = [head EXCEPT ![job[p].artifact] = job[p].blob]
    /\ Stored(p)
    /\ UNCHANGED <<store, out, used>>
------------------------------------------------------------------------------
(* materialize() *)

\* A copy that was verified is to replace the output, which is removed first.
Materialize(p, content) ==
    /\ out' = [out EXCEPT ![job[p].artifact] = None]
    /\ Set(p, [job[p] EXCEPT !.pc = "place", !.copy = content])

\* The copy is renamed.  If that fails the output is gone, and the copy of an
\* object stays behind.
Place(p) ==
    /\ At(p, "place")
    /\ \/ /\ out' = [out EXCEPT ![job[p].artifact] = job[p].copy]
          /\ Answer(p, "hit")
       \/ Answer(p, "error") /\ UNCHANGED out
    /\ UNCHANGED <<store, head, vouched, carried, used>>

Look(p) ==
    /\ At(p, "get")
    /\ Step(p, IF Here(Object(job[p].blob)) THEN "copy" ELSE "manifest")
    /\ UNCHANGED <<store, head, out, vouched, carried, used>>

\* Mutants: a damaged object ends the restore; a damaged object stays.
Mut_NoFallback(p) ==
    /\ At(p, "copy")
    /\ LET b == job[p].blob   content == store[Object(b)] IN
       IF Verified(content, b) THEN Materialize(p, content) ELSE Answer(p, "miss") /\ UNCHANGED out
    /\ UNCHANGED <<store, head, vouched, carried, used>>
Mut_DamagedStays(p) ==
    /\ At(p, "copy")
    /\ LET b == job[p].blob   content == store[Object(b)] IN
       IF Verified(content, b) THEN Materialize(p, content) ELSE Step(p, "manifest") /\ UNCHANGED out
    /\ UNCHANGED <<store, head, vouched, carried, used>>

\* An object that went away after the look is an error, not a miss.
CopyObject(p) ==
    /\ At(p, "copy")
    /\ LET b == job[p].blob   content == store[Object(b)] IN
       CASE content = Absent -> Answer(p, "vanished") /\ UNCHANGED out
         [] content # Absent /\ Verified(content, b) -> Materialize(p, content)
         [] OTHER -> /\ Set(p, [job[p] EXCEPT !.pc = "manifest", !.drop = Object(b)])
                     /\ UNCHANGED out
    /\ UNCHANGED <<store, head, vouched, carried, used>>

ReadManifest(p) ==
    /\ At(p, "manifest")
    /\ LET b == job[p].blob IN
       CASE b \notin Large -> Answer(p, "miss")
         [] b \in Large /\ ~Here(Manifest(b)) -> Answer(p, "miss")
         [] b \in Large /\ Here(Manifest(b)) /\ ~Valid(b) ->
                Set(p, [job[p] EXCEPT !.pc = "splice", !.failed = TRUE, !.drop = Manifest(b)])
         [] OTHER -> Set(p, [job[p] EXCEPT !.pc = "splice", !.refs = store[Manifest(b)],
                                           !.todo = DOMAIN store[Manifest(b)]])
    /\ UNCHANGED <<store, head, out, vouched, carried, used>>

\* Mutant: chunk and base of the delta change places.
Mut_RottenSwapped(ref) == IF ref.base = None THEN None ELSE Delta(ref.chunk, ref.base)

\* Whether a delta rebuilds the chunk, and which rotten file stops it.
Rotten(ref) ==
    LET base == ref.base IN
    IF base = None \/ ~Here(Chunk(base)) THEN None
    ELSE IF ~Verified(store[Chunk(base)], base) THEN Chunk(base)
    ELSE IF store[Delta(base, ref.chunk)] = Garbage THEN Delta(base, ref.chunk) ELSE None
Rebuilds(ref) ==
    /\ ref.base # None
    /\ Verified(store[Chunk(ref.base)], ref.base)
    /\ Verified(store[Delta(ref.base, ref.chunk)], ref.chunk)

\* One chunk is read and verified, or rebuilt and published again.
FetchChunk(p, i) ==
    /\ At(p, "splice") /\ i \in job[p].todo
    /\ LET ref == job[p].refs[i]   f == Chunk(ref.chunk)
           lost == ~Here(f)
           ok   == IF lost THEN Rebuilds(ref) ELSE Verified(store[f], ref.chunk)
       IN /\ IF lost /\ ok THEN Publish(f, ref.chunk) ELSE UNCHANGED store
          /\ Set(p, [job[p] EXCEPT !.todo = @ \ {i}, !.failed = @ \/ ~ok,
                        !.drop = IF ok THEN None ELSE IF lost THEN Rotten(ref) ELSE f])
    /\ UNCHANGED <<head, out, vouched, carried, used>>

\* Mutant: verified chunks are taken for a verified whole.
Mut_SpliceUnverified(p) ==
    /\ At(p, "splice") /\ job[p].todo = {}
    /\ IF job[p].failed THEN Answer(p, "miss") /\ UNCHANGED out
       ELSE Materialize(p, Spliced(job[p].refs, job[p].blob))
    /\ UNCHANGED <<store, head, vouched, carried, used>>

\* All chunks are in place: the whole is verified once more.
Splice(p) ==
    /\ At(p, "splice") /\ job[p].todo = {}
    /\ LET content == Spliced(job[p].refs, job[p].blob) IN
       IF ~job[p].failed /\ Verified(content, job[p].blob)
       THEN Materialize(p, content) ELSE Answer(p, "miss") /\ UNCHANGED out
    /\ UNCHANGED <<store, head, vouched, carried, used>>
------------------------------------------------------------------------------
(* gc() *)

\* The names first, then the length of each: one that is gone by then ends the
\* scan with an error.
List(p) ==
    /\ At(p, "list")
    /\ Set(p, [job[p] EXCEPT !.pc = "measure", !.todo = {f \in Files : Here(f)}])
    /\ UNCHANGED <<store, head, out, vouched, carried, used>>

Measure(p) ==
    /\ At(p, "measure")
    /\ IF \A f \in job[p].todo : Here(f)
       THEN Set(p, [job[p] EXCEPT !.pc = "sweep", !.count = Cardinality(job[p].todo)])
       ELSE Answer(p, "error")
    /\ UNCHANGED <<store, head, out, vouched, carried, used>>

\* The code goes by age; any order is allowed here.
Sweep(p, f) ==
    /\ At(p, "sweep") /\ f \in job[p].todo /\ job[p].count > MaxFiles
    /\ store' = [store EXCEPT ![f] = Absent]
    /\ IF Here(f) THEN vouched' = {} /\ carried' = {} /\ used' = [used EXCEPT !.swept = TRUE]
       ELSE UNCHANGED <<vouched, carried, used>>
    /\ job' = [(IF Here(f) THEN Doubt ELSE job) EXCEPT
                    ![p].todo = @ \ {f}, ![p].count = IF Here(f) THEN @ - 1 ELSE @]
    /\ UNCHANGED <<head, out>>

Swept(p) ==
    /\ At(p, "sweep") /\ (job[p].count <= MaxFiles \/ job[p].todo = {})
    /\ Answer(p, "swept")
    /\ UNCHANGED <<store, head, out, vouched, carried, used>>
------------------------------------------------------------------------------
(* stats() *)

Readable == {b \in Large : Valid(b)}
Listed   == UNION {{<<b, i>> : i \in DOMAIN store[Manifest(b)]} : b \in Readable}

\* Mutant: a chunk counts as new in every manifest.
Mut_Referenced == {<<at[1], store[Manifest(at[1])][at[2]].chunk>> : at \in Listed}
\* The chunks the manifests list, a chunk once.
Referenced == {store[Manifest(at[1])][at[2]].chunk : at \in Listed}

ChunkCount == Cardinality({c \in ChunkIds : Here(Chunk(c))})

Stats == [logical |-> Cardinality(Listed),
          reused  |-> Cardinality(Listed) - Cardinality(Referenced),
          chunks  |-> ChunkCount]
------------------------------------------------------------------------------
Operation(p) ==
    \/ Drop(p)
    \/ Stage(p) \/ PublishObject(p) \/ StatObject(p)
    \/ \E i \in job[p].todo : Prepare(p, i) \/ PublishChunk(p, i) \/ FetchChunk(p, i)
    \/ PublishManifest(p) \/ PublishHead(p)
    \/ Look(p) \/ CopyObject(p) \/ ReadManifest(p) \/ Splice(p) \/ Place(p)
    \/ List(p) \/ Measure(p) \/ Swept(p)
    \/ \E f \in job[p].todo : Sweep(p, f)

Begin(p) ==
    \/ \E a \in Artifacts, b \in Blobs : BeginPut(p, a, b) \/ BeginGet(p, a, b)
    \/ BeginGc(p)

Environment ==
    \/ \E a \in Artifacts, b \in Blobs : Edit(a, b)
    \/ \E f \in Files : Damage(f)
    \/ \E p \in Procs : Crash(p)

Next == Environment \/ \E p \in Procs : Begin(p) \/ Operation(p)

Spec == Init /\ [][Next]_vars
------------------------------------------------------------------------------
TypeOK ==
    /\ DOMAIN store = Files
    /\ \A b \in Blobs : {store[Object(b)]} \union {store[Staged(p)] : p \in Procs}
                            \subseteq {Absent, Garbage} \union Blobs
    /\ \A b \in Large : store[Manifest(b)] \notin {Absent, Garbage} => store[Manifest(b)] \in Seq(Ref)
    /\ head \in [Artifacts -> Large \union {None}]
    /\ out \in [Artifacts -> Blobs \union {None}]
    /\ \A p \in Procs : job[p].drop \in Files \union {None} /\ job[p].count \in 0 .. Cardinality(Files)
    /\ vouched \subseteq Blobs /\ carried \subseteq Blobs

(***************************************************************************)
(* While nothing rots, every file of the store is what its name says,      *)
(* however puts of changing outputs, readers, collectors and crashes       *)
(* interleave: objects and chunks hash to their names, and a manifest      *)
(* lists exactly the chunks of its blob (put, put_chunks, cas.rs:169-360). *)
(***************************************************************************)
NamesAreTrue ==
    used.damage = 0 =>
        /\ \A b \in Blobs : store[Object(b)] \in {Absent, b}
        /\ \A c \in ChunkIds : store[Chunk(c)] \in {Absent, c}
        /\ \A b \in Large : Here(Manifest(b)) => Spliced(store[Manifest(b)], b) = b

(***************************************************************************)
(* A restore that answers "yes" has put exactly the asked content into the *)
(* workspace, whatever rots, is collected or is replaced under it          *)
(* (materialize, cas.rs:217).  It takes the old output away only when it   *)
(* has the asked content in hand; one that answers anything else has left  *)
(* the output alone, unless the last rename failed: then it is gone.       *)
(***************************************************************************)
HitsAreExact ==
    [][\A p \in Procs : job[p].pc \in {"get", "copy", "manifest", "splice", "place"} =>
        /\ job'[p].answer = "hit" => out'[job[p].artifact] = job[p].blob
        /\ job'[p].answer \in {"miss", "vanished", "error"} => out' = out
        /\ job'[p].pc = "place" => job'[p].copy = job'[p].blob]_vars

(***************************************************************************)
(* Once a put of a large blob has succeeded in an undamaged store, its     *)
(* chunks alone carry it: as long as nothing is collected and only the     *)
(* objects rot, the manifest and all its chunks stay.  It needs the order  *)
(* of put_chunks (chunks, then manifest, then head): a crash in between    *)
(* may leave chunks without a manifest, never the other way round.         *)
(***************************************************************************)
ChunksCarry ==
    \A b \in carried \cap Large :
        /\ Here(Manifest(b)) /\ Spliced(store[Manifest(b)], b) = b
        /\ \A i \in DOMAIN Pieces(b) : store[Chunk(Pieces(b)[i])] = Pieces(b)[i]

(***************************************************************************)
(* What a put has promised a restore keeps: a restore that began after a   *)
(* successful put does not miss, unless in the meantime the collector took *)
(* a file or something else than the object of a chunked blob has rotted.  *)
(***************************************************************************)
VouchedIsServed ==
    \A p \in Procs : job[p].sure => job[p].answer # "miss"

(***************************************************************************)
(* The repair: a restore that met a damaged object removes it, so when the *)
(* action runs again and stores the same output, what is stored is intact  *)
(* (put itself trusts any object that is there, cas.rs:173).               *)
(***************************************************************************)
RebuildingHeals ==
    [][\A p \in Procs : job'[p].answer = "stored" /\ job[p].heals /\ job[p].pc # "idle" =>
        store'[Object(job[p].blob)] = job[p].blob]_vars

(***************************************************************************)
(* "Persistent deduplication evidence" (stats, cas.rs:634-637): in a store *)
(* at rest that has lost nothing, what is reported as not reused is what   *)
(* lies in the chunk directory, no more and no less, although the report   *)
(* is computed from the manifests only.                                    *)
(***************************************************************************)
ReuseIsReal ==
    (\A p \in Procs : job[p].pc = "idle") /\ used.damage + used.crashes = 0 /\ ~used.swept =>
        Stats.logical - Stats.reused = Stats.chunks

\* An undamaged store is what its names and its own report say.
StoreIsTrue == NamesAreTrue /\ ReuseIsReal

\* What a put has acknowledged stays restorable, by the object or its chunks.
PutsAreKept == VouchedIsServed /\ ChunksCarry

\* A restore hands out what was asked for or nothing, and mends what it cannot.
RestoresAreSound == HitsAreExact /\ RebuildingHeals
==============================================================================
