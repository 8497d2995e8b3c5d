------------------------------ MODULE CasProofs ------------------------------
(***************************************************************************)
(* Proofs about Cas, for any processes, outputs, blobs and cutting of      *)
(* blobs into chunks, any size of the store and any bounds.                *)
(*                                                                         *)
(* The invariant says of the store that undamaged files are true, that     *)
(* manifests come after their chunks and that a chunk without a manifest   *)
(* belongs to a put under way or to one that was killed; of the promises   *)
(* that the files they rest on are there and nobody is about to remove     *)
(* one; of each process what it may rely on.  Most steps are quiet: one    *)
(* process adds a file that is what its name says, or nothing, and then    *)
(* it suffices to look at that process (QuietKeeps).  The others lose      *)
(* something (Drop, Sweep, Damage) or a process (Crash); they give up the  *)
(* promises their loss touches.                                            *)
(*                                                                         *)
(* The last part is about FastCdc, for any lengths, masks and gear.  The   *)
(* hash that is rolled by pairs of bytes is the doubled byte-wise hash at  *)
(* even offsets and the byte-wise hash at odd ones (PairsAreBytes); as no  *)
(* mask has the highest bit, testing the doubled hash under the doubled    *)
(* mask is testing the hash under the mask (DoubledClear).  The functions  *)
(* that call themselves are defined because each call is of a lower level, *)
(* of which there are finitely many (RecursionIsDefined).                  *)
(***************************************************************************)
EXTENDS ChunkedCas, FiniteSetTheorems, SequenceTheorems, WellFoundedInduction, TLAPS

------------------------------------------------------------------------------
(* The shape of the state. *)

Putting == {"put", "publish", "stat", "chunk", "head"}
Getting == {"get", "copy", "manifest", "splice", "place"}
Sweeping == {"list", "measure", "sweep"}

\* A delta is made for the pairs of chunks that shrink.
IsPatch(ref) == ref.base \in ChunkIds => <<ref.base, ref.chunk>> \in Shrinks

\* An entry of a manifest to be: Absent is a base that is not yet decided.
Draft == [chunk : ChunkIds, base : ChunkIds \union {None, Absent}]

\* What a process under way remembers.
Job == [pc       : {"idle"} \union Putting \union Getting \union Sweeping,
        blob     : Blobs \union {None},
        artifact : Artifacts \union {None},
        refs     : Seq(Draft),
        todo     : SUBSET (Nat \union Files),
        previous : Seq(Ref),
        failed   : BOOLEAN,
        drop     : Files \union {None},
        copy     : Blobs \union {None},
        count    : 0 .. Cardinality(Files),
        sure     : BOOLEAN,
        heals    : BOOLEAN,
        answer   : {None, "miss", "vanished", "hit", "error", "stored", "swept"}]

\* What of it goes with its place in the operation.
JobShape(j) ==
    /\ j \in Job
    /\ j.pc = "idle" => j.drop = None
    /\ j.pc # "idle" => j.answer = None
    /\ j.answer = "miss" => j.blob \in Blobs
    /\ j.pc \in Putting \union Getting => j.blob \in Blobs /\ j.artifact \in Artifacts
    /\ j.pc \in {"chunk", "head", "splice"} => j.blob \in Large
    /\ j.pc \in {"get", "copy", "manifest"} => j.refs = << >> /\ j.todo = {} /\ ~j.failed
    /\ j.pc \in {"chunk", "splice"} => j.todo \subseteq DOMAIN j.refs
    /\ j.pc = "splice" => j.refs \in Seq(Ref)
    /\ j.pc = "place" => j.copy = j.blob
    /\ \A i \in DOMAIN j.refs :
            /\ IsPatch(j.refs[i])
            /\ j.pc = "chunk" /\ i \notin j.todo => j.refs[i].base # Absent
    /\ j.pc \in {"measure", "sweep"} => j.todo \subseteq Files

Used == [ops : Nat, damage : Nat, edits : Nat, crashes : Nat, swept : BOOLEAN]

\* What the files hold, damaged or not.
StoreShape ==
    /\ DOMAIN store = Files
    /\ \A b \in Blobs : store[Object(b)] \in {Absent, Garbage} \union Blobs
    /\ \A p \in Procs : store[Staged(p)] \in {Absent, Garbage} \union Blobs
    /\ \A b \in Large : Valid(b) =>
            /\ store[Manifest(b)] \in Seq(Ref)
            /\ \A i \in DOMAIN store[Manifest(b)] : IsPatch(store[Manifest(b)][i])

Shape ==
    /\ StoreShape
    /\ head \in [Artifacts -> Large \union {None}]
    /\ out \in [Artifacts -> Blobs \union {None}]
    /\ job \in [Procs -> Job]
    /\ \A p \in Procs : JobShape(job[p])
    /\ vouched \subseteq Blobs /\ carried \subseteq Blobs
    /\ used \in Used

------------------------------------------------------------------------------
(* Names, sequences and finite sets. *)

\* A file has one name.
LEMMA NamesDiffer ==
    /\ \A b, c : Object(b) = Object(c) => b = c
    /\ \A b, c : Chunk(b) = Chunk(c) => b = c
    /\ \A b, c : Manifest(b) = Manifest(c) => b = c
    /\ \A b, c : Staged(b) = Staged(c) => b = c
    /\ \A b, c, d, e : Delta(b, c) = Delta(d, e) => b = d /\ c = e
    /\ \A b, c : /\ Object(b) # Chunk(c) /\ Object(b) # Manifest(c) /\ Object(b) # Staged(c)
                 /\ Chunk(b) # Manifest(c) /\ Chunk(b) # Staged(c) /\ Manifest(b) # Staged(c)
    /\ \A b, c, d : /\ Delta(b, c) # Object(d) /\ Delta(b, c) # Chunk(d)
                    /\ Delta(b, c) # Manifest(d) /\ Delta(b, c) # Staged(d)
BY DEF Object, Chunk, Manifest, Staged, Delta

\* What a file's name looks like.
LEMMA FileKinds ==
    /\ \A b \in Blobs : Object(b) \in Files
    /\ \A c \in ChunkIds : Chunk(c) \in Files
    /\ \A b \in Large : b \in Blobs /\ Manifest(b) \in Files
    /\ \A p \in Procs : Staged(p) \in Files
    /\ \A s \in Shrinks : Delta(s[1], s[2]) \in Files
BY DEF Files, Large

\* A function on 1 .. n is a sequence.
LEMMA FunctionIsSequence ==
    ASSUME NEW S, NEW n \in Nat, NEW f, f = [i \in 1 .. n |-> f[i]], \A i \in 1 .. n : f[i] \in S
    PROVE  f \in Seq(S) /\ Len(f) = n /\ DOMAIN f = 1 .. n
OBVIOUS

\* An element of a sequence.
LEMMA Element ==
    ASSUME NEW S, NEW s \in Seq(S), NEW i \in DOMAIN s
    PROVE  s[i] \in S
OBVIOUS

\* Entries of manifests name chunks; an entry that is decided is a draft too.
LEMMA EntriesAreChunks ==
    /\ \A refs \in Seq(Draft) : \A i \in DOMAIN refs : refs[i] \in Draft /\ refs[i].chunk \in ChunkIds
    /\ \A refs \in Seq(Ref) : \A i \in DOMAIN refs : refs[i] \in Ref /\ refs[i].chunk \in ChunkIds
    /\ \A refs \in Seq(Ref) : refs \in Seq(Draft)
    /\ \A refs \in Seq(Draft) : (\A i \in DOMAIN refs : refs[i].base # Absent) => refs \in Seq(Ref)
<1>1. \A ref \in Draft : ref.chunk \in ChunkIds /\ (ref.base # Absent => ref \in Ref)
  BY DEF Draft, Ref
<1>2. \A ref \in Ref : ref.chunk \in ChunkIds /\ ref \in Draft
  BY DEF Draft, Ref
<1>3. ASSUME NEW refs \in Seq(Ref)
      PROVE  refs \in Seq(Draft)
  BY <1>2
<1>4. ASSUME NEW refs \in Seq(Draft), \A i \in DOMAIN refs : refs[i].base # Absent
      PROVE  refs \in Seq(Ref)
  BY <1>1, <1>4
<1> QED BY <1>1, <1>2, <1>3, <1>4, Element

\* The cutting of a blob is a sequence of chunks, and so is that of a damaged one.
LEMMA PiecesAreChunks ==
    ASSUME NEW b \in Blobs \union {Garbage}
    PROVE  Pieces(b) \in Seq(ChunkIds)
<1>1. CASE b = Garbage
  <2>1. Garbage \in ChunkIds
    BY DEF ChunkIds
  <2>2. <<Garbage>> \in Seq(ChunkIds)
    BY <2>1
  <2> QED BY <1>1, <2>2 DEF Pieces
<1>2. CASE b # Garbage
  BY <1>2, ContentsAssumption DEF Pieces
<1> QED BY <1>1, <1>2

\* What it takes for a list of chunks to make a blob.
LEMMA SplicedIs ==
    ASSUME NEW b \in Blobs, NEW refs \in Seq(Draft)
    PROVE  (Spliced(refs, b) = b) <=> /\ DOMAIN refs = DOMAIN Pieces(b)
                                      /\ \A i \in DOMAIN refs : refs[i].chunk = Pieces(b)[i]
<1> DEFINE chunks == [i \in DOMAIN refs |-> refs[i].chunk]
<1>1. Pieces(b) \in Seq(ChunkIds)
  BY PiecesAreChunks
<1>2. Pieces(b) = [i \in DOMAIN Pieces(b) |-> Pieces(b)[i]]
  BY <1>1
<1>3. (chunks = Pieces(b)) <=> /\ DOMAIN refs = DOMAIN Pieces(b)
                               /\ \A i \in DOMAIN refs : refs[i].chunk = Pieces(b)[i]
  BY <1>2
<1>4. b # Garbage
  BY ValuesAssumption
<1> QED BY <1>3, <1>4 DEF Spliced

\* The values of a function on a finite set are finitely many.
LEMMA FiniteRange ==
    ASSUME NEW S, NEW f, f = [x \in S |-> f[x]], IsFiniteSet(S)
    PROVE  IsFiniteSet({f[x] : x \in S})
<1> DEFINE T == {f[x] : x \in S}
<1>1. f \in Surjection(S, T)
  BY DEF Surjection
<1> HIDE DEF T
<1>2. IsFiniteSet(T)
  BY <1>1, FS_Surjection
<1> QED BY <1>2 DEF T

\* There are finitely many chunks.
LEMMA ChunksAreFinite == IsFiniteSet(ChunkIds)
<1> DEFINE Cut(b) == {Pieces(b)[i] : i \in DOMAIN Pieces(b)}
           f == [b \in Blobs |-> Cut(b)]
           g == [x \in {f[b] : b \in Blobs} |-> x]
<1>1. ASSUME NEW b \in Blobs
      PROVE  IsFiniteSet(Cut(b))
  <2>1. Pieces(b) \in Seq(ChunkIds)
    BY PiecesAreChunks
  <2>2. IsFiniteSet(1 .. Len(Pieces(b))) /\ DOMAIN Pieces(b) = 1 .. Len(Pieces(b))
    BY <2>1, FS_Interval
  <2>3. Pieces(b) = [i \in DOMAIN Pieces(b) |-> Pieces(b)[i]]
    BY <2>1
  <2> QED BY <2>2, <2>3, FiniteRange
<1>2. IsFiniteSet({f[b] : b \in Blobs})
  <2> HIDE DEF Cut
  <2>1. f = [b \in Blobs |-> f[b]]
    OBVIOUS
  <2> HIDE DEF f
  <2> QED BY <2>1, ContentsAssumption, FiniteRange
<1>3. \A T \in {f[b] : b \in Blobs} : IsFiniteSet(T)
  BY <1>1
<1>4. IsFiniteSet(UNION {f[b] : b \in Blobs})
  <2> HIDE DEF f
  <2> QED BY <1>2, <1>3, FS_UNION
<1>5. UNION {f[b] : b \in Blobs} = UNION {Cut(b) : b \in Blobs}
  OBVIOUS
<1>6. IsFiniteSet({Garbage} \union UNION {Cut(b) : b \in Blobs})
  <2> HIDE DEF Cut, f
  <2> QED BY <1>4, <1>5, FS_Singleton, FS_Union
<1> QED BY <1>6 DEF ChunkIds

\* There are finitely many files.
LEMMA FilesAreFinite == IsFiniteSet(Files) /\ Cardinality(Files) \in Nat
<1>1. IsFiniteSet({Object(b) : b \in Blobs})
  <2> DEFINE f == [b \in Blobs |-> Object(b)]
  <2>1. IsFiniteSet({f[b] : b \in Blobs})
    <3>1. f = [b \in Blobs |-> f[b]]
      OBVIOUS
    <3> HIDE DEF f
    <3> QED BY <3>1, ContentsAssumption, FiniteRange
  <2> QED BY <2>1
<1>2. IsFiniteSet({Chunk(c) : c \in ChunkIds})
  <2> DEFINE f == [c \in ChunkIds |-> Chunk(c)]
  <2>1. IsFiniteSet({f[c] : c \in ChunkIds})
    <3>1. f = [c \in ChunkIds |-> f[c]]
      OBVIOUS
    <3> HIDE DEF f
    <3> QED BY <3>1, ChunksAreFinite, FiniteRange
  <2> QED BY <2>1
<1>3. IsFiniteSet({Manifest(b) : b \in Large})
  <2> DEFINE f == [b \in Large |-> Manifest(b)]
  <2>1. IsFiniteSet(Large)
    BY ContentsAssumption, FS_Subset DEF Large
  <2>2. IsFiniteSet({f[b] : b \in Large})
    <3>1. f = [b \in Large |-> f[b]]
      OBVIOUS
    <3> HIDE DEF f
    <3> QED BY <3>1, <2>1, FiniteRange
  <2> QED BY <2>2
<1>4. IsFiniteSet({Delta(s[1], s[2]) : s \in Shrinks})
  <2> DEFINE f == [s \in Shrinks |-> Delta(s[1], s[2])]
  <2>1. IsFiniteSet({f[s] : s \in Shrinks})
    <3>1. f = [s \in Shrinks |-> f[s]]
      OBVIOUS
    <3> HIDE DEF f
    <3> QED BY <3>1, ContentsAssumption, FiniteRange
  <2> QED BY <2>1
<1>5. IsFiniteSet({Staged(p) : p \in Procs})
  <2> DEFINE f == [p \in Procs |-> Staged(p)]
  <2>1. IsFiniteSet({f[p] : p \in Procs})
    <3>1. f = [p \in Procs |-> f[p]]
      OBVIOUS
    <3> HIDE DEF f
    <3> QED BY <3>1, ContentsAssumption, FiniteRange
  <2> QED BY <2>1
<1>6. IsFiniteSet(Files)
  BY <1>1, <1>2, <1>3, <1>4, <1>5, FS_Union DEF Files
<1> QED BY <1>6, FS_CardinalityType

------------------------------------------------------------------------------
(* Steps keep the shape. *)

\* What may be written to a file.
Fits(f, content) ==
    \/ content \in {Absent, Garbage}
    \/ \E c : f = Chunk(c)
    \/ \E c, d : f = Delta(c, d)
    \/ (\E b : f = Object(b) \/ f = Staged(b)) /\ content \in Blobs
    \/ /\ \E b : f = Manifest(b)
       /\ content \in Seq(Ref)
       /\ \A i \in DOMAIN content : IsPatch(content[i])

\* One file is written.
LEMMA WriteShape ==
    ASSUME StoreShape, NEW f, NEW content, Fits(f, content),
           store' = [store EXCEPT ![f] = content]
    PROVE  StoreShape'
<1>1. DOMAIN store' = Files
  BY DEF StoreShape
<1>2. ASSUME NEW b \in Blobs
      PROVE  store'[Object(b)] \in {Absent, Garbage} \union Blobs
  BY <1>2, NamesDiffer, FileKinds DEF StoreShape, Fits
<1>3. ASSUME NEW p \in Procs
      PROVE  store'[Staged(p)] \in {Absent, Garbage} \union Blobs
  <2>1. Staged(p) \in DOMAIN store
    BY FileKinds DEF StoreShape
  <2>2. CASE f = Staged(p)
    <3>1. store'[Staged(p)] = content
      BY <2>1, <2>2
    <3> QED BY <3>1, <2>2, NamesDiffer DEF Fits
  <2>3. CASE f # Staged(p)
    <3>1. store'[Staged(p)] = store[Staged(p)]
      BY <2>1, <2>3
    <3> QED BY <3>1 DEF StoreShape
  <2> QED BY <2>2, <2>3
<1>4. ASSUME NEW b \in Large, Valid(b)'
      PROVE  /\ store'[Manifest(b)] \in Seq(Ref)
             /\ \A i \in DOMAIN store'[Manifest(b)] : IsPatch(store'[Manifest(b)][i])
  <2>1. Manifest(b) \in DOMAIN store
    BY FileKinds DEF StoreShape
  <2>2. CASE f = Manifest(b)
    <3>1. store'[Manifest(b)] = content
      BY <2>1, <2>2
    <3> QED BY <3>1, <2>2, <1>4, NamesDiffer DEF Fits, Valid
  <2>3. CASE f # Manifest(b)
    <3>1. store'[Manifest(b)] = store[Manifest(b)]
      BY <2>1, <2>3
    <3> QED BY <3>1, <1>4 DEF StoreShape, Valid
  <2> QED BY <2>2, <2>3
<1> QED BY <1>1, <1>2, <1>3, <1>4 DEF StoreShape

\* A file is published.
LEMMA PublishShape ==
    ASSUME StoreShape, NEW f \in Files, NEW content, Fits(f, content), Publish(f, content)
    PROVE  StoreShape'
<1>1. CASE Here(f)
  <2>1. store' = [store EXCEPT ![f] = store[f]]
    BY <1>1 DEF Publish
  <2>2. \A g \in Files : store'[g] = store[g]
    BY <2>1 DEF StoreShape
  <2>3. DOMAIN store' = Files
    BY <2>1 DEF StoreShape
  <2> QED BY <2>2, <2>3, FileKinds DEF StoreShape, Valid
<1>2. CASE ~Here(f)
  BY <1>2, WriteShape DEF Publish
<1> QED BY <1>1, <1>2

\* One process has a new job.
LEMMA JobStep ==
    ASSUME job \in [Procs -> Job], NEW p \in Procs, NEW j, Set(p, j)
    PROVE  /\ job'[p] = j
           /\ \A q \in Procs : q # p => job'[q] = job[q]
           /\ j \in Job => job' \in [Procs -> Job]
BY DEF Set

\* The jobs keep their shape when the new one has it.
LEMMA JobsShape ==
    ASSUME Shape, NEW p \in Procs, NEW j, Set(p, j), JobShape(j)
    PROVE  job' \in [Procs -> Job] /\ \A q \in Procs : JobShape(job'[q])
<1>1. j \in Job
  BY DEF JobShape
<1>2. job \in [Procs -> Job]
  BY DEF Shape
<1>3. job'[p] = j /\ \A q \in Procs : q # p => job'[q] = job[q]
  BY <1>2, JobStep
<1>4. job' \in [Procs -> Job]
  BY <1>1, <1>2, JobStep
<1> QED BY <1>3, <1>4 DEF Shape

\* An answer ends the job.
LEMMA AnswerIs ==
    ASSUME NEW p \in Procs, NEW a, Answer(p, a), job \in [Procs -> Job]
    PROVE  /\ job'[p].pc = "idle" /\ job'[p].drop = None /\ job'[p].answer = a
           /\ job'[p].todo = {} /\ job'[p].refs = << >>
           /\ a = "miss" => /\ job'[p].blob = job[p].blob
                            /\ job'[p].sure = job[p].sure /\ job'[p].heals = job[p].heals
           /\ a # "miss" => job'[p].sure = FALSE /\ job'[p].heals = FALSE
           /\ \A q \in Procs : q # p => job'[q] = job[q]
BY DEF Answer, Set, Idle

\* Doing nothing, and having answered, are shapes of jobs.
LEMMA IdleShape == JobShape(Idle)
<1>1. 0 \in 0 .. Cardinality(Files)
  BY FilesAreFinite
<1>2. << >> \in Seq(Draft) /\ << >> \in Seq(Ref) /\ DOMAIN << >> = {}
  OBVIOUS
<1>3. Idle \in Job
  BY <1>1, <1>2 DEF Idle, Job
<1> QED BY <1>2, <1>3, ValuesAssumption DEF JobShape, Idle, Putting, Getting, Sweeping

\* What a process does next, with all else as it was.
LEMMA PlainStep ==
    ASSUME NEW j, JobShape(j), j.pc \in Putting \union Getting,
           NEW pc \in {"stat", "publish", "head", "copy", "manifest"},
           pc = "head" => j.blob \in Large, pc \in {"copy", "manifest"} => j.pc = "get"
    PROVE  JobShape([j EXCEPT !.pc = pc])
<1> DEFINE k == [j EXCEPT !.pc = pc]
<1>1. k \in Job
  BY DEF JobShape, Job, Putting, Getting
<1>2. /\ k.pc = pc /\ k.drop = j.drop /\ k.answer = j.answer /\ k.blob = j.blob
      /\ k.artifact = j.artifact /\ k.refs = j.refs /\ k.todo = j.todo /\ k.failed = j.failed
  BY DEF JobShape, Job
<1>3. j.answer = None /\ None # "miss"
  BY ValuesAssumption DEF JobShape, Putting, Getting
<1>4. JobShape(k)
  <2> HIDE DEF k
  <2> QED BY <1>1, <1>2, <1>3 DEF JobShape, Putting, Getting
<1> QED BY <1>4

\* An answer leaves the jobs in shape.
LEMMA AnswerShape ==
    ASSUME Shape, NEW p \in Procs, NEW a \in {"miss", "vanished", "hit", "error", "stored", "swept"},
           Answer(p, a), a = "miss" => job[p].blob \in Blobs
    PROVE  job' \in [Procs -> Job] /\ \A q \in Procs : JobShape(job'[q])
<1> DEFINE j == IF a = "miss" THEN [Idle EXCEPT !.blob = job[p].blob, !.sure = job[p].sure,
                                                !.heals = job[p].heals, !.answer = a]
                ELSE [Idle EXCEPT !.answer = a]
<1>1. Idle \in Job /\ job[p] \in Job
  BY IdleShape DEF JobShape, Shape
<1>2. j \in Job
  BY <1>1 DEF Job
<1>3. /\ j.pc = "idle" /\ j.drop = None /\ j.answer = a /\ j.refs = << >> /\ j.todo = {}
      /\ a = "miss" => j.blob = job[p].blob
  BY DEF Idle
<1>4. DOMAIN << >> = {}
  OBVIOUS
<1>5. JobShape(j)
  <2> HIDE DEF j
  <2> QED BY <1>2, <1>3, <1>4 DEF JobShape, Putting, Getting
<1>6. Set(p, j)
  BY DEF Answer
<1> QED
  <2> HIDE DEF j
  <2> QED BY <1>5, <1>6, JobsShape

\* The base of a delta is a chunk of the manifest before.
LEMMA PositionalBaseIs ==
    ASSUME NEW previous \in Seq(Ref), NEW new, NEW i
    PROVE  PositionalBase(previous, new, i) \in ChunkIds \union {None}
<1> DEFINE old == [j \in DOMAIN previous |-> previous[j].chunk]
           covering == {j \in DOMAIN old : Overlap(old, j, new, i) > 0}
           best == {j \in covering : \A k \in covering :
                    \/ Overlap(old, k, new, i) < Overlap(old, j, new, i)
                    \/ Overlap(old, k, new, i) = Overlap(old, j, new, i) /\ k <= j}
           damaged == Garbage \in {old[j] : j \in DOMAIN old} \union {new[j] : j \in DOMAIN new}
<1>1. \A j \in DOMAIN old : old[j] \in ChunkIds
  BY EntriesAreChunks
<1>2. best \subseteq DOMAIN old
  OBVIOUS
<1>3. PositionalBase(previous, new, i) = IF damaged \/ best = {} THEN None ELSE old[CHOOSE j \in best : TRUE]
  BY DEF PositionalBase
<1> HIDE DEF best, old, damaged
<1>4. best # {} => (CHOOSE j \in best : TRUE) \in DOMAIN old
  BY <1>2
<1> QED BY <1>1, <1>3, <1>4

\* What a delta is made against, and what is removed on the way: a chunk that
\* is there and is not what its name says.
LEMMA DeltaBaseIs ==
    ASSUME Shape, NEW p \in Procs, NEW i \in DOMAIN job[p].refs
    PROVE  /\ DeltaBase(p, i).base \in ChunkIds \union {None}
           /\ DeltaBase(p, i).base # None => <<DeltaBase(p, i).base, job[p].refs[i].chunk>> \in Shrinks
           /\ DeltaBase(p, i).drop # None =>
                 \E c \in ChunkIds : DeltaBase(p, i).drop = Chunk(c) /\ store[Chunk(c)] \notin {Absent, c}
<1> DEFINE new == [j \in DOMAIN job[p].refs |-> job[p].refs[j].chunk]
           base == PositionalBase(job[p].previous, new, i)
           read == base # None /\ Here(Chunk(base))
           intact == read /\ Verified(store[Chunk(base)], base)
<1>1. base \in ChunkIds \union {None}
  BY PositionalBaseIs DEF Shape, Job
<1>2. new[i] = job[p].refs[i].chunk
  OBVIOUS
<1>3. DeltaBase(p, i) = [base |-> IF intact /\ <<base, new[i]>> \in Shrinks THEN base ELSE None,
                         drop |-> IF read /\ ~intact THEN Chunk(base) ELSE None]
  BY DEF DeltaBase
<1> HIDE DEF base, new
<1> QED BY <1>1, <1>2, <1>3 DEF Here, Verified

\* The steps of a put.
LEMMA PutShape ==
    ASSUME Shape, NEW p \in Procs,
           \/ Stage(p) \/ PublishObject(p) \/ StatObject(p) \/ PublishManifest(p) \/ PublishHead(p)
           \/ \E i \in job[p].todo : Prepare(p, i) \/ PublishChunk(p, i)
    PROVE  Shape'
<1> DEFINE b == job[p].blob
<1> USE DEF Putting, Getting, Sweeping
<1>1. /\ job \in [Procs -> Job] /\ job[p] \in Job /\ JobShape(job[p]) /\ StoreShape
      /\ used \in Used /\ vouched \subseteq Blobs /\ carried \subseteq Blobs
      /\ head \in [Artifacts -> Large \union {None}] /\ out \in [Artifacts -> Blobs \union {None}]
  BY DEF Shape
<1>2. CASE Stage(p)
  <2>1. b \in Blobs /\ job[p].artifact \in Artifacts
    BY <1>1, <1>2 DEF Stage, At, JobShape
  <2>2. StoreShape'
    <3>1. CASE UNCHANGED store
      BY <3>1, <1>1 DEF StoreShape, Valid
    <3>2. CASE store' = [store EXCEPT ![Staged(p)] = out[job[p].artifact]] /\ Verified(out[job[p].artifact], b)
      BY <3>2, <1>1, <2>1, WriteShape DEF Fits, Verified
    <3> QED BY <3>1, <3>2, <1>2 DEF Stage
  <2>3. job' \in [Procs -> Job] /\ \A q \in Procs : JobShape(job'[q])
    <3>1. CASE \E pc \in {"stat", "publish"} : Step(p, pc)
      <4>1. PICK pc \in {"stat", "publish"} : Step(p, pc)
        BY <3>1
      <4>2. JobShape([job[p] EXCEPT !.pc = pc])
        BY <1>1, <1>2, PlainStep DEF Stage, At
      <4> QED BY <4>1, <4>2, JobsShape DEF Step
    <3>2. CASE Answer(p, "error")
      BY <3>2, AnswerShape
    <3> QED BY <3>1, <3>2, <1>2 DEF Stage
  <2> QED BY <1>1, <1>2, <2>2, <2>3 DEF Shape, Stage
<1>3. CASE PublishObject(p)
  <2>1. b \in Blobs
    BY <1>1, <1>3 DEF PublishObject, At, JobShape
  <2>2. StoreShape'
    <3>1. CASE ~Here(Staged(p))
      BY <3>1, <1>1, <1>3 DEF StoreShape, Valid, PublishObject
    <3>2. CASE Here(Staged(p))
      <4>1. /\ Object(b) \in Files /\ Staged(p) \in Files
            /\ store' = [store EXCEPT ![Object(b)] = store[Staged(p)], ![Staged(p)] = Absent]
        BY <3>2, <1>3, <2>1, FileKinds DEF PublishObject
      <4>2. DOMAIN store' = Files
        BY <4>1, <1>1 DEF StoreShape
      <4>3. \A f \in Files : store'[f] = IF f = Staged(p) THEN Absent
                                         ELSE IF f = Object(b) THEN store[Staged(p)] ELSE store[f]
        BY <4>1, <1>1 DEF StoreShape
      <4>4. \A c \in Large : store'[Manifest(c)] = store[Manifest(c)]
        BY <4>3, NamesDiffer, FileKinds
      <4>5. \A c \in Blobs : store'[Object(c)] \in {Absent, Garbage} \union Blobs
        BY <4>3, <1>1, NamesDiffer, FileKinds DEF StoreShape
      <4>6. \A q \in Procs : store'[Staged(q)] \in {Absent, Garbage} \union Blobs
        BY <4>3, <1>1, NamesDiffer, FileKinds DEF StoreShape
      <4> QED BY <4>2, <4>4, <4>5, <4>6, <1>1 DEF StoreShape, Valid
    <3> QED BY <3>1, <3>2
  <2>3. job' \in [Procs -> Job] /\ \A q \in Procs : JobShape(job'[q])
    <3>1. CASE Step(p, "stat")
      <4>1. JobShape([job[p] EXCEPT !.pc = "stat"])
        BY <1>1, <1>3, PlainStep DEF PublishObject, At
      <4> QED BY <3>1, <4>1, JobsShape DEF Step
    <3>2. CASE Answer(p, "error")
      BY <3>2, AnswerShape
    <3> QED BY <3>1, <3>2, <1>3 DEF PublishObject
  <2> QED BY <1>1, <1>3, <2>2, <2>3 DEF Shape, PublishObject
<1>4. CASE StatObject(p)
  <2>1. b \in Blobs
    BY <1>1, <1>4 DEF StatObject, At, JobShape
  <2>2. StoreShape'
    BY <1>1, <1>4 DEF StoreShape, Valid, StatObject
  <2>3. CASE Answer(p, "error") /\ UNCHANGED <<vouched, carried>>
    BY <2>2, <2>3, <1>1, <1>4, AnswerShape DEF Shape, StatObject
  <2>4. CASE Stored(p)
    BY <2>1, <2>2, <2>4, <1>1, <1>4, AnswerShape DEF Shape, StatObject, Stored
  <2>5. CASE Set(p, Opened(p)) /\ b \in Large /\ Here(Object(b)) /\ UNCHANGED <<vouched, carried>>
    <3>1. store[Object(b)] \in Blobs \union {Garbage}
      BY <2>1, <2>5, <1>1 DEF StoreShape, Here
    <3> DEFINE pieces == Pieces(store[Object(b)])
               refs == [i \in DOMAIN pieces |-> [chunk |-> pieces[i], base |-> Absent]]
    <3>2. pieces \in Seq(ChunkIds)
      BY <3>1, PiecesAreChunks
    <3>3. DOMAIN pieces = 1 .. Len(pieces) /\ Len(pieces) \in Nat
      BY <3>2
    <3>4. refs \in Seq(Draft) /\ DOMAIN refs = DOMAIN pieces
      <4>1. \A i \in 1 .. Len(pieces) : refs[i] \in Draft
        BY <3>2, <3>3 DEF Draft
      <4>2. refs = [i \in 1 .. Len(pieces) |-> refs[i]]
        BY <3>3
      <4> HIDE DEF refs
      <4> QED BY <4>1, <4>2, <3>3, FunctionIsSequence
    <3>5. PreviousManifest(job[p].artifact) \in Seq(Ref)
      <4>1. job[p].artifact \in Artifacts
        BY <1>1, <1>4 DEF StatObject, At, JobShape
      <4>2. head[job[p].artifact] \in Large \union {None}
        BY <4>1, <1>1
      <4>3. << >> \in Seq(Ref)
        OBVIOUS
      <4> QED BY <4>2, <4>3, <1>1 DEF StoreShape, PreviousManifest
    <3>6. Opened(p) = [job[p] EXCEPT !.pc = "chunk", !.todo = DOMAIN pieces, !.refs = refs,
                                      !.previous = PreviousManifest(job[p].artifact)]
      BY DEF Opened
    <3>7. DOMAIN pieces \subseteq Nat
      BY <3>3
    <3>8. \A i \in DOMAIN refs : refs[i].base = Absent
      OBVIOUS
    <3>9. Absent \notin ChunkIds
      BY ValuesAssumption
    <3> HIDE DEF pieces, refs
    <3>10. Opened(p) \in Job
      BY <3>4, <3>5, <3>6, <3>7, <1>1 DEF Job
    <3>11. JobShape(Opened(p))
      <4>1. /\ Opened(p).pc = "chunk" /\ Opened(p).refs = refs /\ Opened(p).todo = DOMAIN refs
            /\ Opened(p).blob = b /\ Opened(p).artifact = job[p].artifact /\ Opened(p).answer = job[p].answer
        BY <3>4, <3>6, <1>1 DEF Job
      <4>2. job[p].answer = None /\ job[p].artifact \in Artifacts
        BY <1>1, <1>4 DEF StatObject, At, JobShape
      <4>3. None # "miss"
        BY ValuesAssumption
      <4> QED BY <4>1, <4>2, <4>3, <3>10, <3>8, <3>9, <2>1, <2>5 DEF JobShape, IsPatch
    <3>12. job' \in [Procs -> Job] /\ \A q \in Procs : JobShape(job'[q])
      BY <2>5, <3>11, JobsShape
    <3> QED BY <3>12, <2>2, <2>5, <1>1, <1>4 DEF Shape, StatObject
  <2> QED BY <2>3, <2>4, <2>5, <1>4 DEF StatObject
<1>5. ASSUME NEW i \in job[p].todo, Prepare(p, i)
      PROVE  Shape'
  <2> DEFINE c == job[p].refs[i].chunk
             delta == IF Here(Chunk(c)) THEN [base |-> None, drop |-> None] ELSE DeltaBase(p, i)
             j == [job[p] EXCEPT !.refs[i].base = delta.base, !.drop = delta.drop]
  <2>1. job[p].pc = "chunk" /\ i \in DOMAIN job[p].refs /\ b \in Large /\ b \in Blobs
        /\ job[p].artifact \in Artifacts /\ job[p].answer = None
        /\ job[p].todo \subseteq DOMAIN job[p].refs
    BY <1>1, <1>5 DEF Prepare, At, JobShape
  <2>2. job[p].refs \in Seq(Draft) /\ job[p].refs[i] \in Draft /\ c \in ChunkIds
    BY <1>1, <2>1, EntriesAreChunks DEF Job
  <2>3. /\ delta.base \in ChunkIds \union {None}
        /\ delta.base # None => <<delta.base, c>> \in Shrinks
        /\ delta.drop \in Files \union {None}
    BY <2>1, DeltaBaseIs, FileKinds
  <2>4. /\ IF delta.base # None THEN Publish(Delta(delta.base, c), c) ELSE UNCHANGED store
        /\ Set(p, j) /\ UNCHANGED <<head, out, vouched, carried, used>>
    BY <1>5 DEF Prepare
  <2>5. /\ j.refs \in Seq(Draft) /\ DOMAIN j.refs = DOMAIN job[p].refs
        /\ \A k \in DOMAIN j.refs : j.refs[k].chunk = job[p].refs[k].chunk
        /\ \A k \in DOMAIN j.refs : k # i => j.refs[k] = job[p].refs[k]
        /\ j.refs[i].base = delta.base
    <3> HIDE DEF delta
    <3>1. j.refs = [job[p].refs EXCEPT ![i] = [job[p].refs[i] EXCEPT !.base = delta.base]]
      BY <1>1, <2>1 DEF Job
    <3>2. [job[p].refs[i] EXCEPT !.base = delta.base] \in Draft
      BY <2>2, <2>3 DEF Draft
    <3> HIDE DEF j
    <3> QED BY <2>1, <2>2, <3>1, <3>2 DEF Draft
  <2>6. /\ j.pc = "chunk" /\ j.todo = job[p].todo /\ j.blob = b /\ j.artifact = job[p].artifact
        /\ j.answer = None /\ j.drop = delta.drop
    <3> HIDE DEF delta
    <3> QED BY <1>1, <2>1 DEF Job
  <2>7. j \in Job
    <3> HIDE DEF delta
    <3>1. /\ j.previous = job[p].previous /\ j.failed = job[p].failed /\ j.count = job[p].count
          /\ j.sure = job[p].sure /\ j.heals = job[p].heals
      BY <1>1 DEF Job
    <3>2. j = [job[p] EXCEPT !.refs = j.refs, !.drop = delta.drop]
      BY <1>1 DEF Job
    <3>3. j.refs \in Seq(Draft)
      BY <2>5
    <3>4. \A refs \in Seq(Draft), f \in Files \union {None} :
              [job[p] EXCEPT !.refs = refs, !.drop = f] \in Job
      BY <1>1 DEF Job
    <3> HIDE DEF j
    <3> QED BY <3>2, <3>3, <3>4, <2>3
  <2>8. JobShape(j)
    <3>1. \A k \in DOMAIN j.refs : IsPatch(j.refs[k])
      <4> HIDE DEF delta, j
      <4> QED BY <2>3, <2>5, <1>1, ValuesAssumption DEF IsPatch, JobShape
    <3>2. \A k \in DOMAIN j.refs : k \notin j.todo => j.refs[k].base # Absent
      <4> HIDE DEF delta, j
      <4> QED BY <2>1, <2>5, <2>6, <1>1, <1>5 DEF JobShape
    <3>3. None # "miss"
      BY ValuesAssumption
    <3> HIDE DEF delta, j
    <3> QED BY <2>1, <2>5, <2>6, <2>7, <3>1, <3>2, <3>3 DEF JobShape
  <2>9. StoreShape'
    <3> HIDE DEF delta, j
    <3>1. CASE delta.base # None
      <4>1. Delta(delta.base, c) \in Files
        BY <3>1, <2>3, FileKinds
      <4> QED BY <3>1, <4>1, <2>4, <1>1, PublishShape DEF Fits
    <3>2. CASE delta.base = None
      BY <3>2, <2>4, <1>1 DEF StoreShape, Valid
    <3> QED BY <3>1, <3>2
  <2> HIDE DEF delta, j
  <2>10. job' \in [Procs -> Job] /\ \A q \in Procs : JobShape(job'[q])
    BY <2>4, <2>8, JobsShape
  <2> QED BY <2>4, <2>9, <2>10, <1>1 DEF Shape
<1>6. ASSUME NEW i \in job[p].todo, PublishChunk(p, i)
      PROVE  Shape'
  <2> DEFINE c == job[p].refs[i].chunk
             j == [job[p] EXCEPT !.todo = @ \ {i}]
  <2>1. job[p].pc = "chunk" /\ i \in DOMAIN job[p].refs /\ b \in Large /\ b \in Blobs
        /\ job[p].artifact \in Artifacts /\ job[p].answer = None
        /\ job[p].todo \subseteq DOMAIN job[p].refs /\ job[p].refs[i].base # Absent
    BY <1>1, <1>6 DEF PublishChunk, At, JobShape
  <2>2. c \in ChunkIds
    BY <1>1, <2>1, EntriesAreChunks DEF Job
  <2>3. StoreShape'
    BY <2>2, <1>1, <1>6, PublishShape, FileKinds DEF PublishChunk, Fits
  <2>4. JobShape(j)
    <3>1. j \in Job
      BY <1>1 DEF Job
    <3>2. /\ j.pc = "chunk" /\ j.refs = job[p].refs /\ j.todo = job[p].todo \ {i} /\ j.blob = b
          /\ j.artifact = job[p].artifact /\ j.answer = None
      BY <1>1, <2>1 DEF Job
    <3>3. None # "miss"
      BY ValuesAssumption
    <3> HIDE DEF j
    <3> QED BY <3>1, <3>2, <3>3, <2>1, <1>1 DEF JobShape
  <2>5. job' \in [Procs -> Job] /\ \A q \in Procs : JobShape(job'[q])
    BY <1>6, <2>4, JobsShape DEF PublishChunk
  <2> QED BY <2>3, <2>5, <1>1, <1>6 DEF Shape, PublishChunk
<1>7. CASE PublishManifest(p)
  <2>1. job[p].pc = "chunk" /\ b \in Large /\ b \in Blobs /\ job[p].answer = None
        /\ job[p].artifact \in Artifacts /\ job[p].todo = {}
    BY <1>1, <1>7 DEF PublishManifest, At, JobShape
  <2>2. job[p].refs \in Seq(Ref) /\ \A i \in DOMAIN job[p].refs : IsPatch(job[p].refs[i])
    <3>1. job[p].refs \in Seq(Draft) /\ \A i \in DOMAIN job[p].refs : job[p].refs[i].base # Absent
      BY <1>1, <2>1 DEF Job, JobShape
    <3> QED BY <3>1, <1>1, EntriesAreChunks DEF JobShape
  <2>3. StoreShape'
    BY <2>1, <2>2, <1>1, <1>7, PublishShape, FileKinds DEF PublishManifest, Fits
  <2>4. JobShape([job[p] EXCEPT !.pc = "head"])
    BY <1>1, <2>1, PlainStep
  <2>5. job' \in [Procs -> Job] /\ \A q \in Procs : JobShape(job'[q])
    BY <1>7, <2>4, JobsShape DEF PublishManifest, Step
  <2> QED BY <2>3, <2>5, <1>1, <1>7 DEF Shape, PublishManifest
<1>8. CASE PublishHead(p)
  <2>1. b \in Large /\ b \in Blobs /\ job[p].artifact \in Artifacts
    BY <1>1, <1>8 DEF PublishHead, At, JobShape
  <2>2. StoreShape'
    BY <1>1, <1>8 DEF StoreShape, Valid, PublishHead
  <2>3. job' \in [Procs -> Job] /\ \A q \in Procs : JobShape(job'[q])
    BY <1>8, AnswerShape DEF PublishHead, Stored
  <2> QED BY <2>1, <2>2, <2>3, <1>1, <1>8 DEF Shape, PublishHead, Stored
<1> QED BY <1>2, <1>3, <1>4, <1>5, <1>6, <1>7, <1>8

\* What a delta that does not rebuild is removed for.
LEMMA RottenIs ==
    ASSUME NEW ref \in Ref, IsPatch(ref)
    PROVE  \/ Rotten(ref) = None
           \/ \E c \in ChunkIds : Rotten(ref) = Chunk(c) /\ store[Chunk(c)] \notin {Absent, c}
           \/ \E s \in Shrinks : Rotten(ref) = Delta(s[1], s[2]) /\ store[Delta(s[1], s[2])] = Garbage
<1>1. CASE ref.base = None
  BY <1>1 DEF Rotten
<1>2. CASE ref.base # None
  <2>1. ref.base \in ChunkIds /\ <<ref.base, ref.chunk>> \in Shrinks
    BY <1>2 DEF Ref, IsPatch
  <2>2. <<ref.base, ref.chunk>>[1] = ref.base /\ <<ref.base, ref.chunk>>[2] = ref.chunk
    OBVIOUS
  <2> QED BY <2>1, <2>2 DEF Rotten, Here, Verified
<1> QED BY <1>1, <1>2

\* What a restore is about to publish is part of its state.
LEMMA CopyFits ==
    ASSUME NEW j \in Job, NEW b \in Blobs
    PROVE  [j EXCEPT !.pc = "place", !.copy = b] \in Job
<1>1. [j EXCEPT !.pc = "place"] \in Job
  BY DEF Job, Getting
<1> QED BY <1>1 DEF Job

\* The steps of a restore.
LEMMA GetShape ==
    ASSUME Shape, NEW p \in Procs,
           \/ Look(p) \/ CopyObject(p) \/ ReadManifest(p) \/ Splice(p) \/ Place(p)
           \/ \E i \in job[p].todo : FetchChunk(p, i)
    PROVE  Shape'
<1> DEFINE b == job[p].blob
<1> USE DEF Putting, Getting, Sweeping
<1>1. /\ job \in [Procs -> Job] /\ job[p] \in Job /\ JobShape(job[p]) /\ StoreShape
      /\ used \in Used /\ vouched \subseteq Blobs /\ carried \subseteq Blobs
      /\ head \in [Artifacts -> Large \union {None}] /\ out \in [Artifacts -> Blobs \union {None}]
  BY DEF Shape
<1>2. None # "miss"
  BY ValuesAssumption
<1>3. ASSUME b \in Blobs, job[p].artifact \in Artifacts, job[p].answer = None, Materialize(p, b)
      PROVE  /\ out' \in [Artifacts -> Blobs \union {None}]
             /\ job' \in [Procs -> Job] /\ \A q \in Procs : JobShape(job'[q])
  <2> DEFINE j == [job[p] EXCEPT !.pc = "place", !.copy = b]
  <2>1. j \in Job /\ j.pc = "place" /\ j.copy = b /\ j.blob = b /\ j.artifact = job[p].artifact
        /\ j.answer = None /\ j.refs = job[p].refs
    <3>1. job[p] \in Job /\ b \in Blobs /\ job[p].answer = None
      BY <1>1, <1>3
    <3>2. j \in Job
      BY <3>1, CopyFits
    <3>3. /\ j.pc = "place" /\ j.copy = b /\ j.blob = b /\ j.refs = job[p].refs
          /\ j.artifact = job[p].artifact /\ j.answer = job[p].answer
      BY ONLY <3>1 DEF Job
    <3> QED BY <3>1, <3>2, <3>3
  <2>2. JobShape(j)
    <3> HIDE DEF j
    <3> QED BY <2>1, <1>1, <1>2, <1>3 DEF JobShape
  <2>3. job' \in [Procs -> Job] /\ \A q \in Procs : JobShape(job'[q])
    <3>1. Set(p, j)
      BY <1>3 DEF Materialize
    <3> HIDE DEF j
    <3> QED BY <2>2, <3>1, JobsShape
  <2>4. out' \in [Artifacts -> Blobs \union {None}]
    BY <1>1, <1>3 DEF Materialize
  <2> QED BY <2>3, <2>4
<1>8. CASE Place(p)
  <2>1. b \in Blobs /\ job[p].artifact \in Artifacts /\ job[p].copy = b
    BY <1>1, <1>8 DEF Place, At, JobShape
  <2>2. StoreShape'
    BY <1>1, <1>8 DEF StoreShape, Valid, Place
  <2>3. out' \in [Artifacts -> Blobs \union {None}]
    BY <1>1, <2>1, <1>8 DEF Place
  <2>4. job' \in [Procs -> Job] /\ \A q \in Procs : JobShape(job'[q])
    BY <1>8, AnswerShape DEF Place
  <2> QED BY <2>2, <2>3, <2>4, <1>1, <1>8 DEF Shape, Place
<1>9. CASE Look(p)
  <2>1. \A pc \in {"copy", "manifest"} : JobShape([job[p] EXCEPT !.pc = pc])
    BY <1>1, <1>9, PlainStep DEF Look, At
  <2>2. job' \in [Procs -> Job] /\ \A q \in Procs : JobShape(job'[q])
    BY <1>9, <2>1, JobsShape DEF Look, Step
  <2> QED BY <2>2, <1>1, <1>9 DEF Shape, StoreShape, Valid, Look
<1>4. CASE CopyObject(p)
  <2>1. b \in Blobs /\ job[p].artifact \in Artifacts /\ job[p].answer = None
    BY <1>1, <1>4 DEF CopyObject, At, JobShape
  <2>2. StoreShape'
    BY <1>1, <1>4 DEF StoreShape, Valid, CopyObject
  <2>3. CASE Answer(p, "vanished") /\ UNCHANGED out
    BY <2>2, <2>3, <1>1, <1>4, AnswerShape DEF Shape, CopyObject
  <2>4. CASE Materialize(p, b)
    BY <2>1, <2>2, <2>4, <1>1, <1>3, <1>4 DEF Shape, CopyObject
  <2>5. CASE Set(p, [job[p] EXCEPT !.pc = "manifest", !.drop = Object(b)]) /\ UNCHANGED out
    <3>1. Object(b) \in Files
      BY <2>1, FileKinds
    <3>2. JobShape([job[p] EXCEPT !.pc = "manifest", !.drop = Object(b)])
      BY <1>1, <1>2, <2>1, <3>1, <1>4 DEF JobShape, Job, CopyObject, At
    <3> QED BY <3>2, <2>2, <2>5, <1>1, <1>4, JobsShape DEF Shape, CopyObject
  <2> QED BY <2>3, <2>4, <2>5, <1>4 DEF CopyObject, Verified
<1>5. CASE ReadManifest(p)
  <2>1. b \in Blobs /\ job[p].artifact \in Artifacts /\ job[p].answer = None /\ job[p].pc = "manifest"
    BY <1>1, <1>5 DEF ReadManifest, At, JobShape
  <2>2. StoreShape'
    BY <1>1, <1>5 DEF StoreShape, Valid, ReadManifest
  <2>3. CASE Answer(p, "miss")
    BY <2>1, <2>2, <2>3, <1>1, <1>5, AnswerShape DEF Shape, ReadManifest
  <2>4. CASE b \in Large /\ ~Valid(b)
             /\ Set(p, [job[p] EXCEPT !.pc = "splice", !.failed = TRUE, !.drop = Manifest(b)])
    <3>1. Manifest(b) \in Files
      BY <2>4, FileKinds
    <3> DEFINE j == [job[p] EXCEPT !.pc = "splice", !.failed = TRUE, !.drop = Manifest(b)]
    <3>2. JobShape(j)
      <4>1. j \in Job
        BY <1>1, <3>1 DEF Job
      <4>2. /\ j.pc = "splice" /\ j.refs = job[p].refs /\ j.todo = job[p].todo /\ j.blob = b
            /\ j.artifact = job[p].artifact /\ j.answer = None
        BY <1>1, <2>1 DEF Job
      <4>3. << >> \in Seq(Ref)
        OBVIOUS
      <4> HIDE DEF j
      <4> QED BY <4>1, <4>2, <4>3, <1>1, <1>2, <2>1, <2>4 DEF JobShape
    <3> QED BY <3>2, <2>2, <2>4, <1>1, <1>5, JobsShape DEF Shape, ReadManifest
  <2>5. CASE b \in Large /\ Valid(b)
             /\ Set(p, [job[p] EXCEPT !.pc = "splice", !.refs = store[Manifest(b)],
                                      !.todo = DOMAIN store[Manifest(b)]])
    <3> DEFINE refs == store[Manifest(b)]
               j == [job[p] EXCEPT !.pc = "splice", !.refs = refs, !.todo = DOMAIN refs]
    <3>1. refs \in Seq(Ref) /\ \A i \in DOMAIN refs : IsPatch(refs[i])
      BY <2>5, <1>1 DEF StoreShape
    <3>2. refs \in Seq(Draft) /\ DOMAIN refs \subseteq Nat
      BY <3>1, EntriesAreChunks
    <3> HIDE DEF refs
    <3>3. j \in Job
      BY <1>1, <3>2 DEF Job
    <3>4. /\ j.pc = "splice" /\ j.refs = refs /\ j.todo = DOMAIN refs /\ j.blob = b
          /\ j.artifact = job[p].artifact /\ j.answer = None
      BY <1>1, <2>1 DEF Job
    <3>5. JobShape(j)
      <4> HIDE DEF j
      <4> QED BY <3>1, <3>3, <3>4, <2>1, <2>5, <1>2 DEF JobShape
    <3>6. Set(p, j)
      BY <2>5 DEF refs
    <3> HIDE DEF j
    <3> QED BY <3>5, <3>6, <2>2, <1>1, <1>5, JobsShape DEF Shape, ReadManifest
  <2> QED BY <2>3, <2>4, <2>5, <1>5 DEF ReadManifest, Here, Valid
<1>6. CASE Splice(p)
  <2>1. b \in Blobs /\ job[p].artifact \in Artifacts /\ job[p].answer = None
    BY <1>1, <1>6 DEF Splice, At, JobShape
  <2>2. StoreShape'
    BY <1>1, <1>6 DEF StoreShape, Valid, Splice
  <2>3. CASE Answer(p, "miss") /\ UNCHANGED out
    BY <2>1, <2>2, <2>3, <1>1, <1>6, AnswerShape DEF Shape, Splice
  <2>4. CASE Materialize(p, b)
    BY <2>1, <2>2, <2>4, <1>1, <1>3, <1>6 DEF Shape, Splice
  <2> QED BY <2>3, <2>4, <1>6 DEF Splice, Verified
<1>7. ASSUME NEW i \in job[p].todo, FetchChunk(p, i)
      PROVE  Shape'
  <2> DEFINE ref == job[p].refs[i]   f == Chunk(ref.chunk)
             lost == ~Here(f)
             ok   == IF lost THEN Rebuilds(ref) ELSE Verified(store[f], ref.chunk)
             drop == IF ok THEN None ELSE IF lost THEN Rotten(ref) ELSE f
             j == [job[p] EXCEPT !.todo = @ \ {i}, !.failed = @ \/ ~ok, !.drop = drop]
  <2>1. /\ b \in Blobs /\ job[p].artifact \in Artifacts /\ job[p].answer = None
        /\ job[p].pc = "splice" /\ job[p].refs \in Seq(Ref) /\ i \in DOMAIN job[p].refs
        /\ job[p].todo \subseteq DOMAIN job[p].refs
    BY <1>1, <1>7 DEF FetchChunk, At, JobShape
  <2>2. ref \in Ref /\ ref.chunk \in ChunkIds /\ IsPatch(ref)
    BY <2>1, <1>1, EntriesAreChunks DEF JobShape
  <2>3. f \in Files /\ Rotten(ref) \in Files \union {None}
    BY <2>2, RottenIs, FileKinds
  <2>4. /\ IF lost /\ ok THEN Publish(f, ref.chunk) ELSE UNCHANGED store
        /\ Set(p, j) /\ UNCHANGED <<head, out, vouched, carried, used>>
    BY <1>7 DEF FetchChunk
  <2>5. StoreShape'
    <3> HIDE DEF lost, ok
    <3>1. CASE lost /\ ok
      BY <3>1, <2>2, <2>3, <2>4, <1>1, PublishShape DEF Fits
    <3>2. CASE UNCHANGED store
      BY <3>2, <1>1 DEF StoreShape, Valid
    <3> QED BY <3>1, <3>2, <2>4
  <2>6. drop \in Files \union {None}
    <3> HIDE DEF lost, ok, f
    <3> QED BY <2>3
  <2> HIDE DEF ok, drop
  <2>7. JobShape(j)
    <3>1. j \in Job
      <4> DEFINE failed == job[p].failed \/ ~ok
      <4>1. failed \in BOOLEAN
        OBVIOUS
      <4>2. j = [job[p] EXCEPT !.todo = @ \ {i}, !.failed = failed, !.drop = drop]
        OBVIOUS
      <4> HIDE DEF failed, j
      <4> QED BY <4>1, <4>2, <2>6, <1>1 DEF Job
    <3>2. /\ j.pc = "splice" /\ j.refs = job[p].refs /\ j.todo = job[p].todo \ {i} /\ j.blob = b
          /\ j.artifact = job[p].artifact /\ j.answer = None
      BY <1>1, <2>1 DEF Job
    <3> HIDE DEF j
    <3> QED BY <3>1, <3>2, <2>1, <1>1, <1>2 DEF JobShape
  <2> HIDE DEF j
  <2>8. job' \in [Procs -> Job] /\ \A q \in Procs : JobShape(job'[q])
    BY <2>4, <2>7, JobsShape
  <2> QED BY <2>4, <2>5, <2>8, <1>1 DEF Shape
<1> QED BY <1>4, <1>5, <1>6, <1>7, <1>8, <1>9

\* The history variables of a job do not count.
LEMMA DoubtShape ==
    ASSUME NEW j, JobShape(j), NEW sure \in BOOLEAN, NEW heals \in BOOLEAN
    PROVE  JobShape([j EXCEPT !.sure = sure, !.heals = heals])
<1> DEFINE k == [j EXCEPT !.sure = sure, !.heals = heals]
<1>1. k \in Job
  BY DEF JobShape, Job
<1>2. /\ k.pc = j.pc /\ k.drop = j.drop /\ k.answer = j.answer /\ k.blob = j.blob
      /\ k.artifact = j.artifact /\ k.refs = j.refs /\ k.todo = j.todo /\ k.failed = j.failed
      /\ k.copy = j.copy
  BY DEF JobShape, Job
<1>3. JobShape(k)
  <2> HIDE DEF k
  <2> QED BY <1>1, <1>2 DEF JobShape
<1> QED BY <1>3

\* The jobs after a loss, one by one.
LEMMA Doubts ==
    ASSUME job \in [Procs -> Job], \A q \in Procs : JobShape(job[q])
    PROVE  /\ Doubt \in [Procs -> Job] /\ DoubtObject \in [Procs -> Job]
           /\ \A q \in Procs : JobShape(Doubt[q]) /\ JobShape(DoubtObject[q])
           /\ \A q \in Procs : Doubt[q] = [job[q] EXCEPT !.sure = FALSE, !.heals = FALSE]
           /\ \A q \in Procs : DoubtObject[q] =
                 [job[q] EXCEPT !.sure = job[q].sure /\ job[q].blob \in carried, !.heals = FALSE]
<1>1. ASSUME NEW q \in Procs
      PROVE  /\ Doubt[q] = [job[q] EXCEPT !.sure = FALSE, !.heals = FALSE]
             /\ DoubtObject[q] = [job[q] EXCEPT !.sure = job[q].sure /\ job[q].blob \in carried,
                                                !.heals = FALSE]
  <2> DEFINE sure == job[q].sure /\ job[q].blob \in carried
  <2>1. Doubt[q] = [job[q] EXCEPT !.sure = FALSE, !.heals = FALSE]
    BY DEF Doubt
  <2>2. job[q] \in Job
    OBVIOUS
  <2>3. [job[q] EXCEPT !.heals = FALSE, !.sure = sure] = [job[q] EXCEPT !.sure = sure, !.heals = FALSE]
    <3> HIDE DEF sure
    <3> QED BY <2>2 DEF Job
  <2> QED BY <2>1, <2>3 DEF DoubtObject
<1>2. ASSUME NEW q \in Procs
      PROVE  JobShape(Doubt[q]) /\ JobShape(DoubtObject[q])
  <2> DEFINE sure == job[q].sure /\ job[q].blob \in carried
  <2>1. sure \in BOOLEAN /\ FALSE \in BOOLEAN
    OBVIOUS
  <2>2. DoubtObject[q] = [job[q] EXCEPT !.sure = sure, !.heals = FALSE]
    BY <1>1
  <2> HIDE DEF sure
  <2>3. JobShape([job[q] EXCEPT !.sure = sure, !.heals = FALSE])
    BY <2>1, DoubtShape
  <2>4. JobShape([job[q] EXCEPT !.sure = FALSE, !.heals = FALSE])
    BY <2>1, DoubtShape
  <2> QED BY <1>1, <2>2, <2>3, <2>4
<1>3. Doubt = [q \in Procs |-> Doubt[q]] /\ DoubtObject = [q \in Procs |-> DoubtObject[q]]
  BY DEF Doubt, DoubtObject
<1>4. \A q \in Procs : Doubt[q] \in Job /\ DoubtObject[q] \in Job
  BY <1>2 DEF JobShape
<1>5. Doubt \in [Procs -> Job] /\ DoubtObject \in [Procs -> Job]
  <2> HIDE DEF Doubt, DoubtObject
  <2> QED BY <1>3, <1>4
<1> QED BY <1>1, <1>2, <1>5

\* The steps of a collection, and removing what did not verify.
LEMMA GcShape ==
    ASSUME Shape, NEW p \in Procs,
           Drop(p) \/ List(p) \/ Measure(p) \/ Swept(p) \/ \E f \in job[p].todo : Sweep(p, f)
    PROVE  Shape'
<1> USE DEF Putting, Getting, Sweeping
<1>1. /\ job \in [Procs -> Job] /\ job[p] \in Job /\ JobShape(job[p]) /\ StoreShape
      /\ used \in Used /\ vouched \subseteq Blobs /\ carried \subseteq Blobs
      /\ head \in [Artifacts -> Large \union {None}] /\ out \in [Artifacts -> Blobs \union {None}]
  BY DEF Shape
<1>2. None # "miss"
  BY ValuesAssumption
<1>3. CASE Drop(p)
  <2>1. StoreShape'
    BY <1>1, <1>3, WriteShape DEF Drop, Fits
  <2> DEFINE j == [job[p] EXCEPT !.drop = None]
  <2>2. JobShape(j)
    <3>1. j \in Job
      BY <1>1 DEF Job
    <3>2. /\ j.pc = job[p].pc /\ j.drop = None /\ j.answer = job[p].answer /\ j.blob = job[p].blob
          /\ j.artifact = job[p].artifact /\ j.refs = job[p].refs /\ j.todo = job[p].todo
          /\ j.failed = job[p].failed /\ j.copy = job[p].copy
      BY <1>1 DEF Job
    <3> HIDE DEF j
    <3> QED BY <3>1, <3>2, <1>1 DEF JobShape
  <2> QED BY <2>1, <2>2, <1>1, <1>3, JobsShape DEF Shape, Drop
<1>4. CASE List(p)
  <2> DEFINE files == {f \in Files : Here(f)}
             j == [job[p] EXCEPT !.pc = "measure", !.todo = files]
  <2>1. files \subseteq Files
    OBVIOUS
  <2> HIDE DEF files
  <2>2. j \in Job
    BY <2>1, <1>1 DEF Job
  <2>3. /\ j.pc = "measure" /\ j.todo = files /\ j.answer = None /\ j.refs = job[p].refs
    BY <1>1, <1>4 DEF Job, JobShape, List, At
  <2>4. JobShape(j)
    <3> HIDE DEF j
    <3> QED BY <2>1, <2>2, <2>3, <1>1, <1>2 DEF JobShape
  <2>5. Set(p, j)
    BY <1>4 DEF List, files
  <2>6. StoreShape'
    BY <1>1, <1>4 DEF StoreShape, Valid, List
  <2> HIDE DEF j
  <2> QED BY <2>4, <2>5, <2>6, <1>1, <1>4, JobsShape DEF Shape, List
<1>5. CASE Measure(p)
  <2>1. StoreShape'
    BY <1>1, <1>5 DEF StoreShape, Valid, Measure
  <2>2. CASE Answer(p, "error")
    BY <2>1, <2>2, <1>1, <1>5, AnswerShape DEF Shape, Measure
  <2>3. CASE Set(p, [job[p] EXCEPT !.pc = "sweep", !.count = Cardinality(job[p].todo)])
    <3>1. job[p].todo \subseteq Files
      BY <1>1, <1>5 DEF JobShape, Measure, At
    <3>2. Cardinality(job[p].todo) \in 0 .. Cardinality(Files)
      BY <3>1, FilesAreFinite, FS_Subset, FS_CardinalityType
    <3> DEFINE j == [job[p] EXCEPT !.pc = "sweep", !.count = Cardinality(job[p].todo)]
    <3>3. j \in Job
      BY <3>2, <1>1 DEF Job
    <3>4. j.pc = "sweep" /\ j.todo = job[p].todo /\ j.answer = None /\ j.refs = job[p].refs
      BY <1>1, <1>5 DEF Job, JobShape, Measure, At
    <3>5. JobShape(j)
      <4> HIDE DEF j
      <4> QED BY <3>1, <3>3, <3>4, <1>1, <1>2 DEF JobShape
    <3> HIDE DEF j
    <3> QED BY <3>5, <2>1, <2>3, <1>1, <1>5, JobsShape DEF Shape, Measure, j
  <2> QED BY <2>2, <2>3, <1>5 DEF Measure
<1>6. CASE Swept(p)
  BY <1>1, <1>6, AnswerShape DEF Shape, StoreShape, Valid, Swept
<1>7. ASSUME NEW f \in job[p].todo, Sweep(p, f)
      PROVE  Shape'
  <2>1. f \in Files /\ job[p].count > MaxFiles /\ job[p].pc = "sweep" /\ job[p].answer = None
    BY <1>1, <1>7 DEF Sweep, At, JobShape
  <2>2. StoreShape'
    BY <1>1, <1>7, WriteShape DEF Sweep, Fits
  <2>3. vouched' \subseteq Blobs /\ carried' \subseteq Blobs /\ used' \in Used
    BY <1>1, <1>7 DEF Sweep, Used
  <2> DEFINE jobs == IF Here(f) THEN Doubt ELSE job
             count == IF Here(f) THEN jobs[p].count - 1 ELSE jobs[p].count
  <2>4. jobs \in [Procs -> Job] /\ \A q \in Procs : JobShape(jobs[q])
    BY <1>1, Doubts DEF Shape
  <2>5. /\ jobs[p].pc = "sweep" /\ jobs[p].answer = None /\ jobs[p].todo = job[p].todo
        /\ jobs[p].count = job[p].count
    <3>1. CASE ~Here(f)
      BY <3>1, <2>1
    <3>2. CASE Here(f)
      <4>1. jobs[p] = [job[p] EXCEPT !.sure = FALSE, !.heals = FALSE]
        BY <3>2, <1>1, Doubts DEF Shape
      <4> HIDE DEF jobs
      <4> QED BY <4>1, <2>1, <1>1 DEF Job
    <3> QED BY <3>1, <3>2
  <2>6. count \in 0 .. Cardinality(Files)
    <3>1. job[p].count \in 0 .. Cardinality(Files)
      BY <1>1 DEF Job
    <3> QED BY <2>1, <2>5, <3>1, FilesAreFinite, ContentsAssumption
  <2>7. job' = [jobs EXCEPT ![p] = [jobs[p] EXCEPT !.todo = jobs[p].todo \ {f}, !.count = count]]
    <3>1. job' = [jobs EXCEPT ![p].todo = @ \ {f}, ![p].count = IF Here(f) THEN @ - 1 ELSE @]
      BY <1>7 DEF Sweep
    <3> HIDE DEF jobs
    <3> QED BY <3>1, <2>4 DEF Job
  <2> HIDE DEF jobs, count
  <2> DEFINE j == [jobs[p] EXCEPT !.todo = jobs[p].todo \ {f}, !.count = count]
  <2>8. JobShape(j)
    <3>1. j \in Job
      <4>1. jobs[p] \in Job
        BY <2>4
      <4> DEFINE todo == jobs[p].todo \ {f}
      <4>2. todo \in SUBSET (Nat \union Files)
        BY <4>1 DEF Job
      <4> HIDE DEF todo
      <4> QED BY <4>1, <4>2, <2>6 DEF Job, todo
    <3>2. j.pc = "sweep" /\ j.todo = jobs[p].todo \ {f} /\ j.answer = None /\ j.refs = jobs[p].refs
      BY <2>4, <2>5 DEF Job
    <3>3. JobShape(jobs[p])
      BY <2>4
    <3> HIDE DEF j
    <3> QED BY <3>1, <3>2, <3>3, <2>5, <1>2 DEF JobShape
  <2>9. j \in Job
    BY <2>8 DEF JobShape
  <2> HIDE DEF j
  <2>10. job' \in [Procs -> Job] /\ \A q \in Procs : JobShape(job'[q])
    BY <2>4, <2>7, <2>8, <2>9 DEF j
  <2> QED BY <2>2, <2>3, <2>10, <1>1, <1>7 DEF Shape, Sweep
<1> QED BY <1>3, <1>4, <1>5, <1>6, <1>7

\* What begins, and what happens around the processes.
LEMMA AroundShape ==
    ASSUME Shape, Environment \/ \E p \in Procs : Begin(p)
    PROVE  Shape'
<1> USE DEF Putting, Getting, Sweeping
<1>1. /\ job \in [Procs -> Job] /\ \A q \in Procs : job[q] \in Job /\ JobShape(job[q])
      /\ StoreShape /\ used \in Used /\ vouched \subseteq Blobs /\ carried \subseteq Blobs
      /\ head \in [Artifacts -> Large \union {None}] /\ out \in [Artifacts -> Blobs \union {None}]
  BY DEF Shape
<1>2. None # "miss"
  BY ValuesAssumption
<1>3. Idle \in Job /\ DOMAIN << >> = {}
  BY IdleShape DEF JobShape
<1>4. ASSUME NEW a \in Artifacts, NEW b \in Blobs, Edit(a, b)
      PROVE  Shape'
  <2>1. StoreShape'
    BY <1>1, <1>4 DEF StoreShape, Valid, Edit
  <2>2. used' \in Used /\ out' \in [Artifacts -> Blobs \union {None}]
    BY <1>1, <1>4 DEF Used, Edit
  <2> QED BY <1>1, <2>1, <2>2, <1>4 DEF Shape, Edit
<1>5. ASSUME NEW f \in Files, Damage(f)
      PROVE  Shape'
  <2>1. StoreShape'
    BY <1>1, <1>5, WriteShape DEF Damage, Fits
  <2>2. used' \in Used
    BY <1>1, <1>5 DEF Used, Damage
  <2>3. job' \in [Procs -> Job] /\ \A q \in Procs : JobShape(job'[q])
    BY <1>1, <1>5, Doubts DEF Damage
  <2> QED BY <1>1, <2>1, <2>2, <2>3, <1>5 DEF Shape, Damage
<1>6. ASSUME NEW p \in Procs, Crash(p)
      PROVE  Shape'
  <2>1. StoreShape'
    BY <1>1, <1>6 DEF StoreShape, Valid, Crash
  <2>2. used' \in Used
    BY <1>1, <1>6 DEF Used, Crash
  <2>3. job' \in [Procs -> Job] /\ \A q \in Procs : JobShape(job'[q])
    BY <1>6, IdleShape, JobsShape, AnswerShape DEF Crash, WriteFails
  <2> QED BY <1>1, <2>1, <2>2, <2>3, <1>6 DEF Shape, Crash
<1>7. ASSUME NEW p \in Procs, NEW a \in Artifacts, NEW b \in Blobs, BeginPut(p, a, b)
      PROVE  Shape'
  <2> DEFINE heals == /\ job[p].heals /\ job[p].answer = "miss" /\ job[p].blob = b
                      /\ \A q \in Procs : job[q].drop = None
             j == [Idle EXCEPT !.pc = "put", !.blob = b, !.artifact = a, !.sure = TRUE, !.heals = heals]
  <2>1. heals \in BOOLEAN
    OBVIOUS
  <2>2. Set(p, j)
    BY <1>7 DEF BeginPut
  <2> HIDE DEF heals
  <2>3. JobShape(j)
    <3>1. j \in Job
      BY <2>1, <1>3 DEF Job
    <3>2. j.pc = "put" /\ j.answer = None /\ j.blob = b /\ j.artifact = a /\ j.refs = << >> /\ j.todo = {}
      BY DEF Idle
    <3> HIDE DEF j
    <3> QED BY <3>1, <3>2, <1>2, <1>3 DEF JobShape
  <2>4. used' \in Used /\ out' \in [Artifacts -> Blobs \union {None}]
    BY <1>1, <1>7 DEF Used, BeginPut
  <2>5. StoreShape'
    BY <1>1, <1>7 DEF StoreShape, Valid, BeginPut
  <2> HIDE DEF j
  <2> QED BY <2>2, <2>3, <2>4, <2>5, <1>1, <1>7, JobsShape DEF Shape, BeginPut
<1>8. ASSUME NEW p \in Procs, NEW a \in Artifacts, NEW b \in Blobs, BeginGet(p, a, b)
      PROVE  Shape'
  <2> DEFINE sure == b \in vouched \union carried
             j == [Idle EXCEPT !.pc = "get", !.blob = b, !.artifact = a, !.sure = sure, !.heals = TRUE]
  <2>1. sure \in BOOLEAN
    OBVIOUS
  <2>2. Set(p, j)
    BY <1>8 DEF BeginGet
  <2> HIDE DEF sure
  <2>3. JobShape(j)
    <3>1. j \in Job
      BY <2>1, <1>3 DEF Job
    <3>2. /\ j.pc = "get" /\ j.answer = None /\ j.blob = b /\ j.artifact = a /\ j.refs = << >>
          /\ j.todo = {} /\ ~j.failed
      BY DEF Idle
    <3> HIDE DEF j
    <3> QED BY <3>1, <3>2, <1>2, <1>3 DEF JobShape
  <2>4. used' \in Used
    BY <1>1, <1>8 DEF Used, BeginGet
  <2>5. StoreShape'
    BY <1>1, <1>8 DEF StoreShape, Valid, BeginGet
  <2> HIDE DEF j
  <2> QED BY <2>2, <2>3, <2>4, <2>5, <1>1, <1>8, JobsShape DEF Shape, BeginGet
<1>9. ASSUME NEW p \in Procs, BeginGc(p)
      PROVE  Shape'
  <2> DEFINE j == [Idle EXCEPT !.pc = "list"]
  <2>1. JobShape(j)
    <3>1. j \in Job
      BY <1>3 DEF Job
    <3>2. j.pc = "list" /\ j.answer = None /\ j.refs = << >>
      BY DEF Idle
    <3> HIDE DEF j
    <3> QED BY <3>1, <3>2, <1>2, <1>3 DEF JobShape
  <2>2. Set(p, j)
    BY <1>9 DEF BeginGc
  <2>3. used' \in Used
    BY <1>1, <1>9 DEF Used, BeginGc
  <2>4. StoreShape'
    BY <1>1, <1>9 DEF StoreShape, Valid, BeginGc
  <2> HIDE DEF j
  <2> QED BY <2>1, <2>2, <2>3, <2>4, <1>1, <1>9, JobsShape DEF Shape, BeginGc
<1> QED BY <1>4, <1>5, <1>6, <1>7, <1>8, <1>9 DEF Environment, Begin

\* What an earlier build has left.
Sown(earlier) ==
    /\ earlier \subseteq Large
    /\ DOMAIN store = Files
    /\ \A b \in Blobs : store[Object(b)] = IF b \in earlier THEN b ELSE Absent
    /\ \A c \in ChunkIds : store[Chunk(c)] =
            IF \E b \in earlier : \E i \in DOMAIN Pieces(b) : Pieces(b)[i] = c THEN c ELSE Absent
    /\ \A b \in Large : store[Manifest(b)] =
            IF b \in earlier THEN [i \in DOMAIN Pieces(b) |-> [chunk |-> Pieces(b)[i], base |-> None]]
                             ELSE Absent
    /\ \A s \in Shrinks : store[Delta(s[1], s[2])] = Absent
    /\ \A p \in Procs : store[Staged(p)] = Absent

\* The initial store is one an earlier build has left.
LEMMA InitIsSown ==
    ASSUME Init
    PROVE  \E earlier \in Earlier : /\ Sown(earlier)
                                    /\ head \in [Artifacts -> IF earlier = {} THEN {None} ELSE earlier]
<1>1. PICK earlier \in Earlier :
        LET kept == {Object(b) : b \in earlier} \union UNION {
                        {Chunk(Pieces(b)[i]) : i \in DOMAIN Pieces(b)} : b \in earlier} IN
        /\ store = [f \in Files |->
                CASE f \in kept -> f[2]
                  [] f \in {Manifest(b) : b \in earlier} ->
                        [i \in DOMAIN Pieces(f[2]) |-> [chunk |-> Pieces(f[2])[i], base |-> None]]
                  [] OTHER -> Absent]
        /\ head \in [Artifacts -> IF earlier = {} THEN {None} ELSE earlier]
  BY DEF Init
<1> DEFINE kept == {Object(b) : b \in earlier} \union UNION {
                        {Chunk(Pieces(b)[i]) : i \in DOMAIN Pieces(b)} : b \in earlier}
           manifests == {Manifest(b) : b \in earlier}
           Listing(b) == [i \in DOMAIN Pieces(b) |-> [chunk |-> Pieces(b)[i], base |-> None]]
<1>2. /\ DOMAIN store = Files
      /\ \A f \in Files : /\ f \in kept /\ f \notin manifests => store[f] = f[2]
                          /\ f \notin kept /\ f \in manifests => store[f] = Listing(f[2])
                          /\ f \notin kept /\ f \notin manifests => store[f] = Absent
  <2>1. store = [f \in Files |-> CASE f \in kept -> f[2]
                                 [] f \in manifests -> Listing(f[2])
                                 [] OTHER -> Absent]
    BY <1>1
  <2> HIDE DEF kept, manifests, Listing
  <2>2. DOMAIN store = Files
    BY <2>1
  <2>3. ASSUME NEW f \in Files, f \in kept, f \notin manifests
        PROVE  store[f] = f[2]
    BY <2>1, <2>3
  <2>4. ASSUME NEW f \in Files, f \notin kept
        PROVE  store[f] = IF f \in manifests THEN Listing(f[2]) ELSE Absent
    BY <2>1, <2>4
  <2> QED BY <2>2, <2>3, <2>4
<1>3. \A b : /\ Object(b) \in kept <=> b \in earlier
             /\ Object(b) \notin manifests
  BY NamesDiffer
<1>4. \A c : /\ Chunk(c) \in kept <=> \E b \in earlier : \E i \in DOMAIN Pieces(b) : Pieces(b)[i] = c
             /\ Chunk(c) \notin manifests
  BY NamesDiffer
<1>5. \A b : /\ Manifest(b) \notin kept
             /\ Manifest(b) \in manifests <=> b \in earlier
  BY NamesDiffer
<1>6. \A p : Staged(p) \notin kept /\ Staged(p) \notin manifests
  BY NamesDiffer
<1>7. \A c, d : Delta(c, d) \notin kept /\ Delta(c, d) \notin manifests
  BY NamesDiffer
<1>8. \A x : Object(x)[2] = x /\ Chunk(x)[2] = x /\ Manifest(x)[2] = x
  BY DEF Object, Chunk, Manifest
<1>9. earlier \subseteq Large
  BY ContentsAssumption
<1> HIDE DEF kept, manifests
<1>10. \A b \in Blobs : store[Object(b)] = IF b \in earlier THEN b ELSE Absent
  BY <1>2, <1>3, <1>8, FileKinds
<1>11. \A c \in ChunkIds : store[Chunk(c)] =
            IF \E b \in earlier : \E i \in DOMAIN Pieces(b) : Pieces(b)[i] = c THEN c ELSE Absent
  BY <1>2, <1>4, <1>8, FileKinds
<1>12. \A b \in Large : store[Manifest(b)] = IF b \in earlier THEN Listing(b) ELSE Absent
  <2> HIDE DEF Listing
  <2> QED BY <1>2, <1>5, <1>8, FileKinds
<1>13. \A s \in Shrinks : store[Delta(s[1], s[2])] = Absent
  BY <1>2, <1>7, FileKinds
<1>14. \A p \in Procs : store[Staged(p)] = Absent
  BY <1>2, <1>6, FileKinds
<1> QED BY <1>1, <1>2, <1>9, <1>10, <1>11, <1>12, <1>13, <1>14 DEF Sown

\* A manifest without deltas.
LEMMA ListingIs ==
    ASSUME NEW b \in Large
    PROVE  LET refs == [i \in DOMAIN Pieces(b) |-> [chunk |-> Pieces(b)[i], base |-> None]] IN
           /\ refs \in Seq(Ref) /\ refs \in Seq(Draft)
           /\ \A i \in DOMAIN refs : IsPatch(refs[i])
           /\ Spliced(refs, b) = b
<1> DEFINE refs == [i \in DOMAIN Pieces(b) |-> [chunk |-> Pieces(b)[i], base |-> None]]
<1>1. b \in Blobs /\ Pieces(b) \in Seq(ChunkIds)
  BY PiecesAreChunks DEF Large
<1>2. DOMAIN Pieces(b) = 1 .. Len(Pieces(b)) /\ Len(Pieces(b)) \in Nat
  BY <1>1
<1>3. \A i \in 1 .. Len(Pieces(b)) : refs[i] \in Ref
  BY <1>1, <1>2 DEF Ref
<1>4. /\ \A i \in DOMAIN refs : refs[i].base = None /\ refs[i].chunk = Pieces(b)[i]
      /\ DOMAIN refs = DOMAIN Pieces(b) /\ refs = [i \in 1 .. Len(Pieces(b)) |-> refs[i]]
  BY <1>2
<1>5. None \notin ChunkIds
  BY ValuesAssumption
<1> HIDE DEF refs
<1>6. refs \in Seq(Ref)
  BY <1>2, <1>3, <1>4, FunctionIsSequence
<1>7. refs \in Seq(Draft)
  BY <1>6, EntriesAreChunks
<1>8. Spliced(refs, b) = b
  BY <1>1, <1>4, <1>7, SplicedIs
<1> QED BY <1>4, <1>5, <1>6, <1>7, <1>8 DEF IsPatch, refs

\* The initial state has the shape.
LEMMA InitShape == ASSUME Init PROVE Shape
<1>1. PICK earlier \in Earlier : /\ Sown(earlier)
                                 /\ head \in [Artifacts -> IF earlier = {} THEN {None} ELSE earlier]
  BY InitIsSown
<1>2. \A b \in Large : Valid(b) => b \in earlier
  BY <1>1 DEF Sown, Valid
<1>3. ASSUME NEW b \in Large, Valid(b)
      PROVE  /\ store[Manifest(b)] \in Seq(Ref)
             /\ \A i \in DOMAIN store[Manifest(b)] : IsPatch(store[Manifest(b)][i])
  <2>1. store[Manifest(b)] = [i \in DOMAIN Pieces(b) |-> [chunk |-> Pieces(b)[i], base |-> None]]
    BY <1>1, <1>2, <1>3 DEF Sown
  <2> QED BY <2>1, ListingIs
<1>4. StoreShape
  BY <1>1, <1>3 DEF StoreShape, Sown
<1>5. head \in [Artifacts -> Large \union {None}]
  BY <1>1 DEF Sown
<1>6. /\ job = [p \in Procs |-> Idle] /\ out = [a \in Artifacts |-> None]
      /\ vouched = {} /\ carried = {}
      /\ used = [ops |-> 0, damage |-> 0, edits |-> 0, crashes |-> 0, swept |-> FALSE]
  BY DEF Init
<1>7. Idle \in Job
  BY IdleShape DEF JobShape
<1> QED BY <1>4, <1>5, <1>6, <1>7, IdleShape DEF Shape, Used

\* Every step keeps the shape.
LEMMA NextShape == ASSUME Shape, [Next]_vars PROVE Shape'
<1>1. CASE UNCHANGED vars
  BY <1>1 DEF Shape, StoreShape, Valid, vars
<1>2. CASE Next
  BY <1>2, PutShape, GetShape, GcShape, AroundShape DEF Next, Operation
<1> QED BY <1>1, <1>2

\* Types (cas.rs): what a file may hold, that a manifest is a list of chunks and
\* bases of deltas, and that what a put, a restore or a collector under way
\* remembers is of its kind.
THEOREM TypeCorrect == Spec => []TypeOK
<1>1. Init => Shape
  BY InitShape
<1>2. Shape /\ [Next]_vars => Shape'
  BY NextShape
<1>3. Shape => TypeOK
  <2>1. ASSUME Shape PROVE \A b \in Large : store[Manifest(b)] \notin {Absent, Garbage} => store[Manifest(b)] \in Seq(Ref)
    BY <2>1 DEF Shape, StoreShape, Valid
  <2> QED BY <2>1 DEF Shape, StoreShape, JobShape, Job, TypeOK
<1> QED BY <1>1, <1>2, <1>3, PTL DEF Spec

------------------------------------------------------------------------------
(* While nothing rots, every file is what its name says. *)

\* Every file of the store is what its name says.
StoreTruth ==
    /\ \A b \in Blobs : store[Object(b)] \in {Absent, b}
    /\ \A c \in ChunkIds : store[Chunk(c)] \in {Absent, c}
    /\ \A s \in Shrinks : store[Delta(s[1], s[2])] \in {Absent, s[2]}
    /\ \A b \in Large : Here(Manifest(b)) =>
            Valid(b) /\ Spliced(store[Manifest(b)], b) = b

\* What a process has read or cut is true.
JobTruth(j) ==
    /\ j.drop = None
    /\ j.pc \in {"chunk", "splice"} => Spliced(j.refs, j.blob) = j.blob

\* What is about to be renamed was verified, whatever happens.
StagedTruth == \A p \in Procs : job[p].pc = "publish" => store[Staged(p)] \in {Absent, job[p].blob}

Truth ==
    /\ StagedTruth
    /\ used.damage = 0 => StoreTruth /\ \A p \in Procs : JobTruth(job[p])

(* In a store that has lost nothing, manifests come after their chunks, and *)
(* only a put under way has chunks that no manifest lists.                   *)

Pristine == used.damage = 0 /\ ~used.swept

AllChunksHere(b) == \A i \in DOMAIN Pieces(b) : Here(Chunk(Pieces(b)[i]))

\* A put has published the chunks it has done; after them comes the manifest.
Progress(j) ==
    /\ j.pc = "chunk" => \A i \in DOMAIN j.refs \ j.todo : Here(Chunk(j.refs[i].chunk))
    /\ j.pc \in {"head", "splice"} => Here(Manifest(j.blob))

Complete == Pristine => /\ \A b \in Large : Here(Manifest(b)) => AllChunksHere(b)
                        /\ \A p \in Procs : Progress(job[p])

\* Which manifests, and which puts under way, account for a chunk.
ListedIn(c, b)    == \E i \in DOMAIN Pieces(b) : Pieces(b)[i] = c
InManifest(c)     == \E b \in Large : Here(Manifest(b)) /\ ListedIn(c, b)
UnderWay(c)       == \E p \in Procs : job[p].pc = "chunk" /\ ListedIn(c, job[p].blob)

NoStray == Pristine /\ used.crashes = 0 =>
                \A c \in ChunkIds : Here(Chunk(c)) => InManifest(c) \/ UnderWay(c)

(* What was promised. *)

\* The files a carried blob is restored from.
Carriers(b) == IF b \in Large THEN {Manifest(b)} \union {Chunk(Pieces(b)[i]) : i \in DOMAIN Pieces(b)}
               ELSE {Object(b)}

\* The carriers hold what they should.
Carries(b) ==
    IF b \in Large
    THEN /\ Valid(b) /\ Spliced(store[Manifest(b)], b) = b
         /\ \A i \in DOMAIN Pieces(b) : store[Chunk(Pieces(b)[i])] = Pieces(b)[i]
    ELSE store[Object(b)] = b

\* Nobody is about to remove a file a promise rests on.
Promised ==
    /\ vouched # {} => used.damage = 0
    /\ \A b \in vouched : store[Object(b)] = b
    /\ \A b \in carried : Carries(b) /\ \A p \in Procs : job[p].drop \notin Carriers(b)

\* What a process relies on whose answer must not be a miss.
Sure(j) ==
    /\ j.answer # "miss"
    /\ j.pc \in {"chunk", "head"} /\ used.damage = 0 => store[Object(j.blob)] = j.blob
    /\ j.pc \in Getting => j.blob \in vouched \union carried
    /\ j.pc \in {"manifest", "splice"} => j.blob \in carried \intersect Large
    /\ j.pc = "splice" => ~j.failed /\ Spliced(j.refs, j.blob) = j.blob

Kept == Promised /\ \A p \in Procs : job[p].sure => Sure(job[p])

(* A restore that missed has removed the object it could not use. *)

\* The object is gone, about to go, or right; a put that follows finds none to trust.
Heals(j) ==
    /\ j.pc \in {"manifest", "splice"} \/ j.answer = "miss" =>
            j.drop = Object(j.blob) \/ store[Object(j.blob)] \in {Absent, j.blob}
    /\ j.pc \in Putting => /\ store[Object(j.blob)] \in {Absent, j.blob}
                           /\ \A q \in Procs : job[q].drop # Object(j.blob)
    /\ j.pc \in {"chunk", "head"} => store[Object(j.blob)] = j.blob

Healing == \A p \in Procs : job[p].heals => Heals(job[p])

\* The inductive invariant.
IInv == Shape /\ Truth /\ Complete /\ NoStray /\ Kept /\ Healing

------------------------------------------------------------------------------
(* Most steps only add to the store, and what they add is true. *)

\* A file that is not what its name says.
Bad(f) ==
    \/ \E b \in Blobs : f = Object(b) /\ store[Object(b)] \notin {Absent, b}
    \/ \E c \in ChunkIds : f = Chunk(c) /\ store[Chunk(c)] \notin {Absent, c}
    \/ \E s \in Shrinks : f = Delta(s[1], s[2]) /\ store[Delta(s[1], s[2])] = Garbage
    \/ \E b \in Large : f = Manifest(b) /\ store[Manifest(b)] = Garbage

\* What a step of p may do to the store without a loss.
Grown(p) ==
    /\ \A b \in Blobs : store'[Object(b)] \in {store[Object(b)], b}
    /\ \A c \in ChunkIds :
        \/ store'[Chunk(c)] = store[Chunk(c)]
        \/ /\ ~Here(Chunk(c)) /\ store'[Chunk(c)] = c
           /\ job[p].pc \in {"chunk", "splice"}
           /\ \E i \in DOMAIN job[p].refs : job[p].refs[i].chunk = c
    /\ \A s \in Shrinks : store'[Delta(s[1], s[2])] \in {store[Delta(s[1], s[2])], s[2]}
    /\ \A b \in Large :
        \/ store'[Manifest(b)] = store[Manifest(b)]
        \/ /\ ~Here(Manifest(b)) /\ store'[Manifest(b)] = job[p].refs
           /\ job[p].pc = "chunk" /\ job[p].todo = {} /\ job[p].blob = b
    /\ \A q \in Procs : q # p => store'[Staged(q)] = store[Staged(q)]

\* A step of one process that loses nothing.
Quiet(p) ==
    /\ Grown(p)
    /\ \A q \in Procs : q # p => job'[q] = job[q]
    /\ job'[p].drop = None \/ Bad(job'[p].drop)
    /\ job[p].pc = "chunk" => \/ job'[p].pc = "chunk" /\ job'[p].blob = job[p].blob
                              \/ store'[Manifest(job[p].blob)] # Absent
    /\ used'.damage = used.damage /\ used'.crashes = used.crashes /\ used'.swept = used.swept

\* What writing does to the other files.
LEMMA WriteOne ==
    ASSUME DOMAIN store = Files, NEW f \in Files, NEW content, store' = [store EXCEPT ![f] = content]
    PROVE  /\ store'[f] = content
           /\ \A g \in Files : g # f => store'[g] = store[g]
OBVIOUS

\* What publishing does to the other files, and to one that is there.
LEMMA PublishOne ==
    ASSUME DOMAIN store = Files, NEW f \in Files, NEW content, Publish(f, content)
    PROVE  /\ store'[f] = IF Here(f) THEN store[f] ELSE content
           /\ \A g \in Files : g # f => store'[g] = store[g]
<1>1. store' = [store EXCEPT ![f] = IF Here(f) THEN store[f] ELSE content]
  BY DEF Publish
<1> QED BY <1>1, WriteOne

\* A step that writes nothing lets the store grow, by nothing.
LEMMA GrownByNothing ==
    ASSUME UNCHANGED store, NEW p
    PROVE  Grown(p)
BY DEF Grown

\* A copy to a temporary file.
LEMMA GrownByStaged ==
    ASSUME DOMAIN store = Files, NEW p \in Procs, NEW content,
           store' = [store EXCEPT ![Staged(p)] = content]
    PROVE  Grown(p)
<1>1. \A g \in Files : g # Staged(p) => store'[g] = store[g]
  BY WriteOne, FileKinds
<1> QED BY <1>1, FileKinds, NamesDiffer DEF Grown

\* The rename of a temporary file that holds what was verified.
LEMMA GrownByObject ==
    ASSUME DOMAIN store = Files, NEW p \in Procs, NEW b \in Blobs, store[Staged(p)] = b,
           store' = [store EXCEPT ![Object(b)] = store[Staged(p)], ![Staged(p)] = Absent]
    PROVE  Grown(p) /\ store'[Object(b)] = b
<1>1. \A g \in Files : g # Staged(p) /\ g # Object(b) => store'[g] = store[g]
  OBVIOUS
<1>2. Object(b) # Staged(p) /\ Object(b) \in Files
  BY NamesDiffer, FileKinds
<1>3. store'[Object(b)] = b
  BY <1>2
<1>4. ASSUME NEW d \in Blobs
      PROVE  store'[Object(d)] \in {store[Object(d)], d}
  <2>1. CASE d = b
    BY <2>1, <1>3
  <2>2. CASE d # b
    BY <2>2, <1>1, FileKinds, NamesDiffer
  <2> QED BY <2>1, <2>2
<1>5. \A c \in ChunkIds : store'[Chunk(c)] = store[Chunk(c)]
  BY <1>1, FileKinds, NamesDiffer
<1>6. \A s \in Shrinks : store'[Delta(s[1], s[2])] = store[Delta(s[1], s[2])]
  BY <1>1, FileKinds, NamesDiffer
<1>7. \A d \in Large : store'[Manifest(d)] = store[Manifest(d)]
  BY <1>1, FileKinds, NamesDiffer
<1>8. \A q \in Procs : q # p => store'[Staged(q)] = store[Staged(q)]
  BY <1>1, FileKinds, NamesDiffer
<1> QED BY <1>3, <1>4, <1>5, <1>6, <1>7, <1>8 DEF Grown

\* A delta that is published.
LEMMA GrownByDelta ==
    ASSUME DOMAIN store = Files, NEW p \in Procs, NEW s \in Shrinks, Publish(Delta(s[1], s[2]), s[2])
    PROVE  Grown(p)
<1>1. Delta(s[1], s[2]) \in Files
  BY FileKinds
<1>2. \A g \in Files : g # Delta(s[1], s[2]) => store'[g] = store[g]
  BY <1>1, PublishOne
<1>3. store'[Delta(s[1], s[2])] \in {store[Delta(s[1], s[2])], s[2]}
  BY <1>1, PublishOne
<1>4. ASSUME NEW t \in Shrinks
      PROVE  store'[Delta(t[1], t[2])] \in {store[Delta(t[1], t[2])], t[2]}
  <2>1. CASE Delta(t[1], t[2]) = Delta(s[1], s[2])
    <3>1. t[2] = s[2]
      BY <2>1, NamesDiffer
    <3> QED BY <2>1, <3>1, <1>3
  <2>2. CASE Delta(t[1], t[2]) # Delta(s[1], s[2])
    BY <2>2, <1>2, FileKinds
  <2> QED BY <2>1, <2>2
<1>5. /\ \A b \in Blobs : store'[Object(b)] = store[Object(b)]
      /\ \A c \in ChunkIds : store'[Chunk(c)] = store[Chunk(c)]
      /\ \A b \in Large : store'[Manifest(b)] = store[Manifest(b)]
      /\ \A q \in Procs : store'[Staged(q)] = store[Staged(q)]
  BY <1>2, FileKinds, NamesDiffer
<1> QED BY <1>4, <1>5 DEF Grown

\* A chunk that is published, by a put or by a restore that has rebuilt it.
LEMMA GrownByChunk ==
    ASSUME DOMAIN store = Files, NEW p \in Procs, NEW i \in DOMAIN job[p].refs,
           job[p].refs[i].chunk \in ChunkIds, job[p].pc \in {"chunk", "splice"},
           Publish(Chunk(job[p].refs[i].chunk), job[p].refs[i].chunk)
    PROVE  Grown(p) /\ store'[Chunk(job[p].refs[i].chunk)] # Absent
<1> DEFINE c == job[p].refs[i].chunk
<1>1. Chunk(c) \in Files
  BY FileKinds
<1>2. \A g \in Files : g # Chunk(c) => store'[g] = store[g]
  BY <1>1, PublishOne
<1>3. store'[Chunk(c)] = IF Here(Chunk(c)) THEN store[Chunk(c)] ELSE c
  BY <1>1, PublishOne
<1>4. ASSUME NEW d \in ChunkIds
      PROVE  \/ store'[Chunk(d)] = store[Chunk(d)]
             \/ ~Here(Chunk(d)) /\ store'[Chunk(d)] = d /\ d = c
  <2>1. CASE d = c
    BY <2>1, <1>3
  <2>2. CASE d # c
    BY <2>2, <1>2, FileKinds, NamesDiffer
  <2> QED BY <2>1, <2>2
<1>5. /\ \A b \in Blobs : store'[Object(b)] = store[Object(b)]
      /\ \A s \in Shrinks : store'[Delta(s[1], s[2])] = store[Delta(s[1], s[2])]
      /\ \A b \in Large : store'[Manifest(b)] = store[Manifest(b)]
      /\ \A q \in Procs : store'[Staged(q)] = store[Staged(q)]
  <2> HIDE DEF c
  <2>1. \A b \in Blobs : store'[Object(b)] = store[Object(b)]
    BY <1>2, FileKinds, NamesDiffer
  <2>2. \A s \in Shrinks : store'[Delta(s[1], s[2])] = store[Delta(s[1], s[2])]
    BY <1>2, FileKinds, NamesDiffer
  <2>3. \A b \in Large : store'[Manifest(b)] = store[Manifest(b)]
    BY <1>2, FileKinds, NamesDiffer
  <2>4. \A q \in Procs : store'[Staged(q)] = store[Staged(q)]
    BY <1>2, FileKinds, NamesDiffer
  <2> QED BY <2>1, <2>2, <2>3, <2>4
<1>6. store'[Chunk(c)] # Absent
  <2>1. c # Absent
    BY ValuesAssumption
  <2> HIDE DEF c
  <2> QED BY <1>3, <2>1 DEF Here
<1> QED BY <1>4, <1>5, <1>6 DEF Grown

\* A manifest that is published when all its chunks were.
LEMMA GrownByManifest ==
    ASSUME DOMAIN store = Files, NEW p \in Procs, job[p].pc = "chunk", job[p].todo = {},
           job[p].blob \in Large, Publish(Manifest(job[p].blob), job[p].refs),
           job[p].refs # Absent
    PROVE  Grown(p) /\ store'[Manifest(job[p].blob)] # Absent
<1> DEFINE b == job[p].blob
<1>1. Manifest(b) \in Files
  BY FileKinds
<1>2. \A g \in Files : g # Manifest(b) => store'[g] = store[g]
  BY <1>1, PublishOne
<1>3. store'[Manifest(b)] = IF Here(Manifest(b)) THEN store[Manifest(b)] ELSE job[p].refs
  BY <1>1, PublishOne
<1>4. ASSUME NEW d \in Large
      PROVE  \/ store'[Manifest(d)] = store[Manifest(d)]
             \/ ~Here(Manifest(d)) /\ store'[Manifest(d)] = job[p].refs /\ d = b
  <2>1. CASE d = b
    BY <2>1, <1>3
  <2>2. CASE d # b
    BY <2>2, <1>2, FileKinds, NamesDiffer
  <2> QED BY <2>1, <2>2
<1>5. /\ \A c \in Blobs : store'[Object(c)] = store[Object(c)]
      /\ \A s \in Shrinks : store'[Delta(s[1], s[2])] = store[Delta(s[1], s[2])]
      /\ \A c \in ChunkIds : store'[Chunk(c)] = store[Chunk(c)]
      /\ \A q \in Procs : store'[Staged(q)] = store[Staged(q)]
  <2> HIDE DEF b
  <2>1. \A c \in Blobs : store'[Object(c)] = store[Object(c)]
    BY <1>2, FileKinds, NamesDiffer
  <2>2. \A s \in Shrinks : store'[Delta(s[1], s[2])] = store[Delta(s[1], s[2])]
    BY <1>2, FileKinds, NamesDiffer
  <2>3. \A c \in ChunkIds : store'[Chunk(c)] = store[Chunk(c)]
    BY <1>2, FileKinds, NamesDiffer
  <2>4. \A q \in Procs : store'[Staged(q)] = store[Staged(q)]
    BY <1>2, FileKinds, NamesDiffer
  <2> QED BY <2>1, <2>2, <2>3, <2>4
<1>6. store'[Manifest(b)] # Absent
  <2> HIDE DEF b
  <2> QED BY <1>3 DEF Here
<1> QED BY <1>4, <1>5, <1>6 DEF Grown

------------------------------------------------------------------------------
(* A quiet step keeps the invariant if it does so for the process that makes *)
(* it.                                                                       *)

\* What the invariant says of one process.
JobInv(p) ==
    /\ job[p].pc = "publish" => store[Staged(p)] \in {Absent, job[p].blob}
    /\ used.damage = 0 => JobTruth(job[p])
    /\ Pristine => Progress(job[p])
    /\ job[p].sure => Sure(job[p])
    /\ job[p].heals => Heals(job[p])

\* And of the store and the promises.
StoreInv ==
    /\ used.damage = 0 => StoreTruth
    /\ Pristine => \A b \in Large : Here(Manifest(b)) => AllChunksHere(b)
    /\ NoStray
    /\ Promised

\* The invariant, taken apart into the store and the processes.
LEMMA InvariantParts == IInv <=> Shape /\ StoreInv /\ \A p \in Procs : JobInv(p)
BY DEF IInv, StoreInv, JobInv, Truth, StagedTruth, Complete, Kept, Healing

\* Entries of a manifest that makes a blob list its chunks.
LEMMA EntriesAreListed ==
    ASSUME NEW b \in Blobs, NEW refs \in Seq(Draft), Spliced(refs, b) = b
    PROVE  \A i \in DOMAIN refs : ListedIn(refs[i].chunk, b)
BY SplicedIs DEF ListedIn

\* Chunks, and the parts of blobs, are contents.
LEMMA PartsAreChunks ==
    ASSUME NEW b \in Blobs
    PROVE  \A i \in DOMAIN Pieces(b) : Pieces(b)[i] \in ChunkIds /\ Pieces(b)[i] # Absent
<1>1. Pieces(b) \in Seq(ChunkIds)
  BY PiecesAreChunks
<1> QED BY <1>1, Element, ValuesAssumption

\* In a quiet step the store stays true.
LEMMA QuietTruth ==
    ASSUME IInv, NEW p \in Procs, Quiet(p), used.damage = 0
    PROVE  StoreTruth'
<1>1. StoreTruth /\ JobTruth(job[p]) /\ JobShape(job[p])
  BY DEF IInv, Truth, Shape
<1>2. Grown(p)
  BY DEF Quiet
<1>3. \A b \in Blobs : store'[Object(b)] \in {Absent, b}
  BY <1>1, <1>2 DEF StoreTruth, Grown
<1>4. \A c \in ChunkIds : store'[Chunk(c)] \in {Absent, c}
  BY <1>1, <1>2 DEF StoreTruth, Grown
<1>5. \A s \in Shrinks : store'[Delta(s[1], s[2])] \in {Absent, s[2]}
  BY <1>1, <1>2 DEF StoreTruth, Grown
<1>6. ASSUME NEW b \in Large, store'[Manifest(b)] # Absent
      PROVE  store'[Manifest(b)] # Garbage /\ Spliced(store'[Manifest(b)], b) = b
  <2>1. CASE store'[Manifest(b)] = store[Manifest(b)]
    BY <2>1, <1>1, <1>6 DEF StoreTruth, Here, Valid
  <2>2. CASE store'[Manifest(b)] = job[p].refs /\ job[p].pc = "chunk" /\ job[p].todo = {} /\ job[p].blob = b
    <3>1. Spliced(job[p].refs, b) = b
      BY <2>2, <1>1 DEF JobTruth
    <3>2. job[p].refs \in Seq(Ref)
      <4>1. job[p].refs \in Seq(Draft) /\ \A i \in DOMAIN job[p].refs : job[p].refs[i].base # Absent
        BY <2>2, <1>1 DEF JobShape, Job
      <4> QED BY <4>1, EntriesAreChunks
    <3> QED BY <3>1, <3>2, <2>2, ValuesAssumption
  <2> QED BY <2>1, <2>2, <1>2 DEF Grown
<1> QED BY <1>3, <1>4, <1>5, <1>6 DEF StoreTruth, Here, Valid

\* It leaves chunks and manifests where they are.
LEMMA QuietStays ==
    ASSUME NEW p \in Procs, Quiet(p)
    PROVE  /\ \A c \in ChunkIds : Here(Chunk(c)) => store'[Chunk(c)] = store[Chunk(c)]
           /\ \A b \in Large : Here(Manifest(b)) => store'[Manifest(b)] = store[Manifest(b)]
           /\ \A b \in Blobs : AllChunksHere(b) => AllChunksHere(b)'
<1>1. \A c \in ChunkIds : Here(Chunk(c)) => store'[Chunk(c)] = store[Chunk(c)]
  BY DEF Quiet, Grown
<1>2. \A b \in Large : Here(Manifest(b)) => store'[Manifest(b)] = store[Manifest(b)]
  BY DEF Quiet, Grown
<1>3. ASSUME NEW b \in Blobs, AllChunksHere(b)
      PROVE  AllChunksHere(b)'
  BY <1>1, <1>3, PartsAreChunks DEF AllChunksHere, Here
<1> QED BY <1>1, <1>2, <1>3

\* What a manifest that appears lists is there.
LEMMA QuietComplete ==
    ASSUME IInv, NEW p \in Procs, Quiet(p), Pristine, NEW b \in Large, store'[Manifest(b)] # Absent
    PROVE  AllChunksHere(b)'
<1>1. b \in Blobs
  BY DEF Large
<1>2. CASE Here(Manifest(b))
  BY <1>1, <1>2, QuietStays DEF IInv, Complete
<1>3. CASE ~Here(Manifest(b))
  <2>1. job[p].pc = "chunk" /\ job[p].todo = {} /\ job[p].blob = b
    BY <1>3 DEF Quiet, Grown, Here
  <2>2. Spliced(job[p].refs, b) = b /\ job[p].refs \in Seq(Draft)
    BY <2>1 DEF IInv, Truth, JobTruth, Pristine, Shape, JobShape, Job
  <2>3. \A i \in DOMAIN job[p].refs : Here(Chunk(job[p].refs[i].chunk))
    BY <2>1 DEF IInv, Complete, Progress
  <2>4. AllChunksHere(b)
    BY <1>1, <2>2, <2>3, SplicedIs DEF AllChunksHere
  <2> QED BY <1>1, <2>4, QuietStays
<1> QED BY <1>2, <1>3

\* A chunk that appears is accounted for, and so are those of before.
LEMMA QuietStrays ==
    ASSUME IInv, NEW p \in Procs, Quiet(p)
    PROVE  NoStray'
<1> SUFFICES ASSUME Pristine, used.crashes = 0, NEW c \in ChunkIds, store'[Chunk(c)] # Absent
             PROVE  InManifest(c)' \/ UnderWay(c)'
  BY DEF NoStray, Pristine, Quiet, Here
<1>1. JobTruth(job[p]) /\ JobShape(job[p]) /\ Progress(job[p])
  BY DEF IInv, Truth, Shape, Complete, Pristine
<1>2. InManifest(c) \/ UnderWay(c)
  <2>1. CASE Here(Chunk(c))
    BY <2>1 DEF IInv, NoStray
  <2>2. CASE ~Here(Chunk(c))
    <3>1. job[p].pc \in {"chunk", "splice"} /\ \E i \in DOMAIN job[p].refs : job[p].refs[i].chunk = c
      BY <2>2 DEF Quiet, Grown, Here
    <3>2. job[p].blob \in Blobs /\ job[p].refs \in Seq(Draft)
      BY <3>1, <1>1 DEF JobShape, Job, Putting, Getting
    <3>3. Spliced(job[p].refs, job[p].blob) = job[p].blob
      BY <3>1, <1>1 DEF JobTruth
    <3>4. ListedIn(c, job[p].blob)
      BY <3>1, <3>2, <3>3, EntriesAreListed
    <3>5. CASE job[p].pc = "chunk"
      BY <3>4, <3>5 DEF UnderWay
    <3>6. CASE job[p].pc = "splice"
      <4>1. Here(Manifest(job[p].blob))
        BY <3>6, <1>1 DEF Progress
      <4>2. job[p].blob \in Large
        BY <3>6, <1>1 DEF JobShape
      <4> QED BY <3>4, <4>1, <4>2 DEF InManifest
    <3> QED BY <3>1, <3>5, <3>6
  <2> QED BY <2>1, <2>2
<1>3. CASE InManifest(c)
  BY <1>3, QuietStays DEF InManifest, Here, ListedIn
<1>4. CASE UnderWay(c)
  <2>1. PICK q \in Procs : job[q].pc = "chunk" /\ ListedIn(c, job[q].blob)
    BY <1>4 DEF UnderWay
  <2>2. CASE q # p
    <3>1. job'[q] = job[q]
      BY <2>2 DEF Quiet
    <3> QED BY <2>1, <3>1 DEF UnderWay, ListedIn
  <2>3. CASE q = p
    <3>1. job[p].blob \in Large
      BY <2>1, <2>3, <1>1 DEF JobShape
    <3>2. CASE job'[p].pc = "chunk" /\ job'[p].blob = job[p].blob
      BY <2>1, <2>3, <3>2 DEF UnderWay, ListedIn
    <3>3. CASE store'[Manifest(job[p].blob)] # Absent
      BY <2>1, <2>3, <3>1, <3>3 DEF InManifest, ListedIn, Here
    <3> QED BY <2>1, <2>3, <3>2, <3>3 DEF Quiet
  <2> QED BY <2>2, <2>3
<1> QED BY <1>2, <1>3, <1>4

\* A file on which a promise rests is not bad, nor is one in a true store.
LEMMA BadIsNotCarried ==
    ASSUME NEW b \in Blobs, Carries(b), NEW f, Bad(f)
    PROVE  f \notin Carriers(b)
<1>1. CASE b \in Large
  <2>1. f # Manifest(b)
    BY <1>1, NamesDiffer DEF Bad, Carries, Valid
  <2>2. ASSUME NEW i \in DOMAIN Pieces(b)
        PROVE  f # Chunk(Pieces(b)[i])
    BY <1>1, NamesDiffer DEF Bad, Carries
  <2> QED BY <2>1, <2>2, <1>1 DEF Carriers
<1>2. CASE b \notin Large
  BY <1>2, NamesDiffer DEF Bad, Carries, Carriers
<1> QED BY <1>1, <1>2

\* Nor is an object that is what it should be.
LEMMA BadIsNotObject ==
    ASSUME NEW b \in Blobs, store[Object(b)] \in {Absent, b}, NEW f, Bad(f)
    PROVE  f # Object(b)
BY NamesDiffer DEF Bad

\* In a true store there is nothing to remove.
LEMMA NothingIsBad ==
    ASSUME StoreTruth, NEW f
    PROVE  ~Bad(f)
<1>1. \A s \in Shrinks : store[Delta(s[1], s[2])] # Garbage
  BY ContentsAssumption, ValuesAssumption DEF StoreTruth
<1>2. \A b \in Large : store[Manifest(b)] # Garbage
  BY ValuesAssumption DEF StoreTruth, Here, Valid
<1> QED BY <1>1, <1>2 DEF StoreTruth, Bad

\* What carries a blob goes on to do so.
LEMMA QuietCarries ==
    ASSUME NEW p \in Procs, Quiet(p), NEW b \in Blobs, Carries(b)
    PROVE  Carries(b)'
<1>1. CASE b \in Large
  <2>1. store'[Manifest(b)] = store[Manifest(b)]
    BY <1>1, QuietStays DEF Carries, Valid, Here
  <2>2. ASSUME NEW i \in DOMAIN Pieces(b)
        PROVE  store'[Chunk(Pieces(b)[i])] = Pieces(b)[i]
    BY <1>1, QuietStays, PartsAreChunks DEF Carries, Here
  <2> QED BY <2>1, <2>2, <1>1 DEF Carries, Valid
<1>2. CASE b \notin Large
  BY <1>2 DEF Quiet, Grown, Carries
<1> QED BY <1>1, <1>2

\* What is promised stays so, and what is newly promised is there.
LEMMA QuietPromised ==
    ASSUME IInv, Shape', NEW p \in Procs, Quiet(p),
           \A b \in vouched' \ vouched : used.damage = 0 /\ store'[Object(b)] = b,
           \A b \in carried' \ carried : used.damage = 0 /\ Carries(b)',
           \A q \in Procs : used.damage = 0 => job'[q].drop = None
    PROVE  Promised'
<1>1. Promised /\ vouched \subseteq Blobs /\ carried \subseteq Blobs /\ used'.damage = used.damage
  BY DEF IInv, Kept, Shape, Quiet
<1>2. vouched' # {} => used'.damage = 0
  BY <1>1 DEF Promised
<1>3. ASSUME NEW b \in vouched'
      PROVE  store'[Object(b)] = b
  <2>1. CASE b \in vouched
    BY <1>1, <2>1 DEF Promised, Quiet, Grown
  <2> QED BY <2>1
<1>4. ASSUME NEW b \in carried'
      PROVE  Carries(b)' /\ \A q \in Procs : job'[q].drop \notin Carriers(b)
  <2>1. CASE b \in carried
    <3>1. b \in Blobs /\ Carries(b) /\ \A q \in Procs : job[q].drop \notin Carriers(b)
      BY <1>1, <2>1 DEF Promised
    <3>2. Carries(b)'
      BY <3>1, QuietCarries
    <3>3. job'[p].drop \notin Carriers(b)
      <4>1. None \notin Carriers(b)
        BY <3>1, FileKinds, PartsAreChunks, ValuesAssumption DEF Carriers
      <4> QED BY <3>1, <4>1, BadIsNotCarried DEF Quiet
    <3> QED BY <3>1, <3>2, <3>3 DEF Quiet
  <2>2. CASE b \notin carried
    <3>1. Carries(b)' /\ \A q \in Procs : job'[q].drop = None
      BY <2>2
    <3>2. b \in Blobs
      BY DEF Shape
    <3>3. None \notin Carriers(b)
      BY <3>2, FileKinds, PartsAreChunks, ValuesAssumption DEF Carriers
    <3> QED BY <3>1, <3>3
  <2> QED BY <2>1, <2>2
<1> QED BY <1>2, <1>3, <1>4 DEF Promised, Carriers

\* The other processes do not notice.
LEMMA QuietOthers ==
    ASSUME IInv, NEW p \in Procs, Quiet(p), vouched \subseteq vouched', carried \subseteq carried',
           NEW q \in Procs, q # p
    PROVE  JobInv(q)'
<1>1. job'[q] = job[q] /\ JobShape(job[q]) /\ JobInv(q) /\ Grown(p)
  BY InvariantParts DEF Quiet, Shape
<1>2. used'.damage = used.damage /\ used'.swept = used.swept
  BY DEF Quiet
<1>3. job[q].pc \in Putting \union Getting => job[q].blob \in Blobs
  BY <1>1 DEF JobShape
<1>4. job[q].pc = "publish" => store'[Staged(q)] \in {Absent, job[q].blob}
  BY <1>1 DEF JobInv, Grown
<1>5. used.damage = 0 => JobTruth(job[q])
  BY <1>1 DEF JobInv
<1>6. Pristine => Progress(job[q])'
  <2> SUFFICES ASSUME Pristine
               PROVE  Progress(job[q])'
    OBVIOUS
  <2>1. Progress(job[q])
    BY <1>1 DEF JobInv
  <2>2. ASSUME job[q].pc = "chunk", NEW i \in DOMAIN job[q].refs \ job[q].todo
        PROVE  store'[Chunk(job[q].refs[i].chunk)] # Absent
    <3>1. job[q].refs[i].chunk \in ChunkIds
      BY <1>1, EntriesAreChunks DEF JobShape, Job
    <3> QED BY <2>1, <2>2, <3>1, QuietStays DEF Progress, Here
  <2>3. ASSUME job[q].pc \in {"head", "splice"}
        PROVE  store'[Manifest(job[q].blob)] # Absent
    <3>1. job[q].blob \in Large
      BY <2>3, <1>1 DEF JobShape
    <3> QED BY <2>1, <2>3, <3>1, QuietStays DEF Progress, Here
  <2> QED BY <2>2, <2>3, <1>1 DEF Progress, Here
<1>7. ASSUME job[q].sure
      PROVE  Sure(job[q])'
  <2>1. Sure(job[q])
    BY <1>1, <1>7 DEF JobInv
  <2>2. job[q].pc \in {"chunk", "head"} /\ used.damage = 0 => store'[Object(job[q].blob)] = job[q].blob
    BY <2>1, <1>1, <1>3 DEF Sure, Grown, Putting
  <2>3. job[q].pc \in Getting => job[q].blob \in vouched' \union carried'
    BY <2>1 DEF Sure
  <2>4. job[q].pc \in {"manifest", "splice"} => job[q].blob \in carried' \intersect Large
    BY <2>1 DEF Sure
  <2> QED BY <2>1, <2>2, <2>3, <2>4, <1>1, <1>2 DEF Sure
<1>8. ASSUME job[q].heals
      PROVE  Heals(job[q])'
  <2>1. Heals(job[q])
    BY <1>1, <1>8 DEF JobInv
  <2>2. job[q].pc \in Putting =>
            /\ store'[Object(job[q].blob)] \in {Absent, job[q].blob}
            /\ \A r \in Procs : job'[r].drop # Object(job[q].blob)
    <3> SUFFICES ASSUME job[q].pc \in Putting
                 PROVE  /\ store'[Object(job[q].blob)] \in {Absent, job[q].blob}
                        /\ \A r \in Procs : job'[r].drop # Object(job[q].blob)
      OBVIOUS
    <3>1. /\ job[q].blob \in Blobs /\ store[Object(job[q].blob)] \in {Absent, job[q].blob}
          /\ \A r \in Procs : job[r].drop # Object(job[q].blob)
      BY <2>1, <1>3 DEF Heals
    <3>2. job'[p].drop # Object(job[q].blob)
      BY <3>1, BadIsNotObject, FileKinds, ValuesAssumption DEF Quiet
    <3> QED BY <3>1, <3>2, <1>1 DEF Quiet, Grown
  <2>3. job[q].pc \in {"manifest", "splice"} \/ job[q].answer = "miss" =>
            job[q].drop = Object(job[q].blob) \/ store'[Object(job[q].blob)] \in {Absent, job[q].blob}
    <3>1. job[q].pc \in {"manifest", "splice"} \/ job[q].answer = "miss" => job[q].blob \in Blobs
      BY <1>1 DEF JobShape, Getting
    <3> QED BY <2>1, <1>1, <3>1 DEF Heals, Grown
  <2>4. job[q].pc \in {"chunk", "head"} => store'[Object(job[q].blob)] = job[q].blob
    BY <2>1, <1>1, <1>3 DEF Heals, Grown, Putting
  <2> QED BY <2>2, <2>3, <2>4, <1>1 DEF Heals
<1> QED BY <1>1, <1>2, <1>4, <1>5, <1>6, <1>7, <1>8 DEF JobInv, Pristine, JobTruth

\* All together: what is left to show of a quiet step.
LEMMA QuietKeeps ==
    ASSUME IInv, Shape', NEW p \in Procs, Quiet(p), JobInv(p)',
           vouched \subseteq vouched', carried \subseteq carried',
           \A b \in vouched' \ vouched : used.damage = 0 /\ store'[Object(b)] = b,
           \A b \in carried' \ carried : used.damage = 0 /\ Carries(b)'
    PROVE  IInv'
<1>1. \A q \in Procs : JobInv(q)'
  BY QuietOthers
<1>2. used.damage = 0 <=> used'.damage = 0
  BY DEF Quiet
<1>3. Pristine <=> Pristine'
  BY DEF Quiet, Pristine
<1>4. used'.damage = 0 => StoreTruth'
  BY <1>2, QuietTruth
<1>5. Pristine' => \A b \in Large : store'[Manifest(b)] # Absent => AllChunksHere(b)'
  BY <1>3, QuietComplete
<1>6. NoStray'
  BY QuietStrays
<1>7. \A q \in Procs : used.damage = 0 => job'[q].drop = None
  BY <1>1, <1>2 DEF JobInv, JobTruth
<1>8. Promised'
  BY <1>7, QuietPromised
<1>9. StoreInv'
  BY <1>4, <1>5, <1>6, <1>8 DEF StoreInv, Here
<1> QED BY <1>1, <1>9 DEF IInv, StoreInv, JobInv, Truth, StagedTruth, Complete, Kept, Healing

------------------------------------------------------------------------------
(* The quiet steps, one by one. *)

\* The fields of a job that has moved on.
LEMMA StepIs ==
    ASSUME job \in [Procs -> Job], NEW p \in Procs, NEW pc, Step(p, pc)
    PROVE  /\ job'[p].pc = pc /\ job'[p].blob = job[p].blob /\ job'[p].artifact = job[p].artifact
           /\ job'[p].refs = job[p].refs /\ job'[p].todo = job[p].todo
           /\ job'[p].failed = job[p].failed /\ job'[p].drop = job[p].drop
           /\ job'[p].sure = job[p].sure /\ job'[p].heals = job[p].heals
           /\ job'[p].answer = job[p].answer
           /\ \A q \in Procs : q # p => job'[q] = job[q]
<1>1. job'[p] = [job[p] EXCEPT !.pc = pc] /\ \A q \in Procs : q # p => job'[q] = job[q]
  BY JobStep DEF Step
<1>2. job[p] \in Job
  OBVIOUS
<1> QED BY <1>1, <1>2 DEF Job

\* What the invariant says before a step of p.
LEMMA Before ==
    ASSUME IInv, NEW p \in Procs
    PROVE  /\ job \in [Procs -> Job] /\ job[p] \in Job /\ JobShape(job[p]) /\ JobInv(p)
           /\ DOMAIN store = Files /\ StoreInv /\ vouched \subseteq Blobs /\ carried \subseteq Blobs
BY InvariantParts DEF Shape, StoreShape

\* An answer ends what the invariant says of a process, but for a miss.
LEMMA AnswerInv ==
    ASSUME IInv, NEW p \in Procs, NEW a \in {"miss", "vanished", "hit", "error", "stored", "swept"},
           Answer(p, a),
           a = "miss" => ~job[p].sure,
           a = "miss" /\ job[p].heals => store'[Object(job[p].blob)] \in {Absent, job[p].blob}
    PROVE  /\ JobInv(p)'
           /\ job'[p].drop = None /\ job'[p].pc = "idle"
           /\ \A q \in Procs : q # p => job'[q] = job[q]
<1>1. job \in [Procs -> Job]
  BY Before
<1>2. /\ job'[p].pc = "idle" /\ job'[p].drop = None /\ job'[p].answer = a
      /\ a = "miss" => /\ job'[p].blob = job[p].blob
                       /\ job'[p].sure = job[p].sure /\ job'[p].heals = job[p].heals
      /\ a # "miss" => job'[p].sure = FALSE /\ job'[p].heals = FALSE
      /\ \A q \in Procs : q # p => job'[q] = job[q]
  BY <1>1, AnswerIs
<1>3. JobTruth(job[p])' /\ Progress(job[p])'
  BY <1>2 DEF JobTruth, Progress
<1>4. ~job'[p].sure
  BY <1>2
<1>5. job'[p].heals => Heals(job[p])'
  BY <1>2 DEF Heals, Putting
<1> QED BY <1>2, <1>3, <1>4, <1>5 DEF JobInv

\* put: the copy is verified before it is renamed.
LEMMA StageKeeps ==
    ASSUME IInv, Shape', NEW p \in Procs, Stage(p)
    PROVE  IInv'
<1> DEFINE b == job[p].blob
<1>1. /\ job \in [Procs -> Job] /\ job[p] \in Job /\ JobShape(job[p]) /\ JobInv(p)
      /\ DOMAIN store = Files
  BY Before
<1>2. job[p].pc = "put" /\ job[p].drop = None /\ UNCHANGED <<vouched, carried, used>>
  BY DEF Stage, At
<1>3. b \in Blobs /\ job[p].answer = None /\ None # "miss"
  BY <1>1, <1>2, ValuesAssumption DEF JobShape, Putting
<1>4. ASSUME NEW pc \in {"stat", "publish"}, Step(p, pc),
             \A c \in Blobs : store'[Object(c)] = store[Object(c)],
             pc = "publish" => store'[Staged(p)] \in {Absent, b}
      PROVE  /\ JobInv(p)' /\ job'[p].drop = None /\ \A q \in Procs : q # p => job'[q] = job[q]
  <2>1. /\ job'[p].pc = pc /\ job'[p].blob = b /\ job'[p].drop = None /\ job'[p].answer = None
        /\ job'[p].sure = job[p].sure /\ job'[p].heals = job[p].heals
        /\ \A q \in Procs : q # p => job'[q] = job[q]
    BY <1>1, <1>2, <1>3, <1>4, StepIs
  <2>2. JobTruth(job[p])' /\ Progress(job[p])'
    BY <2>1, <1>4 DEF JobTruth, Progress
  <2>3. Sure(job[p])'
    BY <2>1, <1>3, <1>4 DEF Sure, Getting
  <2>4. ASSUME job[p].heals
        PROVE  Heals(job[p])'
    <3>1. store[Object(b)] \in {Absent, b} /\ \A q \in Procs : job[q].drop # Object(b)
      BY <2>4, <1>1, <1>2 DEF JobInv, Heals, Putting
    <3>2. \A q \in Procs : job'[q].drop # Object(b)
      BY <3>1, <2>1, <1>2
    <3> QED BY <3>1, <3>2, <2>1, <1>3, <1>4 DEF Heals, Putting
  <2> QED BY <2>1, <2>2, <2>3, <2>4, <1>4 DEF JobInv
<1>5. Grown(p) /\ JobInv(p)' /\ job'[p].drop = None /\ \A q \in Procs : q # p => job'[q] = job[q]
  <2>1. CASE Step(p, "stat") /\ UNCHANGED store
    BY <2>1, <1>4, GrownByNothing
  <2>2. CASE Step(p, "publish") /\ store' = [store EXCEPT ![Staged(p)] = b]
    <3>1. store'[Staged(p)] = b /\ \A g \in Files : g # Staged(p) => store'[g] = store[g]
      BY <2>2, <1>1, WriteOne, FileKinds
    <3>2. \A c \in Blobs : store'[Object(c)] = store[Object(c)]
      BY <3>1, FileKinds, NamesDiffer
    <3> QED BY <2>2, <3>1, <3>2, <1>1, <1>4, GrownByStaged
  <2>3. CASE Answer(p, "error") /\ UNCHANGED store
    BY <2>3, AnswerInv, GrownByNothing
  <2> QED BY <2>1, <2>2, <2>3 DEF Stage, Verified
<1>6. Quiet(p)
  BY <1>2, <1>5 DEF Quiet
<1> QED BY <1>2, <1>5, <1>6, QuietKeeps

\* put: the rename makes a verified copy the object, or fails.
LEMMA PublishObjectKeeps ==
    ASSUME IInv, Shape', NEW p \in Procs, PublishObject(p)
    PROVE  IInv'
<1> DEFINE b == job[p].blob
<1>1. /\ job \in [Procs -> Job] /\ job[p] \in Job /\ JobShape(job[p]) /\ JobInv(p)
      /\ DOMAIN store = Files
  BY Before
<1>2. job[p].pc = "publish" /\ job[p].drop = None /\ UNCHANGED <<vouched, carried, used>>
  BY DEF PublishObject, At
<1>3. b \in Blobs /\ job[p].answer = None /\ None # "miss" /\ store[Staged(p)] \in {Absent, b}
  BY <1>1, <1>2, ValuesAssumption DEF JobShape, Putting, JobInv
<1>4. Grown(p) /\ store'[Object(b)] \in {store[Object(b)], b}
  <2>1. CASE Here(Staged(p))
    <3>1. store' = [store EXCEPT ![Object(b)] = store[Staged(p)], ![Staged(p)] = Absent]
      BY <2>1 DEF PublishObject
    <3>2. store[Staged(p)] = b
      BY <2>1, <1>3 DEF Here
    <3> HIDE DEF b
    <3> QED BY <3>1, <3>2, <1>1, <1>3, GrownByObject
  <2>2. CASE ~Here(Staged(p))
    BY <2>2, GrownByNothing DEF PublishObject
  <2> QED BY <2>1, <2>2
<1>5. JobInv(p)' /\ job'[p].drop = None /\ \A q \in Procs : q # p => job'[q] = job[q]
  <2>1. CASE Step(p, "stat")
    <3>1. /\ job'[p].pc = "stat" /\ job'[p].blob = b /\ job'[p].drop = None /\ job'[p].answer = None
          /\ job'[p].sure = job[p].sure /\ job'[p].heals = job[p].heals
          /\ \A q \in Procs : q # p => job'[q] = job[q]
      BY <1>1, <1>2, <1>3, <2>1, StepIs
    <3>2. JobTruth(job[p])' /\ Progress(job[p])'
      BY <3>1 DEF JobTruth, Progress
    <3>3. Sure(job[p])'
      BY <3>1, <1>3 DEF Sure, Getting
    <3>4. ASSUME job[p].heals
          PROVE  Heals(job[p])'
      <4>1. store[Object(b)] \in {Absent, b} /\ \A q \in Procs : job[q].drop # Object(b)
        BY <3>4, <1>1, <1>2 DEF JobInv, Heals, Putting
      <4>2. \A q \in Procs : job'[q].drop # Object(b)
        BY <4>1, <3>1, <1>2
      <4> QED BY <4>1, <4>2, <3>1, <1>3, <1>4 DEF Heals, Putting
    <3> QED BY <3>1, <3>2, <3>3, <3>4 DEF JobInv
  <2>2. CASE Answer(p, "error")
    BY <2>2, AnswerInv
  <2> QED BY <2>1, <2>2 DEF PublishObject
<1>6. Quiet(p)
  BY <1>2, <1>4, <1>5 DEF Quiet
<1> QED BY <1>2, <1>5, <1>6, QuietKeeps

\* When a put succeeds, what it promises is there.
LEMMA StoredKeeps ==
    ASSUME IInv, Shape', NEW p \in Procs, Stored(p), UNCHANGED <<store, used>>,
           job[p].drop = None, job[p].blob \in Blobs,
           job[p].pc = "chunk" => Here(Manifest(job[p].blob)),
           used.damage = 0 /\ job[p].sure => store[Object(job[p].blob)] = job[p].blob,
           Pristine => Carries(job[p].blob)
    PROVE  IInv'
<1> DEFINE b == job[p].blob
<1>1. JobInv(p)' /\ job'[p].drop = None /\ \A q \in Procs : q # p => job'[q] = job[q]
  BY AnswerInv DEF Stored
<1>2. Grown(p)
  BY GrownByNothing
<1>3. Quiet(p)
  BY <1>1, <1>2 DEF Quiet, Here
<1>4. vouched \subseteq vouched' /\ carried \subseteq carried'
  BY DEF Stored
<1>5. \A c \in vouched' \ vouched : used.damage = 0 /\ store'[Object(c)] = c
  BY DEF Stored
<1>6. \A c \in carried' \ carried : used.damage = 0 /\ Carries(c)'
  BY DEF Stored, Pristine, Carries, Valid
<1> QED BY <1>1, <1>3, <1>4, <1>5, <1>6, QuietKeeps

\* In a store that has lost nothing a manifest carries its blob.
LEMMA ManifestCarries ==
    ASSUME IInv, Pristine, NEW b \in Large, Here(Manifest(b))
    PROVE  Carries(b)
<1>1. StoreTruth /\ AllChunksHere(b) /\ b \in Blobs
  BY DEF IInv, Truth, Complete, Pristine, Large
<1>2. Valid(b) /\ Spliced(store[Manifest(b)], b) = b
  BY <1>1 DEF StoreTruth
<1>3. \A i \in DOMAIN Pieces(b) : store[Chunk(Pieces(b)[i])] = Pieces(b)[i]
  BY <1>1, PartsAreChunks DEF StoreTruth, AllChunksHere, Here
<1> QED BY <1>2, <1>3 DEF Carries

\* put: small objects and those with a manifest are done, others are cut.
LEMMA StatObjectKeeps ==
    ASSUME IInv, Shape', NEW p \in Procs, StatObject(p)
    PROVE  IInv'
<1> DEFINE b == job[p].blob
<1>1. /\ job \in [Procs -> Job] /\ job[p] \in Job /\ JobShape(job[p]) /\ JobInv(p)
      /\ DOMAIN store = Files
  BY Before
<1>2. job[p].pc = "stat" /\ job[p].drop = None /\ UNCHANGED <<store, used>>
  BY DEF StatObject, At
<1>3. b \in Blobs /\ job[p].answer = None /\ None # "miss"
  BY <1>1, <1>2, ValuesAssumption DEF JobShape, Putting
<1>4. CASE Answer(p, "error") /\ UNCHANGED <<vouched, carried>>
  <2>1. JobInv(p)' /\ job'[p].drop = None /\ \A q \in Procs : q # p => job'[q] = job[q]
    BY <1>4, AnswerInv
  <2>2. Quiet(p)
    BY <1>2, <2>1, GrownByNothing DEF Quiet
  <2> QED BY <1>4, <2>1, <2>2, QuietKeeps
<1>5. Here(Object(b)) /\ used.damage = 0 => store[Object(b)] = b
  BY <1>3 DEF IInv, Truth, StoreTruth, Here
<1>6. CASE Here(Object(b)) /\ (b \notin Large \/ Here(Manifest(b))) /\ Stored(p)
  <2>1. Pristine => Carries(b)
    <3>1. CASE b \in Large
      BY <3>1, <1>6, ManifestCarries
    <3>2. CASE b \notin Large
      BY <3>2, <1>5, <1>6 DEF Carries, Pristine
    <3> QED BY <3>1, <3>2
  <2> QED BY <1>2, <1>3, <1>5, <1>6, <2>1, StoredKeeps
<1>7. CASE Set(p, Opened(p)) /\ Here(Object(b)) /\ UNCHANGED <<vouched, carried>>
  <2> DEFINE pieces == Pieces(store[Object(b)])
             refs == [i \in DOMAIN pieces |-> [chunk |-> pieces[i], base |-> Absent]]
  <2>1. /\ job'[p] = Opened(p) /\ \A q \in Procs : q # p => job'[q] = job[q]
    BY <1>1, <1>7, JobStep
  <2>2. /\ job'[p].pc = "chunk" /\ job'[p].refs = refs /\ job'[p].todo = DOMAIN refs /\ job'[p].blob = b
        /\ job'[p].drop = None /\ job'[p].answer = None
        /\ job'[p].sure = job[p].sure /\ job'[p].heals = job[p].heals
    BY <2>1, <1>1, <1>2, <1>3 DEF Opened, Job
  <2>3. refs \in Seq(Draft)
    BY <2>2 DEF Shape, Job
  <2>4. \A i \in DOMAIN refs : refs[i].chunk = pieces[i]
    OBVIOUS
  <2>5. DOMAIN refs = DOMAIN pieces
    OBVIOUS
  <2> HIDE DEF refs
  <2>6. used.damage = 0 => Spliced(refs, b) = b
    <3>1. used.damage = 0 => pieces = Pieces(b)
      BY <1>5, <1>7
    <3> HIDE DEF pieces
    <3> QED BY <3>1, <2>3, <2>4, <2>5, <1>3, SplicedIs
  <2>7. used.damage = 0 => JobTruth(job[p])'
    BY <2>2, <2>6 DEF JobTruth
  <2>8. Progress(job[p])'
    BY <2>2 DEF Progress
  <2>9. Sure(job[p])'
    BY <2>2, <1>2, <1>3, <1>5, <1>7 DEF Sure, Getting
  <2>10. ASSUME job[p].heals
         PROVE  Heals(job[p])'
    <3>1. store[Object(b)] = b /\ \A q \in Procs : job[q].drop # Object(b)
      BY <2>10, <1>1, <1>2, <1>7 DEF JobInv, Heals, Putting, Here
    <3>2. \A q \in Procs : job'[q].drop # Object(b)
      BY <3>1, <2>1, <2>2, <1>2
    <3> QED BY <3>1, <3>2, <2>2, <1>2, <1>3 DEF Heals, Putting
  <2>11. JobInv(p)'
    BY <2>2, <2>7, <2>8, <2>9, <2>10, <1>2 DEF JobInv, Pristine
  <2>12. Quiet(p)
    BY <1>2, <2>1, <2>2, GrownByNothing DEF Quiet
  <2> QED BY <1>7, <2>11, <2>12, QuietKeeps
<1> QED BY <1>4, <1>6, <1>7 DEF StatObject

\* put_chunks: the head comes last, when the manifest carries the blob.
LEMMA PublishHeadKeeps ==
    ASSUME IInv, Shape', NEW p \in Procs, PublishHead(p)
    PROVE  IInv'
<1>1. job[p].pc = "head" /\ job[p].drop = None /\ Stored(p) /\ UNCHANGED <<store, used>>
  BY DEF PublishHead, At
<1>2. JobShape(job[p]) /\ JobInv(p)
  BY Before
<1>3. job[p].blob \in Large /\ job[p].blob \in Blobs
  BY <1>1, <1>2 DEF JobShape, Putting
<1>4. Pristine => Carries(job[p].blob)
  BY <1>1, <1>2, <1>3, ManifestCarries DEF JobInv, Progress
<1>5. used.damage = 0 /\ job[p].sure => store[Object(job[p].blob)] = job[p].blob
  BY <1>1, <1>2 DEF JobInv, Sure
<1> QED BY <1>1, <1>3, <1>4, <1>5, StoredKeeps

\* put_chunks: the manifest comes when all its chunks are there.
LEMMA PublishManifestKeeps ==
    ASSUME IInv, Shape', NEW p \in Procs, PublishManifest(p)
    PROVE  IInv'
<1> DEFINE b == job[p].blob
<1>1. /\ job \in [Procs -> Job] /\ job[p] \in Job /\ JobShape(job[p]) /\ JobInv(p)
      /\ DOMAIN store = Files
  BY Before
<1>2. /\ job[p].pc = "chunk" /\ job[p].drop = None /\ job[p].todo = {}
      /\ UNCHANGED <<vouched, carried, used>>
      /\ Publish(Manifest(b), job[p].refs) /\ Step(p, "head")
  BY DEF PublishManifest, At
<1>3. b \in Blobs /\ b \in Large /\ job[p].answer = None /\ None # "miss"
  BY <1>1, <1>2, ValuesAssumption DEF JobShape, Putting
<1>4. job[p].refs # Absent
  <2>1. job[p].refs \in Seq(Draft) /\ \A i \in DOMAIN job[p].refs : job[p].refs[i].base # Absent
    BY <1>1, <1>2 DEF JobShape, Job
  <2>2. job[p].refs \in Seq(Ref)
    BY <2>1, EntriesAreChunks
  <2> QED BY <2>2, ValuesAssumption
<1>5. Grown(p) /\ store'[Manifest(b)] # Absent
  BY <1>1, <1>2, <1>3, <1>4, GrownByManifest
<1>6. /\ job'[p].pc = "head" /\ job'[p].blob = b /\ job'[p].drop = None /\ job'[p].answer = None
      /\ job'[p].sure = job[p].sure /\ job'[p].heals = job[p].heals
      /\ \A q \in Procs : q # p => job'[q] = job[q]
  BY <1>1, <1>2, <1>3, StepIs
<1>7. JobTruth(job[p])' /\ Progress(job[p])'
  BY <1>5, <1>6 DEF JobTruth, Progress, Here
<1>8. store'[Object(b)] \in {store[Object(b)], b}
  BY <1>3, <1>5 DEF Grown
<1>9. job[p].sure => Sure(job[p])'
  BY <1>1, <1>2, <1>3, <1>6, <1>8 DEF Sure, Getting, JobInv
<1>10. ASSUME job[p].heals
       PROVE  Heals(job[p])'
  <2>1. store[Object(b)] = b /\ \A q \in Procs : job[q].drop # Object(b)
    BY <1>10, <1>1, <1>2 DEF JobInv, Heals, Putting
  <2>2. \A q \in Procs : job'[q].drop # Object(b)
    BY <2>1, <1>2, <1>6
  <2> QED BY <2>1, <2>2, <1>3, <1>6, <1>8 DEF Heals, Putting
<1>11. JobInv(p)'
  BY <1>6, <1>7, <1>9, <1>10 DEF JobInv
<1>12. Quiet(p)
  BY <1>2, <1>5, <1>6 DEF Quiet
<1> QED BY <1>2, <1>11, <1>12, QuietKeeps

\* put_chunks: a chunk is published.
LEMMA PublishChunkKeeps ==
    ASSUME IInv, Shape', NEW p \in Procs, NEW i \in job[p].todo, PublishChunk(p, i)
    PROVE  IInv'
<1> DEFINE b == job[p].blob
           c == job[p].refs[i].chunk
<1>1. /\ job \in [Procs -> Job] /\ job[p] \in Job /\ JobShape(job[p]) /\ JobInv(p)
      /\ DOMAIN store = Files
  BY Before
<1>2. /\ job[p].pc = "chunk" /\ job[p].drop = None /\ UNCHANGED <<vouched, carried, used>>
      /\ Publish(Chunk(c), c) /\ Set(p, [job[p] EXCEPT !.todo = @ \ {i}])
  BY DEF PublishChunk, At
<1>3. b \in Blobs /\ job[p].answer = None /\ None # "miss" /\ job[p].todo \subseteq DOMAIN job[p].refs
  BY <1>1, <1>2, ValuesAssumption DEF JobShape, Putting
<1>4. i \in DOMAIN job[p].refs /\ \A k \in DOMAIN job[p].refs : job[p].refs[k].chunk \in ChunkIds
  BY <1>1, <1>3, EntriesAreChunks DEF Job
<1>5. Grown(p) /\ store'[Chunk(c)] # Absent
  BY <1>1, <1>2, <1>4, GrownByChunk
<1>6. /\ job'[p].pc = "chunk" /\ job'[p].blob = b /\ job'[p].drop = None /\ job'[p].answer = None
      /\ job'[p].sure = job[p].sure /\ job'[p].heals = job[p].heals
      /\ job'[p].refs = job[p].refs /\ job'[p].todo = job[p].todo \ {i}
      /\ \A q \in Procs : q # p => job'[q] = job[q]
  <2>1. job'[p] = [job[p] EXCEPT !.todo = @ \ {i}] /\ \A q \in Procs : q # p => job'[q] = job[q]
    BY <1>1, <1>2, JobStep
  <2> QED BY <2>1, <1>1, <1>2, <1>3 DEF Job
<1>7. Quiet(p)
  BY <1>2, <1>5, <1>6 DEF Quiet
<1>8. used.damage = 0 => JobTruth(job[p])'
  BY <1>1, <1>2, <1>6 DEF JobInv, JobTruth
<1>9. ASSUME Pristine
      PROVE  Progress(job[p])'
  <2>1. ASSUME NEW k \in DOMAIN job[p].refs \ (job[p].todo \ {i})
        PROVE  store'[Chunk(job[p].refs[k].chunk)] # Absent
    <3>1. CASE k = i
      BY <3>1, <1>5
    <3>2. CASE k # i
      <4>1. Here(Chunk(job[p].refs[k].chunk))
        BY <3>2, <1>1, <1>2, <1>9 DEF JobInv, Progress
      <4> QED BY <4>1, <1>4, <1>7, QuietStays DEF Here
    <3> QED BY <3>1, <3>2
  <2> HIDE DEF c
  <2> QED BY <2>1, <1>6 DEF Progress, Here
<1>10. store'[Object(b)] \in {store[Object(b)], b}
  BY <1>3, <1>5 DEF Grown
<1>11. job[p].sure => Sure(job[p])'
  BY <1>1, <1>2, <1>3, <1>6, <1>10 DEF Sure, Getting, JobInv
<1>12. ASSUME job[p].heals
       PROVE  Heals(job[p])'
  <2>1. store[Object(b)] = b /\ \A q \in Procs : job[q].drop # Object(b)
    BY <1>12, <1>1, <1>2 DEF JobInv, Heals, Putting
  <2>2. \A q \in Procs : job'[q].drop # Object(b)
    BY <2>1, <1>2, <1>6
  <2> QED BY <2>1, <2>2, <1>3, <1>6, <1>10 DEF Heals, Putting
<1>13. JobInv(p)'
  BY <1>2, <1>6, <1>8, <1>9, <1>11, <1>12 DEF JobInv, Pristine
<1> QED BY <1>2, <1>7, <1>13, QuietKeeps

\* put_chunks: a delta is published, or a rotten base noticed.
LEMMA PrepareKeeps ==
    ASSUME IInv, Shape', NEW p \in Procs, NEW i \in job[p].todo, Prepare(p, i)
    PROVE  IInv'
<1> DEFINE b == job[p].blob
           c == job[p].refs[i].chunk
           delta == IF Here(Chunk(c)) THEN [base |-> None, drop |-> None] ELSE DeltaBase(p, i)
           j == [job[p] EXCEPT !.refs[i].base = delta.base, !.drop = delta.drop]
<1>1. /\ job \in [Procs -> Job] /\ job[p] \in Job /\ JobShape(job[p]) /\ JobInv(p)
      /\ DOMAIN store = Files /\ Shape
  BY Before DEF IInv
<1>2. /\ job[p].pc = "chunk" /\ job[p].drop = None /\ UNCHANGED <<vouched, carried, used>>
      /\ IF delta.base # None THEN Publish(Delta(delta.base, c), c) ELSE UNCHANGED store
      /\ Set(p, j)
  BY DEF Prepare, At
<1>3. b \in Blobs /\ job[p].answer = None /\ None # "miss" /\ job[p].todo \subseteq DOMAIN job[p].refs
  BY <1>1, <1>2, ValuesAssumption DEF JobShape, Putting
<1>4. i \in DOMAIN job[p].refs /\ job[p].refs \in Seq(Draft) /\ job[p].refs[i] \in Draft
  BY <1>1, <1>3, EntriesAreChunks DEF Job
<1>5. delta.base # None => <<delta.base, c>> \in Shrinks
  BY <1>1, <1>4, DeltaBaseIs
<1>6. delta.drop = None \/ Bad(delta.drop)
  BY <1>1, <1>4, DeltaBaseIs DEF Bad
<1>7. /\ j.refs = [job[p].refs EXCEPT ![i] = [job[p].refs[i] EXCEPT !.base = delta.base]]
      /\ j.pc = "chunk" /\ j.blob = b /\ j.drop = delta.drop /\ j.answer = None
      /\ j.todo = job[p].todo /\ j.sure = job[p].sure /\ j.heals = job[p].heals
  <2> HIDE DEF delta
  <2> QED BY <1>1, <1>2, <1>3 DEF Job
<1>8. DOMAIN j.refs = DOMAIN job[p].refs /\ \A k \in DOMAIN j.refs : j.refs[k].chunk = job[p].refs[k].chunk
  <2> HIDE DEF delta
  <2>1. [job[p].refs[i] EXCEPT !.base = delta.base].chunk = c
    BY <1>4 DEF Draft
  <2> HIDE DEF j
  <2> QED BY <2>1, <1>4, <1>7
<1> HIDE DEF delta, j
<1>9. job'[p] = j /\ \A q \in Procs : q # p => job'[q] = job[q]
  BY <1>1, <1>2, JobStep
<1>10. Grown(p)
  <2>1. CASE delta.base # None
    <3>1. <<delta.base, c>>[1] = delta.base /\ <<delta.base, c>>[2] = c
      OBVIOUS
    <3>2. PICK s \in Shrinks : s[1] = delta.base /\ s[2] = c
      BY <2>1, <3>1, <1>5
    <3>3. Publish(Delta(s[1], s[2]), s[2])
      BY <2>1, <3>2, <1>2
    <3> QED BY <3>2, <3>3, <1>1, GrownByDelta
  <2>2. CASE delta.base = None
    BY <2>2, <1>2, GrownByNothing
  <2> QED BY <2>1, <2>2
<1>11. Quiet(p)
  BY <1>2, <1>6, <1>7, <1>9, <1>10 DEF Quiet
<1>12. j.refs \in Seq(Draft)
  BY <1>9 DEF Shape, Job
<1>13. ASSUME used.damage = 0
       PROVE  JobTruth(job[p])'
  <2>1. Spliced(job[p].refs, b) = b
    BY <1>1, <1>2, <1>13 DEF JobInv, JobTruth
  <2>2. Spliced(j.refs, b) = b
    BY <2>1, <1>3, <1>4, <1>8, <1>12, SplicedIs
  <2>3. StoreTruth
    BY <1>13 DEF IInv, Truth
  <2> QED BY <2>2, <2>3, <1>6, <1>7, <1>9, NothingIsBad DEF JobTruth
<1>14. ASSUME Pristine
       PROVE  Progress(job[p])'
  <2>1. ASSUME NEW k \in DOMAIN j.refs \ j.todo
        PROVE  store'[Chunk(j.refs[k].chunk)] # Absent
    <3>1. Here(Chunk(job[p].refs[k].chunk)) /\ job[p].refs[k].chunk \in ChunkIds
      BY <1>1, <1>2, <1>4, <1>7, <1>8, <1>14, EntriesAreChunks DEF JobInv, Progress
    <3> QED BY <3>1, <1>8, <1>11, QuietStays DEF Here
  <2> QED BY <2>1, <1>7, <1>9 DEF Progress, Here
<1>15. store'[Object(b)] \in {store[Object(b)], b}
  BY <1>3, <1>10 DEF Grown
<1>16. job[p].sure => Sure(job[p])'
  BY <1>1, <1>2, <1>3, <1>7, <1>9, <1>15 DEF Sure, Getting, JobInv
<1>17. ASSUME job[p].heals
       PROVE  Heals(job[p])'
  <2>1. store[Object(b)] = b /\ \A q \in Procs : job[q].drop # Object(b)
    BY <1>17, <1>1, <1>2 DEF JobInv, Heals, Putting
  <2>2. j.drop # Object(b)
    BY <2>1, <1>3, <1>6, <1>7, BadIsNotObject, FileKinds, ValuesAssumption
  <2>3. \A q \in Procs : job'[q].drop # Object(b)
    BY <2>1, <2>2, <1>9
  <2> QED BY <2>1, <2>3, <1>3, <1>7, <1>9, <1>15 DEF Heals, Putting
<1>18. JobInv(p)'
  BY <1>2, <1>7, <1>9, <1>13, <1>14, <1>16, <1>17 DEF JobInv, Pristine
<1> QED BY <1>2, <1>11, <1>18, QuietKeeps

\* A step that only answers, or only moves on to look elsewhere.
LEMMA OnlyJob ==
    ASSUME IInv, Shape', NEW p \in Procs, UNCHANGED <<store, vouched, carried>>,
           used'.damage = used.damage, used'.crashes = used.crashes, used'.swept = used.swept,
           job[p].pc # "chunk", JobInv(p)', job'[p].drop = None \/ Bad(job'[p].drop),
           \A q \in Procs : q # p => job'[q] = job[q]
    PROVE  IInv'
<1>1. Quiet(p)
  BY GrownByNothing DEF Quiet
<1> QED BY <1>1, QuietKeeps

\* materialize: whether there is an object.
LEMMA LookKeeps ==
    ASSUME IInv, Shape', NEW p \in Procs, Look(p)
    PROVE  IInv'
<1> DEFINE b == job[p].blob
           pc == IF Here(Object(b)) THEN "copy" ELSE "manifest"
<1>1. job \in [Procs -> Job] /\ job[p] \in Job /\ JobShape(job[p]) /\ JobInv(p)
  BY Before
<1>2. /\ job[p].pc = "get" /\ job[p].drop = None /\ Step(p, pc)
      /\ UNCHANGED <<store, vouched, carried, used>>
  BY DEF Look, At
<1>3. b \in Blobs /\ job[p].answer = None /\ None # "miss"
  BY <1>1, <1>2, ValuesAssumption DEF JobShape, Getting
<1>4. pc \in {"copy", "manifest"} /\ (pc = "manifest" => store[Object(b)] = Absent)
  BY DEF Here
<1> HIDE DEF pc
<1>5. /\ job'[p].pc = pc /\ job'[p].blob = b /\ job'[p].drop = None /\ job'[p].answer = None
      /\ job'[p].sure = job[p].sure /\ job'[p].heals = job[p].heals
      /\ \A q \in Procs : q # p => job'[q] = job[q]
  BY <1>1, <1>2, <1>3, StepIs
<1>6. JobTruth(job[p])' /\ Progress(job[p])'
  BY <1>4, <1>5 DEF JobTruth, Progress
<1>7. ASSUME job[p].sure
      PROVE  Sure(job[p])'
  <2>1. b \in vouched \union carried
    BY <1>7, <1>1, <1>2 DEF JobInv, Sure, Getting
  <2>2. ASSUME pc = "manifest"
        PROVE  b \in carried \intersect Large
    <3>1. store[Object(b)] # b
      BY <2>2, <1>3, <1>4, ValuesAssumption
    <3> QED BY <3>1, <2>1, <1>3 DEF IInv, Kept, Promised, Carries
  <2> QED BY <2>1, <2>2, <1>2, <1>3, <1>4, <1>5 DEF Sure, Getting
<1>8. Heals(job[p])'
  BY <1>2, <1>3, <1>4, <1>5 DEF Heals, Putting
<1>9. JobInv(p)'
  BY <1>4, <1>5, <1>6, <1>7, <1>8 DEF JobInv
<1> QED BY <1>2, <1>5, <1>9, OnlyJob

\* materialize: the output is taken away for a copy that verified.
LEMMA MaterializeKeeps ==
    ASSUME IInv, Shape', NEW p \in Procs, job[p].pc \in {"copy", "splice"}, Materialize(p, job[p].blob),
           UNCHANGED <<store, vouched, carried, used>>, job[p].drop = None
    PROVE  IInv'
<1> DEFINE b == job[p].blob
<1>1. job \in [Procs -> Job] /\ job[p] \in Job /\ JobShape(job[p]) /\ JobInv(p)
  BY Before
<1>2. job[p].answer = None /\ None # "miss" /\ b \in Blobs
  BY <1>1, ValuesAssumption DEF JobShape, Getting
<1>3. job'[p] = [job[p] EXCEPT !.pc = "place", !.copy = b] /\ \A q \in Procs : q # p => job'[q] = job[q]
  BY <1>1, JobStep DEF Materialize
<1>4. /\ job'[p].pc = "place" /\ job'[p].blob = b /\ job'[p].drop = None /\ job'[p].answer = None
      /\ job'[p].sure = job[p].sure /\ job'[p].heals = job[p].heals
  BY <1>1, <1>2, <1>3 DEF Job
<1>5. job[p].sure => Sure(job[p])'
  BY <1>1, <1>2, <1>4 DEF JobInv, Sure, Getting
<1>6. Heals(job[p])'
  BY <1>2, <1>4 DEF Heals, Putting
<1>7. JobInv(p)'
  BY <1>4, <1>5, <1>6 DEF JobInv, JobTruth, Progress
<1> QED BY <1>3, <1>4, <1>7, OnlyJob

\* materialize: the copy is renamed, or is not.
LEMMA PlaceKeeps ==
    ASSUME IInv, Shape', NEW p \in Procs, Place(p)
    PROVE  IInv'
<1>1. /\ job[p].pc = "place" /\ job[p].drop = None /\ UNCHANGED <<store, vouched, carried, used>>
      /\ \E a \in {"hit", "error"} : Answer(p, a)
  BY DEF Place, At
<1> QED BY <1>1, AnswerInv, OnlyJob

\* materialize: an object that does not verify is to be removed.
LEMMA CopyObjectKeeps ==
    ASSUME IInv, Shape', NEW p \in Procs, CopyObject(p)
    PROVE  IInv'
<1> DEFINE b == job[p].blob
<1>1. job \in [Procs -> Job] /\ job[p] \in Job /\ JobShape(job[p]) /\ JobInv(p)
  BY Before
<1>2. /\ job[p].pc = "copy" /\ job[p].drop = None /\ UNCHANGED <<store, vouched, carried, used>>
  BY DEF CopyObject, At
<1>3. b \in Blobs /\ job[p].answer = None /\ None # "miss"
  BY <1>1, <1>2, ValuesAssumption DEF JobShape, Getting
<1>4. CASE Answer(p, "vanished") \/ Materialize(p, b)
  BY <1>2, <1>4, AnswerInv, OnlyJob, MaterializeKeeps
<1>5. CASE /\ store[Object(b)] \notin {Absent, b}
           /\ Set(p, [job[p] EXCEPT !.pc = "manifest", !.drop = Object(b)])
  <2>1. job'[p] = [job[p] EXCEPT !.pc = "manifest", !.drop = Object(b)]
        /\ \A q \in Procs : q # p => job'[q] = job[q]
    BY <1>1, <1>5, JobStep
  <2>2. /\ job'[p].pc = "manifest" /\ job'[p].blob = b /\ job'[p].drop = Object(b) /\ job'[p].answer = None
        /\ job'[p].sure = job[p].sure /\ job'[p].heals = job[p].heals
    BY <2>1, <1>1, <1>3 DEF Job
  <2>3. Bad(Object(b))
    BY <1>3, <1>5 DEF Bad
  <2>4. used.damage # 0
    BY <2>3, NothingIsBad DEF IInv, Truth
  <2>5. ASSUME job[p].sure
        PROVE  Sure(job[p])'
    <3>1. b \in vouched \union carried
      BY <2>5, <1>1, <1>2 DEF JobInv, Sure, Getting
    <3>2. b \in carried \intersect Large
      BY <3>1, <1>3, <1>5 DEF IInv, Kept, Promised, Carries
    <3> QED BY <3>2, <2>2, <1>2, <1>3 DEF Sure, Getting
  <2>6. Heals(job[p])'
    BY <2>2, <1>2, <1>3 DEF Heals, Putting
  <2>7. JobInv(p)'
    BY <2>2, <2>4, <2>5, <2>6, <1>2 DEF JobInv, Pristine
  <2> QED BY <2>1, <2>2, <2>3, <2>7, <1>2, OnlyJob
<1> QED BY <1>4, <1>5 DEF CopyObject, Verified

\* materialize: without a manifest the restore misses.
LEMMA ReadManifestKeeps ==
    ASSUME IInv, Shape', NEW p \in Procs, ReadManifest(p)
    PROVE  IInv'
<1> DEFINE b == job[p].blob
<1>1. job \in [Procs -> Job] /\ job[p] \in Job /\ JobShape(job[p]) /\ JobInv(p)
  BY Before
<1>2. /\ job[p].pc = "manifest" /\ job[p].drop = None /\ UNCHANGED <<store, vouched, carried, used>>
  BY DEF ReadManifest, At
<1>3. b \in Blobs /\ job[p].answer = None /\ None # "miss" /\ ~job[p].failed
  BY <1>1, <1>2, ValuesAssumption DEF JobShape, Getting
<1>4. job[p].sure => b \in carried /\ b \in Large /\ Valid(b) /\ Spliced(store[Manifest(b)], b) = b
  BY <1>1, <1>2 DEF JobInv, Sure, IInv, Kept, Promised, Carries
<1>5. job[p].heals => store[Object(b)] \in {Absent, b}
  BY <1>1, <1>2, <1>3, FileKinds, ValuesAssumption DEF JobInv, Heals
<1>6. CASE Answer(p, "miss") /\ (b \notin Large \/ ~Here(Manifest(b)))
  <2>1. ~job[p].sure
    BY <1>4, <1>6 DEF Valid, Here
  <2> QED BY <2>1, <1>2, <1>5, <1>6, AnswerInv, OnlyJob
<1>7. CASE /\ b \in Large /\ Here(Manifest(b)) /\ ~Valid(b)
           /\ Set(p, [job[p] EXCEPT !.pc = "splice", !.failed = TRUE, !.drop = Manifest(b)])
  <2>1. job'[p] = [job[p] EXCEPT !.pc = "splice", !.failed = TRUE, !.drop = Manifest(b)]
        /\ \A q \in Procs : q # p => job'[q] = job[q]
    BY <1>1, <1>7, JobStep
  <2>2. /\ job'[p].pc = "splice" /\ job'[p].blob = b /\ job'[p].drop = Manifest(b)
        /\ job'[p].answer = None /\ job'[p].sure = job[p].sure /\ job'[p].heals = job[p].heals
    BY <2>1, <1>1, <1>3 DEF Job
  <2>3. Bad(Manifest(b))
    BY <1>7 DEF Bad, Here, Valid
  <2>4. used.damage # 0
    BY <2>3, NothingIsBad DEF IInv, Truth
  <2>5. ~job'[p].sure
    BY <2>2, <1>4, <1>7
  <2>6. job[p].heals => Heals(job[p])'
    BY <2>2, <1>2, <1>3, <1>5 DEF Heals, Putting
  <2>7. JobInv(p)'
    BY <2>2, <2>4, <2>5, <2>6, <1>2 DEF JobInv, Pristine
  <2> QED BY <2>1, <2>2, <2>3, <2>7, <1>2, OnlyJob
<1>8. CASE /\ b \in Large /\ Valid(b)
           /\ Set(p, [job[p] EXCEPT !.pc = "splice", !.refs = store[Manifest(b)],
                                    !.todo = DOMAIN store[Manifest(b)]])
  <2>1. job'[p] = [job[p] EXCEPT !.pc = "splice", !.refs = store[Manifest(b)],
                                  !.todo = DOMAIN store[Manifest(b)]]
        /\ \A q \in Procs : q # p => job'[q] = job[q]
    BY <1>1, <1>8, JobStep
  <2>2. /\ job'[p].pc = "splice" /\ job'[p].blob = b /\ job'[p].drop = None /\ ~job'[p].failed
        /\ job'[p].refs = store[Manifest(b)]
        /\ job'[p].answer = None /\ job'[p].sure = job[p].sure /\ job'[p].heals = job[p].heals
    BY <2>1, <1>1, <1>2, <1>3 DEF Job
  <2>3. Here(Manifest(b))
    BY <1>8 DEF Valid, Here
  <2>4. used.damage = 0 => Spliced(store[Manifest(b)], b) = b
    BY <2>3, <1>8 DEF IInv, Truth, StoreTruth
  <2>5. used.damage = 0 => JobTruth(job[p])'
    BY <2>2, <2>4 DEF JobTruth
  <2>6. Progress(job[p])'
    BY <2>2, <2>3, <1>2 DEF Progress, Here
  <2>7. job[p].sure => Sure(job[p])'
    BY <2>2, <1>2, <1>3, <1>4 DEF Sure, Getting
  <2>8. job[p].heals => Heals(job[p])'
    BY <2>2, <1>2, <1>3, <1>5 DEF Heals, Putting
  <2>9. JobInv(p)'
    BY <2>2, <2>5, <2>6, <2>7, <2>8, <1>2 DEF JobInv, Pristine
  <2> QED BY <2>1, <2>2, <2>9, <1>2, OnlyJob
<1> QED BY <1>6, <1>7, <1>8 DEF ReadManifest, Here, Valid

\* materialize: the whole is verified once more.
LEMMA SpliceKeeps ==
    ASSUME IInv, Shape', NEW p \in Procs, Splice(p)
    PROVE  IInv'
<1> DEFINE b == job[p].blob
<1>1. JobShape(job[p]) /\ JobInv(p)
  BY Before
<1>2. /\ job[p].pc = "splice" /\ job[p].drop = None /\ UNCHANGED <<store, vouched, carried, used>>
  BY DEF Splice, At
<1>3. b \in Blobs
  BY <1>1, <1>2 DEF JobShape, Getting
<1>4. CASE Materialize(p, b)
  BY <1>2, <1>4, MaterializeKeeps
<1>5. CASE Answer(p, "miss") /\ ~(~job[p].failed /\ Spliced(job[p].refs, b) = b)
  <2>1. ~job[p].sure
    BY <1>1, <1>2, <1>5 DEF JobInv, Sure
  <2>2. job[p].heals => store'[Object(b)] \in {Absent, b}
    BY <1>1, <1>2, <1>3, FileKinds, ValuesAssumption DEF JobInv, Heals
  <2> QED BY <2>1, <2>2, <1>2, <1>5, AnswerInv, OnlyJob
<1> QED BY <1>4, <1>5 DEF Splice, Verified

\* A chunk is read, or rebuilt where it was lost.
LEMMA FetchChunkKeeps ==
    ASSUME IInv, Shape', NEW p \in Procs, NEW i \in job[p].todo, FetchChunk(p, i)
    PROVE  IInv'
<1> DEFINE b == job[p].blob
           ref == job[p].refs[i]
           f == Chunk(ref.chunk)
           ok == IF ~Here(f) THEN Rebuilds(ref) ELSE Verified(store[f], ref.chunk)
           drop == IF ok THEN None ELSE IF ~Here(f) THEN Rotten(ref) ELSE f
           j == [job[p] EXCEPT !.todo = @ \ {i}, !.failed = @ \/ ~ok, !.drop = drop]
<1>1. /\ job \in [Procs -> Job] /\ job[p] \in Job /\ JobShape(job[p]) /\ JobInv(p)
      /\ DOMAIN store = Files
  BY Before
<1>2. /\ job[p].pc = "splice" /\ job[p].drop = None /\ UNCHANGED <<vouched, carried, used>>
      /\ IF ~Here(f) /\ ok THEN Publish(f, ref.chunk) ELSE UNCHANGED store
      /\ Set(p, j)
  BY DEF FetchChunk, At
<1>3. /\ b \in Blobs /\ b \in Large /\ job[p].answer = None /\ None # "miss"
      /\ job[p].todo \subseteq DOMAIN job[p].refs
  BY <1>1, <1>2, ValuesAssumption DEF JobShape, Getting
<1>4. /\ i \in DOMAIN job[p].refs /\ job[p].refs \in Seq(Ref) /\ job[p].refs \in Seq(Draft)
      /\ ref \in Ref /\ ref.chunk \in ChunkIds /\ IsPatch(ref)
  BY <1>1, <1>2, <1>3, EntriesAreChunks DEF JobShape
<1>5. drop = None \/ Bad(drop)
  <2>1. CASE ok
    BY <2>1
  <2>2. CASE ~ok /\ ~Here(f)
    <3>1. drop = Rotten(ref)
      BY <2>2
    <3> HIDE DEF drop, ref
    <3> QED BY <3>1, <1>4, RottenIs DEF Bad
  <2>3. CASE ~ok /\ Here(f)
    <3>1. drop = f /\ store[f] \notin {Absent, ref.chunk}
      BY <2>3 DEF Here, Verified
    <3> HIDE DEF drop, ref
    <3> QED BY <3>1, <1>4 DEF Bad
  <2> QED BY <2>1, <2>2, <2>3
<1>6. Grown(p)
  <2>1. CASE ~Here(f) /\ ok
    BY <2>1, <1>1, <1>2, <1>4, GrownByChunk
  <2>2. CASE ~(~Here(f) /\ ok)
    BY <2>2, <1>2, GrownByNothing
  <2> QED BY <2>1, <2>2
<1>7. job[p].sure => ok
  <2> SUFFICES ASSUME job[p].sure
               PROVE  ok
    OBVIOUS
  <2>1. b \in carried /\ Spliced(job[p].refs, b) = b
    BY <1>1, <1>2 DEF JobInv, Sure
  <2>2. \A k \in DOMAIN Pieces(b) : store[Chunk(Pieces(b)[k])] = Pieces(b)[k]
    BY <2>1, <1>3 DEF IInv, Kept, Promised, Carries
  <2>3. PICK k \in DOMAIN Pieces(b) : Pieces(b)[k] = ref.chunk
    BY <2>1, <1>3, <1>4, EntriesAreListed DEF ListedIn
  <2>4. store[f] = ref.chunk /\ ref.chunk # Absent
    BY <2>2, <2>3, <1>4, ValuesAssumption
  <2> QED BY <2>4 DEF Here, Verified
<1>8. /\ j.pc = "splice" /\ j.blob = b /\ j.drop = drop /\ j.answer = None
      /\ j.refs = job[p].refs /\ j.sure = job[p].sure /\ j.heals = job[p].heals
      /\ ok => j.failed = job[p].failed
  <2> HIDE DEF ok, drop
  <2> QED BY <1>1, <1>2, <1>3 DEF Job
<1> HIDE DEF ok, drop, j, ref
<1>9. job'[p] = j /\ \A q \in Procs : q # p => job'[q] = job[q]
  BY <1>1, <1>2, JobStep
<1>10. Quiet(p)
  BY <1>2, <1>5, <1>6, <1>8, <1>9 DEF Quiet
<1>11. ASSUME used.damage = 0
       PROVE  JobTruth(job[p])'
  <2>1. Spliced(job[p].refs, b) = b /\ StoreTruth
    BY <1>1, <1>2, <1>11 DEF JobInv, JobTruth, IInv, Truth
  <2> QED BY <2>1, <1>5, <1>8, <1>9, NothingIsBad DEF JobTruth
<1>12. ASSUME Pristine
       PROVE  Progress(job[p])'
  <2>1. Here(Manifest(b))
    BY <1>1, <1>2, <1>12 DEF JobInv, Progress
  <2>2. store'[Manifest(b)] # Absent
    BY <2>1, <1>3, <1>10, QuietStays DEF Here
  <2> QED BY <2>2, <1>8, <1>9 DEF Progress, Here
<1>13. ASSUME job[p].sure
       PROVE  Sure(job[p])'
  <2>1. Sure(job[p])
    BY <1>13, <1>1 DEF JobInv
  <2> QED BY <2>1, <1>2, <1>3, <1>7, <1>8, <1>9, <1>13 DEF Sure, Getting
<1>14. store'[Object(b)] \in {store[Object(b)], b}
  BY <1>3, <1>6 DEF Grown
<1>15. ASSUME job[p].heals
       PROVE  Heals(job[p])'
  <2>1. store[Object(b)] \in {Absent, b}
    BY <1>15, <1>1, <1>2, <1>3, FileKinds, ValuesAssumption DEF JobInv, Heals
  <2> QED BY <2>1, <1>3, <1>8, <1>9, <1>14 DEF Heals, Putting
<1>16. JobInv(p)'
  BY <1>2, <1>8, <1>9, <1>11, <1>12, <1>13, <1>15 DEF JobInv, Pristine
<1> QED BY <1>2, <1>10, <1>16, QuietKeeps

\* A collection knows nothing the invariant speaks of.
LEMMA SweepingInv ==
    ASSUME NEW p \in Procs, job'[p].pc \in Sweeping, job'[p].drop = None, job'[p].answer = None
    PROVE  JobInv(p)'
<1>1. None # "miss"
  BY ValuesAssumption
<1> QED BY <1>1 DEF JobInv, JobTruth, Progress, Sure, Heals, Putting, Getting, Sweeping

\* The steps of a collection that take nothing away.
LEMMA ListKeeps ==
    ASSUME IInv, Shape', NEW p \in Procs, List(p) \/ Measure(p) \/ Swept(p)
    PROVE  IInv'
<1>1. job \in [Procs -> Job] /\ job[p] \in Job /\ JobShape(job[p])
  BY Before
<1>2. /\ job[p].pc \in Sweeping /\ job[p].pc # "idle" /\ job[p].pc # "chunk" /\ job[p].drop = None
      /\ UNCHANGED <<store, vouched, carried, used>>
  BY DEF List, Measure, Swept, At, Sweeping
<1>3. job[p].answer = None
  BY <1>1, <1>2 DEF JobShape
<1>4. CASE \E a \in {"error", "swept"} : Answer(p, a)
  BY <1>2, <1>4, AnswerInv, OnlyJob
<1>5. ASSUME NEW todo, Set(p, [job[p] EXCEPT !.pc = "measure", !.todo = todo])
      PROVE  IInv'
  <2>1. /\ job'[p] = [job[p] EXCEPT !.pc = "measure", !.todo = todo]
        /\ \A q \in Procs : q # p => job'[q] = job[q]
    BY <1>1, <1>5, JobStep
  <2>2. job'[p].pc = "measure" /\ job'[p].drop = None /\ job'[p].answer = None
    BY <2>1, <1>1, <1>2, <1>3 DEF Job
  <2>3. JobInv(p)'
    BY <2>2, SweepingInv DEF Sweeping
  <2> QED BY <2>1, <2>2, <2>3, <1>2, OnlyJob
<1>6. ASSUME NEW count, Set(p, [job[p] EXCEPT !.pc = "sweep", !.count = count])
      PROVE  IInv'
  <2>1. /\ job'[p] = [job[p] EXCEPT !.pc = "sweep", !.count = count]
        /\ \A q \in Procs : q # p => job'[q] = job[q]
    BY <1>1, <1>6, JobStep
  <2>2. job'[p].pc = "sweep" /\ job'[p].drop = None /\ job'[p].answer = None
    BY <2>1, <1>1, <1>2, <1>3 DEF Job
  <2>3. JobInv(p)'
    BY <2>2, SweepingInv DEF Sweeping
  <2> QED BY <2>1, <2>2, <2>3, <1>2, OnlyJob
<1> QED BY <1>4, <1>5, <1>6 DEF List, Measure, Swept

\* The job of a process that has just begun.
LEMMA BeginIs ==
    ASSUME job \in [Procs -> Job], NEW p \in Procs, NEW j, Set(p, j), j.drop = None, j.answer = None,
           IInv, Shape', UNCHANGED <<store, vouched, carried>>,
           job[p].pc = "idle", used'.damage = used.damage, used'.crashes = used.crashes,
           used'.swept = used.swept,
           j.pc \in {"put", "get", "list"},
           j.sure /\ j.pc = "get" => j.blob \in vouched \union carried,
           j.heals /\ j.pc = "put" => /\ store[Object(j.blob)] \in {Absent, j.blob}
                                      /\ \A q \in Procs : job[q].drop # Object(j.blob)
                                      /\ None # Object(j.blob)
    PROVE  IInv'
<1>1. None # "miss"
  BY ValuesAssumption
<1>2. job'[p] = j /\ \A q \in Procs : q # p => job'[q] = job[q]
  BY JobStep
<1>3. JobTruth(job[p])' /\ Progress(job[p])'
  BY <1>2 DEF JobTruth, Progress
<1>4. j.sure => Sure(job[p])'
  BY <1>1, <1>2 DEF Sure, Getting
<1>5. ASSUME j.heals
      PROVE  Heals(job[p])'
  <2>1. CASE j.pc = "put"
    <3>1. \A q \in Procs : job'[q].drop # Object(j.blob)
      BY <2>1, <1>2, <1>5
    <3> QED BY <2>1, <3>1, <1>1, <1>2, <1>5 DEF Heals, Putting
  <2>2. CASE j.pc # "put"
    BY <2>2, <1>1, <1>2 DEF Heals, Putting
  <2> QED BY <2>1, <2>2
<1>6. JobInv(p)'
  BY <1>2, <1>3, <1>4, <1>5 DEF JobInv
<1> QED BY <1>2, <1>6, OnlyJob

\* Beginning an operation.
LEMMA BeginKeeps ==
    ASSUME IInv, Shape', NEW p \in Procs, Begin(p)
    PROVE  IInv'
<1>1. job \in [Procs -> Job] /\ job[p] \in Job /\ JobShape(job[p]) /\ JobInv(p) /\ used \in Used
  BY Before DEF IInv, Shape
<1>2. ASSUME NEW a \in Artifacts, NEW b \in Blobs, BeginPut(p, a, b)
      PROVE  IInv'
  <2> DEFINE heals == /\ job[p].heals /\ job[p].answer = "miss" /\ job[p].blob = b
                      /\ \A q \in Procs : job[q].drop = None
             j == [Idle EXCEPT !.pc = "put", !.blob = b, !.artifact = a, !.sure = TRUE, !.heals = heals]
  <2>1. heals => /\ store[Object(b)] \in {Absent, b}
                 /\ \A q \in Procs : job[q].drop # Object(b)
                 /\ None # Object(b)
    <3> SUFFICES ASSUME heals
                 PROVE  /\ store[Object(b)] \in {Absent, b}
                        /\ \A q \in Procs : job[q].drop # Object(b)
                        /\ None # Object(b)
      OBVIOUS
    <3>1. None # Object(b)
      BY FileKinds, ValuesAssumption
    <3> QED BY <3>1, <1>1 DEF JobInv, Heals
  <2>2. /\ Set(p, j) /\ UNCHANGED <<store, vouched, carried>> /\ job[p].pc = "idle"
        /\ used'.damage = used.damage /\ used'.crashes = used.crashes /\ used'.swept = used.swept
    BY <1>1, <1>2 DEF BeginPut, Used
  <2> HIDE DEF heals
  <2>3. j.pc = "put" /\ j.blob = b /\ j.drop = None /\ j.answer = None /\ j.heals = heals
    BY DEF Idle
  <2> HIDE DEF j
  <2> QED BY <2>1, <2>2, <2>3, <1>1, BeginIs
<1>3. ASSUME NEW a \in Artifacts, NEW b \in Blobs, BeginGet(p, a, b)
      PROVE  IInv'
  <2> DEFINE sure == b \in vouched \union carried
             j == [Idle EXCEPT !.pc = "get", !.blob = b, !.artifact = a, !.sure = sure, !.heals = TRUE]
  <2>1. /\ Set(p, j) /\ UNCHANGED <<store, vouched, carried>> /\ job[p].pc = "idle"
        /\ used'.damage = used.damage /\ used'.crashes = used.crashes /\ used'.swept = used.swept
    BY <1>1, <1>3 DEF BeginGet, Used
  <2>2. sure => b \in vouched \union carried
    OBVIOUS
  <2> HIDE DEF sure
  <2>3. j.pc = "get" /\ j.blob = b /\ j.drop = None /\ j.answer = None /\ j.sure = sure
    BY DEF Idle
  <2> HIDE DEF j
  <2> QED BY <2>1, <2>2, <2>3, <1>1, BeginIs
<1>4. CASE BeginGc(p)
  <2> DEFINE j == [Idle EXCEPT !.pc = "list"]
  <2>1. /\ Set(p, j) /\ UNCHANGED <<store, vouched, carried>> /\ job[p].pc = "idle"
        /\ used'.damage = used.damage /\ used'.crashes = used.crashes /\ used'.swept = used.swept
    BY <1>1, <1>4 DEF BeginGc, Used
  <2>2. j.pc = "list" /\ j.drop = None /\ j.answer = None
    BY DEF Idle
  <2> HIDE DEF j
  <2> QED BY <2>1, <2>2, <1>1, BeginIs
<1> QED BY <1>2, <1>3, <1>4 DEF Begin

\* A step that touches neither store nor jobs.
LEMMA NothingKeeps ==
    ASSUME IInv, Shape', UNCHANGED <<store, job, vouched, carried>>,
           used'.damage = used.damage, used'.crashes = used.crashes, used'.swept = used.swept
    PROVE  IInv'
<1>1. StoreInv /\ \A p \in Procs : JobInv(p)
  BY InvariantParts
<1>2. ASSUME NEW p \in Procs
      PROVE  JobInv(p)'
  BY <1>1 DEF JobInv, JobTruth, Progress, Sure, Heals, Pristine, Here
<1>3. StoreTruth => StoreTruth'
  BY DEF StoreTruth, Here, Valid
<1>4. NoStray'
  BY <1>1 DEF StoreInv, NoStray, Pristine, Here, InManifest, UnderWay, ListedIn
<1>5. Promised'
  BY <1>1 DEF StoreInv, Promised, Carries, Carriers, Valid
<1>6. StoreInv'
  BY <1>1, <1>3, <1>4, <1>5 DEF StoreInv, Pristine, Here, AllChunksHere
<1> QED BY <1>2, <1>6 DEF IInv, StoreInv, JobInv, Truth, StagedTruth, Complete, Kept, Healing

\* Somebody writes the output again.
LEMMA EditKeeps ==
    ASSUME IInv, Shape', NEW a \in Artifacts, NEW b \in Blobs, Edit(a, b)
    PROVE  IInv'
<1>1. used \in Used
  BY DEF IInv, Shape
<1> QED BY <1>1, NothingKeeps DEF Edit, Used

------------------------------------------------------------------------------
(* The steps that lose something.  After one the store is no longer pristine *)
(* (or a process has been killed), and the promises are those the loss does  *)
(* not touch.                                                                *)

\* What remains to be shown when the store is not pristine any more.
LEMMA LossKeeps ==
    ASSUME IInv, Shape', ~Pristine',
           used'.damage = 0 => StoreTruth' /\ \A p \in Procs : JobTruth(job[p])',
           StagedTruth', Kept', Healing'
    PROVE  IInv'
<1>1. Complete' /\ NoStray'
  BY DEF Complete, NoStray, Pristine
<1> QED BY <1>1 DEF IInv, Truth

\* Removing what did not verify.
LEMMA DropKeeps ==
    ASSUME IInv, Shape', NEW p \in Procs, Drop(p)
    PROVE  IInv'
<1> DEFINE f == job[p].drop
<1>1. /\ job \in [Procs -> Job] /\ job[p] \in Job /\ DOMAIN store = Files
      /\ \A q \in Procs : JobInv(q) /\ JobShape(job[q])
      /\ StoreInv /\ carried \subseteq Blobs
  BY Before
<1>2. f # None /\ f \in Files /\ UNCHANGED <<vouched, carried, used>>
  BY <1>1 DEF Drop, Job
<1>3. used.damage # 0
  BY <1>1, <1>2 DEF JobInv, JobTruth
<1>4. vouched = {} /\ vouched' = {}
  BY <1>1, <1>2, <1>3 DEF StoreInv, Promised
<1>5. store'[f] = Absent /\ \A g \in Files : g # f => store'[g] = store[g]
  BY <1>1, <1>2, WriteOne DEF Drop
<1>6. ASSUME NEW q \in Procs
      PROVE  /\ job'[q].pc = job[q].pc /\ job'[q].blob = job[q].blob /\ job'[q].refs = job[q].refs
             /\ job'[q].failed = job[q].failed /\ job'[q].answer = job[q].answer
             /\ job'[q].sure = job[q].sure /\ job'[q].heals = job[q].heals
             /\ job'[q].drop \in {job[q].drop, None}
             /\ job'[q].drop = job[q].drop \/ job[q].drop = f
  <2>1. job'[p] = [job[p] EXCEPT !.drop = None] /\ \A r \in Procs : r # p => job'[r] = job[r]
    BY <1>1, JobStep DEF Drop
  <2>2. CASE q = p
    BY <2>1, <2>2, <1>1 DEF Job
  <2>3. CASE q # p
    BY <2>1, <2>3
  <2> QED BY <2>2, <2>3
<1> HIDE DEF f
<1>7. StagedTruth'
  <2>1. ASSUME NEW q \in Procs
        PROVE  store'[Staged(q)] \in {Absent, store[Staged(q)]}
    BY <1>5, FileKinds
  <2>2. \A q \in Procs : job[q].pc = "publish" => store[Staged(q)] \in {Absent, job[q].blob}
    BY <1>1 DEF JobInv
  <2> QED BY <2>1, <2>2, <1>6 DEF StagedTruth
<1>8. ASSUME NEW b \in carried
      PROVE  Carries(b)' /\ \A q \in Procs : job'[q].drop \notin Carriers(b)
  <2>1. Carries(b) /\ b \in Blobs /\ \A q \in Procs : job[q].drop \notin Carriers(b)
    BY <1>1 DEF StoreInv, Promised
  <2>2. f \notin Carriers(b)
    BY <2>1 DEF f
  <2>3. \A g \in Carriers(b) : g \in Files
    BY <2>1, FileKinds, PartsAreChunks DEF Carriers
  <2>4. \A g \in Carriers(b) : store'[g] = store[g]
    BY <2>2, <2>3, <1>5
  <2>5. Carries(b)'
    BY <2>1, <2>4 DEF Carries, Carriers, Valid
  <2>6. None \notin Carriers(b)
    BY <2>3, ValuesAssumption
  <2> QED BY <2>1, <2>5, <2>6, <1>6
<1>9. ASSUME NEW q \in Procs, job[q].sure
      PROVE  Sure(job[q])'
  <2>1. Sure(job[q])
    BY <1>1, <1>9 DEF JobInv
  <2> QED BY <2>1, <1>2, <1>3, <1>6 DEF Sure
<1>10. ASSUME NEW q \in Procs, job[q].heals
       PROVE  Heals(job[q])'
  <2> DEFINE b == job[q].blob
  <2>1. Heals(job[q])
    BY <1>1, <1>10 DEF JobInv
  <2>2. /\ job[q].pc \in Putting \/ job[q].pc \in {"manifest", "splice"} \/ job[q].answer = "miss"
               => b \in Blobs
    BY <1>1 DEF JobShape, Getting
  <2> HIDE DEF b
  <2>3. b \in Blobs => store'[Object(b)] \in {Absent, store[Object(b)]}
    BY <1>5, FileKinds
  <2>4. b \in Blobs /\ f = Object(b) => store'[Object(b)] = Absent
    BY <1>5
  <2>5. b \in Blobs /\ f # Object(b) => store'[Object(b)] = store[Object(b)]
    BY <1>5, FileKinds
  <2>6. b \in Blobs => None # Object(b)
    BY FileKinds, ValuesAssumption
  <2>7. ASSUME job[q].pc \in {"manifest", "splice"} \/ job[q].answer = "miss"
        PROVE  job'[q].drop = Object(b) \/ store'[Object(b)] \in {Absent, b}
    <3>1. job[q].drop = Object(b) \/ store[Object(b)] \in {Absent, b}
      BY <2>1, <2>7 DEF Heals, b
    <3> QED BY <3>1, <2>2, <2>3, <2>4, <2>7, <1>6
  <2>8. ASSUME job[q].pc \in Putting
        PROVE  /\ store'[Object(b)] \in {Absent, b}
               /\ \A r \in Procs : job'[r].drop # Object(b)
               /\ job[q].pc \in {"chunk", "head"} => store'[Object(b)] = b
    <3>1. /\ store[Object(b)] \in {Absent, b} /\ \A r \in Procs : job[r].drop # Object(b)
          /\ job[q].pc \in {"chunk", "head"} => store[Object(b)] = b
      BY <2>1, <2>8 DEF Heals, b
    <3>2. f # Object(b)
      BY <3>1 DEF f
    <3> QED BY <3>1, <3>2, <2>2, <2>5, <2>6, <2>8, <1>6
  <2> QED BY <2>7, <2>8, <1>6 DEF Heals, Putting, b
<1>11. Kept'
  BY <1>4, <1>6, <1>8, <1>9, <1>2 DEF Kept, Promised, Carriers
<1>12. Healing'
  BY <1>6, <1>10 DEF Healing
<1>13. ~Pristine' /\ used'.damage # 0
  BY <1>2, <1>3 DEF Pristine
<1> QED BY <1>7, <1>11, <1>12, <1>13, LossKeeps

\* The jobs after a loss: the history gives up what it knew.
LEMMA DoubtIs ==
    ASSUME IInv, NEW q \in Procs
    PROVE  /\ Doubt[q].pc = job[q].pc /\ Doubt[q].blob = job[q].blob /\ Doubt[q].refs = job[q].refs
           /\ Doubt[q].drop = job[q].drop /\ ~Doubt[q].sure /\ ~Doubt[q].heals
           /\ DoubtObject[q].pc = job[q].pc /\ DoubtObject[q].blob = job[q].blob
           /\ DoubtObject[q].refs = job[q].refs /\ DoubtObject[q].drop = job[q].drop
           /\ DoubtObject[q].failed = job[q].failed /\ DoubtObject[q].answer = job[q].answer
           /\ DoubtObject[q].sure => job[q].sure /\ job[q].blob \in carried
           /\ ~DoubtObject[q].heals
<1>1. job[q] \in Job
  BY DEF IInv, Shape
<1>2. /\ Doubt[q] = [job[q] EXCEPT !.sure = FALSE, !.heals = FALSE]
      /\ DoubtObject[q] = [job[q] EXCEPT !.sure = job[q].sure /\ job[q].blob \in carried,
                                         !.heals = FALSE]
  BY Doubts DEF IInv, Shape
<1> DEFINE sure == job[q].sure /\ job[q].blob \in carried
<1> HIDE DEF sure
<1>3. DoubtObject[q] = [job[q] EXCEPT !.sure = sure, !.heals = FALSE]
  BY <1>2 DEF sure
<1>4. sure => job[q].sure /\ job[q].blob \in carried
  BY DEF sure
<1> QED BY <1>1, <1>2, <1>3, <1>4 DEF Job

\* The collector takes a file, or finds it gone.
LEMMA SweepKeeps ==
    ASSUME IInv, Shape', NEW p \in Procs, NEW f \in job[p].todo, Sweep(p, f)
    PROVE  IInv'
<1>1. /\ job \in [Procs -> Job] /\ job[p] \in Job /\ DOMAIN store = Files
      /\ \A q \in Procs : JobInv(q) /\ JobShape(job[q])
      /\ StoreInv /\ used \in Used
  BY Before DEF IInv, Shape
<1>2. job[p].pc = "sweep" /\ job[p].drop = None /\ store' = [store EXCEPT ![f] = Absent]
  BY DEF Sweep, At
<1>3. f \in Files /\ job[p].answer = None
  BY <1>1, <1>2 DEF JobShape
<1>4. store'[f] = Absent /\ \A g \in Files : g # f => store'[g] = store[g]
  BY <1>1, <1>2, <1>3, WriteOne
<1>5. CASE ~Here(f)
  <2>1. job' = [job EXCEPT ![p].todo = @ \ {f}] \/ job' = [job EXCEPT ![p].todo = @ \ {f}, ![p].count = @]
    BY <1>5 DEF Sweep
  <2>2. /\ job'[p].pc = "sweep" /\ job'[p].drop = None /\ job'[p].answer = None
        /\ \A q \in Procs : q # p => job'[q] = job[q]
    BY <2>1, <1>1, <1>2, <1>3 DEF Job
  <2>3. \A g \in Files : store'[g] = store[g]
    BY <1>4, <1>5 DEF Here
  <2>4. Grown(p)
    BY <2>3, FileKinds DEF Grown
  <2>5. UNCHANGED <<vouched, carried, used>>
    BY <1>5 DEF Sweep
  <2>6. Quiet(p)
    BY <2>2, <2>4, <2>5, <1>2 DEF Quiet
  <2>7. JobInv(p)'
    BY <2>2, SweepingInv DEF Sweeping
  <2> QED BY <2>5, <2>6, <2>7, QuietKeeps
<1>6. CASE Here(f)
  <2>1. vouched' = {} /\ carried' = {} /\ used'.swept /\ used'.damage = used.damage
    BY <1>1, <1>6 DEF Sweep, Used
  <2>2. ASSUME NEW q \in Procs
        PROVE  /\ job'[q].pc = job[q].pc /\ job'[q].blob = job[q].blob /\ job'[q].refs = job[q].refs
               /\ job'[q].drop = job[q].drop /\ ~job'[q].sure /\ ~job'[q].heals
    <3>1. job' = [Doubt EXCEPT ![p].todo = @ \ {f}, ![p].count = @ - 1]
      BY <1>6 DEF Sweep
    <3>2. Doubt \in [Procs -> Job]
      BY <1>1, Doubts
    <3> HIDE DEF Doubt
    <3>3. CASE q = p
      <4>1. job'[p] = [Doubt[p] EXCEPT !.todo = @ \ {f}, !.count = @ - 1] /\ Doubt[p] \in Job
        BY <3>1, <3>2
      <4>2. /\ job'[p].pc = Doubt[p].pc /\ job'[p].blob = Doubt[p].blob /\ job'[p].refs = Doubt[p].refs
            /\ job'[p].drop = Doubt[p].drop /\ job'[p].sure = Doubt[p].sure
            /\ job'[p].heals = Doubt[p].heals
        BY <4>1 DEF Job
      <4> QED BY <3>3, <4>2, DoubtIs
    <3>4. CASE q # p
      BY <3>1, <3>2, <3>4, DoubtIs
    <3> QED BY <3>3, <3>4
  <2>3. \A g \in Files : store'[g] \in {Absent, store[g]}
    BY <1>4
  <2>4. ASSUME used.damage = 0
        PROVE  StoreTruth' /\ \A q \in Procs : JobTruth(job[q])'
    <3>1. StoreTruth /\ \A q \in Procs : JobTruth(job[q])
      BY <2>4, <1>1 DEF StoreInv, JobInv
    <3>2. /\ \A b \in Blobs : store'[Object(b)] \in {Absent, b}
          /\ \A c \in ChunkIds : store'[Chunk(c)] \in {Absent, c}
          /\ \A s \in Shrinks : store'[Delta(s[1], s[2])] \in {Absent, s[2]}
      BY <2>3, <3>1, FileKinds DEF StoreTruth
    <3>3. \A b \in Large : store'[Manifest(b)] # Absent =>
                store'[Manifest(b)] # Garbage /\ Spliced(store'[Manifest(b)], b) = b
      BY <2>3, <3>1, FileKinds DEF StoreTruth, Here, Valid
    <3>4. \A q \in Procs : JobTruth(job[q])'
      BY <2>2, <3>1 DEF JobTruth
    <3> QED BY <3>2, <3>3, <3>4 DEF StoreTruth, Here, Valid
  <2>5. StagedTruth'
    <3>1. \A q \in Procs : job[q].pc = "publish" => store[Staged(q)] \in {Absent, job[q].blob}
      BY <1>1 DEF JobInv
    <3>2. \A q \in Procs : store'[Staged(q)] \in {Absent, store[Staged(q)]}
      BY <2>3, FileKinds
    <3> QED BY <2>2, <3>1, <3>2 DEF StagedTruth
  <2>6. Kept' /\ Healing' /\ ~Pristine'
    BY <2>1, <2>2 DEF Kept, Promised, Healing, Pristine
  <2> QED BY <2>1, <2>4, <2>5, <2>6, LossKeeps
<1> QED BY <1>5, <1>6

\* A file rots.
LEMMA DamageKeeps ==
    ASSUME IInv, Shape', NEW f \in Files, Damage(f)
    PROVE  IInv'
<1>1. /\ job \in [Procs -> Job] /\ DOMAIN store = Files
      /\ \A q \in Procs : JobInv(q) /\ JobShape(job[q])
      /\ StoreInv /\ used \in Used /\ carried \subseteq Blobs
  BY InvariantParts DEF IInv, Shape, StoreShape
<1>2. /\ f \notin {Staged(p) : p \in Procs} /\ store' = [store EXCEPT ![f] = Garbage]
      /\ vouched' = {}
  BY DEF Damage
<1>3. used'.damage # 0
  BY <1>1 DEF Damage, Used
<1>4. \A g \in Files : g # f => store'[g] = store[g]
  BY <1>1, <1>2, WriteOne
<1>5. ASSUME \A q \in Procs : job'[q].pc = job[q].pc /\ job'[q].blob = job[q].blob
      PROVE  StagedTruth'
  <2>1. \A q \in Procs : store'[Staged(q)] = store[Staged(q)]
    BY <1>2, <1>4, FileKinds
  <2>2. \A q \in Procs : job[q].pc = "publish" => store[Staged(q)] \in {Absent, job[q].blob}
    BY <1>1 DEF JobInv
  <2> QED BY <1>5, <2>1, <2>2 DEF StagedTruth
<1>6. ~Pristine'
  BY <1>3 DEF Pristine
<1>7. CASE f \in {Object(b) : b \in Large}
  <2>1. job' = DoubtObject /\ carried' = carried
    BY <1>7 DEF Damage
  <2>2. StagedTruth'
    BY <2>1, <1>5, DoubtIs
  <2>3. PICK d \in Large : f = Object(d)
    BY <1>7
  <2>4. ASSUME NEW b \in carried
        PROVE  Carries(b)' /\ \A q \in Procs : job'[q].drop \notin Carriers(b)
    <3>1. Carries(b) /\ b \in Blobs /\ \A q \in Procs : job[q].drop \notin Carriers(b)
      BY <1>1 DEF StoreInv, Promised
    <3>2. f \notin Carriers(b)
      <4>1. CASE b \in Large
        BY <4>1, <2>3, NamesDiffer DEF Carriers
      <4>2. CASE b \notin Large
        BY <4>2, <2>3, NamesDiffer DEF Carriers
      <4> QED BY <4>1, <4>2
    <3>3. \A g \in Carriers(b) : g \in Files
      BY <3>1, FileKinds, PartsAreChunks DEF Carriers
    <3>4. \A g \in Carriers(b) : store'[g] = store[g]
      BY <3>2, <3>3, <1>4
    <3>5. Carries(b)'
      BY <3>1, <3>4 DEF Carries, Carriers, Valid
    <3> QED BY <3>1, <3>5, <2>1, DoubtIs
  <2>5. Promised'
    BY <2>1, <2>4, <1>2 DEF Promised, Carriers
  <2>6. ASSUME NEW q \in Procs, job'[q].sure
        PROVE  Sure(job[q])'
    <3>1. /\ job'[q].pc = job[q].pc /\ job'[q].blob = job[q].blob /\ job'[q].refs = job[q].refs
          /\ job'[q].failed = job[q].failed /\ job'[q].answer = job[q].answer
          /\ job[q].sure /\ job[q].blob \in carried
      BY <2>1, <2>6, DoubtIs
    <3>2. Sure(job[q])
      BY <3>1, <1>1 DEF JobInv
    <3> QED BY <3>1, <3>2, <2>1, <1>3 DEF Sure
  <2>7. Kept' /\ Healing'
    BY <2>1, <2>5, <2>6, DoubtIs DEF Kept, Healing
  <2> QED BY <2>2, <2>7, <1>3, <1>6, LossKeeps
<1>8. CASE f \notin {Object(b) : b \in Large}
  <2>1. job' = Doubt /\ carried' = {}
    BY <1>8 DEF Damage
  <2>2. StagedTruth'
    BY <2>1, <1>5, DoubtIs
  <2>3. Kept' /\ Healing'
    BY <2>1, <1>2, DoubtIs DEF Kept, Promised, Healing
  <2> QED BY <2>2, <2>3, <1>3, <1>6, LossKeeps
<1> QED BY <1>7, <1>8

\* A process stops: what it knew is gone, what it wrote is not.
LEMMA CrashKeeps ==
    ASSUME IInv, Shape', NEW p \in Procs, Crash(p)
    PROVE  IInv'
<1>1. /\ job \in [Procs -> Job] /\ \A q \in Procs : JobInv(q) /\ JobShape(job[q])
      /\ StoreInv /\ used \in Used /\ vouched \subseteq Blobs /\ carried \subseteq Blobs
  BY Before DEF IInv, Shape
<1>2. /\ UNCHANGED <<store, vouched, carried>> /\ used'.damage = used.damage
      /\ used'.swept = used.swept /\ used'.crashes # 0
  BY <1>1 DEF Crash, Used
<1>3. /\ job'[p] \in {Idle, [Idle EXCEPT !.answer = "error"]}
      /\ \A q \in Procs : q # p => job'[q] = job[q]
  BY <1>1, JobStep DEF Crash, WriteFails, Answer
<1>4. /\ job'[p].pc = "idle" /\ job'[p].drop = None /\ ~job'[p].sure /\ ~job'[p].heals
  BY <1>3 DEF Idle
<1>5. \A q \in Procs : job'[q].drop \in {job[q].drop, None}
  BY <1>3, <1>4
<1>6. JobInv(p)'
  BY <1>3, <1>4 DEF JobInv, JobTruth, Progress
<1>7. ASSUME NEW q \in Procs, q # p
      PROVE  JobInv(q)'
  <2>1. job'[q] = job[q] /\ JobInv(q) /\ JobShape(job[q])
    BY <1>1, <1>3, <1>7
  <2>2. ASSUME job[q].heals
        PROVE  Heals(job[q])'
    <3>1. Heals(job[q])
      BY <2>1, <2>2 DEF JobInv
    <3>2. job[q].pc \in Putting => None # Object(job[q].blob)
      BY <2>1, FileKinds, ValuesAssumption DEF JobShape
    <3> QED BY <2>1, <3>1, <3>2, <1>2, <1>5 DEF Heals
  <2> QED BY <2>1, <2>2, <1>2 DEF JobInv, JobTruth, Progress, Sure, Pristine, Here
<1>8. Promised'
  <2>1. ASSUME NEW b \in carried
        PROVE  Carries(b)' /\ \A q \in Procs : job'[q].drop \notin Carriers(b)
    <3>1. Carries(b) /\ b \in Blobs /\ \A q \in Procs : job[q].drop \notin Carriers(b)
      BY <1>1 DEF StoreInv, Promised
    <3>2. None \notin Carriers(b)
      BY <3>1, FileKinds, PartsAreChunks, ValuesAssumption DEF Carriers
    <3> QED BY <3>1, <3>2, <1>2, <1>5 DEF Carries, Valid
  <2> QED BY <2>1, <1>1, <1>2 DEF StoreInv, Promised, Carriers
<1>9. StoreInv'
  BY <1>1, <1>2, <1>8 DEF StoreInv, StoreTruth, Pristine, NoStray, AllChunksHere, Here, Valid
<1>10. \A q \in Procs : JobInv(q)'
  BY <1>6, <1>7
<1> QED BY <1>9, <1>10 DEF IInv, StoreInv, JobInv, Truth, StagedTruth, Complete, Kept, Healing

------------------------------------------------------------------------------
(* The invariant. *)

\* What an earlier build has left is complete, and nothing is under way.
LEMMA InitInv ==
    ASSUME Init
    PROVE  IInv
<1>1. PICK earlier \in Earlier : Sown(earlier)
  BY InitIsSown
<1>2. /\ job = [p \in Procs |-> Idle] /\ vouched = {} /\ carried = {}
      /\ used = [ops |-> 0, damage |-> 0, edits |-> 0, crashes |-> 0, swept |-> FALSE]
  BY DEF Init
<1>3. \A p \in Procs : job[p].pc = "idle" /\ job[p].drop = None /\ ~job[p].sure /\ ~job[p].heals
  BY <1>2 DEF Idle
<1>4. ASSUME NEW b \in Large, Here(Manifest(b))
      PROVE  b \in earlier /\ Valid(b) /\ Spliced(store[Manifest(b)], b) = b /\ AllChunksHere(b)
  <2>1. b \in earlier /\ b \in Blobs
    BY <1>1, <1>4 DEF Sown, Here, Large
  <2>2. store[Manifest(b)] = [i \in DOMAIN Pieces(b) |-> [chunk |-> Pieces(b)[i], base |-> None]]
    BY <1>1, <2>1 DEF Sown
  <2>3. store[Manifest(b)] \in Seq(Ref) /\ Spliced(store[Manifest(b)], b) = b
    BY <2>2, ListingIs
  <2>4. Valid(b)
    BY <2>3, ValuesAssumption DEF Valid
  <2>5. ASSUME NEW i \in DOMAIN Pieces(b)
        PROVE  Here(Chunk(Pieces(b)[i]))
    <3>1. Pieces(b)[i] \in ChunkIds /\ Pieces(b)[i] # Absent
      BY <2>1, PartsAreChunks
    <3>2. store[Chunk(Pieces(b)[i])] = Pieces(b)[i]
      BY <1>1, <2>1, <3>1 DEF Sown
    <3> QED BY <3>1, <3>2 DEF Here
  <2> QED BY <2>1, <2>3, <2>4, <2>5 DEF AllChunksHere
<1>5. StoreTruth
  <2>1. \A s \in Shrinks : store[Delta(s[1], s[2])] \in {Absent, s[2]}
    BY <1>1 DEF Sown
  <2>2. \A b \in Blobs : store[Object(b)] \in {Absent, b}
    BY <1>1 DEF Sown
  <2>3. \A c \in ChunkIds : store[Chunk(c)] \in {Absent, c}
    BY <1>1 DEF Sown
  <2> QED BY <2>1, <2>2, <2>3, <1>4 DEF StoreTruth
<1>6. Truth
  BY <1>3, <1>5 DEF Truth, StagedTruth, JobTruth
<1>7. Complete
  BY <1>3, <1>4 DEF Complete, Progress
<1>8. NoStray
  <2> SUFFICES ASSUME NEW c \in ChunkIds, Here(Chunk(c))
               PROVE  InManifest(c)
    BY DEF NoStray
  <2>1. PICK b \in earlier : \E i \in DOMAIN Pieces(b) : Pieces(b)[i] = c
    BY <1>1 DEF Sown, Here
  <2>2. b \in Large
    BY <1>1 DEF Sown
  <2>3. Here(Manifest(b))
    <3>1. store[Manifest(b)] = [i \in DOMAIN Pieces(b) |-> [chunk |-> Pieces(b)[i], base |-> None]]
      BY <1>1, <2>2 DEF Sown
    <3>2. store[Manifest(b)] \in Seq(Ref)
      BY <3>1, <2>2, ListingIs
    <3>3. Pieces(b) \in Seq(ChunkIds) /\ DOMAIN store[Manifest(b)] = DOMAIN Pieces(b)
      BY <3>1, <2>2, PiecesAreChunks DEF Large
    <3>4. PICK i \in DOMAIN store[Manifest(b)] : TRUE
      BY <2>1, <3>3
    <3>5. store[Manifest(b)] # Absent
      <4>1. Absent \notin Seq(Ref)
        BY ValuesAssumption
      <4> QED BY <3>2, <4>1
    <3> QED BY <3>5 DEF Here
  <2> QED BY <2>1, <2>2, <2>3 DEF InManifest, ListedIn
<1>9. Kept /\ Healing
  BY <1>2, <1>3 DEF Kept, Promised, Healing
<1> QED BY <1>6, <1>7, <1>8, <1>9, InitShape DEF IInv

\* Every step keeps it.
LEMMA NextInv ==
    ASSUME IInv, [Next]_vars
    PROVE  IInv'
<1>1. Shape'
  BY NextShape DEF IInv
<1>2. CASE UNCHANGED vars
  BY <1>1, <1>2, NothingKeeps DEF vars
<1>3. ASSUME NEW p \in Procs, Operation(p)
      PROVE  IInv'
  <2>1. CASE Drop(p) \/ Stage(p) \/ PublishObject(p) \/ StatObject(p) \/ PublishManifest(p) \/ PublishHead(p)
    BY <2>1, <1>1, DropKeeps, StageKeeps, PublishObjectKeeps, StatObjectKeeps, PublishManifestKeeps,
       PublishHeadKeeps
  <2>2. CASE \E i \in job[p].todo : Prepare(p, i) \/ PublishChunk(p, i) \/ FetchChunk(p, i)
    BY <2>2, <1>1, PrepareKeeps, PublishChunkKeeps, FetchChunkKeeps
  <2>3. CASE Look(p) \/ CopyObject(p) \/ ReadManifest(p) \/ Splice(p) \/ Place(p)
    BY <2>3, <1>1, LookKeeps, CopyObjectKeeps, ReadManifestKeeps, SpliceKeeps, PlaceKeeps
  <2>4. CASE List(p) \/ Measure(p) \/ Swept(p) \/ \E f \in job[p].todo : Sweep(p, f)
    BY <2>4, <1>1, ListKeeps, SweepKeeps
  <2> QED BY <1>3, <2>1, <2>2, <2>3, <2>4 DEF Operation
<1>4. CASE \E p \in Procs : Begin(p)
  BY <1>1, <1>4, BeginKeeps
<1>5. CASE Environment
  BY <1>1, <1>5, EditKeeps, DamageKeeps, CrashKeeps DEF Environment
<1> QED BY <1>2, <1>3, <1>4, <1>5 DEF Next

\* The store of a workspace (cas.rs) under any interleaving of puts, restores,
\* collectors, crashes and rot: undamaged files are true, manifests come after
\* their chunks, what was promised is there, and what a missed restore could
\* not use is gone.
THEOREM StoreInvariant == Spec => []IInv
<1>1. Init => IInv
  BY InitInv
<1>2. IInv /\ [Next]_vars => IInv'
  BY NextInv
<1> QED BY <1>1, <1>2, PTL DEF Spec

------------------------------------------------------------------------------
(* What follows from it. *)

\* A finite union of sequences has finitely many places.
LEMMA ListedIsFinite ==
    ASSUME Shape
    PROVE  IsFiniteSet(Listed) /\ IsFiniteSet(Referenced) /\ Cardinality(Listed) \in Nat
<1> DEFINE Places(b) == {<<b, i>> : i \in DOMAIN store[Manifest(b)]}
           f == [b \in Readable |-> Places(b)]
<1>1. IsFiniteSet(Readable)
  <2>1. Readable \subseteq Blobs
    BY DEF Readable, Large
  <2> QED BY <2>1, ContentsAssumption, FS_Subset
<1>2. ASSUME NEW b \in Readable
      PROVE  IsFiniteSet(Places(b))
  <2>1. store[Manifest(b)] \in Seq(Ref)
    BY DEF Readable, Shape, StoreShape
  <2>2. IsFiniteSet(1 .. Len(store[Manifest(b)])) /\ DOMAIN store[Manifest(b)] = 1 .. Len(store[Manifest(b)])
    BY <2>1, FS_Interval
  <2> DEFINE at == [i \in DOMAIN store[Manifest(b)] |-> <<b, i>>]
  <2>3. at = [i \in DOMAIN store[Manifest(b)] |-> at[i]]
    OBVIOUS
  <2>4. Places(b) = {at[i] : i \in DOMAIN store[Manifest(b)]}
    OBVIOUS
  <2> HIDE DEF at, Places
  <2> QED BY <2>2, <2>3, <2>4, FiniteRange
<1>3. IsFiniteSet({f[b] : b \in Readable})
  <2> HIDE DEF Places
  <2>1. f = [b \in Readable |-> f[b]]
    OBVIOUS
  <2> HIDE DEF f
  <2> QED BY <2>1, <1>1, FiniteRange
<1>4. \A T \in {f[b] : b \in Readable} : IsFiniteSet(T)
  BY <1>2
<1>5. IsFiniteSet(UNION {f[b] : b \in Readable})
  <2> HIDE DEF f
  <2> QED BY <1>3, <1>4, FS_UNION
<1>6. Listed = UNION {f[b] : b \in Readable}
  BY DEF Listed
<1>7. IsFiniteSet(Listed)
  <2> HIDE DEF f
  <2> QED BY <1>5, <1>6
<1>8. IsFiniteSet(Referenced)
  <2> DEFINE at == [x \in Listed |-> store[Manifest(x[1])][x[2]].chunk]
  <2>1. at = [x \in Listed |-> at[x]] /\ Referenced = {at[x] : x \in Listed}
    BY DEF Referenced
  <2> HIDE DEF at
  <2> QED BY <2>1, <1>7, FiniteRange
<1> QED BY <1>7, <1>8, FS_CardinalityType

\* In a store at rest that has lost nothing the manifests list what is there.
LEMMA ListedIsThere ==
    ASSUME IInv, \A p \in Procs : job[p].pc = "idle", Pristine, used.crashes = 0
    PROVE  Referenced = {c \in ChunkIds : Here(Chunk(c))}
<1>1. StoreTruth
  BY DEF IInv, Truth, Pristine
<1>2. ASSUME NEW b \in Large, Here(Manifest(b))
      PROVE  /\ b \in Readable /\ AllChunksHere(b) /\ b \in Blobs
             /\ DOMAIN store[Manifest(b)] = DOMAIN Pieces(b)
             /\ \A i \in DOMAIN Pieces(b) : store[Manifest(b)][i].chunk = Pieces(b)[i]
  <2>1. Valid(b) /\ Spliced(store[Manifest(b)], b) = b
    BY <1>1, <1>2 DEF StoreTruth
  <2>2. store[Manifest(b)] \in Seq(Draft)
    BY <2>1, EntriesAreChunks DEF IInv, Shape, StoreShape
  <2>3. b \in Blobs
    BY DEF Large
  <2> QED BY <2>1, <2>2, <2>3, <1>2, SplicedIs DEF IInv, Complete, Readable
<1>3. ASSUME NEW c \in ChunkIds, Here(Chunk(c))
      PROVE  c \in Referenced
  <2>1. InManifest(c) \/ UnderWay(c)
    BY <1>3 DEF IInv, NoStray
  <2>2. ~UnderWay(c)
    BY DEF UnderWay
  <2>3. PICK b \in Large : Here(Manifest(b)) /\ ListedIn(c, b)
    BY <2>1, <2>2 DEF InManifest
  <2>4. PICK i \in DOMAIN Pieces(b) : Pieces(b)[i] = c
    BY <2>3 DEF ListedIn
  <2>5. i \in DOMAIN store[Manifest(b)] /\ store[Manifest(b)][i].chunk = c /\ b \in Readable
    BY <2>3, <2>4, <1>2
  <2>6. <<b, i>> \in Listed /\ <<b, i>>[1] = b /\ <<b, i>>[2] = i
    BY <2>5 DEF Listed
  <2> QED BY <2>5, <2>6 DEF Referenced
<1>4. ASSUME NEW c \in Referenced
      PROVE  c \in ChunkIds /\ Here(Chunk(c))
  <2>1. PICK at \in Listed : c = store[Manifest(at[1])][at[2]].chunk
    BY DEF Referenced
  <2>2. PICK b \in Readable : \E i \in DOMAIN store[Manifest(b)] : at = <<b, i>>
    BY DEF Listed
  <2>3. PICK i \in DOMAIN store[Manifest(b)] : at = <<b, i>>
    BY <2>2
  <2>4. b \in Large /\ Here(Manifest(b))
    BY DEF Readable, Valid, Here
  <2>5. i \in DOMAIN Pieces(b) /\ c = Pieces(b)[i]
    BY <2>1, <2>3, <2>4, <1>2
  <2> QED BY <2>4, <2>5, <1>2, PartsAreChunks DEF AllChunksHere
<1> QED BY <1>3, <1>4

\* An undamaged store is what its names and its own report say (put, put_chunks,
\* stats): objects, chunks and manifests hash to their names, and at rest what
\* is reported as not reused is what lies in the chunk directory.
THEOREM StoreIsTrueHolds == Spec => []StoreIsTrue
<1>1. IInv => NamesAreTrue
  BY DEF IInv, Truth, StoreTruth, NamesAreTrue
<1>2. ASSUME IInv, \A p \in Procs : job[p].pc = "idle", used.damage + used.crashes = 0, ~used.swept
      PROVE  Stats.logical - Stats.reused = Stats.chunks
  <2>1. used \in Used
    BY <1>2 DEF IInv, Shape
  <2>2. used.damage = 0 /\ used.crashes = 0
    BY <1>2, <2>1 DEF Used
  <2>3. Referenced = {c \in ChunkIds : Here(Chunk(c))}
    BY <1>2, <2>2, ListedIsThere DEF Pristine
  <2>4. Cardinality(Listed) \in Nat /\ Cardinality(Referenced) \in Nat
    BY <1>2, ListedIsFinite, FS_CardinalityType DEF IInv
  <2>5. /\ Stats.logical = Cardinality(Listed)
        /\ Stats.reused = Cardinality(Listed) - Cardinality(Referenced)
        /\ Stats.chunks = Cardinality(Referenced)
    BY <2>3 DEF Stats, ChunkCount
  <2> QED BY <2>4, <2>5
<1>3. IInv => StoreIsTrue
  BY <1>1, <1>2 DEF StoreIsTrue, ReuseIsReal
<1> QED BY <1>3, StoreInvariant, PTL

\* What a put has acknowledged stays restorable, by the object or by its chunks
\* (put, put_chunks, materialize), however operations, losses and crashes mix.
THEOREM PutsAreKeptHolds == Spec => []PutsAreKept
<1>1. IInv => VouchedIsServed
  BY DEF IInv, Kept, Sure, VouchedIsServed
<1>2. ASSUME IInv
      PROVE  ChunksCarry
  <2>1. \A b \in carried \cap Large : Carries(b)
    BY <1>2 DEF IInv, Kept, Promised
  <2> QED BY <2>1 DEF ChunksCarry, Carries, Valid, Here
<1>3. IInv => PutsAreKept
  BY <1>1, <1>2 DEF PutsAreKept
<1> QED BY <1>3, StoreInvariant, PTL

\* The steps of one process do not answer for another.
LEMMA OthersAnswer ==
    ASSUME IInv, NEW p \in Procs, NEW q \in Procs, p # q, Operation(q) \/ Begin(q) \/ Crash(q)
    PROVE  job'[p].answer = job[p].answer
<1>1. /\ job \in [Procs -> Job] /\ \A r \in Procs : JobShape(job[r])
  BY Before DEF IInv, Shape
<1>2. \A j : Set(q, j) => job'[p] = job[p]
  BY <1>1, JobStep
<1>3. \A a : Answer(q, a) => job'[p] = job[p]
  BY <1>2 DEF Answer
<1>4. \A pc : Step(q, pc) => job'[p] = job[p]
  BY <1>2 DEF Step
<1>5. CASE Drop(q) \/ Stage(q) \/ PublishObject(q) \/ StatObject(q) \/ PublishManifest(q) \/ PublishHead(q)
  BY <1>2, <1>3, <1>4, <1>5 DEF Drop, Stage, PublishObject, StatObject, PublishManifest, PublishHead, Stored
<1>6. CASE \E i \in job[q].todo : Prepare(q, i) \/ PublishChunk(q, i) \/ FetchChunk(q, i)
  <2>1. PICK i \in job[q].todo : Prepare(q, i) \/ PublishChunk(q, i) \/ FetchChunk(q, i)
    BY <1>6
  <2>2. \E j : Set(q, j)
    <3>1. CASE Prepare(q, i)
      BY <3>1 DEF Prepare
    <3>2. CASE PublishChunk(q, i)
      BY <3>2 DEF PublishChunk
    <3>3. CASE FetchChunk(q, i)
      BY <3>3 DEF FetchChunk
    <3> QED BY <2>1, <3>1, <3>2, <3>3
  <2> QED BY <2>2, <1>2
<1>7. CASE Look(q) \/ CopyObject(q) \/ ReadManifest(q) \/ Splice(q) \/ Place(q)
  BY <1>2, <1>3, <1>4, <1>7 DEF Look, CopyObject, ReadManifest, Splice, Place, Materialize
<1>8. CASE List(q) \/ Measure(q) \/ Swept(q)
  BY <1>2, <1>3, <1>8 DEF List, Measure, Swept
<1>9. ASSUME NEW f \in job[q].todo, Sweep(q, f)
      PROVE  job'[p].answer = job[p].answer
  <2> DEFINE jobs == IF Here(f) THEN Doubt ELSE job
  <2>1. job' = [jobs EXCEPT ![q].todo = @ \ {f}, ![q].count = IF Here(f) THEN @ - 1 ELSE @]
    BY <1>9 DEF Sweep
  <2>2. jobs \in [Procs -> Job] /\ jobs[p].answer = job[p].answer
    <3>1. Doubt \in [Procs -> Job] /\ Doubt[p] = [job[p] EXCEPT !.sure = FALSE, !.heals = FALSE]
      BY <1>1, Doubts
    <3>2. [job[p] EXCEPT !.sure = FALSE, !.heals = FALSE].answer = job[p].answer
      BY <1>1 DEF Job
    <3> QED BY <3>1, <3>2, <1>1
  <2> HIDE DEF jobs
  <2>3. job'[p] = jobs[p]
    BY <2>1, <2>2
  <2> QED BY <2>2, <2>3
<1>10. CASE Begin(q) \/ Crash(q)
  <2>1. \E j : Set(q, j)
    <3>1. CASE Crash(q)
      BY <3>1 DEF Crash, WriteFails, Answer
    <3>2. CASE BeginGc(q)
      BY <3>2 DEF BeginGc
    <3>3. ASSUME NEW a \in Artifacts, NEW b \in Blobs, BeginPut(q, a, b) \/ BeginGet(q, a, b)
          PROVE  \E j : Set(q, j)
      BY <3>3 DEF BeginPut, BeginGet
    <3> QED BY <1>10, <3>1, <3>2, <3>3 DEF Begin
  <2> QED BY <2>1, <1>2
<1> QED BY <1>5, <1>6, <1>7, <1>8, <1>9, <1>10 DEF Operation

\* Only these steps answer.
LEMMA OnlyTheseAnswer ==
    ASSUME IInv, Next, NEW p \in Procs, job[p].pc # "idle", job'[p].answer # None
    PROVE  \/ Stage(p) \/ PublishObject(p) \/ StatObject(p) \/ PublishHead(p)
           \/ CopyObject(p) \/ ReadManifest(p) \/ Splice(p) \/ Place(p)
           \/ Measure(p) \/ Swept(p) \/ Crash(p)
<1>1. /\ job \in [Procs -> Job] /\ job[p] \in Job /\ \A r \in Procs : JobShape(job[r])
      /\ job[p].answer = None
  BY Before DEF IInv, Shape, JobShape
<1>2. \A q \in Procs : q # p => ~(Operation(q) \/ Begin(q) \/ Crash(q))
  BY <1>1, OthersAnswer
<1>3. ~Begin(p)
  BY DEF Begin, BeginPut, BeginGet, BeginGc
<1>4. Environment => Crash(p)
  <2>2. ASSUME NEW f \in Files
        PROVE  ~Damage(f)
    <3>1. Damage(f) => job' = Doubt \/ job' = DoubtObject
      BY DEF Damage
    <3>2. Doubt[p].answer = None
      <4>1. Doubt[p] = [job[p] EXCEPT !.sure = FALSE, !.heals = FALSE]
        BY <1>1, Doubts
      <4> HIDE DEF Doubt
      <4> QED BY <4>1, <1>1 DEF Job
    <3> QED BY <3>1, <3>2, <1>1, DoubtIs
  <2>3. \A a \in Artifacts, b \in Blobs : ~Edit(a, b)
    BY <1>1 DEF Edit
  <2> QED BY <1>2, <2>2, <2>3 DEF Environment
<1>5. Operation(p) \/ Crash(p)
  BY <1>2, <1>3, <1>4 DEF Next
<1>6. ~Drop(p)
  <2>1. Drop(p) => job'[p] = [job[p] EXCEPT !.drop = None]
    BY <1>1, JobStep DEF Drop
  <2> QED BY <2>1, <1>1 DEF Job
<1>7. ~Look(p) /\ ~PublishManifest(p)
  BY <1>1, StepIs DEF Look, PublishManifest
<1>8. ~List(p)
  <2> DEFINE todo == {f \in Files : Here(f)}
  <2>1. List(p) => Set(p, [job[p] EXCEPT !.pc = "measure", !.todo = todo])
    BY DEF List
  <2> HIDE DEF todo
  <2>2. List(p) => job'[p] = [job[p] EXCEPT !.pc = "measure", !.todo = todo]
    BY <2>1, <1>1, JobStep
  <2> QED BY <2>2, <1>1 DEF Job
<1>9. ASSUME NEW i \in job[p].todo
      PROVE  ~PublishChunk(p, i) /\ ~Prepare(p, i) /\ ~FetchChunk(p, i)
  <2>1. ~PublishChunk(p, i)
    <3>1. PublishChunk(p, i) => job'[p] = [job[p] EXCEPT !.todo = @ \ {i}]
      BY <1>1, JobStep DEF PublishChunk
    <3> QED BY <3>1, <1>1 DEF Job
  <2>2. ~Prepare(p, i)
    <3> SUFFICES ASSUME Prepare(p, i)
                 PROVE  FALSE
      OBVIOUS
    <3> DEFINE delta == IF Here(Chunk(job[p].refs[i].chunk)) THEN [base |-> None, drop |-> None]
                        ELSE DeltaBase(p, i)
               j == [job[p] EXCEPT !.refs[i].base = delta.base, !.drop = delta.drop]
    <3>1. Set(p, j)
      BY DEF Prepare
    <3>2. j.answer = None
      <4> HIDE DEF delta
      <4> QED BY <1>1 DEF Job
    <3> HIDE DEF j
    <3> QED BY <3>1, <3>2, <1>1, JobStep
  <2>3. ~FetchChunk(p, i)
    <3> SUFFICES ASSUME FetchChunk(p, i)
                 PROVE  FALSE
      OBVIOUS
    <3> DEFINE ref == job[p].refs[i]
               f == Chunk(ref.chunk)
               ok == IF ~Here(f) THEN Rebuilds(ref) ELSE Verified(store[f], ref.chunk)
               drop == IF ok THEN None ELSE IF ~Here(f) THEN Rotten(ref) ELSE f
               j == [job[p] EXCEPT !.todo = @ \ {i}, !.failed = @ \/ ~ok, !.drop = drop]
    <3>1. Set(p, j)
      BY DEF FetchChunk
    <3>2. j.answer = None
      <4> HIDE DEF ok, drop
      <4> QED BY <1>1 DEF Job
    <3> HIDE DEF j
    <3> QED BY <3>1, <3>2, <1>1, JobStep
  <2> QED BY <2>1, <2>2, <2>3
<1>10. ASSUME NEW f \in job[p].todo
       PROVE  ~Sweep(p, f)
  <2> SUFFICES ASSUME Sweep(p, f)
               PROVE  FALSE
    OBVIOUS
  <2> DEFINE jobs == IF Here(f) THEN Doubt ELSE job
             count == IF Here(f) THEN jobs[p].count - 1 ELSE jobs[p].count
  <2>1. job' = [jobs EXCEPT ![p].todo = @ \ {f}, ![p].count = IF Here(f) THEN @ - 1 ELSE @]
    BY DEF Sweep
  <2>2. jobs \in [Procs -> Job] /\ jobs[p].answer = None
    <3>1. Doubt \in [Procs -> Job] /\ Doubt[p] = [job[p] EXCEPT !.sure = FALSE, !.heals = FALSE]
      BY <1>1, Doubts
    <3>2. [job[p] EXCEPT !.sure = FALSE, !.heals = FALSE].answer = None
      BY <1>1 DEF Job
    <3> QED BY <3>1, <3>2, <1>1
  <2>3. job'[p] = [jobs[p] EXCEPT !.todo = jobs[p].todo \ {f}, !.count = count]
    <3> HIDE DEF jobs
    <3> QED BY <2>1, <2>2 DEF Job
  <2> HIDE DEF jobs, count
  <2>4. jobs[p] \in Job
    BY <2>2
  <2>5. job'[p].answer = None
    BY <2>2, <2>3, <2>4 DEF Job
  <2> QED BY <2>5
<1> QED BY <1>5, <1>6, <1>7, <1>8, <1>9, <1>10 DEF Operation

\* The answer of a step that answers.
LEMMA AnswerOnce ==
    ASSUME IInv, NEW p \in Procs, NEW a, NEW c, Answer(p, a), job'[p].answer = c
    PROVE  a = c
BY AnswerIs DEF IInv, Shape

\* A restore that answers "yes" has written exactly what was asked for; it takes
\* the output away only with that content in hand, and leaves it alone if it
\* answers "no"; and a put that follows a missed restore stores what is intact
\* (materialize, put).
THEOREM RestoresAreSoundHolds == Spec => RestoresAreSound
<1>1. ASSUME IInv, [Next]_vars, NEW p \in Procs, job[p].pc \in Getting
      PROVE  /\ job'[p].answer = "hit" => out'[job[p].artifact] = job[p].blob
             /\ job'[p].answer \in {"miss", "vanished", "error"} => out' = out
             /\ job'[p].pc = "place" => job'[p].copy = job'[p].blob
  <2>1. /\ JobShape(job[p]) /\ out \in [Artifacts -> Blobs \union {None}] /\ job \in [Procs -> Job]
        /\ job[p] \in Job /\ job[p].pc # "idle" /\ job[p].answer = None
    BY <1>1 DEF IInv, Shape, JobShape, Getting
  <2>2. job[p].artifact \in Artifacts
    BY <1>1, <2>1 DEF JobShape
  <2>3. None \notin {"hit", "miss", "vanished", "error"}
    BY ValuesAssumption
  <2>4. \A a : Answer(p, a) => job'[p].answer = a /\ job'[p].pc = "idle"
    BY <2>1, AnswerIs
  <2>5. CASE UNCHANGED vars
    BY <2>1, <2>3, <2>5 DEF vars, JobShape
  <2>6. CASE Next /\ job'[p].answer \in {"hit", "miss", "vanished", "error"}
    <3>1. CopyObject(p) \/ ReadManifest(p) \/ Splice(p) \/ Place(p) \/ Crash(p)
      <4>1. job'[p].answer # None
        BY <2>3, <2>6
      <4> QED BY <1>1, <2>1, <2>6, <4>1, OnlyTheseAnswer
              DEF Stage, PublishObject, StatObject, PublishHead, Measure, Swept, At, Getting
    <3>2. \A content : ~Materialize(p, content)
      <4>1. SUFFICES ASSUME NEW content, Materialize(p, content)
                     PROVE  FALSE
        OBVIOUS
      <4>2. job'[p] = [job[p] EXCEPT !.pc = "place", !.copy = content]
        BY <4>1, <2>1, JobStep DEF Materialize
      <4> QED BY <4>2, <2>1, <2>3, <2>6 DEF Job
    <3>4. CASE ReadManifest(p)
      <4>1. Answer(p, "miss")
        <5>1. ASSUME NEW refs, NEW todo, NEW failed, NEW drop,
                     \/ Set(p, [job[p] EXCEPT !.pc = "splice", !.failed = failed, !.drop = drop])
                     \/ Set(p, [job[p] EXCEPT !.pc = "splice", !.refs = refs, !.todo = todo])
              PROVE  FALSE
          <6>1. \/ job'[p] = [job[p] EXCEPT !.pc = "splice", !.failed = failed, !.drop = drop]
                \/ job'[p] = [job[p] EXCEPT !.pc = "splice", !.refs = refs, !.todo = todo]
            BY <5>1, <2>1, JobStep
          <6> QED BY <6>1, <2>1, <2>3, <2>6 DEF Job
        <5> QED BY <3>4, <5>1 DEF ReadManifest
      <4> QED BY <3>4, <4>1, <2>4 DEF ReadManifest
    <3>5. CASE CopyObject(p)
      <4>1. Answer(p, "vanished") /\ UNCHANGED out
        <5>1. ASSUME Set(p, [job[p] EXCEPT !.pc = "manifest", !.drop = Object(job[p].blob)])
              PROVE  FALSE
          <6>1. job'[p] = [job[p] EXCEPT !.pc = "manifest", !.drop = Object(job[p].blob)]
            BY <5>1, <2>1, JobStep
          <6> QED BY <6>1, <2>1, <2>3, <2>6 DEF Job
        <5> QED BY <3>5, <3>2, <5>1 DEF CopyObject
      <4> QED BY <4>1, <2>4
    <3>6. CASE Splice(p)
      <4>1. Answer(p, "miss") /\ UNCHANGED out
        BY <3>6, <3>2 DEF Splice
      <4> QED BY <4>1, <2>4
    <3>7. CASE Place(p)
      <4>1. job[p].copy = job[p].blob
        BY <3>7, <2>1 DEF Place, At, JobShape
      <4>2. CASE out' = [out EXCEPT ![job[p].artifact] = job[p].copy] /\ Answer(p, "hit")
        BY <4>1, <4>2, <2>1, <2>2, <2>4
      <4>3. CASE Answer(p, "error") /\ UNCHANGED out
        BY <4>3, <2>4
      <4> QED BY <3>7, <4>2, <4>3 DEF Place
    <3>8. CASE Crash(p)
      <4>1. job'[p] \in {Idle, [Idle EXCEPT !.answer = "error"]} /\ out' = out
        BY <3>8, <2>1, JobStep DEF Crash, WriteFails, Answer
      <4> QED BY <4>1, <2>3 DEF Idle
    <3> QED BY <3>1, <3>4, <3>5, <3>6, <3>7, <3>8
  <2>7. CASE job'[p].answer \notin {"hit", "miss", "vanished", "error"}
    <3>1. JobShape(job'[p])
      BY <1>1, NextInv DEF IInv, Shape
    <3> QED BY <2>7, <3>1 DEF JobShape
  <2> QED BY <1>1, <2>5, <2>6, <2>7
<1>2. ASSUME IInv, [Next]_vars, NEW p \in Procs, job'[p].answer = "stored", job[p].heals, job[p].pc # "idle"
      PROVE  store'[Object(job[p].blob)] = job[p].blob
  <2>1. /\ JobShape(job[p]) /\ job \in [Procs -> Job] /\ job[p].answer = None /\ Heals(job[p])
    BY <1>2 DEF IInv, Shape, JobShape, Healing
  <2>2. None # "stored"
    BY ValuesAssumption
  <2>3. Next
    BY <1>2, <2>1, <2>2 DEF vars
  <2>4. \A a : Answer(p, a) => a = "stored"
    BY <1>2, AnswerOnce
  <2>5. \A pc : ~Step(p, pc)
    BY <1>2, <2>1, <2>2, StepIs
  <2>6. StatObject(p) \/ PublishHead(p)
    <3>1. job'[p].answer # None
      BY <1>2, <2>2
    <3>2. ~Stage(p) /\ ~PublishObject(p) /\ ~Swept(p) /\ ~Place(p)
      BY <2>4, <2>5 DEF Stage, PublishObject, Swept, Place
    <3>3. \A j : Set(p, j) => j.answer = "stored"
      BY <1>2, <2>1, JobStep
    <3>4. job[p] \in Job
      BY <2>1
    <3>8. \A content : ~Materialize(p, content)
      <4>1. \A content : [job[p] EXCEPT !.pc = "place", !.copy = content].answer = None
        BY <3>4, <2>1 DEF Job
      <4> QED BY <2>2, <3>3, <4>1 DEF Materialize
    <3>9. ~Splice(p) /\ ~Crash(p)
      BY <2>2, <2>4, <3>3, <3>8 DEF Splice, Crash, WriteFails, Idle
    <3>5. ~CopyObject(p)
      <4>1. [job[p] EXCEPT !.pc = "manifest", !.drop = Object(job[p].blob)].answer = None
        BY <3>4, <2>1 DEF Job
      <4> QED BY <2>2, <2>4, <3>3, <3>8, <4>1 DEF CopyObject
    <3>6. ~ReadManifest(p)
      <4>1. /\ [job[p] EXCEPT !.pc = "splice", !.failed = TRUE, !.drop = Manifest(job[p].blob)].answer = None
            /\ [job[p] EXCEPT !.pc = "splice", !.refs = store[Manifest(job[p].blob)],
                              !.todo = DOMAIN store[Manifest(job[p].blob)]].answer = None
        BY <3>4, <2>1 DEF Job
      <4> QED BY <2>2, <2>4, <3>3, <4>1 DEF ReadManifest
    <3>7. ~Measure(p)
      <4>1. [job[p] EXCEPT !.pc = "sweep", !.count = Cardinality(job[p].todo)].answer = None
        BY <3>4, <2>1 DEF Job
      <4> QED BY <2>2, <2>4, <3>3, <4>1 DEF Measure
    <3> QED BY <1>2, <2>3, <3>1, <3>2, <3>5, <3>6, <3>7, <3>9, OnlyTheseAnswer
  <2>7. CASE PublishHead(p)
    BY <2>1, <2>7 DEF PublishHead, At, Heals
  <2>8. CASE StatObject(p)
    <3>1. store[Object(job[p].blob)] \in {Absent, job[p].blob} /\ UNCHANGED store
      BY <2>1, <2>8 DEF StatObject, At, Heals, Putting
    <3>2. Here(Object(job[p].blob))
      BY <2>4, <2>8 DEF StatObject
    <3> QED BY <3>1, <3>2 DEF Here
  <2> QED BY <2>6, <2>7, <2>8
<1>3. IInv /\ [Next]_vars =>
        [\A p \in Procs : job[p].pc \in {"get", "copy", "manifest", "splice", "place"} =>
            /\ job'[p].answer = "hit" => out'[job[p].artifact] = job[p].blob
            /\ job'[p].answer \in {"miss", "vanished", "error"} => out' = out
            /\ job'[p].pc = "place" => job'[p].copy = job'[p].blob]_vars
  BY <1>1 DEF Getting
<1>4. IInv /\ [Next]_vars =>
        [\A p \in Procs : job'[p].answer = "stored" /\ job[p].heals /\ job[p].pc # "idle" =>
            store'[Object(job[p].blob)] = job[p].blob]_vars
  BY <1>2
<1>5. Spec => []IInv
  BY StoreInvariant
<1> QED BY <1>3, <1>4, <1>5, PTL DEF Spec, RestoresAreSound, HitsAreExact, RebuildingHeals
------------------------------------------------------------------------------
(* The chunker, for any lengths, masks and gear.  First arithmetic modulo   *)
(* the width of the hash.                                                   *)

LEMMA DivMod ==
    ASSUME NEW x \in Nat, NEW w \in Nat \ {0}
    PROVE  x = w * (x \div w) + (x % w) /\ x % w \in 0 .. w - 1 /\ x \div w \in Nat
OBVIOUS

LEMMA ModUnique ==
    ASSUME NEW w \in Nat \ {0}, NEW q \in Nat, NEW r \in 0 .. w - 1
    PROVE  ((w * q) + r) % w = r /\ ((w * q) + r) \div w = q
OBVIOUS

LEMMA ModAdd ==
    ASSUME NEW w \in Nat \ {0}, NEW x \in Nat, NEW y \in Nat
    PROVE  ((x % w) + y) % w = (x + y) % w
<1> DEFINE q == x \div w
           r == x % w
           s == (r + y) \div w
           t == (r + y) % w
<1>1. x = w * q + r /\ r \in 0 .. w - 1 /\ q \in Nat
  BY DivMod
<1>2. r + y = w * s + t /\ t \in 0 .. w - 1 /\ s \in Nat
  <2>1. r + y \in Nat
    BY <1>1
  <2> HIDE DEF r
  <2> QED BY <2>1, DivMod
<1> HIDE DEF q, r, s, t
<1>3. x + y = w * (q + s) + t
  BY <1>1, <1>2
<1>4. (w * (q + s) + t) % w = t
  <2>1. q + s \in Nat
    BY <1>1, <1>2
  <2> QED BY <2>1, <1>2, ModUnique
<1> QED BY <1>3, <1>4 DEF t, r

LEMMA ModDouble ==
    ASSUME NEW w \in Nat \ {0}, NEW x \in Nat
    PROVE  (2 * (x % w)) % w = (2 * x) % w
<1> DEFINE q == x \div w
           r == x % w
           s == (2 * r) \div w
           t == (2 * r) % w
<1>1. x = w * q + r /\ r \in 0 .. w - 1 /\ q \in Nat
  BY DivMod
<1>2. 2 * r = w * s + t /\ t \in 0 .. w - 1 /\ s \in Nat
  <2>1. 2 * r \in Nat
    BY <1>1
  <2> HIDE DEF r
  <2> QED BY <2>1, DivMod
<1> HIDE DEF q, r, s, t
<1>3. 2 * x = w * (2 * q + s) + t
  BY <1>1, <1>2
<1>4. (w * (2 * q + s) + t) % w = t
  <2>1. 2 * q + s \in Nat
    BY <1>1, <1>2
  <2> QED BY <2>1, <1>2, ModUnique
<1> QED BY <1>3, <1>4 DEF t, r

\* Doubled modulo w, a word keeps a bit below the highest, one place higher.
LEMMA DoubledBit ==
    ASSUME NEW w \in Nat \ {0}, NEW bit \in Nat \ {0}, w % (4 * bit) = 0, NEW r \in 0 .. w - 1
    PROVE  (((2 * r) % w) \div (2 * bit)) % 2 = (r \div bit) % 2
<1> DEFINE n == w \div (4 * bit)
           a == r \div bit
           b == r % bit
           s == (2 * r) \div w
           t == (2 * r) % w
<1>1. w = 4 * bit * n /\ n \in Nat
  <2>1. 4 * bit \in Nat \ {0}
    OBVIOUS
  <2>2. w = (4 * bit) * n + (w % (4 * bit)) /\ n \in Nat
    BY <2>1, DivMod
  <2> QED BY <2>2
<1>2. r = bit * a + b /\ b \in 0 .. bit - 1 /\ a \in Nat
  <2>1. r \in Nat
    OBVIOUS
  <2> QED BY <2>1, DivMod
<1>3. 2 * r = w * s + t /\ t \in 0 .. w - 1 /\ s \in Nat
  <2>1. 2 * r \in Nat
    OBVIOUS
  <2> QED BY <2>1, DivMod
<1> HIDE DEF n, a, b, s, t
<1> DEFINE c == a - 2 * n * s
<1>4. t = (2 * bit) * c + 2 * b
  <2>1. t = 2 * (bit * a + b) - (4 * bit * n) * s
    BY <1>1, <1>2, <1>3
  <2> QED BY <2>1, <1>1, <1>2, <1>3
<1>5. c \in Nat
  <2>1. c \in Int
    BY <1>1, <1>2, <1>3
  <2>2. (2 * bit) * c + 2 * b >= 0
    BY <1>4, <1>3
  <2>3. 2 * b < 2 * bit
    BY <1>2
  <2> HIDE DEF c
  <2>4. SUFFICES ASSUME c <= -1 PROVE FALSE
    BY <2>1
  <2>5. (2 * bit) * c <= -(2 * bit)
    BY <2>1, <2>4
  <2> QED BY <2>1, <2>2, <2>3, <2>5, <1>2
<1>6. t \div (2 * bit) = c
  <2>1. 2 * b \in 0 .. (2 * bit) - 1 /\ 2 * bit \in Nat \ {0}
    BY <1>2
  <2> HIDE DEF c
  <2> QED BY <1>4, <1>5, <2>1, ModUnique
<1>7. c % 2 = a % 2
  <2> DEFINE m == n * s
  <2>1. c = a - 2 * m /\ m \in Nat
    BY <1>1, <1>2, <1>3
  <2> HIDE DEF c, m
  <2> QED BY <2>1, <1>2, <1>5
<1> QED BY <1>6, <1>7 DEF t, a

------------------------------------------------------------------------------
(* Functions that call themselves. *)

\* A set of numbers has a least one.
LEMMA LeastNumber ==
    ASSUME NEW S \in SUBSET Nat, S # {}
    PROVE  \E n \in S : \A m \in S : n <= m
<1>1. PICK n \in S : \A m \in S : ~ (<<m, n>> \in OpToRel(<, Nat))
  <2> HIDE DEF OpToRel
  <2> QED BY NatLessThanWellFounded, WFMin
<1>2. \A m \in S : ~ (m < n)
  BY <1>1 DEF OpToRel
<1> QED BY <1>2

\* Each value of a function is computed from those of lower levels.
Computed(D, V, top, level, step) ==
    /\ top \in Nat /\ level \in [D -> 0 .. top]
    /\ step \in [[D -> V] -> [D -> V]]
    /\ \A g, h \in [D -> V], x \in D :
          (\A y \in D : level[y] < level[x] => g[y] = h[y]) => step[g][x] = step[h][x]

\* There is such a function: it is found by applying the definition to any
\* function as often as there are levels.
LEMMA RecursionIsDefined ==
    ASSUME NEW D, NEW V, NEW top, NEW level, NEW step, Computed(D, V, top, level, step),
           NEW start \in [D -> V]
    PROVE  \E g \in [D -> V] : g = step[g]
<1> USE DEF Computed
<1> DEFINE Solved(n) == \E g \in [D -> V] : \A x \in D : level[x] < n => g[x] = step[g][x]
           Failing == {n \in Nat : ~ Solved(n)}
<1>1. Failing = {}
  <2>1. SUFFICES ASSUME Failing # {} PROVE FALSE
    OBVIOUS
  <2>2. PICK n \in Failing : \A m \in Failing : n <= m
    <3>1. Failing \in SUBSET Nat
      OBVIOUS
    <3> HIDE DEF Failing
    <3> QED BY <2>1, <3>1, LeastNumber
  <2>3. Solved(0)
    BY DEF Solved
  <2>4. n \in Nat /\ n # 0 /\ ~ Solved(n)
    BY <2>2, <2>3
  <2>5. Solved(n - 1)
    <3>1. n - 1 \in Nat /\ ~ (n <= n - 1)
      BY <2>4
    <3> HIDE DEF Solved
    <3> QED BY <2>2, <3>1
  <2>6. PICK g \in [D -> V] : \A x \in D : level[x] < n - 1 => g[x] = step[g][x]
    BY <2>5
  <2> DEFINE h == step[g]
  <2>7. h \in [D -> V]
    OBVIOUS
  <2>8. ASSUME NEW x \in D, level[x] < n PROVE h[x] = step[h][x]
    <3>1. \A y \in D : level[y] < level[x] => g[y] = h[y]
      BY <2>4, <2>6, <2>8
    <3> HIDE DEF h
    <3>2. step[g][x] = step[h][x]
      BY <2>7, <3>1
    <3> QED BY <3>2 DEF h
  <2> HIDE DEF h
  <2> QED BY <2>4, <2>7, <2>8
<1>2. Solved(top + 1)
  <2>1. top + 1 \in Nat
    OBVIOUS
  <2> HIDE DEF Solved
  <2> QED BY <1>1, <2>1
<1>3. PICK g \in [D -> V] : \A x \in D : g[x] = step[g][x]
  BY <1>2
<1>4. step[g] \in [D -> V]
  OBVIOUS
<1> QED BY <1>3, <1>4

\* What holds wherever it holds on the lower levels holds everywhere.
Inductive(D, top, level, S) ==
    /\ top \in Nat /\ level \in [D -> 0 .. top]
    /\ \A x \in D : (\A y \in D : level[y] < level[x] => y \in S) => x \in S

LEMMA LevelInduction ==
    ASSUME NEW D, NEW top, NEW level, NEW S, Inductive(D, top, level, S)
    PROVE  D \subseteq S
<1> USE DEF Inductive
<1> DEFINE Failing == {n \in 0 .. top : \E x \in D : level[x] = n /\ x \notin S}
<1>1. SUFFICES ASSUME Failing # {} PROVE FALSE
  OBVIOUS
<1>2. PICK n \in Failing : \A m \in Failing : n <= m
  <2>1. Failing \in SUBSET Nat
    OBVIOUS
  <2> HIDE DEF Failing
  <2> QED BY <1>1, <2>1, LeastNumber
<1>3. PICK x \in D : level[x] = n /\ x \notin S
  BY <1>2
<1>4. ASSUME NEW y \in D, level[y] < level[x] PROVE y \in S
  <2>1. level[y] \in 0 .. top /\ ~ (n <= level[y])
    BY <1>3, <1>4
  <2> QED BY <1>2, <2>1
<1> QED BY <1>3, <1>4

\* Two functions agree if they agree wherever they agree on the lower levels.
Agreeing(D, top, level, f, g) ==
    /\ top \in Nat /\ level \in [D -> 0 .. top]
    /\ \A x \in D : (\A y \in D : level[y] < level[x] => f[y] = g[y]) => f[x] = g[x]

LEMMA RecursionAgrees ==
    ASSUME NEW D, NEW top, NEW level, NEW f, NEW g, Agreeing(D, top, level, f, g)
    PROVE  \A x \in D : f[x] = g[x]
<1> DEFINE S == {x \in D : f[x] = g[x]}
<1>1. Inductive(D, top, level, S)
  BY DEF Agreeing, Inductive
<1>2. D \subseteq S
  <2> HIDE DEF S
  <2> QED BY <1>1, LevelInduction
<1> QED BY <1>2

------------------------------------------------------------------------------
(* The hash by pairs of bytes and the hash by bytes.                        *)

Hashes == 0 .. Word - 1
Bytes == DOMAIN Gear

LEMMA ResidueIsHash ==
    ASSUME NEW n \in Nat
    PROVE  n % Word \in Hashes
BY MasksAssumption, DivMod DEF Hashes

\* What RolledByPairs computes.
\* What RolledByPairs computes.
LEMMA PairsAre ==
    ASSUME NEW bytes \in Seq(Bytes), NEW from \in Nat, from <= Len(bytes)
    PROVE  LET hash == RolledByPairs(bytes, from) IN
           /\ hash \in [from - 1 .. Len(bytes) - 1 -> Hashes]
           /\ hash[from - 1] = 0
           /\ \A offset \in from .. Len(bytes) - 1 : hash[offset] =
                 IF offset % 2 = 0 THEN (4 * hash[offset - 1] + 2 * Gear[bytes[offset + 1]]) % Word
                 ELSE (hash[offset - 1] + Gear[bytes[offset + 1]]) % Word
<1> DEFINE D == (from - 1) .. Len(bytes) - 1
           level == [offset \in D |-> offset - from + 1]
           next(g, offset) ==
               IF offset < from THEN 0
               ELSE IF offset % 2 = 0 THEN (4 * g[offset - 1] + 2 * Gear[bytes[offset + 1]]) % Word
               ELSE (g[offset - 1] + Gear[bytes[offset + 1]]) % Word
           step == [g \in [D -> Hashes] |-> [offset \in D |-> next(g, offset)]]
<1>1. /\ Len(bytes) \in Nat /\ level \in [D -> 0 .. Len(bytes)] /\ from - 1 \in D
      /\ \A offset \in D : /\ offset < from <=> offset = from - 1
                           /\ offset >= from => /\ offset - 1 \in D /\ level[offset - 1] < level[offset]
                                                /\ bytes[offset + 1] \in Bytes
  OBVIOUS
<1> HIDE DEF D, level
<1>2. ASSUME NEW g, NEW h, NEW x \in D, \A y \in D : level[y] < level[x] => g[y] = h[y]
      PROVE  next(g, x) = next(h, x)
  <2>1. ~ x < from => g[x - 1] = h[x - 1]
    <3>1. x < from \/ x >= from
      BY DEF D
    <3> QED BY <1>1, <1>2, <3>1
  <2> QED BY <2>1
<1>3. ASSUME NEW g \in [D -> Hashes], NEW x \in D PROVE next(g, x) \in Hashes
  <2>1. CASE x < from
    BY <2>1, MasksAssumption DEF Hashes
  <2>2. CASE x >= from
    <3> DEFINE p == g[x - 1]
               v == Gear[bytes[x + 1]]
    <3>1. p \in Hashes /\ v \in Hashes
      BY <1>1, <2>2, GearAssumption DEF Bytes, Hashes
    <3> HIDE DEF p, v
    <3>2. 4 * p + 2 * v \in Nat /\ p + v \in Nat
      BY <3>1 DEF Hashes
    <3>3. (4 * p + 2 * v) % Word \in Hashes /\ (p + v) % Word \in Hashes
      BY <3>2, ResidueIsHash
    <3>4. ~ x < from
      BY <2>2 DEF D
    <3> QED BY <3>3, <3>4 DEF p, v
  <2> QED BY <2>1, <2>2 DEF D
<1> DEFINE hash == RolledByPairs(bytes, from)
<1>4. hash = CHOOSE g : g = [offset \in D |-> next(g, offset)]
  BY DEF RolledByPairs, D
<1> HIDE DEF next, hash
<1>5. PICK g \in [D -> Hashes] : g = step[g]
  <2> DEFINE start == [offset \in D |-> 0]
  <2>1. start \in [D -> Hashes]
    BY MasksAssumption DEF Hashes
  <2>2. step \in [[D -> Hashes] -> [D -> Hashes]]
    BY <1>3
  <2>3. \A f, h \in [D -> Hashes], x \in D :
           (\A y \in D : level[y] < level[x] => f[y] = h[y]) => step[f][x] = step[h][x]
    BY <1>2
  <2>4. Computed(D, Hashes, Len(bytes), level, step)
    BY <1>1, <2>2, <2>3 DEF Computed
  <2> HIDE DEF step, start
  <2> QED BY <2>1, <2>4, RecursionIsDefined
<1>6. hash = [offset \in D |-> next(hash, offset)]
  <2>1. \E f : f = [offset \in D |-> next(f, offset)]
    BY <1>5
  <2> QED BY <1>4, <2>1
<1>7. \A x \in D : hash[x] = g[x]
  <2>1. \A x \in D : hash[x] = next(hash, x) /\ g[x] = next(g, x)
    BY <1>5, <1>6
  <2>2. Agreeing(D, Len(bytes), level, hash, g)
    BY <1>1, <1>2, <2>1 DEF Agreeing
  <2> QED BY <2>2, RecursionAgrees
<1>8. hash \in [D -> Hashes]
  BY <1>5, <1>6, <1>7
<1>9. \A x \in D : hash[x] = next(hash, x)
  BY <1>6
<1>10. hash[from - 1] = 0
  BY <1>1, <1>9 DEF next
<1>11. ASSUME NEW offset \in from .. Len(bytes) - 1 PROVE offset \in D /\ ~ offset < from
  BY DEF D
<1> QED BY <1>8, <1>9, <1>10, <1>11 DEF next, hash, D

\* What ByteHash computes.
LEMMA BytesAre ==
    ASSUME NEW bytes \in Seq(Bytes), Even(Minimum) <= Len(bytes)
    PROVE  LET from == Even(Minimum)
               hash == ByteHash(bytes)
           IN  /\ hash \in [from - 1 .. Len(bytes) - 1 -> Hashes]
               /\ hash[from - 1] = 0
               /\ \A offset \in from .. Len(bytes) - 1 :
                     hash[offset] = (2 * hash[offset - 1] + Gear[bytes[offset + 1]]) % Word
<1> DEFINE from == Even(Minimum)
           D == (from - 1) .. Len(bytes) - 1
           level == [offset \in D |-> offset - from + 1]
           next(g, offset) ==
               IF offset < from THEN 0 ELSE (2 * g[offset - 1] + Gear[bytes[offset + 1]]) % Word
           step == [g \in [D -> Hashes] |-> [offset \in D |-> next(g, offset)]]
           hash == ByteHash(bytes)
<1>1. hash = CHOOSE g : g = [offset \in D |-> next(g, offset)]
  BY DEF ByteHash
<1>2. from \in Nat /\ from <= Len(bytes)
  BY LengthsAssumption DEF Even
<1> HIDE DEF from
<1>3. /\ Len(bytes) \in Nat /\ level \in [D -> 0 .. Len(bytes)] /\ from - 1 \in D
      /\ \A offset \in D : /\ offset < from <=> offset = from - 1
                           /\ offset >= from => /\ offset - 1 \in D /\ level[offset - 1] < level[offset]
                                                /\ bytes[offset + 1] \in Bytes
  BY <1>2
<1> HIDE DEF D, level, hash
<1>4. ASSUME NEW g, NEW h, NEW x \in D, \A y \in D : level[y] < level[x] => g[y] = h[y]
      PROVE  next(g, x) = next(h, x)
  <2>1. ~ x < from => g[x - 1] = h[x - 1]
    <3>1. x < from \/ x >= from
      BY <1>2 DEF D
    <3> QED BY <1>3, <1>4, <3>1
  <2> QED BY <2>1
<1>5. ASSUME NEW g \in [D -> Hashes], NEW x \in D PROVE next(g, x) \in Hashes
  <2>1. CASE x < from
    BY <2>1, MasksAssumption DEF Hashes
  <2>2. CASE x >= from
    <3> DEFINE p == g[x - 1]
               v == Gear[bytes[x + 1]]
    <3>1. p \in Hashes /\ v \in Hashes
      BY <1>3, <2>2, GearAssumption DEF Bytes, Hashes
    <3> HIDE DEF p, v
    <3>2. 2 * p + v \in Nat
      BY <3>1 DEF Hashes
    <3>3. (2 * p + v) % Word \in Hashes
      BY <3>2, ResidueIsHash
    <3>4. ~ x < from
      BY <1>2, <2>2 DEF D
    <3> QED BY <3>3, <3>4 DEF p, v
  <2> QED BY <1>2, <2>1, <2>2 DEF D
<1> HIDE DEF next
<1>6. PICK g \in [D -> Hashes] : g = step[g]
  <2> DEFINE start == [offset \in D |-> 0]
  <2>1. start \in [D -> Hashes]
    BY MasksAssumption DEF Hashes
  <2>2. step \in [[D -> Hashes] -> [D -> Hashes]]
    BY <1>5
  <2>3. \A f, h \in [D -> Hashes], x \in D :
           (\A y \in D : level[y] < level[x] => f[y] = h[y]) => step[f][x] = step[h][x]
    BY <1>4
  <2>4. Computed(D, Hashes, Len(bytes), level, step)
    BY <1>3, <2>2, <2>3 DEF Computed
  <2> HIDE DEF step, start
  <2> QED BY <2>1, <2>4, RecursionIsDefined
<1>7. hash = [offset \in D |-> next(hash, offset)]
  <2>1. \E f : f = [offset \in D |-> next(f, offset)]
    BY <1>6
  <2> QED BY <1>1, <2>1
<1>8. \A x \in D : hash[x] = g[x]
  <2>1. \A x \in D : hash[x] = next(hash, x) /\ g[x] = next(g, x)
    BY <1>6, <1>7
  <2>2. Agreeing(D, Len(bytes), level, hash, g)
    BY <1>3, <1>4, <2>1 DEF Agreeing
  <2> QED BY <2>2, RecursionAgrees
<1>9. hash \in [D -> Hashes]
  BY <1>6, <1>7, <1>8
<1>10. \A x \in D : hash[x] = next(hash, x)
  BY <1>7
<1>11. hash[from - 1] = 0
  BY <1>3, <1>10 DEF next
<1>12. ASSUME NEW offset \in from .. Len(bytes) - 1 PROVE offset \in D /\ ~ offset < from
  BY <1>2 DEF D
<1> QED BY <1>9, <1>10, <1>11, <1>12 DEF next, hash, D, from

\* At an odd offset the two hashes are the same; at an even one the hash by pairs
\* is the doubled hash by bytes.
LEMMA PairsAreBytes ==
    ASSUME NEW bytes \in Seq(Bytes), Even(Minimum) <= Len(bytes)
    PROVE  LET from == Even(Minimum)
               pair == RolledByPairs(bytes, from)
               byte == ByteHash(bytes)
           IN  \A offset \in from .. Len(bytes) - 1 :
                  /\ byte[offset] \in Hashes
                  /\ pair[offset] = IF offset % 2 = 0 THEN (2 * byte[offset]) % Word
                                    ELSE byte[offset]
<1> DEFINE from == Even(Minimum)
           pair == RolledByPairs(bytes, from)
           byte == ByteHash(bytes)
           D == (from - 1) .. Len(bytes) - 1
           level == [offset \in D |-> offset - from + 1]
           doubled == [offset \in D |-> IF offset % 2 = 0 THEN (2 * byte[offset]) % Word
                                        ELSE byte[offset]]
<1>1. from \in Nat /\ from <= Len(bytes) /\ from % 2 = 0 /\ Len(bytes) \in Nat
  BY LengthsAssumption DEF Even
<1>2. /\ pair[from - 1] = 0
      /\ \A offset \in from .. Len(bytes) - 1 : pair[offset] =
            IF offset % 2 = 0 THEN (4 * pair[offset - 1] + 2 * Gear[bytes[offset + 1]]) % Word
            ELSE (pair[offset - 1] + Gear[bytes[offset + 1]]) % Word
  BY <1>1, PairsAre
<1>3. /\ byte \in [D -> Hashes] /\ byte[from - 1] = 0
      /\ \A offset \in from .. Len(bytes) - 1 :
            byte[offset] = (2 * byte[offset - 1] + Gear[bytes[offset + 1]]) % Word
  BY BytesAre
<1> HIDE DEF pair, byte, from
<1>4. ASSUME NEW x \in D, \A y \in D : level[y] < level[x] => pair[y] = doubled[y]
      PROVE  pair[x] = doubled[x]
  <2>1. CASE x = from - 1
    <3>1. x % 2 = 1
      BY <1>1, <2>1
    <3> QED BY <1>2, <1>3, <2>1, <3>1
  <2>2. CASE x \in from .. Len(bytes) - 1
    <3> DEFINE b == byte[x - 1]
               v == Gear[bytes[x + 1]]
    <3>1. b \in Hashes /\ v \in Hashes /\ x \in D /\ x - 1 \in D
      <4>1. x \in D /\ x - 1 \in D /\ bytes[x + 1] \in Bytes
        BY <1>1, <2>2
      <4> HIDE DEF D
      <4> QED BY <1>3, <4>1, GearAssumption DEF Bytes, Hashes
    <3>2. pair[x - 1] = doubled[x - 1]
      BY <1>1, <1>4, <2>2
    <3>3. x % 2 \in {0, 1} /\ (x - 1) % 2 = 1 - (x % 2)
      BY <1>1, <2>2
    <3>4. byte[x] = (2 * b + v) % Word
      BY <1>3, <2>2
    <3> HIDE DEF b, v
    <3>5. b \in Nat /\ v \in Nat /\ Word \in Nat \ {0}
      BY <3>1, MasksAssumption DEF Hashes
    <3>6. CASE x % 2 = 0
      <4>1. pair[x - 1] = b
        BY <3>1, <3>2, <3>3, <3>6 DEF b
      <4>2. pair[x] = (4 * b + 2 * v) % Word
        BY <1>2, <2>2, <3>6, <4>1 DEF v
      <4>3. (2 * ((2 * b + v) % Word)) % Word = (2 * (2 * b + v)) % Word
        <5>1. 2 * b + v \in Nat
          BY <3>5
        <5> QED BY <3>5, <5>1, ModDouble
      <4>4. 2 * (2 * b + v) = 4 * b + 2 * v
        BY <3>5
      <4> QED BY <3>1, <3>4, <3>6, <4>2, <4>3, <4>4
    <3>7. CASE x % 2 = 1
      <4>1. pair[x - 1] = (2 * b) % Word
        BY <3>1, <3>2, <3>3, <3>7 DEF b
      <4>2. pair[x] = (((2 * b) % Word) + v) % Word
        BY <1>2, <2>2, <3>7, <4>1 DEF v
      <4>3. (((2 * b) % Word) + v) % Word = (2 * b + v) % Word
        <5>1. 2 * b \in Nat
          BY <3>5
        <5> QED BY <3>5, <5>1, ModAdd
      <4> QED BY <3>1, <3>4, <3>7, <4>2, <4>3
    <3> QED BY <3>3, <3>6, <3>7
  <2> QED BY <1>1, <2>1, <2>2
<1>5. Agreeing(D, Len(bytes), level, pair, doubled)
  <2>1. level \in [D -> 0 .. Len(bytes)]
    BY <1>1
  <2> HIDE DEF D, level, doubled
  <2> QED BY <1>1, <1>4, <2>1 DEF Agreeing
<1>6. \A x \in D : pair[x] = doubled[x]
  <2> HIDE DEF D, level, doubled
  <2> QED BY <1>5, RecursionAgrees
<1>7. \A offset \in from .. Len(bytes) - 1 : offset \in D
  BY <1>1
<1> QED BY <1>3, <1>6, <1>7 DEF from, pair, byte

\* A doubled word vanishes under a doubled mask if the word does under the mask.
LEMMA DoubledClear ==
    ASSUME NEW hash \in Hashes, NEW mask \in SUBSET (MaskSmall \cup MaskLarge)
    PROVE  Clear((2 * hash) % Word, Shifted(mask)) <=> Clear(hash, mask)
<1>1. \A bit \in mask : (((2 * hash) % Word) \div (2 * bit)) % 2 = (hash \div bit) % 2
  BY MasksAssumption, DoubledBit DEF Hashes
<1> QED BY <1>1 DEF Clear, Shifted

------------------------------------------------------------------------------
(* The first cut.                                                           *)

\* Testing pairs of bytes cuts where testing bytes does.
LEMMA CutsAgree ==
    ASSUME NEW bytes \in Seq(Bytes), Even(Minimum) <= Len(bytes),
           NEW offset \in Even(Minimum) .. Len(bytes) - 1,
           NEW mask \in SUBSET (MaskSmall \cup MaskLarge)
    PROVE  CutsAt(RolledByPairs(bytes, Even(Minimum)), offset, mask)
              <=> Clear(ByteHash(bytes)[offset], mask)
<1> DEFINE pair == RolledByPairs(bytes, Even(Minimum))
           byte == ByteHash(bytes)
<1>1. /\ byte[offset] \in Hashes
      /\ pair[offset] = IF offset % 2 = 0 THEN (2 * byte[offset]) % Word ELSE byte[offset]
  BY PairsAreBytes
<1> HIDE DEF pair, byte
<1>2. CASE offset % 2 = 0
  <2>1. pair[offset] = (2 * byte[offset]) % Word
    BY <1>1, <1>2
  <2>2. CutsAt(pair, offset, mask) <=> Clear((2 * byte[offset]) % Word, Shifted(mask))
    BY <1>2, <2>1 DEF CutsAt
  <2> QED BY <1>1, <2>2, DoubledClear DEF pair, byte
<1>3. CASE offset % 2 # 0
  <2>1. pair[offset] = byte[offset]
    BY <1>1, <1>3
  <2> QED BY <1>3, <2>1 DEF CutsAt, pair, byte
<1> QED BY <1>2, <1>3

\* Where the two ways cut, and in what range.
LEMMA BoundaryFacts ==
    ASSUME NEW bytes \in Seq(Bytes), Len(bytes) # 0
    PROVE  /\ Boundary(bytes) = ByteBoundary(bytes)
           /\ Boundary(bytes) \in 1 .. Len(bytes)
           /\ Boundary(bytes) <= Maximum
           /\ Boundary(bytes) < Len(bytes) => Even(Minimum) <= Boundary(bytes)
<1> DEFINE from == Even(Minimum)
           end == Least(Len(bytes), Maximum)
           center == Even(Least(end, Average))
           mask(o) == IF o < center THEN MaskSmall ELSE MaskLarge
           pair == RolledByPairs(bytes, from)
           byte == ByteHash(bytes)
           pairCuts == {o \in from .. Even(end) - 1 : CutsAt(pair, o, mask(o))}
           byteCuts == {o \in from .. Even(end) - 1 : Clear(byte[o], mask(o))}
<1>1. CASE Len(bytes) <= Minimum
  <2>1. Boundary(bytes) = Len(bytes) /\ ByteBoundary(bytes) = Len(bytes)
    BY <1>1 DEF Boundary, ByteBoundary
  <2> QED BY <1>1, <2>1, LengthsAssumption
<1>2. CASE ~ Len(bytes) <= Minimum
  <2>1. /\ from \in Nat /\ from >= 2 /\ from <= Minimum /\ Len(bytes) \in Nat
        /\ end \in Nat /\ end <= Len(bytes) /\ end <= Maximum
        /\ end < Len(bytes) => end = Maximum
        /\ Even(end) \in Nat /\ Even(end) <= end
    BY <1>2, LengthsAssumption DEF Even, Least
  <2>2. Boundary(bytes) = IF pairCuts = {} THEN end
                          ELSE CHOOSE o \in pairCuts : \A other \in pairCuts : o <= other
    BY <1>2 DEF Boundary
  <2>3. ByteBoundary(bytes) =
            CHOOSE o \in byteCuts \union {end} : \A other \in byteCuts \union {end} : o <= other
    BY <1>2 DEF ByteBoundary
  <2>4. pairCuts = byteCuts
    <3>1. ASSUME NEW o \in from .. Even(end) - 1
          PROVE  CutsAt(pair, o, mask(o)) <=> Clear(byte[o], mask(o))
      <4>1. o \in from .. Len(bytes) - 1 /\ from <= Len(bytes)
        BY <1>2, <2>1, LengthsAssumption
      <4>2. mask(o) \in SUBSET (MaskSmall \cup MaskLarge)
        OBVIOUS
      <4> HIDE DEF mask, end
      <4> QED BY <4>1, <4>2, CutsAgree
    <3> QED BY <3>1
  <2>5. \A o \in byteCuts : o \in Nat /\ from <= o /\ o < end
    <3> HIDE DEF from, end
    <3> QED BY <2>1
  <2> HIDE DEF from, end, pairCuts, byteCuts
  <2>6. CASE byteCuts = {}
    <3>1. Boundary(bytes) = end
      BY <2>2, <2>4, <2>6
    <3>2. ByteBoundary(bytes) = end
      BY <2>1, <2>3, <2>6
    <3> QED BY <1>2, <2>1, <3>1, <3>2, LengthsAssumption DEF from
  <2>7. CASE byteCuts # {}
    <3>1. PICK first \in byteCuts : \A other \in byteCuts : first <= other
      <4>1. byteCuts \in SUBSET Nat
        BY <2>5
      <4> QED BY <2>7, <4>1, LeastNumber
    <3>2. Boundary(bytes) = first
      BY <2>2, <2>4, <2>5, <2>7, <3>1
    <3>3. ByteBoundary(bytes) = first
      BY <2>1, <2>3, <2>5, <3>1
    <3>4. first \in Nat /\ from <= first /\ first < end
      BY <2>5
    <3>5. first \in 1 .. Len(bytes) /\ first <= Maximum
      BY <2>1, <3>4, LengthsAssumption
    <3> QED BY <3>2, <3>3, <3>4, <3>5 DEF from
  <2> QED BY <2>6, <2>7
<1> QED BY <1>1, <1>2

------------------------------------------------------------------------------
(* All the chunks.                                                          *)

\* What FlattenSeq computes from the left, as far as it got.
LEMMA FlattenIs ==
    ASSUME NEW S, NEW seqs \in Seq(Seq(S)), Len(seqs) # 0
    PROVE  \E flat \in [1 .. Len(seqs) -> Seq(S)] :
              /\ FlattenSeq(seqs) = flat[Len(seqs)]
              /\ \A i \in 1 .. Len(seqs) : flat[i] = IF i = 1 THEN seqs[i] ELSE flat[i - 1] \o seqs[i]
<1> DEFINE D == 1 .. Len(seqs)
           level == [i \in D |-> i]
           next(g, i) == IF i = 1 THEN seqs[i] ELSE g[i - 1] \o seqs[i]
           step == [g \in [D -> Seq(S)] |-> [i \in D |-> next(g, i)]]
           flat == CHOOSE g : g = [i \in D |-> next(g, i)]
<1>1. FlattenSeq(seqs) = flat[Len(seqs)]
  BY DEF FlattenSeq
<1>2. /\ Len(seqs) \in Nat /\ Len(seqs) \in D /\ level \in [D -> 0 .. Len(seqs)]
      /\ \A i \in D : seqs[i] \in Seq(S) /\ (i # 1 => i - 1 \in D /\ level[i - 1] < level[i])
  OBVIOUS
<1> HIDE DEF D, level
<1>3. ASSUME NEW g, NEW h, NEW x \in D, \A y \in D : level[y] < level[x] => g[y] = h[y]
      PROVE  next(g, x) = next(h, x)
  BY <1>2, <1>3
<1>4. ASSUME NEW g \in [D -> Seq(S)], NEW x \in D PROVE next(g, x) \in Seq(S)
  <2>1. CASE x = 1
    BY <1>2, <2>1
  <2>2. CASE x # 1
    <3>1. g[x - 1] \in Seq(S) /\ seqs[x] \in Seq(S)
      BY <1>2, <2>2
    <3>2. g[x - 1] \o seqs[x] \in Seq(S)
      BY <3>1, ConcatProperties
    <3> QED BY <2>2, <3>2
  <2> QED BY <2>1, <2>2
<1> HIDE DEF next
<1>5. PICK g \in [D -> Seq(S)] : g = step[g]
  <2> DEFINE start == [i \in D |-> << >>]
  <2>1. start \in [D -> Seq(S)]
    OBVIOUS
  <2>2. step \in [[D -> Seq(S)] -> [D -> Seq(S)]]
    BY <1>4
  <2>3. \A f, h \in [D -> Seq(S)], x \in D :
           (\A y \in D : level[y] < level[x] => f[y] = h[y]) => step[f][x] = step[h][x]
    BY <1>3
  <2>4. Computed(D, Seq(S), Len(seqs), level, step)
    BY <1>2, <2>2, <2>3 DEF Computed
  <2> HIDE DEF step, start
  <2> QED BY <2>1, <2>4, RecursionIsDefined
<1>6. flat = [i \in D |-> next(flat, i)]
  <2>1. \E f : f = [i \in D |-> next(f, i)]
    BY <1>5
  <2> QED BY <2>1
<1> HIDE DEF flat
<1>7. \A x \in D : flat[x] = g[x]
  <2>1. \A x \in D : flat[x] = next(flat, x) /\ g[x] = next(g, x)
    BY <1>5, <1>6
  <2>2. \A x \in D : (\A y \in D : level[y] < level[x] => flat[y] = g[y]) => flat[x] = g[x]
    BY <1>3, <2>1
  <2>3. Agreeing(D, Len(seqs), level, flat, g)
    BY <1>2, <2>2 DEF Agreeing
  <2> QED BY <2>3, RecursionAgrees
<1>8. flat \in [D -> Seq(S)]
  BY <1>5, <1>6, <1>7
<1>9. \A x \in D : flat[x] = next(flat, x)
  BY <1>6
<1> QED BY <1>1, <1>8, <1>9 DEF next, D

\* Flattening takes sequences one by one from the front, too.
LEMMA FlattenFirst ==
    ASSUME NEW S, NEW seq \in Seq(S), NEW seqs \in Seq(Seq(S))
    PROVE  FlattenSeq(<<seq>> \o seqs) = seq \o FlattenSeq(seqs)
<1> DEFINE all == <<seq>> \o seqs
           n == Len(seqs)
<1>1. /\ all \in Seq(Seq(S)) /\ Len(all) = n + 1 /\ n \in Nat
      /\ all[1] = seq /\ \A i \in 1 .. n : all[i + 1] = seqs[i]
  OBVIOUS
<1> HIDE DEF all, n
<1>2. PICK flat \in [1 .. n + 1 -> Seq(S)] :
         /\ FlattenSeq(all) = flat[n + 1]
         /\ \A i \in 1 .. n + 1 : flat[i] = IF i = 1 THEN all[i] ELSE flat[i - 1] \o all[i]
  <2>1. Len(all) # 0
    BY <1>1
  <2>2. \E flat \in [1 .. Len(all) -> Seq(S)] :
           /\ FlattenSeq(all) = flat[Len(all)]
           /\ \A i \in 1 .. Len(all) :
                 flat[i] = IF i = 1 THEN all[i] ELSE flat[i - 1] \o all[i]
    BY <1>1, <2>1, FlattenIs
  <2> QED BY <1>1, <2>2
<1>3. CASE n = 0
  <2>1. FlattenSeq(seqs) = << >>
    BY <1>3 DEF FlattenSeq, n
  <2>2. FlattenSeq(all) = seq
    BY <1>1, <1>2, <1>3
  <2> QED BY <2>1, <2>2 DEF all
<1>4. CASE n # 0
  <2>1. PICK rest \in [1 .. n -> Seq(S)] :
           /\ FlattenSeq(seqs) = rest[n]
           /\ \A i \in 1 .. n : rest[i] = IF i = 1 THEN seqs[i] ELSE rest[i - 1] \o seqs[i]
    BY <1>4, FlattenIs DEF n
  <2> DEFINE D == 1 .. n
             level == [i \in D |-> i]
             left == [i \in D |-> flat[i + 1]]
             right == [i \in D |-> seq \o rest[i]]
  <2>2. ASSUME NEW x \in D, \A y \in D : level[y] < level[x] => left[y] = right[y]
        PROVE  left[x] = right[x]
    <3>1. x \in Nat /\ x # 0 /\ x + 1 \in 1 .. n + 1 /\ x + 1 # 1 /\ (x + 1) - 1 = x
      BY <1>1
    <3>2. flat[x + 1] = flat[x] \o seqs[x]
      BY <1>1, <1>2, <3>1
    <3>3. CASE x = 1
      <4>1. flat[1] = seq /\ rest[1] = seqs[1]
        <5>1. 1 \in 1 .. n + 1 /\ 1 \in 1 .. n
          BY <1>1, <3>1, <3>3
        <5> QED BY <1>1, <1>2, <2>1, <5>1
      <4> QED BY <3>2, <3>3, <4>1
    <3>4. CASE x # 1
      <4>1. x - 1 \in D /\ level[x - 1] < level[x] /\ (x - 1) + 1 = x
        BY <1>1, <3>1, <3>4
      <4>2. flat[x] = seq \o rest[x - 1]
        BY <2>2, <4>1
      <4>3. rest[x] = rest[x - 1] \o seqs[x]
        BY <2>1, <3>4
      <4>4. rest[x - 1] \in Seq(S) /\ seqs[x] \in Seq(S)
        <5>1. x \in 1 .. Len(seqs)
          BY <1>1 DEF n
        <5>2. seqs[x] \in Seq(S)
          BY <5>1
        <5> QED BY <2>1, <4>1, <5>2
      <4>5. (seq \o rest[x - 1]) \o seqs[x] = seq \o (rest[x - 1] \o seqs[x])
        <5> DEFINE p == rest[x - 1]
                   s == seqs[x]
        <5>1. p \in Seq(S) /\ s \in Seq(S)
          BY <4>4
        <5> HIDE DEF p, s
        <5>2. (seq \o p) \o s = seq \o (p \o s)
          BY <5>1, ConcatAssociative
        <5> QED BY <5>2 DEF p, s
      <4> QED BY <3>2, <4>2, <4>3, <4>5
    <3> QED BY <3>3, <3>4
  <2>3. Agreeing(D, n, level, left, right)
    <3>1. level \in [D -> 0 .. n]
      BY <1>1
    <3> HIDE DEF D, level, left, right
    <3> QED BY <1>1, <2>2, <3>1 DEF Agreeing
  <2>4. \A x \in D : left[x] = right[x]
    <3> HIDE DEF D, level, left, right
    <3> QED BY <2>3, RecursionAgrees
  <2>5. n \in D
    BY <1>1, <1>4
  <2> QED BY <1>2, <2>1, <2>4, <2>5 DEF all
<1> QED BY <1>3, <1>4

\* What is left at an offset, where it is cut, and the chunk that is cut off.
LEMMA CutFacts ==
    ASSUME NEW bytes \in Seq(Bytes), NEW offset \in 0 .. Len(bytes), offset # Len(bytes)
    PROVE  LET rest == SubSeq(bytes, offset + 1, Len(bytes))
               length == Boundary(rest)
               chunk == SubSeq(rest, 1, length)
           IN  /\ offset + length \in offset + 1 .. Len(bytes)
               /\ length \in 1 .. Maximum
               /\ offset + length # Len(bytes) => Even(Minimum) <= length
               /\ chunk \in Seq(Bytes) /\ Len(chunk) = length
               /\ chunk \o SubSeq(bytes, offset + length + 1, Len(bytes)) = rest
<1> DEFINE n == Len(bytes)
           rest == SubSeq(bytes, offset + 1, n)
           length == Boundary(rest)
           chunk == SubSeq(rest, 1, length)
<1>1. n \in Nat /\ offset \in Nat /\ offset + 1 \in 1 .. n /\ n \in 1 .. n
  OBVIOUS
<1>2. rest \in Seq(Bytes) /\ Len(rest) = n - offset
  <2>1. \A i \in offset + 1 .. n : bytes[i] \in Bytes
    OBVIOUS
  <2> HIDE DEF n
  <2> QED BY <1>1, <2>1, SubSeqProperties
<1> HIDE DEF rest
<1>3. /\ length \in 1 .. n - offset /\ length <= Maximum
      /\ length < n - offset => Even(Minimum) <= length
  <2>1. Len(rest) # 0
    BY <1>1, <1>2
  <2> QED BY <1>2, <2>1, BoundaryFacts
<1> HIDE DEF length
<1>4. chunk = SubSeq(bytes, offset + 1, offset + length)
  <2> DEFINE m == offset + 1
  <2>1. /\ m \in 1 .. Len(bytes) /\ n \in 1 .. Len(bytes)
        /\ 1 \in 1 .. n - m + 1 /\ length \in 1 .. n - m + 1
        /\ m + 1 - 1 = offset + 1 /\ m + length - 1 = offset + length
    BY <1>1, <1>3
  <2> HIDE DEF m, n
  <2>2. SubSeq(SubSeq(bytes, m, n), 1, length) = SubSeq(bytes, m + 1 - 1, m + length - 1)
    BY <1>2, <2>1, SubSeqOfSubSeq DEF rest, m
  <2> QED BY <2>1, <2>2 DEF rest, m
<1>5. chunk \o SubSeq(bytes, offset + length + 1, n) = rest
  <2>1. /\ offset + 1 \in 1 .. Len(bytes) + 1
        /\ offset + length \in (offset + 1) - 1 .. Len(bytes)
        /\ n \in offset + length .. Len(bytes)
    BY <1>1, <1>3
  <2> HIDE DEF n, chunk
  <2> QED BY <1>4, <2>1, ConcatAdjacentSubSeq DEF rest
<1>6. chunk \in Seq(Bytes) /\ Len(chunk) = length
  <2>1. \A i \in 1 .. length : rest[i] \in Bytes
    BY <1>1, <1>2, <1>3
  <2>2. 1 \in Int /\ length \in Int /\ 1 <= length /\ length - 1 + 1 = length
    BY <1>1, <1>3
  <2> QED BY <2>1, <2>2, SubSeqProperties
<1>7. /\ offset + length \in offset + 1 .. n /\ length \in 1 .. Maximum
      /\ offset + length # n => Even(Minimum) <= length
  BY <1>1, <1>3, LengthsAssumption
<1> QED BY <1>5, <1>6, <1>7 DEF rest, length

\* What Chunks computes from each offset on.
LEMMA ChunksAre ==
    ASSUME NEW bytes \in Seq(Bytes)
    PROVE  \E from \in [0 .. Len(bytes) -> Seq(Seq(Bytes))] :
              /\ Chunks(bytes) = from[0]
              /\ \A offset \in 0 .. Len(bytes) : from[offset] =
                    IF offset = Len(bytes) THEN << >>
                    ELSE LET rest   == SubSeq(bytes, offset + 1, Len(bytes))
                             length == Boundary(rest)
                         IN <<SubSeq(rest, 1, length)>> \o from[offset + length]
<1> DEFINE D == 0 .. Len(bytes)
           V == Seq(Seq(Bytes))
           level == [offset \in D |-> Len(bytes) - offset]
           rest(offset) == SubSeq(bytes, offset + 1, Len(bytes))
           length(offset) == Boundary(rest(offset))
           chunk(offset) == SubSeq(rest(offset), 1, length(offset))
           next(g, offset) == IF offset = Len(bytes) THEN << >>
                              ELSE <<chunk(offset)>> \o g[offset + length(offset)]
           step == [g \in [D -> V] |-> [offset \in D |-> next(g, offset)]]
           from == CHOOSE g : g = [offset \in D |-> next(g, offset)]
<1>1. Chunks(bytes) = from[0]
  BY DEF Chunks
<1>2. \A x \in D : x # Len(bytes) => /\ x + length(x) \in D /\ level[x + length(x)] < level[x]
                                     /\ chunk(x) \in Seq(Bytes)
  <2> SUFFICES ASSUME NEW x \in D, x # Len(bytes)
               PROVE  /\ x + length(x) \in D /\ level[x + length(x)] < level[x]
                      /\ chunk(x) \in Seq(Bytes)
    OBVIOUS
  <2>1. x + length(x) \in x + 1 .. Len(bytes) /\ chunk(x) \in Seq(Bytes)
    BY CutFacts
  <2> DEFINE y == x + length(x)
  <2> HIDE DEF y
  <2>2. y \in x + 1 .. Len(bytes)
    BY <2>1 DEF y
  <2>3. y \in D /\ level[y] < level[x]
    BY <2>2
  <2> QED BY <2>1, <2>3 DEF y
<1>3. level \in [D -> 0 .. Len(bytes)] /\ Len(bytes) \in Nat /\ 0 \in D
  OBVIOUS
<1> HIDE DEF D, level, chunk, length
<1>4. ASSUME NEW g, NEW h, NEW x \in D, \A y \in D : level[y] < level[x] => g[y] = h[y]
      PROVE  next(g, x) = next(h, x)
  BY <1>2, <1>4
<1>5. ASSUME NEW g \in [D -> V], NEW x \in D PROVE next(g, x) \in V
  <2>1. CASE x = Len(bytes)
    BY <2>1
  <2>2. CASE x # Len(bytes)
    <3>1. <<chunk(x)>> \in V /\ g[x + length(x)] \in V
      BY <1>2, <2>2
    <3>2. <<chunk(x)>> \o g[x + length(x)] \in V
      BY <3>1, ConcatProperties
    <3> QED BY <2>2, <3>2
  <2> QED BY <2>1, <2>2
<1> HIDE DEF next
<1>6. PICK g \in [D -> V] : g = step[g]
  <2> DEFINE start == [offset \in D |-> << >>]
  <2>1. start \in [D -> V]
    OBVIOUS
  <2> HIDE DEF V
  <2>2. step \in [[D -> V] -> [D -> V]]
    BY <1>5
  <2>3. \A f, h \in [D -> V], x \in D :
           (\A y \in D : level[y] < level[x] => f[y] = h[y]) => step[f][x] = step[h][x]
    BY <1>4
  <2>4. Computed(D, V, Len(bytes), level, step)
    BY <1>3, <2>2, <2>3 DEF Computed
  <2> HIDE DEF step, start
  <2> QED BY <2>1, <2>4, RecursionIsDefined
<1> HIDE DEF V
<1>7. from = [offset \in D |-> next(from, offset)]
  <2>1. \E f : f = [offset \in D |-> next(f, offset)]
    BY <1>6
  <2> QED BY <2>1
<1> HIDE DEF from
<1>8. \A x \in D : from[x] = g[x]
  <2>1. \A x \in D : from[x] = next(from, x) /\ g[x] = next(g, x)
    BY <1>6, <1>7
  <2>2. \A x \in D : (\A y \in D : level[y] < level[x] => from[y] = g[y]) => from[x] = g[x]
    BY <1>4, <2>1
  <2>3. Agreeing(D, Len(bytes), level, from, g)
    BY <1>3, <2>2 DEF Agreeing
  <2> QED BY <2>3, RecursionAgrees
<1>9. from \in [D -> V]
  BY <1>6, <1>7, <1>8
<1>10. \A x \in D : from[x] = next(from, x)
  BY <1>7
<1> QED BY <1>1, <1>9, <1>10 DEF next, chunk, length, D, V

\* The chunker agrees with the byte-wise one on every string.
LEMMA EveryStringAgrees ==
    ASSUME NEW bytes \in Seq(Bytes)
    PROVE  AgreesWithReference(bytes)
<1> DEFINE n == Len(bytes)
           D == 0 .. n
           level == [offset \in D |-> n - offset]
           rest(offset) == SubSeq(bytes, offset + 1, n)
           length(offset) == Boundary(rest(offset))
           chunk(offset) == SubSeq(rest(offset), 1, length(offset))
           Sized(pieces) == \A i \in 1 .. Len(pieces) :
               /\ Len(pieces[i]) \in 1 .. Maximum
               /\ i # Len(pieces) => Even(Minimum) <= Len(pieces[i])
<1>1. PICK from \in [D -> Seq(Seq(Bytes))] :
         /\ Chunks(bytes) = from[0]
         /\ \A x \in D : from[x] = IF x = n THEN << >> ELSE <<chunk(x)>> \o from[x + length(x)]
  BY ChunksAre
<1> DEFINE S == {x \in D : FlattenSeq(from[x]) = rest(x) /\ Sized(from[x])}
<1>2. n \in Nat /\ level \in [D -> 0 .. n]
  OBVIOUS
<1>3. \A x \in D : x # n => /\ x + length(x) \in x + 1 .. n
                            /\ length(x) \in 1 .. Maximum
                            /\ x + length(x) # n => Even(Minimum) <= length(x)
                            /\ chunk(x) \in Seq(Bytes) /\ Len(chunk(x)) = length(x)
                            /\ chunk(x) \o rest(x + length(x)) = rest(x)
  BY CutFacts
<1>4. n \in S
  <2>1. from[n] = << >> /\ n \in D
    <3>1. n \in D
      BY <1>2
    <3> HIDE DEF D, n
    <3> QED BY <1>1, <3>1
  <2>2. FlattenSeq(<< >>) = << >>
    BY DEF FlattenSeq
  <2>3. rest(n) = << >>
    <3>1. n + 1 \in Int /\ n \in Int /\ n < n + 1
      BY <1>2
    <3> HIDE DEF n
    <3> QED BY <3>1, SubSeqEmpty
  <2>4. Sized(<< >>)
    OBVIOUS
  <2> HIDE DEF D, rest, Sized
  <2> QED BY <2>1, <2>2, <2>3, <2>4
<1>5. ASSUME NEW x \in D, \A y \in D : level[y] < level[x] => y \in S
      PROVE  x \in S
  <2>1. CASE x = n
    BY <1>4, <2>1
  <2>2. CASE x # n
    <3> DEFINE y == x + length(x)
               tail == from[y]
               c == chunk(x)
    <3>1. y \in x + 1 .. n
      BY <1>3, <2>2
    <3>2. y \in D /\ level[y] < level[x]
      <4> HIDE DEF y
      <4> QED BY <1>2, <3>1
    <3>3. y \in S
      <4> HIDE DEF y, S, level
      <4> QED BY <1>5, <3>2
    <3>4. from[x] = <<c>> \o tail
      BY <1>1, <2>2
    <3>5. /\ length(x) \in 1 .. Maximum /\ Len(c) = length(x) /\ c \in Seq(Bytes)
          /\ y # n => Even(Minimum) <= length(x)
          /\ c \o rest(y) = rest(x)
      BY <1>3, <2>2
    <3>6. tail \in Seq(Seq(Bytes))
      <4> HIDE DEF y
      <4> QED BY <1>1, <3>2
    <3>7. FlattenSeq(tail) = rest(y) /\ Sized(tail)
      BY <3>3
    <3>8. y = n => tail = << >>
      <4> HIDE DEF y, D, n
      <4> QED BY <1>1, <3>2
    <3> HIDE DEF y, tail, c, rest, length, chunk, n
    <3>9. FlattenSeq(from[x]) = rest(x)
      BY <3>4, <3>5, <3>6, <3>7, FlattenFirst
    <3>10. /\ Len(from[x]) = Len(tail) + 1 /\ Len(tail) \in Nat
          /\ from[x][1] = c /\ \A i \in 1 .. Len(tail) : from[x][i + 1] = tail[i]
      BY <3>4, <3>5, <3>6
    <3>11. Sized(from[x])
      <4> SUFFICES ASSUME NEW i \in 1 .. Len(from[x])
                   PROVE  /\ Len(from[x][i]) \in 1 .. Maximum
                          /\ i # Len(from[x]) => Even(Minimum) <= Len(from[x][i])
        OBVIOUS
      <4>1. CASE i = 1
        <5>1. i # Len(from[x]) => y # n
          BY <3>8, <3>10, <4>1
        <5> QED BY <3>5, <3>10, <4>1, <5>1
      <4>2. CASE i # 1
        <5>1. i - 1 \in 1 .. Len(tail) /\ (i - 1) + 1 = i
          BY <3>10, <4>2
        <5>2. from[x][i] = tail[i - 1]
          BY <3>10, <5>1
        <5>3. i # Len(from[x]) => i - 1 # Len(tail)
          BY <3>10
        <5> QED BY <3>7, <5>1, <5>2, <5>3
      <4> QED BY <4>1, <4>2
    <3> HIDE DEF Sized
    <3> QED BY <3>9, <3>11
  <2> QED BY <2>1, <2>2
<1>6. 0 \in S
  <2>1. Inductive(D, n, level, S)
    <3> HIDE DEF D, level, S
    <3> QED BY <1>2, <1>5 DEF Inductive
  <2>2. D \subseteq S
    <3> HIDE DEF D, n, level, S
    <3> QED BY <2>1, LevelInduction
  <2>3. 0 \in D
    BY <1>2
  <2> QED BY <2>2, <2>3
<1>7. FlattenSeq(Chunks(bytes)) = bytes
  <2>1. rest(0) = bytes
    BY SubSeqFull
  <2> QED BY <1>1, <1>6, <2>1
<1>8. Boundary(bytes) = ByteBoundary(bytes)
  <2>1. CASE n # 0
    BY <2>1, BoundaryFacts
  <2>2. CASE n = 0
    <3>1. Len(bytes) <= Minimum
      BY <2>2, LengthsAssumption
    <3> QED BY <3>1 DEF Boundary, ByteBoundary
  <2> QED BY <2>1, <2>2
<1>9. \A i \in DOMAIN Chunks(bytes) : Len(Chunks(bytes)[i]) \in
         (IF i < Len(Chunks(bytes)) THEN Even(Minimum) ELSE 1) .. Maximum
  <2> DEFINE pieces == Chunks(bytes)
  <2>1. pieces \in Seq(Seq(Bytes)) /\ Sized(pieces)
    <3>1. 0 \in D
      BY <1>2
    <3> HIDE DEF D, rest, n
    <3> QED BY <1>1, <1>6, <3>1
  <2> HIDE DEF pieces, D, n
  <2>2. ASSUME NEW i \in 1 .. Len(pieces)
        PROVE  Len(pieces[i]) \in (IF i < Len(pieces) THEN Even(Minimum) ELSE 1) .. Maximum
    <3>1. /\ Len(pieces[i]) \in 1 .. Maximum
          /\ i # Len(pieces) => Even(Minimum) <= Len(pieces[i])
      BY <2>1
    <3>2. Even(Minimum) \in Nat /\ Maximum \in Nat
      BY LengthsAssumption DEF Even
    <3> HIDE DEF Sized
    <3> QED BY <3>1, <3>2
  <2>3. DOMAIN pieces = 1 .. Len(pieces)
    BY <2>1
  <2> QED BY <2>2, <2>3 DEF pieces
<1> QED BY <1>7, <1>8, <1>9 DEF AgreesWithReference

\* The chunker cuts every string of bytes where looking at every byte cuts it,
\* into pieces that are all of it, each at most the maximum long and, but for
\* the last, at least the minimum.
THEOREM ChunkerIsReferenceHolds == ChunkerIsReference
BY EveryStringAgrees, SamplesAssumption DEF ChunkerIsReference, Bytes
=============================================================================
