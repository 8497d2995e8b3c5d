--------------------------- MODULE FastNoopProofs ---------------------------
(***************************************************************************)
(* Proofs about FastNoop and the digest cache it works with (HashCache),   *)
(* for any files, contents, manifests and tools, and without the bounds.   *)
(*                                                                         *)
(* The argument.  Every stat triple that anything remembers is at most the *)
(* file's present one (Remembered): triples grow with every write but one, *)
(* the command's, which may come in the granule of the last version.  So   *)
(* what is remembered of a file either does not match it any more or is    *)
(* still true, and only a command's outputs have to be forgotten before it *)
(* runs (CacheTells).  A digest that a build has come by was the file's at *)
(* some moment of this build (Recent), and the identities of a certificate *)
(* were looked at before the digests that it vouches for (SecondLook), so  *)
(* a file that still has the one has the other (Vouches).                  *)
(***************************************************************************)
EXTENDS FastNoop, TLAPS

\* Before and after a process has its digest cache open.
Early == {"idle", "load", "compile", "tool", "hash tool", "identities", "hit", "open"}
Digesting == {"preflight", "inputs", "outputs", "record", "verify"}
Working == Digesting \cup {"execute", "command", "capture", "finish"}

\* What the operation under way is about.
Target ==
    {p \in Paths : \/ pc \in {"preflight", "verify"}
                   \/ pc = "inputs" /\ p \in Sources
                   \/ pc \in {"outputs", "record"} /\ p \in Outputs}

UnderWay == op.kind \in {"digest", "match"}

\* Which process has what in memory.
Phases ==
    /\ pc \in Early \cup Working
    /\ pc \in Early => NoMemory
    /\ pc \notin Digesting => op = NoOp
    /\ pc \in {"preflight", "verify"} => op.kind \in {"match", "done", "failed"}
    /\ pc \in {"inputs", "outputs", "record"} => op.kind \in {"digest", "done", "failed"}
    /\ pc \in Working => snapshot = hashcache
    /\ pc = "command" => \A o \in Outputs : updates[o] = Tombstone /\ settled[o] = None

\* The operation on the cache: whatever it is about is still to be looked at, to be
\* hashed, or has its digest.
OpOK ==
    /\ op \in [kind : {"none", "digest", "match", "done", "failed"}, todo : SUBSET Paths,
               stat : [Paths -> Stats \cup {None}],
               got : [Paths -> Digests \cup {None, MISSING}]]
    /\ \A p \in op.todo : op.stat[p] = None /\ op.got[p] = None
    /\ \A p \in Paths : op.stat[p] # None => op.got[p] # MISSING
    /\ UnderWay =>
          \A p \in Target : p \in op.todo \/ op.stat[p] # None \/ op.got[p] # None
    /\ ~UnderWay => op.todo = {} /\ \A p \in Paths : op.stat[p] # None => op.got[p] # None
    /\ op.kind = "done" => \A p \in Target : op.got[p] # None

CacheOK ==
    /\ disk \in [Paths -> [bytes : Bytes \cup {Absent}, exec : BOOLEAN, mtime : 0..clock]]
    /\ clock \in 0..MaxClock
    /\ hashcache \in [Paths -> Entries \cup {None}]
    /\ snapshot \in [Paths -> Entries \cup {None}]
    /\ updates \in [Paths -> Entries \cup {None, Tombstone}]
    /\ settled \in [Paths -> Digests \cup {None}]

\* What the process has read and captured.
ProcessOK ==
    /\ manifest \in Manifests /\ tool \in [bytes : Tools, mtime : 0..clock]
    /\ env \in Tools \cup {None} /\ graph \in Manifests \cup {None}
    /\ pc \in {"identities", "hit", "open"} \cup Working => env # None
    /\ pc = "hash tool" => toolStat \in 0..clock
    /\ pc \in {"compile", "open"} \cup Working => graph # None
    /\ pc \in {"idle", "load", "identities", "hit"} => graph = None
    /\ pc = "idle" => env = None
    /\ pc = "verify" => fingerprint \in Manifests
    /\ todo \subseteq Paths
    /\ evidence \in [Paths -> Stats \cup Digests \cup {None, MISSING}]
    /\ pc \in Early \cup {"preflight"} => evidence = [p \in Paths |-> None]
    /\ pc \in {"capture", "verify"} => \A p \in Paths : evidence[p] \in Stats \cup {None}
    /\ pc \in {"outputs", "execute", "command", "record"} =>
          \A s \in Sources : evidence[s] \in Digests \cup {MISSING}

\* What is below .frost beside the cache.
SavedOK ==
    /\ graphStore \in [fp : Manifests, stamp : Manifests] \cup {None}
    /\ toolStamp \in [stat : 0..clock, hash : Tools] \cup {None}
    /\ journal # None => journal.files \in [Paths -> Digests \cup {MISSING}]
    /\ pc \in {"preflight", "capture", "verify"} => journal # None
    /\ certificate # None =>
          /\ certificate.files \in [Paths -> Stats \cup {None}]
          /\ certificate.digests \in [Paths -> Digests \cup {MISSING}]
          /\ certificate.fp \in Manifests
    /\ pc \in {"tool", "hash tool", "identities", "hit"} /\ graph = None => certificate # None

Types == Phases /\ OpOK /\ CacheOK /\ ProcessOK /\ SavedOK

-----------------------------------------------------------------------------

\* Triple s is one that path p had, or could have had, before it was file f.
Before(s, f, p) ==
    /\ s[1] <= f.mtime
    /\ p \in Sources /\ s[1] = f.mtime /\ f.bytes # Absent /\ s[2] => f.exec

Older(s, p) == Before(s, disk[p], p)

Remembered ==
    \A p \in Paths :
        /\ hashcache[p] # None => Older(hashcache[p].stat, p)
        /\ updates[p] \notin {None, Tombstone} => Older(updates[p].stat, p)
        /\ op.stat[p] # None => Older(op.stat[p], p)
        /\ certificate # None /\ certificate.files[p] # None => Older(certificate.files[p], p)
        /\ pc \in {"capture", "verify"} /\ evidence[p] # None => Older(evidence[p], p)

\* A file f with triple s has digest d.
Truth(s, d, f) == f.bytes # Absent /\ s = StatTriple(f) => d = HashFile(f)

Tells(s, d, p) == Truth(s, d, disk[p])

CacheTells ==
    \A p \in Paths :
        /\ pc \in Early /\ p \notin lost /\ hashcache[p] # None =>
              Tells(hashcache[p].stat, hashcache[p].hash, p)
        /\ pc \in Working /\ p \notin lost /\ Known(p) =>
              Tells(Lookup(p).stat, Lookup(p).hash, p)
        /\ op.stat[p] # None /\ op.got[p] # None => Tells(op.stat[p], op.got[p], p)

\* Digests this build has come by are of this build.
Recent ==
    /\ past \in [Paths -> SUBSET (Digests \cup {MISSING})]
    /\ \A p \in Paths :
        /\ pc # "idle" => Content(p) \in past[p]
        /\ p \notin lost =>
              /\ settled[p] # None => settled[p] \in past[p]
              /\ op.got[p] # None => op.got[p] \in past[p]
              /\ pc \in {"capture", "verify"} => journal.files[p] \in past[p]

CacheInv == Remembered /\ CacheTells /\ Recent

-----------------------------------------------------------------------------

\* A digest that is taken after the capture is that of the captured identity.
SecondLook ==
    pc = "verify" =>
        \A p \in Paths \ lost :
            op.got[p] # None /\ evidence[p] # None => Tells(evidence[p], op.got[p], p)

\* The certificate vouches for the digests of what was there when it was captured.
Vouches ==
    certificate # None /\ ~outlived =>
        \A p \in Paths \ lost :
            certificate.files[p] # None => Tells(certificate.files[p], certificate.digests[p], p)

\* What has been looked at while a certificate is checked.
Checked ==
    /\ pc \in {"identities", "hit"} => env = certificate.env
    /\ pc = "hit" => todo = {}
    /\ pc \in {"identities", "hit"} /\ ~outlived =>
          \A p \in Paths \ (todo \cup lost) :
              ~CapturedAway(p) => certificate.digests[p] \in past[p]

\* Stamps.
ToolsInv ==
    /\ toolStamp # None =>
          /\ toolStamp.stat <= tool.mtime
          /\ toolStamp.stat = tool.mtime => toolStamp.hash = tool.bytes
    /\ pc = "hash tool" => toolStat <= tool.mtime
    /\ pc # "idle" => tool.bytes \in tools
    /\ env # None => env \in tools

GraphInv ==
    /\ pc # "idle" => manifest \in manifests
    /\ graphStore # None /\ ~torn => graphStore.fp = graphStore.stamp
    /\ graph # None /\ pc # "compile" => graphStore # None /\ graphStore.fp = graph
    /\ graph # None /\ ~torn => graph \in manifests
    /\ pc = "verify" => fingerprint = graph
    /\ certificate # None => certificate.fp = certificate.graph
    /\ pc \in {"tool", "hash tool", "identities", "hit"} /\ graph = None /\ ~torn =>
          certificate.fp \in manifests
-----------------------------------------------------------------------------
(* Types.                                                                  *)

\* Values that are kept apart.
LEMMA ValuesFacts ==
    /\ MISSING \notin Digests /\ None \notin Stats \cup Digests \cup {MISSING} \cup Entries
    /\ Tombstone \notin Stats \cup Digests \cup {MISSING} \cup Entries /\ None # Tombstone
    /\ None \notin Manifests \cup Tools \cup [fp : Manifests, stamp : Manifests]
    /\ Sources \subseteq Paths /\ Outputs \subseteq Paths
    /\ MaxClock \in Nat
BY ValuesAssumption, NoneAssumption, FilesAssumption DEF Outputs

\* The clock is its own bound.
LEMMA ClockFacts ==
    ASSUME CacheOK
    PROVE  clock \in Nat /\ clock \in 0..clock /\ 0..clock \subseteq 0..MaxClock
<1>1. clock \in 0..MaxClock /\ MaxClock \in Nat
  BY ValuesFacts DEF CacheOK
<1> QED BY <1>1

\* The triple and the digest of a file.
LEMMA FileFacts ==
    ASSUME CacheOK, NEW p \in Paths
    PROVE  /\ disk[p] \in [bytes : Bytes \cup {Absent}, exec : BOOLEAN, mtime : 0..clock]
           /\ Stat(p) \in Stats /\ Stat(p)[1] = disk[p].mtime /\ Stat(p)[2] = disk[p].exec
           /\ Exists(p) => Content(p) \in Digests
           /\ ~Exists(p) => Content(p) = MISSING
<1>1. /\ disk[p] \in [bytes : Bytes \cup {Absent}, exec : BOOLEAN, mtime : 0..clock]
      /\ clock \in 0..MaxClock
  BY DEF CacheOK
<1>2. 0..clock \subseteq 0..MaxClock
  BY <1>1, ValuesFacts
<1> QED BY <1>1, <1>2 DEF Stat, StatTriple, Content, HashFile, Exists, Stats, Digests

\* An operation steps while it is under way, in a process that digests.
LEMMA OpStepFacts ==
    ASSUME Phases, OpOK, OpStep
    PROVE  UnderWay /\ pc \in Digesting /\ UNCHANGED <<disks, hashcache, snapshot, past, lost>>
<1>1. CASE \E p \in Paths : LookSettled(p) \/ LookMissing(p) \/ LookFresh(p) \/ LookStale(p)
  <2>1. op.todo # {} /\ UNCHANGED <<disks, hashcache, snapshot, past, lost>>
    BY <1>1 DEF LookSettled, LookMissing, LookFresh, LookStale, Unsettled, Unchanged
  <2>2. UnderWay
    BY <2>1 DEF OpOK
  <2> QED BY <2>1, <2>2 DEF Phases, NoOp, UnderWay
<1>2. CASE \E p \in Paths : Hash(p)
  <2>1. PICK p \in Paths : op.stat[p] # None /\ op.got[p] = None
    BY <1>2 DEF Hash, ToHash
  <2>2. UnderWay
    BY <2>1 DEF OpOK
  <2> QED BY <1>2, <2>2 DEF Phases, NoOp, UnderWay, Hash, Unchanged
<1>3. CASE Complete
  BY <1>3 DEF Complete, Unchanged, UnderWay, Phases, NoOp
<1> QED BY <1>1, <1>2, <1>3 DEF OpStep

\* What is said of an operation holds of one that has just begun, and of none.
LEMMA BeginFacts ==
    ASSUME NEW k \in {"digest", "match"}, NEW paths \in SUBSET Paths, BeginOp(k, paths)
    PROVE  /\ op'.kind = k /\ op'.todo = paths
           /\ \A p \in Paths : op'.stat[p] = None /\ op'.got[p] = None
           /\ op' \in [kind : {"none", "digest", "match", "done", "failed"}, todo : SUBSET Paths,
                       stat : [Paths -> Stats \cup {None}],
                       got : [Paths -> Digests \cup {None, MISSING}]]
BY DEF BeginOp, NoOp

\* No operation is an operation with nothing to do.
LEMMA NoOpFacts ==
    /\ NoOp.kind = "none" /\ NoOp.todo = {}
    /\ \A p \in Paths : NoOp.stat[p] = None /\ NoOp.got[p] = None
    /\ NoOp \in [kind : {"none", "digest", "match", "done", "failed"}, todo : SUBSET Paths,
                 stat : [Paths -> Stats \cup {None}],
                 got : [Paths -> Digests \cup {None, MISSING}]]
BY DEF NoOp

\* An operation that has ended well has a digest of everything it is about.
LEMMA DoneFacts ==
    ASSUME OpOK, op.kind = "done"
    PROVE  \A p \in Target : op.got[p] \in Digests \cup {MISSING}
BY DEF OpOK, Target
\* A path gets its digest when it is looked at ...
LEMMA GotFacts ==
    ASSUME OpOK, UnderWay, NEW p \in op.todo, NEW d \in Digests \cup {MISSING}, Got(p, d),
           UNCHANGED pc
    PROVE  OpOK' /\ op'.kind = op.kind
<1>1. p \in Paths /\ op.stat[p] = None
  BY DEF OpOK
<1>2. /\ op'.kind = op.kind /\ op'.todo = op.todo \ {p} /\ op'.stat = op.stat
      /\ op'.got = [op.got EXCEPT ![p] = d]
  BY DEF Got, OpOK
<1>3. op' \in [kind : {"none", "digest", "match", "done", "failed"}, todo : SUBSET Paths,
               stat : [Paths -> Stats \cup {None}], got : [Paths -> Digests \cup {None, MISSING}]]
  BY <1>1 DEF Got, OpOK
<1>4. d # None
  BY ValuesFacts
<1>5. \A q \in Paths : q # p => op'.got[q] = op.got[q]
  BY <1>2 DEF OpOK
<1>6. op'.got[p] = d
  BY <1>1, <1>2 DEF OpOK
<1>7. \A q \in Paths : op'.stat[q] # None => op'.got[q] # MISSING
  BY <1>1, <1>2, <1>5 DEF OpOK
<1>8. \A q \in op'.todo : op'.stat[q] = None /\ op'.got[q] = None
  BY <1>2, <1>5 DEF OpOK
<1>9. \A q \in Target : q \in op'.todo \/ op'.stat[q] # None \/ op'.got[q] # None
  BY <1>2, <1>4, <1>5, <1>6 DEF OpOK, Target
<1>10. Target' = Target
  BY DEF Target
<1> QED BY <1>2, <1>3, <1>7, <1>8, <1>9, <1>10 DEF OpOK, UnderWay

\* ... or when it is hashed.
LEMMA HashFacts ==
    ASSUME OpOK, UnderWay, NEW p \in Paths, Hash(p), UNCHANGED pc, Content(p) \in Digests \/ ~Exists(p)
    PROVE  OpOK' /\ op'.kind \in {op.kind, "failed"}
<1>1. op.stat[p] # None /\ p \notin op.todo
  BY DEF OpOK, Hash, ToHash
<1>2. Target' = Target
  BY DEF Target
<1>3. CASE Exists(p)
  <2>1. /\ op'.kind = op.kind /\ op'.todo = op.todo /\ op'.stat = op.stat
        /\ op'.got = [op.got EXCEPT ![p] = Content(p)] /\ Content(p) \in Digests
    BY <1>3 DEF Hash, OpOK
  <2>2. op' \in [kind : {"none", "digest", "match", "done", "failed"}, todo : SUBSET Paths,
                 stat : [Paths -> Stats \cup {None}], got : [Paths -> Digests \cup {None, MISSING}]]
    BY <1>3, <2>1 DEF Hash, OpOK
  <2>3. Content(p) \notin {None, MISSING}
    BY <2>1, ValuesFacts
  <2>4. \A q \in Paths : op'.got[q] = IF q = p THEN Content(p) ELSE op.got[q]
    BY <2>1 DEF OpOK
  <2>5. \A q \in Paths : op'.stat[q] # None => op'.got[q] # MISSING
    BY <2>1, <2>3, <2>4 DEF OpOK
  <2>6. \A q \in Target : q \in op'.todo \/ op'.stat[q] # None \/ op'.got[q] # None
    BY <2>1, <2>3, <2>4 DEF OpOK, Target
  <2>7. \A q \in op'.todo : op'.stat[q] = None /\ op'.got[q] = None
    BY <1>1, <2>1, <2>4 DEF OpOK
  <2> QED BY <1>2, <2>1, <2>2, <2>5, <2>6, <2>7 DEF OpOK, UnderWay
<1>4. CASE ~Exists(p)
  <2>1. /\ op'.kind = "failed" /\ op'.todo = {}
        /\ \A q \in Paths : op'.stat[q] = None /\ op'.got[q] = None
        /\ op' \in [kind : {"none", "digest", "match", "done", "failed"}, todo : SUBSET Paths,
                    stat : [Paths -> Stats \cup {None}],
                    got : [Paths -> Digests \cup {None, MISSING}]]
    BY <1>4 DEF Hash, NoOp
  <2> QED BY <2>1 DEF OpOK, UnderWay
<1> QED BY <1>3, <1>4

\* A step of an operation keeps it, and the cache, what they are.
LEMMA OpStepOK ==
    ASSUME Types, OpStep, UNCHANGED pc
    PROVE  /\ OpOK' /\ op'.kind \in {op.kind, "done", "failed"}
           /\ updates' \in [Paths -> Entries \cup {None, Tombstone}]
           /\ settled' \in [Paths -> Digests \cup {None}]
<1> USE DEF Types
<1>1. UnderWay
  BY OpStepFacts
<1>2. /\ updates \in [Paths -> Entries \cup {None, Tombstone}]
      /\ settled \in [Paths -> Digests \cup {None}]
      /\ snapshot \in [Paths -> Entries \cup {None}]
  BY DEF CacheOK
<1>3. ASSUME NEW p \in Paths, LookSettled(p)
      PROVE  OpOK' /\ op'.kind = op.kind /\ UNCHANGED <<updates, settled>>
  <2>1. p \in op.todo /\ settled[p] \in Digests /\ Got(p, settled[p])
    BY <1>2, <1>3 DEF LookSettled
  <2> QED BY <1>1, <1>3, <2>1, GotFacts DEF LookSettled
<1>4. ASSUME NEW p \in Paths, LookMissing(p)
      PROVE  /\ OpOK' /\ op'.kind = op.kind
             /\ updates' \in [Paths -> Entries \cup {None, Tombstone}]
             /\ settled' \in [Paths -> Digests \cup {None}]
  <2>1. p \in op.todo /\ Got(p, MISSING)
    BY <1>4 DEF LookMissing, Unsettled
  <2>2. Forget({p}) \/ UNCHANGED <<updates, settled>>
    BY <1>4 DEF LookMissing
  <2>3. /\ updates' \in [Paths -> Entries \cup {None, Tombstone}]
        /\ settled' \in [Paths -> Digests \cup {None}]
    BY <1>2, <2>2 DEF Forget
  <2> QED BY <1>1, <2>1, <2>3, GotFacts
<1>5. ASSUME NEW p \in Paths, LookFresh(p)
      PROVE  /\ OpOK' /\ op'.kind = op.kind /\ UNCHANGED updates
             /\ settled' \in [Paths -> Digests \cup {None}]
  <2>1. p \in op.todo /\ Got(p, Lookup(p).hash) /\ Known(p)
    BY <1>5 DEF LookFresh, Unsettled, Fresh
  <2>2. Lookup(p) \in Entries
    BY <1>2, <2>1 DEF Known, Lookup
  <2>3. Lookup(p).hash \in Digests
    BY <2>2 DEF Entries
  <2> QED BY <1>1, <1>2, <1>5, <2>1, <2>3, GotFacts DEF LookFresh
<1>6. ASSUME NEW p \in Paths, LookStale(p)
      PROVE  OpOK' /\ op'.kind = op.kind /\ UNCHANGED <<updates, settled>>
  <2>1. Stat(p) \in Stats /\ Stat(p) # None /\ p \in op.todo /\ op.stat[p] = None
    BY <1>6, FileFacts, ValuesFacts DEF LookStale, Unsettled, OpOK
  <2>2. /\ op'.kind = op.kind /\ op'.todo = op.todo \ {p} /\ op'.got = op.got
        /\ op'.stat = [op.stat EXCEPT ![p] = Stat(p)]
    BY <1>6 DEF LookStale, OpOK
  <2>3. op' \in [kind : {"none", "digest", "match", "done", "failed"}, todo : SUBSET Paths,
                 stat : [Paths -> Stats \cup {None}], got : [Paths -> Digests \cup {None, MISSING}]]
    BY <1>6, <2>1 DEF LookStale, OpOK
  <2>4. \A q \in Paths : op'.stat[q] = IF q = p THEN Stat(p) ELSE op.stat[q]
    BY <2>2 DEF OpOK
  <2>5. op.got[p] # MISSING
    BY <2>1, ValuesFacts DEF OpOK
  <2>6. \A q \in Paths : op'.stat[q] # None => op'.got[q] # MISSING
    BY <2>2, <2>4, <2>5 DEF OpOK
  <2>7. \A q \in Target : q \in op'.todo \/ op'.stat[q] # None \/ op'.got[q] # None
    BY <2>1, <2>2, <2>4 DEF OpOK, Target
  <2>8. Target' = Target
    BY DEF Target
  <2>9. \A q \in op'.todo : op'.stat[q] = None /\ op'.got[q] = None
    BY <2>2, <2>4 DEF OpOK
  <2> QED BY <1>1, <1>6, <2>2, <2>3, <2>6, <2>7, <2>8, <2>9 DEF OpOK, UnderWay, LookStale
<1>7. ASSUME NEW p \in Paths, Hash(p)
      PROVE  OpOK' /\ op'.kind \in {op.kind, "failed"} /\ UNCHANGED <<updates, settled>>
  <2>1. Content(p) \in Digests \/ ~Exists(p)
    BY FileFacts
  <2> QED BY <1>1, <1>7, <2>1, HashFacts DEF Hash
<1>8. ASSUME Complete
      PROVE  /\ OpOK' /\ op'.kind = "done"
             /\ updates' \in [Paths -> Entries \cup {None, Tombstone}]
             /\ settled' \in [Paths -> Digests \cup {None}]
  <2>1. /\ op.todo = {} /\ op' = [op EXCEPT !.kind = "done"]
        /\ \A p \in Paths : op.stat[p] # None => op.got[p] # None
    BY <1>8 DEF Complete, ToHash
  <2>2. /\ op'.kind = "done" /\ op'.todo = {} /\ op'.stat = op.stat /\ op'.got = op.got
        /\ op' \in [kind : {"none", "digest", "match", "done", "failed"}, todo : SUBSET Paths,
                    stat : [Paths -> Stats \cup {None}],
                    got : [Paths -> Digests \cup {None, MISSING}]]
    BY <2>1 DEF OpOK
  <2>3. Target' = Target
    BY DEF Target
  <2>4. \A p \in Target : op.got[p] # None
    BY <1>1, <2>1 DEF OpOK, Target
  <2>5. OpOK'
    BY <2>1, <2>2, <2>3, <2>4 DEF OpOK, UnderWay
  <2>6. ASSUME NEW p \in Paths, Hashed(p)
        PROVE  op.stat[p] \in Stats /\ op.got[p] \in Digests
    BY <2>1, <2>6 DEF OpOK, Hashed
  <2> QED BY <1>2, <1>8, <2>2, <2>5, <2>6 DEF Complete, Entries
<1> QED BY <1>2, <1>3, <1>4, <1>5, <1>6, <1>7, <1>8 DEF OpStep
\* Steps that neither the files nor the cache know of.
Plain ==
    \/ LoadCached \/ LoadOrCompile \/ StatTool \/ HashTool \/ CommandFails
    \/ \E p \in Paths : CheckIdentity(p)
    \/ \E p \in Paths : Capture(p)
    \/ \E v \in Manifests : EditManifest(v)
    \/ \E b \in Tools : ReplaceTool(b)

\* They do not digest anything.
LEMMA PlainFacts ==
    ASSUME Plain
    PROVE  /\ UNCHANGED cacheVars
           /\ UNCHANGED pc \/ (pc \notin Digesting /\ pc' \notin Digesting)
BY DEF Plain, LoadCached, LoadOrCompile, StatTool, HashTool, CommandFails, CheckIdentity, Capture,
       EditManifest, ReplaceTool, Fingerprinted, Digesting

\* They keep the types.
LEMMA PlainTypes ==
    ASSUME Types, Plain PROVE Types'
<1> USE DEF Types, process, saved, world
<1>1. CacheOK' /\ UNCHANGED <<op, snapshot, updates, settled, hashcache, clock>>
  BY PlainFacts DEF CacheOK, cacheVars, disks, memory
<1>2. OpOK'
  <2>1. CASE UNCHANGED pc
    BY <1>1, <2>1 DEF OpOK, UnderWay, Target
  <2>2. CASE pc \notin Digesting /\ pc' \notin Digesting
    <3>1. op = NoOp /\ Target' = {}
      BY <2>2 DEF Phases, Target, Digesting
    <3> QED BY <1>1, <3>1, NoOpFacts DEF OpOK, UnderWay
  <2> QED BY <2>1, <2>2, PlainFacts
<1>3. Phases'
  <2>1. CASE UNCHANGED pc
    BY <1>1, <2>1 DEF Phases, NoMemory
  <2>2. CASE pc' # pc
    <3>1. \/ pc \in Early /\ pc' \in Early
          \/ pc = "command" /\ pc' = "finish"
      BY <2>2
      DEF Plain, LoadCached, LoadOrCompile, StatTool, HashTool, CommandFails, CheckIdentity,
          Capture, EditManifest, ReplaceTool, Fingerprinted, Early
    <3> QED BY <1>1, <3>1 DEF Phases, NoMemory, Early, Working, Digesting
  <2> QED BY <2>1, <2>2
<1>4. ProcessOK' /\ SavedOK'
  <2> USE DEF ProcessOK, SavedOK, Early, Working, Digesting
  <2>1. CASE LoadCached
    BY <1>1, <2>1, ValuesFacts DEF LoadCached, CachedFingerprint
  <2>2. CASE LoadOrCompile
    BY <1>1, <2>2, ValuesFacts DEF LoadOrCompile, SaveGraph, SourcesStamp
  <2>3. CASE StatTool
    BY <1>1, <2>3, ValuesFacts DEF StatTool, Fingerprinted, StatIdentity
  <2>4. CASE HashTool
    BY <1>1, <2>4, ValuesFacts DEF HashTool, Fingerprinted
  <2>5. CASE CommandFails
    BY <1>1, <2>5 DEF CommandFails
  <2>6. CASE \E p \in Paths : CheckIdentity(p)
    <3>1. /\ pc = "identities" /\ pc' \in {"identities", "hit", "load"} /\ todo' \subseteq todo
          /\ UNCHANGED <<manifest, tool, saved, env, toolStat, graph, evidence, fingerprint>>
      BY <2>6 DEF CheckIdentity
    <3>2. env # None /\ graph = None /\ certificate # None /\ evidence = [p \in Paths |-> None]
      BY <3>1
    <3> QED BY <1>1, <3>1, <3>2
  <2>7. CASE \E p \in Paths : Capture(p)
    <3>1. PICK p \in Paths : Capture(p)
      BY <2>7
    <3>2. FileIdentity(p) \in Stats \cup {None}
      BY FileFacts DEF FileIdentity
    <3>3. /\ pc = "capture" /\ pc' = pc /\ evidence' = [evidence EXCEPT ![p] = FileIdentity(p)]
          /\ todo' \subseteq todo
          /\ UNCHANGED <<manifest, tool, saved, env, toolStat, graph, fingerprint>>
      BY <3>1 DEF Capture
    <3> QED BY <1>1, <3>2, <3>3
  <2>8. CASE \E v \in Manifests : EditManifest(v)
    BY <1>1, <2>8 DEF EditManifest
  <2>9. CASE \E b \in Tools : ReplaceTool(b)
    <3>1. PICK b \in Tools : ReplaceTool(b)
      BY <2>9
    <3>2. clock \in 0..clock
      BY ClockFacts
    <3>3. tool' = [bytes |-> b, mtime |-> clock] /\ UNCHANGED <<manifest, saved, pc, process>>
      BY <3>1 DEF ReplaceTool
    <3>4. tool' \in [bytes : Tools, mtime : 0..clock]
      BY <3>2, <3>3
    <3> QED BY <1>1, <3>3, <3>4
  <2> QED BY <2>1, <2>2, <2>3, <2>4, <2>5, <2>6, <2>7, <2>8, <2>9 DEF Plain
<1> QED BY <1>1, <1>2, <1>3, <1>4

\* So do the steps of an operation,
LEMMA OpStepTypes ==
    ASSUME Types, OpStep, World PROVE Types'
<1> USE DEF Types, World, process, saved, world, disks
<1>1. /\ UNCHANGED <<manifest, tool, saved, pc, process, disk, clock, hashcache, snapshot>>
      /\ pc \in Digesting /\ UnderWay
      /\ OpOK' /\ op'.kind \in {op.kind, "done", "failed"}
      /\ updates' \in [Paths -> Entries \cup {None, Tombstone}]
      /\ settled' \in [Paths -> Digests \cup {None}]
  BY OpStepFacts, OpStepOK
<1>2. Phases'
  BY <1>1 DEF Phases, Early, Working, Digesting
<1>3. CacheOK'
  BY <1>1 DEF CacheOK
<1>4. ProcessOK' /\ SavedOK'
  <2>1. ProcessOK'
    BY <1>1 DEF ProcessOK
  <2>2. SavedOK'
    BY <1>1 DEF SavedOK
  <2> QED BY <2>1, <2>2
<1> QED BY <1>1, <1>2, <1>3, <1>4

\* A file changes, or time goes by.
FilesChange ==
    \/ \E p \in Paths, b \in Bytes \cup {Absent} : UserWrites(p, b)
    \/ \E s \in Sources : Chmod(s)
    \/ Tick

\* what users do to files,
LEMMA FilesChangeTypes ==
    ASSUME Types, FilesChange, World PROVE Types'
<1> USE DEF Types, World, process, saved, world
<1>1. UNCHANGED <<manifest, tool, saved, pc, process, hashcache, snapshot, updates, settled, op>>
  BY DEF FilesChange, UserWrites, Chmod, Tick, memory
<1>2. /\ clock' \in 0..MaxClock /\ 0..clock \subseteq 0..clock'
      /\ disk' \in [Paths -> [bytes : Bytes \cup {Absent}, exec : BOOLEAN, mtime : 0..clock']]
  <2>1. clock \in 0..clock /\ clock \in Nat /\ MaxClock \in Nat /\ clock \in 0..MaxClock
    BY ClockFacts, ValuesFacts DEF CacheOK
  <2>2. disk \in [Paths -> [bytes : Bytes \cup {Absent}, exec : BOOLEAN, mtime : 0..clock]]
    BY DEF CacheOK
  <2>3. ASSUME NEW p \in Paths, NEW b \in Bytes \cup {Absent}, UserWrites(p, b)
        PROVE  clock' = clock /\ disk' \in [Paths -> [bytes : Bytes \cup {Absent}, exec : BOOLEAN, mtime : 0..clock]]
    <3>1. /\ clock' = clock
          /\ disk' = [disk EXCEPT ![p] = [bytes |-> b, exec |-> FALSE, mtime |-> clock]]
      BY <2>3 DEF UserWrites, Put
    <3>2. [bytes |-> b, exec |-> FALSE, mtime |-> clock]
              \in [bytes : Bytes \cup {Absent}, exec : BOOLEAN, mtime : 0..clock]
      BY <2>1
    <3> QED BY <2>2, <3>1, <3>2
  <2>4. ASSUME NEW s \in Sources, Chmod(s)
        PROVE  clock' = clock /\ disk' \in [Paths -> [bytes : Bytes \cup {Absent}, exec : BOOLEAN, mtime : 0..clock]]
    <3>1. clock' = clock /\ disk' = [disk EXCEPT ![s] = [disk[s] EXCEPT !.exec = TRUE]]
      BY <2>4 DEF Chmod, Put
    <3>2. s \in Paths
      BY ValuesFacts
    <3>3. [disk[s] EXCEPT !.exec = TRUE]
              \in [bytes : Bytes \cup {Absent}, exec : BOOLEAN, mtime : 0..clock]
      BY <2>2, <3>2
    <3> QED BY <2>2, <3>1, <3>3
  <2>5. CASE Tick
    <3>1. clock' = clock + 1 /\ clock < MaxClock /\ disk' = disk
      BY <2>5 DEF Tick
    <3>2. 0..clock \subseteq 0..clock' /\ clock' \in 0..MaxClock
      BY <2>1, <3>1
    <3> QED BY <2>2, <3>1, <3>2
  <2> QED BY <2>1, <2>3, <2>4, <2>5 DEF FilesChange
<1>3. CacheOK'
  BY <1>1, <1>2 DEF CacheOK
<1>4. Phases' /\ OpOK'
  BY <1>1 DEF Phases, NoMemory, OpOK, UnderWay, Target
<1>5. /\ tool' \in [bytes : Tools, mtime : 0..clock']
      /\ toolStamp' \in [stat : 0..clock', hash : Tools] \cup {None}
      /\ pc = "hash tool" => toolStat' \in 0..clock'
  BY <1>1, <1>2 DEF ProcessOK, SavedOK
<1>6. ProcessOK'
  BY <1>1, <1>5 DEF ProcessOK
<1>7. SavedOK'
  BY <1>1, <1>5 DEF SavedOK
<1> QED BY <1>3, <1>4, <1>6, <1>7
\* the beginning of a process, and of its work,
LEMMA StartTypes ==
    ASSUME Types, Start \/ Open PROVE Types'
<1> USE DEF Types, process, saved, world, disks, memory
<1>1. /\ UNCHANGED <<manifest, tool, saved, process, disk, clock, hashcache>>
      /\ pc \in Early
  BY DEF Start, Open, Early
<1>2. CASE Start
  <2>1. pc = "idle" /\ pc' \in {"tool", "load"} /\ (pc' = "tool" => certificate # None)
        /\ UNCHANGED <<memory, op>>
    BY <1>2 DEF Start, HeaderMatches
  <2>2. Phases' /\ OpOK'
    BY <1>1, <2>1, NoOpFacts DEF Phases, NoMemory, OpOK, UnderWay, Target, Early, Working, Digesting
  <2>3. CacheOK'
    BY <1>1, <2>1 DEF CacheOK
  <2>4. ProcessOK' /\ SavedOK'
    BY <1>1, <2>1 DEF ProcessOK, SavedOK, Early, Working, Digesting
  <2> QED BY <2>2, <2>3, <2>4
<1>3. CASE Open
  <2>1. pc = "open" /\ op = NoOp /\ Load
        /\ \/ pc' = "preflight" /\ BeginOp("match", Paths) /\ journal # None
           \/ pc' = "inputs" /\ BeginOp("digest", Sources)
    BY <1>3 DEF Open, Phases, Early, Digesting
  <2>2. /\ snapshot' = hashcache /\ updates' = [p \in Paths |-> None]
        /\ settled' = [p \in Paths |-> None]
    BY <2>1 DEF Load
  <2>3. Sources \in SUBSET Paths /\ Paths \in SUBSET Paths
    BY ValuesFacts
  <2>4. OpOK'
    <3>1. CASE pc' = "preflight" /\ BeginOp("match", Paths)
      BY <3>1, <2>3, BeginFacts DEF OpOK, UnderWay, Target
    <3>2. CASE pc' = "inputs" /\ BeginOp("digest", Sources)
      BY <3>2, <2>3, BeginFacts DEF OpOK, UnderWay, Target
    <3> QED BY <2>1, <3>1, <3>2
  <2>5. Phases'
    BY <1>1, <2>1, <2>2, <2>3, BeginFacts DEF Phases, Early, Working, Digesting
  <2>6. CacheOK'
    BY <1>1, <2>2 DEF CacheOK
  <2>7. ProcessOK' /\ SavedOK'
    BY <1>1, <2>1 DEF ProcessOK, SavedOK, Early, Working, Digesting
  <2> QED BY <2>4, <2>5, <2>6, <2>7
<1> QED BY <1>2, <1>3

\* The process takes what an operation has found out.
Turn == Preflight \/ CaptureGraph \/ Certify \/ Keyed \/ Intact \/ Record

\* The cache is left alone.
LEMMA TurnFacts ==
    ASSUME Types, Turn
    PROVE  /\ UNCHANGED <<manifest, tool, disk, clock, hashcache, memory, past, lost, graphStore,
                          toolStamp, env, toolStat, graph>>
           /\ pc \in Working \ {"execute", "command"}
           /\ pc' \in {"capture", "inputs", "verify", "outputs", "execute", "finish"}
<1> USE DEF process, saved, world, disks, memory, Working, Digesting
<1>1. CASE Preflight \/ CaptureGraph
  BY <1>1 DEF Preflight, CaptureGraph
<1>2. CASE Certify \/ Keyed
  BY <1>2 DEF Certify, Keyed
<1>3. CASE Intact
  BY <1>3 DEF Intact
<1>4. CASE Record
  BY <1>4 DEF Record
<1> QED BY <1>1, <1>2, <1>3, <1>4 DEF Turn

\* the turns it takes,
LEMMA TurnTypes ==
    ASSUME Types, Turn PROVE Types'
<1> USE DEF Types, process, saved, world, disks, memory
<1>1. /\ UNCHANGED <<manifest, tool, disk, clock, hashcache, snapshot, updates, settled,
                     graphStore, toolStamp, env, toolStat, graph>>
      /\ pc \in Working /\ pc' \in {"capture", "inputs", "verify", "outputs", "execute", "finish"}
  BY TurnFacts
<1>2. /\ CacheOK' /\ snapshot' = hashcache' /\ env' # None /\ graph' # None
      /\ manifest' \in Manifests /\ tool' \in [bytes : Tools, mtime : 0..clock']
      /\ env' \in Tools \cup {None} /\ graph' \in Manifests \cup {None}
  BY <1>1 DEF CacheOK, Phases, ProcessOK, Early, Working, Digesting
<1>3. Paths \in SUBSET Paths /\ Sources \in SUBSET Paths /\ Outputs \in SUBSET Paths
  BY ValuesFacts
<1>4. /\ Phases' /\ OpOK'
      /\ pc' \in {"capture", "verify"} => journal' # None
  <2>1. CASE op' = NoOp /\ pc' \in {"capture", "execute", "finish"}
             /\ (pc' = "capture" => pc = "preflight" /\ journal' = journal)
    BY <1>1, <1>2, <2>1, NoOpFacts
    DEF OpOK, UnderWay, Target, Phases, Early, Working, Digesting, SavedOK
  <2>2. CASE BeginOp("digest", Sources) /\ pc' = "inputs"
    BY <1>1, <1>2, <1>3, <2>2, BeginFacts
    DEF OpOK, UnderWay, Target, Phases, Early, Working, Digesting, SavedOK
  <2>3. CASE BeginOp("digest", Outputs) /\ pc' = "outputs"
    BY <1>1, <1>2, <1>3, <2>3, BeginFacts
    DEF OpOK, UnderWay, Target, Phases, Early, Working, Digesting, SavedOK
  <2>4. CASE BeginOp("match", Paths) /\ pc' = "verify" /\ pc = "capture" /\ journal' = journal
    BY <1>1, <1>2, <1>3, <2>4, BeginFacts
    DEF OpOK, UnderWay, Target, Phases, Early, Working, Digesting, SavedOK
  <2>5. CASE UNCHANGED op /\ pc' = "finish" /\ pc = "capture"
    BY <1>1, <1>2, <2>5, NoOpFacts
    DEF OpOK, UnderWay, Target, Phases, Early, Working, Digesting, SavedOK
  <2> QED
    BY <2>1, <2>2, <2>3, <2>4, <2>5
    DEF Turn, Preflight, CaptureGraph, Certify, Keyed, Intact, Record
<1>5. ProcessOK'
  <2>1. todo' \subseteq Paths
    BY DEF Turn, Preflight, CaptureGraph, Certify, Keyed, Intact, Record, ProcessOK
  <2>2. /\ evidence' \in [Paths -> Stats \cup Digests \cup {None, MISSING}]
        /\ pc' = "capture" => \A p \in Paths : evidence'[p] \in Stats \cup {None}
        /\ pc' = "verify" => \A p \in Paths : evidence'[p] \in Stats \cup {None}
        /\ pc' \in {"outputs", "execute"} => \A s \in Sources : evidence'[s] \in Digests \cup {MISSING}
    <3>1. CASE Preflight
      BY <3>1, ValuesFacts DEF Preflight, ProcessOK
    <3>2. CASE CaptureGraph
      BY <3>2 DEF CaptureGraph, ProcessOK
    <3>3. CASE Certify \/ Record
      BY <3>3 DEF Certify, Record, ProcessOK
    <3>4. CASE Keyed
      <4>1. /\ pc' \in {"finish", "outputs", "execute"}
            /\ \/ pc' = "finish" /\ evidence' = evidence
               \/ op.kind = "done" /\ pc = "inputs" /\ evidence' = op.got
        BY <3>4 DEF Keyed
      <4>2. op.kind = "done" /\ pc = "inputs" =>
                \A s \in Sources : op.got[s] \in Digests \cup {MISSING}
        BY ValuesFacts, DoneFacts DEF Target
      <4>3. op.got \in [Paths -> Digests \cup {None, MISSING}]
        BY DEF OpOK
      <4>4. evidence \in [Paths -> Stats \cup Digests \cup {None, MISSING}]
        BY DEF ProcessOK
      <4>5. evidence' \in [Paths -> Stats \cup Digests \cup {None, MISSING}]
        BY <4>1, <4>3, <4>4
      <4> QED BY <4>1, <4>2, <4>5
    <3>5. CASE Intact
      BY <3>5 DEF Intact, ProcessOK
    <3> QED BY <3>1, <3>2, <3>3, <3>4, <3>5 DEF Turn
  <2>3. pc' = "verify" => fingerprint' \in Manifests
    <3>1. pc' = "verify" => CaptureGraph /\ fingerprint' = CachedFingerprint /\ CachedFingerprint # None
      BY DEF Turn, Preflight, CaptureGraph, Certify, Keyed, Intact, Record
    <3> QED BY <3>1 DEF CachedFingerprint, SavedOK
  <2> QED BY <1>1, <1>2, <2>1, <2>2, <2>3 DEF ProcessOK, Early, Working, Digesting
<1>6. SavedOK'
  <2>1. journal' # None => journal'.files \in [Paths -> Digests \cup {MISSING}]
    <3>1. CASE UNCHANGED journal
      BY <3>1 DEF SavedOK
    <3>2. CASE Record /\ journal' # journal
      <4>1. /\ pc = "record" /\ op.kind = "done"
            /\ journal'.files = [p \in Paths |-> IF p \in Sources THEN evidence[p] ELSE op.got[p]]
        BY <3>2 DEF Record
      <4>2. \A o \in Outputs : op.got[o] \in Digests \cup {MISSING}
        BY <1>3, <4>1, DoneFacts DEF Target
      <4>3. \A s \in Sources : evidence[s] \in Digests \cup {MISSING}
        BY <4>1 DEF ProcessOK
      <4> QED BY <4>1, <4>2, <4>3 DEF Outputs
    <3> QED BY <3>1, <3>2 DEF Turn, Preflight, CaptureGraph, Certify, Keyed, Intact
  <2>2. certificate' # None =>
            /\ certificate'.files \in [Paths -> Stats \cup {None}]
            /\ certificate'.digests \in [Paths -> Digests \cup {MISSING}]
            /\ certificate'.fp \in Manifests
    <3>1. CASE UNCHANGED certificate
      BY <3>1 DEF SavedOK
    <3>2. CASE Certify /\ certificate' # certificate
      <4>1. /\ pc = "verify"
            /\ certificate' = [env |-> env, fp |-> fingerprint, files |-> evidence,
                               digests |-> journal.files, graph |-> graph]
        BY <3>2 DEF Certify
      <4>2. evidence = [p \in Paths |-> evidence[p]]
        BY <4>1 DEF ProcessOK
      <4>3. journal.files \in [Paths -> Digests \cup {MISSING}]
        BY <4>1 DEF SavedOK
      <4> QED BY <4>1, <4>2, <4>3 DEF ProcessOK
    <3> QED BY <3>1, <3>2 DEF Turn, Preflight, CaptureGraph, Keyed, Intact, Record
  <2> QED BY <1>1, <1>4, <2>1, <2>2 DEF SavedOK
<1> QED BY <1>2, <1>4, <1>5, <1>6
\* The command is run.
Run == Execute \/ \E bytes \in [Outputs -> Bytes] : Command(bytes)

\* the run of the command,
LEMMA RunTypes ==
    ASSUME Types, Run PROVE Types'
<1> USE DEF Types, process, saved, world, memory
<1>1. /\ UNCHANGED <<manifest, tool, saved, process, clock, hashcache, snapshot>>
      /\ \/ pc = "execute" /\ pc' = "command" /\ UNCHANGED op
         \/ pc = "command" /\ pc' = "record" /\ BeginOp("digest", Outputs) /\ UNCHANGED memory
  BY DEF Run, Execute, Command
<1>2. clock \in 0..clock
  BY ClockFacts
<1>3. disk' \in [Paths -> [bytes : Bytes \cup {Absent}, exec : BOOLEAN, mtime : 0..clock]]
  <2>1. CASE Execute
    BY <1>2, <2>1 DEF Execute, CacheOK
  <2>2. CASE \E bytes \in [Outputs -> Bytes] : Command(bytes)
    BY <1>2, <2>2 DEF Command, CacheOK
  <2> QED BY <2>1, <2>2 DEF Run
<1>4. /\ updates' \in [Paths -> Entries \cup {None, Tombstone}]
      /\ settled' \in [Paths -> Digests \cup {None}]
      /\ pc' = "command" => \A o \in Outputs : updates'[o] = Tombstone /\ settled'[o] = None
  <2>1. CASE Execute
    <3>1. Forget(Outputs)
      BY <2>1 DEF Execute
    <3> QED BY <3>1, ValuesFacts DEF Forget, CacheOK
  <2>2. CASE \E bytes \in [Outputs -> Bytes] : Command(bytes)
    BY <2>2 DEF Command, CacheOK
  <2> QED BY <2>1, <2>2 DEF Run
<1>5. CacheOK'
  BY <1>1, <1>3, <1>4 DEF CacheOK
<1>6. Outputs \in SUBSET Paths
  BY ValuesFacts
<1>7. Phases' /\ OpOK'
  <2>1. CASE pc = "execute" /\ pc' = "command" /\ UNCHANGED op
    BY <1>1, <1>4, <2>1, NoOpFacts DEF Phases, OpOK, UnderWay, Target, Early, Working, Digesting
  <2>2. CASE pc = "command" /\ pc' = "record" /\ BeginOp("digest", Outputs)
    BY <1>1, <1>6, <2>2, BeginFacts DEF Phases, OpOK, UnderWay, Target, Early, Working, Digesting
  <2> QED BY <1>1, <2>1, <2>2
<1>8. ProcessOK' /\ SavedOK'
  BY <1>1 DEF ProcessOK, SavedOK, Early, Working, Digesting
<1> QED BY <1>5, <1>7, <1>8

\* and the end of a process.
LEMMA EndTypes ==
    ASSUME Types, Answer \/ Finish \/ Die PROVE Types'
<1> USE DEF Types, saved, world, disks
<1>1. /\ UNCHANGED <<manifest, tool, saved, disk, clock>>
      /\ pc' = "idle" /\ op' = NoOp /\ NoMemory'
      /\ env' = None /\ graph' = None /\ todo' = {} /\ evidence' = [p \in Paths |-> None]
  BY DEF Answer, Finish, Die, EndProcess, NoMemory
<1>2. hashcache' \in [Paths -> Entries \cup {None}]
  <2>1. CASE UNCHANGED hashcache
    BY <2>1 DEF CacheOK
  <2>2. CASE hashcache' = Merged
    <3>1. ASSUME NEW p \in Paths PROVE Merged[p] \in Entries \cup {None}
      BY DEF Merged, CacheOK
    <3> QED BY <2>2, <3>1 DEF Merged
  <2> QED BY <2>1, <2>2 DEF Answer, Finish, Die, Save
<1>3. CacheOK'
  BY <1>1, <1>2 DEF CacheOK, NoMemory
<1>4. Phases' /\ OpOK'
  BY <1>1, NoOpFacts DEF Phases, OpOK, UnderWay, Target, Early, Working, Digesting
<1>5. ProcessOK' /\ SavedOK'
  BY <1>1 DEF ProcessOK, SavedOK, Early, Working, Digesting
<1> QED BY <1>3, <1>4, <1>5

-----------------------------------------------------------------------------

\* A step is a step of a process, a change of a file, or none.
LEMMA NextFacts ==
    ASSUME Next
    PROVE  \/ Start \/ Open \/ Plain \/ Turn \/ Run \/ Answer \/ Finish \/ Die
           \/ OpStep /\ World
           \/ FilesChange /\ World
<1>1. CASE Step
  BY <1>1 DEF Step, Plain, Turn, Run
<1>2. CASE Edit
  BY <1>2 DEF Edit, FilesChange, Plain
<1> QED BY <1>1, <1>2 DEF Next, FilesChange

\* Everything is what it should be, to begin with ...
LEMMA InitTypes == Init => Types
<1> SUFFICES ASSUME Init PROVE Types
  OBVIOUS
<1> USE DEF Init, CacheInit, NoMemory
<1>1. CacheOK
  <2>1. 0 \in 0..0 /\ 0 \in 0..MaxClock
    BY ValuesFacts
  <2>2. disk \in [Paths -> [bytes : Bytes \cup {Absent}, exec : BOOLEAN, mtime : 0..clock]]
    BY <2>1
  <2> QED BY <2>1, <2>2 DEF CacheOK
<1>2. Phases /\ OpOK
  BY NoOpFacts DEF Phases, OpOK, UnderWay, Target, Early, Working, Digesting
<1>3. ProcessOK /\ SavedOK
  BY DEF ProcessOK, SavedOK, Early, Working, Digesting
<1> QED BY <1>1, <1>2, <1>3 DEF Types

\* ... and after every step.
LEMMA StepTypes == Types /\ [Next]_vars => Types'
<1> SUFFICES ASSUME Types, [Next]_vars PROVE Types'
  OBVIOUS
<1>1. CASE Next
  BY <1>1, NextFacts, PlainTypes, OpStepTypes, FilesChangeTypes, StartTypes, TurnTypes, RunTypes,
     EndTypes
<1>2. CASE UNCHANGED vars
  <2> USE <1>2 DEF vars, cacheVars, disks, memory, world, saved, process
  <2>1. CacheOK'
    BY DEF Types, CacheOK
  <2>2. Phases' /\ OpOK'
    BY DEF Types, Phases, NoMemory, OpOK, UnderWay, Target
  <2>3. UNCHANGED <<manifest, tool, clock, env, toolStat, graph, todo, evidence, fingerprint, pc>>
        /\ UNCHANGED <<graphStore, toolStamp, journal, certificate>>
    OBVIOUS
  <2>4. ProcessOK'
    BY <2>3 DEF Types, ProcessOK
  <2>5. SavedOK'
    BY <2>3 DEF Types, SavedOK
  <2> QED BY <2>1, <2>2, <2>4, <2>5 DEF Types
<1> QED BY <1>1, <1>2

\* In every phase of a process its memory, its operation on the cache and what is
\* saved are what the phase calls for.
THEOREM TypesInvariant == Spec => []Types
<1> QED BY InitTypes, StepTypes, PTL DEF Spec

\* The types of the state.
THEOREM TypeCorrect == Spec => []TypeOK
<1>1. Types => TypeOK
  BY DEF Types, OpOK, CacheOK, ProcessOK, SavedOK, TypeOK, CacheTypeOK
<1> QED BY <1>1, TypesInvariant, PTL
-----------------------------------------------------------------------------
(* Stamps: what is taken over is what would be computed anew.              *)

\* The steps that stamps have nothing to do with.
Other ==
    \/ Open \/ Turn \/ Run \/ CommandFails
    \/ \E p \in Paths : Capture(p)
    \/ OpStep /\ World
    \/ FilesChange /\ World

\* They leave them alone.
LEMMA OtherFacts ==
    ASSUME Types, Other
    PROVE  /\ UNCHANGED <<manifest, tool, graphStore, toolStamp, env, toolStat, graph, manifests,
                          tools, torn>>
           /\ clock' = clock \/ pc' = pc
           /\ pc # "idle" \/ pc' = pc
           /\ pc' \in Working \/ pc' = pc
           /\ pc \in {"open"} \cup Working \/ pc' = pc
<1> USE DEF World, cacheVars, process, saved, world, disks, memory, observers, Working, Digesting
<1>1. CASE Open
  BY <1>1 DEF Open
<1>2. CASE Turn
  <2>1. UNCHANGED <<manifests, tools, torn, graph>>
    BY <1>2 DEF Turn, Preflight, CaptureGraph, Certify, Keyed, Intact, Record
  <2> QED BY <1>2, <2>1, TurnFacts
<1>3. CASE Run
  BY <1>3 DEF Run, Execute, Command
<1>4. CASE CommandFails
  BY <1>4 DEF CommandFails
<1>5. CASE \E p \in Paths : Capture(p)
  BY <1>5 DEF Capture
<1>6. CASE World
  BY <1>6
<1> QED BY <1>1, <1>2, <1>3, <1>4, <1>5, <1>6 DEF Other

\* A tool that has the identity of the stamp has been hashed for it.
LEMMA ToolsStep == Types /\ ToolsInv /\ [Next]_vars => ToolsInv'
<1> SUFFICES ASSUME Types, ToolsInv, [Next]_vars PROVE ToolsInv'
  OBVIOUS
<1> USE DEF process, saved, world, observers
<1>1. /\ tool \in [bytes : Tools, mtime : 0..clock] /\ clock \in Nat
      /\ toolStamp \in [stat : 0..clock, hash : Tools] \cup {None}
      /\ tool.mtime \in Nat
      /\ toolStamp # None => toolStamp.stat \in Nat
  <2>1. tool \in [bytes : Tools, mtime : 0..clock]
    BY DEF Types, ProcessOK
  <2>2. toolStamp \in [stat : 0..clock, hash : Tools] \cup {None}
    BY DEF Types, SavedOK
  <2>3. clock \in Nat
    BY ClockFacts DEF Types
  <2> QED BY <2>1, <2>2, <2>3
<1>0. pc = "idle" => env = None
  BY DEF Types, ProcessOK
<1>2. CASE Start
  BY <1>0, <1>1, <1>2 DEF Start, ToolsInv
<1>3. CASE StatTool
  <2>1. /\ UNCHANGED <<tool, toolStamp, tools>> /\ pc # "idle"
        /\ \/ toolStamp # None /\ toolStamp.stat = tool.mtime /\ env' = toolStamp.hash
              /\ pc' # "hash tool"
           \/ toolStat' = tool.mtime /\ env' = env
    BY <1>3 DEF StatTool, StatIdentity, Fingerprinted
  <2>2. toolStamp' # None =>
            /\ toolStamp'.stat <= tool'.mtime
            /\ toolStamp'.stat = tool'.mtime => toolStamp'.hash = tool'.bytes
    BY <2>1 DEF ToolsInv
  <2>3. tool.mtime <= tool.mtime
    BY <1>1
  <2>4. pc' = "hash tool" => toolStat' <= tool'.mtime
    BY <2>1, <2>3
  <2>5. (pc' # "idle" => tool'.bytes \in tools') /\ (env' # None => env' \in tools')
    BY <2>1 DEF ToolsInv
  <2> QED BY <2>2, <2>4, <2>5 DEF ToolsInv
<1>4. CASE HashTool
  BY <1>1, <1>4 DEF HashTool, Fingerprinted, ToolsInv
<1>5. CASE \E b \in Tools : ReplaceTool(b)
  <2>1. PICK b \in Tools : ReplaceTool(b)
    BY <1>5
  <2>2. /\ tool'.mtime = clock /\ tool'.bytes = b /\ tool.mtime < clock
        /\ tools' = IF pc = "idle" THEN {} ELSE tools \cup {b}
        /\ UNCHANGED <<toolStamp, toolStat, env, pc>>
    BY <2>1 DEF ReplaceTool
  <2>3. toolStamp # None => toolStamp.stat <= tool.mtime
    BY DEF ToolsInv
  <2>4. toolStamp' # None => toolStamp'.stat <= tool'.mtime /\ toolStamp'.stat # tool'.mtime
    BY <1>1, <2>2, <2>3
  <2>5. pc' = "hash tool" => toolStat' <= tool'.mtime
    <3>1. SUFFICES ASSUME pc = "hash tool" PROVE toolStat' <= clock
      BY <2>2
    <3>2. toolStat' \in 0..clock
      BY <2>2, <3>1 DEF Types, ProcessOK
    <3> QED BY <1>1, <3>2
  <2>6. (pc' # "idle" => tool'.bytes \in tools') /\ (env' # None => env' \in tools')
    BY <1>0, <2>2 DEF ToolsInv
  <2> QED BY <2>4, <2>5, <2>6 DEF ToolsInv
<1>6. CASE \E v \in Manifests : EditManifest(v)
  BY <1>6 DEF EditManifest, ToolsInv
<1>7. CASE \E p \in Paths : CheckIdentity(p)
  BY <1>7 DEF CheckIdentity, ToolsInv
<1>8. CASE LoadCached \/ LoadOrCompile
  BY <1>8 DEF LoadCached, LoadOrCompile, ToolsInv
<1>9. CASE Answer \/ Finish \/ Die
  BY <1>9 DEF Answer, Finish, Die, EndProcess, ToolsInv
<1>10. CASE UNCHANGED vars
  BY <1>10 DEF vars, ToolsInv
<1>11. CASE Other
  BY <1>11, OtherFacts DEF ToolsInv, Working, Digesting
<1>12. CASE Plain
  BY <1>3, <1>4, <1>5, <1>6, <1>7, <1>8, <1>11, <1>12 DEF Plain, Other
<1> QED BY <1>2, <1>9, <1>10, <1>11, <1>12, NextFacts DEF Other

\* A graph with the stamp of the present manifests is the graph of these.
LEMMA GraphStep == Types /\ GraphInv /\ [Next]_vars => GraphInv'
<1> SUFFICES ASSUME Types, GraphInv, [Next]_vars PROVE GraphInv'
  OBVIOUS
<1> USE DEF process, saved, world, observers
<1>1. /\ manifest \in Manifests
      /\ graphStore \in [fp : Manifests, stamp : Manifests] \cup {None}
      /\ certificate # None => certificate.fp \in Manifests
      /\ pc \in {"idle", "load", "identities", "hit"} => graph = None
      /\ pc \in {"compile", "open"} \cup Working => graph # None
      /\ None \notin Manifests
      /\ pc \in {"tool", "hash tool", "identities", "hit"} /\ graph = None => certificate # None
  BY ValuesFacts DEF Types, ProcessOK, SavedOK
<1>2. CachedFingerprint # None =>
          /\ graphStore # None /\ CachedFingerprint = graphStore.fp
          /\ ~torn => CachedFingerprint = manifest
  BY DEF CachedFingerprint, SourcesCurrent, SourcesStamp, GraphInv
<1>3. CASE Start
  BY <1>1, <1>2, <1>3 DEF Start, HeaderMatches, GraphInv
<1>4. CASE LoadCached
  BY <1>1, <1>2, <1>4 DEF LoadCached, GraphInv
<1>5. CASE LoadOrCompile
  <2>1. /\ UNCHANGED <<manifest, certificate, graph, fingerprint, manifests>>
        /\ pc = "compile" /\ pc' = "tool" /\ graph # None
        /\ \/ graphStore # None /\ graphStore.fp = graph /\ UNCHANGED <<graphStore, torn>>
           \/ /\ graphStore' = [fp |-> graph, stamp |-> manifest]
              /\ ~torn' => ~torn /\ manifest = graph
    BY <1>1, <1>5 DEF LoadOrCompile, SaveGraph, SourcesStamp
  <2>2. graphStore' # None /\ graphStore'.fp = graph
    <3>1. graph \in Manifests
      BY <2>1 DEF Types, ProcessOK
    <3>2. [fp |-> graph, stamp |-> manifest] \in [fp : Manifests, stamp : Manifests]
      BY <1>1, <3>1
    <3> QED BY <2>1, <3>2, ValuesFacts
  <2>3. ~torn' => ~torn /\ graphStore'.fp = graphStore'.stamp
    BY <2>1 DEF GraphInv
  <2> QED BY <1>1, <2>1, <2>2, <2>3 DEF GraphInv
<1>6. CASE StatTool \/ HashTool
  BY <1>1, <1>6 DEF StatTool, HashTool, Fingerprinted, GraphInv
<1>7. CASE \E b \in Tools : ReplaceTool(b)
  <2>1. UNCHANGED <<manifest, graphStore, certificate, graph, fingerprint, pc, manifests, torn>>
    BY <1>7 DEF ReplaceTool
  <2> QED BY <2>1 DEF GraphInv
<1>8. CASE \E v \in Manifests : EditManifest(v)
  <2>1. /\ UNCHANGED <<graphStore, certificate, graph, fingerprint, pc, torn>>
        /\ pc # "idle" => manifests \subseteq manifests' /\ manifest' \in manifests'
    BY <1>8 DEF EditManifest
  <2> QED BY <1>1, <2>1 DEF GraphInv
<1>9. CASE \E p \in Paths : CheckIdentity(p)
  <2>1. /\ UNCHANGED <<manifest, graphStore, certificate, graph, fingerprint, manifests, torn>>
        /\ pc = "identities" /\ pc' \in {"identities", "hit", "load"}
    BY <1>9 DEF CheckIdentity
  <2> QED BY <1>1, <2>1 DEF GraphInv
<1>10. CASE Answer \/ Finish \/ Die
  BY <1>10 DEF Answer, Finish, Die, EndProcess, GraphInv
<1>11. CASE UNCHANGED vars
  BY <1>11 DEF vars, GraphInv
<1>12. CASE Other
  <2>1. /\ pc' = "verify" => fingerprint' = graph
        /\ certificate' # None => certificate'.fp = certificate'.graph
    <3>1. CASE Turn
      <4>1. CASE CaptureGraph
        BY <1>1, <1>2, <4>1 DEF CaptureGraph, GraphInv, Working, Digesting
      <4>2. CASE Certify
        BY <4>2 DEF Certify, GraphInv
      <4>3. CASE Preflight \/ Keyed \/ Intact \/ Record
        BY <4>3 DEF Preflight, Keyed, Intact, Record, GraphInv
      <4> QED BY <3>1, <4>1, <4>2, <4>3 DEF Turn
    <3>2. CASE ~Turn
      BY <1>12, <3>2 DEF Other, World, Open, Run, Execute, Command, CommandFails, Capture, GraphInv
    <3> QED BY <3>1, <3>2
  <2>2. /\ UNCHANGED <<manifest, graphStore, graph, manifests, torn>>
        /\ pc # "idle" \/ pc' = pc
        /\ pc' \in Working \/ pc' = pc
        /\ pc \in {"open"} \cup Working \/ pc' = pc
    BY <1>12, OtherFacts
  <2>3. /\ pc' # "idle" => manifest' \in manifests'
        /\ graphStore' # None /\ ~torn' => graphStore'.fp = graphStore'.stamp
        /\ graph' # None /\ ~torn' => graph' \in manifests'
    BY <2>2 DEF GraphInv
  <2>4. graph' # None /\ pc' # "compile" => graphStore' # None /\ graphStore'.fp = graph'
    BY <2>2 DEF GraphInv, Working, Digesting
  <2>5. pc' \in {"tool", "hash tool", "identities", "hit"} => pc' = pc /\ UNCHANGED certificate
    BY <1>12, <2>2
    DEF Working, Digesting, Other, Turn, Preflight, CaptureGraph, Certify, Keyed, Intact, Record, World,
        Open, Run, Execute, Command, CommandFails, Capture
  <2> QED BY <2>1, <2>2, <2>3, <2>4, <2>5 DEF GraphInv
<1>13. CASE Plain
  BY <1>4, <1>5, <1>6, <1>7, <1>8, <1>9, <1>12, <1>13 DEF Plain, Other
<1> QED BY <1>3, <1>10, <1>11, <1>12, <1>13, NextFacts DEF Other

\* They are right to begin with.
LEMMA InitStamps == Init => ToolsInv /\ GraphInv
BY DEF Init, ToolsInv, GraphInv

\* StampsAreCurrent: a fingerprint or a graph that is taken over from below .frost
\* is of a tool and of a manifest that were there since the process began.
THEOREM StampsAreCurrentHolds == Spec => []StampsAreCurrent
<1>1. Spec => [](Types /\ ToolsInv /\ GraphInv)
  BY InitStamps, InitTypes, StepTypes, ToolsStep, GraphStep, PTL DEF Spec
<1>2. Types /\ ToolsInv /\ GraphInv => StampsAreCurrent
  <2>1. Types /\ pc = "hit" => graph = None /\ certificate # None
    BY DEF Types, ProcessOK, SavedOK
  <2> QED BY <2>1 DEF ToolsInv, GraphInv, StampsAreCurrent, ToolsAreCurrent, GraphIsCurrent
<1> QED BY <1>1, <1>2, PTL
-----------------------------------------------------------------------------
(* What becomes of files.                                                  *)

Files == [bytes : Bytes \cup {Absent}, exec : BOOLEAN, mtime : Nat]

\* Path p, file f so far, becomes file g, and no triple comes back.
Gently(f, g, p) ==
    \/ g = f
    \/ g.mtime > f.mtime
    \/ g.mtime = f.mtime /\ p \in Sources /\ f.bytes # Absent /\ ~f.exec /\ g.exec
    \/ g.mtime >= f.mtime /\ g.bytes = Absent

\* What was before the one was before the other ...
LEMMA BeforeFacts ==
    ASSUME NEW f \in Files, NEW g \in Files, NEW p \in Paths, NEW s \in Stats,
           Before(s, f, p), Gently(f, g, p) \/ (p \notin Sources /\ g.mtime >= f.mtime)
    PROVE  Before(s, g, p)
<1>1. s[1] \in Nat /\ f.mtime \in Nat /\ g.mtime \in Nat
  BY ValuesFacts DEF Stats, Files
<1> QED BY <1>1 DEF Before, Gently

\* ... and what a triple told is still true.
LEMMA TruthFacts ==
    ASSUME NEW f \in Files, NEW g \in Files, NEW p \in Paths, NEW s \in Stats, NEW d,
           Before(s, f, p), Truth(s, d, f), Gently(f, g, p)
    PROVE  Truth(s, d, g)
<1>1. s[1] \in Nat /\ f.mtime \in Nat /\ g.mtime \in Nat
  BY ValuesFacts DEF Stats, Files
<1>2. SUFFICES ASSUME g.bytes # Absent, s = StatTriple(g) PROVE d = HashFile(g)
  BY DEF Truth
<1>3. s[1] = g.mtime /\ s[2] = g.exec
  BY <1>2 DEF StatTriple
<1>4. ~(g.mtime > f.mtime)
  BY <1>1, <1>3 DEF Before
<1>5. g = f
  BY <1>1, <1>2, <1>3, <1>4 DEF Before, Gently
<1> QED BY <1>2, <1>5 DEF Truth

\* What is remembered of the files stays older than they are.
Ages == \A p \in Paths, s \in Stats : Before(s, disk[p], p) => Before(s, disk'[p], p)

\* What is remembered of a file stays true.
Keeps(p) ==
    \A s \in Stats, d \in Digests \cup {MISSING} :
        Before(s, disk[p], p) /\ Truth(s, d, disk[p]) => Truth(s, d, disk'[p])

\* Only a command can make a triple come back, on one of its outputs.
Rewritten(p) == pc = "command" /\ pc' = "record" /\ p \in Outputs

\* Files are files.
LEMMA DiskFacts ==
    ASSUME CacheOK, NEW p \in Paths
    PROVE  disk[p] \in Files /\ disk[p].mtime <= clock /\ clock \in Nat
<1>1. disk \in [Paths -> [bytes : Bytes \cup {Absent}, exec : BOOLEAN, mtime : 0..clock]]
  BY DEF CacheOK
<1>2. clock \in Nat
  BY ClockFacts
<1> QED BY <1>1, <1>2 DEF Files

\* Whatever a step does to the files, it does gently, but for the command.
LEMMA GentleStep ==
    ASSUME Types, Types', [Next]_vars, NEW p \in Paths
    PROVE  /\ disk[p] \in Files /\ disk'[p] \in Files
           /\ Gently(disk[p], disk'[p], p) \/ (Rewritten(p) /\ disk'[p].mtime >= disk[p].mtime)
<1> USE DEF Types
<1>1. disk[p] \in Files /\ disk[p].mtime <= clock /\ clock \in Nat
  BY DiskFacts
<1>2. disk'[p] \in Files
  <2>1. /\ disk' \in [Paths -> [bytes : Bytes \cup {Absent}, exec : BOOLEAN, mtime : 0..clock']]
        /\ clock' \in 0..MaxClock
    BY DEF CacheOK
  <2> QED BY <2>1, ValuesFacts DEF Files
<1>3. disk \in [Paths -> [bytes : Bytes \cup {Absent}, exec : BOOLEAN, mtime : 0..clock]]
  BY DEF CacheOK
<1> SUFFICES Gently(disk[p], disk'[p], p) \/ (Rewritten(p) /\ disk'[p].mtime >= disk[p].mtime)
  BY <1>1, <1>2
<1>4. CASE UNCHANGED disk
  BY <1>4 DEF Gently
<1>5. CASE \E q \in Paths, b \in Bytes \cup {Absent} : UserWrites(q, b)
  <2>1. PICK q \in Paths, b \in Bytes \cup {Absent} : UserWrites(q, b)
    BY <1>5
  <2>2. /\ disk' = [disk EXCEPT ![q] = [bytes |-> b, exec |-> FALSE, mtime |-> clock]]
        /\ clock > disk[q].mtime
    BY <2>1 DEF UserWrites, Put
  <2>3. p = q => disk'[p].mtime = clock
    BY <1>3, <2>2
  <2>4. p # q => disk'[p] = disk[p]
    BY <1>3, <2>2
  <2> QED BY <1>1, <1>2, <2>2, <2>3, <2>4 DEF Gently
<1>6. CASE \E q \in Sources : Chmod(q)
  <2>1. PICK q \in Sources : Chmod(q)
    BY <1>6
  <2>2. /\ disk' = [disk EXCEPT ![q] = [disk[q] EXCEPT !.exec = TRUE]]
        /\ disk[q].bytes # Absent /\ ~disk[q].exec
    BY <2>1 DEF Chmod, Put, Exists
  <2>3. p = q => disk'[p].mtime = disk[p].mtime /\ disk'[p].exec
    BY <1>3, <2>2
  <2>4. p # q => disk'[p] = disk[p]
    BY <1>3, <2>2
  <2> QED BY <2>1, <2>2, <2>3, <2>4 DEF Gently
<1>7. CASE Execute
  <2>1. disk'[p] = IF p \in Outputs /\ Exists(p)
                   THEN [bytes |-> Absent, exec |-> FALSE, mtime |-> clock] ELSE disk[p]
    BY <1>7 DEF Execute
  <2>2. CASE p \in Outputs /\ Exists(p)
    <3>1. disk'[p].bytes = Absent /\ disk'[p].mtime = clock
      BY <2>1, <2>2
    <3>2. disk'[p].mtime >= disk[p].mtime
      BY <1>1, <3>1 DEF Files
    <3> QED BY <3>1, <3>2 DEF Gently
  <2>3. CASE ~(p \in Outputs /\ Exists(p))
    BY <2>1, <2>3 DEF Gently
  <2> QED BY <2>2, <2>3
<1>8. CASE \E bytes \in [Outputs -> Bytes] : Command(bytes)
  <2>1. PICK bytes \in [Outputs -> Bytes] : Command(bytes)
    BY <1>8
  <2>2. /\ disk'[p] = IF p \in Outputs
                      THEN [bytes |-> bytes[p], exec |-> FALSE, mtime |-> clock] ELSE disk[p]
        /\ pc = "command" /\ pc' = "record"
    BY <2>1 DEF Command
  <2>3. CASE p \in Outputs
    <3>1. disk'[p].mtime = clock
      BY <2>2, <2>3
    <3>2. disk'[p].mtime >= disk[p].mtime
      BY <1>1, <3>1 DEF Files
    <3> QED BY <2>2, <2>3, <3>2 DEF Rewritten
  <2>4. CASE p \notin Outputs
    BY <2>2, <2>4 DEF Gently
  <2> QED BY <2>3, <2>4
<1>9. CASE ~Run /\ ~FilesChange
  <2>1. UNCHANGED disk
    <3> USE DEF cacheVars, disks
    <3>1. CASE Start \/ Open
      BY <3>1 DEF Start, Open
    <3>2. CASE Plain
      BY <3>2, PlainFacts
    <3>3. CASE Turn
      BY <3>3, TurnFacts
    <3>4. CASE OpStep
      BY <3>4, OpStepFacts
    <3>5. CASE Answer \/ Finish \/ Die
      BY <3>5 DEF Answer, Finish, Die, EndProcess
    <3>6. CASE UNCHANGED vars
      BY <3>6 DEF vars
    <3> QED BY <1>9, <3>1, <3>2, <3>3, <3>4, <3>5, <3>6, NextFacts
  <2> QED BY <1>4, <2>1
<1>10. CASE Tick
  BY <1>4, <1>10 DEF Tick
<1> QED BY <1>5, <1>6, <1>7, <1>8, <1>9, <1>10 DEF Run, FilesChange

\* So what is remembered stays older, and true where nothing was rewritten.
LEMMA AgesStep ==
    ASSUME Types, Types', [Next]_vars
    PROVE  Ages /\ \A p \in Paths : Keeps(p) \/ Rewritten(p)
<1>1. ASSUME NEW p \in Paths, NEW s \in Stats, Before(s, disk[p], p) PROVE Before(s, disk'[p], p)
  BY <1>1, GentleStep, BeforeFacts DEF Rewritten, Outputs
<1>2. ASSUME NEW p \in Paths, ~Rewritten(p), NEW s \in Stats, NEW d \in Digests \cup {MISSING},
             Before(s, disk[p], p), Truth(s, d, disk[p])
      PROVE  Truth(s, d, disk'[p])
  BY <1>2, GentleStep, TruthFacts
<1> QED BY <1>1, <1>2 DEF Ages, Keeps
-----------------------------------------------------------------------------
(* The cache.                                                              *)

\* What a step of an operation makes of what is known of a path.
Fate(p) ==
    /\ \/ updates'[p] \in {updates[p], Tombstone}
       \/ /\ op.stat[p] # None /\ op.got[p] # None
          /\ updates'[p] = [stat |-> op.stat[p], hash |-> op.got[p]]
    /\ op'.stat[p] \in {None, op.stat[p], Stat(p)}
    /\ \/ op'.got[p] \in {None, op.got[p], Content(p)}
       \/ op.kind = "digest" /\ op'.got[p] = settled[p]
       \/ Fresh(p) /\ op'.got[p] = Lookup(p).hash
    /\ op'.stat[p] # None /\ op'.got[p] # None =>
          \/ op'.stat[p] = op.stat[p] /\ op'.got[p] = op.got[p]
          \/ op'.got[p] = Content(p)
    /\ settled'[p] \in {None, settled[p], op'.got[p]}

\* It is one of a few things.
LEMMA OpStepFate ==
    ASSUME Types, OpStep, NEW p \in Paths PROVE Fate(p)
<1> USE DEF Types
<1>1. /\ updates \in [Paths -> Entries \cup {None, Tombstone}]
      /\ settled \in [Paths -> Digests \cup {None}]
      /\ op.stat \in [Paths -> Stats \cup {None}]
      /\ op.got \in [Paths -> Digests \cup {None, MISSING}]
      /\ \A q \in op.todo : q \in Paths /\ op.stat[q] = None /\ op.got[q] = None
  BY DEF CacheOK, OpOK
<1>2. ASSUME NEW q \in op.todo, NEW d, Got(q, d)
      PROVE  /\ op'.stat = op.stat
             /\ op'.got[p] = IF p = q THEN d ELSE op.got[p]
             /\ p = q => op'.stat[p] = None
  <2>1. op'.stat = op.stat /\ op'.got = [op.got EXCEPT ![q] = d]
    BY <1>2 DEF Got, OpOK
  <2> QED BY <1>1, <2>1
<1>3. ASSUME NEW q \in Paths, LookSettled(q) PROVE Fate(p)
  <2>1. /\ q \in op.todo /\ Got(q, settled[q]) /\ UNCHANGED <<updates, settled>>
        /\ op.kind = "digest"
    BY <1>3 DEF LookSettled
  <2> QED BY <1>1, <1>2, <2>1 DEF Fate
<1>4. ASSUME NEW q \in Paths, LookMissing(q) PROVE Fate(p)
  <2>1. /\ q \in op.todo /\ Got(q, MISSING) /\ ~Exists(q)
        /\ Forget({q}) \/ UNCHANGED <<updates, settled>>
    BY <1>4 DEF LookMissing, Unsettled
  <2>2. Content(q) = MISSING
    BY <2>1, FileFacts
  <2>3. updates'[p] \in {updates[p], Tombstone} /\ settled'[p] \in {None, settled[p]}
    BY <1>1, <2>1 DEF Forget
  <2> QED BY <1>1, <1>2, <2>1, <2>2, <2>3 DEF Fate
<1>5. ASSUME NEW q \in Paths, LookFresh(q) PROVE Fate(p)
  <2>1. /\ q \in op.todo /\ Got(q, Lookup(q).hash) /\ Fresh(q) /\ UNCHANGED updates
        /\ settled'[p] \in {settled[p], IF p = q THEN Lookup(q).hash ELSE settled[p]}
    BY <1>1, <1>5 DEF LookFresh, Unsettled
  <2> QED BY <1>1, <1>2, <2>1 DEF Fate
<1>6. ASSUME NEW q \in Paths, LookStale(q) PROVE Fate(p)
  <2>1. /\ q \in op.todo /\ op'.got = op.got /\ op'.stat = [op.stat EXCEPT ![q] = Stat(q)]
        /\ UNCHANGED <<updates, settled>>
    BY <1>6 DEF LookStale, Unsettled, OpOK
  <2>2. op'.stat[p] = IF p = q THEN Stat(p) ELSE op.stat[p]
    BY <1>1, <2>1
  <2> QED BY <1>1, <2>1, <2>2 DEF Fate
<1>7. ASSUME NEW q \in Paths, Hash(q) PROVE Fate(p)
  <2>1. UNCHANGED <<updates, settled>>
    BY <1>7 DEF Hash
  <2>2. CASE Exists(q)
    <3>1. op'.stat = op.stat /\ op'.got = [op.got EXCEPT ![q] = Content(q)]
      BY <1>7, <2>2 DEF Hash, OpOK
    <3>2. op'.got[p] = IF p = q THEN Content(p) ELSE op.got[p]
      BY <1>1, <3>1
    <3> QED BY <2>1, <3>1, <3>2 DEF Fate
  <2>3. CASE ~Exists(q)
    <3>1. op'.stat[p] = None /\ op'.got[p] = None
      BY <1>7, <2>3 DEF Hash, NoOp
    <3> QED BY <2>1, <3>1 DEF Fate
  <2> QED BY <2>2, <2>3
<1>8. CASE Complete
  <2>1. /\ op'.stat = op.stat /\ op'.got = op.got
        /\ op.stat[p] # None => op.got[p] # None
    BY <1>8 DEF Complete, ToHash, OpOK
  <2>2. /\ updates'[p] = IF op.stat[p] # None THEN [stat |-> op.stat[p], hash |-> op.got[p]]
                         ELSE updates[p]
        /\ settled'[p] \in {settled[p], op.got[p]}
    BY <1>8 DEF Complete, Hashed
  <2> QED BY <2>1, <2>2 DEF Fate
<1> QED BY <1>3, <1>4, <1>5, <1>6, <1>7, <1>8 DEF OpStep

\* Other steps make up nothing: what they know they knew before.
LEMMA MemoryStep ==
    ASSUME Types, [Next]_vars, NEW p \in Paths
    PROVE  \/ OpStep /\ World
           \/ /\ (op'.stat[p] = None /\ op'.got[p] = None) \/ UNCHANGED op
              /\ updates'[p] \in {None, Tombstone, updates[p]}
              /\ settled'[p] \in {None, settled[p]}
<1> USE DEF cacheVars, memory
<1>1. CASE Start
  BY <1>1 DEF Start
<1>2. CASE Open
  BY <1>2 DEF Open, Load, BeginOp, NoOp
<1>3. CASE Plain
  BY <1>3, PlainFacts
<1>4. CASE Turn
  <2>1. UNCHANGED memory
    BY <1>4, TurnFacts
  <2>2. (op'.stat[p] = None /\ op'.got[p] = None) \/ UNCHANGED op
    BY <1>4, NoOpFacts
    DEF Turn, Preflight, CaptureGraph, Certify, Keyed, Intact, Record, BeginOp, NoOp
  <2> QED BY <2>1, <2>2
<1>5. CASE Run
  <2>1. CASE Execute
    <3>1. Forget(Outputs) /\ UNCHANGED op
      BY <2>1 DEF Execute
    <3> QED BY <3>1 DEF Forget
  <2>2. CASE \E bytes \in [Outputs -> Bytes] : Command(bytes)
    <3>1. BeginOp("digest", Outputs) /\ UNCHANGED memory
      BY <2>2 DEF Command
    <3>2. op'.stat[p] = None /\ op'.got[p] = None
      BY <3>1 DEF BeginOp, NoOp
    <3> QED BY <3>1, <3>2
  <2> QED BY <1>5, <2>1, <2>2 DEF Run
<1>6. CASE Answer \/ Finish \/ Die
  BY <1>6, NoOpFacts DEF Answer, Finish, Die, EndProcess
<1>7. CASE FilesChange
  BY <1>7 DEF FilesChange, UserWrites, Chmod, Tick
<1>8. CASE UNCHANGED vars
  BY <1>8 DEF vars
<1> QED BY <1>1, <1>2, <1>3, <1>4, <1>5, <1>6, <1>7, <1>8, NextFacts
\* Where what is on disk below .frost comes from.
LEMMA SavedStep ==
    ASSUME Types, [Next]_vars, NEW p \in Paths
    PROVE  /\ \/ hashcache'[p] \in {None, hashcache[p]}
              \/ updates[p] \notin {None, Tombstone} /\ hashcache'[p] = updates[p]
           /\ \/ UNCHANGED certificate
              \/ pc = "verify" /\ certificate'.files[p] = evidence[p]
           /\ pc' \in {"capture", "verify"} =>
                \/ evidence'[p] \in {None, FileIdentity(p)} /\ UNCHANGED disk
                \/ pc \in {"capture", "verify"} /\ evidence'[p] = evidence[p]
<1> USE DEF cacheVars, disks, memory, saved, process
<1>1. CASE Start \/ Open
  BY <1>1 DEF Start, Open
<1>2. CASE Plain
  <2>1. UNCHANGED <<disk, hashcache>>
    BY <1>2, PlainFacts
  <2>2. CASE \E q \in Paths : Capture(q)
    <3>1. PICK q \in Paths : Capture(q)
      BY <2>2
    <3>2. /\ pc = "capture" /\ evidence' = [evidence EXCEPT ![q] = FileIdentity(q)]
          /\ UNCHANGED certificate
      BY <3>1 DEF Capture
    <3>3. evidence \in [Paths -> Stats \cup Digests \cup {None, MISSING}]
      BY DEF Types, ProcessOK
    <3>4. evidence'[p] = IF p = q THEN FileIdentity(p) ELSE evidence[p]
      BY <3>2, <3>3
    <3> QED BY <2>1, <3>2, <3>4
  <2>3. CASE ~\E q \in Paths : Capture(q)
    BY <1>2, <2>1, <2>3
    DEF Plain, LoadCached, LoadOrCompile, StatTool, HashTool, CommandFails, CheckIdentity, EditManifest,
        ReplaceTool, Fingerprinted
  <2> QED BY <2>2, <2>3
<1>3. CASE Turn
  <2>1. UNCHANGED <<disk, hashcache>>
    BY <1>3, TurnFacts
  <2>2. CASE Preflight
    <3>1. evidence[p] = None /\ UNCHANGED <<certificate, evidence>>
      BY <2>2 DEF Preflight, Types, ProcessOK
    <3> QED BY <2>1, <3>1
  <2>3. CASE CaptureGraph
    BY <2>1, <2>3 DEF CaptureGraph
  <2>4. CASE Certify
    BY <2>1, <2>4 DEF Certify
  <2>5. CASE Keyed \/ Intact \/ Record
    BY <2>1, <2>5 DEF Keyed, Intact, Record
  <2> QED BY <1>3, <2>2, <2>3, <2>4, <2>5 DEF Turn
<1>4. CASE Run
  BY <1>4 DEF Run, Execute, Command
<1>5. CASE OpStep /\ World
  BY <1>5, OpStepFacts DEF World, Types
<1>6. CASE FilesChange /\ World
  BY <1>6 DEF World, FilesChange, UserWrites, Chmod, Tick
<1>7. CASE UNCHANGED vars
  BY <1>7 DEF vars
<1>8. CASE Answer \/ Die
  BY <1>8 DEF Answer, Die, EndProcess
<1>9. CASE Finish
  <2>1. snapshot = hashcache /\ pc' = "idle" /\ UNCHANGED certificate
    BY <1>9 DEF Finish, EndProcess, Types, Phases, Working
  <2>2. hashcache' \in {hashcache, Merged}
    BY <1>9 DEF Finish, Save
  <2> QED BY <2>1, <2>2 DEF Merged
<1> QED BY <1>1, <1>2, <1>3, <1>4, <1>5, <1>6, <1>7, <1>8, <1>9, NextFacts

\* Whatever triple is remembered, it is older than the file.
LEMMA RememberedStep == Types /\ Types' /\ Remembered /\ [Next]_vars => Remembered'
<1> SUFFICES ASSUME Types, Types', Remembered, [Next]_vars, NEW p \in Paths
             PROVE  /\ hashcache'[p] # None => Before(hashcache'[p].stat, disk'[p], p)
                    /\ updates'[p] \notin {None, Tombstone} => Before(updates'[p].stat, disk'[p], p)
                    /\ op'.stat[p] # None => Before(op'.stat[p], disk'[p], p)
                    /\ certificate' # None /\ certificate'.files[p] # None =>
                          Before(certificate'.files[p], disk'[p], p)
                    /\ pc' \in {"capture", "verify"} /\ evidence'[p] # None =>
                          Before(evidence'[p], disk'[p], p)
  BY DEF Remembered, Older
<1>1. \A s \in Stats : Before(s, disk[p], p) => Before(s, disk'[p], p)
  BY AgesStep DEF Ages
<1>2. /\ hashcache[p] # None => hashcache[p].stat \in Stats /\ Before(hashcache[p].stat, disk[p], p)
      /\ updates[p] \notin {None, Tombstone} =>
            updates[p].stat \in Stats /\ Before(updates[p].stat, disk[p], p)
      /\ op.stat[p] # None => op.stat[p] \in Stats /\ Before(op.stat[p], disk[p], p)
      /\ certificate # None /\ certificate.files[p] # None =>
            certificate.files[p] \in Stats /\ Before(certificate.files[p], disk[p], p)
      /\ pc \in {"capture", "verify"} /\ evidence[p] # None =>
            evidence[p] \in Stats /\ Before(evidence[p], disk[p], p)
  <2>1. /\ hashcache[p] \in Entries \cup {None} /\ updates[p] \in Entries \cup {None, Tombstone}
        /\ op.stat[p] \in Stats \cup {None}
    BY DEF Types, CacheOK, OpOK
  <2>2. certificate # None => certificate.files[p] \in Stats \cup {None}
    BY DEF Types, SavedOK
  <2>3. pc \in {"capture", "verify"} => evidence[p] \in Stats \cup {None}
    BY DEF Types, ProcessOK
  <2>4. \A e \in Entries : e.stat \in Stats
    BY DEF Entries
  <2> QED BY <2>1, <2>2, <2>3, <2>4 DEF Remembered, Older
<1>3. Stat(p) \in Stats /\ Before(Stat(p), disk[p], p)
  <2>1. /\ Stat(p) \in Stats /\ Stat(p)[1] = disk[p].mtime /\ Stat(p)[2] = disk[p].exec
        /\ disk[p].mtime \in Nat
    BY FileFacts, DiskFacts DEF Types, Files
  <2> QED BY <2>1 DEF Before
<1>4. hashcache'[p] # None => Before(hashcache'[p].stat, disk'[p], p)
  BY <1>1, <1>2, SavedStep
<1>5. updates'[p] \notin {None, Tombstone} => Before(updates'[p].stat, disk'[p], p)
  <2>1. CASE OpStep /\ World
    <3>1. Fate(p)
      BY <2>1, OpStepFate
    <3> QED BY <1>1, <1>2, <3>1 DEF Fate
  <2>2. CASE updates'[p] \in {None, Tombstone, updates[p]}
    BY <1>1, <1>2, <2>2
  <2> QED BY <2>1, <2>2, MemoryStep
<1>6. op'.stat[p] # None => Before(op'.stat[p], disk'[p], p)
  <2>1. CASE OpStep /\ World
    <3>1. Fate(p)
      BY <2>1, OpStepFate
    <3> QED BY <1>1, <1>2, <1>3, <3>1 DEF Fate
  <2>2. CASE op'.stat[p] = None \/ UNCHANGED op
    BY <1>1, <1>2, <2>2
  <2> QED BY <2>1, <2>2, MemoryStep
<1>7. certificate' # None /\ certificate'.files[p] # None => Before(certificate'.files[p], disk'[p], p)
  BY <1>1, <1>2, SavedStep
<1>8. pc' \in {"capture", "verify"} /\ evidence'[p] # None => Before(evidence'[p], disk'[p], p)
  BY <1>1, <1>2, <1>3, SavedStep DEF FileIdentity
<1> QED BY <1>4, <1>5, <1>6, <1>7, <1>8
\* A process at work looks up what it has loaded, and what it has found out since;
LEMMA WorkStep ==
    ASSUME Types, [Next]_vars, pc' \in Working, NEW p \in Paths
    PROVE  /\ UNCHANGED lost
           /\ \/ /\ pc \in Working /\ UNCHANGED snapshot
                 /\ updates'[p] \in {Tombstone, updates[p]} \/ (OpStep /\ World)
              \/ pc = "open" /\ snapshot' = hashcache /\ updates'[p] = None /\ UNCHANGED disk
<1> USE DEF cacheVars, disks, memory
<1>1. CASE Start
  BY <1>1 DEF Start, Working, Digesting
<1>2. CASE Open
  BY <1>2 DEF Open, Load
<1>3. CASE Plain
  <2>1. UNCHANGED cacheVars
    BY <1>3, PlainFacts
  <2>2. pc \in Working
    BY <1>3
    DEF Plain, LoadCached, LoadOrCompile, StatTool, HashTool, CommandFails, CheckIdentity, Capture,
        EditManifest, ReplaceTool, Fingerprinted, Working, Digesting
  <2> QED BY <2>1, <2>2
<1>4. CASE Turn
  <2>1. UNCHANGED <<memory, lost>> /\ pc \in Working
    BY <1>4, TurnFacts
  <2> QED BY <2>1
<1>5. CASE Execute
  <2>1. pc = "execute" /\ Forget(Outputs) /\ UNCHANGED <<snapshot, lost>>
    BY <1>5 DEF Execute
  <2> QED BY <2>1 DEF Forget, Working
<1>6. CASE \E bytes \in [Outputs -> Bytes] : Command(bytes)
  BY <1>6 DEF Command, Working
<1>7. CASE Answer \/ Finish \/ Die
  BY <1>7 DEF Answer, Finish, Die, EndProcess, Working, Digesting
<1>8. CASE OpStep /\ World
  BY <1>8, OpStepFacts DEF World, Types
<1>9. CASE FilesChange /\ World
  BY <1>9 DEF World, FilesChange, UserWrites, Chmod, Tick
<1>10. CASE UNCHANGED vars
  BY <1>10 DEF vars
<1> QED BY <1>1, <1>2, <1>3, <1>4, <1>5, <1>6, <1>7, <1>8, <1>9, <1>10, NextFacts DEF Run

\* and the saved cache is what it was, or what was looked up in the end.
LEMMA RestStep ==
    ASSUME Types, [Next]_vars, pc' \in Early, NEW p \in Paths
    PROVE  \/ pc \in Early /\ UNCHANGED <<hashcache, lost>>
           \/ /\ pc \in Working /\ UNCHANGED <<disk, lost>>
              /\ hashcache'[p] # None => Known(p) /\ hashcache'[p] = Lookup(p)
           \/ UNCHANGED <<hashcache, disk>> /\ (p \notin lost' => Exact(hashcache, p))
<1> USE DEF cacheVars, disks, memory
<1>1. CASE Start \/ Open
  BY <1>1 DEF Start, Open, Early
<1>2. CASE Plain
  <2>1. UNCHANGED cacheVars
    BY <1>2, PlainFacts
  <2>2. pc \in Early
    BY <1>2
    DEF Plain, LoadCached, LoadOrCompile, StatTool, HashTool, CommandFails, CheckIdentity, Capture,
        EditManifest, ReplaceTool, Fingerprinted, Early
  <2> QED BY <2>1, <2>2
<1>3. CASE Turn
  BY <1>3, TurnFacts DEF Early
<1>4. CASE Run
  BY <1>4 DEF Run, Execute, Command, Early
<1>5. CASE Answer
  BY <1>5 DEF Answer, EndProcess, Early
<1>6. CASE Die
  BY <1>6 DEF Die, EndProcess, Unseen
<1>7. CASE Finish
  <2>1. /\ snapshot = hashcache /\ UNCHANGED <<disk, lost>> /\ pc = "finish"
        /\ hashcache' = IF \A q \in Paths : updates[q] = None THEN hashcache ELSE Merged
    BY <1>7 DEF Finish, EndProcess, Save, Types, Phases, Working
  <2>2. snapshot[p] \in Entries \cup {None} /\ updates[p] \in Entries \cup {None, Tombstone}
    BY DEF Types, CacheOK
  <2>3. hashcache'[p] # None => hashcache'[p] = Lookup(p) /\ Lookup(p) \in Entries
    BY <2>1, <2>2, ValuesFacts DEF Lookup, Merged
  <2>4. hashcache'[p] # None => Known(p)
    BY <2>3, ValuesFacts DEF Known
  <2> QED BY <2>1, <2>3, <2>4 DEF Working
<1>8. CASE OpStep /\ World
  BY <1>8, OpStepFacts DEF World, Types, Early, Digesting
<1>9. CASE FilesChange /\ World
  BY <1>9 DEF World, FilesChange, UserWrites, Chmod, Tick
<1>10. CASE UNCHANGED vars
  BY <1>10 DEF vars
<1> QED BY <1>1, <1>2, <1>3, <1>4, <1>5, <1>6, <1>7, <1>8, <1>9, <1>10, NextFacts

\* What the cache tells of a file, on disk or in memory, is true.
LEMMA TellsStep == Types /\ Types' /\ Remembered /\ CacheTells /\ [Next]_vars => CacheTells'
<1> SUFFICES ASSUME Types, Types', Remembered, CacheTells, [Next]_vars, NEW p \in Paths
             PROVE  /\ pc' \in Early /\ p \notin lost' /\ hashcache'[p] # None =>
                          Truth(hashcache'[p].stat, hashcache'[p].hash, disk'[p])
                    /\ pc' \in Working /\ p \notin lost' /\ Known(p)' =>
                          Truth(Lookup(p)'.stat, Lookup(p)'.hash, disk'[p])
                    /\ op'.stat[p] # None /\ op'.got[p] # None =>
                          Truth(op'.stat[p], op'.got[p], disk'[p])
  BY DEF CacheTells, Tells
<1>1. Keeps(p) \/ Rewritten(p)
  BY AgesStep
<1>2. Rewritten(p) => /\ pc = "command" /\ pc' = "record" /\ updates[p] = Tombstone
                      /\ op.stat[p] = None /\ op.got[p] = None
  BY NoOpFacts DEF Rewritten, Types, Phases, Digesting
<1>3. /\ hashcache[p] \in Entries \cup {None} /\ snapshot[p] \in Entries \cup {None}
      /\ updates[p] \in Entries \cup {None, Tombstone}
      /\ op.stat[p] \in Stats \cup {None} /\ op.got[p] \in Digests \cup {None, MISSING}
      /\ \A e \in Entries : e.stat \in Stats /\ e.hash \in Digests
  BY DEF Types, CacheOK, OpOK, Entries
<1>4. Known(p) => Lookup(p) \in Entries /\ Before(Lookup(p).stat, disk[p], p)
  <2>1. pc \notin Working => snapshot[p] = None /\ updates[p] = None
    BY DEF Types, Phases, NoMemory
  <2>2. pc \in Working => snapshot = hashcache
    BY DEF Types, Phases
  <2> QED BY <1>3, <2>1, <2>2 DEF Known, Lookup, Remembered, Older
<1>5. op'.stat[p] # None /\ op'.got[p] # None => Truth(op'.stat[p], op'.got[p], disk'[p])
  <2>1. CASE OpStep /\ World
    <3>1. Fate(p) /\ UNCHANGED disk
      BY <2>1, OpStepFate, OpStepFacts DEF Types, disks
    <3>2. Truth(op'.stat[p], Content(p), disk[p])
      BY DEF Truth, Content
    <3> QED BY <3>1, <3>2 DEF Fate, CacheTells, Tells
  <2>2. CASE UNCHANGED op
    BY <1>1, <1>2, <1>3, <2>2 DEF Keeps, Remembered, CacheTells, Older, Tells
  <2> QED BY <2>1, <2>2, MemoryStep
<1>6. ASSUME pc' \in Early, p \notin lost', hashcache'[p] # None
      PROVE  Truth(hashcache'[p].stat, hashcache'[p].hash, disk'[p])
  <2>1. CASE pc \in Early /\ UNCHANGED <<hashcache, lost>>
    <3>1. Keeps(p)
      BY <1>1, <1>2, <2>1 DEF Early
    <3>2. Before(hashcache[p].stat, disk[p], p) /\ Truth(hashcache[p].stat, hashcache[p].hash, disk[p])
      BY <1>6, <2>1 DEF Remembered, CacheTells, Older, Tells
    <3> QED BY <1>3, <1>6, <2>1, <3>1, <3>2 DEF Keeps
  <2>2. CASE /\ pc \in Working /\ UNCHANGED <<disk, lost>>
             /\ hashcache'[p] # None => Known(p) /\ hashcache'[p] = Lookup(p)
    BY <1>6, <2>2 DEF CacheTells, Tells
  <2>3. CASE UNCHANGED <<hashcache, disk>> /\ (p \notin lost' => Exact(hashcache, p))
    <3>1. hashcache[p] \notin {None, Tombstone}
      BY <1>3, <1>6, <2>3, ValuesFacts
    <3> QED BY <1>6, <2>3, <3>1 DEF Exact, Truth, Exists, Stat, Content
  <2> QED BY <1>6, <2>1, <2>2, <2>3, RestStep
<1>7. ASSUME pc' \in Working, p \notin lost', Known(p)'
      PROVE  Truth(Lookup(p)'.stat, Lookup(p)'.hash, disk'[p])
  <2> DEFINE e == IF updates'[p] # None THEN updates'[p] ELSE snapshot'[p]
  <2>1. Lookup(p)' = e /\ e \notin {None, Tombstone}
    BY <1>7 DEF Known, Lookup
  <2> HIDE DEF e
  <2>2. UNCHANGED lost
    BY <1>7, WorkStep
  <2>3. CASE OpStep /\ World
    <3>1. Fate(p) /\ UNCHANGED <<disk, snapshot, pc>> /\ pc \in Working
      BY <2>3, OpStepFate, OpStepFacts DEF Types, disks, World, Working
    <3>2. CASE updates'[p] \in {updates[p], Tombstone}
      <4>1. e = Lookup(p) /\ Known(p)
        BY <2>1, <3>1, <3>2, ValuesFacts DEF e, Lookup, Known
      <4> QED BY <1>7, <2>1, <2>2, <3>1, <4>1 DEF CacheTells, Tells
    <3>3. CASE /\ op.stat[p] # None /\ op.got[p] # None
               /\ updates'[p] = [stat |-> op.stat[p], hash |-> op.got[p]]
      <4>1. op.got[p] \in Digests
        BY <1>3, <3>3 DEF Types, OpOK
      <4>2. updates'[p] \in Entries
        BY <1>3, <3>3, <4>1 DEF Entries
      <4>3. e = [stat |-> op.stat[p], hash |-> op.got[p]]
        BY <3>3, <4>2, ValuesFacts DEF e
      <4> QED BY <2>1, <3>1, <3>3, <4>3 DEF CacheTells, Tells
    <3> QED BY <3>1, <3>2, <3>3 DEF Fate
  <2>4. CASE pc \in Working /\ UNCHANGED snapshot /\ updates'[p] \in {Tombstone, updates[p]}
    <3>1. e = Lookup(p) /\ Known(p) /\ updates[p] # Tombstone
      BY <2>1, <2>4, ValuesFacts DEF e, Lookup, Known
    <3>2. Keeps(p)
      BY <1>1, <1>2, <3>1
    <3>3. Lookup(p).stat \in Stats /\ Lookup(p).hash \in Digests
      BY <1>3, <1>4, <3>1
    <3>4. Before(Lookup(p).stat, disk[p], p) /\ Truth(Lookup(p).stat, Lookup(p).hash, disk[p])
      BY <1>4, <1>7, <2>2, <2>4, <3>1 DEF CacheTells, Tells
    <3> QED BY <2>1, <3>1, <3>2, <3>3, <3>4 DEF Keeps
  <2>5. CASE pc = "open" /\ snapshot' = hashcache /\ updates'[p] = None /\ UNCHANGED disk
    <3>1. e = hashcache[p]
      BY <2>5 DEF e
    <3> QED BY <1>7, <2>1, <2>2, <2>5, <3>1 DEF CacheTells, Tells, Early
  <2> QED BY <1>7, <2>3, <2>4, <2>5, WorkStep
<1> QED BY <1>5, <1>6, <1>7
\* A file has a digest.
LEMMA DigestFacts == \A f \in Files : HashFile(f) \in Digests \cup {MISSING}
BY DEF Files, HashFile, Digests

\* The present digest of a path is one it had during this build, and what it had it
\* keeps having had, but for outputs that the build has just removed.
LEMMA PastStep ==
    ASSUME Types, Types', Recent, [Next]_vars
    PROVE  /\ past' \in [Paths -> SUBSET (Digests \cup {MISSING})]
           /\ \A p \in Paths :
                 /\ pc' # "idle" => HashFile(disk'[p]) \in past'[p]
                 /\ pc # "idle" /\ pc' # "idle" =>
                       past[p] \subseteq past'[p] \/ (pc' = "command" /\ p \in Outputs)
<1> USE DEF cacheVars, disks, memory
<1>1. /\ past \in [Paths -> SUBSET (Digests \cup {MISSING})]
      /\ \A p \in Paths : pc # "idle" => HashFile(disk[p]) \in past[p]
  BY DEF Recent, Content
<1>2. \A p \in Paths : /\ disk[p] \in Files /\ disk'[p] \in Files
                       /\ HashFile(disk[p]) \in Digests \cup {MISSING}
                       /\ HashFile(disk'[p]) \in Digests \cup {MISSING}
  BY GentleStep, DigestFacts
<1>3. CASE UNCHANGED <<disk, past>> /\ (pc # "idle" \/ pc' = "idle")
  BY <1>1, <1>3
<1>4. CASE Start
  BY <1>2, <1>4 DEF Start, Content, Early, Working, Digesting
<1>5. CASE Open
  BY <1>3, <1>5 DEF Open
<1>6. CASE Plain
  <2>1. UNCHANGED cacheVars
    BY <1>6, PlainFacts
  <2>2. pc # "idle" \/ pc' = "idle"
    BY <1>6
    DEF Plain, LoadCached, LoadOrCompile, StatTool, HashTool, CommandFails, CheckIdentity, Capture,
        EditManifest, ReplaceTool, Fingerprinted
  <2> QED BY <1>3, <2>1, <2>2
<1>7. CASE Turn
  <2>1. UNCHANGED <<disk, past>> /\ pc # "idle"
    BY <1>7, TurnFacts DEF Working, Digesting
  <2> QED BY <1>3, <2>1
<1>8. CASE Execute
  <2>1. /\ disk' = [p \in Paths |-> IF p \in Outputs /\ Exists(p)
                   THEN [bytes |-> Absent, exec |-> FALSE, mtime |-> clock] ELSE disk[p]]
        /\ past' = [p \in Paths |-> IF p \in Outputs THEN {MISSING} ELSE past[p]]
        /\ pc = "execute" /\ pc' = "command"
    BY <1>8 DEF Execute
  <2>2. \A p \in Outputs : HashFile(disk'[p]) = MISSING
    BY <2>1, ValuesFacts DEF HashFile, Exists
  <2> QED BY <1>1, <2>1, <2>2
<1>9. CASE \E bytes \in [Outputs -> Bytes] : Command(bytes)
  <2>1. past' = [p \in Paths |-> past[p] \cup {HashFile(disk'[p])}] /\ pc' = "record"
    BY <1>9 DEF Command
  <2> QED BY <1>1, <1>2, <2>1
<1>10. CASE Answer \/ Finish \/ Die
  BY <1>10 DEF Answer, Finish, Die, EndProcess
<1>11. CASE OpStep /\ World
  <2>1. UNCHANGED <<disk, past, pc>>
    BY <1>11, OpStepFacts DEF World, Types
  <2> QED BY <1>3, <2>1
<1>12. ASSUME NEW q \in Paths, NEW f \in Files, Put(q, f), UNCHANGED pc
       PROVE  /\ past' \in [Paths -> SUBSET (Digests \cup {MISSING})]
              /\ \A p \in Paths : /\ pc' # "idle" => HashFile(disk'[p]) \in past'[p]
                                  /\ pc # "idle" => past[p] \subseteq past'[p]
  <2>1. HashFile(f) \in Digests \cup {MISSING}
    BY DigestFacts
  <2>2. past' \in [Paths -> SUBSET (Digests \cup {MISSING})]
    BY <1>1, <1>12, <2>1 DEF Put
  <2>3. \A p \in Paths : disk'[p] = IF p = q THEN f ELSE disk[p]
    BY <1>12 DEF Put, Types, CacheOK
  <2>4. pc # "idle" => /\ past[q] # {}
                       /\ \A p \in Paths : past'[p] = IF p = q THEN past[q] \cup {HashFile(f)} ELSE past[p]
    BY <1>1, <1>12 DEF Put
  <2> QED BY <1>1, <1>12, <2>2, <2>3, <2>4
<1>13. CASE FilesChange /\ World
  <2>1. UNCHANGED pc
    BY <1>13 DEF World
  <2>2. CASE Tick
    BY <1>3, <2>1, <2>2 DEF Tick
  <2>3. CASE \E q \in Paths, b \in Bytes \cup {Absent} : UserWrites(q, b)
    <3>1. PICK q \in Paths, b \in Bytes \cup {Absent} : UserWrites(q, b)
      BY <2>3
    <3>2. [bytes |-> b, exec |-> FALSE, mtime |-> clock] \in Files
      BY DiskFacts DEF Files, Types
    <3>3. Put(q, [bytes |-> b, exec |-> FALSE, mtime |-> clock])
      BY <3>1 DEF UserWrites
    <3> QED BY <1>12, <2>1, <3>2, <3>3
  <2>4. CASE \E q \in Sources : Chmod(q)
    <3>1. PICK q \in Sources : Chmod(q)
      BY <2>4
    <3>2. q \in Paths
      BY ValuesFacts
    <3>3. [disk[q] EXCEPT !.exec = TRUE] \in Files
      BY <1>2, <3>2 DEF Files
    <3>4. Put(q, [disk[q] EXCEPT !.exec = TRUE])
      BY <3>1 DEF Chmod
    <3> QED BY <1>12, <2>1, <3>2, <3>3, <3>4
  <2> QED BY <1>13, <2>2, <2>3, <2>4 DEF FilesChange
<1>14. CASE UNCHANGED vars
  BY <1>3, <1>14 DEF vars
<1> QED
  BY <1>4, <1>5, <1>6, <1>7, <1>8, <1>9, <1>10, <1>11, <1>13, <1>14, NextFacts DEF Run

\* What the preflight has found is what the journal says.
LEMMA FoundStep ==
    ASSUME Types, [Next]_vars, pc' \in {"capture", "verify"}
    PROVE  /\ UNCHANGED journal
           /\ \/ pc \in {"capture", "verify"}
              \/ pc = "preflight" /\ \A p \in Paths : op.got[p] = journal.files[p] /\ op.got[p] # None
<1> USE DEF saved
<1>1. CASE Start \/ Open
  BY <1>1 DEF Start, Open
<1>2. CASE Plain
  BY <1>2
  DEF Plain, LoadCached, LoadOrCompile, StatTool, HashTool, CommandFails, CheckIdentity, Capture,
      EditManifest, ReplaceTool, Fingerprinted
<1>3. CASE Turn
  <2>1. CASE Preflight
    <3>1. pc = "preflight" /\ Recorded /\ UNCHANGED journal
      BY <2>1 DEF Preflight
    <3> QED BY <3>1 DEF Recorded, Types, OpOK, Target
  <2>2. CASE CaptureGraph
    BY <2>2 DEF CaptureGraph
  <2>3. CASE Certify \/ Keyed \/ Intact \/ Record
    BY <2>3 DEF Certify, Keyed, Intact, Record
  <2> QED BY <1>3, <2>1, <2>2, <2>3 DEF Turn
<1>4. CASE Run
  BY <1>4 DEF Run, Execute, Command
<1>5. CASE Answer \/ Finish \/ Die
  BY <1>5 DEF Answer, Finish, Die, EndProcess
<1>6. CASE World
  BY <1>6 DEF World
<1>7. CASE UNCHANGED vars
  BY <1>7 DEF vars
<1> QED BY <1>1, <1>2, <1>3, <1>4, <1>5, <1>6, <1>7, NextFacts
\* Digests a build has come by are of this build.
LEMMA RecentStep == Types /\ Types' /\ CacheTells /\ Recent /\ [Next]_vars => Recent'
<1> SUFFICES ASSUME Types, Types', CacheTells, Recent, [Next]_vars, NEW p \in Paths
             PROVE  p \notin lost' =>
                       /\ settled'[p] # None => settled'[p] \in past'[p]
                       /\ op'.got[p] # None => op'.got[p] \in past'[p]
                       /\ pc' \in {"capture", "verify"} => journal'.files[p] \in past'[p]
  BY PastStep DEF Recent, Content
<1>1. CASE pc' \in Early
  <2>1. settled'[p] = None /\ op'.got[p] = None
    BY <1>1, NoOpFacts DEF Types, Phases, NoMemory, Early, Digesting
  <2> QED BY <1>1, <2>1 DEF Early
<1>2. ASSUME pc' \in Working, p \notin lost'
      PROVE  /\ settled'[p] # None => settled'[p] \in past'[p]
             /\ op'.got[p] # None => op'.got[p] \in past'[p]
             /\ pc' \in {"capture", "verify"} => journal'.files[p] \in past'[p]
  <2>1. p \notin lost /\ pc' # "idle"
    BY <1>2, WorkStep DEF Working, Digesting
  <2>2. /\ settled[p] # None => settled[p] \in past[p]
        /\ op.got[p] # None => op.got[p] \in past[p]
        /\ pc \in {"capture", "verify"} => journal.files[p] \in past[p]
        /\ pc # "idle" => Content(p) \in past[p]
    BY <2>1 DEF Recent
  <2>3. CASE OpStep /\ World
    <3>1. Fate(p) /\ UNCHANGED <<past, pc, journal>> /\ pc \in Working /\ pc # "idle"
      BY <2>3, OpStepFate, OpStepFacts DEF Types, World, saved, Working, Digesting
    <3>2. Fresh(p) => Lookup(p).hash = Content(p)
      BY <2>1, <3>1 DEF Fresh, CacheTells, Tells, Truth, Exists, Stat, Content
    <3> QED BY <2>2, <3>1, <3>2 DEF Fate
  <2>4. CASE pc = "open" /\ ~(OpStep /\ World)
    <3>1. settled'[p] = None /\ op'.got[p] = None
      BY <2>4, MemoryStep, NoOpFacts DEF Types, Phases, NoMemory, Early, Digesting
    <3>2. pc' \notin {"capture", "verify"}
      BY <2>4, FoundStep
    <3> QED BY <3>1, <3>2
  <2>5. CASE pc \in Working /\ ~(OpStep /\ World)
    <3>1. /\ settled'[p] \in {None, settled[p]} /\ op'.got[p] \in {None, op.got[p]}
      BY <2>5, MemoryStep
    <3>2. past[p] \subseteq past'[p] \/ (pc' = "command" /\ p \in Outputs)
      BY <2>1, <2>5, PastStep DEF Working, Digesting
    <3>3. CASE pc' = "command" /\ p \in Outputs
      <4>1. settled'[p] = None /\ op'.got[p] = None
        BY <3>3, NoOpFacts DEF Types, Phases, Digesting
      <4> QED BY <3>3, <4>1
    <3>4. CASE past[p] \subseteq past'[p]
      BY <2>2, <3>1, <3>4, FoundStep
    <3> QED BY <3>2, <3>3, <3>4
  <2> QED BY <1>2, <2>3, <2>4, <2>5, WorkStep
<1>3. pc' \in Early \cup Working
  BY DEF Types, Phases
<1> QED BY <1>1, <1>2, <1>3

\* So it is to begin with.
LEMMA InitCache == Init => CacheInv
<1> SUFFICES ASSUME Init PROVE CacheInv
  OBVIOUS
<1> USE DEF Init, CacheInit, NoMemory
<1>1. op.stat = [p \in Paths |-> None] /\ op.got = [p \in Paths |-> None]
  BY DEF NoOp
<1>2. Remembered
  BY <1>1 DEF Remembered
<1>3. CacheTells
  BY <1>1 DEF CacheTells, Working, Digesting
<1>4. Recent
  BY <1>1 DEF Recent
<1> QED BY <1>2, <1>3, <1>4 DEF CacheInv

\* What is remembered of files outside `lost` is older than they are, true, and of
\* this build.
THEOREM CacheInvariant == Spec => [](Types /\ CacheInv)
<1>1. Types /\ CacheInv /\ [Next]_vars => Types' /\ CacheInv'
  BY StepTypes, RememberedStep, TellsStep, RecentStep DEF CacheInv
<1> QED BY <1>1, InitTypes, InitCache, PTL DEF Spec

\* CacheIsTrue: no entry on disk tells an old digest for new, save for files whose
\* rewriting a process did not live to record, and whatever a build has settled on
\* the file was during this build.
THEOREM CacheIsTrueHolds == Spec => []CacheIsTrue
<1>1. Types /\ CacheInv => CacheIsTrue
  <2> SUFFICES ASSUME Types, CacheInv PROVE CacheIsTrue
    OBVIOUS
  <2>1. SavedEntriesAreExact
    <3> SUFFICES ASSUME pc = "idle", NEW p \in Paths \ lost, hashcache[p] # None, Exists(p),
                        hashcache[p].stat = Stat(p)
                 PROVE  hashcache[p].hash = Content(p)
      BY DEF SavedEntriesAreExact, Exact
    <3> QED BY DEF CacheInv, CacheTells, Tells, Truth, Exists, Stat, Content, Early
  <2>2. SettledIsRecent
    BY DEF CacheInv, Recent, SettledIsRecent
  <2> QED BY <2>1, <2>2 DEF CacheIsTrue
<1> QED BY <1>1, CacheInvariant, PTL
-----------------------------------------------------------------------------
(* The certificate.                                                        *)

\* The second look comes after the capture.
LEMMA LookStep ==
    ASSUME Types, [Next]_vars, pc' = "verify", NEW p \in Paths
    PROVE  \/ op'.got[p] = None
           \/ /\ pc = "verify" /\ UNCHANGED evidence
              /\ UNCHANGED op \/ (OpStep /\ World)
<1> USE DEF cacheVars, process
<1>1. CASE Start \/ Open
  BY <1>1 DEF Start, Open
<1>2. CASE Plain
  <2>1. UNCHANGED op
    BY <1>2, PlainFacts
  <2> QED BY <1>2, <2>1
      DEF Plain, LoadCached, LoadOrCompile, StatTool, HashTool, CommandFails, CheckIdentity, Capture,
          EditManifest, ReplaceTool, Fingerprinted
<1>3. CASE Turn
  <2>1. CaptureGraph /\ BeginOp("match", Paths)
    BY <1>3 DEF Turn, Preflight, CaptureGraph, Certify, Keyed, Intact, Record
  <2> QED BY <2>1 DEF BeginOp, NoOp
<1>4. CASE Run
  BY <1>4 DEF Run, Execute, Command
<1>5. CASE Answer \/ Finish \/ Die
  BY <1>5 DEF Answer, Finish, Die, EndProcess
<1>6. CASE OpStep /\ World
  BY <1>6 DEF World
<1>7. CASE FilesChange /\ World
  BY <1>7 DEF World, FilesChange, UserWrites, Chmod, Tick
<1>8. CASE UNCHANGED vars
  BY <1>8 DEF vars
<1> QED BY <1>1, <1>2, <1>3, <1>4, <1>5, <1>6, <1>7, <1>8, NextFacts

\* So a file that still has the captured identity has the digest of the second look.
LEMMA SecondLookStep ==
    Types /\ Types' /\ Remembered /\ CacheTells /\ SecondLook /\ [Next]_vars => SecondLook'
<1> SUFFICES ASSUME Types, Types', Remembered, CacheTells, SecondLook, [Next]_vars, pc' = "verify",
                    NEW p \in Paths \ lost', op'.got[p] # None, evidence'[p] # None
             PROVE  Truth(evidence'[p], op'.got[p], disk'[p])
  BY DEF SecondLook, Tells
<1>1. /\ pc = "verify" /\ UNCHANGED evidence
      /\ UNCHANGED op \/ (OpStep /\ World)
  BY LookStep
<1>2. p \in Paths \ lost
  BY WorkStep DEF Working, Digesting
<1>3. evidence[p] \in Stats /\ Before(evidence[p], disk[p], p)
  BY <1>1, <1>2 DEF Types, ProcessOK, Remembered, Older
<1>4. CASE UNCHANGED op
  <2>1. op.got[p] \in Digests \cup {MISSING} /\ Truth(evidence[p], op.got[p], disk[p])
    BY <1>1, <1>2, <1>4 DEF SecondLook, Tells, Types, OpOK
  <2>2. Keeps(p)
    BY <1>1, <1>2, AgesStep DEF Rewritten
  <2> QED BY <1>1, <1>3, <1>4, <2>1, <2>2 DEF Keeps
<1>5. CASE OpStep /\ World
  <2>1. Fate(p) /\ UNCHANGED disk /\ op.kind # "digest"
    BY <1>1, <1>2, <1>5, OpStepFate, OpStepFacts DEF Types, Phases, disks
  <2>2. Fresh(p) => Lookup(p).hash = Content(p)
    BY <1>1, <1>2 DEF Fresh, CacheTells, Tells, Truth, Exists, Stat, Content, Working, Digesting
  <2>3. Truth(evidence[p], Content(p), disk[p])
    BY DEF Truth, Content
  <2> QED BY <1>1, <1>2, <2>1, <2>2, <2>3 DEF Fate, SecondLook, Tells
<1> QED BY <1>1, <1>4, <1>5

\* When a certificate is written, and when it outlives what it certified.
LEMMA CertificateStep ==
    ASSUME Types, [Next]_vars, ~outlived'
    PROVE  \/ UNCHANGED certificate /\ ~outlived /\ ~\E p \in Paths : Rewritten(p)
           \/ /\ UNCHANGED certificate /\ ~outlived
              /\ \E bytes \in [Outputs -> Bytes] : Command(bytes)
           \/ Certify /\ Verified
<1> USE DEF saved, observers
<1>1. CASE Start \/ Open
  BY <1>1 DEF Start, Open, Rewritten
<1>2. CASE Plain
  BY <1>2
  DEF Plain, LoadCached, LoadOrCompile, StatTool, HashTool, CommandFails, CheckIdentity, Capture,
      EditManifest, ReplaceTool, Fingerprinted, Rewritten
<1>3. CASE Turn
  <2>1. CASE Certify
    BY <2>1 DEF Certify, Rewritten
  <2>2. CASE Preflight \/ CaptureGraph
    BY <2>2 DEF Preflight, CaptureGraph, Rewritten
  <2>3. CASE Keyed \/ Intact \/ Record
    BY <2>3 DEF Keyed, Intact, Record, Rewritten
  <2> QED BY <1>3, <2>1, <2>2, <2>3 DEF Turn
<1>4. CASE Execute
  BY <1>4 DEF Execute, Rewritten
<1>5. CASE \E bytes \in [Outputs -> Bytes] : Command(bytes)
  BY <1>5 DEF Command
<1>6. CASE Answer \/ Finish \/ Die
  BY <1>6 DEF Answer, Finish, Die, EndProcess, Rewritten
<1>7. CASE World
  BY <1>7 DEF World, Rewritten
<1>8. CASE UNCHANGED vars
  BY <1>8 DEF vars, Rewritten
<1> QED BY <1>1, <1>2, <1>3, <1>4, <1>5, <1>6, <1>7, <1>8, NextFacts DEF Run

\* Lost is lost.
LEMMA LostStep ==
    ASSUME Types, [Next]_vars
    PROVE  lost \subseteq lost' /\ (pc' # "idle" => UNCHANGED lost)
<1> USE DEF cacheVars
<1>1. CASE Start \/ Open
  BY <1>1 DEF Start, Open
<1>2. CASE Plain
  BY <1>2, PlainFacts
<1>3. CASE Turn
  BY <1>3, TurnFacts
<1>4. CASE Run
  BY <1>4 DEF Run, Execute, Command
<1>5. CASE Answer \/ Finish \/ Die
  BY <1>5 DEF Answer, Finish, Die, EndProcess
<1>6. CASE OpStep
  BY <1>6, OpStepFacts DEF Types
<1>7. CASE FilesChange
  BY <1>7 DEF FilesChange, UserWrites, Chmod, Tick
<1>8. CASE UNCHANGED vars
  BY <1>8 DEF vars
<1> QED BY <1>1, <1>2, <1>3, <1>4, <1>5, <1>6, <1>7, <1>8, NextFacts

\* A file that has its certified identity has the digest that was checked.
LEMMA VouchesStep ==
    Types /\ Types' /\ Remembered /\ SecondLook /\ Vouches /\ [Next]_vars => Vouches'
<1> SUFFICES ASSUME Types, Types', Remembered, SecondLook, Vouches, [Next]_vars, certificate' # None,
                    ~outlived', NEW p \in Paths \ lost', certificate'.files[p] # None
             PROVE  Truth(certificate'.files[p], certificate'.digests[p], disk'[p])
  BY DEF Vouches, Tells
<1>1. p \in Paths \ lost
  BY LostStep
<1>2. ASSUME UNCHANGED certificate, ~outlived
      PROVE  /\ certificate.files[p] \in Stats /\ certificate.digests[p] \in Digests \cup {MISSING}
             /\ Before(certificate.files[p], disk[p], p)
             /\ Truth(certificate.files[p], certificate.digests[p], disk[p])
  BY <1>1, <1>2 DEF Types, SavedOK, Remembered, Older, Vouches, Tells
<1>3. CASE UNCHANGED certificate /\ ~outlived /\ ~\E q \in Paths : Rewritten(q)
  <2>1. Keeps(p)
    BY <1>1, <1>3, AgesStep
  <2> QED BY <1>2, <1>3, <2>1 DEF Keeps
<1>4. CASE /\ UNCHANGED certificate /\ ~outlived
           /\ \E bytes \in [Outputs -> Bytes] : Command(bytes)
  <2>1. CASE p \in Outputs
    <3>1. ~(/\ certificate.files[p] = StatTriple(disk'[p])
            /\ certificate.digests[p] # HashFile(disk'[p]))
      BY <1>4, <2>1 DEF Command
    <3> QED BY <1>4, <3>1 DEF Truth
  <2>2. CASE p \notin Outputs
    <3>1. Keeps(p)
      BY <1>1, <2>2, AgesStep DEF Rewritten
    <3> QED BY <1>2, <1>4, <3>1 DEF Keeps
  <2> QED BY <2>1, <2>2
<1>5. CASE Certify /\ Verified
  <2>1. /\ pc = "verify" /\ op.kind = "done" /\ op.got[p] = journal.files[p]
        /\ certificate'.files = evidence /\ certificate'.digests = journal.files
    BY <1>1, <1>5 DEF Certify, Verified, Recorded
  <2>2. op.got[p] # None
    BY <1>1, <2>1 DEF Types, OpOK, Target
  <2>3. UNCHANGED disk
    BY <1>5, TurnFacts DEF Turn
  <2> QED BY <1>1, <2>1, <2>2, <2>3 DEF SecondLook, Tells
<1> QED BY <1>3, <1>4, <1>5, CertificateStep
\* How the files of a certificate are looked at.
LEMMA HitStep ==
    ASSUME Types, [Next]_vars, pc' \in {"identities", "hit"}
    PROVE  /\ UNCHANGED <<certificate, outlived>>
           /\ \/ pc' = "identities" /\ env' = certificate.env /\ todo' = Paths
              \/ pc' = pc /\ UNCHANGED <<env, todo>>
              \/ /\ pc = "identities" /\ UNCHANGED <<env, disk, past>>
                 /\ pc' = "hit" => todo' = {}
                 /\ \E p \in Paths : todo' = todo \ {p} /\ FileIdentity(p) = certificate.files[p]
<1> USE DEF cacheVars, disks, process, saved, observers
<1>1. CASE Start \/ Open
  BY <1>1 DEF Start, Open
<1>2. CASE StatTool \/ HashTool
  <2>1. PICK f : Fingerprinted(f) /\ UNCHANGED <<certificate, outlived>>
    BY <1>2 DEF StatTool, HashTool
  <2> QED BY <2>1 DEF Fingerprinted
<1>3. CASE \E p \in Paths : CheckIdentity(p)
  <2>1. PICK p \in Paths : CheckIdentity(p)
    BY <1>3
  <2>2. pc' = "hit" => todo = {p}
    BY <2>1 DEF CheckIdentity
  <2> QED BY <2>1, <2>2 DEF CheckIdentity
<1>4. CASE LoadCached \/ LoadOrCompile \/ CommandFails \/ \E p \in Paths : Capture(p)
  BY <1>4 DEF LoadCached, LoadOrCompile, CommandFails, Capture
<1>5. CASE (\E v \in Manifests : EditManifest(v)) \/ (\E b \in Tools : ReplaceTool(b))
  BY <1>5 DEF EditManifest, ReplaceTool
<1>6. CASE Turn
  BY <1>6, TurnFacts
<1>7. CASE Run
  BY <1>7 DEF Run, Execute, Command
<1>8. CASE Answer \/ Finish \/ Die
  BY <1>8 DEF Answer, Finish, Die, EndProcess
<1>9. CASE World
  BY <1>9 DEF World
<1>10. CASE UNCHANGED vars
  BY <1>10 DEF vars
<1> QED
  BY <1>1, <1>2, <1>3, <1>4, <1>5, <1>6, <1>7, <1>8, <1>9, <1>10, NextFacts DEF Plain

\* Whatever has been looked at was, at that moment, what had been checked.
LEMMA CheckedStep == Types /\ Types' /\ Recent /\ Vouches /\ Checked /\ [Next]_vars => Checked'
<1> SUFFICES ASSUME Types, Types', Recent, Vouches, Checked, [Next]_vars, pc' \in {"identities", "hit"}
             PROVE  /\ env' = certificate'.env
                    /\ pc' = "hit" => todo' = {}
                    /\ ~outlived' =>
                          \A p \in Paths \ (todo' \cup lost') :
                              ~CapturedAway(p)' => certificate'.digests[p] \in past'[p]
  BY DEF Checked
<1>1. UNCHANGED <<certificate, outlived, lost>>
  BY HitStep, LostStep
<1>2. \A p \in Paths : CapturedAway(p)' <=> certificate.files[p] = None /\ certificate.digests[p] # MISSING
  BY <1>1 DEF CapturedAway
<1>3. CASE pc' = "identities" /\ env' = certificate.env /\ todo' = Paths
  BY <1>1, <1>3
<1>4. CASE pc' = pc /\ UNCHANGED <<env, todo>>
  <2>1. \A p \in Paths : past[p] \subseteq past'[p]
    BY <1>4, PastStep
  <2> QED BY <1>1, <1>2, <1>4, <2>1 DEF Checked, CapturedAway
<1>5. CASE /\ pc = "identities" /\ UNCHANGED <<env, disk, past>>
           /\ pc' = "hit" => todo' = {}
           /\ \E p \in Paths : todo' = todo \ {p} /\ FileIdentity(p) = certificate.files[p]
  <2>1. PICK p \in Paths : todo' = todo \ {p} /\ FileIdentity(p) = certificate.files[p]
    BY <1>5
  <2>2. /\ certificate # None /\ Stat(p) # None
        /\ certificate.digests[p] \in Digests \cup {MISSING}
        /\ ~Exists(p) => Content(p) = MISSING
    <3>1. graph = None
      BY <1>5 DEF Types, ProcessOK
    <3>2. certificate # None /\ certificate.digests \in [Paths -> Digests \cup {MISSING}]
      BY <1>5, <3>1 DEF Types, SavedOK
    <3>3. Stat(p) # None /\ (~Exists(p) => Content(p) = MISSING)
      BY FileFacts, ValuesFacts DEF Types
    <3> QED BY <3>2, <3>3
  <2>3. ASSUME ~outlived, p \notin lost, ~CapturedAway(p) PROVE certificate.digests[p] = Content(p)
    <3>1. CASE Exists(p)
      BY <2>1, <2>2, <2>3, <3>1
      DEF FileIdentity, Vouches, Tells, Truth, Exists, Stat, Content
    <3>2. CASE ~Exists(p)
      BY <2>1, <2>2, <2>3, <3>2 DEF FileIdentity, CapturedAway
    <3> QED BY <3>1, <3>2
  <2>4. Content(p) \in past[p]
    BY <1>5 DEF Recent
  <2>5. ~outlived => \A q \in Paths \ (todo \cup lost) :
            ~CapturedAway(q) => certificate.digests[q] \in past[q]
    BY <1>5 DEF Checked
  <2>6. ~outlived => \A q \in Paths \ (todo' \cup lost) :
            ~CapturedAway(q) => certificate.digests[q] \in past[q]
    BY <2>1, <2>3, <2>4, <2>5
  <2> QED BY <1>1, <1>2, <1>5, <2>6 DEF Checked, CapturedAway
<1> QED BY <1>3, <1>4, <1>5, HitStep

\* What a certificate vouches for.
CertificateInv == SecondLook /\ Vouches /\ Checked

\* While a certificate is made, kept and checked, the identities of files that were
\* there stand for digests, unless frost has rewritten one since, within the granule
\* of its certified version (outlived) or in a build that died (lost).
THEOREM CertificateInvariant == Spec => [](Types /\ CacheInv /\ CertificateInv)
<1>1. Init => CertificateInv
  BY DEF Init, CertificateInv, SecondLook, Vouches, Checked
<1>2. Types /\ CacheInv /\ CertificateInv /\ Types' /\ [Next]_vars => CertificateInv'
  BY SecondLookStep, VouchesStep, CheckedStep DEF CacheInv, CertificateInv
<1> QED BY <1>1, <1>2, CacheInvariant, PTL DEF Spec

\* UpToDateIsTrue: neither the preflight nor a certificate calls up to date what
\* was not so at any moment of the answering, but for the exceptions that HitIsSound
\* names: outputs rewritten within one granule of the clock (outlived), files captured
\* away, and files rewritten by a build that died (lost).
THEOREM UpToDateIsTrueHolds == Spec => []UpToDateIsTrue
<1>1. Spec => []ToolsInv
  BY InitTypes, StepTypes, ToolsStep, InitStamps, PTL DEF Spec
<1>2. Types /\ CacheInv /\ CertificateInv /\ ToolsInv => UpToDateIsTrue
  <2> SUFFICES ASSUME Types, CacheInv, CertificateInv, ToolsInv PROVE UpToDateIsTrue
    OBVIOUS
  <2>1. CachedIsExact
    BY DEF CacheInv, Recent, CachedIsExact
  <2>2. HitIsSound
    <3> SUFFICES ASSUME pc = "hit", ~outlived
                 PROVE  /\ certificate.env \in tools
                        /\ \A p \in Paths \ lost :
                              ~CapturedAway(p) => certificate.digests[p] \in past[p]
      BY DEF HitIsSound
    <3>1. env # None /\ env = certificate.env /\ todo = {}
      BY DEF Types, ProcessOK, CertificateInv, Checked
    <3> QED BY <3>1 DEF ToolsInv, CertificateInv, Checked
  <2> QED BY <2>1, <2>2 DEF UpToDateIsTrue
<1> QED BY <1>1, <1>2, CertificateInvariant, PTL

=============================================================================
