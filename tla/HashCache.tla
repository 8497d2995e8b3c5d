------------------------------ MODULE HashCache ------------------------------
(***************************************************************************)
(* The digest cache (crates/frostbuild-core/src/hashcache.rs): digests of  *)
(* files, kept across builds, believed as long as a file's stat triple is  *)
(* the one it was hashed under.  FastNoop runs builds over these actions.  *)
(*                                                                         *)
(* Time passes in the granules of the file system's timestamps.  All       *)
(* contents have one length and a file keeps its inode, so that of the     *)
(* triple only the time and the executable bits tell versions apart: the   *)
(* worst case.  What users write is told apart by its time (UserWrites);   *)
(* what commands write need not be: that is the cache's own business.      *)
(*                                                                         *)
(* A digest stands for what it is a digest of.  Steps of one path are      *)
(* separate, and paths interleave in any order, as in rayon's parallel     *)
(* iterators.  The locks inside the cache order what the scheduler has     *)
(* already ordered and are left out.                                       *)
(***************************************************************************)
EXTENDS Naturals, FiniteSets

CONSTANTS
    Paths,          \* the files of the workspace
    Bytes,          \* contents, all of one length
    Absent,         \* no content: there is no file
    MISSING,        \* the digest of an absent file
    None, Tombstone,
    MaxClock        \* bound on time

Stats == (0..MaxClock) \X BOOLEAN
Digests == Bytes \X BOOLEAN
Entries == [stat : Stats, hash : Digests]

ASSUME ValuesAssumption ==
    /\ Absent \notin Bytes /\ None # Tombstone
    /\ MaxClock \in Nat
    /\ MISSING \notin Digests
    /\ \A v \in {None, Tombstone} : v \notin Stats \cup Digests \cup {MISSING} \cup Entries

VARIABLES
    disk,       \* every file: [bytes, exec, mtime]; mtime is also a deletion's
    clock,      \* the present granule
    hashcache,  \* .frost/hashcache.bin: an entry [stat, hash] per path
    snapshot,   \* what a process has loaded of it
    updates,    \* entries and tombstones of this process
    settled,    \* digests established in this build
    op,         \* the digest_many or matches_many under way
    \* Observers:
    past,       \* digests a path had since the process began or removed it
    lost        \* paths frost rewrote without the cache having been saved since

disks == <<disk, clock>>
memory == <<snapshot, updates, settled>>
cacheVars == <<disks, hashcache, memory, op, past, lost>>

Exists(p) == disk[p].bytes # Absent

\* Mutant: the mode is no part of the identity.
Mut_TimeOnly(f) == <<f.mtime, FALSE>>
StatTriple(f) == <<f.mtime, f.exec>>
\* hash_file mixes the executable bit into the digest.
HashFile(f) == IF f.bytes = Absent THEN MISSING ELSE <<f.bytes, f.exec>>
Stat(p) == StatTriple(disk[p])
Content(p) == HashFile(disk[p])

NoMemory ==
    /\ snapshot = [p \in Paths |-> None]
    /\ updates = [p \in Paths |-> None]
    /\ settled = [p \in Paths |-> None]

NoOp == [kind |-> "none", todo |-> {}, stat |-> [p \in Paths |-> None],
         got |-> [p \in Paths |-> None]]

CacheInit ==
    /\ disk \in [Paths -> [bytes : Bytes \cup {Absent}, exec : {FALSE}, mtime : {0}]]
    /\ clock = 0
    /\ hashcache = [p \in Paths |-> None]
    /\ NoMemory
    /\ op = NoOp
    /\ past = [p \in Paths |-> {}]
    /\ lost = {}

-----------------------------------------------------------------------------
(* The file system                                                         *)

Put(p, f) ==
    /\ disk' = [disk EXCEPT ![p] = f]
    /\ past' = IF past[p] = {} THEN past ELSE [past EXCEPT ![p] = @ \cup {HashFile(f)}]

\* The user writes or removes a file: later than it last changed.
UserWrites(p, b) ==
    /\ clock > disk[p].mtime /\ b # disk[p].bytes
    /\ Put(p, [bytes |-> b, exec |-> FALSE, mtime |-> clock])
    /\ UNCHANGED <<clock, hashcache, memory, op, lost>>

\* chmod does not touch the modification time.  A version's mode changes once, so
\* that no triple of the users' making ever comes back.
Chmod(p) ==
    /\ Exists(p) /\ ~disk[p].exec
    /\ Put(p, [disk[p] EXCEPT !.exec = TRUE])
    /\ UNCHANGED <<clock, hashcache, memory, op, lost>>

Tick ==
    /\ clock < MaxClock
    /\ clock' = clock + 1
    /\ UNCHANGED <<disk, hashcache, memory, op, past, lost>>

-----------------------------------------------------------------------------
(* A process's cache                                                       *)

\* HashCache::load
Load ==
    /\ snapshot' = hashcache
    /\ updates' = [p \in Paths |-> None]
    /\ settled' = [p \in Paths |-> None]

Lookup(p) == IF updates[p] # None THEN updates[p] ELSE snapshot[p]
Known(p) == Lookup(p) \notin {None, Tombstone}
Fresh(p) == Exists(p) /\ Known(p) /\ Lookup(p).stat = Stat(p)

\* Mutant: forgetting drops the update, and the snapshot shows through again.
Mut_ForgetUpdates(paths) ==
    /\ updates' = [p \in Paths |-> IF p \in paths THEN None ELSE updates[p]]
    /\ settled' = [p \in Paths |-> IF p \in paths THEN None ELSE settled[p]]
\* HashCache::forget leaves a tombstone in front of the snapshot.
Forget(paths) ==
    /\ updates' = [p \in Paths |-> IF p \in paths THEN Tombstone ELSE updates[p]]
    /\ settled' = [p \in Paths |-> IF p \in paths THEN None ELSE settled[p]]

\* HashCache::save merges the updates into the snapshot and replaces the file.
Merged ==
    [p \in Paths |-> CASE updates[p] = None -> snapshot[p]
                       [] updates[p] = Tombstone -> None
                       [] OTHER -> updates[p]]

Save ==
    hashcache' = IF \A p \in Paths : updates[p] = None THEN hashcache ELSE Merged

BeginOp(kind, paths) ==
    op' = [NoOp EXCEPT !.kind = kind, !.todo = paths]

Got(p, d) == op' = [op EXCEPT !.todo = @ \ {p}, !.got[p] = d]
Unchanged == UNCHANGED <<disks, hashcache, snapshot, past, lost>>

\* A digest established in this build is not looked up again.
LookSettled(p) ==
    /\ op.kind = "digest" /\ p \in op.todo
    /\ settled[p] # None
    /\ Got(p, settled[p])
    /\ UNCHANGED <<updates, settled>> /\ Unchanged

Unsettled(p) == p \in op.todo /\ (op.kind = "digest" => settled[p] = None)

\* Mutant: a missing file is settled like any other.
Mut_SettleMissing(p) ==
    /\ Unsettled(p) /\ ~Exists(p)
    /\ Got(p, MISSING)
    /\ settled' = [settled EXCEPT ![p] = MISSING]
    /\ UNCHANGED updates /\ Unchanged
\* A missing file is MISSING, is never settled, and loses its entry when it is
\* digested (not when it is matched).
LookMissing(p) ==
    /\ Unsettled(p) /\ ~Exists(p)
    /\ Got(p, MISSING)
    /\ IF op.kind = "digest" /\ Known(p) THEN Forget({p}) ELSE UNCHANGED <<updates, settled>>
    /\ Unchanged

\* The triple is the one of the entry: its digest is believed.
LookFresh(p) ==
    /\ Unsettled(p) /\ Fresh(p)
    /\ Got(p, Lookup(p).hash)
    /\ settled' = IF op.kind = "digest" THEN [settled EXCEPT ![p] = Lookup(p).hash]
                  ELSE settled
    /\ UNCHANGED updates /\ Unchanged

\* Otherwise the triple is kept and the file is hashed, later.
LookStale(p) ==
    /\ Unsettled(p) /\ Exists(p) /\ ~Fresh(p)
    /\ op' = [op EXCEPT !.todo = @ \ {p}, !.stat[p] = Stat(p)]
    /\ UNCHANGED <<updates, settled>> /\ Unchanged

\* The paths that are still to be hashed: digest_many hashes when every path has
\* been looked at, matches_many hashes each after its own look.
ToHash ==
    {p \in Paths : op.stat[p] # None /\ op.got[p] = None
                   /\ (op.kind = "digest" => op.todo = {})}

\* A file that went away since it was looked at is an error of the whole
\* operation, of which nothing is kept.
Hash(p) ==
    /\ p \in ToHash
    /\ op' = IF Exists(p) THEN [op EXCEPT !.got[p] = Content(p)]
             ELSE [NoOp EXCEPT !.kind = "failed"]
    /\ UNCHANGED <<updates, settled>> /\ Unchanged

Hashed(p) == op.stat[p] # None

\* Mutant: the triple that is stored is the one after the hashing.
Mut_StatLast ==
    /\ op.kind \in {"digest", "match"}
    /\ op.todo = {} /\ ToHash = {}
    /\ updates' = [p \in Paths |->
          IF Hashed(p) /\ Exists(p) THEN [stat |-> Stat(p), hash |-> op.got[p]] ELSE updates[p]]
    /\ settled' = [p \in Paths |->
          IF op.kind = "digest" /\ Hashed(p) THEN op.got[p] ELSE settled[p]]
    /\ op' = [op EXCEPT !.kind = "done"]
    /\ Unchanged
\* Only once all are hashed are the results stored, under the first triples.
Complete ==
    /\ op.kind \in {"digest", "match"}
    /\ op.todo = {} /\ ToHash = {}
    /\ updates' = [p \in Paths |->
          IF Hashed(p) THEN [stat |-> op.stat[p], hash |-> op.got[p]] ELSE updates[p]]
    /\ settled' = [p \in Paths |->
          IF op.kind = "digest" /\ Hashed(p) THEN op.got[p] ELSE settled[p]]
    /\ op' = [op EXCEPT !.kind = "done"]
    /\ Unchanged

OpStep ==
    \/ \E p \in Paths :
          LookSettled(p) \/ LookMissing(p) \/ LookFresh(p) \/ LookStale(p) \/ Hash(p)
    \/ Complete

-----------------------------------------------------------------------------

CacheTypeOK ==
    /\ disk \in [Paths -> [bytes : Bytes \cup {Absent}, exec : BOOLEAN, mtime : 0..clock]]
    /\ clock \in 0..MaxClock
    /\ hashcache \in [Paths -> Entries \cup {None}]
    /\ snapshot \in [Paths -> Entries \cup {None}]
    /\ updates \in [Paths -> Entries \cup {None, Tombstone}]
    /\ settled \in [Paths -> Digests \cup {None}]
    /\ op.stat \in [Paths -> Stats \cup {None}]
    /\ op.got \in [Paths -> Digests \cup {None, MISSING}]

\* An entry tells the truth about the file as long as their triples agree.
Exact(entries, p) ==
    entries[p] \notin {None, Tombstone} /\ Exists(p) /\ entries[p].stat = Stat(p)
        => entries[p].hash = Content(p)
=============================================================================
