------------------------------ MODULE Journal ------------------------------
(***************************************************************************)
(* The build journal (crates/frostbuild-core/src/journal.rs): a binary     *)
(* file, .frost/journal.bin, of length-prefixed records.  A build loads it *)
(* once, appends one record per executed action and, when the file has     *)
(* grown past a threshold, rewrites it from memory (Engine::run).          *)
(*                                                                         *)
(* The file is a sequence of chunks, one per write_all: the magic number,  *)
(* a frame's length and a frame's payload.  A write that is cut short, by  *)
(* the death of the process or by an I/O error, leaves Junk or nothing.    *)
(* Nothing keeps two frost processes from writing the journal together, so *)
(* behaviours where they take turns are distinguished from the others.     *)
(***************************************************************************)
EXTENDS Naturals, SequencesExt

CONSTANTS Procs,        \* frost processes on one workspace
          Ids,          \* journal ids of actions
          CompactAt,    \* file length (in chunks) above which a build compacts
          MaxRecords,   \* bound: records written in a behaviour
          MaxFaults     \* bound: crashes and failed writes in a behaviour

ASSUME IdsAssumption == IsFiniteSet(Ids)
ASSUME BoundsAssumption == {CompactAt, MaxRecords, MaxFaults} \subseteq Nat

VARIABLES
    exclusive,  \* whether the processes take turns, as the design intends
    file,       \* the chunks of journal.bin; <<>> also when there is no file
    pc,         \* "idle", "building" or "compacting", of each process
    previous,   \* Engine.previous: what the process loaded
    recorded,   \* Engine.journal: what it has recorded itself
    writer,     \* Journal.writer: "none", or the file it has open, "current" or
                \* "replaced" by another process since
    todo,       \* what the record() in progress has still to write
    current,    \* the record that record() writes
    records,    \* records begun so far; each entry carries its number
    faults,     \* crashes and failed writes so far
    \* Observers, which no action of the program reads:
    acked,      \* the last entry of every id for which record() returned Ok
    torn        \* a frame has been left incomplete in the file

program == <<exclusive, file, pc, previous, recorded, writer, todo, current>>
vars == <<program, records, faults, acked, torn>>

NoEntry == 0
Entries == [Ids -> 0..MaxRecords]
Empty == [i \in Ids |-> NoEntry]
\* Later entries take the place of earlier ones (BTreeMap::extend).
Extend(m, n) == [i \in Ids |-> IF n[i] # NoEntry THEN n[i] ELSE m[i]]

Magic == [chunk |-> "magic"]
Length == [chunk |-> "length"]
Junk == [chunk |-> "junk"]
Payload(i, n) == [chunk |-> "payload", id |-> i, entry |-> n]
Frame(i, n) == <<Length, Payload(i, n)>>

(***************************************************************************)
(* decode_bytes: complete frames up to the first position that does not    *)
(* hold one.  A length that is followed by anything but its payload makes  *)
(* the decoder read the wrong bytes as a payload, which does not parse.    *)
(***************************************************************************)
\* Mutant: a file with a torn frame is not read at all.
Mut_AllOrNothing(f) ==
    IF f = <<>> \/ f[1] # Magic \/ Len(f) % 2 = 0 \/ Junk \in ToSet(f) THEN {}
    ELSE {k \in 3..Len(f) : f[k].chunk = "payload"}

\* The positions of the payloads that are read.
DecodedPositions(f) ==
    IF f = <<>> \/ f[1] # Magic THEN {}
    ELSE {k \in 3..Len(f) :
            /\ k % 2 = 1
            /\ \A j \in 3..k :
                 IF j % 2 = 1 THEN f[j].chunk = "payload" /\ f[j - 1] = Length
                 ELSE TRUE}

Decode(f) ==
    [i \in Ids |->
        LET at == {k \in DecodedPositions(f) : f[k].id = i}
        IN  IF at = {} THEN NoEntry ELSE f[Max(at)].entry]

Init ==
    /\ exclusive \in BOOLEAN
    /\ file = <<>>
    /\ pc = [p \in Procs |-> "idle"]
    /\ previous = [p \in Procs |-> Empty]
    /\ recorded = [p \in Procs |-> Empty]
    /\ writer = [p \in Procs |-> "none"]
    /\ todo = [p \in Procs |-> <<>>]
    /\ current = [p \in Procs |-> <<>>]
    /\ records = 0
    /\ faults = 0
    /\ acked = Empty
    /\ torn = FALSE

-----------------------------------------------------------------------------

\* Journal::load at the start of a build.
Load(p) ==
    /\ pc[p] = "idle"
    /\ exclusive => \A q \in Procs : pc[q] = "idle"
    /\ pc' = [pc EXCEPT ![p] = "building"]
    /\ previous' = [previous EXCEPT ![p] = Decode(file)]
    /\ recorded' = [recorded EXCEPT ![p] = Empty]
    /\ UNCHANGED <<exclusive, file, writer, todo, current,
                   records, faults, acked, torn>>

\* record(): the file is opened once per build; the process that finds it
\* empty owes it the magic number.
BeginRecord(p, i) ==
    /\ pc[p] = "building" /\ todo[p] = <<>>
    /\ records < MaxRecords
    /\ records' = records + 1
    /\ current' = [current EXCEPT ![p] = <<i, records'>>]
    /\ LET new == writer[p] = "none" /\ file = <<>> IN
       todo' = [todo EXCEPT ![p] =
                   (IF new THEN <<Magic>> ELSE <<>>) \o Frame(i, records')]
    /\ writer' = [writer EXCEPT ![p] = IF @ = "none" THEN "current" ELSE @]
    /\ UNCHANGED <<exclusive, file, pc, previous, recorded, faults, acked, torn>>

\* Appending goes to the file that was opened, which may have been replaced.
Appended(p, chunks) == IF writer[p] = "current" THEN file \o chunks ELSE file

\* One write_all; the last one completes the record.
Write(p) ==
    /\ todo[p] # <<>>
    /\ file' = Appended(p, <<Head(todo[p])>>)
    /\ todo' = [todo EXCEPT ![p] = Tail(@)]
    /\ LET i == current[p][1]
           n == current[p][2]
       IN  IF todo'[p] = <<>>
           THEN /\ recorded' = [recorded EXCEPT ![p][i] = n]
                /\ acked' = [acked EXCEPT ![i] = n]
           ELSE UNCHANGED <<recorded, acked>>
    /\ UNCHANGED <<exclusive, pc, previous, writer, current, records, faults, torn>>

\* What a record() that stops at its next write leaves in the file.
Cut(p) ==
    \E rest \in {<<>>, <<Junk>>} :
        /\ file' = Appended(p, rest)
        /\ torn' = (torn \/ (rest # <<>> \/ Head(todo[p]).chunk = "payload"))

\* A write fails (a full disk).  The action is reported as failed and the
\* build goes on, with the same open file unless it was the magic number.
WriteFails(p) ==
    /\ faults < MaxFaults
    /\ todo[p] # <<>>
    /\ Cut(p)
    /\ writer' = [writer EXCEPT ![p] = IF Head(todo[p]) = Magic THEN "none" ELSE @]
    /\ todo' = [todo EXCEPT ![p] = <<>>]
    /\ faults' = faults + 1
    /\ UNCHANGED <<exclusive, pc, previous, recorded, current, records, acked>>

\* The process dies, between two writes or in the middle of one.
Crash(p) ==
    /\ faults < MaxFaults
    /\ pc[p] # "idle"
    /\ IF todo[p] = <<>> THEN UNCHANGED <<file, torn>> ELSE Cut(p)
    /\ pc' = [pc EXCEPT ![p] = "idle"]
    /\ writer' = [writer EXCEPT ![p] = "none"]
    /\ todo' = [todo EXCEPT ![p] = <<>>]
    /\ faults' = faults + 1
    /\ UNCHANGED <<exclusive, previous, recorded, current, records, acked>>

\* Mutant: the file stays open when the build ends.
Mut_EndKeepsWriter(p) ==
    /\ pc[p] = "building" /\ todo[p] = <<>>
    /\ pc' = [pc EXCEPT ![p] = IF Len(file) > CompactAt THEN "compacting" ELSE "idle"]
    /\ UNCHANGED <<exclusive, file, writer, previous, recorded, todo, current,
                   records, faults, acked, torn>>
\* Engine::run after the workers have been joined.
EndBuild(p) ==
    /\ pc[p] = "building" /\ todo[p] = <<>>
    /\ pc' = [pc EXCEPT ![p] = IF Len(file) > CompactAt THEN "compacting" ELSE "idle"]
    /\ writer' = [writer EXCEPT ![p] = "none"]
    /\ UNCHANGED <<exclusive, file, previous, recorded, todo, current,
                   records, faults, acked, torn>>

\* Mutant: only what this build recorded is carried over.
Mut_SavesRecorded(p) == recorded[p]
Saved(p) == Extend(previous[p], recorded[p])

\* The magic number and a frame for every entry.
FileOf(m) ==
    LET ids == SetToSeq({i \in Ids : m[i] # NoEntry})
    IN  [k \in 1..(2 * Len(ids) + 1) |->
            IF k = 1 THEN Magic
            ELSE IF k % 2 = 0 THEN Length
            ELSE Payload(ids[k \div 2], m[ids[k \div 2]])]

\* save(): written to a temporary file and renamed into place.
Compact(p) ==
    /\ pc[p] = "compacting"
    /\ file' = FileOf(Saved(p))
    /\ writer' = [q \in Procs |-> IF writer[q] = "current" THEN "replaced" ELSE writer[q]]
    /\ pc' = [pc EXCEPT ![p] = "idle"]
    /\ UNCHANGED <<exclusive, previous, recorded, todo, current,
                   records, faults, acked, torn>>

Next ==
    \E p \in Procs :
        \/ Load(p)
        \/ \E i \in Ids : BeginRecord(p, i)
        \/ Write(p) \/ WriteFails(p) \/ Crash(p)
        \/ EndBuild(p) \/ Compact(p)

Spec == Init /\ [][Next]_vars

-----------------------------------------------------------------------------

TypeOK ==
    /\ \A k \in DOMAIN file :
          \/ file[k] \in {Magic, Length, Junk}
          \/ \E i \in Ids, n \in 1..MaxRecords : file[k] = Payload(i, n)
    /\ pc \in [Procs -> {"idle", "building", "compacting"}]
    /\ previous \in [Procs -> Entries] /\ recorded \in [Procs -> Entries]
    /\ writer \in [Procs -> {"none", "current", "replaced"}]
    /\ \A p \in Procs : /\ Len(todo[p]) <= 3
                       /\ pc[p] # "building" => todo[p] = <<>> /\ writer[p] = "none"
    /\ records \in 0..MaxRecords /\ faults \in 0..MaxFaults
    /\ acked \in Entries /\ torn \in BOOLEAN

Quiet == \A p \in Procs : todo[p] = <<>>

\* When processes take turns, a build loads exactly what earlier builds
\* completed, through any crash that does not cut a frame in two and through
\* any compaction.
LoadsWhatWasCompleted == exclusive /\ Quiet /\ ~torn => Decode(file) = acked

\* What once could be loaded stays loadable, whatever is torn or appended
\* afterwards: no append costs another build the history it starts from, though
\* processes may mix their frames and write the magic number twice.  When they
\* take turns no compaction does either, and an entry is only ever superseded by
\* a later one.  (Otherwise a compaction replaces the file by what its process
\* loaded and recorded itself.)
HistoryIsKept ==
    [][\A i \in Ids :
          /\ exclusive => Decode(file)[i] <= Decode(file')[i]
          /\ \/ \E p \in Procs : Compact(p)
             \/ Decode(file)[i] # NoEntry => Decode(file')[i] # NoEntry]_vars

\* What README, DESIGN and the comment on Journal.writer promise of a crash:
\* a completed action survives it.
CompletedActionsSurvive ==
    Quiet => \A i \in Ids : acked[i] # NoEntry => Decode(file)[i] # NoEntry
=============================================================================
