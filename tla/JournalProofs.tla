---------------------------- MODULE JournalProofs ----------------------------
(***************************************************************************)
(* Proofs about Journal, for any processes, ids and bounds.                *)
(*                                                                         *)
(* The argument.  Records are numbered as they are begun, so that what is  *)
(* appended last is the latest.  An append adds at most one position that  *)
(* is decoded and takes none away (DecodeAppended), whatever stands before *)
(* it; so no append loses history.  When processes take turns, what a      *)
(* build has in memory covers what is in the file (Covered), and as long   *)
(* as no frame is torn the file consists of whole frames but for the one   *)
(* that is being written (Whole), memory and file say the same, and a      *)
(* compaction writes what it would have loaded (FileOfIsDecoded).          *)
(***************************************************************************)
EXTENDS Journal, FiniteSetTheorems, SequenceTheorems, WellFoundedInduction, TLAPS

\* The chunks of files with records up to the n-th.
Chunks(n) == {Magic, Length, Junk} \cup {Payload(i, e) : i \in Ids, e \in 1..n}
EntriesUpTo(n) == [Ids -> 0..n]

\* The payloads that are read for an id.
PositionsOf(f, i) == {k \in DecodedPositions(f) : f[k].id = i}

\* What record() may still have to write of a frame.
Rest(i, n) == {<<Payload(i, n)>>, <<Length, Payload(i, n)>>, <<Magic, Length, Payload(i, n)>>}

\* Whole frames, but perhaps for the last one's payload.
WholeFrames(f) ==
    f # <<>> =>
        /\ f[1] = Magic
        /\ \A k \in 2..Len(f) :
              /\ k % 2 = 0 => f[k] = Length
              /\ k % 2 = 1 => f[k].chunk = "payload"

\* The next chunk that a process owes to its frame.
Owes(p) == IF todo[p] = <<>> THEN "nothing" ELSE Head(todo[p]).chunk

\* Types, and that no number is used before it is given.
MemoryOK ==
    /\ exclusive \in BOOLEAN /\ torn \in BOOLEAN
    /\ records \in 0..MaxRecords /\ faults \in 0..MaxFaults
    /\ file \in Seq(Chunks(records))
    /\ previous \in [Procs -> EntriesUpTo(records)]
    /\ recorded \in [Procs -> EntriesUpTo(records)]
    /\ acked \in EntriesUpTo(records)

\* Only a build writes, and what it has still to write is the rest of a frame.
WritersOK ==
    /\ pc \in [Procs -> {"idle", "building", "compacting"}]
    /\ writer \in [Procs -> {"none", "current", "replaced"}]
    /\ DOMAIN todo = Procs /\ DOMAIN current = Procs
    /\ \A p \in Procs : pc[p] # "building" => todo[p] = <<>> /\ writer[p] = "none"
    /\ \A p \in Procs : todo[p] # <<>> =>
          /\ writer[p] # "none"
          /\ \E i \in Ids, n \in 1..records :
                current[p] = <<i, n>> /\ todo[p] \in Rest(i, n)

\* Processes that take turns: one is active, and it writes the latest record to the
\* file that bears the name.
Turns ==
    exclusive =>
        /\ \A p, q \in Procs : pc[p] # "idle" /\ pc[q] # "idle" => p = q
        /\ \A p \in Procs : writer[p] # "replaced"
        /\ \A p \in Procs : todo[p] # <<>> => current[p][2] = records

\* It has in memory what is in the file, or what is later.
Covered ==
    exclusive =>
        \A p \in Procs : pc[p] # "idle" =>
            \A i \in Ids : Decode(file)[i] <= Saved(p)[i]

\* As long as no frame is torn, file, memory and what was completed agree.
Agreed ==
    exclusive /\ ~torn =>
        /\ Decode(file) = acked
        /\ \A p \in Procs : pc[p] # "idle" => Saved(p) = acked

\* And the file consists of whole frames, but for the one that is being written.
Framed ==
    exclusive /\ ~torn =>
        /\ WholeFrames(file)
        /\ (\A p \in Procs : Owes(p) # "payload") => file = <<>> \/ Len(file) % 2 = 1
        /\ \A p \in Procs :
              /\ Owes(p) = "magic" => file = <<>>
              /\ Owes(p) = "length" => file # <<>>
              /\ Owes(p) = "payload" => Len(file) > 1 /\ Len(file) % 2 = 0
              /\ Owes(p) = "nothing" /\ writer[p] = "current" => file # <<>>

IInv == MemoryOK /\ WritersOK /\ Turns /\ Covered /\ Agreed /\ Framed

-----------------------------------------------------------------------------
(* Reading and appending.                                                  *)

\* A set of positions that is not empty has a last one.
LEMMA LastPosition ==
    ASSUME NEW n \in Nat, NEW S, S \subseteq 1..n, S # {}
    PROVE  Max(S) \in S /\ \A k \in S : k <= Max(S)
<1> DEFINE T == {n - k : k \in S}
<1>1. T \subseteq Nat /\ T # {}
  <2>1. \A k \in S : k \in Nat /\ n - k \in Nat
    OBVIOUS
  <2> QED BY <2>1
<1>2. PICK x \in T : \A y \in T : ~ (<<y, x>> \in OpToRel(<, Nat))
  BY <1>1, WFMin, NatLessThanWellFounded
<1>3. \A y \in T : ~ (y < x)
  BY <1>1, <1>2 DEF OpToRel
<1>4. PICK m \in S : x = n - m
  BY <1>2
<1>5. ASSUME NEW k \in S PROVE m >= k
  <2>1. n - k \in T
    BY DEF T
  <2>2. ~ (n - k < n - m)
    BY <2>1, <1>3, <1>4
  <2> QED BY <2>2
<1>6. Max(S) \in S /\ \A k \in S : Max(S) >= k
  BY <1>4, <1>5 DEF Max
<1> QED BY <1>6

\* What tells chunks apart.
LEMMA ChunkFacts ==
    ASSUME NEW n \in Nat, NEW c \in Chunks(n)
    PROVE  /\ c = Magic <=> c.chunk = "magic"
           /\ c = Length <=> c.chunk = "length"
           /\ c.chunk = "payload" =>
                 c.id \in Ids /\ c.entry \in 1..n /\ c = Payload(c.id, c.entry)
<1>1. CASE c \in {Magic, Length, Junk}
  BY <1>1 DEF Magic, Length, Junk
<1>2. ASSUME NEW i \in Ids, NEW e \in 1..n, c = Payload(i, e)
      PROVE  /\ c # Magic /\ c # Length /\ c.chunk = "payload"
             /\ c.id = i /\ c.entry = e
  BY <1>2 DEF Payload, Magic, Length
<1>3. CASE c \in {Payload(i, e) : i \in Ids, e \in 1..n}
  <2>1. PICK i \in Ids, e \in 1..n : c = Payload(i, e)
    BY <1>3
  <2> QED BY <2>1, <1>2
<1> QED BY <1>1, <1>3 DEF Chunks

\* An id has the number in the last payload that is read for it.
LEMMA DecodedNumber ==
    ASSUME NEW n \in Nat, NEW f \in Seq(Chunks(n)), NEW i \in Ids
    PROVE  /\ PositionsOf(f, i) = {} => Decode(f)[i] = NoEntry
           /\ PositionsOf(f, i) # {} =>
                 /\ Max(PositionsOf(f, i)) \in PositionsOf(f, i)
                 /\ \A k \in PositionsOf(f, i) : k <= Max(PositionsOf(f, i))
                 /\ Decode(f)[i] = f[Max(PositionsOf(f, i))].entry
                 /\ Decode(f)[i] \in 1..n
<1>1. Decode(f)[i] = IF PositionsOf(f, i) = {} THEN NoEntry
                     ELSE f[Max(PositionsOf(f, i))].entry
  BY DEF Decode, PositionsOf
<1>2. Len(f) \in Nat /\ DecodedPositions(f) \subseteq 1..Len(f)
  BY DEF DecodedPositions
<1>3. CASE PositionsOf(f, i) # {}
  <2> DEFINE m == Max(PositionsOf(f, i))
  <2>1. m \in PositionsOf(f, i) /\ \A k \in PositionsOf(f, i) : k <= m
    BY <1>2, <1>3, LastPosition DEF PositionsOf
  <2>2. m \in DecodedPositions(f)
    BY <2>1 DEF PositionsOf
  <2>3. m \in 1..Len(f) /\ f[m].chunk = "payload"
    BY <1>2, <2>2 DEF DecodedPositions
  <2>4. f[m] \in Chunks(n)
    BY <2>3
  <2>5. f[m].entry \in 1..n
    BY <2>3, <2>4, ChunkFacts
  <2> QED BY <1>1, <1>3, <2>1, <2>5
<1> QED BY <1>1, <1>3

\* Appending a chunk takes no position away, adds only its own and only if the
\* chunk is a payload, and does add it behind whole frames.
LEMMA PositionsAppended ==
    ASSUME NEW n \in Nat, NEW f \in Seq(Chunks(n)), NEW c \in Chunks(n)
    PROVE  LET g == f \o <<c>>
               end == Len(f) + 1
           IN  /\ DecodedPositions(f) \subseteq DecodedPositions(g)
               /\ DecodedPositions(g) \subseteq DecodedPositions(f) \cup {end}
               /\ end \in DecodedPositions(g) => c.chunk = "payload"
               /\ WholeFrames(f) /\ Len(f) > 1 /\ Len(f) % 2 = 0 /\ c.chunk = "payload"
                     => end \in DecodedPositions(g)
<1> DEFINE g == f \o <<c>>
           end == Len(f) + 1
<1>1. /\ g \in Seq(Chunks(n)) /\ Len(f) \in Nat /\ Len(g) = end
      /\ \A k \in 1..Len(f) : g[k] = f[k]
      /\ g[end] = c
  OBVIOUS
<1> HIDE DEF g
<1>2. CASE f = <<>>
  <2>1. Len(f) = 0
    BY <1>2
  <2>2. 3..Len(g) = {}
    BY <1>1, <2>1
  <2>3. DecodedPositions(g) = {} /\ DecodedPositions(f) = {}
    BY <1>2, <2>2 DEF DecodedPositions
  <2> QED BY <2>1, <2>3 DEF g
<1>3. CASE f # <<>>
  <2>1. Len(f) >= 1 /\ g # <<>> /\ g[1] = f[1]
    BY <1>1, <1>3
  <2>2. CASE f[1] # Magic
    <3>1. DecodedPositions(g) = {} /\ DecodedPositions(f) = {} /\ ~WholeFrames(f)
      BY <1>3, <2>1, <2>2 DEF DecodedPositions, WholeFrames
    <3> QED BY <3>1 DEF g
  <2>3. CASE f[1] = Magic
    <3> DEFINE Read(h, k) == \A j \in 3..k : j % 2 = 1 => h[j].chunk = "payload" /\ h[j - 1] = Length
    <3>1. DecodedPositions(f) = {k \in 3..Len(f) : k % 2 = 1 /\ Read(f, k)}
      BY <1>3, <2>3 DEF DecodedPositions
    <3>2. DecodedPositions(g) = {k \in 3..end : k % 2 = 1 /\ Read(g, k)}
      BY <1>1, <2>1, <2>3 DEF DecodedPositions
    <3>3. ASSUME NEW k \in 3..Len(f) PROVE Read(f, k) <=> Read(g, k)
      <4>1. \A j \in 3..k : g[j] = f[j] /\ g[j - 1] = f[j - 1]
        BY <1>1
      <4> QED BY <4>1
    <3>4. end \in DecodedPositions(g) => c.chunk = "payload"
      BY <1>1, <3>2
    <3>5. ASSUME WholeFrames(f), Len(f) > 1, Len(f) % 2 = 0, c.chunk = "payload"
          PROVE  end \in DecodedPositions(g)
      <4>1. ASSUME NEW j \in 3..end, j % 2 = 1
            PROVE  g[j].chunk = "payload" /\ g[j - 1] = Length
        <5>1. j - 1 \in 2..Len(f) /\ (j - 1) % 2 = 0 /\ g[j - 1] = f[j - 1]
          BY <1>1, <4>1
        <5>2. g[j - 1] = Length
          BY <5>1, <3>5, <1>3 DEF WholeFrames
        <5>3. CASE j = end
          BY <5>2, <5>3, <3>5, <1>1
        <5>4. CASE j # end
          <6>1. j \in 2..Len(f) /\ g[j] = f[j]
            BY <5>4, <1>1
          <6>2. f[j].chunk = "payload"
            BY <6>1, <4>1, <3>5, <1>3 DEF WholeFrames
          <6> QED BY <5>2, <6>1, <6>2
        <5> QED BY <5>3, <5>4
      <4>2. end \in 3..end /\ end % 2 = 1
        BY <1>1, <3>5
      <4> QED BY <4>1, <4>2, <3>2
    <3>6. DecodedPositions(f) \subseteq DecodedPositions(g)
      BY <3>1, <3>2, <3>3, <1>1
    <3>7. DecodedPositions(g) \subseteq DecodedPositions(f) \cup {end}
      <4>1. ASSUME NEW k \in DecodedPositions(g), k # end PROVE k \in DecodedPositions(f)
        <5>1. k \in 3..Len(f)
          BY <4>1, <3>2, <1>1
        <5> QED BY <5>1, <4>1, <3>1, <3>2, <3>3
      <4> QED BY <4>1
    <3> QED BY <3>4, <3>5, <3>6, <3>7 DEF g
  <2> QED BY <2>2, <2>3
<1> QED BY <1>2, <1>3

\* An append changes what is read of no id but that of a payload, to the number of
\* the payload, and does so behind whole frames.
LEMMA DecodeAppended ==
    ASSUME NEW n \in Nat, NEW f \in Seq(Chunks(n)), NEW c \in Chunks(n), NEW i \in Ids
    PROVE  LET g == f \o <<c>> IN
           /\ \/ Decode(g)[i] = Decode(f)[i]
              \/ c.chunk = "payload" /\ c.id = i /\ Decode(g)[i] = c.entry
           /\ WholeFrames(f) /\ Len(f) > 1 /\ Len(f) % 2 = 0 /\ c.chunk = "payload" /\ c.id = i
                 => Decode(g)[i] = c.entry
<1> DEFINE g == f \o <<c>>
           end == Len(f) + 1
<1>1. /\ g \in Seq(Chunks(n)) /\ Len(f) \in Nat /\ end \in Nat
      /\ \A k \in 1..Len(f) : g[k] = f[k]
      /\ g[end] = c
  OBVIOUS
<1>2. /\ DecodedPositions(f) \subseteq DecodedPositions(g)
      /\ DecodedPositions(g) \subseteq DecodedPositions(f) \cup {end}
      /\ end \in DecodedPositions(g) => c.chunk = "payload"
      /\ WholeFrames(f) /\ Len(f) > 1 /\ Len(f) % 2 = 0 /\ c.chunk = "payload"
            => end \in DecodedPositions(g)
  BY PositionsAppended
<1>3. DecodedPositions(f) \subseteq 1..Len(f)
  BY <1>1 DEF DecodedPositions
<1> HIDE DEF g
<1>4. CASE end \in DecodedPositions(g) /\ c.id = i
  <2>1. end \in PositionsOf(g, i) /\ \A k \in PositionsOf(g, i) : k <= end
    BY <1>1, <1>2, <1>3, <1>4 DEF PositionsOf
  <2>2. Max(PositionsOf(g, i)) \in PositionsOf(g, i) /\ Max(PositionsOf(g, i)) >= end
        /\ Decode(g)[i] = g[Max(PositionsOf(g, i))].entry
    BY <2>1, <1>1, DecodedNumber
  <2>3. PositionsOf(g, i) \subseteq 1..end
    BY <1>1, <1>2, <1>3 DEF PositionsOf
  <2>4. Max(PositionsOf(g, i)) = end
    BY <1>1, <2>1, <2>2, <2>3
  <2> QED BY <1>1, <1>2, <1>4, <2>2, <2>4 DEF g
<1>5. CASE ~(end \in DecodedPositions(g) /\ c.id = i)
  <2>1. PositionsOf(g, i) = PositionsOf(f, i)
    BY <1>1, <1>2, <1>3, <1>5 DEF PositionsOf
  <2>2. CASE PositionsOf(f, i) = {}
    <3>1. Decode(g)[i] = NoEntry /\ Decode(f)[i] = NoEntry
      BY <2>1, <2>2, <1>1, DecodedNumber
    <3> QED BY <3>1, <1>2, <1>5 DEF g
  <2>3. CASE PositionsOf(f, i) # {}
    <3>1. Max(PositionsOf(f, i)) \in PositionsOf(f, i)
          /\ Decode(f)[i] = f[Max(PositionsOf(f, i))].entry
      BY <2>3, DecodedNumber
    <3>2. Decode(g)[i] = g[Max(PositionsOf(f, i))].entry
      BY <2>1, <2>3, <1>1, DecodedNumber
    <3>3. Max(PositionsOf(f, i)) \in 1..Len(f)
      BY <3>1, <1>3 DEF PositionsOf
    <3>4. Decode(g)[i] = Decode(f)[i]
      BY <3>1, <3>2, <3>3, <1>1
    <3> QED BY <3>4, <1>2, <1>5 DEF g
  <2> QED BY <2>2, <2>3
<1> QED BY <1>4, <1>5

\* A function on 1..n is a sequence.
LEMMA FunctionIsSequence ==
    ASSUME NEW n \in Nat, NEW S, NEW f \in [1..n -> S]
    PROVE  f \in Seq(S) /\ Len(f) = n
OBVIOUS

\* A compacted file is whole, and reads as what it was made of.
LEMMA FileOfIsDecoded ==
    ASSUME NEW n \in Nat, NEW m \in EntriesUpTo(n)
    PROVE  /\ FileOf(m) \in Seq(Chunks(n)) /\ FileOf(m) # <<>>
           /\ WholeFrames(FileOf(m)) /\ Len(FileOf(m)) % 2 = 1
           /\ Decode(FileOf(m)) = m
<1> DEFINE S == {i \in Ids : m[i] # NoEntry}
           ids == SetToSeq(S)
           N == Cardinality(S)
           f == FileOf(m)
           chunk(k) == IF k = 1 THEN Magic ELSE IF k % 2 = 0 THEN Length
                       ELSE Payload(ids[k \div 2], m[ids[k \div 2]])
<1>1. IsFiniteSet(S) /\ N \in Nat /\ ExistsBijection(1..N, S)
  BY IdsAssumption, FS_Subset, FS_CardinalityType
<1>2. ids \in [1..N -> S] /\ IsInjective(ids)
  <2>1. PICK b \in Bijection(1..N, S) : TRUE
    BY <1>1 DEF ExistsBijection
  <2>2. b \in [1..N -> S] /\ IsInjective(b)
    BY <2>1 DEF Bijection, Injection, IsInjective
  <2> HIDE DEF S
  <2> QED BY <2>2 DEF SetToSeq
<1>3. \A i \in S : \E k \in 1..N : ids[k] = i
  <2>1. ids \in Injection(1..N, S)
    BY <1>2 DEF Injection, IsInjective
  <2>2. IsFiniteSet(1..N) /\ Cardinality(1..N) = N
    BY <1>1, FS_Interval
  <2>3. ids \in Surjection(1..N, S)
    BY <1>1, <2>1, <2>2, FS_Injection
  <2> QED BY <2>3 DEF Surjection
<1>4. Len(ids) = N
  BY <1>1, <1>2
<1>5. f = [k \in 1..(2 * N + 1) |-> chunk(k)]
  BY <1>4 DEF FileOf
<1> HIDE DEF ids, f
<1>6. ASSUME NEW k \in 1..(2 * N + 1), k # 1, k % 2 = 1
      PROVE  /\ k \div 2 \in 1..N /\ ids[k \div 2] \in S
             /\ m[ids[k \div 2]] \in 1..n
             /\ f[k] = Payload(ids[k \div 2], m[ids[k \div 2]])
  <2>1. k \div 2 \in 1..N
    BY <1>6, <1>1
  <2>2. ids[k \div 2] \in S
    BY <2>1, <1>2
  <2>3. m[ids[k \div 2]] \in 0..n /\ m[ids[k \div 2]] # 0
    BY <2>2 DEF EntriesUpTo, NoEntry
  <2> QED BY <2>1, <2>2, <2>3, <1>5, <1>6
<1>7. \A k \in 1..(2 * N + 1) : chunk(k) \in Chunks(n)
  BY <1>6 DEF Chunks
<1>8. f \in Seq(Chunks(n)) /\ Len(f) = 2 * N + 1 /\ f # <<>> /\ f[1] = Magic
  <2>1. 2 * N + 1 \in Nat /\ 1 \in 1..(2 * N + 1) /\ f \in [1..(2 * N + 1) -> Chunks(n)]
    BY <1>1, <1>5, <1>7
  <2>2. f \in Seq(Chunks(n)) /\ Len(f) = 2 * N + 1
    BY <2>1, FunctionIsSequence
  <2>3. f[1] = Magic
    BY <2>1, <1>5
  <2> QED BY <2>1, <2>2, <2>3
<1>9. \A k \in 2..Len(f) : k % 2 = 0 => f[k] = Length
  BY <1>8, <1>5, <1>1
<1>10. \A k \in 2..Len(f) : k % 2 = 1 => f[k].chunk = "payload"
  BY <1>8, <1>6, <1>1 DEF Payload
<1>11. WholeFrames(f) /\ Len(f) % 2 = 1
  BY <1>8, <1>9, <1>10, <1>1 DEF WholeFrames
<1>12. DecodedPositions(f) = {k \in 3..Len(f) : k % 2 = 1}
  <2>1. \A j \in 3..Len(f) : j % 2 = 1 => f[j].chunk = "payload" /\ f[j - 1] = Length
    BY <1>8, <1>9, <1>10, <1>1
  <2>2. \A k \in 3..Len(f) : \A j \in 3..k : j % 2 = 1 => f[j].chunk = "payload" /\ f[j - 1] = Length
    <3>1. ASSUME NEW k \in 3..Len(f), NEW j \in 3..k PROVE j \in 3..Len(f)
      BY <1>8, <1>1
    <3> QED BY <3>1, <2>1
  <2> QED BY <2>2, <1>8 DEF DecodedPositions
<1>13. ASSUME NEW i \in Ids PROVE Decode(f)[i] = m[i]
  <2>1. \A k \in PositionsOf(f, i) : f[k].entry = m[i] /\ i \in S
    <3>1. ASSUME NEW k \in PositionsOf(f, i) PROVE f[k].entry = m[i] /\ i \in S
      <4>1. k \in 1..(2 * N + 1) /\ k # 1 /\ k % 2 = 1 /\ f[k].id = i
        BY <1>8, <1>12, <1>1 DEF PositionsOf
      <4>2. ids[k \div 2] \in S /\ f[k] = Payload(ids[k \div 2], m[ids[k \div 2]])
        BY <4>1, <1>6
      <4>3. ids[k \div 2] = i /\ f[k].entry = m[ids[k \div 2]]
        BY <4>1, <4>2 DEF Payload
      <4> QED BY <4>2, <4>3
    <3> QED BY <3>1
  <2>2. CASE i \in S
    <3>1. PICK k \in 1..N : ids[k] = i
      BY <2>2, <1>3
    <3>2. 2 * k + 1 \in 3..Len(f) /\ (2 * k + 1) % 2 = 1 /\ (2 * k + 1) \div 2 = k
      BY <1>8, <1>1
    <3>3. f[2 * k + 1].id = i
      <4>1. f[2 * k + 1] = Payload(i, m[i])
        BY <3>1, <3>2, <1>8, <1>6
      <4> QED BY <4>1 DEF Payload
    <3>4. 2 * k + 1 \in PositionsOf(f, i)
      BY <3>2, <3>3, <1>12 DEF PositionsOf
    <3> QED BY <3>4, <2>1, <1>8, DecodedNumber
  <2>3. CASE i \notin S
    <3>1. m[i] = NoEntry /\ PositionsOf(f, i) = {}
      BY <2>1, <2>3
    <3> QED BY <3>1, <1>8, DecodedNumber
  <2> QED BY <2>2, <2>3
<1>14. Decode(f) = m
  BY <1>13 DEF Decode, EntriesUpTo
<1> QED BY <1>8, <1>11, <1>14 DEF f

-----------------------------------------------------------------------------
(* The steps.                                                              *)

\* Between records nothing is owed; in one, the rest of the frame.
LEMMA OwedFacts ==
    ASSUME MemoryOK, WritersOK, NEW p \in Procs, todo[p] # <<>>
    PROVE  \E i \in Ids, n \in 1..records :
              /\ current[p] = <<i, n>> /\ current[p][1] = i /\ current[p][2] = n
              /\ Head(todo[p]) \in Chunks(records)
              /\ \/ /\ Head(todo[p]) = Payload(i, n) /\ Owes(p) = "payload"
                    /\ Tail(todo[p]) = <<>>
                 \/ /\ Head(todo[p]) = Length /\ Owes(p) = "length"
                    /\ Tail(todo[p]) = <<Payload(i, n)>>
                 \/ /\ Head(todo[p]) = Magic /\ Owes(p) = "magic"
                    /\ Tail(todo[p]) = <<Length, Payload(i, n)>>
<1>1. PICK i \in Ids, n \in 1..records :
             current[p] = <<i, n>> /\ todo[p] \in Rest(i, n)
  BY DEF WritersOK
<1>2. Payload(i, n) \in Chunks(records) /\ Length \in Chunks(records) /\ Magic \in Chunks(records)
  BY DEF Chunks
<1>3. Payload(i, n).chunk = "payload" /\ Length.chunk = "length" /\ Magic.chunk = "magic"
  BY DEF Payload, Length, Magic
<1>4. CASE todo[p] = <<Payload(i, n)>>
  <2>1. Head(todo[p]) = Payload(i, n) /\ Tail(todo[p]) = <<>> /\ todo[p] # <<>>
    BY <1>4
  <2> QED BY <2>1, <1>1, <1>2, <1>3 DEF Owes
<1>5. CASE todo[p] = <<Length, Payload(i, n)>>
  <2>1. Head(todo[p]) = Length /\ Tail(todo[p]) = <<Payload(i, n)>> /\ todo[p] # <<>>
    BY <1>5
  <2> QED BY <2>1, <1>1, <1>2, <1>3 DEF Owes
<1>6. CASE todo[p] = <<Magic, Length, Payload(i, n)>>
  <2>1. Head(todo[p]) = Magic /\ Tail(todo[p]) = <<Length, Payload(i, n)>> /\ todo[p] # <<>>
    BY <1>6
  <2> QED BY <2>1, <1>1, <1>2, <1>3 DEF Owes
<1> QED BY <1>1, <1>4, <1>5, <1>6 DEF Rest

\* What is in memory, id by id.
LEMMA SavedFacts ==
    ASSUME MemoryOK, NEW p \in Procs
    PROVE  /\ Saved(p) \in EntriesUpTo(records)
           /\ \A i \in Ids : Saved(p)[i] =
                 IF recorded[p][i] # NoEntry THEN recorded[p][i] ELSE previous[p][i]
<1>1. previous[p] \in EntriesUpTo(records) /\ recorded[p] \in EntriesUpTo(records)
  BY DEF MemoryOK
<1> QED BY <1>1 DEF Saved, Extend, EntriesUpTo

\* What is read of a file with records up to the n-th.
LEMMA DecodeType ==
    ASSUME NEW n \in Nat, NEW f \in Seq(Chunks(n))
    PROVE  Decode(f) \in EntriesUpTo(n)
<1>1. \A i \in Ids : Decode(f)[i] \in 0..n
  <2>1. ASSUME NEW i \in Ids PROVE Decode(f)[i] \in 0..n
    <3>1. Decode(f)[i] = 0 \/ Decode(f)[i] \in 1..n
      BY DecodedNumber DEF NoEntry
    <3> QED BY <3>1
  <2> QED BY <2>1
<1>2. DOMAIN Decode(f) = Ids /\ Decode(f) = [i \in Ids |-> Decode(f)[i]]
  BY DEF Decode
<1> QED BY <1>1, <1>2 DEF EntriesUpTo

\* Nothing is read of an empty file.
LEMMA DecodeNothing == Decode(<<>>) = Empty
<1>1. DecodedPositions(<<>>) = {}
  BY DEF DecodedPositions
<1> QED BY <1>1 DEF Decode, Empty

\* Appending a chunk that is no payload.
LEMMA DecodeUnmoved ==
    ASSUME NEW n \in Nat, NEW f \in Seq(Chunks(n)), NEW c \in Chunks(n), c.chunk # "payload"
    PROVE  Decode(f \o <<c>>) = Decode(f)
<1>1. \A i \in Ids : Decode(f \o <<c>>)[i] = Decode(f)[i]
  BY DecodeAppended
<1>2. Decode(f \o <<c>>) = [i \in Ids |-> Decode(f \o <<c>>)[i]]
  BY DEF Decode
<1>3. Decode(f) = [i \in Ids |-> Decode(f)[i]]
  BY DEF Decode
<1> QED BY <1>1, <1>2, <1>3

\* Initially nothing has been read, recorded or written.
LEMMA InitIInv == Init => IInv
<1> SUFFICES ASSUME Init PROVE IInv
  OBVIOUS
<1>1. Empty \in EntriesUpTo(records) /\ records = 0 /\ file \in Seq(Chunks(records))
  BY DEF Init, Empty, NoEntry, EntriesUpTo
<1>2. MemoryOK
  <2>1. MaxRecords \in Nat /\ MaxFaults \in Nat
    BY BoundsAssumption
  <2>2. records \in 0..MaxRecords /\ faults \in 0..MaxFaults
    BY <2>1 DEF Init
  <2> QED BY <1>1, <2>2 DEF Init, MemoryOK
<1>3. WritersOK /\ Turns /\ Covered
  BY DEF Init, WritersOK, Turns, Covered
<1>4. Agreed
  BY DecodeNothing DEF Init, Agreed
<1>5. \A p \in Procs : Owes(p) = "nothing"
  BY DEF Init, Owes
<1>6. Framed
  BY <1>5 DEF Init, Framed, WholeFrames
<1> QED BY <1>2, <1>3, <1>4, <1>6 DEF IInv

\* Loading: what is read is what the build has in memory.
LEMMA LoadKeeps ==
    ASSUME IInv, NEW p \in Procs, Load(p)
    PROVE  IInv'
<1> USE DEF IInv
<1>1. UNCHANGED <<exclusive, file, writer, todo, current, records, faults, acked, torn>>
  BY DEF Load
<1>2. /\ pc[p] = "idle" /\ pc' = [pc EXCEPT ![p] = "building"]
      /\ exclusive => \A q \in Procs : pc[q] = "idle"
      /\ previous' = [previous EXCEPT ![p] = Decode(file)]
      /\ recorded' = [recorded EXCEPT ![p] = Empty]
  BY DEF Load
<1>3. records \in Nat /\ Decode(file) \in EntriesUpTo(records) /\ Empty \in EntriesUpTo(records)
  BY DecodeType, BoundsAssumption DEF MemoryOK, Empty, NoEntry, EntriesUpTo
<1>4. MemoryOK'
  BY <1>1, <1>2, <1>3 DEF MemoryOK
<1>5. WritersOK'
  BY <1>1, <1>2 DEF WritersOK
<1>6. Turns'
  BY <1>1, <1>2 DEF Turns, WritersOK
<1>7. Saved(p)' = Decode(file)
  <2>1. Saved(p)' = Extend(Decode(file), Empty)
    BY <1>2 DEF MemoryOK, Saved
  <2> QED BY <2>1, <1>3 DEF Extend, Empty, EntriesUpTo
<1>8. exclusive' => \A q \in Procs : pc'[q] # "idle" => q = p
  BY <1>1, <1>2 DEF WritersOK
<1>9. Covered'
  <2>1. \A i \in Ids : Decode(file)[i] <= Decode(file)[i]
    BY <1>3 DEF EntriesUpTo
  <2> QED BY <1>1, <1>7, <1>8, <2>1 DEF Covered
<1>10. Agreed'
  BY <1>1, <1>7, <1>8 DEF Agreed
<1>11. Framed'
  BY <1>1 DEF Framed, Owes
<1> QED BY <1>4, <1>5, <1>6, <1>9, <1>10, <1>11

\* The end of a build.
LEMMA EndBuildKeeps ==
    ASSUME IInv, NEW p \in Procs, EndBuild(p)
    PROVE  IInv'
<1> USE DEF IInv
<1>1. UNCHANGED <<exclusive, file, previous, recorded, todo, current, records, faults, acked, torn>>
  BY DEF EndBuild
<1>2. /\ pc[p] = "building" /\ todo[p] = <<>>
      /\ pc' \in {[pc EXCEPT ![p] = "compacting"], [pc EXCEPT ![p] = "idle"]}
      /\ writer' = [writer EXCEPT ![p] = "none"]
  BY DEF EndBuild
<1>3. \A q \in Procs : pc'[q] # "idle" => pc[q] # "idle"
  BY <1>2 DEF WritersOK
<1>4. MemoryOK'
  BY <1>1 DEF MemoryOK
<1>5. WritersOK'
  BY <1>1, <1>2 DEF WritersOK
<1>6. Turns'
  BY <1>1, <1>2, <1>3 DEF Turns, WritersOK
<1>7. Covered' /\ Agreed'
  BY <1>1, <1>3 DEF Covered, Agreed, Saved
<1>8. Framed'
  BY <1>1, <1>2 DEF Framed, Owes, WritersOK
<1> QED BY <1>4, <1>5, <1>6, <1>7, <1>8

\* When processes take turns, nobody else owes or holds anything.
LEMMA OthersIdle ==
    ASSUME WritersOK, Turns, exclusive, NEW p \in Procs, pc[p] # "idle",
           NEW q \in Procs, q # p
    PROVE  pc[q] = "idle" /\ todo[q] = <<>> /\ writer[q] = "none" /\ Owes(q) = "nothing"
BY DEF WritersOK, Turns, Owes

\* What begins a file is the magic number and then a record like any other.
LEMMA FirstRecord ==
    ASSUME NEW i, NEW n
    PROVE  /\ <<Magic>> \o Frame(i, n) = <<Magic, Length, Payload(i, n)>>
           /\ << >> \o Frame(i, n) = <<Length, Payload(i, n)>>
<1>1. ASSUME NEW a, NEW b, NEW c
      PROVE  <<a>> \o <<b, c>> = <<a, b, c>> /\ << >> \o <<b, c>> = <<b, c>>
  <2> DEFINE S == {a, b, c}
             r == <<a>> \o <<b, c>>
  <2>1. <<a>> \in Seq(S) /\ <<b, c>> \in Seq(S) /\ <<a, b, c>> \in Seq(S)
    OBVIOUS
  <2>2. /\ r \in Seq(S) /\ Len(r) = 3
        /\ \A k \in 1..3 : r[k] = IF k <= 1 THEN <<a>>[k] ELSE <<b, c>>[k - 1]
    BY <2>1, ConcatProperties, Len(<<a>>) = 1, Len(<<b, c>>) = 2
  <2>3. r[1] = a /\ r[2] = b /\ r[3] = c
    BY <2>2
  <2>4. \A k \in 1..Len(<<a, b, c>>) : <<a, b, c>>[k] = r[k]
    BY <2>3
  <2>5. r = <<a, b, c>>
    <3> HIDE DEF S, r
    <3> QED BY <2>1, <2>2, <2>4, SeqEqual, Len(<<a, b, c>>) = 3
  <2> QED BY <2>1, <2>5, ConcatEmptySeq
<1> QED BY <1>1 DEF Frame

\* The beginning of a record: only the first one of a file owes the magic number.
LEMMA BeginRecordKeeps ==
    ASSUME IInv, NEW p \in Procs, NEW i \in Ids, BeginRecord(p, i)
    PROVE  IInv'
<1> USE DEF IInv
<1> DEFINE new == writer[p] = "none" /\ file = <<>>
           n == records'
<1>1. UNCHANGED <<exclusive, file, pc, previous, recorded, faults, acked, torn>>
  BY DEF BeginRecord
<1>2. /\ pc[p] = "building" /\ todo[p] = <<>>
      /\ records < MaxRecords /\ n = records + 1
      /\ current' = [current EXCEPT ![p] = <<i, n>>]
      /\ todo' = [todo EXCEPT ![p] = (IF new THEN <<Magic>> ELSE <<>>) \o Frame(i, n)]
      /\ writer' = [writer EXCEPT ![p] = IF @ = "none" THEN "current" ELSE @]
  BY DEF BeginRecord
<1>3. MaxRecords \in Nat /\ records \in Nat /\ n \in 0..MaxRecords /\ n \in 1..n
  BY <1>2, BoundsAssumption DEF MemoryOK
<1>4. Chunks(records) \subseteq Chunks(n) /\ EntriesUpTo(records) \subseteq EntriesUpTo(n)
  <2>1. 1..records \subseteq 1..n /\ 0..records \subseteq 0..n
    BY <1>2, <1>3
  <2> QED BY <2>1 DEF Chunks, EntriesUpTo
<1>5. MemoryOK'
  <2>1. file \in Seq(Chunks(n))
    BY <1>4, SeqMonotonic DEF MemoryOK
  <2>2. /\ previous \in [Procs -> EntriesUpTo(n)] /\ recorded \in [Procs -> EntriesUpTo(n)]
        /\ acked \in EntriesUpTo(n)
    BY <1>4 DEF MemoryOK
  <2> QED BY <1>1, <1>3, <2>1, <2>2 DEF MemoryOK
<1>6. /\ todo'[p] = IF new THEN <<Magic, Length, Payload(i, n)>> ELSE <<Length, Payload(i, n)>>
      /\ current'[p] = <<i, n>> /\ writer'[p] # "none"
      /\ \A q \in Procs \ {p} : todo'[q] = todo[q] /\ current'[q] = current[q] /\ writer'[q] = writer[q]
  <2>1. DOMAIN todo = Procs /\ DOMAIN current = Procs /\ writer \in [Procs -> {"none", "current", "replaced"}]
    BY DEF WritersOK
  <2>2. /\ <<Magic>> \o Frame(i, n) = <<Magic, Length, Payload(i, n)>>
        /\ << >> \o Frame(i, n) = <<Length, Payload(i, n)>>
    BY FirstRecord
  <2>3. todo'[p] = IF new THEN <<Magic, Length, Payload(i, n)>> ELSE <<Length, Payload(i, n)>>
    <3>1. todo'[p] = (IF new THEN <<Magic>> ELSE <<>>) \o Frame(i, n)
      BY <1>2, <2>1
    <3> QED BY <2>2, <3>1
  <2>4. current'[p] = <<i, n>> /\ writer'[p] # "none"
    BY <1>2, <2>1
  <2>5. \A q \in Procs \ {p} : todo'[q] = todo[q] /\ current'[q] = current[q] /\ writer'[q] = writer[q]
    BY <1>2, <2>1
  <2> QED BY <2>3, <2>4, <2>5
<1>7. WritersOK'
  <2>1. writer' \in [Procs -> {"none", "current", "replaced"}] /\ DOMAIN todo' = Procs /\ DOMAIN current' = Procs
    BY <1>2 DEF WritersOK
  <2>2. \A q \in Procs : pc'[q] # "building" => todo'[q] = <<>> /\ writer'[q] = "none"
    BY <1>1, <1>2, <1>6 DEF WritersOK
  <2>3. todo'[p] \in Rest(i, n)
    BY <1>6 DEF Rest
  <2>4. ASSUME NEW q \in Procs, todo'[q] # <<>>
        PROVE  writer'[q] # "none" /\ \E j \in Ids, m \in 1..n : current'[q] = <<j, m>> /\ todo'[q] \in Rest(j, m)
    <3>1. CASE q = p
      BY <3>1, <1>3, <1>6, <2>3
    <3>2. CASE q # p
      <4>1. writer[q] # "none" /\ \E j \in Ids, m \in 1..records : current[q] = <<j, m>> /\ todo[q] \in Rest(j, m)
        BY <3>2, <1>6, <2>4 DEF WritersOK
      <4>2. 1..records \subseteq 1..n
        BY <1>2, <1>3
      <4> QED BY <4>1, <4>2, <3>2, <1>6
    <3> QED BY <3>1, <3>2
  <2> QED BY <1>1, <2>1, <2>2, <2>4 DEF WritersOK
<1>8. exclusive => \A q \in Procs \ {p} :
          todo'[q] = <<>> /\ writer'[q] = "none" /\ Owes(q) = "nothing"
  BY <1>2, <1>6, OthersIdle
<1>9. Turns'
  <2>1. exclusive => writer'[p] # "replaced"
    BY <1>2 DEF Turns, WritersOK
  <2> QED BY <1>1, <1>6, <1>8, <2>1 DEF Turns
<1>10. Covered' /\ Agreed'
  BY <1>1 DEF Covered, Agreed, Saved
<1>11. Framed'
  <2> SUFFICES ASSUME exclusive, ~torn PROVE Framed'
    BY <1>1 DEF Framed
  <2>1. Owes(p) = "nothing"
    BY <1>2 DEF Owes
  <2>2. WholeFrames(file) /\ (file = <<>> \/ Len(file) % 2 = 1)
    BY <1>8, <2>1 DEF Framed
  <2>3. file = <<>> \/ Owes(p)' = "length"
    BY <1>6 DEF Owes, Length
  <2>4. file # <<>> \/ Owes(p)' = "magic"
    <3>1. file = <<>> => writer[p] = "none"
      BY <2>1 DEF Framed, Turns, WritersOK
    <3> QED BY <3>1, <1>6 DEF Owes, Magic
  <2>5. \A q \in Procs : q # p => Owes(q)' = "nothing" /\ writer'[q] = "none"
    BY <1>8 DEF Owes
  <2> QED BY <1>1, <2>2, <2>3, <2>4, <2>5 DEF Framed
<1> QED BY <1>5, <1>7, <1>9, <1>10, <1>11

\* A compaction: the file is what the build had in memory.
LEMMA CompactKeeps ==
    ASSUME IInv, NEW p \in Procs, Compact(p)
    PROVE  IInv'
<1> USE DEF IInv
<1>1. UNCHANGED <<exclusive, previous, recorded, todo, current, records, faults, acked, torn>>
  BY DEF Compact
<1>2. /\ pc[p] = "compacting" /\ pc' = [pc EXCEPT ![p] = "idle"]
      /\ file' = FileOf(Saved(p))
      /\ writer' = [q \in Procs |-> IF writer[q] = "current" THEN "replaced" ELSE writer[q]]
  BY DEF Compact
<1>3. records \in Nat /\ Saved(p) \in EntriesUpTo(records)
  BY SavedFacts, BoundsAssumption DEF MemoryOK
<1>4. /\ file' \in Seq(Chunks(records)) /\ file' # <<>>
      /\ WholeFrames(file') /\ Len(file') % 2 = 1
      /\ Decode(file') = Saved(p)
  BY <1>2, <1>3, FileOfIsDecoded
<1>5. MemoryOK'
  BY <1>1, <1>4 DEF MemoryOK
<1>6. WritersOK'
  BY <1>1, <1>2 DEF WritersOK
<1>7. exclusive => \A q \in Procs : pc'[q] = "idle" /\ todo[q] = <<>> /\ writer'[q] = "none"
  <2>1. ASSUME exclusive, NEW q \in Procs, q # p
        PROVE  pc'[q] = "idle" /\ todo[q] = <<>> /\ writer'[q] = "none"
    BY <1>2, <2>1, OthersIdle DEF WritersOK
  <2>2. pc'[p] = "idle" /\ todo[p] = <<>> /\ writer'[p] = "none"
    BY <1>2 DEF WritersOK
  <2> QED BY <2>1, <2>2
<1>8. Turns' /\ Covered'
  BY <1>1, <1>7 DEF Turns, Covered
<1>9. Agreed'
  BY <1>1, <1>2, <1>4, <1>7 DEF Agreed
<1>10. Framed'
  BY <1>1, <1>4, <1>7 DEF Framed, Owes
<1> QED BY <1>5, <1>6, <1>8, <1>9, <1>10

\* A write: the last one of a record makes it readable where frames are whole.
LEMMA WriteKeeps ==
    ASSUME IInv, NEW p \in Procs, Write(p)
    PROVE  IInv'
<1> USE DEF IInv
<1> DEFINE c == Head(todo[p])
<1>1. UNCHANGED <<exclusive, pc, previous, writer, current, records, faults, torn>>
  BY DEF Write
<1>2. /\ todo[p] # <<>> /\ todo' = [todo EXCEPT ![p] = Tail(@)]
      /\ file' = IF writer[p] = "current" THEN file \o <<c>> ELSE file
  BY DEF Write, Appended
<1>3. PICK i \in Ids, n \in 1..records :
         /\ current[p] = <<i, n>> /\ current[p][1] = i /\ current[p][2] = n
         /\ c \in Chunks(records)
         /\ \/ c = Payload(i, n) /\ Owes(p) = "payload" /\ Tail(todo[p]) = <<>>
            \/ c = Length /\ Owes(p) = "length" /\ Tail(todo[p]) = <<Payload(i, n)>>
            \/ c = Magic /\ Owes(p) = "magic" /\ Tail(todo[p]) = <<Length, Payload(i, n)>>
  BY <1>2, OwedFacts
<1>4. /\ todo'[p] = Tail(todo[p]) /\ \A q \in Procs : q # p => todo'[q] = todo[q]
      /\ pc[p] = "building"
  BY <1>2 DEF WritersOK
<1>5. /\ Tail(todo[p]) = <<>> =>
            /\ recorded' = [recorded EXCEPT ![p][i] = n]
            /\ acked' = [acked EXCEPT ![i] = n]
      /\ Tail(todo[p]) # <<>> => UNCHANGED <<recorded, acked>>
  BY <1>3, <1>4 DEF Write
<1>6. records \in Nat /\ n \in 1..records /\ n \in 0..records
  BY BoundsAssumption DEF MemoryOK
<1>7. c.chunk = "payload" <=> c = Payload(i, n)
  BY <1>3 DEF Payload, Length, Magic
<1>8. c = Payload(i, n) => c.id = i /\ c.entry = n
  BY DEF Payload
<1> HIDE DEF c
<1>9. c = Payload(i, n) <=> Tail(todo[p]) = <<>>
  <2>1. <<Payload(i, n)>> # <<>> /\ <<Length, Payload(i, n)>> # <<>>
    OBVIOUS
  <2>2. Payload(i, n) # Length /\ Payload(i, n) # Magic
    BY DEF Payload, Length, Magic
  <2> QED BY <1>3, <2>1, <2>2
<1>10. MemoryOK'
  <2>1. file' \in Seq(Chunks(records))
    BY <1>2, <1>3 DEF MemoryOK
  <2>2. recorded' \in [Procs -> EntriesUpTo(records)] /\ acked' \in EntriesUpTo(records)
    <3>1. recorded \in [Procs -> EntriesUpTo(records)] /\ acked \in EntriesUpTo(records)
      BY DEF MemoryOK
    <3>2. /\ [recorded EXCEPT ![p][i] = n] \in [Procs -> EntriesUpTo(records)]
          /\ [acked EXCEPT ![i] = n] \in EntriesUpTo(records)
      BY <3>1, <1>6 DEF EntriesUpTo
    <3> QED BY <3>1, <3>2, <1>5
  <2> QED BY <1>1, <2>1, <2>2 DEF MemoryOK
<1>11. WritersOK'
  <2>1. DOMAIN todo' = Procs
    BY <1>2 DEF WritersOK
  <2>2. \A q \in Procs : pc[q] # "building" => todo'[q] = <<>> /\ writer[q] = "none"
    BY <1>4 DEF WritersOK
  <2>3. todo'[p] = <<>> \/ todo'[p] \in Rest(i, n)
    BY <1>3, <1>4 DEF Rest
  <2>4. writer[p] # "none"
    BY <1>2 DEF WritersOK
  <2>5. \A q \in Procs : todo'[q] # <<>> =>
           /\ writer[q] # "none"
           /\ \E j \in Ids, m \in 1..records : current[q] = <<j, m>> /\ todo'[q] \in Rest(j, m)
    BY <1>3, <1>4, <2>3, <2>4 DEF WritersOK
  <2> QED BY <1>1, <2>1, <2>2, <2>5 DEF WritersOK
<1>12. Turns'
  BY <1>1, <1>2, <1>4 DEF Turns
<1>13. \A j \in Ids : Saved(p)'[j] = IF c = Payload(i, n) /\ j = i THEN n ELSE Saved(p)[j]
  <2>1. \A j \in Ids : recorded'[p][j] = IF c = Payload(i, n) /\ j = i THEN n ELSE recorded[p][j]
    BY <1>5, <1>9 DEF MemoryOK, EntriesUpTo
  <2>2. \A j \in Ids : Saved(p)'[j] = IF recorded'[p][j] # NoEntry THEN recorded'[p][j] ELSE previous[p][j]
    BY <1>1 DEF Saved, Extend
  <2>3. \A j \in Ids : Saved(p)[j] = IF recorded[p][j] # NoEntry THEN recorded[p][j] ELSE previous[p][j]
    BY DEF Saved, Extend
  <2> QED BY <2>1, <2>2, <2>3, <1>6 DEF NoEntry
<1>14. \A q \in Procs : exclusive /\ q # p => pc[q] = "idle" /\ Owes(q)' = "nothing" /\ writer[q] = "none"
  BY <1>4, OthersIdle DEF Owes
<1>15. \A j \in Ids :
          /\ Decode(file')[j] = Decode(file)[j] \/ (c = Payload(i, n) /\ j = i /\ Decode(file')[j] = n)
          /\ writer[p] = "current" /\ WholeFrames(file) /\ Len(file) > 1 /\ Len(file) % 2 = 0
                /\ c = Payload(i, n) /\ j = i => Decode(file')[j] = n
  <2>1. file \in Seq(Chunks(records))
    BY DEF MemoryOK
  <2>2. CASE writer[p] = "current"
    <3>1. file' = file \o <<c>>
      BY <1>2, <2>2
    <3> QED BY <2>1, <3>1, <1>3, <1>6, <1>7, <1>8, DecodeAppended
  <2>3. CASE writer[p] # "current"
    BY <1>2, <2>3
  <2> QED BY <2>2, <2>3
<1>16. Covered'
  <2> SUFFICES ASSUME exclusive, NEW j \in Ids
               PROVE  Decode(file')[j] <= Saved(p)'[j]
    BY <1>1, <1>14 DEF Covered
  <2>1. Decode(file) \in EntriesUpTo(records)
    BY <1>6, DecodeType DEF MemoryOK
  <2>2. Decode(file)[j] <= Saved(p)[j] /\ Decode(file)[j] <= records /\ n = records
    BY <2>1, <1>2, <1>3, <1>4, <1>6 DEF Covered, Turns, EntriesUpTo
  <2> QED BY <2>2, <1>13, <1>15, <1>6
<1>17. ASSUME exclusive, ~torn
       PROVE  /\ writer[p] = "current" /\ file' = file \o <<c>>
              /\ WholeFrames(file)
              /\ Owes(p) = "magic" => file = <<>>
              /\ Owes(p) = "length" => Len(file) % 2 = 1
              /\ Owes(p) = "payload" => Len(file) > 1 /\ Len(file) % 2 = 0
  <2>1. writer[p] = "current"
    BY <1>17, <1>2 DEF Turns, WritersOK
  <2>2. Owes(p) # "payload" => \A q \in Procs : Owes(q) # "payload"
    BY <1>17, <1>4, OthersIdle
  <2>3. /\ WholeFrames(file)
        /\ Owes(p) = "magic" => file = <<>>
        /\ Owes(p) = "length" => Len(file) % 2 = 1
        /\ Owes(p) = "payload" => Len(file) > 1 /\ Len(file) % 2 = 0
    BY <1>17, <2>2 DEF Framed
  <2> QED BY <1>2, <2>1, <2>3
<1>18. Agreed'
  <2> SUFFICES ASSUME exclusive, ~torn
               PROVE  Decode(file') = acked' /\ Saved(p)' = acked'
    BY <1>1, <1>14 DEF Agreed
  <2>1. Decode(file) = acked /\ Saved(p) = acked
    BY <1>4 DEF Agreed
  <2>2. \A j \in Ids : acked'[j] = IF c = Payload(i, n) /\ j = i THEN n ELSE acked[j]
    BY <1>5, <1>9 DEF MemoryOK, EntriesUpTo
  <2>3. \A j \in Ids : Decode(file')[j] = acked'[j]
    <3>1. ASSUME NEW j \in Ids, c = Payload(i, n), j = i
          PROVE  Decode(file')[j] = n
      <4>1. Owes(p) = "payload"
        BY <3>1, <1>7, <1>2 DEF Owes, c
      <4> QED BY <3>1, <4>1, <1>15, <1>17
    <3>2. ASSUME NEW j \in Ids, ~(c = Payload(i, n) /\ j = i)
          PROVE  Decode(file')[j] = Decode(file)[j]
      BY <3>2, <1>15
    <3> QED BY <3>1, <3>2, <2>1, <2>2
  <2>4. \A j \in Ids : Saved(p)'[j] = acked'[j]
    BY <2>1, <2>2, <1>13
  <2>5. acked' = [j \in Ids |-> acked'[j]]
    BY <1>10 DEF MemoryOK, EntriesUpTo
  <2>6. Decode(file') = [j \in Ids |-> Decode(file')[j]]
    BY DEF Decode
  <2>7. Saved(p)' = [j \in Ids |-> Saved(p)'[j]]
    BY DEF Saved, Extend
  <2> QED BY <2>3, <2>4, <2>5, <2>6, <2>7
<1>19. Framed'
  <2> SUFFICES ASSUME exclusive, ~torn PROVE Framed'
    BY <1>1 DEF Framed
  <2>1. Len(file) \in Nat /\ Len(file') = Len(file) + 1 /\ file' # <<>>
        /\ file'[Len(file) + 1] = c /\ \A k \in 1..Len(file) : file'[k] = file[k]
    BY <1>3, <1>17 DEF MemoryOK
  <2>2. Payload(i, n).chunk = "payload" /\ Length.chunk = "length" /\ Magic.chunk = "magic"
    BY DEF Payload, Length, Magic
  <2>3. /\ Owes(p) = "magic" => c = Magic /\ Owes(p)' = "length"
        /\ Owes(p) = "length" => c = Length /\ Owes(p)' = "payload"
        /\ Owes(p) = "payload" => c = Payload(i, n) /\ Owes(p)' = "nothing"
        /\ Owes(p) \in {"magic", "length", "payload"}
    <3>1. CASE c = Magic /\ Owes(p) = "magic" /\ Tail(todo[p]) = <<Length, Payload(i, n)>>
      <4>1. todo'[p] # <<>> /\ Head(todo'[p]) = Length
        <5>1. <<Length, Payload(i, n)>> # <<>> /\ Head(<<Length, Payload(i, n)>>) = Length
          OBVIOUS
        <5>2. todo'[p] = <<Length, Payload(i, n)>>
          BY <3>1, <1>4
        <5> QED BY <5>1, <5>2
      <4>2. Owes(p)' = "length"
        BY <2>2, <4>1 DEF Owes
      <4> QED BY <3>1, <4>2
    <3>2. CASE c = Length /\ Owes(p) = "length" /\ Tail(todo[p]) = <<Payload(i, n)>>
      <4>1. todo'[p] # <<>> /\ Head(todo'[p]) = Payload(i, n)
        <5>1. <<Payload(i, n)>> # <<>> /\ Head(<<Payload(i, n)>>) = Payload(i, n)
          OBVIOUS
        <5>2. todo'[p] = <<Payload(i, n)>>
          BY <3>2, <1>4
        <5> QED BY <5>1, <5>2
      <4>2. Owes(p)' = "payload"
        BY <2>2, <4>1 DEF Owes
      <4> QED BY <3>2, <4>2
    <3>3. CASE c = Payload(i, n) /\ Owes(p) = "payload" /\ Tail(todo[p]) = <<>>
      <4>1. Owes(p)' = "nothing"
        BY <3>3, <1>4 DEF Owes
      <4> QED BY <3>3, <4>1
    <3> QED BY <3>1, <3>2, <3>3, <1>3
  <2>4. CASE Owes(p) = "magic"
    <3>1. Len(file) = 0 /\ Len(file') = 1 /\ file'[1] = Magic
      BY <2>1, <2>3, <2>4, <1>17
    <3>2. WholeFrames(file')
      BY <3>1 DEF WholeFrames
    <3> QED BY <3>1, <3>2, <2>1, <2>3, <2>4, <1>1, <1>14 DEF Framed
  <2>5. CASE Owes(p) = "length"
    <3>1. Len(file) % 2 = 1 /\ Len(file') % 2 = 0 /\ Len(file') > 1
      BY <2>1, <2>5, <1>17
    <3>2. WholeFrames(file')
      BY <3>1, <2>1, <2>3, <2>5, <1>17 DEF WholeFrames
    <3>3. Owes(p)' = "payload"
      BY <2>3, <2>5
    <3> QED BY <3>1, <3>2, <3>3, <2>1, <1>1, <1>14 DEF Framed
  <2>6. CASE Owes(p) = "payload"
    <3>1. Len(file) > 1 /\ Len(file) % 2 = 0 /\ Len(file') % 2 = 1
      BY <2>1, <2>6, <1>17
    <3>2. WholeFrames(file')
      BY <3>1, <2>1, <2>2, <2>3, <2>6, <1>17 DEF WholeFrames
    <3>3. Owes(p)' = "nothing"
      BY <2>3, <2>6
    <3> QED BY <3>1, <3>2, <3>3, <2>1, <1>1, <1>14 DEF Framed
  <2> QED BY <2>3, <2>4, <2>5, <2>6
<1> QED BY <1>10, <1>11, <1>12, <1>16, <1>18, <1>19

\* What a cut leaves: nothing that is read, and no torn frame only if the file stays as
\* it was between two frames.
LEMMA CutFacts ==
    ASSUME IInv, NEW p \in Procs, todo[p] # <<>>, Cut(p)
    PROVE  /\ file' \in Seq(Chunks(records))
           /\ Decode(file') = Decode(file)
           /\ torn' \in BOOLEAN
           /\ ~torn' /\ writer[p] = "current" => ~torn /\ file' = file /\ Owes(p) # "payload"
<1>1. PICK rest \in {<<>>, <<Junk>>} :
         /\ file' = Appended(p, rest)
         /\ torn' = (torn \/ (rest # <<>> \/ Head(todo[p]).chunk = "payload"))
  BY DEF Cut
<1>2. file \in Seq(Chunks(records)) /\ records \in Nat /\ Junk \in Chunks(records) /\ Junk.chunk # "payload"
  BY BoundsAssumption DEF IInv, MemoryOK, Chunks, Junk
<1>3. file' = file \/ file' = file \o <<Junk>>
  <2>1. file \o <<>> = file
    BY <1>2, ConcatEmptySeq
  <2> QED BY <1>1, <2>1 DEF Appended
<1>4. Decode(file') = Decode(file) /\ file' \in Seq(Chunks(records))
  <2>1. CASE file' = file \o <<Junk>>
    BY <2>1, <1>2, DecodeUnmoved
  <2> QED BY <2>1, <1>2, <1>3
<1>5. torn \in BOOLEAN
  BY DEF IInv, MemoryOK
<1>6. CASE rest = <<>>
  <2>1. torn' = (torn \/ Head(todo[p]).chunk = "payload") /\ file' = file
    BY <1>1, <1>2, <1>6 DEF Appended
  <2> QED BY <1>4, <1>5, <2>1 DEF Owes
<1>7. CASE rest = <<Junk>>
  <2>1. rest # <<>> /\ torn'
    BY <1>1, <1>7
  <2>2. torn' \in BOOLEAN
    BY <1>1, <1>5
  <2> QED BY <1>4, <2>1, <2>2
<1> QED BY <1>1, <1>6, <1>7

\* A write that fails, and a crash, leave a whole file or a torn one.
LEMMA FaultKeeps ==
    ASSUME IInv, NEW p \in Procs, WriteFails(p) \/ Crash(p)
    PROVE  IInv'
<1> USE DEF IInv
<1>1. UNCHANGED <<exclusive, previous, recorded, current, records, acked>>
  BY DEF WriteFails, Crash
<1>2. /\ faults < MaxFaults /\ faults' = faults + 1
      /\ pc[p] # "idle" /\ todo' = [todo EXCEPT ![p] = <<>>]
      /\ pc' \in {pc, [pc EXCEPT ![p] = "idle"]}
      /\ writer' \in {writer, [writer EXCEPT ![p] = "none"]}
  BY DEF WriteFails, Crash, WritersOK
<1>3. /\ file' \in Seq(Chunks(records))
      /\ Decode(file') = Decode(file)
      /\ torn' \in BOOLEAN
      /\ exclusive /\ ~torn' => ~torn /\ file' = file /\ Owes(p) # "payload"
  <2>1. CASE todo[p] = <<>>
    <3>1. UNCHANGED <<file, torn>> /\ Owes(p) = "nothing"
      BY <2>1 DEF WriteFails, Crash, Owes
    <3> QED BY <3>1 DEF MemoryOK
  <2>2. CASE todo[p] # <<>>
    <3>1. Cut(p)
      BY <2>2 DEF WriteFails, Crash
    <3>2. exclusive => writer[p] = "current"
      BY <2>2 DEF Turns, WritersOK
    <3> QED BY <2>2, <3>1, <3>2, CutFacts
  <2> QED BY <2>1, <2>2
<1>4. MemoryOK'
  <2>1. faults' \in 0..MaxFaults
    BY <1>2, BoundsAssumption DEF MemoryOK
  <2> QED BY <1>1, <1>3, <2>1 DEF MemoryOK
<1>5. \A q \in Procs : /\ pc'[q] # "idle" => pc[q] # "idle"
                       /\ todo'[q] = <<>> \/ todo'[q] = todo[q]
                       /\ todo'[q] # <<>> => q # p
                       /\ writer'[q] \in {writer[q], "none"}
                       /\ q # p => writer'[q] = writer[q] /\ pc'[q] = pc[q]
  BY <1>2 DEF WritersOK
<1>6. todo'[p] = <<>> /\ (pc'[p] = "building" \/ writer'[p] = "none")
  <2>1. CASE WriteFails(p)
    BY <2>1, <1>2 DEF WriteFails, WritersOK
  <2>2. CASE Crash(p)
    BY <2>2, <1>2 DEF Crash, WritersOK
  <2> QED BY <2>1, <2>2
<1>7. WritersOK'
  <2>1. /\ pc' \in [Procs -> {"idle", "building", "compacting"}]
        /\ writer' \in [Procs -> {"none", "current", "replaced"}]
        /\ DOMAIN todo' = Procs /\ DOMAIN current' = Procs
    BY <1>1, <1>2 DEF WritersOK
  <2>2. \A q \in Procs : pc'[q] # "building" => todo'[q] = <<>> /\ writer'[q] = "none"
    BY <1>5, <1>6 DEF WritersOK
  <2>3. \A q \in Procs : todo'[q] # <<>> =>
           /\ writer'[q] # "none"
           /\ \E j \in Ids, m \in 1..records : current[q] = <<j, m>> /\ todo'[q] \in Rest(j, m)
    BY <1>5 DEF WritersOK
  <2> QED BY <1>1, <2>1, <2>2, <2>3 DEF WritersOK
<1>8. Turns'
  BY <1>1, <1>5 DEF Turns, WritersOK
<1>9. Covered'
  BY <1>1, <1>3, <1>5 DEF Covered, Saved
<1>10. Agreed'
  BY <1>1, <1>3, <1>5 DEF Agreed, Saved
<1>11. Framed'
  <2> SUFFICES ASSUME exclusive, ~torn' PROVE Framed'
    BY <1>1 DEF Framed
  <2>1. ~torn /\ file' = file /\ Owes(p) # "payload"
    BY <1>3
  <2>2. \A q \in Procs : q # p => Owes(q) = "nothing" /\ Owes(q)' = "nothing" /\ writer'[q] = "none"
    BY <1>2, <1>5, OthersIdle DEF Owes
  <2>3. WholeFrames(file) /\ (file = <<>> \/ Len(file) % 2 = 1)
    BY <2>1, <2>2 DEF Framed
  <2>4. Owes(p)' = "nothing"
    BY <1>6 DEF Owes
  <2>5. writer'[p] = "current" => file # <<>>
    <3>1. CASE todo[p] = <<>>
      BY <3>1, <2>1, <1>5 DEF Framed, Owes
    <3>2. CASE todo[p] # <<>>
      <4>1. Head(todo[p]).chunk = Owes(p) /\ Owes(p) \in {"magic", "length", "payload"}
            /\ (Owes(p) = "magic" => Head(todo[p]) = Magic)
        BY <3>2, OwedFacts DEF Owes
      <4>2. Owes(p) = "magic" => writer'[p] = "none"
        BY <4>1, <1>2 DEF WriteFails, Crash, WritersOK
      <4> QED BY <2>1, <4>1, <4>2 DEF Framed
    <3> QED BY <3>1, <3>2
  <2> QED BY <2>1, <2>2, <2>3, <2>4, <2>5 DEF Framed
<1> QED BY <1>4, <1>7, <1>8, <1>9, <1>10, <1>11

\* Every step keeps the invariant.
LEMMA NextIInv == IInv /\ [Next]_vars => IInv'
<1> SUFFICES ASSUME IInv, [Next]_vars PROVE IInv'
  OBVIOUS
<1>1. CASE UNCHANGED vars
  BY <1>1 DEF vars, program, IInv, MemoryOK, WritersOK, Turns, Covered, Agreed, Framed, Saved, Owes
<1>2. ASSUME NEW p \in Procs,
             \/ Load(p) \/ \E i \in Ids : BeginRecord(p, i)
             \/ Write(p) \/ WriteFails(p) \/ Crash(p)
             \/ EndBuild(p) \/ Compact(p)
      PROVE  IInv'
  BY <1>2, LoadKeeps, BeginRecordKeeps, WriteKeeps, FaultKeeps, EndBuildKeeps, CompactKeeps
<1> QED BY <1>1, <1>2 DEF Next

-----------------------------------------------------------------------------
(* The theorems.                                                           *)

\* What is in the file and what the processes have in memory agree as far as turns
\* are taken and no frame is torn, in every reachable state, for any processes and
\* ids, without the bounds.
THEOREM JournalInvariant == Spec => []IInv
BY InitIInv, NextIInv, PTL DEF Spec

\* Types: chunks, entries and what is left to write.
THEOREM TypeCorrect == Spec => []TypeOK
<1>1. ASSUME IInv PROVE TypeOK
  <2> USE <1>1 DEF IInv
  <2>1. MaxRecords \in Nat /\ records \in 0..MaxRecords
    BY BoundsAssumption DEF MemoryOK
  <2>2. 1..records \subseteq 1..MaxRecords /\ 0..records \subseteq 0..MaxRecords
    BY <2>1
  <2>3. ASSUME NEW k \in DOMAIN file
        PROVE  \/ file[k] \in {Magic, Length, Junk}
               \/ \E i \in Ids, n \in 1..MaxRecords : file[k] = Payload(i, n)
    <3>1. file[k] \in Chunks(records)
      BY <2>3 DEF MemoryOK
    <3> QED BY <3>1, <2>2 DEF Chunks
  <2>4. EntriesUpTo(records) \subseteq Entries
    BY <2>2 DEF EntriesUpTo, Entries
  <2>5. /\ previous \in [Procs -> Entries] /\ recorded \in [Procs -> Entries]
        /\ acked \in Entries
    BY <2>4 DEF MemoryOK
  <2>6. ASSUME NEW p \in Procs PROVE Len(todo[p]) <= 3
    <3>1. CASE todo[p] = <<>>
      BY <3>1
    <3>2. ASSUME NEW i, NEW n, todo[p] \in Rest(i, n) PROVE Len(todo[p]) <= 3
      <4>1. \A x, y, z : Len(<<x>>) = 1 /\ Len(<<x, y>>) = 2 /\ Len(<<x, y, z>>) = 3
        OBVIOUS
      <4>2. /\ Len(<<Payload(i, n)>>) = 1 /\ Len(<<Length, Payload(i, n)>>) = 2
            /\ Len(<<Magic, Length, Payload(i, n)>>) = 3
        BY <4>1
      <4>3. Len(todo[p]) = 1 \/ Len(todo[p]) = 2 \/ Len(todo[p]) = 3
        BY <3>2, <4>2 DEF Rest
      <4>4. \A l : l = 1 \/ l = 2 \/ l = 3 => l <= 3
        OBVIOUS
      <4> QED BY <4>3, <4>4
    <3> QED BY <3>1, <3>2 DEF WritersOK
  <2> QED BY <2>3, <2>5, <2>6 DEF TypeOK, MemoryOK, WritersOK
<1> QED BY <1>1, JournalInvariant, PTL

\* When processes take turns, a build loads exactly what earlier ones completed, through
\* any compaction and any crash that does not cut a frame in two.
THEOREM LoadsWhatWasCompletedHolds == Spec => []LoadsWhatWasCompleted
<1>1. IInv => LoadsWhatWasCompleted
  BY DEF IInv, Agreed, LoadsWhatWasCompleted
<1> QED BY <1>1, JournalInvariant, PTL

\* What a write makes readable is its own record, the latest one when turns are taken.
LEMMA WriteReads ==
    ASSUME IInv, NEW p \in Procs, Write(p), NEW i \in Ids
    PROVE  \/ Decode(file')[i] = Decode(file)[i]
           \/ /\ Decode(file')[i] \in 1..records
              /\ exclusive => Decode(file')[i] = records
<1>1. /\ todo[p] # <<>> /\ file' = IF writer[p] = "current" THEN file \o <<Head(todo[p])>> ELSE file
  BY DEF Write, Appended
<1>2. PICK j \in Ids, n \in 1..records :
         /\ current[p][2] = n /\ Head(todo[p]) \in Chunks(records)
         /\ Head(todo[p]) \in {Payload(j, n), Length, Magic}
  BY <1>1, OwedFacts DEF IInv
<1>3. Head(todo[p]).chunk = "payload" => Head(todo[p]).entry = n
  BY <1>2 DEF Payload, Length, Magic
<1>4. file \in Seq(Chunks(records)) /\ records \in Nat
  BY BoundsAssumption DEF IInv, MemoryOK
<1>5. exclusive => n = records
  BY <1>1, <1>2 DEF IInv, Turns
<1>6. CASE writer[p] = "current"
  <2>1. \/ Decode(file')[i] = Decode(file)[i]
        \/ Head(todo[p]).chunk = "payload" /\ Decode(file')[i] = Head(todo[p]).entry
    BY <1>1, <1>2, <1>4, <1>6, DecodeAppended
  <2> QED BY <2>1, <1>2, <1>3, <1>5
<1>7. CASE writer[p] # "current"
  BY <1>1, <1>7
<1> QED BY <1>6, <1>7

\* No step takes away what could be loaded, except a compaction while others write;
\* and when turns are taken an entry is only superseded by a later one.
THEOREM HistoryIsKeptHolds == Spec => HistoryIsKept
<1> DEFINE Kept(i) ==
              /\ exclusive => Decode(file)[i] <= Decode(file')[i]
              /\ \/ \E p \in Procs : Compact(p)
                 \/ Decode(file)[i] # NoEntry => Decode(file')[i] # NoEntry
           Keeps == \A i \in Ids : Kept(i)
<1>1. ASSUME IInv, [Next]_vars PROVE [Keeps]_vars
  <2> SUFFICES ASSUME NEW i \in Ids PROVE Kept(i) \/ UNCHANGED vars
    OBVIOUS
  <2>1. records \in Nat /\ Decode(file)[i] \in 0..records
    BY <1>1, BoundsAssumption, DecodeType DEF IInv, MemoryOK, EntriesUpTo
  <2>2. Decode(file')[i] = Decode(file)[i] => Kept(i)
    BY <2>1
  <2>3. ASSUME NEW p \in Procs, Write(p) PROVE Kept(i)
    <3>1. CASE Decode(file')[i] \in 1..records /\ (exclusive => Decode(file')[i] = records)
      BY <3>1, <2>1 DEF NoEntry
    <3> QED BY <1>1, <2>2, <2>3, <3>1, WriteReads
  <2>4. ASSUME NEW p \in Procs, WriteFails(p) \/ Crash(p) PROVE Kept(i)
    <3>1. Decode(file') = Decode(file)
      <4>1. CASE todo[p] = <<>>
        BY <2>4, <4>1 DEF WriteFails, Crash
      <4>2. CASE todo[p] # <<>>
        BY <1>1, <2>4, <4>2, CutFacts DEF WriteFails, Crash
      <4> QED BY <4>1, <4>2
    <3> QED BY <2>2, <3>1
  <2>5. ASSUME NEW p \in Procs,
               Load(p) \/ EndBuild(p) \/ \E j \in Ids : BeginRecord(p, j)
        PROVE  Kept(i)
    BY <2>2, <2>5 DEF Load, EndBuild, BeginRecord
  <2>6. ASSUME NEW p \in Procs, Compact(p) PROVE Kept(i)
    <3>1. pc[p] = "compacting" /\ Decode(file') = Saved(p)
      BY <1>1, <2>1, <2>6, SavedFacts, FileOfIsDecoded DEF Compact, IInv
    <3>2. exclusive => Decode(file)[i] <= Saved(p)[i]
      BY <1>1, <3>1 DEF IInv, Covered
    <3> QED BY <2>6, <3>1, <3>2
  <2> QED BY <1>1, <2>3, <2>4, <2>5, <2>6 DEF Next
<1>2. IInv /\ [Next]_vars => [Keeps]_vars
  BY <1>1
<1> QED BY <1>2, JournalInvariant, PTL DEF Spec, HistoryIsKept
=============================================================================
