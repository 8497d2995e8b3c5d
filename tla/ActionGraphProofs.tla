------------------------- MODULE ActionGraphProofs -------------------------
(***************************************************************************)
(* Proofs about Manifest and ActionGraph, for any workspaces, files and    *)
(* configurations.                                                         *)
(***************************************************************************)
EXTENDS ActionGraph, FiniteSetTheorems, SequenceTheorems, WellFoundedInduction, TLAPS

-----------------------------------------------------------------------------
(* Numbers, sequences and functions that call themselves.                  *)

LEMMA LeastNumber ==
    ASSUME NEW S \in SUBSET Nat, S # {}
    PROVE  \E n \in S : \A m \in S : n <= m
<1>1. PICK n \in S : \A m \in S : ~ (<<m, n>> \in OpToRel(<, Nat))
  <2> HIDE DEF OpToRel
  <2> QED BY NatLessThanWellFounded, WFMin
<1>2. \A m \in S : ~ (m < n)
  BY <1>1 DEF OpToRel
<1> QED BY <1>2

\* What holds of 0, and of a number if of the one before, holds up to any bound.
LEMMA UpTo ==
    ASSUME NEW N \in Nat, NEW S, 0 \in S, \A k \in 1..N : k - 1 \in S => k \in S
    PROVE  \A k \in 0..N : k \in S
<1> DEFINE Failing == {k \in 0..N : k \notin S}
<1>1. SUFFICES ASSUME Failing # {} PROVE FALSE
  OBVIOUS
<1>2. PICK n \in Failing : \A m \in Failing : n <= m
  <2>1. Failing \in SUBSET Nat
    OBVIOUS
  <2> HIDE DEF Failing
  <2> QED BY <1>1, <2>1, LeastNumber
<1>3. n \in 1..N /\ n \notin S
  BY <1>2
<1>4. n - 1 \in 0..N /\ ~ (n <= n - 1)
  BY <1>3
<1>5. n - 1 \in S
  BY <1>2, <1>4
<1> QED BY <1>3, <1>5

\* A sequence is known by its positions.
LEMMA SequenceIs ==
    ASSUME NEW s, NEW n \in Nat, s = [i \in 1..n |-> s[i]]
    PROVE  IsSequence(s) /\ Len(s) = n /\ DOMAIN s = 1..n
<1>1. s \in [1..n -> ToSet(s)]
  BY DEF ToSet
<1>2. s \in Seq(ToSet(s)) /\ DOMAIN s = 1..n
  BY <1>1
<1> QED BY <1>2 DEF IsSequence

LEMMA PositionsOf ==
    ASSUME NEW s, IsSequence(s)
    PROVE  /\ Len(s) \in Nat /\ DOMAIN s = 1..Len(s) /\ s = [i \in 1..Len(s) |-> s[i]]
           /\ \A x : x \in ToSet(s) <=> \E i \in 1..Len(s) : s[i] = x
BY DEF IsSequence, ToSet

\* A finite set as a list.
LEMMA SetToSeqIs ==
    ASSUME NEW S, IsFiniteSet(S)
    PROVE  IsSequence(SetToSeq(S)) /\ ToSet(SetToSeq(S)) = S /\ Len(SetToSeq(S)) = Cardinality(S)
<1> DEFINE n == Cardinality(S)
           f == SetToSeq(S)
<1>1. n \in Nat /\ ExistsBijection(1..n, S)
  BY FS_CardinalityType
<1>2. PICK g : g \in [1..n -> S] /\ IsInjective(g)
  BY <1>1 DEF ExistsBijection, Bijection, Injection
<1>3. f = CHOOSE h \in [1..n -> S] : IsInjective(h)
  BY DEF SetToSeq
<1> HIDE DEF f, n
<1>4. f \in [1..n -> S] /\ IsInjective(f)
  BY <1>2, <1>3
<1>5. f \in Injection(1..n, S)
  BY <1>4 DEF Injection
<1>6. Cardinality(1..n) = n
  BY <1>1, FS_Interval
<1>7. f \in Surjection(1..n, S)
  BY <1>5, <1>6, FS_Injection DEF n
<1>8. DOMAIN f = 1..n /\ ToSet(f) = S
  BY <1>4, <1>7 DEF Surjection, ToSet
<1>9. f = [i \in 1..n |-> f[i]]
  BY <1>4
<1>10. IsSequence(f) /\ Len(f) = n
  BY <1>1, <1>9, SequenceIs
<1> QED BY <1>8, <1>10 DEF f, n

LEMMA EmptyIs == IsSequence(<<>>) /\ ToSet(<<>>) = {} /\ Len(<<>>) = 0
BY DEF IsSequence, ToSet

LEMMA AppendIs ==
    ASSUME NEW s, IsSequence(s), NEW x
    PROVE  /\ IsSequence(Append(s, x)) /\ Len(Append(s, x)) = Len(s) + 1
           /\ \A i \in 1..Len(s) : Append(s, x)[i] = s[i]
           /\ Append(s, x)[Len(s) + 1] = x
           /\ ToSet(Append(s, x)) = ToSet(s) \cup {x}
<1> DEFINE t == Append(s, x)
           S == ToSet(s) \cup {x}
<1>1. s \in Seq(S) /\ Len(s) \in Nat
  <2>1. s \in Seq(ToSet(s))
    BY DEF IsSequence
  <2> QED BY <2>1
<1>2. t \in Seq(S) /\ Len(t) = Len(s) + 1 /\ (\A i \in 1..Len(s) : t[i] = s[i]) /\ t[Len(s) + 1] = x
  BY <1>1
<1>3. ToSet(t) = S
  BY <1>1, <1>2, PositionsOf DEF ToSet
<1> HIDE DEF t
<1>4. IsSequence(t)
  BY <1>2, <1>3 DEF IsSequence
<1> QED BY <1>2, <1>3, <1>4 DEF t

LEMMA ConcatIs ==
    ASSUME NEW s, NEW t, IsSequence(s), IsSequence(t)
    PROVE  /\ IsSequence(s \o t) /\ Len(s \o t) = Len(s) + Len(t)
           /\ \A i \in 1..Len(s) : (s \o t)[i] = s[i]
           /\ \A i \in 1..Len(t) : (s \o t)[Len(s) + i] = t[i]
           /\ ToSet(s \o t) = ToSet(s) \cup ToSet(t)
<1> DEFINE S == ToSet(s) \cup ToSet(t)
           u == s \o t
<1>1. s \in Seq(S) /\ t \in Seq(S) /\ Len(s) \in Nat /\ Len(t) \in Nat
  <2>1. s \in Seq(ToSet(s)) /\ t \in Seq(ToSet(t))
    BY DEF IsSequence
  <2> QED BY <2>1
<1>2. /\ u \in Seq(S) /\ Len(u) = Len(s) + Len(t)
      /\ (\A i \in 1..Len(s) : u[i] = s[i]) /\ \A i \in 1..Len(t) : u[Len(s) + i] = t[i]
  BY <1>1
<1>3. ToSet(u) = S
  <2>1. ASSUME NEW y \in ToSet(u) PROVE y \in S
    BY <1>2, <2>1 DEF ToSet
  <2>2. ASSUME NEW y \in ToSet(s) PROVE y \in ToSet(u)
    <3>1. PICK i \in 1..Len(s) : s[i] = y
      BY <2>2, PositionsOf
    <3>2. i \in 1..Len(u) /\ u[i] = y
      BY <1>1, <1>2, <3>1
    <3> QED BY <1>2, <3>2 DEF ToSet
  <2>3. ASSUME NEW y \in ToSet(t) PROVE y \in ToSet(u)
    <3>1. PICK i \in 1..Len(t) : t[i] = y
      BY <2>3, PositionsOf
    <3>2. Len(s) + i \in 1..Len(u) /\ u[Len(s) + i] = y
      BY <1>1, <1>2, <3>1
    <3> QED BY <1>2, <3>2 DEF ToSet
  <2> QED BY <2>1, <2>2, <2>3
<1> HIDE DEF u
<1>4. IsSequence(u)
  BY <1>2, <1>3 DEF IsSequence
<1> QED BY <1>2, <1>3, <1>4 DEF u

\* The first of a sequence without its last element.
LEMMA FrontIs ==
    ASSUME NEW s, IsSequence(s), s # <<>>
    PROVE  /\ IsSequence(Front(s)) /\ Len(s) \in Nat \ {0} /\ Len(Front(s)) = Len(s) - 1
           /\ \A i \in 1..Len(s) - 1 : Front(s)[i] = s[i]
           /\ ToSet(Front(s)) \subseteq ToSet(s) /\ Last(s) \in ToSet(s)
           /\ ToSet(s) = ToSet(Front(s)) \cup {Last(s)}
<1> DEFINE S == ToSet(s)
           t == Front(s)
<1>1. s \in Seq(S) /\ Len(s) \in Nat \ {0}
  <2>1. s \in Seq(ToSet(s))
    BY DEF IsSequence
  <2> QED BY <2>1
<1>2. t \in Seq(S) /\ Len(t) = Len(s) - 1 /\ \A i \in 1..Len(s) - 1 : t[i] = s[i]
  <2> DEFINE n == Len(s) - 1
  <2>1. n \in Nat /\ (1 <= n <=> n # 0) /\ n - 1 + 1 = n /\ \A i \in 1..n : s[i] \in S /\ 1 + i - 1 = i
    <3>1. n \in Nat /\ (1 <= n <=> n # 0) /\ n - 1 + 1 = n
      <4>1. \A k \in Nat \ {0} : k - 1 \in Nat /\ (1 <= k - 1 <=> k - 1 # 0) /\ (k - 1) - 1 + 1 = k - 1
        OBVIOUS
      <4> QED BY <1>1, <4>1
    <3>2. ASSUME NEW i \in 1..n PROVE s[i] \in S /\ 1 + i - 1 = i
      <4>1. i \in 1..Len(s) /\ 1 + i - 1 = i
        BY <1>1
      <4> QED BY <4>1, PositionsOf
    <3> QED BY <3>1, <3>2
  <2>2. t = SubSeq(s, 1, n)
    BY DEF Front
  <2> HIDE DEF n, t, S
  <2>3. /\ SubSeq(s, 1, n) \in Seq(S) /\ Len(SubSeq(s, 1, n)) = IF 1 <= n THEN n - 1 + 1 ELSE 0
        /\ \A i \in 1..n - 1 + 1 : SubSeq(s, 1, n)[i] = s[1 + i - 1]
    BY <2>1, SubSeqProperties
  <2>4. t \in Seq(S) /\ Len(t) = n /\ \A i \in 1..n : t[i] = s[i]
    BY <2>1, <2>2, <2>3
  <2> QED BY <2>4 DEF n
<1> HIDE DEF t
<1>3. t = [i \in 1..Len(t) |-> t[i]] /\ Len(t) \in Nat
  BY <1>2
<1>4. IsSequence(t)
  BY <1>3, SequenceIs
<1>5. \A x : x \in ToSet(t) <=> \E i \in 1..Len(t) : t[i] = x
  BY <1>4, PositionsOf
<1>6. \A x : x \in S <=> \E i \in 1..Len(s) : s[i] = x
  BY PositionsOf
<1>7. Last(s) = s[Len(s)]
  BY DEF Last
<1>8. ASSUME NEW x \in S PROVE x \in ToSet(t) \cup {Last(s)}
  <2>1. PICK i \in 1..Len(s) : s[i] = x
    BY <1>6
  <2> QED BY <1>1, <1>2, <1>5, <1>7, <2>1
<1>9. ToSet(t) \subseteq S /\ Last(s) \in S
  BY <1>1, <1>2, <1>5, <1>6, <1>7
<1> QED BY <1>1, <1>2, <1>4, <1>8, <1>9 DEF t

LEMMA ReverseIs ==
    ASSUME NEW s, IsSequence(s)
    PROVE  IsSequence(Reverse(s)) /\ Len(Reverse(s)) = Len(s) /\ ToSet(Reverse(s)) = ToSet(s)
<1> DEFINE t == Reverse(s)
           n == Len(s)
<1>1. n \in Nat /\ t = [i \in 1..n |-> s[(n - i) + 1]]
  BY PositionsOf DEF Reverse
<1>2. t = [i \in 1..n |-> t[i]] /\ \A i \in 1..n : t[i] = s[(n - i) + 1]
  BY <1>1
<1> HIDE DEF t
<1>3. IsSequence(t) /\ Len(t) = n /\ DOMAIN t = 1..n
  BY <1>1, <1>2, SequenceIs
<1>4. ASSUME NEW x \in ToSet(s) PROVE x \in ToSet(t)
  <2>1. PICK i \in 1..n : s[i] = x
    BY <1>4, PositionsOf
  <2>2. (n - i) + 1 \in 1..n /\ (n - ((n - i) + 1)) + 1 = i
    BY <1>1, <2>1
  <2>3. t[(n - i) + 1] = x
    BY <1>2, <2>1, <2>2
  <2> QED BY <1>3, <2>2, <2>3 DEF ToSet
<1>5. ASSUME NEW x \in ToSet(t) PROVE x \in ToSet(s)
  <2>1. PICK i \in 1..n : t[i] = x
    BY <1>3, <1>5 DEF ToSet
  <2>2. (n - i) + 1 \in 1..n
    BY <1>1, <2>1
  <2> QED BY <1>2, <2>1, <2>2, PositionsOf
<1> QED BY <1>3, <1>4, <1>5 DEF t

\* What FlattenSeq computes has the elements of all the pieces.
LEMMA FlattenIs ==
    ASSUME NEW seqs, IsSequence(seqs), \A i \in DOMAIN seqs : IsSequence(seqs[i])
    PROVE  /\ IsSequence(FlattenSeq(seqs))
           /\ ToSet(FlattenSeq(seqs)) = UNION {ToSet(seqs[i]) : i \in DOMAIN seqs}
<1> DEFINE next(g, i) == IF i = 1 THEN seqs[i] ELSE g[i - 1] \o seqs[i]
<1>0. PICK n \in Nat : n = Len(seqs)
  BY PositionsOf
<1>1. n \in Nat /\ DOMAIN seqs = 1..n /\ n \in 0..n
  BY <1>0, PositionsOf
<1>2. CASE n = 0
  <2>1. seqs = <<>> /\ DOMAIN seqs = {}
    BY <1>0, <1>1, <1>2, PositionsOf
  <2>2. FlattenSeq(seqs) = seqs
    BY <1>0, <1>2 DEF FlattenSeq
  <2> QED BY <2>1, <2>2, EmptyIs
<1>3. CASE n # 0
  <2> DEFINE flat == CHOOSE g : g = [i \in 1..n |-> next(g, i)]
  <2>1. FlattenSeq(seqs) = flat[n]
    BY <1>0, <1>3 DEF FlattenSeq
  <2> HIDE DEF next
  <2>2. \E g : g = [i \in 1..n |-> next(g, i)]
    <3> DEFINE Exists(m) == \E g : g = [i \in 1..m |-> next(g, i)]
               Defined == {m \in 0..n : Exists(m)}
    <3>1. 0 \in Defined
      <4>1. <<>> = [i \in 1..0 |-> next(<<>>, i)]
        OBVIOUS
      <4>2. Exists(0)
        BY <4>1
      <4> HIDE DEF Exists
      <4> QED BY <1>1, <4>2
    <3>2. ASSUME NEW m \in 1..n, m - 1 \in Defined PROVE m \in Defined
      <4>1. PICK g : g = [i \in 1..m - 1 |-> next(g, i)]
        BY <3>2
      <4> DEFINE h == [i \in 1..m |-> IF i = m THEN next(g, m) ELSE g[i]]
      <4>2. ASSUME NEW i \in 1..m PROVE h[i] = next(h, i)
        <5>1. i # 1 => h[i - 1] = g[i - 1]
          OBVIOUS
        <5>2. next(h, i) = next(g, i)
          BY <5>1 DEF next
        <5>3. i # m => g[i] = next(g, i)
          <6>1. i # m => i \in 1..m - 1
            OBVIOUS
          <6> QED BY <4>1, <6>1
        <5> QED BY <5>2, <5>3
      <4>3. h = [i \in 1..m |-> next(h, i)]
        <5> DEFINE r == [i \in 1..m |-> next(h, i)]
        <5>1. DOMAIN h = DOMAIN r /\ \A i \in 1..m : h[i] = r[i]
          BY <4>2
        <5> QED BY <5>1
      <4> HIDE DEF h
      <4>4. Exists(m)
        BY <4>3
      <4> HIDE DEF Exists
      <4> QED BY <4>4
    <3> HIDE DEF Defined
    <3>3. n \in Defined
      BY <1>1, <3>1, <3>2, UpTo
    <3> QED BY <3>3 DEF Defined
  <2>3. flat = [i \in 1..n |-> next(flat, i)]
    BY <2>2
  <2> HIDE DEF flat
  <2>4. \A i \in 1..n : flat[i] = IF i = 1 THEN seqs[i] ELSE flat[i - 1] \o seqs[i]
    BY <2>3 DEF next
  <2> DEFINE Good == {m \in 0..n : m # 0 => /\ IsSequence(flat[m])
                                            /\ ToSet(flat[m]) = UNION {ToSet(seqs[i]) : i \in 1..m}}
  <2>5. 0 \in Good
    BY <1>1
  <2>6. ASSUME NEW m \in 1..n, m - 1 \in Good PROVE m \in Good
    <3>1. IsSequence(seqs[m])
      BY <1>1
    <3>2. CASE m = 1
      <4>1. flat[m] = seqs[m] /\ 1..m = {m}
        BY <2>4, <3>2
      <4> QED BY <3>1, <4>1
    <3>3. CASE m # 1
      <4>0. flat[m] = flat[m - 1] \o seqs[m]
        BY <2>4, <3>3
      <4>1. flat[m] = flat[m - 1] \o seqs[m] /\ 1..m = 1..(m - 1) \cup {m} /\ m - 1 # 0
        BY <3>3, <4>0
      <4>2. IsSequence(flat[m - 1]) /\ ToSet(flat[m - 1]) = UNION {ToSet(seqs[i]) : i \in 1..m - 1}
        BY <2>6, <4>1
      <4>3. IsSequence(flat[m]) /\ ToSet(flat[m]) = ToSet(flat[m - 1]) \cup ToSet(seqs[m])
        BY <3>1, <4>1, <4>2, ConcatIs
      <4>4. ToSet(flat[m]) = UNION {ToSet(seqs[i]) : i \in 1..m}
        BY <4>1, <4>2, <4>3
      <4> QED BY <4>3, <4>4
    <3> QED BY <3>2, <3>3
  <2> HIDE DEF Good
  <2>7. n \in Good
    BY <1>1, <2>5, <2>6, UpTo
  <2> QED BY <1>1, <1>3, <2>1, <2>7 DEF Good
<1> QED BY <1>2, <1>3

-----------------------------------------------------------------------------
(* Reaching along a function to sets.                                       *)

\* What Reachable computes, a step further in every round.
Rounds(reached, nexts, start, n) ==
    /\ reached[0] = start
    /\ \A k \in 1..n : reached[k] = reached[k - 1] \cup UNION {nexts[x] : x \in reached[k - 1]}

LEMMA ReachedIs ==
    ASSUME NEW nexts, NEW start, NEW n \in Nat, n = Cardinality(DOMAIN nexts)
    PROVE  \E reached : Rounds(reached, nexts, start, n) /\ Reachable(nexts, start) = reached[n]
<1> DEFINE next(g, k) == IF k = 0 THEN start ELSE g[k - 1] \cup UNION {nexts[x] : x \in g[k - 1]}
           reached == CHOOSE g : g = [k \in 0..n |-> next(g, k)]
           Exists(m) == \E g : g = [k \in 0..m |-> next(g, k)]
           Defined == {m \in 0..n : Exists(m)}
<1>1. Reachable(nexts, start) = reached[n]
  BY DEF Reachable
<1> HIDE DEF reached
<1>2. Exists(0)
  <2> DEFINE g == [k \in 0..0 |-> start]
  <2>1. \A k \in 0..0 : next(g, k) = start
    OBVIOUS
  <2> HIDE DEF next
  <2>2. g = [k \in 0..0 |-> next(g, k)]
    BY <2>1
  <2> HIDE DEF g
  <2> QED BY <2>2
<1>3. ASSUME NEW m \in 1..n, Exists(m - 1) PROVE Exists(m)
  <2>1. PICK g : g = [k \in 0..m - 1 |-> next(g, k)]
    BY <1>3
  <2> DEFINE h == [k \in 0..m |-> IF k = m THEN next(g, m) ELSE g[k]]
  <2>2. ASSUME NEW k \in 0..m PROVE h[k] = next(h, k)
    <3>1. k # 0 => h[k - 1] = g[k - 1]
      OBVIOUS
    <3> HIDE DEF h
    <3>2. next(h, k) = next(g, k)
      BY <3>1
    <3> HIDE DEF next
    <3>3. k # m => k \in 0..m - 1
      OBVIOUS
    <3>4. k # m => g[k] = next(g, k)
      BY <2>1, <3>3
    <3> QED BY <3>2, <3>4 DEF h
  <2> HIDE DEF next
  <2> DEFINE r == [k \in 0..m |-> next(h, k)]
  <2>3. DOMAIN h = DOMAIN r /\ \A k \in 0..m : h[k] = r[k]
    BY <2>2
  <2>4. h = r
    BY <2>3
  <2> HIDE DEF h
  <2> QED BY <2>4
<1>4. n \in Defined
  <2> HIDE DEF Exists
  <2>1. 0 \in Defined /\ \A m \in 1..n : m - 1 \in Defined => m \in Defined
    BY <1>2, <1>3
  <2> HIDE DEF Defined
  <2>2. n \in 0..n
    OBVIOUS
  <2> QED BY <2>1, <2>2, UpTo
<1> HIDE DEF next
<1>5. reached = [k \in 0..n |-> next(reached, k)]
  BY <1>4 DEF reached
<1>6. reached[0] = start /\ \A k \in 1..n : reached[k] = reached[k - 1] \cup UNION {nexts[x] : x \in reached[k - 1]}
  <2>1. \A k \in 0..n : reached[k] = next(reached, k)
    BY <1>5
  <2>2. 0 \in 0..n /\ \A k \in 1..n : k \in 0..n /\ k # 0
    OBVIOUS
  <2>3. reached[0] = start
    BY <2>1, <2>2 DEF next
  <2>4. ASSUME NEW k \in 1..n PROVE reached[k] = reached[k - 1] \cup UNION {nexts[x] : x \in reached[k - 1]}
    <3>1. reached[k] = next(reached, k) /\ k # 0
      BY <2>1, <2>2
    <3> QED BY <3>1 DEF next
  <2> QED BY <2>3, <2>4
<1>7. Rounds(reached, nexts, start, n)
  BY <1>6 DEF Rounds
<1> QED BY <1>1, <1>7

\* Nothing smaller holds the start and all the successors of what it holds.
LEMMA ReachableIsLeast ==
    ASSUME NEW nexts, NEW start, IsFiniteSet(DOMAIN nexts), NEW S,
           start \subseteq S, \A x \in S : nexts[x] \subseteq S
    PROVE  start \subseteq Reachable(nexts, start) /\ Reachable(nexts, start) \subseteq S
<1>1. PICK n \in Nat : n = Cardinality(DOMAIN nexts)
  BY FS_CardinalityType
<1>2. PICK reached : Rounds(reached, nexts, start, n) /\ Reachable(nexts, start) = reached[n]
  BY <1>1, ReachedIs
<1> DEFINE Good == {k \in 0..n : start \subseteq reached[k] /\ reached[k] \subseteq S}
<1>3. 0 \in Good
  BY <1>1, <1>2 DEF Rounds
<1>4. ASSUME NEW k \in 1..n, k - 1 \in Good PROVE k \in Good
  <2>1. reached[k] = reached[k - 1] \cup UNION {nexts[x] : x \in reached[k - 1]}
    BY <1>2 DEF Rounds
  <2>2. start \subseteq reached[k - 1] /\ reached[k - 1] \subseteq S
    BY <1>4
  <2> QED BY <2>1, <2>2
<1> HIDE DEF Good
<1>5. n \in Good
  <2>1. n \in 0..n
    BY <1>1
  <2> QED BY <1>3, <1>4, <2>1, UpTo
<1> QED BY <1>2, <1>5 DEF Good

\* In as many rounds as there are nodes it has found the successors of all it holds.
LEMMA ReachableIsClosed ==
    ASSUME NEW nexts, NEW start, IsFiniteSet(DOMAIN nexts),
           start \subseteq DOMAIN nexts, \A x \in DOMAIN nexts : nexts[x] \subseteq DOMAIN nexts
    PROVE  /\ Reachable(nexts, start) \subseteq DOMAIN nexts
           /\ start \subseteq Reachable(nexts, start)
           /\ \A x \in Reachable(nexts, start) : nexts[x] \subseteq Reachable(nexts, start)
<1> DEFINE D == DOMAIN nexts
           Closed(T) == \A x \in T : nexts[x] \subseteq T
<1>1. PICK n \in Nat : n = Cardinality(D)
  BY FS_CardinalityType
<1>2. PICK reached : Rounds(reached, nexts, start, n) /\ Reachable(nexts, start) = reached[n]
  BY <1>1, ReachedIs
<1>3. n \in 0..n
  BY <1>1
<1> DEFINE Grown(k) == Closed(reached[k]) \/ Cardinality(reached[k]) >= k
           Inside(k) == reached[k] \subseteq D
           Good == {k \in 0..n : Inside(k) /\ Grown(k)}
<1>4. 0 \in Good
  <2>1. IsFiniteSet(start)
    BY FS_Subset
  <2>2. Cardinality(start) \in Nat
    BY <2>1, FS_CardinalityType
  <2> QED BY <1>1, <1>2, <2>2 DEF Rounds
<1>5. ASSUME NEW k \in 1..n, k - 1 \in Good PROVE k \in Good
  <2> DEFINE old == reached[k - 1]
             new == reached[k]
  <2>1. new = old \cup UNION {nexts[x] : x \in old}
    BY <1>2 DEF Rounds
  <2>2. old \subseteq D /\ (Closed(old) \/ Cardinality(old) >= k - 1)
    <3>1. Inside(k - 1) /\ Grown(k - 1)
      <4> HIDE DEF Inside, Grown
      <4> QED BY <1>5
    <3> QED BY <3>1
  <2> HIDE DEF old, new
  <2>3. new \subseteq D
    BY <2>1, <2>2
  <2>4. CASE new = old
    <3>1. Closed(new)
      BY <2>1, <2>4
    <3> QED BY <2>3, <3>1 DEF new
  <2>5. CASE new # old
    <3>1. ~ Closed(old)
      BY <2>1, <2>5
    <3>2. old \subseteq new /\ IsFiniteSet(new) /\ old # new
      BY <2>1, <2>3, <2>5, FS_Subset
    <3>3. Cardinality(old) < Cardinality(new)
      <4>1. PICK y \in new : y \notin old
        BY <3>2
      <4>2. IsFiniteSet(old) /\ Cardinality(old \cup {y}) = Cardinality(old) + 1
        BY <3>2, <4>1, FS_Subset, FS_AddElement
      <4>3. Cardinality(old \cup {y}) <= Cardinality(new)
        <5>1. old \cup {y} \subseteq new
          BY <3>2, <4>1
        <5> QED BY <3>2, <5>1, FS_Subset
      <4>4. Cardinality(old) \in Nat /\ Cardinality(new) \in Nat
        BY <3>2, <4>2, FS_CardinalityType
      <4> QED BY <4>2, <4>3, <4>4
    <3>4. Cardinality(old) \in Nat /\ Cardinality(new) \in Nat
      BY <3>2, FS_Subset, FS_CardinalityType
    <3> HIDE DEF Closed
    <3>5. Cardinality(new) >= k
      BY <2>2, <3>1, <3>3, <3>4
    <3> QED BY <2>3, <3>5 DEF new
  <2> QED BY <2>4, <2>5
<1> HIDE DEF Good
<1>6. n \in Good
  BY <1>3, <1>4, <1>5, UpTo
<1> DEFINE R == reached[n]
<1>7. R \subseteq D /\ (Closed(R) \/ Cardinality(R) >= n)
  <2>1. Inside(n) /\ Grown(n)
    <3> HIDE DEF Inside, Grown
    <3> QED BY <1>6 DEF Good
  <2> QED BY <2>1
<1> HIDE DEF R
<1>8. Closed(R)
  <2>1. SUFFICES ASSUME Cardinality(R) >= n PROVE R = D
    BY <1>7
  <2>2. Cardinality(R) \in Nat /\ Cardinality(R) <= n
    BY <1>1, <1>7, FS_Subset, FS_CardinalityType
  <2>3. Cardinality(R) = n
    BY <1>1, <2>1, <2>2
  <2> QED BY <1>1, <1>7, <2>3, FS_Subset
<1>9. start \subseteq R
  BY <1>2, ReachableIsLeast DEF R
<1> QED BY <1>2, <1>7, <1>8, <1>9 DEF R

-----------------------------------------------------------------------------
(* Pushing actions.                                                         *)

\* What PushEach computes, an action after the other.
Pushes(pushed, list, new, n) ==
    /\ pushed[0] = [list |-> list, verdict |-> "ok"]
    /\ \A k \in 1..n : pushed[k] = Push(pushed[k - 1], new[k])

LEMMA PushesExist ==
    ASSUME NEW list, NEW new, NEW n \in Nat, n = Len(new)
    PROVE  \E pushed : Pushes(pushed, list, new, n) /\ PushEach(list, new) = pushed[n]
<1> DEFINE next(g, k) == IF k = 0 THEN [list |-> list, verdict |-> "ok"] ELSE Push(g[k - 1], new[k])
           pushed == CHOOSE g : g = [k \in 0..n |-> next(g, k)]
           Exists(m) == \E g : g = [k \in 0..m |-> next(g, k)]
           Defined == {m \in 0..n : Exists(m)}
<1>1. PushEach(list, new) = pushed[n]
  BY DEF PushEach
<1> HIDE DEF pushed
<1>2. Exists(0)
  <2> DEFINE g == [k \in 0..0 |-> [list |-> list, verdict |-> "ok"]]
  <2>1. \A k \in 0..0 : next(g, k) = [list |-> list, verdict |-> "ok"]
    OBVIOUS
  <2> HIDE DEF next
  <2>2. g = [k \in 0..0 |-> next(g, k)]
    BY <2>1
  <2> HIDE DEF g
  <2> QED BY <2>2
<1>3. ASSUME NEW m \in 1..n, Exists(m - 1) PROVE Exists(m)
  <2>1. PICK g : g = [k \in 0..m - 1 |-> next(g, k)]
    BY <1>3
  <2> DEFINE h == [k \in 0..m |-> IF k = m THEN next(g, m) ELSE g[k]]
  <2>2. ASSUME NEW k \in 0..m PROVE h[k] = next(h, k)
    <3>1. k # 0 => h[k - 1] = g[k - 1]
      OBVIOUS
    <3> HIDE DEF h
    <3>2. next(h, k) = next(g, k)
      BY <3>1
    <3> HIDE DEF next
    <3>3. k # m => k \in 0..m - 1
      OBVIOUS
    <3>4. k # m => g[k] = next(g, k)
      BY <2>1, <3>3
    <3> QED BY <3>2, <3>4 DEF h
  <2> HIDE DEF next
  <2> DEFINE r == [k \in 0..m |-> next(h, k)]
  <2>3. DOMAIN h = DOMAIN r /\ \A k \in 0..m : h[k] = r[k]
    BY <2>2
  <2>4. h = r
    BY <2>3
  <2> HIDE DEF h
  <2> QED BY <2>4
<1>4. n \in Defined
  <2> HIDE DEF Exists
  <2>1. 0 \in Defined /\ \A m \in 1..n : m - 1 \in Defined => m \in Defined
    BY <1>2, <1>3
  <2> HIDE DEF Defined
  <2>2. n \in 0..n
    OBVIOUS
  <2> QED BY <2>1, <2>2, UpTo
<1> HIDE DEF next
<1>5. pushed = [k \in 0..n |-> next(pushed, k)]
  BY <1>4 DEF pushed
<1>6. pushed[0] = [list |-> list, verdict |-> "ok"] /\ \A k \in 1..n : pushed[k] = Push(pushed[k - 1], new[k])
  <2>1. \A k \in 0..n : pushed[k] = next(pushed, k)
    BY <1>5
  <2>2. 0 \in 0..n /\ \A k \in 1..n : k \in 0..n /\ k # 0
    OBVIOUS
  <2>3. pushed[0] = [list |-> list, verdict |-> "ok"]
    BY <2>1, <2>2 DEF next
  <2>4. ASSUME NEW k \in 1..n PROVE pushed[k] = Push(pushed[k - 1], new[k])
    <3>1. pushed[k] = next(pushed, k) /\ k # 0
      BY <2>1, <2>2
    <3> QED BY <3>1 DEF next
  <2> QED BY <2>3, <2>4
<1>7. Pushes(pushed, list, new, n)
  BY <1>6 DEF Pushes
<1> QED BY <1>1, <1>7

\* No two actions of a list make the same file.
OneProducerIn(list) ==
    \A a, b \in DOMAIN list : a # b => ToSet(list[a].outputs) \cap ToSet(list[b].outputs) = {}

LEMMA ProducerIs ==
    ASSUME NEW list, IsSequence(list), NEW f
    PROVE  /\ ProducerIn(list, f) \in DOMAIN list \cup {0}
           /\ ProducerIn(list, f) = 0 <=> \A i \in DOMAIN list : f \notin ToSet(list[i].outputs)
           /\ ProducerIn(list, f) # 0 => f \in ToSet(list[ProducerIn(list, f)].outputs)
<1> DEFINE makers == {i \in DOMAIN list : f \in ToSet(list[i].outputs)}
<1>1. ProducerIn(list, f) = IF makers = {} THEN 0 ELSE CHOOSE i \in makers : TRUE
  BY DEF ProducerIn
<1>2. 0 \notin DOMAIN list
  BY PositionsOf
<1>3. CASE makers = {}
  BY <1>1, <1>2, <1>3
<1>4. CASE makers # {}
  <2>1. ProducerIn(list, f) \in makers
    BY <1>1, <1>4
  <2> QED BY <1>2, <2>1
<1> QED BY <1>3, <1>4

\* An action whose outputs nobody has claimed joins the list; any other ends the building.
Verdicts == {"ok", "two producers", "panic"}
PushedTo(l, v, a, list, verdict) ==
    /\ Push([list |-> l, verdict |-> v], a) = [list |-> list, verdict |-> verdict]
    /\ verdict \in Verdicts
    /\ list = l \/ (list = Append(l, a) /\ Taken(l, a) = {})
    /\ verdict = "ok" => v = "ok" /\ list = Append(l, a)

LEMMA PushIs ==
    ASSUME NEW l, IsSequence(l), NEW v \in Verdicts, NEW a
    PROVE  \E list, verdict : PushedTo(l, v, a, list, verdict)
<1> DEFINE s == [list |-> l, verdict |-> v]
<1>1. CASE v # "ok"
  <2>1. Push(s, a) = [list |-> l, verdict |-> v]
    BY <1>1 DEF Push
  <2>2. PushedTo(l, v, a, l, v)
    BY <1>1, <2>1 DEF PushedTo
  <2> QED BY <2>2
<1>2. CASE v = "ok" /\ Taken(l, a) = {}
  <2>1. Push(s, a) = [list |-> Append(l, a), verdict |-> "ok"]
    BY <1>2 DEF Push
  <2>2. PushedTo(l, v, a, Append(l, a), "ok")
    BY <1>2, <2>1 DEF PushedTo, Verdicts
  <2> QED BY <2>2
<1>3. CASE v = "ok" /\ Taken(l, a) # {}
  <2> DEFINE verdict == IF ProducerIn(l, a.outputs[Min(Taken(l, a))]) # 0
                        THEN "two producers" ELSE "panic"
  <2>1. Push(s, a) = [list |-> l, verdict |-> verdict]
    BY <1>3 DEF Push
  <2>2. verdict \in Verdicts /\ verdict # "ok"
    BY DEF Verdicts
  <2> HIDE DEF verdict
  <2>3. PushedTo(l, v, a, l, verdict)
    BY <2>1, <2>2 DEF PushedTo
  <2> QED BY <2>3
<1> QED BY <1>1, <1>2, <1>3

\* Nobody has claimed what an action makes that joins the list.
LEMMA AppendKeepsOneProducer ==
    ASSUME NEW l, IsSequence(l), NEW a, Taken(l, a) = {}, OneProducerIn(l)
    PROVE  OneProducerIn(Append(l, a))
<1> DEFINE m == Append(l, a)
           n == Len(l) + 1
<1>1. /\ Len(l) \in Nat /\ DOMAIN l = 1..Len(l) /\ DOMAIN m = 1..n
      /\ m[n] = a /\ \A i \in 1..Len(l) : m[i] = l[i]
  BY AppendIs, PositionsOf
<1>2. \A f \in ToSet(a.outputs) : \A i \in DOMAIN l : f \notin ToSet(l[i].outputs)
  <2>1. ASSUME NEW f \in ToSet(a.outputs) PROVE ProducerIn(l, f) = 0
    <3>1. PICK k \in DOMAIN a.outputs : a.outputs[k] = f
      BY <2>1 DEF ToSet
    <3>2. ~ (ProducerIn(l, a.outputs[k]) # 0)
      BY <3>1 DEF Taken
    <3> QED BY <3>1, <3>2
  <2> QED BY <2>1, ProducerIs
<1> HIDE DEF m, n
<1>3. ASSUME NEW i \in DOMAIN m, NEW j \in DOMAIN m, i # j
      PROVE  ToSet(m[i].outputs) \cap ToSet(m[j].outputs) = {}
  <2>1. (i \in DOMAIN l \/ i = n) /\ (j \in DOMAIN l \/ j = n)
    BY <1>1 DEF n
  <2>2. CASE i \in DOMAIN l /\ j \in DOMAIN l
    BY <1>1, <1>3, <2>2 DEF OneProducerIn
  <2>3. CASE i \in DOMAIN l /\ j = n
    BY <1>1, <1>2, <2>3
  <2>4. CASE i = n /\ j \in DOMAIN l
    BY <1>1, <1>2, <2>4
  <2> QED BY <1>3, <2>1, <2>2, <2>3, <2>4
<1> QED BY <1>3 DEF OneProducerIn, m

\* After pushing some actions the list has grown by them, or the building has ended.
Joined(state, list, new, k) ==
    \E l, v :
        /\ state = [list |-> l, verdict |-> v]
        /\ IsSequence(l) /\ v \in Verdicts
        /\ OneProducerIn(list) => OneProducerIn(l)
        /\ v = "ok" => /\ Len(l) = Len(list) + k
                       /\ \A i \in 1..Len(list) : l[i] = list[i]
                       /\ \A i \in 1..k : l[Len(list) + i] = new[i]

LEMMA PushEachIs ==
    ASSUME NEW list, IsSequence(list), NEW new, IsSequence(new)
    PROVE  Joined(PushEach(list, new), list, new, Len(new))
<1>1. PICK n \in Nat : n = Len(new)
  BY PositionsOf
<1>2. PICK pushed : Pushes(pushed, list, new, n) /\ PushEach(list, new) = pushed[n]
  BY <1>1, PushesExist
<1> DEFINE Good == {k \in 0..n : Joined(pushed[k], list, new, k)}
<1>3. 0 \in Good
  <2>1. pushed[0] = [list |-> list, verdict |-> "ok"]
    BY <1>2 DEF Pushes
  <2>2. Len(list) = Len(list) + 0 /\ \A i \in 1..0 : list[Len(list) + i] = new[i]
    BY PositionsOf
  <2>3. Joined(pushed[0], list, new, 0)
    BY <2>1, <2>2 DEF Joined, Verdicts
  <2> QED BY <2>3
<1>4. ASSUME NEW k \in 1..n, k - 1 \in Good PROVE k \in Good
  <2>1. PICK l, v :
            /\ pushed[k - 1] = [list |-> l, verdict |-> v]
            /\ IsSequence(l) /\ v \in Verdicts
            /\ OneProducerIn(list) => OneProducerIn(l)
            /\ v = "ok" => /\ Len(l) = Len(list) + (k - 1)
                           /\ \A i \in 1..Len(list) : l[i] = list[i]
                           /\ \A i \in 1..k - 1 : l[Len(list) + i] = new[i]
    BY <1>4 DEF Joined
  <2>2. pushed[k] = Push(pushed[k - 1], new[k])
    BY <1>2 DEF Pushes
  <2>3. PICK m, w : PushedTo(l, v, new[k], m, w)
    BY <2>1, PushIs
  <2>4. IsSequence(m) /\ (OneProducerIn(list) => OneProducerIn(m))
    <3>1. CASE m = l
      BY <2>1, <3>1
    <3>2. CASE m = Append(l, new[k]) /\ Taken(l, new[k]) = {}
      BY <2>1, <3>2, AppendIs, AppendKeepsOneProducer
    <3> QED BY <2>3, <3>1, <3>2 DEF PushedTo
  <2>5. ASSUME w = "ok"
        PROVE  /\ Len(m) = Len(list) + k
               /\ \A i \in 1..Len(list) : m[i] = list[i]
               /\ \A i \in 1..k : m[Len(list) + i] = new[i]
    <3>1. v = "ok" /\ m = Append(l, new[k])
      BY <2>3, <2>5 DEF PushedTo
    <3>2. Len(list) \in Nat /\ Len(l) = Len(list) + (k - 1)
      BY <2>1, <3>1, PositionsOf
    <3>3. /\ Len(m) = Len(l) + 1 /\ m[Len(l) + 1] = new[k]
          /\ \A i \in 1..Len(l) : m[i] = l[i]
      BY <2>1, <3>1, AppendIs
    <3>4. ASSUME NEW i \in 1..Len(list) PROVE m[i] = list[i]
      <4>1. i \in 1..Len(l)
        BY <3>2
      <4> QED BY <2>1, <3>1, <3>3, <4>1
    <3>5. ASSUME NEW i \in 1..k PROVE m[Len(list) + i] = new[i]
      <4>1. CASE i = k
        <5>1. Len(list) + i = Len(l) + 1
          BY <3>2, <4>1
        <5> QED BY <3>3, <4>1, <5>1
      <4>2. CASE i # k
        <5>1. i \in 1..k - 1 /\ Len(list) + i \in 1..Len(l)
          BY <3>2, <4>2
        <5> QED BY <2>1, <3>1, <3>3, <5>1
      <4> QED BY <4>1, <4>2
    <3>6. Len(m) = Len(list) + k
      BY <3>2, <3>3
    <3> QED BY <3>4, <3>5, <3>6
  <2>6. pushed[k] = [list |-> m, verdict |-> w]
    BY <2>1, <2>2, <2>3 DEF PushedTo
  <2>7. Joined(pushed[k], list, new, k)
    BY <2>3, <2>4, <2>5, <2>6 DEF Joined, PushedTo
  <2> QED BY <2>7
<1> HIDE DEF Good
<1>5. n \in Good
  <2>1. n \in 0..n
    OBVIOUS
  <2> QED BY <1>3, <1>4, <2>1, UpTo
<1> QED BY <1>1, <1>2, <1>5 DEF Good

-----------------------------------------------------------------------------
(* Loading.                                                                 *)

LEMMA SingletonIs ==
    ASSUME NEW x
    PROVE  IsSequence(<<x>>) /\ ToSet(<<x>>) = {x} /\ Len(<<x>>) = 1 /\ <<x>>[1] = x
<1>1. <<x>> = [i \in 1..1 |-> <<x>>[i]] /\ <<x>>[1] = x /\ DOMAIN <<x>> = {1}
  OBVIOUS
<1>2. IsSequence(<<x>>) /\ Len(<<x>>) = 1
  BY <1>1, SequenceIs
<1> QED BY <1>1, <1>2 DEF ToSet

\* The parts of a workspace are its root and some of its packages, each with a
\* path of its own.
LEMMA PartsAre ==
    ASSUME NEW w, ReadWorkspace(w)
    PROVE  /\ IsSequence(Parts(w)) /\ ToSet(Parts(w)) \subseteq ToSet(w.packages) \cup {RootPart(w)}
           /\ \A part \in ToSet(Parts(w)) : ReadFile(part.file)
           /\ \A p, q \in ToSet(Parts(w)) : p.package = q.package => p = q
<1> DEFINE found == [i \in DOMAIN w.packages |->
                        IF Discovered(w.packages[i].package) THEN <<w.packages[i]>> ELSE <<>>]
           some == IF w.root.workspace THEN FlattenSeq(found) ELSE <<>>
<1>1. Parts(w) = Append(some, RootPart(w))
  BY DEF Parts
<1>2. PICK n \in Nat : DOMAIN w.packages = 1..n
  BY PositionsOf DEF ReadWorkspace
<1>3. IsSequence(found) /\ DOMAIN found = DOMAIN w.packages
  <2>1. found = [i \in 1..n |-> found[i]]
    BY <1>2
  <2> HIDE DEF found
  <2> QED BY <1>2, <2>1, SequenceIs
<1>4. ASSUME NEW i \in DOMAIN w.packages
      PROVE  IsSequence(found[i]) /\ ToSet(found[i]) \subseteq {w.packages[i]}
  <2>1. found[i] = IF Discovered(w.packages[i].package) THEN <<w.packages[i]>> ELSE <<>>
    OBVIOUS
  <2> HIDE DEF found
  <2> QED BY <2>1, SingletonIs, EmptyIs
<1> HIDE DEF found
<1>5. IsSequence(FlattenSeq(found)) /\ ToSet(FlattenSeq(found)) = UNION {ToSet(found[i]) : i \in DOMAIN found}
  BY <1>3, <1>4, FlattenIs
<1>6. UNION {ToSet(found[i]) : i \in DOMAIN found} \subseteq ToSet(w.packages)
  BY <1>3, <1>4 DEF ToSet
<1>7. IsSequence(some) /\ ToSet(some) \subseteq ToSet(w.packages)
  BY <1>5, <1>6, EmptyIs
<1> HIDE DEF some
<1>8. IsSequence(Parts(w)) /\ ToSet(Parts(w)) \subseteq ToSet(w.packages) \cup {RootPart(w)}
  BY <1>1, <1>7, AppendIs
<1>9. ASSUME NEW part \in ToSet(Parts(w)) PROVE ReadFile(part.file)
  BY <1>8, <1>9 DEF ReadWorkspace, RootPart
<1>10. ASSUME NEW p \in ToSet(Parts(w)), NEW q \in ToSet(Parts(w)), p.package = q.package
       PROVE  p = q
  <2>1. ASSUME NEW r \in ToSet(w.packages)
        PROVE  r.package # RootPart(w).package /\ \E i \in DOMAIN w.packages : w.packages[i] = r
    BY <2>1 DEF ReadWorkspace, RootPart, ToSet
  <2>2. CASE p = RootPart(w) \/ q = RootPart(w)
    BY <1>8, <1>10, <2>1, <2>2
  <2>3. CASE p \in ToSet(w.packages) /\ q \in ToSet(w.packages)
    <3>1. PICK i \in DOMAIN w.packages, j \in DOMAIN w.packages : w.packages[i] = p /\ w.packages[j] = q
      BY <2>1, <2>3
    <3> QED BY <1>10, <3>1 DEF ReadWorkspace
  <2> QED BY <1>8, <2>2, <2>3
<1> QED BY <1>8, <1>9, <1>10

\* Every target of every part becomes one, and nothing else does.
LEMMA LabelledAre ==
    ASSUME NEW w, ReadWorkspace(w)
    PROVE  /\ IsSequence(Labelled(w))
           /\ \A x : x \in ToSet(Labelled(w)) <=>
                \E part \in ToSet(Parts(w)) : \E t \in ToSet(part.file.targets) :
                    x = TargetOf(part.package, t)
<1> DEFINE parts == Parts(w)
           piece(i) == [k \in DOMAIN parts[i].file.targets |->
                            TargetOf(parts[i].package, parts[i].file.targets[k])]
           pieces == [i \in DOMAIN parts |-> piece(i)]
<1>1. Labelled(w) = FlattenSeq(pieces)
  BY DEF Labelled
<1>2. PICK n \in Nat : IsSequence(parts) /\ DOMAIN parts = 1..n
  BY PartsAre, PositionsOf
<1>3. IsSequence(pieces) /\ DOMAIN pieces = DOMAIN parts
  <2>1. pieces = [i \in 1..n |-> pieces[i]]
    BY <1>2
  <2> HIDE DEF pieces
  <2> QED BY <1>2, <2>1, SequenceIs
<1>4. ASSUME NEW i \in DOMAIN parts
      PROVE  /\ IsSequence(piece(i)) /\ pieces[i] = piece(i)
             /\ ToSet(piece(i)) = {TargetOf(parts[i].package, t) : t \in ToSet(parts[i].file.targets)}
  <2> DEFINE list == parts[i].file.targets
             p == piece(i)
  <2>1. IsSequence(list)
    <3>1. parts[i] \in ToSet(parts)
      BY DEF ToSet
    <3> QED BY <3>1, PartsAre DEF ReadFile
  <2>2. PICK m \in Nat : DOMAIN list = 1..m
    BY <2>1, PositionsOf
  <2>3. /\ p = [k \in 1..m |-> p[k]] /\ DOMAIN p = DOMAIN list
        /\ \A k \in DOMAIN list : p[k] = TargetOf(parts[i].package, list[k])
    BY <2>2
  <2>4. pieces[i] = p
    OBVIOUS
  <2> HIDE DEF p, list, parts
  <2>5. IsSequence(p)
    BY <2>2, <2>3, SequenceIs
  <2>6. ToSet(p) = {TargetOf(parts[i].package, t) : t \in ToSet(list)}
    BY <2>3 DEF ToSet
  <2> QED BY <2>4, <2>5, <2>6 DEF p, list
<1> HIDE DEF pieces, piece
<1>5. IsSequence(FlattenSeq(pieces)) /\ ToSet(FlattenSeq(pieces)) = UNION {ToSet(pieces[i]) : i \in DOMAIN pieces}
  BY <1>3, <1>4, FlattenIs
<1>6. ASSUME NEW x
      PROVE  x \in ToSet(FlattenSeq(pieces)) <=>
                \E part \in ToSet(parts) : \E t \in ToSet(part.file.targets) : x = TargetOf(part.package, t)
  <2> HIDE DEF parts
  <2>1. x \in ToSet(FlattenSeq(pieces)) <=> \E i \in DOMAIN parts : x \in ToSet(piece(i))
    BY <1>3, <1>4, <1>5
  <2>2. ASSUME NEW i \in DOMAIN parts
        PROVE  x \in ToSet(piece(i)) <=> \E t \in ToSet(parts[i].file.targets) : x = TargetOf(parts[i].package, t)
    BY <1>4
  <2>3. \A part : part \in ToSet(parts) <=> \E i \in DOMAIN parts : parts[i] = part
    BY DEF ToSet
  <2> QED BY <2>1, <2>2, <2>3
<1> QED BY <1>1, <1>5, <1>6

\* Target n of a manifest is target t of a part.
StandsFor(list, n, part, t) ==
    LET m == list[n] IN
    /\ m.label = Label(part.package, t.name) /\ m.kind = t.kind
    /\ m.srcs = Expanded(part.package, t.srcs) /\ m.inputs = Expanded(part.package, t.inputs)
    /\ m.outputs = [i \in DOMAIN t.outputs |-> Prefixed(part.package, t.outputs[i])]
    /\ m.clean = [i \in DOMAIN t.clean |-> Prefixed(part.package, t.clean[i])]
    /\ m.tools = t.tools /\ m.shell = ("cmd" \in t.fields)
    /\ IsSequence(m.deps) /\ DOMAIN m.deps = DOMAIN t.deps
    /\ \A i \in DOMAIN t.deps :
          m.deps[i] \in DOMAIN list /\ list[m.deps[i]].label = Resolved(t.deps[i], part.package)

LEMMA TargetsAre ==
    ASSUME NEW w, ReadWorkspace(w), Accepted(w)
    PROVE  /\ IsSequence(Targets(w))
           /\ \A n \in DOMAIN Targets(w) :
                \E part \in ToSet(Parts(w)) : \E t \in ToSet(part.file.targets) :
                    StandsFor(Targets(w), n, part, t)
           /\ \A part \in ToSet(Parts(w)) : \A t \in ToSet(part.file.targets) :
                \E n \in DOMAIN Targets(w) : StandsFor(Targets(w), n, part, t)
<1> DEFINE list == Labelled(w)
           all == Targets(w)
<1>1. PICK m \in Nat : IsSequence(list) /\ DOMAIN list = 1..m
  BY LabelledAre, PositionsOf
<1>2. /\ DOMAIN all = DOMAIN list
      /\ \A n \in DOMAIN list :
            all[n] = [list[n] EXCEPT !.deps = [i \in DOMAIN @ |-> Index(list, @[i])]]
  BY DEF Targets
<1>3. IsSequence(all)
  <2>1. all = [n \in 1..m |-> all[n]]
    BY <1>1 DEF Targets
  <2> HIDE DEF all
  <2> QED BY <2>1, SequenceIs
<1>4. ASSUME NEW n \in DOMAIN list PROVE ToSet(list[n].deps) \subseteq LabelsOf(list)
  BY DEF Accepted, ValidReferences
<1> HIDE DEF list, all
<1>5. ASSUME NEW l \in LabelsOf(list) PROVE Index(list, l) \in DOMAIN list /\ list[Index(list, l)].label = l
  BY <1>5 DEF LabelsOf, Index
<1>6. ASSUME NEW n \in DOMAIN list, NEW part \in ToSet(Parts(w)), NEW t \in ToSet(part.file.targets),
             list[n] = TargetOf(part.package, t)
      PROVE  StandsFor(all, n, part, t)
  <2> DEFINE deps == [i \in DOMAIN t.deps |-> Resolved(t.deps[i], part.package)]
             numbers == [i \in DOMAIN t.deps |-> Index(list, deps[i])]
  <2>1. list[n].deps = deps /\ list[n].label = Label(part.package, t.name)
    BY <1>6 DEF TargetOf
  <2>2. all[n] = [label |-> Label(part.package, t.name), kind |-> t.kind,
                  deps |-> numbers,
                  srcs |-> Expanded(part.package, t.srcs), inputs |-> Expanded(part.package, t.inputs),
                  outputs |-> [i \in DOMAIN t.outputs |-> Prefixed(part.package, t.outputs[i])],
                  clean |-> [i \in DOMAIN t.clean |-> Prefixed(part.package, t.clean[i])],
                  tools |-> t.tools, shell |-> "cmd" \in t.fields]
    BY <1>2, <1>6 DEF TargetOf
  <2>3. PICK k \in Nat : DOMAIN t.deps = 1..k
    <3>1. IsSequence(t.deps)
      BY PartsAre DEF ReadFile, ReadTarget
    <3> QED BY <3>1, PositionsOf
  <2>4. numbers = [i \in 1..k |-> numbers[i]] /\ DOMAIN numbers = DOMAIN t.deps
    BY <2>3
  <2>5. ASSUME NEW i \in DOMAIN t.deps
        PROVE  numbers[i] \in DOMAIN list /\ list[numbers[i]].label = deps[i]
    <3>1. deps[i] \in ToSet(deps) /\ numbers[i] = Index(list, deps[i])
      BY DEF ToSet
    <3> QED BY <1>4, <1>5, <2>1, <3>1
  <2>6. ASSUME NEW j \in DOMAIN list PROVE all[j].label = list[j].label
    <3>1. PICK p, u : list[j] = TargetOf(p, u)
      <4>1. list[j] \in ToSet(list)
        BY DEF ToSet
      <4> QED BY <4>1, LabelledAre DEF list
    <3> QED BY <1>2, <3>1 DEF TargetOf
  <2> HIDE DEF numbers
  <2>7. IsSequence(numbers)
    BY <2>3, <2>4, SequenceIs
  <2>8. all[n].deps = numbers
    BY <2>2
  <2>9. ASSUME NEW i \in DOMAIN t.deps
        PROVE  numbers[i] \in DOMAIN all /\ all[numbers[i]].label = Resolved(t.deps[i], part.package)
    BY <1>2, <2>5, <2>6
  <2> DEFINE self == all[n]
  <2>10. self.label = Label(part.package, t.name) /\ self.kind = t.kind /\ self.tools = t.tools
    BY <2>2
  <2>11. self.srcs = Expanded(part.package, t.srcs) /\ self.inputs = Expanded(part.package, t.inputs)
    BY <2>2
  <2>12. /\ self.outputs = [i \in DOMAIN t.outputs |-> Prefixed(part.package, t.outputs[i])]
         /\ self.clean = [i \in DOMAIN t.clean |-> Prefixed(part.package, t.clean[i])]
    BY <2>2
  <2>13. self.shell = ("cmd" \in t.fields)
    BY <2>2
  <2>14. self.deps = numbers
    BY <2>8
  <2> HIDE DEF self
  <2>15. /\ IsSequence(self.deps) /\ DOMAIN self.deps = DOMAIN t.deps
         /\ \A i \in DOMAIN t.deps :
               self.deps[i] \in DOMAIN all /\ all[self.deps[i]].label = Resolved(t.deps[i], part.package)
    BY <2>4, <2>7, <2>9, <2>14
  <2> QED BY <2>10, <2>11, <2>12, <2>13, <2>15 DEF StandsFor, self
<1>7. ASSUME NEW n \in DOMAIN all
      PROVE  \E part \in ToSet(Parts(w)) : \E t \in ToSet(part.file.targets) : StandsFor(all, n, part, t)
  <2>1. n \in DOMAIN list /\ list[n] \in ToSet(list)
    BY <1>2 DEF ToSet
  <2>2. PICK part \in ToSet(Parts(w)) : \E t \in ToSet(part.file.targets) : list[n] = TargetOf(part.package, t)
    BY <2>1, LabelledAre DEF list
  <2> QED BY <1>6, <2>1, <2>2
<1>8. ASSUME NEW part \in ToSet(Parts(w)), NEW t \in ToSet(part.file.targets)
      PROVE  \E n \in DOMAIN all : StandsFor(all, n, part, t)
  <2>1. TargetOf(part.package, t) \in ToSet(list)
    BY LabelledAre DEF list
  <2>2. PICK n \in DOMAIN list : list[n] = TargetOf(part.package, t)
    BY <2>1 DEF ToSet
  <2> QED BY <1>2, <1>6, <2>2
<1> QED BY <1>3, <1>7, <1>8 DEF all

\* What a list of paths stands for: its plain paths, and what its globs match.
Meanings(package, paths) ==
    {IF IsGlob(p) THEN Matches(Prefixed(package, p)) ELSE {Prefixed(package, p)} : p \in ToSet(paths)}

LEMMA ExpandedIs ==
    ASSUME NEW package, NEW paths, IsSequence(paths)
    PROVE  /\ IsSequence(Expanded(package, paths))
           /\ ToSet(Expanded(package, paths)) = UNION Meanings(package, paths)
<1> DEFINE Meaning(p) == IF IsGlob(p) THEN Matches(Prefixed(package, p)) ELSE {Prefixed(package, p)}
           Tuples == Meanings(package, paths)
<1>1. IsFiniteSet(ToSet(paths))
  <2>1. PICK n \in Nat : DOMAIN paths = 1..n
    BY PositionsOf
  <2>2. IsFiniteSet(DOMAIN paths)
    BY <2>1, FS_Interval
  <2>3. paths \in Surjection(DOMAIN paths, ToSet(paths))
    <3>1. paths = [i \in DOMAIN paths |-> paths[i]]
      BY <2>1, PositionsOf
    <3> QED BY <3>1 DEF Surjection, ToSet
  <2> QED BY <2>2, <2>3, FS_Surjection
<1>2. ASSUME NEW p PROVE IsFiniteSet(Meaning(p))
  <2>1. IsFiniteSet({Prefixed(package, p)})
    BY FS_Singleton
  <2>2. IsFiniteSet(Matches(Prefixed(package, p)))
    <3>1. Matches(Prefixed(package, p)) \in SUBSET Tree
      BY DEF Matches
    <3> QED BY <3>1, WorkspacesAssumption, FS_Subset
  <2> QED BY <2>1, <2>2
<1>3. Tuples = {Meaning(p) : p \in ToSet(paths)}
  BY DEF Meanings
<1> HIDE DEF Meaning, Tuples
<1>4. IsFiniteSet(Tuples)
  <2> DEFINE f == [p \in ToSet(paths) |-> Meaning(p)]
  <2>1. f \in Surjection(ToSet(paths), Tuples)
    BY <1>3 DEF Surjection
  <2> HIDE DEF f
  <2> QED BY <1>1, <2>1, FS_Surjection
<1>5. \A T \in Tuples : IsFiniteSet(T)
  BY <1>2, <1>3
<1>6. IsFiniteSet(UNION Tuples)
  BY <1>4, <1>5, FS_UNION
<1>7. Expanded(package, paths) = SetToSeq(UNION Tuples)
  BY DEF Expanded, Tuples, Meanings
<1> QED BY <1>6, <1>7, SetToSeqIs DEF Tuples

\* The manifest as the graph builder finds it.
ManifestOK ==
    /\ IsSequence(manifest)
    /\ \A n \in Names : /\ IsSequence(Deps(n)) /\ ToSet(Deps(n)) \subseteq Names
                        /\ manifest[n].kind \in Kinds
                        /\ IsSequence(manifest[n].srcs) /\ IsSequence(manifest[n].outputs)

\* Until it is loaded there is none, then it is that of the workspace.
LoadOK ==
    /\ ReadWorkspace(workspace)
    /\ \/ manifest = <<>> /\ phase \in {"load", "refused"}
       \/ manifest = Targets(workspace) /\ Accepted(workspace)

LEMMA LoadedManifest ==
    ASSUME LoadOK
    PROVE  ManifestOK
<1>1. CASE manifest = <<>>
  BY <1>1, EmptyIs DEF ManifestOK, Names
<1>2. CASE manifest = Targets(workspace) /\ Accepted(workspace)
  <2>1. IsSequence(manifest)
    BY <1>2, TargetsAre DEF LoadOK
  <2>2. ASSUME NEW n \in Names
        PROVE  /\ IsSequence(Deps(n)) /\ ToSet(Deps(n)) \subseteq Names
               /\ manifest[n].kind \in Kinds
               /\ IsSequence(manifest[n].srcs) /\ IsSequence(manifest[n].outputs)
    <3>1. PICK part \in ToSet(Parts(workspace)) :
              \E t \in ToSet(part.file.targets) : StandsFor(manifest, n, part, t)
      BY <1>2, TargetsAre DEF LoadOK, Names
    <3>2. PICK t \in ToSet(part.file.targets) : StandsFor(manifest, n, part, t)
      BY <3>1
    <3>3. manifest[n].kind \in Kinds
      BY <3>2, PartsAre DEF LoadOK, ReadFile, ReadTarget, StandsFor
    <3>5. IsSequence(t.srcs) /\ manifest[n].srcs = Expanded(part.package, t.srcs)
      BY <3>2, PartsAre DEF LoadOK, ReadFile, ReadTarget, ArePaths, StandsFor
    <3>6. IsSequence(manifest[n].srcs)
      BY <3>5, ExpandedIs
    <3>7. IsSequence(manifest[n].outputs)
      <4> DEFINE list == [i \in DOMAIN t.outputs |-> Prefixed(part.package, t.outputs[i])]
      <4>1. IsSequence(t.outputs)
        BY PartsAre DEF LoadOK, ReadFile, ReadTarget, ArePaths
      <4>2. PICK m \in Nat : DOMAIN t.outputs = 1..m
        BY <4>1, PositionsOf
      <4>3. list = [i \in 1..m |-> list[i]]
        BY <4>2
      <4>4. manifest[n].outputs = list
        BY <3>2 DEF StandsFor
      <4> HIDE DEF list
      <4> QED BY <4>3, <4>4, SequenceIs
    <3>4. IsSequence(Deps(n)) /\ \A i \in DOMAIN Deps(n) : Deps(n)[i] \in Names
      BY <3>2 DEF StandsFor, Deps, Names
    <3> QED BY <3>3, <3>4, <3>6, <3>7 DEF ToSet
  <2> QED BY <2>1, <2>2 DEF ManifestOK
<1> QED BY <1>1, <1>2 DEF LoadOK

\* What is upstream: the dependencies, what they depend on, and nothing else.
LEMMA UpstreamIs ==
    ASSUME ManifestOK, NEW n \in Names
    PROVE  /\ ToSet(Deps(n)) \subseteq Upstream(n) /\ Upstream(n) \subseteq Names
           /\ \A d \in Upstream(n) : ToSet(Deps(d)) \subseteq Upstream(n)
           /\ \A S : ToSet(Deps(n)) \subseteq S /\ (\A d \in S : ToSet(Deps(d)) \subseteq S)
                        => Upstream(n) \subseteq S
<1> DEFINE nexts == [m \in Names |-> ToSet(Deps(m))]
           start == ToSet(Deps(n))
<1>1. IsFiniteSet(Names)
  <2>1. Len(manifest) \in Nat /\ Names = 1..Len(manifest)
    BY PositionsOf DEF ManifestOK, Names
  <2> QED BY <2>1, FS_Interval
<1>2. DOMAIN nexts = Names /\ \A m \in Names : nexts[m] = ToSet(Deps(m)) /\ nexts[m] \subseteq Names
  BY DEF ManifestOK
<1>3. Upstream(n) = Reachable(nexts, start) /\ start \subseteq Names
  BY DEF Upstream, ManifestOK
<1> HIDE DEF nexts, start
<1>4. /\ Reachable(nexts, start) \subseteq Names
      /\ start \subseteq Reachable(nexts, start)
      /\ \A x \in Reachable(nexts, start) : nexts[x] \subseteq Reachable(nexts, start)
  BY <1>1, <1>2, <1>3, ReachableIsClosed
<1>5. ASSUME NEW S, start \subseteq S, \A d \in S : ToSet(Deps(d)) \subseteq S
      PROVE  Upstream(n) \subseteq S
  <2> DEFINE T == S \cap Names
  <2>1. start \subseteq T /\ \A d \in T : nexts[d] \subseteq T
    BY <1>2, <1>3, <1>5
  <2> HIDE DEF T
  <2>2. Reachable(nexts, start) \subseteq T
    BY <1>1, <1>2, <2>1, ReachableIsLeast
  <2> QED BY <1>3, <2>2 DEF T
<1>6. \A d \in Upstream(n) : ToSet(Deps(d)) \subseteq Upstream(n)
  BY <1>2, <1>3, <1>4
<1>7. start = ToSet(Deps(n))
  BY DEF start
<1> QED BY <1>3, <1>4, <1>5, <1>6, <1>7

-----------------------------------------------------------------------------
(* Sorting.                                                                 *)

States == {"unvisited", "visiting", "done"}
FramesOK ==
    \A i \in 1..Len(path) :
        path[i] \in [name : Names, dep : Nat] /\ path[i].dep \in 1..Len(Deps(path[i].name)) + 1
OnPath ==
    /\ \A n \in Names : marks[n] = "visiting" <=> \E i \in 1..Len(path) : path[i].name = n
    /\ \A i, j \in 1..Len(path) : path[i].name = path[j].name => i = j
Finished ==
    /\ \A n \in Names : marks[n] = "done" <=> n \in ToSet(order)
    /\ IsInjective(order) /\ ToSet(order) \subseteq Names
\* The dependencies a visit has passed are done, or are being visited.
DepsBehind ==
    \A i \in 1..Len(path) : \A j \in 1..path[i].dep - 1 :
        LET d == Deps(path[i].name)[j] IN
        marks[d] = "done" \/ (i < Len(path) /\ path[i + 1].name = d)
Chain == \A i, j \in 1..Len(path) : i < j => path[j].name \in Upstream(path[i].name)
OrderOK ==
    \A i \in 1..Len(order) : \A d \in ToSet(Deps(order[i])) : \E j \in 1..i - 1 : order[j] = d

Visiting ==
    /\ marks \in [Names -> States] /\ IsSequence(path) /\ IsSequence(order)
    /\ FramesOK /\ OnPath /\ Finished /\ DepsBehind /\ Chain /\ OrderOK

\* The last frame, and the path with its next dependency behind it.
LEMMA LastFrame ==
    ASSUME Visiting, path # <<>>
    PROVE  /\ Len(path) \in Nat \ {0} /\ Last(path) = path[Len(path)]
           /\ Last(path).name \in Names /\ Last(path).dep \in Nat \ {0}
           /\ IsSequence(Front(path)) /\ Len(Front(path)) = Len(path) - 1
           /\ \A i \in 1..Len(path) - 1 : Front(path)[i] = path[i]
           /\ IsSequence(Advanced) /\ Len(Advanced) = Len(path)
           /\ \A i \in 1..Len(path) - 1 : Advanced[i] = path[i]
           /\ Advanced[Len(path)] = [name |-> Last(path).name, dep |-> Last(path).dep + 1]
<1> DEFINE n == Len(path)
           e == [Last(path) EXCEPT !.dep = @ + 1]
<1>1. /\ IsSequence(Front(path)) /\ n \in Nat \ {0} /\ Len(Front(path)) = n - 1
      /\ \A i \in 1..n - 1 : Front(path)[i] = path[i]
  BY FrontIs DEF Visiting
<1>2. Last(path) = path[n]
  BY DEF Last
<1>3. n \in 1..n
  BY <1>1
<1>4. path[n] \in [name : Names, dep : Nat] /\ path[n].dep \in Nat \ {0}
  BY <1>3 DEF Visiting, FramesOK
<1>5. e = [name |-> path[n].name, dep |-> path[n].dep + 1]
  BY <1>2, <1>4
<1> HIDE DEF n, e
<1>6. /\ IsSequence(<<e>>) /\ Len(<<e>>) = 1 /\ <<e>>[1] = e
  BY SingletonIs
<1>7. Advanced = Front(path) \o <<e>>
  BY DEF Advanced, e
<1>8. /\ IsSequence(Advanced) /\ Len(Advanced) = (n - 1) + 1
      /\ \A i \in 1..n - 1 : Advanced[i] = Front(path)[i]
      /\ \A i \in 1..1 : Advanced[(n - 1) + i] = <<e>>[i]
  BY <1>1, <1>6, <1>7, ConcatIs
<1>9. (n - 1) + 1 = n /\ 1 \in 1..1
  BY <1>1
<1>10. Len(Advanced) = n /\ Advanced[n] = e /\ \A i \in 1..n - 1 : Advanced[i] = path[i]
  BY <1>1, <1>6, <1>8, <1>9
<1> QED BY <1>1, <1>2, <1>4, <1>5, <1>8, <1>10 DEF n

\* The dependency that is looked at.
LEMMA NextDepIs ==
    ASSUME ManifestOK, Visiting, AtDep
    PROVE  LET n == Last(path).name
               k == Last(path).dep
           IN  /\ path # <<>> /\ k \in 1..Len(Deps(n)) /\ n \in Names
               /\ NextDep = Deps(n)[k] /\ NextDep \in ToSet(Deps(n)) /\ NextDep \in Names
<1> DEFINE n == Last(path).name
           k == Last(path).dep
<1>1. path # <<>> /\ k <= Len(Deps(n)) /\ NextDep = Deps(n)[k]
  BY DEF AtDep, NextDep, Deps
<1>2. n \in Names /\ k \in Nat \ {0}
  BY <1>1, LastFrame
<1>3. IsSequence(Deps(n)) /\ ToSet(Deps(n)) \subseteq Names
  BY <1>2 DEF ManifestOK
<1> HIDE DEF n, k
<1>4. Len(Deps(n)) \in Nat
  BY <1>3, PositionsOf
<1>5. k \in 1..Len(Deps(n))
  BY <1>1, <1>2, <1>4
<1>6. NextDep \in ToSet(Deps(n))
  BY <1>1, <1>3, <1>5, PositionsOf
<1> QED BY <1>1, <1>2, <1>3, <1>5, <1>6 DEF n, k

\* What the manifest says stays as it is.
LEMMA SameManifest ==
    ASSUME manifest' = manifest
    PROVE  Names' = Names /\ \A n : Deps(n)' = Deps(n) /\ Upstream(n)' = Upstream(n)
BY DEF Names, Deps, Upstream

\* The visit of a target begins: at the root, or as the next dependency.
LEMMA Entering ==
    ASSUME ManifestOK, Visiting, UNCHANGED <<manifest, order>>,
           NEW n \in Names, marks[n] = "unvisited", Visit(n),
           NEW m \in Nat, m = Len(path), IsSequence(path'), Len(path') = m + 1,
           path'[m + 1] = Frame(n),
           \A i \in 1..m - 1 : path'[i] = path[i],
           m > 0 => /\ path'[m].name = path[m].name /\ n \in ToSet(Deps(path[m].name))
                    /\ path[m].dep <= Len(Deps(path[m].name))
                    /\ n = Deps(path[m].name)[path[m].dep]
                    /\ path'[m] = [name |-> path[m].name, dep |-> path[m].dep + 1]
    PROVE  Visiting'
<1>1. /\ marks' \in [Names -> States] /\ marks'[n] = "visiting"
      /\ \A k \in Names \ {n} : marks'[k] = marks[k]
  BY DEF Visit, Visiting, States
<1>2. Names' = Names /\ \A k : Deps(k)' = Deps(k) /\ Upstream(k)' = Upstream(k)
  BY SameManifest
<1>3. \A i \in 1..m : path'[i].name = path[i].name
  OBVIOUS
<1>4. path'[m + 1].name = n /\ path'[m + 1].dep = 1 /\ path'[m + 1] \in [name : Names, dep : Nat]
  BY DEF Frame
<1>5. \A i \in 1..m : path[i].name \in Names /\ path[i].dep \in 1..Len(Deps(path[i].name)) + 1
  BY DEF Visiting, FramesOK
<1>6. \A i \in 1..m : path[i].name # n
  BY DEF Visiting, OnPath
<1>7. \A k \in Names : IsSequence(Deps(k)) /\ Len(Deps(k)) \in Nat
  BY PositionsOf DEF ManifestOK
<1>8. FramesOK'
  <2>1. ASSUME NEW i \in 1..m + 1
        PROVE  /\ path'[i] \in [name : Names, dep : Nat]
               /\ path'[i].dep \in 1..Len(Deps(path'[i].name)) + 1
    <3>1. CASE i = m + 1
      <4>1. Len(Deps(n)) \in Nat
        BY <1>7
      <4> QED BY <1>4, <3>1, <4>1
    <3>2. CASE i = m
      <4>1. m > 0 /\ m \in 1..m
        BY <3>2
      <4>2. path[m].dep \in Nat \ {0} /\ path[m].name \in Names /\ Len(Deps(path[m].name)) \in Nat
        BY <1>5, <1>7, <4>1
      <4>3. path'[m] = [name |-> path[m].name, dep |-> path[m].dep + 1]
        BY <4>1
      <4>4. path[m].dep + 1 \in 1..Len(Deps(path[m].name)) + 1
        BY <4>1, <4>2
      <4> QED BY <3>2, <4>2, <4>3, <4>4
    <3>3. CASE i \in 1..m - 1
      <4>1. path'[i] = path[i] /\ i \in 1..m
        BY <3>3
      <4> QED BY <4>1 DEF Visiting, FramesOK
    <3> QED BY <3>1, <3>2, <3>3
  <2> QED BY <1>2, <2>1 DEF FramesOK
<1>9. OnPath'
  <2>1. ASSUME NEW k \in Names PROVE marks'[k] = "visiting" <=> \E i \in 1..m + 1 : path'[i].name = k
    <3>1. CASE k = n
      <4>1. m + 1 \in 1..m + 1
        OBVIOUS
      <4> QED BY <1>1, <1>4, <3>1, <4>1
    <3>2. CASE k # n
      <4>1. marks'[k] = "visiting" <=> \E i \in 1..m : path[i].name = k
        BY <1>1, <3>2 DEF Visiting, OnPath
      <4>2. \A i \in 1..m + 1 : i \in 1..m \/ i = m + 1
        OBVIOUS
      <4>3. \A i \in 1..m : i \in 1..m + 1
        OBVIOUS
      <4> QED BY <1>3, <1>4, <3>2, <4>1, <4>2, <4>3
    <3> QED BY <3>1, <3>2
  <2>2. ASSUME NEW i \in 1..m + 1, NEW j \in 1..m + 1, path'[i].name = path'[j].name PROVE i = j
    <3>1. (i \in 1..m \/ i = m + 1) /\ (j \in 1..m \/ j = m + 1)
      OBVIOUS
    <3>2. CASE i \in 1..m /\ j \in 1..m
      BY <1>3, <2>2, <3>2 DEF Visiting, OnPath
    <3> QED BY <1>3, <1>4, <1>6, <2>2, <3>1, <3>2
  <2> QED BY <1>2, <2>1, <2>2 DEF OnPath
<1>10. Finished'
  <2>1. \A k \in Names : marks'[k] = "done" <=> k \in ToSet(order)
    BY <1>1 DEF Visiting, Finished
  <2> QED BY <1>2, <2>1 DEF Visiting, Finished
<1>11. DepsBehind'
  <2>1. ASSUME NEW i \in 1..m + 1, NEW j \in 1..path'[i].dep - 1
        PROVE  LET d == Deps(path'[i].name)[j] IN
               marks'[d] = "done" \/ (i < m + 1 /\ path'[i + 1].name = d)
    <3>1. CASE i = m + 1
      BY <1>4, <2>1, <3>1
    <3>2. CASE i = m
      <4>1. m > 0 /\ m \in 1..m
        BY <3>2
      <4>2. path'[m].dep = path[m].dep + 1 /\ path[m].dep \in Nat \ {0}
        BY <1>5, <4>1
      <4>3. j \in 1..path[m].dep - 1 \/ j = path[m].dep
        BY <2>1, <3>2, <4>2
      <4>4. CASE j = path[m].dep
        BY <1>4, <3>2, <4>1, <4>4
      <4>5. CASE j \in 1..path[m].dep - 1
        <5> DEFINE d == Deps(path[m].name)[j]
        <5>1. ~ (m < m)
          OBVIOUS
        <5>2. marks[d] = "done"
          BY <4>1, <4>5, <5>1 DEF Visiting, DepsBehind
        <5>3. j \in 1..Len(Deps(path[m].name)) /\ path[m].name \in Names
          <6>1. Len(Deps(path[m].name)) \in Nat /\ path[m].name \in Names
            BY <1>5, <1>7, <4>1
          <6>2. path[m].dep <= Len(Deps(path[m].name))
            BY <4>1
          <6> QED BY <4>2, <4>5, <6>1, <6>2
        <5>4. d \in Names
          BY <1>7, <5>3, PositionsOf DEF ManifestOK
        <5>5. marks'[d] = "done"
          BY <1>1, <5>2, <5>4
        <5> QED BY <3>2, <4>1, <5>5
      <4> QED BY <4>3, <4>4, <4>5
    <3>3. CASE i \in 1..m - 1
      <4> DEFINE d == Deps(path[i].name)[j]
      <4>1. path'[i] = path[i] /\ i \in 1..m /\ i + 1 \in 1..m /\ path'[i + 1].name = path[i + 1].name
        BY <1>3, <3>3
      <4>2. j \in 1..path[i].dep - 1
        BY <2>1, <4>1
      <4>3. marks[d] = "done" \/ path[i + 1].name = d
        BY <4>1, <4>2 DEF Visiting, DepsBehind
      <4>4. i < m + 1
        BY <4>1
      <4>5. d \in Names
        <5>1. Len(Deps(path[i].name)) \in Nat /\ path[i].name \in Names
          BY <1>5, <1>7, <4>1
        <5>2. path[i].dep \in 1..Len(Deps(path[i].name)) + 1
          BY <1>5, <4>1
        <5>3. j \in 1..Len(Deps(path[i].name))
          BY <4>2, <5>1, <5>2
        <5> QED BY <1>7, <5>1, <5>3, PositionsOf DEF ManifestOK
      <4>6. marks[d] = "done" => marks'[d] = "done"
        BY <1>1, <4>5
      <4> QED BY <4>1, <4>3, <4>4, <4>6
    <3> QED BY <3>1, <3>2, <3>3
  <2> QED BY <1>2, <2>1 DEF DepsBehind
<1>12. Chain'
  <2>1. \A i, j \in 1..m : i < j => path[j].name \in Upstream(path[i].name)
    BY DEF Visiting, Chain
  <2>2. ASSUME NEW i \in 1..m PROVE n \in Upstream(path[i].name)
    <3>1. m > 0 /\ m \in 1..m
      OBVIOUS
    <3>2. path[m].name \in Names /\ n \in ToSet(Deps(path[m].name))
      BY <1>5, <3>1
    <3>3. CASE i = m
      BY <3>2, <3>3, UpstreamIs
    <3>4. CASE i # m
      <4>1. path[m].name \in Upstream(path[i].name) /\ path[i].name \in Names
        BY <1>5, <2>1, <3>1, <3>4
      <4> QED BY <3>2, <4>1, UpstreamIs
    <3> QED BY <3>3, <3>4
  <2>3. ASSUME NEW i \in 1..m + 1, NEW j \in 1..m + 1, i < j
        PROVE  path'[j].name \in Upstream(path'[i].name)
    <3>1. i \in 1..m
      BY <2>3
    <3>2. CASE j = m + 1
      BY <1>3, <1>4, <2>2, <3>1, <3>2
    <3>3. CASE j # m + 1
      <4>1. j \in 1..m
        BY <3>3
      <4> QED BY <1>3, <2>1, <2>3, <3>1, <4>1
    <3> QED BY <3>2, <3>3
  <2> QED BY <1>2, <2>3 DEF Chain
<1>13. OrderOK'
  BY <1>2 DEF Visiting, OrderOK
<1> QED BY <1>1, <1>2, <1>8, <1>9, <1>10, <1>11, <1>12, <1>13 DEF Visiting

LEMMA RootKeeps ==
    ASSUME ManifestOK, Visiting, Root
    PROVE  Visiting'
<1>1. UNCHANGED <<manifest, order>> /\ path = <<>>
  BY DEF Root, loading
<1>2. PICK n \in Names : marks[n] = "unvisited" /\ Visit(n) /\ path' = <<Frame(n)>>
  BY DEF Root
<1>3. IsSequence(path') /\ Len(path') = 1 /\ path'[1] = Frame(n)
  BY <1>2, SingletonIs
<1>4. Len(path) = 0
  BY <1>1, EmptyIs
<1> DEFINE m == 0
<1>5. m \in Nat /\ m = Len(path) /\ Len(path') = m + 1 /\ path'[m + 1] = Frame(n)
  BY <1>3, <1>4
<1>6. \A i \in 1..m - 1 : path'[i] = path[i]
  OBVIOUS
<1>7. ~ (m > 0)
  OBVIOUS
<1> HIDE DEF m
<1> QED BY <1>1, <1>2, <1>3, <1>5, <1>6, <1>7, Entering

LEMMA DescendKeeps ==
    ASSUME ManifestOK, Visiting, Descend
    PROVE  Visiting'
<1> DEFINE n == NextDep
           m == Len(path)
           top == Last(path)
<1>1. UNCHANGED <<manifest, order>> /\ AtDep /\ marks[n] = "unvisited" /\ Visit(n)
      /\ path' = Advanced \o <<Frame(n)>>
  BY DEF Descend, loading
<1>2. /\ path # <<>> /\ top.dep \in 1..Len(Deps(top.name)) /\ top.name \in Names
      /\ n = Deps(top.name)[top.dep] /\ n \in ToSet(Deps(top.name)) /\ n \in Names
  BY <1>1, NextDepIs
<1>3. /\ m \in Nat \ {0} /\ top = path[m]
      /\ IsSequence(Advanced) /\ Len(Advanced) = m
      /\ \A i \in 1..m - 1 : Advanced[i] = path[i]
      /\ Advanced[m] = [name |-> top.name, dep |-> top.dep + 1]
  BY <1>2, LastFrame
<1>4. /\ IsSequence(<<Frame(n)>>) /\ Len(<<Frame(n)>>) = 1 /\ <<Frame(n)>>[1] = Frame(n)
  BY SingletonIs
<1> HIDE DEF n, m, top
<1>5. /\ IsSequence(path') /\ Len(path') = m + 1 /\ \A i \in 1..m : path'[i] = Advanced[i]
      /\ \A i \in 1..1 : path'[m + i] = <<Frame(n)>>[i]
  BY <1>1, <1>3, <1>4, ConcatIs
<1>6. path'[m + 1] = Frame(n)
  BY <1>4, <1>5
<1>7. \A i \in 1..m - 1 : path'[i] = path[i]
  BY <1>3, <1>5
<1>8. m \in 1..m
  BY <1>3
<1>9. path'[m] = [name |-> path[m].name, dep |-> path[m].dep + 1]
  BY <1>3, <1>5, <1>8
<1>10. path[m].dep <= Len(Deps(path[m].name))
  BY <1>2, <1>3
<1>11. m \in Nat /\ path'[m].name = path[m].name
  BY <1>3, <1>9
<1>12. n \in ToSet(Deps(path[m].name)) /\ n = Deps(path[m].name)[path[m].dep]
  BY <1>2, <1>3
<1>13. m = Len(path)
  BY DEF m
<1> QED BY <1>1, <1>2, <1>5, <1>6, <1>7, <1>9, <1>10, <1>11, <1>12, <1>13, Entering

LEMMA PassDoneKeeps ==
    ASSUME ManifestOK, Visiting, PassDone
    PROVE  Visiting'
<1> DEFINE m == Len(path)
           top == Last(path)
<1>1. UNCHANGED <<manifest, marks, order>> /\ AtDep /\ marks[NextDep] = "done" /\ path' = Advanced
  BY DEF PassDone, loading
<1>2. /\ path # <<>> /\ top.dep \in 1..Len(Deps(top.name)) /\ top.name \in Names
      /\ NextDep = Deps(top.name)[top.dep]
  BY <1>1, NextDepIs
<1>3. /\ m \in Nat \ {0} /\ top = path[m]
      /\ IsSequence(path') /\ Len(path') = m
      /\ \A i \in 1..m - 1 : path'[i] = path[i]
      /\ path'[m] = [name |-> top.name, dep |-> top.dep + 1]
  BY <1>1, <1>2, LastFrame
<1>4. Names' = Names /\ \A k : Deps(k)' = Deps(k) /\ Upstream(k)' = Upstream(k)
  BY <1>1, SameManifest
<1>5. m = Len(path) /\ m \in 1..m /\ m = Len(path')
  BY <1>3 DEF m
<1> HIDE DEF m, top
<1>6. \A i \in 1..m : i = m \/ i \in 1..m - 1
  BY <1>3
<1>7. \A i \in 1..m : path'[i].name = path[i].name
  BY <1>3, <1>6
<1>8. FramesOK'
  <2>1. \A i \in 1..m : path[i] \in [name : Names, dep : Nat] /\ path[i].dep \in 1..Len(Deps(path[i].name)) + 1
    BY <1>5 DEF Visiting, FramesOK
  <2>2. Len(Deps(top.name)) \in Nat
    BY <1>2, PositionsOf DEF ManifestOK
  <2>3. path'[m] \in [name : Names, dep : Nat] /\ path'[m].dep \in 1..Len(Deps(path'[m].name)) + 1
    BY <1>2, <1>3, <2>2
  <2>4. ASSUME NEW i \in 1..m
        PROVE  path'[i] \in [name : Names, dep : Nat] /\ path'[i].dep \in 1..Len(Deps(path'[i].name)) + 1
    BY <1>3, <1>6, <2>1, <2>3
  <2> QED BY <1>4, <1>5, <2>4 DEF FramesOK
<1>9. OnPath'
  BY <1>1, <1>4, <1>5, <1>7 DEF Visiting, OnPath
<1>10. Finished'
  BY <1>1, <1>4 DEF Visiting, Finished
<1>11. DepsBehind'
  <2>1. ASSUME NEW i \in 1..m, NEW j \in 1..path'[i].dep - 1
        PROVE  LET d == Deps(path'[i].name)[j] IN
               marks[d] = "done" \/ (i < m /\ path'[i + 1].name = d)
    <3>1. CASE i = m
      <4>1. j \in 1..top.dep - 1 \/ j = top.dep
        BY <1>2, <1>3, <2>1, <3>1
      <4>2. CASE j = top.dep
        BY <1>1, <1>2, <1>3, <3>1, <4>2
      <4>3. CASE j \in 1..top.dep - 1
        <5>1. ~ (m < m)
          BY <1>3
        <5>2. marks[Deps(top.name)[j]] = "done"
          BY <1>3, <1>5, <4>3, <5>1 DEF Visiting, DepsBehind
        <5> QED BY <1>3, <3>1, <5>2
      <4> QED BY <4>1, <4>2, <4>3
    <3>2. CASE i \in 1..m - 1
      <4>1. path'[i] = path[i] /\ i + 1 \in 1..m /\ path'[i + 1].name = path[i + 1].name
        BY <1>3, <1>7, <3>2
      <4>2. j \in 1..path[i].dep - 1
        BY <2>1, <4>1
      <4> QED BY <1>5, <2>1, <4>1, <4>2 DEF Visiting, DepsBehind
    <3> QED BY <1>6, <3>1, <3>2
  <2> QED BY <1>1, <1>4, <1>5, <2>1 DEF DepsBehind
<1>12. Chain'
  BY <1>4, <1>5, <1>7 DEF Visiting, Chain
<1>13. OrderOK'
  <2>1. \A i \in 1..Len(order) : \A d \in ToSet(Deps(order[i])) : \E j \in 1..i - 1 : order[j] = d
    BY DEF Visiting, OrderOK
  <2>2. order' = order
    BY <1>1
  <2> QED BY <1>4, <2>1, <2>2 DEF OrderOK
<1>14. marks' \in [Names -> States] /\ IsSequence(order')
  BY <1>1 DEF Visiting
<1> QED BY <1>3, <1>4, <1>8, <1>9, <1>10, <1>11, <1>12, <1>13, <1>14 DEF Visiting

LEMMA LeaveKeeps ==
    ASSUME ManifestOK, Visiting, Leave
    PROVE  Visiting'
<1> DEFINE m == Len(path)
           top == Last(path)
           n == top.name
           o == Len(order)
<1>1. /\ manifest' = manifest /\ path # <<>> /\ ~AtDep
      /\ marks' = [marks EXCEPT ![n] = "done"] /\ order' = Append(order, n) /\ path' = Front(path)
  BY DEF Leave, loading
<1>2. /\ m \in Nat \ {0} /\ top = path[m] /\ n \in Names /\ top.dep \in Nat \ {0}
      /\ IsSequence(path') /\ Len(path') = m - 1
      /\ \A i \in 1..m - 1 : path'[i] = path[i]
  BY <1>1, LastFrame
<1>3. Names' = Names /\ \A k : Deps(k)' = Deps(k) /\ Upstream(k)' = Upstream(k)
  BY <1>1, SameManifest
<1>4. m = Len(path) /\ m \in 1..m
  BY <1>2 DEF m
<1>5. top.dep = Len(Deps(n)) + 1
  <2>1. ~ (top.dep <= Len(Deps(n)))
    BY <1>1 DEF AtDep, Deps
  <2>2. Len(Deps(n)) \in Nat
    BY <1>2, PositionsOf DEF ManifestOK
  <2>3. top.dep \in 1..Len(Deps(n)) + 1
    BY <1>2, <1>4 DEF Visiting, FramesOK
  <2> HIDE DEF top, n
  <2> QED BY <2>1, <2>2, <2>3
<1>6. o \in Nat /\ o = Len(order)
  BY PositionsOf DEF Visiting
<1>7. n = path[m].name
  BY <1>2
<1> HIDE DEF m, top, n, o
<1>8. /\ IsSequence(order') /\ Len(order') = o + 1 /\ ToSet(order') = ToSet(order) \cup {n}
      /\ order'[o + 1] = n /\ \A i \in 1..o : order'[i] = order[i]
  BY <1>1, <1>6, AppendIs DEF Visiting
<1>9. /\ marks' \in [Names -> States] /\ marks'[n] = "done"
      /\ \A k \in Names \ {n} : marks'[k] = marks[k]
  BY <1>1, <1>2 DEF Visiting, States
<1>10. marks[n] = "visiting" /\ n \notin ToSet(order)
  BY <1>2, <1>4, <1>7 DEF Visiting, OnPath, Finished
<1>11. \A i \in 1..m - 1 : i \in 1..m /\ i # m
  BY <1>2
<1>12. \A i \in 1..m - 1 : path[i].name # n
  BY <1>4, <1>7, <1>11 DEF Visiting, OnPath
<1>13. FramesOK'
  <2>1. \A i \in 1..m - 1 : path'[i] \in [name : Names, dep : Nat] /\ path'[i].dep \in 1..Len(Deps(path'[i].name)) + 1
    BY <1>2, <1>4, <1>11 DEF Visiting, FramesOK
  <2> QED BY <1>2, <1>3, <2>1 DEF FramesOK
<1>14. OnPath'
  <2>1. ASSUME NEW k \in Names PROVE marks'[k] = "visiting" <=> \E i \in 1..m - 1 : path'[i].name = k
    <3>1. CASE k = n
      BY <1>2, <1>9, <1>12, <3>1
    <3>2. CASE k # n
      <4>1. marks'[k] = "visiting" <=> \E i \in 1..m : path[i].name = k
        BY <1>4, <1>9, <3>2 DEF Visiting, OnPath
      <4>2. \A i \in 1..m : i \in 1..m - 1 \/ i = m
        BY <1>2
      <4> QED BY <1>2, <1>7, <1>11, <3>2, <4>1, <4>2
    <3> QED BY <3>1, <3>2
  <2>2. \A i, j \in 1..m - 1 : path'[i].name = path'[j].name => i = j
    BY <1>2, <1>4, <1>11 DEF Visiting, OnPath
  <2> QED BY <1>2, <1>3, <2>1, <2>2 DEF OnPath
<1>15. Finished'
  <2>1. \A k \in Names : marks'[k] = "done" <=> k \in ToSet(order')
    BY <1>2, <1>8, <1>9 DEF Visiting, Finished
  <2>2. DOMAIN order = 1..o /\ DOMAIN order' = 1..o + 1
    BY <1>6, <1>8, PositionsOf DEF Visiting
  <2>3. ASSUME NEW i \in 1..o + 1, NEW j \in 1..o + 1, order'[i] = order'[j] PROVE i = j
    <3>1. (i \in 1..o \/ i = o + 1) /\ (j \in 1..o \/ j = o + 1)
      BY <1>6
    <3>2. \A k \in 1..o : order[k] # n
      BY <1>6, <1>10, PositionsOf DEF Visiting
    <3>3. CASE i \in 1..o /\ j \in 1..o
      BY <1>8, <2>2, <2>3, <3>3 DEF Visiting, Finished, IsInjective
    <3> QED BY <1>8, <2>3, <3>1, <3>2, <3>3
  <2>4. IsInjective(order')
    BY <2>2, <2>3 DEF IsInjective
  <2>5. ToSet(order') \subseteq Names
    BY <1>2, <1>8 DEF Visiting, Finished
  <2> QED BY <1>3, <2>1, <2>4, <2>5 DEF Finished
<1>16. DepsBehind'
  <2>1. ASSUME NEW i \in 1..m - 1, NEW j \in 1..path'[i].dep - 1
        PROVE  LET d == Deps(path'[i].name)[j] IN
               marks'[d] = "done" \/ (i < m - 1 /\ path'[i + 1].name = d)
    <3> DEFINE d == Deps(path[i].name)[j]
    <3>1. path'[i] = path[i] /\ i \in 1..m /\ j \in 1..path[i].dep - 1
      BY <1>2, <1>11
    <3>2. marks[d] = "done" \/ path[i + 1].name = d
      BY <1>4, <3>1 DEF Visiting, DepsBehind
    <3>3. d \in Names
      <4>1. path[i].name \in Names /\ path[i].dep \in 1..Len(Deps(path[i].name)) + 1
        BY <1>4, <3>1 DEF Visiting, FramesOK
      <4>2. IsSequence(Deps(path[i].name)) /\ ToSet(Deps(path[i].name)) \subseteq Names
        BY <4>1 DEF ManifestOK
      <4>3. Len(Deps(path[i].name)) \in Nat
        BY <4>2, PositionsOf
      <4>4. j \in 1..Len(Deps(path[i].name))
        BY <3>1, <4>1, <4>3
      <4> QED BY <4>2, <4>4, PositionsOf
    <3>4. marks[d] = "done" => marks'[d] = "done"
      BY <1>9, <3>3
    <3>5. CASE i = m - 1
      <4>1. i + 1 = m
        BY <1>2, <3>5
      <4> QED BY <1>7, <1>9, <3>1, <3>2, <3>4, <4>1
    <3>6. CASE i # m - 1
      <4>1. i < m - 1 /\ i + 1 \in 1..m - 1
        BY <1>2, <3>6
      <4> QED BY <1>2, <3>1, <3>2, <3>4, <4>1
    <3> QED BY <3>5, <3>6
  <2> QED BY <1>2, <1>3, <2>1 DEF DepsBehind
<1>17. Chain'
  <2>1. \A i, j \in 1..m - 1 : i < j => path'[j].name \in Upstream(path'[i].name)
    BY <1>2, <1>4, <1>11 DEF Visiting, Chain
  <2> QED BY <1>2, <1>3, <2>1 DEF Chain
<1>18. OrderOK'
  <2>1. ASSUME NEW d \in ToSet(Deps(n)) PROVE \E j \in 1..o : order[j] = d
    <3>1. PICK j \in 1..Len(Deps(n)) : Deps(n)[j] = d
      BY <1>2, PositionsOf DEF ManifestOK
    <3>2. j \in 1..top.dep - 1
      <4>1. Len(Deps(n)) \in Nat
        BY <1>2, PositionsOf DEF ManifestOK
      <4> QED BY <1>5, <4>1
    <3>3. ~ (m < m)
      BY <1>2
    <3>4. marks[d] = "done"
      BY <1>2, <1>4, <1>7, <3>1, <3>2, <3>3 DEF Visiting, DepsBehind
    <3>5. d \in Names
      BY <1>2 DEF ManifestOK
    <3>6. d \in ToSet(order)
      BY <3>4, <3>5 DEF Visiting, Finished
    <3> QED BY <1>6, <3>6, PositionsOf DEF Visiting
  <2>2. ASSUME NEW i \in 1..o + 1, NEW d \in ToSet(Deps(order'[i])) PROVE \E j \in 1..i - 1 : order'[j] = d
    <3>1. CASE i = o + 1
      <4>1. PICK j \in 1..o : order[j] = d
        BY <1>8, <2>1, <2>2, <3>1
      <4>2. j \in 1..i - 1
        BY <1>6, <3>1
      <4> QED BY <1>8, <4>1, <4>2
    <3>2. CASE i # o + 1
      <4>1. i \in 1..o
        BY <1>6, <3>2
      <4>2. PICK j \in 1..i - 1 : order[j] = d
        BY <1>6, <1>8, <2>2, <4>1 DEF Visiting, OrderOK
      <4>3. j \in 1..o
        BY <1>6, <4>1
      <4> QED BY <1>8, <4>2, <4>3
    <3> QED BY <3>1, <3>2
  <2> QED BY <1>3, <1>8, <2>2 DEF OrderOK
<1> QED BY <1>2, <1>3, <1>8, <1>9, <1>13, <1>14, <1>15, <1>16, <1>17, <1>18 DEF Visiting

\* A target that is reached again while it is visited depends on itself.
LEMMA CycleFound ==
    ASSUME ManifestOK, Visiting, AtDep, marks[NextDep] = "visiting"
    PROVE  \E n \in Names : n \in Upstream(n)
<1> DEFINE m == Len(path)
           top == Last(path)
<1>1. path # <<>> /\ top.name \in Names /\ NextDep \in ToSet(Deps(top.name)) /\ NextDep \in Names
  BY NextDepIs
<1>2. m \in Nat \ {0} /\ top = path[m]
  BY <1>1, LastFrame
<1>3. PICK i \in 1..m : path[i].name = NextDep
  BY <1>1 DEF Visiting, OnPath
<1>4. m \in 1..m /\ (i < m \/ i = m)
  BY <1>2
<1>5. i < m => path[m].name \in Upstream(path[i].name)
  BY <1>3, <1>4 DEF Visiting, Chain
<1> HIDE DEF m, top
<1>6. CASE i = m
  BY <1>1, <1>2, <1>3, <1>6, UpstreamIs
<1>7. CASE i < m
  <2>1. top.name \in Upstream(NextDep)
    BY <1>2, <1>3, <1>5, <1>7
  <2>2. NextDep \in Upstream(NextDep)
    BY <1>1, <2>1, UpstreamIs
  <2> QED BY <1>1, <2>2
<1> QED BY <1>4, <1>6, <1>7

\* The sorted targets: every target, after all that is upstream of it.
LEMMA SortedIs ==
    ASSUME ManifestOK, Visiting, NEW i \in DOMAIN order
    PROVE  order[i] \in Names /\ Upstream(order[i]) \subseteq ToSet(SubSeq(order, 1, i - 1))
<1>1. Len(order) \in Nat /\ DOMAIN order = 1..Len(order) /\ order[i] \in Names
  BY PositionsOf DEF Visiting, Finished
<1> DEFINE S == {order[j] : j \in 1..i - 1}
<1>2. \A k \in 1..i : \A d \in ToSet(Deps(order[k])) : d \in S
  <2>1. ASSUME NEW k \in 1..i, NEW d \in ToSet(Deps(order[k])) PROVE d \in S
    <3>1. PICK j \in 1..k - 1 : order[j] = d
      BY <1>1 DEF Visiting, OrderOK
    <3>2. j \in 1..i - 1
      BY <1>1, <3>1
    <3> QED BY <3>1, <3>2
  <2> QED BY <2>1
<1>3. i \in 1..i /\ \A j \in 1..i - 1 : j \in 1..i
  BY <1>1
<1>4. ToSet(Deps(order[i])) \subseteq S /\ \A d \in S : ToSet(Deps(d)) \subseteq S
  BY <1>2, <1>3
<1> HIDE DEF S
<1>5. Upstream(order[i]) \subseteq S
  BY <1>1, <1>4, UpstreamIs
<1> DEFINE before == SubSeq(order, 1, i - 1)
<1>6. /\ before \in Seq(S) /\ Len(before) = IF 1 <= i - 1 THEN i - 1 - 1 + 1 ELSE 0
      /\ \A j \in 1..i - 1 - 1 + 1 : before[j] = order[1 + j - 1]
  <2>1. 1 \in Int /\ i - 1 \in Int /\ \A j \in 1..i - 1 : order[j] \in S
    BY <1>1 DEF S
  <2> QED BY <2>1, SubSeqProperties
<1> HIDE DEF before
<1>7. Len(before) = i - 1 /\ \A j \in 1..i - 1 : before[j] = order[j]
  BY <1>1, <1>6
<1>8. DOMAIN before = 1..i - 1
  BY <1>6, <1>7
<1>9. S \subseteq ToSet(before)
  BY <1>7, <1>8 DEF S, ToSet
<1> QED BY <1>1, <1>5, <1>9 DEF before

Unsorted == marks = <<>> /\ path = <<>> /\ order = <<>>
Building == {"build", "request", "selected", "two producers", "panic"}
SortOK ==
    /\ phase \in {"load", "configure"} => Unsorted
    /\ Unsorted \/ Visiting
    /\ phase \in {"sort", "cycle"} \cup Building => Visiting
    /\ phase \in Building => path = <<>> /\ ToSet(order) = Names
    /\ phase = "cycle" => \E n \in Names : n \in Upstream(n)

-----------------------------------------------------------------------------
(* The steps.                                                               *)

\* What a step of the program is.
Sorting == Root \/ Descend \/ PassDone \/ Leave
RefusedHere == phase \in {"load", "configure", "build", "request"} /\ Refuse
Selecting == phase = "request" /\ \E names : Select(names)
Step ==
    \/ Load \/ (\E c : Configure(c)) \/ Sorting \/ ReportCycle \/ Sorted
    \/ Translate \/ Built \/ Selecting \/ RefusedHere \/ UNCHANGED vars

LEMMA StepIs ==
    ASSUME [Next]_vars
    PROVE  Step
<1>1. CASE RefuseManifest \/ RefuseTool \/ RefuseCleanDirs \/ \E c : RefuseConfiguration(c)
  <2>1. RefusedHere
    BY <1>1 DEF RefuseManifest, RefuseTool, RefuseCleanDirs, RefuseConfiguration, RefusedHere
  <2> QED BY <2>1 DEF Step
<1>2. CASE \E test, names : Request(test, names) \/ RefuseRequest(test, names)
  <2>1. Selecting \/ RefusedHere
    BY <1>2 DEF Request, RefuseRequest, Selecting, RefusedHere
  <2> QED BY <2>1 DEF Step
<1>3. CASE \E names : RequestAffected(names)
  <2>1. Selecting
    BY <1>3 DEF RequestAffected, Selecting
  <2> QED BY <2>1 DEF Step
<1>4. CASE Load \/ (\E c : Configure(c)) \/ Root \/ Descend \/ PassDone \/ Leave \/ ReportCycle
           \/ Sorted \/ Translate \/ Built \/ UNCHANGED vars
  BY <1>4 DEF Step, Sorting
<1> QED BY <1>1, <1>2, <1>3, <1>4 DEF Next

Phases == {"load", "configure", "sort", "build", "request", "selected",
           "refused", "cycle", "two producers", "panic"}

LEMMA LoadKeeps ==
    ASSUME LoadOK, Step
    PROVE  LoadOK'
<1>1. CASE Load
  BY <1>1 DEF Load, LoadOK
<1>2. CASE \E c : Configure(c)
  BY <1>2 DEF Configure, LoadOK
<1>3. CASE Sorting
  BY <1>3 DEF Sorting, Root, Descend, PassDone, Leave, LoadOK, loading
<1>4. CASE ReportCycle \/ Sorted
  BY <1>4 DEF ReportCycle, Sorted, LoadOK, loading
<1>5. CASE Translate
  BY <1>5 DEF Translate, loading, LoadOK
<1>6. CASE Built \/ Selecting
  BY <1>6 DEF Built, Selecting, Select, LoadOK, loading
<1>7. CASE RefusedHere
  BY <1>7 DEF RefusedHere, Refuse, LoadOK, loading
<1>8. CASE UNCHANGED vars
  BY <1>8 DEF vars, loading, LoadOK
<1> QED BY <1>1, <1>2, <1>3, <1>4, <1>5, <1>6, <1>7, <1>8 DEF Step

-----------------------------------------------------------------------------
(* Building.                                                                *)

LEMMA CompilesAre ==
    ASSUME ManifestOK, NEW tree, NEW n \in Names
    PROVE  /\ IsSequence(Compiles(tree, n)) /\ DOMAIN Compiles(tree, n) = DOMAIN manifest[n].srcs
           /\ \A i \in DOMAIN manifest[n].srcs :
                Compiles(tree, n)[i] =
                    Action({manifest[n].srcs[i]}, ToSet(GeneratedFor(tree, n)),
                           <<Obj(tree, n, manifest[n].srcs[i])>>)
<1> DEFINE list == Compiles(tree, n)
           srcs == manifest[n].srcs
<1>1. PICK m \in Nat : DOMAIN srcs = 1..m
  BY PositionsOf DEF ManifestOK
<1>2. list = [i \in 1..m |-> Action({srcs[i]}, ToSet(GeneratedFor(tree, n)), <<Obj(tree, n, srcs[i])>>)]
  BY <1>1 DEF Compiles
<1> HIDE DEF list, srcs
<1>3. list = [i \in 1..m |-> list[i]]
  BY <1>2
<1>4. IsSequence(list) /\ DOMAIN list = 1..m
  BY <1>3, SequenceIs
<1> QED BY <1>1, <1>2, <1>4 DEF list, srcs

\* Every target becomes a list of actions.
LEMMA ActionsOfIs ==
    ASSUME ManifestOK, NEW tree, NEW n \in Names
    PROVE  IsSequence(ActionsOf(tree, n))
<1> DEFINE t == manifest[n]
           c == Compiles(tree, n)
<1>1. t.kind \in {"library", "binary", "cctest", "genrule", "test", "kofun", "command"}
  BY DEF ManifestOK, Kinds, CcKinds
<1>2. IsSequence(c)
  BY CompilesAre
<1>3. CASE t.kind \in {"genrule", "test", "command", "kofun"}
  <2>1. \E a : ActionsOf(tree, n) = <<a>>
    BY <1>3 DEF ActionsOf
  <2> QED BY <2>1, SingletonIs
<1>4. CASE t.kind \in {"library", "binary"}
  <2>1. \E a : ActionsOf(tree, n) = Append(c, a)
    BY <1>4 DEF ActionsOf
  <2> HIDE DEF c
  <2> QED BY <1>2, <2>1, AppendIs
<1>5. CASE t.kind = "cctest"
  <2>1. PICK a, b : ActionsOf(tree, n) = c \o <<a, b>>
    BY <1>5 DEF ActionsOf
  <2>2. <<a, b>> = [i \in 1..2 |-> <<a, b>>[i]]
    OBVIOUS
  <2>3. IsSequence(<<a, b>>)
    BY <2>2, SequenceIs
  <2> HIDE DEF c
  <2> QED BY <1>2, <2>1, <2>3, ConcatIs
<1> QED BY <1>1, <1>3, <1>4, <1>5

\* What compiles waits for what is generated for its target.
Compiled(n, a) == manifest[n].kind \in CcKinds /\ IsPrefix(ObjDir, a.outputs[1])
MadeOK ==
    \A a \in DOMAIN actions :
        /\ owner[a] \in Names
        /\ Compiled(owner[a], actions[a]) =>
              actions[a].orderOnly = ToSet(GeneratedFor(TreeOf(config), owner[a]))
BuildOK ==
    /\ IsSequence(actions) /\ IsSequence(owner) /\ Len(owner) = Len(actions)
    /\ OneProducerIn(actions) /\ MadeOK
    /\ built \in Nat /\ built <= Len(manifest)
    /\ phase \notin Building \cup {"refused"} => actions = <<>> /\ owner = <<>> /\ built = 0
    /\ phase = "request" => CleanDirsValid

\* The loop over the sorted targets stays within them.
LEMMA OrderLength ==
    ASSUME ManifestOK, Visiting, ToSet(order) = Names
    PROVE  Len(order) = Len(manifest)
<1>1. /\ Len(order) \in Nat /\ DOMAIN order = 1..Len(order)
      /\ order = [i \in 1..Len(order) |-> order[i]]
  BY PositionsOf DEF Visiting
<1>2. Len(manifest) \in Nat /\ Names = 1..Len(manifest)
  BY PositionsOf DEF ManifestOK, Names
<1>3. \A x : x \in Names <=> \E i \in 1..Len(order) : order[i] = x
  BY PositionsOf DEF Visiting
<1>4. order \in [1..Len(order) -> Names]
  BY <1>1, <1>3
<1>5. order \in Injection(1..Len(order), Names)
  BY <1>4 DEF Visiting, Finished, Injection
<1>6. order \in Surjection(1..Len(order), Names)
  BY <1>3, <1>4 DEF Surjection
<1>7. IsFiniteSet(Names) /\ Cardinality(Names) = Len(manifest)
  <2>1. IsFiniteSet(1..Len(manifest))
    BY <1>2, FS_Interval
  <2>2. Cardinality(1..Len(manifest)) = IF 1 > Len(manifest) THEN 0 ELSE Len(manifest) - 1 + 1
    BY <1>2, FS_Interval
  <2>3. (IF 1 > Len(manifest) THEN 0 ELSE Len(manifest) - 1 + 1) = Len(manifest)
    BY <1>2
  <2> QED BY <1>2, <2>1, <2>2, <2>3
<1>8. Cardinality(1..Len(order)) = Len(order)
  BY <1>1, FS_Interval
<1> QED BY <1>5, <1>6, <1>7, <1>8, FS_Injection

\* What Translate does with the next target.
Translated(n) ==
    /\ IsSequence(actions') /\ IsSequence(owner') /\ Len(owner') = Len(actions')
    /\ OneProducerIn(actions') /\ built' = built + 1 /\ phase' = phase
    /\ \A a \in DOMAIN actions' :
          \/ a \in DOMAIN actions /\ actions'[a] = actions[a] /\ owner'[a] = owner[a]
          \/ owner'[a] = n /\ actions'[a] \in ToSet(ActionsOf(TreeOf(config), n))
Stopped == phase' \in {"two producers", "panic"} /\ UNCHANGED graph

LEMMA TranslateIs ==
    ASSUME ManifestOK, SortOK, BuildOK, Translate
    PROVE  Stopped \/ \E n \in Names : Translated(n)
<1> DEFINE n == order[built + 1]
           new == ActionsOf(TreeOf(config), n)
           result == PushEach(actions, new)
           more == [i \in 1..Len(result.list) - Len(actions) |-> n]
<1>1. phase = "build" /\ built < Len(manifest)
  BY DEF Translate
<1>2. Visiting /\ ToSet(order) = Names
  BY <1>1 DEF SortOK, Building
<1>3. n \in Names
  <2>1. built + 1 \in 1..Len(order)
    <3>1. Len(order) = Len(manifest) /\ Len(order) \in Nat
      BY <1>2, OrderLength, PositionsOf DEF Visiting
    <3> QED BY <1>1, <3>1 DEF BuildOK
  <2> QED BY <1>2, <2>1, PositionsOf DEF Visiting
<1>4. IsSequence(new)
  BY <1>3, ActionsOfIs
<1>5. PICK k \in Nat : k = Len(new) /\ DOMAIN new = 1..k
  BY <1>4, PositionsOf
<1>6. PICK o \in Nat : o = Len(actions) /\ DOMAIN actions = 1..o
  BY PositionsOf DEF BuildOK
<1>7. /\ result.verdict = "ok" => /\ actions' = result.list /\ owner' = owner \o more
                                  /\ built' = built + 1 /\ phase' = phase
      /\ result.verdict # "ok" => phase' = result.verdict /\ UNCHANGED graph
  BY DEF Translate
<1> HIDE DEF new
<1>8. Joined(result, actions, new, k)
  BY <1>4, <1>5, PushEachIs DEF BuildOK
<1> HIDE DEF result
<1>9. /\ IsSequence(result.list) /\ result.verdict \in Verdicts
      /\ OneProducerIn(actions) => OneProducerIn(result.list)
      /\ result.verdict = "ok" =>
            /\ Len(result.list) = Len(actions) + k
            /\ \A i \in 1..Len(actions) : result.list[i] = actions[i]
            /\ \A i \in 1..k : result.list[Len(actions) + i] = new[i]
  <2>1. PICK l, v :
          /\ result = [list |-> l, verdict |-> v]
          /\ IsSequence(l) /\ v \in Verdicts
          /\ OneProducerIn(actions) => OneProducerIn(l)
          /\ v = "ok" => /\ Len(l) = Len(actions) + k
                         /\ \A i \in 1..Len(actions) : l[i] = actions[i]
                         /\ \A i \in 1..k : l[Len(actions) + i] = new[i]
    BY <1>8 DEF Joined
  <2>2. result.list = l /\ result.verdict = v
    BY <2>1
  <2> QED BY <2>1, <2>2
<1>10. CASE result.verdict # "ok"
  BY <1>7, <1>9, <1>10 DEF Stopped, Verdicts
<1>11. CASE result.verdict = "ok"
  <2> DEFINE all == result.list
  <2>1. /\ IsSequence(all) /\ OneProducerIn(all) /\ Len(all) = o + k /\ DOMAIN all = 1..o + k
        /\ (\A i \in 1..o : all[i] = actions[i]) /\ \A i \in 1..k : all[o + i] = new[i]
    BY <1>6, <1>9, <1>11, PositionsOf DEF BuildOK
  <2> HIDE DEF all
  <2>2. more = [i \in 1..k |-> n]
    <3>1. Len(all) - Len(actions) = k
      BY <1>5, <1>6, <2>1
    <3> QED BY <3>1 DEF all
  <2> HIDE DEF more, n
  <2>3. IsSequence(more) /\ Len(more) = k /\ \A i \in 1..k : more[i] = n
    <3>1. more = [i \in 1..k |-> more[i]] /\ \A i \in 1..k : more[i] = n
      BY <2>2
    <3> QED BY <1>5, <3>1, SequenceIs
  <2>4. Len(owner) = o /\ IsSequence(owner)
    BY <1>6 DEF BuildOK
  <2>5. /\ IsSequence(owner \o more) /\ Len(owner \o more) = o + k
        /\ (\A i \in 1..o : (owner \o more)[i] = owner[i])
        /\ \A i \in 1..k : (owner \o more)[o + i] = n
    BY <2>3, <2>4, ConcatIs
  <2>6. ASSUME NEW a \in 1..o + k
        PROVE  \/ a \in DOMAIN actions /\ all[a] = actions[a] /\ (owner \o more)[a] = owner[a]
               \/ (owner \o more)[a] = n /\ all[a] \in ToSet(new)
    <3>1. CASE a \in 1..o
      BY <1>6, <2>1, <2>5, <3>1
    <3>2. CASE a \notin 1..o
      <4>1. a - o \in 1..k /\ a = o + (a - o)
        BY <1>5, <1>6, <3>2
      <4>2. all[a] = new[a - o] /\ (owner \o more)[a] = n
        BY <2>1, <2>5, <4>1
      <4> QED BY <1>5, <4>1, <4>2 DEF ToSet
    <3> QED BY <3>1, <3>2
  <2>7. actions' = all /\ owner' = owner \o more /\ built' = built + 1 /\ phase' = phase
    BY <1>7, <1>11 DEF all
  <2>8. Translated(n)
    BY <2>1, <2>5, <2>6, <2>7 DEF Translated, new
  <2> QED BY <1>3, <2>8
<1> QED BY <1>10, <1>11

\* No archive, program or stamp lies among the objects.
LEMMA StartsAlike ==
    ASSUME NEW s, IsSequence(s), Len(s) >= 1, NEW t, IsSequence(t)
    PROVE  IsSequence(s \o t) /\ Len(s \o t) >= 1 /\ (s \o t)[1] = s[1]
<1>1. Len(s) \in Nat /\ Len(t) \in Nat /\ 1 \in 1..Len(s)
  BY PositionsOf
<1>2. IsSequence(s \o t) /\ Len(s \o t) = Len(s) + Len(t) /\ \A i \in 1..Len(s) : (s \o t)[i] = s[i]
  BY ConcatIs
<1> QED BY <1>1, <1>2

LEMMA NotAnObject ==
    ASSUME NEW s, s[1] # ObjDir[1]
    PROVE  ~IsPrefix(ObjDir, s)
<1>1. Len(ObjDir) = 1
  BY DEF ObjDir
<1> QED BY <1>1 DEF IsPrefix

LEMMA ElsewhereIs ==
    ASSUME NEW tree, IsSequence(tree), NEW n
    PROVE  /\ ~IsPrefix(ObjDir, Lib(tree, n)) /\ ~IsPrefix(ObjDir, Bin(tree, n))
           /\ ~IsPrefix(ObjDir, Stamp(tree, n))
<1> DEFINE key == PathKey(manifest[n].label)
           passed == <<<<"passed">>>>
<1>1. IsSequence(key) /\ IsSequence(passed)
  BY SingletonIs DEF PathKey
<1> HIDE DEF key, passed
<1>2. ASSUME NEW dir, IsSequence(dir), Len(dir) >= 1
      PROVE  IsSequence(dir \o tree \o key) /\ Len(dir \o tree \o key) >= 1 /\ (dir \o tree \o key)[1] = dir[1]
  <2>1. IsSequence(dir \o tree) /\ Len(dir \o tree) >= 1 /\ (dir \o tree)[1] = dir[1]
    BY <1>2, StartsAlike
  <2> QED BY <1>1, <2>1, StartsAlike
<1>3. /\ IsSequence(LibDir) /\ Len(LibDir) >= 1 /\ LibDir[1] # ObjDir[1]
      /\ IsSequence(BinDir) /\ Len(BinDir) >= 1 /\ BinDir[1] # ObjDir[1]
      /\ IsSequence(TestDir) /\ Len(TestDir) >= 1 /\ TestDir[1] # ObjDir[1]
  <2>1. LibDir[1] # ObjDir[1] /\ BinDir[1] # ObjDir[1] /\ TestDir[1] # ObjDir[1]
    BY DEF LibDir, BinDir, TestDir, ObjDir
  <2>2. IsSequence(LibDir) /\ IsSequence(BinDir) /\ IsSequence(TestDir)
    BY SingletonIs DEF LibDir, BinDir, TestDir
  <2>3. Len(LibDir) >= 1 /\ Len(BinDir) >= 1 /\ Len(TestDir) >= 1
    BY DEF LibDir, BinDir, TestDir
  <2> QED BY <2>1, <2>2, <2>3
<1>4. ~IsPrefix(ObjDir, LibDir \o tree \o key) /\ ~IsPrefix(ObjDir, BinDir \o tree \o key)
  BY <1>2, <1>3, NotAnObject
<1>5. ~IsPrefix(ObjDir, TestDir \o tree \o key \o passed)
  <2>1. /\ IsSequence(TestDir \o tree \o key) /\ Len(TestDir \o tree \o key) >= 1
        /\ (TestDir \o tree \o key)[1] = TestDir[1]
    BY <1>2, <1>3
  <2>2. (TestDir \o tree \o key \o passed)[1] = TestDir[1]
    BY <1>1, <2>1, StartsAlike
  <2> QED BY <1>3, <2>2, NotAnObject
<1> QED BY <1>4, <1>5 DEF Lib, Bin, Stamp, key, passed

LEMMA TreeIs == IsSequence(TreeOf(config))
<1> DEFINE c == config
<1>1. CASE c.platform = HostPlatform
  <2>1. TreeOf(config) = <<c.profile>>
    BY <1>1 DEF TreeOf
  <2> QED BY <2>1, SingletonIs
<1>2. CASE c.platform # HostPlatform
  <2> DEFINE s == <<c.platform, c.profile>>
  <2>1. TreeOf(config) = s /\ s = [i \in 1..2 |-> s[i]]
    BY <1>2 DEF TreeOf
  <2> HIDE DEF s
  <2> QED BY <2>1, SequenceIs
<1> QED BY <1>1, <1>2

LEMMA CompilesWait ==
    ASSUME ManifestOK, NEW tree, IsSequence(tree), NEW n \in Names,
           NEW a \in ToSet(ActionsOf(tree, n)), Compiled(n, a)
    PROVE  a.orderOnly = ToSet(GeneratedFor(tree, n))
<1> DEFINE c == Compiles(tree, n)
<1>1. IsSequence(c)
  BY CompilesAre
<1>2. \A x \in ToSet(c) : x.orderOnly = ToSet(GeneratedFor(tree, n))
  <2>1. ASSUME NEW i \in DOMAIN c PROVE c[i].orderOnly = ToSet(GeneratedFor(tree, n))
    <3> DEFINE src == manifest[n].srcs[i]
    <3>1. c[i] = Action({src}, ToSet(GeneratedFor(tree, n)), <<Obj(tree, n, src)>>)
      BY CompilesAre
    <3> HIDE DEF c, src
    <3> QED BY <3>1 DEF Action
  <2> QED BY <2>1 DEF ToSet
<1>3. manifest[n].kind \in {"library", "binary", "cctest"} /\ IsPrefix(ObjDir, a.outputs[1])
  BY DEF Compiled, CcKinds
<1> HIDE DEF c
<1>4. ASSUME NEW inputs, NEW out, ~IsPrefix(ObjDir, out), a = Action(inputs, {}, <<out>>) PROVE FALSE
  BY <1>3, <1>4 DEF Action
<1>5. CASE manifest[n].kind = "library"
  <2>1. ActionsOf(tree, n) = Append(c, Action(Objs(tree, n), {}, <<Lib(tree, n)>>))
    BY <1>5 DEF ActionsOf, c
  <2>2. a \in ToSet(c) \/ a = Action(Objs(tree, n), {}, <<Lib(tree, n)>>)
    BY <1>1, <2>1, AppendIs
  <2> QED BY <1>2, <1>4, <2>2, ElsewhereIs
<1>6. CASE manifest[n].kind = "binary"
  <2>1. ActionsOf(tree, n) = Append(c, Link(tree, n))
    BY <1>6 DEF ActionsOf, c
  <2>2. a \in ToSet(c) \/ a = Link(tree, n)
    BY <1>1, <2>1, AppendIs
  <2> QED BY <1>2, <1>4, <2>2, ElsewhereIs DEF Link
<1>7. CASE manifest[n].kind = "cctest"
  <2> DEFINE last == Action({Bin(tree, n)}, {}, <<Stamp(tree, n)>>)
             two == <<Link(tree, n), last>>
  <2>1. ActionsOf(tree, n) = c \o two
    BY <1>7 DEF ActionsOf, c
  <2>2. two = [i \in 1..2 |-> two[i]] /\ ToSet(two) = {Link(tree, n), last}
    BY DEF ToSet
  <2> HIDE DEF two
  <2>3. IsSequence(two)
    BY <2>2, SequenceIs
  <2>4. ToSet(c \o two) = ToSet(c) \cup ToSet(two)
    BY <1>1, <2>3, ConcatIs
  <2>5. a \in ToSet(c) \/ a = Link(tree, n) \/ a = last
    BY <2>1, <2>2, <2>4
  <2> QED BY <1>2, <1>4, <2>5, ElsewhereIs DEF Link
<1> QED BY <1>3, <1>5, <1>6, <1>7

-----------------------------------------------------------------------------
(* Every step keeps what the sorting and the building promise.              *)

LEMMA SortStays ==
    ASSUME Visiting, manifest' = manifest, UNCHANGED sorting
    PROVE  Visiting'
<1>1. Names' = Names /\ \A k : Deps(k)' = Deps(k) /\ Upstream(k)' = Upstream(k)
  BY SameManifest
<1>2. marks' = marks /\ path' = path /\ order' = order
  BY DEF sorting
<1>3. FramesOK' /\ OnPath' /\ Finished'
  BY <1>1, <1>2 DEF Visiting, FramesOK, OnPath, Finished
<1>4. DepsBehind'
  BY <1>1, <1>2 DEF Visiting, DepsBehind
<1>5. Chain'
  BY <1>1, <1>2 DEF Visiting, Chain
<1>6. OrderOK'
  <2>1. \A i \in 1..Len(order) : \A d \in ToSet(Deps(order[i])) : \E j \in 1..i - 1 : order[j] = d
    BY DEF Visiting, OrderOK
  <2> QED BY <1>1, <1>2, <2>1 DEF OrderOK
<1> QED BY <1>1, <1>2, <1>3, <1>4, <1>5, <1>6 DEF Visiting

LEMMA SortKeeps ==
    ASSUME LoadOK, SortOK, BuildOK, phase \in Phases, Step
    PROVE  SortOK' /\ phase' \in Phases
<1>1. ManifestOK
  BY LoadedManifest
<1>2. CASE Load
  BY <1>2 DEF Load, SortOK, Unsorted, sorting, Building, Phases
<1>3. CASE \E c : Configure(c)
  <2>1. /\ marks' = [n \in Names |-> "unvisited"] /\ path' = <<>> /\ order' = <<>>
        /\ phase' = "sort" /\ manifest' = manifest
    BY <1>3 DEF Configure, SortOK, Unsorted
  <2>2. Names' = Names
    BY <2>1, SameManifest
  <2>3. marks' \in [Names -> States] /\ \A n \in Names : marks'[n] = "unvisited"
    BY <2>1 DEF States
  <2>4. Len(path') = 0 /\ Len(order') = 0 /\ ToSet(order') = {} /\ IsSequence(path') /\ IsSequence(order')
        /\ DOMAIN order' = {}
    BY <2>1, EmptyIs
  <2>5. FramesOK' /\ OnPath' /\ Finished' /\ DepsBehind' /\ Chain' /\ OrderOK'
    BY <2>2, <2>3, <2>4 DEF FramesOK, OnPath, Finished, DepsBehind, Chain, OrderOK, IsInjective
  <2>6. Visiting'
    BY <2>2, <2>3, <2>4, <2>5 DEF Visiting
  <2> QED BY <2>1, <2>6 DEF SortOK, Building, Phases
<1>4. CASE Sorting
  <2>1. phase = "sort" /\ phase' = phase
    BY <1>4 DEF Sorting, Root, Descend, PassDone, Leave
  <2>2. Visiting
    BY <2>1 DEF SortOK
  <2>3. Visiting'
    BY <1>1, <1>4, <2>2, RootKeeps, DescendKeeps, PassDoneKeeps, LeaveKeeps DEF Sorting
  <2> QED BY <2>1, <2>3 DEF SortOK, Building, Phases
<1>5. CASE ReportCycle
  <2>1. /\ phase = "sort" /\ AtDep /\ marks[NextDep] = "visiting" /\ phase' = "cycle"
        /\ manifest' = manifest /\ UNCHANGED sorting
    BY <1>5 DEF ReportCycle, loading
  <2>2. Visiting /\ Visiting'
    BY <2>1, SortStays DEF SortOK
  <2>3. \E n \in Names : n \in Upstream(n)
    BY <1>1, <2>1, <2>2, CycleFound
  <2>4. Names' = Names /\ \A n : Upstream(n)' = Upstream(n)
    BY <2>1, SameManifest
  <2>5. (\E n \in Names : n \in Upstream(n))'
    BY <2>3, <2>4
  <2> QED BY <2>1, <2>2, <2>5 DEF SortOK, Building, Phases
<1>6. CASE Sorted
  <2>1. /\ phase = "sort" /\ path = <<>> /\ phase' = "build" /\ manifest' = manifest /\ UNCHANGED sorting
        /\ \A n \in Names : marks[n] # "unvisited"
    BY <1>6 DEF Sorted, loading
  <2>2. Visiting /\ Visiting'
    BY <2>1, SortStays DEF SortOK
  <2>3. \A n \in Names : marks[n] # "visiting"
    <3>1. Len(path) = 0
      BY <2>1, EmptyIs
    <3> QED BY <2>2, <3>1 DEF Visiting, OnPath
  <2>4. \A n \in Names : marks[n] = "done"
    BY <2>1, <2>2, <2>3 DEF Visiting, States
  <2>5. ToSet(order) = Names
    BY <2>2, <2>4 DEF Visiting, Finished
  <2>6. path' = <<>> /\ order' = order /\ Names' = Names
    BY <2>1, SameManifest DEF sorting
  <2> QED BY <2>1, <2>2, <2>5, <2>6 DEF SortOK, Phases
<1>7. CASE Translate
  <2>1. phase = "build" /\ manifest' = manifest /\ UNCHANGED sorting
    BY <1>7 DEF Translate, loading
  <2>2. phase' \in {"build", "two producers", "panic"}
    BY <1>1, <1>7, <2>1, TranslateIs DEF Stopped, Translated
  <2>3. Visiting /\ Visiting' /\ path = <<>> /\ ToSet(order) = Names
    BY <2>1, SortStays DEF SortOK, Building
  <2>4. path' = path /\ order' = order /\ Names' = Names
    BY <2>1, SameManifest DEF sorting
  <2> QED BY <2>2, <2>3, <2>4 DEF SortOK, Phases
<1>8. CASE Built \/ Selecting
  <2>1. phase \in Building /\ phase' \in Building /\ manifest' = manifest /\ UNCHANGED sorting
    BY <1>8 DEF Built, Selecting, Select, loading, Building
  <2>2. Visiting /\ Visiting' /\ path = <<>> /\ ToSet(order) = Names
    BY <2>1, SortStays DEF SortOK
  <2>3. path' = path /\ order' = order /\ Names' = Names
    BY <2>1, SameManifest DEF sorting
  <2> QED BY <2>1, <2>2, <2>3 DEF SortOK, Building, Phases
<1>9. CASE RefusedHere
  <2>1. phase' = "refused" /\ manifest' = manifest /\ UNCHANGED sorting
    BY <1>9 DEF RefusedHere, Refuse, loading
  <2>2. Unsorted' \/ Visiting'
    BY <2>1, SortStays DEF SortOK, Unsorted, sorting
  <2> QED BY <2>1, <2>2 DEF SortOK, Building, Phases
<1>10. CASE UNCHANGED vars
  <2>1. phase' = phase /\ manifest' = manifest /\ UNCHANGED sorting
    BY <1>10 DEF vars, loading
  <2>2. Visiting => Visiting'
    BY <2>1, SortStays
  <2>3. Names' = Names /\ \A n : Upstream(n)' = Upstream(n)
    BY <2>1, SameManifest
  <2>4. phase = "cycle" => (\E n \in Names : n \in Upstream(n))'
    BY <2>3 DEF SortOK
  <2> QED BY <2>1, <2>2, <2>3, <2>4 DEF SortOK, Unsorted, sorting
<1> QED BY <1>2, <1>3, <1>4, <1>5, <1>6, <1>7, <1>8, <1>9, <1>10 DEF Step

LEMMA SameGenerated ==
    ASSUME manifest' = manifest, config' = config, NEW n
    PROVE  /\ GeneratedFor(TreeOf(config), n)' = GeneratedFor(TreeOf(config), n)
           /\ \A a : Compiled(n, a)' = Compiled(n, a)
BY DEF GeneratedFor, GeneratedBy, Flatten, Turns, References, Turn, Deps, Names, TreeOf, Compiled

LEMMA MadeStays ==
    ASSUME MadeOK, manifest' = manifest, config' = config, actions' = actions, owner' = owner
    PROVE  MadeOK'
<1>1. ASSUME NEW a \in DOMAIN actions
      PROVE  /\ owner'[a] \in Names'
             /\ Compiled(owner[a], actions[a])' =>
                  actions'[a].orderOnly = ToSet(GeneratedFor(TreeOf(config), owner[a]))'
  <2>1. Names' = Names /\ owner'[a] = owner[a] /\ actions'[a] = actions[a]
    BY SameManifest
  <2> DEFINE n == owner[a]
             x == actions[a]
  <2>2. n' = n /\ x' = x
    BY <2>1
  <2>3. n \in Names /\ (Compiled(n, x) => x.orderOnly = ToSet(GeneratedFor(TreeOf(config), n)))
    BY DEF MadeOK
  <2>4. GeneratedFor(TreeOf(config), owner[a])' = GeneratedFor(TreeOf(config), owner[a])
    BY DEF GeneratedFor, GeneratedBy, Flatten, Turns, References, Turn, Deps, Names, TreeOf
  <2>5. Compiled(owner[a], actions[a])' = Compiled(owner[a], actions[a])
    BY DEF Compiled
  <2> QED BY <2>1, <2>2, <2>3, <2>4, <2>5
<1> QED BY <1>1 DEF MadeOK

LEMMA BuildStays ==
    ASSUME BuildOK, manifest' = manifest, config' = config, UNCHANGED graph,
           phase' \in Building \cup {"refused"} \/ phase \notin Building \cup {"refused"},
           phase' = "request" => CleanDirsValid
    PROVE  BuildOK'
<1>1. actions' = actions /\ owner' = owner /\ built' = built
  BY DEF graph
<1>2. MadeOK'
  BY <1>1, MadeStays DEF BuildOK
<1>3. OneProducerIn(actions)'
  BY <1>1 DEF BuildOK, OneProducerIn
<1>4. CleanDirsValid' = CleanDirsValid
  BY <1>1 DEF CleanDirsValid, Claims, Directory, Earlier, GraphFiles
<1> QED BY <1>1, <1>2, <1>3, <1>4 DEF BuildOK

LEMMA BuildKeeps ==
    ASSUME LoadOK, SortOK, BuildOK, phase \in Phases, Step
    PROVE  BuildOK'
<1>1. ManifestOK
  BY LoadedManifest
<1>2. CASE Load \/ \E c : Configure(c)
  <2>1. /\ actions' = actions /\ owner' = owner /\ built' = built
        /\ phase \in {"load", "configure"} /\ phase' \in {"configure", "sort"}
    BY <1>2 DEF Load, Configure, graph
  <2>2. actions = <<>> /\ owner = <<>> /\ built = 0
    BY <2>1 DEF BuildOK, Building
  <2>6. DOMAIN actions = {}
    BY <2>2
  <2>3. Len(manifest') \in Nat
    <3>1. CASE Load
      <4>1. manifest' = Targets(workspace) /\ ReadWorkspace(workspace) /\ Accepted(workspace)
        BY <3>1 DEF Load, LoadOK
      <4> QED BY <4>1, TargetsAre, PositionsOf
    <3>2. CASE \E c : Configure(c)
      <4>1. manifest' = manifest
        BY <3>2 DEF Configure
      <4> QED BY <1>1, <4>1, PositionsOf DEF ManifestOK
    <3> QED BY <1>2, <3>1, <3>2
  <2>4. MadeOK' /\ OneProducerIn(actions)'
    BY <2>1, <2>6 DEF MadeOK, OneProducerIn
  <2>5. /\ IsSequence(actions') /\ IsSequence(owner') /\ Len(owner') = Len(actions')
        /\ built' = 0 /\ built' <= Len(manifest')
    BY <2>1, <2>2, <2>3, EmptyIs
  <2> QED BY <2>1, <2>2, <2>4, <2>5 DEF BuildOK, Building
<1>3. CASE Sorting \/ ReportCycle \/ Sorted
  <2>1. /\ manifest' = manifest /\ config' = config /\ UNCHANGED graph
        /\ phase = "sort" /\ phase' # "request"
    BY <1>3 DEF Sorting, Root, Descend, PassDone, Leave, ReportCycle, Sorted, loading
  <2> QED BY <2>1, BuildStays DEF Building
<1>4. CASE Translate
  <2>1. phase = "build" /\ manifest' = manifest /\ config' = config /\ built < Len(manifest)
    BY <1>4 DEF Translate, loading
  <2>2. CASE Stopped
    <3>1. UNCHANGED graph /\ phase' \in {"two producers", "panic"}
      BY <2>2 DEF Stopped
    <3> QED BY <2>1, <3>1, BuildStays DEF Building
  <2>3. ASSUME NEW n \in Names, Translated(n) PROVE BuildOK'
    <3>1. Names' = Names
      BY <2>1, SameManifest
    <3>2. ASSUME NEW a \in DOMAIN actions'
          PROVE  /\ owner'[a] \in Names
                 /\ Compiled(owner'[a], actions'[a]) =>
                       actions'[a].orderOnly = ToSet(GeneratedFor(TreeOf(config), owner'[a]))
      <4>1. CASE a \in DOMAIN actions /\ actions'[a] = actions[a] /\ owner'[a] = owner[a]
        BY <4>1 DEF BuildOK, MadeOK
      <4>2. CASE owner'[a] = n /\ actions'[a] \in ToSet(ActionsOf(TreeOf(config), n))
        BY <1>1, <4>2, TreeIs, CompilesWait
      <4> QED BY <2>3, <3>2, <4>1, <4>2 DEF Translated
    <3>3. ASSUME NEW m \in Names
          PROVE  /\ GeneratedFor(TreeOf(config), m)' = GeneratedFor(TreeOf(config), m)
                 /\ \A x : Compiled(m, x)' = Compiled(m, x)
      BY <2>1, SameGenerated
    <3>4. MadeOK'
      <4>1. ASSUME NEW a \in DOMAIN actions'
            PROVE  /\ owner'[a] \in Names
                   /\ Compiled(owner[a], actions[a])' =>
                         actions'[a].orderOnly = ToSet(GeneratedFor(TreeOf(config), owner[a]))'
        <5>1. owner'[a] \in Names
          BY <3>2
        <5>2. PICK m \in Names : m = owner'[a]
          BY <5>1
        <5>3. Compiled(owner[a], actions[a])' = Compiled(m, actions'[a])
          BY <2>1, <5>2 DEF Compiled
        <5>4. GeneratedFor(TreeOf(config), owner[a])' = GeneratedFor(TreeOf(config), m)
          BY <2>1, <5>2 DEF GeneratedFor, GeneratedBy, Flatten, Turns, References, Turn, Deps, Names, TreeOf
        <5> QED BY <3>2, <5>2, <5>3, <5>4
      <4> QED BY <3>1, <4>1 DEF MadeOK
    <3>5. /\ IsSequence(actions') /\ IsSequence(owner') /\ Len(owner') = Len(actions')
          /\ OneProducerIn(actions') /\ built' = built + 1 /\ phase' = "build"
      BY <2>1, <2>3 DEF Translated
    <3>6. built' \in Nat /\ built' <= Len(manifest')
      <4>1. Len(manifest) \in Nat /\ built \in Nat
        BY <1>1, PositionsOf DEF ManifestOK, BuildOK
      <4> QED BY <2>1, <3>5, <4>1
    <3> QED BY <3>4, <3>5, <3>6 DEF BuildOK, Building, OneProducerIn
  <2> QED BY <1>1, <1>4, <2>2, <2>3, TranslateIs
<1>5. CASE Built \/ Selecting
  <2>1. /\ manifest' = manifest /\ config' = config /\ UNCHANGED graph
        /\ phase' \in Building /\ (phase' = "request" => CleanDirsValid)
    BY <1>5 DEF Built, Selecting, Select, loading, Building
  <2> QED BY <2>1, BuildStays
<1>6. CASE RefusedHere
  <2>1. manifest' = manifest /\ config' = config /\ UNCHANGED graph /\ phase' = "refused"
    BY <1>6 DEF RefusedHere, Refuse, loading
  <2> QED BY <2>1, BuildStays
<1>7. CASE UNCHANGED vars
  <2>1. manifest' = manifest /\ config' = config /\ UNCHANGED graph /\ phase' = phase
    BY <1>7 DEF vars, loading
  <2>2. phase' = "request" => CleanDirsValid
    BY <2>1 DEF BuildOK
  <2>3. phase' \in Building \cup {"refused"} \/ phase \notin Building \cup {"refused"}
    BY <2>1
  <2> QED BY <2>1, <2>2, <2>3, BuildStays
<1> QED BY <1>2, <1>3, <1>4, <1>5, <1>6, <1>7 DEF Step

-----------------------------------------------------------------------------
(* Selection.                                                               *)

SelectOK ==
    closure = IF phase = "selected" THEN Reach(ActionsOfTargets(requested)) ELSE {}

LEMMA SelectKeeps ==
    ASSUME LoadOK, SortOK, BuildOK, SelectOK, phase \in Phases, Step
    PROVE  SelectOK'
<1>1. ManifestOK
  BY LoadedManifest
<1>2. CASE Selecting
  <2>1. PICK names : Select(names)
    BY <1>2 DEF Selecting
  <2>2. /\ requested' = names /\ closure' = Reach(ActionsOfTargets(names)) /\ phase' = "selected"
        /\ actions' = actions /\ owner' = owner
    BY <2>1 DEF Select, graph
  <2>3. Reach(ActionsOfTargets(requested))' = Reach(ActionsOfTargets(names))
    BY <2>2 DEF Reach, ActionsOfTargets, Producers
  <2> QED BY <2>2, <2>3 DEF SelectOK
<1>3. CASE ~Selecting /\ ~UNCHANGED vars
  <2>1. phase # "selected" /\ phase' # "selected" /\ closure' = closure
    <3>1. CASE Load \/ \E c : Configure(c)
      BY <3>1 DEF Load, Configure, selection
    <3>2. CASE Sorting \/ ReportCycle \/ Sorted
      BY <3>2 DEF Sorting, Root, Descend, PassDone, Leave, ReportCycle, Sorted, selection
    <3>3. CASE Translate
      <4>1. phase = "build" /\ closure' = closure
        BY <3>3 DEF Translate, selection
      <4> QED BY <1>1, <3>3, <4>1, TranslateIs DEF Stopped, Translated
    <3>4. CASE Built \/ RefusedHere
      BY <3>4 DEF Built, RefusedHere, Refuse, selection
    <3> QED BY <1>3, <3>1, <3>2, <3>3, <3>4 DEF Step
  <2> QED BY <2>1 DEF SelectOK
<1>4. CASE UNCHANGED vars
  <2>1. /\ requested' = requested /\ closure' = closure /\ phase' = phase
        /\ actions' = actions /\ owner' = owner
    BY <1>4 DEF vars, selection, graph
  <2>2. Reach(ActionsOfTargets(requested))' = Reach(ActionsOfTargets(requested))
    BY <2>1 DEF Reach, ActionsOfTargets, Producers
  <2> QED BY <2>1, <2>2 DEF SelectOK
<1> QED BY <1>2, <1>3, <1>4

\* What reaching finds among the actions.
LEMMA ReachIs ==
    ASSUME BuildOK, NEW roots \in SUBSET DOMAIN actions
    PROVE  /\ roots \subseteq Reach(roots) /\ Reach(roots) \subseteq DOMAIN actions
           /\ \A a \in Reach(roots) : Producers(a) \subseteq Reach(roots)
           /\ \A S : roots \subseteq S /\ S \subseteq DOMAIN actions
                        /\ (\A a \in S : Producers(a) \subseteq S) => Reach(roots) \subseteq S
<1> DEFINE nexts == [a \in DOMAIN actions |-> Producers(a)]
<1>1. IsFiniteSet(DOMAIN actions)
  <2>1. PICK n \in Nat : DOMAIN actions = 1..n
    BY PositionsOf DEF BuildOK
  <2> QED BY <2>1, FS_Interval
<1>2. \A a \in DOMAIN actions : Producers(a) \subseteq DOMAIN actions
  BY ProducerIs DEF BuildOK, Producers
<1>3. DOMAIN nexts = DOMAIN actions /\ \A a \in DOMAIN actions : nexts[a] = Producers(a)
  OBVIOUS
<1>4. Reach(roots) = Reachable(nexts, roots)
  BY DEF Reach
<1> HIDE DEF nexts
<1>5. /\ Reachable(nexts, roots) \subseteq DOMAIN nexts
      /\ roots \subseteq Reachable(nexts, roots)
      /\ \A x \in Reachable(nexts, roots) : nexts[x] \subseteq Reachable(nexts, roots)
  BY <1>1, <1>2, <1>3, ReachableIsClosed
<1>6. ASSUME NEW S, roots \subseteq S, S \subseteq DOMAIN actions, \A a \in S : Producers(a) \subseteq S
      PROVE  Reachable(nexts, roots) \subseteq S
  <2>1. \A x \in S : nexts[x] \subseteq S
    BY <1>3, <1>6
  <2> QED BY <1>1, <1>3, <1>6, <2>1, ReachableIsLeast
<1>7. \A a \in Reach(roots) : Producers(a) \subseteq Reach(roots)
  BY <1>3, <1>4, <1>5
<1> QED BY <1>3, <1>4, <1>5, <1>6, <1>7

LEMMA ClosureTyped ==
    ASSUME BuildOK, SelectOK
    PROVE  closure \subseteq DOMAIN actions
<1>1. ActionsOfTargets(requested) \subseteq DOMAIN actions
  BY DEF ActionsOfTargets
<1>2. CASE phase = "selected"
  BY <1>1, <1>2, ReachIs DEF SelectOK
<1>3. CASE phase # "selected"
  BY <1>3 DEF SelectOK
<1> QED BY <1>2, <1>3

\* A selection is the least set with the actions asked for and the producers of
\* all that its actions need.
LEMMA ClosureExact ==
    ASSUME BuildOK, SelectOK
    PROVE  ClosureIsExact
<1> DEFINE roots == ActionsOfTargets(requested)
           needs(S) ==
              /\ roots \subseteq S
              /\ \A a \in S : \A f \in actions[a].inputs \cup actions[a].orderOnly :
                    ProducerIn(actions, f) \in S \cup {0}
<1>1. SUFFICES ASSUME phase = "selected"
               PROVE  needs(closure) /\ \A S \in SUBSET closure : needs(S) => S = closure
  BY DEF ClosureIsExact
<1>2. closure = Reach(roots) /\ roots \in SUBSET DOMAIN actions
  BY <1>1 DEF SelectOK, ActionsOfTargets
<1> HIDE DEF roots
<1>3. /\ roots \subseteq closure /\ closure \subseteq DOMAIN actions
      /\ \A a \in closure : Producers(a) \subseteq closure
      /\ \A S : roots \subseteq S /\ S \subseteq DOMAIN actions
                   /\ (\A a \in S : Producers(a) \subseteq S) => closure \subseteq S
  BY <1>2, ReachIs
<1>4. ASSUME NEW a, NEW S
      PROVE  Producers(a) \subseteq S <=>
                \A f \in actions[a].inputs \cup actions[a].orderOnly :
                    ProducerIn(actions, f) \in S \cup {0}
  BY DEF Producers
<1>5. ASSUME NEW S
      PROVE  needs(S) <=> roots \subseteq S /\ \A a \in S : Producers(a) \subseteq S
  BY <1>4
<1>6. needs(closure)
  BY <1>3, <1>5
<1> HIDE DEF needs
<1>7. ASSUME NEW S \in SUBSET closure, needs(S) PROVE S = closure
  <2>1. roots \subseteq S /\ S \subseteq DOMAIN actions /\ \A a \in S : Producers(a) \subseteq S
    BY <1>3, <1>5, <1>7
  <2> QED BY <1>3, <2>1
<1> QED BY <1>6, <1>7

-----------------------------------------------------------------------------
(* What loading promises.                                                   *)

LEMMA PrefixIs ==
    ASSUME NEW s, NEW t, IsSequence(s), IsSequence(t), Len(s) <= Len(t),
           \A i \in 1..Len(s) : t[i] = s[i]
    PROVE  IsPrefix(s, t)
<1> DEFINE n == Len(s)
           S == ToSet(s)
           a == SubSeq(s, 1, n)
           b == SubSeq(t, 1, n)
<1>1. n \in Nat /\ Len(t) \in Nat
  BY PositionsOf
<1>2. \A i \in 1..n : s[i] \in S /\ t[i] \in S
  BY PositionsOf
<1> HIDE DEF n, S
<1>3. 1 \in Int /\ n \in Int
  BY <1>1
<1>4. /\ a \in Seq(S) /\ Len(a) = (IF 1 <= n THEN n - 1 + 1 ELSE 0)
      /\ \A i \in 1..n - 1 + 1 : a[i] = s[1 + i - 1]
  BY <1>2, <1>3, SubSeqProperties
<1>5. /\ b \in Seq(S) /\ Len(b) = (IF 1 <= n THEN n - 1 + 1 ELSE 0)
      /\ \A i \in 1..n - 1 + 1 : b[i] = t[1 + i - 1]
  BY <1>2, <1>3, SubSeqProperties
<1> HIDE DEF a, b
<1>6. Len(a) = n /\ Len(b) = n
  BY <1>1, <1>4, <1>5
<1>7. \A i \in 1..n : a[i] = s[i] /\ b[i] = t[i]
  BY <1>1, <1>4, <1>5
<1>8. \A i \in 1..n : a[i] = b[i]
  BY <1>7 DEF n
<1>9. a = b
  BY <1>4, <1>5, <1>6, <1>8
<1> QED BY <1>9 DEF IsPrefix, a, b, n

\* A path of a package is below it, and so is what a glob of it matches.
LEMMA BelowPackage ==
    ASSUME NEW package, IsSequence(package), NEW p, IsSequence(p), p # <<>>
    PROVE  /\ IsPrefix(package, Prefixed(package, p))
           /\ \A f \in Matches(Prefixed(package, p)) : IsPrefix(package, f)
<1> DEFINE q == package \o p
           n == Len(package)
<1>1. n \in Nat /\ Len(p) \in Nat \ {0}
  BY PositionsOf, FrontIs
<1>2. IsSequence(q) /\ Len(q) = n + Len(p) /\ \A i \in 1..n : q[i] = package[i]
  BY ConcatIs
<1>3. Prefixed(package, p) = q
  BY DEF Prefixed
<1> HIDE DEF q
<1>4. IsPrefix(package, q)
  BY <1>1, <1>2, PrefixIs
<1>5. q # <<>>
  BY <1>1, <1>2, EmptyIs
<1>6. ASSUME NEW f \in Matches(q) PROVE IsPrefix(package, f)
  <2>1. f \in Tree /\ Front(f) = Front(q)
    BY DEF Matches
  <2>2. IsSequence(f) /\ f # <<>>
    BY <2>1, WorkspacesAssumption
  <2>3. /\ Len(f) \in Nat /\ Len(Front(f)) = Len(f) - 1
        /\ \A i \in 1..Len(f) - 1 : Front(f)[i] = f[i]
    BY <2>2, FrontIs
  <2>4. Len(Front(q)) = Len(q) - 1 /\ \A i \in 1..Len(q) - 1 : Front(q)[i] = q[i]
    BY <1>2, <1>5, FrontIs
  <2>5. Len(f) = Len(q)
    BY <1>1, <1>2, <2>1, <2>3, <2>4
  <2>6. n <= Len(q) - 1
    BY <1>1, <1>2
  <2>7. ASSUME NEW i \in 1..n PROVE f[i] = package[i]
    <3>1. i \in 1..Len(q) - 1
      BY <1>1, <1>2, <2>6
    <3> QED BY <1>2, <2>1, <2>3, <2>4, <2>5, <3>1
  <2>8. Len(package) <= Len(f)
    BY <1>1, <1>2, <2>5, <2>6
  <2> QED BY <2>2, <2>7, <2>8, PrefixIs
<1> QED BY <1>3, <1>4, <1>6

LEMMA ExpandedBelow ==
    ASSUME NEW package, IsSequence(package), NEW paths, ArePaths(paths),
           NEW f \in ToSet(Expanded(package, paths))
    PROVE  IsPrefix(package, f)
<1>1. PICK p \in ToSet(paths) :
          f \in IF IsGlob(p) THEN Matches(Prefixed(package, p)) ELSE {Prefixed(package, p)}
  BY ExpandedIs DEF ArePaths, Meanings
<1>2. IsSequence(p) /\ p # <<>>
  BY DEF ArePaths
<1> QED BY <1>1, <1>2, BelowPackage

LEMMA PrefixedBelow ==
    ASSUME NEW package, IsSequence(package), NEW paths, ArePaths(paths),
           NEW f \in ToSet([i \in DOMAIN paths |-> Prefixed(package, paths[i])])
    PROVE  IsPrefix(package, f)
<1>1. PICK i \in DOMAIN paths : f = Prefixed(package, paths[i])
  BY DEF ToSet
<1>2. IsSequence(paths[i]) /\ paths[i] # <<>>
  BY DEF ArePaths, ToSet
<1> QED BY <1>1, <1>2, BelowPackage

\* No list is empty that was not written empty.
LEMMA ExpandedNotEmpty ==
    ASSUME NEW package, NEW paths, IsSequence(paths), paths # <<>>, AllMatch(package, paths)
    PROVE  Expanded(package, paths) # <<>>
<1>1. PICK p : p \in ToSet(paths)
  BY FrontIs, PositionsOf
<1> DEFINE meaning == IF IsGlob(p) THEN Matches(Prefixed(package, p)) ELSE {Prefixed(package, p)}
<1>2. meaning # {} /\ meaning \in Meanings(package, paths)
  BY <1>1 DEF AllMatch, Meanings
<1> HIDE DEF meaning
<1>3. ToSet(Expanded(package, paths)) # {}
  BY <1>2, ExpandedIs
<1> QED BY <1>3, EmptyIs

LEMMA BuildableHolds ==
    ASSUME LoadOK
    PROVE  ValidatedIsBuildable
<1>1. CASE manifest = <<>>
  <2>1. Names = {}
    BY <1>1 DEF Names
  <2> QED BY <2>1 DEF ValidatedIsBuildable
<1>2. CASE manifest = Targets(workspace) /\ Accepted(workspace)
  <2>1. ASSUME NEW n \in Names
        PROVE  LET m == manifest[n] IN
               /\ m.kind \in {"genrule", "command"} => m.outputs # <<>>
               /\ m.kind \in CcKinds => m.srcs # <<>>
               /\ m.kind = "kofun" => Len(m.srcs) = 1
               /\ m.kind = "command" => m.tools # <<>>
               /\ m.kind = "genrule" => m.shell
               /\ m.kind = "test" => m.shell \/ m.tools # <<>>
    <3>1. PICK part \in ToSet(Parts(workspace)) :
              \E t \in ToSet(part.file.targets) : StandsFor(manifest, n, part, t)
      BY <1>2, TargetsAre DEF LoadOK, Names
    <3>2. PICK t \in ToSet(part.file.targets) : StandsFor(manifest, n, part, t)
      BY <3>1
    <3>3. Valid(t) /\ Expands(part.package, t)
      BY <1>2 DEF Accepted, ValidFile
    <3>4. t.kind \in Kinds /\ IsSequence(t.srcs) /\ IsSequence(t.outputs)
      BY PartsAre DEF LoadOK, ReadFile, ReadTarget, ArePaths
    <3> DEFINE m == manifest[n]
    <3>5. /\ m.kind = t.kind /\ m.tools = t.tools /\ m.shell = ("cmd" \in t.fields)
          /\ m.srcs = Expanded(part.package, t.srcs)
          /\ m.outputs = [i \in DOMAIN t.outputs |-> Prefixed(part.package, t.outputs[i])]
      BY <3>2 DEF StandsFor
    <3> HIDE DEF m
    <3>6. CASE m.kind \in CcKinds
      <4>1. t.srcs # <<>> /\ AllMatch(part.package, t.srcs)
        BY <3>3, <3>5, <3>6 DEF Valid, ValidCc, Expands, CcKinds
      <4>2. m.srcs # <<>>
        BY <3>4, <3>5, <4>1, ExpandedNotEmpty
      <4> QED BY <3>6, <4>2 DEF m, CcKinds
    <3>7. CASE m.kind = "kofun"
      <4>1. Len(m.srcs) = 1
        BY <3>3, <3>5, <3>7 DEF Expands, OneKofunSource
      <4> QED BY <3>7, <4>1 DEF m, CcKinds
    <3>8. CASE m.kind \in {"genrule", "command"}
      <4>1. t.outputs # <<>>
        BY <3>3, <3>5, <3>8 DEF Valid, ValidGenrule, ValidCommand, CcKinds
      <4>2. m.outputs # <<>>
        <5>1. 1 \in DOMAIN t.outputs
          BY <3>4, <4>1, FrontIs, PositionsOf
        <5>2. DOMAIN m.outputs = DOMAIN t.outputs
          BY <3>5
        <5> QED BY <5>1, <5>2
      <4>3. m.kind = "command" => m.tools # <<>>
        BY <3>3, <3>5 DEF Valid, ValidCommand, CcKinds
      <4>4. m.kind = "genrule" => m.shell
        BY <3>3, <3>5 DEF Valid, ValidGenrule, CcKinds
      <4> QED BY <3>8, <4>2, <4>3, <4>4 DEF m, CcKinds
    <3>9. CASE m.kind = "test"
      <4>1. "cmd" \in t.fields <=> t.tools = <<>>
        BY <3>3, <3>5, <3>9 DEF Valid, ValidTest, CcKinds
      <4> QED BY <3>5, <3>9, <4>1 DEF m, CcKinds
    <3> QED BY <3>4, <3>5, <3>6, <3>7, <3>8, <3>9 DEF Kinds
  <2> QED BY <2>1 DEF ValidatedIsBuildable
<1> QED BY <1>1, <1>2 DEF LoadOK

\* The label of a target finds it.
LEMMA IndexIs ==
    ASSUME NEW w, ReadWorkspace(w), Accepted(w),
           NEW part \in ToSet(Parts(w)), NEW t \in ToSet(part.file.targets)
    PROVE  LET n == Index(Targets(w), Label(part.package, t.name))
           IN  n \in DOMAIN Targets(w) /\ StandsFor(Targets(w), n, part, t)
<1> DEFINE list == Targets(w)
           label == Label(part.package, t.name)
           n == Index(list, label)
<1>1. PICK m \in DOMAIN list : StandsFor(list, m, part, t)
  BY TargetsAre
<1>2. list[m].label = label
  BY <1>1 DEF StandsFor
<1> HIDE DEF list, label
<1>3. n \in DOMAIN list /\ list[n].label = label
  BY <1>2 DEF Index
<1>4. PICK other \in ToSet(Parts(w)) : \E u \in ToSet(other.file.targets) : StandsFor(list, n, other, u)
  BY <1>3, TargetsAre DEF list
<1>5. PICK u \in ToSet(other.file.targets) : StandsFor(list, n, other, u)
  BY <1>4
<1>6. Label(other.package, u.name) = Label(part.package, t.name)
  BY <1>3, <1>5 DEF StandsFor, label
<1>7. other.package = part.package /\ u.name = t.name
  BY <1>6 DEF Label
<1>8. other = part
  BY <1>7, PartsAre
<1>9. u = t
  <2>1. IsSequence(part.file.targets)
    BY PartsAre DEF ReadFile
  <2>2. PICK i \in DOMAIN part.file.targets, j \in DOMAIN part.file.targets :
            part.file.targets[i] = u /\ part.file.targets[j] = t
    BY <1>8 DEF ToSet
  <2> QED BY <1>7, <2>2, PartsAre DEF ReadFile
<1> QED BY <1>3, <1>5, <1>8, <1>9 DEF list, label

LEMMA SelfContainedHolds ==
    ASSUME LoadOK
    PROVE  PackagesAreSelfContained
<1>1. SUFFICES ASSUME phase \notin {"load", "refused"},
                      NEW part \in ToSet(Parts(workspace)), NEW t \in ToSet(part.file.targets)
               PROVE  LET m == manifest[Index(manifest, Label(part.package, t.name))] IN
                      /\ \A f \in ToSet(m.srcs) \cup ToSet(m.inputs) \cup ToSet(m.outputs) \cup ToSet(m.clean) :
                            IsPrefix(part.package, f)
                      /\ \A i \in DOMAIN t.deps : t.deps[i].form \in {"name", ":name"} =>
                            manifest[m.deps[i]].label.package = part.package
  BY DEF PackagesAreSelfContained
<1> DEFINE n == Index(manifest, Label(part.package, t.name))
           m == manifest[n]
<1>2. manifest = Targets(workspace) /\ Accepted(workspace) /\ ReadWorkspace(workspace)
  BY <1>1 DEF LoadOK
<1>3. StandsFor(manifest, n, part, t)
  BY <1>2, IndexIs
<1>4. /\ m.srcs = Expanded(part.package, t.srcs) /\ m.inputs = Expanded(part.package, t.inputs)
      /\ m.outputs = [i \in DOMAIN t.outputs |-> Prefixed(part.package, t.outputs[i])]
      /\ m.clean = [i \in DOMAIN t.clean |-> Prefixed(part.package, t.clean[i])]
      /\ \A i \in DOMAIN t.deps : manifest[m.deps[i]].label = Resolved(t.deps[i], part.package)
  BY <1>3 DEF StandsFor
<1>5. ArePaths(t.srcs) /\ ArePaths(t.inputs) /\ ArePaths(t.outputs) /\ ArePaths(t.clean)
  BY <1>2, PartsAre DEF ReadFile, ReadTarget
<1>6. IsSequence(part.package)
  <2>1. part \in ToSet(workspace.packages) \cup {RootPart(workspace)}
    BY <1>2, PartsAre
  <2> QED BY <1>2, <2>1, EmptyIs DEF ReadWorkspace, RootPart, Nowhere
<1> HIDE DEF m, n
<1>7. ASSUME NEW f \in ToSet(m.srcs) \cup ToSet(m.inputs) \cup ToSet(m.outputs) \cup ToSet(m.clean)
      PROVE  IsPrefix(part.package, f)
  <2>1. CASE f \in ToSet(m.srcs) \cup ToSet(m.inputs)
    BY <1>4, <1>5, <1>6, <2>1, ExpandedBelow
  <2>2. CASE f \in ToSet(m.outputs) \cup ToSet(m.clean)
    BY <1>4, <1>5, <1>6, <2>2, PrefixedBelow
  <2> QED BY <2>1, <2>2
<1>8. ASSUME NEW i \in DOMAIN t.deps, t.deps[i].form \in {"name", ":name"}
      PROVE  manifest[m.deps[i]].label.package = part.package
  <2> DEFINE ref == t.deps[i]
  <2>1. manifest[m.deps[i]].label = Resolved(ref, part.package)
    BY <1>4
  <2>2. ref.form = "name" \/ ref.form = ":name"
    BY <1>8
  <2> HIDE DEF ref
  <2>3. Resolved(ref, part.package).package = part.package
    <3>1. CASE part.package = Nowhere
      BY <2>2, <3>1 DEF Resolved, RootLabel, Label
    <3>2. CASE part.package # Nowhere
      BY <2>2, <3>2 DEF Resolved, ResolveLabel, Label
    <3> QED BY <3>1, <3>2
  <2> QED BY <2>1, <2>3
<1> QED BY <1>7, <1>8 DEF m, n

-----------------------------------------------------------------------------
(* Flattening what targets share.                                           *)

\* What AddNew computes, an entry after the other.
Additions(added, list, more, n) ==
    /\ added[0] = list
    /\ \A k \in 1..n : added[k] = IF more[k] \in ToSet(added[k - 1]) THEN added[k - 1] ELSE Append(added[k - 1], more[k])

LEMMA AdditionsExist ==
    ASSUME NEW list, NEW more, NEW n \in Nat, n = Len(more)
    PROVE  \E added : Additions(added, list, more, n) /\ AddNew(list, more) = added[n]
<1> DEFINE next(g, k) == IF k = 0 THEN list ELSE IF more[k] \in ToSet(g[k - 1]) THEN g[k - 1] ELSE Append(g[k - 1], more[k])
           added == CHOOSE g : g = [k \in 0..n |-> next(g, k)]
           Exists(m) == \E g : g = [k \in 0..m |-> next(g, k)]
           Defined == {m \in 0..n : Exists(m)}
<1>1. AddNew(list, more) = added[n]
  BY DEF AddNew
<1> HIDE DEF added
<1>2. Exists(0)
  <2> DEFINE g == [k \in 0..0 |-> list]
  <2>1. \A k \in 0..0 : next(g, k) = list
    OBVIOUS
  <2> HIDE DEF next
  <2>2. g = [k \in 0..0 |-> next(g, k)]
    BY <2>1
  <2> HIDE DEF g
  <2> QED BY <2>2
<1>3. ASSUME NEW m \in 1..n, Exists(m - 1) PROVE Exists(m)
  <2>1. PICK g : g = [k \in 0..m - 1 |-> next(g, k)]
    BY <1>3
  <2> DEFINE h == [k \in 0..m |-> IF k = m THEN next(g, m) ELSE g[k]]
  <2>2. ASSUME NEW k \in 0..m PROVE h[k] = next(h, k)
    <3>1. k # 0 => h[k - 1] = g[k - 1]
      OBVIOUS
    <3> HIDE DEF h
    <3>2. next(h, k) = next(g, k)
      BY <3>1
    <3> HIDE DEF next
    <3>3. k # m => k \in 0..m - 1
      OBVIOUS
    <3>4. k # m => g[k] = next(g, k)
      BY <2>1, <3>3
    <3> QED BY <3>2, <3>4 DEF h
  <2> HIDE DEF next
  <2> DEFINE r == [k \in 0..m |-> next(h, k)]
  <2>3. DOMAIN h = DOMAIN r /\ \A k \in 0..m : h[k] = r[k]
    BY <2>2
  <2>4. h = r
    BY <2>3
  <2> HIDE DEF h
  <2> QED BY <2>4
<1>4. n \in Defined
  <2> HIDE DEF Exists
  <2>1. 0 \in Defined /\ \A m \in 1..n : m - 1 \in Defined => m \in Defined
    BY <1>2, <1>3
  <2> HIDE DEF Defined
  <2>2. n \in 0..n
    OBVIOUS
  <2> QED BY <2>1, <2>2, UpTo
<1> HIDE DEF next
<1>5. added = [k \in 0..n |-> next(added, k)]
  BY <1>4 DEF added
<1>6. added[0] = list /\ \A k \in 1..n : added[k] = IF more[k] \in ToSet(added[k - 1]) THEN added[k - 1] ELSE Append(added[k - 1], more[k])
  <2>1. \A k \in 0..n : added[k] = next(added, k)
    BY <1>5
  <2>2. 0 \in 0..n /\ \A k \in 1..n : k \in 0..n /\ k # 0
    OBVIOUS
  <2>3. added[0] = list
    BY <2>1, <2>2 DEF next
  <2>4. ASSUME NEW k \in 1..n PROVE added[k] = IF more[k] \in ToSet(added[k - 1]) THEN added[k - 1] ELSE Append(added[k - 1], more[k])
    <3>1. added[k] = next(added, k) /\ k # 0
      BY <2>1, <2>2
    <3> QED BY <3>1 DEF next
  <2> QED BY <2>3, <2>4
<1>7. Additions(added, list, more, n)
  BY <1>6 DEF Additions
<1> QED BY <1>1, <1>7

LEMMA AddNewIs ==
    ASSUME NEW list, IsSequence(list), NEW more, IsSequence(more)
    PROVE  /\ IsSequence(AddNew(list, more))
           /\ ToSet(AddNew(list, more)) = ToSet(list) \cup ToSet(more)
<1>1. PICK n \in Nat : n = Len(more)
  BY PositionsOf
<1>2. PICK added : Additions(added, list, more, n) /\ AddNew(list, more) = added[n]
  BY <1>1, AdditionsExist
<1> DEFINE first(k) == {more[i] : i \in 1..k}
           Good == {k \in 0..n : IsSequence(added[k]) /\ ToSet(added[k]) = ToSet(list) \cup first(k)}
<1>3. 0 \in Good
  BY <1>1, <1>2 DEF Additions
<1>4. ASSUME NEW k \in 1..n, k - 1 \in Good PROVE k \in Good
  <2> DEFINE old == added[k - 1]
             x == more[k]
  <2>1. added[k] = IF x \in ToSet(old) THEN old ELSE Append(old, x)
    BY <1>2 DEF Additions
  <2>2. IsSequence(old) /\ ToSet(old) = ToSet(list) \cup first(k - 1)
    BY <1>4
  <2>3. 1..k = 1..(k - 1) \cup {k}
    BY <1>1
  <2>4. first(k) = first(k - 1) \cup {x}
    BY <2>3
  <2> HIDE DEF old, x, first
  <2>5. IsSequence(added[k]) /\ ToSet(added[k]) = ToSet(old) \cup {x}
    BY <2>1, <2>2, AppendIs
  <2> QED BY <2>2, <2>4, <2>5
<1> HIDE DEF Good
<1>5. n \in Good
  <2>1. n \in 0..n
    BY <1>1
  <2> QED BY <1>3, <1>4, <2>1, UpTo
<1>6. first(n) = ToSet(more)
  BY <1>1, PositionsOf
<1> QED BY <1>2, <1>5, <1>6 DEF Good

\* What Flatten does, a turn after the other.
Walks(walk, own, parents, n) ==
    /\ walk[0] = [stack |-> Pushed(<<>>, parents), visited |-> {}, out |-> <<>>]
    /\ \A k \in 1..n : walk[k] = Turn(own, walk[k - 1])

LEMMA WalkExists ==
    ASSUME NEW own, NEW parents, NEW n \in Nat, n = Turns(parents)
    PROVE  \E walk : Walks(walk, own, parents, n) /\ Flatten(own, parents) = walk[n].out
<1> DEFINE next(g, k) == IF k = 0 THEN [stack |-> Pushed(<<>>, parents), visited |-> {}, out |-> <<>>] ELSE Turn(own, g[k - 1])
           walk == CHOOSE g : g = [k \in 0..n |-> next(g, k)]
           Exists(m) == \E g : g = [k \in 0..m |-> next(g, k)]
           Defined == {m \in 0..n : Exists(m)}
<1>1. Flatten(own, parents) = walk[n].out
  BY DEF Flatten
<1> HIDE DEF walk
<1>2. Exists(0)
  <2> DEFINE g == [k \in 0..0 |-> [stack |-> Pushed(<<>>, parents), visited |-> {}, out |-> <<>>]]
  <2>1. \A k \in 0..0 : next(g, k) = [stack |-> Pushed(<<>>, parents), visited |-> {}, out |-> <<>>]
    OBVIOUS
  <2> HIDE DEF next
  <2>2. g = [k \in 0..0 |-> next(g, k)]
    BY <2>1
  <2> HIDE DEF g
  <2> QED BY <2>2
<1>3. ASSUME NEW m \in 1..n, Exists(m - 1) PROVE Exists(m)
  <2>1. PICK g : g = [k \in 0..m - 1 |-> next(g, k)]
    BY <1>3
  <2> DEFINE h == [k \in 0..m |-> IF k = m THEN next(g, m) ELSE g[k]]
  <2>2. ASSUME NEW k \in 0..m PROVE h[k] = next(h, k)
    <3>1. k # 0 => h[k - 1] = g[k - 1]
      OBVIOUS
    <3> HIDE DEF h
    <3>2. next(h, k) = next(g, k)
      BY <3>1
    <3> HIDE DEF next
    <3>3. k # m => k \in 0..m - 1
      OBVIOUS
    <3>4. k # m => g[k] = next(g, k)
      BY <2>1, <3>3
    <3> QED BY <3>2, <3>4 DEF h
  <2> HIDE DEF next
  <2> DEFINE r == [k \in 0..m |-> next(h, k)]
  <2>3. DOMAIN h = DOMAIN r /\ \A k \in 0..m : h[k] = r[k]
    BY <2>2
  <2>4. h = r
    BY <2>3
  <2> HIDE DEF h
  <2> QED BY <2>4
<1>4. n \in Defined
  <2> HIDE DEF Exists
  <2>1. 0 \in Defined /\ \A m \in 1..n : m - 1 \in Defined => m \in Defined
    BY <1>2, <1>3
  <2> HIDE DEF Defined
  <2>2. n \in 0..n
    OBVIOUS
  <2> QED BY <2>1, <2>2, UpTo
<1> HIDE DEF next
<1>5. walk = [k \in 0..n |-> next(walk, k)]
  BY <1>4 DEF walk
<1>6. walk[0] = [stack |-> Pushed(<<>>, parents), visited |-> {}, out |-> <<>>] /\ \A k \in 1..n : walk[k] = Turn(own, walk[k - 1])
  <2>1. \A k \in 0..n : walk[k] = next(walk, k)
    BY <1>5
  <2>2. 0 \in 0..n /\ \A k \in 1..n : k \in 0..n /\ k # 0
    OBVIOUS
  <2>3. walk[0] = [stack |-> Pushed(<<>>, parents), visited |-> {}, out |-> <<>>]
    BY <2>1, <2>2 DEF next
  <2>4. ASSUME NEW k \in 1..n PROVE walk[k] = Turn(own, walk[k - 1])
    <3>1. walk[k] = next(walk, k) /\ k # 0
      BY <2>1, <2>2
    <3> QED BY <3>1 DEF next
  <2> QED BY <2>3, <2>4
<1>7. Walks(walk, own, parents, n)
  BY <1>6 DEF Walks
<1> QED BY <1>1, <1>7

\* The references some targets have to their dependencies.
RefsOf(names) == UNION {{n} \X DOMAIN Deps(n) : n \in names}

LEMMA RefsAre ==
    ASSUME ManifestOK, NEW names \in SUBSET Names
    PROVE  /\ IsFiniteSet(RefsOf(names)) /\ Cardinality(RefsOf(names)) \in Nat
           /\ \A n \in names :
                Cardinality(RefsOf(names)) = Cardinality(RefsOf(names \ {n})) + Len(Deps(n))
<1> DEFINE refs(n) == {n} \X DOMAIN Deps(n)
           all(S) == {refs(n) : n \in S}
<1>1. IsFiniteSet(Names)
  <2>1. Len(manifest) \in Nat /\ Names = 1..Len(manifest)
    BY PositionsOf DEF ManifestOK, Names
  <2> QED BY <2>1, FS_Interval
<1>2. ASSUME NEW n \in Names
      PROVE  IsFiniteSet(refs(n)) /\ Cardinality(refs(n)) = Len(Deps(n))
  <2>1. PICK m \in Nat : m = Len(Deps(n)) /\ DOMAIN Deps(n) = 1..m
    BY PositionsOf DEF ManifestOK
  <2>2. IsFiniteSet(1..m)
    BY <2>1, FS_Interval
  <2>3. \A a, b \in Int : Cardinality(a..b) = IF a > b THEN 0 ELSE b - a + 1
    BY FS_Interval
  <2>4. Cardinality(1..m) = m
    <3>1. 1 \in Int /\ m \in Int
      BY <2>1
    <3>2. Cardinality(1..m) = IF 1 > m THEN 0 ELSE m - 1 + 1
      BY <2>3, <3>1
    <3>3. (IF 1 > m THEN 0 ELSE m - 1 + 1) = m
      BY <2>1
    <3> QED BY <3>2, <3>3
  <2>5. IsFiniteSet({n}) /\ Cardinality({n}) = 1
    BY FS_Singleton
  <2>6. IsFiniteSet({n} \X (1..m)) /\ Cardinality({n} \X (1..m)) = Cardinality({n}) * Cardinality(1..m)
    BY <2>2, <2>5, FS_Product
  <2>7. 1 * m = m
    BY <2>1
  <2> QED BY <2>1, <2>4, <2>5, <2>6, <2>7
<1> HIDE DEF refs
<1>3. ASSUME NEW S \in SUBSET Names PROVE IsFiniteSet(UNION all(S)) /\ Cardinality(UNION all(S)) \in Nat
  <2> DEFINE f == [n \in S |-> refs(n)]
  <2>1. f \in Surjection(S, all(S))
    BY DEF Surjection
  <2>2. IsFiniteSet(S)
    BY <1>1, FS_Subset
  <2> HIDE DEF f
  <2>3. \A T \in all(S) : IsFiniteSet(T)
    BY <1>2
  <2> HIDE DEF all
  <2>4. IsFiniteSet(all(S))
    BY <2>1, <2>2, FS_Surjection
  <2>5. IsFiniteSet(UNION all(S))
    BY <2>3, <2>4, FS_UNION
  <2> QED BY <2>5, FS_CardinalityType
<1>4. \A S : RefsOf(S) = UNION all(S)
  BY DEF RefsOf, refs
<1>5. ASSUME NEW n \in names
      PROVE  Cardinality(RefsOf(names)) = Cardinality(RefsOf(names \ {n})) + Len(Deps(n))
  <2> DEFINE rest == names \ {n}
             R == RefsOf(rest)
  <2>1. RefsOf(names) = R \cup refs(n)
    <3>1. names = rest \cup {n}
      OBVIOUS
    <3> HIDE DEF rest
    <3> QED BY <1>4, <3>1
  <2>2. R \cap refs(n) = {}
    BY DEF RefsOf, refs
  <2>3. IsFiniteSet(R) /\ Cardinality(R) \in Nat
    BY <1>3, <1>4
  <2>4. IsFiniteSet(refs(n)) /\ Cardinality(refs(n)) = Len(Deps(n))
    BY <1>2
  <2> HIDE DEF R
  <2>5. Cardinality(R \cup refs(n)) = Cardinality(R) + Cardinality(refs(n)) - Cardinality(R \cap refs(n))
    BY <2>3, <2>4, FS_Union
  <2>6. Cardinality(R \cap refs(n)) = 0
    BY <2>2, FS_EmptySet
  <2>7. Len(Deps(n)) \in Nat
    BY PositionsOf DEF ManifestOK
  <2> QED BY <2>1, <2>3, <2>4, <2>5, <2>6, <2>7 DEF R
<1> QED BY <1>3, <1>4, <1>5

\* In the course of a walk the parents and the dependencies of every visited set
\* are visited or on the stack, and the entries of the visited ones are out.
Walked(own, parents, stack, visited, out) ==
    /\ IsSequence(stack) /\ ToSet(stack) \subseteq Names /\ visited \subseteq Names
    /\ IsSequence(out) /\ ToSet(parents) \subseteq visited \cup ToSet(stack)
    /\ \A v \in visited : /\ ToSet(Deps(v)) \subseteq visited \cup ToSet(stack)
                          /\ ToSet(own[v]) \subseteq ToSet(out)
\* How many references may still be popped.
Ahead(stack, visited) == Len(stack) + Cardinality(RefsOf(Names \ visited))

\* One turn: a reference is popped, if there is one.
TurnTo(own, parents, stack, visited, out, s, v, o) ==
    /\ Turn(own, [stack |-> stack, visited |-> visited, out |-> out]) =
          [stack |-> s, visited |-> v, out |-> o]
    /\ Walked(own, parents, s, v, o)
    /\ stack = <<>> => s = <<>>
    /\ stack # <<>> => Ahead(s, v) = Ahead(stack, visited) - 1

LEMMA PushedIs ==
    ASSUME NEW stack, IsSequence(stack), NEW more, IsSequence(more)
    PROVE  /\ IsSequence(Pushed(stack, more)) /\ Len(Pushed(stack, more)) = Len(stack) + Len(more)
           /\ ToSet(Pushed(stack, more)) = ToSet(stack) \cup ToSet(more)
BY ReverseIs, ConcatIs DEF Pushed

LEMMA TurnIs ==
    ASSUME ManifestOK, NEW own, \A n \in Names : IsSequence(own[n]), NEW parents,
           NEW stack, NEW visited, NEW out, Walked(own, parents, stack, visited, out)
    PROVE  \E s, v, o : TurnTo(own, parents, stack, visited, out, s, v, o)
<1> DEFINE r == [stack |-> stack, visited |-> visited, out |-> out]
           n == Last(stack)
           rest == Front(stack)
           U == Names \ visited
<1>1. CASE stack = <<>>
  <2>1. Turn(own, r) = r
    BY <1>1 DEF Turn
  <2>2. TurnTo(own, parents, stack, visited, out, stack, visited, out)
    BY <1>1, <2>1 DEF TurnTo
  <2> QED BY <2>2
<1>2. CASE stack # <<>>
  <2>1. /\ IsSequence(rest) /\ Len(stack) \in Nat \ {0} /\ Len(rest) = Len(stack) - 1
        /\ \A i \in 1..Len(stack) - 1 : rest[i] = stack[i]
    BY <1>2, FrontIs DEF Walked
  <2>2. n = stack[Len(stack)]
    BY DEF Last
  <2> HIDE DEF n, rest
  <2>3. ToSet(stack) = ToSet(rest) \cup {n} /\ n \in Names
    <3>1. \A x : x \in ToSet(stack) <=> \E i \in 1..Len(stack) : stack[i] = x
      BY PositionsOf DEF Walked
    <3>2. \A x : x \in ToSet(rest) <=> \E i \in 1..Len(stack) - 1 : rest[i] = x
      BY <2>1, PositionsOf
    <3>3. \A i \in 1..Len(stack) : i \in 1..Len(stack) - 1 \/ i = Len(stack)
      BY <2>1
    <3>4. Len(stack) \in 1..Len(stack) /\ \A i \in 1..Len(stack) - 1 : i \in 1..Len(stack)
      BY <2>1
    <3>5. ToSet(stack) = ToSet(rest) \cup {n}
      BY <2>1, <2>2, <3>1, <3>2, <3>3, <3>4
    <3> QED BY <3>5 DEF Walked
  <2>4. Cardinality(RefsOf(U)) \in Nat
    BY RefsAre
  <2>5. CASE n \in visited
    <3>1. Turn(own, r) = [stack |-> rest, visited |-> visited, out |-> out]
      BY <1>2, <2>5 DEF Turn, n, rest
    <3>2. Walked(own, parents, rest, visited, out)
      BY <2>1, <2>3, <2>5 DEF Walked
    <3>3. Ahead(rest, visited) = Ahead(stack, visited) - 1
      BY <2>1, <2>4 DEF Ahead
    <3>4. TurnTo(own, parents, stack, visited, out, rest, visited, out)
      BY <1>2, <3>1, <3>2, <3>3 DEF TurnTo
    <3> QED BY <3>4
  <2>6. CASE n \notin visited
    <3> DEFINE s == Pushed(rest, Deps(n))
               v == visited \cup {n}
               o == AddNew(out, own[n])
    <3>1. Turn(own, r) = [stack |-> s, visited |-> v, out |-> o]
      BY <1>2, <2>6 DEF Turn, n, rest
    <3>2. IsSequence(Deps(n)) /\ ToSet(Deps(n)) \subseteq Names /\ Len(Deps(n)) \in Nat
      BY <2>3, PositionsOf DEF ManifestOK
    <3>3. IsSequence(s) /\ Len(s) = Len(rest) + Len(Deps(n)) /\ ToSet(s) = ToSet(rest) \cup ToSet(Deps(n))
      BY <2>1, <3>2, PushedIs
    <3>4. IsSequence(o) /\ ToSet(o) = ToSet(out) \cup ToSet(own[n])
      BY <2>3, AddNewIs DEF Walked
    <3> HIDE DEF s, o
    <3>5. Walked(own, parents, s, v, o)
      BY <2>3, <3>2, <3>3, <3>4 DEF Walked
    <3>6. Names \ v = U \ {n} /\ n \in U /\ U \in SUBSET Names
      BY <2>3, <2>6
    <3> HIDE DEF U, v
    <3>7. Cardinality(RefsOf(U)) = Cardinality(RefsOf(U \ {n})) + Len(Deps(n))
      BY <3>6, RefsAre
    <3>8. Cardinality(RefsOf(U \ {n})) \in Nat
      <4>1. U \ {n} \in SUBSET Names
        BY <3>6
      <4> QED BY <4>1, RefsAre
    <3>9. Ahead(s, v) = Ahead(stack, visited) - 1
      <4>1. Ahead(s, v) = Len(s) + Cardinality(RefsOf(U \ {n}))
        BY <3>6 DEF Ahead
      <4>2. Ahead(stack, visited) = Len(stack) + Cardinality(RefsOf(U))
        BY DEF Ahead, U
      <4> QED BY <2>1, <3>2, <3>3, <3>7, <3>8, <4>1, <4>2
    <3>10. TurnTo(own, parents, stack, visited, out, s, v, o)
      BY <1>2, <3>1, <3>5, <3>9 DEF TurnTo
    <3> QED BY <3>10
  <2> QED BY <2>5, <2>6
<1> QED BY <1>1, <1>2

\* After as many turns as there are references the stack is empty: the walk has
\* visited all that the parents lead to, and what is theirs is out.
LEMMA FlattenHolds ==
    ASSUME ManifestOK, NEW own, \A n \in Names : IsSequence(own[n]),
           NEW parents, IsSequence(parents), ToSet(parents) \subseteq Names
    PROVE  \E visited \in SUBSET Names :
              /\ ToSet(parents) \subseteq visited
              /\ \A v \in visited : /\ ToSet(Deps(v)) \subseteq visited
                                    /\ ToSet(own[v]) \subseteq ToSet(Flatten(own, parents))
<1> DEFINE first == Pushed(<<>>, parents)
<1>1. /\ IsSequence(first) /\ Len(first) = Len(parents) /\ ToSet(first) = ToSet(parents)
      /\ Len(parents) \in Nat
  <2>1. IsSequence(<<>>) /\ Len(<<>>) = 0 /\ ToSet(<<>>) = {}
    BY EmptyIs
  <2>2. /\ IsSequence(first) /\ Len(first) = Len(<<>>) + Len(parents)
        /\ ToSet(first) = ToSet(<<>>) \cup ToSet(parents)
    BY <2>1, PushedIs
  <2>3. Len(parents) \in Nat
    BY PositionsOf
  <2> HIDE DEF first
  <2> QED BY <2>1, <2>2, <2>3
<1>2. Cardinality(RefsOf(Names)) \in Nat /\ References = RefsOf(Names)
  BY RefsAre DEF References, RefsOf
<1>3. PICK T \in Nat : T = Turns(parents)
  BY <1>1, <1>2 DEF Turns
<1>4. PICK walk : Walks(walk, own, parents, T) /\ Flatten(own, parents) = walk[T].out
  BY <1>3, WalkExists
<1> DEFINE At(k) ==
              \E s, v, o : /\ walk[k] = [stack |-> s, visited |-> v, out |-> o]
                           /\ Walked(own, parents, s, v, o)
                           /\ s = <<>> \/ Ahead(s, v) <= T - k
           Good == {k \in 0..T : At(k)}
<1> HIDE DEF first
<1>5. At(0)
  <2>1. walk[0] = [stack |-> first, visited |-> {}, out |-> <<>>]
    BY <1>4 DEF Walks, first
  <2>2. Walked(own, parents, first, {}, <<>>)
    BY <1>1, EmptyIs DEF Walked
  <2>3. Ahead(first, {}) <= T - 0
    <3>1. Names \ {} = Names
      OBVIOUS
    <3>2. Ahead(first, {}) = Len(parents) + Cardinality(RefsOf(Names))
      BY <1>1, <3>1 DEF Ahead
    <3>3. T = Len(parents) + Cardinality(RefsOf(Names))
      BY <1>2, <1>3 DEF Turns
    <3> QED BY <1>1, <1>2, <3>2, <3>3
  <2> QED BY <2>1, <2>2, <2>3
<1>6. ASSUME NEW k \in 1..T, At(k - 1) PROVE At(k)
  <2>1. PICK s, v, o : /\ walk[k - 1] = [stack |-> s, visited |-> v, out |-> o]
                       /\ Walked(own, parents, s, v, o)
                       /\ s = <<>> \/ Ahead(s, v) <= T - (k - 1)
    BY <1>6
  <2>2. PICK t, w, p : TurnTo(own, parents, s, v, o, t, w, p)
    BY <2>1, TurnIs
  <2>3. walk[k] = Turn(own, walk[k - 1])
    BY <1>4 DEF Walks
  <2>4. walk[k] = [stack |-> t, visited |-> w, out |-> p] /\ Walked(own, parents, t, w, p)
    BY <2>1, <2>2, <2>3 DEF TurnTo
  <2>5. t = <<>> \/ Ahead(t, w) <= T - k
    <3>1. CASE s = <<>>
      BY <2>2, <3>1 DEF TurnTo
    <3>2. CASE s # <<>>
      <4>1. Ahead(t, w) = Ahead(s, v) - 1 /\ Ahead(s, v) <= T - (k - 1)
        BY <2>1, <2>2, <3>2 DEF TurnTo
      <4>2. Ahead(s, v) \in Nat
        <5>1. Len(s) \in Nat /\ Cardinality(RefsOf(Names \ v)) \in Nat
          BY <2>1, RefsAre, PositionsOf DEF Walked
        <5> QED BY <5>1 DEF Ahead
      <4> QED BY <1>6, <4>1, <4>2
    <3> QED BY <3>1, <3>2
  <2> QED BY <2>4, <2>5
<1>7. At(T)
  <2> HIDE DEF At
  <2>1. 0 \in Good /\ (\A k \in 1..T : k - 1 \in Good => k \in Good) /\ T \in 0..T
    BY <1>5, <1>6
  <2> HIDE DEF Good
  <2>2. T \in Good
    BY <2>1, UpTo
  <2> QED BY <2>2 DEF Good
<1>8. PICK s, v, o : /\ walk[T] = [stack |-> s, visited |-> v, out |-> o]
                     /\ Walked(own, parents, s, v, o)
                     /\ s = <<>> \/ Ahead(s, v) <= T - T
  BY <1>7
<1>9. ToSet(s) = {}
  <2>1. CASE s = <<>>
    BY <2>1, EmptyIs
  <2>2. CASE Ahead(s, v) <= T - T
    <3>1. Len(s) \in Nat /\ Cardinality(RefsOf(Names \ v)) \in Nat
      BY <1>8, RefsAre, PositionsOf DEF Walked
    <3>2. Len(s) = 0
      BY <2>2, <3>1 DEF Ahead
    <3> QED BY <1>8, <3>2, PositionsOf DEF Walked
  <2> QED BY <1>8, <2>1, <2>2
<1>10. Flatten(own, parents) = o
  BY <1>4, <1>8
<1> QED BY <1>8, <1>9, <1>10 DEF Walked

LEMMA GeneratedIs ==
    ASSUME ManifestOK, NEW tree, NEW n \in Names
    PROVE  IsSequence(GeneratedBy(tree)[n])
<1> DEFINE paths == manifest[n].outputs
           list == ExpandAll(tree, paths)
<1>1. IsSequence(paths)
  BY DEF ManifestOK
<1>2. IsSequence(list)
  <2>1. PICK m \in Nat : DOMAIN paths = 1..m
    BY <1>1, PositionsOf
  <2>2. list = [i \in 1..m |-> Expand(tree, paths[i])]
    BY <2>1 DEF ExpandAll
  <2> HIDE DEF list, paths
  <2>3. list = [i \in 1..m |-> list[i]]
    BY <2>2
  <2> QED BY <2>3, SequenceIs
<1>3. GeneratedBy(tree)[n] \in {paths, list, <<>>}
  BY DEF GeneratedBy
<1> QED BY <1>1, <1>2, <1>3, EmptyIs

\* What is generated upstream of a target is among what its compiles wait for.
LEMMA GeneratedUpstream ==
    ASSUME ManifestOK, NEW tree, NEW n \in Names, NEW d \in Upstream(n)
    PROVE  ToSet(GeneratedBy(tree)[d]) \subseteq ToSet(GeneratedFor(tree, n))
<1> DEFINE own == GeneratedBy(tree)
<1>1. \A m \in Names : IsSequence(own[m])
  BY GeneratedIs
<1>2. IsSequence(Deps(n)) /\ ToSet(Deps(n)) \subseteq Names
  BY DEF ManifestOK
<1> HIDE DEF own
<1>3. PICK visited \in SUBSET Names :
          /\ ToSet(Deps(n)) \subseteq visited
          /\ \A v \in visited : /\ ToSet(Deps(v)) \subseteq visited
                                /\ ToSet(own[v]) \subseteq ToSet(Flatten(own, Deps(n)))
  BY <1>1, <1>2, FlattenHolds
<1>4. d \in visited
  BY <1>3, UpstreamIs
<1> QED BY <1>3, <1>4 DEF GeneratedFor, own

-----------------------------------------------------------------------------
(* The invariant, and what follows from it.                                 *)

GraphInv == LoadOK /\ SortOK /\ BuildOK /\ SelectOK /\ phase \in Phases

LEMMA Begins ==
    ASSUME Init
    PROVE  GraphInv
<1>1. /\ \E family \in Workspaces : workspace \in family
      /\ manifest = <<>> /\ phase = "load" /\ marks = <<>> /\ path = <<>> /\ order = <<>>
      /\ built = 0 /\ actions = <<>> /\ owner = <<>> /\ closure = {}
  BY DEF Init
<1>2. LoadOK
  BY <1>1, WorkspacesAssumption DEF LoadOK
<1>3. SortOK
  BY <1>1 DEF SortOK, Unsorted, Building
<1>4. BuildOK
  <2>1. DOMAIN actions = {} /\ Len(manifest) = 0
    BY <1>1
  <2> QED BY <1>1, <2>1, EmptyIs DEF BuildOK, OneProducerIn, MadeOK, Building
<1> QED BY <1>1, <1>2, <1>3, <1>4 DEF GraphInv, SelectOK, Phases

\* What a graph is made of holds together in every state: the manifest is that of
\* the workspace, the visits on the stack lead to each other, what is sorted comes
\* after its dependencies, no two actions make one file.
THEOREM GraphInvariant == Spec => []GraphInv
<1>1. Init => GraphInv
  BY Begins
<1>2. GraphInv /\ [Next]_vars => GraphInv'
  BY StepIs, LoadKeeps, SortKeeps, BuildKeeps, SelectKeeps DEF GraphInv
<1> QED BY <1>1, <1>2, PTL DEF Spec

\* For every workspace the marks say what is on the stack, no target is sorted
\* twice, and a selection holds actions of the graph, each of which has a target.
THEOREM GraphTypeCorrect == Spec => []TypeOK
<1>1. GraphInv => TypeOK
  <2> SUFFICES ASSUME GraphInv PROVE TypeOK
    OBVIOUS
  <2>1. DOMAIN owner = DOMAIN actions
    BY PositionsOf DEF GraphInv, BuildOK
  <2>2. closure \subseteq DOMAIN actions
    BY ClosureTyped DEF GraphInv
  <2>3. CASE Unsorted
    <3>1. DOMAIN marks = {} /\ IsInjective(order)
      BY <2>3 DEF Unsorted, IsInjective
    <3> QED BY <2>1, <2>2, <3>1 DEF GraphInv, Phases, TypeOK
  <2>4. CASE Visiting
    <3>1. DOMAIN marks = Names /\ DOMAIN path = 1..Len(path) /\ IsInjective(order)
      BY <2>4, PositionsOf DEF Visiting, Finished
    <3>2. \A n \in Names : marks[n] = "visiting" <=> \E i \in 1..Len(path) : path[i].name = n
      BY <2>4 DEF Visiting, OnPath
    <3> QED BY <2>1, <2>2, <3>1, <3>2 DEF GraphInv, Phases, TypeOK
  <2> QED BY <2>3, <2>4 DEF GraphInv, SortOK
<1> QED BY <1>1, GraphInvariant, PTL

\* Every manifest that passes validation can be built from, whatever its globs
\* expand to, and a package's files and bare names are its own.
THEOREM LoadedIsWholeHolds == Spec => []LoadedIsWhole
<1>1. GraphInv => LoadedIsWhole
  BY BuildableHolds, SelfContainedHolds DEF GraphInv, LoadedIsWhole
<1> QED BY <1>1, GraphInvariant, PTL

\* toposort_targets puts every target of every manifest behind all that is
\* upstream of it, and refuses a manifest for a cycle only if it has one.
THEOREM TargetsInOrderHolds == Spec => []TargetsInOrder
<1>1. GraphInv => TargetsInOrder
  <2> SUFFICES ASSUME GraphInv PROVE TargetsInOrder
    OBVIOUS
  <2>1. ManifestOK
    BY LoadedManifest DEF GraphInv
  <2>2. ASSUME phase \in {"build", "request", "selected"}
        PROVE  /\ ToSet(order) = Names
               /\ \A i \in DOMAIN order : Upstream(order[i]) \subseteq ToSet(SubSeq(order, 1, i - 1))
    <3>1. Visiting /\ ToSet(order) = Names
      BY <2>2 DEF GraphInv, SortOK, Building
    <3> QED BY <2>1, <3>1, SortedIs
  <2> QED BY <2>2 DEF GraphInv, SortOK, TargetsInOrder
<1> QED BY <1>1, GraphInvariant, PTL

\* Whatever the targets declare, no two actions of a graph make the same file, and
\* none resets a directory another one works in.
THEOREM OutputsAreOwnedHolds == Spec => []OutputsAreOwned
<1>1. GraphInv => OutputsAreOwned
  <2> SUFFICES ASSUME GraphInv PROVE OutputsAreOwned
    OBVIOUS
  <2>1. OneProducer
    BY DEF GraphInv, BuildOK, OneProducerIn, OneProducer
  <2>2. ASSUME phase = "request", NEW a \in DOMAIN actions, NEW b \in DOMAIN actions, a # b,
               NEW d \in ToSet(actions[a].clean)
        PROVE  /\ \A f \in actions[b].inputs \cup actions[b].orderOnly \cup ToSet(actions[b].outputs) :
                      ~IsPrefix(d, f)
               /\ \A e \in ToSet(actions[b].clean) : ~Overlap(d, e)
    <3>1. CleanDirsValid
      BY <2>2 DEF GraphInv, BuildOK
    <3>2. PICK i \in DOMAIN actions[a].clean : actions[a].clean[i] = d
      BY DEF ToSet
    <3>3. <<a, i>> \in Claims /\ Directory(<<a, i>>) = d
      BY <3>2 DEF Claims, Directory
    <3>4. ASSUME NEW f \in actions[b].inputs \cup actions[b].orderOnly \cup ToSet(actions[b].outputs)
          PROVE  ~IsPrefix(d, f)
      <4>1. f \in GraphFiles
        BY DEF GraphFiles
      <4> QED BY <3>1, <3>3, <4>1 DEF CleanDirsValid
    <3>5. ASSUME NEW e \in ToSet(actions[b].clean) PROVE ~Overlap(d, e)
      <4>1. PICK j \in DOMAIN actions[b].clean : actions[b].clean[j] = e
        BY DEF ToSet
      <4>2. <<b, j>> \in Claims /\ Directory(<<b, j>>) = e
        BY <4>1 DEF Claims, Directory
      <4>3. a < b \/ b < a
        <5>1. DOMAIN actions \subseteq Nat
          BY PositionsOf DEF GraphInv, BuildOK
        <5> QED BY <2>2, <5>1
      <4>4. <<a, i>> \in Earlier(<<b, j>>) \/ <<b, j>> \in Earlier(<<a, i>>)
        BY <3>3, <4>2, <4>3 DEF Earlier
      <4> QED BY <3>1, <3>3, <4>2, <4>4 DEF CleanDirsValid, Overlap
    <3> QED BY <3>4, <3>5
  <2>3. ResetsSpareOthers
    BY <2>2 DEF ResetsSpareOthers
  <2> QED BY <2>1, <2>3 DEF OutputsAreOwned
<1> QED BY <1>1, GraphInvariant, PTL

\* Through dependencies of every kind, however indirect, what is generated is there
\* before a source is compiled, and what makes an input is in every selection that
\* needs it, and nothing else is.
THEOREM NeedsAreMetHolds == Spec => []NeedsAreMet
<1>1. GraphInv => NeedsAreMet
  <2> SUFFICES ASSUME GraphInv PROVE NeedsAreMet
    OBVIOUS
  <2>1. ManifestOK /\ MadeOK
    BY LoadedManifest DEF GraphInv, BuildOK
  <2>2. ASSUME NEW a \in DOMAIN actions, Compiled(owner[a], actions[a]), NEW d \in Upstream(owner[a])
        PROVE  ToSet(GeneratedBy(TreeOf(config))[d]) \subseteq actions[a].orderOnly
    <3>1. owner[a] \in Names /\ actions[a].orderOnly = ToSet(GeneratedFor(TreeOf(config), owner[a]))
      BY <2>1, <2>2 DEF MadeOK
    <3> QED BY <2>1, <3>1, GeneratedUpstream
  <2>3. GeneratedFirst
    BY <2>2 DEF GeneratedFirst, Compiled
  <2>4. ClosureIsExact
    BY ClosureExact DEF GraphInv
  <2> QED BY <2>3, <2>4 DEF NeedsAreMet
<1> QED BY <1>1, GraphInvariant, PTL
=============================================================================
