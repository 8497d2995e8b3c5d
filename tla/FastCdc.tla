------------------------------- MODULE FastCdc -------------------------------
(***************************************************************************)
(* The content-defined chunker of the content-addressed store: where       *)
(* FastCdc::boundary cuts a string of bytes.  A cut is made where the gear *)
(* hash of the bytes since the minimum length vanishes under a mask; below *)
(* the average length the mask is the stricter one.  The code rolls the    *)
(* hash two bytes at a time; ByteBoundary is the textbook definition that  *)
(* looks at every byte.                                                    *)
(***************************************************************************)
EXTENDS Integers, SequencesExt

CONSTANTS
    Minimum, Average, Maximum,  \* lengths of chunks
    MaskSmall, MaskLarge,       \* masks: the bits they select, by their weights
    Word,                       \* the hash is kept modulo Word
    Gear                        \* the table of the gear hash and the seed: Byte -> 0 .. Word - 1

\* With a minimum of one the first test would be at offset zero and a chunk
\* could be empty; FastCdc::new lets that pass, the defaults are far above it.
ASSUME LengthsAssumption ==
    /\ {Minimum, Average, Maximum} \subseteq Nat
    /\ 2 <= Minimum /\ Minimum <= Average /\ Average <= Maximum
\* No mask of fastcdc_params.json selects the highest bit, which a shift loses.
ASSUME MasksAssumption ==
    /\ Word \in Nat \ {0}
    /\ \A bit \in MaskSmall \union MaskLarge : bit \in Nat \ {0} /\ Word % (4 * bit) = 0
ASSUME GearAssumption == \A byte \in DOMAIN Gear : Gear[byte] \in 0 .. Word - 1

Even(n) == n - (n % 2)
Least(a, b) == IF a < b THEN a ELSE b

\* The hash before the first byte at or after `from` and after each later one,
\* the way the loop body computes it: at an even offset the whole word moves
\* two bits and the doubled gear is added; at an odd one the gear is added.
\* Offsets count from 0, TLA+ sequences from 1.
RolledByPairs(bytes, from) ==
    LET hash[offset \in (from - 1) .. Len(bytes) - 1] ==
            IF offset < from THEN 0
            ELSE IF offset % 2 = 0 THEN (4 * hash[offset - 1] + 2 * Gear[bytes[offset + 1]]) % Word
            ELSE (hash[offset - 1] + Gear[bytes[offset + 1]]) % Word
    IN hash

Clear(hash, mask) == \A bit \in mask : (hash \div bit) % 2 = 0    \* hash & mask == 0
Shifted(mask) == {2 * bit : bit \in mask}

\* Mutant: the mask is not doubled for the doubled hash.
Mut_PlainMask(hash, offset, mask) == Clear(hash[offset], mask)
\* A cut before `offset`: an even offset is tested under the doubled mask.
CutsAt(hash, offset, mask) ==
    Clear(hash[offset], IF offset % 2 = 0 THEN Shifted(mask) ELSE mask)

\* The length of the first chunk: the two loops, below the average with one
\* mask and above it with the other, and the end when neither cuts.
Boundary(bytes) ==
    IF Len(bytes) <= Minimum THEN Len(bytes)
    ELSE LET end    == Least(Len(bytes), Maximum)
             center == Even(Least(end, Average))
             from   == Even(Minimum)
             hash   == RolledByPairs(bytes, from)
             cuts   == {o \in from .. Even(end) - 1 :
                            CutsAt(hash, o, IF o < center THEN MaskSmall ELSE MaskLarge)}
         IN IF cuts = {} THEN end ELSE CHOOSE o \in cuts : \A other \in cuts : o <= other

\* The chunks of the bytes, by the iterator.
Chunks(bytes) ==
    LET from[offset \in 0 .. Len(bytes)] ==
            IF offset = Len(bytes) THEN << >>
            ELSE LET rest   == SubSeq(bytes, offset + 1, Len(bytes))
                     length == Boundary(rest)
                 IN <<SubSeq(rest, 1, length)>> \o from[offset + length]
    IN from[0]
------------------------------------------------------------------------------
(* The textbook chunker: one byte, one shift, one test. *)
ByteHash(bytes) ==
    LET from == Even(Minimum)
        hash[offset \in (from - 1) .. Len(bytes) - 1] ==
            IF offset < from THEN 0 ELSE (2 * hash[offset - 1] + Gear[bytes[offset + 1]]) % Word
    IN hash

ByteBoundary(bytes) ==
    LET end  == Least(Len(bytes), Maximum)
        hash == ByteHash(bytes)
        cuts == {o \in Even(Minimum) .. Even(end) - 1 :
                    Clear(hash[o], IF o < Even(Least(end, Average)) THEN MaskSmall ELSE MaskLarge)}
    IN IF Len(bytes) <= Minimum THEN Len(bytes)
       ELSE CHOOSE o \in cuts \union {end} : \A other \in cuts \union {end} : o <= other

\* The chunker agrees with it and cuts bytes into all of themselves, in pieces
\* between the minimum and the maximum, but for the last.
AgreesWithReference(bytes) ==
    LET pieces == Chunks(bytes) IN
    /\ Boundary(bytes) = ByteBoundary(bytes)
    /\ FlattenSeq(pieces) = bytes
    /\ \A i \in DOMAIN pieces : Len(pieces[i]) \in
            (IF i < Len(pieces) THEN Even(Minimum) ELSE 1) .. Maximum
==============================================================================
