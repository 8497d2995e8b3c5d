-------------------------------- MODULE MCCas --------------------------------
(* One output that has had two large contents, which share their first chunk, *)
(* and a small one; the chunker with lengths of a few bytes.                  *)
EXTENDS ChunkedCas, TLC

CONSTANTS p1, p2

MCGear     == [byte \in {0, 1} |-> byte + 1]
MCSamples  == UNION {[1 .. n -> {0, 1}] : n \in 0 .. 9}
MCSmall    == <<0>>
MCFirst    == <<0, 0, 0, 1, 0, 0, 0>>
MCSecond   == <<0, 0, 0, 1, 0, 1, 1>>
MCBlobs    == {MCSmall, MCFirst, MCSecond}
MCChunksOf == [b \in MCBlobs |-> Chunks(b)]
MCShrinks  == {<<Chunks(MCFirst)[2], Chunks(MCSecond)[2]>>}
MCEarlier  == {{}, {MCFirst}}
MCSymmetry == Permutations({p1, p2})
==============================================================================
