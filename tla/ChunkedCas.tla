----------------------------- MODULE ChunkedCas -----------------------------
(***************************************************************************)
(* The store and the chunker it is filled through: LocalCas::put_chunks    *)
(* takes the chunks of a large blob from the iterator of FastCdc.          *)
(***************************************************************************)
EXTENDS FastCdc, Cas

CONSTANT Samples    \* strings of bytes that may be put

ASSUME SamplesAssumption == Samples \subseteq Seq(DOMAIN Gear)

(***************************************************************************)
(* The loop of two bytes a turn, with its doubled masks and its rounded    *)
(* limits (boundary, fastcdc.rs:85), cuts where the byte-wise gear hash    *)
(* does, whatever the bytes, and loses and repeats none: what the store is *)
(* built on before anything has happened to it.                            *)
(***************************************************************************)
ChunkerIsReference == used.ops = 0 => \A bytes \in Samples : AgreesWithReference(bytes)
==============================================================================
