----------------------------- MODULE MCFastNoop -----------------------------
(* One source, one output, two contents, manifests and tools.  Contents are *)
(* only compared with one another, and so are manifests and tools.          *)
EXTENDS FastNoop, TLC

Interchangeable == Permutations(Bytes) \cup Permutations(Manifests) \cup Permutations(Tools)
=============================================================================
