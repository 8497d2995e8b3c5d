------------------------------ MODULE MCWatch ------------------------------
(* A manifest that cannot be loaded, one with an output and a depfile in the  *)
(* source tree, and one with two outputs in a new directory, whose action     *)
(* fails on one version of the sources.                                       *)
EXTENDS Watch

MCOutputs ==
    [m \in {"broken", "small", "large"} |->
        CASE m = "broken" -> {} [] m = "small" -> {"out"} [] OTHER -> {"out", "gen"}]
MCDepfiles == [m \in {"broken", "small", "large"} |-> IF m = "small" THEN {"dep"} ELSE {}]
MCParents == [m \in {"broken", "small", "large"} |-> IF m = "large" THEN {"dir"} ELSE {}]
MCFailing == {<<"large", 1>>, <<"small", 0>>}
=============================================================================
