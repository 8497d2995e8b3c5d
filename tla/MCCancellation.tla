--------------------------- MODULE MCCancellation ---------------------------
(* Two workers, two requests (Ctrl-C twice, or once in each of the two      *)
(* threads that may see it), three actions of two commands each.            *)
EXTENDS Cancellation
=============================================================================
