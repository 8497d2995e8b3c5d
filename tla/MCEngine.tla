------------------------------ MODULE MCEngine ------------------------------
(* A generator of a header and a listing, and a compilation.  The generator *)
(* makes different headers of its source's two contents but the same        *)
(* listing.  The compilation declares the source and the listing, waits for *)
(* the header and includes it when the source says so (content 1), so that  *)
(* it keys on it only if its last run has read it.  Early cutoff, inputs    *)
(* that are discovered and dropped and generated inputs all occur.          *)
EXTENDS Engine

MCActions == {"gen", "compile"}
MCSources == {"proto", "src"}
MCDeclared ==
    [a \in MCActions |-> IF a = "gen" THEN {"proto"} ELSE {"src", "listing"}]
MCOrderOnly == [a \in MCActions |-> IF a = "gen" THEN {} ELSE {"hdr"}]
MCOutputs == [a \in MCActions |-> IF a = "gen" THEN {"hdr", "listing"} ELSE {"obj"}]
MCValues == {"0", "1"}
MCContents == MCValues \cup {"hdr0", "hdr1", "names", "plain", "with0", "with1"}

\* The two contents of the generator's source differ in nothing but what the
\* header holds, so one of them is enough to begin with.
MCInitially == {c \in [MCSources -> MCValues] : c["proto"] = "0"}

MCReads(a, view) == IF a = "compile" /\ view["src"] = "1" THEN {"hdr"} ELSE {}

MCProduce(a, o, view) ==
    CASE o = "hdr" -> IF view["proto"] = "0" THEN "hdr0" ELSE "hdr1"
      [] o = "listing" -> "names"
      [] o = "obj" -> IF view["src"] # "1" THEN "plain"
                      ELSE IF view["hdr"] = "hdr0" THEN "with0" ELSE "with1"
=============================================================================
