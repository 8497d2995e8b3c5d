---------------------------- MODULE MCScheduler ----------------------------
(* Scheduler with three workers on the shapes of four actions that need    *)
(* different wake-ups: fan-out, diamond, chains, joins, no edges at all.   *)
EXTENDS Simulation, TLC

CONSTANTS w1, w2, w3

MCActions == 0..3
MCWorkers == {w1, w2, w3}

Shape(d1, d2, d3) == (0 :> {}) @@ (1 :> d1) @@ (2 :> d2) @@ (3 :> d3)
MCGraphs == {
    Shape({0}, {0}, {0}),          \* fan-out
    Shape({0}, {0}, {1, 2}),       \* diamond
    Shape({}, {0}, {1}),           \* two chains
    Shape({}, {}, {0, 1, 2}),      \* join
    Shape({0}, {1}, {2}),          \* chain
    Shape({}, {}, {}),             \* no edges
    Shape({}, {0, 1}, {1}) }       \* two joins that share a producer

\* Two compile actions, one without a recorded duration, a link and a test.
MCKind == (0 :> "compile") @@ (1 :> "compile") @@ (2 :> "link") @@ (3 :> "test")
MCDefaultOf == [compile |-> 2, link |-> 4, test |-> 3]
MCRecorded == (0 :> 3) @@ (1 :> 0) @@ (2 :> 1) @@ (3 :> 5)

MCDuration == (0 :> 1) @@ (1 :> 1) @@ (2 :> 3) @@ (3 :> 2)
=============================================================================
