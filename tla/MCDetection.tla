---------------------------- MODULE MCDetection ----------------------------
(***************************************************************************)
(* Up to four of fourteen scored boxes, some equally good, overlapping in  *)
(* chains, small, degenerate, or partly or wholly outside the image; an    *)
(* image too long to be scaled, and a model whose outputs cannot be read.  *)
(***************************************************************************)
EXTENDS Detection

Box(x1, y1, x2, y2, score) ==
    [x1 |-> x1, y1 |-> y1, x2 |-> x2, y2 |-> y2, score |-> score]

MCDetections == {
    Box(0, 0, 4, 4, 3), Box(1, 0, 5, 4, 2), Box(2, 0, 6, 4, 2), Box(3, 0, 7, 4, 3),
    Box(0, 0, 4, 4, 1), Box(4, 4, 8, 8, 2), Box(-3, -3, 1, 1, 2), Box(6, 2, 12, 9, 3),
    Box(3, 3, 4, 4, 3), Box(5, 5, 4, 4, 2), Box(6, 6, 5, 5, 2), Box(-5, 1, -1, 6, 1),
    Box(2, 2, 6, 6, 0), Box(10, 10, 14, 14, 2)}

MCYields == {S \in SUBSET MCDetections : Cardinality(S) <= 4}
MCSizes == {[w |-> 8, h |-> 8], [w |-> 6, h |-> 10], [w |-> 13, h |-> 1],
            [w |-> 11, h |-> 3]}
MCNets == {9, 10}
=============================================================================
