----------------------------- MODULE MCJobStore -----------------------------
(* Two workers, an import of three images in two batches, a list of two    *)
(* messages, two ticks to live and one failing command.                    *)
EXTENDS JobStore

CONSTANTS w1, w2

MCWorkers == {w1, w2}
=============================================================================
