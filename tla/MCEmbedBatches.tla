--------------------------- MODULE MCEmbedBatches ---------------------------
(* Instances of EmbedBatches for TLC: two workers and one AI ID caller.  A hint of no *)
(* time at all, of one unit, and one that fits no bound.                              *)
EXTENDS EmbedBatches, TLC
CONSTANTS w1, w2, idm
MCWorkers == {w1, w2}
MCCallers == {w1, w2, idm}
MCPatient == {idm}
MCDelays == {0, 1, 3}
=============================================================================
