------------------------- MODULE MCWorkloadLimiter --------------------------
(* Instances of WorkloadLimiter for TLC. *)
EXTENDS WorkloadLimiter, TLC

CONSTANTS b1, b2, i1, i2

Mixed == {b1, b2, i1, i2}
MixedBackground == {b1, b2}
=============================================================================
