------------------------- MODULE MCGeminiClientPool -------------------------
(* Instances of GeminiClientPool for TLC. *)
EXTENDS GeminiClientPool, TLC

CONSTANTS t1, t2, t3, k1, k2, e1, e2, e3
=============================================================================
