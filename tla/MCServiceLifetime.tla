-------------------------- MODULE MCServiceLifetime --------------------------
(* Instances of ServiceLifetime for TLC: the requests are model values. *)
EXTENDS ServiceLifetime, TLC
=============================================================================
