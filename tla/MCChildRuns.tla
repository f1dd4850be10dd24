----------------------------- MODULE MCChildRuns -----------------------------
(* Instances of ChildRuns for TLC: the runs are model values. *)
EXTENDS ChildRuns, TLC
=============================================================================
