--------------------------- MODULE MCIndexLifecycle ---------------------------
(***************************************************************************)
(* TLC instances of IndexLifecycle: up to three index requests of one      *)
(* document, two contents, one delete request.                             *)
(***************************************************************************)
EXTENDS IndexLifecycle, TLC

CONSTANTS r1, r2, r3, d1, c1, c2, m1, m2

(* Every request asks for the same embedding model ... *)
OneModel == [r \in Requests |-> m1]
(* ... or r3 for another one. *)
TwoModels == [r \in Requests |-> IF r = r3 THEN m2 ELSE m1]

=============================================================================
