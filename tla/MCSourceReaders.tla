---------------------------- MODULE MCSourceReaders ----------------------------
(***************************************************************************)
(* TLC instances of SourceReaders: one reader beside three index requests  *)
(* of two embedding models, or beside two index requests and a delete.     *)
(***************************************************************************)
EXTENDS SourceReaders, TLC

CONSTANTS r1, r2, r3, d1, c1, c2, m1, m2, p1

TwoModels == [r \in Requests |-> IF r = r3 THEN m2 ELSE m1]

(* r1 and r2 differ in nothing. *)
SameModel == Permutations({r1, r2})

(* Three chunks, the last without facts; or two of which the second does   *)
(* not fit on any page.                                                    *)
SmallChunks == [c \in Contents |-> IF c = c1 THEN <<1, 2, 0>> ELSE <<1, 3>>]
=============================================================================
