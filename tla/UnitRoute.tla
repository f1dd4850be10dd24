------------------------------ MODULE UnitRoute ------------------------------
(***************************************************************************)
(* lesson_author_orchestration_v2_unit (services/orchestration_v2/unit.py) *)
(* sends a unit down one of three lanes by its contract: its own lines     *)
(* word for word, the storyboard writer (UnitWriter), or the staged writer *)
(* with its semantic review (StagedUnit).                                  *)
(***************************************************************************)
EXTENDS UnitWriter, StagedUnit

VARIABLE lane

RouteInit == /\ lane \in {"preserve", "idm", "staged"}
             /\ Init /\ SInit /\ (lane # "idm" => pc = "write")

\* run_preserve_unit: no provider call, and nothing between the request and its answer.
Preserve == lane = "preserve" /\ lane' = "preserved" /\ UNCHANGED <<vars, svars>>

Storyboard == lane = "idm" /\ Next /\ UNCHANGED <<lane, svars>>

Staged == lane = "staged" /\ SNext /\ UNCHANGED <<lane, vars>>

RouteNext == Preserve \/ Storyboard \/ Staged

RouteSpec == RouteInit /\ [][RouteNext]_<<lane, vars, svars>>
=============================================================================
