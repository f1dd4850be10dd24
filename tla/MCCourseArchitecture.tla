------------------------ MODULE MCCourseArchitecture ------------------------
(* An instance of CourseArchitecture for TLC: the four layers with as many  *)
(* operations as lets one repair take more calls than are left.             *)
EXTENDS CourseArchitecture, TLC

MCLayers == {"schema", "evidence", "coherence", "depth"}
MCOperations == [schema |-> {}, evidence |-> {"align"},
                 coherence |-> {"intent", "check"}, depth |-> {"support"}]
=============================================================================
