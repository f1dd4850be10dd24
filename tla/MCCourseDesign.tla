--------------------------- MODULE MCCourseDesign ---------------------------
(* Instances of CourseDesign for TLC: the sections, the batch and the later *)
(* stages are model values.                                                 *)
EXTENDS CourseDesign, TLC
=============================================================================
