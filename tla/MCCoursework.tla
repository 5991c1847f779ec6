---------------------------- MODULE MCCoursework ----------------------------
(***************************************************************************)
(* Coursework with a rubric of two criteria worth a point each.  Students  *)
(* and requests are interchangeable: no definition names one.              *)
(***************************************************************************)
EXTENDS Coursework, TLC

CONSTANTS idea, style

TwoPoints == [c \in {idea, style} |-> 1]

Interchangeable == Permutations(Student) \union Permutations(Handler)
=============================================================================
