------------------------- MODULE MCContentProgress -------------------------
(***************************************************************************)
(* An instance of ContentProgress for TLC: the requests are                *)
(* interchangeable, and no property of the run is one of liveness.         *)
(***************************************************************************)
EXTENDS ContentProgress, TLC

Symmetry == Permutations(Worker)
=============================================================================
