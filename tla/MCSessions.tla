----------------------------- MODULE MCSessions -----------------------------
(***************************************************************************)
(* An instance of Sessions for TLC, whose tabs are alike, and whose        *)
(* requests are.                                                           *)
(***************************************************************************)
EXTENDS Sessions, TLC

Symmetry == Permutations(Tab) \union Permutations(Worker)
=============================================================================
