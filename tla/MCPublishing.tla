--------------------------- MODULE MCPublishing ---------------------------
(***************************************************************************)
(* Publishing with workers, runs of the task and files that are alike.     *)
(***************************************************************************)
EXTENDS Publishing, TLC

Alike == Permutations(Worker) \union Permutations(Task) \union Permutations(File)
=============================================================================
