------------------------------ MODULE MCWallet ------------------------------
(***************************************************************************)
(* An instance of Wallet for TLC: a lesson and a quiz attempt, a quest     *)
(* that takes both, a badge, and two items that each cost all the coins.   *)
(* 100 XP is the step from level 1 to level 2, and the lesson pays them.   *)
(***************************************************************************)
EXTENDS Wallet, TLC

CONSTANTS lesson1, attempt1, m1, badge, hat, cape

KindOf   == lesson1 :> "lesson" @@ attempt1 :> "attempt"
XpOf     == lesson1 :> 100 @@ attempt1 :> 50
CoinsOf  == [s \in Source |-> 2]
CountsOf == [s \in Source |-> Mission]
TargetOf == [m \in Mission |-> 2]
QuestXpOf    == [m \in Mission |-> 50]
QuestCoinsOf == [m \in Mission |-> 3]
NeedsOf == [a \in Achievement |-> 100]
BonusOf == [A \in SUBSET Achievement |-> 30 * Cardinality(A)]
\* The opening coins buy one item.
PriceOf == [i \in Item |-> 3]

\* Requests, and items of one price, are interchangeable.
Symmetry == Permutations(Worker) \union Permutations(Item)
=============================================================================
