---------------------------- MODULE Entitlement ----------------------------
(***************************************************************************)
(* What the payment subsystem promises, without providers, rows, requests  *)
(* or crashes: a payment is paid at most once, a plan is granted only for  *)
(* a paid payment and at most once for each, and a user's plan changes     *)
(* hands only by such a grant or by the user giving it up.                 *)
(***************************************************************************)
CONSTANTS User, Payment, NoPayment, Owner

VARIABLES
  paid,     \* payments whose money (or $0 activation) is in order
  granted,  \* payments whose plan was granted
  holder    \* holder[u]: the payment behind u's plan, if u has one

vars == <<paid, granted, holder>>

Init ==
  /\ paid = {}
  /\ granted = {}
  /\ holder = [u \in User |-> NoPayment]

Pay(p) ==
  /\ p \notin paid
  /\ paid' = paid \union {p}
  /\ UNCHANGED <<granted, holder>>

Grant(p) ==
  /\ p \in paid \ granted
  /\ granted' = granted \union {p}
  /\ holder' = [holder EXCEPT ![Owner[p]] = p]
  /\ UNCHANGED paid

GiveUp(u) ==
  /\ holder' = [holder EXCEPT ![u] = NoPayment]
  /\ UNCHANGED <<paid, granted>>

Next ==
  \/ \E p \in Payment : Pay(p) \/ Grant(p)
  \/ \E u \in User : GiveUp(u)

Spec == Init /\ [][Next]_vars
=============================================================================
