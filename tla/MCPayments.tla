----------------------------- MODULE MCPayments -----------------------------
(***************************************************************************)
(* Instances of Payments for TLC.  Payments are named by their provider;   *)
(* all of them are bought by the one user u1 unless noted.                 *)
(***************************************************************************)
EXTENDS Payments

CONSTANTS u1, chapa1, paypal1, stripe1, pilot1, pilot2, stripe2

ProviderOf == [p \in Payment |->
  CASE p = chapa1 -> "chapa" [] p = paypal1 -> "paypal"
    [] p \in {stripe1, stripe2} -> "stripe" [] OTHER -> "pilot"]
OwnerOf == [p \in Payment |-> u1]
\* chapa1 and stripe2 buy another plan than the rest.
SellsOf == [p \in Payment |-> IF p \in {chapa1, stripe2} THEN "school" ELSE "family"]
\* One plan is listed at 0, so that its attempts are pilots without a window.
PriceOf == [p \in Payment |-> IF ProviderOf[p] = "pilot" THEN 0 ELSE 2]
\* Listed above 0: pilots of it exist only inside the pilot window.
ListedPriceOf == [p \in Payment |-> 2]
=============================================================================
