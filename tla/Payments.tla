------------------------------ MODULE Payments ------------------------------
(***************************************************************************)
(* How money becomes an entitlement in kidora-api: the three checkout      *)
(* providers (Chapa, PayPal, Stripe), the $0 pilot activation, the one     *)
(* settlement path they share, and the user's own subscription calls.      *)
(*                                                                         *)
(* A handler is a sequence of awaits; each await is one action here, so    *)
(* that the handlers of concurrent requests interleave as they do in the   *)
(* Node process and across its replicas.  A Payment stands for one         *)
(* checkout or activation attempt: the row it writes has the owner, plan,  *)
(* listed price and provider that attempt was made with, and those columns *)
(* never change afterwards.                                                *)
(***************************************************************************)
EXTENDS Integers, FiniteSets

CONSTANTS
  User, Plan, Payment, Worker,
  NoPayment,   \* "no payment": an idle handler's, and a fresh subscription's
  Forever,     \* renewsAt = null
  Owner,       \* Owner[p]: the user of the attempt
  Sells,       \* Sells[p]: the plan it buys
  Price,       \* Price[p]: that plan's listed price, in minor units
  Provider,    \* Provider[p]: "chapa", "paypal", "stripe" or "pilot"
  Amount,      \* the amounts a provider can report
  Period,      \* the days an order buys
  WindowEnd,   \* PILOT_FREE_UNTIL; 0 when no window is configured
  MaxNow,      \* bound on the clock
  MaxCrash     \* bound on the number of aborted handlers

ASSUME PaymentsAssumption ==
  /\ NoPayment \notin Payment
  /\ Forever \notin Int
  /\ "free" \notin Plan
  /\ Owner \in [Payment -> User]
  /\ Sells \in [Payment -> Plan]
  /\ Price \in [Payment -> Nat]
  /\ Provider \in [Payment -> {"chapa", "paypal", "stripe", "pilot"}]
  /\ Amount \subseteq Nat
  /\ Period \in Nat \ {0}
  /\ WindowEnd \in Nat /\ MaxNow \in Nat /\ MaxCrash \in Nat

VARIABLES
  row,      \* Payment.status, "none" before the row is written
  bound,    \* the rows whose externalId is set, so that findUnique finds them
  sub,      \* Subscription per user; status "none": no row
  order,    \* the provider's side of the attempt
  charged,  \* what the provider took from the buyer
  given,    \* attempts whose checkout page or order id reached the browser
  event,    \* Stripe's checkout.session.completed event per attempt
  pc, job, held,  \* a handler: next step, its payment, the value it holds
  told,     \* payments whose buyer got the answer "paid" / COMPLETED
  grants,   \* how often the settlement granted this payment (history)
  now, crashes

rows     == <<row, bound>>
provider == <<order, charged, given, event>>
handler  == <<pc, job, held>>
clock    == <<now, crashes>>
vars     == <<rows, sub, provider, handler, told, grants, clock>>

Status == {"none", "pending", "cancelled", "failed", "succeeded"}
Order  == {"none", "open", "approved", "held", "paid"}
Step   == {"idle", "initialize", "verify", "session", "sessionRow",
           "createOrder", "bindOrder", "createFailed", "captureOrder",
           "markFailed", "settleRead", "settleReject", "settleClaim",
           "settleUpsert", "pilotCreate", "pilotUpsert"}
Subscription == [plan: Plan \union {"free"},
                 status: {"none", "active", "cancelled"},
                 by: Payment \union {NoPayment},
                 renewsAt: Nat \union {Forever}]

TypeOK ==
  /\ row \in [Payment -> Status]
  /\ bound \subseteq Payment
  /\ sub \in [User -> Subscription]
  /\ order \in [Payment -> Order]
  /\ charged \in [Payment -> Nat]
  /\ given \subseteq Payment
  /\ event \in [Payment -> {"none", "due", "acked"}]
  /\ pc \in [Worker -> Step]
  /\ job \in [Worker -> Payment \union {NoPayment}]
  /\ \A w \in Worker : IF pc[w] = "idle" THEN job[w] = NoPayment
                                          ELSE job[w] \in Payment
  /\ held \in [Worker -> Nat \union {Forever}]
  /\ told \subseteq Payment
  /\ grants \in [Payment -> Nat]
  /\ now \in Nat /\ crashes \in Nat

NoSubscription ==
  [plan |-> "free", status |-> "none", by |-> NoPayment, renewsAt |-> Forever]

Init ==
  /\ row = [p \in Payment |-> "none"] /\ bound = {}
  /\ sub = [u \in User |-> NoSubscription]
  /\ order = [p \in Payment |-> "none"] /\ charged = [p \in Payment |-> 0]
  /\ given = {} /\ event = [p \in Payment |-> "none"]
  /\ pc = [w \in Worker |-> "idle"] /\ job = [w \in Worker |-> NoPayment]
  /\ held = [w \in Worker |-> 0]
  /\ told = {} /\ grants = [p \in Payment |-> 0]
  /\ now = 0 /\ crashes = 0

-----------------------------------------------------------------------------
(* Handler control *)

Begin(w, p, step, value) ==
  /\ pc[w] = "idle"
  /\ pc' = [pc EXCEPT ![w] = step]
  /\ job' = [job EXCEPT ![w] = p]
  /\ held' = [held EXCEPT ![w] = value]

Continue(w, step) ==
  /\ pc' = [pc EXCEPT ![w] = step]
  /\ UNCHANGED <<job, held>>

Finish(w) ==
  /\ pc' = [pc EXCEPT ![w] = "idle"]
  /\ job' = [job EXCEPT ![w] = NoPayment]
  /\ held' = [held EXCEPT ![w] = 0]

\* What each caller of settle makes of its outcome: PayPal's capture and
\* Chapa's confirm answer COMPLETED / paid unless it was rejected; the Stripe
\* webhook answers 2xx whatever the outcome.
Answer(w, outcome) ==
  LET p == job[w] IN
  /\ Finish(w)
  /\ told' = IF outcome # "rejected" /\ Provider[p] # "stripe"
               THEN told \union {p} ELSE told
  /\ event' = IF Provider[p] = "stripe"
                THEN [event EXCEPT ![p] = "acked"] ELSE event

(* PricingService: how a plan is obtained right now, and the rows' states *)

PilotWindow == now < WindowEnd
Mode(p) == IF Price[p] = 0 \/ PilotWindow THEN "pilot" ELSE "paid"

\* Mutants: a status update without its condition.
SettleableAny == {"pending", "cancelled", "succeeded"}
FailAlways(p) == row' = [row EXCEPT ![p] = "failed"]

Settleable == {"pending", "cancelled"}
FailIfSettleable(p) ==
  row' = IF row[p] \in Settleable THEN [row EXCEPT ![p] = "failed"] ELSE row
Live(s) == s.status = "active" /\ (s.renewsAt = Forever \/ s.renewsAt > now)

-----------------------------------------------------------------------------
(* Chapa *)

ChapaCheckout(w, p) ==
  /\ Provider[p] = "chapa" /\ Mode(p) = "paid" /\ row[p] = "none"
  /\ row' = [row EXCEPT ![p] = "pending"] /\ bound' = bound \union {p}
  /\ Begin(w, p, "initialize", 0)
  /\ UNCHANGED <<sub, provider, told, grants, clock>>

ChapaInitialized(w) ==
  /\ pc[w] = "initialize"
  /\ order' = [order EXCEPT ![job[w]] = "open"]
  /\ given' = given \union {job[w]}
  /\ Finish(w)
  /\ UNCHANGED <<rows, sub, charged, event, told, grants, clock>>

ChapaInitializeFails(w) ==
  /\ pc[w] = "initialize"
  /\ row' = IF row[job[w]] = "pending" THEN [row EXCEPT ![job[w]] = "failed"] ELSE row
  /\ Finish(w)
  /\ UNCHANGED <<bound, sub, provider, told, grants, clock>>

\* confirm: the webhook, the callback and the returning buyer all start here.
ChapaConfirm(w, p) ==
  /\ Provider[p] = "chapa" /\ p \in bound
  /\ IF row[p] = "succeeded"
       THEN /\ pc[w] = "idle" /\ told' = told \union {p} /\ UNCHANGED handler
       ELSE /\ Begin(w, p, "verify", 0) /\ UNCHANGED told
  /\ UNCHANGED <<rows, sub, provider, grants, clock>>

ChapaVerified(w) ==
  /\ pc[w] = "verify" /\ order[job[w]] = "paid"
  /\ pc' = [pc EXCEPT ![w] = "settleRead"]
  /\ held' = [held EXCEPT ![w] = charged[job[w]]]
  /\ UNCHANGED <<rows, sub, provider, job, told, grants, clock>>

\* Not paid yet, or Chapa did not answer: reported as pending or failed.
ChapaNotVerified(w) ==
  /\ pc[w] = "verify"
  /\ Finish(w)
  /\ UNCHANGED <<rows, sub, provider, told, grants, clock>>

-----------------------------------------------------------------------------
(* Stripe *)

StripeCheckout(w, p) ==
  /\ Provider[p] = "stripe" /\ Mode(p) = "paid"
  /\ row[p] = "none" /\ order[p] = "none"
  /\ \A v \in Worker : job[v] # p
  /\ Begin(w, p, "session", 0)
  /\ UNCHANGED <<rows, sub, provider, told, grants, clock>>

\* Mutant: the checkout page is handed out before its row is written.
StripeSessionEarly(w) ==
  /\ pc[w] = "session"
  /\ order' = [order EXCEPT ![job[w]] = "open"] /\ given' = given \union {job[w]}
  /\ Continue(w, "sessionRow")
  /\ UNCHANGED <<rows, sub, charged, event, told, grants, clock>>

StripeSession(w) ==
  /\ pc[w] = "session"
  /\ order' = [order EXCEPT ![job[w]] = "open"]
  /\ Continue(w, "sessionRow")
  /\ UNCHANGED <<rows, sub, charged, given, event, told, grants, clock>>

StripeRow(w) ==
  /\ pc[w] = "sessionRow"
  /\ row' = [row EXCEPT ![job[w]] = "pending"] /\ bound' = bound \union {job[w]}
  /\ given' = given \union {job[w]}
  /\ Finish(w)
  /\ UNCHANGED <<sub, order, charged, event, told, grants, clock>>

\* Mutant: the delivery is acknowledged on receipt.
StripeWebhookAckFirst(w, p) ==
  /\ event[p] # "none"
  /\ Begin(w, p, "settleRead", charged[p])
  /\ event' = [event EXCEPT ![p] = "acked"]
  /\ UNCHANGED <<rows, sub, order, charged, given, told, grants, clock>>

\* An event is delivered until it is acknowledged, and possibly once more.
StripeWebhook(w, p) ==
  /\ event[p] # "none"
  /\ Begin(w, p, "settleRead", charged[p])
  /\ UNCHANGED <<rows, sub, provider, told, grants, clock>>

-----------------------------------------------------------------------------
(* PayPal *)

PaypalCreateOrder(w, p) ==
  /\ Provider[p] = "paypal" /\ Mode(p) = "paid" /\ row[p] = "none"
  /\ row' = [row EXCEPT ![p] = "pending"]
  /\ Begin(w, p, "createOrder", 0)
  /\ UNCHANGED <<bound, sub, provider, told, grants, clock>>

PaypalOrderCreated(w) ==
  /\ pc[w] = "createOrder"
  /\ order' = [order EXCEPT ![job[w]] = "open"]
  /\ Continue(w, "bindOrder")
  /\ UNCHANGED <<rows, sub, charged, given, event, told, grants, clock>>

PaypalBindOrder(w) ==
  /\ pc[w] = "bindOrder"
  /\ bound' = bound \union {job[w]} /\ given' = given \union {job[w]}
  /\ Finish(w)
  /\ UNCHANGED <<row, sub, order, charged, event, told, grants, clock>>

\* The catch block: PayPal's call failed, or the update that stores its id.
PaypalCreateThrows(w) ==
  /\ pc[w] \in {"createOrder", "bindOrder"}
  /\ Continue(w, "createFailed")
  /\ UNCHANGED <<rows, sub, provider, told, grants, clock>>

PaypalCreateFailed(w) ==
  /\ pc[w] = "createFailed"
  /\ row' = [row EXCEPT ![job[w]] = "failed"]
  /\ Finish(w)
  /\ UNCHANGED <<bound, sub, provider, told, grants, clock>>

\* The browser captures an order whose id it was given.
PaypalCapture(w, p) ==
  /\ Provider[p] = "paypal" /\ p \in given \intersect bound
  /\ IF row[p] = "succeeded"
       THEN /\ pc[w] = "idle" /\ told' = told \union {p} /\ UNCHANGED handler
       ELSE /\ Begin(w, p, "captureOrder", 0) /\ UNCHANGED told
  /\ UNCHANGED <<rows, sub, provider, grants, clock>>

\* PayPal captures an approved order, or answers a repeat (directly, or as
\* ORDER_ALREADY_CAPTURED and the GET that follows) with the first capture.
PaypalCaptured(w) ==
  LET p == job[w] IN
  /\ pc[w] = "captureOrder" /\ order[p] \in {"approved", "paid"}
  /\ order' = [order EXCEPT ![p] = "paid"]
  /\ pc' = [pc EXCEPT ![w] = "settleRead"]
  /\ \E a \in IF order[p] = "approved" THEN Amount ELSE {charged[p]} :
       /\ charged' = [charged EXCEPT ![p] = a]
       /\ held' = [held EXCEPT ![w] = a]
  /\ UNCHANGED <<rows, sub, given, event, job, told, grants, clock>>

\* The capture is PENDING: its id is stored, nothing is granted.
PaypalHeld(w) ==
  /\ pc[w] = "captureOrder" /\ order[job[w]] \in {"approved", "held"}
  /\ order' = [order EXCEPT ![job[w]] = "held"]
  /\ Finish(w)
  /\ UNCHANGED <<rows, sub, charged, given, event, told, grants, clock>>

\* A 4xx: the order is not approved, or the card was declined (the buyer may
\* then approve the same order again), or PayPal refused the call itself,
\* whatever the state of the order.
PaypalDeclined(w) ==
  /\ pc[w] = "captureOrder"
  /\ \/ UNCHANGED order
     \/ order[job[w]] = "approved" /\ order' = [order EXCEPT ![job[w]] = "open"]
  /\ Continue(w, "markFailed")
  /\ UNCHANGED <<rows, sub, charged, given, event, told, grants, clock>>

\* Outage or timeout: the row stays as it is, but PayPal may have captured.
PaypalUnavailable(w) ==
  LET p == job[w] IN
  /\ pc[w] = "captureOrder"
  /\ \/ UNCHANGED <<order, charged>>
     \/ /\ order[p] = "approved"
        /\ order' = [order EXCEPT ![p] = "paid"]
        /\ \E a \in Amount : charged' = [charged EXCEPT ![p] = a]
  /\ Finish(w)
  /\ UNCHANGED <<rows, sub, given, event, told, grants, clock>>

PaypalMarkFailed(w) ==
  /\ pc[w] = "markFailed"
  /\ FailIfSettleable(job[w])
  /\ Finish(w)
  /\ UNCHANGED <<bound, sub, provider, told, grants, clock>>

\* The buyer closed the popup: one conditional update.
PaypalCancel(p) ==
  /\ Provider[p] = "paypal" /\ p \in given \intersect bound /\ row[p] = "pending"
  /\ row' = [row EXCEPT ![p] = "cancelled"]
  /\ UNCHANGED <<bound, sub, provider, handler, told, grants, clock>>

-----------------------------------------------------------------------------
(* PaymentSettlementService.settle *)

\* Mutant: the report is trusted.
SettleReadTrusting(w) ==
  /\ pc[w] = "settleRead" /\ job[w] \in bound
  /\ Continue(w, "settleClaim")
  /\ UNCHANGED <<rows, sub, provider, told, grants, clock>>

SettleRead(w) ==
  LET p == job[w] IN
  /\ pc[w] = "settleRead"
  /\ \/ /\ p \notin bound
        /\ Answer(w, "rejected")
     \/ /\ p \in bound /\ row[p] = "succeeded"
        /\ Answer(w, "already-settled")
     \/ /\ p \in bound /\ row[p] # "succeeded"
        /\ Continue(w, IF held[w] = Price[p] THEN "settleClaim" ELSE "settleReject")
        /\ UNCHANGED <<told, event>>
  /\ UNCHANGED <<rows, sub, order, charged, given, grants, clock>>

SettleReject(w) ==
  /\ pc[w] = "settleReject"
  /\ FailIfSettleable(job[w])
  /\ Answer(w, "rejected")
  /\ UNCHANGED <<bound, sub, order, charged, given, grants, clock>>

\* Mutant: the claim succeeds and the handler returns without the upsert.
SettleClaimForgets(w) ==
  /\ pc[w] = "settleClaim"
  /\ row' = [row EXCEPT ![job[w]] = "succeeded"]
  /\ Answer(w, "granted")
  /\ UNCHANGED <<bound, sub, order, charged, given, grants, clock>>

\* The conditional update: only the request that moved the row goes on.
SettleClaim(w) ==
  LET p == job[w] IN
  /\ pc[w] = "settleClaim"
  /\ \/ /\ row[p] \in Settleable
        /\ row' = [row EXCEPT ![p] = "succeeded"]
        /\ Continue(w, "settleUpsert")
        /\ UNCHANGED <<told, event>>
     \/ /\ row[p] \notin Settleable
        /\ Answer(w, "already-settled")
        /\ UNCHANGED row
  /\ UNCHANGED <<bound, sub, order, charged, given, grants, clock>>

Grant(w, until) ==
  LET p == job[w] IN
  /\ sub' = [sub EXCEPT ![Owner[p]] =
               [plan |-> Sells[p], status |-> "active", by |-> p, renewsAt |-> until]]
  /\ grants' = [grants EXCEPT ![p] = @ + 1]

SettleUpsert(w) ==
  /\ pc[w] = "settleUpsert"
  /\ Grant(w, now + Period)
  /\ Answer(w, "granted")
  /\ UNCHANGED <<rows, order, charged, given, clock>>

-----------------------------------------------------------------------------
(* PaymentSettlementService.activatePilot *)

\* held: the end date the terms carry, read before anything is written.
PilotActivate(w, p) ==
  LET s == sub[Owner[p]] IN
  /\ Provider[p] = "pilot" /\ Mode(p) = "pilot" /\ row[p] = "none"
  /\ \A v \in Worker : job[v] # p
  /\ ~(Live(s) /\ s.plan = Sells[p])
  /\ Begin(w, p, "pilotCreate", IF PilotWindow THEN WindowEnd ELSE Forever)
  /\ UNCHANGED <<rows, sub, provider, told, grants, clock>>

\* Mutant: the end of the pilot is looked up when it is written.
PilotUpsertLooksUp(w) ==
  /\ pc[w] = "pilotUpsert"
  /\ sub' = [sub EXCEPT ![Owner[job[w]]] =
               [plan |-> Sells[job[w]], status |-> "active", by |-> job[w],
                renewsAt |-> IF PilotWindow THEN WindowEnd ELSE Forever]]
  /\ grants' = [grants EXCEPT ![job[w]] = @ + 1]
  /\ Finish(w)
  /\ UNCHANGED <<rows, provider, told, clock>>

\* The row is born succeeded, of amount 0, with no externalId.
PilotCreate(w) ==
  /\ pc[w] = "pilotCreate"
  /\ row' = [row EXCEPT ![job[w]] = "succeeded"]
  /\ Continue(w, "pilotUpsert")
  /\ UNCHANGED <<bound, sub, provider, told, grants, clock>>

PilotUpsert(w) ==
  /\ pc[w] = "pilotUpsert"
  /\ Grant(w, held[w])
  /\ Finish(w)
  /\ UNCHANGED <<rows, provider, told, clock>>

-----------------------------------------------------------------------------
(* SubscriptionsService *)

SubscriptionMine(u) ==
  /\ sub[u].status = "none"
  /\ sub' = [sub EXCEPT ![u] = [plan |-> "free", status |-> "active",
                                by |-> NoPayment, renewsAt |-> Forever]]
  /\ UNCHANGED <<rows, provider, handler, told, grants, clock>>

\* setPlan('free'): provider and externalId keep their last values.
SubscriptionSetFree(u) ==
  /\ sub' = [sub EXCEPT ![u] = [plan |-> "free", status |-> "active",
                                by |-> sub[u].by, renewsAt |-> Forever]]
  /\ UNCHANGED <<rows, provider, handler, told, grants, clock>>

SubscriptionCancel(u) ==
  /\ sub[u].status # "none"
  /\ sub' = [sub EXCEPT ![u].status = "cancelled"]
  /\ UNCHANGED <<rows, provider, handler, told, grants, clock>>

-----------------------------------------------------------------------------
(* The world outside: buyers, providers, the clock, a crash *)

\* On Chapa's or Stripe's page.  Stripe reports a completed, paid session.
BuyerPays(p) ==
  /\ Provider[p] \in {"chapa", "stripe"} /\ p \in given /\ order[p] = "open"
  /\ order' = [order EXCEPT ![p] = "paid"]
  /\ \E a \in Amount : charged' = [charged EXCEPT ![p] = a]
  /\ event' = IF Provider[p] = "stripe" THEN [event EXCEPT ![p] = "due"] ELSE event
  /\ UNCHANGED <<rows, sub, given, handler, told, grants, clock>>

\* A Stripe session completed with a delayed method: its event says unpaid.
BuyerPaysLater(p) ==
  /\ Provider[p] = "stripe" /\ p \in given /\ order[p] = "open"
  /\ order' = [order EXCEPT ![p] = "held"]
  /\ UNCHANGED <<rows, sub, charged, given, event, handler, told, grants, clock>>

BuyerApproves(p) ==
  /\ Provider[p] = "paypal" /\ p \in given /\ order[p] = "open"
  /\ order' = [order EXCEPT ![p] = "approved"]
  /\ UNCHANGED <<rows, sub, charged, given, event, handler, told, grants, clock>>

FundsClear(p) ==
  /\ order[p] = "held"
  /\ order' = [order EXCEPT ![p] = "paid"]
  /\ \E a \in Amount : charged' = [charged EXCEPT ![p] = a]
  /\ UNCHANGED <<rows, sub, given, event, handler, told, grants, clock>>

Tick ==
  /\ now < MaxNow
  /\ now' = now + 1
  /\ UNCHANGED <<rows, sub, provider, handler, told, grants, crashes>>

\* The process stops, or a database call throws, between two awaits.
Abort(w) ==
  /\ pc[w] # "idle" /\ crashes < MaxCrash
  /\ Finish(w)
  /\ crashes' = crashes + 1
  /\ UNCHANGED <<rows, sub, provider, told, grants, now>>

-----------------------------------------------------------------------------
Request(w, p) ==
  \/ ChapaCheckout(w, p) \/ ChapaConfirm(w, p)
  \/ StripeCheckout(w, p) \/ StripeWebhook(w, p)
  \/ PaypalCreateOrder(w, p) \/ PaypalCapture(w, p)
  \/ PilotActivate(w, p)

Proceed(w) ==
  \/ ChapaInitialized(w) \/ ChapaInitializeFails(w)
  \/ ChapaVerified(w) \/ ChapaNotVerified(w)
  \/ StripeSession(w) \/ StripeRow(w)
  \/ PaypalOrderCreated(w) \/ PaypalBindOrder(w)
  \/ PaypalCreateThrows(w) \/ PaypalCreateFailed(w)
  \/ PaypalCaptured(w) \/ PaypalHeld(w) \/ PaypalDeclined(w)
  \/ PaypalUnavailable(w) \/ PaypalMarkFailed(w)
  \/ SettleRead(w) \/ SettleReject(w) \/ SettleClaim(w) \/ SettleUpsert(w)
  \/ PilotCreate(w) \/ PilotUpsert(w)

World(p) ==
  \/ PaypalCancel(p) \/ BuyerPays(p) \/ BuyerPaysLater(p)
  \/ BuyerApproves(p) \/ FundsClear(p)

Next ==
  \/ \E w \in Worker : \/ Proceed(w) \/ Abort(w)
                       \/ \E p \in Payment : Request(w, p)
  \/ \E p \in Payment : World(p)
  \/ \E u \in User : \/ SubscriptionMine(u) \/ SubscriptionSetFree(u)
                     \/ SubscriptionCancel(u)
  \/ Tick

Spec == Init /\ [][Next]_vars

\* A handler that has started runs on; Stripe redelivers an unacknowledged
\* event as often as it takes.
FairSpec ==
  /\ Spec
  /\ \A w \in Worker : WF_vars(Proceed(w))
  /\ \A p \in Payment :
       SF_vars(event[p] = "due" /\ \E w \in Worker : StripeWebhook(w, p))
-----------------------------------------------------------------------------
(* Properties *)

Exact(p) == order[p] = "paid" /\ charged[p] = Price[p]

\* settle: "a webhook delivered twice (or a capture racing a webhook) grants
\* once": however many requests carry the same report, one of them grants.
GrantedAtMostOnce == \A p \in Payment : grants[p] <= 1

\* settle: nothing is granted unless the provider took exactly the amount of
\* Kidora's own row, whatever happened to the row in between.
GrantedOnlyIfPaid ==
  \A p \in Payment :
    grants[p] > 0 => row[p] = "succeeded" /\ (Provider[p] = "pilot" \/ Exact(p))

\* The subscription's externalId always names a succeeded payment of the same
\* user, and its plan is the one that payment bought unless the user left it.
SubscriptionIsBacked ==
  \A u \in User :
    sub[u].by # NoPayment =>
      /\ Owner[sub[u].by] = u /\ row[sub[u].by] = "succeeded"
      /\ sub[u].plan \in {"free", Sells[sub[u].by]}

\* Every grant, every way of getting one, and every plan that stands on one.
GrantsAreSound == GrantedAtMostOnce /\ GrantedOnlyIfPaid /\ SubscriptionIsBacked

\* A succeeded row without its grant is one a handler is about to grant: only
\* an aborted handler can leave it behind.
SucceededIsBeingGranted ==
  crashes = 0 =>
    \A p \in Payment :
      row[p] = "succeeded" /\ grants[p] = 0 =>
        \E w \in Worker : pc[w] \in {"settleUpsert", "pilotUpsert"} /\ job[w] = p

\* Nobody can pay for an order Kidora would not recognise when it is reported:
\* the browser gets a checkout only after the row that settles it is bound.
PayableOrderIsBound ==
  \A p \in Payment : order[p] \in {"approved", "held", "paid"} => p \in bound

\* activatePilot: "Pilot access ends with the pilot window", however long the
\* activation takes; a plan listed at 0 has no end.
PilotAccessEndsWithWindow ==
  now >= WindowEnd =>
    \A u \in User :
      LET p == sub[u].by IN
      p # NoPayment /\ Live(sub[u]) /\ sub[u].plan # "free"
        => Provider[p] # "pilot" \/ Price[p] = 0

\* No late cancel, decline, failed update or mismatch moves a succeeded row.
SucceededIsFinal ==
  [][\A p \in Payment : row[p] = "succeeded" => row'[p] = "succeeded"]_row

\* Stripe: a session paid in full at completion is recorded as succeeded in the
\* end, through lost and repeated deliveries and aborted webhook handlers.
StripePaymentSettles ==
  \A p \in Payment :
    (event[p] # "none" /\ Exact(p)) ~> row[p] = "succeeded"

\* The payments that are in order, the granted ones, and the payment each
\* user's plan stands on, for the abstract specification.
PaidPayments ==
  {p \in Payment : IF Provider[p] = "pilot" THEN row[p] = "succeeded" ELSE Exact(p)}
GrantedPayments == {p \in Payment : grants[p] > 0}
Holder ==
  [u \in User |-> IF sub[u].status = "active" /\ sub[u].plan # "free"
                     THEN sub[u].by ELSE NoPayment]

Promise == INSTANCE Entitlement WITH
             paid <- PaidPayments, granted <- GrantedPayments, holder <- Holder
\* The whole subsystem implements Entitlement.
ImplementsEntitlement == Promise!Spec

-----------------------------------------------------------------------------
(* What the repository says of the code, and the code does not do *)

\* paypal.service.ts:32, "COMPLETED once the plan is granted": a buyer who is
\* told COMPLETED / paid has a payment that is recorded as succeeded.
ToldPaidIsRecorded == \A p \in told : row[p] = "succeeded"
=============================================================================
