--------------------------- MODULE PaymentsProofs ---------------------------
(***************************************************************************)
(* Payments, for every set of users, plans, payments and handlers and      *)
(* every bound: type correctness, the inductive invariant behind the       *)
(* safety properties the runs check, and those properties.                 *)
(***************************************************************************)
EXTENDS Payments, TLAPS

\* Each handler step belongs to one provider.
Roles ==
  \A w \in Worker :
    /\ pc[w] \in {"initialize", "verify"} => Provider[job[w]] = "chapa"
    /\ pc[w] \in {"session", "sessionRow"} => Provider[job[w]] = "stripe"
    /\ pc[w] \in {"createOrder", "bindOrder", "createFailed", "captureOrder", "markFailed"}
         => Provider[job[w]] = "paypal"
    /\ pc[w] \in {"pilotCreate", "pilotUpsert"} => Provider[job[w]] = "pilot"
    /\ pc[w] \in {"settleRead", "settleReject", "settleClaim", "settleUpsert"}
         => Provider[job[w]] # "pilot"

\* What the browser holds, and what a provider can report, is bound to a row.
Bound ==
  /\ PayableOrderIsBound
  /\ given \subseteq bound
  /\ \A p \in bound : row[p] # "none" /\ Provider[p] # "pilot"
  /\ \A p \in Payment : Provider[p] = "chapa" /\ order[p] # "none" => p \in bound
  /\ \A p \in Payment : event[p] # "none" => order[p] = "paid" /\ Provider[p] = "stripe"

\* An attempt being created is in one handler's hands, and cannot settle.
Unborn == {"session", "sessionRow", "pilotCreate"}
Creating == Unborn \union {"createOrder", "bindOrder", "createFailed"}
Creation ==
  \A w \in Worker :
    /\ pc[w] \in Creating =>
         /\ job[w] \notin bound
         /\ row[job[w]] = IF pc[w] \in Unborn THEN "none" ELSE "pending"
         /\ \A v \in Worker \ {w} : job[v] # job[w]
    /\ pc[w] = "initialize" =>
         /\ job[w] \in bound /\ order[job[w]] = "none"
         /\ \A v \in Worker \ {w} : pc[v] = "initialize" => job[v] # job[w]
    /\ pc[w] = "idle" \/ pc[w] \in Unborn \/ row[job[w]] # "none"

\* A report in flight is the provider's, and survives every later step.
Reported ==
  \A w \in Worker :
    /\ pc[w] \in {"settleRead", "settleReject"} => order[job[w]] = "paid"
    /\ pc[w] = "settleRead" => held[w] = charged[job[w]]
    /\ pc[w] \in {"settleClaim", "settleUpsert"} => Exact(job[w])

\* Moving the row to succeeded is a ticket: one handler holds it, uses it once.
Upserting(w) == pc[w] \in {"settleUpsert", "pilotUpsert"}
Ticket ==
  \A w \in Worker : Upserting(w) =>
    /\ row[job[w]] = "succeeded" /\ grants[job[w]] = 0
    /\ \A v \in Worker \ {w} : Upserting(v) => job[v] # job[w]

IInv ==
  /\ TypeOK /\ Roles /\ Bound /\ Creation /\ Reported /\ Ticket
  /\ GrantedAtMostOnce /\ GrantedOnlyIfPaid
  /\ SubscriptionIsBacked /\ SucceededIsBeingGranted

USE PaymentsAssumption

\* A conditional update to failed touches pending and cancelled rows only.
LEMMA FailKeepsRows ==
  ASSUME TypeOK, NEW p \in Payment, FailIfSettleable(p)
  PROVE  /\ row' \in [Payment -> Status]
         /\ \A q \in Payment : row'[q] # row[q] => row[q] \in Settleable /\ row'[q] = "failed"
  BY DEF TypeOK, FailIfSettleable, Settleable, Status

\* A declined capture fails its row without touching a succeeded one.
LEMMA PaypalMarkFailedKeeps == ASSUME IInv, NEW w \in Worker, PaypalMarkFailed(w) PROVE IInv'
<1> USE DEF IInv, TypeOK, Roles, Bound, Creation, Reported, Ticket, GrantedAtMostOnce,
      GrantedOnlyIfPaid, SubscriptionIsBacked, SucceededIsBeingGranted,
      PayableOrderIsBound, Creating, Unborn, Upserting, Exact,
      Status, Order, Step, Subscription, rows, provider, handler, clock, vars,
      Begin, Continue, Finish
<1>a. job[w] \in Payment /\ FailIfSettleable(job[w])
  BY DEF PaypalMarkFailed
<1>b. /\ row' \in [Payment -> Status]
      /\ \A q \in Payment : row'[q] # row[q] => row[q] \in Settleable /\ row'[q] = "failed"
  BY <1>a, FailKeepsRows
<1>c. \A q \in Payment : q # job[w] => row'[q] = row[q]
  BY <1>a DEF FailIfSettleable
<1>d. \A q \in Payment : row[q] = "succeeded" => row'[q] = "succeeded"
  BY <1>b DEF Settleable
<1>e. sub' = sub
  BY DEF PaypalMarkFailed
<1>1. TypeOK'
  BY <1>a, <1>b, SMTT(20) DEF PaypalMarkFailed, Settleable
<1>2. Roles'
  BY <1>a, <1>b, SMTT(20) DEF PaypalMarkFailed, Settleable
<1>3. Bound'
  BY <1>a, <1>b, <1>c, SMTT(20) DEF PaypalMarkFailed, Settleable
<1>4. Creation'
  BY <1>a, <1>b, <1>c, SMTT(20) DEF PaypalMarkFailed, Settleable
<1>5. Reported'
  BY <1>a, <1>b, SMTT(20) DEF PaypalMarkFailed, Settleable
<1>6. Ticket'
  BY <1>a, <1>b, SMTT(20) DEF PaypalMarkFailed, Settleable
<1>7. GrantedAtMostOnce'
  BY <1>a, <1>b, SMTT(20) DEF PaypalMarkFailed, Settleable
<1>8. GrantedOnlyIfPaid'
  BY <1>a, <1>b, SMTT(20) DEF PaypalMarkFailed, Settleable
<1>9. SubscriptionIsBacked'
  BY <1>d, <1>e, SMTT(20) DEF PaypalMarkFailed, Settleable
<1>10. SucceededIsBeingGranted'
  BY <1>a, <1>b, SMTT(20) DEF PaypalMarkFailed, Settleable
<1> QED BY <1>1, <1>2, <1>3, <1>4, <1>5, <1>6, <1>7, <1>8, <1>9, <1>10

\* Neither does a rejected report.
LEMMA SettleRejectKeeps == ASSUME IInv, NEW w \in Worker, SettleReject(w) PROVE IInv'
<1> USE DEF IInv, TypeOK, Roles, Bound, Creation, Reported, Ticket, GrantedAtMostOnce,
      GrantedOnlyIfPaid, SubscriptionIsBacked, SucceededIsBeingGranted,
      PayableOrderIsBound, Creating, Unborn, Upserting, Exact,
      Status, Order, Step, Subscription, rows, provider, handler, clock, vars,
      Begin, Continue, Finish
<1>a. job[w] \in Payment /\ FailIfSettleable(job[w])
  BY DEF SettleReject
<1>b. /\ row' \in [Payment -> Status]
      /\ \A q \in Payment : row'[q] # row[q] => row[q] \in Settleable /\ row'[q] = "failed"
  BY <1>a, FailKeepsRows
<1>c. \A q \in Payment : q # job[w] => row'[q] = row[q]
  BY <1>a DEF FailIfSettleable
<1>d. \A q \in Payment : row[q] = "succeeded" => row'[q] = "succeeded"
  BY <1>b DEF Settleable
<1>e. sub' = sub
  BY DEF SettleReject, Answer
<1>1. TypeOK'
  BY <1>a, <1>b, SMTT(20) DEF SettleReject, Answer, Settleable
<1>2. Roles'
  BY <1>a, <1>b, SMTT(20) DEF SettleReject, Answer, Settleable
<1>3. Bound'
  BY <1>a, <1>b, <1>c, SMTT(20) DEF SettleReject, Answer, Settleable
<1>4. Creation'
  BY <1>a, <1>b, <1>c, SMTT(20) DEF SettleReject, Answer, Settleable
<1>5. Reported'
  BY <1>a, <1>b, SMTT(20) DEF SettleReject, Answer, Settleable
<1>6. Ticket'
  BY <1>a, <1>b, SMTT(20) DEF SettleReject, Answer, Settleable
<1>7. GrantedAtMostOnce'
  BY <1>a, <1>b, SMTT(20) DEF SettleReject, Answer, Settleable
<1>8. GrantedOnlyIfPaid'
  BY <1>a, <1>b, SMTT(20) DEF SettleReject, Answer, Settleable
<1>9. SubscriptionIsBacked'
  BY <1>d, <1>e, SMTT(20) DEF SettleReject, Answer, Settleable
<1>10. SucceededIsBeingGranted'
  BY <1>a, <1>b, SMTT(20) DEF SettleReject, Answer, Settleable
<1> QED BY <1>1, <1>2, <1>3, <1>4, <1>5, <1>6, <1>7, <1>8, <1>9, <1>10

\* settle's first read: unknown, settled before, to be claimed, to be rejected.
LEMMA SettleReadKeeps == ASSUME IInv, NEW w \in Worker, SettleRead(w) PROVE IInv'
<1> USE DEF IInv, TypeOK, Roles, Bound, Creation, Reported, Ticket, GrantedAtMostOnce,
      GrantedOnlyIfPaid, SubscriptionIsBacked, SucceededIsBeingGranted,
      PayableOrderIsBound, Creating, Unborn, Upserting, Exact,
      Status, Order, Step, Subscription, rows, provider, handler, clock, vars,
      Begin, Continue, Finish
<1>1. CASE job[w] \notin bound
  <2>1. TypeOK'
    BY <1>1, SMTT(20) DEF SettleRead, Answer
  <2>5. Roles'
    BY <1>1, <2>1, SMTT(20) DEF SettleRead, Answer
  <2>6. Bound'
    BY <1>1, <2>1, SMTT(20) DEF SettleRead, Answer
  <2>7. Creation'
    BY <1>1, <2>1, SMTT(20) DEF SettleRead, Answer
  <2>8. Reported'
    BY <1>1, <2>1, SMTT(20) DEF SettleRead, Answer
  <2>3. Ticket'
    BY <1>1, <2>1, SMTT(30) DEF SettleRead, Answer
  <2>4. /\ GrantedAtMostOnce' /\ GrantedOnlyIfPaid'
        /\ SubscriptionIsBacked' /\ SucceededIsBeingGranted'
    BY <1>1, <2>1, SMTT(30) DEF SettleRead, Answer
  <2> QED BY <2>1, <2>3, <2>4, <2>5, <2>6, <2>7, <2>8
<1>2. CASE job[w] \in bound /\ row[job[w]] = "succeeded"
  <2>1. TypeOK'
    <3>1. row' \in [Payment -> Status]
      BY <1>2, SMTT(20) DEF SettleRead, Answer
    <3>2. bound' \subseteq Payment
      BY <1>2, SMTT(20) DEF SettleRead, Answer
    <3>3. sub' \in [User -> Subscription]
      BY <1>2, SMTT(20) DEF SettleRead, Answer
    <3>4. order' \in [Payment -> Order]
      BY <1>2, SMTT(20) DEF SettleRead, Answer
    <3>5. charged' \in [Payment -> Nat]
      BY <1>2, SMTT(20) DEF SettleRead, Answer
    <3>6. given' \subseteq Payment
      BY <1>2, SMTT(20) DEF SettleRead, Answer
    <3>7. event' \in [Payment -> {"none", "due", "acked"}]
      BY <1>2, SMTT(20) DEF SettleRead, Answer
    <3>8. pc' \in [Worker -> Step]
      BY <1>2, SMTT(20) DEF SettleRead, Answer
    <3>9. job' \in [Worker -> Payment \union {NoPayment}]
      BY <1>2, SMTT(20) DEF SettleRead, Answer
    <3>10. \A v \in Worker : IF pc'[v] = "idle" THEN job'[v] = NoPayment
                                         ELSE job'[v] \in Payment
      BY <1>2, SMTT(20) DEF SettleRead, Answer
    <3>11. held' \in [Worker -> Nat \union {Forever}]
      BY <1>2, SMTT(20) DEF SettleRead, Answer
    <3>12. told' \subseteq Payment
      BY <1>2, SMTT(20) DEF SettleRead, Answer
    <3>13. grants' \in [Payment -> Nat]
      BY <1>2, SMTT(20) DEF SettleRead, Answer
    <3>14. now' \in Nat /\ crashes' \in Nat
      BY <1>2, SMTT(20) DEF SettleRead, Answer
    <3> QED BY <3>1, <3>2, <3>3, <3>4, <3>5, <3>6, <3>7, <3>8, <3>9, <3>10, <3>11, <3>12, <3>13, <3>14
  <2>5. Roles'
    BY <1>2, <2>1, SMTT(20) DEF SettleRead, Answer
  <2>6. Bound'
    BY <1>2, <2>1, SMTT(20) DEF SettleRead, Answer
  <2>7. Creation'
    BY <1>2, <2>1, SMTT(20) DEF SettleRead, Answer
  <2>8. Reported'
    BY <1>2, <2>1, SMTT(20) DEF SettleRead, Answer
  <2>3. Ticket'
    BY <1>2, <2>1, SMTT(30) DEF SettleRead, Answer
  <2>4. /\ GrantedAtMostOnce' /\ GrantedOnlyIfPaid'
        /\ SubscriptionIsBacked' /\ SucceededIsBeingGranted'
    BY <1>2, <2>1, SMTT(30) DEF SettleRead, Answer
  <2> QED BY <2>1, <2>3, <2>4, <2>5, <2>6, <2>7, <2>8
<1>3. CASE /\ job[w] \in bound /\ row[job[w]] # "succeeded"
         /\ held[w] = Price[job[w]]
  <2>1. TypeOK'
    BY <1>3, SMTT(20) DEF SettleRead, Answer
  <2>5. Roles'
    BY <1>3, <2>1, SMTT(20) DEF SettleRead, Answer
  <2>6. Bound'
    BY <1>3, <2>1, SMTT(20) DEF SettleRead, Answer
  <2>7. Creation'
    BY <1>3, <2>1, SMTT(20) DEF SettleRead, Answer
  <2>8. Reported'
    BY <1>3, <2>1, SMTT(20) DEF SettleRead, Answer
  <2>3. Ticket'
    BY <1>3, <2>1, SMTT(30) DEF SettleRead, Answer
  <2>4. /\ GrantedAtMostOnce' /\ GrantedOnlyIfPaid'
        /\ SubscriptionIsBacked' /\ SucceededIsBeingGranted'
    BY <1>3, <2>1, SMTT(30) DEF SettleRead, Answer
  <2> QED BY <2>1, <2>3, <2>4, <2>5, <2>6, <2>7, <2>8
<1>4. CASE /\ job[w] \in bound /\ row[job[w]] # "succeeded"
         /\ held[w] # Price[job[w]]
  <2>1. TypeOK'
    BY <1>4, SMTT(20) DEF SettleRead, Answer
  <2>5. Roles'
    BY <1>4, <2>1, SMTT(20) DEF SettleRead, Answer
  <2>6. Bound'
    BY <1>4, <2>1, SMTT(20) DEF SettleRead, Answer
  <2>7. Creation'
    BY <1>4, <2>1, SMTT(20) DEF SettleRead, Answer
  <2>8. Reported'
    BY <1>4, <2>1, SMTT(20) DEF SettleRead, Answer
  <2>3. Ticket'
    BY <1>4, <2>1, SMTT(30) DEF SettleRead, Answer
  <2>4. /\ GrantedAtMostOnce' /\ GrantedOnlyIfPaid'
        /\ SubscriptionIsBacked' /\ SucceededIsBeingGranted'
    BY <1>4, <2>1, SMTT(30) DEF SettleRead, Answer
  <2> QED BY <2>1, <2>3, <2>4, <2>5, <2>6, <2>7, <2>8
<1> QED BY <1>1, <1>2, <1>3, <1>4 DEF SettleRead, Answer

\* settle's conditional update: the row is claimed, or somebody was first.
LEMMA SettleClaimKeeps == ASSUME IInv, NEW w \in Worker, SettleClaim(w) PROVE IInv'
<1> USE DEF IInv, TypeOK, Roles, Bound, Creation, Reported, Ticket, GrantedAtMostOnce,
      GrantedOnlyIfPaid, SubscriptionIsBacked, SucceededIsBeingGranted,
      PayableOrderIsBound, Creating, Unborn, Upserting, Exact,
      Status, Order, Step, Subscription, rows, provider, handler, clock, vars,
      Begin, Continue, Finish
<1>1. CASE row[job[w]] \in Settleable
  <2>1. TypeOK'
    <3>1. row' \in [Payment -> Status]
      BY <1>1, SMTT(20) DEF SettleClaim, Answer, Settleable
    <3>2. bound' \subseteq Payment
      BY <1>1, SMTT(20) DEF SettleClaim, Answer, Settleable
    <3>3. sub' \in [User -> Subscription]
      BY <1>1, SMTT(20) DEF SettleClaim, Answer, Settleable
    <3>4. order' \in [Payment -> Order]
      BY <1>1, SMTT(20) DEF SettleClaim, Answer, Settleable
    <3>5. charged' \in [Payment -> Nat]
      BY <1>1, SMTT(20) DEF SettleClaim, Answer, Settleable
    <3>6. given' \subseteq Payment
      BY <1>1, SMTT(20) DEF SettleClaim, Answer, Settleable
    <3>7. event' \in [Payment -> {"none", "due", "acked"}]
      BY <1>1, SMTT(20) DEF SettleClaim, Answer, Settleable
    <3>8. pc' \in [Worker -> Step]
      BY <1>1, SMTT(20) DEF SettleClaim, Answer, Settleable
    <3>9. job' \in [Worker -> Payment \union {NoPayment}]
      BY <1>1, SMTT(20) DEF SettleClaim, Answer, Settleable
    <3>10. \A v \in Worker : IF pc'[v] = "idle" THEN job'[v] = NoPayment
                                         ELSE job'[v] \in Payment
      BY <1>1, SMTT(20) DEF SettleClaim, Answer, Settleable
    <3>11. held' \in [Worker -> Nat \union {Forever}]
      BY <1>1, SMTT(20) DEF SettleClaim, Answer, Settleable
    <3>12. told' \subseteq Payment
      BY <1>1, SMTT(20) DEF SettleClaim, Answer, Settleable
    <3>13. grants' \in [Payment -> Nat]
      BY <1>1, SMTT(20) DEF SettleClaim, Answer, Settleable
    <3>14. now' \in Nat /\ crashes' \in Nat
      BY <1>1, SMTT(20) DEF SettleClaim, Answer, Settleable
    <3> QED BY <3>1, <3>2, <3>3, <3>4, <3>5, <3>6, <3>7, <3>8, <3>9, <3>10, <3>11, <3>12, <3>13, <3>14
  <2>5. Roles'
    BY <1>1, <2>1, SMTT(20) DEF SettleClaim, Answer, Settleable
  <2>6. Bound'
    BY <1>1, <2>1, SMTT(20) DEF SettleClaim, Answer, Settleable
  <2>7. Creation'
    BY <1>1, <2>1, SMTT(20) DEF SettleClaim, Answer, Settleable
  <2>8. Reported'
    BY <1>1, <2>1, SMTT(20) DEF SettleClaim, Answer, Settleable
  <2>3. Ticket'
    BY <1>1, <2>1, SMTT(30) DEF SettleClaim, Answer, Settleable
  <2>4. /\ GrantedAtMostOnce' /\ GrantedOnlyIfPaid'
        /\ SubscriptionIsBacked' /\ SucceededIsBeingGranted'
    BY <1>1, <2>1, SMTT(30) DEF SettleClaim, Answer, Settleable
  <2> QED BY <2>1, <2>3, <2>4, <2>5, <2>6, <2>7, <2>8
<1>2. CASE row[job[w]] \notin Settleable
  <2>1. TypeOK'
    <3>1. row' \in [Payment -> Status]
      BY <1>2, SMTT(20) DEF SettleClaim, Answer, Settleable
    <3>2. bound' \subseteq Payment
      BY <1>2, SMTT(20) DEF SettleClaim, Answer, Settleable
    <3>3. sub' \in [User -> Subscription]
      BY <1>2, SMTT(20) DEF SettleClaim, Answer, Settleable
    <3>4. order' \in [Payment -> Order]
      BY <1>2, SMTT(20) DEF SettleClaim, Answer, Settleable
    <3>5. charged' \in [Payment -> Nat]
      BY <1>2, SMTT(20) DEF SettleClaim, Answer, Settleable
    <3>6. given' \subseteq Payment
      BY <1>2, SMTT(20) DEF SettleClaim, Answer, Settleable
    <3>7. event' \in [Payment -> {"none", "due", "acked"}]
      BY <1>2, SMTT(20) DEF SettleClaim, Answer, Settleable
    <3>8. pc' \in [Worker -> Step]
      BY <1>2, SMTT(20) DEF SettleClaim, Answer, Settleable
    <3>9. job' \in [Worker -> Payment \union {NoPayment}]
      BY <1>2, SMTT(20) DEF SettleClaim, Answer, Settleable
    <3>10. \A v \in Worker : IF pc'[v] = "idle" THEN job'[v] = NoPayment
                                         ELSE job'[v] \in Payment
      BY <1>2, SMTT(20) DEF SettleClaim, Answer, Settleable
    <3>11. held' \in [Worker -> Nat \union {Forever}]
      BY <1>2, SMTT(20) DEF SettleClaim, Answer, Settleable
    <3>12. told' \subseteq Payment
      BY <1>2, SMTT(20) DEF SettleClaim, Answer, Settleable
    <3>13. grants' \in [Payment -> Nat]
      BY <1>2, SMTT(20) DEF SettleClaim, Answer, Settleable
    <3>14. now' \in Nat /\ crashes' \in Nat
      BY <1>2, SMTT(20) DEF SettleClaim, Answer, Settleable
    <3> QED BY <3>1, <3>2, <3>3, <3>4, <3>5, <3>6, <3>7, <3>8, <3>9, <3>10, <3>11, <3>12, <3>13, <3>14
  <2>5. Roles'
    BY <1>2, <2>1, SMTT(20) DEF SettleClaim, Answer, Settleable
  <2>6. Bound'
    BY <1>2, <2>1, SMTT(20) DEF SettleClaim, Answer, Settleable
  <2>7. Creation'
    <3>1. /\ \A v \in Worker \ {w} : pc'[v] = pc[v] /\ job'[v] = job[v]
          /\ pc'[w] = "idle" /\ job'[w] = NoPayment
      BY <1>2, SMTT(20) DEF SettleClaim, Answer, Settleable
    <3>2. UNCHANGED <<row, bound, order>>
      BY <1>2 DEF SettleClaim, Answer, Settleable
        <3>3. ASSUME NEW v \in Worker \ {w}, NEW x \in Worker \ {v}, pc[v] \in Creating
          PROVE  job'[x] # job'[v]
      BY <3>1, <3>3, SMTT(20)
    <3> HIDE DEF Creating, Unborn
    <3>4. ASSUME NEW v \in Worker, pc'[v] \in Creating
          PROVE  v # w
      BY <3>1, <3>4 DEF Creating, Unborn
    <3> QED BY <1>2, <3>1, <3>2, <3>3, <3>4, SMTT(20)
  <2>8. Reported'
    BY <1>2, <2>1, SMTT(20) DEF SettleClaim, Answer, Settleable
  <2>3. Ticket'
    BY <1>2, <2>1, SMTT(30) DEF SettleClaim, Answer, Settleable
  <2>4. /\ GrantedAtMostOnce' /\ GrantedOnlyIfPaid'
        /\ SubscriptionIsBacked' /\ SucceededIsBeingGranted'
    BY <1>2, <2>1, SMTT(30) DEF SettleClaim, Answer, Settleable
  <2> QED BY <2>1, <2>3, <2>4, <2>5, <2>6, <2>7, <2>8
<1> QED BY <1>1, <1>2 DEF SettleClaim, Answer, Settleable

\* capture starts: a succeeded row answers at once, any other goes to PayPal.
LEMMA PaypalCaptureKeeps == ASSUME IInv, NEW w \in Worker, NEW p \in Payment, PaypalCapture(w, p) PROVE IInv'
<1> USE DEF IInv, TypeOK, Roles, Bound, Creation, Reported, Ticket, GrantedAtMostOnce,
      GrantedOnlyIfPaid, SubscriptionIsBacked, SucceededIsBeingGranted,
      PayableOrderIsBound, Creating, Unborn, Upserting, Exact,
      Status, Order, Step, Subscription, rows, provider, handler, clock, vars,
      Begin, Continue, Finish
<1>1. CASE row[p] = "succeeded"
  <2>1. TypeOK'
    BY <1>1, SMTT(20) DEF PaypalCapture
  <2>5. Roles'
    BY <1>1, <2>1, SMTT(20) DEF PaypalCapture
  <2>6. Bound'
    BY <1>1, <2>1, SMTT(20) DEF PaypalCapture
  <2>7. Creation'
    BY <1>1, <2>1, SMTT(20) DEF PaypalCapture
  <2>8. Reported'
    BY <1>1, <2>1, SMTT(20) DEF PaypalCapture
  <2>3. Ticket'
    BY <1>1, <2>1, SMTT(30) DEF PaypalCapture
  <2>4. /\ GrantedAtMostOnce' /\ GrantedOnlyIfPaid'
        /\ SubscriptionIsBacked' /\ SucceededIsBeingGranted'
    BY <1>1, <2>1, SMTT(30) DEF PaypalCapture
  <2> QED BY <2>1, <2>3, <2>4, <2>5, <2>6, <2>7, <2>8
<1>2. CASE row[p] # "succeeded"
  <2>1. TypeOK'
    <3>1. row' \in [Payment -> Status]
      BY <1>2, SMTT(20) DEF PaypalCapture
    <3>2. bound' \subseteq Payment
      BY <1>2, SMTT(20) DEF PaypalCapture
    <3>3. sub' \in [User -> Subscription]
      BY <1>2, SMTT(20) DEF PaypalCapture
    <3>4. order' \in [Payment -> Order]
      BY <1>2, SMTT(20) DEF PaypalCapture
    <3>5. charged' \in [Payment -> Nat]
      BY <1>2, SMTT(20) DEF PaypalCapture
    <3>6. given' \subseteq Payment
      BY <1>2, SMTT(20) DEF PaypalCapture
    <3>7. event' \in [Payment -> {"none", "due", "acked"}]
      BY <1>2, SMTT(20) DEF PaypalCapture
    <3>8. pc' \in [Worker -> Step]
      BY <1>2, SMTT(20) DEF PaypalCapture
    <3>9. job' \in [Worker -> Payment \union {NoPayment}]
      BY <1>2, SMTT(20) DEF PaypalCapture
    <3>10. \A v \in Worker : IF pc'[v] = "idle" THEN job'[v] = NoPayment
                                         ELSE job'[v] \in Payment
      BY <1>2, SMTT(20) DEF PaypalCapture
    <3>11. held' \in [Worker -> Nat \union {Forever}]
      BY <1>2, SMTT(20) DEF PaypalCapture
    <3>12. told' \subseteq Payment
      BY <1>2, SMTT(20) DEF PaypalCapture
    <3>13. grants' \in [Payment -> Nat]
      BY <1>2, SMTT(20) DEF PaypalCapture
    <3>14. now' \in Nat /\ crashes' \in Nat
      BY <1>2, SMTT(20) DEF PaypalCapture
    <3> QED BY <3>1, <3>2, <3>3, <3>4, <3>5, <3>6, <3>7, <3>8, <3>9, <3>10, <3>11, <3>12, <3>13, <3>14
  <2>5. Roles'
    BY <1>2, <2>1, SMTT(20) DEF PaypalCapture
  <2>6. Bound'
    BY <1>2, <2>1, SMTT(20) DEF PaypalCapture
  <2>7. Creation'
    BY <1>2, <2>1, SMTT(20) DEF PaypalCapture
  <2>8. Reported'
    BY <1>2, <2>1, SMTT(20) DEF PaypalCapture
  <2>3. Ticket'
    BY <1>2, <2>1, SMTT(30) DEF PaypalCapture
  <2>4. /\ GrantedAtMostOnce' /\ GrantedOnlyIfPaid'
        /\ SubscriptionIsBacked' /\ SucceededIsBeingGranted'
    BY <1>2, <2>1, SMTT(30) DEF PaypalCapture
  <2> QED BY <2>1, <2>3, <2>4, <2>5, <2>6, <2>7, <2>8
<1> QED BY <1>1, <1>2 DEF PaypalCapture

\* confirm starts: a succeeded row answers at once, any other goes to Chapa.
LEMMA ChapaConfirmKeeps == ASSUME IInv, NEW w \in Worker, NEW p \in Payment, ChapaConfirm(w, p) PROVE IInv'
<1> USE DEF IInv, TypeOK, Roles, Bound, Creation, Reported, Ticket, GrantedAtMostOnce,
      GrantedOnlyIfPaid, SubscriptionIsBacked, SucceededIsBeingGranted,
      PayableOrderIsBound, Creating, Unborn, Upserting, Exact,
      Status, Order, Step, Subscription, rows, provider, handler, clock, vars,
      Begin, Continue, Finish
<1>1. CASE row[p] = "succeeded"
  <2>1. TypeOK'
    BY <1>1, SMTT(20) DEF ChapaConfirm
  <2>5. Roles'
    BY <1>1, <2>1, SMTT(20) DEF ChapaConfirm
  <2>6. Bound'
    BY <1>1, <2>1, SMTT(20) DEF ChapaConfirm
  <2>7. Creation'
    BY <1>1, <2>1, SMTT(20) DEF ChapaConfirm
  <2>8. Reported'
    BY <1>1, <2>1, SMTT(20) DEF ChapaConfirm
  <2>3. Ticket'
    BY <1>1, <2>1, SMTT(30) DEF ChapaConfirm
  <2>4. /\ GrantedAtMostOnce' /\ GrantedOnlyIfPaid'
        /\ SubscriptionIsBacked' /\ SucceededIsBeingGranted'
    BY <1>1, <2>1, SMTT(30) DEF ChapaConfirm
  <2> QED BY <2>1, <2>3, <2>4, <2>5, <2>6, <2>7, <2>8
<1>2. CASE row[p] # "succeeded"
  <2>1. TypeOK'
    <3>1. row' \in [Payment -> Status]
      BY <1>2, SMTT(20) DEF ChapaConfirm
    <3>2. bound' \subseteq Payment
      BY <1>2, SMTT(20) DEF ChapaConfirm
    <3>3. sub' \in [User -> Subscription]
      BY <1>2, SMTT(20) DEF ChapaConfirm
    <3>4. order' \in [Payment -> Order]
      BY <1>2, SMTT(20) DEF ChapaConfirm
    <3>5. charged' \in [Payment -> Nat]
      BY <1>2, SMTT(20) DEF ChapaConfirm
    <3>6. given' \subseteq Payment
      BY <1>2, SMTT(20) DEF ChapaConfirm
    <3>7. event' \in [Payment -> {"none", "due", "acked"}]
      BY <1>2, SMTT(20) DEF ChapaConfirm
    <3>8. pc' \in [Worker -> Step]
      BY <1>2, SMTT(20) DEF ChapaConfirm
    <3>9. job' \in [Worker -> Payment \union {NoPayment}]
      BY <1>2, SMTT(20) DEF ChapaConfirm
    <3>10. \A v \in Worker : IF pc'[v] = "idle" THEN job'[v] = NoPayment
                                         ELSE job'[v] \in Payment
      BY <1>2, SMTT(20) DEF ChapaConfirm
    <3>11. held' \in [Worker -> Nat \union {Forever}]
      BY <1>2, SMTT(20) DEF ChapaConfirm
    <3>12. told' \subseteq Payment
      BY <1>2, SMTT(20) DEF ChapaConfirm
    <3>13. grants' \in [Payment -> Nat]
      BY <1>2, SMTT(20) DEF ChapaConfirm
    <3>14. now' \in Nat /\ crashes' \in Nat
      BY <1>2, SMTT(20) DEF ChapaConfirm
    <3> QED BY <3>1, <3>2, <3>3, <3>4, <3>5, <3>6, <3>7, <3>8, <3>9, <3>10, <3>11, <3>12, <3>13, <3>14
  <2>5. Roles'
    BY <1>2, <2>1, SMTT(20) DEF ChapaConfirm
  <2>6. Bound'
    BY <1>2, <2>1, SMTT(20) DEF ChapaConfirm
  <2>7. Creation'
    <3>1. /\ \A v \in Worker \ {w} : pc'[v] = pc[v] /\ job'[v] = job[v]
          /\ pc'[w] = "verify" /\ job'[w] = p
      BY <1>2, SMTT(20) DEF ChapaConfirm
    <3>2. UNCHANGED <<row, bound, order>>
      BY <1>2 DEF ChapaConfirm
        <3> QED BY <1>2, <2>1, <3>1, <3>2, SMTT(20) DEF ChapaConfirm
  <2>8. Reported'
    BY <1>2, <2>1, SMTT(20) DEF ChapaConfirm
  <2>3. Ticket'
    BY <1>2, <2>1, SMTT(30) DEF ChapaConfirm
  <2>4. /\ GrantedAtMostOnce' /\ GrantedOnlyIfPaid'
        /\ SubscriptionIsBacked' /\ SucceededIsBeingGranted'
    BY <1>2, <2>1, SMTT(30) DEF ChapaConfirm
  <2> QED BY <2>1, <2>3, <2>4, <2>5, <2>6, <2>7, <2>8
<1> QED BY <1>1, <1>2 DEF ChapaConfirm

\* The new row is in the hands of this handler alone.
LEMMA PaypalCreateOrderKeeps == ASSUME IInv, NEW w \in Worker, NEW p \in Payment, PaypalCreateOrder(w, p) PROVE IInv'
<1> USE DEF IInv, TypeOK, Roles, Bound, Creation, Reported, Ticket, GrantedAtMostOnce,
      GrantedOnlyIfPaid, SubscriptionIsBacked, SucceededIsBeingGranted,
      PayableOrderIsBound, Creating, Unborn, Upserting, Exact,
      Status, Order, Step, Subscription, rows, provider, handler, clock, vars,
      Begin, Continue, Finish
<1>1. TypeOK'
  BY SMTT(20) DEF PaypalCreateOrder
<1>2. Roles'
  BY SMTT(20) DEF PaypalCreateOrder
<1>3. Bound'
  BY SMTT(20) DEF PaypalCreateOrder
<1>4. Creation'
  BY SMTT(20) DEF PaypalCreateOrder
<1>5. Reported'
  BY SMTT(20) DEF PaypalCreateOrder
<1>6. Ticket'
  BY SMTT(20) DEF PaypalCreateOrder
<1>7. GrantedAtMostOnce'
  BY SMTT(20) DEF PaypalCreateOrder
<1>8. GrantedOnlyIfPaid'
  BY SMTT(20) DEF PaypalCreateOrder
<1>9. SubscriptionIsBacked'
  BY SMTT(20) DEF PaypalCreateOrder
<1>10. SucceededIsBeingGranted'
  BY SMTT(20) DEF PaypalCreateOrder
<1> QED BY <1>1, <1>2, <1>3, <1>4, <1>5, <1>6, <1>7, <1>8, <1>9, <1>10

\* A free subscription is created for a user without one.
LEMMA SubscriptionMineKeeps == ASSUME IInv, NEW u \in User, SubscriptionMine(u) PROVE IInv'
<1> USE DEF IInv, TypeOK, Roles, Bound, Creation, Reported, Ticket, GrantedAtMostOnce,
      GrantedOnlyIfPaid, SubscriptionIsBacked, SucceededIsBeingGranted,
      PayableOrderIsBound, Creating, Unborn, Upserting, Exact,
      Status, Order, Step, Subscription, rows, provider, handler, clock, vars,
      Begin, Continue, Finish
<1>1. TypeOK'
  BY SMTT(20) DEF SubscriptionMine
<1>2. Roles'
  BY SMTT(20) DEF SubscriptionMine
<1>3. Bound'
  BY SMTT(20) DEF SubscriptionMine
<1>4. Creation'
  BY SMTT(20) DEF SubscriptionMine
<1>5. Reported'
  BY SMTT(20) DEF SubscriptionMine
<1>6. Ticket'
  BY SMTT(20) DEF SubscriptionMine
<1>7. GrantedAtMostOnce'
  BY SMTT(20) DEF SubscriptionMine
<1>8. GrantedOnlyIfPaid'
  BY SMTT(20) DEF SubscriptionMine
<1>9. SubscriptionIsBacked'
  BY SMTT(20) DEF SubscriptionMine
<1>10. SucceededIsBeingGranted'
  BY SMTT(20) DEF SubscriptionMine
<1> QED BY <1>1, <1>2, <1>3, <1>4, <1>5, <1>6, <1>7, <1>8, <1>9, <1>10

\* Leaving for the free plan keeps the payment that stood behind the last one.
LEMMA SubscriptionSetFreeKeeps == ASSUME IInv, NEW u \in User, SubscriptionSetFree(u) PROVE IInv'
<1> USE DEF IInv, TypeOK, Roles, Bound, Creation, Reported, Ticket, GrantedAtMostOnce,
      GrantedOnlyIfPaid, SubscriptionIsBacked, SucceededIsBeingGranted,
      PayableOrderIsBound, Creating, Unborn, Upserting, Exact,
      Status, Order, Step, Subscription, rows, provider, handler, clock, vars,
      Begin, Continue, Finish
<1>1. TypeOK'
  BY SMTT(20) DEF SubscriptionSetFree
<1>2. Roles'
  BY SMTT(20) DEF SubscriptionSetFree
<1>3. Bound'
  BY SMTT(20) DEF SubscriptionSetFree
<1>4. Creation'
  BY SMTT(20) DEF SubscriptionSetFree
<1>5. Reported'
  BY SMTT(20) DEF SubscriptionSetFree
<1>6. Ticket'
  BY SMTT(20) DEF SubscriptionSetFree
<1>7. GrantedAtMostOnce'
  BY SMTT(20) DEF SubscriptionSetFree
<1>8. GrantedOnlyIfPaid'
  BY SMTT(20) DEF SubscriptionSetFree
<1>9. SubscriptionIsBacked'
  BY SMTT(20) DEF SubscriptionSetFree
<1>10. SucceededIsBeingGranted'
  BY SMTT(20) DEF SubscriptionSetFree
<1> QED BY <1>1, <1>2, <1>3, <1>4, <1>5, <1>6, <1>7, <1>8, <1>9, <1>10

\* The invariant is inductive: one step per action.
THEOREM InvariantIsInductive == IInv /\ [Next]_vars => IInv'
<1> SUFFICES ASSUME IInv, [Next]_vars PROVE IInv'
  OBVIOUS
<1>15. ASSUME NEW w \in Worker, PaypalMarkFailed(w) PROVE IInv'
  BY <1>15, PaypalMarkFailedKeeps
<1>16. ASSUME NEW w \in Worker, SettleRead(w) PROVE IInv'
  BY <1>16, SettleReadKeeps
<1>17. ASSUME NEW w \in Worker, SettleReject(w) PROVE IInv'
  BY <1>17, SettleRejectKeeps
<1>18. ASSUME NEW w \in Worker, SettleClaim(w) PROVE IInv'
  BY <1>18, SettleClaimKeeps
<1>24. ASSUME NEW w \in Worker, NEW p \in Payment, ChapaConfirm(w, p) PROVE IInv'
  BY <1>24, ChapaConfirmKeeps
<1>27. ASSUME NEW w \in Worker, NEW p \in Payment, PaypalCreateOrder(w, p) PROVE IInv'
  BY <1>27, PaypalCreateOrderKeeps
<1>28. ASSUME NEW w \in Worker, NEW p \in Payment, PaypalCapture(w, p) PROVE IInv'
  BY <1>28, PaypalCaptureKeeps
<1>35. ASSUME NEW u \in User, SubscriptionMine(u) PROVE IInv'
  BY <1>35, SubscriptionMineKeeps
<1>36. ASSUME NEW u \in User, SubscriptionSetFree(u) PROVE IInv'
  BY <1>36, SubscriptionSetFreeKeeps
<1> USE DEF IInv, TypeOK, Roles, Bound, Creation, Reported, Ticket, GrantedAtMostOnce,
      GrantedOnlyIfPaid, SubscriptionIsBacked, SucceededIsBeingGranted,
      PayableOrderIsBound, Creating, Unborn, Upserting, Exact,
      Status, Order, Step, Subscription, rows, provider, handler, clock, vars,
      Begin, Continue, Finish
<1>1. ASSUME NEW w \in Worker, ChapaInitialized(w) PROVE IInv'
  BY <1>1, SMTT(30) DEF ChapaInitialized
<1>2. ASSUME NEW w \in Worker, ChapaInitializeFails(w) PROVE IInv'
  BY <1>2, SMTT(30) DEF ChapaInitializeFails
<1>3. ASSUME NEW w \in Worker, ChapaVerified(w) PROVE IInv'
  BY <1>3, SMTT(30) DEF ChapaVerified
<1>4. ASSUME NEW w \in Worker, ChapaNotVerified(w) PROVE IInv'
  BY <1>4, SMTT(30) DEF ChapaNotVerified
<1>5. ASSUME NEW w \in Worker, StripeSession(w) PROVE IInv'
  BY <1>5, SMTT(30) DEF StripeSession
<1>6. ASSUME NEW w \in Worker, StripeRow(w) PROVE IInv'
  BY <1>6, SMTT(30) DEF StripeRow
<1>7. ASSUME NEW w \in Worker, PaypalOrderCreated(w) PROVE IInv'
  BY <1>7, SMTT(30) DEF PaypalOrderCreated
<1>8. ASSUME NEW w \in Worker, PaypalBindOrder(w) PROVE IInv'
  BY <1>8, SMTT(30) DEF PaypalBindOrder
<1>9. ASSUME NEW w \in Worker, PaypalCreateThrows(w) PROVE IInv'
  BY <1>9, SMTT(30) DEF PaypalCreateThrows
<1>10. ASSUME NEW w \in Worker, PaypalCreateFailed(w) PROVE IInv'
  BY <1>10, SMTT(30) DEF PaypalCreateFailed
<1>11. ASSUME NEW w \in Worker, PaypalCaptured(w) PROVE IInv'
  BY <1>11, SMTT(30) DEF PaypalCaptured
<1>12. ASSUME NEW w \in Worker, PaypalHeld(w) PROVE IInv'
  BY <1>12, SMTT(30) DEF PaypalHeld
<1>13. ASSUME NEW w \in Worker, PaypalDeclined(w) PROVE IInv'
  <2>1. CASE UNCHANGED order BY <1>13, <2>1, SMTT(30) DEF PaypalDeclined
  <2>2. CASE order[job[w]] = "approved" /\ order' = [order EXCEPT ![job[w]] = "open"]
        BY <1>13, <2>2, SMTT(30) DEF PaypalDeclined
  <2> QED BY <1>13, <2>1, <2>2 DEF PaypalDeclined
<1>14. ASSUME NEW w \in Worker, PaypalUnavailable(w) PROVE IInv'
  BY <1>14, SMTT(30) DEF PaypalUnavailable
<1>19. ASSUME NEW w \in Worker, SettleUpsert(w) PROVE IInv'
  BY <1>19, SMTT(30) DEF SettleUpsert, Answer, Grant
<1>20. ASSUME NEW w \in Worker, PilotCreate(w) PROVE IInv'
  BY <1>20, SMTT(30) DEF PilotCreate
<1>21. ASSUME NEW w \in Worker, PilotUpsert(w) PROVE IInv'
  BY <1>21, SMTT(30) DEF PilotUpsert, Grant
<1>22. ASSUME NEW w \in Worker, Abort(w) PROVE IInv'
  BY <1>22, SMTT(30) DEF Abort
<1>23. ASSUME NEW w \in Worker, NEW p \in Payment, ChapaCheckout(w, p) PROVE IInv'
  BY <1>23, SMTT(30) DEF ChapaCheckout
<1>25. ASSUME NEW w \in Worker, NEW p \in Payment, StripeCheckout(w, p) PROVE IInv'
  BY <1>25, SMTT(30) DEF StripeCheckout
<1>26. ASSUME NEW w \in Worker, NEW p \in Payment, StripeWebhook(w, p) PROVE IInv'
  BY <1>26, SMTT(30) DEF StripeWebhook
<1>29. ASSUME NEW w \in Worker, NEW p \in Payment, PilotActivate(w, p) PROVE IInv'
  BY <1>29, SMTT(30) DEF PilotActivate
<1>30. ASSUME NEW p \in Payment, PaypalCancel(p) PROVE IInv'
  BY <1>30, SMTT(30) DEF PaypalCancel
<1>31. ASSUME NEW p \in Payment, BuyerPays(p) PROVE IInv'
  BY <1>31, SMTT(30) DEF BuyerPays
<1>32. ASSUME NEW p \in Payment, BuyerPaysLater(p) PROVE IInv'
  BY <1>32, SMTT(30) DEF BuyerPaysLater
<1>33. ASSUME NEW p \in Payment, BuyerApproves(p) PROVE IInv'
  BY <1>33, SMTT(30) DEF BuyerApproves
<1>34. ASSUME NEW p \in Payment, FundsClear(p) PROVE IInv'
  BY <1>34, SMTT(30) DEF FundsClear
<1>37. ASSUME NEW u \in User, SubscriptionCancel(u) PROVE IInv'
  BY <1>37, SMTT(30) DEF SubscriptionCancel
<1>38. ASSUME Tick PROVE IInv'
  BY <1>38, SMTT(30) DEF Tick
<1>39. CASE UNCHANGED vars
  BY <1>39
<1> HIDE DEF IInv, TypeOK, Roles, Bound, Creation, Reported, Ticket, GrantedAtMostOnce,
      GrantedOnlyIfPaid, SubscriptionIsBacked, SucceededIsBeingGranted,
      PayableOrderIsBound, Creating, Unborn, Upserting, Exact,
      Status, Order, Step, Subscription, rows, provider, handler, clock, vars,
      Begin, Continue, Finish
<1> QED
  BY <1>1, <1>2, <1>3, <1>4, <1>5, <1>6, <1>7, <1>8, <1>9, <1>10, <1>11,
     <1>12, <1>13, <1>14, <1>15, <1>16, <1>17, <1>18, <1>19, <1>20,
     <1>21, <1>22, <1>23, <1>24, <1>25, <1>26, <1>27, <1>28, <1>29,
     <1>30, <1>31, <1>32, <1>33, <1>34, <1>35, <1>36, <1>37, <1>38,
     <1>39
  DEF Next, Proceed, Request, World

\* The first state satisfies it.
LEMMA InitEstablishesInvariant == Init => IInv
  BY SMTT(30) DEF Init, NoSubscription, IInv, TypeOK, Roles, Bound, Creation, Reported,
      Ticket, GrantedAtMostOnce, GrantedOnlyIfPaid, SubscriptionIsBacked,
      SucceededIsBeingGranted, PayableOrderIsBound, Creating, Unborn, Upserting,
      Exact, Status, Order, Step, Subscription

\* The inductive invariant holds throughout.
THEOREM InvariantHolds == Spec => []IInv
  BY InitEstablishesInvariant, InvariantIsInductive, PTL DEF Spec

\* settle grants each payment at most once, and only for the exact money,
\* however many reports race, repeat or are cut short, and a subscription that
\* names a payment names a succeeded one of its own user.
THEOREM EveryGrantIsSound == Spec => []GrantsAreSound
  BY InvariantHolds, PTL DEF IInv, GrantsAreSound

\* Every variable keeps its type.
THEOREM TypesHold == Spec => []TypeOK
  BY InvariantHolds, PTL DEF IInv

\* Without an aborted handler no succeeded payment is left without its grant.
THEOREM OnlyAbortsLoseGrants == Spec => []SucceededIsBeingGranted
  BY InvariantHolds, PTL DEF IInv

\* No order can be paid for before the row that settles it is bound to it.
THEOREM PayableOrdersAreBound == Spec => []PayableOrderIsBound
  BY InvariantHolds, PTL DEF IInv, Bound

\* No late cancel, decline, failed update or mismatch moves a succeeded row.
THEOREM SucceededRowsAreFinal == Spec => SucceededIsFinal
<1>1. IInv /\ [Next]_vars =>
        [\A p \in Payment : row[p] = "succeeded" => row'[p] = "succeeded"]_row
  <2> SUFFICES ASSUME IInv, [Next]_vars, NEW p \in Payment, row[p] = "succeeded"
               PROVE  row'[p] = "succeeded"
    OBVIOUS
  <2> USE DEF IInv, TypeOK, Creation, Creating, Unborn, rows, Settleable
  <2>1. CASE \E w \in Worker : Proceed(w) \/ Abort(w)
    BY <2>1, SMTT(60) DEF Proceed, ChapaInitialized, ChapaInitializeFails, ChapaVerified,
       ChapaNotVerified, StripeSession, StripeRow, PaypalOrderCreated, PaypalBindOrder,
       PaypalCreateThrows, PaypalCreateFailed, PaypalCaptured, PaypalHeld,
       PaypalDeclined, PaypalUnavailable, PaypalMarkFailed, SettleRead, SettleReject,
       SettleClaim, SettleUpsert, PilotCreate, PilotUpsert, Abort, FailIfSettleable
  <2>2. CASE \E w \in Worker, q \in Payment : Request(w, q)
    BY <2>2, SMTT(30) DEF Request, ChapaCheckout, ChapaConfirm, StripeCheckout,
       StripeWebhook, PaypalCreateOrder, PaypalCapture, PilotActivate
  <2>3. CASE \E q \in Payment : World(q)
    BY <2>3, SMTT(30) DEF World, PaypalCancel, BuyerPays, BuyerPaysLater,
       BuyerApproves, FundsClear
  <2>4. CASE \/ \E u \in User : \/ SubscriptionMine(u) \/ SubscriptionSetFree(u)
                               \/ SubscriptionCancel(u)
             \/ Tick \/ UNCHANGED vars
    BY <2>4 DEF SubscriptionMine, SubscriptionSetFree, SubscriptionCancel, Tick, vars
  <2> QED BY <2>1, <2>2, <2>3, <2>4 DEF Next
<1> QED BY <1>1, InvariantHolds, PTL DEF Spec, SucceededIsFinal

-----------------------------------------------------------------------------
(* The implementation of Entitlement *)

\* One step moves the money of at most one payment q.
MoneyOf(q) == \A p \in Payment \ {q} : (p \in PaidPayments)' <=> p \in PaidPayments

\* Such a step pays q, or nothing the abstract specification sees.
LEMMA MoneyStep ==
  ASSUME NEW q \in Payment, MoneyOf(q), q \in PaidPayments => (q \in PaidPayments)',
         UNCHANGED <<sub, grants>>
  PROVE  [Promise!Next]_(Promise!vars)
<1>1. UNCHANGED <<GrantedPayments, Holder>>
  BY DEF GrantedPayments, Holder
<1>2. PaidPayments \subseteq Payment /\ PaidPayments' \subseteq Payment
  BY DEF PaidPayments
<1>3. CASE (q \in PaidPayments)' <=> q \in PaidPayments
  <2>1. PaidPayments' = PaidPayments
    BY <1>2, <1>3 DEF MoneyOf
  <2> QED BY <1>1, <2>1 DEF Promise!vars
<1>4. CASE (q \in PaidPayments)' /\ q \notin PaidPayments
  <2>1. PaidPayments' = PaidPayments \union {q}
    BY <1>2, <1>4 DEF MoneyOf
  <2> QED BY <1>1, <1>4, <2>1 DEF Promise!Next, Promise!Pay
<1> QED BY <1>3, <1>4

\* A step that moves no money, grants nothing and leaves the subscriptions alone
\* is a stutter.
LEMMA NoMoneyStep ==
  ASSUME UNCHANGED <<sub, grants>>,
         \A p \in Payment : (p \in PaidPayments)' <=> p \in PaidPayments
  PROVE  [Promise!Next]_(Promise!vars)
<1>1. UNCHANGED <<GrantedPayments, Holder>>
  BY DEF GrantedPayments, Holder
<1>2. PaidPayments' = PaidPayments
  BY DEF PaidPayments
<1> QED BY <1>1, <1>2 DEF Promise!vars

\* The upsert behind a ticket is the abstract grant.
LEMMA GrantStep ==
  ASSUME IInv, IInv', NEW w \in Worker, NEW until, Upserting(w), Grant(w, until),
         UNCHANGED <<row, order, charged>>
  PROVE  [Promise!Next]_(Promise!vars)
<1> DEFINE p == job[w]
<1>1. p \in Payment /\ Owner[p] \in User /\ Sells[p] \in Plan
  BY DEF IInv, TypeOK, Upserting
<1>2. grants' = [grants EXCEPT ![p] = grants[p] + 1] /\ grants[p] = 0
  BY DEF Grant, IInv, Ticket
<1>3. GrantedPayments' = GrantedPayments \union {p} /\ p \notin GrantedPayments
  BY <1>1, <1>2 DEF GrantedPayments, IInv, TypeOK
<1>4. PaidPayments' = PaidPayments
  BY DEF PaidPayments, Exact
<1>5. p \in PaidPayments
  BY <1>1 DEF IInv, Ticket, Roles, Reported, Upserting, PaidPayments
<1>6. sub' = [sub EXCEPT ![Owner[p]] =
                [plan |-> Sells[p], status |-> "active", by |-> p, renewsAt |-> until]]
  BY DEF Grant
<1>7. Holder' = [Holder EXCEPT ![Owner[p]] = p]
  BY <1>1, <1>6 DEF Holder, IInv, TypeOK
<1> QED BY <1>1, <1>3, <1>4, <1>5, <1>7 DEF Promise!Next, Promise!Grant

\* A subscription that is cancelled or freed is given up.
LEMMA GiveUpStep ==
  ASSUME IInv, NEW u \in User, NEW s, sub' = [sub EXCEPT ![u] = s],
         s.status # "active" \/ s.plan = "free",
         UNCHANGED <<row, order, charged, grants>>
  PROVE  [Promise!Next]_(Promise!vars)
<1>1. UNCHANGED <<PaidPayments, GrantedPayments>>
  BY DEF PaidPayments, GrantedPayments, Exact
<1>2. Holder' = [Holder EXCEPT ![u] = NoPayment]
  BY DEF Holder, IInv, TypeOK
<1> QED BY <1>1, <1>2 DEF Promise!Next, Promise!GiveUp

\* Each action of Payments is a step of Entitlement, or no step of it at all.
LEMMA StepImplementsStep ==
  ASSUME IInv, IInv', [Next]_vars PROVE [Promise!Next]_(Promise!vars)
<1> USE DEF rows, provider, handler, clock, IInv, TypeOK, PaidPayments, Exact
<1>1. ASSUME NEW w \in Worker, ChapaInitialized(w) PROVE [Promise!Next]_(Promise!vars)
  <2>1. PICK q \in Payment : q = job[w]
    BY <1>1 DEF ChapaInitialized
  <2>2. MoneyOf(q) /\ UNCHANGED <<sub, grants>>
    BY <1>1, <2>1 DEF ChapaInitialized, MoneyOf
  <2>3. q \in PaidPayments => (q \in PaidPayments)'
    BY <1>1, <2>1, SMTT(20) DEF ChapaInitialized, Roles, Bound, Creation, Creating, Unborn,
                             PayableOrderIsBound
  <2> HIDE DEF PaidPayments, Exact, IInv, TypeOK
  <2> QED BY <2>2, <2>3, MoneyStep
<1>2. ASSUME NEW w \in Worker, ChapaInitializeFails(w) PROVE [Promise!Next]_(Promise!vars)
  <2>1. UNCHANGED <<sub, grants>>
    BY <1>2 DEF ChapaInitializeFails
  <2>2. \A q \in Payment : (q \in PaidPayments)' <=> q \in PaidPayments
    BY <1>2 DEF ChapaInitializeFails, Roles, Bound, Creation, Creating, Unborn
  <2> QED BY <2>1, <2>2, NoMoneyStep
<1>3. ASSUME NEW w \in Worker, ChapaVerified(w) PROVE [Promise!Next]_(Promise!vars)
  <2>1. UNCHANGED <<sub, grants>>
    BY <1>3 DEF ChapaVerified
  <2>2. \A q \in Payment : (q \in PaidPayments)' <=> q \in PaidPayments
    BY <1>3 DEF ChapaVerified, Roles, Bound, Creation, Creating, Unborn
  <2> QED BY <2>1, <2>2, NoMoneyStep
<1>4. ASSUME NEW w \in Worker, ChapaNotVerified(w) PROVE [Promise!Next]_(Promise!vars)
  <2>1. UNCHANGED <<sub, grants>>
    BY <1>4 DEF ChapaNotVerified
  <2>2. \A q \in Payment : (q \in PaidPayments)' <=> q \in PaidPayments
    BY <1>4 DEF ChapaNotVerified, Roles, Bound, Creation, Creating, Unborn
  <2> QED BY <2>1, <2>2, NoMoneyStep
<1>5. ASSUME NEW w \in Worker, StripeSession(w) PROVE [Promise!Next]_(Promise!vars)
  <2>1. PICK q \in Payment : q = job[w]
    BY <1>5 DEF StripeSession
  <2>2. MoneyOf(q) /\ UNCHANGED <<sub, grants>>
    BY <1>5, <2>1 DEF StripeSession, MoneyOf
  <2>3. q \in PaidPayments => (q \in PaidPayments)'
    BY <1>5, <2>1, SMTT(20) DEF StripeSession, Roles, Bound, Creation, Creating, Unborn,
                             PayableOrderIsBound
  <2> HIDE DEF PaidPayments, Exact, IInv, TypeOK
  <2> QED BY <2>2, <2>3, MoneyStep
<1>6. ASSUME NEW w \in Worker, StripeRow(w) PROVE [Promise!Next]_(Promise!vars)
  <2>1. UNCHANGED <<sub, grants>>
    BY <1>6 DEF StripeRow
  <2>2. \A q \in Payment : (q \in PaidPayments)' <=> q \in PaidPayments
    BY <1>6 DEF StripeRow, Roles, Bound, Creation, Creating, Unborn
  <2> QED BY <2>1, <2>2, NoMoneyStep
<1>7. ASSUME NEW w \in Worker, PaypalOrderCreated(w) PROVE [Promise!Next]_(Promise!vars)
  <2>1. PICK q \in Payment : q = job[w]
    BY <1>7 DEF PaypalOrderCreated
  <2>2. MoneyOf(q) /\ UNCHANGED <<sub, grants>>
    BY <1>7, <2>1 DEF PaypalOrderCreated, MoneyOf
  <2>3. q \in PaidPayments => (q \in PaidPayments)'
    BY <1>7, <2>1, SMTT(20) DEF PaypalOrderCreated, Roles, Bound, Creation, Creating, Unborn,
                             PayableOrderIsBound
  <2> HIDE DEF PaidPayments, Exact, IInv, TypeOK
  <2> QED BY <2>2, <2>3, MoneyStep
<1>8. ASSUME NEW w \in Worker, PaypalBindOrder(w) PROVE [Promise!Next]_(Promise!vars)
  <2>1. UNCHANGED <<sub, grants>>
    BY <1>8 DEF PaypalBindOrder
  <2>2. \A q \in Payment : (q \in PaidPayments)' <=> q \in PaidPayments
    BY <1>8 DEF PaypalBindOrder, Roles, Bound, Creation, Creating, Unborn
  <2> QED BY <2>1, <2>2, NoMoneyStep
<1>9. ASSUME NEW w \in Worker, PaypalCreateThrows(w) PROVE [Promise!Next]_(Promise!vars)
  <2>1. UNCHANGED <<sub, grants>>
    BY <1>9 DEF PaypalCreateThrows
  <2>2. \A q \in Payment : (q \in PaidPayments)' <=> q \in PaidPayments
    BY <1>9 DEF PaypalCreateThrows, Roles, Bound, Creation, Creating, Unborn
  <2> QED BY <2>1, <2>2, NoMoneyStep
<1>10. ASSUME NEW w \in Worker, PaypalCreateFailed(w) PROVE [Promise!Next]_(Promise!vars)
  <2>1. UNCHANGED <<sub, grants>>
    BY <1>10 DEF PaypalCreateFailed
  <2>2. \A q \in Payment : (q \in PaidPayments)' <=> q \in PaidPayments
    BY <1>10 DEF PaypalCreateFailed, Roles, Bound, Creation, Creating, Unborn
  <2> QED BY <2>1, <2>2, NoMoneyStep
<1>11. ASSUME NEW w \in Worker, PaypalCaptured(w) PROVE [Promise!Next]_(Promise!vars)
  <2>1. PICK q \in Payment : q = job[w]
    BY <1>11 DEF PaypalCaptured
  <2>2. MoneyOf(q) /\ UNCHANGED <<sub, grants>>
    BY <1>11, <2>1 DEF PaypalCaptured, MoneyOf
  <2>3. q \in PaidPayments => (q \in PaidPayments)'
    BY <1>11, <2>1, SMTT(20) DEF PaypalCaptured, Roles, Bound, Creation, Creating, Unborn,
                             PayableOrderIsBound
  <2> HIDE DEF PaidPayments, Exact, IInv, TypeOK
  <2> QED BY <2>2, <2>3, MoneyStep
<1>12. ASSUME NEW w \in Worker, PaypalHeld(w) PROVE [Promise!Next]_(Promise!vars)
  <2>1. PICK q \in Payment : q = job[w]
    BY <1>12 DEF PaypalHeld
  <2>2. MoneyOf(q) /\ UNCHANGED <<sub, grants>>
    BY <1>12, <2>1 DEF PaypalHeld, MoneyOf
  <2>3. q \in PaidPayments => (q \in PaidPayments)'
    BY <1>12, <2>1, SMTT(20) DEF PaypalHeld, Roles, Bound, Creation, Creating, Unborn,
                             PayableOrderIsBound
  <2> HIDE DEF PaidPayments, Exact, IInv, TypeOK
  <2> QED BY <2>2, <2>3, MoneyStep
<1>13. ASSUME NEW w \in Worker, PaypalDeclined(w) PROVE [Promise!Next]_(Promise!vars)
  <2>1. PICK q \in Payment : q = job[w]
    BY <1>13 DEF PaypalDeclined
  <2>2. MoneyOf(q) /\ UNCHANGED <<sub, grants>>
    BY <1>13, <2>1 DEF PaypalDeclined, MoneyOf
  <2>3. q \in PaidPayments => (q \in PaidPayments)'
    BY <1>13, <2>1, SMTT(20) DEF PaypalDeclined, Roles, Bound, Creation, Creating, Unborn,
                             PayableOrderIsBound
  <2> HIDE DEF PaidPayments, Exact, IInv, TypeOK
  <2> QED BY <2>2, <2>3, MoneyStep
<1>14. ASSUME NEW w \in Worker, PaypalUnavailable(w) PROVE [Promise!Next]_(Promise!vars)
  <2>1. PICK q \in Payment : q = job[w]
    BY <1>14 DEF PaypalUnavailable
  <2>2. MoneyOf(q) /\ UNCHANGED <<sub, grants>>
    BY <1>14, <2>1 DEF PaypalUnavailable, MoneyOf
  <2>3. q \in PaidPayments => (q \in PaidPayments)'
    BY <1>14, <2>1, SMTT(20) DEF PaypalUnavailable, Roles, Bound, Creation, Creating, Unborn,
                             PayableOrderIsBound
  <2> HIDE DEF PaidPayments, Exact, IInv, TypeOK
  <2> QED BY <2>2, <2>3, MoneyStep
<1>15. ASSUME NEW w \in Worker, PaypalMarkFailed(w) PROVE [Promise!Next]_(Promise!vars)
  <2>1. UNCHANGED <<sub, grants>>
    BY <1>15 DEF PaypalMarkFailed
  <2>2. \A q \in Payment : (q \in PaidPayments)' <=> q \in PaidPayments
    BY <1>15 DEF PaypalMarkFailed, FailIfSettleable, Settleable, Roles, Bound, Creation, Creating, Unborn
  <2> QED BY <2>1, <2>2, NoMoneyStep
<1>16. ASSUME NEW w \in Worker, SettleRead(w) PROVE [Promise!Next]_(Promise!vars)
  <2>1. UNCHANGED <<sub, grants>>
    BY <1>16 DEF SettleRead
  <2>2. \A q \in Payment : (q \in PaidPayments)' <=> q \in PaidPayments
    BY <1>16 DEF SettleRead, Answer, Roles, Bound, Creation, Creating, Unborn
  <2> QED BY <2>1, <2>2, NoMoneyStep
<1>17. ASSUME NEW w \in Worker, SettleReject(w) PROVE [Promise!Next]_(Promise!vars)
  <2>1. UNCHANGED <<sub, grants>>
    BY <1>17 DEF SettleReject
  <2>2. \A q \in Payment : (q \in PaidPayments)' <=> q \in PaidPayments
    BY <1>17 DEF SettleReject, Answer, FailIfSettleable, Settleable, Roles, Bound, Creation, Creating, Unborn
  <2> QED BY <2>1, <2>2, NoMoneyStep
<1>18. ASSUME NEW w \in Worker, SettleClaim(w) PROVE [Promise!Next]_(Promise!vars)
  <2>1. UNCHANGED <<sub, grants>>
    BY <1>18 DEF SettleClaim
  <2>2. \A q \in Payment : (q \in PaidPayments)' <=> q \in PaidPayments
    BY <1>18 DEF SettleClaim, Answer, Roles, Bound, Creation, Creating, Unborn
  <2> QED BY <2>1, <2>2, NoMoneyStep
<1>19. ASSUME NEW w \in Worker, SettleUpsert(w) PROVE [Promise!Next]_(Promise!vars)
  <2>1. Upserting(w) /\ Grant(w, now + Period) /\ UNCHANGED <<row, order, charged>>
    BY <1>19 DEF SettleUpsert, Upserting
  <2> QED BY <2>1, GrantStep
<1>20. ASSUME NEW w \in Worker, PilotCreate(w) PROVE [Promise!Next]_(Promise!vars)
  <2>1. PICK q \in Payment : q = job[w]
    BY <1>20 DEF PilotCreate
  <2>2. MoneyOf(q) /\ UNCHANGED <<sub, grants>>
    BY <1>20, <2>1 DEF PilotCreate, MoneyOf
  <2>3. q \in PaidPayments => (q \in PaidPayments)'
    BY <1>20, <2>1, SMTT(20) DEF PilotCreate, Roles, Bound, Creation, Creating, Unborn,
                             PayableOrderIsBound
  <2> HIDE DEF PaidPayments, Exact, IInv, TypeOK
  <2> QED BY <2>2, <2>3, MoneyStep
<1>21. ASSUME NEW w \in Worker, PilotUpsert(w) PROVE [Promise!Next]_(Promise!vars)
  <2>1. Upserting(w) /\ Grant(w, held[w]) /\ UNCHANGED <<row, order, charged>>
    BY <1>21 DEF PilotUpsert, Upserting
  <2> QED BY <2>1, GrantStep
<1>22. ASSUME NEW w \in Worker, Abort(w) PROVE [Promise!Next]_(Promise!vars)
  <2>1. UNCHANGED <<sub, grants>>
    BY <1>22 DEF Abort
  <2>2. \A q \in Payment : (q \in PaidPayments)' <=> q \in PaidPayments
    BY <1>22 DEF Abort, Roles, Bound, Creation, Creating, Unborn
  <2> QED BY <2>1, <2>2, NoMoneyStep
<1>23. ASSUME NEW w \in Worker, NEW p \in Payment, ChapaCheckout(w, p) PROVE [Promise!Next]_(Promise!vars)
  <2>1. UNCHANGED <<sub, grants>>
    BY <1>23 DEF ChapaCheckout
  <2>2. \A q \in Payment : (q \in PaidPayments)' <=> q \in PaidPayments
    BY <1>23 DEF ChapaCheckout, Roles, Bound, Creation, Creating, Unborn
  <2> QED BY <2>1, <2>2, NoMoneyStep
<1>24. ASSUME NEW w \in Worker, NEW p \in Payment, ChapaConfirm(w, p) PROVE [Promise!Next]_(Promise!vars)
  <2>1. UNCHANGED <<sub, grants>>
    BY <1>24 DEF ChapaConfirm
  <2>2. \A q \in Payment : (q \in PaidPayments)' <=> q \in PaidPayments
    BY <1>24 DEF ChapaConfirm, Roles, Bound, Creation, Creating, Unborn
  <2> QED BY <2>1, <2>2, NoMoneyStep
<1>25. ASSUME NEW w \in Worker, NEW p \in Payment, StripeCheckout(w, p) PROVE [Promise!Next]_(Promise!vars)
  <2>1. UNCHANGED <<sub, grants>>
    BY <1>25 DEF StripeCheckout
  <2>2. \A q \in Payment : (q \in PaidPayments)' <=> q \in PaidPayments
    BY <1>25 DEF StripeCheckout, Roles, Bound, Creation, Creating, Unborn
  <2> QED BY <2>1, <2>2, NoMoneyStep
<1>26. ASSUME NEW w \in Worker, NEW p \in Payment, StripeWebhook(w, p) PROVE [Promise!Next]_(Promise!vars)
  <2>1. UNCHANGED <<sub, grants>>
    BY <1>26 DEF StripeWebhook
  <2>2. \A q \in Payment : (q \in PaidPayments)' <=> q \in PaidPayments
    BY <1>26 DEF StripeWebhook, Roles, Bound, Creation, Creating, Unborn
  <2> QED BY <2>1, <2>2, NoMoneyStep
<1>27. ASSUME NEW w \in Worker, NEW p \in Payment, PaypalCreateOrder(w, p) PROVE [Promise!Next]_(Promise!vars)
  <2>1. UNCHANGED <<sub, grants>>
    BY <1>27 DEF PaypalCreateOrder
  <2>2. \A q \in Payment : (q \in PaidPayments)' <=> q \in PaidPayments
    BY <1>27 DEF PaypalCreateOrder, Roles, Bound, Creation, Creating, Unborn
  <2> QED BY <2>1, <2>2, NoMoneyStep
<1>28. ASSUME NEW w \in Worker, NEW p \in Payment, PaypalCapture(w, p) PROVE [Promise!Next]_(Promise!vars)
  <2>1. UNCHANGED <<sub, grants>>
    BY <1>28 DEF PaypalCapture
  <2>2. \A q \in Payment : (q \in PaidPayments)' <=> q \in PaidPayments
    BY <1>28 DEF PaypalCapture, Roles, Bound, Creation, Creating, Unborn
  <2> QED BY <2>1, <2>2, NoMoneyStep
<1>29. ASSUME NEW w \in Worker, NEW p \in Payment, PilotActivate(w, p) PROVE [Promise!Next]_(Promise!vars)
  <2>1. UNCHANGED <<sub, grants>>
    BY <1>29 DEF PilotActivate
  <2>2. \A q \in Payment : (q \in PaidPayments)' <=> q \in PaidPayments
    BY <1>29 DEF PilotActivate, Roles, Bound, Creation, Creating, Unborn
  <2> QED BY <2>1, <2>2, NoMoneyStep
<1>30. ASSUME NEW p \in Payment, PaypalCancel(p) PROVE [Promise!Next]_(Promise!vars)
  <2>1. UNCHANGED <<sub, grants>>
    BY <1>30 DEF PaypalCancel
  <2>2. \A q \in Payment : (q \in PaidPayments)' <=> q \in PaidPayments
    BY <1>30 DEF PaypalCancel, Roles, Bound, Creation, Creating, Unborn
  <2> QED BY <2>1, <2>2, NoMoneyStep
<1>31. ASSUME NEW p \in Payment, BuyerPays(p) PROVE [Promise!Next]_(Promise!vars)
  <2>2. MoneyOf(p) /\ UNCHANGED <<sub, grants>>
    BY <1>31 DEF BuyerPays, MoneyOf
  <2>3. p \in PaidPayments => (p \in PaidPayments)'
    BY <1>31, SMTT(20) DEF BuyerPays, Roles, Bound, Creation, Creating, Unborn,
                             PayableOrderIsBound
  <2> HIDE DEF PaidPayments, Exact, IInv, TypeOK
  <2> QED BY <2>2, <2>3, MoneyStep
<1>32. ASSUME NEW p \in Payment, BuyerPaysLater(p) PROVE [Promise!Next]_(Promise!vars)
  <2>1. UNCHANGED <<sub, grants>>
    BY <1>32 DEF BuyerPaysLater
  <2>2. \A q \in Payment : (q \in PaidPayments)' <=> q \in PaidPayments
    BY <1>32 DEF BuyerPaysLater, Roles, Bound, Creation, Creating, Unborn
  <2> QED BY <2>1, <2>2, NoMoneyStep
<1>33. ASSUME NEW p \in Payment, BuyerApproves(p) PROVE [Promise!Next]_(Promise!vars)
  <2>1. UNCHANGED <<sub, grants>>
    BY <1>33 DEF BuyerApproves
  <2>2. \A q \in Payment : (q \in PaidPayments)' <=> q \in PaidPayments
    BY <1>33 DEF BuyerApproves, Roles, Bound, Creation, Creating, Unborn
  <2> QED BY <2>1, <2>2, NoMoneyStep
<1>34. ASSUME NEW p \in Payment, FundsClear(p) PROVE [Promise!Next]_(Promise!vars)
  <2>2. MoneyOf(p) /\ UNCHANGED <<sub, grants>>
    BY <1>34 DEF FundsClear, MoneyOf
  <2>3. p \in PaidPayments => (p \in PaidPayments)'
    BY <1>34, SMTT(20) DEF FundsClear, Roles, Bound, Creation, Creating, Unborn,
                             PayableOrderIsBound
  <2> HIDE DEF PaidPayments, Exact, IInv, TypeOK
  <2> QED BY <2>2, <2>3, MoneyStep
<1>35. ASSUME NEW u \in User, SubscriptionMine(u) PROVE [Promise!Next]_(Promise!vars)
  <2> DEFINE s == [plan |-> "free", status |-> "active",
                by |-> NoPayment, renewsAt |-> Forever]
  <2>1. sub' = [sub EXCEPT ![u] = s] /\ UNCHANGED <<row, order, charged, grants>>
    BY <1>35 DEF SubscriptionMine
  <2>2. s.status # "active" \/ s.plan = "free"
    BY DEF Subscription
  <2> HIDE DEF s
  <2> QED BY <2>1, <2>2, GiveUpStep
<1>36. ASSUME NEW u \in User, SubscriptionSetFree(u) PROVE [Promise!Next]_(Promise!vars)
  <2> DEFINE s == [plan |-> "free", status |-> "active",
                by |-> sub[u].by, renewsAt |-> Forever]
  <2>1. sub' = [sub EXCEPT ![u] = s] /\ UNCHANGED <<row, order, charged, grants>>
    BY <1>36 DEF SubscriptionSetFree
  <2>2. s.status # "active" \/ s.plan = "free"
    BY DEF Subscription
  <2> HIDE DEF s
  <2> QED BY <2>1, <2>2, GiveUpStep
<1>37. ASSUME NEW u \in User, SubscriptionCancel(u) PROVE [Promise!Next]_(Promise!vars)
  <2> DEFINE s == [sub[u] EXCEPT !.status = "cancelled"]
  <2>1. sub' = [sub EXCEPT ![u] = s] /\ UNCHANGED <<row, order, charged, grants>>
    BY <1>37 DEF SubscriptionCancel
  <2>2. s.status # "active" \/ s.plan = "free"
    BY DEF Subscription
  <2> HIDE DEF s
  <2> QED BY <2>1, <2>2, GiveUpStep
<1>38. ASSUME Tick PROVE [Promise!Next]_(Promise!vars)
  <2>1. UNCHANGED <<sub, grants>>
    BY <1>38 DEF Tick
  <2>2. \A q \in Payment : (q \in PaidPayments)' <=> q \in PaidPayments
    BY <1>38 DEF Tick, Roles, Bound, Creation, Creating, Unborn
  <2> QED BY <2>1, <2>2, NoMoneyStep
<1>39. CASE UNCHANGED vars
  BY <1>39, NoMoneyStep DEF vars
<1> QED
  BY <1>1, <1>2, <1>3, <1>4, <1>5, <1>6, <1>7, <1>8, <1>9, <1>10, <1>11,
     <1>12, <1>13, <1>14, <1>15, <1>16, <1>17, <1>18, <1>19, <1>20,
     <1>21, <1>22, <1>23, <1>24, <1>25, <1>26, <1>27, <1>28, <1>29,
     <1>30, <1>31, <1>32, <1>33, <1>34, <1>35, <1>36, <1>37, <1>38,
     <1>39
  DEF Next, Proceed, Request, World

\* The initial states agree.
LEMMA InitImplementsInit == Init => Promise!Init
  BY DEF Init, NoSubscription, Promise!Init, PaidPayments, GrantedPayments, Holder, Exact

\* Every behaviour of the payment subsystem is one of Entitlement.
THEOREM PaymentsImplementEntitlement == Spec => ImplementsEntitlement
<1>1. Init => Promise!Init
  BY InitImplementsInit
<1>2. IInv /\ IInv' /\ [Next]_vars => [Promise!Next]_(Promise!vars)
  BY StepImplementsStep
<1> QED
  BY <1>1, <1>2, InvariantHolds, PTL DEF Spec, ImplementsEntitlement, Promise!Spec

-----------------------------------------------------------------------------
(* Pilot access *)

\* A pilot of a plan that is not free has the window's end from the moment it
\* is activated, and so has the subscription it made, until it is left.
OfPilot(p) == Provider[p] = "pilot" /\ Price[p] # 0
Piloting(w) == pc[w] \in {"pilotCreate", "pilotUpsert"}
PilotEnd ==
  /\ \A w \in Worker : Piloting(w) /\ OfPilot(job[w]) => held[w] = WindowEnd
  /\ \A u \in User :
       sub[u].by # NoPayment /\ OfPilot(sub[u].by) /\ sub[u].plan # "free"
         => sub[u].renewsAt = WindowEnd

\* No activation starts, and those under way hold what they held.
PilotsWait ==
  \A w \in Worker : Piloting(w)' => Piloting(w) /\ job'[w] = job[w] /\ held'[w] = held[w]

\* Then only a change of a subscription matters.
LEMMA PilotsWaitKeep ==
  ASSUME PilotEnd, PilotsWait, UNCHANGED sub
  PROVE  PilotEnd'
  BY DEF PilotEnd, PilotsWait, OfPilot

\* A subscription that becomes s.
LEMMA SubscriptionKeeps ==
  ASSUME IInv, PilotEnd, PilotsWait, NEW u \in User, NEW s,
         sub' = [sub EXCEPT ![u] = s],
         s.by = NoPayment \/ ~OfPilot(s.by) \/ s.plan = "free" \/ s.renewsAt = WindowEnd
  PROVE  PilotEnd'
<1>1. sub'[u] = s /\ \A v \in User \ {u} : sub'[v] = sub[v]
  BY DEF IInv, TypeOK
<1>2. ASSUME NEW v \in User, sub'[v].by # NoPayment, OfPilot(sub'[v].by), sub'[v].plan # "free"
      PROVE  sub'[v].renewsAt = WindowEnd
  BY <1>1, <1>2 DEF PilotEnd
<1> QED BY <1>2 DEF PilotEnd, PilotsWait, OfPilot

\* Requests that are not pilots wait with them.
LEMMA BeginsOther ==
  ASSUME IInv, NEW w \in Worker, NEW p, NEW step, NEW value, Begin(w, p, step, value),
         step \notin {"pilotCreate", "pilotUpsert"}
  PROVE  PilotsWait
  BY DEF PilotsWait, Piloting, Begin, IInv, TypeOK

\* So do those that go on as something else.
LEMMA ContinuesOther ==
  ASSUME IInv, NEW w \in Worker, NEW step, Continue(w, step),
         Piloting(w) \/ step \notin {"pilotCreate", "pilotUpsert"}
  PROVE  PilotsWait
  BY DEF PilotsWait, Piloting, Continue, IInv, TypeOK

\* And those that end.
LEMMA FinishesOther ==
  ASSUME IInv, NEW w \in Worker, Finish(w)
  PROVE  PilotsWait
  BY DEF PilotsWait, Piloting, Finish, IInv, TypeOK

\* Every step keeps it.
LEMMA PilotEndKept == ASSUME IInv, PilotEnd, [Next]_vars PROVE PilotEnd'
<1>1. ASSUME NEW w \in Worker,
             \/ ChapaInitialized(w) \/ ChapaInitializeFails(w) \/ ChapaNotVerified(w)
             \/ StripeSession(w) \/ StripeRow(w)
             \/ PaypalOrderCreated(w) \/ PaypalBindOrder(w)
             \/ PaypalCreateThrows(w) \/ PaypalCreateFailed(w)
      PROVE  PilotEnd'
  <2>1. UNCHANGED sub
    BY <1>1 DEF ChapaInitialized, ChapaInitializeFails, ChapaNotVerified,
                StripeSession, StripeRow, PaypalOrderCreated, PaypalBindOrder,
                PaypalCreateThrows, PaypalCreateFailed
  <2>2. CASE Finish(w)
    BY <2>1, <2>2, FinishesOther, PilotsWaitKeep
  <2>3. CASE ~Finish(w)
    <3>1. PICK step \in {"sessionRow", "bindOrder", "createFailed"} : Continue(w, step)
      BY <1>1, <2>3 DEF ChapaInitialized, ChapaInitializeFails, ChapaNotVerified,
         StripeSession, StripeRow, PaypalOrderCreated, PaypalBindOrder, PaypalCreateThrows,
         PaypalCreateFailed
    <3>2. PilotsWait
      BY <3>1, ContinuesOther
    <3> QED BY <2>1, <3>2, PilotsWaitKeep
  <2> QED BY <2>2, <2>3
<1>2. ASSUME NEW w \in Worker,
             \/ ChapaVerified(w) \/ PaypalCaptured(w)
      PROVE  PilotEnd'
  <2>1. UNCHANGED <<sub, job>> /\ pc' = [pc EXCEPT ![w] = "settleRead"]
        /\ \A v \in Worker \ {w} : held'[v] = held[v]
    BY <1>2 DEF ChapaVerified, PaypalCaptured, IInv, TypeOK
  <2>2. PilotsWait
    BY <2>1 DEF PilotsWait, Piloting, IInv, TypeOK
  <2> QED BY <2>1, <2>2, PilotsWaitKeep
<1>3. ASSUME NEW w \in Worker,
             \/ PaypalHeld(w) \/ PaypalDeclined(w) \/ PaypalUnavailable(w)
             \/ PaypalMarkFailed(w) \/ SettleRead(w) \/ SettleReject(w) \/ SettleClaim(w)
             \/ Abort(w)
      PROVE  PilotEnd'
  <2>1. UNCHANGED sub
    BY <1>3 DEF PaypalHeld, PaypalDeclined, PaypalUnavailable, PaypalMarkFailed,
                SettleRead, SettleReject, SettleClaim, Abort
  <2>2. CASE Finish(w)
    BY <2>1, <2>2, FinishesOther, PilotsWaitKeep
  <2>3. CASE ~Finish(w)
    <3>1. PICK step \in {"markFailed", "settleClaim", "settleReject", "settleUpsert"} :
               Continue(w, step)
      BY <1>3, <2>3 DEF PaypalHeld, PaypalDeclined, PaypalUnavailable, PaypalMarkFailed,
                SettleRead, SettleReject, SettleClaim, Answer, Abort
    <3>2. PilotsWait
      BY <3>1, ContinuesOther
    <3> QED BY <2>1, <3>2, PilotsWaitKeep
  <2> QED BY <2>2, <2>3
<1>4. ASSUME NEW w \in Worker, SettleUpsert(w) PROVE PilotEnd'
  <2> DEFINE p == job[w]
             s == [plan |-> Sells[p], status |-> "active", by |-> p, renewsAt |-> now + Period]
  <2>1. p \in Payment /\ Owner[p] \in User /\ Provider[p] # "pilot"
    BY <1>4 DEF SettleUpsert, IInv, TypeOK, Roles
  <2>2. sub' = [sub EXCEPT ![Owner[p]] = s] /\ ~OfPilot(s.by)
    BY <1>4, <2>1 DEF SettleUpsert, Grant, OfPilot
  <2>3. PilotsWait
    BY <1>4, FinishesOther DEF SettleUpsert, Answer
  <2> HIDE DEF s, p
  <2> QED BY <2>1, <2>2, <2>3, SubscriptionKeeps
<1>5. ASSUME NEW w \in Worker, PilotCreate(w) PROVE PilotEnd'
  <2>1. UNCHANGED sub /\ PilotsWait
    BY <1>5, ContinuesOther DEF PilotCreate, Piloting
  <2> QED BY <2>1, PilotsWaitKeep
<1>6. ASSUME NEW w \in Worker, PilotUpsert(w) PROVE PilotEnd'
  <2> DEFINE p == job[w]
             s == [plan |-> Sells[p], status |-> "active", by |-> p, renewsAt |-> held[w]]
  <2>1. p \in Payment /\ Owner[p] \in User
    BY <1>6 DEF PilotUpsert, IInv, TypeOK
  <2>2. sub' = [sub EXCEPT ![Owner[p]] = s] /\ s.by = p /\ s.renewsAt = held[w]
    BY <1>6 DEF PilotUpsert, Grant
  <2>3. ~OfPilot(p) \/ held[w] = WindowEnd
    BY <1>6 DEF PilotUpsert, PilotEnd, Piloting
  <2>4. PilotsWait
    BY <1>6, FinishesOther DEF PilotUpsert
  <2> HIDE DEF s, p
  <2> QED BY <2>1, <2>2, <2>3, <2>4, SubscriptionKeeps
<1>7. ASSUME NEW w \in Worker, NEW p \in Payment, PilotActivate(w, p) PROVE PilotEnd'
  <2>1. UNCHANGED sub /\ Begin(w, p, "pilotCreate", IF PilotWindow THEN WindowEnd ELSE Forever)
        /\ (OfPilot(p) => PilotWindow)
    BY <1>7 DEF PilotActivate, OfPilot, Mode
  <2>2. /\ job'[w] = p /\ (OfPilot(p) => held'[w] = WindowEnd)
        /\ \A v \in Worker \ {w} : pc'[v] = pc[v] /\ job'[v] = job[v] /\ held'[v] = held[v]
    BY <2>1 DEF Begin, IInv, TypeOK
  <2>3. \A v \in Worker : Piloting(v)' /\ OfPilot(job'[v]) => held'[v] = WindowEnd
    BY <2>2 DEF PilotEnd, Piloting
  <2> QED BY <2>1, <2>3 DEF PilotEnd, OfPilot
<1>8. ASSUME NEW w \in Worker, NEW p \in Payment,
             \/ ChapaCheckout(w, p) \/ ChapaConfirm(w, p)
             \/ StripeCheckout(w, p) \/ StripeWebhook(w, p)
             \/ PaypalCreateOrder(w, p) \/ PaypalCapture(w, p)
      PROVE  PilotEnd'
  <2>1. UNCHANGED sub
    BY <1>8 DEF ChapaCheckout, ChapaConfirm, StripeCheckout, StripeWebhook, PaypalCreateOrder,
                PaypalCapture
  <2>2. CASE UNCHANGED handler
    BY <2>1, <2>2 DEF handler, PilotEnd, Piloting, OfPilot
  <2>3. CASE ~UNCHANGED handler
    <3>1. PICK step \in Step \ {"pilotCreate", "pilotUpsert"} :
            \E value : Begin(w, p, step, value)
      BY <1>8, <2>3, Zenon DEF ChapaCheckout, ChapaConfirm, StripeCheckout, StripeWebhook,
         PaypalCreateOrder, PaypalCapture, Step
    <3>2. PilotsWait
      BY <3>1, BeginsOther
    <3> QED BY <2>1, <3>2, PilotsWaitKeep
  <2> QED BY <2>2, <2>3
<1>9. ASSUME NEW p \in Payment, World(p) PROVE PilotEnd'
  <2>1. UNCHANGED <<sub, handler>>
    BY <1>9 DEF World, PaypalCancel, BuyerPays, BuyerPaysLater, BuyerApproves, FundsClear
  <2> QED BY <2>1 DEF handler, PilotEnd, Piloting, OfPilot
<1>10. CASE Tick \/ UNCHANGED vars
  <2>1. UNCHANGED <<sub, handler>>
    BY <1>10 DEF Tick, vars
  <2> QED BY <2>1 DEF handler, PilotEnd, Piloting, OfPilot
<1>11. ASSUME NEW u \in User,
              SubscriptionMine(u) \/ SubscriptionSetFree(u) \/ SubscriptionCancel(u)
       PROVE  PilotEnd'
  <2>1. PilotsWait /\ UNCHANGED handler
    BY <1>11 DEF SubscriptionMine, SubscriptionSetFree, SubscriptionCancel, handler, PilotsWait,
                 Piloting
  <2>2. CASE SubscriptionMine(u) \/ SubscriptionSetFree(u)
    <3> DEFINE s(by) == [plan |-> "free", status |-> "active", by |-> by, renewsAt |-> Forever]
    <3>1. PICK by : sub' = [sub EXCEPT ![u] = s(by)]
      BY <2>2 DEF SubscriptionMine, SubscriptionSetFree
    <3>2. s(by).plan = "free"
      OBVIOUS
    <3> HIDE DEF s
    <3> QED BY <2>1, <3>1, <3>2, SubscriptionKeeps
  <2>3. CASE SubscriptionCancel(u)
    <3> DEFINE s == [sub[u] EXCEPT !.status = "cancelled"]
    <3>1. sub' = [sub EXCEPT ![u] = s]
          /\ s.by = sub[u].by /\ s.plan = sub[u].plan /\ s.renewsAt = sub[u].renewsAt
      BY <2>3 DEF SubscriptionCancel, IInv, TypeOK, Subscription
    <3> HIDE DEF s
    <3>2. s.by = NoPayment \/ ~OfPilot(s.by) \/ s.plan = "free" \/ s.renewsAt = WindowEnd
      BY <3>1 DEF PilotEnd
    <3> QED BY <2>1, <3>1, <3>2, SubscriptionKeeps
  <2> QED BY <1>11, <2>2, <2>3
<1> QED
  BY <1>1, <1>2, <1>3, <1>4, <1>5, <1>6, <1>7, <1>8, <1>9, <1>10, <1>11
  DEF Next, Proceed, Request

\* Pilot access ends with the window, whichever activation or order wrote the
\* subscription last.
THEOREM PilotsEnd == Spec => []PilotAccessEndsWithWindow
<1>1. Init => PilotEnd
  BY DEF Init, PilotEnd, Piloting, NoSubscription
<1>2. IInv /\ PilotEnd /\ [Next]_vars => PilotEnd'
  BY PilotEndKept
<1>3. IInv /\ PilotEnd => PilotAccessEndsWithWindow
  BY DEF PilotEnd, OfPilot, PilotAccessEndsWithWindow, Live, IInv, TypeOK, Subscription
<1> QED BY <1>1, <1>2, <1>3, InvariantHolds, PTL DEF Spec
=============================================================================
