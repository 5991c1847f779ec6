-------------------------- MODULE MembershipProofs --------------------------
(***************************************************************************)
(* Proofs about Membership, for any people, schools and workers: nobody     *)
(* becomes a leader unvouched, the cached tenancy is what the account says, *)
(* and a decision stands, outside the races the histories name.             *)
(*                                                                         *)
(* Three strengthenings carry it: what a review is about (Reviewing), what  *)
(* an answer may still write (Vouched), and what a fill carries (Cached).   *)
(***************************************************************************)
EXTENDS Membership, SequenceTheorems, FiniteSetTheorems, TLAPS

\* A request at a review is about a claim of the person it names.  Unless
\* another reviewer is at work on it, the claim is open and nobody else's.
Reviewing(w) ==
  /\ job[w].claim # 0 =>
       /\ pc[w] \in {"grant", "grantDrop", "grantCommit", "decide"}
       /\ claims[job[w].claim].by = job[w].who
       /\ job[w].claim \notin crossed =>
            /\ claims[job[w].claim].status \in Open
            /\ \A v \in Worker \ {w} : job[v].claim # job[w].claim
  /\ pc[w] = "decide" => job[w].claim # 0 /\ job[w].status # "APPROVED"

\* Who has an approved claim has answered the role question, and an answer
\* still to be saved is one that an approval ran over.
Approved(n) == n \in 1..Len(claims) /\ claims[n].status = "APPROVED"
Answering(w) ==
  pc[w] \in {"profile", "answer"} =>
    /\ job[w].role # "SCHOOL_LEADER"
    /\ \A n \in 1..Len(claims) : Approved(n) /\ claims[n].by = job[w].who =>
      job[w].who \in overrun
Vouched ==
  /\ LeaderIsVouched /\ ApprovedIsLeader
  /\ \A n \in 1..Len(claims) : Approved(n) => confirmed[claims[n].by]
  /\ \A w \in Worker : Answering(w)

\* A fill carries what the account is, or is known not to.
Filling(w) ==
  pc[w] = "fill" =>
    \/ job[w].role = role[job[w].who] /\ job[w].school = school[job[w].who]
    \/ job[w].who \in doubtful
Cached == CacheIsFresh /\ \A w \in Worker : Filling(w)

IInv == TypeOK /\ (\A w \in Worker : Reviewing(w)) /\ Vouched /\ Cached

\* One request moves, the others stand still.
Moves(w) == \A v \in Worker \ {w} : pc'[v] = pc[v] /\ job'[v] = job[v]

Steps == {"idle", "profile", "answer", "drop", "open", "create", "confirm", "grant",
          "grantDrop", "grantCommit", "decide", "decline", "seats", "admit", "account", "fill"}

USE MembershipAssumption

-----------------------------------------------------------------------------
(* How a request moves *)

\* Begin, Continue and Finish move one request, and leave the others alone.
LEMMA Begun ==
  ASSUME RequestsOK, NEW w \in Worker, NEW step, NEW j, Begin(w, step, j)
  PROVE  Moves(w) /\ pc[w] = "idle" /\ pc'[w] = step /\ job'[w] = j
  BY DEF RequestsOK, Begin, Moves

\* The same of Continue.
LEMMA Continued ==
  ASSUME RequestsOK, NEW w \in Worker, NEW step, NEW j, Continue(w, step, j)
  PROVE  Moves(w) /\ pc'[w] = step /\ job'[w] = j
  BY DEF RequestsOK, Continue, Moves

\* And of Finish.
LEMMA Finished ==
  ASSUME RequestsOK, NEW w \in Worker, Finish(w)
  PROVE  Moves(w) /\ pc'[w] = "idle" /\ job'[w] = NoJob
  BY DEF RequestsOK, Finish, Moves

\* The requests keep their types, given a step and a job that goes with it.
Fits(step, j) ==
  /\ step \in Steps /\ j \in Job /\ j.claim \in 0..Len(claims)
  /\ step \in {"idle", "account"} <=> j.who = None

\* A request that begins has its type.
LEMMA BegunTypes ==
  ASSUME TypeOK, NEW w \in Worker, NEW step, NEW j, Begin(w, step, j), Fits(step, j),
         UNCHANGED claims
  PROVE  RequestsOK'
  BY DEF TypeOK, RequestsOK, Fits, Steps, Begin

\* So has one that goes on, when no claim is lost.
LEMMA ContinuedTypes ==
  ASSUME TypeOK, NEW w \in Worker, NEW step, NEW j, Continue(w, step, j), Fits(step, j),
         Len(claims) \in Nat, Len(claims') \in Nat, Len(claims) <= Len(claims')
  PROVE  RequestsOK'
  BY DEF TypeOK, RequestsOK, Fits, Steps, Continue

\* And one that ends.
LEMMA FinishedTypes ==
  ASSUME TypeOK, NEW w \in Worker, Finish(w),
         Len(claims) \in Nat, Len(claims') \in Nat, Len(claims) <= Len(claims')
  PROVE  RequestsOK'
  BY DEF TypeOK, RequestsOK, Finish, NoJob, Job, Role, School, Open

\* What the type of the claims says.
LEMMA ClaimsAreSequence ==
  ASSUME ClaimsOK
  PROVE  /\ Len(claims) \in Nat /\ DOMAIN claims = 1..Len(claims)
         /\ \A n \in 1..Len(claims) : claims[n] \in Claim
  BY LenProperties, ElementOfSeq DEF ClaimsOK

\* The claims change at n, which is a new row or one that keeps its person.
ChangesAt(n) ==
  /\ claims' \in Seq(Claim) /\ Len(claims') \in Nat /\ DOMAIN claims' = 1..Len(claims')
  /\ n \in 1..Len(claims') /\ claims'[n] \in Claim
  /\ IF n \in 1..Len(claims) THEN Len(claims') = Len(claims)
                             ELSE n = Len(claims) + 1 /\ Len(claims') = n
  /\ \A k \in 1..Len(claims) : claims'[k].by = claims[k].by /\ (k # n => claims'[k] = claims[k])

\* A new row is a change at the end.
LEMMA AppendChanges ==
  ASSUME ClaimsOK, NEW c \in Claim, claims' = Append(claims, c)
  PROVE  ChangesAt(Len(claims) + 1) /\ claims'[Len(claims) + 1] = c
<1>1. Len(claims) \in Nat /\ DOMAIN claims = 1..Len(claims)
  BY ClaimsAreSequence
<1>2. /\ claims' \in Seq(Claim) /\ Len(claims') = Len(claims) + 1
      /\ claims'[Len(claims) + 1] = c /\ \A k \in 1..Len(claims) : claims'[k] = claims[k]
  BY AppendProperties DEF ClaimsOK
<1>3. DOMAIN claims' = 1..Len(claims')
  BY <1>2, LenProperties
<1>4. Len(claims) + 1 \in 1..Len(claims') /\ Len(claims) + 1 \notin 1..Len(claims)
      /\ Len(claims') \in Nat
  BY <1>1, <1>2
<1>5. \A k \in 1..Len(claims) : claims'[k].by = claims[k].by /\ claims'[k] = claims[k]
  BY <1>2
<1> QED BY <1>2, <1>3, <1>4, <1>5 DEF ChangesAt

\* A row's new status is a change at that row.
LEMMA StatusChanges ==
  ASSUME ClaimsOK, NEW n \in 1..Len(claims), NEW s \in Open \union {"APPROVED", "REJECTED"},
         claims' = [claims EXCEPT ![n].status = s]
  PROVE  ChangesAt(n) /\ claims'[n].status = s
<1>1. Len(claims) \in Nat /\ DOMAIN claims = 1..Len(claims) /\ claims[n] \in Claim
  BY ClaimsAreSequence
<1>2. claims' = [claims EXCEPT ![n] = [claims[n] EXCEPT !.status = s]]
  OBVIOUS
<1>3. [claims[n] EXCEPT !.status = s] \in Claim
  BY <1>1 DEF Claim
<1>4. claims' \in Seq(Claim) /\ Len(claims') = Len(claims)
  BY <1>2, <1>3, ExceptSeq DEF ClaimsOK
<1>5. DOMAIN claims' = 1..Len(claims')
  BY <1>4, LenProperties
<1>6. claims'[n] = [claims[n] EXCEPT !.status = s]
      /\ \A k \in 1..Len(claims) \ {n} : claims'[k] = claims[k]
  BY <1>1, <1>2
<1>7. [claims[n] EXCEPT !.status = s].by = claims[n].by
      /\ [claims[n] EXCEPT !.status = s].status = s
  BY <1>1 DEF Claim
<1> QED BY <1>1, <1>3, <1>4, <1>5, <1>6, <1>7 DEF ChangesAt

\* The claim a grant records is the one it was about, or its own.
LEMMA RecordChanges ==
  ASSUME ClaimsOK, NEW n \in 0..Len(claims), NEW p \in Person, RecordGrant(n, p)
  PROVE  LET m == IF n = 0 THEN Len(claims) + 1 ELSE n
         IN  ChangesAt(m) /\ claims'[m].status = "APPROVED" /\ (n = 0 => claims'[m].by = p)
<1>1. CASE n = 0
  <2>1. [by |-> p, status |-> "APPROVED"] \in Claim
    BY DEF Claim
  <2> QED BY <1>1, <2>1, AppendChanges DEF RecordGrant
<1>2. CASE n # 0
  <2>1. n \in 1..Len(claims)
    BY <1>2, ClaimsAreSequence
  <2> QED BY <1>2, <2>1, StatusChanges DEF RecordGrant
<1> QED BY <1>1, <1>2

-----------------------------------------------------------------------------
(* What a step leaves true *)

\* No claim changes, and w has none or goes on with its own.
LEMMA ReviewsQuiet ==
  ASSUME IInv, NEW w \in Worker, Moves(w), UNCHANGED <<claims, crossed>>,
         \/ job'[w].claim = 0 /\ pc'[w] # "decide"
         \/ job'[w] = job[w] /\ pc'[w] \in {"grantDrop", "grantCommit"}
  PROVE  \A v \in Worker : Reviewing(v)'
  BY DEF IInv, Moves, Reviewing

\* The claims change at n, which w was at work on or has just made.
LEMMA ReviewsChange ==
  ASSUME IInv, NEW w \in Worker, Moves(w), UNCHANGED crossed, NEW n, ChangesAt(n),
         n = job[w].claim \/ n = Len(claims) + 1,
         job'[w].claim = 0 /\ pc'[w] # "decide"
  PROVE  \A v \in Worker : Reviewing(v)'
<1>1. Len(claims) \in Nat
  BY ClaimsAreSequence DEF IInv, TypeOK
<1>2. \A v \in Worker : job[v].claim \in 0..Len(claims)
  BY DEF IInv, TypeOK, RequestsOK
<1>3. \A v \in Worker \ {w} : job[v].claim # 0 /\ job[v].claim \notin crossed =>
      job[v].claim # n
  BY <1>1, <1>2 DEF IInv, Reviewing
<1>4. \A v \in Worker \ {w} : job[v].claim # 0 =>
        /\ claims'[job[v].claim].by = claims[job[v].claim].by
        /\ job[v].claim # n => claims'[job[v].claim] = claims[job[v].claim]
  <2>1. \A v \in Worker \ {w} : job[v].claim # 0 => job[v].claim \in 1..Len(claims)
    BY <1>1, <1>2
  <2> QED BY <2>1 DEF ChangesAt
<1> QED BY <1>3, <1>4 DEF IInv, Reviewing, Moves

\* Roles and claims stay, and an answer about to be saved is known to be late.
LEMMA VouchedQuiet ==
  ASSUME IInv, NEW w \in Worker, Moves(w), UNCHANGED <<role, claims, overrun, chosen>>,
         crossed \subseteq crossed',
         \A p \in Person : confirmed[p] => confirmed'[p],
         Answering(w)'
  PROVE  Vouched'
<1>1. \A v \in Worker : Answering(v)'
  BY DEF IInv, Vouched, Answering, Moves, Approved
<1>2. \A n \in 1..Len(claims) : claims[n].by \in Person
  BY ClaimsAreSequence DEF IInv, TypeOK, Claim
<1>3. LeaderIsVouched' /\ ApprovedIsLeader'
  BY DEF IInv, Vouched, LeaderIsVouched, ApprovedIsLeader
<1>4. \A n \in 1..Len(claims') : Approved(n)' => confirmed'[claims'[n].by]
  BY <1>2 DEF IInv, Vouched, Approved
<1> QED BY <1>1, <1>3, <1>4 DEF Vouched

\* Only p's account changes, if one does, and only copies are dropped.
LEMMA CachedStep ==
  ASSUME IInv, NEW w \in Worker, Moves(w), NEW p \in Person, doubtful \subseteq doubtful',
         \A q \in Person \ {p} : role'[q] = role[q] /\ school'[q] = school[q],
         \/ role'[p] = role[p] /\ school'[p] = school[p]
         \/ /\ \A v \in Worker : pc[v] = "fill" /\ job[v].who = p => p \in doubtful'
            /\ \/ cache[p] = None \/ p \in doubtful'
               \/ pc'[w] \in {"answer", "drop"} /\ job'[w].who = p,
         Filling(w)',
         \A q \in Person : cache'[q] = None \/ cache'[q] = cache[q],
         pc[w] \in {"answer", "drop"} =>
           \/ pc'[w] \in {"answer", "drop"} /\ job'[w].who = job[w].who
           \/ cache'[job[w].who] = None \/ job[w].who \in doubtful'
  PROVE  Cached'
<1>1. \A v \in Worker : Filling(v)'
  <2> SUFFICES ASSUME NEW v \in Worker \ {w}, pc'[v] = "fill"  PROVE Filling(v)'
    BY DEF Filling
  <2>1. pc[v] = "fill" /\ job'[v] = job[v] /\ job[v].who \in Person
    BY DEF Moves, IInv, TypeOK, RequestsOK, Job
  <2> QED BY <2>1 DEF Filling, IInv, Cached
<1>2. CacheIsFresh'
  <2> SUFFICES ASSUME NEW q \in Person, cache'[q] # None, cache'[q] # Tenancy(q)',
                      q \notin doubtful'
               PROVE  At(q, {"answer", "drop"})'
    BY DEF CacheIsFresh
  <2>1. cache[q] # None /\ cache'[q] = cache[q] /\ q \notin doubtful
    OBVIOUS
  <2>2. CASE cache[q] # Tenancy(q)
    <3>1. PICK v \in Worker : pc[v] \in {"answer", "drop"} /\ job[v].who = q
      BY <2>2 DEF IInv, Cached, CacheIsFresh, At
    <3>2. pc'[v] \in {"answer", "drop"} /\ job'[v].who = q
      BY <2>1, <3>1 DEF Moves
    <3> QED BY <3>2 DEF At
  <2>3. CASE cache[q] = Tenancy(q)
    <3>1. role'[q] # role[q] \/ school'[q] # school[q]
      BY <2>1, <2>3 DEF Tenancy
    <3>2. q = p /\ pc'[w] \in {"answer", "drop"} /\ job'[w].who = p
      BY <2>1, <3>1
    <3> QED BY <3>2 DEF At
  <2> QED BY <2>2, <2>3
<1> QED BY <1>1, <1>2 DEF Cached

\* The parts of a job.
LEMMA JobParts ==
  ASSUME NEW p \in Person \union {None}
  PROVE  /\ About(p) \in Job /\ About(p).who = p /\ About(p).claim = 0
            /\ About(p).role = "PARENT"
         /\ NoJob \in Job /\ NoJob.who = None /\ NoJob.claim = 0 /\ NoJob.role = "PARENT"
  BY DEF About, NoJob, Job, Role, School, Open

\* No account changes, and only copies are dropped.
LEMMA CachedQuiet ==
  ASSUME IInv, NEW w \in Worker, Moves(w), UNCHANGED <<role, school>>,
         doubtful \subseteq doubtful',
         Filling(w)',
         \A q \in Person : cache'[q] = None \/ cache'[q] = cache[q],
         pc[w] \in {"answer", "drop"} =>
           \/ pc'[w] \in {"answer", "drop"} /\ job'[w].who = job[w].who
           \/ cache'[job[w].who] = None \/ job[w].who \in doubtful'
  PROVE  Cached'
<1>1. CASE Person # {}
  <2>1. PICK p \in Person : TRUE
    BY <1>1
  <2> QED BY <2>1, CachedStep
<1>2. CASE Person = {}
  <2>1. \A v \in Worker \ {w} : Filling(v)'
    BY <1>2 DEF Filling, Moves, IInv, TypeOK, RequestsOK, Job
  <2> QED BY <1>2, <2>1 DEF Cached, CacheIsFresh
<1> QED BY <1>1, <1>2

\* The parts of the invariant that every step uses.
LEMMA CountsOfClaims ==
  ASSUME IInv  PROVE Len(claims) \in Nat /\ ClaimsOK /\ RequestsOK /\ AccountsOK
  BY ClaimsAreSequence DEF IInv, TypeOK

\* A request under way is somebody's.
LEMMA WhoIsPerson ==
  ASSUME IInv, NEW w \in Worker, pc[w] \notin {"idle", "account"}
  PROVE  job[w].who \in Person /\ job[w] \in Job /\ job[w].claim \in 0..Len(claims)
  BY DEF IInv, TypeOK, RequestsOK, Job

\* No claim is lost, and only one is other than it was.
LEMMA ChangesGrow ==
  ASSUME IInv, NEW m, ChangesAt(m)
  PROVE  /\ claims' \in Seq(Claim) /\ Len(claims') \in Nat /\ Len(claims) <= Len(claims')
         /\ DOMAIN claims' = 1..Len(claims') /\ m \in 1..Len(claims')
         /\ \A n \in 1..Len(claims) : n \in 1..Len(claims') /\ claims'[n].by = claims[n].by
         /\ \A n \in 1..Len(claims') : n # m => n \in 1..Len(claims) /\ claims'[n] = claims[n]
<1>1. Len(claims) \in Nat
  BY CountsOfClaims
<1>2. Len(claims') \in Nat /\ m \in 1..Len(claims')
  BY DEF ChangesAt
<1>3. CASE m \in 1..Len(claims)
  <2>1. Len(claims') = Len(claims)
    BY <1>3 DEF ChangesAt
  <2> QED BY <1>1, <2>1 DEF ChangesAt
<1>4. CASE m \notin 1..Len(claims)
  <2>1. m = Len(claims) + 1 /\ Len(claims') = Len(claims) + 1
    BY <1>4 DEF ChangesAt
  <2>2. /\ Len(claims) <= Len(claims')
        /\ \A n \in 1..Len(claims) : n \in 1..Len(claims') /\ n # m
        /\ \A n \in 1..Len(claims') : n # m => n \in 1..Len(claims)
    BY <1>1, <2>1
  <2> QED BY <1>2, <2>2 DEF ChangesAt
<1> QED BY <1>3, <1>4

-----------------------------------------------------------------------------
(* The steps *)

\* Every step keeps the invariant: one step of the proof for each action.
LEMMA StepsKeep ==
  ASSUME IInv, Next  PROVE IInv'
<1>1. ASSUME NEW w \in Worker, AnswerProfile(w)  PROVE IInv'
  <2> DEFINE a == About(job[w].who)
         j == [a EXCEPT !.role = job[w].role]
  <2>1. job[w].who \in Person /\ job[w].role \in Role
    BY <1>1, WhoIsPerson DEF AnswerProfile, Job
  <2>2. a \in Job /\ a.who = job[w].who /\ a.claim = 0 /\ a.role = "PARENT"
    BY <2>1, JobParts
  <2> HIDE DEF a
  <2>3. j \in Job /\ j.who = job[w].who /\ j.claim = 0 /\ j.role = job[w].role
    BY <2>2, <2>1 DEF Job
  <2>4. Continue(w, "answer", j)
    BY <1>1 DEF AnswerProfile, a
  <2> HIDE DEF j
  <2>5. Moves(w) /\ pc'[w] = "answer" /\ job'[w].who = job[w].who /\ job'[w].claim = 0
        /\ job'[w].role = job[w].role
    BY <1>1, <2>3, <2>4, CountsOfClaims, Continued
  <2>6. AccountsOK'
    BY <1>1, CountsOfClaims, WhoIsPerson DEF AnswerProfile, AccountsOK, Job, School
  <2>7. ClaimsOK'
    BY <1>1, CountsOfClaims, WhoIsPerson DEF AnswerProfile, ClaimsOK, InDoubt
  <2>8. RequestsOK'
    BY <1>1, <2>3, <2>4, <2>1, ContinuedTypes DEF IInv, AnswerProfile, Fits, Steps
  <2>9. \A v \in Worker : Reviewing(v)'
    BY <1>1, <2>5, ReviewsQuiet DEF AnswerProfile
  <2>10. Vouched'
    BY <1>1, <2>5, VouchedQuiet DEF AnswerProfile, IInv, Vouched, Answering, Approved
  <2>11. Cached'
    BY <1>1, <2>5, WhoIsPerson, CachedStep DEF AnswerProfile, Filling, InDoubt, At
  <2> QED BY <2>6, <2>7, <2>8, <2>9, <2>10, <2>11 DEF IInv, TypeOK
<1>2. ASSUME NEW w \in Worker, AnswerRole(w)  PROVE IInv'
  <2>1. Moves(w) /\ pc'[w] = "drop" /\ job'[w].who = job[w].who /\ job'[w].claim = 0
    BY <1>2, CountsOfClaims, WhoIsPerson, JobParts, Continued DEF AnswerRole
  <2>2. AccountsOK'
    BY <1>2, CountsOfClaims, WhoIsPerson DEF AnswerRole, AccountsOK, Job
  <2>3. ClaimsOK'
    BY <1>2, CountsOfClaims, WhoIsPerson DEF AnswerRole, ClaimsOK, InDoubt
  <2>4. RequestsOK'
    BY <1>2, WhoIsPerson, JobParts, ContinuedTypes DEF IInv, AnswerRole, Fits, Steps
  <2>5. \A v \in Worker : Reviewing(v)'
    BY <1>2, <2>1, ReviewsQuiet DEF AnswerRole
  <2>6. Vouched'
    <3>1. /\ \A q \in Person : role'[q] = (IF q = job[w].who THEN job[w].role ELSE role[q])
          /\ \A q \in Person : confirmed[q] => confirmed'[q]
          /\ UNCHANGED <<claims, chosen, crossed, overrun>>
          /\ pc[w] = "answer"
      BY <1>2, CountsOfClaims DEF AnswerRole, AccountsOK
    <3>2. job[w].role # "SCHOOL_LEADER" /\ \A n \in 1..Len(claims) : Approved(n)
          /\ claims[n].by = job[w].who => job[w].who \in overrun
      BY <3>1 DEF IInv, Vouched, Answering
    <3>3. \A n \in 1..Len(claims) : claims[n].by \in Person /\ n \in DOMAIN claims
      BY ClaimsAreSequence, CountsOfClaims DEF Claim
    <3>4. DOMAIN claims = 1..Len(claims)
      BY ClaimsAreSequence, CountsOfClaims
    <3>5. LeaderIsVouched'
      BY <3>1, <3>2 DEF IInv, Vouched, LeaderIsVouched
    <3>6. ApprovedIsLeader'
      BY <3>1, <3>2, <3>3 DEF IInv, Vouched, ApprovedIsLeader, Approved
    <3>7. \A n \in 1..Len(claims') : Approved(n)' => confirmed'[claims'[n].by]
      BY <3>1, <3>3 DEF IInv, Vouched, Approved
    <3>8. \A v \in Worker : Answering(v)'
      BY <2>1, <3>1 DEF IInv, Vouched, Answering, Moves, Approved
    <3> QED BY <3>5, <3>6, <3>7, <3>8 DEF Vouched
  <2>7. Cached'
    BY <1>2, <2>1, WhoIsPerson, CachedStep DEF AnswerRole, Filling, InDoubt, At
  <2> QED BY <2>2, <2>3, <2>4, <2>5, <2>6, <2>7 DEF IInv, TypeOK
<1>3. ASSUME NEW w \in Worker, Drop(w)  PROVE IInv'
  <2>1. Moves(w) /\ pc'[w] = "idle" /\ job'[w].who = None /\ job'[w].claim = 0
    BY <1>3, CountsOfClaims, JobParts, Finished DEF Drop
  <2>2. AccountsOK'
    BY <1>3, CountsOfClaims DEF Drop, AccountsOK, users, BustTenancy
  <2>3. ClaimsOK'
    BY <1>3, CountsOfClaims, WhoIsPerson DEF Drop, ClaimsOK, BustTenancy
  <2>4. RequestsOK'
    BY <1>3, FinishedTypes DEF IInv, Drop
  <2>5. \A v \in Worker : Reviewing(v)'
    BY <1>3, <2>1, ReviewsQuiet DEF Drop
  <2>6. Vouched'
    BY <1>3, <2>1, VouchedQuiet DEF Drop, Answering, users
  <2>7. Cached'
    BY <1>3, <2>1, WhoIsPerson, CachedStep DEF Drop, IInv, TypeOK, AccountsOK, Filling,
      users, BustTenancy
  <2> QED BY <2>2, <2>3, <2>4, <2>5, <2>6, <2>7 DEF IInv, TypeOK
<1>4. ASSUME NEW w \in Worker, FillSet(w)  PROVE IInv'
  <2>1. Moves(w) /\ pc'[w] = "idle" /\ job'[w].who = None /\ job'[w].claim = 0
    BY <1>4, CountsOfClaims, JobParts, Finished DEF FillSet
  <2>2. AccountsOK'
    BY <1>4, CountsOfClaims, WhoIsPerson DEF FillSet, AccountsOK, users, Job
  <2>3. ClaimsOK'
    BY <1>4, CountsOfClaims DEF FillSet, ClaimsOK, history
  <2>4. RequestsOK'
    BY <1>4, FinishedTypes DEF IInv, FillSet
  <2>5. \A v \in Worker : Reviewing(v)'
    BY <1>4, <2>1, ReviewsQuiet DEF FillSet, history
  <2>6. Vouched'
    BY <1>4, <2>1, VouchedQuiet DEF FillSet, Answering, users, history
  <2>7. Cached'
    <3>1. /\ \A q \in Person : cache'[q] = (IF q = job[w].who
            THEN [role |-> job[w].role, school |-> job[w].school] ELSE cache[q])
          /\ UNCHANGED <<role, school, doubtful>> /\ pc[w] = "fill" /\ job[w].who \in Person
      BY <1>4, CountsOfClaims, WhoIsPerson DEF FillSet, AccountsOK, users, history
    <3>2. \A v \in Worker : Filling(v)'
      BY <2>1, <3>1 DEF IInv, Cached, Filling, Moves
    <3>3. \A q \in Person : At(q, {"answer", "drop"}) => At(q, {"answer", "drop"})'
      BY <2>1, <3>1 DEF At, Moves
    <3>4. Filling(w)
      BY DEF IInv, Cached
    <3>5. CacheIsFresh'
      BY <3>1, <3>3 DEF IInv, Cached, CacheIsFresh, Filling, Tenancy
    <3> QED BY <3>2, <3>5 DEF Cached
  <2> QED BY <2>2, <2>3, <2>4, <2>5, <2>6, <2>7 DEF IInv, TypeOK
<1>5. ASSUME NEW w \in Worker, SubmitFind(w)  PROVE IInv'
  <2> DEFINE a == About(job[w].who)
         j == [a EXCEPT !.school = "school"]
  <2>1. "school" \in School /\ job[w].who \in Person
    BY <1>5, WhoIsPerson DEF SubmitFind, School
  <2>2. a \in Job /\ a.who = job[w].who /\ a.claim = 0 /\ a.role = "PARENT"
    BY <2>1, JobParts
  <2> HIDE DEF a
  <2>3. j \in Job /\ j.who = job[w].who /\ j.claim = 0
    BY <2>2, <2>1 DEF Job
  <2>4. Finish(w) \/ Continue(w, "grant", j) \/ Continue(w, "create", About(job[w].who))
    BY <1>5 DEF SubmitFind, a
  <2> HIDE DEF j
  <2>5. Moves(w) /\ pc'[w] \in {"idle", "grant", "create"} /\ job'[w].claim = 0
    BY <1>5, <2>3, <2>4, <2>1, CountsOfClaims, JobParts, Finished, Continued
  <2>6. AccountsOK'
    BY <1>5, CountsOfClaims DEF SubmitFind, AccountsOK, users
  <2>7. ClaimsOK'
    BY <1>5, CountsOfClaims DEF SubmitFind, ClaimsOK, history
  <2>8. RequestsOK'
    BY <1>5, <2>3, <2>4, <2>1, JobParts, FinishedTypes, ContinuedTypes DEF IInv, SubmitFind,
      Fits, Steps
  <2>9. \A v \in Worker : Reviewing(v)'
    BY <1>5, <2>5, ReviewsQuiet DEF SubmitFind, history
  <2>10. Vouched'
    BY <1>5, <2>5, VouchedQuiet DEF SubmitFind, Answering, users, history
  <2>11. Cached'
    BY <1>5, <2>5, CachedQuiet DEF SubmitFind, Filling, users, history
  <2> QED BY <2>6, <2>7, <2>8, <2>9, <2>10, <2>11 DEF IInv, TypeOK
<1>6. ASSUME NEW w \in Worker, SubmitCreate(w)  PROVE IInv'
  <2>1. Moves(w) /\ pc'[w] = "confirm" /\ job'[w].who = job[w].who /\ job'[w].claim = 0
    BY <1>6, CountsOfClaims, WhoIsPerson, JobParts, Continued DEF SubmitCreate
  <2>2. AccountsOK'
    BY <1>6, CountsOfClaims DEF SubmitCreate, AccountsOK, users
  <2>3. ClaimsOK'
    <3>1. [by |-> job[w].who, status |-> "PENDING"] \in Claim
      BY <1>6, WhoIsPerson DEF SubmitCreate, Claim, Open
    <3>2. ChangesAt(Len(claims) + 1) /\ claims'[Len(claims) + 1].status = "PENDING"
      BY <1>6, <3>1, CountsOfClaims, AppendChanges DEF SubmitCreate
    <3>3. claims' \in Seq(Claim) /\ 1..Len(claims) \subseteq 1..Len(claims')
      BY <3>2, ChangesGrow
    <3> QED BY <1>6, <3>1, CountsOfClaims DEF SubmitCreate, ClaimsOK, history
  <2>4. RequestsOK'
    <3>1. [by |-> job[w].who, status |-> "PENDING"] \in Claim
      BY <1>6, WhoIsPerson DEF SubmitCreate, Claim, Open
    <3>2. ChangesAt(Len(claims) + 1) /\ claims'[Len(claims) + 1].status = "PENDING"
      BY <1>6, <3>1, CountsOfClaims, AppendChanges DEF SubmitCreate
    <3>3. Len(claims') \in Nat /\ Len(claims) <= Len(claims')
      BY <3>2, ChangesGrow
    <3> QED BY <1>6, WhoIsPerson, JobParts, ContinuedTypes DEF IInv, SubmitCreate, Fits, Steps
  <2>5. \A v \in Worker : Reviewing(v)'
    <3>1. [by |-> job[w].who, status |-> "PENDING"] \in Claim
      BY <1>6, WhoIsPerson DEF SubmitCreate, Claim, Open
    <3>2. ChangesAt(Len(claims) + 1) /\ claims'[Len(claims) + 1].status = "PENDING"
      BY <1>6, <3>1, CountsOfClaims, AppendChanges DEF SubmitCreate
    <3> QED BY <1>6, <2>1, <3>2, ReviewsChange DEF SubmitCreate, history
  <2>6. Vouched'
    <3>1. [by |-> job[w].who, status |-> "PENDING"] \in Claim
      BY <1>6, WhoIsPerson DEF SubmitCreate, Claim, Open
    <3>2. ChangesAt(Len(claims) + 1) /\ claims'[Len(claims) + 1].status = "PENDING"
      BY <1>6, <3>1, CountsOfClaims, AppendChanges DEF SubmitCreate
    <3>3. UNCHANGED <<role, confirmed, overrun, crossed, chosen>>
      BY <1>6 DEF SubmitCreate, users, history
    <3>4. /\ \A n \in 1..Len(claims) : claims[n].by \in Person
          /\ LeaderIsVouched /\ ApprovedIsLeader /\ DOMAIN claims = 1..Len(claims)
            /\ DOMAIN claims' = 1..Len(claims')
      BY ClaimsAreSequence, CountsOfClaims DEF IInv, Vouched, Claim
    <3>5. LeaderIsVouched'
      BY <3>2, <3>3, <3>4, ChangesGrow DEF LeaderIsVouched
    <3>6. \A n \in 1..Len(claims') : Approved(n)' => n \in 1..Len(claims) /\ Approved(n)
          /\ claims'[n].by = claims[n].by
      BY <3>2, ChangesGrow DEF Approved
    <3>7. ApprovedIsLeader'
      BY <3>3, <3>4, <3>6 DEF ApprovedIsLeader, Approved
    <3>8. \A n \in 1..Len(claims') : Approved(n)' => confirmed'[claims'[n].by]
      BY <3>3, <3>6 DEF IInv, Vouched
    <3>9. \A v \in Worker : Answering(v)'
      BY <2>1, <3>3, <3>6 DEF IInv, Vouched, Answering, Moves
    <3> QED BY <3>5, <3>7, <3>8, <3>9 DEF Vouched
  <2>7. Cached'
    BY <1>6, <2>1, CachedQuiet DEF SubmitCreate, Filling, users, history
  <2> QED BY <2>2, <2>3, <2>4, <2>5, <2>6, <2>7 DEF IInv, TypeOK
<1>7. ASSUME NEW w \in Worker, SubmitConfirm(w)  PROVE IInv'
  <2>1. Moves(w) /\ pc'[w] = "idle" /\ job'[w].who = None /\ job'[w].claim = 0
    BY <1>7, CountsOfClaims, JobParts, Finished DEF SubmitConfirm
  <2>2. AccountsOK'
    BY <1>7, CountsOfClaims DEF SubmitConfirm, AccountsOK
  <2>3. ClaimsOK'
    BY <1>7, CountsOfClaims DEF SubmitConfirm, ClaimsOK, history
  <2>4. RequestsOK'
    BY <1>7, FinishedTypes DEF IInv, SubmitConfirm
  <2>5. \A v \in Worker : Reviewing(v)'
    BY <1>7, <2>1, ReviewsQuiet DEF SubmitConfirm, history
  <2>6. Vouched'
    BY <1>7, <2>1, VouchedQuiet DEF SubmitConfirm, Answering, history
  <2>7. Cached'
    BY <1>7, <2>1, CachedQuiet DEF SubmitConfirm, Filling, history
  <2> QED BY <2>2, <2>3, <2>4, <2>5, <2>6, <2>7 DEF IInv, TypeOK
<1>8. ASSUME NEW w \in Worker, Grant(w)  PROVE IInv'
  <2>1. Moves(w) /\ pc[w] = "grant" /\ pc'[w] = "grantDrop" /\ job'[w] = job[w]
    BY <1>8, CountsOfClaims, Continued DEF Grant
  <2>2. AccountsOK'
    BY <1>8, CountsOfClaims DEF Grant, AccountsOK, users
  <2>3. ClaimsOK'
    BY <1>8, CountsOfClaims DEF Grant, ClaimsOK, history
  <2>4. RequestsOK'
    BY <1>8, WhoIsPerson, ContinuedTypes DEF IInv, Grant, Fits, Steps
  <2>5. \A v \in Worker : Reviewing(v)'
    BY <1>8, <2>1, ReviewsQuiet DEF Grant, history
  <2>6. Vouched'
    BY <1>8, <2>1, VouchedQuiet DEF Grant, Answering, users, history
  <2>7. Cached'
    BY <1>8, <2>1, CachedQuiet DEF Grant, Filling, users, history
  <2> QED BY <2>2, <2>3, <2>4, <2>5, <2>6, <2>7 DEF IInv, TypeOK
<1>9. ASSUME NEW w \in Worker, GrantDrop(w)  PROVE IInv'
  <2>1. Moves(w) /\ pc[w] = "grantDrop" /\ pc'[w] = "grantCommit" /\ job'[w] = job[w]
    BY <1>9, CountsOfClaims, Continued DEF GrantDrop
  <2>2. AccountsOK'
    BY <1>9, CountsOfClaims DEF GrantDrop, AccountsOK, users, BustTenancy
  <2>3. ClaimsOK'
    BY <1>9, CountsOfClaims, WhoIsPerson DEF GrantDrop, ClaimsOK, BustTenancy
  <2>4. RequestsOK'
    BY <1>9, WhoIsPerson, ContinuedTypes DEF IInv, GrantDrop, Fits, Steps
  <2>5. \A v \in Worker : Reviewing(v)'
    BY <1>9, <2>1, ReviewsQuiet DEF GrantDrop
  <2>6. Vouched'
    BY <1>9, <2>1, VouchedQuiet DEF GrantDrop, Answering, users
  <2>7. Cached'
    BY <1>9, <2>1, CachedQuiet DEF GrantDrop, IInv, TypeOK, AccountsOK, Filling, BustTenancy,
      users
  <2> QED BY <2>2, <2>3, <2>4, <2>5, <2>6, <2>7 DEF IInv, TypeOK
<1>10. ASSUME NEW w \in Worker, GrantCommit(w)  PROVE IInv'
  <2>1. Moves(w) /\ pc'[w] = "idle" /\ job'[w].who = None /\ job'[w].claim = 0
    BY <1>10, CountsOfClaims, JobParts, Finished DEF GrantCommit
  <2>2. AccountsOK'
    BY <1>10, CountsOfClaims, WhoIsPerson DEF GrantCommit, AccountsOK, Job, Role
  <2>3. ClaimsOK'
    <3>1. job[w].claim \in 0..Len(claims) /\ job[w].who \in Person
      BY <1>10, CountsOfClaims, WhoIsPerson DEF GrantCommit
    <3>2. PICK m : /\ ChangesAt(m) /\ claims'[m].status = "APPROVED"
                   /\ (job[w].claim = 0 => claims'[m].by = job[w].who)
                   /\ m = IF job[w].claim = 0 THEN Len(claims) + 1 ELSE job[w].claim
      BY <1>10, <3>1, CountsOfClaims, RecordChanges DEF GrantCommit
    <3>3. claims' \in Seq(Claim) /\ 1..Len(claims) \subseteq 1..Len(claims')
      BY <3>2, ChangesGrow
    <3> QED BY <1>10, <3>1, <3>3, CountsOfClaims DEF GrantCommit, ClaimsOK, InDoubt
  <2>4. RequestsOK'
    <3>1. job[w].claim \in 0..Len(claims) /\ job[w].who \in Person
      BY <1>10, CountsOfClaims, WhoIsPerson DEF GrantCommit
    <3>2. PICK m : /\ ChangesAt(m) /\ claims'[m].status = "APPROVED"
                   /\ (job[w].claim = 0 => claims'[m].by = job[w].who)
                   /\ m = IF job[w].claim = 0 THEN Len(claims) + 1 ELSE job[w].claim
      BY <1>10, <3>1, CountsOfClaims, RecordChanges DEF GrantCommit
    <3>3. Len(claims') \in Nat /\ Len(claims) <= Len(claims')
      BY <3>2, ChangesGrow
    <3> QED BY <1>10, <3>3, FinishedTypes DEF IInv, GrantCommit
  <2>5. \A v \in Worker : Reviewing(v)'
    <3>1. job[w].claim \in 0..Len(claims) /\ job[w].who \in Person
      BY <1>10, CountsOfClaims, WhoIsPerson DEF GrantCommit
    <3>2. PICK m : /\ ChangesAt(m) /\ claims'[m].status = "APPROVED"
                   /\ (job[w].claim = 0 => claims'[m].by = job[w].who)
                   /\ m = IF job[w].claim = 0 THEN Len(claims) + 1 ELSE job[w].claim
      BY <1>10, <3>1, CountsOfClaims, RecordChanges DEF GrantCommit
    <3> QED BY <1>10, <2>1, <3>2, ReviewsChange DEF GrantCommit
  <2>6. Vouched'
    <3>1. job[w].claim \in 0..Len(claims) /\ job[w].who \in Person
      BY <1>10, CountsOfClaims, WhoIsPerson DEF GrantCommit
    <3>2. PICK m : /\ ChangesAt(m) /\ claims'[m].status = "APPROVED"
                   /\ (job[w].claim = 0 => claims'[m].by = job[w].who)
                   /\ m = IF job[w].claim = 0 THEN Len(claims) + 1 ELSE job[w].claim
      BY <1>10, <3>1, CountsOfClaims, RecordChanges DEF GrantCommit
    <3>3. /\ \A q \in Person : role'[q] = (IF q = job[w].who THEN "SCHOOL_LEADER" ELSE role[q])
          /\ \A q \in Person : confirmed'[q] = (q = job[w].who \/ confirmed[q])
          /\ UNCHANGED <<crossed, chosen>> /\ overrun \subseteq overrun'
          /\ At(job[w].who, {"profile", "answer"}) => job[w].who \in overrun'
      BY <1>10, CountsOfClaims DEF GrantCommit, AccountsOK
    <3>4. /\ \A n \in 1..Len(claims) : claims[n].by \in Person
          /\ LeaderIsVouched /\ ApprovedIsLeader /\ DOMAIN claims = 1..Len(claims)
            /\ DOMAIN claims' = 1..Len(claims')
      BY ClaimsAreSequence, CountsOfClaims DEF IInv, Vouched, Claim
    <3>5. claims'[m].by = job[w].who
      BY <3>1, <3>2, ChangesGrow DEF IInv, Reviewing
    <3>6. \A n \in 1..Len(claims') : n # m => n \in 1..Len(claims) /\ claims'[n] = claims[n]
      BY <3>2, ChangesGrow
    <3>7. m \in 1..Len(claims') /\ \A n \in 1..Len(claims) : n \in 1..Len(claims')
          /\ claims'[n].by = claims[n].by
      BY <3>2, ChangesGrow
    <3>8. LeaderIsVouched'
      <4> SUFFICES ASSUME NEW q \in Person \ chosen, role'[q] = "SCHOOL_LEADER"
                   PROVE  \E n \in DOMAIN claims' : claims'[n].by = q
                                /\ (claims'[n].status = "APPROVED" \/ n \in crossed')
        BY <3>3 DEF LeaderIsVouched
      <4>1. CASE q = job[w].who
        BY <4>1, <3>2, <3>5, <3>7
      <4>2. CASE q # job[w].who
        <5>1. PICK n \in 1..Len(claims) : claims[n].by = q
              /\ (claims[n].status = "APPROVED" \/ n \in crossed)
          BY <4>2, <3>3, <3>4 DEF LeaderIsVouched
        <5>2. n # m
          BY <4>2, <5>1, <3>5, <3>7
        <5> QED BY <5>1, <5>2, <3>3, <3>6, <3>7
      <4> QED BY <4>1, <4>2
    <3>9. \A n \in 1..Len(claims') : Approved(n)' /\ claims'[n].by # job[w].who =>
          n \in 1..Len(claims) /\ Approved(n) /\ claims'[n] = claims[n]
      BY <3>6, <3>5 DEF Approved
    <3>10. \A n \in 1..Len(claims') : claims'[n].by \in Person
      BY <3>1, <3>4, <3>6, <3>5
    <3>11. ApprovedIsLeader'
      BY <3>3, <3>4, <3>9, <3>10 DEF ApprovedIsLeader, Approved
    <3>12. \A n \in 1..Len(claims') : Approved(n)' => confirmed'[claims'[n].by]
      BY <3>3, <3>9, <3>10 DEF IInv, Vouched
    <3>13. \A v \in Worker : Answering(v)'
      <4> SUFFICES ASSUME NEW v \in Worker, pc'[v] \in {"profile", "answer"}
                   PROVE  Answering(v)'
        BY DEF Answering
      <4>1. v # w /\ pc[v] = pc'[v] /\ job'[v] = job[v]
        BY <2>1 DEF Moves
      <4>2. Answering(v)
        BY DEF IInv, Vouched
      <4>3. job[v].who = job[w].who => job[w].who \in overrun'
        BY <3>3, <4>1 DEF At
      <4> QED BY <3>3, <3>9, <4>1, <4>2, <4>3 DEF Answering
    <3> QED BY <3>8, <3>11, <3>12, <3>13 DEF Vouched
  <2>7. Cached'
    BY <1>10, <2>1, WhoIsPerson, CachedStep DEF GrantCommit, Filling, InDoubt, At
  <2> QED BY <2>2, <2>3, <2>4, <2>5, <2>6, <2>7 DEF IInv, TypeOK
<1>11. ASSUME NEW w \in Worker, Decide(w)  PROVE IInv'
  <2>1. Moves(w) /\ pc'[w] = "idle" /\ job'[w].who = None /\ job'[w].claim = 0
    BY <1>11, CountsOfClaims, JobParts, Finished DEF Decide
  <2>2. AccountsOK'
    BY <1>11, CountsOfClaims DEF Decide, AccountsOK, users
  <2>3. ClaimsOK'
    <3>1. job[w].claim \in 1..Len(claims)
          /\ job[w].status \in Open \union {"APPROVED", "REJECTED"}
          /\ job[w].status # "APPROVED"
      BY <1>11, WhoIsPerson DEF Decide, IInv, Reviewing, Job
    <3>2. ChangesAt(job[w].claim) /\ claims'[job[w].claim].status = job[w].status
      BY <1>11, <3>1, CountsOfClaims, StatusChanges DEF Decide
    <3>3. claims' \in Seq(Claim) /\ 1..Len(claims) \subseteq 1..Len(claims')
      BY <3>2, ChangesGrow
    <3> QED BY <1>11, <3>3, CountsOfClaims DEF Decide, ClaimsOK, history
  <2>4. RequestsOK'
    <3>1. job[w].claim \in 1..Len(claims)
          /\ job[w].status \in Open \union {"APPROVED", "REJECTED"}
          /\ job[w].status # "APPROVED"
      BY <1>11, WhoIsPerson DEF Decide, IInv, Reviewing, Job
    <3>2. ChangesAt(job[w].claim) /\ claims'[job[w].claim].status = job[w].status
      BY <1>11, <3>1, CountsOfClaims, StatusChanges DEF Decide
    <3>3. Len(claims') \in Nat /\ Len(claims) <= Len(claims')
      BY <3>2, ChangesGrow
    <3> QED BY <1>11, FinishedTypes DEF IInv, Decide
  <2>5. \A v \in Worker : Reviewing(v)'
    <3>1. job[w].claim \in 1..Len(claims)
          /\ job[w].status \in Open \union {"APPROVED", "REJECTED"}
          /\ job[w].status # "APPROVED"
      BY <1>11, WhoIsPerson DEF Decide, IInv, Reviewing, Job
    <3>2. ChangesAt(job[w].claim) /\ claims'[job[w].claim].status = job[w].status
      BY <1>11, <3>1, CountsOfClaims, StatusChanges DEF Decide
    <3> QED BY <1>11, <2>1, <3>2, ReviewsChange DEF Decide, history
  <2>6. Vouched'
    <3>1. job[w].claim \in 1..Len(claims)
          /\ job[w].status \in Open \union {"APPROVED", "REJECTED"}
          /\ job[w].status # "APPROVED"
      BY <1>11, WhoIsPerson DEF Decide, IInv, Reviewing, Job
    <3>2. ChangesAt(job[w].claim) /\ claims'[job[w].claim].status = job[w].status
      BY <1>11, <3>1, CountsOfClaims, StatusChanges DEF Decide
    <3>3. UNCHANGED <<role, confirmed, overrun, crossed, chosen>>
      BY <1>11 DEF Decide, users, history
    <3>4. /\ \A n \in 1..Len(claims) : claims[n].by \in Person
          /\ LeaderIsVouched /\ ApprovedIsLeader /\ DOMAIN claims = 1..Len(claims)
            /\ DOMAIN claims' = 1..Len(claims')
      BY ClaimsAreSequence, CountsOfClaims DEF IInv, Vouched, Claim
    <3>5. Approved(job[w].claim) => job[w].claim \in crossed
      BY DEF IInv, Reviewing, Approved, Open
    <3>6. LeaderIsVouched'
      BY <3>1, <3>2, <3>3, <3>4, <3>5 DEF LeaderIsVouched, ChangesAt, Approved
    <3>7. \A n \in 1..Len(claims') : Approved(n)' => n \in 1..Len(claims) /\ Approved(n)
          /\ claims'[n].by = claims[n].by
      BY <3>1, <3>2 DEF Approved, ChangesAt
    <3>8. ApprovedIsLeader'
      BY <3>3, <3>4, <3>7 DEF ApprovedIsLeader, Approved
    <3>9. \A n \in 1..Len(claims') : Approved(n)' => confirmed'[claims'[n].by]
      BY <3>3, <3>7 DEF IInv, Vouched
    <3>10. \A v \in Worker : Answering(v)'
      BY <2>1, <3>3, <3>7 DEF IInv, Vouched, Answering, Moves
    <3> QED BY <3>6, <3>8, <3>9, <3>10 DEF Vouched
  <2>7. Cached'
    BY <1>11, <2>1, CachedQuiet DEF Decide, Filling, users, history
  <2> QED BY <2>2, <2>3, <2>4, <2>5, <2>6, <2>7 DEF IInv, TypeOK
<1>12. ASSUME NEW w \in Worker, Decline(w)  PROVE IInv'
  <2>1. Moves(w) /\ pc'[w] = "idle" /\ job'[w].who = None /\ job'[w].claim = 0
    BY <1>12, CountsOfClaims, JobParts, Finished DEF Decline
  <2>2. AccountsOK'
    BY <1>12, CountsOfClaims DEF Decline, AccountsOK
  <2>3. ClaimsOK'
    BY <1>12, CountsOfClaims DEF Decline, ClaimsOK, history
  <2>4. RequestsOK'
    BY <1>12, FinishedTypes DEF IInv, Decline
  <2>5. \A v \in Worker : Reviewing(v)'
    BY <1>12, <2>1, ReviewsQuiet DEF Decline, history
  <2>6. Vouched'
    BY <1>12, <2>1, VouchedQuiet DEF Decline, Answering, history
  <2>7. Cached'
    BY <1>12, <2>1, CachedQuiet DEF Decline, Filling, history
  <2> QED BY <2>2, <2>3, <2>4, <2>5, <2>6, <2>7 DEF IInv, TypeOK
<1>13. ASSUME NEW w \in Worker, CountSeats(w)  PROVE IInv'
  <2>1. Moves(w) /\ (pc'[w] = "idle" \/ pc'[w] = "admit")
        /\ (job'[w] = job[w] \/ job'[w] = NoJob)
    BY <1>13, CountsOfClaims, Finished, Continued DEF CountSeats
  <2>2. AccountsOK'
    BY <1>13, CountsOfClaims DEF CountSeats, AccountsOK, users
  <2>3. ClaimsOK'
    BY <1>13, CountsOfClaims DEF CountSeats, ClaimsOK, history
  <2>4. RequestsOK'
    BY <1>13, WhoIsPerson, FinishedTypes, ContinuedTypes DEF IInv, CountSeats, Fits, Steps
  <2>5. \A v \in Worker : Reviewing(v)'
    BY <1>13, <2>1, JobParts, ReviewsQuiet DEF CountSeats, IInv, Reviewing, history
  <2>6. Vouched'
    BY <1>13, <2>1, VouchedQuiet DEF CountSeats, Answering, users, history
  <2>7. Cached'
    BY <1>13, <2>1, CachedQuiet DEF CountSeats, Filling, users, history
  <2> QED BY <2>2, <2>3, <2>4, <2>5, <2>6, <2>7 DEF IInv, TypeOK
<1>14. ASSUME NEW w \in Worker, Admit(w)  PROVE IInv'
  <2>1. Moves(w) /\ pc'[w] = "drop" /\ job'[w].who = job[w].who /\ job'[w].claim = 0
    BY <1>14, CountsOfClaims, WhoIsPerson, JobParts, Continued DEF Admit
  <2>2. AccountsOK'
    BY <1>14, CountsOfClaims DEF Admit, AccountsOK, School
  <2>3. ClaimsOK'
    BY <1>14, CountsOfClaims, WhoIsPerson DEF Admit, ClaimsOK, InDoubt
  <2>4. RequestsOK'
    BY <1>14, WhoIsPerson, JobParts, ContinuedTypes DEF IInv, Admit, Fits, Steps
  <2>5. \A v \in Worker : Reviewing(v)'
    BY <1>14, <2>1, ReviewsQuiet DEF Admit
  <2>6. Vouched'
    BY <1>14, <2>1, VouchedQuiet DEF Admit, Answering
  <2>7. Cached'
    BY <1>14, <2>1, WhoIsPerson, CachedStep DEF Admit, Filling, InDoubt, At
  <2> QED BY <2>2, <2>3, <2>4, <2>5, <2>6, <2>7 DEF IInv, TypeOK
<1>15. ASSUME NEW w \in Worker, CreateStudent(w)  PROVE IInv'
  <2>1. Moves(w) /\ pc'[w] = "idle" /\ job'[w].who = None /\ job'[w].claim = 0
    BY <1>15, CountsOfClaims, JobParts, Finished DEF CreateStudent
  <2>2. AccountsOK'
    BY <1>15, CountsOfClaims DEF CreateStudent, AccountsOK, users
  <2>3. ClaimsOK'
    BY <1>15, CountsOfClaims DEF CreateStudent, ClaimsOK, history
  <2>4. RequestsOK'
    BY <1>15, FinishedTypes DEF IInv, CreateStudent
  <2>5. \A v \in Worker : Reviewing(v)'
    BY <1>15, <2>1, ReviewsQuiet DEF CreateStudent, history
  <2>6. Vouched'
    BY <1>15, <2>1, VouchedQuiet DEF CreateStudent, Answering, users, history
  <2>7. Cached'
    BY <1>15, <2>1, CachedQuiet DEF CreateStudent, Filling, users, history
  <2> QED BY <2>2, <2>3, <2>4, <2>5, <2>6, <2>7 DEF IInv, TypeOK
<1>16. ASSUME NEW w \in Worker, Fail(w)  PROVE IInv'
  <2>1. Moves(w) /\ pc'[w] = "idle" /\ job'[w].who = None /\ job'[w].claim = 0
    BY <1>16, CountsOfClaims, JobParts, Finished DEF Fail
  <2>2. AccountsOK'
    BY <1>16, CountsOfClaims DEF Fail, AccountsOK, users
  <2>3. ClaimsOK'
    BY <1>16, CountsOfClaims, WhoIsPerson DEF Fail, ClaimsOK
  <2>4. RequestsOK'
    BY <1>16, FinishedTypes DEF IInv, Fail
  <2>5. \A v \in Worker : Reviewing(v)'
    BY <1>16, <2>1, ReviewsQuiet DEF Fail
  <2>6. Vouched'
    BY <1>16, <2>1, VouchedQuiet DEF Fail, Answering, users
  <2>7. Cached'
    BY <1>16, <2>1, CachedQuiet DEF Fail, Filling, users
  <2> QED BY <2>2, <2>3, <2>4, <2>5, <2>6, <2>7 DEF IInv, TypeOK
<1>17. ASSUME NEW w \in Worker, NEW p \in Person, FillStart(w, p)  PROVE IInv'
  <2> DEFINE a == About(p)
         j == [a EXCEPT !.role = role[p], !.school = school[p]]
  <2>1. role[p] \in Role /\ school[p] \in School
    BY <1>17, CountsOfClaims DEF AccountsOK
  <2>2. a \in Job /\ a.who = p /\ a.claim = 0 /\ a.role = "PARENT"
    BY <2>1, JobParts
  <2> HIDE DEF a
  <2>3. j \in Job /\ j.who = p /\ j.claim = 0 /\ j.role = role[p] /\ j.school = school[p]
    BY <2>2, <2>1 DEF Job
  <2>4. Begin(w, "fill", j)
    BY <1>17 DEF FillStart, a
  <2> HIDE DEF j
  <2>5. Moves(w) /\ pc[w] = "idle" /\ pc'[w] = "fill" /\ job'[w].who = p /\ job'[w].claim = 0
        /\ job'[w].role = role[p] /\ job'[w].school = school[p]
    BY <1>17, <2>3, <2>4, CountsOfClaims, Begun
  <2>6. AccountsOK'
    BY <1>17, CountsOfClaims DEF FillStart, AccountsOK, users
  <2>7. ClaimsOK'
    BY <1>17, CountsOfClaims DEF FillStart, ClaimsOK, history
  <2>8. RequestsOK'
    BY <1>17, <2>3, <2>4, BegunTypes DEF IInv, FillStart, Fits, Steps
  <2>9. \A v \in Worker : Reviewing(v)'
    BY <1>17, <2>5, ReviewsQuiet DEF FillStart, history
  <2>10. Vouched'
    BY <1>17, <2>5, VouchedQuiet DEF FillStart, Answering, users, history
  <2>11. Cached'
    BY <1>17, <2>5, CachedQuiet DEF FillStart, Filling, users, history
  <2> QED BY <2>6, <2>7, <2>8, <2>9, <2>10, <2>11 DEF IInv, TypeOK
<1>18. ASSUME NEW w \in Worker, NEW p \in Person, NEW r \in {"PARENT", "CHILD", "TEACHER"},
              NEW how \in {"code", "search", "alone"}, AnswerStart(w, p, r, how)  PROVE IInv'
  <2> DEFINE a == About(p)
         j == [a EXCEPT !.role = r, !.how = how, !.school = school[p]]
  <2>1. r \in Role /\ school[p] \in School /\ how \in {"code", "search", "alone"}
    BY <1>18, CountsOfClaims DEF AccountsOK, Role
  <2>2. a \in Job /\ a.who = p /\ a.claim = 0 /\ a.role = "PARENT"
    BY <2>1, JobParts
  <2> HIDE DEF a
  <2>3. j \in Job /\ j.who = p /\ j.claim = 0 /\ j.role = r
    BY <2>2, <2>1 DEF Job
  <2>4. Begin(w, IF r = "PARENT" THEN "answer" ELSE "profile", j)
    BY <1>18 DEF AnswerStart, a
  <2> HIDE DEF j
  <2>5. Moves(w) /\ pc[w] = "idle" /\ pc'[w] \in {"profile", "answer"} /\ job'[w].who = p
        /\ job'[w].claim = 0 /\ job'[w].role = r
    BY <1>18, <2>3, <2>4, CountsOfClaims, Begun
  <2>6. AccountsOK'
    BY <1>18, CountsOfClaims DEF AnswerStart, AccountsOK, users
  <2>7. ClaimsOK'
    BY <1>18, CountsOfClaims DEF AnswerStart, ClaimsOK, history
  <2>8. RequestsOK'
    BY <1>18, <2>3, <2>4, BegunTypes DEF IInv, AnswerStart, Fits, Steps
  <2>9. \A v \in Worker : Reviewing(v)'
    BY <1>18, <2>5, ReviewsQuiet DEF AnswerStart, history
  <2>10. Vouched'
    <3>1. ~confirmed[p] /\ UNCHANGED <<role, confirmed, claims, crossed, overrun, chosen>>
      BY <1>18 DEF AnswerStart, MayAnswer, users, history
    <3>2. \A n \in 1..Len(claims) : ~(Approved(n) /\ claims[n].by = p)
      BY <3>1 DEF IInv, Vouched
    <3>3. Answering(w)'
      BY <2>5, <3>1, <3>2 DEF Answering, Approved
    <3> QED BY <2>5, <3>1, <3>3, VouchedQuiet
  <2>11. Cached'
    BY <1>18, <2>5, CachedQuiet DEF AnswerStart, Filling, users, history
  <2> QED BY <2>6, <2>7, <2>8, <2>9, <2>10, <2>11 DEF IInv, TypeOK
<1>19. ASSUME NEW w \in Worker, NEW p \in Person, NEW how \in {"code", "alone"},
              SubmitStart(w, p, how)  PROVE IInv'
  <2> DEFINE a == About(p)
         j == [a EXCEPT !.how = how]
  <2>1. how \in {"code", "search", "alone"}
    BY <1>19
  <2>2. a \in Job /\ a.who = p /\ a.claim = 0 /\ a.role = "PARENT"
    BY <2>1, JobParts
  <2> HIDE DEF a
  <2>3. j \in Job /\ j.who = p /\ j.claim = 0
    BY <2>2, <2>1 DEF Job
  <2>4. Begin(w, "open", j)
    BY <1>19 DEF SubmitStart, a
  <2> HIDE DEF j
  <2>5. Moves(w) /\ pc[w] = "idle" /\ pc'[w] = "open" /\ job'[w].who = p /\ job'[w].claim = 0
    BY <1>19, <2>3, <2>4, CountsOfClaims, Begun
  <2>6. AccountsOK'
    BY <1>19, CountsOfClaims DEF SubmitStart, AccountsOK, users
  <2>7. ClaimsOK'
    BY <1>19, CountsOfClaims DEF SubmitStart, ClaimsOK, history
  <2>8. RequestsOK'
    BY <1>19, <2>3, <2>4, BegunTypes DEF IInv, SubmitStart, Fits, Steps
  <2>9. \A v \in Worker : Reviewing(v)'
    BY <1>19, <2>5, ReviewsQuiet DEF SubmitStart, history
  <2>10. Vouched'
    BY <1>19, <2>5, VouchedQuiet DEF SubmitStart, Answering, users, history
  <2>11. Cached'
    BY <1>19, <2>5, CachedQuiet DEF SubmitStart, Filling, users, history
  <2> QED BY <2>6, <2>7, <2>8, <2>9, <2>10, <2>11 DEF IInv, TypeOK
<1>20. ASSUME NEW w \in Worker, NEW p \in Person, NEW approve \in BOOLEAN,
              ReviewStart(w, p, approve)  PROVE IInv'
  <2> DEFINE a == About(p)
         j == [a EXCEPT !.role = role[p]]
  <2>1. role[p] \in Role
    BY <1>20, CountsOfClaims DEF AccountsOK
  <2>2. a \in Job /\ a.who = p /\ a.claim = 0 /\ a.role = "PARENT"
    BY <2>1, JobParts
  <2> HIDE DEF a
  <2>3. j \in Job /\ j.who = p /\ j.claim = 0
    BY <2>2, <2>1 DEF Job
  <2>4. Begin(w, IF ~approve THEN "decline" ELSE IF role[p] = "CHILD" THEN "seats"
        ELSE "admit", j)
    BY <1>20 DEF ReviewStart, a
  <2> HIDE DEF j
  <2>5. Moves(w) /\ pc[w] = "idle" /\ pc'[w] \in {"decline", "seats", "admit"}
        /\ job'[w].who = p /\ job'[w].claim = 0
    BY <1>20, <2>3, <2>4, CountsOfClaims, Begun
  <2>6. AccountsOK'
    BY <1>20, CountsOfClaims DEF ReviewStart, AccountsOK, users
  <2>7. ClaimsOK'
    BY <1>20, CountsOfClaims DEF ReviewStart, ClaimsOK, history
  <2>8. RequestsOK'
    BY <1>20, <2>3, <2>4, BegunTypes DEF IInv, ReviewStart, Fits, Steps
  <2>9. \A v \in Worker : Reviewing(v)'
    BY <1>20, <2>5, ReviewsQuiet DEF ReviewStart, history
  <2>10. Vouched'
    BY <1>20, <2>5, VouchedQuiet DEF ReviewStart, Answering, users, history
  <2>11. Cached'
    BY <1>20, <2>5, CachedQuiet DEF ReviewStart, Filling, users, history
  <2> QED BY <2>6, <2>7, <2>8, <2>9, <2>10, <2>11 DEF IInv, TypeOK
<1>21. ASSUME NEW w \in Worker, NEW n \in DOMAIN claims, ApproveStart(w, n)  PROVE IInv'
  <2> DEFINE a == About(claims[n].by)
         j == [a EXCEPT !.claim = n, !.school = "own"]
  <2>1. n \in 1..Len(claims) /\ n \in Nat /\ n # 0 /\ claims[n].by \in Person
        /\ "own" \in School
    BY <1>21, CountsOfClaims, ClaimsAreSequence DEF Claim, School
  <2>2. a \in Job /\ a.who = claims[n].by /\ a.claim = 0 /\ a.role = "PARENT"
    BY <2>1, JobParts
  <2> HIDE DEF a
  <2>3. j \in Job /\ j.who = claims[n].by /\ j.claim = n /\ n # 0
    BY <2>2, <2>1 DEF Job
  <2>4. Begin(w, "grant", j)
    BY <1>21 DEF ApproveStart, a
  <2> HIDE DEF j
  <2>5. Moves(w) /\ pc[w] = "idle" /\ pc'[w] = "grant" /\ job'[w].who = claims[n].by
        /\ job'[w].claim = n
    BY <1>21, <2>3, <2>4, CountsOfClaims, Begun
  <2>6. AccountsOK'
    BY <1>21, CountsOfClaims DEF ApproveStart, AccountsOK, users
  <2>7. ClaimsOK'
    BY <1>21, CountsOfClaims DEF ApproveStart, ClaimsOK, Crosses
  <2>8. RequestsOK'
    BY <1>21, <2>3, <2>4, <2>1, BegunTypes DEF IInv, ApproveStart, Fits, Steps
  <2>9. \A v \in Worker : Reviewing(v)'
    <3>1. /\ UNCHANGED claims /\ claims[n].status \in Open /\ crossed' = Crosses(n)
          /\ n # 0 /\ n \in 1..Len(claims)
      BY <1>21, <2>1 DEF ApproveStart, OpenToReview
    <3>2. n \notin crossed' => \A v \in Worker : job[v].claim # n
      BY <3>1 DEF Crosses, Reviewed
    <3>3. crossed \subseteq crossed'
      BY <3>1 DEF Crosses
    <3>4. Reviewing(w)'
      BY <2>5, <3>1, <3>2 DEF Reviewing, Moves
    <3>5. \A v \in Worker \ {w} : Reviewing(v)'
      BY <2>5, <3>1, <3>2, <3>3 DEF IInv, Reviewing, Moves
    <3> QED BY <3>4, <3>5
  <2>10. Vouched'
    BY <1>21, <2>5, VouchedQuiet DEF ApproveStart, Answering, Crosses, users
  <2>11. Cached'
    BY <1>21, <2>5, CachedQuiet DEF ApproveStart, Filling, users
  <2> QED BY <2>6, <2>7, <2>8, <2>9, <2>10, <2>11 DEF IInv, TypeOK
<1>22. ASSUME NEW w \in Worker, NEW n \in DOMAIN claims,
              NEW s \in {"REJECTED", "CHANGES_REQUESTED"}, DecideStart(w, n, s)  PROVE IInv'
  <2> DEFINE a == About(claims[n].by)
         j == [a EXCEPT !.claim = n, !.status = s]
  <2>1. n \in 1..Len(claims) /\ n \in Nat /\ n # 0 /\ claims[n].by \in Person
        /\ s \in Open \union {"APPROVED", "REJECTED"}
    BY <1>22, CountsOfClaims, ClaimsAreSequence DEF Claim, Open
  <2>2. a \in Job /\ a.who = claims[n].by /\ a.claim = 0 /\ a.role = "PARENT"
    BY <2>1, JobParts
  <2> HIDE DEF a
  <2>3. j \in Job /\ j.who = claims[n].by /\ j.claim = n /\ j.status = s /\ n # 0
    BY <2>2, <2>1 DEF Job
  <2>4. Begin(w, "decide", j)
    BY <1>22 DEF DecideStart, a
  <2> HIDE DEF j
  <2>5. Moves(w) /\ pc[w] = "idle" /\ pc'[w] = "decide" /\ job'[w].who = claims[n].by
        /\ job'[w].claim = n /\ job'[w].status = s
    BY <1>22, <2>3, <2>4, CountsOfClaims, Begun
  <2>6. AccountsOK'
    BY <1>22, CountsOfClaims DEF DecideStart, AccountsOK, users
  <2>7. ClaimsOK'
    BY <1>22, CountsOfClaims DEF DecideStart, ClaimsOK, Crosses
  <2>8. RequestsOK'
    BY <1>22, <2>3, <2>4, <2>1, BegunTypes DEF IInv, DecideStart, Fits, Steps
  <2>9. \A v \in Worker : Reviewing(v)'
    <3>1. /\ UNCHANGED claims /\ claims[n].status \in Open /\ crossed' = Crosses(n)
          /\ n # 0 /\ n \in 1..Len(claims)
      BY <1>22, <2>1 DEF DecideStart, OpenToReview
    <3>2. n \notin crossed' => \A v \in Worker : job[v].claim # n
      BY <3>1 DEF Crosses, Reviewed
    <3>3. crossed \subseteq crossed'
      BY <3>1 DEF Crosses
    <3>4. Reviewing(w)'
      BY <2>5, <3>1, <3>2 DEF Reviewing, Moves
    <3>5. \A v \in Worker \ {w} : Reviewing(v)'
      BY <2>5, <3>1, <3>2, <3>3 DEF IInv, Reviewing, Moves
    <3> QED BY <3>4, <3>5
  <2>10. Vouched'
    BY <1>22, <2>5, VouchedQuiet DEF DecideStart, Answering, Crosses, users
  <2>11. Cached'
    BY <1>22, <2>5, CachedQuiet DEF DecideStart, Filling, users
  <2> QED BY <2>6, <2>7, <2>8, <2>9, <2>10, <2>11 DEF IInv, TypeOK
<1>23. ASSUME NEW w \in Worker, CreateStart(w)  PROVE IInv'
  <2>1. Moves(w) /\ pc[w] = "idle" /\ pc'[w] = "account" /\ job'[w].who = None
        /\ job'[w].claim = 0
    BY <1>23, CountsOfClaims, JobParts, Begun DEF CreateStart
  <2>2. AccountsOK'
    BY <1>23, CountsOfClaims DEF CreateStart, AccountsOK, users
  <2>3. ClaimsOK'
    BY <1>23, CountsOfClaims DEF CreateStart, ClaimsOK, history
  <2>4. RequestsOK'
    BY <1>23, JobParts, BegunTypes DEF IInv, CreateStart, Fits, Steps
  <2>5. \A v \in Worker : Reviewing(v)'
    BY <1>23, <2>1, ReviewsQuiet DEF CreateStart, history
  <2>6. Vouched'
    BY <1>23, <2>1, VouchedQuiet DEF CreateStart, Answering, users, history
  <2>7. Cached'
    BY <1>23, <2>1, CachedQuiet DEF CreateStart, Filling, users, history
  <2> QED BY <2>2, <2>3, <2>4, <2>5, <2>6, <2>7 DEF IInv, TypeOK
<1>24. ASSUME NEW p \in Person, Expires(p)  PROVE IInv'
  <2>1. UNCHANGED <<claims, pc, job, role, confirmed, school, wanted, created, faults, history>>
    BY <1>24 DEF Expires, users, handler
  <2>2. AccountsOK' /\ ClaimsOK' /\ RequestsOK'
    BY <1>24, <2>1, CountsOfClaims DEF Expires, AccountsOK, ClaimsOK, RequestsOK, history
  <2>3. (\A w \in Worker : Reviewing(w)') /\ Vouched'
    BY <2>1 DEF IInv, Reviewing, Vouched, Answering, Approved, LeaderIsVouched,
      ApprovedIsLeader, history
  <2>4. \A q \in Person : cache'[q] = None \/ cache'[q] = cache[q]
    BY <1>24, CountsOfClaims DEF Expires, AccountsOK
  <2>5. CacheIsFresh'
    BY <2>1, <2>4 DEF IInv, Cached, CacheIsFresh, Tenancy, At, history
  <2>6. \A w \in Worker : Filling(w)'
    BY <2>1 DEF IInv, Cached, Filling, history
  <2> QED BY <2>2, <2>3, <2>5, <2>6 DEF IInv, TypeOK, Cached
<1>25. ASSUME NEW w \in Worker, Proceed(w)  PROVE IInv'
  BY <1>25, <1>1, <1>2, <1>3, <1>4, <1>5, <1>6, <1>7, <1>8, <1>9, <1>10, <1>11, <1>12, <1>13,
    <1>14, <1>15 DEF Proceed
<1>26. ASSUME NEW w \in Worker, Request(w)  PROVE IInv'
  <2>1. CASE CreateStart(w)
    BY <2>1, <1>23
  <2>2. CASE \E p \in Person : FillStart(w, p) \/ \E approve \in BOOLEAN :
             ReviewStart(w, p, approve)
    BY <2>2, <1>17, <1>20
  <2>3. CASE \E p \in Person : \E how \in {"code", "search", "alone"} :
               \E r \in {"PARENT", "CHILD", "TEACHER"} : AnswerStart(w, p, r, how)
    BY <2>3, <1>18
  <2>4. CASE \E p \in Person : \E how \in {"code", "alone"} : SubmitStart(w, p, how)
    BY <2>4, <1>19
  <2>5. CASE \E n \in DOMAIN claims : ApproveStart(w, n)
    BY <2>5, <1>21
  <2>6. CASE \E n \in DOMAIN claims : \E s \in {"REJECTED", "CHANGES_REQUESTED"} :
             DecideStart(w, n, s)
    BY <2>6, <1>22
  <2> QED BY <1>26, <2>1, <2>2, <2>3, <2>4, <2>5, <2>6 DEF Request
<1> QED BY <1>16, <1>24, <1>25, <1>26 DEF Next

\* The invariant holds at first.
LEMMA InitHolds ==
  ASSUME Init  PROVE IInv
<1>1. \A w \in Worker : pc[w] = "idle" /\ job[w] = NoJob
  BY DEF Init
<1>2. NoJob \in Job /\ NoJob.who = None /\ NoJob.claim = 0
  BY DEF NoJob, Job, Role, School, Open
<1>3. claims = <<>> /\ Len(claims) = 0 /\ claims \in Seq(Claim)
  BY DEF Init
<1>4. AccountsOK
  <2>1. PICK account \in [Person -> SignedUp] :
          /\ role = [p \in Person |-> account[p].role]
          /\ confirmed = [p \in Person |-> account[p].confirmed]
          /\ school = [p \in Person |-> account[p].school]
          /\ wanted = [p \in Person |-> account[p].wanted]
    BY DEF Init
  <2>2. \A a \in SignedUp : /\ a.role \in Role /\ a.confirmed \in BOOLEAN
                            /\ a.school \in School /\ a.wanted \in BOOLEAN
    BY DEF SignedUp, Role, School
  <2>3. cache = [p \in Person |-> None]
    BY DEF Init
  <2> QED BY <2>1, <2>2, <2>3 DEF AccountsOK
<1>5. ClaimsOK
  BY <1>3 DEF Init, ClaimsOK
<1>6. RequestsOK
  BY <1>1, <1>2, <1>3 DEF Init, RequestsOK
<1>7. \A w \in Worker : Reviewing(w) /\ Answering(w) /\ Filling(w)
  BY <1>1, <1>2 DEF Reviewing, Answering, Filling
<1>8. LeaderIsVouched /\ ApprovedIsLeader
      /\ (\A n \in 1..Len(claims) : Approved(n) => confirmed[claims[n].by])
  BY <1>3 DEF Init, LeaderIsVouched, ApprovedIsLeader
<1>9. CacheIsFresh
  BY DEF Init, CacheIsFresh
<1> QED BY <1>4, <1>5, <1>6, <1>7, <1>8, <1>9 DEF IInv, TypeOK, Vouched, Cached

\* A step that changes nothing keeps it.
LEMMA StutterKeeps ==
  ASSUME IInv, UNCHANGED vars  PROVE IInv'
<1> USE DEF vars, users, handler, history
<1>1. AccountsOK' /\ ClaimsOK' /\ RequestsOK'
  BY CountsOfClaims DEF AccountsOK, ClaimsOK, RequestsOK
<1>2. (\A w \in Worker : Reviewing(w)') /\ Vouched'
  BY DEF IInv, Reviewing, Vouched, Answering, Approved, LeaderIsVouched, ApprovedIsLeader
<1>3. Cached'
  BY DEF IInv, Cached, Filling, CacheIsFresh, Tenancy, At
<1> QED BY <1>1, <1>2, <1>3 DEF IInv, TypeOK

\* The invariant of the proofs.
THEOREM InvariantHolds == Spec => []IInv
<1>1. IInv /\ [Next]_vars => IInv'
  BY StepsKeep, StutterKeeps
<1> QED BY <1>1, InitHolds, PTL DEF Spec

\* A step that changes the claims changes one: a new row, or the one at hand.
LEMMA ClaimsChangeAt ==
  ASSUME IInv, Next
  PROVE  claims' = claims \/ \E w \in Worker : \E m \in {Len(claims) + 1, job[w].claim} :
         ChangesAt(m)
<1>1. ASSUME NEW w \in Worker, SubmitCreate(w)  PROVE ChangesAt(Len(claims) + 1)
  <2>1. [by |-> job[w].who, status |-> "PENDING"] \in Claim
    BY <1>1, WhoIsPerson DEF SubmitCreate, Claim, Open
  <2> QED BY <1>1, <2>1, CountsOfClaims, AppendChanges DEF SubmitCreate
<1>2. ASSUME NEW w \in Worker, Decide(w)  PROVE ChangesAt(job[w].claim)
  <2>1. job[w].claim \in 1..Len(claims)
        /\ job[w].status \in Open \union {"APPROVED", "REJECTED"}
    BY <1>2, WhoIsPerson DEF Decide, IInv, Reviewing, Job
  <2> QED BY <1>2, <2>1, CountsOfClaims, StatusChanges DEF Decide
<1>3. ASSUME NEW w \in Worker, GrantCommit(w)
      PROVE  \E m \in {Len(claims) + 1, job[w].claim} : ChangesAt(m)
  <2>1. job[w].claim \in 0..Len(claims) /\ job[w].who \in Person
    BY <1>3, CountsOfClaims, WhoIsPerson DEF GrantCommit
  <2> QED BY <1>3, <2>1, CountsOfClaims, RecordChanges DEF GrantCommit
<1>4. ASSUME NEW w \in Worker, Request(w)  PROVE UNCHANGED claims
  BY <1>4 DEF Request, FillStart, AnswerStart, SubmitStart, ReviewStart, ApproveStart,
    DecideStart, CreateStart
<1>5. ASSUME NEW w \in Worker, Proceed(w), ~SubmitCreate(w), ~Decide(w), ~GrantCommit(w)
      PROVE  UNCHANGED claims
  BY <1>5 DEF Proceed, AnswerProfile, AnswerRole, Drop, FillSet, SubmitFind, SubmitConfirm,
    Grant,
     GrantDrop, Decline, CountSeats, Admit, CreateStudent, users
<1>6. ASSUME NEW w \in Worker, Fail(w)  PROVE UNCHANGED claims
  BY <1>6 DEF Fail
<1>7. ASSUME NEW p \in Person, Expires(p)  PROVE UNCHANGED claims
  BY <1>7 DEF Expires
<1> QED BY <1>1, <1>2, <1>3, <1>4, <1>5, <1>6, <1>7 DEF Next

THEOREM DecisionsStand == Spec => DecisionIsFinal
<1> DEFINE Final == \A n \in DOMAIN claims \ crossed :
      claims[n].status \in {"APPROVED", "REJECTED"} => claims'[n].status = claims[n].status
<1>1. IInv /\ Next => Final
  <2> SUFFICES ASSUME IInv, Next, NEW n \in DOMAIN claims \ crossed,
                      claims[n].status \in {"APPROVED", "REJECTED"}
               PROVE  claims'[n].status = claims[n].status
    OBVIOUS
  <2>1. CASE claims' = claims
    BY <2>1
  <2>2. CASE claims' # claims
    <3>1. PICK w \in Worker : \E m \in {Len(claims) + 1, job[w].claim} : ChangesAt(m)
      BY <2>2, ClaimsChangeAt
    <3>2. PICK m \in {Len(claims) + 1, job[w].claim} : ChangesAt(m)
      BY <3>1
    <3>3. n \in 1..Len(claims) /\ n # Len(claims) + 1 /\ n # 0
      BY ClaimsAreSequence, CountsOfClaims
    <3>4. n # job[w].claim
      BY <3>3 DEF IInv, Reviewing, Open
    <3>5. claims'[n] = claims[n]
      BY <3>2, <3>3, <3>4 DEF ChangesAt
    <3> QED BY <3>5
  <2> QED BY <2>1, <2>2
<1>2. IInv /\ [Next]_vars => [Final]_vars
  BY <1>1
<1>3. Spec => [][Final]_vars
  BY <1>2, InvariantHolds, PTL DEF Spec
<1> QED BY <1>3 DEF DecisionIsFinal

THEOREM TypesHold == Spec => []TypeOK
<1>1. IInv => TypeOK
  BY DEF IInv
<1> QED BY <1>1, InvariantHolds, PTL

THEOREM VouchersHold == Spec => []RolesAreVouched
<1>1. IInv => RolesAreVouched
  BY DEF IInv, Vouched, RolesAreVouched
<1> QED BY <1>1, InvariantHolds, PTL

THEOREM CopiesAreFresh == Spec => []CacheIsFresh
<1>1. IInv => CacheIsFresh
  BY DEF IInv, Cached
<1> QED BY <1>1, InvariantHolds, PTL
-----------------------------------------------------------------------------
(* Seats: counted by a request, taken by a later step of it *)

Enrolled == {p \in Person : school[p] = "school"}
Students == {p \in Person : school[p] = "school" /\ role[p] = "CHILD"}
Counted  == created + Cardinality(admitted)

\* The requests that found a seat and have yet to take it.
Seating == {w \in Worker : pc[w] = "account" \/ (pc[w] = "admit" /\ job[w].role = "CHILD")}

\* Whoever was admitted is a student, so a count sees every seat taken before
\* it; the seats taken and those about to be are within the limit, plus one for
\* each request that counted with another.
SeatsInv ==
  /\ IsFiniteSet(Enrolled)
  /\ admitted \subseteq Students
  /\ Counted > 0 \/ Seating # {} =>
       Counted + Cardinality(Seating) <= StudentLimit + Cardinality(Worker) - 1

\* The numbers in it.
LEMMA SeatNumbers ==
  ASSUME IInv, SeatsInv
  PROVE  /\ IsFiniteSet(Students) /\ IsFiniteSet(admitted) /\ IsFiniteSet(Seating)
         /\ Cardinality(admitted) \in Nat /\ Cardinality(Seating) \in Nat
         /\ Cardinality(Worker) \in Nat /\ created \in Nat /\ Counted \in Nat
         /\ Seats \in Nat /\ Counted <= Seats
<1>1. Students \subseteq Enrolled /\ Seating \subseteq Worker
  BY DEF Students, Enrolled, Seating
<1>2. IsFiniteSet(Students)
  BY <1>1, FS_Subset DEF SeatsInv
<1>3. IsFiniteSet(admitted) /\ Cardinality(admitted) <= Cardinality(Students)
  BY <1>2, FS_Subset DEF SeatsInv
<1>4. IsFiniteSet(Seating)
  BY <1>1, FS_Subset
<1>5. /\ Cardinality(admitted) \in Nat /\ Cardinality(Seating) \in Nat
      /\ Cardinality(Worker) \in Nat /\ Cardinality(Students) \in Nat
  BY <1>2, <1>3, <1>4, FS_CardinalityType
<1>6. created \in Nat
  BY CountsOfClaims DEF ClaimsOK
<1>7. Seats = created + Cardinality(Students)
  BY DEF Seats, Students
<1> QED BY <1>2, <1>3, <1>4, <1>5, <1>6, <1>7 DEF Counted

\* No seat is taken or found: a step may take back some, and enrols one person
\* at most.
LEMMA SeatsSettle ==
  ASSUME IInv, SeatsInv, NEW p, Enrolled' \subseteq Enrolled \union {p}, created' = created,
         admitted' \subseteq admitted, admitted' \subseteq Students', Seating' \subseteq Seating
  PROVE  SeatsInv'
<1>1. IsFiniteSet(Enrolled')
  <2>1. IsFiniteSet(Enrolled \union {p})
    BY FS_AddElement DEF SeatsInv
  <2> QED BY <2>1, FS_Subset
<1>2. /\ Cardinality(admitted') <= Cardinality(admitted) /\ Cardinality(admitted') \in Nat
      /\ Cardinality(Seating') <= Cardinality(Seating) /\ Cardinality(Seating') \in Nat
  <2>1. IsFiniteSet(admitted') /\ IsFiniteSet(Seating')
    BY SeatNumbers, FS_Subset
  <2> QED BY <2>1, SeatNumbers, FS_Subset, FS_CardinalityType
<1>3. Counted' <= Counted /\ Counted' \in Nat
  BY <1>2, SeatNumbers DEF Counted
<1>4. Counted' > 0 => Counted > 0
  BY <1>3, SeatNumbers
<1>5. Seating' # {} => Seating # {}
  OBVIOUS
<1>6. Counted' > 0 \/ Seating' # {} =>
        Counted' + Cardinality(Seating') <= StudentLimit + Cardinality(Worker) - 1
  <2> SUFFICES ASSUME Counted' > 0 \/ Seating' # {}
               PROVE  Counted' + Cardinality(Seating') <= StudentLimit + Cardinality(Worker) - 1
    OBVIOUS
  <2>1. Counted + Cardinality(Seating) <= StudentLimit + Cardinality(Worker) - 1
    BY <1>4, <1>5 DEF SeatsInv
  <2> QED BY <2>1, <1>2, <1>3, SeatNumbers
<1> QED BY <1>1, <1>6 DEF SeatsInv

\* A step that touches no account, and whose request does not come to a seat.
LEMMA SeatsQuiet ==
  ASSUME IInv, SeatsInv, NEW w \in Worker, Moves(w), UNCHANGED <<school, role, created, admitted>>,
         pc'[w] \notin {"admit", "account"} \/ (pc'[w] = "admit" /\ job'[w].role # "CHILD")
  PROVE  SeatsInv'
<1>1. Seating' \subseteq Seating
  BY DEF Seating, Moves
<1>2. Enrolled' \subseteq Enrolled \union {w} /\ Students' = Students
  BY DEF Enrolled, Students
<1> QED BY <1>1, <1>2, SeatsSettle DEF SeatsInv

\* Only p's account changes, p is no longer counted as admitted, and the request
\* does not come to a seat.
LEMMA SeatsLeft ==
  ASSUME IInv, SeatsInv, NEW w \in Worker, Moves(w), NEW p, created' = created,
         \A q \in Person \ {p} : school'[q] = school[q] /\ role'[q] = role[q],
         admitted' = admitted \ {p}, pc'[w] \notin {"admit", "account"}
  PROVE  SeatsInv'
<1>1. Seating' \subseteq Seating
  BY DEF Seating, Moves
<1>2. Enrolled' \subseteq Enrolled \union {p}
  BY DEF Enrolled
<1>3. admitted' \subseteq Students'
  BY DEF SeatsInv, Students
<1> QED BY <1>1, <1>2, <1>3, SeatsSettle

\* A request that finds a seat: what was counted is below the limit, and no
\* more requests than there are can be on their way.
LEMMA SeatFound ==
  ASSUME IInv, SeatsInv, HasSeat, UNCHANGED <<school, role, created, admitted>>
  PROVE  SeatsInv'
<1>1. Enrolled' = Enrolled /\ Students' = Students /\ Counted' = Counted
  BY DEF Enrolled, Students, Counted
<1>2. Seating' \subseteq Worker
  BY DEF Seating
<1>3. Cardinality(Seating') <= Cardinality(Worker) /\ Cardinality(Seating') \in Nat
  BY <1>2, FS_Subset, FS_CardinalityType
<1>4. Counted <= StudentLimit - 1
  BY SeatNumbers DEF HasSeat
<1>5. Counted' + Cardinality(Seating') <= StudentLimit + Cardinality(Worker) - 1
  BY <1>1, <1>3, <1>4, SeatNumbers
<1> QED BY <1>1, <1>5 DEF SeatsInv

\* A request that takes the seat it found: one seat more is counted, and one
\* request fewer is on its way.
LEMMA SeatTaken ==
  ASSUME IInv, SeatsInv, NEW w \in Seating, Moves(w), pc'[w] \notin {"admit", "account"},
         NEW p, Enrolled' \subseteq Enrolled \union {p}, admitted' \subseteq Students',
         Counted' \in Nat, Counted' <= Counted + 1
  PROVE  SeatsInv'
<1>1. IsFiniteSet(Enrolled')
  <2>1. IsFiniteSet(Enrolled \union {p})
    BY FS_AddElement DEF SeatsInv
  <2> QED BY <2>1, FS_Subset
<1>2. Seating' = Seating \ {w}
  BY DEF Seating, Moves
<1>3. Cardinality(Seating') = Cardinality(Seating) - 1
  BY <1>2, SeatNumbers, FS_RemoveElement
<1>4. Counted + Cardinality(Seating) <= StudentLimit + Cardinality(Worker) - 1
  BY DEF SeatsInv
<1>5. Counted' + Cardinality(Seating') <= StudentLimit + Cardinality(Worker) - 1
  BY <1>3, <1>4, SeatNumbers
<1> QED BY <1>1, <1>5 DEF SeatsInv

\* Every step keeps the count.
LEMMA SeatsKept ==
  ASSUME IInv, SeatsInv, Next  PROVE SeatsInv'
<1> USE CountsOfClaims
<1>1. ASSUME NEW w \in Worker, AnswerProfile(w)  PROVE SeatsInv'
  <2>1. Moves(w) /\ pc'[w] = "answer"
    BY <1>1, Continued DEF AnswerProfile
  <2>2. \A q \in Person \ {job[w].who} : school'[q] = school[q] /\ role'[q] = role[q]
    BY <1>1 DEF AnswerProfile, AccountsOK
  <2>3. admitted' = admitted \ {job[w].who} /\ created' = created
    BY <1>1 DEF AnswerProfile
  <2> QED BY <2>1, <2>2, <2>3, SeatsLeft
<1>2. ASSUME NEW w \in Worker, AnswerRole(w)  PROVE SeatsInv'
  <2>1. Moves(w) /\ pc'[w] = "drop"
    BY <1>2, Continued DEF AnswerRole
  <2>2. \A q \in Person \ {job[w].who} : school'[q] = school[q] /\ role'[q] = role[q]
    BY <1>2 DEF AnswerRole, AccountsOK
  <2>3. admitted' = admitted \ {job[w].who} /\ created' = created
    BY <1>2 DEF AnswerRole
  <2> QED BY <2>1, <2>2, <2>3, SeatsLeft
<1>3. ASSUME NEW w \in Worker, GrantCommit(w)  PROVE SeatsInv'
  <2>1. Moves(w) /\ pc'[w] = "idle"
    BY <1>3, Finished DEF GrantCommit
  <2>2. \A q \in Person \ {job[w].who} : school'[q] = school[q] /\ role'[q] = role[q]
    BY <1>3 DEF GrantCommit, AccountsOK
  <2>3. admitted' = admitted \ {job[w].who} /\ created' = created
    BY <1>3 DEF GrantCommit
  <2> QED BY <2>1, <2>2, <2>3, SeatsLeft
<1>4. ASSUME NEW w \in Worker, CountSeats(w)  PROVE SeatsInv'
  <2>1. UNCHANGED <<school, role, created, admitted>>
    BY <1>4 DEF CountSeats, users, history
  <2>2. CASE HasSeat
    BY <2>1, <2>2, SeatFound
  <2>3. CASE ~HasSeat
    <3>1. Moves(w) /\ pc'[w] = "idle"
      BY <1>4, <2>3, Finished DEF CountSeats
    <3> QED BY <2>1, <3>1, SeatsQuiet
  <2> QED BY <2>2, <2>3
<1>5. ASSUME NEW w \in Worker, CreateStart(w)  PROVE SeatsInv'
  <2>1. UNCHANGED <<school, role, created, admitted>> /\ HasSeat
    BY <1>5 DEF CreateStart, users, history
  <2> QED BY <2>1, SeatFound
<1>6. ASSUME NEW w \in Worker, CreateStudent(w)  PROVE SeatsInv'
  <2>1. Moves(w) /\ pc'[w] = "idle" /\ w \in Seating
    BY <1>6, Finished DEF CreateStudent, Seating
  <2>2. UNCHANGED <<school, role, admitted>> /\ created' = created + 1
    BY <1>6 DEF CreateStudent, users, history
  <2>3. Enrolled' \subseteq Enrolled \union {w} /\ admitted' \subseteq Students'
    BY <2>2 DEF Enrolled, Students, SeatsInv
  <2>4. Counted = created + Cardinality(admitted)
        /\ Counted' = created + 1 + Cardinality(admitted)
    BY <2>2 DEF Counted
  <2>5. created \in Nat /\ Cardinality(admitted) \in Nat
    BY SeatNumbers
  <2>6. Counted' \in Nat /\ Counted' <= Counted + 1
    BY <2>4, <2>5
  <2> QED BY <2>1, <2>3, <2>6, SeatTaken
<1>7. ASSUME NEW w \in Worker, Admit(w)  PROVE SeatsInv'
  <2> DEFINE p == job[w].who
  <2>1. Moves(w) /\ pc'[w] = "drop" /\ p \in Person
    BY <1>7, Continued, WhoIsPerson DEF Admit
  <2>2. /\ school' = [school EXCEPT ![p] = "school"] /\ UNCHANGED <<role, created>>
        /\ admitted' = IF job[w].role = "CHILD" /\ role[p] = "CHILD"
                         THEN admitted \union {p} ELSE admitted
        /\ pc[w] = "admit"
    BY <1>7 DEF Admit
  <2> HIDE DEF p
  <2>3. Enrolled' \subseteq Enrolled \union {p}
    BY <2>2 DEF Enrolled, AccountsOK
  <2>4. admitted' \subseteq Students'
    <3>1. admitted \subseteq Students'
      BY <2>2 DEF SeatsInv, Students, AccountsOK
    <3>2. role[p] = "CHILD" => p \in Students'
      BY <2>1, <2>2 DEF Students, AccountsOK
    <3> QED BY <2>2, <3>1, <3>2
  <2>5. CASE job[w].role = "CHILD" /\ role[p] = "CHILD"
    <3>1. w \in Seating
      BY <2>2, <2>5 DEF Seating
    <3>2. admitted' = admitted \union {p}
      BY <2>2, <2>5
    <3>3. Cardinality(admitted') <= Cardinality(admitted) + 1 /\ Cardinality(admitted') \in Nat
      <4>1. IsFiniteSet(admitted')
            /\ Cardinality(admitted') = IF p \in admitted THEN Cardinality(admitted)
                                        ELSE Cardinality(admitted) + 1
        BY <3>2, SeatNumbers, FS_AddElement
      <4> QED BY <4>1, SeatNumbers
    <3>4. Counted' \in Nat /\ Counted' <= Counted + 1
      <4>1. Counted = created + Cardinality(admitted)
            /\ Counted' = created + Cardinality(admitted')
        BY <2>2 DEF Counted
      <4>2. created \in Nat /\ Cardinality(admitted) \in Nat
        BY SeatNumbers
      <4> QED BY <3>3, <4>1, <4>2
    <3> QED BY <2>1, <2>3, <2>4, <3>1, <3>4, SeatTaken
  <2>6. CASE ~(job[w].role = "CHILD" /\ role[p] = "CHILD")
    <3>1. Seating' \subseteq Seating
      BY <2>1 DEF Seating, Moves
    <3>2. admitted' = admitted
      BY <2>2, <2>6
    <3> QED BY <2>2, <2>3, <2>4, <3>1, <3>2, SeatsSettle
  <2> QED BY <2>5, <2>6
<1>8. ASSUME NEW w \in Worker, NEW p \in Person, NEW approve \in BOOLEAN,
             ReviewStart(w, p, approve)
      PROVE  SeatsInv'
  <2>1. PICK step \in {"decline", "seats", "admit"} :
          /\ Begin(w, step, [About(p) EXCEPT !.role = role[p]])
          /\ step = "admit" => role[p] # "CHILD"
    BY <1>8 DEF ReviewStart
  <2>2. Moves(w) /\ pc'[w] = step /\ job'[w] = [About(p) EXCEPT !.role = role[p]]
    BY <2>1, Begun
  <2>3. [About(p) EXCEPT !.role = role[p]].role = role[p]
    BY JobParts DEF Job
  <2>4. UNCHANGED <<school, role, created, admitted>>
    BY <1>8 DEF ReviewStart, users, history
  <2> QED BY <2>1, <2>2, <2>3, <2>4, SeatsQuiet
<1>9. ASSUME NEW w \in Worker, Proceed(w), ~AnswerProfile(w), ~AnswerRole(w), ~GrantCommit(w),
             ~CountSeats(w), ~CreateStudent(w), ~Admit(w)
      PROVE  SeatsInv'
  <2>1. UNCHANGED <<school, role, created, admitted>>
    BY <1>9 DEF Proceed, Drop, FillSet, SubmitFind, SubmitCreate, SubmitConfirm, Grant,
      GrantDrop, Decide, Decline, users, history
  <2>2. \/ Finish(w)
        \/ \E step \in {"grant", "create", "confirm", "grantDrop", "grantCommit"} : \E j :
             Continue(w, step, j)
    BY <1>9 DEF Proceed, Drop, FillSet, SubmitFind, SubmitCreate, SubmitConfirm, Grant,
      GrantDrop, Decide, Decline
  <2>3. Moves(w) /\ pc'[w] \notin {"admit", "account"}
    BY <2>2, Finished, Continued
  <2> QED BY <2>1, <2>3, SeatsQuiet
<1>10. ASSUME NEW w \in Worker, Request(w),
              \A p \in Person, approve \in BOOLEAN : ~ReviewStart(w, p, approve),
              ~CreateStart(w)
       PROVE  SeatsInv'
  <2> DEFINE Other == /\ UNCHANGED <<school, role, created, admitted>>
                      /\ \E step \in {"fill", "answer", "profile", "open", "grant", "decide"} : \E j :
                           Begin(w, step, j)
  <2>1. ASSUME NEW p \in Person, FillStart(w, p)  PROVE Other
    BY <2>1 DEF FillStart, users, history
  <2>2. ASSUME NEW p \in Person, NEW r, NEW how, AnswerStart(w, p, r, how)  PROVE Other
    BY <2>2 DEF AnswerStart, users, history
  <2>3. ASSUME NEW p \in Person, NEW how, SubmitStart(w, p, how)  PROVE Other
    BY <2>3 DEF SubmitStart, users, history
  <2>4. ASSUME NEW n \in DOMAIN claims, ApproveStart(w, n)  PROVE Other
    BY <2>4 DEF ApproveStart, users
  <2>5. ASSUME NEW n \in DOMAIN claims, NEW s, DecideStart(w, n, s)  PROVE Other
    BY <2>5 DEF DecideStart, users
  <2> HIDE DEF Other
  <2>6. Other
    BY <1>10, <2>1, <2>2, <2>3, <2>4, <2>5 DEF Request
  <2>7. Moves(w) /\ pc'[w] \notin {"admit", "account"}
    BY <2>6, Begun DEF Other
  <2> QED BY <2>6, <2>7, SeatsQuiet DEF Other
<1>11. ASSUME NEW w \in Worker, Fail(w)  PROVE SeatsInv'
  <2>1. Moves(w) /\ pc'[w] = "idle" /\ UNCHANGED <<school, role, created, admitted>>
    BY <1>11, Finished DEF Fail, users
  <2> QED BY <2>1, SeatsQuiet
<1>12. ASSUME NEW p \in Person, Expires(p)  PROVE SeatsInv'
  <2>1. UNCHANGED <<school, role, created, admitted, pc, job>>
    BY <1>12 DEF Expires, users, handler, history
  <2> QED BY <2>1 DEF SeatsInv, Enrolled, Students, Seating, Counted
<1> QED BY <1>1, <1>2, <1>3, <1>4, <1>5, <1>6, <1>7, <1>8, <1>9, <1>10, <1>11, <1>12
      DEF Next, Request

\* The students a school has let in stay near its limit, for any number of
\* people and of requests: at most one too many for every other request.
THEOREM SeatsStayNearLimit == Spec => []SeatsNearLimit
<1>1. Init => SeatsInv
  <2> SUFFICES ASSUME Init  PROVE SeatsInv
    OBVIOUS
  <2>1. Enrolled \subseteq Person /\ admitted = {} /\ Seating = {} /\ created = 0
    BY DEF Init, Enrolled, Seating
  <2>2. IsFiniteSet({}) /\ Cardinality({}) = 0
    BY FS_EmptySet
  <2>3. Counted = 0
    BY <2>1, <2>2 DEF Counted
  <2>4. IsFiniteSet(Enrolled)
    BY <2>1, FS_Subset
  <2> QED BY <2>1, <2>2, <2>3, <2>4 DEF SeatsInv
<1>2. IInv /\ SeatsInv /\ UNCHANGED vars => SeatsInv'
  BY DEF vars, users, handler, history, SeatsInv, Enrolled, Students, Seating, Counted
<1>3. IInv /\ SeatsInv /\ [Next]_vars => SeatsInv'
  BY <1>2, SeatsKept
<1>4. IInv /\ SeatsInv => SeatsNearLimit
  <2> SUFFICES ASSUME IInv, SeatsInv, Counted > 0
               PROVE  Counted <= StudentLimit + Cardinality(Worker) - 1
    BY DEF SeatsNearLimit, Counted
  <2>1. Counted + Cardinality(Seating) <= StudentLimit + Cardinality(Worker) - 1
    BY DEF SeatsInv
  <2> QED BY <2>1, SeatNumbers
<1> QED BY <1>1, <1>3, <1>4, InvariantHolds, PTL DEF Spec
=============================================================================
