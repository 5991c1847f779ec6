----------------------------- MODULE Membership -----------------------------
(***************************************************************************)
(* Who belongs to a school and in which role: the answer to "How will you  *)
(* use Kidora?", claims to an administrative role and their review, join   *)
(* requests and the seats of a school, and the copy of an account's role   *)
(* and school that JwtStrategy caches for a minute.                        *)
(*                                                                         *)
(* Handlers read first and write later, mostly outside a transaction.  The *)
(* grant of a role is a transaction: it holds the account's row from its   *)
(* update to the commit, and nobody sees the update before that.  There is *)
(* one school, and "own" stands for an organisation made for a claim or at *)
(* sign-up.  SCHOOL_LEADER stands for SCHOOL_ADMIN and DISTRICT_ADMIN too. *)
(***************************************************************************)
EXTENDS Integers, FiniteSets, Sequences

CONSTANTS
  Worker, Person, None,
  StudentLimit,   \* School.studentLimit
  MaxClaim,       \* bound on the OrgAccessRequest rows
  MaxCreated,     \* bound on the student accounts made by the school
  MaxFault        \* bound on failed requests and failed busts

ASSUME MembershipAssumption ==
  /\ None \notin Person \union Worker \union Nat /\ IsFiniteSet(Person) /\ IsFiniteSet(Worker)
  /\ StudentLimit \in Nat /\ MaxClaim \in Nat /\ MaxCreated \in Nat /\ MaxFault \in Nat

Role   == {"PARENT", "CHILD", "TEACHER", "SCHOOL_LEADER"}
School == {"school", "own", "none"}
Open   == {"PENDING", "CHANGES_REQUESTED"}
Claim  == [by : Person, status : Open \union {"APPROVED", "REJECTED"}]

VARIABLES
  role, confirmed, school, wanted,  \* columns of User; wanted: requestedSchoolId
  claims,         \* the OrgAccessRequest rows
  created,        \* the student accounts the school has made
  cache,          \* cache[p]: the tenancy in Redis, or None
  pc, job,        \* the requests being served
  faults,
  chosen,         \* history: people who registered with an administrative role
  admitted,       \* history: students whose seat was counted before they got it
  crossed,        \* history: claims two reviewers decided at one time
  overrun,        \* history: people granted a role while their answer was saved
  doubtful        \* history: people whose cached copy nothing will drop

users   == <<role, confirmed, school, wanted>>
handler == <<pc, job>>
history == <<chosen, admitted, crossed, overrun, doubtful>>
vars    == <<users, claims, created, cache, handler, faults, history>>

Tenancy(p) == [role |-> role[p], school |-> school[p]]

\* A request: whom and which claim it is about, what it will write and what
\* it has read.
Job == [who : Person \union {None}, claim : Nat, how : {"code", "search", "alone"},
        role : Role, school : School, status : Open \union {"APPROVED", "REJECTED"}]
NoJob == [who |-> None, claim |-> 0, how |-> "alone", role |-> "PARENT", school |-> "none",
          status |-> "PENDING"]
About(p) == [NoJob EXCEPT !.who = p]

AccountsOK ==
  /\ role \in [Person -> Role] /\ confirmed \in [Person -> BOOLEAN]
  /\ school \in [Person -> School] /\ wanted \in [Person -> BOOLEAN]
  /\ cache \in [Person -> [role : Role, school : School] \union {None}]

ClaimsOK ==
  /\ claims \in Seq(Claim) /\ created \in Nat /\ faults \in Nat
  /\ chosen \subseteq Person /\ admitted \subseteq Person /\ crossed \subseteq 1..Len(claims)
  /\ overrun \subseteq Person /\ doubtful \subseteq Person

RequestsOK ==
  /\ pc \in [Worker -> {"idle", "profile", "answer", "drop", "open", "create", "confirm",
                        "grant", "grantDrop", "grantCommit", "decide", "decline", "seats",
                        "admit", "account", "fill"}]
  /\ job \in [Worker -> Job]
  /\ \A w \in Worker : /\ pc[w] \in {"idle", "account"} <=> job[w].who = None
                       /\ job[w].claim \in 0..Len(claims)

TypeOK == AccountsOK /\ ClaimsOK /\ RequestsOK

\* What register leaves of an account.  A role picked on the form is stored as
\* picked, the administrative ones with the organisation made for them: a
\* school of their own, or a district and no school.
SignedUp ==
  LET Account(roles, answered, schools, asked) ==
        [role : roles, confirmed : answered, school : schools, wanted : asked]
  IN  Account({"PARENT"}, BOOLEAN, {"none"}, {FALSE})
      \union Account({"CHILD", "TEACHER"}, {TRUE}, {"none"}, BOOLEAN)
      \union Account({"CHILD", "TEACHER"}, {TRUE}, {"school"}, {FALSE})
      \union Account({"SCHOOL_LEADER"}, {TRUE}, {"own", "none"}, {FALSE})

\* Everybody has registered, in one way or another.
Init ==
  /\ \E account \in [Person -> SignedUp] :
       /\ role = [p \in Person |-> account[p].role]
       /\ confirmed = [p \in Person |-> account[p].confirmed]
       /\ school = [p \in Person |-> account[p].school]
       /\ wanted = [p \in Person |-> account[p].wanted]
  /\ chosen = {p \in Person : role[p] = "SCHOOL_LEADER"}
  /\ claims = <<>> /\ created = 0 /\ cache = [p \in Person |-> None]
  /\ pc = [w \in Worker |-> "idle"] /\ job = [w \in Worker |-> NoJob]
  /\ faults = 0 /\ admitted = {} /\ crossed = {} /\ overrun = {} /\ doubtful = {}

-----------------------------------------------------------------------------
(* Requests, the account's row and the cache *)

Begin(w, step, j) ==
  /\ pc[w] = "idle"
  /\ pc' = [pc EXCEPT ![w] = step]
  /\ job' = [job EXCEPT ![w] = j]

Continue(w, step, j) ==
  /\ pc' = [pc EXCEPT ![w] = step]
  /\ job' = [job EXCEPT ![w] = j]

Finish(w) ==
  /\ pc' = [pc EXCEPT ![w] = "idle"]
  /\ job' = [job EXCEPT ![w] = NoJob]

At(p, steps) == \E w \in Worker : pc[w] \in steps /\ job[w].who = p

\* The account's row is locked by a grant that has not committed.
Held(p) == At(p, {"grantDrop", "grantCommit"})

\* p's row changes while a fill carries what it was.
InDoubt(p) == IF At(p, {"fill"}) THEN doubtful \union {p} ELSE doubtful

\* Mutant: the cached copy is left to run out.
BustNever(p) == UNCHANGED <<cache, faults, doubtful>>

\* bustTenancy; when Redis fails the error is logged and the copy stays.
BustTenancy(p) ==
  \/ cache' = [cache EXCEPT ![p] = None] /\ UNCHANGED <<faults, doubtful>>
  \/ /\ faults < MaxFault /\ faults' = faults + 1
     /\ doubtful' = doubtful \union {p}
     /\ UNCHANGED cache

\* The last step of an answer and of an admission.
Drop(w) ==
  /\ pc[w] = "drop"
  /\ BustTenancy(job[w].who)
  /\ Finish(w)
  /\ UNCHANGED <<users, claims, created, chosen, admitted, crossed, overrun>>

\* JwtStrategy.tenancy: a miss reads the account and then fills the cache.
FillStart(w, p) ==
  /\ cache[p] = None
  /\ Begin(w, "fill", [About(p) EXCEPT !.role = role[p], !.school = school[p]])
  /\ UNCHANGED <<users, claims, created, cache, faults, history>>

FillSet(w) ==
  /\ pc[w] = "fill"
  /\ cache' = [cache EXCEPT ![job[w].who] = [role |-> job[w].role, school |-> job[w].school]]
  /\ Finish(w)
  /\ UNCHANGED <<users, claims, created, faults, history>>

\* TENANCY_TTL.
Expires(p) ==
  /\ cache[p] # None
  /\ cache' = [cache EXCEPT ![p] = None]
  /\ UNCHANGED <<users, claims, created, handler, faults, history>>

-----------------------------------------------------------------------------
(* AuthService.selectRole *)

MayAnswer(p) == ~confirmed[p]

AnswerStart(w, p, r, how) ==
  /\ MayAnswer(p)
  /\ r = "PARENT" => how = "alone"
  /\ Begin(w, IF r = "PARENT" THEN "answer" ELSE "profile",
           [About(p) EXCEPT !.role = r, !.how = how, !.school = school[p]])
  /\ UNCHANGED <<users, claims, created, cache, faults, history>>

\* RegistrationService.applyProfile: a code joins the school, a school picked
\* from the search is asked for; without either the school that was read is
\* written back.
AnswerProfile(w) ==
  LET p == job[w].who
      s == IF job[w].how = "code" THEN "school" ELSE job[w].school
  IN
  /\ pc[w] = "profile" /\ ~Held(p)
  /\ school' = [school EXCEPT ![p] = s]
  /\ wanted' = [wanted EXCEPT ![p] = s = "none" /\ job[w].how = "search"]
  /\ doubtful' = InDoubt(p) /\ admitted' = admitted \ {p}
  /\ Continue(w, "answer", [About(p) EXCEPT !.role = job[w].role])
  /\ UNCHANGED <<role, confirmed, claims, created, cache, faults, chosen, crossed, overrun>>

AnswerRole(w) ==
  LET p == job[w].who IN
  /\ pc[w] = "answer" /\ ~Held(p)
  /\ role' = [role EXCEPT ![p] = job[w].role]
  /\ confirmed' = [confirmed EXCEPT ![p] = TRUE]
  /\ doubtful' = InDoubt(p) /\ admitted' = admitted \ {p}
  /\ Continue(w, "drop", About(p))
  /\ UNCHANGED <<school, wanted, claims, created, cache, faults, chosen, crossed, overrun>>

-----------------------------------------------------------------------------
(* OrgAccessService *)

\* Requests that may yet make a claim.
Claiming == {w \in Worker : pc[w] \in {"open", "create", "grant", "grantDrop", "grantCommit"}
                             /\ job[w].claim = 0}

SubmitStart(w, p, how) ==
  /\ ~(confirmed[p] /\ role[p] # "PARENT")
  /\ Len(claims) + Cardinality(Claiming) < MaxClaim
  /\ Begin(w, "open", [About(p) EXCEPT !.how = how])
  /\ UNCHANGED <<users, claims, created, cache, faults, history>>

\* An open claim refuses another.  With the organisation's code the claim is
\* made and granted in one transaction.
SubmitFind(w) ==
  LET p == job[w].who IN
  /\ pc[w] = "open"
  /\ IF \E n \in DOMAIN claims : claims[n].by = p /\ claims[n].status \in Open
       THEN Finish(w)
       ELSE IF job[w].how = "code"
              THEN Continue(w, "grant", [About(p) EXCEPT !.school = "school"])
              ELSE Continue(w, "create", About(p))
  /\ UNCHANGED <<users, claims, created, cache, faults, history>>

SubmitCreate(w) ==
  /\ pc[w] = "create"
  /\ claims' = Append(claims, [by |-> job[w].who, status |-> "PENDING"])
  /\ Continue(w, "confirm", About(job[w].who))
  /\ UNCHANGED <<users, created, cache, faults, history>>

\* "The question has been answered even though the role is not granted yet."
SubmitConfirm(w) ==
  LET p == job[w].who IN
  /\ pc[w] = "confirm" /\ ~Held(p)
  /\ confirmed' = [confirmed EXCEPT ![p] = TRUE]
  /\ Finish(w)
  /\ UNCHANGED <<role, school, wanted, claims, created, cache, faults, history>>

\* Is another reviewer at work on claim n?
Reviewed(n) == \E w \in Worker : job[w].claim = n
Crosses(n) == IF Reviewed(n) THEN crossed \union {n} ELSE crossed

\* Mutant: a decided claim can be decided again.
OpenToReviewAny(n) == n \in DOMAIN claims
OpenToReview(n) == n \in DOMAIN claims /\ claims[n].status \in Open

ApproveStart(w, n) ==
  /\ OpenToReview(n)
  /\ Begin(w, "grant", [About(claims[n].by) EXCEPT !.claim = n, !.school = "own"])
  /\ crossed' = Crosses(n)
  /\ UNCHANGED <<users, claims, created, cache, faults, chosen, admitted, overrun, doubtful>>

\* grant updates the account, and drops its cached copy before the commit.
Grant(w) ==
  /\ pc[w] = "grant" /\ ~Held(job[w].who)
  /\ Continue(w, "grantDrop", job[w])
  /\ UNCHANGED <<users, claims, created, cache, faults, history>>

GrantDrop(w) ==
  /\ pc[w] = "grantDrop"
  /\ BustTenancy(job[w].who)
  /\ Continue(w, "grantCommit", job[w])
  /\ UNCHANGED <<users, claims, created, chosen, admitted, crossed, overrun>>

\* Mutant: the claim is marked by a statement of its own, which can be lost.
RecordGrantMaybe(n, p) ==
  \/ UNCHANGED claims
  \/ claims' = IF n = 0 THEN Append(claims, [by |-> p, status |-> "APPROVED"])
                        ELSE [claims EXCEPT ![n].status = "APPROVED"]

\* The claim is approved, or made approved.
RecordGrant(n, p) ==
  claims' = IF n = 0 THEN Append(claims, [by |-> p, status |-> "APPROVED"])
                     ELSE [claims EXCEPT ![n].status = "APPROVED"]

\* Only now do others see the role and the claim's approval.
GrantCommit(w) ==
  LET p == job[w].who IN
  /\ pc[w] = "grantCommit"
  /\ role' = [role EXCEPT ![p] = "SCHOOL_LEADER"]
  /\ confirmed' = [confirmed EXCEPT ![p] = TRUE]
  /\ school' = [school EXCEPT ![p] = job[w].school]
  /\ RecordGrant(job[w].claim, p)
  /\ overrun' = IF At(p, {"profile", "answer"}) THEN overrun \union {p} ELSE overrun
  /\ doubtful' = IF cache[p] # None THEN doubtful \union {p} ELSE InDoubt(p)
  /\ admitted' = admitted \ {p}
  /\ Finish(w)
  /\ UNCHANGED <<wanted, created, cache, faults, chosen, crossed>>

\* reject and requestChanges.
DecideStart(w, n, s) ==
  /\ OpenToReview(n)
  /\ Begin(w, "decide", [About(claims[n].by) EXCEPT !.claim = n, !.status = s])
  /\ crossed' = Crosses(n)
  /\ UNCHANGED <<users, claims, created, cache, faults, chosen, admitted, overrun, doubtful>>

Decide(w) ==
  /\ pc[w] = "decide"
  /\ claims' = [claims EXCEPT ![job[w].claim].status = job[w].status]
  /\ Finish(w)
  /\ UNCHANGED <<users, created, cache, faults, history>>

-----------------------------------------------------------------------------
(* SchoolService *)

Seats == created + Cardinality({p \in Person : school[p] = "school" /\ role[p] = "CHILD"})

\* Mutant: nobody counts.
HasSeatAlways == TRUE
HasSeat == Seats < StudentLimit

\* reviewJoinRequest.  Only a student takes a seat.
ReviewStart(w, p, approve) ==
  /\ wanted[p]
  /\ Begin(w, IF ~approve THEN "decline" ELSE IF role[p] = "CHILD" THEN "seats" ELSE "admit",
           [About(p) EXCEPT !.role = role[p]])
  /\ UNCHANGED <<users, claims, created, cache, faults, history>>

Decline(w) ==
  LET p == job[w].who IN
  /\ pc[w] = "decline" /\ ~Held(p)
  /\ wanted' = [wanted EXCEPT ![p] = FALSE]
  /\ Finish(w)
  /\ UNCHANGED <<role, confirmed, school, claims, created, cache, faults, history>>

CountSeats(w) ==
  /\ pc[w] = "seats"
  /\ IF HasSeat THEN Continue(w, "admit", job[w]) ELSE Finish(w)
  /\ UNCHANGED <<users, claims, created, cache, faults, history>>

Admit(w) ==
  LET p == job[w].who IN
  /\ pc[w] = "admit" /\ ~Held(p)
  /\ school' = [school EXCEPT ![p] = "school"]
  /\ wanted' = [wanted EXCEPT ![p] = FALSE]
  /\ doubtful' = InDoubt(p)
  /\ admitted' = IF job[w].role = "CHILD" /\ role[p] = "CHILD" THEN admitted \union {p} ELSE admitted
  /\ Continue(w, "drop", About(p))
  /\ UNCHANGED <<role, confirmed, claims, created, cache, faults, chosen, crossed, overrun>>

\* createStudent counts and then creates.
CreateStart(w) ==
  /\ HasSeat /\ created < MaxCreated
  /\ Begin(w, "account", NoJob)
  /\ UNCHANGED <<users, claims, created, cache, faults, history>>

CreateStudent(w) ==
  /\ pc[w] = "account"
  /\ created' = created + 1
  /\ Finish(w)
  /\ UNCHANGED <<users, claims, cache, faults, history>>

-----------------------------------------------------------------------------
\* The request ends in an error; a running transaction is rolled back.
Fail(w) ==
  /\ pc[w] # "idle" /\ faults < MaxFault
  /\ faults' = faults + 1
  /\ doubtful' = IF pc[w] \in {"answer", "drop"} THEN doubtful \union {job[w].who} ELSE doubtful
  /\ Finish(w)
  /\ UNCHANGED <<users, claims, created, cache, chosen, admitted, crossed, overrun>>

Proceed(w) ==
  \/ AnswerProfile(w) \/ AnswerRole(w) \/ Drop(w) \/ FillSet(w)
  \/ SubmitFind(w) \/ SubmitCreate(w) \/ SubmitConfirm(w)
  \/ Grant(w) \/ GrantDrop(w) \/ GrantCommit(w) \/ Decide(w)
  \/ Decline(w) \/ CountSeats(w) \/ Admit(w) \/ CreateStudent(w)

Request(w) ==
  \/ \E p \in Person :
       \/ FillStart(w, p)
       \/ \E how \in {"code", "search", "alone"} :
            \/ \E r \in {"PARENT", "CHILD", "TEACHER"} : AnswerStart(w, p, r, how)
            \/ how # "search" /\ SubmitStart(w, p, how)
       \/ \E approve \in BOOLEAN : ReviewStart(w, p, approve)
  \/ \E n \in DOMAIN claims :
       ApproveStart(w, n) \/ \E s \in {"REJECTED", "CHANGES_REQUESTED"} : DecideStart(w, n, s)
  \/ CreateStart(w)

Next ==
  \/ \E w \in Worker : Proceed(w) \/ Request(w) \/ Fail(w)
  \/ \E p \in Person : Expires(p)

Spec == Init /\ [][Next]_vars

-----------------------------------------------------------------------------
(* Properties *)

\* approve: "the only path by which an administrative role is ever granted",
\* but for register, which gives the role to whoever picks it on the form: who
\* has the role and did not register with it has an approved claim, unless
\* another reviewer decided that claim at the same time.
LeaderIsVouched ==
  \A p \in Person \ chosen : role[p] = "SCHOOL_LEADER" =>
    \E n \in DOMAIN claims : claims[n].by = p /\ (claims[n].status = "APPROVED" \/ n \in crossed)

\* And an approved claim has given its role, unless an answer to the role
\* question that was already being saved has overwritten it.
ApprovedIsLeader ==
  \A n \in DOMAIN claims : claims[n].status = "APPROVED" =>
    role[claims[n].by] = "SCHOOL_LEADER" \/ claims[n].by \in overrun

\* Roles and approvals vouch for each other, over well-formed requests.
RolesAreVouched == TypeOK /\ LeaderIsVouched /\ ApprovedIsLeader

\* A decision is final, but for reviewers at work at the same time.
DecisionIsFinal ==
  [][\A n \in DOMAIN claims \ crossed :
       claims[n].status \in {"APPROVED", "REJECTED"} => claims'[n].status = claims[n].status]_vars

\* "Student limit reached": counting first and adding later lets in at most one
\* student too many for every other request running.
SeatsNearLimit ==
  LET counted == created + Cardinality(admitted) IN
  counted > 0 => counted <= StudentLimit + Cardinality(Worker) - 1

\* JwtStrategy's copy is what the database says, unless the request that
\* changed the account has yet to drop it, or a fill, a failed bust or a
\* grant's early one has left it to its minute.
CacheIsFresh ==
  \A p \in Person : cache[p] # None /\ cache[p] # Tenancy(p) =>
    p \in doubtful \/ At(p, {"answer", "drop"})
=============================================================================
