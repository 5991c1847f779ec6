----------------------------- MODULE Coursework -----------------------------
(***************************************************************************)
(* One assignment: students hand their work in, and again until it is      *)
(* graded; the teacher grades it; classmates are given each other's work to *)
(* review, and the mean of their marks is kept on the submission.          *)
(*                                                                         *)
(* No handler runs in a transaction: each reads, and writes in a statement *)
(* of its own.  A submission and a review are unique rows, one per student *)
(* and one per submission and reviewer.  What handing in pays is in Wallet,*)
(* and what it completes in Courses.                                       *)
(***************************************************************************)
EXTENDS Integers, FiniteSets, FiniteSetsExt

CONSTANTS
  Handler, Student, Nil,
  ReviewCount,     \* Assignment.peerReviewCount
  Rubric,          \* the points of each criterion
  MaxScore,        \* Assignment.maxScore
  MaxHandIn,       \* bound on hand-ins
  MaxGrade,        \* bound on gradings
  MaxReview,       \* bound on reviews
  MaxFault         \* bound on failed requests

ASSUME CourseworkAssumption ==
  /\ Nil \notin Student \union Handler \union Int
  /\ IsFiniteSet(Student)
  /\ ReviewCount \in Nat /\ MaxScore \in Nat
  /\ IsFiniteSet(DOMAIN Rubric) /\ Rubric \in [DOMAIN Rubric -> Nat]
  /\ MaxHandIn \in Nat /\ MaxGrade \in Nat /\ MaxReview \in Nat /\ MaxFault \in Nat

Mark == 0..MaxScore
Pair == Student \X Student   \* an author and a reviewer

VARIABLES
  status,      \* AssignmentSubmission.status, or "none"
  closed,      \* the due date has passed, and allowLate is false
  assigned,    \* the PeerReview rows
  total,       \* total[p]: the mark of a submitted review, or Nil
  peerScore,   \* AssignmentSubmission.peerScore, or Nil
  stage, errand,
  handIns, gradings, reviewings, faults,
  regraded,    \* history: submissions graded while they were being handed in again
  doubled,     \* history: submissions two requests found reviewers for at once
  blurred      \* history: submissions two reviews of which ended at once

work     == <<status, closed>>
reviews  == <<assigned, total, peerScore>>
requests == <<stage, errand>>
limits   == <<handIns, gradings, reviewings, faults>>
past     == <<regraded, doubled, blurred>>
courseworkVars == <<work, reviews, requests, limits, past>>

\* A request: the student whose submission it is about, the reviewer or the
\* reviewers it has picked, the mark it brings or has computed, the
\* submissions it still has to find reviewers for.
Job == [who : Student \union {Nil}, reviewer : Student \union {Nil}, mark : Int \union {Nil},
        picked : SUBSET Student, todo : SUBSET Student]
NoJob == [who |-> Nil, reviewer |-> Nil, mark |-> Nil, picked |-> {}, todo |-> {}]

CourseworkTypeOK ==
  /\ status \in [Student -> {"none", "SUBMITTED", "GRADED"}]
  /\ closed \in BOOLEAN
  /\ assigned \subseteq Pair
  /\ total \in [Pair -> Int \union {Nil}] /\ peerScore \in [Student -> Int \union {Nil}]
  /\ stage \in [Handler -> {"idle", "handIn", "pick", "choose", "give", "others", "grade", "review",
                          "mean", "meanWrite"}]
  /\ errand \in [Handler -> Job]
  /\ \A w \in Handler : stage[w] = "idle" <=> errand[w].who = Nil
  /\ handIns \in Nat /\ gradings \in Nat /\ reviewings \in Nat /\ faults \in Nat
  /\ regraded \subseteq Student /\ doubled \subseteq Student /\ blurred \subseteq Student

CourseworkInit ==
  /\ status = [s \in Student |-> "none"] /\ closed = FALSE
  /\ assigned = {} /\ total = [p \in Pair |-> Nil] /\ peerScore = [s \in Student |-> Nil]
  /\ stage = [w \in Handler |-> "idle"] /\ errand = [w \in Handler |-> NoJob]
  /\ handIns = 0 /\ gradings = 0 /\ reviewings = 0 /\ faults = 0
  /\ regraded = {} /\ doubled = {} /\ blurred = {}

-----------------------------------------------------------------------------
TakeUp(w, step, j) ==
  /\ stage[w] = "idle"
  /\ stage' = [stage EXCEPT ![w] = step]
  /\ errand' = [errand EXCEPT ![w] = j]

GoOn(w, step, j) ==
  /\ stage' = [stage EXCEPT ![w] = step]
  /\ errand' = [errand EXCEPT ![w] = j]

LayDown(w) ==
  /\ stage' = [stage EXCEPT ![w] = "idle"]
  /\ errand' = [errand EXCEPT ![w] = NoJob]

At(s, steps) == \E w \in Handler : stage[w] \in steps /\ errand[w].who = s

Submitted == {s \in Student : status[s] # "none"}
ReviewersOf(s) == {r \in Student : <<s, r>> \in assigned}
MarkersOf(s) == {r \in ReviewersOf(s) : total[<<s, r>>] # Nil}

-----------------------------------------------------------------------------
(* AssignmentsService *)

\* Nothing tells an assignment that closes after the last hand-in from an open
\* one.
DuePasses ==
  /\ handIns < MaxHandIn
  /\ ~closed /\ closed' = TRUE
  /\ UNCHANGED <<status, reviews, requests, limits, past>>

\* Mutant: what was graded can be handed in again.
MayHandInAlways(s) == ~closed
MayHandIn(s) == ~closed /\ status[s] # "GRADED"

\* submit looks at the clock and at what is there.
HandInBegins(w, s) ==
  /\ handIns < MaxHandIn /\ handIns' = handIns + 1
  /\ MayHandIn(s)
  /\ TakeUp(w, "handIn", [NoJob EXCEPT !.who = s])
  /\ UNCHANGED <<work, reviews, gradings, reviewings, faults, past>>

HandInRefused(s) == ~MayHandIn(s) /\ UNCHANGED courseworkVars

\* Mutant: a new hand-in is only handed to classmates itself.
NextToPickOwn(w) == LayDown(w)

\* "Also top up earlier submissions": first the others are read, then one
\* after another is taken.
NextToPick(w) == GoOn(w, "others", [errand[w] EXCEPT !.picked = {}])

\* The upsert.  A grade's score, which is not modelled, stays.
HandIn(w) ==
  LET s == errand[w].who IN
  /\ stage[w] = "handIn"
  /\ status' = [status EXCEPT ![s] = "SUBMITTED"]
  /\ IF ReviewCount = 0 THEN LayDown(w)
       ELSE GoOn(w, "pick", [NoJob EXCEPT !.who = s, !.todo = Student])
  /\ UNCHANGED <<closed, reviews, limits, past>>

GradeStart(w, s) ==
  /\ gradings < MaxGrade /\ gradings' = gradings + 1
  /\ status[s] # "none"
  /\ TakeUp(w, "grade", [NoJob EXCEPT !.who = s])
  /\ UNCHANGED <<work, reviews, handIns, reviewings, faults, past>>

Grade(w) ==
  LET s == errand[w].who IN
  /\ stage[w] = "grade"
  /\ status' = [status EXCEPT ![s] = "GRADED"]
  /\ regraded' = IF At(s, {"handIn"}) THEN regraded \union {s} ELSE regraded
  /\ LayDown(w)
  /\ UNCHANGED <<closed, reviews, limits, doubled, blurred>>

-----------------------------------------------------------------------------
(* PeerReviewService.assignReviewers *)

\* Those among the reviewers already found are not asked again; the others have
\* handed in themselves.
Candidates(s, already) == (Submitted \ {s}) \ already

Shortfall(already) == ReviewCount - Cardinality(already)

\* "Whoever has been given fewest reviews goes first": the code sorts by the
\* reviews a candidate's own submission was given, ties in any order.
FirstInLine(s, already, P) ==
  LET C == Candidates(s, already) IN
  /\ P \subseteq C
  /\ Cardinality(P) = Min({Shortfall(already), Cardinality(C)})
  /\ \A p \in P, c \in C \ P : Cardinality(ReviewersOf(p)) <= Cardinality(ReviewersOf(c))

\* The submission is read, and the reviewers it has: they are picked already.
Pick(w) ==
  LET s == errand[w].who IN
  /\ stage[w] = "pick"
  /\ IF Shortfall(ReviewersOf(s)) <= 0
       THEN NextToPick(w)
       ELSE GoOn(w, "choose", [errand[w] EXCEPT !.picked = ReviewersOf(s)])
  /\ UNCHANGED <<work, reviews, limits, past>>

\* The candidates are read, and the missing reviewers picked.  Another request
\* may have given the submission some since, or be about to.
Choose(w) ==
  LET s == errand[w].who
      already == errand[w].picked IN
  /\ stage[w] = "choose"
  /\ IF Candidates(s, already) = {}
       THEN NextToPick(w) /\ UNCHANGED doubled
       ELSE \E P \in SUBSET Student :
              /\ FirstInLine(s, already, P)
              /\ GoOn(w, "give", [errand[w] EXCEPT !.picked = P])
              /\ doubled' = IF At(s, {"give"}) \/ ReviewersOf(s) # already
                              THEN doubled \union {s} ELSE doubled
  /\ UNCHANGED <<work, reviews, limits, regraded, blurred>>

\* createMany with skipDuplicates.
Give(w) ==
  /\ stage[w] = "give"
  /\ assigned' = assigned \union ({errand[w].who} \X errand[w].picked)
  /\ NextToPick(w)
  /\ UNCHANGED <<work, total, peerScore, limits, past>>

\* After the student's own submission the others are read, once; todo is all
\* students until then.
Others(w) ==
  LET rest == IF errand[w].todo = Student THEN Submitted \ {errand[w].who} ELSE errand[w].todo IN
  /\ stage[w] = "others"
  /\ IF rest = {}
       THEN LayDown(w)
       ELSE \E o \in rest :
              GoOn(w, "pick", [NoJob EXCEPT !.who = o, !.todo = rest \ {o}])
  /\ UNCHANGED <<work, reviews, limits, past>>

-----------------------------------------------------------------------------
(* PeerReviewService.submitReview *)

Clamp(low, n, high) == Max({low, Min({n, high})})

\* scoreAgainstRubric: what is given for each criterion, cut to its points.
ScoreAgainstRubric(given) ==
  Clamp(0, MapThenSumSet(LAMBDA c : Clamp(0, given[c], Rubric[c]), DOMAIN Rubric), MaxScore)

\* Without a rubric, all that is given.
ScoreWithoutRubric(sum) == Clamp(0, sum, MaxScore)

\* The totals a reviewer can reach, giving too little and too much included.
Given  == (-1)..(MaxScore + 1)
Totals == IF DOMAIN Rubric = {} THEN {ScoreWithoutRubric(n) : n \in Given}
          ELSE {ScoreAgainstRubric(g) : g \in [DOMAIN Rubric -> Given]}

ReviewStart(w, s, r) ==
  /\ reviewings < MaxReview /\ reviewings' = reviewings + 1
  /\ r \in ReviewersOf(s) \ MarkersOf(s)
  /\ \E m \in Totals : TakeUp(w, "review", [NoJob EXCEPT !.who = s, !.reviewer = r, !.mark = m])
  /\ UNCHANGED <<work, reviews, handIns, gradings, faults, past>>

\* Is the mean of s being taken by another request than w?
Averaging(w, s) == \E v \in Handler \ {w} : errand[v].who = s /\ stage[v] \in {"review", "mean", "meanWrite"}

Review(w) ==
  LET s == errand[w].who IN
  /\ stage[w] = "review"
  /\ total' = [total EXCEPT ![<<s, errand[w].reviewer>>] = errand[w].mark]
  /\ blurred' = IF Averaging(w, s) THEN blurred \union {s} ELSE blurred
  /\ GoOn(w, "mean", [NoJob EXCEPT !.who = s])
  /\ UNCHANGED <<work, assigned, peerScore, limits, regraded, doubled>>

\* The marks of the submitted reviews, by reviewer, and Math.round of their mean.
MarksOf(s) == [r \in MarkersOf(s) |-> total[<<s, r>>]]
Mean(marks) ==
  LET n == Cardinality(DOMAIN marks) IN (2 * SumFunction(marks) + n) \div (2 * n)
MeanOf(s) == Mean(MarksOf(s))

MeanRead(w) ==
  /\ stage[w] = "mean"
  /\ GoOn(w, "meanWrite", [errand[w] EXCEPT !.mark = MeanOf(errand[w].who)])
  /\ UNCHANGED <<work, reviews, limits, past>>

\* Mutant: the first review decides.
MeanWriteOnce(w) ==
  /\ stage[w] = "meanWrite"
  /\ peerScore' = [peerScore EXCEPT ![errand[w].who] = IF @ = Nil THEN errand[w].mark ELSE @]
  /\ LayDown(w)
  /\ UNCHANGED <<work, assigned, total, limits, past>>

MeanWrite(w) ==
  /\ stage[w] = "meanWrite"
  /\ peerScore' = [peerScore EXCEPT ![errand[w].who] = errand[w].mark]
  /\ LayDown(w)
  /\ UNCHANGED <<work, assigned, total, limits, past>>

-----------------------------------------------------------------------------
\* A request ends in an error between two of its statements.
Fail(w) ==
  /\ stage[w] # "idle" /\ faults < MaxFault
  /\ faults' = faults + 1
  /\ LayDown(w)
  /\ UNCHANGED <<work, reviews, handIns, gradings, reviewings, past>>

Advance(w) ==
  \/ HandIn(w) \/ Pick(w) \/ Choose(w) \/ Give(w) \/ Others(w) \/ Grade(w)
  \/ Review(w) \/ MeanRead(w) \/ MeanWrite(w)

\* "Maximum score is ..."
GradeTooHigh(s) == status[s] # "none" /\ UNCHANGED courseworkVars

\* A review that was submitted is refused.
ReviewRepeated(s, r) == r \in MarkersOf(s) /\ UNCHANGED courseworkVars

CourseworkNext ==
  \/ \E w \in Handler :
       \/ Advance(w) \/ Fail(w)
       \/ \E s \in Student :
            \/ HandInBegins(w, s) \/ GradeStart(w, s)
            \/ \E r \in Student : ReviewStart(w, s, r)
  \/ \E s \in Student :
       \/ HandInRefused(s) \/ GradeTooHigh(s)
       \/ \E r \in Student : ReviewRepeated(s, r)
  \/ DuePasses

CourseworkSpec == CourseworkInit /\ [][CourseworkNext]_courseworkVars

-----------------------------------------------------------------------------
(* Properties *)

\* "Reviewing work before you have done your own would leak the answer", and
\* nobody reviews their own.
ReviewersHandedIn == \A p \in assigned : p[1] # p[2] /\ {p[1], p[2]} \subseteq Submitted

\* assignReviewers is "idempotent: re-running tops up to the required number":
\* only two requests that pick for one submission at the same time give it more.
ReviewersAsWanted ==
  \A s \in Student \ doubled : Cardinality(ReviewersOf(s)) <= ReviewCount

\* However hand-ins overlap, when none is being processed and none was cut
\* short every submission has its reviewers, or all who could be asked.
TopUpReachesAll ==
  (\A w \in Handler : stage[w] \notin {"pick", "choose", "give", "others"}) /\ faults = 0 =>
    \A s \in Submitted :
      Cardinality(ReviewersOf(s)) >= Min({ReviewCount, Cardinality(Submitted) - 1})

\* Who reviews whom.
ReviewersAreRight == ReviewersHandedIn /\ ReviewersAsWanted /\ TopUpReachesAll

\* recomputePeerScore: the mark a student sees is the mean of the reviews that
\* are in, once it is computed, unless two of them ended at the same time.
PeerScoreIsMean ==
  faults = 0 => \A s \in Student \ blurred :
    MarkersOf(s) # {} /\ ~At(s, {"mean", "meanWrite"}) => peerScore[s] = MeanOf(s)

\* "A generous or malicious classmate cannot hand out more than the assignment
\* is worth", nor less than nothing.
PeerScoreWithinWorth == \A s \in Student : peerScore[s] # Nil => peerScore[s] \in Mark

\* The mark a student sees, and what it can be worth, over well-formed requests.
PeerScoreIsSound == CourseworkTypeOK /\ PeerScoreIsMean /\ PeerScoreWithinWorth

\* "This assignment was already graded": a grade stands, but for a hand-in that
\* was on its way when it was given.
GradeStands == [][\A s \in Student : status[s] = "GRADED" => status'[s] = "GRADED" \/ s \in regraded]_courseworkVars
=============================================================================
