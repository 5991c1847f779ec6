------------------------------ MODULE Courses ------------------------------
(***************************************************************************)
(* One student's way through courses: enrolment, lessons, quiz and exam    *)
(* attempts, assignments, the completion rules and the certificates.       *)
(*                                                                         *)
(* A lesson is completed in one transaction; an attempt or a submission is *)
(* committed first and its reward follows in a transaction of its own.     *)
(* Both end in CompletionService.sync, which reads the rules' state, writes*)
(* the enrolment row and perhaps a certificate.  At READ COMMITTED nobody  *)
(* sees another transaction before it commits; rows it has written (the    *)
(* wallet, a lesson's progress, an enrolment) make others wait.  The XP    *)
(* these transactions pay is the subject of Wallet.                        *)
(***************************************************************************)
EXTENDS Integers, Sequences, FiniteSets

CONSTANTS
  Worker, None,
  Course, Lesson, Quiz, Assignment,
  Exam,           \* the quizzes that are a course's final exam
  CourseOf,       \* the course of a lesson, quiz or assignment
  Requires,       \* Requires[c]: which kinds of work complete course c
  Prerequisites,  \* Prerequisites[c]: courses to complete before enrolling
  Certified,      \* courses, and exams, whose completion issues a certificate
  MaxAttempts,    \* per quiz
  MaxSlip         \* bound on what goes beside the usual way (Slip)

Work == Lesson \union Quiz \union Assignment
Rule == {"lessons", "quizzes", "assignments", "exam"}

ASSUME CoursesAssumption ==
  /\ None \notin Work \union Course \union Worker
  /\ Lesson \intersect Quiz = {} /\ Lesson \intersect Assignment = {}
  /\ Quiz \intersect Assignment = {} /\ Work \intersect Course = {}
  /\ Exam \subseteq Quiz /\ CourseOf \in [Work -> Course]
  /\ Requires \in [Course -> SUBSET Rule]
  /\ Prerequisites \in [Course -> SUBSET Course]
  /\ Certified \subseteq Course \union Exam
  /\ MaxAttempts \in [Quiz -> Nat] /\ MaxSlip \in Nat

VARIABLES
  enrollment,  \* CourseEnrollment: "none" or its status
  completed,   \* lessons whose Progress row is completed
  lessons,     \* lessons whose Progress row is rewarded
  attempt,     \* attempt[q]: the statuses of the QuizAttempt rows by attemptNo
  answered,    \* the attempts <<q, n>> whose QuizAnswer rows are written
  late,        \* quizzes whose open attempt has used up its time
  handed,      \* AssignmentSubmission rows
  rewarded,    \* assignments whose submission has its Transaction row
  certs,       \* certs[c]: the number of Certificate rows with this courseId
  pc, job, seen,
  slips,
  done,        \* history: lessons completed at any time
  passes,      \* history: quizzes passed at any time
  finished,    \* history: courses completed at any time
  waived       \* history: courses opened ahead of their prerequisites

records == <<enrollment, completed, lessons, attempt, answered, late, handed, rewarded, certs>>
handler == <<pc, job, seen>>
history == <<done, passes, finished, waived>>
vars    == <<records, handler, slips, history>>

Status == {"open", "expired", "failed", "passed"}
Seen == [complete : BOOLEAN, was : BOOLEAN, found : BOOLEAN, fresh : BOOLEAN,
         late : BOOLEAN, passed : BOOLEAN, no : Nat]
NothingSeen == [complete |-> FALSE, was |-> FALSE, found |-> FALSE, fresh |-> FALSE,
                late |-> FALSE, passed |-> FALSE, no |-> 0]

RecordsOK ==
  /\ enrollment \in [Course -> {"none", "ACTIVE", "COMPLETED"}]
  /\ completed \subseteq done /\ lessons \subseteq done /\ done \subseteq Lesson
  /\ attempt \in [Quiz -> Seq(Status)]
  /\ answered \subseteq Quiz \X (Nat \ {0})
  /\ late \subseteq Quiz
  /\ handed \subseteq Assignment /\ rewarded \subseteq handed
  /\ certs \in [Course -> Nat]
  /\ slips \in Nat
  /\ passes \subseteq Quiz /\ finished \subseteq Course /\ waived \subseteq Course

HandlersOK ==
  /\ pc \in [Worker -> {"idle", "enroll", "lesson", "start", "submit", "handIn", "key",
                        "reward", "sync", "commit", "issue", "issueCreate"}]
  /\ job \in [Worker -> Course \union Work \union {None}]
  /\ seen \in [Worker -> Seen]
  /\ \A w \in Worker :
       /\ pc[w] = "idle" <=> job[w] = None
       /\ pc[w] = "enroll" <=> job[w] \in Course
       /\ pc[w] = "lesson" => job[w] \in Lesson
       /\ pc[w] \in {"start", "submit", "issue", "issueCreate"} => job[w] \in Quiz
       /\ pc[w] \in {"handIn", "key"} => job[w] \in Assignment
       /\ pc[w] = "reward" => job[w] \in Quiz \union Assignment
       /\ pc[w] \in {"key", "reward", "sync", "commit"} /\ job[w] \in Assignment
            => job[w] \in handed

TypeOK == RecordsOK /\ HandlersOK

Init ==
  /\ enrollment = [c \in Course |-> "none"]
  /\ completed = {} /\ lessons = {} /\ handed = {} /\ rewarded = {}
  /\ attempt = [q \in Quiz |-> <<>>] /\ answered = {} /\ late = {}
  /\ certs = [c \in Course |-> 0]
  /\ pc = [w \in Worker |-> "idle"] /\ job = [w \in Worker |-> None]
  /\ seen = [w \in Worker |-> NothingSeen]
  /\ slips = 0 /\ done = {} /\ passes = {} /\ finished = {} /\ waived = {}

-----------------------------------------------------------------------------
(* Requests and transactions *)

Begin(w, j, step, s) ==
  /\ pc[w] = "idle"
  /\ pc' = [pc EXCEPT ![w] = step]
  /\ job' = [job EXCEPT ![w] = j]
  /\ seen' = [seen EXCEPT ![w] = s]

Continue(w, step, s) ==
  /\ pc' = [pc EXCEPT ![w] = step]
  /\ seen' = [seen EXCEPT ![w] = s]
  /\ UNCHANGED job

\* The request is answered, or refused and its transaction rolled back.
Finish(w) ==
  /\ pc' = [pc EXCEPT ![w] = "idle"]
  /\ job' = [job EXCEPT ![w] = None]
  /\ seen' = [seen EXCEPT ![w] = NothingSeen]

\* Leaving, stopping, reporting beside the player and work without an enrolment
\* are bounded together.
Slip == slips < MaxSlip /\ slips' = slips + 1

\* What a running transaction has written and others wait for: the wallet
\* (grant comes first except for a lesson), a lesson's Progress row, and the
\* enrolment row.
InTransaction(w) == pc[w] \in {"sync", "commit"}
WalletHeld    == \E w \in Worker : InTransaction(w) /\ job[w] \notin Lesson /\ seen[w].fresh
LessonHeld(l) == \E w \in Worker : InTransaction(w) /\ job[w] = l
RowHeld(c)    == \E w \in Worker : pc[w] = "commit" /\ CourseOf[job[w]] = c

Enrolled(c) == enrollment[c] # "none"

-----------------------------------------------------------------------------
(* CompletionService *)

Of(S, c) == {x \in S : CourseOf[x] = c}

\* evaluate: are the rules of c satisfied by the lessons ls, the passed
\* quizzes qs and the submissions as?
Satisfied(c, ls, qs, as) ==
  /\ Of(Lesson, c) # {}
  /\ "lessons" \in Requires[c] => Of(Lesson, c) \subseteq ls
  /\ "quizzes" \in Requires[c] => Of(Quiz \ Exam, c) \subseteq qs
  /\ "assignments" \in Requires[c] => Of(Assignment, c) \subseteq as
  /\ "exam" \in Requires[c] => Of(Exam, c) \intersect qs # {}

Passed == {q \in Quiz : \E n \in DOMAIN attempt[q] : attempt[q][n] = "passed"}

\* Mutant: the lessons alone decide.
EvaluateLessons(w, ls) ==
  LET c == CourseOf[job[w]] IN
  Continue(w, "sync",
    [seen[w] EXCEPT !.complete = Of(Lesson, c) # {} /\ Of(Lesson, c) \subseteq ls,
                    !.was = enrollment[c] = "COMPLETED"])

\* evaluate and the read of the enrolment, with the transaction's own lesson.
\* The rules' reads are separate statements; of what they read only a lesson's
\* completion can be taken back (LessonReported).
Evaluate(w, ls) ==
  LET c == CourseOf[job[w]] IN
  Continue(w, "sync",
    [seen[w] EXCEPT !.complete = Satisfied(c, ls, Passed, handed),
                    !.was = enrollment[c] = "COMPLETED"])

\* Mutant: nothing makes two transactions wait for each other.
SyncWriteNoLock(w) ==
  /\ pc[w] = "sync"
  /\ Continue(w, "commit", [seen[w] EXCEPT !.found = certs[CourseOf[job[w]]] > 0])
  /\ UNCHANGED <<records, slips, history>>

\* The upsert of the enrolment, which waits for the row, and then
\* issueCertificate's look for a certificate.
SyncWrite(w) ==
  LET c == CourseOf[job[w]] IN
  /\ pc[w] = "sync" /\ ~RowHeld(c)
  /\ Continue(w, "commit", [seen[w] EXCEPT !.found = certs[c] > 0])
  /\ UNCHANGED <<records, slips, history>>

IssuesNow(c, s) == s.complete /\ ~s.was /\ ~s.found /\ c \in Certified

IssuesForExam(q, s) == s.passed /\ q \in Exam \intersect Certified

\* The transaction ends; a lesson's is the one that takes the wallet last.
\* After a passed exam issueForExam follows, in no transaction.
SyncCommit(w) ==
  LET j == job[w]
      c == CourseOf[j]
      s == seen[w]
  IN
  /\ pc[w] = "commit"
  /\ j \in Lesson => ~WalletHeld
  /\ enrollment' = [enrollment EXCEPT ![c] = IF s.complete THEN "COMPLETED" ELSE "ACTIVE"]
  /\ certs' = [certs EXCEPT ![c] = IF IssuesNow(c, s) THEN @ + 1 ELSE @]
  /\ finished' = IF s.complete THEN finished \union {c} ELSE finished
  /\ completed' = completed \union (Lesson \intersect {j})
  /\ lessons' = lessons \union (Lesson \intersect {j})
  /\ done' = done \union (Lesson \intersect {j})
  /\ rewarded' = rewarded \union (Assignment \intersect {j})
  /\ IF IssuesForExam(j, s) THEN Continue(w, "issue", s) ELSE Finish(w)
  /\ UNCHANGED <<attempt, answered, late, handed, slips, passes, waived>>

-----------------------------------------------------------------------------
(* LearningService *)

\* Mutant: an active earlier course will do.
DoneForActive(p) == Enrolled(p)
DoneFor(p) == enrollment[p] = "COMPLETED"

\* Enrolling again is answered with the existing row.
EnrollRepeated(c) == Enrolled(c) /\ UNCHANGED vars

\* accessDecision lets in who completed the prerequisites, who enrols, joins by
\* a code or is assigned the course by somebody who does not run it.
EnrollStart(w, c) ==
  /\ ~Enrolled(c) /\ \A p \in Prerequisites[c] : DoneFor(p)
  /\ Begin(w, c, "enroll", NothingSeen)
  /\ UNCHANGED <<records, slips, history>>

\* A request that asks for no prerequisites and no enrolment is about c.
Opens(c) ==
  IF Enrolled(c)
    THEN UNCHANGED <<slips, waived>>
    ELSE /\ Slip
         /\ waived' = IF Prerequisites[c] \subseteq finished THEN waived ELSE waived \union {c}

\* CourseAccessService.assign: who runs the course puts students on it.
AssignStart(w, c) ==
  /\ ~Enrolled(c)
  /\ Begin(w, c, "enroll", NothingSeen)
  /\ Opens(c)
  /\ UNCHANGED <<records, done, passes, finished>>

\* The row is unique per course and student: a second create fails, and a second
\* assignment leaves it as it is.
EnrollCreate(w) ==
  LET c == job[w] IN
  /\ pc[w] = "enroll" /\ ~RowHeld(c)
  /\ enrollment' = IF Enrolled(c) THEN enrollment ELSE [enrollment EXCEPT ![c] = "ACTIVE"]
  /\ Finish(w)
  /\ UNCHANGED <<completed, lessons, attempt, answered, late, handed, rewarded, certs, slips, history>>

Unenroll(c) ==
  /\ Enrolled(c) /\ ~RowHeld(c) /\ Slip
  /\ enrollment' = [enrollment EXCEPT ![c] = "none"]
  /\ UNCHANGED <<completed, lessons, attempt, answered, late, handed, rewarded, certs, handler, history>>

\* completeLesson asks for the enrolment; POST student/lessons/:id/complete,
\* which does the same, does not.
LessonStart(w, l) ==
  /\ Begin(w, l, "lesson", NothingSeen)
  /\ Opens(CourseOf[l])
  /\ UNCHANGED <<records, done, passes, finished>>

\* onLessonCompleted: the upsert of Progress waits for a concurrent one; for a
\* rewarded lesson there is nothing more.
LessonMark(w) ==
  /\ pc[w] = "lesson" /\ ~LessonHeld(job[w])
  /\ IF job[w] \in lessons
       THEN completed' = completed \union {job[w]} /\ Finish(w)
       ELSE Evaluate(w, completed \union {job[w]}) /\ UNCHANGED completed
  /\ UNCHANGED <<enrollment, lessons, attempt, answered, late, handed, rewarded, certs, slips, history>>

\* The earlier POST /progress writes the same row as it is told, in a statement
\* of its own and with no sync.
LessonReported(l, ok) ==
  /\ ~LessonHeld(l) /\ Slip
  /\ completed' = IF ok THEN completed \union {l} ELSE completed \ {l}
  /\ done' = IF ok THEN done \union {l} ELSE done
  /\ UNCHANGED <<enrollment, lessons, attempt, answered, late, handed, rewarded, certs, handler,
                 passes, finished, waived>>

-----------------------------------------------------------------------------
(* QuizzesService *)

Used(q) == {n \in DOMAIN attempt[q] : attempt[q][n] # "open"}
IsOpen(q, n) == n \in DOMAIN attempt[q] /\ attempt[q][n] = "open"

\* startAttempt returns an open attempt, and refuses when all are used.
AttemptStart(w, q) ==
  /\ Enrolled(CourseOf[q])
  /\ Used(q) = DOMAIN attempt[q] /\ Len(attempt[q]) < MaxAttempts[q]
  /\ Begin(w, q, "start", [NothingSeen EXCEPT !.no = Len(attempt[q]) + 1])
  /\ UNCHANGED <<records, slips, history>>

\* Mutant: the number of an attempt is not unique.
AttemptCreateAny(w) ==
  LET q == job[w] IN
  /\ pc[w] = "start"
  /\ attempt' = [attempt EXCEPT ![q] = Append(@, "open")]
  /\ late' = late \ {q}
  /\ Finish(w)
  /\ UNCHANGED <<enrollment, completed, lessons, answered, handed, rewarded, certs, slips, history>>

\* attemptNo is unique per quiz and student: a second create fails.
AttemptCreate(w) ==
  LET q == job[w] IN
  /\ pc[w] = "start"
  /\ IF seen[w].no \in DOMAIN attempt[q]
       THEN UNCHANGED <<attempt, late>>
       ELSE attempt' = [attempt EXCEPT ![q] = Append(@, "open")] /\ late' = late \ {q}
  /\ Finish(w)
  /\ UNCHANGED <<enrollment, completed, lessons, answered, handed, rewarded, certs, slips, history>>

TimeRunsOut(q) ==
  /\ q \notin late /\ \E n \in DOMAIN attempt[q] : IsOpen(q, n)
  /\ late' = late \union {q}
  /\ UNCHANGED <<enrollment, completed, lessons, attempt, answered, handed, rewarded, certs, handler, slips, history>>

\* submitAttempt reads the attempt and the clock.
SubmitStart(w, q) ==
  /\ \E n \in DOMAIN attempt[q] :
       /\ IsOpen(q, n)
       /\ Begin(w, q, "submit", [NothingSeen EXCEPT !.no = n, !.late = q \in late])
  /\ UNCHANGED <<records, slips, history>>

\* Too late: the attempt expires, whatever became of it meanwhile.
SubmitExpire(w) ==
  LET q == job[w] IN
  /\ pc[w] = "submit" /\ seen[w].late
  /\ attempt' = [attempt EXCEPT ![q][seen[w].no] = "expired"]
  /\ Finish(w)
  /\ UNCHANGED <<enrollment, completed, lessons, answered, late, handed, rewarded, certs, slips, history>>

\* Answers and result are written together; an answer is unique per attempt
\* and question, so a second submission fails.
SubmitFinalize(w) ==
  LET q == job[w]
      a == <<q, seen[w].no>>
  IN
  /\ pc[w] = "submit" /\ ~seen[w].late
  /\ IF a \in answered
       THEN UNCHANGED <<attempt, answered, passes>> /\ Finish(w)
       ELSE \E ok \in BOOLEAN :
              /\ answered' = answered \union {a}
              /\ attempt' = [attempt EXCEPT ![q][seen[w].no] = IF ok THEN "passed" ELSE "failed"]
              /\ passes' = IF ok THEN passes \union {q} ELSE passes
              /\ Continue(w, "reward", [seen[w] EXCEPT !.passed = ok, !.fresh = TRUE])
  /\ UNCHANGED <<enrollment, completed, lessons, late, handed, rewarded, certs, slips, done, finished, waived>>

-----------------------------------------------------------------------------
(* AssignmentsService.submit; handing in again changes nothing here *)

\* A class's assignment may be about a course the student is not enrolled in.
HandInStart(w, a) ==
  /\ a \notin handed
  /\ Begin(w, a, "handIn", [NothingSeen EXCEPT !.fresh = TRUE])
  /\ Opens(CourseOf[a])
  /\ UNCHANGED <<records, done, passes, finished>>

HandInWrite(w) ==
  /\ pc[w] = "handIn"
  /\ handed' = handed \union {job[w]}
  /\ Continue(w, "key", seen[w])
  /\ UNCHANGED <<enrollment, completed, lessons, attempt, answered, late, rewarded, certs, slips, history>>

-----------------------------------------------------------------------------
(* The reward's transaction of an attempt or a submission *)

\* grant looks for the key of the submission.
KeyRead(w) ==
  /\ pc[w] = "key"
  /\ Continue(w, "reward", [seen[w] EXCEPT !.fresh = job[w] \notin rewarded])
  /\ UNCHANGED <<records, slips, history>>

\* Mutant: after a duplicate key the transaction is tried again, with what was
\* read before.
RewardMarkRetries(w) ==
  /\ pc[w] = "reward"
  /\ seen[w].fresh => ~WalletHeld
  /\ IF seen[w].fresh /\ job[w] \in rewarded THEN UNCHANGED handler
                                             ELSE Evaluate(w, completed)
  /\ UNCHANGED <<records, slips, history>>

\* A new key takes the wallet and fails if it was recorded meanwhile; then
\* sync evaluates.
RewardMark(w) ==
  /\ pc[w] = "reward"
  /\ seen[w].fresh => ~WalletHeld
  /\ IF seen[w].fresh /\ job[w] \in rewarded THEN Finish(w)
                                             ELSE Evaluate(w, completed)
  /\ UNCHANGED <<records, slips, history>>

\* issueForExam looks for a certificate and creates one.
IssueFind(w) ==
  /\ pc[w] = "issue"
  /\ IF certs[CourseOf[job[w]]] > 0 THEN Finish(w) ELSE Continue(w, "issueCreate", seen[w])
  /\ UNCHANGED <<records, slips, history>>

IssueCreate(w) ==
  /\ pc[w] = "issueCreate"
  /\ certs' = [certs EXCEPT ![CourseOf[job[w]]] = @ + 1]
  /\ Finish(w)
  /\ UNCHANGED <<enrollment, completed, lessons, attempt, answered, late, handed, rewarded, slips, history>>

-----------------------------------------------------------------------------
\* The process stops or the database refuses a statement.
Abort(w) ==
  /\ pc[w] # "idle" /\ Slip
  /\ Finish(w)
  /\ UNCHANGED <<records, history>>

\* A lesson that holds an enrolment waits for the wallet, whose holder waits
\* for that enrolment: Postgres rolls one of them back.
DeadlockVictim(w) ==
  /\ \E l, r \in Worker :
       /\ pc[l] = "commit" /\ job[l] \in Lesson
       /\ pc[r] = "sync" /\ job[r] \notin Lesson /\ seen[r].fresh
       /\ CourseOf[job[l]] = CourseOf[job[r]] /\ w \in {l, r}
  /\ Finish(w)
  /\ UNCHANGED <<records, slips, history>>

Proceed(w) ==
  \/ EnrollCreate(w) \/ LessonMark(w) \/ SyncWrite(w) \/ SyncCommit(w)
  \/ AttemptCreate(w) \/ SubmitExpire(w) \/ SubmitFinalize(w)
  \/ HandInWrite(w) \/ KeyRead(w) \/ RewardMark(w)
  \/ IssueFind(w) \/ IssueCreate(w) \/ DeadlockVictim(w)

Request(w) ==
  \/ \E c \in Course : EnrollStart(w, c) \/ AssignStart(w, c)
  \/ \E l \in Lesson : LessonStart(w, l)
  \/ \E q \in Quiz : AttemptStart(w, q) \/ SubmitStart(w, q)
  \/ \E a \in Assignment : HandInStart(w, a)

Next ==
  \/ \E w \in Worker : Proceed(w) \/ Request(w) \/ Abort(w)
  \/ \E c \in Course : Unenroll(c) \/ EnrollRepeated(c)
  \/ \E q \in Quiz : TimeRunsOut(q)
  \/ \E l \in Lesson, ok \in BOOLEAN : LessonReported(l, ok)

Spec == Init /\ [][Next]_vars
\* A request that has started runs on.  Nobody holds a row again and again (Slip
\* bounds the transactions that are broken off), so whoever waits gets it.
FairSpec == Spec /\ \A w \in Worker : WF_vars(Proceed(w))

-----------------------------------------------------------------------------
(* Properties *)

\* "every completion rule is satisfied": a completed enrolment was earned, by
\* lessons done, quizzes passed and work handed in at some time, although sync
\* writes what it evaluated before it waited for the row.
Earned(c) == Satisfied(c, done, passes, handed)
CompletedIsEarned == \A c \in Course : enrollment[c] = "COMPLETED" => Earned(c)

\* sync: "completion and the certificate commit together": whatever races,
\* leaves or stops, a completed certificate course has its certificate.
CompletedIsCertified ==
  \A c \in Course \intersect Certified : enrollment[c] = "COMPLETED" => certs[c] > 0

\* Nobody gets a certificate who neither satisfied the rules nor passed the
\* exam that issues it.
CertificateIsEarned ==
  \A c \in Course : certs[c] > 0 =>
    \/ c \in Certified /\ Earned(c)
    \/ Of(Exam \intersect Certified, c) \intersect passes # {}

\* sync is "idempotent": syncs alone, however many race and after however many
\* unenrolments, issue one certificate.
SyncsIssueOnce ==
  \A c \in Course : Of(Exam \intersect Certified, c) = {} => certs[c] <= 1

\* Completions and certificates come together, neither unearned nor twice.
CertificatesHold == CompletedIsCertified /\ CertificateIsEarned /\ SyncsIssueOnce

\* startAttempt: double starts never exceed the limit or leave two attempts
\* open.
AttemptsWithinLimit ==
  \A q \in Quiz :
    /\ Len(attempt[q]) <= MaxAttempts[q]
    /\ \A m, n \in DOMAIN attempt[q] : IsOpen(q, m) /\ IsOpen(q, n) => m = n

\* Who enrols or joins a course has completed its prerequisites, also where a
\* sync brings back an enrolment that was left.  Excepted are the requests that
\* do not ask: an assignment by who runs the course, a lesson reported through
\* student/lessons, and the hand-in for a class, whose sync makes the enrolment.
PrerequisitesFirst ==
  \A c \in Course : Enrolled(c) => c \in waived \/ Prerequisites[c] \subseteq finished

\* Every request ends, though transactions wait for each other's rows.
RequestsFinish == \A w \in Worker : pc[w] # "idle" ~> pc[w] = "idle"
=============================================================================
