---------------------------- MODULE CoursesProofs ----------------------------
(***************************************************************************)
(* Courses, for every set of courses and work, every set of rules and any  *)
(* number of requests: type correctness, that completion and certificates  *)
(* are earned and come together, that syncs alone issue one certificate,   *)
(* and that attempts stay within their limit.                              *)
(*                                                                         *)
(* What a request was told when it read the records (Told) stays true      *)
(* while others run, because the records it is about only grow (Grow).     *)
(*                                                                         *)
(* Coursework, with variables of its own: who reviews whom, that a grade   *)
(* stands, and that the peer score is the mean of the reviews and within   *)
(* what the assignment is worth.  A mean is a sum over a set, which the    *)
(* community modules compute by recursion over its subsets: that the       *)
(* recursion has a value, and its bounds, follow from a least subset where *)
(* they would fail (LeastSubset).                                          *)
(***************************************************************************)
EXTENDS Courses, Coursework, FiniteSetTheorems, WellFoundedInduction, SequenceTheorems, TLAPS

\* A passed attempt is remembered, and so is what a request was told of one.
KnowsPass(w) ==
  /\ seen[w].passed => job[w] \in passes
  /\ pc[w] \in {"issue", "issueCreate"} => job[w] \in Exam \intersect Certified \intersect passes

\* A sync that saw the rules satisfied still would: they are about work that is
\* never undone.
SyncEarned(w) ==
  InTransaction(w) /\ seen[w].complete =>
    Satisfied(CourseOf[job[w]], done \union (Lesson \intersect {job[w]}), passes, handed)

\* What a sync saw of a certificate, itself or through a completed enrolment,
\* still exists; what it did not find is still missing, unless an exam issues it.
SyncCertified(w) ==
  /\ InTransaction(w) /\ seen[w].was /\ CourseOf[job[w]] \in Certified
       => certs[CourseOf[job[w]]] > 0
  /\ pc[w] = "commit" /\ seen[w].found => certs[CourseOf[job[w]]] > 0
  /\ pc[w] = "commit" /\ ~seen[w].found /\ Of(Exam \intersect Certified, CourseOf[job[w]]) = {}
       => certs[CourseOf[job[w]]] = 0

\* Whoever works in a course was let in once.
Entered(c) == c \in waived \/ Prerequisites[c] \subseteq finished
HasEntered(w) ==
  /\ job[w] \in Work => Entered(CourseOf[job[w]])
  /\ job[w] \in Course => Entered(job[w])

\* The next attempt's number fits, and while it is the next one nothing is open;
\* a submission is of an attempt that exists.
CountsAttempts(w) ==
  /\ pc[w] = "start" =>
       /\ seen[w].no \in Nat \ {0}
       /\ seen[w].no <= MaxAttempts[job[w]] /\ seen[w].no <= Len(attempt[job[w]]) + 1
       /\ seen[w].no = Len(attempt[job[w]]) + 1
            => \A n \in DOMAIN attempt[job[w]] : attempt[job[w]][n] # "open"
  /\ pc[w] = "submit" => seen[w].no \in DOMAIN attempt[job[w]]

Told(w) == KnowsPass(w) /\ SyncEarned(w) /\ SyncCertified(w) /\ HasEntered(w) /\ CountsAttempts(w)

\* A sync about to commit holds the enrolment alone.
HoldsAlone(w) ==
  \A v \in Worker : pc[w] = "commit" /\ pc[v] = "commit" /\ CourseOf[job[v]] = CourseOf[job[w]] => v = w

\* How the records relate.
PassesKnown == \A q \in Quiz : \A n \in DOMAIN attempt[q] : attempt[q][n] = "passed" => q \in passes
WorkIsEntered ==
  /\ \A c \in Course : enrollment[c] = "COMPLETED" => c \in finished
  /\ \A q \in Quiz : attempt[q] # <<>> => Entered(CourseOf[q])
RecordFacts ==
  /\ PassesKnown /\ WorkIsEntered /\ AttemptsWithinLimit
  /\ CompletedIsEarned /\ CompletedIsCertified /\ CertificateIsEarned
  /\ SyncsIssueOnce /\ PrerequisitesFirst

IInv == TypeOK /\ RecordFacts /\ \A w \in Worker : Told(w) /\ HoldsAlone(w)

USE CoursesAssumption

-----------------------------------------------------------------------------
(* How records and requests move *)

\* The rules ask for more work, never for less.
LEMMA SatisfiedGrows ==
  ASSUME NEW c, NEW ls, NEW qs, NEW as, NEW ls2, NEW qs2, NEW as2,
         ls \subseteq ls2, qs \subseteq qs2, as \subseteq as2, Satisfied(c, ls, qs, as)
  PROVE  Satisfied(c, ls2, qs2, as2)
  BY DEF Satisfied

\* The requests outside W stand still.
OthersWait(W) == \A v \in Worker \ W : pc'[v] = pc[v] /\ job'[v] = job[v] /\ seen'[v] = seen[v]

\* Work done stays done, certificates stay, and attempts are only added or closed.
WorkGrows ==
  done \subseteq done' /\ handed \subseteq handed' /\ passes \subseteq passes'
    /\ finished \subseteq finished' /\ waived \subseteq waived'
CertsGrow(W) ==
  \A c \in Course :
    /\ certs[c] \in Nat /\ certs'[c] \in Nat /\ certs[c] <= certs'[c]
    /\ \/ certs'[c] = certs[c] \/ Of(Exam \intersect Certified, c) # {}
       \/ \A v \in Worker \ W : pc[v] = "commit" => CourseOf[job[v]] # c
AttemptsGrow ==
  \A q \in Quiz :
    /\ Len(attempt[q]) \in Nat /\ Len(attempt'[q]) \in Nat /\ Len(attempt[q]) <= Len(attempt'[q])
    /\ DOMAIN attempt[q] = 1..Len(attempt[q]) /\ DOMAIN attempt'[q] = 1..Len(attempt'[q])
    /\ Len(attempt'[q]) = Len(attempt[q]) =>
         \A n \in 1..Len(attempt[q]) : attempt'[q][n] = "open" => attempt[q][n] = "open"
Grow(W) == WorkGrows /\ CertsGrow(W) /\ AttemptsGrow

LEMMA AttemptsAreSequences ==
  ASSUME RecordsOK, NEW q \in Quiz
  PROVE  Len(attempt[q]) \in Nat /\ DOMAIN attempt[q] = 1..Len(attempt[q]) /\ attempt[q] \in Seq(Status)
  BY LenProperties DEF RecordsOK

LEMMA CertsUnchanged ==
  ASSUME RecordsOK, NEW W, UNCHANGED certs  PROVE CertsGrow(W)
  BY DEF RecordsOK, CertsGrow

LEMMA AttemptsUnchanged ==
  ASSUME RecordsOK, UNCHANGED attempt  PROVE AttemptsGrow
  BY AttemptsAreSequences DEF AttemptsGrow

LEMMA NothingGrows ==
  ASSUME RecordsOK, NEW W, UNCHANGED <<attempt, handed, certs, done, passes, finished>>, waived \subseteq waived'
  PROVE  Grow(W)
  BY CertsUnchanged, AttemptsUnchanged DEF Grow, WorkGrows

\* Where the records stand still, so does what relates them.
LEMMA RecordsKept ==
  ASSUME RecordFacts, UNCHANGED <<enrollment, attempt, handed, certs, done, passes, finished>>,
         waived \subseteq waived'
  PROVE  RecordFacts'
  BY DEF RecordFacts, PassesKnown, WorkIsEntered, AttemptsWithinLimit, CompletedIsEarned,
     CompletedIsCertified, CertificateIsEarned, SyncsIssueOnce, PrerequisitesFirst, Enrolled,
     Earned, Entered, IsOpen

\* A sync is about the work of a course, an attempt about a quiz.
LEMMA JobTypes ==
  ASSUME HandlersOK, NEW w \in Worker
  PROVE  /\ pc[w] \notin {"idle", "enroll"} => job[w] \in Work /\ CourseOf[job[w]] \in Course
         /\ pc[w] \in {"start", "submit"} => job[w] \in Quiz
<1>1. pc[w] \notin {"idle", "enroll"} => job[w] \in Work
  BY DEF HandlersOK, Work
<1>2. pc[w] \in {"start", "submit"} => job[w] \in Quiz
  BY DEF HandlersOK
<1> QED BY <1>1, <1>2

\* What a request was told stays true while others work.
LEMMA OthersStayTold ==
  ASSUME IInv, NEW W, OthersWait(W), Grow(W), NEW v \in Worker \ W
  PROVE  Told(v)'
<1>1. pc'[v] = pc[v] /\ job'[v] = job[v] /\ seen'[v] = seen[v]
  BY DEF OthersWait
<1>2. Told(v)
  BY DEF IInv
<1>3. /\ pc[v] \notin {"idle", "enroll"} => job[v] \in Work /\ CourseOf[job[v]] \in Course
      /\ pc[v] \in {"start", "submit"} => job[v] \in Quiz
  BY JobTypes DEF IInv, TypeOK
<1>4. KnowsPass(v)'
  BY <1>1, <1>2 DEF Told, KnowsPass, Grow, WorkGrows
<1>5. SyncEarned(v)'
  <2> SUFFICES ASSUME InTransaction(v)', seen'[v].complete
               PROVE  Satisfied(CourseOf[job'[v]], done' \union (Lesson \intersect {job'[v]}), passes', handed')
    BY DEF SyncEarned
  <2>1. Satisfied(CourseOf[job[v]], done \union (Lesson \intersect {job[v]}), passes, handed)
    BY <1>1, <1>2 DEF Told, SyncEarned, InTransaction
  <2>2. /\ done \union (Lesson \intersect {job[v]}) \subseteq done' \union (Lesson \intersect {job[v]})
        /\ passes \subseteq passes' /\ handed \subseteq handed'
    BY DEF Grow, WorkGrows
  <2>3. Satisfied(CourseOf[job[v]], done' \union (Lesson \intersect {job[v]}), passes', handed')
    BY <2>1, <2>2, SatisfiedGrows
  <2> QED BY <2>3, <1>1
<1>6. SyncCertified(v)'
  <2> DEFINE c == CourseOf[job[v]]
  <2>1. CASE InTransaction(v)
    <3>1. c \in Course
      BY <2>1, <1>3 DEF InTransaction
    <3>2. certs[c] \in Nat /\ certs'[c] \in Nat /\ certs[c] <= certs'[c]
      BY <3>1 DEF Grow, CertsGrow
    <3>3. pc[v] = "commit" /\ Of(Exam \intersect Certified, c) = {} => certs'[c] = certs[c]
      BY <3>1 DEF Grow, CertsGrow
    <3>4. /\ seen[v].was /\ c \in Certified => certs[c] > 0
          /\ pc[v] = "commit" /\ seen[v].found => certs[c] > 0
          /\ pc[v] = "commit" /\ ~seen[v].found /\ Of(Exam \intersect Certified, c) = {}
               => certs[c] = 0
      BY <2>1, <1>2 DEF Told, SyncCertified
    <3> HIDE DEF c
    <3>5. /\ seen[v].was /\ c \in Certified => certs'[c] > 0
          /\ pc[v] = "commit" /\ seen[v].found => certs'[c] > 0
          /\ pc[v] = "commit" /\ ~seen[v].found /\ Of(Exam \intersect Certified, c) = {}
               => certs'[c] = 0
      <4>1. certs[c] > 0 => certs'[c] > 0
        BY <3>2
      <4> QED BY <4>1, <3>3, <3>4
    <3> QED BY <1>1, <3>5 DEF SyncCertified, c
  <2>2. CASE ~InTransaction(v)
    BY <2>2, <1>1 DEF SyncCertified, InTransaction
  <2> QED BY <2>1, <2>2
<1>7. HasEntered(v)'
  BY <1>1, <1>2 DEF Told, HasEntered, Entered, Grow, WorkGrows
<1>8. CountsAttempts(v)'
  <2> DEFINE q == job[v]
             n == seen[v].no
  <2>1. CASE pc[v] \in {"start", "submit"}
    <3>1. /\ Len(attempt[q]) \in Nat /\ Len(attempt'[q]) \in Nat /\ Len(attempt[q]) <= Len(attempt'[q])
          /\ DOMAIN attempt[q] = 1..Len(attempt[q]) /\ DOMAIN attempt'[q] = 1..Len(attempt'[q])
          /\ Len(attempt'[q]) = Len(attempt[q]) =>
               \A m \in 1..Len(attempt[q]) : attempt'[q][m] = "open" => attempt[q][m] = "open"
      BY <2>1, <1>3 DEF Grow, AttemptsGrow
    <3>2. /\ pc[v] = "start" =>
               /\ n \in Nat \ {0} /\ n <= MaxAttempts[q] /\ n <= Len(attempt[q]) + 1
               /\ n = Len(attempt[q]) + 1 => \A m \in DOMAIN attempt[q] : attempt[q][m] # "open"
          /\ pc[v] = "submit" => n \in DOMAIN attempt[q]
      BY <1>2 DEF Told, CountsAttempts
    <3> HIDE DEF q, n
    <3>3. pc[v] = "start" =>
            /\ n <= Len(attempt'[q]) + 1
            /\ n = Len(attempt'[q]) + 1 => \A m \in DOMAIN attempt'[q] : attempt'[q][m] # "open"
      BY <3>1, <3>2
    <3>4. pc[v] = "submit" => n \in DOMAIN attempt'[q]
      BY <3>1, <3>2
    <3> QED BY <3>2, <3>3, <3>4, <1>1 DEF CountsAttempts, q, n
  <2>2. CASE pc[v] \notin {"start", "submit"}
    BY <2>2, <1>1 DEF CountsAttempts
  <2> QED BY <2>1, <2>2
<1> QED BY <1>4, <1>5, <1>6, <1>7, <1>8 DEF Told

\* So a step need only look after the records and the request that takes it.
LEMMA StepKeeps ==
  ASSUME IInv, NEW W, OthersWait(W), Grow(W), TypeOK', RecordFacts',
         \A w \in W \intersect Worker :
           /\ Told(w)'
           /\ \A v \in Worker \ W : pc'[w] = "commit" /\ pc[v] = "commit" => CourseOf[job[v]] # CourseOf[job'[w]],
         \A w, v \in W : w = v
  PROVE  IInv'
<1>1. \A v \in Worker : Told(v)'
  BY OthersStayTold
<1>2. ASSUME NEW w \in Worker, NEW v \in Worker, pc'[w] = "commit", pc'[v] = "commit",
             CourseOf[job'[v]] = CourseOf[job'[w]]
      PROVE  v = w
  <2>1. CASE w \notin W /\ v \notin W
    BY <2>1, <1>2 DEF OthersWait, IInv, HoldsAlone
  <2>2. CASE w \in W /\ v \notin W
    BY <2>2, <1>2 DEF OthersWait
  <2>3. CASE w \notin W /\ v \in W
    BY <2>3, <1>2 DEF OthersWait
  <2>4. CASE w \in W /\ v \in W
    BY <2>4
  <2> QED BY <2>1, <2>2, <2>3, <2>4
<1> QED BY <1>1, <1>2 DEF IInv, HoldsAlone

-----------------------------------------------------------------------------
(* How one request moves on *)

LEMMA NothingSeenFacts ==
  /\ NothingSeen \in Seen /\ NothingSeen.complete = FALSE /\ NothingSeen.was = FALSE
  /\ NothingSeen.found = FALSE /\ NothingSeen.passed = FALSE
  BY DEF NothingSeen, Seen

LEMMA AttemptSeenFacts ==
  ASSUME NEW n \in Nat, NEW b \in BOOLEAN
  PROVE  /\ [NothingSeen EXCEPT !.no = n] \in Seen
         /\ [NothingSeen EXCEPT !.no = n].passed = FALSE /\ [NothingSeen EXCEPT !.no = n].no = n
         /\ [NothingSeen EXCEPT !.no = n, !.late = b] \in Seen
         /\ [NothingSeen EXCEPT !.no = n, !.late = b].passed = FALSE
         /\ [NothingSeen EXCEPT !.no = n, !.late = b].no = n
  BY DEF NothingSeen, Seen

LEMMA BeginFacts ==
  ASSUME HandlersOK, NEW w \in Worker, NEW j, NEW step, NEW s \in Seen, Begin(w, j, step, s),
         handed \subseteq handed',
         \/ step = "enroll" /\ j \in Course
         \/ step = "lesson" /\ j \in Lesson
         \/ step \in {"start", "submit"} /\ j \in Quiz
         \/ step = "handIn" /\ j \in Assignment
  PROVE  /\ pc'[w] = step /\ job'[w] = j /\ seen'[w] = s
         /\ OthersWait({w}) /\ HandlersOK'
<1>1. pc'[w] = step /\ job'[w] = j /\ seen'[w] = s /\ OthersWait({w})
  BY DEF Begin, HandlersOK, OthersWait
<1>2. seen' \in [Worker -> Seen] /\ pc' = [pc EXCEPT ![w] = step] /\ job' = [job EXCEPT ![w] = j]
  BY DEF Begin, HandlersOK
<1> HIDE DEF Seen
<1> QED BY <1>1, <1>2, SMTT(60) DEF HandlersOK, Work, OthersWait

\* A request that is over knows nothing, and so nothing false.
LEMMA FinishFacts ==
  ASSUME HandlersOK, NEW w \in Worker, Finish(w), handed \subseteq handed', passes' \subseteq Quiz
  PROVE  pc'[w] = "idle" /\ Told(w)' /\ OthersWait({w}) /\ HandlersOK'
<1>1. pc'[w] = "idle" /\ job'[w] = None /\ seen'[w] = NothingSeen /\ OthersWait({w})
  BY DEF Finish, HandlersOK, OthersWait
<1>2. seen' \in [Worker -> Seen] /\ pc' = [pc EXCEPT ![w] = "idle"] /\ job' = [job EXCEPT ![w] = None]
  BY NothingSeenFacts DEF Finish, HandlersOK
<1>3. HandlersOK'
  BY <1>1, <1>2, SMTT(60) DEF HandlersOK, Work, OthersWait
<1>4. None \notin Work /\ None \notin Course
  BY DEF Work
<1>5. Told(w)'
  BY <1>1, <1>4, NothingSeenFacts
     DEF Told, KnowsPass, SyncEarned, SyncCertified, HasEntered, CountsAttempts, InTransaction
<1> QED BY <1>1, <1>3, <1>5

LEMMA ContinueFacts ==
  ASSUME HandlersOK, NEW w \in Worker, NEW step, NEW s \in Seen, Continue(w, step, s),
         handed \subseteq handed',
         \/ step = "key" /\ job[w] \in Assignment \intersect handed'
         \/ step = "reward" /\ job[w] \in Quiz
         \/ step = "reward" /\ job[w] \in Assignment \intersect handed'
         \/ step \in {"sync", "commit"} /\ job[w] \in Work /\ (job[w] \in Assignment => job[w] \in handed')
         \/ step \in {"issue", "issueCreate"} /\ job[w] \in Quiz
  PROVE  /\ pc'[w] = step /\ job'[w] = job[w] /\ seen'[w] = s
         /\ OthersWait({w}) /\ HandlersOK'
<1>1. pc'[w] = step /\ job'[w] = job[w] /\ seen'[w] = s /\ OthersWait({w})
  BY DEF Continue, HandlersOK, OthersWait
<1>2. seen' \in [Worker -> Seen] /\ pc' = [pc EXCEPT ![w] = step] /\ job' = job
  BY DEF Continue, HandlersOK
<1> QED BY <1>1, <1>2, SMTT(60) DEF HandlersOK, Work, OthersWait

\* A step that reads only, and leaves its request told the truth outside the
\* commit, keeps the invariant.
LEMMA ReadKeeps ==
  ASSUME IInv, NEW w \in Worker, OthersWait({w}), HandlersOK', Told(w)', pc'[w] # "commit",
         UNCHANGED <<records, done, passes, finished>>, waived \subseteq waived', waived' \subseteq Course,
         slips' \in Nat
  PROVE  IInv'
<1>1. UNCHANGED <<enrollment, completed, lessons, attempt, answered, late, handed, rewarded, certs,
                  done, passes, finished>>
  BY DEF records
<1>2. RecordsOK'
  BY <1>1 DEF IInv, TypeOK, RecordsOK
<1>3. TypeOK' /\ RecordFacts' /\ Grow({w})
  BY <1>1, <1>2, RecordsKept, NothingGrows DEF IInv, TypeOK
<1> QED BY <1>3, StepKeeps

LEMMA FinishKeeps ==
  ASSUME IInv, NEW w \in Worker, Finish(w), UNCHANGED <<records, history>>, slips' \in Nat
  PROVE  IInv'
<1>1. handed \subseteq handed' /\ passes' \subseteq Quiz /\ waived' \subseteq Course
      /\ UNCHANGED <<done, passes, finished, waived>>
  BY DEF records, history, IInv, TypeOK, RecordsOK
<1>2. pc'[w] = "idle" /\ Told(w)' /\ OthersWait({w}) /\ HandlersOK'
  BY <1>1, FinishFacts DEF IInv, TypeOK
<1> QED BY <1>1, <1>2, ReadKeeps

-----------------------------------------------------------------------------
(* Requests begin *)

\* A request begins with a job whose course was entered, knowing nothing yet.
LEMMA BeginKeeps ==
  ASSUME IInv, NEW w \in Worker, NEW j, NEW step, NEW s \in Seen, Begin(w, j, step, s),
         ~s.passed, UNCHANGED <<records, done, passes, finished>>,
         waived \subseteq waived', waived' \subseteq Course, slips' \in Nat,
         \/ step = "enroll" /\ j \in Course /\ Entered(j)'
         \/ step = "lesson" /\ j \in Lesson /\ Entered(CourseOf[j])'
         \/ step = "handIn" /\ j \in Assignment /\ Entered(CourseOf[j])'
         \/ /\ step = "start" /\ j \in Quiz /\ Entered(CourseOf[j])'
            /\ s.no = Len(attempt[j]) + 1 /\ s.no <= MaxAttempts[j]
            /\ \A n \in DOMAIN attempt[j] : attempt[j][n] # "open"
         \/ step = "submit" /\ j \in Quiz /\ Entered(CourseOf[j])' /\ s.no \in DOMAIN attempt[j]
  PROVE  IInv'
<1>1. UNCHANGED <<attempt, handed, finished>>
  BY DEF records, history, IInv, TypeOK, RecordsOK
<1>2. /\ pc'[w] = step /\ job'[w] = j /\ seen'[w] = s
      /\ OthersWait({w}) /\ HandlersOK'
  <2>1. HandlersOK /\ handed \subseteq handed'
    BY <1>1 DEF IInv, TypeOK
  <2> QED BY <2>1, BeginFacts
<1>3. step \notin {"sync", "commit", "issue", "issueCreate"}
  OBVIOUS
<1>4. KnowsPass(w)' /\ SyncEarned(w)' /\ SyncCertified(w)'
  BY <1>2, <1>3 DEF KnowsPass, SyncEarned, SyncCertified, InTransaction
<1>5. HasEntered(w)'
  BY <1>2 DEF HasEntered, Work
<1>6. CountsAttempts(w)'
  <2>1. CASE step = "start"
    <3>1. Len(attempt[j]) \in Nat
      BY <2>1, AttemptsAreSequences DEF IInv, TypeOK
    <3> QED BY <2>1, <3>1, <1>1, <1>2 DEF CountsAttempts
  <2>2. CASE step # "start"
    BY <2>2, <1>1, <1>2 DEF CountsAttempts
  <2> QED BY <2>1, <2>2
<1>7. Told(w)'
  BY <1>4, <1>5, <1>6 DEF Told
<1> QED BY <1>1, <1>2, <1>3, <1>7, ReadKeeps

LEMMA EnrolledHasEntered ==
  ASSUME IInv, NEW c \in Course, Enrolled(c)  PROVE Entered(c)
  BY DEF IInv, RecordFacts, PrerequisitesFirst, Entered

\* Whatever opens a course, it is entered then.
LEMMA OpensEnters ==
  ASSUME IInv, NEW c \in Course, Opens(c), UNCHANGED finished
  PROVE  Entered(c)' /\ waived \subseteq waived' /\ waived' \subseteq Course /\ slips' \in Nat
<1>1. waived \subseteq Course /\ slips \in Nat
  BY DEF IInv, TypeOK, RecordsOK
<1>2. CASE Enrolled(c)
  BY <1>1, <1>2, EnrolledHasEntered DEF Opens, Entered
<1>3. CASE ~Enrolled(c)
  BY <1>1, <1>3 DEF Opens, Slip, Entered
<1> QED BY <1>2, <1>3

\* Enrolling starts after the prerequisites or for who runs the course, and work
\* in a course that was entered or is now.
LEMMA RequestKeeps == ASSUME IInv, NEW w \in Worker, Request(w) PROVE IInv'
<1>0. waived \subseteq Course /\ slips \in Nat
  BY DEF IInv, TypeOK, RecordsOK
<1>1. ASSUME NEW c \in Course, EnrollStart(w, c) PROVE IInv'
  <2>1. UNCHANGED <<records, done, passes, finished, waived, slips>>
    BY <1>1 DEF EnrollStart, history
  <2>2. Entered(c)'
    BY <1>1, <2>1 DEF EnrollStart, DoneFor, Entered, IInv, RecordFacts, WorkIsEntered
  <2> QED BY <1>0, <1>1, <2>1, <2>2, NothingSeenFacts, BeginKeeps DEF EnrollStart
<1>6. ASSUME NEW c \in Course, AssignStart(w, c) PROVE IInv'
  <2>1. UNCHANGED <<records, done, passes, finished>>
    BY <1>6 DEF AssignStart
  <2>2. Entered(c)' /\ waived \subseteq waived' /\ waived' \subseteq Course /\ slips' \in Nat
    BY <1>6, <2>1, OpensEnters DEF AssignStart
  <2> QED BY <1>6, <2>1, <2>2, NothingSeenFacts, BeginKeeps DEF AssignStart
<1>2. ASSUME NEW l \in Lesson, LessonStart(w, l) PROVE IInv'
  <2>1. UNCHANGED <<records, done, passes, finished>> /\ CourseOf[l] \in Course
    BY <1>2 DEF LessonStart, Work
  <2>2. Entered(CourseOf[l])' /\ waived \subseteq waived' /\ waived' \subseteq Course /\ slips' \in Nat
    BY <1>2, <2>1, OpensEnters DEF LessonStart
  <2> QED BY <1>2, <2>1, <2>2, NothingSeenFacts, BeginKeeps DEF LessonStart
<1>3. ASSUME NEW a \in Assignment, HandInStart(w, a) PROVE IInv'
  <2> DEFINE s == [NothingSeen EXCEPT !.fresh = TRUE]
  <2>1. UNCHANGED <<records, done, passes, finished>> /\ CourseOf[a] \in Course
    BY <1>3 DEF HandInStart, Work
  <2>2. s \in Seen /\ ~s.passed
    BY DEF NothingSeen, Seen
  <2>3. Begin(w, a, "handIn", s)
    BY <1>3 DEF HandInStart
  <2>4. Entered(CourseOf[a])' /\ waived \subseteq waived' /\ waived' \subseteq Course /\ slips' \in Nat
    BY <1>3, <2>1, OpensEnters DEF HandInStart
  <2> HIDE DEF s
  <2> QED BY <2>1, <2>2, <2>3, <2>4, BeginKeeps
<1>4. ASSUME NEW q \in Quiz, AttemptStart(w, q) PROVE IInv'
  <2> DEFINE s == [NothingSeen EXCEPT !.no = Len(attempt[q]) + 1]
  <2>7. UNCHANGED <<records, done, passes, finished, waived, slips>>
    BY <1>4 DEF AttemptStart, history
  <2>1. Entered(CourseOf[q])'
    BY <1>4, <2>7, EnrolledHasEntered DEF AttemptStart, Work, Entered
  <2>2. Len(attempt[q]) \in Nat /\ MaxAttempts[q] \in Nat
    BY AttemptsAreSequences DEF IInv, TypeOK
  <2>3. s \in Seen /\ ~s.passed /\ s.no = Len(attempt[q]) + 1
    <3>1. Len(attempt[q]) + 1 \in Nat
      BY <2>2
    <3> QED BY ONLY <3>1, AttemptSeenFacts, Zenon
  <2>4. Begin(w, q, "start", s)
    BY <1>4 DEF AttemptStart
  <2>5. Len(attempt[q]) < MaxAttempts[q] /\ \A n \in DOMAIN attempt[q] : attempt[q][n] # "open"
    BY <1>4 DEF AttemptStart, Used
  <2> HIDE DEF s
  <2>6. s.no <= MaxAttempts[q]
    BY <2>2, <2>3, <2>5
  <2> QED BY <1>0, <2>1, <2>3, <2>4, <2>5, <2>6, <2>7, BeginKeeps
<1>5. ASSUME NEW q \in Quiz, SubmitStart(w, q) PROVE IInv'
  <2>1. PICK n \in DOMAIN attempt[q] :
          IsOpen(q, n) /\ Begin(w, q, "submit", [NothingSeen EXCEPT !.no = n, !.late = q \in late])
    BY <1>5 DEF SubmitStart
  <2> DEFINE s == [NothingSeen EXCEPT !.no = n, !.late = q \in late]
  <2>2. n \in Nat /\ attempt[q] # <<>>
    BY <2>1, AttemptsAreSequences DEF IInv, TypeOK
  <2>7. UNCHANGED <<records, done, passes, finished, waived, slips>>
    BY <1>5 DEF SubmitStart, history
  <2>3. Entered(CourseOf[q])'
    BY <2>2, <2>7 DEF Entered, IInv, RecordFacts, WorkIsEntered
  <2>4. s \in Seen /\ ~s.passed /\ s.no = n
    <3>1. (q \in late) \in BOOLEAN
      OBVIOUS
    <3> QED BY ONLY <2>2, <3>1, AttemptSeenFacts, Zenon
  <2>5. Begin(w, q, "submit", s)
    BY <1>5, <2>1 DEF SubmitStart
  <2> HIDE DEF s
  <2> QED BY <1>0, <2>1, <2>3, <2>4, <2>5, <2>7, BeginKeeps
<1> QED BY <1>1, <1>2, <1>3, <1>4, <1>5, <1>6 DEF Request

-----------------------------------------------------------------------------
(* CompletionService.sync *)

\* The rules are evaluated and the enrolment read.
LEMMA EvaluateKeeps ==
  ASSUME IInv, NEW w \in Worker, NEW ls, Evaluate(w, ls), pc[w] \in {"lesson", "reward"},
         ls = completed \union (Lesson \intersect {job[w]}), UNCHANGED <<records, slips, history>>
  PROVE  IInv'
<1> DEFINE c == CourseOf[job[w]]
           a == Satisfied(c, ls, Passed, handed)
           b == enrollment[c] = "COMPLETED"
           t == [seen[w] EXCEPT !.complete = a, !.was = b]
<1>1. HandlersOK /\ RecordsOK /\ Told(w)
  BY DEF IInv, TypeOK
<1>2. /\ job[w] \in Work /\ (job[w] \in Assignment => job[w] \in handed) /\ c \in Course
      /\ seen[w] \in Seen
  BY <1>1 DEF HandlersOK, Work
<1>3. a \in BOOLEAN /\ b \in BOOLEAN
  BY DEF Satisfied
<1>4. t \in Seen /\ t.complete = a /\ t.was = b /\ t.passed = seen[w].passed
  <2> HIDE DEF a, b
  <2> QED BY ONLY <1>2, <1>3 DEF Seen, t
<1>5. Continue(w, "sync", t)
  BY DEF Evaluate
<1>6. a => Satisfied(c, done \union (Lesson \intersect {job[w]}), passes, handed)
  <2>1. Passed \subseteq passes
    BY DEF Passed, IInv, RecordFacts, PassesKnown
  <2>2. ls \subseteq done \union (Lesson \intersect {job[w]})
    BY <1>1 DEF RecordsOK
  <2> QED BY <2>1, <2>2, SatisfiedGrows
<1>7. b /\ c \in Certified => certs[c] > 0
  BY <1>2 DEF IInv, RecordFacts, CompletedIsCertified
<1>8. UNCHANGED <<done, passes, handed, certs, finished, waived>> /\ slips' \in Nat
      /\ UNCHANGED <<records, done, passes, finished>> /\ waived' \subseteq Course
  BY <1>1 DEF records, history, RecordsOK
<1> HIDE DEF t, a, b
<1>9. pc'[w] = "sync" /\ job'[w] = job[w] /\ seen'[w] = t /\ OthersWait({w}) /\ HandlersOK'
  BY <1>1, <1>2, <1>4, <1>5, <1>8, ContinueFacts
<1>10. Told(w)'
  <2>1. KnowsPass(w)' /\ HasEntered(w)' /\ CountsAttempts(w)'
    BY <1>1, <1>4, <1>8, <1>9 DEF Told, KnowsPass, HasEntered, Entered, CountsAttempts
  <2>2. SyncEarned(w)'
    BY <1>4, <1>6, <1>8, <1>9 DEF SyncEarned
  <2>3. SyncCertified(w)'
    BY <1>4, <1>7, <1>8, <1>9 DEF SyncCertified
  <2> QED BY <2>1, <2>2, <2>3 DEF Told
<1> QED BY <1>8, <1>9, <1>10, ReadKeeps

\* A write of a Progress row: what is completed now was completed once.
LEMMA ProgressKeeps ==
  ASSUME IInv, NEW W, OthersWait(W), HandlersOK', \A w \in W \intersect Worker : Told(w)' /\ pc'[w] # "commit",
         \A v, w \in W : v = w,
         UNCHANGED <<enrollment, lessons, attempt, answered, late, handed, rewarded, certs, passes, finished, waived>>,
         completed' \subseteq done', done \subseteq done', done' \subseteq Lesson, slips' \in Nat
  PROVE  IInv'
<1>1. HandlersOK /\ RecordsOK /\ RecordFacts
  BY DEF IInv, TypeOK
<1>2. TypeOK'
  BY <1>1 DEF TypeOK, RecordsOK
<1>3. Grow(W)
  BY <1>1, CertsUnchanged, AttemptsUnchanged DEF Grow, WorkGrows
<1>4. \A x : Satisfied(x, done, passes, handed) => Satisfied(x, done', passes, handed)
  BY SatisfiedGrows
<1>5. PassesKnown' /\ WorkIsEntered' /\ AttemptsWithinLimit' /\ CompletedIsCertified' /\ SyncsIssueOnce'
      /\ PrerequisitesFirst'
  BY <1>1 DEF RecordFacts, PassesKnown, WorkIsEntered, Entered, AttemptsWithinLimit, IsOpen,
     CompletedIsCertified, SyncsIssueOnce, PrerequisitesFirst, Enrolled
<1>6. CompletedIsEarned' /\ CertificateIsEarned'
  BY <1>1, <1>4 DEF RecordFacts, CompletedIsEarned, CertificateIsEarned, Earned
<1> QED BY <1>2, <1>3, <1>5, <1>6, StepKeeps DEF RecordFacts

\* POST /progress writes what it is told.
LEMMA LessonReportedKeeps ==
  ASSUME IInv, NEW l \in Lesson, NEW ok \in BOOLEAN, LessonReported(l, ok)  PROVE IInv'
<1>1. HandlersOK /\ RecordsOK
  BY DEF IInv, TypeOK
<1>2. /\ UNCHANGED <<enrollment, lessons, attempt, answered, late, handed, rewarded, certs, passes, finished, waived>>
      /\ UNCHANGED <<pc, job, seen>>
  BY DEF LessonReported, handler
<1>3. completed' \subseteq done' /\ done \subseteq done' /\ done' \subseteq Lesson /\ slips' \in Nat
  BY <1>1 DEF LessonReported, Slip, RecordsOK
<1>4. HandlersOK' /\ OthersWait({})
  BY <1>1, <1>2 DEF HandlersOK, OthersWait
<1> QED BY <1>2, <1>3, <1>4, ProgressKeeps

\* A lesson rewarded before is completed again; another is evaluated.
LEMMA LessonMarkKeeps == ASSUME IInv, NEW w \in Worker, LessonMark(w) PROVE IInv'
<1>1. HandlersOK /\ RecordsOK
  BY DEF IInv, TypeOK
<1>2. pc[w] = "lesson" /\ job[w] \in Lesson
  BY <1>1 DEF LessonMark, HandlersOK
<1>3. CASE job[w] \in lessons
  <2>1. /\ UNCHANGED <<enrollment, lessons, attempt, answered, late, handed, rewarded, certs, done, passes, finished, waived>>
        /\ completed' \subseteq done' /\ done' \subseteq Lesson /\ slips' \in Nat /\ Finish(w)
    BY <1>1, <1>3 DEF LessonMark, history, RecordsOK
  <2>2. pc'[w] = "idle" /\ Told(w)' /\ OthersWait({w}) /\ HandlersOK'
    BY <2>1, <1>1, FinishFacts DEF RecordsOK
  <2> QED BY <2>1, <2>2, ProgressKeeps
<1>4. CASE job[w] \notin lessons
  <2>1. completed \union {job[w]} = completed \union (Lesson \intersect {job[w]})
    BY <1>2
  <2>2. Evaluate(w, completed \union (Lesson \intersect {job[w]}))
    BY <1>4, <2>1 DEF LessonMark
  <2>3. UNCHANGED <<records, slips, history>>
    BY <1>4 DEF LessonMark, records
  <2> QED BY <2>2, <2>3, <1>2, EvaluateKeeps
<1> QED BY <1>3, <1>4

\* A submission rewarded meanwhile ends; another is evaluated.
LEMMA RewardMarkKeeps == ASSUME IInv, NEW w \in Worker, RewardMark(w) PROVE IInv'
<1>1. UNCHANGED <<records, slips, history>> /\ slips' \in Nat /\ pc[w] = "reward"
  BY DEF RewardMark, IInv, TypeOK, RecordsOK
<1>2. CASE Finish(w)
  BY <1>1, <1>2, FinishKeeps
<1>3. CASE Evaluate(w, completed)
  <2>1. job[w] \notin Lesson
    BY <1>1 DEF IInv, TypeOK, HandlersOK
  <2>2. completed = completed \union (Lesson \intersect {job[w]})
    BY <2>1
  <2>3. Evaluate(w, completed \union (Lesson \intersect {job[w]}))
    BY <1>3, <2>2
  <2> QED BY <2>3, <1>1, EvaluateKeeps
<1> QED BY <1>2, <1>3 DEF RewardMark

\* The enrolment row is taken, which nobody else holds, and a certificate is
\* looked for.
LEMMA SyncWriteKeeps == ASSUME IInv, NEW w \in Worker, SyncWrite(w) PROVE IInv'
<1> DEFINE c == CourseOf[job[w]]
           a == certs[c] > 0
           t == [seen[w] EXCEPT !.found = a]
<1>1. HandlersOK /\ RecordsOK /\ Told(w) /\ RecordFacts
  BY DEF IInv, TypeOK
<1>2. /\ pc[w] = "sync" /\ job[w] \in Work /\ (job[w] \in Assignment => job[w] \in handed)
      /\ c \in Course /\ seen[w] \in Seen /\ certs[c] \in Nat
  <2>1. pc[w] = "sync"
    BY DEF SyncWrite
  <2>2. job[w] \in Work /\ c \in Course
    BY <2>1, <1>1, JobTypes
  <2> QED BY <2>1, <2>2, <1>1 DEF HandlersOK, RecordsOK
<1>3. t \in Seen /\ t.found = a /\ t.complete = seen[w].complete /\ t.was = seen[w].was
      /\ t.passed = seen[w].passed
  <2>1. a \in BOOLEAN
    BY <1>2
  <2> HIDE DEF a
  <2> QED BY ONLY <1>2, <2>1 DEF Seen, t
<1>4. Continue(w, "commit", t) /\ \A v \in Worker : pc[v] = "commit" => CourseOf[job[v]] # c
  BY DEF SyncWrite, RowHeld
<1>5. UNCHANGED <<enrollment, completed, lessons, attempt, answered, late, handed, rewarded, certs,
                  slips, done, passes, finished, waived>>
  BY DEF SyncWrite, records, history
<1> HIDE DEF t
<1>6. pc'[w] = "commit" /\ job'[w] = job[w] /\ seen'[w] = t /\ OthersWait({w}) /\ HandlersOK'
  <2>1. Continue(w, "commit", t) /\ handed \subseteq handed' /\ (job[w] \in Assignment => job[w] \in handed')
    BY <1>2, <1>4, <1>5
  <2> QED BY ONLY CoursesAssumption, <1>1, <1>2, <1>3, <2>1, w \in Worker, ContinueFacts
<1>7. Told(w)'
  <2>1. KnowsPass(w)' /\ HasEntered(w)' /\ CountsAttempts(w)'
    BY <1>1, <1>3, <1>5, <1>6 DEF Told, KnowsPass, HasEntered, Entered, CountsAttempts
  <2>2. SyncEarned(w)'
    BY <1>1, <1>2, <1>3, <1>5, <1>6 DEF Told, SyncEarned, InTransaction
  <2>3. SyncCertified(w)'
    <3>1. ~a => certs[c] = 0
      BY <1>2
    <3>2. seen[w].was /\ c \in Certified => certs[c] > 0
      BY <1>1, <1>2 DEF Told, SyncCertified, InTransaction
    <3> QED BY <3>1, <3>2, <1>3, <1>5, <1>6 DEF SyncCertified
  <2> QED BY <2>1, <2>2, <2>3 DEF Told
<1>8. TypeOK' /\ RecordFacts' /\ Grow({w})
  BY <1>1, <1>5, <1>6, RecordsKept, NothingGrows DEF TypeOK, RecordsOK
<1> QED BY <1>4, <1>6, <1>7, <1>8, StepKeeps

\* The verdict, the certificate and the reward commit together.
LEMMA SyncCommitKeeps == ASSUME IInv, NEW w \in Worker, SyncCommit(w) PROVE IInv'
<1> DEFINE j == job[w]
           c == CourseOf[j]
           s == seen[w]
<1>1. HandlersOK /\ RecordsOK /\ Told(w) /\ RecordFacts /\ HoldsAlone(w)
  BY DEF IInv, TypeOK
<1>2. pc[w] = "commit" /\ j \in Work /\ c \in Course /\ s \in Seen /\ (j \in Assignment => j \in handed)
  <2>1. pc[w] = "commit"
    BY DEF SyncCommit
  <2>2. job[w] \in Work /\ c \in Course
    BY <2>1, <1>1, JobTypes
  <2> QED BY <2>1, <2>2, <1>1 DEF HandlersOK
<1>3. /\ enrollment' = [enrollment EXCEPT ![c] = IF s.complete THEN "COMPLETED" ELSE "ACTIVE"]
      /\ certs' = [certs EXCEPT ![c] = IF IssuesNow(c, s) THEN @ + 1 ELSE @]
      /\ finished' = (IF s.complete THEN finished \union {c} ELSE finished)
      /\ completed' = completed \union (Lesson \intersect {j})
      /\ lessons' = lessons \union (Lesson \intersect {j})
      /\ done' = done \union (Lesson \intersect {j})
      /\ rewarded' = rewarded \union (Assignment \intersect {j})
      /\ UNCHANGED <<attempt, answered, late, handed, slips, passes, waived>>
  BY DEF SyncCommit
<1>4. s.complete => Satisfied(c, done', passes', handed')
  BY <1>1, <1>2, <1>3 DEF Told, SyncEarned, InTransaction
<1>5. /\ s.was /\ c \in Certified => certs[c] > 0
      /\ s.found => certs[c] > 0
      /\ ~s.found /\ Of(Exam \intersect Certified, c) = {} => certs[c] = 0
  BY <1>1, <1>2 DEF Told, SyncCertified, InTransaction
<1>6. \A v \in Worker \ {w} : pc[v] = "commit" => CourseOf[job[v]] # c
  BY <1>1, <1>2 DEF HoldsAlone
<1>7. Entered(c)
  BY <1>1, <1>2 DEF Told, HasEntered
<1>8. IssuesForExam(j, s) => j \in Exam \intersect Certified \intersect passes
  BY <1>1 DEF IssuesForExam, Told, KnowsPass
<1>9. /\ Told(w)' /\ pc'[w] # "commit" /\ OthersWait({w}) /\ HandlersOK'
  <2>1. CASE IssuesForExam(j, s)
    <3>1. Continue(w, "issue", s) /\ j \in Quiz
      BY <2>1, <1>8 DEF SyncCommit
    <3>2. pc'[w] = "issue" /\ job'[w] = j /\ seen'[w] = s /\ OthersWait({w}) /\ HandlersOK'
      BY <3>1, <1>1, <1>2, <1>3, ContinueFacts
    <3>3. finished \subseteq finished'
      BY <1>3
    <3>4. KnowsPass(w)' /\ HasEntered(w)'
      BY <1>1, <1>3, <1>8, <2>1, <3>2, <3>3 DEF Told, KnowsPass, HasEntered, Entered
    <3>5. SyncEarned(w)' /\ SyncCertified(w)' /\ CountsAttempts(w)'
      BY <3>2 DEF SyncEarned, SyncCertified, CountsAttempts, InTransaction
    <3> QED BY <3>2, <3>4, <3>5 DEF Told
  <2>2. CASE ~IssuesForExam(j, s)
    <3>1. Finish(w) /\ handed \subseteq handed' /\ passes' \subseteq Quiz
      BY <2>2, <1>1, <1>3 DEF SyncCommit, RecordsOK
    <3> QED BY <3>1, <1>1, FinishFacts
  <2> QED BY <2>1, <2>2
<1>10. /\ certs' \in [Course -> Nat] /\ enrollment' \in [Course -> {"none", "ACTIVE", "COMPLETED"}]
       /\ \A x \in Course : certs[x] \in Nat /\ certs'[x] \in Nat /\ certs[x] <= certs'[x]
       /\ \A x \in Course \ {c} : certs'[x] = certs[x] /\ enrollment'[x] = enrollment[x]
       /\ certs'[c] = (IF IssuesNow(c, s) THEN certs[c] + 1 ELSE certs[c])
       /\ enrollment'[c] = (IF s.complete THEN "COMPLETED" ELSE "ACTIVE")
  BY <1>1, <1>2, <1>3 DEF RecordsOK
<1>11. TypeOK'
  BY <1>1, <1>2, <1>3, <1>9, <1>10 DEF TypeOK, RecordsOK
<1>12. WorkGrows
  BY <1>3 DEF WorkGrows
<1>13. Grow({w})
  BY <1>1, <1>3, <1>6, <1>10, <1>12, AttemptsUnchanged DEF Grow, CertsGrow
<1>14. \A x : Satisfied(x, done, passes, handed) => Satisfied(x, done', passes', handed')
  BY <1>12, SatisfiedGrows DEF WorkGrows
<1> HIDE DEF c, s, j
<1>15. PassesKnown' /\ AttemptsWithinLimit'
  BY <1>1, <1>3 DEF RecordFacts, PassesKnown, AttemptsWithinLimit, IsOpen
<1>16. WorkIsEntered'
  BY <1>1, <1>2, <1>3, <1>10 DEF RecordFacts, WorkIsEntered, Entered
<1>17. CompletedIsEarned'
  BY <1>1, <1>4, <1>10, <1>14 DEF RecordFacts, CompletedIsEarned, Earned
<1>18. CompletedIsCertified'
  <2> SUFFICES ASSUME NEW x \in Course \intersect Certified, enrollment'[x] = "COMPLETED" PROVE certs'[x] > 0
    BY DEF CompletedIsCertified
  <2>1. CASE x # c
    BY <2>1, <1>1, <1>10 DEF RecordFacts, CompletedIsCertified
  <2>2. CASE x = c
    <3>1. s.complete
      BY <2>2, <1>10
    <3>2. CASE s.was \/ s.found
      BY <3>2, <2>2, <1>5, <1>10
    <3>3. CASE ~s.was /\ ~s.found
      <4>1. IssuesNow(c, s)
        BY <3>1, <3>3, <2>2 DEF IssuesNow
      <4> QED BY <4>1, <2>2, <1>10
    <3> QED BY <3>2, <3>3
  <2> QED BY <2>1, <2>2
<1>19. CertificateIsEarned'
  <2> SUFFICES ASSUME NEW x \in Course, certs'[x] > 0
               PROVE  \/ x \in Certified /\ Satisfied(x, done', passes', handed')
                      \/ Of(Exam \intersect Certified, x) \intersect passes' # {}
    BY DEF CertificateIsEarned, Earned
  <2>1. CASE x = c /\ IssuesNow(c, s)
    BY <2>1, <1>4 DEF IssuesNow
  <2>2. CASE ~(x = c /\ IssuesNow(c, s))
    <3>1. certs[x] > 0
      BY <2>2, <1>10
    <3> QED BY <3>1, <1>1, <1>3, <1>14 DEF RecordFacts, CertificateIsEarned, Earned
  <2> QED BY <2>1, <2>2
<1>20. SyncsIssueOnce'
  <2> SUFFICES ASSUME NEW x \in Course, Of(Exam \intersect Certified, x) = {} PROVE certs'[x] <= 1
    BY DEF SyncsIssueOnce
  <2>1. certs[x] <= 1
    BY <1>1 DEF RecordFacts, SyncsIssueOnce
  <2>2. x = c /\ IssuesNow(c, s) => certs[c] = 0
    BY <1>5 DEF IssuesNow
  <2> QED BY <2>1, <2>2, <1>10
<1>21. PrerequisitesFirst'
  BY <1>1, <1>7, <1>10, <1>12
     DEF RecordFacts, PrerequisitesFirst, Enrolled, Entered, WorkGrows
<1>22. RecordFacts'
  BY <1>15, <1>16, <1>17, <1>18, <1>19, <1>20, <1>21 DEF RecordFacts
<1> QED BY <1>9, <1>11, <1>13, <1>22, StepKeeps

-----------------------------------------------------------------------------
(* The other steps of a request *)

\* The key of a submission is looked for.
LEMMA KeyReadKeeps == ASSUME IInv, NEW w \in Worker, KeyRead(w) PROVE IInv'
<1> DEFINE a == job[w] \notin rewarded
           t == [seen[w] EXCEPT !.fresh = a]
<1>1. HandlersOK /\ RecordsOK /\ Told(w)
  BY DEF IInv, TypeOK
<1>2. pc[w] = "key" /\ job[w] \in Assignment \intersect handed /\ seen[w] \in Seen
  BY <1>1 DEF KeyRead, HandlersOK
<1>3. t \in Seen /\ t.passed = seen[w].passed
  <2>1. a \in BOOLEAN
    OBVIOUS
  <2> HIDE DEF a
  <2> QED BY ONLY <1>2, <2>1 DEF Seen, t
<1>4. Continue(w, "reward", t) /\ UNCHANGED <<records, slips, history>>
  BY DEF KeyRead
<1> HIDE DEF t
<1>5. UNCHANGED <<passes, handed, done, finished, waived>> /\ slips' \in Nat /\ waived' \subseteq Course
  BY <1>1, <1>4 DEF records, history, RecordsOK
<1>6. pc'[w] = "reward" /\ job'[w] = job[w] /\ seen'[w] = t /\ OthersWait({w}) /\ HandlersOK'
  BY <1>1, <1>2, <1>3, <1>4, <1>5, ContinueFacts
<1>7. Told(w)'
  BY <1>1, <1>3, <1>5, <1>6
     DEF Told, KnowsPass, HasEntered, Entered, SyncEarned, SyncCertified, CountsAttempts, InTransaction
<1> QED BY <1>4, <1>5, <1>6, <1>7, ReadKeeps

\* issueForExam finds a certificate and ends, or finds none.
LEMMA IssueFindKeeps == ASSUME IInv, NEW w \in Worker, IssueFind(w) PROVE IInv'
<1>1. HandlersOK /\ RecordsOK /\ Told(w)
  BY DEF IInv, TypeOK
<1>2. /\ UNCHANGED <<records, history>> /\ slips' \in Nat
      /\ UNCHANGED <<passes, handed, done, finished, waived>> /\ waived' \subseteq Course
  BY <1>1 DEF IssueFind, records, history, RecordsOK
<1>3. CASE Finish(w)
  BY <1>2, <1>3, FinishKeeps
<1>4. CASE Continue(w, "issueCreate", seen[w])
  <2>1. pc[w] = "issue" /\ job[w] \in Quiz /\ seen[w] \in Seen
    BY <1>1 DEF IssueFind, HandlersOK
  <2>2. pc'[w] = "issueCreate" /\ job'[w] = job[w] /\ seen'[w] = seen[w] /\ OthersWait({w}) /\ HandlersOK'
    BY <2>1, <1>1, <1>2, <1>4, ContinueFacts
  <2>3. Told(w)'
    BY <2>1, <2>2, <1>1, <1>2
       DEF Told, KnowsPass, HasEntered, Entered, SyncEarned, SyncCertified, CountsAttempts, InTransaction
  <2> QED BY <2>2, <2>3, <1>2, ReadKeeps
<1> QED BY <1>3, <1>4 DEF IssueFind

\* issueForExam creates a certificate for a passed exam.
LEMMA IssueCreateKeeps == ASSUME IInv, NEW w \in Worker, IssueCreate(w) PROVE IInv'
<1> DEFINE q == job[w]
           c == CourseOf[q]
<1>1. HandlersOK /\ RecordsOK /\ Told(w) /\ RecordFacts
  BY DEF IInv, TypeOK
<1>2. q \in Exam \intersect Certified \intersect passes /\ c \in Course
  BY <1>1 DEF IssueCreate, Told, KnowsPass, Work
<1>3. /\ certs' = [certs EXCEPT ![c] = @ + 1]
      /\ UNCHANGED <<enrollment, completed, lessons, attempt, answered, late, handed, rewarded, slips, done, passes, finished, waived>>
  BY DEF IssueCreate, history
<1>4. pc'[w] = "idle" /\ Told(w)' /\ OthersWait({w}) /\ HandlersOK'
  BY <1>1, <1>3, FinishFacts DEF IssueCreate, RecordsOK
<1>5. q \in Of(Exam \intersect Certified, c) \intersect passes
  BY <1>2 DEF Of
<1>6. /\ certs' \in [Course -> Nat]
      /\ \A x \in Course : certs[x] \in Nat /\ certs'[x] \in Nat /\ certs[x] <= certs'[x]
      /\ \A x \in Course \ {c} : certs'[x] = certs[x]
  BY <1>1, <1>2, <1>3 DEF RecordsOK
<1>7. TypeOK'
  BY <1>1, <1>3, <1>4, <1>6 DEF TypeOK, RecordsOK
<1>8. Grow({w})
  BY <1>1, <1>3, <1>5, <1>6, AttemptsUnchanged DEF Grow, WorkGrows, CertsGrow
<1> HIDE DEF c, q
<1>9. PassesKnown' /\ WorkIsEntered' /\ AttemptsWithinLimit' /\ CompletedIsEarned' /\ PrerequisitesFirst'
  BY <1>1, <1>3 DEF RecordFacts, PassesKnown, WorkIsEntered, Entered, AttemptsWithinLimit, IsOpen,
     CompletedIsEarned, Earned, PrerequisitesFirst, Enrolled
<1>10. CompletedIsCertified'
  BY <1>1, <1>3, <1>6 DEF RecordFacts, CompletedIsCertified
<1>11. CertificateIsEarned' /\ SyncsIssueOnce'
  BY <1>1, <1>3, <1>5, <1>6 DEF RecordFacts, CertificateIsEarned, Earned, SyncsIssueOnce
<1> QED BY <1>4, <1>7, <1>8, <1>9, <1>10, <1>11, StepKeeps DEF RecordFacts

\* The enrolment is created for who may enter, or exists already.
LEMMA EnrollCreateKeeps == ASSUME IInv, NEW w \in Worker, EnrollCreate(w) PROVE IInv'
<1> DEFINE c == job[w]
<1>1. HandlersOK /\ RecordsOK /\ Told(w) /\ RecordFacts
  BY DEF IInv, TypeOK
<1>2. c \in Course /\ Entered(c)
  BY <1>1 DEF EnrollCreate, HandlersOK, Told, HasEntered
<1>3. /\ enrollment' = (IF Enrolled(c) THEN enrollment ELSE [enrollment EXCEPT ![c] = "ACTIVE"])
      /\ UNCHANGED <<completed, lessons, attempt, answered, late, handed, rewarded, certs, slips, done, passes, finished, waived>>
  BY DEF EnrollCreate, history
<1>4. pc'[w] = "idle" /\ Told(w)' /\ OthersWait({w}) /\ HandlersOK'
  BY <1>1, <1>3, FinishFacts DEF EnrollCreate, RecordsOK
<1>5. /\ enrollment' \in [Course -> {"none", "ACTIVE", "COMPLETED"}]
      /\ \A x \in Course : enrollment'[x] = enrollment[x] \/ (x = c /\ enrollment'[x] = "ACTIVE")
  BY <1>1, <1>2, <1>3 DEF RecordsOK
<1>6. TypeOK' /\ Grow({w})
  BY <1>1, <1>3, <1>4, <1>5, NothingGrows DEF TypeOK, RecordsOK
<1> HIDE DEF c
<1>7. PassesKnown' /\ AttemptsWithinLimit' /\ CertificateIsEarned' /\ SyncsIssueOnce'
  BY <1>1, <1>3 DEF RecordFacts, PassesKnown, AttemptsWithinLimit, IsOpen, CertificateIsEarned,
     Earned, SyncsIssueOnce
<1>8. WorkIsEntered' /\ CompletedIsEarned' /\ CompletedIsCertified' /\ PrerequisitesFirst'
  BY <1>1, <1>2, <1>3, <1>5 DEF RecordFacts, WorkIsEntered, Entered, CompletedIsEarned, Earned,
     CompletedIsCertified, PrerequisitesFirst, Enrolled
<1> QED BY <1>4, <1>6, <1>7, <1>8, StepKeeps DEF RecordFacts

\* Leaving a course keeps the work and the certificates.
LEMMA UnenrollKeeps == ASSUME IInv, NEW c \in Course, Unenroll(c) PROVE IInv'
<1>1. HandlersOK /\ RecordsOK /\ RecordFacts
  BY DEF IInv, TypeOK
<1>2. /\ enrollment' = [enrollment EXCEPT ![c] = "none"] /\ slips' \in Nat
      /\ UNCHANGED <<completed, lessons, attempt, answered, late, handed, rewarded, certs, done, passes, finished, waived>>
      /\ UNCHANGED <<pc, job, seen>>
  BY <1>1 DEF Unenroll, Slip, handler, history, RecordsOK
<1>3. /\ enrollment' \in [Course -> {"none", "ACTIVE", "COMPLETED"}]
      /\ \A x \in Course : enrollment'[x] = enrollment[x] \/ enrollment'[x] = "none"
  BY <1>1, <1>2 DEF RecordsOK
<1>4. HandlersOK' /\ OthersWait({})
  BY <1>1, <1>2 DEF HandlersOK, OthersWait
<1>5. TypeOK' /\ Grow({})
  BY <1>1, <1>2, <1>3, <1>4, NothingGrows DEF TypeOK, RecordsOK
<1>6. PassesKnown' /\ AttemptsWithinLimit' /\ CertificateIsEarned' /\ SyncsIssueOnce'
  BY <1>1, <1>2 DEF RecordFacts, PassesKnown, AttemptsWithinLimit, IsOpen, CertificateIsEarned,
     Earned, SyncsIssueOnce
<1>7. WorkIsEntered' /\ CompletedIsEarned' /\ CompletedIsCertified' /\ PrerequisitesFirst'
  BY <1>1, <1>2, <1>3 DEF RecordFacts, WorkIsEntered, Entered, CompletedIsEarned, Earned,
     CompletedIsCertified, PrerequisitesFirst, Enrolled
<1> QED BY <1>4, <1>5, <1>6, <1>7, StepKeeps DEF RecordFacts

\* Time passing changes no record but the clock.
LEMMA TimeRunsOutKeeps == ASSUME IInv, NEW q \in Quiz, TimeRunsOut(q) PROVE IInv'
<1>1. HandlersOK /\ RecordsOK /\ RecordFacts
  BY DEF IInv, TypeOK
<1>2. /\ late' = late \union {q}
      /\ UNCHANGED <<enrollment, completed, lessons, attempt, answered, handed, rewarded, certs, slips, done, passes, finished, waived>>
      /\ UNCHANGED <<pc, job, seen>>
  BY DEF TimeRunsOut, handler, history
<1>3. HandlersOK' /\ OthersWait({})
  BY <1>1, <1>2 DEF HandlersOK, OthersWait
<1>4. TypeOK' /\ Grow({}) /\ RecordFacts'
  BY <1>1, <1>2, <1>3, NothingGrows, RecordsKept DEF TypeOK, RecordsOK
<1> QED BY <1>3, <1>4, StepKeeps

\* Work is handed in.
LEMMA HandInWriteKeeps == ASSUME IInv, NEW w \in Worker, HandInWrite(w) PROVE IInv'
<1>1. HandlersOK /\ RecordsOK /\ RecordFacts /\ Told(w)
  BY DEF IInv, TypeOK
<1>2. pc[w] = "handIn" /\ job[w] \in Assignment /\ seen[w] \in Seen
  BY <1>1 DEF HandInWrite, HandlersOK
<1>3. /\ handed' = handed \union {job[w]}
      /\ UNCHANGED <<enrollment, completed, lessons, attempt, answered, late, rewarded, certs, slips, done, passes, finished, waived>>
  BY DEF HandInWrite, history
<1>4. pc'[w] = "key" /\ job'[w] = job[w] /\ seen'[w] = seen[w] /\ OthersWait({w}) /\ HandlersOK'
  <2>1. Continue(w, "key", seen[w]) /\ handed \subseteq handed' /\ job[w] \in handed'
    BY <1>3 DEF HandInWrite
  <2> QED BY <2>1, <1>1, <1>2, ContinueFacts
<1>5. Told(w)'
  BY <1>1, <1>2, <1>3, <1>4
     DEF Told, KnowsPass, HasEntered, Entered, SyncEarned, SyncCertified, CountsAttempts, InTransaction
<1>6. TypeOK'
  BY <1>1, <1>2, <1>3, <1>4 DEF TypeOK, RecordsOK
<1>7. Grow({w})
  BY <1>1, <1>3, CertsUnchanged, AttemptsUnchanged DEF Grow, WorkGrows
<1>8. \A x : Satisfied(x, done, passes, handed) => Satisfied(x, done, passes, handed')
  BY <1>3, SatisfiedGrows
<1>9. PassesKnown' /\ WorkIsEntered' /\ AttemptsWithinLimit' /\ CompletedIsCertified' /\ SyncsIssueOnce'
      /\ PrerequisitesFirst'
  BY <1>1, <1>3 DEF RecordFacts, PassesKnown, WorkIsEntered, Entered, AttemptsWithinLimit, IsOpen,
     CompletedIsCertified, SyncsIssueOnce, PrerequisitesFirst, Enrolled
<1>10. CompletedIsEarned' /\ CertificateIsEarned'
  BY <1>1, <1>3, <1>8 DEF RecordFacts, CompletedIsEarned, CertificateIsEarned, Earned
<1> QED BY <1>4, <1>5, <1>6, <1>7, <1>9, <1>10, StepKeeps DEF RecordFacts

-----------------------------------------------------------------------------
(* Attempts *)

\* An attempt is created, or its number is taken.
LEMMA AttemptCreateKeeps == ASSUME IInv, NEW w \in Worker, AttemptCreate(w) PROVE IInv'
<1> DEFINE q == job[w]
           n == seen[w].no
<1>1. HandlersOK /\ RecordsOK /\ RecordFacts /\ Told(w)
  BY DEF IInv, TypeOK
<1>2. pc[w] = "start" /\ q \in Quiz /\ q \in Work
  BY <1>1 DEF AttemptCreate, HandlersOK, Work
<1>3. /\ n \in Nat \ {0} /\ n <= MaxAttempts[q] /\ n <= Len(attempt[q]) + 1 /\ Entered(CourseOf[q])
      /\ n = Len(attempt[q]) + 1 => \A m \in DOMAIN attempt[q] : attempt[q][m] # "open"
  BY <1>1, <1>2 DEF Told, CountsAttempts, HasEntered
<1>4. /\ UNCHANGED <<enrollment, completed, lessons, answered, handed, rewarded, certs, slips, done, passes, finished, waived>>
      /\ late' \subseteq late
  BY DEF AttemptCreate, history
<1>5. pc'[w] = "idle" /\ Told(w)' /\ OthersWait({w}) /\ HandlersOK'
  BY <1>1, <1>4, FinishFacts DEF AttemptCreate, RecordsOK
<1>6. Len(attempt[q]) \in Nat /\ DOMAIN attempt[q] = 1..Len(attempt[q]) /\ attempt[q] \in Seq(Status)
  BY <1>1, <1>2, AttemptsAreSequences
<1>7. n \in DOMAIN attempt[q] \/ n = Len(attempt[q]) + 1
  <2> HIDE DEF n, q
  <2> QED BY <1>3, <1>6
<1>8. CASE attempt' = attempt
  <2>1. TypeOK' /\ Grow({w}) /\ RecordFacts'
    BY <1>1, <1>4, <1>5, <1>8, NothingGrows, RecordsKept DEF TypeOK, RecordsOK
  <2> QED BY <2>1, <1>5, StepKeeps
<1>9. CASE n = Len(attempt[q]) + 1 /\ attempt' = [attempt EXCEPT ![q] = Append(attempt[q], "open")]
  <2>1. attempt' \in [Quiz -> Seq(Status)] /\ attempt'[q] = Append(attempt[q], "open")
        /\ \A x \in Quiz \ {q} : attempt'[x] = attempt[x]
    <3>1. "open" \in Status
      BY DEF Status
    <3>2. Append(attempt[q], "open") \in Seq(Status)
      BY <3>1, <1>6, AppendProperties
    <3> QED BY <3>2, <1>1, <1>2, <1>9 DEF RecordsOK
  <2>2. /\ Len(attempt'[q]) = n /\ DOMAIN attempt'[q] = 1..n /\ attempt'[q][n] = "open"
        /\ \A m \in 1..Len(attempt[q]) : attempt'[q][m] = attempt[q][m]
    <3>1. "open" \in Status
      BY DEF Status
    <3>2. /\ Len(Append(attempt[q], "open")) = n /\ Append(attempt[q], "open")[n] = "open"
          /\ \A m \in 1..Len(attempt[q]) : Append(attempt[q], "open")[m] = attempt[q][m]
      BY <3>1, <1>6, <1>9, AppendProperties
    <3> QED BY <3>2, <2>1, <1>2, LenProperties
  <2>3. \A x \in Quiz : Len(attempt[x]) \in Nat /\ DOMAIN attempt[x] = 1..Len(attempt[x])
    BY <1>1, AttemptsAreSequences
  <2> HIDE DEF q, n
  <2>4. AttemptsGrow
    BY <2>1, <2>2, <2>3, <1>3, <1>9 DEF AttemptsGrow
  <2>5. TypeOK' /\ Grow({w})
    BY <1>1, <1>4, <1>5, <2>1, <2>4, CertsUnchanged DEF Grow, WorkGrows, TypeOK, RecordsOK
  <2>6. PassesKnown'
    <3> SUFFICES ASSUME NEW x \in Quiz, NEW m \in DOMAIN attempt'[x], attempt'[x][m] = "passed"
                 PROVE  x \in passes'
      BY DEF PassesKnown
    <3>1. x # q \/ m # n
      BY <2>2
    <3>2. m \in DOMAIN attempt[x] /\ attempt[x][m] = "passed"
      BY <3>1, <2>1, <2>2, <1>3, <1>6, <1>9
    <3> QED BY <3>2, <1>1, <1>4 DEF RecordFacts, PassesKnown
  <2>7. WorkIsEntered'
    BY <1>1, <1>3, <1>4, <2>1 DEF RecordFacts, WorkIsEntered, Entered
  <2>8. AttemptsWithinLimit'
    <3>1. /\ \A x \in Quiz : Len(attempt[x]) <= MaxAttempts[x]
          /\ \A x \in Quiz : \A k, m \in DOMAIN attempt[x] :
               attempt[x][k] = "open" /\ attempt[x][m] = "open" => k = m
      BY <1>1 DEF RecordFacts, AttemptsWithinLimit, IsOpen
    <3>2. \A m \in 1..n : attempt'[q][m] = "open" => m = n
      BY <1>3, <1>6, <1>9, <2>2
    <3>3. /\ \A x \in Quiz : Len(attempt'[x]) <= MaxAttempts[x]
          /\ \A x \in Quiz : \A k, m \in DOMAIN attempt'[x] :
               attempt'[x][k] = "open" /\ attempt'[x][m] = "open" => k = m
      BY <3>1, <3>2, <2>1, <2>2, <1>3
    <3> QED BY <3>3 DEF AttemptsWithinLimit, IsOpen
  <2>9. CompletedIsEarned' /\ CompletedIsCertified' /\ CertificateIsEarned' /\ SyncsIssueOnce' /\ PrerequisitesFirst'
    BY <1>1, <1>4 DEF RecordFacts, CompletedIsEarned, CompletedIsCertified, CertificateIsEarned, Earned,
       SyncsIssueOnce, PrerequisitesFirst, Enrolled
  <2> QED BY <1>5, <2>5, <2>6, <2>7, <2>8, <2>9, StepKeeps DEF RecordFacts
<1> QED BY <1>7, <1>8, <1>9 DEF AttemptCreate

\* A submission sets the status of an attempt that exists, to one that is not open.
LEMMA StatusFacts ==
  ASSUME RecordsOK, NEW q \in Quiz, NEW n \in DOMAIN attempt[q], NEW st \in Status \ {"open"},
         attempt' = [attempt EXCEPT ![q][n] = st]
  PROVE  /\ attempt' \in [Quiz -> Seq(Status)] /\ AttemptsGrow
         /\ \A x \in Quiz : /\ Len(attempt'[x]) = Len(attempt[x]) /\ DOMAIN attempt'[x] = DOMAIN attempt[x]
                            /\ \A m \in DOMAIN attempt[x] :
                                 attempt'[x][m] = attempt[x][m] \/ (x = q /\ attempt'[x][m] = st)
                            /\ attempt'[x] # <<>> => attempt[x] # <<>>
<1> DEFINE new == [attempt[q] EXCEPT ![n] = st]
<1>1. \A x \in Quiz : Len(attempt[x]) \in Nat /\ DOMAIN attempt[x] = 1..Len(attempt[x]) /\ attempt[x] \in Seq(Status)
  BY AttemptsAreSequences
<1>2. new \in Seq(Status) /\ Len(new) = Len(attempt[q]) /\ DOMAIN new = DOMAIN attempt[q]
      /\ \A m \in DOMAIN attempt[q] : new[m] = IF m = n THEN st ELSE attempt[q][m]
  <2>1. new \in Seq(Status) /\ Len(new) = Len(attempt[q])
    BY <1>1, ExceptSeq
  <2> QED BY <2>1
<1>3. attempt' = [attempt EXCEPT ![q] = new]
  BY DEF RecordsOK
<1> HIDE DEF new
<1>4. /\ attempt' \in [Quiz -> Seq(Status)] /\ attempt'[q] = new
      /\ \A x \in Quiz \ {q} : attempt'[x] = attempt[x]
  BY <1>2, <1>3 DEF RecordsOK
<1>5. \A x \in Quiz : /\ Len(attempt'[x]) = Len(attempt[x]) /\ DOMAIN attempt'[x] = DOMAIN attempt[x]
                      /\ \A m \in DOMAIN attempt[x] :
                           attempt'[x][m] = attempt[x][m] \/ (x = q /\ attempt'[x][m] = st)
  BY <1>2, <1>4
<1>6. AttemptsGrow
  BY <1>1, <1>5 DEF AttemptsGrow
<1>7. ASSUME NEW x \in Quiz, attempt[x] = <<>> PROVE attempt'[x] = <<>>
  <2>1. Len(attempt'[x]) = 0 /\ attempt'[x] \in Seq(Status)
    BY <1>4, <1>5, <1>7
  <2> QED BY <2>1, EmptySeq
<1> QED BY <1>4, <1>5, <1>6, <1>7

\* So the limit holds on, and nothing is passed that was not before or is now known.
LEMMA StatusKeeps ==
  ASSUME RecordsOK, RecordFacts, NEW q \in Quiz, NEW n \in DOMAIN attempt[q], NEW st \in Status \ {"open"},
         attempt' = [attempt EXCEPT ![q][n] = st], st = "passed" => q \in passes', passes \subseteq passes',
         UNCHANGED <<enrollment, handed, certs, done, finished, waived>>
  PROVE  RecordFacts'
<1>1. \A x \in Quiz : /\ Len(attempt'[x]) = Len(attempt[x]) /\ DOMAIN attempt'[x] = DOMAIN attempt[x]
                      /\ \A m \in DOMAIN attempt[x] :
                           attempt'[x][m] = attempt[x][m] \/ (x = q /\ attempt'[x][m] = st)
                      /\ attempt'[x] # <<>> => attempt[x] # <<>>
  BY StatusFacts
<1>2. PassesKnown'
  BY <1>1 DEF RecordFacts, PassesKnown
<1>3. WorkIsEntered'
  BY <1>1 DEF RecordFacts, WorkIsEntered, Entered
<1>4. AttemptsWithinLimit'
  BY <1>1 DEF RecordFacts, AttemptsWithinLimit, IsOpen
<1>5. \A x : Satisfied(x, done, passes, handed) => Satisfied(x, done, passes', handed)
  BY SatisfiedGrows
<1>6. CompletedIsEarned' /\ CertificateIsEarned'
  BY <1>5 DEF RecordFacts, CompletedIsEarned, CertificateIsEarned, Earned
<1>7. CompletedIsCertified' /\ SyncsIssueOnce' /\ PrerequisitesFirst'
  BY DEF RecordFacts, CompletedIsCertified, SyncsIssueOnce, PrerequisitesFirst, Enrolled
<1> QED BY <1>2, <1>3, <1>4, <1>6, <1>7 DEF RecordFacts

\* A late submission expires the attempt, whatever its status.
LEMMA SubmitExpireKeeps == ASSUME IInv, NEW w \in Worker, SubmitExpire(w) PROVE IInv'
<1> DEFINE q == job[w]
           n == seen[w].no
<1>1. HandlersOK /\ RecordsOK /\ RecordFacts /\ Told(w)
  BY DEF IInv, TypeOK
<1>2. q \in Quiz /\ n \in DOMAIN attempt[q] /\ "expired" \in Status \ {"open"}
  BY <1>1 DEF SubmitExpire, HandlersOK, Told, CountsAttempts, Status
<1>3. /\ attempt' = [attempt EXCEPT ![q][n] = "expired"]
      /\ UNCHANGED <<enrollment, completed, lessons, answered, late, handed, rewarded, certs, slips, done, passes, finished, waived>>
  BY DEF SubmitExpire, history
<1>4. pc'[w] = "idle" /\ Told(w)' /\ OthersWait({w}) /\ HandlersOK'
  BY <1>1, <1>3, FinishFacts DEF SubmitExpire, RecordsOK
<1> HIDE DEF q, n
<1>5. attempt' \in [Quiz -> Seq(Status)] /\ AttemptsGrow
  BY <1>1, <1>2, <1>3, StatusFacts
<1>6. RecordFacts'
  BY <1>1, <1>2, <1>3, StatusKeeps
<1>7. TypeOK' /\ Grow({w})
  BY <1>1, <1>3, <1>4, <1>5, CertsUnchanged DEF Grow, WorkGrows, TypeOK, RecordsOK
<1> QED BY <1>4, <1>6, <1>7, StepKeeps

\* A submission in time is graded, and what was passed stays known; a second one
\* is refused.
LEMMA SubmitFinalizeKeeps == ASSUME IInv, NEW w \in Worker, SubmitFinalize(w) PROVE IInv'
<1> DEFINE q == job[w]
           n == seen[w].no
<1>1. HandlersOK /\ RecordsOK /\ RecordFacts /\ Told(w)
  BY DEF IInv, TypeOK
<1>2. q \in Quiz /\ q \in Work /\ n \in DOMAIN attempt[q] /\ seen[w] \in Seen
  BY <1>1 DEF SubmitFinalize, HandlersOK, Told, CountsAttempts, Work
<1>3. UNCHANGED <<enrollment, completed, lessons, late, handed, rewarded, certs, slips, done, finished, waived>>
  BY DEF SubmitFinalize
<1>4. CASE Finish(w) /\ UNCHANGED <<attempt, answered, passes>>
  <2>1. UNCHANGED <<records, history>> /\ slips' \in Nat
    BY <1>1, <1>3, <1>4 DEF records, history, RecordsOK
  <2> QED BY <2>1, <1>4, FinishKeeps
<1>5. ASSUME NEW ok \in BOOLEAN,
             answered' = answered \union {<<q, n>>},
             attempt' = [attempt EXCEPT ![q][n] = IF ok THEN "passed" ELSE "failed"],
             passes' = (IF ok THEN passes \union {q} ELSE passes),
             Continue(w, "reward", [seen[w] EXCEPT !.passed = ok, !.fresh = TRUE])
      PROVE  IInv'
  <2> DEFINE t == [seen[w] EXCEPT !.passed = ok, !.fresh = TRUE]
             st == IF ok THEN "passed" ELSE "failed"
  <2>1. t \in Seen /\ t.passed = ok
    BY ONLY <1>2, ok \in BOOLEAN DEF Seen
  <2>2. st \in Status \ {"open"} /\ (st = "passed" => q \in passes') /\ passes \subseteq passes' /\ passes' \subseteq Quiz
    BY <1>1, <1>2, <1>5 DEF Status, RecordsOK
  <2>3. answered' \subseteq Quiz \X (Nat \ {0})
    <3>1. n \in Nat \ {0}
      BY <1>1, <1>2, AttemptsAreSequences
    <3> QED BY <3>1, <1>1, <1>2, <1>5 DEF RecordsOK
  <2>4. attempt' = [attempt EXCEPT ![q][n] = st] /\ Continue(w, "reward", t)
    BY <1>5
  <2>5. ok => q \in passes'
    BY <1>5
  <2> HIDE DEF t, st
  <2>6. pc'[w] = "reward" /\ job'[w] = q /\ seen'[w] = t /\ OthersWait({w}) /\ HandlersOK'
    BY <1>1, <1>2, <1>3, <2>1, <2>4, ContinueFacts
  <2> HIDE DEF q, n
  <2>7. attempt' \in [Quiz -> Seq(Status)] /\ AttemptsGrow
    BY <1>1, <1>2, <2>2, <2>4, StatusFacts
  <2>8. RecordFacts'
    BY <1>1, <1>2, <1>3, <2>2, <2>4, StatusKeeps
  <2>9. TypeOK' /\ Grow({w})
    BY <1>1, <1>3, <2>2, <2>3, <2>6, <2>7, CertsUnchanged DEF Grow, WorkGrows, TypeOK, RecordsOK
  <2>10. Told(w)'
    BY <1>1, <1>2, <1>3, <2>1, <2>5, <2>6
       DEF Told, KnowsPass, HasEntered, Entered, SyncEarned, SyncCertified, CountsAttempts, InTransaction, q
  <2> QED BY <2>6, <2>8, <2>9, <2>10, StepKeeps
<1> QED BY <1>4, <1>5 DEF SubmitFinalize

-----------------------------------------------------------------------------
(* The theorems *)

\* Every step keeps the invariant.
THEOREM InvariantIsInductive == IInv /\ [Next]_vars => IInv'
<1> SUFFICES ASSUME IInv, [Next]_vars PROVE IInv'
  OBVIOUS
<1>0. ASSUME UNCHANGED vars PROVE IInv'
  <2>1. /\ UNCHANGED <<enrollment, completed, lessons, attempt, answered, late, handed, rewarded, certs, slips, done, passes, finished, waived>>
        /\ UNCHANGED <<pc, job, seen>>
    BY <1>0 DEF vars, records, handler, history
  <2>2. TypeOK' /\ RecordFacts' /\ Grow({}) /\ OthersWait({})
    BY <2>1, RecordsKept, NothingGrows DEF IInv, TypeOK, RecordsOK, HandlersOK, OthersWait
  <2> QED BY <2>2, StepKeeps
<1>1. ASSUME NEW w \in Worker, Proceed(w) PROVE IInv'
  <2>1. CASE DeadlockVictim(w)
    <3>1. Finish(w) /\ UNCHANGED <<records, history>> /\ slips' \in Nat
      BY <2>1 DEF DeadlockVictim, IInv, TypeOK, RecordsOK
    <3> QED BY <3>1, FinishKeeps
  <2> QED BY <1>1, <2>1, EnrollCreateKeeps, LessonMarkKeeps, SyncWriteKeeps, SyncCommitKeeps,
             AttemptCreateKeeps, SubmitExpireKeeps, SubmitFinalizeKeeps, HandInWriteKeeps,
             KeyReadKeeps, RewardMarkKeeps, IssueFindKeeps, IssueCreateKeeps DEF Proceed
<1>2. ASSUME NEW w \in Worker, Abort(w) PROVE IInv'
  <2>1. Finish(w) /\ UNCHANGED <<records, history>> /\ slips' \in Nat
    BY <1>2 DEF Abort, Slip, IInv, TypeOK, RecordsOK
  <2> QED BY <2>1, FinishKeeps
<1>3. ASSUME NEW c \in Course, Unenroll(c) \/ EnrollRepeated(c) PROVE IInv'
  BY <1>3, <1>0, UnenrollKeeps DEF EnrollRepeated
<1> QED BY <1>0, <1>1, <1>2, <1>3, RequestKeeps, TimeRunsOutKeeps, LessonReportedKeeps DEF Next

\* Before the student does anything it holds.
LEMMA InitEstablishesInvariant == Init => IInv
<1> SUFFICES ASSUME Init PROVE IInv
  OBVIOUS
<1>1. \A q \in Quiz : attempt[q] = <<>> /\ Len(attempt[q]) = 0 /\ DOMAIN attempt[q] = {}
  BY DEF Init
<1>2. \A w \in Worker : pc[w] = "idle" /\ job[w] = None /\ seen[w] = NothingSeen
  BY DEF Init
<1>3. None \notin Course /\ None \notin Work
  BY DEF Work
<1>4. RecordsOK
  <2>1. attempt \in [Quiz -> Seq(Status)]
    BY DEF Init
  <2> QED BY <2>1 DEF Init, RecordsOK
<1>5. HandlersOK
  BY <1>2, <1>3, NothingSeenFacts DEF Init, HandlersOK, Work
<1>6. \A w \in Worker : Told(w) /\ HoldsAlone(w)
  BY <1>2, <1>3, NothingSeenFacts DEF Told, KnowsPass, SyncEarned, SyncCertified, HasEntered,
     CountsAttempts, HoldsAlone, InTransaction
<1>7. PassesKnown /\ WorkIsEntered /\ AttemptsWithinLimit
  BY <1>1 DEF Init, PassesKnown, WorkIsEntered, AttemptsWithinLimit, IsOpen
<1>8. /\ CompletedIsEarned /\ CompletedIsCertified /\ CertificateIsEarned /\ SyncsIssueOnce
      /\ PrerequisitesFirst
  BY DEF Init, CompletedIsEarned, CompletedIsCertified, CertificateIsEarned, SyncsIssueOnce,
     PrerequisitesFirst, Enrolled
<1> QED BY <1>4, <1>5, <1>6, <1>7, <1>8 DEF IInv, TypeOK, RecordFacts

\* The inductive invariant holds throughout.
THEOREM InvariantHolds == Spec => []IInv
  BY InitEstablishesInvariant, InvariantIsInductive, PTL DEF Spec

\* Every variable keeps its type.
THEOREM TypesHold == Spec => []TypeOK
  BY InvariantHolds, PTL DEF IInv

\* A completed enrolment was earned, whatever sync overwrote.
THEOREM CompletionIsEarned == Spec => []CompletedIsEarned
  BY InvariantHolds, PTL DEF IInv, RecordFacts

\* A completed certificate course has its certificate, none is unearned, and
\* racing syncs issue one.
THEOREM CertificatesFollowCompletion == Spec => []CertificatesHold
  BY InvariantHolds, PTL DEF IInv, RecordFacts, CertificatesHold

\* Racing starts stay within the limit of attempts.
THEOREM AttemptsAreLimited == Spec => []AttemptsWithinLimit
  BY InvariantHolds, PTL DEF IInv, RecordFacts

\* Nobody is enrolled ahead of the prerequisites, except through a request that
\* does not ask for them.
THEOREM PrerequisitesComeFirst == Spec => []PrerequisitesFirst
  BY InvariantHolds, PTL DEF IInv, RecordFacts

-----------------------------------------------------------------------------
(* Coursework: an assignment's hand-ins and reviews, with variables of its own *)

Picking == {"pick", "choose", "give", "others"}

\* The reviewers every submission has in the end.
Wanted == Min({ReviewCount, Cardinality(Submitted) - 1})

Fields == {"who", "reviewer", "mark", "picked", "todo"}

\* A request under way is about a submission.
Bound(e) == e.who \in Student /\ e.picked \subseteq Student /\ e.todo \subseteq Student

Formed ==
  /\ status \in [Student -> {"none", "SUBMITTED", "GRADED"}]
  /\ assigned \subseteq Student \X Student
  /\ DOMAIN stage = Handler /\ DOMAIN errand = Handler
  /\ faults \in Nat /\ doubled \subseteq Student /\ regraded \subseteq Student
  /\ \A w \in Handler : DOMAIN errand[w] = Fields /\ (stage[w] # "idle" => Bound(errand[w]))

\* A request looks for reviewers of what was handed in, among those who did; it
\* knows of no reviewer that is not one.
Asks(w) ==
  /\ stage[w] \in Picking \union {"grade"} => errand[w].who \in Submitted
  /\ stage[w] \in Picking => errand[w].todo = Student \/ errand[w].todo \subseteq Submitted
  /\ stage[w] = "choose" => errand[w].picked \subseteq ReviewersOf(errand[w].who)
  /\ stage[w] = "give" => errand[w].picked \subseteq Submitted \ {errand[w].who}

\* One request at a time gives the submission reviewers, and not too many.
InTurn(s) ==
  /\ Cardinality(ReviewersOf(s)) <= ReviewCount
  /\ \A w \in Handler : stage[w] = "give" /\ errand[w].who = s =>
       /\ Cardinality(ReviewersOf(s)) + Cardinality(errand[w].picked) <= ReviewCount
       /\ \A v \in Handler : stage[v] = "give" /\ errand[v].who = s => v = w

\* A submission has its reviewers, or is about to be looked at again, or is
\* being given enough.
WillPick(w, s) ==
  \/ stage[w] \in {"pick", "choose"} /\ errand[w].who = s
  \/ stage[w] \in Picking /\ s \in errand[w].todo /\ (errand[w].todo = Student => s # errand[w].who)
WillGive(w, s) ==
  /\ stage[w] = "give" /\ errand[w].who = s
  /\ Cardinality(ReviewersOf(s) \union errand[w].picked) >= Wanted
Provided(s) ==
  \/ Cardinality(ReviewersOf(s)) >= Wanted
  \/ \E w \in Handler : WillPick(w, s) \/ WillGive(w, s)

\* A hand-in that a grade has overtaken is remembered.
Overtaken ==
  \A w \in Handler :
    stage[w] = "handIn" /\ status[errand[w].who] = "GRADED" => errand[w].who \in regraded

WorkInv ==
  /\ Formed /\ ReviewersHandedIn /\ Overtaken
  /\ \A w \in Handler : Asks(w)
  /\ \A s \in Student \ doubled : InTurn(s)
  /\ faults = 0 => \A s \in Submitted : Provided(s)

\* One request takes a step, and the others none.
Walks(w, st, e) ==
  /\ stage'[w] = st /\ errand'[w] = e
  /\ \A v \in Handler \ {w} : stage'[v] = stage[v] /\ errand'[v] = errand[v]
  /\ DOMAIN stage' = Handler /\ DOMAIN errand' = Handler

\* A request that begins, goes on or ends.
LEMMA Walking ==
  ASSUME Formed, NEW w \in Handler, NEW st, NEW e,
         stage' = [stage EXCEPT ![w] = st] /\ errand' = [errand EXCEPT ![w] = e]
  PROVE  Walks(w, st, e)
  BY DEF Formed, Walks

\* What is counted here is finite, and the lesser of two numbers is.
LEMMA LesserOfTwo ==
  ASSUME NEW a \in Int, NEW b \in Int
  PROVE  /\ Min({a, b}) \in {a, b}
         /\ Min({a, b}) <= a /\ Min({a, b}) <= b
<1>1. \E x \in {a, b} : \A y \in {a, b} : x <= y OBVIOUS
<1> DEFINE m == Min({a, b})
<1>2. m \in {a, b} /\ \A y \in {a, b} : m <= y BY <1>1 DEF Min
<1> QED BY <1>2

LEMMA StudentsAreFew ==
  ASSUME NEW S \in SUBSET Student
  PROVE  IsFiniteSet(S) /\ Cardinality(S) \in Nat
<1>1. IsFiniteSet(Student) BY CourseworkAssumption
<1>2. IsFiniteSet(S) BY <1>1, FS_Subset
<1> QED BY <1>2, FS_CardinalityType

LEMMA ManyAreWanted ==
  ASSUME Formed
  PROVE  /\ Submitted \subseteq Student /\ \A s \in Student : ReviewersOf(s) \subseteq Student
         /\ ReviewCount \in Nat /\ Wanted \in Int
         /\ Wanted <= ReviewCount /\ Wanted <= Cardinality(Submitted) - 1
         /\ Wanted \in {ReviewCount, Cardinality(Submitted) - 1}
<1>1. Submitted \subseteq Student /\ \A s \in Student : ReviewersOf(s) \subseteq Student
      BY DEF Submitted, ReviewersOf
<1>2. Cardinality(Submitted) \in Nat /\ ReviewCount \in Nat BY <1>1, StudentsAreFew, CourseworkAssumption
<1>3. Cardinality(Submitted) - 1 \in Int /\ ReviewCount \in Int BY <1>2
<1> QED BY <1>1, <1>2, <1>3, LesserOfTwo DEF Wanted

\* The errands that a request is given and that it changes.
LEMMA ErrandChanges ==
  ASSUME NEW e, DOMAIN e = Fields, NEW x
  PROVE  /\ DOMAIN [e EXCEPT !.picked = x] = Fields /\ [e EXCEPT !.picked = x].picked = x
         /\ [e EXCEPT !.picked = x].who = e.who /\ [e EXCEPT !.picked = x].todo = e.todo
         /\ DOMAIN [e EXCEPT !.mark = x] = Fields /\ [e EXCEPT !.mark = x].picked = e.picked
         /\ [e EXCEPT !.mark = x].who = e.who /\ [e EXCEPT !.mark = x].todo = e.todo
  BY DEF Fields

LEMMA ErrandBegins ==
  ASSUME NEW s, NEW todo, NEW r, NEW m
  PROVE  /\ DOMAIN NoJob = Fields
         /\ LET e == [NoJob EXCEPT !.who = s] IN
            DOMAIN e = Fields /\ e.who = s /\ e.picked = {} /\ e.todo = {}
         /\ LET e == [NoJob EXCEPT !.who = s, !.todo = todo] IN
            DOMAIN e = Fields /\ e.who = s /\ e.picked = {} /\ e.todo = todo
         /\ LET e == [NoJob EXCEPT !.who = s, !.reviewer = r, !.mark = m] IN
            DOMAIN e = Fields /\ e.who = s /\ e.picked = {} /\ e.todo = {}
  BY DEF Fields, NoJob

\* A step that neither picks nor gives, nor takes anything back.
LEMMA WorkQuiet ==
  ASSUME WorkInv, NEW w \in Handler, NEW st, NEW e, Walks(w, st, e),
         st \notin Picking, stage[w] \notin Picking \/ faults' # 0,
         faults' \in Nat, faults' = 0 => faults = 0,
         status' \in [Student -> {"none", "SUBMITTED", "GRADED"}], Submitted' = Submitted,
         UNCHANGED <<assigned, doubled>>, regraded' \subseteq Student, Overtaken',
         DOMAIN e = Fields, st # "idle" => Bound(e), st = "grade" => e.who \in Submitted
  PROVE  WorkInv'
<1>1. /\ \A s \in Student : ReviewersOf(s)' = ReviewersOf(s)
      /\ Wanted' = Wanted
      BY DEF ReviewersOf, Wanted
<1>2. Formed' BY DEF WorkInv, Formed, Walks
<1>3. ReviewersHandedIn' BY DEF WorkInv, ReviewersHandedIn, Submitted
<1>4. ASSUME NEW v \in Handler PROVE Asks(v)'
      <2>1. Asks(v) BY DEF WorkInv
      <2>2. CASE v = w BY <2>2 DEF Asks, Walks, Picking
      <2>3. CASE v # w BY <2>1, <2>3 DEF Asks, Walks, ReviewersOf
      <2> QED BY <2>2, <2>3
<1>5. ASSUME NEW s \in Student \ doubled' PROVE InTurn(s)'
      <2>1. InTurn(s) BY DEF WorkInv
      <2>2. \A v \in Handler : stage'[v] = "give" => stage[v] = "give" /\ errand'[v] = errand[v]
            BY DEF Walks, Picking
      <2> QED BY <1>1, <2>1, <2>2 DEF InTurn
<1>6. ASSUME faults' = 0, NEW s \in Submitted' PROVE Provided(s)'
      <2>1. Provided(s) /\ s \in Student BY <1>6 DEF WorkInv, Submitted
      <2>2. \A v \in Handler : stage[v] \in Picking => stage'[v] = stage[v] /\ errand'[v] = errand[v]
            BY <1>6 DEF Walks
      <2>3. \A v \in Handler : WillPick(v, s) => WillPick(v, s)' BY <2>2 DEF WillPick, Picking
      <2>4. \A v \in Handler : WillGive(v, s) => WillGive(v, s)' BY <1>1, <2>1, <2>2 DEF WillGive, Picking
      <2> QED BY <1>1, <2>1, <2>3, <2>4 DEF Provided
<1> QED BY <1>2, <1>3, <1>4, <1>5, <1>6 DEF WorkInv

\* Hand-ins, gradings and reviews begin and end; marks are counted.
LEMMA WorkerKeeps ==
  ASSUME WorkInv, NEW w \in Handler,
         \/ \E s \in Student : HandInBegins(w, s) \/ GradeStart(w, s)
         \/ \E s, r \in Student : ReviewStart(w, s, r)
         \/ Review(w) \/ MeanRead(w) \/ MeanWrite(w)
  PROVE  WorkInv'
<1>1. Formed BY DEF WorkInv
<1>2. UNCHANGED <<status, assigned, faults, doubled, regraded>>
      BY DEF HandInBegins, GradeStart, ReviewStart, Review, MeanRead,
         MeanWrite, work, reviews, limits, past
<1>3. Submitted' = Submitted BY <1>2 DEF Submitted
<1>4. /\ stage[w] \notin Picking
      /\ \E st, e : /\ Walks(w, st, e) /\ st \notin Picking /\ DOMAIN e = Fields
                    /\ st # "idle" => Bound(e)
                    /\ st = "handIn" => status[e.who] # "GRADED"
                    /\ st = "grade" => e.who \in Submitted
      <2>1. CASE \E s \in Student : HandInBegins(w, s)
            <3>1. PICK s \in Student : HandInBegins(w, s) BY <2>1
            <3> DEFINE e == [NoJob EXCEPT !.who = s]
            <3>2. DOMAIN e = Fields /\ e.who = s /\ e.picked = {} /\ e.todo = {} BY ErrandBegins
            <3> HIDE DEF e
            <3>3. stage[w] = "idle" /\ Walks(w, "handIn", e) /\ status[s] # "GRADED"
                  BY <1>1, <3>1, Walking DEF HandInBegins, TakeUp, MayHandIn, e
            <3> QED BY <3>2, <3>3 DEF Bound, Picking
      <2>2. CASE \E s \in Student : GradeStart(w, s)
            <3>1. PICK s \in Student : GradeStart(w, s) BY <2>2
            <3> DEFINE e == [NoJob EXCEPT !.who = s]
            <3>2. DOMAIN e = Fields /\ e.who = s /\ e.picked = {} /\ e.todo = {} BY ErrandBegins
            <3> HIDE DEF e
            <3>3. stage[w] = "idle" /\ Walks(w, "grade", e) /\ status[s] # "none"
                  BY <1>1, <3>1, Walking DEF GradeStart, TakeUp, e
            <3> QED BY <3>2, <3>3 DEF Bound, Picking, Submitted
      <2>3. CASE \E s, r \in Student : ReviewStart(w, s, r)
            <3>1. PICK s \in Student, r \in Student : ReviewStart(w, s, r) BY <2>3
            <3>2. PICK m : TakeUp(w, "review", [NoJob EXCEPT !.who = s, !.reviewer = r, !.mark = m])
                  BY <3>1 DEF ReviewStart
            <3> DEFINE e == [NoJob EXCEPT !.who = s, !.reviewer = r, !.mark = m]
            <3>3. DOMAIN e = Fields /\ e.who = s /\ e.picked = {} /\ e.todo = {} BY ErrandBegins
            <3> HIDE DEF e
            <3>4. stage[w] = "idle" /\ Walks(w, "review", e)
                  BY <1>1, <3>2, Walking DEF TakeUp, e
            <3> QED BY <3>3, <3>4 DEF Bound, Picking
      <2>4. CASE Review(w)
            <3> DEFINE e == [NoJob EXCEPT !.who = errand[w].who]
            <3>1. DOMAIN e = Fields /\ e.who = errand[w].who /\ e.picked = {} /\ e.todo = {} BY ErrandBegins
            <3> HIDE DEF e
            <3>2. stage[w] = "review" /\ Walks(w, "mean", e)
                  BY <1>1, <2>4, Walking DEF Review, GoOn, e
            <3> QED BY <1>1, <3>1, <3>2 DEF Formed, Bound, Picking
      <2>5. CASE MeanRead(w)
            <3>1. PICK m : m = MeanOf(errand[w].who) OBVIOUS
            <3> DEFINE e == [errand[w] EXCEPT !.mark = m]
            <3>2. /\ DOMAIN e = Fields /\ e.who = errand[w].who /\ e.picked = errand[w].picked
                  /\ e.todo = errand[w].todo
                  BY <1>1, ErrandChanges DEF Formed
            <3>3. stage' = [stage EXCEPT ![w] = "meanWrite"] /\ errand' = [errand EXCEPT ![w] = e] /\ stage[w] = "mean"
                  BY <2>5, <3>1 DEF MeanRead, GoOn
            <3> HIDE DEF e
            <3>4. Walks(w, "meanWrite", e) BY <1>1, <3>3, Walking
            <3> QED BY <1>1, <3>2, <3>3, <3>4 DEF Formed, Bound, Picking
      <2>6. CASE MeanWrite(w)
            <3>1. stage[w] = "meanWrite" /\ Walks(w, "idle", NoJob)
                  BY <1>1, <2>6, Walking DEF MeanWrite, LayDown
            <3> QED BY <3>1, ErrandBegins DEF Picking
      <2> QED BY <2>1, <2>2, <2>3, <2>4, <2>5, <2>6
<1>5. PICK st, e : /\ Walks(w, st, e) /\ st \notin Picking /\ DOMAIN e = Fields
                   /\ st # "idle" => Bound(e)
                   /\ st = "handIn" => status[e.who] # "GRADED"
                   /\ st = "grade" => e.who \in Submitted
      BY <1>4
<1>6. Overtaken' BY <1>2, <1>5 DEF WorkInv, Overtaken, Walks
<1>7. /\ faults' \in Nat /\ (faults' = 0 => faults = 0) /\ regraded' \subseteq Student
      /\ status' \in [Student -> {"none", "SUBMITTED", "GRADED"}]
      BY <1>1, <1>2 DEF Formed
<1> QED BY <1>2, <1>3, <1>4, <1>5, <1>6, <1>7, WorkQuiet

\* A request ends in an error: what it left undone is excused.
LEMMA FailKeeps ==
  ASSUME WorkInv, NEW w \in Handler, Fail(w)
  PROVE  WorkInv'
<1>1. Formed BY DEF WorkInv
<1>2. UNCHANGED <<status, assigned, doubled, regraded>> /\ faults' = faults + 1
      BY DEF Fail, work, reviews, past
<1>3. Submitted' = Submitted BY <1>2 DEF Submitted
<1>4. Walks(w, "idle", NoJob) BY <1>1, Walking DEF Fail, LayDown
<1>5. Overtaken' BY <1>2, <1>4 DEF WorkInv, Overtaken, Walks
<1>6. /\ faults' \in Nat /\ (faults' = 0 => faults = 0) /\ faults' # 0 /\ regraded' \subseteq Student
      /\ status' \in [Student -> {"none", "SUBMITTED", "GRADED"}]
      BY <1>1, <1>2 DEF Formed
<1>7. DOMAIN NoJob = Fields BY ErrandBegins
<1> QED BY <1>2, <1>3, <1>4, <1>5, <1>6, <1>7, WorkQuiet DEF Picking

\* A grade is given: a hand-in on its way is remembered.
LEMMA GradeKeeps ==
  ASSUME WorkInv, NEW w \in Handler, Grade(w)
  PROVE  WorkInv'
<1>1. Formed /\ Asks(w) BY DEF WorkInv
<1>2. PICK s : s = errand[w].who OBVIOUS
<1>3. stage[w] = "grade" BY DEF Grade
<1>4. s \in Student /\ status[s] # "none" BY <1>1, <1>2, <1>3 DEF Asks, Submitted
<1>5. /\ UNCHANGED <<assigned, doubled, faults>> /\ status' = [status EXCEPT ![s] = "GRADED"]
      /\ regraded' = IF At(s, {"handIn"}) THEN regraded \union {s} ELSE regraded
      BY <1>2 DEF Grade, reviews, limits
<1>6. Walks(w, "idle", NoJob) BY <1>1, Walking DEF Grade, LayDown
<1>7. status' \in [Student -> {"none", "SUBMITTED", "GRADED"}] BY <1>1, <1>4, <1>5 DEF Formed
<1>8. Submitted' = Submitted BY <1>1, <1>4, <1>5 DEF Formed, Submitted
<1>9. Overtaken'
      <2> SUFFICES ASSUME NEW v \in Handler, stage'[v] = "handIn", status'[errand'[v].who] = "GRADED"
                   PROVE  errand'[v].who \in regraded'
          BY DEF Overtaken
      <2>1. stage[v] = "handIn" /\ errand'[v] = errand[v] BY <1>6 DEF Walks
      <2>2. errand[v].who \in Student BY <1>1, <2>1 DEF Formed, Bound
      <2>3. CASE errand[v].who = s BY <1>5, <2>1, <2>3 DEF At
      <2>4. CASE errand[v].who # s
            <3>1. status[errand[v].who] = "GRADED" BY <1>1, <1>5, <2>1, <2>2, <2>4 DEF Formed
            <3> QED BY <1>5, <2>1, <3>1 DEF WorkInv, Overtaken
      <2> QED BY <2>3, <2>4
<1>10. faults' \in Nat /\ (faults' = 0 => faults = 0) /\ regraded' \subseteq Student
       BY <1>1, <1>4, <1>5 DEF Formed
<1>11. DOMAIN NoJob = Fields BY ErrandBegins
<1> QED BY <1>3, <1>5, <1>6, <1>7, <1>8, <1>9, <1>10, <1>11, WorkQuiet DEF Picking

-----------------------------------------------------------------------------
(* Reviewers are picked and given *)

\* How many two sets of students are together.
LEMMA StudentsTogether ==
  ASSUME NEW S \in SUBSET Student, NEW T \in SUBSET Student
  PROVE  /\ Cardinality(S) \in Nat /\ Cardinality(T) \in Nat /\ Cardinality(S \union T) \in Nat
         /\ Cardinality(S) <= Cardinality(S \union T)
         /\ Cardinality(S \union T) <= Cardinality(S) + Cardinality(T)
         /\ S \intersect T = {} => Cardinality(S \union T) = Cardinality(S) + Cardinality(T)
         /\ S \subseteq T => Cardinality(S) <= Cardinality(T)
<1>1. /\ IsFiniteSet(S) /\ IsFiniteSet(T) /\ IsFiniteSet(S \union T) /\ IsFiniteSet(S \intersect T)
      /\ Cardinality(S) \in Nat /\ Cardinality(T) \in Nat /\ Cardinality(S \union T) \in Nat
      /\ Cardinality(S \intersect T) \in Nat
      BY StudentsAreFew
<1>2. Cardinality(S \union T) = Cardinality(S) + Cardinality(T) - Cardinality(S \intersect T)
      BY <1>1, FS_Union
<1>3. Cardinality(S) <= Cardinality(S \union T) BY <1>1, FS_Subset
<1>4. S \subseteq T => Cardinality(S) <= Cardinality(T) BY <1>1, FS_Subset
<1>5. S \intersect T = {} => Cardinality(S \intersect T) = 0 BY FS_EmptySet
<1> QED BY <1>1, <1>2, <1>3, <1>4, <1>5

\* All but one of those who handed in.
LEMMA AllButOne ==
  ASSUME Formed, NEW s \in Submitted
  PROVE  Cardinality(Submitted \ {s}) = Cardinality(Submitted) - 1
<1>1. IsFiniteSet(Submitted) BY ManyAreWanted, StudentsAreFew
<1> QED BY <1>1, FS_RemoveElement

\* Nobody is missing, or nobody is left to pick.
LEMMA NoneToPick ==
  ASSUME Formed, NEW s \in Submitted, NEW A, A \subseteq ReviewersOf(s),
         Shortfall(A) <= 0 \/ Candidates(s, A) = {}
  PROVE  Cardinality(ReviewersOf(s)) >= Wanted
<1>1. /\ Submitted \subseteq Student /\ ReviewersOf(s) \subseteq Student /\ ReviewCount \in Nat
      /\ Wanted \in Int /\ Wanted <= ReviewCount /\ Wanted <= Cardinality(Submitted) - 1
      BY ManyAreWanted
<1>2. /\ Cardinality(ReviewersOf(s)) \in Nat /\ Cardinality(A) \in Nat
      /\ Cardinality(A) <= Cardinality(ReviewersOf(s))
      BY <1>1, StudentsTogether
<1>3. CASE Shortfall(A) <= 0
      <2>1. Shortfall(A) = ReviewCount - Cardinality(A) BY DEF Shortfall
      <2> QED BY <1>1, <1>2, <1>3, <2>1
<1>4. CASE Candidates(s, A) = {}
      <2>1. Submitted \ {s} \subseteq ReviewersOf(s) BY <1>4 DEF Candidates, Submitted
      <2>2. Cardinality(Submitted \ {s}) <= Cardinality(ReviewersOf(s))
            BY <1>1, <2>1, StudentsTogether
      <2>3. Cardinality(Submitted) \in Nat BY <1>1, StudentsAreFew
      <2> QED BY <1>1, <1>2, <2>2, <2>3, AllButOne
<1> QED BY <1>3, <1>4

\* Who is picked is new to the reviewers already found, has handed in, and makes
\* with them enough and not too many.
LEMMA PicksEnough ==
  ASSUME Formed, NEW s \in Submitted, NEW A, A \subseteq ReviewersOf(s), NEW P, FirstInLine(s, A, P)
  PROVE  /\ P \subseteq Submitted \ {s}
         /\ Cardinality(A) + Cardinality(P) <= ReviewCount
         /\ Cardinality(ReviewersOf(s) \union P) >= Wanted
<1> DEFINE C == Candidates(s, A)
           short == ReviewCount - Cardinality(A)
<1>1. /\ Submitted \subseteq Student /\ ReviewersOf(s) \subseteq Student /\ A \subseteq Student
      /\ ReviewCount \in Nat
      /\ Wanted \in Int /\ Wanted <= ReviewCount /\ Wanted <= Cardinality(Submitted) - 1
      BY ManyAreWanted
<1>2. C = (Submitted \ {s}) \ A BY DEF Candidates, Submitted
<1>3. P \subseteq C /\ Cardinality(P) = Min({short, Cardinality(C)})
      BY DEF FirstInLine, Shortfall
<1>4. C \subseteq Student /\ P \subseteq Student BY <1>1, <1>2, <1>3
<1> HIDE DEF C
<1>5. /\ Cardinality(A) \in Nat /\ Cardinality(P) \in Nat /\ Cardinality(C) \in Nat
      /\ Cardinality(A \union P) = Cardinality(A) + Cardinality(P)
      /\ Cardinality(A \union C) = Cardinality(A) + Cardinality(C)
      <2>1. A \intersect P = {} /\ A \intersect C = {} BY <1>2, <1>3
      <2> QED BY <1>1, <1>4, <2>1, StudentsTogether
<1>6. short \in Int BY <1>1, <1>5
<1>7. /\ Cardinality(P) \in {short, Cardinality(C)} /\ Cardinality(P) <= short
      <2>1. PICK n : n = Cardinality(C) OBVIOUS
      <2>2. n \in Int BY <1>5, <2>1
      <2>3. Min({short, n}) \in {short, n} /\ Min({short, n}) <= short
            BY <1>6, <2>2, LesserOfTwo
      <2> QED BY <1>3, <2>1, <2>3
<1>8. Cardinality(Submitted) - 1 <= Cardinality(A \union C)
      <2>1. Submitted \ {s} \subseteq A \union C BY <1>2
      <2>2. Cardinality(Submitted \ {s}) <= Cardinality(A \union C)
            BY <1>1, <1>4, <2>1, StudentsTogether
      <2> QED BY <2>2, AllButOne
<1>9. Cardinality(A) + Cardinality(P) <= ReviewCount BY <1>1, <1>5, <1>7
<1>10. Cardinality(A \union P) >= Wanted
       <2>1. CASE Cardinality(P) = short BY <1>1, <1>5, <2>1
       <2>2. CASE Cardinality(P) = Cardinality(C)
             <3>1. Cardinality(Submitted) \in Nat BY <1>1, StudentsAreFew
             <3> QED BY <1>1, <1>5, <1>8, <2>2, <3>1
       <2> QED BY <1>7, <2>1, <2>2
<1>11. Cardinality(ReviewersOf(s) \union P) >= Wanted
       <2>1. A \union P \subseteq ReviewersOf(s) \union P /\ ReviewersOf(s) \union P \subseteq Student
             /\ A \union P \subseteq Student
             BY <1>1, <1>4
       <2>2. /\ Cardinality(A \union P) \in Nat /\ Cardinality(ReviewersOf(s) \union P) \in Nat
             /\ Cardinality(A \union P) <= Cardinality(ReviewersOf(s) \union P)
             BY <2>1, StudentsTogether
       <2> QED BY <1>1, <1>10, <2>2
<1>12. P \subseteq Submitted \ {s} BY <1>2, <1>3
<1> QED BY <1>9, <1>11, <1>12

\* What is left to show of a step that picks, gives or takes turns.
LEMMA TurnTaken ==
  ASSUME WorkInv, NEW w \in Handler, NEW st, NEW e, Walks(w, st, e),
         UNCHANGED <<faults, regraded>>, doubled' \subseteq Student,
         status' \in [Student -> {"none", "SUBMITTED", "GRADED"}], Submitted \subseteq Submitted',
         assigned \subseteq assigned', assigned' \subseteq Student \X Student, ReviewersHandedIn',
         DOMAIN e = Fields, st # "idle" => Bound(e), st \notin {"handIn", "grade"},
         \A v \in Handler \ {w} : stage[v] = "handIn" => status'[errand[v].who] = status[errand[v].who]
                                                        \/ status'[errand[v].who] # "GRADED",
         st \in Picking => e.who \in Submitted' /\ (e.todo = Student \/ e.todo \subseteq Submitted'),
         st = "choose" => \A r \in e.picked : r \in Student /\ <<e.who, r>> \in assigned',
         st = "give" => e.picked \subseteq Submitted' \ {e.who},
         \A s \in Student \ doubled' : InTurn(s)',
         faults = 0 => \A s \in Submitted' : Provided(s)'
  PROVE  WorkInv'
<1>1. Formed' BY DEF WorkInv, Formed, Walks
<1>2. Overtaken'
      <2> SUFFICES ASSUME NEW v \in Handler, stage'[v] = "handIn", status'[errand'[v].who] = "GRADED"
                   PROVE  errand'[v].who \in regraded'
          BY DEF Overtaken
      <2>1. v # w /\ stage[v] = "handIn" /\ errand'[v] = errand[v] BY DEF Walks
      <2>2. status[errand[v].who] = "GRADED" BY <2>1
      <2> QED BY <2>1, <2>2 DEF WorkInv, Overtaken
<1>3. ASSUME NEW v \in Handler PROVE Asks(v)'
      <2>1. Asks(v) BY DEF WorkInv
      <2>2. CASE v = w
            <3>1. stage'[v] = st /\ errand'[v] = e BY <2>2 DEF Walks
            <3> QED BY <3>1 DEF Asks, ReviewersOf
      <2>3. CASE v # w
            <3>1. stage'[v] = stage[v] /\ errand'[v] = errand[v] BY <2>3 DEF Walks
            <3>2. PICK t : t = errand[v].who OBVIOUS
            <3>3. ReviewersOf(t) \subseteq {r \in Student : <<t, r>> \in assigned'} BY DEF ReviewersOf
            <3> QED BY <2>1, <3>1, <3>2, <3>3 DEF Asks, ReviewersOf
      <2> QED BY <2>2, <2>3
<1> QED BY <1>1, <1>2, <1>3 DEF WorkInv

\* A submission none of whose reviewers change stays in turn, if w neither gives
\* it any nor begins to; and what others are about to do for it they still are.
LEMMA InTurnStays ==
  ASSUME NEW w \in Handler, NEW st, NEW e, Walks(w, st, e), NEW s, InTurn(s),
         ReviewersOf(s)' = ReviewersOf(s), st = "give" => e.who # s
  PROVE  InTurn(s)'
<1>1. \A v \in Handler : stage'[v] = "give" /\ errand'[v].who = s =>
        stage[v] = "give" /\ errand'[v] = errand[v]
      BY DEF Walks
<1> QED BY <1>1 DEF InTurn

LEMMA OthersProvide ==
  ASSUME Formed, NEW w \in Handler, NEW st, NEW e, Walks(w, st, e),
         NEW s \in Student, ReviewersOf(s) \subseteq ReviewersOf(s)', Wanted' = Wanted,
         assigned' \subseteq Student \X Student,
         Provided(s), ~WillPick(w, s), ~WillGive(w, s)
  PROVE  Provided(s)'
<1>1. ReviewersOf(s) \subseteq Student /\ ReviewersOf(s)' \subseteq Student /\ Wanted \in Int
      BY ManyAreWanted DEF ReviewersOf
<1>2. CASE Cardinality(ReviewersOf(s)) >= Wanted
      <2>1. /\ Cardinality(ReviewersOf(s)) \in Nat /\ Cardinality(ReviewersOf(s)') \in Nat
            /\ Cardinality(ReviewersOf(s)) <= Cardinality(ReviewersOf(s)')
            BY <1>1, StudentsTogether
      <2> QED BY <1>1, <1>2, <2>1 DEF Provided
<1>3. CASE \E v \in Handler : WillPick(v, s)
      <2>1. PICK v \in Handler : WillPick(v, s) BY <1>3
      <2>2. v # w /\ stage'[v] = stage[v] /\ errand'[v] = errand[v] BY <2>1 DEF Walks
      <2>3. WillPick(v, s)' BY <2>1, <2>2 DEF WillPick
      <2> QED BY <2>3 DEF Provided
<1>4. CASE \E v \in Handler : WillGive(v, s)
      <2>1. PICK v \in Handler : WillGive(v, s) BY <1>4
      <2>2. v # w /\ stage'[v] = stage[v] /\ errand'[v] = errand[v] BY <2>1 DEF Walks
      <2> DEFINE P == errand[v].picked
      <2>3. stage[v] = "give" /\ errand[v].who = s /\ Cardinality(ReviewersOf(s) \union P) >= Wanted
            BY <2>1 DEF WillGive
      <2>4. P \subseteq Student BY <2>3 DEF Formed, Bound
      <2>5. Cardinality(ReviewersOf(s) \union P) <= Cardinality(ReviewersOf(s)' \union P)
            /\ Cardinality(ReviewersOf(s) \union P) \in Nat /\ Cardinality(ReviewersOf(s)' \union P) \in Nat
            BY <1>1, <2>4, StudentsTogether
      <2>6. Cardinality(ReviewersOf(s)' \union P) >= Wanted BY <1>1, <2>3, <2>5
      <2>7. WillGive(v, s)' BY <2>2, <2>3, <2>6 DEF WillGive
      <2> QED BY <2>7 DEF Provided
<1> QED BY <1>2, <1>3, <1>4 DEF Provided

-----------------------------------------------------------------------------
(* A hand-in and the turns it takes *)

LEMMA HandInKeeps ==
  ASSUME WorkInv, NEW w \in Handler, HandIn(w)
  PROVE  WorkInv'
<1>1. Formed /\ stage[w] = "handIn" BY DEF WorkInv, HandIn
<1>2. PICK s \in Student : s = errand[w].who BY <1>1 DEF Formed, Bound
<1>3. /\ UNCHANGED <<assigned, faults, doubled, regraded>>
      /\ status' = [status EXCEPT ![s] = "SUBMITTED"]
      BY <1>2 DEF HandIn, reviews, limits, past
<1>4. /\ status' \in [Student -> {"none", "SUBMITTED", "GRADED"}]
      /\ Submitted' = Submitted \union {s}
      BY <1>1, <1>3 DEF Formed, Submitted
<1>5. ReviewersHandedIn' BY <1>3, <1>4 DEF WorkInv, ReviewersHandedIn, Submitted
<1>6. \A t \in Student : ReviewersOf(t)' = ReviewersOf(t) BY <1>3 DEF ReviewersOf
<1>7. \A v \in Handler \ {w} : stage[v] = "handIn" => status'[errand[v].who] = status[errand[v].who]
                                                     \/ status'[errand[v].who] # "GRADED"
      BY <1>1, <1>3 DEF Formed, Bound
<1>8. assigned' \subseteq Student \X Student /\ doubled' \subseteq Student BY <1>1, <1>3 DEF Formed
<1>9. CASE ReviewCount = 0
      <2>1. Walks(w, "idle", NoJob) BY <1>1, <1>9, Walking DEF HandIn, LayDown
      <2>2. \A t \in Student \ doubled' : InTurn(t)'
            BY <1>3, <1>6, <2>1, InTurnStays DEF WorkInv
      <2>3. ASSUME NEW t \in Submitted' PROVE Provided(t)'
            <3>1. Submitted' \subseteq Student /\ t \in Student BY <1>1, <1>4 DEF Submitted
            <3>2. Cardinality(Submitted') - 1 \in Int BY <3>1, StudentsAreFew
            <3>3. Wanted' <= 0 /\ Wanted' \in Int
                  <4>1. PICK h : h = Cardinality(Submitted') - 1 OBVIOUS
                  <4>2. Wanted' = Min({0, h}) BY <1>9, <4>1 DEF Wanted
                  <4>3. 0 \in Int /\ h \in Int BY <3>2, <4>1
                  <4>4. Min({0, h}) \in {0, h} /\ Min({0, h}) <= 0 BY <4>3, LesserOfTwo
                  <4>5. Min({0, h}) \in Int BY <4>3, <4>4
                  <4> QED BY <4>2, <4>4, <4>5
            <3>4. ReviewersOf(t)' \subseteq Student BY <1>1, <1>6, <3>1, ManyAreWanted
            <3>5. Cardinality(ReviewersOf(t)') \in Nat BY <3>4, StudentsAreFew
            <3> QED BY <3>3, <3>5 DEF Provided
      <2>4. DOMAIN NoJob = Fields BY ErrandBegins
      <2> QED BY <1>3, <1>4, <1>5, <1>7, <1>8, <2>1, <2>2, <2>3, <2>4, TurnTaken DEF Picking
<1>10. CASE ReviewCount # 0
       <2> DEFINE e == [NoJob EXCEPT !.who = s, !.todo = Student]
       <2>1. DOMAIN e = Fields /\ e.who = s /\ e.picked = {} /\ e.todo = Student BY ErrandBegins
       <2>2. stage' = [stage EXCEPT ![w] = "pick"] /\ errand' = [errand EXCEPT ![w] = e]
             BY <1>2, <1>10 DEF HandIn, GoOn
       <2> HIDE DEF e
       <2>3. Walks(w, "pick", e) BY <1>1, <2>2, Walking
       <2>4. \A t \in Student \ doubled' : InTurn(t)'
             BY <1>3, <1>6, <2>3, InTurnStays DEF WorkInv
       <2>5. ASSUME NEW t \in Submitted' PROVE Provided(t)'
             <3>1. t \in Student BY <1>1, <1>4 DEF Submitted
             <3>2. stage'[w] = "pick" /\ errand'[w].who = s /\ errand'[w].todo = Student
                   BY <2>1, <2>3 DEF Walks
             <3>3. WillPick(w, t)' BY <3>1, <3>2 DEF WillPick, Picking
             <3> QED BY <3>3 DEF Provided
       <2>6. Bound(e) BY <2>1 DEF Bound
       <2> QED BY <1>3, <1>4, <1>5, <1>7, <1>8, <2>1, <2>3, <2>4, <2>5, <2>6, TurnTaken DEF Picking
<1> QED BY <1>9, <1>10

\* The next of the others is picked for, or none is left.
LEMMA OthersKeeps ==
  ASSUME WorkInv, NEW w \in Handler, Others(w)
  PROVE  WorkInv'
<1>1. Formed /\ stage[w] = "others" /\ Asks(w) BY DEF WorkInv, Others
<1>2. PICK s \in Student : s = errand[w].who BY <1>1 DEF Formed, Bound
<1>3. PICK todo : todo = errand[w].todo OBVIOUS
<1>4. PICK rest : rest = IF todo = Student THEN Submitted \ {s} ELSE todo OBVIOUS
<1>5. /\ UNCHANGED <<status, assigned, faults, doubled, regraded>>
      /\ \/ rest = {} /\ LayDown(w)
         \/ \E o \in rest : GoOn(w, "pick", [NoJob EXCEPT !.who = o, !.todo = rest \ {o}])
      BY <1>2, <1>3, <1>4 DEF Others, work, reviews, limits, past, Submitted
<1>6. Submitted' = Submitted /\ Submitted \subseteq Student /\ rest \subseteq Submitted
      BY <1>1, <1>3, <1>4, <1>5 DEF Submitted, Asks, Picking
<1>7. \A t \in Student : ReviewersOf(t)' = ReviewersOf(t) BY <1>5 DEF ReviewersOf
<1>8. /\ ReviewersHandedIn' /\ Wanted' = Wanted /\ assigned' \subseteq Student \X Student
      /\ doubled' \subseteq Student /\ status' \in [Student -> {"none", "SUBMITTED", "GRADED"}]
      BY <1>1, <1>5, <1>6 DEF WorkInv, ReviewersHandedIn, Submitted, Wanted, Formed
<1>9. ASSUME NEW t \in Submitted, WillPick(w, t) PROVE t \in rest
      BY <1>1, <1>2, <1>3, <1>4, <1>9 DEF WillPick
<1>10. \A t \in Student : ~WillGive(w, t) BY <1>1 DEF WillGive
<1>11. faults = 0 => \A t \in Submitted : Provided(t) /\ t \in Student BY <1>6 DEF WorkInv
<1>12. \A t \in Student \ doubled' : t \in Student /\ InTurn(t) BY <1>5 DEF WorkInv
<1>13. CASE rest = {} /\ LayDown(w)
       <2>1. Walks(w, "idle", NoJob) BY <1>1, <1>13, Walking DEF LayDown
       <2>2. \A t \in Student \ doubled' : InTurn(t)'
             BY <1>7, <1>12, <2>1, InTurnStays
       <2>3. faults = 0 => \A t \in Submitted' : Provided(t)'
             <3> SUFFICES ASSUME faults = 0, NEW t \in Submitted PROVE Provided(t)' BY <1>6
             <3>1. ~WillPick(w, t) BY <1>9, <1>13
             <3> QED BY <1>1, <1>7, <1>8, <1>10, <1>11, <2>1, <3>1, OthersProvide
       <2>4. DOMAIN NoJob = Fields BY ErrandBegins
       <2> QED BY <1>5, <1>6, <1>8, <2>1, <2>2, <2>3, <2>4, TurnTaken DEF Picking
<1>14. CASE \E o \in rest : GoOn(w, "pick", [NoJob EXCEPT !.who = o, !.todo = rest \ {o}])
       <2>1. PICK o \in rest : GoOn(w, "pick", [NoJob EXCEPT !.who = o, !.todo = rest \ {o}])
             BY <1>14
       <2> DEFINE e == [NoJob EXCEPT !.who = o, !.todo = rest \ {o}]
       <2>2. DOMAIN e = Fields /\ e.who = o /\ e.picked = {} /\ e.todo = rest \ {o} BY ErrandBegins
       <2>3. stage' = [stage EXCEPT ![w] = "pick"] /\ errand' = [errand EXCEPT ![w] = e]
             BY <2>1 DEF GoOn
       <2> HIDE DEF e
       <2>4. Walks(w, "pick", e) BY <1>1, <2>3, Walking
       <2>5. \A t \in Student \ doubled' : InTurn(t)'
             BY <1>7, <1>12, <2>4, InTurnStays
       <2>6. faults = 0 => \A t \in Submitted' : Provided(t)'
             <3> SUFFICES ASSUME faults = 0, NEW t \in Submitted PROVE Provided(t)' BY <1>6
             <3>1. CASE t \in rest
                   <4>1. stage'[w] = "pick" /\ errand'[w].who = o /\ errand'[w].todo = rest \ {o}
                         BY <2>2, <2>4 DEF Walks
                   <4>2. WillPick(w, t)' BY <3>1, <4>1 DEF WillPick, Picking
                   <4> QED BY <4>2 DEF Provided
             <3>2. CASE t \notin rest
                   <4>1. ~WillPick(w, t) BY <1>9, <3>2
                   <4> QED BY <1>1, <1>7, <1>8, <1>10, <1>11, <2>4, <4>1, OthersProvide
             <3> QED BY <3>1, <3>2
       <2>7. Bound(e) /\ o \in Submitted' BY <1>6, <2>2 DEF Bound
       <2>8. e.todo \subseteq Submitted' BY <1>6, <2>2
       <2> QED BY <1>5, <1>6, <1>8, <2>2, <2>4, <2>5, <2>6, <2>7, <2>8, TurnTaken DEF Picking
<1> QED BY <1>5, <1>13, <1>14

\* A submission's reviewers are read, or chosen among the candidates, or it is
\* left as it is: what the two steps have in common.
LEMMA ChoiceKeeps ==
  ASSUME WorkInv, NEW w \in Handler, stage[w] \in {"pick", "choose"},
         UNCHANGED <<status, assigned, faults, regraded>>, doubled \subseteq doubled',
         doubled' \subseteq Student, NEW st \in {"choose", "give", "others"}, NEW P \in SUBSET Student,
         GoOn(w, st, [errand[w] EXCEPT !.picked = P]),
         st = "choose" => P = ReviewersOf(errand[w].who),
         st = "give" => /\ P \subseteq Submitted \ {errand[w].who}
                        /\ Cardinality(ReviewersOf(errand[w].who) \union P) >= Wanted,
         st = "give" /\ errand[w].who \notin doubled' =>
           /\ ~At(errand[w].who, {"give"})
           /\ Cardinality(ReviewersOf(errand[w].who)) + Cardinality(P) <= ReviewCount,
         st = "others" => Cardinality(ReviewersOf(errand[w].who)) >= Wanted
  PROVE  WorkInv'
<1>1. Formed /\ Asks(w) BY DEF WorkInv
<1>2. PICK s \in Submitted : s = errand[w].who BY <1>1 DEF Asks, Picking
<1>3. Submitted' = Submitted /\ Submitted \subseteq Student /\ s \in Student BY DEF Submitted
<1>4. \A t \in Student : ReviewersOf(t)' = ReviewersOf(t) BY DEF ReviewersOf
<1>5. /\ ReviewersHandedIn' /\ Wanted' = Wanted /\ assigned' \subseteq Student \X Student
      /\ status' \in [Student -> {"none", "SUBMITTED", "GRADED"}]
      BY <1>1, <1>3 DEF WorkInv, ReviewersHandedIn, Submitted, Wanted, Formed
<1>6. \A t \in Student : ~WillGive(w, t) BY DEF WillGive
<1>7. faults = 0 => \A t \in Submitted : Provided(t) BY DEF WorkInv
<1>8. DOMAIN errand[w] = Fields /\ Bound(errand[w]) BY <1>1 DEF Formed
<1> DEFINE e == [errand[w] EXCEPT !.picked = P]
<1>9. DOMAIN e = Fields /\ e.picked = P /\ e.who = s /\ e.todo = errand[w].todo
      BY <1>2, <1>8, ErrandChanges
<1>10. stage' = [stage EXCEPT ![w] = st] /\ errand' = [errand EXCEPT ![w] = e] BY DEF GoOn
<1> HIDE DEF e
<1>11. Walks(w, st, e) BY <1>1, <1>10, Walking
<1>12. stage'[w] = st /\ errand'[w] = e BY <1>11 DEF Walks
<1>13. ASSUME NEW t \in Student \ doubled' PROVE InTurn(t)'
       <2>1. InTurn(t) /\ t \in Student /\ ReviewersOf(t)' = ReviewersOf(t) BY <1>4, <1>13 DEF WorkInv
       <2>2. CASE t # s \/ st # "give" BY <1>9, <1>11, <2>1, <2>2, InTurnStays
       <2>3. CASE t = s /\ st = "give"
             <3>1. \A v \in Handler : ~(stage[v] = "give" /\ errand[v].who = s)
                   BY <1>2, <1>13, <2>3 DEF At
             <3>2. \A v \in Handler : stage'[v] = "give" /\ errand'[v].who = s => v = w
                   BY <1>11, <3>1 DEF Walks
             <3>3. Cardinality(ReviewersOf(t)) <= ReviewCount BY <2>1 DEF InTurn
             <3>4. Cardinality(ReviewersOf(t)) + Cardinality(P) <= ReviewCount BY <1>2, <1>13, <2>3
             <3>5. errand'[w].picked = P BY <1>9, <1>12
             <3> QED BY <2>1, <2>3, <3>2, <3>3, <3>4, <3>5 DEF InTurn
       <2> QED BY <2>2, <2>3
<1>14. faults = 0 => \A t \in Submitted' : Provided(t)'
       <2> SUFFICES ASSUME faults = 0, NEW t \in Submitted PROVE Provided(t)' BY <1>3
       <2>1. t \in Student /\ Provided(t) BY <1>3, <1>7
       <2>2. CASE t = s /\ st = "choose"
             <3>1. WillPick(w, t)' BY <1>9, <1>12, <2>2 DEF WillPick
             <3> QED BY <3>1 DEF Provided
       <2>3. CASE t = s /\ st = "give"
             <3>1. WillGive(w, t)' BY <1>2, <1>4, <1>5, <1>9, <1>12, <2>1, <2>3 DEF WillGive
             <3> QED BY <3>1 DEF Provided
       <2>4. CASE t = s /\ st = "others"
             <3>1. Cardinality(ReviewersOf(t)) >= Wanted BY <1>2, <2>4
             <3> QED BY <1>4, <1>5, <2>1, <3>1 DEF Provided
       <2>5. CASE t # s /\ WillPick(w, t)
             <3>1. WillPick(w, t)' BY <1>2, <1>9, <1>12, <2>5 DEF WillPick, Picking
             <3> QED BY <3>1 DEF Provided
       <2>6. CASE ~WillPick(w, t)
             BY <1>1, <1>4, <1>5, <1>6, <1>11, <2>1, <2>6, OthersProvide
       <2> QED BY <2>2, <2>3, <2>4, <2>5, <2>6
<1>15. Bound(e) BY <1>8, <1>2, <1>9 DEF Bound
<1>16. /\ e.todo = Student \/ e.todo \subseteq Submitted'
       /\ e.who \in Submitted'
       /\ st = "choose" => \A r \in e.picked : r \in Student /\ <<e.who, r>> \in assigned'
       /\ st = "give" => e.picked \subseteq Submitted' \ {e.who}
       BY <1>1, <1>2, <1>3, <1>9 DEF Asks, Picking, ReviewersOf
<1>17. \A v \in Handler \ {w} : status'[errand[v].who] = status[errand[v].who] OBVIOUS
<1> QED BY <1>3, <1>5, <1>9, <1>11, <1>13, <1>14, <1>15, <1>16, <1>17, TurnTaken DEF Picking

\* The submission is read.
LEMMA PickKeeps ==
  ASSUME WorkInv, NEW w \in Handler, Pick(w)
  PROVE  WorkInv'
<1>1. Formed /\ stage[w] = "pick" /\ Asks(w) BY DEF WorkInv, Pick
<1>2. PICK s \in Submitted : s = errand[w].who BY <1>1 DEF Asks, Picking
<1>3. /\ UNCHANGED <<status, assigned, faults, regraded, doubled>>
      /\ IF Shortfall(ReviewersOf(s)) <= 0 THEN NextToPick(w)
         ELSE GoOn(w, "choose", [errand[w] EXCEPT !.picked = ReviewersOf(s)])
      BY <1>2 DEF Pick, work, reviews, limits, past
<1>4. doubled' \subseteq Student /\ doubled \subseteq doubled' BY <1>1, <1>3 DEF Formed
<1>5. CASE Shortfall(ReviewersOf(s)) <= 0
      <2>1. GoOn(w, "others", [errand[w] EXCEPT !.picked = {}]) BY <1>3, <1>5 DEF NextToPick
      <2>2. Cardinality(ReviewersOf(s)) >= Wanted BY <1>1, <1>5, NoneToPick
      <2> QED BY <1>1, <1>2, <1>3, <1>4, <2>1, <2>2, ChoiceKeeps
<1>6. CASE ~(Shortfall(ReviewersOf(s)) <= 0)
      <2>1. GoOn(w, "choose", [errand[w] EXCEPT !.picked = ReviewersOf(s)]) BY <1>3, <1>6
      <2>2. ReviewersOf(s) \in SUBSET Student BY DEF ReviewersOf
      <2> QED BY <1>1, <1>2, <1>3, <1>4, <2>1, <2>2, ChoiceKeeps
<1> QED BY <1>5, <1>6

\* The candidates are read, and reviewers chosen among them.
LEMMA ChooseKeeps ==
  ASSUME WorkInv, NEW w \in Handler, Choose(w)
  PROVE  WorkInv'
<1>1. Formed /\ stage[w] = "choose" /\ Asks(w) BY DEF WorkInv, Choose
<1>2. PICK s \in Submitted : s = errand[w].who BY <1>1 DEF Asks, Picking
<1>3. PICK A : A = errand[w].picked OBVIOUS
<1>4. A \subseteq ReviewersOf(s) BY <1>1, <1>2, <1>3 DEF Asks
<1>5. /\ UNCHANGED <<status, assigned, faults, regraded>>
      /\ \/ Candidates(s, A) = {} /\ NextToPick(w) /\ UNCHANGED doubled
         \/ \E P \in SUBSET Student :
              /\ FirstInLine(s, A, P)
              /\ GoOn(w, "give", [errand[w] EXCEPT !.picked = P])
              /\ doubled' = IF At(s, {"give"}) \/ ReviewersOf(s) # A
                              THEN doubled \union {s} ELSE doubled
      BY <1>2, <1>3 DEF Choose, work, reviews, limits
<1>6. s \in Student /\ doubled \subseteq Student BY <1>1 DEF Submitted, Formed
<1>7. CASE Candidates(s, A) = {} /\ NextToPick(w) /\ UNCHANGED doubled
      <2>1. GoOn(w, "others", [errand[w] EXCEPT !.picked = {}]) BY <1>7 DEF NextToPick
      <2>2. Cardinality(ReviewersOf(s)) >= Wanted BY <1>1, <1>4, <1>7, NoneToPick
      <2> QED BY <1>1, <1>2, <1>5, <1>6, <1>7, <2>1, <2>2, ChoiceKeeps
<1>8. ASSUME NEW P \in SUBSET Student, FirstInLine(s, A, P),
             GoOn(w, "give", [errand[w] EXCEPT !.picked = P]),
             doubled' = IF At(s, {"give"}) \/ ReviewersOf(s) # A
                         THEN doubled \union {s} ELSE doubled
      PROVE  WorkInv'
      <2>1. /\ P \subseteq Submitted \ {s} /\ Cardinality(A) + Cardinality(P) <= ReviewCount
            /\ Cardinality(ReviewersOf(s) \union P) >= Wanted
            BY <1>1, <1>4, <1>8, PicksEnough
      <2>2. doubled \subseteq doubled' /\ doubled' \subseteq Student BY <1>6, <1>8
      <2>3. s \notin doubled' => ~At(s, {"give"}) /\ ReviewersOf(s) = A BY <1>8
      <2>4. s \notin doubled' => Cardinality(ReviewersOf(s)) + Cardinality(P) <= ReviewCount
            BY <2>1, <2>3
      <2> QED BY <1>1, <1>2, <1>5, <1>8, <2>1, <2>2, <2>3, <2>4, ChoiceKeeps
<1> QED BY <1>5, <1>7, <1>8

\* The reviewers picked are given.
LEMMA GiveKeeps ==
  ASSUME WorkInv, NEW w \in Handler, Give(w)
  PROVE  WorkInv'
<1>1. Formed /\ stage[w] = "give" /\ Asks(w) BY DEF WorkInv, Give
<1>2. PICK s \in Submitted : s = errand[w].who BY <1>1 DEF Asks, Picking
<1>3. PICK P : P = errand[w].picked OBVIOUS
<1>4. /\ UNCHANGED <<status, faults, regraded, doubled>>
      /\ assigned' = assigned \union ({s} \X P) /\ NextToPick(w)
      BY <1>2, <1>3 DEF Give, work, limits, past
<1>5. Submitted' = Submitted /\ Submitted \subseteq Student /\ s \in Student
      BY <1>4 DEF Submitted
<1>6. P \subseteq Submitted \ {s} /\ P \subseteq Student BY <1>1, <1>2, <1>3, <1>5 DEF Asks
<1>7. /\ assigned' \subseteq Student \X Student /\ doubled' \subseteq Student
      /\ status' \in [Student -> {"none", "SUBMITTED", "GRADED"}] /\ Wanted' = Wanted
      BY <1>1, <1>4, <1>5, <1>6 DEF Formed, Wanted
<1>8. ReviewersHandedIn'
      <2>1. \A p \in assigned : p[1] # p[2] /\ {p[1], p[2]} \subseteq Submitted
            BY DEF WorkInv, ReviewersHandedIn, Submitted
      <2>2. \A p \in {s} \X P : p[1] # p[2] /\ {p[1], p[2]} \subseteq Submitted BY <1>6
      <2> QED BY <1>4, <1>5, <2>1, <2>2 DEF ReviewersHandedIn, Submitted
<1>9. /\ ReviewersOf(s)' = ReviewersOf(s) \union P
      /\ \A t \in Student \ {s} : ReviewersOf(t)' = ReviewersOf(t)
      BY <1>4, <1>6 DEF ReviewersOf
<1> DEFINE e == [errand[w] EXCEPT !.picked = {}]
<1>10. DOMAIN errand[w] = Fields /\ Bound(errand[w]) BY <1>1 DEF Formed
<1>11. DOMAIN e = Fields /\ e.picked = {} /\ e.who = s /\ e.todo = errand[w].todo
       BY <1>2, <1>10, ErrandChanges
<1>12. stage' = [stage EXCEPT ![w] = "others"] /\ errand' = [errand EXCEPT ![w] = e]
       BY <1>4 DEF NextToPick, GoOn
<1> HIDE DEF e
<1>13. Walks(w, "others", e) BY <1>1, <1>12, Walking
<1>14. ASSUME NEW t \in Student \ doubled' PROVE InTurn(t)'
       <2>1. InTurn(t) BY <1>4, <1>14 DEF WorkInv
       <2>2. CASE t # s BY <1>9, <1>13, <2>1, <2>2, InTurnStays
       <2>3. CASE t = s
             <3>1. /\ Cardinality(ReviewersOf(s)) + Cardinality(P) <= ReviewCount
                   /\ \A v \in Handler : stage[v] = "give" /\ errand[v].who = s => v = w
                   BY <1>1, <1>2, <1>3, <2>1, <2>3 DEF InTurn
             <3>2. ReviewersOf(s) \subseteq Student /\ ReviewCount \in Nat BY <1>1, <1>5, ManyAreWanted
             <3>3. Cardinality(ReviewersOf(s)') <= ReviewCount
                   <4>1. /\ Cardinality(ReviewersOf(s) \union P) <= Cardinality(ReviewersOf(s)) + Cardinality(P)
                         /\ Cardinality(ReviewersOf(s) \union P) \in Nat
                         /\ Cardinality(ReviewersOf(s)) \in Nat /\ Cardinality(P) \in Nat
                         BY <1>6, <3>2, StudentsTogether
                   <4> QED BY <1>9, <3>1, <3>2, <4>1
             <3>4. \A v \in Handler : ~(stage'[v] = "give" /\ errand'[v].who = s)
                   BY <1>13, <3>1 DEF Walks
             <3> QED BY <2>3, <3>3, <3>4 DEF InTurn
       <2> QED BY <2>2, <2>3
<1>15. faults = 0 => \A t \in Submitted' : Provided(t)'
       <2> SUFFICES ASSUME faults = 0, NEW t \in Submitted PROVE Provided(t)' BY <1>5
       <2>1. t \in Student /\ Provided(t) /\ ReviewersOf(t) \subseteq ReviewersOf(t)'
             BY <1>5, <1>9 DEF WorkInv
       <2>2. CASE WillGive(w, t)
             <3>1. t = s /\ Cardinality(ReviewersOf(s) \union P) >= Wanted
                   BY <1>2, <1>3, <2>2 DEF WillGive
             <3> QED BY <1>7, <1>9, <3>1 DEF Provided
       <2>3. CASE WillPick(w, t)
             <3>1. stage'[w] = "others" /\ errand'[w] = e BY <1>13 DEF Walks
             <3>2. WillPick(w, t)' BY <1>1, <1>2, <1>11, <2>3, <3>1 DEF WillPick, Picking
             <3> QED BY <3>2 DEF Provided
       <2>4. CASE ~WillPick(w, t) /\ ~WillGive(w, t)
             BY <1>1, <1>7, <1>13, <2>1, <2>4, OthersProvide
       <2> QED BY <2>2, <2>3, <2>4
<1>16. Bound(e) BY <1>10, <1>2, <1>11 DEF Bound
<1>17. e.todo = Student \/ e.todo \subseteq Submitted' BY <1>1, <1>5, <1>11 DEF Asks, Picking
<1>18. e.who \in Submitted' BY <1>5, <1>11
<1>19. \A v \in Handler \ {w} : status'[errand[v].who] = status[errand[v].who] BY <1>4
<1> QED BY <1>4, <1>5, <1>7, <1>8, <1>11, <1>13, <1>14, <1>15, <1>16, <1>17, <1>18, <1>19, TurnTaken
        DEF Picking

-----------------------------------------------------------------------------
(* Every step keeps it *)

\* What changes nothing of the state it is about.
LEMMA RestKeeps ==
  ASSUME WorkInv, UNCHANGED <<status, assigned, stage, errand, faults, regraded, doubled>>
  PROVE  WorkInv'
<1>1. /\ Submitted' = Submitted /\ Wanted' = Wanted /\ \A s \in Student : ReviewersOf(s)' = ReviewersOf(s)
      BY DEF Submitted, Wanted, ReviewersOf
<1>2. Formed' BY DEF WorkInv, Formed
<1>3. ReviewersHandedIn' BY DEF WorkInv, ReviewersHandedIn, Submitted
<1>4. Overtaken' BY DEF WorkInv, Overtaken
<1>5. \A w \in Handler : Asks(w)' BY <1>1 DEF WorkInv, Asks, ReviewersOf
<1>6. \A s \in Student \ doubled' : InTurn(s)' BY <1>1 DEF WorkInv, InTurn
<1>7. faults' = 0 => \A s \in Submitted' : Provided(s)'
      <2> SUFFICES ASSUME faults' = 0, NEW s \in Submitted' PROVE Provided(s)' OBVIOUS
      <2>1. Provided(s) /\ s \in Student BY <1>1 DEF WorkInv, Submitted
      <2>2. \A w \in Handler : (WillPick(w, s) => WillPick(w, s)') /\ (WillGive(w, s) => WillGive(w, s)')
            BY <1>1, <2>1 DEF WillPick, WillGive
      <2> QED BY <1>1, <2>1, <2>2 DEF Provided
<1> QED BY <1>2, <1>3, <1>4, <1>5, <1>6, <1>7 DEF WorkInv

LEMMA WorkBegins == ASSUME CourseworkInit PROVE WorkInv
<1>1. \A w \in Handler : stage[w] = "idle" /\ errand[w] = NoJob BY DEF CourseworkInit
<1>2. Submitted = {} /\ assigned = {} /\ doubled = {} /\ regraded = {}
      BY DEF CourseworkInit, Submitted
<1>3. Formed BY <1>1, ErrandBegins DEF Formed, CourseworkInit
<1>4. ASSUME NEW s \in Student PROVE InTurn(s)
      <2>1. ReviewersOf(s) = {} BY <1>2 DEF ReviewersOf
      <2>2. Cardinality(ReviewersOf(s)) = 0 BY <2>1, FS_EmptySet
      <2>3. ReviewCount \in Nat BY CourseworkAssumption
      <2> QED BY <1>1, <2>2, <2>3 DEF InTurn
<1>5. ReviewersHandedIn BY <1>2 DEF ReviewersHandedIn
<1>6. Overtaken BY <1>1 DEF Overtaken
<1>7. \A w \in Handler : Asks(w) BY <1>1 DEF Asks, Picking
<1> QED BY <1>2, <1>3, <1>4, <1>5, <1>6, <1>7 DEF WorkInv

LEMMA WorkInductive ==
  ASSUME WorkInv, [CourseworkNext]_courseworkVars
  PROVE  WorkInv'
<1>1. CASE UNCHANGED courseworkVars
      BY <1>1, RestKeeps DEF courseworkVars, work, reviews, requests, limits, past
<1>2. CASE DuePasses
      BY <1>2, RestKeeps DEF DuePasses, reviews, requests, limits, past
<1>3. CASE \E s \in Student : \/ HandInRefused(s) \/ GradeTooHigh(s)
                              \/ \E r \in Student : ReviewRepeated(s, r)
      <2>1. UNCHANGED courseworkVars BY <1>3 DEF HandInRefused, GradeTooHigh, ReviewRepeated
      <2> QED BY <1>1, <2>1
<1>4. ASSUME NEW w \in Handler,
             \/ Advance(w) \/ Fail(w)
             \/ \E s \in Student : \/ HandInBegins(w, s) \/ GradeStart(w, s)
                                   \/ \E r \in Student : ReviewStart(w, s, r)
      PROVE  WorkInv'
      <2>1. CASE HandIn(w) BY <2>1, HandInKeeps
      <2>2. CASE Pick(w) \/ Choose(w) BY <2>2, PickKeeps, ChooseKeeps
      <2>3. CASE Give(w) BY <2>3, GiveKeeps
      <2>4. CASE Others(w) BY <2>4, OthersKeeps
      <2>5. CASE Grade(w) BY <2>5, GradeKeeps
      <2>6. CASE Fail(w) BY <2>6, FailKeeps
      <2>7. CASE \/ Review(w) \/ MeanRead(w) \/ MeanWrite(w)
                 \/ \E s \in Student : HandInBegins(w, s) \/ GradeStart(w, s)
                 \/ \E s, r \in Student : ReviewStart(w, s, r)
            BY <2>7, WorkerKeeps
      <2> QED BY <1>4, <2>1, <2>2, <2>3, <2>4, <2>5, <2>6, <2>7 DEF Advance
<1> QED BY <1>1, <1>2, <1>3, <1>4 DEF CourseworkNext

\* PeerReviewService.assignReviewers: however hand-ins overlap, nobody reviews
\* before handing in, nor their own; no submission is given more reviewers than
\* the assignment asks for unless two requests picked for it at once; and when
\* nothing is being processed and nothing was cut short each has its reviewers,
\* or all who could be asked.
THEOREM ReviewersStayRight == CourseworkSpec => []ReviewersAreRight
<1>1. WorkInv => ReviewersAreRight
      <2> SUFFICES ASSUME WorkInv PROVE ReviewersAreRight OBVIOUS
      <2>1. ReviewersHandedIn BY DEF WorkInv
      <2>2. \A s \in Student \ doubled : Cardinality(ReviewersOf(s)) <= ReviewCount
            BY DEF WorkInv, InTurn
      <2>3. ReviewersAsWanted BY <2>2 DEF ReviewersAsWanted
      <2>4. TopUpReachesAll
            <3>1. ASSUME \A w \in Handler : stage[w] \notin Picking, faults = 0, NEW s \in Submitted
                  PROVE  Cardinality(ReviewersOf(s)) >= Wanted
                  <4>1. Provided(s) BY <3>1 DEF WorkInv
                  <4> QED BY <3>1, <4>1 DEF Provided, WillPick, WillGive, Picking
            <3> QED BY <3>1 DEF TopUpReachesAll, Picking, Wanted
      <2> QED BY <2>1, <2>3, <2>4 DEF ReviewersAreRight
<1> QED BY <1>1, WorkBegins, WorkInductive, PTL DEF CourseworkSpec

\* AssignmentsService.submit and grade: a grade stands, unless the hand-in that
\* undoes it was on its way when the grade was given.
LEMMA GradeIsKept ==
  ASSUME WorkInv, CourseworkNext
  PROVE  \A s \in Student : status[s] = "GRADED" => status'[s] = "GRADED" \/ s \in regraded
<1> SUFFICES ASSUME NEW s \in Student, status[s] = "GRADED", status'[s] # status[s]
             PROVE  s \in regraded
    OBVIOUS
<1>1. Formed /\ status \in [Student -> {"none", "SUBMITTED", "GRADED"}] BY DEF WorkInv, Formed
<1>2. PICK w \in Handler : HandIn(w) \/ Grade(w)
      BY DEF CourseworkNext, Advance, Pick, Choose, Give, Others, Review, MeanRead,
         MeanWrite, Fail, HandInBegins, GradeStart, ReviewStart,
         HandInRefused, GradeTooHigh, ReviewRepeated, DuePasses, courseworkVars, work
<1>3. CASE Grade(w) BY <1>1, <1>3 DEF Grade
<1>4. CASE HandIn(w)
      <2>1. stage[w] = "handIn" /\ s = errand[w].who BY <1>1, <1>4 DEF HandIn
      <2> QED BY <2>1 DEF WorkInv, Overtaken
<1> QED BY <1>2, <1>3, <1>4

THEOREM GradesStand == CourseworkSpec => GradeStands
<1>1. WorkInv /\ [CourseworkNext]_courseworkVars =>
        [\A s \in Student : status[s] = "GRADED" => status'[s] = "GRADED" \/ s \in regraded]_courseworkVars
      BY GradeIsKept
<1> QED BY <1>1, WorkBegins, WorkInductive, PTL DEF CourseworkSpec, GradeStands

-----------------------------------------------------------------------------
(* The mark a student sees *)

Averages == {"mean", "meanWrite"}

\* A review's row holds its mark, and a request that brings one is about a row.
Marked ==
  /\ DOMAIN total = Student \X Student /\ DOMAIN peerScore = Student
  /\ \A p \in Student \X Student : total[p] # Nil => p \in assigned
  /\ \A w \in Handler : stage[w] = "review" => <<errand[w].who, errand[w].reviewer>> \in assigned

\* The mark is the mean of what is in, or the mean is being taken; and what is
\* about to be written is the mean still.
Averaged(s) ==
  /\ MarkersOf(s) # {} =>
       peerScore[s] = MeanOf(s) \/ \E w \in Handler : stage[w] \in Averages /\ errand[w].who = s
  /\ \A w \in Handler : stage[w] = "meanWrite" /\ errand[w].who = s => errand[w].mark = MeanOf(s)

MeanInv == WorkInv /\ Marked /\ (faults = 0 => \A s \in Student \ blurred : Averaged(s))

\* What is in is told by the marks alone.
LEMMA DoneIsMarked ==
  ASSUME Marked, NEW s \in Student
  PROVE  MarkersOf(s) = {r \in Student : total[<<s, r>>] # Nil}
  BY DEF Marked, MarkersOf, ReviewersOf

\* The marks of a submission that no review is handed in for stay.
LEMMA MeanStays ==
  ASSUME Marked, Marked', NEW s \in Student,
         \A r \in Student : total'[<<s, r>>] = total[<<s, r>>]
  PROVE  MarkersOf(s)' = MarkersOf(s) /\ MeanOf(s)' = MeanOf(s)
<1>1. MarkersOf(s) = {r \in Student : total[<<s, r>>] # Nil} BY DoneIsMarked
<1>2. MarkersOf(s)' = {r \in Student : total'[<<s, r>>] # Nil}
      BY DEF Marked, MarkersOf, ReviewersOf
<1>3. MarkersOf(s)' = MarkersOf(s) /\ MarkersOf(s) \subseteq Student BY <1>1, <1>2
<1>4. MarksOf(s)' = MarksOf(s) BY <1>3 DEF MarksOf
<1> QED BY <1>3, <1>4 DEF MeanOf

\* A step that takes nobody's mean.
LEMMA MeanQuiet ==
  ASSUME MeanInv, NEW w \in Handler, NEW st, NEW e, Walks(w, st, e),
         WorkInv', UNCHANGED <<total, peerScore, blurred>>, assigned \subseteq assigned',
         st \notin Averages, st = "review" => <<e.who, e.reviewer>> \in assigned,
         faults' = 0 => faults = 0 /\ stage[w] \notin Averages
  PROVE  MeanInv'
<1>1. Marked /\ Marked' BY DEF MeanInv, Marked, Walks
<1>2. ASSUME faults' = 0, NEW s \in Student \ blurred' PROVE Averaged(s)'
      <2>1. Averaged(s) BY <1>2 DEF MeanInv
      <2>2. MarkersOf(s)' = MarkersOf(s) /\ MeanOf(s)' = MeanOf(s) BY <1>1, MeanStays
      <2>3. \A v \in Handler : stage[v] \in Averages => stage'[v] = stage[v] /\ errand'[v] = errand[v]
            BY <1>2 DEF Walks
      <2>4. \A v \in Handler : stage'[v] \in Averages => stage[v] = stage'[v] /\ errand'[v] = errand[v]
            BY DEF Walks
      <2> QED BY <2>1, <2>2, <2>3, <2>4 DEF Averaged, Averages
<1> QED BY <1>1, <1>2 DEF MeanInv

\* Handing in, grading and giving reviewers; and what ends in an error.
LEMMA OtherWorkKeepsMean ==
  ASSUME MeanInv, WorkInv', NEW w \in Handler,
         \/ HandIn(w) \/ Pick(w) \/ Choose(w) \/ Give(w) \/ Others(w) \/ Grade(w)
         \/ \E s \in Student : HandInBegins(w, s) \/ GradeStart(w, s)
  PROVE  MeanInv'
<1>1. Formed BY DEF MeanInv, WorkInv
<1>2. UNCHANGED <<total, peerScore, blurred, faults>> /\ assigned \subseteq assigned'
      BY DEF HandIn, Pick, Choose, Give, Others, Grade, HandInBegins, GradeStart,
         work, reviews, limits, past
<1>3. /\ stage[w] \notin Averages
      /\ \E st, e : Walks(w, st, e) /\ st \notin Averages /\ st # "review"
      <2>1. stage[w] \notin Averages
            BY DEF Averages, HandIn, Pick, Choose, Give, Others, Grade, HandInBegins,
               GradeStart, TakeUp
      <2>2. \E st, e : /\ stage' = [stage EXCEPT ![w] = st] /\ errand' = [errand EXCEPT ![w] = e]
                       /\ st \in {"idle", "handIn", "grade", "pick", "choose", "give", "others"}
            <3>1. CASE HandIn(w) BY <3>1 DEF HandIn, LayDown, GoOn
            <3>2. CASE Pick(w) \/ Choose(w) BY <3>2 DEF Pick, Choose, NextToPick, GoOn
            <3>3. CASE Give(w) BY <3>3 DEF Give, NextToPick, GoOn
            <3>4. CASE Others(w) BY <3>4 DEF Others, LayDown, GoOn
            <3>5. CASE Grade(w) BY <3>5 DEF Grade, LayDown
            <3>6. CASE \E s \in Student : HandInBegins(w, s) \/ GradeStart(w, s)
                  BY <3>6 DEF HandInBegins, GradeStart, TakeUp
            <3> QED BY <3>1, <3>2, <3>3, <3>4, <3>5, <3>6
      <2> QED BY <1>1, <2>1, <2>2, Walking DEF Averages
<1>4. PICK st, e : Walks(w, st, e) /\ st \notin Averages /\ st # "review" BY <1>3
<1> QED BY <1>2, <1>3, <1>4, MeanQuiet

\* A review is brought, its mark stored, the mean read and written.
LEMMA ReviewKeepsMean ==
  ASSUME MeanInv, WorkInv', NEW w \in Handler,
         \/ \E s, r \in Student : ReviewStart(w, s, r)
         \/ Fail(w)
  PROVE  MeanInv'
<1>1. Formed BY DEF MeanInv, WorkInv
<1>2. CASE \E s, r \in Student : ReviewStart(w, s, r)
      <2>1. PICK s \in Student, r \in Student : ReviewStart(w, s, r) BY <1>2
      <2>2. PICK m : TakeUp(w, "review", [NoJob EXCEPT !.who = s, !.reviewer = r, !.mark = m])
            BY <2>1 DEF ReviewStart
      <2> DEFINE e == [NoJob EXCEPT !.who = s, !.reviewer = r, !.mark = m]
      <2>3. e.who = s /\ e.reviewer = r BY DEF NoJob
      <2> HIDE DEF e
      <2>4. Walks(w, "review", e) /\ stage[w] = "idle" BY <1>1, <2>2, Walking DEF TakeUp, e
      <2>5. UNCHANGED <<total, peerScore, blurred, faults, assigned>>
            BY <2>1 DEF ReviewStart, reviews, past
      <2>6. <<s, r>> \in assigned BY <2>1 DEF ReviewStart, ReviewersOf
      <2> QED BY <2>3, <2>4, <2>5, <2>6, MeanQuiet DEF Averages
<1>3. CASE Fail(w)
      <2>1. Walks(w, "idle", NoJob) BY <1>1, <1>3, Walking DEF Fail, LayDown
      <2>2. UNCHANGED <<total, peerScore, blurred, assigned>> /\ faults' # 0
            BY <1>1, <1>3 DEF Fail, reviews, past, Formed
      <2> QED BY <2>1, <2>2, MeanQuiet DEF Averages
<1> QED BY <1>2, <1>3

LEMMA StoringKeepsMean ==
  ASSUME MeanInv, WorkInv', NEW w \in Handler, Review(w)
  PROVE  MeanInv'
<1>1. Formed /\ Marked /\ stage[w] = "review" BY DEF MeanInv, WorkInv, Review
<1>2. PICK s \in Student, r \in Student : s = errand[w].who /\ r = errand[w].reviewer /\ <<s, r>> \in assigned
      <2>1. <<errand[w].who, errand[w].reviewer>> \in assigned BY <1>1 DEF Marked
      <2>2. assigned \subseteq Student \X Student BY <1>1 DEF Formed
      <2>3. errand[w].who \in Student /\ errand[w].reviewer \in Student BY <2>1, <2>2
      <2> QED BY <2>1, <2>3
<1> DEFINE e == [NoJob EXCEPT !.who = s]
<1>3. e.who = s BY DEF NoJob
<1>4. stage' = [stage EXCEPT ![w] = "mean"] /\ errand' = [errand EXCEPT ![w] = e]
      BY <1>2 DEF Review, GoOn
<1> HIDE DEF e
<1>5. Walks(w, "mean", e) BY <1>1, <1>4, Walking
<1>6. /\ UNCHANGED <<assigned, peerScore, faults>>
      /\ total' = [total EXCEPT ![<<s, r>>] = errand[w].mark]
      /\ blurred' = IF Averaging(w, s) THEN blurred \union {s} ELSE blurred
      BY <1>2 DEF Review, limits
<1>7. Marked' BY <1>1, <1>2, <1>5, <1>6 DEF Marked, Walks
<1>8. ASSUME faults' = 0, NEW t \in Student \ blurred' PROVE Averaged(t)'
      <2>1. Averaged(t) /\ t \in Student BY <1>6, <1>8 DEF MeanInv
      <2>2. CASE t = s
            <3>1. \A v \in Handler \ {w} : ~(errand[v].who = s /\ stage[v] = "meanWrite")
                  BY <1>6, <1>8, <2>2 DEF Averaging
            <3>2. stage'[w] = "mean" /\ errand'[w].who = s BY <1>3, <1>5 DEF Walks
            <3>3. \A v \in Handler : ~(stage'[v] = "meanWrite" /\ errand'[v].who = s)
                  BY <1>5, <3>1, <3>2 DEF Walks
            <3> QED BY <2>2, <3>2, <3>3 DEF Averaged, Averages
      <2>3. CASE t # s
            <3>1. \A q \in Student : total'[<<t, q>>] = total[<<t, q>>] BY <1>1, <1>6, <2>1, <2>3 DEF Marked
            <3>2. MarkersOf(t)' = MarkersOf(t) /\ MeanOf(t)' = MeanOf(t)
                  BY <1>1, <1>7, <2>1, <3>1, MeanStays
            <3>3. /\ \A v \in Handler : stage[v] \in Averages => stage'[v] = stage[v] /\ errand'[v] = errand[v]
                  /\ \A v \in Handler : stage'[v] = "meanWrite" => stage[v] = "meanWrite" /\ errand'[v] = errand[v]
                  BY <1>1, <1>5 DEF Walks, Averages
            <3> QED BY <1>6, <2>1, <3>2, <3>3 DEF Averaged, Averages
      <2> QED BY <2>2, <2>3
<1> QED BY <1>7, <1>8 DEF MeanInv

LEMMA ReadingKeepsMean ==
  ASSUME MeanInv, WorkInv', NEW w \in Handler, MeanRead(w)
  PROVE  MeanInv'
<1>1. Formed /\ Marked /\ stage[w] = "mean" BY DEF MeanInv, WorkInv, MeanRead
<1>2. PICK m : m = MeanOf(errand[w].who) OBVIOUS
<1> DEFINE e == [errand[w] EXCEPT !.mark = m]
<1>3. e.who = errand[w].who /\ e.mark = m BY <1>1 DEF Formed, Fields
<1>4. stage' = [stage EXCEPT ![w] = "meanWrite"] /\ errand' = [errand EXCEPT ![w] = e]
      BY <1>2 DEF MeanRead, GoOn
<1> HIDE DEF e
<1>5. Walks(w, "meanWrite", e) BY <1>1, <1>4, Walking
<1>6. UNCHANGED <<assigned, total, peerScore, blurred, faults>>
      BY DEF MeanRead, reviews, limits, past
<1>7. Marked' BY <1>1, <1>5, <1>6 DEF Marked, Walks
<1>8. ASSUME faults' = 0, NEW t \in Student \ blurred' PROVE Averaged(t)'
      <2>1. Averaged(t) /\ t \in Student BY <1>6, <1>8 DEF MeanInv
      <2>2. MarkersOf(t)' = MarkersOf(t) /\ MeanOf(t)' = MeanOf(t)
            BY <1>1, <1>6, <1>7, <2>1, MeanStays
      <2>3. /\ \A v \in Handler : stage[v] \in Averages => stage'[v] \in Averages /\ errand'[v].who = errand[v].who
            /\ \A v \in Handler \ {w} : stage'[v] = stage[v] /\ errand'[v] = errand[v]
            /\ errand'[w].who = errand[w].who /\ errand'[w].mark = m
            BY <1>1, <1>3, <1>5 DEF Walks, Averages
      <2> QED BY <1>2, <1>6, <2>1, <2>2, <2>3 DEF Averaged
<1> QED BY <1>7, <1>8 DEF MeanInv

LEMMA WritingKeepsMean ==
  ASSUME MeanInv, WorkInv', NEW w \in Handler, MeanWrite(w)
  PROVE  MeanInv'
<1>1. Formed /\ Marked /\ stage[w] = "meanWrite" BY DEF MeanInv, WorkInv, MeanWrite
<1>2. PICK s \in Student : s = errand[w].who BY <1>1 DEF Formed, Bound
<1>3. Walks(w, "idle", NoJob) BY <1>1, Walking DEF MeanWrite, LayDown
<1>4. UNCHANGED <<assigned, total, blurred, faults>> /\ peerScore' = [peerScore EXCEPT ![s] = errand[w].mark]
      BY <1>2 DEF MeanWrite, limits, past
<1>5. Marked' BY <1>1, <1>3, <1>4 DEF Marked, Walks
<1>6. ASSUME faults' = 0, NEW t \in Student \ blurred' PROVE Averaged(t)'
      <2>1. Averaged(t) /\ t \in Student BY <1>4, <1>6 DEF MeanInv
      <2>2. MarkersOf(t)' = MarkersOf(t) /\ MeanOf(t)' = MeanOf(t)
            BY <1>1, <1>4, <1>5, <2>1, MeanStays
      <2>3. /\ \A v \in Handler \ {w} : stage'[v] = stage[v] /\ errand'[v] = errand[v]
            /\ stage'[w] = "idle"
            BY <1>3 DEF Walks
      <2>4. CASE t = s
            <3>1. peerScore'[t] = MeanOf(t) BY <1>1, <1>2, <1>4, <2>1, <2>4 DEF Averaged, Marked
            <3> QED BY <2>1, <2>2, <2>3, <3>1 DEF Averaged
      <2>5. CASE t # s
            <3>1. peerScore'[t] = peerScore[t] BY <1>1, <1>4, <2>1, <2>5 DEF Marked
            <3> QED BY <1>2, <2>1, <2>2, <2>3, <2>5, <3>1 DEF Averaged, Averages
      <2> QED BY <2>4, <2>5
<1> QED BY <1>5, <1>6 DEF MeanInv

LEMMA MeanBegins == ASSUME CourseworkInit PROVE MeanInv
<1>1. WorkInv BY WorkBegins
<1>2. \A w \in Handler : stage[w] = "idle" BY DEF CourseworkInit
<1>3. Marked BY <1>2 DEF Marked, CourseworkInit, Pair
<1>4. \A s \in Student : MarkersOf(s) = {} BY <1>3, DoneIsMarked DEF CourseworkInit, Pair
<1> QED BY <1>1, <1>2, <1>3, <1>4 DEF MeanInv, Averaged

LEMMA MeanInductive ==
  ASSUME MeanInv, [CourseworkNext]_courseworkVars
  PROVE  MeanInv'
<1>1. WorkInv' BY WorkInductive DEF MeanInv
<1>2. ASSUME UNCHANGED <<assigned, total, peerScore, stage, errand, faults, blurred>> PROVE MeanInv'
      <2>1. Marked /\ Marked' BY <1>2 DEF MeanInv, Marked
      <2>2. \A s \in Student : MarkersOf(s)' = MarkersOf(s) /\ MeanOf(s)' = MeanOf(s)
            BY <1>2, <2>1, MeanStays
      <2>3. ASSUME faults' = 0, NEW s \in Student \ blurred' PROVE Averaged(s)'
            <3>1. Averaged(s) BY <1>2, <2>3 DEF MeanInv
            <3> QED BY <1>2, <2>2, <3>1 DEF Averaged
      <2> QED BY <1>1, <2>1, <2>3 DEF MeanInv
<1>3. CASE UNCHANGED courseworkVars
      BY <1>2, <1>3 DEF courseworkVars, work, reviews, requests, limits, past
<1>4. CASE DuePasses
      BY <1>2, <1>4 DEF DuePasses, reviews, requests, limits, past
<1>5. CASE \E s \in Student : \/ HandInRefused(s) \/ GradeTooHigh(s)
                              \/ \E r \in Student : ReviewRepeated(s, r)
      <2>1. UNCHANGED courseworkVars BY <1>5 DEF HandInRefused, GradeTooHigh, ReviewRepeated
      <2> QED BY <1>3, <2>1
<1>6. ASSUME NEW w \in Handler,
             \/ Advance(w) \/ Fail(w)
             \/ \E s \in Student : \/ HandInBegins(w, s) \/ GradeStart(w, s)
                                   \/ \E r \in Student : ReviewStart(w, s, r)
      PROVE  MeanInv'
      <2>1. CASE \/ HandIn(w) \/ Pick(w) \/ Choose(w) \/ Give(w) \/ Others(w) \/ Grade(w)
                 \/ \E s \in Student : HandInBegins(w, s) \/ GradeStart(w, s)
            BY <1>1, <2>1, OtherWorkKeepsMean
      <2>2. CASE Fail(w) \/ \E s, r \in Student : ReviewStart(w, s, r)
            BY <1>1, <2>2, ReviewKeepsMean
      <2>3. CASE Review(w) BY <1>1, <2>3, StoringKeepsMean
      <2>4. CASE MeanRead(w) BY <1>1, <2>4, ReadingKeepsMean
      <2>5. CASE MeanWrite(w) BY <1>1, <2>5, WritingKeepsMean
      <2> QED BY <1>6, <2>1, <2>2, <2>3, <2>4, <2>5 DEF Advance
<1> QED BY <1>3, <1>4, <1>5, <1>6 DEF CourseworkNext

-----------------------------------------------------------------------------
(* Sums, as the folds of the community modules define them *)

First(S) == CHOOSE x \in S : TRUE

\* The sum over a subset, from the sums over those it has without one element.
Term(f, h, s) == IF s = {} THEN 0 ELSE f[First(s)] + h[s \ {First(s)}]
Partial(S, f) == CHOOSE h : h = [s \in SUBSET S |-> Term(f, h, s)]

\* A sum that is computed for all subsets as large as U.
Reaches(S, f, U) ==
  \E h : /\ h = [s \in SUBSET S |-> h[s]]
         /\ \A s \in SUBSET S : Cardinality(s) <= Cardinality(U) => h[s] = Term(f, h, s)

\* Of the subsets of a finite set that lack something there is one without a
\* smaller one.
LEMMA LeastSubset ==
  ASSUME NEW S, IsFiniteSet(S), NEW T, T \subseteq SUBSET S, T # {}
  PROVE  \E U \in T : \A x \in U : U \ {x} \notin T
<1>1. T \subseteq FiniteSubsetsOf(S) BY FS_Subset DEF FiniteSubsetsOf
<1>2. IsWellFoundedOn(StrictSubsetOrdering(S), FiniteSubsetsOf(S))
      BY FS_StrictSubsetOrderingWellFounded
<1>3. PICK U \in T : \A V \in T : <<V, U>> \notin StrictSubsetOrdering(S) BY <1>1, <1>2, WFMin
<1>4. ASSUME NEW x \in U, U \ {x} \in T PROVE FALSE
      <2>1. U \subseteq S /\ U \ {x} \subseteq S /\ U \ {x} # U BY <1>4
      <2> QED BY <1>3, <1>4, <2>1 DEF StrictSubsetOrdering
<1> QED BY <1>4

\* What a subset has without one element.
LEMMA Without ==
  ASSUME NEW S, IsFiniteSet(S), NEW s \in SUBSET S
  PROVE  /\ IsFiniteSet(s) /\ Cardinality(s) \in Nat /\ (Cardinality(s) = 0 <=> s = {})
         /\ \A x \in s : s \ {x} \in SUBSET S /\ Cardinality(s \ {x}) = Cardinality(s) - 1
         /\ s # {} => First(s) \in s
<1>1. IsFiniteSet(s) BY FS_Subset
<1>2. Cardinality(s) \in Nat /\ (Cardinality(s) = 0 <=> s = {}) BY <1>1, FS_CardinalityType, FS_EmptySet
<1>3. \A x \in s : Cardinality(s \ {x}) = Cardinality(s) - 1 BY <1>1, FS_RemoveElement
<1>4. s # {} => First(s) \in s BY DEF First
<1> QED BY <1>1, <1>2, <1>3, <1>4

\* There is a sum for every size, and so the recursion of the folds has a value.
LEMMA SumsReach ==
  ASSUME NEW S, IsFiniteSet(S), NEW f, NEW W \in SUBSET S
  PROVE  Reaches(S, f, W)
<1> DEFINE T == {U \in SUBSET S : ~Reaches(S, f, U)}
<1>1. T = {}
      <2> SUFFICES ASSUME T # {} PROVE FALSE OBVIOUS
      <2>1. PICK U \in T : \A x \in U : U \ {x} \notin T
            <3>1. T \subseteq SUBSET S OBVIOUS
            <3> HIDE DEF T
            <3> QED BY <3>1, LeastSubset
      <2>2. U \in SUBSET S OBVIOUS
      <2>3. CASE U = {}
            <3> DEFINE h == [s \in SUBSET S |-> 0]
            <3>1. \A s \in SUBSET S : Cardinality(s) <= Cardinality(U) => s = {}
                  BY <2>2, <2>3, Without
            <3>2. \A s \in SUBSET S : Cardinality(s) <= Cardinality(U) => h[s] = Term(f, h, s)
                  BY <3>1 DEF Term
            <3>3. h = [s \in SUBSET S |-> h[s]] OBVIOUS
            <3> HIDE DEF h
            <3> QED BY <3>2, <3>3 DEF Reaches
      <2>4. CASE U # {}
            <3>1. PICK x \in U : TRUE BY <2>4
            <3> DEFINE V == U \ {x}
            <3>2. V \in SUBSET S /\ Cardinality(V) = Cardinality(U) - 1 /\ Cardinality(U) \in Nat
                  BY <2>2, <3>1, Without
            <3>3. Reaches(S, f, V) BY <2>1, <3>1, <3>2
            <3> HIDE DEF V
            <3>4. PICK h : \A s \in SUBSET S : Cardinality(s) <= Cardinality(V) => h[s] = Term(f, h, s)
                  BY <3>3 DEF Reaches
            <3> DEFINE g == [s \in SUBSET S |-> IF Cardinality(s) <= Cardinality(V) THEN h[s] ELSE Term(f, h, s)]
            <3>5. g = [s \in SUBSET S |-> g[s]] OBVIOUS
            <3>6. ASSUME NEW s \in SUBSET S, Cardinality(s) <= Cardinality(U) PROVE g[s] = Term(f, g, s)
                  <4>1. g[s] = Term(f, h, s) BY <3>4
                  <4> DEFINE r == s \ {First(s)}
                  <4>2. ASSUME s # {} PROVE g[r] = h[r]
                        <5>1. r \in SUBSET S /\ Cardinality(r) = Cardinality(s) - 1 /\ Cardinality(s) \in Nat
                              BY <4>2, Without
                        <5>2. Cardinality(r) <= Cardinality(V) BY <3>2, <3>6, <5>1
                        <5> QED BY <5>1, <5>2
                  <4> HIDE DEF g
                  <4> QED BY <4>1, <4>2 DEF Term
            <3> HIDE DEF g
            <3>7. Reaches(S, f, U) BY <3>5, <3>6 DEF Reaches
            <3> QED BY <3>7
      <2> QED BY <2>3, <2>4
<1> QED BY <1>1

LEMMA PartialSums ==
  ASSUME NEW S, IsFiniteSet(S), NEW f, NEW s \in SUBSET S
  PROVE  Partial(S, f)[s] = Term(f, Partial(S, f), s)
<1>1. PICK h : /\ h = [t \in SUBSET S |-> h[t]]
               /\ \A t \in SUBSET S : Cardinality(t) <= Cardinality(S) => h[t] = Term(f, h, t)
      <2>1. Reaches(S, f, S) BY SumsReach
      <2> QED BY <2>1 DEF Reaches
<1>2. \A t \in SUBSET S : Cardinality(t) <= Cardinality(S) BY FS_Subset
<1>3. h = [t \in SUBSET S |-> Term(f, h, t)] BY <1>1, <1>2
<1> DEFINE p == Partial(S, f)
<1>4. p = [t \in SUBSET S |-> Term(f, p, t)] BY <1>3 DEF Partial
<1> HIDE DEF p
<1>5. p[s] = Term(f, p, s) BY <1>4
<1> QED BY <1>5 DEF p

\* A sum of numbers is a number.
LEMMA SumsOfNumbers ==
  ASSUME NEW S, IsFiniteSet(S), NEW f \in [S -> Int]
  PROVE  Partial(S, f)[S] \in Int
<1> DEFINE T == {U \in SUBSET S : Partial(S, f)[U] \notin Int}
<1>1. T = {}
      <2> SUFFICES ASSUME T # {} PROVE FALSE OBVIOUS
      <2>1. PICK U \in T : \A x \in U : U \ {x} \notin T
            <3>1. T \subseteq SUBSET S OBVIOUS
            <3> HIDE DEF T
            <3> QED BY <3>1, LeastSubset
      <2>2. Partial(S, f)[U] = Term(f, Partial(S, f), U) BY PartialSums
      <2>3. U # {} => First(U) \in U /\ U \ {First(U)} \in SUBSET S BY Without
      <2>4. U # {} => Partial(S, f)[U \ {First(U)}] \in Int /\ f[First(U)] \in Int BY <2>1, <2>3
      <2> QED BY <2>2, <2>4 DEF Term
<1> QED BY <1>1

\* A sum of numbers within a bound is within as many times the bound.
LEMMA SumsWithin ==
  ASSUME NEW S, IsFiniteSet(S), NEW M \in Nat, NEW f \in [S -> 0..M]
  PROVE  Partial(S, f)[S] \in 0..(M * Cardinality(S))
<1> DEFINE T == {U \in SUBSET S : Partial(S, f)[U] \notin 0..(M * Cardinality(U))}
<1>1. T = {}
      <2> SUFFICES ASSUME T # {} PROVE FALSE OBVIOUS
      <2>1. PICK U \in T : \A x \in U : U \ {x} \notin T
            <3>1. T \subseteq SUBSET S OBVIOUS
            <3> HIDE DEF T
            <3> QED BY <3>1, LeastSubset
      <2>2. Partial(S, f)[U] = Term(f, Partial(S, f), U) BY PartialSums
      <2>3. Cardinality(U) \in Nat /\ (U = {} => Cardinality(U) = 0) BY Without
      <2>4. CASE U = {} BY <2>2, <2>3, <2>4 DEF Term
      <2>5. CASE U # {}
            <3> DEFINE V == U \ {First(U)}
            <3>1. First(U) \in U /\ V \in SUBSET S /\ Cardinality(V) = Cardinality(U) - 1
                  BY <2>5, Without
            <3>2. Partial(S, f)[V] \in 0..(M * Cardinality(V)) /\ f[First(U)] \in 0..M BY <2>1, <3>1
            <3>3. Partial(S, f)[U] = f[First(U)] + Partial(S, f)[V] BY <2>2, <2>5 DEF Term
            <3>4. M * Cardinality(U) = M * Cardinality(V) + M BY <2>3, <3>1
            <3>5. M * Cardinality(V) \in Nat /\ M * Cardinality(U) \in Nat
                  <4>1. Cardinality(V) \in Nat BY <3>1, Without
                  <4>2. \A a, b \in Nat : a * b \in Nat OBVIOUS
                  <4> QED BY <2>3, <4>1, <4>2
            <3> HIDE DEF V
            <3>6. Partial(S, f)[U] \in 0..(M * Cardinality(U)) BY <3>2, <3>3, <3>4, <3>5
            <3> QED BY <3>6
      <2> QED BY <2>4, <2>5
<1> QED BY <1>1

\* The sum of a function is the last of its partial sums.
LEMMA SumIsPartial == ASSUME NEW f PROVE SumFunction(f) = Partial(DOMAIN f, f)[DOMAIN f]
  BY DEF SumFunction, SumFunctionOnSet, FoldFunctionOnSet, MapThenFoldSet, Partial, Term, First

\* The mean of marks, rounded, is within their bound.
LEMMA MeanWithin ==
  ASSUME NEW n \in Nat \ {0}, NEW M \in Nat, NEW k \in 0..(M * n)
  PROVE  (2 * k + n) \div (2 * n) \in 0..M
<1> DEFINE q == (2 * k + n) \div (2 * n)
<1>1. q \in Int /\ 2 * n * q <= 2 * k + n /\ 2 * k + n < 2 * n * q + 2 * n OBVIOUS
<1> HIDE DEF q
<1>2. q <= M
      <2> SUFFICES ASSUME q >= M + 1 PROVE FALSE BY <1>1
      <2>1. n * q >= n * (M + 1) BY <1>1
      <2> QED BY <1>1, <2>1
<1>3. q >= 0
      <2> SUFFICES ASSUME q <= -1 PROVE FALSE BY <1>1
      <2>1. n * q <= n * (-1) BY <1>1
      <2> QED BY <1>1, <2>1
<1> QED BY <1>1, <1>2, <1>3 DEF q

-----------------------------------------------------------------------------
(* What a mark is worth *)

LEMMA Clamped ==
  ASSUME NEW n \in Int, NEW high \in Nat
  PROVE  Clamp(0, n, high) \in 0..high
<1> DEFINE low == Min({n, high})
<1>1. low \in Int /\ low <= high
      <2>1. high \in Int OBVIOUS
      <2>2. low \in {n, high} /\ low <= high BY <2>1, LesserOfTwo
      <2> HIDE DEF low
      <2> QED BY <2>1, <2>2
<1> HIDE DEF low
<1>2. \E x \in {0, low} : \A y \in {0, low} : x >= y BY <1>1
<1> DEFINE top == Max({0, low})
<1>3. top \in {0, low} /\ \A y \in {0, low} : top >= y BY <1>2 DEF Max
<1> HIDE DEF top
<1>4. top \in 0..high BY <1>1, <1>3
<1> QED BY <1>4 DEF Clamp, top, low

\* scoreAgainstRubric: whatever is given, the total is a mark.
LEMMA TotalsAreMarks == Totals \subseteq Mark
<1>0. ASSUME NEW n \in Given PROVE ScoreWithoutRubric(n) \in Mark
      <2>1. MaxScore \in Nat /\ n \in Int BY CourseworkAssumption DEF Given
      <2>2. Clamp(0, n, MaxScore) \in 0..MaxScore BY <2>1, Clamped
      <2> QED BY <2>2 DEF ScoreWithoutRubric, Mark
<1> SUFFICES ASSUME NEW g \in [DOMAIN Rubric -> (-1)..(MaxScore + 1)]
             PROVE  ScoreAgainstRubric(g) \in Mark
    BY <1>0 DEF Totals, Given
<1> DEFINE D == DOMAIN Rubric
           f == [c \in D |-> Clamp(0, g[c], Rubric[c])]
           k == MapThenSumSet(LAMBDA c : Clamp(0, g[c], Rubric[c]), D)
<1>1. f \in [D -> Int]
      <2> SUFFICES ASSUME NEW c \in D PROVE Clamp(0, g[c], Rubric[c]) \in Int OBVIOUS
      <2>1. g[c] \in Int /\ Rubric[c] \in Nat BY CourseworkAssumption
      <2> QED BY <2>1, Clamped
<1>2. k = Partial(D, f)[D]
      <2> DEFINE given(s) == Clamp(0, g[First(s)], Rubric[First(s)])
                 sums(h) == [s \in SUBSET D |-> IF s = {} THEN 0 ELSE given(s) + h[s \ {First(s)}]]
      <2>1. ASSUME NEW h, NEW s \in SUBSET D, s # {} PROVE f[First(s)] = given(s)
            <3>1. First(s) \in D BY <2>1 DEF First
            <3> QED BY <3>1
      <2>2. \A h : sums(h) = [s \in SUBSET D |-> Term(f, h, s)] BY <2>1 DEF Term
      <2>3. k = (CHOOSE h : h = sums(h))[D] BY DEF MapThenSumSet, MapThenFoldSet, First
      <2> HIDE DEF sums, k, f
      <2> QED BY <2>2, <2>3 DEF Partial
<1>3. IsFiniteSet(D) BY CourseworkAssumption
<1> HIDE DEF f, D
<1>4. Partial(D, f)[D] \in Int BY <1>1, <1>3, SumsOfNumbers
<1>5. ScoreAgainstRubric(g) = Clamp(0, k, MaxScore) BY DEF ScoreAgainstRubric, D
<1> HIDE DEF k
<1>6. MaxScore \in Nat /\ k \in Int BY <1>2, <1>4, CourseworkAssumption
<1>7. Clamp(0, k, MaxScore) \in 0..MaxScore BY <1>6, Clamped
<1> QED BY <1>5, <1>7 DEF Mark

\* recomputePeerScore: the mean of marks is a mark.
LEMMA MeansAreMarks ==
  ASSUME NEW s \in Student, MarkersOf(s) # {}, \A r \in MarkersOf(s) : total[<<s, r>>] \in Mark
  PROVE  MeanOf(s) \in Mark
<1> DEFINE D == MarkersOf(s)
           f == MarksOf(s)
<1>1. f \in [D -> 0..MaxScore] /\ DOMAIN f = D BY DEF MarksOf, Mark
<1>2. D \subseteq Student BY DEF MarkersOf, ReviewersOf
<1>3. IsFiniteSet(D) /\ Cardinality(D) \in Nat BY <1>2, StudentsAreFew
<1>4. Cardinality(D) # 0 BY <1>3, FS_EmptySet
<1> HIDE DEF D, f
<1>5. MaxScore \in Nat BY CourseworkAssumption
<1>6. SumFunction(f) \in 0..(MaxScore * Cardinality(D)) BY <1>1, <1>3, <1>5, SumIsPartial, SumsWithin
<1>7. MeanOf(s) = (2 * SumFunction(f) + Cardinality(D)) \div (2 * Cardinality(D))
      BY <1>1 DEF MeanOf, Mean, f
<1> QED BY <1>3, <1>4, <1>5, <1>6, <1>7, MeanWithin DEF Mark

\* What the rows hold and what a request brings or has computed are marks, and
\* a mean is taken of something.
Worthy ==
  /\ PeerScoreWithinWorth
  /\ \A p \in Pair : total[p] # Nil => total[p] \in Mark
  /\ \A w \in Handler :
       /\ stage[w] \in {"review", "meanWrite"} => errand[w].mark \in Mark
       /\ stage[w] = "review" => errand[w].reviewer \in Student
       /\ stage[w] = "mean" => MarkersOf(errand[w].who) # {}

Stages == {"idle", "handIn", "pick", "choose", "give", "others", "grade", "review", "mean", "meanWrite"}

\* A request takes up, or goes on with, what is typed.
LEMMA ErrandsTyped ==
  ASSUME CourseworkTypeOK, NEW w \in Handler, NEW st \in Stages, NEW e \in Job, st = "idle" <=> e.who = Nil,
         stage' = [stage EXCEPT ![w] = st] /\ errand' = [errand EXCEPT ![w] = e]
  PROVE  /\ stage' \in [Handler -> Stages] /\ errand' \in [Handler -> Job]
         /\ \A v \in Handler : stage'[v] = "idle" <=> errand'[v].who = Nil
         /\ stage'[w] = st /\ errand'[w] = e
         /\ \A v \in Handler \ {w} : stage'[v] = stage[v] /\ errand'[v] = errand[v]
<1>1. stage \in [Handler -> Stages] /\ errand \in [Handler -> Job] BY DEF CourseworkTypeOK, Stages
<1>2. \A v \in Handler : stage[v] = "idle" <=> errand[v].who = Nil BY DEF CourseworkTypeOK
<1> QED BY <1>1, <1>2

\* The errands there are.
LEMMA ErrandsMade ==
  ASSUME NEW s \in Student
  PROVE  /\ NoJob \in Job /\ NoJob.who = Nil /\ s # Nil
         /\ LET e == [NoJob EXCEPT !.who = s] IN e \in Job /\ e.who = s
         /\ \A todo \in SUBSET Student :
              LET e == [NoJob EXCEPT !.who = s, !.todo = todo] IN e \in Job /\ e.who = s
<1>1. s # Nil BY CourseworkAssumption
<1> QED BY <1>1 DEF NoJob, Job

LEMMA ErrandsChanged ==
  ASSUME NEW e \in Job
  PROVE  /\ \A P \in SUBSET Student : [e EXCEPT !.picked = P] \in Job /\ [e EXCEPT !.picked = P].who = e.who
         /\ \A m \in Int : /\ [e EXCEPT !.mark = m] \in Job /\ [e EXCEPT !.mark = m].who = e.who
                           /\ [e EXCEPT !.mark = m].mark = m
  BY DEF Job

\* A step that stores no mark.
LEMMA WorthyQuiet ==
  ASSUME CourseworkTypeOK, Worthy, NEW w \in Handler, NEW st \in Stages, NEW e \in Job, st = "idle" <=> e.who = Nil,
         stage' = [stage EXCEPT ![w] = st] /\ errand' = [errand EXCEPT ![w] = e],
         UNCHANGED <<total, peerScore>>, assigned \subseteq assigned', assigned' \subseteq Pair,
         st \in {"review", "meanWrite"} => e.mark \in Mark, st = "review" => e.reviewer \in Student,
         st = "mean" => MarkersOf(e.who) # {},
         status' \in [Student -> {"none", "SUBMITTED", "GRADED"}], closed' \in BOOLEAN,
         handIns' \in Nat, gradings' \in Nat, reviewings' \in Nat, faults' \in Nat,
         regraded' \subseteq Student, doubled' \subseteq Student, blurred' \subseteq Student
  PROVE  CourseworkTypeOK' /\ Worthy'
<1>1. /\ stage' \in [Handler -> Stages] /\ errand' \in [Handler -> Job]
      /\ \A v \in Handler : stage'[v] = "idle" <=> errand'[v].who = Nil
      /\ stage'[w] = st /\ errand'[w] = e
      /\ \A v \in Handler \ {w} : stage'[v] = stage[v] /\ errand'[v] = errand[v]
      BY ErrandsTyped
<1>2. CourseworkTypeOK' BY <1>1 DEF CourseworkTypeOK, Stages
<1>3. \A x : MarkersOf(x) # {} => {r \in Student : <<x, r>> \in assigned' /\ total'[<<x, r>>] # Nil} # {}
      BY DEF MarkersOf, ReviewersOf
<1>4. ASSUME NEW v \in Handler
      PROVE  /\ stage'[v] \in {"review", "meanWrite"} => errand'[v].mark \in Mark
             /\ stage'[v] = "review" => errand'[v].reviewer \in Student
             /\ stage'[v] = "mean" =>
                  {r \in Student : <<errand'[v].who, r>> \in assigned' /\ total'[<<errand'[v].who, r>>] # Nil} # {}
      <2>1. CASE v = w
            <3>1. stage'[v] = st /\ errand'[v] = e BY <1>1, <2>1
            <3>2. st = "mean" => {r \in Student : <<e.who, r>> \in assigned' /\ total'[<<e.who, r>>] # Nil} # {}
                  BY <1>3
            <3> QED BY <3>1, <3>2
      <2>2. CASE v # w
            <3>1. stage'[v] = stage[v] /\ errand'[v] = errand[v] BY <1>1, <2>2
            <3> QED BY <1>3, <3>1 DEF Worthy
      <2> QED BY <2>1, <2>2
<1>5. PeerScoreWithinWorth' BY DEF Worthy, PeerScoreWithinWorth
<1>6. \A p \in Pair : total'[p] # Nil => total'[p] \in Mark BY DEF Worthy
<1>7. ASSUME NEW v \in Handler, stage'[v] = "mean" PROVE MarkersOf(errand[v].who)' # {}
      BY <1>4, <1>7 DEF MarkersOf, ReviewersOf
<1> QED BY <1>2, <1>4, <1>5, <1>6, <1>7 DEF Worthy, Pair

LEMMA MarksAreNumbers == Mark \subseteq Int /\ Nil \notin Mark
<1>1. Mark \subseteq Int BY CourseworkAssumption DEF Mark
<1> QED BY <1>1, CourseworkAssumption

\* Handing in and grading.
LEMMA HandingIsWorthy ==
  ASSUME CourseworkTypeOK, Worthy, NEW w \in Handler,
         \/ HandIn(w) \/ Grade(w) \/ Fail(w)
         \/ \E s \in Student : HandInBegins(w, s) \/ GradeStart(w, s)
  PROVE  CourseworkTypeOK' /\ Worthy'
<1>1. stage[w] # "idle" => errand[w].who \in Student /\ errand[w] \in Job
      BY DEF CourseworkTypeOK, Job
<1>2. CASE HandIn(w)
      <2>1. PICK s \in Student : s = errand[w].who BY <1>1, <1>2 DEF HandIn
      <2>2. PICK st \in {"idle", "pick"}, e \in Job :
              /\ st = "idle" <=> e.who = Nil
              /\ stage' = [stage EXCEPT ![w] = st] /\ errand' = [errand EXCEPT ![w] = e]
            <3> DEFINE d == [NoJob EXCEPT !.who = s, !.todo = Student]
            <3>1. d \in Job /\ d.who = s /\ s # Nil /\ NoJob \in Job /\ NoJob.who = Nil BY ErrandsMade
            <3>2. CASE ReviewCount = 0 BY <1>2, <3>1, <3>2 DEF HandIn, LayDown
            <3>3. CASE ReviewCount # 0
                  <4>1. stage' = [stage EXCEPT ![w] = "pick"] /\ errand' = [errand EXCEPT ![w] = d]
                        BY <1>2, <2>1, <3>3 DEF HandIn, GoOn
                  <4> HIDE DEF d
                  <4> QED BY <3>1, <4>1
            <3> QED BY <3>2, <3>3
      <2>3. /\ status' = [status EXCEPT ![s] = "SUBMITTED"]
            /\ UNCHANGED <<closed, assigned, total, peerScore, handIns, gradings, reviewings,
                           faults, regraded, doubled, blurred>>
            BY <1>2, <2>1 DEF HandIn, reviews, limits, past
      <2>4. status' \in [Student -> {"none", "SUBMITTED", "GRADED"}] BY <2>1, <2>3 DEF CourseworkTypeOK
      <2>5. st \in Stages /\ st \notin {"review", "mean", "meanWrite"} BY <2>2 DEF Stages
      <2>6. /\ assigned \subseteq assigned' /\ assigned' \subseteq Pair /\ closed' \in BOOLEAN
            /\ handIns' \in Nat /\ gradings' \in Nat /\ reviewings' \in Nat /\ faults' \in Nat
            /\ regraded' \subseteq Student /\ doubled' \subseteq Student /\ blurred' \subseteq Student
            BY <2>3 DEF CourseworkTypeOK
      <2> QED BY <2>2, <2>3, <2>4, <2>5, <2>6, WorthyQuiet
<1>3. CASE Grade(w)
      <2>1. PICK s \in Student : s = errand[w].who BY <1>1, <1>3 DEF Grade
      <2>2. NoJob \in Job /\ NoJob.who = Nil BY ErrandsMade
      <2>3. /\ status' = [status EXCEPT ![s] = "GRADED"]
            /\ regraded' \subseteq regraded \union {s}
            /\ stage' = [stage EXCEPT ![w] = "idle"] /\ errand' = [errand EXCEPT ![w] = NoJob]
            /\ UNCHANGED <<closed, assigned, total, peerScore, handIns, gradings, reviewings,
                           faults, doubled, blurred>>
            BY <1>3, <2>1 DEF Grade, LayDown, reviews, limits
      <2>4. status' \in [Student -> {"none", "SUBMITTED", "GRADED"}] BY <2>1, <2>3 DEF CourseworkTypeOK
      <2>5. /\ assigned \subseteq assigned' /\ assigned' \subseteq Pair /\ closed' \in BOOLEAN
            /\ handIns' \in Nat /\ gradings' \in Nat /\ reviewings' \in Nat /\ faults' \in Nat
            /\ regraded' \subseteq Student /\ doubled' \subseteq Student /\ blurred' \subseteq Student
            BY <2>1, <2>3 DEF CourseworkTypeOK
      <2>6. "idle" \in Stages BY DEF Stages
      <2> QED BY <2>2, <2>3, <2>4, <2>5, <2>6, WorthyQuiet
<1>4. CASE Fail(w)
      <2>1. NoJob \in Job /\ NoJob.who = Nil BY <1>1, <1>4, ErrandsMade DEF Fail
      <2>2. /\ stage' = [stage EXCEPT ![w] = "idle"] /\ errand' = [errand EXCEPT ![w] = NoJob]
            /\ faults' = faults + 1
            /\ UNCHANGED <<status, closed, assigned, total, peerScore, handIns, gradings,
                           reviewings, regraded, doubled, blurred>>
            BY <1>4 DEF Fail, LayDown, work, reviews, past
      <2>3. /\ assigned \subseteq assigned' /\ assigned' \subseteq Pair /\ closed' \in BOOLEAN
            /\ handIns' \in Nat /\ gradings' \in Nat /\ reviewings' \in Nat /\ faults' \in Nat
            /\ regraded' \subseteq Student /\ doubled' \subseteq Student /\ blurred' \subseteq Student
            /\ status' \in [Student -> {"none", "SUBMITTED", "GRADED"}]
            BY <2>2 DEF CourseworkTypeOK
      <2>4. "idle" \in Stages BY DEF Stages
      <2> QED BY <2>1, <2>2, <2>3, <2>4, WorthyQuiet
<1>5. CASE \E s \in Student : HandInBegins(w, s) \/ GradeStart(w, s)
      <2>1. PICK s \in Student : HandInBegins(w, s) \/ GradeStart(w, s) BY <1>5
      <2> DEFINE e == [NoJob EXCEPT !.who = s]
      <2>2. e \in Job /\ e.who = s /\ s # Nil BY ErrandsMade
      <2>3. /\ \E st \in {"handIn", "grade"} : stage' = [stage EXCEPT ![w] = st]
            /\ errand' = [errand EXCEPT ![w] = e]
            /\ handIns' \in {handIns, handIns + 1} /\ gradings' \in {gradings, gradings + 1}
            /\ UNCHANGED <<status, closed, assigned, total, peerScore, reviewings, faults,
                           regraded, doubled, blurred>>
            BY <2>1 DEF HandInBegins, GradeStart, TakeUp, work, reviews, past
      <2> HIDE DEF e
      <2>4. PICK st \in Stages : st \in {"handIn", "grade"} /\ stage' = [stage EXCEPT ![w] = st]
            BY <2>3 DEF Stages
      <2>5. /\ assigned \subseteq assigned' /\ assigned' \subseteq Pair /\ closed' \in BOOLEAN
            /\ handIns' \in Nat /\ gradings' \in Nat /\ reviewings' \in Nat /\ faults' \in Nat
            /\ regraded' \subseteq Student /\ doubled' \subseteq Student /\ blurred' \subseteq Student
            /\ status' \in [Student -> {"none", "SUBMITTED", "GRADED"}]
            BY <2>3 DEF CourseworkTypeOK
      <2> QED BY <2>2, <2>3, <2>4, <2>5, WorthyQuiet
<1> QED BY <1>2, <1>3, <1>4, <1>5

\* Finding reviewers.
LEMMA PickingIsWorthy ==
  ASSUME CourseworkTypeOK, Worthy, NEW w \in Handler, Pick(w) \/ Choose(w) \/ Give(w) \/ Others(w)
  PROVE  CourseworkTypeOK' /\ Worthy'
<1>1. PICK s \in Student : s = errand[w].who
      BY DEF CourseworkTypeOK, Job, Pick, Choose, Give, Others
<1>2. errand[w] \in Job /\ stage[w] # "idle" BY DEF CourseworkTypeOK, Pick, Choose, Give, Others
<1>3. s # Nil /\ NoJob \in Job /\ NoJob.who = Nil BY ErrandsMade
<1>4. PICK st \in {"idle", "pick", "choose", "give", "others"}, e \in Job :
        /\ st = "idle" <=> e.who = Nil
        /\ stage' = [stage EXCEPT ![w] = st] /\ errand' = [errand EXCEPT ![w] = e]
      <2> DEFINE d(P) == [errand[w] EXCEPT !.picked = P]
      <2>1. \A P \in SUBSET Student : d(P) \in Job /\ d(P).who = s BY <1>1, <1>2, ErrandsChanged
      <2>2. NextToPick(w) =>
              stage' = [stage EXCEPT ![w] = "others"] /\ errand' = [errand EXCEPT ![w] = d({})]
            BY DEF NextToPick, GoOn
      <2> HIDE DEF d
      <2>3. CASE Give(w) BY <1>3, <2>1, <2>2, <2>3 DEF Give
      <2>4. CASE Pick(w) \/ Choose(w)
            <3>1. \/ NextToPick(w)
                  \/ \E P \in SUBSET Student, next \in {"choose", "give"} :
                       stage' = [stage EXCEPT ![w] = next] /\ errand' = [errand EXCEPT ![w] = d(P)]
                  BY <2>4 DEF Pick, Choose, GoOn, d, ReviewersOf
            <3> QED BY <1>3, <2>1, <2>2, <3>1
      <2>5. CASE Others(w)
            <3>1. \/ stage' = [stage EXCEPT ![w] = "idle"] /\ errand' = [errand EXCEPT ![w] = NoJob]
                  \/ \E o \in Student, todo \in SUBSET Student :
                       /\ stage' = [stage EXCEPT ![w] = "pick"]
                       /\ errand' = [errand EXCEPT ![w] = [NoJob EXCEPT !.who = o, !.todo = todo]]
                  <4> DEFINE rest == IF errand[w].todo = Student THEN Submitted \ {s} ELSE errand[w].todo
                  <4>1. rest \subseteq Student BY <1>2 DEF Job, Submitted
                  <4>2. \/ LayDown(w)
                        \/ \E o \in rest : GoOn(w, "pick", [NoJob EXCEPT !.who = o, !.todo = rest \ {o}])
                        BY <1>1, <2>5 DEF Others
                  <4> HIDE DEF rest
                  <4>3. CASE LayDown(w) BY <4>3 DEF LayDown
                  <4>4. CASE \E o \in rest : GoOn(w, "pick", [NoJob EXCEPT !.who = o, !.todo = rest \ {o}])
                        <5>1. PICK o \in rest : GoOn(w, "pick", [NoJob EXCEPT !.who = o, !.todo = rest \ {o}])
                              BY <4>4
                        <5>2. o \in Student /\ rest \ {o} \in SUBSET Student BY <4>1
                        <5> QED BY <5>1, <5>2 DEF GoOn
                  <4> QED BY <4>2, <4>3, <4>4
            <3>2. CASE \E o \in Student, todo \in SUBSET Student :
                         /\ stage' = [stage EXCEPT ![w] = "pick"]
                         /\ errand' = [errand EXCEPT ![w] = [NoJob EXCEPT !.who = o, !.todo = todo]]
                  <4>1. PICK o \in Student, todo \in SUBSET Student :
                         /\ stage' = [stage EXCEPT ![w] = "pick"]
                         /\ errand' = [errand EXCEPT ![w] = [NoJob EXCEPT !.who = o, !.todo = todo]]
                        BY <3>2
                  <4> DEFINE e == [NoJob EXCEPT !.who = o, !.todo = todo]
                  <4>2. e \in Job /\ e.who = o /\ o # Nil BY ErrandsMade
                  <4> HIDE DEF e
                  <4>3. errand' = [errand EXCEPT ![w] = e] BY <4>1 DEF e
                  <4> QED BY <4>1, <4>2, <4>3
            <3> QED BY <1>3, <3>1, <3>2
      <2> QED BY <2>3, <2>4, <2>5
<1>5. /\ UNCHANGED <<status, closed, total, peerScore, handIns, gradings, reviewings, faults, regraded, blurred>>
      /\ doubled' \subseteq doubled \union {s}
      /\ assigned' = assigned \/ assigned' = assigned \union ({s} \X errand[w].picked)
      <2>1. CASE Pick(w) \/ Choose(w) BY <1>1, <2>1 DEF Pick, Choose, work, reviews, limits, past
      <2>2. CASE Give(w) BY <1>1, <2>2 DEF Give, work, limits, past
      <2>3. CASE Others(w) BY <2>3 DEF Others, work, reviews, limits, past
      <2> QED BY <2>1, <2>2, <2>3
<1>6. /\ assigned \subseteq assigned' /\ assigned' \subseteq Pair /\ closed' \in BOOLEAN
      /\ handIns' \in Nat /\ gradings' \in Nat /\ reviewings' \in Nat /\ faults' \in Nat
      /\ regraded' \subseteq Student /\ doubled' \subseteq Student /\ blurred' \subseteq Student
      /\ status' \in [Student -> {"none", "SUBMITTED", "GRADED"}]
      <2>1. errand[w].picked \subseteq Student BY <1>2 DEF Job
      <2>2. assigned \subseteq assigned' /\ assigned' \subseteq Pair
            BY <1>5, <2>1 DEF CourseworkTypeOK, Pair
      <2> QED BY <1>5, <2>2 DEF CourseworkTypeOK
<1>7. st \in Stages /\ st \notin {"review", "mean", "meanWrite"} BY <1>4 DEF Stages
<1> QED BY <1>4, <1>5, <1>6, <1>7, WorthyQuiet

\* A review is brought, and the mean read.
LEMMA ReviewingIsWorthy ==
  ASSUME CourseworkTypeOK, Worthy, NEW w \in Handler,
         MeanRead(w) \/ \E s, r \in Student : ReviewStart(w, s, r)
  PROVE  CourseworkTypeOK' /\ Worthy'
<1>1. CASE MeanRead(w)
      <2>1. PICK s \in Student : s = errand[w].who
            BY <1>1 DEF CourseworkTypeOK, Job, MeanRead
      <2>2. errand[w] \in Job BY DEF CourseworkTypeOK
      <2>3. PICK m : m = MeanOf(s) OBVIOUS
      <2>4. m \in Mark
            <3>1. MarkersOf(s) # {} BY <1>1, <2>1 DEF MeanRead, Worthy
            <3>2. \A r \in MarkersOf(s) : total[<<s, r>>] \in Mark
                  BY DEF MarkersOf, ReviewersOf, Worthy, Pair
            <3> QED BY <2>3, <3>1, <3>2, MeansAreMarks
      <2> DEFINE e == [errand[w] EXCEPT !.mark = m]
      <2>5. e \in Job /\ e.who = s /\ e.mark = m BY <2>1, <2>2, <2>4, ErrandsChanged, MarksAreNumbers
      <2>6. /\ stage' = [stage EXCEPT ![w] = "meanWrite"] /\ errand' = [errand EXCEPT ![w] = e]
            /\ UNCHANGED <<status, closed, assigned, total, peerScore, handIns, gradings,
                           reviewings, faults, regraded, doubled, blurred>>
            BY <1>1, <2>1, <2>3 DEF MeanRead, GoOn, work, reviews, limits, past
      <2> HIDE DEF e
      <2>7. /\ assigned \subseteq assigned' /\ assigned' \subseteq Pair /\ closed' \in BOOLEAN
            /\ handIns' \in Nat /\ gradings' \in Nat /\ reviewings' \in Nat /\ faults' \in Nat
            /\ regraded' \subseteq Student /\ doubled' \subseteq Student /\ blurred' \subseteq Student
            /\ status' \in [Student -> {"none", "SUBMITTED", "GRADED"}]
            BY <2>6 DEF CourseworkTypeOK
      <2>8. "meanWrite" \in Stages /\ e.who # Nil BY <2>1, <2>5, ErrandsMade DEF Stages
      <2> QED BY <2>4, <2>5, <2>6, <2>7, <2>8, WorthyQuiet
<1>2. CASE \E s, r \in Student : ReviewStart(w, s, r)
      <2>1. PICK s \in Student, r \in Student : ReviewStart(w, s, r) BY <1>2
      <2>2. PICK m \in Totals : TakeUp(w, "review", [NoJob EXCEPT !.who = s, !.reviewer = r, !.mark = m])
            BY <2>1 DEF ReviewStart
      <2>3. m \in Mark /\ m \in Int BY TotalsAreMarks, MarksAreNumbers
      <2> DEFINE e == [NoJob EXCEPT !.who = s, !.reviewer = r, !.mark = m]
      <2>4. e \in Job /\ e.who = s /\ e.reviewer = r /\ e.mark = m BY <2>3 DEF NoJob, Job
      <2>5. /\ stage' = [stage EXCEPT ![w] = "review"] /\ errand' = [errand EXCEPT ![w] = e]
            /\ reviewings' = reviewings + 1
            /\ UNCHANGED <<status, closed, assigned, total, peerScore, handIns, gradings, faults,
                           regraded, doubled, blurred>>
            BY <2>1, <2>2 DEF ReviewStart, TakeUp, work, reviews, past
      <2> HIDE DEF e
      <2>6. /\ assigned \subseteq assigned' /\ assigned' \subseteq Pair /\ closed' \in BOOLEAN
            /\ handIns' \in Nat /\ gradings' \in Nat /\ reviewings' \in Nat /\ faults' \in Nat
            /\ regraded' \subseteq Student /\ doubled' \subseteq Student /\ blurred' \subseteq Student
            /\ status' \in [Student -> {"none", "SUBMITTED", "GRADED"}]
            BY <2>5 DEF CourseworkTypeOK
      <2>7. "review" \in Stages /\ e.who # Nil BY <2>4, ErrandsMade DEF Stages
      <2> QED BY <2>3, <2>4, <2>5, <2>6, <2>7, WorthyQuiet
<1> QED BY <1>1, <1>2

\* A mark is stored, and there is something to take the mean of.
LEMMA StoringIsWorthy ==
  ASSUME CourseworkTypeOK, Worthy, Marked, NEW w \in Handler, Review(w)
  PROVE  CourseworkTypeOK' /\ Worthy'
<1>1. PICK s \in Student, r \in Student : s = errand[w].who /\ r = errand[w].reviewer /\ <<s, r>> \in assigned
      BY DEF CourseworkTypeOK, Job, Review, Worthy, Marked
<1>2. PICK m \in Mark : m = errand[w].mark BY DEF Review, Worthy
<1> DEFINE e == [NoJob EXCEPT !.who = s]
<1>3. e \in Job /\ e.who = s /\ s # Nil /\ "mean" \in Stages BY ErrandsMade DEF Stages
<1>4. /\ stage' = [stage EXCEPT ![w] = "mean"] /\ errand' = [errand EXCEPT ![w] = e]
      /\ total' = [total EXCEPT ![<<s, r>>] = m]
      /\ blurred' \subseteq blurred \union {s}
      /\ UNCHANGED <<status, closed, assigned, peerScore, handIns, gradings, reviewings, faults,
                     regraded, doubled>>
      BY <1>1, <1>2 DEF Review, GoOn, work, limits
<1> HIDE DEF e
<1>5. /\ stage' \in [Handler -> Stages] /\ errand' \in [Handler -> Job]
      /\ \A v \in Handler : stage'[v] = "idle" <=> errand'[v].who = Nil
      /\ stage'[w] = "mean" /\ errand'[w] = e
      /\ \A v \in Handler \ {w} : stage'[v] = stage[v] /\ errand'[v] = errand[v]
      BY <1>3, <1>4, ErrandsTyped
<1>6. m \in Int /\ m # Nil BY MarksAreNumbers
<1>7. /\ total \in [Pair -> Int \union {Nil}] /\ <<s, r>> \in Pair
      /\ total' \in [Pair -> Int \union {Nil}] /\ total'[<<s, r>>] = m
      /\ \A p \in Pair : p # <<s, r>> => total'[p] = total[p]
      BY <1>4, <1>6 DEF CourseworkTypeOK, Pair
<1>8. blurred' \subseteq Student BY <1>4 DEF CourseworkTypeOK
<1>9. CourseworkTypeOK' BY <1>4, <1>5, <1>7, <1>8 DEF CourseworkTypeOK, Stages
<1>10. \A p \in Pair : total'[p] # Nil => total'[p] \in Mark BY <1>7 DEF Worthy
<1>11. PeerScoreWithinWorth' BY <1>4 DEF Worthy, PeerScoreWithinWorth
<1>12. ASSUME NEW x \in Student, MarkersOf(x) # {} \/ x = s
       PROVE  {q \in Student : <<x, q>> \in assigned' /\ total'[<<x, q>>] # Nil} # {}
       <2>1. CASE x = s BY <1>1, <1>4, <1>6, <1>7, <2>1
       <2>2. CASE MarkersOf(x) # {} /\ x # s
             <3>1. PICK q \in Student : <<x, q>> \in assigned /\ total[<<x, q>>] # Nil
                   BY <2>2 DEF MarkersOf, ReviewersOf
             <3>2. <<x, q>> \in Pair /\ <<x, q>> # <<s, r>> BY <2>2 DEF Pair
             <3> QED BY <1>4, <1>7, <3>1, <3>2
       <2> QED BY <1>12, <2>1, <2>2
<1>13. ASSUME NEW v \in Handler
       PROVE  /\ stage'[v] \in {"review", "meanWrite"} => errand'[v].mark \in Mark
              /\ stage'[v] = "review" => errand'[v].reviewer \in Student
       BY <1>5 DEF Worthy
<1>14. ASSUME NEW v \in Handler, stage'[v] = "mean" PROVE MarkersOf(errand[v].who)' # {}
       <2>1. errand'[v].who \in Student /\ (MarkersOf(errand'[v].who) # {} \/ errand'[v].who = s)
             <3>1. CASE v = w BY <1>3, <1>5, <3>1
             <3>2. CASE v # w
                   <4>1. stage[v] = "mean" /\ errand'[v] = errand[v] BY <1>5, <1>14, <3>2
                   <4> QED BY <4>1 DEF Worthy, CourseworkTypeOK, Job
             <3> QED BY <3>1, <3>2
       <2>2. {q \in Student : <<errand'[v].who, q>> \in assigned' /\ total'[<<errand'[v].who, q>>] # Nil} # {}
             BY <1>12, <2>1
       <2> QED BY <2>2 DEF MarkersOf, ReviewersOf
<1> QED BY <1>9, <1>10, <1>11, <1>13, <1>14 DEF Worthy, Pair

\* The mean is written.
LEMMA WritingIsWorthy ==
  ASSUME CourseworkTypeOK, Worthy, NEW w \in Handler, MeanWrite(w)
  PROVE  CourseworkTypeOK' /\ Worthy'
<1>1. PICK s \in Student : s = errand[w].who BY DEF CourseworkTypeOK, Job, MeanWrite
<1>2. PICK m \in Mark : m = errand[w].mark BY DEF MeanWrite, Worthy
<1>3. NoJob \in Job /\ NoJob.who = Nil /\ "idle" \in Stages BY ErrandsMade DEF Stages
<1>4. /\ stage' = [stage EXCEPT ![w] = "idle"] /\ errand' = [errand EXCEPT ![w] = NoJob]
      /\ peerScore' = [peerScore EXCEPT ![s] = m]
      /\ UNCHANGED <<status, closed, assigned, total, handIns, gradings, reviewings, faults,
                     regraded, doubled, blurred>>
      BY <1>1, <1>2 DEF MeanWrite, LayDown, work, limits, past
<1>5. /\ stage' \in [Handler -> Stages] /\ errand' \in [Handler -> Job]
      /\ \A v \in Handler : stage'[v] = "idle" <=> errand'[v].who = Nil
      /\ stage'[w] = "idle"
      /\ \A v \in Handler \ {w} : stage'[v] = stage[v] /\ errand'[v] = errand[v]
      BY <1>3, <1>4, ErrandsTyped
<1>6. m \in Int BY MarksAreNumbers
<1>7. CourseworkTypeOK' BY <1>4, <1>5, <1>6 DEF CourseworkTypeOK, Stages
<1>8. PeerScoreWithinWorth' BY <1>4 DEF Worthy, PeerScoreWithinWorth, CourseworkTypeOK
<1>9. \A p \in Pair : total'[p] # Nil => total'[p] \in Mark BY <1>4 DEF Worthy
<1>10. ASSUME NEW v \in Handler
       PROVE  /\ stage'[v] \in {"review", "meanWrite"} => errand'[v].mark \in Mark
              /\ stage'[v] = "review" => errand'[v].reviewer \in Student
       BY <1>5 DEF Worthy
<1>11. ASSUME NEW v \in Handler, stage'[v] = "mean" PROVE MarkersOf(errand[v].who)' # {}
       <2>1. stage[v] = "mean" /\ errand'[v] = errand[v] BY <1>5, <1>11
       <2>2. MarkersOf(errand[v].who) # {} BY <2>1 DEF Worthy
       <2>3. PICK q \in Student : <<errand[v].who, q>> \in assigned /\ total[<<errand[v].who, q>>] # Nil
             BY <2>2 DEF MarkersOf, ReviewersOf
       <2>4. assigned' = assigned /\ total' = total BY <1>4
       <2>5. <<errand'[v].who, q>> \in assigned' /\ total'[<<errand'[v].who, q>>] # Nil
             BY <2>1, <2>3, <2>4
       <2>6. {x \in Student : <<errand'[v].who, x>> \in assigned' /\ total'[<<errand'[v].who, x>>] # Nil} # {}
             BY <2>5
       <2> QED BY <2>6 DEF MarkersOf, ReviewersOf
<1> QED BY <1>7, <1>8, <1>9, <1>10, <1>11 DEF Worthy, Pair

SoundInv == MeanInv /\ CourseworkTypeOK /\ Worthy

LEMMA SoundBegins == CourseworkInit => SoundInv
<1> SUFFICES ASSUME CourseworkInit PROVE SoundInv OBVIOUS
<1>1. MeanInv BY MeanBegins
<1>2. NoJob \in Job /\ NoJob.who = Nil BY DEF NoJob, Job
<1>3. \A w \in Handler : stage[w] = "idle" /\ errand[w] = NoJob BY DEF CourseworkInit
<1>4. CourseworkTypeOK BY <1>2, <1>3 DEF CourseworkInit, CourseworkTypeOK
<1>5. Worthy BY <1>3 DEF CourseworkInit, Worthy, PeerScoreWithinWorth
<1> QED BY <1>1, <1>4, <1>5 DEF SoundInv

LEMMA SoundInductive ==
  ASSUME SoundInv, [CourseworkNext]_courseworkVars
  PROVE  SoundInv'
<1>1. MeanInv' BY MeanInductive DEF SoundInv
<1> SUFFICES CourseworkTypeOK' /\ Worthy' BY <1>1 DEF SoundInv
<1>2. CourseworkTypeOK /\ Worthy /\ Marked BY DEF SoundInv, MeanInv
<1>3. ASSUME UNCHANGED <<status, assigned, total, peerScore, stage, errand, handIns, gradings, reviewings, faults,
                         regraded, doubled, blurred>>, closed' \in BOOLEAN
      PROVE  CourseworkTypeOK' /\ Worthy'
      <2>1. CourseworkTypeOK' BY <1>2, <1>3 DEF CourseworkTypeOK
      <2>2. \A x : MarkersOf(x)' = MarkersOf(x) BY <1>3 DEF MarkersOf, ReviewersOf
      <2>3. \A v \in Handler : MarkersOf(errand[v].who)' = MarkersOf(errand[v].who)
            BY <1>3 DEF MarkersOf, ReviewersOf
      <2>4. Worthy' BY <1>2, <1>3, <2>3 DEF Worthy, PeerScoreWithinWorth
      <2> QED BY <2>1, <2>4
<1>4. CASE UNCHANGED courseworkVars
      <2>1. UNCHANGED <<status, assigned, total, peerScore, stage, errand, handIns, gradings, reviewings, faults,
                        regraded, doubled, blurred>> /\ closed' = closed
            BY <1>4 DEF courseworkVars, work, reviews, requests, limits, past
      <2>2. closed' \in BOOLEAN BY <1>2, <2>1 DEF CourseworkTypeOK
      <2>3. UNCHANGED <<status, assigned, total, peerScore, stage, errand, handIns, gradings, reviewings, faults,
                        regraded, doubled, blurred>>
            BY <2>1
      <2> QED BY <1>3, <2>2, <2>3
<1>5. CASE DuePasses
      <2>1. UNCHANGED <<status, assigned, total, peerScore, stage, errand, handIns, gradings, reviewings, faults,
                        regraded, doubled, blurred>>
            BY <1>5 DEF DuePasses, reviews, requests, limits, past
      <2>2. closed' \in BOOLEAN BY <1>5 DEF DuePasses
      <2> QED BY <1>3, <2>1, <2>2
<1>6. CASE \E s \in Student : \/ HandInRefused(s) \/ GradeTooHigh(s)
                              \/ \E r \in Student : ReviewRepeated(s, r)
      <2>1. UNCHANGED courseworkVars BY <1>6 DEF HandInRefused, GradeTooHigh, ReviewRepeated
      <2> QED BY <1>4, <2>1
<1>7. ASSUME NEW w \in Handler,
             \/ Advance(w) \/ Fail(w)
             \/ \E s \in Student : \/ HandInBegins(w, s) \/ GradeStart(w, s)
                                   \/ \E r \in Student : ReviewStart(w, s, r)
      PROVE  CourseworkTypeOK' /\ Worthy'
      <2>1. CASE \/ HandIn(w) \/ Grade(w) \/ Fail(w)
                 \/ \E s \in Student : HandInBegins(w, s) \/ GradeStart(w, s)
            BY <1>2, <2>1, HandingIsWorthy
      <2>2. CASE Pick(w) \/ Choose(w) \/ Give(w) \/ Others(w) BY <1>2, <2>2, PickingIsWorthy
      <2>3. CASE MeanRead(w) \/ \E s, r \in Student : ReviewStart(w, s, r)
            BY <1>2, <2>3, ReviewingIsWorthy
      <2>4. CASE Review(w) BY <1>2, <2>4, StoringIsWorthy
      <2>5. CASE MeanWrite(w) BY <1>2, <2>5, WritingIsWorthy
      <2> QED BY <1>7, <2>1, <2>2, <2>3, <2>4, <2>5 DEF Advance
<1> QED
      <2>1. \/ UNCHANGED courseworkVars \/ DuePasses
            \/ \E s \in Student : \/ HandInRefused(s) \/ GradeTooHigh(s)
                                  \/ \E r \in Student : ReviewRepeated(s, r)
            \/ \E w \in Handler :
                 \/ Advance(w) \/ Fail(w)
                 \/ \E s \in Student : \/ HandInBegins(w, s) \/ GradeStart(w, s)
                                       \/ \E r \in Student : ReviewStart(w, s, r)
            BY DEF CourseworkNext
      <2>2. CASE \E w \in Handler :
                   \/ Advance(w) \/ Fail(w)
                   \/ \E s \in Student : \/ HandInBegins(w, s) \/ GradeStart(w, s)
                                         \/ \E r \in Student : ReviewStart(w, s, r)
            BY <1>7, <2>2
      <2> QED BY <1>4, <1>5, <1>6, <2>1, <2>2

\* PeerReviewService.recomputePeerScore and scoreAgainstRubric: the mark a student
\* sees is the mean of the reviews that are in, once it is computed, unless two of
\* them ended at the same time or a request was cut short; and it is never less
\* than nothing nor more than the assignment is worth, however many review it and
\* whatever the rubric is.
THEOREM PeerScoresAreSound == CourseworkSpec => []PeerScoreIsSound
<1>1. SoundInv => PeerScoreIsSound
      <2> SUFFICES ASSUME SoundInv PROVE PeerScoreIsSound OBVIOUS
      <2>1. PeerScoreIsMean BY DEF SoundInv, MeanInv, Averaged, Averages, PeerScoreIsMean, At
      <2> QED BY <2>1 DEF SoundInv, Worthy, PeerScoreIsSound
<1> QED BY <1>1, SoundBegins, SoundInductive, PTL DEF CourseworkSpec
=============================================================================
