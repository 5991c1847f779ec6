------------------------ MODULE LessonProofs -----------------------------
(***************************************************************************)
(* Theorems about a lesson, watched (ContentProgress) and written          *)
(* (LessonEditor): two machines with variables of their own, each with its *)
(* invariant.                                                              *)
(*                                                                         *)
(* ContentProgress: the inductive invariant follows a report from the      *)
(* player to the row: what it claims, what it may be credited, and that    *)
(* nobody else writes the row unless it is marked as crossed.              *)
(*                                                                         *)
(* LessonEditor: the inductive invariant EditorInv follows an item from    *)
(* the list on the screen through the saves under way to its row.          *)
(***************************************************************************)
EXTENDS ContentProgress, LessonEditor, FiniteSetTheorems, SequenceTheorems, TLAPS

\* Clocks: a row is made, and was last written, in the past, as a request was sent.
PastInv ==
  /\ start <= now
  /\ \A w \in Worker : job[w].sent <= now
  /\ row[video] # None => start <= row[video].at /\ row[video].at <= now

\* What a report is about to write fits the bound it will have written.
PlausibleInv ==
  /\ WatchedIsPlausible
  /\ \A w \in Worker : pc[w] = "reportWrite" /\ job[w].found =>
       /\ row[video] # None
       /\ job[w].value <= head + (now - start) + Slack * updates + Slack

\* Whoever will write a row that nobody crossed is alone with it.
AloneInv ==
  \A r \in (Item \union {whole}) \ crossed : \A v, w \in Worker :
    v \in About(r) /\ w \in About(r) => v = w

\* A report that was read before it matters knows what is complete.
SticksInv ==
  /\ \A i \in finished \ crossed : Done(i)
  /\ \A w \in Worker : pc[w] = "reportWrite" /\ video \in finished \ crossed => job[w].completed

PercentInv ==
  /\ percent <= Full /\ best <= Full
  /\ \A w \in Worker : /\ pc[w] = "save" => job[w].claim <= Full
                       /\ pc[w] = "saveWrite" => job[w].value <= Full
  /\ whole \notin crossed =>
       /\ percent = best
       /\ \A w \in Worker : pc[w] = "saveWrite" => percent <= job[w].value

\* Enough watched time is a completion, from the moment it is computed.
ThresholdInv ==
  /\ row[video] # None /\ row[video].watched >= Threshold => row[video].completed
  /\ \A w \in Worker : pc[w] = "reportWrite" /\ job[w].value >= Threshold => job[w].completed

InFlight(w) == pc[w] \in {"report", "reportWrite"}
Watched == IF row[video] = None THEN 0 ELSE row[video].watched
Clean == video \notin finished \union crossed /\ faults = 0 /\ ~slow /\ ~fast

\* As long as nothing went wrong the server has credited all that was reported,
\* and what is not reported yet was watched since.
CreditInv ==
  Clean =>
    /\ \A w \in Worker : InFlight(w) => played - reported <= now - job[w].sent
    /\ (\A w \in Worker : ~InFlight(w)) =>
         /\ reported <= Watched
         /\ row[video] # None => played - reported <= now - row[video].at + Slack
    /\ \A w \in Worker : pc[w] = "report" =>
         /\ reported <= Watched + job[w].claim
         /\ row[video] # None => job[w].claim <= now - row[video].at + Slack
    /\ \A w \in Worker : pc[w] = "reportWrite" =>
         reported <= job[w].value \/ job[w].value >= Threshold

IInv ==
  /\ TypeOK
  /\ PastInv /\ PlausibleInv /\ AloneInv /\ SticksInv /\ PercentInv /\ ThresholdInv
  /\ CreditInv /\ LessonFollows

USE ContentProgressAssumption

\* What a request holds is typed.
LEMMA JobType ==
  ASSUME TypeOK, NEW w \in Worker
  PROVE  /\ job[w].of \in Item \union {whole, None} /\ job[w].sent \in Nat
         /\ job[w].claim \in Nat /\ job[w].found \in BOOLEAN
         /\ job[w].value \in Nat /\ job[w].completed \in BOOLEAN
  BY DEF TypeOK, Job

\* A row that exists is typed.
LEMMA RowType ==
  ASSUME TypeOK, NEW i \in Item, row[i] # None
  PROVE  row[i] \in Progress /\ row[i].watched \in Nat /\ row[i].at \in Nat
         /\ row[i].completed \in BOOLEAN
  BY DEF TypeOK, Progress

LEMMA NoJobType ==
  /\ NoJob \in Job /\ NoJob.of = None /\ NoJob.sent = 0 /\ NoJob.claim = 0
  /\ NoJob.found = FALSE /\ NoJob.value = 0 /\ NoJob.completed = FALSE
  BY DEF NoJob, Job

\* Time passes for everyone.
LEMMA TickKeeps ==
  ASSUME IInv, NEW speed \in Speed, Tick(speed)
  PROVE  IInv'
<1> USE DEF IInv
<1>t. \A v \in Worker : job[v].sent \in Nat /\ job[v].claim \in Nat /\ job[v].value \in Nat
  BY JobType
<1>r. row[video] # None => row[video].at \in Nat /\ row[video].watched \in Nat
  BY RowType
<1>s. speed \in Nat /\ Slack \in Nat
  OBVIOUS
<1>l. played' \in Nat /\ played' >= played /\ played' <= played + speed
  BY <1>s DEF Tick, TypeOK
<1>f. ~fast' => ~fast /\ speed <= 1
  <2>1. ~fast' => ~fast /\ ~(speed > 1)
    BY Zenon DEF Tick
  <2> QED BY <2>1, <1>s
<1>1. TypeOK'
  BY DEF TypeOK, Tick, server, handler, bounds
<1>2. PastInv'
  BY <1>t, <1>r DEF PastInv, TypeOK, Tick, server, handler, bounds
<1>3. PlausibleInv'
  BY <1>t DEF PlausibleInv, WatchedIsPlausible, PastInv, TypeOK, Tick, server, handler, bounds
<1>4. AloneInv'
  BY DEF AloneInv, About, TypeOK, Tick, server, handler, bounds
<1>5. SticksInv'
  BY DEF SticksInv, AloneInv, About, Done, TypeOK, Tick, server, handler, bounds
<1>6. PercentInv'
  BY DEF PercentInv, AloneInv, About, TypeOK, Tick, server, handler, bounds
<1>7. ThresholdInv'
  BY <1>t, <1>r, <1>s, <1>l DEF ThresholdInv, TypeOK, Tick, server, handler, bounds
<1>8. CreditInv'
  <2> SUFFICES ASSUME Clean' PROVE CreditInv'
    BY DEF CreditInv
  <2>1. Clean /\ speed <= 1 /\ played' <= played + 1 /\ now' = now + 1
    BY <1>f, <1>l, <1>s DEF Clean, Tick, bounds, TypeOK
  <2>2. UNCHANGED <<reported, row, pc, job, Watched>>
    BY DEF Tick, server, handler, Watched
  <2> QED BY <2>1, <2>2, <1>t, <1>r, <1>l, <1>s DEF CreditInv, InFlight, Watched, TypeOK, PastInv
<1>9. LessonFollows'
  BY DEF LessonFollows, Done, TypeOK, Tick, server, handler, bounds
<1> QED BY <1>1, <1>2, <1>3, <1>4, <1>5, <1>6, <1>7, <1>8, <1>9

\* A new sitting has nothing to report.
LEMMA ReopenKeeps ==
  ASSUME IInv, Reopen
  PROVE  IInv'
<1> USE DEF IInv
<1>t. \A v \in Worker : job[v].sent \in Nat /\ job[v].claim \in Nat /\ job[v].value \in Nat
  BY JobType
<1>r. row[video] # None => row[video].at \in Nat /\ row[video].watched \in Nat
  BY RowType
<1>1. TypeOK'
  BY DEF TypeOK, Reopen, server, handler, bounds, history
<1>2. PastInv'
  BY DEF PastInv, TypeOK, Reopen, server, handler, bounds, history
<1>3. PlausibleInv'
  BY DEF PlausibleInv, WatchedIsPlausible, PastInv, TypeOK, Reopen, server, handler, bounds, history
<1>4. AloneInv'
  BY DEF AloneInv, About, TypeOK, Reopen, server, handler, bounds, history
<1>5. SticksInv'
  BY DEF SticksInv, AloneInv, About, Done, TypeOK, Reopen, server, handler, bounds, history
<1>6. PercentInv'
  BY DEF PercentInv, AloneInv, About, TypeOK, Reopen, server, handler, bounds, history
<1>7. ThresholdInv'
  BY DEF ThresholdInv, TypeOK, Reopen, server, handler, bounds, history
<1>8. CreditInv'
  BY <1>t, <1>r DEF CreditInv, Clean, Watched, InFlight, PastInv, TypeOK, Reopen, server, handler, bounds, history
<1>9. LessonFollows'
  BY DEF LessonFollows, Done, TypeOK, Reopen, server, handler, bounds, history
<1> QED BY <1>1, <1>2, <1>3, <1>4, <1>5, <1>6, <1>7, <1>8, <1>9

\* A report starts with what is not reported yet.
LEMMA ReportKeeps ==
  ASSUME IInv, NEW w \in Worker, Report(w)
  PROVE  IInv'
<1> USE DEF IInv
<1>n. played - reported \in Nat
  BY DEF TypeOK
<1> DEFINE j == [NoJob EXCEPT !.of = video, !.sent = now, !.claim = played - reported]
<1>j. /\ j \in Job /\ j.of = video /\ j.sent = now /\ j.claim = played - reported
  BY <1>n, NoJobType DEF Job, TypeOK
<1>p. /\ pc[w] = "idle" /\ job[w].of = None
      /\ pc' \in [Worker -> {"idle", "report", "reportWrite", "mark", "check", "complete", "save", "saveWrite"}]
      /\ job' \in [Worker -> Job] /\ pc'[w] = "report" /\ job'[w] = j
      /\ \A v \in Worker \ {w} : pc'[v] = pc[v] /\ job'[v] = job[v]
      /\ requests' \in Nat
      /\ crossed' = IF About(j.of) = {} THEN crossed ELSE crossed \union {j.of}
  BY <1>j DEF Report, Begin, TypeOK
<1> HIDE DEF j
<1>t. \A v \in Worker : job[v].sent \in Nat /\ job[v].claim \in Nat /\ job[v].value \in Nat
                        /\ job[v].completed \in BOOLEAN /\ job[v].found \in BOOLEAN
  BY JobType
<1>r. row[video] # None => row[video].at \in Nat /\ row[video].watched \in Nat
  BY RowType
<1>1. TypeOK'
  BY <1>j, <1>p, <1>t, <1>r, <1>n DEF TypeOK, Report, server
<1>2. PastInv'
  BY <1>j, <1>p, <1>t, <1>r, <1>n DEF PastInv, TypeOK, Report, server
<1>3. PlausibleInv'
  BY <1>j, <1>p, <1>t, <1>r, <1>n DEF PlausibleInv, WatchedIsPlausible, PastInv, TypeOK, Report, server
<1>4. AloneInv'
  BY <1>j, <1>p, <1>t, <1>r, <1>n DEF AloneInv, About, TypeOK, Report, server
<1>5. SticksInv'
  BY <1>j, <1>p, <1>t, <1>r, <1>n DEF SticksInv, AloneInv, About, Done, TypeOK, Report, server
<1>6. PercentInv'
  BY <1>j, <1>p, <1>t, <1>r, <1>n DEF PercentInv, AloneInv, About, TypeOK, Report, server
<1>7. ThresholdInv'
  BY <1>j, <1>p, <1>t, <1>r, <1>n DEF ThresholdInv, TypeOK, Report, server
<1>8. CreditInv'
  <2> SUFFICES ASSUME Clean' PROVE CreditInv'
    BY DEF CreditInv
  <2>1. About(video) = {} /\ crossed' = crossed
    BY <1>j, <1>p DEF Clean
  <2>2. Clean
    BY <2>1 DEF Clean, Report
  <2>3. \A v \in Worker : ~InFlight(v)
    BY <2>1 DEF About, InFlight, TypeOK
  <2>4. /\ reported <= Watched
        /\ row[video] # None => played - reported <= now - row[video].at + Slack
    BY <2>2, <2>3 DEF CreditInv
  <2>5. UNCHANGED <<now, played, row, Watched>> /\ reported' = played /\ Watched \in Nat
    BY <1>r DEF Report, server, Watched
  <2> QED BY <2>3, <2>4, <2>5, <1>j, <1>p, <1>r DEF CreditInv, InFlight, TypeOK
<1>9. LessonFollows'
  BY <1>j, <1>p, <1>t, <1>r, <1>n DEF LessonFollows, Done, TypeOK, Report, server
<1> QED BY <1>1, <1>2, <1>3, <1>4, <1>5, <1>6, <1>7, <1>8, <1>9

\* A mark starts with nothing.
LEMMA MarkStartKeeps ==
  ASSUME IInv, NEW w \in Worker, NEW i \in Item, MarkStart(w, i)
  PROVE  IInv'
<1> USE DEF IInv
<1> DEFINE j == [NoJob EXCEPT !.of = i]
<1>j. /\ j \in Job /\ j.of = i /\ j.sent = 0 /\ j.claim = 0
  BY NoJobType DEF Job, TypeOK
<1>p. /\ pc[w] = "idle" /\ job[w].of = None
      /\ pc' \in [Worker -> {"idle", "report", "reportWrite", "mark", "check", "complete", "save", "saveWrite"}]
      /\ job' \in [Worker -> Job] /\ pc'[w] = "mark" /\ job'[w] = j
      /\ \A v \in Worker \ {w} : pc'[v] = pc[v] /\ job'[v] = job[v]
      /\ requests' \in Nat
      /\ crossed' = IF About(j.of) = {} THEN crossed ELSE crossed \union {j.of}
  BY <1>j DEF MarkStart, Begin, TypeOK
<1> HIDE DEF j
<1>t. \A v \in Worker : job[v].sent \in Nat /\ job[v].claim \in Nat /\ job[v].value \in Nat
                        /\ job[v].completed \in BOOLEAN /\ job[v].found \in BOOLEAN
  BY JobType
<1>r. row[video] # None => row[video].at \in Nat /\ row[video].watched \in Nat
  BY RowType
<1>1. TypeOK'
  BY <1>j, <1>p, <1>t, <1>r DEF TypeOK, MarkStart, player, server
<1>2. PastInv'
  BY <1>j, <1>p, <1>t, <1>r DEF PastInv, TypeOK, MarkStart, player, server
<1>3. PlausibleInv'
  BY <1>j, <1>p, <1>t, <1>r DEF PlausibleInv, WatchedIsPlausible, PastInv, TypeOK, MarkStart, player, server
<1>4. AloneInv'
  BY <1>j, <1>p, <1>t, <1>r DEF AloneInv, About, TypeOK, MarkStart, player, server
<1>5. SticksInv'
  BY <1>j, <1>p, <1>t, <1>r DEF SticksInv, AloneInv, About, Done, TypeOK, MarkStart, player, server
<1>6. PercentInv'
  BY <1>j, <1>p, <1>t, <1>r DEF PercentInv, AloneInv, About, TypeOK, MarkStart, player, server
<1>7. ThresholdInv'
  BY <1>j, <1>p, <1>t, <1>r DEF ThresholdInv, TypeOK, MarkStart, player, server
<1>8. CreditInv'
  BY <1>j, <1>p, <1>t, <1>r DEF CreditInv, Clean, Watched, InFlight, PastInv, TypeOK, MarkStart, player, server
<1>9. LessonFollows'
  BY <1>j, <1>p, <1>t, <1>r DEF LessonFollows, Done, TypeOK, MarkStart, player, server
<1> QED BY <1>1, <1>2, <1>3, <1>4, <1>5, <1>6, <1>7, <1>8, <1>9

\* The button too.
LEMMA CompleteByHandKeeps ==
  ASSUME IInv, NEW w \in Worker, CompleteByHand(w)
  PROVE  IInv'
<1> USE DEF IInv
<1> DEFINE j == [NoJob EXCEPT !.of = whole]
<1>j. /\ j \in Job /\ j.of = whole /\ j.sent = 0 /\ j.claim = 0
  BY NoJobType DEF Job, TypeOK
<1>p. /\ pc[w] = "idle" /\ job[w].of = None
      /\ pc' \in [Worker -> {"idle", "report", "reportWrite", "mark", "check", "complete", "save", "saveWrite"}]
      /\ job' \in [Worker -> Job] /\ pc'[w] = "complete" /\ job'[w] = j
      /\ \A v \in Worker \ {w} : pc'[v] = pc[v] /\ job'[v] = job[v]
      /\ requests' \in Nat
      /\ crossed' = IF About(j.of) = {} THEN crossed ELSE crossed \union {j.of}
  BY <1>j DEF CompleteByHand, Begin, TypeOK
<1> HIDE DEF j
<1>t. \A v \in Worker : job[v].sent \in Nat /\ job[v].claim \in Nat /\ job[v].value \in Nat
                        /\ job[v].completed \in BOOLEAN /\ job[v].found \in BOOLEAN
  BY JobType
<1>r. row[video] # None => row[video].at \in Nat /\ row[video].watched \in Nat
  BY RowType
<1>1. TypeOK'
  BY <1>j, <1>p, <1>t, <1>r DEF TypeOK, CompleteByHand, player, server
<1>2. PastInv'
  BY <1>j, <1>p, <1>t, <1>r DEF PastInv, TypeOK, CompleteByHand, player, server
<1>3. PlausibleInv'
  BY <1>j, <1>p, <1>t, <1>r DEF PlausibleInv, WatchedIsPlausible, PastInv, TypeOK, CompleteByHand, player, server
<1>4. AloneInv'
  BY <1>j, <1>p, <1>t, <1>r DEF AloneInv, About, TypeOK, CompleteByHand, player, server
<1>5. SticksInv'
  BY <1>j, <1>p, <1>t, <1>r DEF SticksInv, AloneInv, About, Done, TypeOK, CompleteByHand, player, server
<1>6. PercentInv'
  BY <1>j, <1>p, <1>t, <1>r DEF PercentInv, AloneInv, About, TypeOK, CompleteByHand, player, server
<1>7. ThresholdInv'
  BY <1>j, <1>p, <1>t, <1>r DEF ThresholdInv, TypeOK, CompleteByHand, player, server
<1>8. CreditInv'
  BY <1>j, <1>p, <1>t, <1>r DEF CreditInv, Clean, Watched, InFlight, PastInv, TypeOK, CompleteByHand, player, server
<1>9. LessonFollows'
  BY <1>j, <1>p, <1>t, <1>r DEF LessonFollows, Done, TypeOK, CompleteByHand, player, server
<1> QED BY <1>1, <1>2, <1>3, <1>4, <1>5, <1>6, <1>7, <1>8, <1>9

\* A save starts with a percentage.
LEMMA SaveStartKeeps ==
  ASSUME IInv, NEW w \in Worker, NEW p \in 0..Full, SaveStart(w, p)
  PROVE  IInv'
<1> USE DEF IInv
<1>n. p \in Nat
  BY DEF TypeOK
<1> DEFINE j == [NoJob EXCEPT !.of = whole, !.claim = p]
<1>j. /\ j \in Job /\ j.of = whole /\ j.sent = 0 /\ j.claim = p
  BY <1>n, NoJobType DEF Job, TypeOK
<1>p. /\ pc[w] = "idle" /\ job[w].of = None
      /\ pc' \in [Worker -> {"idle", "report", "reportWrite", "mark", "check", "complete", "save", "saveWrite"}]
      /\ job' \in [Worker -> Job] /\ pc'[w] = "save" /\ job'[w] = j
      /\ \A v \in Worker \ {w} : pc'[v] = pc[v] /\ job'[v] = job[v]
      /\ requests' \in Nat
      /\ crossed' = IF About(j.of) = {} THEN crossed ELSE crossed \union {j.of}
  BY <1>j DEF SaveStart, Begin, TypeOK
<1> HIDE DEF j
<1>t. \A v \in Worker : job[v].sent \in Nat /\ job[v].claim \in Nat /\ job[v].value \in Nat
                        /\ job[v].completed \in BOOLEAN /\ job[v].found \in BOOLEAN
  BY JobType
<1>r. row[video] # None => row[video].at \in Nat /\ row[video].watched \in Nat
  BY RowType
<1>1. TypeOK'
  BY <1>j, <1>p, <1>t, <1>r, <1>n DEF TypeOK, SaveStart, player, server
<1>2. PastInv'
  BY <1>j, <1>p, <1>t, <1>r, <1>n DEF PastInv, TypeOK, SaveStart, player, server
<1>3. PlausibleInv'
  BY <1>j, <1>p, <1>t, <1>r, <1>n DEF PlausibleInv, WatchedIsPlausible, PastInv, TypeOK, SaveStart, player, server
<1>4. AloneInv'
  BY <1>j, <1>p, <1>t, <1>r, <1>n DEF AloneInv, About, TypeOK, SaveStart, player, server
<1>5. SticksInv'
  BY <1>j, <1>p, <1>t, <1>r, <1>n DEF SticksInv, AloneInv, About, Done, TypeOK, SaveStart, player, server
<1>6. PercentInv'
  BY <1>j, <1>p, <1>t, <1>r, <1>n DEF PercentInv, AloneInv, About, TypeOK, SaveStart, player, server
<1>7. ThresholdInv'
  BY <1>j, <1>p, <1>t, <1>r, <1>n DEF ThresholdInv, TypeOK, SaveStart, player, server
<1>8. CreditInv'
  BY <1>j, <1>p, <1>t, <1>r, <1>n DEF CreditInv, Clean, Watched, InFlight, PastInv, TypeOK, SaveStart, player, server
<1>9. LessonFollows'
  BY <1>j, <1>p, <1>t, <1>r, <1>n DEF LessonFollows, Done, TypeOK, SaveStart, player, server
<1> QED BY <1>1, <1>2, <1>3, <1>4, <1>5, <1>6, <1>7, <1>8, <1>9

\* What fails writes nothing.
LEMMA FailKeeps ==
  ASSUME IInv, NEW w \in Worker, Fail(w)
  PROVE  IInv'
<1> USE DEF IInv
<1>t. \A v \in Worker : job[v].sent \in Nat /\ job[v].claim \in Nat /\ job[v].value \in Nat
                        /\ job[v].completed \in BOOLEAN /\ job[v].found \in BOOLEAN
                        /\ job[v].of \in Item \union {whole, None}
  BY JobType
<1>r. row[video] # None => row[video].at \in Nat /\ row[video].watched \in Nat /\ row[video].completed \in BOOLEAN
  BY RowType
<1>p. /\ pc[w] # "idle"
      /\ pc' \in [Worker -> {"idle", "report", "reportWrite", "mark", "check", "complete", "save", "saveWrite"}]
      /\ job' \in [Worker -> Job] /\ pc'[w] = "idle" /\ job'[w] = NoJob
      /\ \A v \in Worker \ {w} : pc'[v] = pc[v] /\ job'[v] = job[v]
  BY NoJobType DEF Fail, Finish, TypeOK
<1>1. TypeOK'
  BY <1>p, NoJobType DEF TypeOK, Fail, player, server, history
<1>2. PastInv'
  BY <1>p, NoJobType DEF PastInv, TypeOK, Fail, player, server, history
<1>3. PlausibleInv'
  BY <1>p DEF PlausibleInv, WatchedIsPlausible, PastInv, TypeOK, Fail, player, server, history
<1>4. AloneInv'
  BY <1>p, NoJobType DEF AloneInv, About, TypeOK, Fail, player, server, history
<1>5. SticksInv'
  BY <1>p DEF SticksInv, AloneInv, About, Done, TypeOK, Fail, player, server, history
<1>6. PercentInv'
  BY <1>p DEF PercentInv, AloneInv, About, TypeOK, Fail, player, server, history
<1>7. ThresholdInv'
  BY <1>p DEF ThresholdInv, TypeOK, Fail, player, server, history
<1>8. CreditInv'
  BY DEF CreditInv, Clean, Watched, InFlight, PastInv, TypeOK, Fail, player, server, history
<1>9. LessonFollows'
  BY DEF LessonFollows, Done, TypeOK, Fail, player, server, history
<1> QED BY <1>1, <1>2, <1>3, <1>4, <1>5, <1>6, <1>7, <1>8, <1>9

\* The lesson is completed.
LEMMA CompleteLessonKeeps ==
  ASSUME IInv, NEW w \in Worker, CompleteLesson(w)
  PROVE  IInv'
<1> USE DEF IInv
<1>t. \A v \in Worker : job[v].sent \in Nat /\ job[v].claim \in Nat /\ job[v].value \in Nat
                        /\ job[v].completed \in BOOLEAN /\ job[v].found \in BOOLEAN
                        /\ job[v].of \in Item \union {whole, None}
  BY JobType
<1>r. row[video] # None => row[video].at \in Nat /\ row[video].watched \in Nat /\ row[video].completed \in BOOLEAN
  BY RowType
<1>p. /\ pc[w] = "complete"
      /\ pc' \in [Worker -> {"idle", "report", "reportWrite", "mark", "check", "complete", "save", "saveWrite"}]
      /\ job' \in [Worker -> Job] /\ pc'[w] = "idle" /\ job'[w] = NoJob
      /\ \A v \in Worker \ {w} : pc'[v] = pc[v] /\ job'[v] = job[v]
  BY NoJobType DEF CompleteLesson, Finish, TypeOK
<1>g. best' \in Nat /\ best' >= best /\ best' >= Full /\ (best <= Full => best' = Full)
  BY DEF CompleteLesson, Greater, TypeOK
<1>1. TypeOK'
  BY <1>p, <1>g, NoJobType DEF TypeOK, CompleteLesson, player, bounds
<1>2. PastInv'
  BY <1>p, NoJobType DEF PastInv, TypeOK, CompleteLesson, player, bounds
<1>3. PlausibleInv'
  BY <1>p DEF PlausibleInv, WatchedIsPlausible, PastInv, TypeOK, CompleteLesson, player, bounds
<1>4. AloneInv'
  BY <1>p, NoJobType DEF AloneInv, About, TypeOK, CompleteLesson, player, bounds
<1>5. SticksInv'
  BY <1>p DEF SticksInv, AloneInv, About, Done, TypeOK, CompleteLesson, player, bounds
<1>6. PercentInv'
  BY <1>p, <1>g DEF PercentInv, AloneInv, About, TypeOK, CompleteLesson, player, bounds
<1>7. ThresholdInv'
  BY <1>p DEF ThresholdInv, TypeOK, CompleteLesson, player, bounds
<1>8. CreditInv'
  BY <1>p DEF CreditInv, Clean, Watched, InFlight, PastInv, TypeOK, CompleteLesson, player, bounds
<1>9. LessonFollows'
  BY DEF LessonFollows, Done, TypeOK, CompleteLesson, player, bounds
<1> QED BY <1>1, <1>2, <1>3, <1>4, <1>5, <1>6, <1>7, <1>8, <1>9

\* A percentage is written.
LEMMA SaveWriteKeeps ==
  ASSUME IInv, NEW w \in Worker, SaveWrite(w)
  PROVE  IInv'
<1> USE DEF IInv
<1>t. \A v \in Worker : job[v].sent \in Nat /\ job[v].claim \in Nat /\ job[v].value \in Nat
                        /\ job[v].completed \in BOOLEAN /\ job[v].found \in BOOLEAN
                        /\ job[v].of \in Item \union {whole, None}
  BY JobType
<1>r. row[video] # None => row[video].at \in Nat /\ row[video].watched \in Nat /\ row[video].completed \in BOOLEAN
  BY RowType
<1>p. /\ pc[w] = "saveWrite"
      /\ pc' \in [Worker -> {"idle", "report", "reportWrite", "mark", "check", "complete", "save", "saveWrite"}]
      /\ job' \in [Worker -> Job] /\ pc'[w] = "idle" /\ job'[w] = NoJob
      /\ \A v \in Worker \ {w} : pc'[v] = pc[v] /\ job'[v] = job[v]
  BY NoJobType DEF SaveWrite, Finish, TypeOK
<1>g. best' \in Nat /\ best' >= best /\ best' >= percent' /\ best' \in {best, percent'} /\ percent' = job[w].value
  BY <1>t DEF SaveWrite, Greater, TypeOK
<1>1. TypeOK'
  BY <1>t, <1>p, <1>g, NoJobType DEF TypeOK, SaveWrite, player, bounds
<1>2. PastInv'
  BY <1>p, NoJobType DEF PastInv, TypeOK, SaveWrite, player, bounds
<1>3. PlausibleInv'
  BY <1>p DEF PlausibleInv, WatchedIsPlausible, PastInv, TypeOK, SaveWrite, player, bounds
<1>4. AloneInv'
  BY <1>p, NoJobType DEF AloneInv, About, TypeOK, SaveWrite, player, bounds
<1>5. SticksInv'
  BY <1>p DEF SticksInv, AloneInv, About, Done, TypeOK, SaveWrite, player, bounds
<1>6. PercentInv'
  BY <1>t, <1>p, <1>g DEF PercentInv, AloneInv, About, TypeOK, SaveWrite, player, bounds
<1>7. ThresholdInv'
  BY <1>p DEF ThresholdInv, TypeOK, SaveWrite, player, bounds
<1>8. CreditInv'
  BY <1>p DEF CreditInv, Clean, Watched, InFlight, PastInv, TypeOK, SaveWrite, player, bounds
<1>9. LessonFollows'
  BY <1>p DEF LessonFollows, Done, TypeOK, SaveWrite, player, bounds
<1> QED BY <1>1, <1>2, <1>3, <1>4, <1>5, <1>6, <1>7, <1>8, <1>9

\* A percentage is read.
LEMMA SaveReadKeeps ==
  ASSUME IInv, NEW w \in Worker, SaveRead(w)
  PROVE  IInv'
<1> USE DEF IInv
<1>t. \A v \in Worker : job[v].sent \in Nat /\ job[v].claim \in Nat /\ job[v].value \in Nat
                        /\ job[v].completed \in BOOLEAN /\ job[v].found \in BOOLEAN
                        /\ job[v].of \in Item \union {whole, None}
  BY JobType
<1>r. row[video] # None => row[video].at \in Nat /\ row[video].watched \in Nat /\ row[video].completed \in BOOLEAN
  BY RowType
<1>n. /\ Greater(percent, job[w].claim) \in Nat /\ Greater(percent, job[w].claim) >= percent
      /\ Greater(percent, job[w].claim) \in {percent, job[w].claim}
  BY <1>t DEF Greater, TypeOK
<1> DEFINE j == [job[w] EXCEPT !.claim = 0, !.value = Greater(percent, job[w].claim)]
<1>j. j \in Job /\ j.of = job[w].of /\ j.value = Greater(percent, job[w].claim) /\ j.sent = job[w].sent
  BY NoJobType, <1>t, <1>r, <1>n DEF TypeOK, Job
<1>p. /\ pc[w] = "save"
      /\ pc' \in [Worker -> {"idle", "report", "reportWrite", "mark", "check", "complete", "save", "saveWrite"}]
      /\ job' \in [Worker -> Job] /\ pc'[w] = "saveWrite" /\ job'[w] = j
      /\ \A v \in Worker \ {w} : pc'[v] = pc[v] /\ job'[v] = job[v]
  BY <1>j DEF SaveRead, Continue, TypeOK
<1> HIDE DEF j
<1>1. TypeOK'
  BY <1>j, <1>p DEF TypeOK, SaveRead, player, server, bounds, history
<1>2. PastInv'
  BY <1>j, <1>p DEF PastInv, TypeOK, SaveRead, player, server, bounds, history
<1>3. PlausibleInv'
  BY <1>p DEF PlausibleInv, WatchedIsPlausible, PastInv, TypeOK, SaveRead, player, server, bounds, history
<1>4. AloneInv'
  BY <1>j, <1>p DEF AloneInv, About, TypeOK, SaveRead, player, server, bounds, history
<1>5. SticksInv'
  BY <1>p DEF SticksInv, AloneInv, About, Done, TypeOK, SaveRead, player, server, bounds, history
<1>6. PercentInv'
  BY <1>n, <1>j, <1>p DEF PercentInv, AloneInv, About, TypeOK, SaveRead, player, server, bounds, history
<1>7. ThresholdInv'
  BY <1>p DEF ThresholdInv, TypeOK, SaveRead, player, server, bounds, history
<1>8. CreditInv'
  BY <1>p DEF CreditInv, Clean, Watched, InFlight, PastInv, TypeOK, SaveRead, player, server, bounds, history
<1>9. LessonFollows'
  BY <1>p DEF LessonFollows, Done, TypeOK, SaveRead, player, server, bounds, history
<1> QED BY <1>1, <1>2, <1>3, <1>4, <1>5, <1>6, <1>7, <1>8, <1>9

\* An item is marked.
LEMMA MarkWriteKeeps ==
  ASSUME IInv, NEW w \in Worker, MarkWrite(w)
  PROVE  IInv'
<1> USE DEF IInv
<1>t. \A v \in Worker : job[v].sent \in Nat /\ job[v].claim \in Nat /\ job[v].value \in Nat
                        /\ job[v].completed \in BOOLEAN /\ job[v].found \in BOOLEAN
                        /\ job[v].of \in Item \union {whole, None}
  BY JobType
<1>r. row[video] # None => row[video].at \in Nat /\ row[video].watched \in Nat /\ row[video].completed \in BOOLEAN
  BY RowType
<1> DEFINE j == job[w]
<1>j. j \in Job /\ j.of = job[w].of /\ j.sent = job[w].sent
  BY NoJobType, <1>t, <1>r DEF TypeOK, Job
<1>p. /\ pc[w] = "mark"
      /\ pc' \in [Worker -> {"idle", "report", "reportWrite", "mark", "check", "complete", "save", "saveWrite"}]
      /\ job' \in [Worker -> Job] /\ pc'[w] = "check" /\ job'[w] = j
      /\ \A v \in Worker \ {w} : pc'[v] = pc[v] /\ job'[v] = job[v]
  BY <1>j DEF MarkWrite, Continue, TypeOK
<1> HIDE DEF j
<1>i. job[w].of \in Item
  BY <1>p DEF TypeOK
<1>w. /\ row' \in [Item -> Progress \union {None}]
      /\ row'[job[w].of] # None /\ row'[job[w].of].completed /\ row'[job[w].of].at = now
      /\ row'[job[w].of].watched = IF row[job[w].of] = None THEN 0 ELSE row[job[w].of].watched
      /\ \A i \in Item \ {job[w].of} : row'[i] = row[i]
  <2>1. row[job[w].of] # None => row[job[w].of].watched \in Nat
    BY <1>i, RowType
  <2> DEFINE before == IF row[job[w].of] = None THEN 0 ELSE row[job[w].of].watched
             x == [watched |-> before, at |-> now, completed |-> TRUE]
  <2>b. before \in Nat
    BY <2>1
  <2> HIDE DEF before
  <2>2. x \in Progress /\ x # None
    <3>1. x \in Progress
      BY <2>b DEF Progress, TypeOK
    <3> QED BY <3>1
  <2>3. row' = [row EXCEPT ![job[w].of] = x]
    BY DEF MarkWrite, before
  <2>4. x.completed /\ x.at = now /\ x.watched = IF row[job[w].of] = None THEN 0 ELSE row[job[w].of].watched
    BY DEF before
  <2> HIDE DEF x
  <2> QED BY <1>i, <2>2, <2>3, <2>4 DEF TypeOK
<1>1. TypeOK'
  BY <1>w, <1>j, <1>p DEF TypeOK, MarkWrite, player, bounds
<1>2. PastInv'
  BY <1>j, <1>p DEF PastInv, TypeOK, MarkWrite, player, bounds
<1>3. PlausibleInv'
  BY <1>t, <1>r, <1>w, <1>p DEF PlausibleInv, WatchedIsPlausible, PastInv, TypeOK, MarkWrite, player, bounds
<1>4. AloneInv'
  BY <1>p DEF AloneInv, About, TypeOK, MarkWrite, player, bounds
<1>5. SticksInv'
  BY <1>w, <1>p DEF SticksInv, AloneInv, About, Done, TypeOK, MarkWrite, player, bounds
<1>6. PercentInv'
  BY <1>p DEF PercentInv, AloneInv, About, TypeOK, MarkWrite, player, bounds
<1>7. ThresholdInv'
  BY <1>p DEF ThresholdInv, TypeOK, MarkWrite, player, bounds
<1>8. CreditInv'
  BY <1>p DEF CreditInv, Clean, Watched, InFlight, PastInv, TypeOK, MarkWrite, player, bounds
<1>9. LessonFollows'
  BY <1>p DEF LessonFollows, Done, TypeOK, MarkWrite, player, bounds
<1> QED BY <1>1, <1>2, <1>3, <1>4, <1>5, <1>6, <1>7, <1>8, <1>9

\* The items are checked.
LEMMA CheckKeeps ==
  ASSUME IInv, NEW w \in Worker, Check(w)
  PROVE  IInv'
<1> USE DEF IInv
<1>t. \A v \in Worker : job[v].sent \in Nat /\ job[v].claim \in Nat /\ job[v].value \in Nat
                        /\ job[v].completed \in BOOLEAN /\ job[v].found \in BOOLEAN
                        /\ job[v].of \in Item \union {whole, None}
  BY JobType
<1>r. row[video] # None => row[video].at \in Nat /\ row[video].watched \in Nat /\ row[video].completed \in BOOLEAN
  BY RowType
<1>p. /\ pc[w] = "check" /\ job[w].of \in Item
      /\ pc' \in [Worker -> {"idle", "report", "reportWrite", "mark", "check", "complete", "save", "saveWrite"}]
      /\ job' \in [Worker -> Job]
      /\ \/ /\ \A i \in Item : Done(i)
            /\ pc'[w] = "complete" /\ job'[w] = job[w]
            /\ crossed' = IF About(whole) # {} THEN crossed \union {whole} ELSE crossed
         \/ /\ ~\A i \in Item : Done(i)
            /\ pc'[w] = "idle" /\ job'[w] = NoJob /\ crossed' = crossed
      /\ \A v \in Worker \ {w} : pc'[v] = pc[v] /\ job'[v] = job[v]
  BY NoJobType DEF Check, Continue, Finish, TypeOK
<1>1. TypeOK'
  BY <1>p, NoJobType DEF TypeOK, Check, player, server, bounds
<1>2. PastInv'
  BY <1>p, NoJobType DEF PastInv, TypeOK, Check, player, server, bounds
<1>3. PlausibleInv'
  BY <1>p DEF PlausibleInv, WatchedIsPlausible, PastInv, TypeOK, Check, player, server, bounds
<1>4. AloneInv'
  BY <1>p, NoJobType DEF AloneInv, About, TypeOK, Check, player, server, bounds
<1>5. SticksInv'
  BY <1>p DEF SticksInv, AloneInv, About, Done, TypeOK, Check, player, server, bounds
<1>6. PercentInv'
  BY <1>p DEF PercentInv, AloneInv, About, TypeOK, Check, player, server, bounds
<1>7. ThresholdInv'
  BY <1>p DEF ThresholdInv, TypeOK, Check, player, server, bounds
<1>8. CreditInv'
  BY <1>p DEF CreditInv, Clean, Watched, InFlight, PastInv, TypeOK, Check, player, server, bounds
<1>9. LessonFollows'
  BY <1>p DEF LessonFollows, Done, TypeOK, Check, player, server, bounds
<1> QED BY <1>1, <1>2, <1>3, <1>4, <1>5, <1>6, <1>7, <1>8, <1>9

\* A report is credited with what it may be.
LEMMA ReportReadKeeps ==
  ASSUME IInv, NEW w \in Worker, ReportRead(w)
  PROVE  IInv'
<1> USE DEF IInv
<1>t. \A v \in Worker : job[v].sent \in Nat /\ job[v].claim \in Nat /\ job[v].value \in Nat
                        /\ job[v].completed \in BOOLEAN /\ job[v].found \in BOOLEAN
                        /\ job[v].of \in Item \union {whole, None}
  BY JobType
<1>r. row[video] # None => row[video].at \in Nat /\ row[video].watched \in Nat /\ row[video].completed \in BOOLEAN
  BY RowType
<1>n. /\ w \in About(video) /\ job[w].of = video
      /\ Watched \in Nat /\ Duration \in Nat /\ Slack \in Nat /\ Threshold \in Nat
  BY <1>r DEF ReportRead, Watched, About, TypeOK
<1> DEFINE credit == Credit(row[video], job[w].claim)
<1>c. /\ credit \in Nat /\ credit <= job[w].claim
      /\ row[video] # None => credit <= now - row[video].at + Slack
      /\ row[video] = None \/ job[w].claim <= now - row[video].at + Slack => credit = job[w].claim
  BY <1>t, <1>r, SMTT(30) DEF Credit, Lesser, PastInv, TypeOK
<1> HIDE DEF credit
<1> DEFINE watched == Lesser(Watched + credit, Duration)
<1>d. /\ watched \in Nat /\ watched <= Watched + credit
      /\ watched = Duration \/ watched = Watched + credit
  BY <1>c, <1>n DEF Lesser
<1>e. watched = Lesser((IF row[video] = None THEN 0 ELSE row[video].watched) + Credit(row[video], job[w].claim), Duration)
  BY DEF Watched, credit
<1> DEFINE found == row[video] # None
           done == Done(video) \/ watched >= Threshold
<1>b. /\ found \in BOOLEAN /\ done \in BOOLEAN
      /\ (found <=> row[video] # None) /\ (done <=> Done(video) \/ watched >= Threshold)
  BY DEF Done
<1>a. /\ pc[w] = "report"
      /\ Continue(w, "reportWrite", [job[w] EXCEPT !.claim = 0, !.found = found, !.value = watched, !.completed = done])
  BY <1>e, Zenon DEF ReportRead
<1> HIDE DEF watched, found, done
<1> DEFINE j == [job[w] EXCEPT !.claim = 0, !.found = found, !.value = watched, !.completed = done]
<1>j. j \in Job /\ j.of = video /\ j.sent = job[w].sent /\ j.claim = 0 /\ j.value = watched
      /\ j.found = found /\ j.completed = done
  <2>1. job[w] \in Job /\ job[w].of = video
    BY <1>a DEF TypeOK
  <2> QED BY <2>1, <1>d, <1>b DEF Job
<1>p. /\ pc[w] = "report"
      /\ pc' \in [Worker -> {"idle", "report", "reportWrite", "mark", "check", "complete", "save", "saveWrite"}]
      /\ job' \in [Worker -> Job] /\ pc'[w] = "reportWrite" /\ job'[w] = j
      /\ \A v \in Worker \ {w} : pc'[v] = pc[v] /\ job'[v] = job[v]
  BY <1>a, <1>j DEF Continue, TypeOK
<1> HIDE DEF j
<1>1. TypeOK'
  BY <1>j, <1>p DEF TypeOK, ReportRead, player, server, bounds, history
<1>2. PastInv'
  BY <1>j, <1>p DEF PastInv, TypeOK, ReportRead, player, server, bounds, history
<1>3. PlausibleInv'
  <2>1. WatchedIsPlausible'
    BY DEF PlausibleInv, WatchedIsPlausible, ReportRead, server, history
  <2> DEFINE u == Slack * updates
  <2>u. u \in Nat
    BY <1>n DEF TypeOK
  <2>2. row[video] # None => watched <= head + (now - start) + u + Slack
    <3>1. row[video] # None => Watched <= head + (row[video].at - start) + u
      BY DEF PlausibleInv, WatchedIsPlausible, Watched
    <3> HIDE DEF u
    <3> QED BY <3>1, <2>u, <1>c, <1>d, <1>n, <1>r DEF PastInv, TypeOK
  <2>3. ASSUME NEW v \in Worker, pc'[v] = "reportWrite", job'[v].found
        PROVE  row[video] # None /\ job'[v].value <= head + (now - start) + u + Slack
    BY <2>2, <2>3, <1>b, <1>j, <1>p DEF PlausibleInv
  <2>4. UNCHANGED <<row, head, now, start, updates>>
    BY DEF ReportRead, server, history
  <2> QED BY <2>1, <2>3, <2>4 DEF PlausibleInv
<1>4. AloneInv'
  BY <1>j, <1>p DEF AloneInv, About, TypeOK, ReportRead, player, server, bounds, history
<1>5. SticksInv'
  BY <1>b, <1>j, <1>p DEF SticksInv, AloneInv, About, Done, TypeOK, ReportRead, player, server, bounds, history
<1>6. PercentInv'
  BY <1>p DEF PercentInv, AloneInv, About, TypeOK, ReportRead, player, server, bounds, history
<1>7. ThresholdInv'
  BY <1>b, <1>j, <1>p DEF ThresholdInv, TypeOK, ReportRead, player, server, bounds, history
<1>8. CreditInv'
  <2> SUFFICES ASSUME Clean PROVE CreditInv'
    BY DEF CreditInv, Clean, ReportRead, bounds, history
  <2>1. \A v \in Worker \ {w} : ~InFlight(v)
    BY <1>n DEF AloneInv, About, InFlight, Clean, TypeOK
  <2>2. /\ played - reported <= now - job[w].sent /\ reported <= Watched + job[w].claim
        /\ row[video] # None => job[w].claim <= now - row[video].at + Slack
    BY <1>p DEF CreditInv, InFlight
  <2>3. reported <= watched \/ watched >= Threshold
    BY <2>2, <1>c, <1>d, <1>t, <1>n DEF TypeOK
  <2>4. UNCHANGED <<now, played, reported, row>>
    BY DEF ReportRead, player, server
  <2> QED BY <2>1, <2>2, <2>3, <2>4, <1>p, <1>j DEF CreditInv, InFlight
<1>9. LessonFollows'
  BY <1>p DEF LessonFollows, Done, TypeOK, ReportRead, player, server, bounds, history
<1> QED BY <1>1, <1>2, <1>3, <1>4, <1>5, <1>6, <1>7, <1>8, <1>9

\* A report is written.
LEMMA ReportWriteKeeps ==
  ASSUME IInv, NEW w \in Worker, ReportWrite(w)
  PROVE  IInv'
<1> USE DEF IInv
<1>t. \A v \in Worker : job[v].sent \in Nat /\ job[v].claim \in Nat /\ job[v].value \in Nat
                        /\ job[v].completed \in BOOLEAN /\ job[v].found \in BOOLEAN
                        /\ job[v].of \in Item \union {whole, None}
  BY JobType
<1>r. row[video] # None => row[video].at \in Nat /\ row[video].watched \in Nat /\ row[video].completed \in BOOLEAN
  BY RowType
<1>n. /\ w \in About(video) /\ job[w].of = video /\ video \in Item
      /\ Duration \in Nat /\ Slack \in Nat /\ Threshold \in Nat
  BY DEF ReportWrite, About, TypeOK
<1> DEFINE x == [watched |-> job[w].value, at |-> now, completed |-> job[w].completed]
<1>x. /\ x \in Progress /\ x # None
      /\ x.watched = job[w].value /\ x.at = now /\ x.completed = job[w].completed
  BY <1>t DEF Progress, TypeOK
<1>e. row' = [row EXCEPT ![video] = x]
  BY DEF ReportWrite
<1> HIDE DEF x
<1>w. /\ row' \in [Item -> Progress \union {None}] /\ row'[video] = x
      /\ \A i \in Item \ {video} : row'[i] = row[i]
  BY <1>e, <1>x, <1>n DEF TypeOK
<1>p. /\ pc[w] = "reportWrite"
      /\ pc' \in [Worker -> {"idle", "report", "reportWrite", "mark", "check", "complete", "save", "saveWrite"}]
      /\ job' \in [Worker -> Job] /\ pc'[w] = "check"
      /\ job'[w].of = video /\ job'[w].sent = 0 /\ job'[w] \in Job
      /\ \A v \in Worker \ {w} : pc'[v] = pc[v] /\ job'[v] = job[v]
  <2>1. [NoJob EXCEPT !.of = video] \in Job
        /\ [NoJob EXCEPT !.of = video].of = video /\ [NoJob EXCEPT !.of = video].sent = 0
    BY NoJobType, <1>n DEF Job
  <2> QED BY <2>1 DEF ReportWrite, Continue, TypeOK
<1>h. /\ head' \in Nat /\ head' >= head /\ (~job[w].found => head' >= job[w].value)
      /\ start' \in Nat /\ start' <= now /\ (row[video] # None => start' = start)
      /\ updates' \in Nat
      /\ IF row[video] # None THEN Slack * updates' = Slack * updates + Slack
                             ELSE updates' = updates
      /\ Slack * updates \in Nat /\ Slack * updates' \in Nat
  <2>1. head' \in Nat /\ head' >= head /\ (~job[w].found => head' >= job[w].value)
    BY <1>t DEF ReportWrite, Greater, TypeOK
  <2>2. start' \in Nat /\ start' <= now /\ (row[video] # None => start' = start)
    BY DEF ReportWrite, PastInv, TypeOK
  <2>3. updates' = IF row[video] = None THEN updates ELSE updates + 1
    BY DEF ReportWrite
  <2>4. updates \in Nat /\ Slack * (updates + 1) = Slack * updates + Slack /\ Slack * updates \in Nat
    BY <1>n DEF TypeOK
  <2> QED BY <2>1, <2>2, <2>3, <2>4, <1>n
<1>s. /\ finished' = IF job[w].completed THEN finished \union {video} ELSE finished
      /\ UNCHANGED <<now, played, reported, lesson, percent, requests, faults, best, crossed, fast>>
  BY DEF ReportWrite, player, bounds
<1>1. TypeOK'
  BY <1>w, <1>p, <1>h DEF TypeOK, ReportWrite, player, bounds
<1>2. PastInv'
  BY <1>p DEF PastInv, TypeOK, ReportWrite, player, bounds
<1>3. PlausibleInv'
  <2> DEFINE u == Slack * updates
  <2>u. u \in Nat /\ u' \in Nat /\ (row[video] # None => u' = u + Slack)
    BY <1>h
  <2> HIDE DEF u
  <2>1. WatchedIsPlausible'
    <3>1. CASE job[w].found
      <4>1. row[video] # None /\ job[w].value <= head + (now - start) + u + Slack
        BY <3>1, <1>p DEF PlausibleInv, u
      <4>2. job[w].value <= head' + (now - start') + u'
        BY <4>1, <1>h, <1>t, <2>u, <1>n DEF TypeOK
      <4> QED BY <4>2, <1>w, <1>x DEF WatchedIsPlausible, u
    <3>2. CASE ~job[w].found
      <4>1. job[w].value <= head' + (now - start') + u'
        BY <3>2, <1>h, <1>t, <2>u DEF TypeOK
      <4> QED BY <4>1, <1>w, <1>x DEF WatchedIsPlausible, u
    <3> QED BY <3>1, <3>2, <1>t
  <2>2. ASSUME NEW v \in Worker, pc'[v] = "reportWrite", job'[v].found
        PROVE  row'[video] # None
               /\ job'[v].value <= head' + (now' - start') + Slack * updates' + Slack
    <3>1. v # w /\ row[video] # None /\ job'[v] = job[v]
          /\ job[v].value <= head + (now - start) + u + Slack
      BY <2>2, <1>p DEF PlausibleInv, u
    <3>2. job[v].value <= head' + (now - start') + u' + Slack
      BY <3>1, <1>h, <1>t, <1>n, <2>u DEF TypeOK
    <3> QED BY <3>1, <3>2, <1>w, <1>x, <1>s DEF u
  <2> QED BY <2>1, <2>2 DEF PlausibleInv
<1>4. AloneInv'
  BY <1>p DEF AloneInv, About, TypeOK, ReportWrite, player, bounds
<1>5. SticksInv'
  BY <1>x, <1>w, <1>p DEF SticksInv, AloneInv, About, Done, TypeOK, ReportWrite, player, bounds
<1>6. PercentInv'
  BY <1>p DEF PercentInv, AloneInv, About, TypeOK, ReportWrite, player, bounds
<1>7. ThresholdInv'
  BY <1>p DEF ThresholdInv, TypeOK, ReportWrite, player, bounds
<1>8. CreditInv'
  <2> SUFFICES ASSUME Clean' PROVE CreditInv'
    BY DEF CreditInv
  <2>1. Clean /\ now <= job[w].sent + Slack
    <3>1. slow' = (slow \/ now > job[w].sent + Slack)
      BY DEF ReportWrite
    <3>2. ~slow /\ ~(now > job[w].sent + Slack)
      BY Zenon, <3>1 DEF Clean
    <3>3. Clean
      BY <3>2, <1>s DEF Clean
    <3> QED BY <3>2, <3>3, <1>t, <1>n DEF TypeOK
  <2>2. \A v \in Worker \ {w} : ~InFlight(v)
    BY <2>1, <1>n DEF AloneInv, About, InFlight, Clean, TypeOK
  <2>3. played - reported <= now - job[w].sent
        /\ (reported <= job[w].value \/ job[w].value >= Threshold)
    BY <2>1, <1>p DEF CreditInv, InFlight
  <2>6. ~(job[w].value >= Threshold)
    <3>1. ~job[w].completed
      BY <1>s DEF Clean
    <3> QED BY <3>1, <1>p DEF ThresholdInv
  <2>4. \A v \in Worker : ~(pc'[v] \in {"report", "reportWrite"})
    BY <2>2, <1>p DEF InFlight
  <2>5. played' - reported' <= now' - row'[video].at + Slack /\ reported' <= Watched'
    BY <2>1, <2>3, <2>6, <1>w, <1>x, <1>s, <1>t, <1>n DEF Watched, TypeOK
  <2> QED BY <2>4, <2>5 DEF CreditInv, InFlight
<1>9. LessonFollows'
  BY <1>p DEF LessonFollows, Done, TypeOK, ReportWrite, player, bounds
<1> QED BY <1>1, <1>2, <1>3, <1>4, <1>5, <1>6, <1>7, <1>8, <1>9

\* POST /progress writes the lesson's row only, and marks whom it crosses.
LEMMA ProgressSentKeeps ==
  ASSUME IInv, NEW p \in 0..Full, NEW completed \in BOOLEAN, ProgressSent(p, completed)
  PROVE  IInv'
<1> USE DEF IInv
<1>t. \A v \in Worker : job[v].sent \in Nat /\ job[v].claim \in Nat /\ job[v].value \in Nat
                        /\ job[v].of \in Item \union {whole, None}
  BY JobType
<1>r. row[video] # None => row[video].at \in Nat /\ row[video].watched \in Nat
  BY RowType
<1>b. /\ requests' \in Nat
      /\ UNCHANGED <<now, played, reported, row, pc, job, faults, start, head, updates, finished,
                     slow, fast>>
  BY DEF ProgressSent, player, handler, TypeOK
<1>p. lesson' \in BOOLEAN /\ percent' \in Nat /\ percent' <= Full /\ best' = percent'
  BY DEF ProgressSent, TypeOK
<1>c. /\ crossed' \subseteq Item \union {whole} /\ crossed \subseteq crossed'
      /\ crossed' \subseteq crossed \union {whole}
      /\ whole \notin crossed' => \A w \in Worker : pc[w] # "saveWrite"
  BY DEF ProgressSent, About, TypeOK
<1>x. retracted' \in BOOLEAN /\ (lesson \/ retracted => lesson' \/ retracted')
  BY DEF ProgressSent, TypeOK
<1>1. TypeOK'
  BY <1>b, <1>p, <1>c, <1>x DEF TypeOK
<1>2. PastInv'
  BY <1>b DEF PastInv
<1>3. PlausibleInv'
  BY <1>b DEF PlausibleInv, WatchedIsPlausible
<1>4. AloneInv'
  BY <1>b, <1>c DEF AloneInv, About
<1>5. SticksInv'
  BY <1>b, <1>c DEF SticksInv, Done
<1>6. PercentInv'
  BY <1>b, <1>c, <1>p DEF PercentInv
<1>7. ThresholdInv'
  BY <1>b DEF ThresholdInv
<1>8. CreditInv'
  BY <1>b, <1>c, <1>t, <1>r DEF CreditInv, Clean, Watched, InFlight
<1>9. LessonFollows'
  BY <1>b, <1>x DEF LessonFollows, Done
<1> QED BY <1>1, <1>2, <1>3, <1>4, <1>5, <1>6, <1>7, <1>8, <1>9

\* Every step keeps the invariant.
THEOREM InvariantIsInductive == IInv /\ [Next]_vars => IInv'
<1> SUFFICES ASSUME IInv, [Next]_vars PROVE IInv'
  OBVIOUS
<1>1. ASSUME NEW w \in Worker, Request(w) PROVE IInv'
  BY <1>1, ReportKeeps, CompleteByHandKeeps, MarkStartKeeps, SaveStartKeeps DEF Request
<1>2. ASSUME NEW w \in Worker, Proceed(w) PROVE IInv'
  BY <1>2, ReportReadKeeps, ReportWriteKeeps, MarkWriteKeeps, CheckKeeps, CompleteLessonKeeps,
     SaveReadKeeps, SaveWriteKeeps DEF Proceed
<1>3. ASSUME NEW w \in Worker, Fail(w) PROVE IInv'
  BY <1>3, FailKeeps
<1>4. ASSUME NEW speed \in Speed, Tick(speed) PROVE IInv'
  BY <1>4, TickKeeps
<1>5. CASE Reopen
  BY <1>5, ReopenKeeps
<1>6. ASSUME NEW p \in 0..Full, NEW completed \in BOOLEAN, ProgressSent(p, completed) PROVE IInv'
  BY <1>6, ProgressSentKeeps
<1>7. CASE UNCHANGED vars
  BY <1>7 DEF IInv, TypeOK, PastInv, PlausibleInv, WatchedIsPlausible, AloneInv, About, SticksInv,
     Done, PercentInv, ThresholdInv, CreditInv, Clean, InFlight, Watched, LessonFollows,
     vars, player, server, handler, bounds, history
<1> QED BY <1>1, <1>2, <1>3, <1>4, <1>5, <1>6, <1>7 DEF Next, Over

\* A lesson nobody has opened satisfies it.
LEMMA InitEstablishesInvariant == Init => IInv
<1> SUFFICES ASSUME Init PROVE IInv
  OBVIOUS
<1>1. TypeOK
  <2>1. row \in [Item -> Progress \union {None}] /\ pc \in [Worker -> {"idle"}]
        /\ job \in [Worker -> Job]
    BY NoJobType DEF Init
  <2>2. \A w \in Worker : pc[w] = "idle" /\ job[w].of = None
    BY NoJobType DEF Init
  <2>3. /\ now \in Nat /\ played \in Nat /\ reported \in Nat /\ reported <= played
        /\ lesson \in BOOLEAN /\ percent \in Nat /\ requests \in Nat /\ faults \in Nat
    <3>1. now = 0 /\ played = 0 /\ reported = 0 /\ percent = 0 /\ requests = 0 /\ faults = 0
      BY DEF Init
    <3>2. lesson \in BOOLEAN
      BY DEF Init
    <3> QED BY <3>1, <3>2
  <2>4. /\ start \in Nat /\ head \in Nat /\ updates \in Nat /\ best \in Nat
        /\ finished \subseteq Item /\ crossed \subseteq Item \union {whole}
        /\ retracted \in BOOLEAN /\ slow \in BOOLEAN /\ fast \in BOOLEAN
    BY DEF Init
  <2>5. /\ pc \in [Worker -> {"idle", "report", "reportWrite", "mark", "check", "complete",
                              "save", "saveWrite"}]
        /\ \A w \in Worker : pc[w] \notin {"report", "reportWrite", "mark", "check", "save", "saveWrite"}
    BY <2>1, <2>2
  <2> QED BY <2>1, <2>2, <2>3, <2>4, <2>5 DEF TypeOK
<1>2. \A w \in Worker : pc[w] = "idle" /\ job[w] = NoJob
  BY DEF Init
<1>3. \A i \in Item : row[i] = None /\ ~Done(i)
  BY DEF Init, Done
<1>4. PastInv /\ PlausibleInv /\ SticksInv /\ PercentInv /\ ThresholdInv
  BY <1>2, <1>3, NoJobType DEF Init, PastInv, PlausibleInv, WatchedIsPlausible, SticksInv,
     PercentInv, ThresholdInv
<1>5. AloneInv
  BY <1>2, NoJobType DEF AloneInv, About
<1>6. CreditInv /\ LessonFollows
  BY <1>2, <1>3 DEF Init, CreditInv, InFlight, Watched, LessonFollows
<1> QED BY <1>1, <1>4, <1>5, <1>6 DEF IInv

THEOREM InvariantHolds == Spec => []IInv
  BY InitEstablishesInvariant, InvariantIsInductive, PTL DEF Spec

\* Every variable keeps its type.
THEOREM TypesHold == Spec => []TypeOK
  BY InvariantHolds, PTL DEF IInv

\* The watched time never outgrows the clock, however many reports overlap.
THEOREM WatchedTimeIsPlausible == Spec => []WatchedIsPlausible
  BY InvariantHolds, PTL DEF IInv, PlausibleInv

\* What the invariant says of a state is what the student is promised.
LEMMA InvariantImpliesProgress == IInv => ProgressHolds
<1> SUFFICES ASSUME IInv PROVE ProgressHolds
  OBVIOUS
<1> USE DEF IInv
<1>1. WatchingCompletes
  <2> SUFFICES ASSUME ~(reported < Threshold), reported # 0, About(video) = {},
                      video \notin crossed, ~(faults > 0), ~slow, ~fast
               PROVE  Done(video)
    BY Zenon DEF WatchingCompletes
  <2>1. CASE video \in finished
    BY <2>1 DEF SticksInv
  <2>2. CASE video \notin finished
    <3>1. Clean /\ \A w \in Worker : ~InFlight(w)
      BY <2>2 DEF Clean, InFlight, About, TypeOK
    <3>2. reported <= Watched /\ reported \in Nat
      BY <3>1 DEF CreditInv, TypeOK
    <3>3. row[video] # None /\ row[video].watched >= Threshold
      BY <3>2, RowType DEF Watched, TypeOK
    <3> QED BY <3>3 DEF ThresholdInv, Done
  <2> QED BY <2>1, <2>2
<1>2. ProgressSticks
  BY DEF ProgressSticks, SticksInv, PercentInv
<1> QED BY <1>1, <1>2 DEF ProgressHolds

\* Watching to the end completes a video, progress is kept and a lesson follows
\* its items, with the exceptions ProgressHolds names and no others.
THEOREM ProgressIsCreditedAndKept == Spec => []ProgressHolds
  BY InvariantHolds, InvariantImpliesProgress, PTL
HIDE ContentProgressAssumption

-----------------------------------------------------------------------------
(* LessonEditor: the items of a list, and lists without doubles *)

ItemsOf(bs) == {bs[n].key : n \in DOMAIN bs}
OneEach(bs) == \A m, n \in DOMAIN bs : bs[m].key = bs[n].key => m = n
IdsDiffer(bs) == \A m, n \in DOMAIN bs : bs[m].id = bs[n].id /\ bs[n].id # Nil => m = n

\* Every item of r is an item of bs, each of another.
Drawn(r, bs, p) ==
  /\ p \in [DOMAIN r -> DOMAIN bs]
  /\ \A m, n \in DOMAIN r : p[m] = p[n] => m = n
  /\ \A m \in DOMAIN r : r[m].key = bs[p[m]].key /\ r[m].id = bs[p[m]].id

-----------------------------------------------------------------------------
(* Lists *)

LEMMA Appending ==
  ASSUME NEW bs \in Seq(Block), NEW b \in Block
  PROVE  /\ Append(bs, b) \in Seq(Block)
         /\ DOMAIN Append(bs, b) = DOMAIN bs \union {Len(bs) + 1} /\ Len(bs) + 1 \notin DOMAIN bs
         /\ \A n \in DOMAIN bs : Append(bs, b)[n] = bs[n]
         /\ Append(bs, b)[Len(bs) + 1] = b
  OBVIOUS

LEMMA Removing ==
  ASSUME NEW bs \in Seq(Block), NEW n \in DOMAIN bs
  PROVE  /\ RemoveAt(bs, n) \in Seq(Block)
         /\ Len(RemoveAt(bs, n)) = Len(bs) - 1 /\ DOMAIN RemoveAt(bs, n) = 1..Len(bs) - 1
         /\ \A m \in 1..Len(bs) - 1 :
              RemoveAt(bs, n)[m] = IF m < n THEN bs[m] ELSE bs[m + 1]
<1> DEFINE a == SubSeq(bs, 1, n - 1)
           b == SubSeq(bs, n + 1, Len(bs))
<1>1. n \in 1..Len(bs) /\ Len(bs) \in Nat OBVIOUS
<1>2. a \in Seq(Block) /\ Len(a) = n - 1 /\ \A m \in 1..n - 1 : a[m] = bs[m] BY <1>1
<1>3. b \in Seq(Block) /\ Len(b) = Len(bs) - n /\ \A m \in 1..Len(bs) - n : b[m] = bs[n + m] BY <1>1
<1>4. RemoveAt(bs, n) = a \o b BY DEF RemoveAt
<1> HIDE DEF a, b
<1>5. /\ a \o b \in Seq(Block) /\ Len(a \o b) = Len(bs) - 1
      /\ \A m \in 1..Len(bs) - 1 : (a \o b)[m] = IF m <= n - 1 THEN a[m] ELSE b[m - (n - 1)]
      <2>1. Len(a) + Len(b) = Len(bs) - 1 BY <1>1, <1>2, <1>3
      <2>2. /\ a \o b \in Seq(Block) /\ Len(a \o b) = Len(a) + Len(b)
            /\ \A m \in 1..Len(a) + Len(b) : (a \o b)[m] = IF m <= Len(a) THEN a[m] ELSE b[m - Len(a)]
            BY <1>2, <1>3, ConcatProperties
      <2>3. Len(a) = n - 1 BY <1>2
      <2> QED BY <2>1, <2>2, <2>3
<1> QED
  <2>1. ASSUME NEW m \in 1..Len(bs) - 1
        PROVE  (a \o b)[m] = IF m < n THEN bs[m] ELSE bs[m + 1]
        <3>1. CASE m < n BY <1>1, <1>2, <1>5, <3>1
        <3>2. CASE ~(m < n)
              <4>1. m - (n - 1) \in 1..Len(bs) - n /\ n + (m - (n - 1)) = m + 1 BY <1>1, <3>2
              <4>2. b[m - (n - 1)] = bs[m + 1] BY <1>3, <4>1
              <4>3. ~(m <= n - 1) BY <1>1, <3>2
              <4>4. (a \o b)[m] = b[m - (n - 1)] BY <1>5, <4>3
              <4> QED BY <3>2, <4>2, <4>4
        <3> QED BY <3>1, <3>2
  <2> QED BY <1>1, <1>4, <1>5, <2>1

\* r has the items of bs in another order.
Permuted(r, bs, p) ==
  /\ p \in [DOMAIN bs -> DOMAIN bs]
  /\ \A m, n \in DOMAIN bs : p[m] = p[n] => m = n
  /\ \A n \in DOMAIN bs : \E m \in DOMAIN bs : p[m] = n
  /\ \A m \in DOMAIN bs : r[m] = bs[p[m]]

LEMMA Moving ==
  ASSUME NEW bs \in Seq(Block), NEW from \in DOMAIN bs, NEW to \in DOMAIN bs,
         NEW r, r = InsertAt(RemoveAt(bs, from), to, bs[from])
  PROVE  /\ r \in Seq(Block) /\ DOMAIN r = DOMAIN bs
         /\ \E p : Permuted(r, bs, p)
<1> DEFINE q == RemoveAt(bs, from)
           a == SubSeq(q, 1, to - 1)
           b == SubSeq(q, to, Len(q))
           rest(m) == IF m < from THEN m ELSE m + 1
           p == [m \in DOMAIN bs |-> IF m = to THEN from
                                       ELSE IF m < to THEN rest(m) ELSE rest(m - 1)]
<1>1. from \in 1..Len(bs) /\ to \in 1..Len(bs) /\ Len(bs) \in Nat /\ DOMAIN bs = 1..Len(bs) OBVIOUS
<1>2. q \in Seq(Block) /\ Len(q) = Len(bs) - 1 /\ \A m \in 1..Len(bs) - 1 : q[m] = bs[rest(m)]
      
      <2>1. /\ RemoveAt(bs, from) \in Seq(Block) /\ Len(RemoveAt(bs, from)) = Len(bs) - 1
            /\ \A m \in 1..Len(bs) - 1 : RemoveAt(bs, from)[m] = bs[rest(m)]
            BY Removing
      <2> QED BY <1>1, <2>1
<1> HIDE DEF q
<1>3. a \in Seq(Block) /\ Len(a) = to - 1 /\ \A m \in 1..to - 1 : a[m] = q[m] BY <1>1, <1>2
<1>4. b \in Seq(Block) /\ Len(b) = Len(bs) - to /\ \A m \in 1..Len(bs) - to : b[m] = q[to - 1 + m] BY <1>1, <1>2
<1>5. r = (a \o <<bs[from]>>) \o b BY DEF InsertAt, q
<1> HIDE DEF a, b
<1> DEFINE c == a \o <<bs[from]>>
<1>6. bs[from] \in Block OBVIOUS
<1>7. c \in Seq(Block) /\ Len(c) = to /\ c[to] = bs[from] /\ \A m \in 1..to - 1 : c[m] = q[m]
      BY <1>1, <1>3, <1>6
<1>8. r = c \o b BY <1>5
<1> HIDE DEF c
<1>9. /\ r \in Seq(Block) /\ Len(r) = Len(bs)
      /\ \A m \in 1..Len(bs) : r[m] = IF m <= to THEN c[m] ELSE b[m - to]
      <2>1. /\ c \o b \in Seq(Block) /\ Len(c \o b) = Len(c) + Len(b)
            /\ \A m \in 1..Len(c) + Len(b) : (c \o b)[m] = IF m <= Len(c) THEN c[m] ELSE b[m - Len(c)]
            BY <1>4, <1>7, ConcatProperties
      <2>2. Len(c) = to /\ Len(c) + Len(b) = Len(bs) BY <1>1, <1>4, <1>7
      <2> QED BY <1>8, <2>1, <2>2
<1>10. ASSUME NEW m \in 1..Len(bs) PROVE r[m] = bs[p[m]]
       <2>1. CASE m = to BY <1>1, <1>7, <1>9, <2>1
       <2>2. CASE m < to
             <3>1. r[m] = q[m] /\ p[m] = rest(m) BY <1>1, <1>7, <1>9, <2>2
             <3> QED BY <1>1, <1>2, <2>2, <3>1
       <2>3. CASE m > to
             <3>1. m - to \in 1..Len(bs) - to /\ to - 1 + (m - to) = m - 1 BY <1>1, <2>3
             <3>2. r[m] = b[m - to] /\ p[m] = rest(m - 1) BY <1>1, <1>9, <2>3
             <3>3. b[m - to] = q[m - 1] BY <1>4, <3>1
             <3>4. m - 1 \in 1..Len(bs) - 1 BY <1>1, <2>3
             <3> QED BY <1>2, <3>2, <3>3, <3>4
       <2> QED BY <1>1, <2>1, <2>2, <2>3
<1>11. p \in [DOMAIN bs -> DOMAIN bs] BY <1>1
<1>12. ASSUME NEW m \in DOMAIN bs, NEW n \in DOMAIN bs, p[m] = p[n] PROVE m = n BY <1>1, <1>12
<1>13. ASSUME NEW n \in DOMAIN bs PROVE \E m \in DOMAIN bs : p[m] = n
       <2>1. CASE n = from BY <1>1, <2>1
       <2>2. CASE n # from
             <3> DEFINE k == IF n < from THEN n ELSE n - 1
             <3>1. k \in 1..Len(bs) - 1 /\ rest(k) = n BY <1>1, <2>2
             <3>2. CASE k < to BY <1>1, <3>1, <3>2
             <3>3. CASE k >= to
                   <4>1. k + 1 \in DOMAIN bs /\ p[k + 1] = n BY <1>1, <3>1, <3>3
                   <4> QED BY <4>1
             <3> QED BY <3>1, <3>2, <3>3, <1>1
       <2> QED BY <2>1, <2>2
<1>14. r \in Seq(Block) /\ DOMAIN r = DOMAIN bs BY <1>1, <1>9
<1>15. \A m \in DOMAIN bs : r[m] = bs[p[m]] BY <1>1, <1>10
<1>16. \A m, n \in DOMAIN bs : p[m] = p[n] => m = n BY <1>12
<1>17. \A n \in DOMAIN bs : \E m \in DOMAIN bs : p[m] = n BY <1>13
<1> HIDE DEF p
<1>18. Permuted(r, bs, p) BY <1>11, <1>15, <1>16, <1>17 DEF Permuted
<1> QED BY <1>14, <1>18
-----------------------------------------------------------------------------
(* The rows, by their places *)

RowsOK == rows \in [Id -> Row \union {Nil}]

LEMMA RowsAreFew == IsFiniteSet(Ids) /\ IsFiniteSet(Free) /\ Ids \subseteq Id /\ Free \subseteq Id
<1>1. IsFiniteSet(Id) BY FS_Interval, LessonEditorAssumption DEF Id
<1>2. Ids \subseteq Id /\ Free \subseteq Id BY DEF Ids, Free
<1> QED BY <1>1, <1>2, FS_Subset

LEMMA Ranks ==
  RowsOK => /\ Cardinality(Ids) \in Nat
            /\ \A i \in Ids : Rank(i) \in 1..Cardinality(Ids)
            /\ \A i, j \in Ids : Rank(i) = Rank(j) => i = j
            /\ \A n \in 1..Cardinality(Ids) : \E i \in Ids : Rank(i) = n
<1> SUFFICES ASSUME RowsOK
             PROVE  /\ Cardinality(Ids) \in Nat
                    /\ \A i \in Ids : Rank(i) \in 1..Cardinality(Ids)
                    /\ \A i, j \in Ids : Rank(i) = Rank(j) => i = j
                    /\ \A n \in 1..Cardinality(Ids) : \E i \in Ids : Rank(i) = n
    OBVIOUS
<1> DEFINE Below(i) == {j \in Ids : Before(j, i)}
<1>1. IsFiniteSet(Ids) /\ Cardinality(Ids) \in Nat BY RowsAreFew, FS_CardinalityType
<1>2. \A i \in Ids : rows[i].place \in Nat /\ i \in Nat
      BY LessonEditorAssumption DEF RowsOK, Ids, Row, Id
<1>3. ASSUME NEW i \in Ids
      PROVE  /\ Rank(i) = Cardinality(Below(i)) /\ IsFiniteSet(Below(i)) /\ i \in Below(i)
             /\ Rank(i) \in 1..Cardinality(Ids)
      <2>1. Rank(i) = Cardinality(Below(i)) BY DEF Rank
      <2>2. i \in Below(i) BY <1>2 DEF Before
      <2>3. IsFiniteSet(Below(i)) /\ Cardinality(Below(i)) <= Cardinality(Ids) BY <1>1, FS_Subset
      <2>4. Cardinality(Below(i)) \in Nat /\ Cardinality(Below(i)) # 0
            BY <2>2, <2>3, FS_CardinalityType, FS_EmptySet
      <2> QED BY <1>1, <2>1, <2>2, <2>3, <2>4
<1>4. ASSUME NEW i \in Ids, NEW j \in Ids, Before(i, j), i # j
      PROVE  Rank(i) # Rank(j)
      <2>1. Below(i) \subseteq Below(j) BY <1>2, <1>4 DEF Before
      <2>2. j \notin Below(i) BY <1>2, <1>4 DEF Before
      <2>3. Below(i) # Below(j) BY <1>3, <2>2
      <2> HIDE DEF Below
      <2> QED BY <1>3, <2>1, <2>3, FS_Subset
<1>5. ASSUME NEW i \in Ids, NEW j \in Ids, Rank(i) = Rank(j)
      PROVE  i = j
      <2>1. Before(i, j) \/ Before(j, i) BY <1>2 DEF Before
      <2> QED BY <1>4, <1>5, <2>1
<1>6. ASSUME NEW n \in 1..Cardinality(Ids)
      PROVE  \E i \in Ids : Rank(i) = n
      <2> DEFINE f == [i \in Ids |-> Rank(i)]
                 T == 1..Cardinality(Ids)
      <2>1. f \in Injection(Ids, T) BY <1>3, <1>5 DEF Injection, IsInjective
      <2>2. IsFiniteSet(T) /\ Cardinality(T) = Cardinality(Ids) BY <1>1, FS_Interval
      <2> HIDE DEF f, T
      <2>3. f \in Surjection(Ids, T) BY <2>1, <2>2, FS_Injection
      <2>4. \E i \in Ids : f[i] = n BY <2>3 DEF Surjection, T
      <2> QED BY <2>4 DEF f
<1> QED BY <1>1, <1>3, <1>5, <1>6

\* The list has each row once, at its rank.
InOrder ==
  /\ Listed \in Seq(Block) /\ DOMAIN Listed = 1..Cardinality(Ids) /\ Cardinality(Ids) \in Nat
  /\ \A n \in DOMAIN Listed : /\ Listed[n].id \in Ids /\ Rank(Listed[n].id) = n
                              /\ Listed[n] = Entry(Listed[n].id)
  /\ \A i \in Ids : Rank(i) \in DOMAIN Listed /\ Listed[Rank(i)] = Entry(i)

LEMMA ListIsInOrder == RowsOK => InOrder
<1> SUFFICES ASSUME RowsOK PROVE InOrder OBVIOUS
<1> DEFINE At(n) == CHOOSE i \in Ids : Rank(i) = n
           N == Cardinality(Ids)
<1>1. N \in Nat /\ \A n \in 1..N : At(n) \in Ids /\ Rank(At(n)) = n BY Ranks
<1>2. \A i \in Ids : Rank(i) \in 1..N /\ At(Rank(i)) = i
      <2> TAKE i \in Ids
      <2>1. Rank(i) \in 1..N BY Ranks
      <2>2. At(Rank(i)) \in Ids /\ Rank(At(Rank(i))) = Rank(i) BY <1>1, <2>1
      <2> HIDE DEF At
      <2> QED BY <2>1, <2>2, Ranks
<1>3. \A i \in Ids : Entry(i) \in Block /\ Entry(i).id = i
      BY DEF RowsOK, Ids, Row, Entry, Block
<1>4. Listed = [n \in 1..N |-> Entry(At(n))] BY DEF Listed
<1> HIDE DEF At, N
<1>5. /\ DOMAIN Listed = 1..N
      /\ \A n \in 1..N : Listed[n] = Entry(At(n)) /\ Listed[n] \in Block /\ Listed[n].id = At(n)
      BY <1>1, <1>3, <1>4
<1>6. Listed \in Seq(Block) BY <1>1, <1>3, <1>4
<1> QED BY <1>1, <1>2, <1>5, <1>6 DEF InOrder, N

LEMMA NextListIsInOrder == RowsOK' => InOrder'
  BY ListIsInOrder, PTL

LEMMA Greatest ==
  ASSUME NEW S \in SUBSET Nat, IsFiniteSet(S), S # {}
  PROVE  Max(S) \in S /\ \A y \in S : y <= Max(S)
<1> DEFINE Tops(U) == \E x \in U : \A y \in U : y <= x
           T == {U \in FiniteSubsetsOf(S) : U # {} /\ ~Tops(U)}
<1>1. T = {}
      <2> SUFFICES ASSUME T # {} PROVE FALSE OBVIOUS
      <2>1. IsWellFoundedOn(StrictSubsetOrdering(S), FiniteSubsetsOf(S))
            BY FS_StrictSubsetOrderingWellFounded
      <2>2. PICK U \in T : \A V \in T : <<V, U>> \notin StrictSubsetOrdering(S)
            <3>1. T \subseteq FiniteSubsetsOf(S) OBVIOUS
            <3> HIDE DEF T
            <3> QED BY <2>1, <3>1, WFMin
      <2>3. PICK x \in U : TRUE OBVIOUS
      <2> DEFINE V == U \ {x}
      <2>4. U \subseteq S /\ V \subseteq S /\ IsFiniteSet(V) /\ V # U
            BY <2>3, FS_RemoveElement DEF FiniteSubsetsOf
      <2>5. V \notin T BY <2>2, <2>4 DEF StrictSubsetOrdering
      <2>6. CASE V = {} BY <2>3, <2>4, <2>6
      <2>7. CASE Tops(V)
            <3>1. PICK m \in V : \A y \in V : y <= m BY <2>7
            <3>2. m \in Nat /\ x \in Nat /\ V \subseteq Nat /\ m \in U BY <2>3, <2>4, <3>1
            <3>3. CASE x <= m BY <2>3, <3>1, <3>2, <3>3
            <3>4. CASE m <= x BY <2>3, <3>1, <3>2, <3>4
            <3> QED BY <3>2, <3>3, <3>4
      <2> QED BY <2>4, <2>5, <2>6, <2>7 DEF FiniteSubsetsOf
<1>2. Tops(S) BY <1>1 DEF FiniteSubsetsOf
<1> QED BY <1>2 DEF Max

LEMMA PlacesAreNumbers ==
  RowsOK => LET top == Max({0} \union {rows[j].place : j \in Ids}) IN
            top \in Nat /\ \A j \in Ids : rows[j].place <= top
<1> SUFFICES ASSUME RowsOK
             PROVE  LET top == Max({0} \union {rows[j].place : j \in Ids}) IN
                    top \in Nat /\ \A j \in Ids : rows[j].place <= top
    OBVIOUS
<1> DEFINE P == {rows[j].place : j \in Ids}
           f == [j \in Ids |-> rows[j].place]
<1>1. P \subseteq Nat BY DEF RowsOK, Ids, Row
<1>2. f \in Surjection(Ids, P) BY DEF Surjection
<1> HIDE DEF f
<1>3. IsFiniteSet(P) BY <1>2, RowsAreFew, FS_Surjection
<1>4. IsFiniteSet({0} \union P) BY <1>3, FS_Singleton, FS_Union
<1> DEFINE Q == {0} \union P
<1>5. Q \in SUBSET Nat /\ Q # {} /\ IsFiniteSet(Q) BY <1>1, <1>4
<1> HIDE DEF Q
<1>6. Max(Q) \in Q /\ \A y \in Q : y <= Max(Q) BY <1>5, Greatest
<1>7. Max(Q) \in Nat /\ \A j \in Ids : rows[j].place \in Q BY <1>5, <1>6 DEF Q, P
<1> QED BY <1>6, <1>7 DEF Q, P

-----------------------------------------------------------------------------
(* What a save makes of the rows *)

LEMMA IdsSuffice ==
  ASSUME NEW S, NEW T, IsFiniteSet(S), IsFiniteSet(T), Cardinality(S) <= Cardinality(T)
  PROVE  \E f \in [S -> T] : IsInjective(f)
<1> DEFINE k == Cardinality(S)
           m == Cardinality(T)
<1>1. k \in Nat /\ m \in Nat /\ ExistsBijection(1..k, S) /\ ExistsBijection(1..m, T)
      BY FS_CardinalityType
<1>2. PICK g : g \in Bijection(1..k, S) BY <1>1 DEF ExistsBijection
<1>3. PICK h : h \in Bijection(1..m, T) BY <1>1 DEF ExistsBijection
<1>4. k <= m OBVIOUS
<1> HIDE DEF k, m
<1> DEFINE at(x) == CHOOSE j \in 1..k : g[j] = x
           f == [x \in S |-> h[at(x)]]
<1>5. \A x \in S : at(x) \in 1..k /\ g[at(x)] = x
      BY <1>2 DEF Bijection, Surjection
<1> HIDE DEF at
<1>6. \A x \in S : at(x) \in 1..m BY <1>1, <1>4, <1>5
<1>7. /\ \A j \in 1..m : h[j] \in T
      /\ \A i, j \in 1..m : h[i] = h[j] => i = j
      BY <1>3 DEF Bijection, Injection, IsInjective
<1>8. f \in [S -> T] BY <1>6, <1>7
<1>9. IsInjective(f)
      <2> SUFFICES ASSUME NEW x \in S, NEW y \in S, f[x] = f[y] PROVE x = y BY DEF IsInjective
      <2>1. at(x) = at(y) BY <1>6, <1>7
      <2> QED BY <1>5, <2>1
<1> QED BY <1>8, <1>9

\* The rows after s: each item posted has one of its own, new or kept, and
\* other rows the save knew of are gone.
Becomes(s, new) ==
  /\ new \in [DOMAIN s.blocks -> Id]
  /\ \A m, n \in DOMAIN s.blocks : new[m] = new[n] => m = n
  /\ \A n \in DOMAIN s.blocks :
       \/ /\ new[n] \in Free
          /\ rows'[new[n]] = Created(s.blocks[n], n)
       \/ /\ new[n] = s.blocks[n].id /\ new[n] \in Kept(s)
          /\ rows'[new[n]] = Updated(rows[new[n]], s.blocks[n], n)
  /\ \A i \in Id : (\A n \in DOMAIN s.blocks : i # new[n]) =>
                     i \notin Kept(s) /\ rows'[i] = IF i \in s.known THEN Nil ELSE rows[i]

LEMMA SaveBecomes ==
  ASSUME NEW c \in Call, SaveCommit(c), Kept(call[c]) \subseteq Ids,
         call[c].blocks \in Seq(Block), IdsDiffer(call[c].blocks)
  PROVE  \E new : Becomes(call[c], new)
<1> DEFINE s == call[c]
           D == DOMAIN s.blocks
           new == NewIds(s)
           given == CHOOSE f \in [New(s) -> Free] : IsInjective(f)
<1>1. rows' = Saved(s, new) /\ Cardinality(New(s)) <= Cardinality(Free) BY DEF SaveCommit
<1>2. IsFiniteSet(New(s))
      <2>1. D = 1..Len(s.blocks) /\ Len(s.blocks) \in Nat OBVIOUS
      <2>2. IsFiniteSet(D) BY <2>1, FS_Interval
      <2>3. New(s) \subseteq D BY DEF New
      <2> QED BY <2>2, <2>3, FS_Subset
<1>3. given \in [New(s) -> Free] /\ IsInjective(given)
      <2>1. \E f \in [New(s) -> Free] : IsInjective(f) BY <1>1, <1>2, IdsSuffice, RowsAreFew
      <2> QED BY <2>1
<1>4. new = [n \in D |-> IF n \in New(s) THEN given[n] ELSE s.blocks[n].id] BY DEF NewIds
<1> HIDE DEF given, new
<1>5. \A n \in D : \/ n \in New(s) /\ new[n] = given[n] /\ new[n] \in Free
                   \/ n \notin New(s) /\ new[n] = s.blocks[n].id /\ new[n] \in Kept(s)
      BY <1>3, <1>4 DEF New
<1>6. Free \intersect Ids = {} /\ Free \subseteq Id /\ Ids \subseteq Id BY RowsAreFew DEF Free
<1>7. Nil \notin Kept(s) BY DEF Kept, IdsOf
<1>8. new \in [D -> Id] BY <1>4, <1>5, <1>6
<1>9. ASSUME NEW m \in D, NEW n \in D, new[m] = new[n] PROVE m = n
      <2>1. CASE m \in New(s) /\ n \in New(s)
            BY <1>3, <1>4, <1>9, <2>1 DEF IsInjective
      <2>2. CASE m \notin New(s) /\ n \notin New(s)
            BY <1>4, <1>5, <1>7, <1>9, <2>2 DEF IdsDiffer
      <2> QED BY <1>5, <1>6, <1>9, <2>1, <2>2
<1>10. ASSUME NEW n \in D
       PROVE  rows'[new[n]] = IF new[n] \in Kept(s) THEN Updated(rows[new[n]], s.blocks[n], n)
                              ELSE Created(s.blocks[n], n)
       <2> DEFINE i == new[n]
                  k == CHOOSE k \in D : i = new[k]
       <2>1. i \in Id BY <1>8
       <2>2. k \in D /\ i = new[k] OBVIOUS
       <2>3. k = n BY <1>9, <2>2
       <2>4. rows'[i] = IF i \in Kept(s) THEN Updated(rows[i], s.blocks[k], k) ELSE Created(s.blocks[k], k)
             BY <1>1, <2>1 DEF Saved
       <2> HIDE DEF k
       <2> QED BY <2>3, <2>4
<1>11. ASSUME NEW i \in Id, \A n \in D : i # new[n]
       PROVE  i \notin Kept(s) /\ rows'[i] = IF i \in s.known THEN Nil ELSE rows[i]
       <2>1. rows'[i] = IF i \in s.known THEN Nil ELSE rows[i] BY <1>1, <1>11 DEF Saved
       <2>2. ASSUME i \in Kept(s) PROVE FALSE
             <3>1. PICK n \in D : s.blocks[n].id = i BY <2>2 DEF Kept, IdsOf
             <3>2. n \notin New(s) BY <2>2, <3>1 DEF New
             <3> QED BY <1>5, <1>11, <3>1, <3>2
       <2> QED BY <2>1, <2>2
<1>12. \A n \in D : \/ new[n] \in Free /\ rows'[new[n]] = Created(s.blocks[n], n)
                    \/ /\ new[n] = s.blocks[n].id /\ new[n] \in Kept(s)
                       /\ rows'[new[n]] = Updated(rows[new[n]], s.blocks[n], n)
       BY <1>5, <1>6, <1>10
<1>13. Becomes(s, new) BY <1>8, <1>9, <1>11, <1>12 DEF Becomes
<1> QED BY <1>13

-----------------------------------------------------------------------------
(* What an edit makes of the list *)

\* The list is redrawn: nothing is new in it, and what is gone was removed.
Redrawn(p) ==
  /\ blocks' \in Seq(Block) /\ Drawn(blocks', blocks, p)
  /\ \A m \in DOMAIN blocks : blocks[m].key \in removed' \/ \E k \in DOMAIN blocks' : p[k] = m

LEMMA Removed ==
  ASSUME EditorTypeOK, NEW n \in DOMAIN blocks, RemoveItem(n)
  PROVE  \E p : Redrawn(p) /\ \A m \in DOMAIN blocks' : blocks'[m].shown = blocks[p[m]].shown
<1>1. blocks \in Seq(Block) /\ blocks' = RemoveAt(blocks, n) /\ removed' = removed \union {blocks[n].key}
      BY DEF EditorTypeOK, RemoveItem, Edited
<1> DEFINE D == 1..Len(blocks) - 1
           p == [m \in D |-> IF m < n THEN m ELSE m + 1]
<1>2. /\ blocks' \in Seq(Block) /\ DOMAIN blocks' = D
      /\ \A m \in D : blocks'[m] = blocks[p[m]]
      BY <1>1, Removing
<1>3. p \in [D -> DOMAIN blocks] /\ \A k, m \in D : p[k] = p[m] => k = m BY <1>1
<1>4. ASSUME NEW m \in DOMAIN blocks, m # n
      PROVE  \E k \in D : p[k] = m
      <2> DEFINE k == IF m < n THEN m ELSE m - 1
      <2>1. k \in D /\ p[k] = m BY <1>1, <1>4
      <2> QED BY <2>1
<1> HIDE DEF p, D
<1>5. \A m \in DOMAIN blocks : blocks[m].key \in removed' \/ \E k \in DOMAIN blocks' : p[k] = m
      BY <1>1, <1>2, <1>4
<1>6. Drawn(blocks', blocks, p) BY <1>2, <1>3 DEF Drawn
<1> QED BY <1>2, <1>5, <1>6 DEF Redrawn

LEMMA Moved ==
  ASSUME EditorTypeOK, NEW from \in DOMAIN blocks, NEW to \in DOMAIN blocks, MoveItem(from, to)
  PROVE  \E p : Redrawn(p) /\ \A m \in DOMAIN blocks' : blocks'[m].shown = blocks[p[m]].shown
<1>1. blocks \in Seq(Block) /\ blocks' = InsertAt(RemoveAt(blocks, from), to, blocks[from])
      BY DEF EditorTypeOK, MoveItem, Edited
<1> DEFINE D == DOMAIN blocks
<1>2. blocks' \in Seq(Block) /\ DOMAIN blocks' = D /\ \E p : Permuted(blocks', blocks, p)
      BY <1>1, Moving
<1>3. PICK p : Permuted(blocks', blocks, p) BY <1>2
<1>4. /\ \A m \in D : p[m] \in D /\ blocks'[m] = blocks[p[m]]
      /\ \A n \in D : \E m \in D : p[m] = n
      BY <1>3 DEF Permuted
<1>5. \A n \in DOMAIN blocks : \E k \in DOMAIN blocks' : p[k] = n BY <1>2, <1>4
<1>6. Drawn(blocks', blocks, p) BY <1>2, <1>3 DEF Drawn, Permuted
<1>7. \A m \in DOMAIN blocks' : blocks'[m].shown = blocks[p[m]].shown BY <1>2, <1>4
<1> QED BY <1>2, <1>5, <1>6, <1>7 DEF Redrawn

LEMMA InPlace ==
  ASSUME EditorTypeOK, NEW n \in DOMAIN blocks,
         NEW b \in Block, b.key = blocks[n].key, b.id = blocks[n].id,
         blocks' = [blocks EXCEPT ![n] = b]
  PROVE  /\ blocks' \in Seq(Block) /\ DOMAIN blocks' = DOMAIN blocks
         /\ Redrawn([m \in DOMAIN blocks |-> m])
<1>1. blocks \in Seq(Block) BY DEF EditorTypeOK
<1>2. /\ blocks' \in Seq(Block) /\ DOMAIN blocks' = DOMAIN blocks
      /\ \A m \in DOMAIN blocks : blocks'[m].key = blocks[m].key /\ blocks'[m].id = blocks[m].id
      BY <1>1
<1>3. Drawn(blocks', blocks, [m \in DOMAIN blocks |-> m]) BY <1>2 DEF Drawn
<1> QED BY <1>2, <1>3 DEF Redrawn

LEMMA Changed ==
  ASSUME EditorTypeOK, NEW n \in DOMAIN blocks, EditItem(n)
  PROVE  \E p : Redrawn(p) /\ \A m \in DOMAIN blocks' : blocks'[m].shown = blocks[p[m]].shown
<1>1. blocks \in Seq(Block) /\ blocks' = [blocks EXCEPT ![n].text = @ + 1]
      BY DEF EditorTypeOK, EditItem, Edited
<1> DEFINE b == [blocks[n] EXCEPT !.text = @ + 1]
<1>2. b \in Block /\ b.key = blocks[n].key /\ b.id = blocks[n].id /\ b.shown = blocks[n].shown
      <2>1. blocks[n] \in Block BY <1>1
      <2> QED BY <2>1 DEF Block
<1>3. blocks' = [blocks EXCEPT ![n] = b] BY <1>1
<1> HIDE DEF b
<1>4. Redrawn([m \in DOMAIN blocks |-> m]) /\ DOMAIN blocks' = DOMAIN blocks BY <1>2, <1>3, InPlace
<1>5. \A m \in DOMAIN blocks : blocks'[m].shown = blocks[m].shown BY <1>1, <1>2, <1>3
<1> QED BY <1>4, <1>5

LEMMA Toggled ==
  ASSUME EditorTypeOK, NEW n \in DOMAIN blocks, Toggle(n)
  PROVE  /\ \E p : Redrawn(p) /\ p = [m \in DOMAIN blocks |-> m]
         /\ DOMAIN blocks' = DOMAIN blocks /\ blocks'[n].shown = ~blocks[n].shown
         /\ \A m \in DOMAIN blocks : m # n => blocks'[m] = blocks[m]
<1>1. blocks \in Seq(Block) /\ blocks' = [blocks EXCEPT ![n].shown = ~@]
      BY DEF EditorTypeOK, Toggle, Edited
<1> DEFINE b == [blocks[n] EXCEPT !.shown = ~@]
<1>2. b \in Block /\ b.key = blocks[n].key /\ b.id = blocks[n].id /\ b.shown = ~blocks[n].shown
      <2>1. blocks[n] \in Block BY <1>1
      <2> QED BY <2>1 DEF Block
<1>3. blocks' = [blocks EXCEPT ![n] = b] BY <1>1
<1> HIDE DEF b
<1>4. Redrawn([m \in DOMAIN blocks |-> m]) /\ DOMAIN blocks' = DOMAIN blocks BY <1>2, <1>3, InPlace
<1> QED BY <1>1, <1>2, <1>3, <1>4

\* Whatever is edited, but for a new item.
LEMMA Redrawing ==
  ASSUME EditorTypeOK, NEW n \in DOMAIN blocks,
         RemoveItem(n) \/ EditItem(n) \/ Toggle(n) \/ \E m \in DOMAIN blocks : MoveItem(n, m)
  PROVE  \E p : Redrawn(p)
  BY Removed, Changed, Toggled, Moved

LEMMA NewItem ==
  ASSUME EditorTypeOK, items + 1 \in Key
  PROVE  NewBlock(items + 1) \in Block
  BY DEF NewBlock, Block

LEMMA DrawnKeeps ==
  ASSUME NEW r, NEW bs, NEW p, Drawn(r, bs, p)
  PROVE  /\ ItemsOf(r) \subseteq ItemsOf(bs) /\ IdsOf(r) \subseteq IdsOf(bs)
         /\ OneEach(bs) => OneEach(r)
         /\ IdsDiffer(bs) => IdsDiffer(r)
<1>1. ItemsOf(r) \subseteq ItemsOf(bs) BY DEF Drawn, ItemsOf
<1>2. IdsOf(r) \subseteq IdsOf(bs) BY DEF Drawn, IdsOf
<1>3. ASSUME OneEach(bs) PROVE OneEach(r) BY <1>3 DEF Drawn, OneEach
<1>4. ASSUME IdsDiffer(bs) PROVE IdsDiffer(r) BY <1>4 DEF Drawn, IdsDiffer
<1> QED BY <1>1, <1>2, <1>3, <1>4

-----------------------------------------------------------------------------
(* Types *)

LEMMA Typed0 == EditorInit => EditorTypeOK
<1> SUFFICES ASSUME EditorInit PROVE EditorTypeOK OBVIOUS
<1>1. <<>> \in Seq(Block) OBVIOUS
<1>2. rows \in [Id -> Row \union {Nil}] /\ call \in [Call -> Save \union {Nil}]
      BY DEF EditorInit
<1>3. /\ {open, timer, stale, mounted, busy, overlapped, collided, hasty} \subseteq BOOLEAN
      /\ patches \subseteq Patch /\ stored \subseteq Key /\ removed \subseteq Key /\ doubtful \subseteq Id
      /\ state \in {"dirty", "saving", "saved", "error"}
      BY DEF EditorInit
<1>4. /\ upload \in [step : {"none", "moving", "answered", "processing"}, key : Key \union {Nil}]
      /\ upload.step = "none" /\ upload.key = Nil /\ made = Nil
      BY DEF EditorInit, NoUpload
<1>5. items \in 0..MaxItem + 1 /\ edits \in Nat /\ mishaps \in Nat
      BY LessonEditorAssumption DEF EditorInit
<1>6. blocks \in Seq(Block) /\ tree \in Seq(Block) BY <1>1 DEF EditorInit
<1> QED BY <1>2, <1>3, <1>4, <1>5, <1>6 DEF EditorTypeOK

LEMMA ListTyped == EditorTypeOK => Listed \in Seq(Block)
  BY ListIsInOrder DEF EditorTypeOK, RowsOK, InOrder

LEMMA SaveTyped ==
  ASSUME EditorTypeOK, NEW c \in Call, call[c] # Nil
  PROVE  /\ call[c] \in Save /\ call[c].blocks \in Seq(Block)
         /\ call[c].known # Nil => call[c].known \subseteq Id
<1>1. call[c] \in Save BY DEF EditorTypeOK
<1> QED BY <1>1 DEF Save

LEMMA RowTyped ==
  ASSUME EditorTypeOK, NEW i \in Ids
  PROVE  rows[i] \in Row /\ i \in Id
  BY DEF EditorTypeOK, Ids

\* What a save, a change of status and an upload make of the rows.
LEMMA CommitTyped ==
  ASSUME EditorTypeOK, NEW s \in Save, Kept(s) \subseteq Ids, NEW new, Becomes(s, new),
         rows' = [i \in Id |-> rows'[i]]
  PROVE  rows' \in [Id -> Row \union {Nil}]
<1>2. ASSUME NEW n \in DOMAIN s.blocks
      PROVE  rows'[new[n]] \in Row
      <2>1. s.blocks[n] \in Block /\ n \in Nat BY DEF Save
      <2>2. CASE new[n] \in Kept(s) /\ rows'[new[n]] = Updated(rows[new[n]], s.blocks[n], n)
            <3>1. rows[new[n]] \in Row BY <2>2, RowTyped
            <3> QED BY <2>1, <2>2, <3>1 DEF Updated, Row, Block
      <2>3. CASE rows'[new[n]] = Created(s.blocks[n], n)
            BY <2>1, <2>3 DEF Created, Row, Block
      <2> QED BY <2>2, <2>3 DEF Becomes
<1>3. ASSUME NEW i \in Id PROVE rows'[i] \in Row \union {Nil}
      <2>1. CASE \E n \in DOMAIN s.blocks : i = new[n] BY <1>2, <2>1
      <2>2. CASE \A n \in DOMAIN s.blocks : i # new[n] BY <2>2 DEF Becomes, EditorTypeOK
      <2> QED BY <2>1, <2>2
<1> QED BY <1>3

LEMMA PatchTyped ==
  ASSUME EditorTypeOK, NEW p \in patches, PatchCommit(p)
  PROVE  rows' \in [Id -> Row \union {Nil}]
<1>1. p.id \in Id /\ p.shown \in BOOLEAN BY DEF EditorTypeOK, Patch
<1>2. CASE rows[p.id] = Nil BY <1>2 DEF PatchCommit, EditorTypeOK
<1>3. CASE rows[p.id] # Nil
      <2>1. rows[p.id] \in Row BY <1>1, <1>3 DEF EditorTypeOK
      <2>2. [rows[p.id] EXCEPT !.shown = p.shown] \in Row BY <1>1, <2>1 DEF Row
      <2>3. rows' = [rows EXCEPT ![p.id] = [rows[p.id] EXCEPT !.shown = p.shown]]
            BY <1>3 DEF PatchCommit
      <2> QED BY <1>1, <2>2, <2>3 DEF EditorTypeOK
<1> QED BY <1>2, <1>3

SavesDiffer == \A c \in Saving : IdsDiffer(call[c].blocks)

LEMMA TypeStep == EditorTypeOK /\ SavesDiffer /\ [EditorNext]_editorVars => EditorTypeOK'
<1> SUFFICES ASSUME EditorTypeOK, SavesDiffer, [EditorNext]_editorVars PROVE EditorTypeOK'
    OBVIOUS
<1>1. ASSUME Add PROVE EditorTypeOK'
      <2>1. items + 1 \in Key /\ items' \in 0..MaxItem + 1 BY <1>1, LessonEditorAssumption DEF Add, EditorTypeOK, Key
      <2>2. blocks' \in Seq(Block) BY <1>1, <2>1, NewItem, Appending DEF Add, Edited, EditorTypeOK
      <2> QED BY <1>1, <2>1, <2>2 DEF Add, Edited, Arm, EditorTypeOK, cache, uploads, past
<1>2. ASSUME PasteUrlInstead PROVE EditorTypeOK'
      <2>1. items + 1 \in Key /\ items' \in 0..MaxItem + 1 BY <1>2, LessonEditorAssumption DEF PasteUrlInstead, EditorTypeOK, Key
      <2>2. blocks' \in Seq(Block) BY <1>2, <2>1, NewItem, Appending DEF PasteUrlInstead, Edited, EditorTypeOK
      <2> QED BY <1>2, <2>1, <2>2 DEF PasteUrlInstead, Edited, Arm, EditorTypeOK, cache, uploads, past
<1>3. ASSUME NEW n \in DOMAIN blocks, RemoveItem(n) PROVE EditorTypeOK'
      <2>1. blocks' \in Seq(Block) BY <1>3, Redrawing DEF Redrawn
      <2>2. blocks[n] \in Block BY DEF EditorTypeOK
      <2>3. removed' \subseteq Key BY <1>3, <2>2 DEF RemoveItem, EditorTypeOK, Block
      <2> QED BY <1>3, <2>1, <2>3 DEF RemoveItem, EditOnce, Edited, Arm, EditorTypeOK, cache, uploads, past
<1>4. ASSUME NEW n \in DOMAIN blocks, EditItem(n) PROVE EditorTypeOK'
      <2>1. blocks' \in Seq(Block) BY <1>4, Redrawing DEF Redrawn
      <2> QED BY <1>4, <2>1 DEF EditItem, EditOnce, Edited, Arm, EditorTypeOK, cache, uploads, past
<1>5. ASSUME NEW n \in DOMAIN blocks, NEW m \in DOMAIN blocks, MoveItem(n, m) PROVE EditorTypeOK'
      <2>1. blocks' \in Seq(Block) BY <1>5, Redrawing DEF Redrawn
      <2> QED BY <1>5, <2>1 DEF MoveItem, EditOnce, Edited, Arm, EditorTypeOK, cache, uploads, past
<1>6. ASSUME NEW n \in DOMAIN blocks, Toggle(n) PROVE EditorTypeOK'
      <2>1. blocks' \in Seq(Block) BY <1>6, Redrawing DEF Redrawn
      <2>2. blocks[n] \in Block BY DEF EditorTypeOK
      <2>3. blocks[n].id # Nil => [id |-> blocks[n].id, shown |-> ~blocks[n].shown] \in Patch /\ blocks[n].id \in Id
            BY <2>2 DEF Block, Patch
      <2>4. patches' \subseteq Patch /\ doubtful' \subseteq Id BY <1>6, <2>3 DEF Toggle, EditorTypeOK
      <2> QED BY <1>6, <2>1, <2>4 DEF Toggle, EditOnce, Edited, Arm, EditorTypeOK, cache, uploads, past
<1>7. ASSUME NEW c \in Call, Fire(c) PROVE EditorTypeOK'
      <2>1. [blocks |-> blocks, known |-> Nil] \in Save BY DEF Save, EditorTypeOK
      <2>2. mishaps' \in Nat BY <1>7, LessonEditorAssumption DEF Fire, EditorTypeOK
      <2>3. call' \in [Call -> Save \union {Nil}] BY <1>7, <2>1 DEF Fire, EditorTypeOK
      <2> QED BY <1>7, <2>2, <2>3 DEF Fire, EditorTypeOK, cache, uploads
<1>8. ASSUME NEW c \in Call, SaveReads(c) PROVE EditorTypeOK'
      <2>1. call[c] \in Save BY <1>8, SaveTyped DEF SaveReads
      <2>2. [call[c] EXCEPT !.known = Ids] \in Save BY <2>1 DEF Save, Ids
      <2>3. call' = [call EXCEPT ![c] = [call[c] EXCEPT !.known = Ids]] BY <1>8 DEF SaveReads
      <2>4. call' \in [Call -> Save \union {Nil}] BY <2>2, <2>3 DEF EditorTypeOK
      <2> QED BY <1>8, <2>4 DEF SaveReads, EditorTypeOK, editor, cache, uploads, limits, past
<1>9. ASSUME NEW c \in Call, SaveCommit(c) PROVE EditorTypeOK'
      <2>1. call[c] \in Save /\ call[c].blocks \in Seq(Block) /\ IdsDiffer(call[c].blocks)
            BY <1>9, SaveTyped DEF SaveCommit, SavesDiffer, Saving
      <2>2. call' \in [Call -> Save \union {Nil}] BY <1>9 DEF SaveCommit, EditorTypeOK
      <2>3. rows' \in [Id -> Row \union {Nil}]
            <3>1. CASE Kept(call[c]) \subseteq Ids
                  <4>1. \E new : Becomes(call[c], new) BY <1>9, <2>1, <3>1, SaveBecomes
                  <4>2. \E s, new : rows' = Saved(s, new) BY <1>9, <3>1 DEF SaveCommit
                  <4>3. rows' = [i \in Id |-> rows'[i]] BY <4>2 DEF Saved
                  <4> QED BY <2>1, <3>1, <4>1, <4>3, CommitTyped
            <3>2. CASE ~(Kept(call[c]) \subseteq Ids) BY <1>9, <3>2 DEF SaveCommit, EditorTypeOK
            <3> QED BY <3>1, <3>2
      <2>4. stored' \subseteq Key
            <3>1. \A n \in DOMAIN call[c].blocks : call[c].blocks[n].key \in Key
                  <4>1. \A n \in DOMAIN call[c].blocks : call[c].blocks[n] \in Block BY <2>1
                  <4> QED BY <4>1 DEF Block
            <3> QED BY <1>9, <3>1 DEF SaveCommit, EditorTypeOK
      <2> QED BY <1>9, <2>2, <2>3, <2>4 DEF SaveCommit, EditorTypeOK, uploads, limits
<1>10. ASSUME NEW c \in Call, SaveFails(c) PROVE EditorTypeOK'
      <2>1. call' \in [Call -> Save \union {Nil}] BY <1>10 DEF SaveFails, EditorTypeOK
      <2> QED BY <1>10, <2>1 DEF SaveFails, EditorTypeOK, cache, uploads, past
<1>11. ASSUME NEW p \in patches, PatchCommit(p) PROVE EditorTypeOK'
      <2>1. rows' \in [Id -> Row \union {Nil}] BY <1>11, PatchTyped
      <2> QED BY <1>11, <2>1 DEF PatchCommit, EditorTypeOK, editor, uploads, limits, past
<1>12. ASSUME NEW p \in patches, PatchFails(p) PROVE EditorTypeOK'
      <2>1. p.id \in Id BY DEF EditorTypeOK, Patch
      <2> QED BY <1>12, <2>1 DEF PatchFails, EditorTypeOK, editor, cache, uploads
<1>13. ASSUME Refetch PROVE EditorTypeOK'
      BY <1>13, ListTyped DEF Refetch, EditorTypeOK, editor, uploads, limits, past
<1>14. ASSUME OpenUploader \/ CloseUploader PROVE EditorTypeOK'
      BY <1>14 DEF OpenUploader, CloseUploader, Arm, EditorTypeOK, editor, cache, limits, past
<1>15. ASSUME UploadStart PROVE EditorTypeOK'
      <2>1. items + 1 \in Key /\ items' \in 0..MaxItem + 1 BY <1>15, LessonEditorAssumption DEF UploadStart, EditorTypeOK, Key
      <2>2. items + 1 # Nil BY <2>1, LessonEditorAssumption DEF Key
      <2>3. /\ upload' \in [step : {"none", "moving", "answered", "processing"}, key : Key \union {Nil}]
            /\ upload'.step = "moving" /\ upload'.key # Nil /\ made' = made /\ made = Nil
            BY <1>15, <2>1, <2>2 DEF UploadStart, EditorTypeOK
      <2> QED BY <1>15, <2>1, <2>3 DEF UploadStart, Arm, EditorTypeOK, cache, past
<1>16. ASSUME UploadComplete PROVE EditorTypeOK'
      <2>1. made' \in Free /\ made' \in Id BY <1>16, RowsAreFew DEF UploadComplete
      <2>2. upload.key \in Key BY <1>16 DEF UploadComplete, EditorTypeOK
      <2> DEFINE top == Max({0} \union {rows[j].place : j \in Ids})
      <2>3. top \in Nat BY PlacesAreNumbers DEF EditorTypeOK, RowsOK
      <2>4. rows' = [rows EXCEPT ![made'] = [key |-> upload.key, text |-> 0, place |-> top + 1, shown |-> TRUE]]
            BY <1>16 DEF UploadComplete
      <2> HIDE DEF top
      <2>5. rows' \in [Id -> Row \union {Nil}] BY <2>1, <2>2, <2>3, <2>4 DEF Row, EditorTypeOK
      <2>6. made' # Nil BY <2>1, LessonEditorAssumption DEF Id
      <2>7. /\ upload' \in [step : {"none", "moving", "answered", "processing"}, key : Key \union {Nil}]
            /\ upload'.step = "answered" /\ upload'.key # Nil
            BY <1>16, <2>2 DEF UploadComplete, EditorTypeOK
      <2>8. stored' \subseteq Key BY <1>16, <2>2 DEF UploadComplete, EditorTypeOK
      <2>9. collided' \in BOOLEAN BY <1>16 DEF UploadComplete, EditorTypeOK
      <2>10. UNCHANGED <<blocks, open, timer, state, tree, stale, call, patches, mounted, busy, items, edits,
                         mishaps, removed, overlapped, hasty, doubtful>>
             BY <1>16 DEF UploadComplete, editor, cache, limits
      <2> QED BY <2>1, <2>5, <2>6, <2>7, <2>8, <2>9, <2>10 DEF EditorTypeOK
<1>17. ASSUME TakeOn(busy) \/ TakeOn(busy /\ ~mounted), upload.step \in {"answered", "processing"}
       PROVE  blocks' \in Seq(Block) /\ {timer'} \subseteq BOOLEAN /\ state' \in {"dirty", "saving", "saved", "error"}
      <2> DEFINE b == [key |-> upload.key, id |-> made, text |-> 0, shown |-> TRUE]
      <2>1. upload.key \in Key /\ made \in Id BY <1>17 DEF EditorTypeOK
      <2>2. b \in Block BY <2>1 DEF Block
      <2>3. Append(blocks, b) \in Seq(Block) BY <2>2, Appending DEF EditorTypeOK
      <2> QED BY <1>17, <2>3 DEF TakeOn, Absorbed, Arm, EditorTypeOK
<1>18. ASSUME Absorb \/ UploadReady PROVE EditorTypeOK'
      <2>1. blocks' \in Seq(Block) /\ {timer'} \subseteq BOOLEAN /\ state' \in {"dirty", "saving", "saved", "error"}
            BY <1>17, <1>18 DEF Absorb, UploadReady
      <2>2. CASE Absorb BY <2>1, <2>2 DEF Absorb, EditorTypeOK, cache, limits, past
      <2>3. CASE UploadReady BY <2>1, <2>3 DEF UploadReady, NoUpload, EditorTypeOK, cache, limits, past
      <2> QED BY <1>18, <2>2, <2>3
<1>19. ASSUME UploadEnds \/ AnswerLost PROVE EditorTypeOK'
      <2>1. NoUpload \in [step : {"none", "moving", "answered", "processing"}, key : Key \union {Nil}]
            /\ NoUpload.step = "none" /\ NoUpload.key = Nil
            BY DEF NoUpload
      <2>2. CASE UploadEnds BY <2>1, <2>2 DEF UploadEnds, Arm, EditorTypeOK, cache, limits, past
      <2>3. CASE AnswerLost
            <3>1. mishaps' \in Nat BY <2>3 DEF AnswerLost, EditorTypeOK
            <3> QED BY <2>1, <2>3, <3>1 DEF AnswerLost, Arm, EditorTypeOK, cache
      <2> QED BY <1>19, <2>2, <2>3
<1>20. ASSUME NEW unmount \in BOOLEAN, Leave(unmount) PROVE EditorTypeOK'
      <2>1. mishaps' \in Nat BY <1>20 DEF Leave, EditorTypeOK
      <2>2. hasty' \in BOOLEAN BY <1>20 DEF Leave, EditorTypeOK, Settled
      <2> QED BY <1>20, <2>1, <2>2 DEF Leave, EditorTypeOK, cache
<1>21. ASSUME Return PROVE EditorTypeOK'
      BY <1>21 DEF Return, Arm, EditorTypeOK, cache, uploads, limits, past
<1>22. ASSUME UNCHANGED editorVars PROVE EditorTypeOK'
      BY <1>22 DEF EditorTypeOK, editorVars, editor, cache, uploads, limits, past
<1> QED BY <1>1, <1>2, <1>3, <1>4, <1>5, <1>6, <1>7, <1>8, <1>9, <1>10, <1>11, <1>12, <1>13, <1>14, <1>15,
           <1>16, <1>18, <1>19, <1>20, <1>21, <1>22 DEF EditorNext, Edit, Serve

-----------------------------------------------------------------------------
(* The parts of the invariant *)

\* An item with the id of a row is the one the row is of.
Named(R, bs) == \A n \in DOMAIN bs : bs[n].id \in Id /\ R[bs[n].id] # Nil => R[bs[n].id].key = bs[n].key

Identified ==
  /\ Named(rows, blocks) /\ IdsDiffer(blocks)
  /\ Named(rows, tree) /\ IdsDiffer(tree)
  /\ \A c \in Saving : Named(rows, call[c].blocks) /\ IdsDiffer(call[c].blocks)
  /\ made \in Ids => rows[made].key = upload.key

\* Items are numbered as they are made.
Numbered ==
  /\ ItemsOf(blocks) \union ItemsOf(tree) \union KeysOf(Ids) \union stored \union removed \subseteq 1..items
  /\ upload.key \in 1..items \union {Nil}
  /\ \A c \in Saving : ItemsOf(call[c].blocks) \subseteq 1..items

\* A lesson that was left with nothing under way stays as it was left.
Waiting ==
  /\ busy \/ ~open => ~timer
  /\ hasty \/ open \/ Settled

RowsDiffer == \A i, j \in Ids : rows[i].key = rows[j].key => i = j

\* A save under way does not post what the upload is making.
SaveAlone(c) ==
  /\ OneEach(call[c].blocks) /\ state # "saved"
  /\ upload.step \in {"moving", "answered"} => upload.key \notin ItemsOf(call[c].blocks)
  /\ call[c].known # Nil => \A i \in Ids : i \notin call[c].known => rows[i].key \notin ItemsOf(call[c].blocks)

UploadAlone ==
  /\ upload.step \in {"moving", "answered"} => upload.key \notin ItemsOf(blocks)
  /\ upload.step = "moving" => upload.key \notin KeysOf(Ids)
  /\ upload.step = "processing" =>
       \A n \in DOMAIN blocks : blocks[n].key = upload.key => blocks[n].id = made

Alone ==
  /\ \A c, d \in Saving : c = d
  /\ OneEach(blocks) /\ RowsDiffer
  /\ \A c \in Saving : SaveAlone(c)
  /\ UploadAlone

Arriving == {k \in {upload.key} : upload.step = "answered"}

SaveComplete(c) ==
  /\ upload.step # "answered"
  /\ KeysOf(Ids) \subseteq ItemsOf(call[c].blocks) \union removed
  /\ ItemsOf(call[c].blocks) \subseteq ItemsOf(blocks) \union removed
  /\ call[c].known # Nil => call[c].known = Ids

\* With no timer running and no upload, the saves under way post what is on
\* the screen, and what was saved last is that.
UpToDate ==
  open /\ ~busy /\ ~timer =>
    /\ \A c \in Saving : Read(call[c].blocks) = Read(blocks)
    /\ state = "saved" /\ upload.step # "answered" => Read(Listed) = Read(blocks)

Complete ==
  /\ stored \ removed \subseteq KeysOf(Ids)
  /\ KeysOf(Ids) \subseteq ItemsOf(blocks) \union removed \union Arriving
  /\ \A c \in Saving : SaveComplete(c)
  /\ UpToDate

\* The word on the screen: what is dirty waits, and what is saving is under way.
Noted ==
  /\ state = "dirty" => timer \/ busy \/ ~open
  /\ state = "saving" => Saving # {}

\* What is shown of an item with this id, or on its way.
AsSet(b) ==
  /\ b.id \in Ids => rows[b.id].shown = b.shown \/ b.id \in doubtful \/ \E p \in patches : p.id = b.id
  /\ \A p \in patches : p.id = b.id => p.shown = b.shown \/ b.id \in doubtful

Shown ==
  /\ \A n \in DOMAIN blocks : blocks[n].key \notin removed => AsSet(blocks[n])
  /\ \A p, q \in patches : p.id = q.id => p = q \/ p.id \in doubtful
  /\ upload.step = "answered" =>
       /\ made \notin IdsOf(blocks) /\ \A p \in patches : p.id # made
       /\ made \in Ids => rows[made].shown
  /\ upload.step = "processing" =>
       \/ \E n \in DOMAIN blocks : blocks[n].id = made /\ blocks[n].key = upload.key
       \/ upload.key \in removed

\* What two saves, an upload that crosses one, or leaving in haste can upset
\* holds as long as none of them has happened.
EditorInv ==
  /\ EditorTypeOK /\ Identified /\ Numbered /\ Waiting
  /\ overlapped \/ hasty \/ Alone
  /\ overlapped \/ hasty \/ collided \/ Complete
  /\ hasty \/ ~open \/ Shown

-----------------------------------------------------------------------------
(* What becomes of a row *)

\* A row there is after a step was there, of the same item and shown as before,
\* or its id was free and it is of one of these.
RowsFollow(K) ==
  \A i \in Ids' : \/ i \in Ids /\ i \notin Free /\ rows'[i].key = rows[i].key
                  \/ i \in Free /\ rows'[i].key \in K

LEMMA FreeIsFree ==
  /\ Free \intersect Ids = {} /\ Free \intersect IdsOf(blocks) = {} /\ Free \intersect IdsOf(tree) = {}
  /\ made \notin Free /\ \A p \in patches : p.id \notin Free
  /\ \A c \in Saving : Free \intersect IdsOf(call[c].blocks) = {}
  /\ \A c \in Saving : call[c].known # Nil => Free \intersect (call[c].known \ {Nil}) = {}
<1>1. \A c \in Saving : IdsOf(call[c].blocks) \subseteq UNION {IdsOf(call[d].blocks) : d \in Saving} OBVIOUS
<1>2. \A c \in Saving : call[c].known # Nil => call[c].known \ {Nil} \subseteq Known BY DEF Known
<1> QED BY <1>1, <1>2 DEF Free

LEMMA RowsStay == rows' = rows => RowsFollow({})
  BY FreeIsFree DEF RowsFollow, Ids

LEMMA NilIsNoRow == EditorTypeOK => Nil \notin Row /\ Nil \notin Id /\ Nil \notin Ids
  BY NilIsNothing, LessonEditorAssumption DEF Id, Ids

\* A save's own rows, one for each item posted, and the rows it did not know of.
LEMMA Posted ==
  ASSUME EditorTypeOK, NEW c \in Call, call[c] # Nil, call[c].known # Nil, Kept(call[c]) \subseteq Ids,
         Named(rows, call[c].blocks), NEW new, Becomes(call[c], new)
  PROVE  /\ \A n \in DOMAIN call[c].blocks :
              /\ new[n] \in Ids' /\ rows'[new[n]].key = call[c].blocks[n].key
              /\ rows'[new[n]].text = call[c].blocks[n].text /\ rows'[new[n]].place = n
              /\ new[n] \notin Free => new[n] \in Ids /\ rows'[new[n]].shown = rows[new[n]].shown
         /\ \A i \in Ids' : \/ \E n \in DOMAIN call[c].blocks : i = new[n]
                            \/ i \in Ids /\ i \notin call[c].known /\ rows'[i] = rows[i]
<1> DEFINE s == call[c]
<1>1. s \in Save /\ s.blocks \in Seq(Block) BY SaveTyped
<1>2. ASSUME NEW n \in DOMAIN s.blocks
      PROVE  /\ new[n] \in Ids' /\ rows'[new[n]].key = s.blocks[n].key
             /\ rows'[new[n]].text = s.blocks[n].text /\ rows'[new[n]].place = n
             /\ new[n] \notin Free => new[n] \in Ids /\ rows'[new[n]].shown = rows[new[n]].shown
      <2>1. s.blocks[n] \in Block /\ n \in Nat /\ new[n] \in Id BY <1>1 DEF Becomes
      <2>2. CASE new[n] \in Free /\ rows'[new[n]] = Created(s.blocks[n], n)
            <3> DEFINE r == Created(s.blocks[n], n)
            <3>1. r \in Row /\ r.key = s.blocks[n].key /\ r.text = s.blocks[n].text /\ r.place = n
                  BY <2>1 DEF Created, Row, Block
            <3> HIDE DEF r
            <3>2. rows'[new[n]] = r BY <2>2 DEF r
            <3>3. new[n] \in Ids' BY <2>1, <3>1, <3>2, NilIsNoRow DEF Ids
            <3> QED BY <2>2, <3>1, <3>2, <3>3
      <2>3. CASE /\ new[n] = s.blocks[n].id /\ new[n] \in Kept(s)
                 /\ rows'[new[n]] = Updated(rows[new[n]], s.blocks[n], n)
            <3>1. new[n] \in Ids /\ rows[new[n]] \in Row BY <2>3, RowTyped
            <3>2. rows[new[n]].key = s.blocks[n].key BY <2>3, <3>1 DEF Named, Ids
            <3>3. Updated(rows[new[n]], s.blocks[n], n) \in Row BY <2>1, <3>1 DEF Updated, Row, Block
            <3>4. /\ rows'[new[n]].key = rows[new[n]].key /\ rows'[new[n]].shown = rows[new[n]].shown
                  /\ rows'[new[n]].text = s.blocks[n].text /\ rows'[new[n]].place = n
                  BY <2>3, <3>1 DEF Updated, Row
            <3> QED BY <2>1, <2>3, <3>1, <3>2, <3>3, <3>4, NilIsNoRow DEF Ids
      <2> QED BY <2>2, <2>3 DEF Becomes
<1>3. ASSUME NEW i \in Ids', \A n \in DOMAIN s.blocks : i # new[n]
      PROVE  i \in Ids /\ i \notin s.known /\ rows'[i] = rows[i]
      BY <1>3 DEF Becomes, Ids
<1> QED BY <1>2, <1>3

LEMMA SaveFollows ==
  ASSUME EditorTypeOK, Identified, NEW c \in Call, SaveCommit(c)
  PROVE  /\ RowsFollow(ItemsOf(call[c].blocks))
         /\ \A i \in Ids' : i \notin Free => i \in Ids /\ rows'[i].shown = rows[i].shown
<1>1. c \in Saving /\ call[c] # Nil /\ call[c].known # Nil BY DEF SaveCommit, Saving
<1>2. Named(rows, call[c].blocks) /\ IdsDiffer(call[c].blocks) /\ call[c].blocks \in Seq(Block)
      BY <1>1, SaveTyped DEF Identified
<1>3. CASE Kept(call[c]) \subseteq Ids
      <2>1. PICK new : Becomes(call[c], new) BY <1>2, <1>3, SaveBecomes
      <2>2. /\ \A n \in DOMAIN call[c].blocks :
                 /\ rows'[new[n]].key = call[c].blocks[n].key
                 /\ new[n] \notin Free => new[n] \in Ids /\ rows'[new[n]].shown = rows[new[n]].shown
            /\ \A i \in Ids' : \/ \E n \in DOMAIN call[c].blocks : i = new[n]
                               \/ i \in Ids /\ rows'[i] = rows[i]
            BY <1>1, <1>2, <1>3, <2>1, Posted
      <2>3. \A n \in DOMAIN call[c].blocks :
              new[n] \notin Free => new[n] = call[c].blocks[n].id /\ new[n] \in Ids
            BY <1>3, <2>1 DEF Becomes
      <2>4. \A n \in DOMAIN call[c].blocks :
              new[n] \notin Free => rows'[new[n]].key = rows[new[n]].key
            BY <1>2, <2>2, <2>3 DEF Named, Ids
      <2>5. Free \intersect Ids = {} BY FreeIsFree
      <2>6. ASSUME NEW i \in Ids'
            PROVE  /\ \/ i \in Ids /\ i \notin Free /\ rows'[i].key = rows[i].key
                      \/ i \in Free /\ rows'[i].key \in ItemsOf(call[c].blocks)
                   /\ i \notin Free => i \in Ids /\ rows'[i].shown = rows[i].shown
            <3>1. CASE \E n \in DOMAIN call[c].blocks : i = new[n]
                  BY <2>2, <2>3, <2>4, <3>1 DEF ItemsOf
            <3>2. CASE i \in Ids /\ rows'[i] = rows[i] BY <2>5, <3>2
            <3> QED BY <2>2, <3>1, <3>2
      <2> QED BY <2>6 DEF RowsFollow
<1>4. CASE ~(Kept(call[c]) \subseteq Ids)
      <2>1. rows' = rows BY <1>4 DEF SaveCommit
      <2> QED BY <2>1, FreeIsFree DEF RowsFollow, Ids
<1> QED BY <1>3, <1>4

LEMMA PatchKeeps ==
  ASSUME EditorTypeOK, NEW p \in patches, PatchCommit(p)
  PROVE  /\ Ids' = Ids /\ KeysOf(Ids)' = KeysOf(Ids)
         /\ \A i \in Ids : /\ rows'[i].key = rows[i].key /\ rows'[i].text = rows[i].text
                           /\ rows'[i].place = rows[i].place
                           /\ rows'[i].shown = IF i = p.id THEN p.shown ELSE rows[i].shown
<1>1. p.id \in Id BY DEF EditorTypeOK, Patch
<1>2. CASE rows[p.id] = Nil BY <1>2 DEF PatchCommit, Ids, KeysOf
<1>3. CASE rows[p.id] # Nil
      <2>1. rows[p.id] \in Row BY <1>1, <1>3 DEF EditorTypeOK
      <2> DEFINE r == [rows[p.id] EXCEPT !.shown = p.shown]
      <2>2. r # Nil
            <3>1. p.shown \in BOOLEAN BY DEF EditorTypeOK, Patch
            <3>2. r \in Row BY <2>1, <3>1 DEF Row
            <3> QED BY <3>2, NilIsNoRow
      <2>3. /\ r.key = rows[p.id].key /\ r.text = rows[p.id].text /\ r.place = rows[p.id].place
            /\ r.shown = p.shown
            BY <2>1 DEF Row
      <2>4. rows' = [rows EXCEPT ![p.id] = r] BY <1>3 DEF PatchCommit
      <2> HIDE DEF r
      <2>5. \A i \in Id : rows'[i] = IF i = p.id THEN r ELSE rows[i] BY <2>4 DEF EditorTypeOK
      <2>6. Ids' = Ids BY <1>3, <2>2, <2>5 DEF Ids
      <2>7. \A i \in Ids : rows'[i].key = rows[i].key BY <2>3, <2>5 DEF Ids
      <2> QED BY <2>3, <2>5, <2>6, <2>7 DEF Ids, KeysOf
<1> QED BY <1>2, <1>3

LEMMA PatchFollows ==
  ASSUME EditorTypeOK, NEW p \in patches, PatchCommit(p)
  PROVE  RowsFollow({})
  BY PatchKeeps, FreeIsFree DEF RowsFollow

LEMMA UploadMakes ==
  ASSUME EditorTypeOK, UploadComplete
  PROVE  /\ made' \in Free /\ Ids' = Ids \union {made'} /\ made' \notin Ids
         /\ \A i \in Ids : rows'[i] = rows[i]
         /\ rows'[made'].key = upload.key /\ rows'[made'].shown /\ RowsFollow({upload.key})
         /\ KeysOf(Ids)' = KeysOf(Ids) \union {upload.key}
<1> DEFINE r == [key |-> upload.key, text |-> 0,
                 place |-> Max({0} \union {rows[j].place : j \in Ids}) + 1, shown |-> TRUE]
<1>1. made' \in Free /\ made' \in Id BY RowsAreFew DEF UploadComplete
<1>2. r \in Row
      <2>1. upload.key \in Key BY DEF UploadComplete, EditorTypeOK
      <2>2. Max({0} \union {rows[j].place : j \in Ids}) \in Nat BY PlacesAreNumbers DEF EditorTypeOK, RowsOK
      <2> QED BY <2>1, <2>2 DEF Row
<1>3. r # Nil BY <1>2, NilIsNoRow
<1>4. rows' = [rows EXCEPT ![made'] = r] BY DEF UploadComplete
<1>5. r.key = upload.key /\ r.shown OBVIOUS
<1> HIDE DEF r
<1>6. \A i \in Id : rows'[i] = IF i = made' THEN r ELSE rows[i] BY <1>1, <1>4 DEF EditorTypeOK
<1>7. made' \notin Ids BY <1>1, FreeIsFree
<1>8. Ids' = Ids \union {made'} BY <1>1, <1>3, <1>6 DEF Ids
<1>9. \A i \in Ids : rows'[i] = rows[i] BY <1>6, <1>7 DEF Ids
<1>10. rows'[made'] = r BY <1>1, <1>6
<1>11. RowsFollow({upload.key}) BY <1>1, <1>5, <1>8, <1>9, <1>10, FreeIsFree DEF RowsFollow
<1>12. KeysOf(Ids)' = KeysOf(Ids) \union {upload.key} BY <1>5, <1>8, <1>9, <1>10 DEF KeysOf
<1> QED BY <1>1, <1>5, <1>7, <1>8, <1>9, <1>10, <1>11, <1>12

\* The rows as a list have the rows' keys, each id once.
LEMMA ListIsRight ==
  ASSUME EditorTypeOK
  PROVE  /\ Named(rows, Listed) /\ IdsDiffer(Listed) /\ ItemsOf(Listed) = KeysOf(Ids)
         /\ IdsOf(Listed) = Ids /\ (RowsDiffer => OneEach(Listed))
         /\ \A n \in DOMAIN Listed : /\ Listed[n].id \in Ids
                                     /\ Listed[n].shown = rows[Listed[n].id].shown
<1>1. InOrder BY ListIsInOrder DEF EditorTypeOK, RowsOK
<1>2. \A n \in DOMAIN Listed : /\ Listed[n].id \in Ids /\ Rank(Listed[n].id) = n
                               /\ Listed[n].key = rows[Listed[n].id].key
                               /\ Listed[n].shown = rows[Listed[n].id].shown
      BY <1>1 DEF InOrder, Entry
<1>3. ASSUME NEW i \in Ids
      PROVE  \E n \in DOMAIN Listed : Listed[n].id = i /\ Listed[n].key = rows[i].key
      <2>1. Rank(i) \in DOMAIN Listed /\ Listed[Rank(i)] = Entry(i) BY <1>1 DEF InOrder
      <2>2. Entry(i).id = i /\ Entry(i).key = rows[i].key BY DEF Entry
      <2> QED BY <2>1, <2>2
<1>4. Named(rows, Listed) /\ IdsDiffer(Listed) BY <1>2 DEF Named, IdsDiffer
<1>5. ItemsOf(Listed) = KeysOf(Ids) BY <1>2, <1>3 DEF ItemsOf, KeysOf
<1>6. IdsOf(Listed) = Ids BY <1>2, <1>3, NilIsNoRow DEF IdsOf
<1>7. ASSUME RowsDiffer PROVE OneEach(Listed) BY <1>2, <1>7 DEF RowsDiffer, OneEach
<1> QED BY <1>2, <1>4, <1>5, <1>6, <1>7

-----------------------------------------------------------------------------
(* Items and their rows *)

LEMMA NamesFollow ==
  ASSUME EditorTypeOK, NEW bs, NEW K, Named(rows, bs), RowsFollow(K), Free \intersect IdsOf(bs) = {}
  PROVE  Named(rows', bs)
<1> SUFFICES ASSUME NEW n \in DOMAIN bs, bs[n].id \in Id, rows'[bs[n].id] # Nil
             PROVE  rows'[bs[n].id].key = bs[n].key
    BY DEF Named
<1>1. bs[n].id \in Ids' BY DEF Ids
<1>2. bs[n].id \in IdsOf(bs) BY NilIsNoRow DEF IdsOf
<1>3. bs[n].id \in Ids /\ rows'[bs[n].id].key = rows[bs[n].id].key BY <1>1, <1>2 DEF RowsFollow
<1>4. rows[bs[n].id].key = bs[n].key BY <1>3 DEF Named, Ids
<1> QED BY <1>3, <1>4

\* A save that goes on, or a new one, of what is on the screen.
CallsFollow ==
  \A c \in Saving' : \/ c \in Saving /\ call'[c].blocks = call[c].blocks
                     \/ call'[c].blocks = blocks

LEMMA IdentifiedFrom ==
  ASSUME EditorTypeOK, Identified, NEW K, RowsFollow(K), CallsFollow,
         blocks' = blocks \/ (Named(rows', blocks') /\ IdsDiffer(blocks')),
         tree' = tree \/ (Named(rows', tree') /\ IdsDiffer(tree')),
         (made' = made /\ upload'.key = upload.key) \/ (made' \in Ids' => rows'[made'].key = upload'.key)
  PROVE  Identified'
<1>1. Named(rows', blocks) /\ Named(rows', tree) BY NamesFollow, FreeIsFree DEF Identified
<1>2. \A c \in Saving : Named(rows', call[c].blocks) BY NamesFollow, FreeIsFree DEF Identified
<1>3. made \in Ids' => rows'[made].key = upload.key BY FreeIsFree DEF Identified, RowsFollow
<1>4. Named(rows', blocks') /\ IdsDiffer(blocks') BY <1>1 DEF Identified
<1>5. Named(rows', tree') /\ IdsDiffer(tree') BY <1>1 DEF Identified
<1>6. \A c \in Saving' : Named(rows', call'[c].blocks) /\ IdsDiffer(call'[c].blocks)
      BY <1>1, <1>2 DEF Identified, CallsFollow
<1>7. made' \in Ids' => rows'[made'].key = upload'.key BY <1>3
<1>8. Identified' = /\ Named(rows', blocks') /\ IdsDiffer(blocks')
                    /\ Named(rows', tree') /\ IdsDiffer(tree')
                    /\ \A c \in Saving' : Named(rows', call'[c].blocks) /\ IdsDiffer(call'[c].blocks)
                    /\ made' \in Ids' => rows'[made'].key = upload'.key
      BY DEF Identified, Named, IdsDiffer
<1> QED BY <1>4, <1>5, <1>6, <1>7, <1>8

LEMMA CallsStay == call' = call => CallsFollow
  BY DEF CallsFollow, Saving

LEMMA CallEnds ==
  ASSUME EditorTypeOK, NEW c \in Call, call' = [call EXCEPT ![c] = Nil]
  PROVE  /\ CallsFollow /\ Saving' = Saving \ {c}
         /\ \A d \in Saving' : call'[d] = call[d]
<1>1. \A d \in Call : call'[d] = IF d = c THEN Nil ELSE call[d] BY DEF EditorTypeOK
<1>2. Saving' = Saving \ {c} BY <1>1 DEF Saving
<1>3. \A d \in Saving' : call'[d] = call[d] BY <1>1, <1>2 DEF Saving
<1> QED BY <1>2, <1>3 DEF CallsFollow

LEMMA CallStarts ==
  ASSUME EditorTypeOK, NEW c \in Call, Fire(c)
  PROVE  /\ CallsFollow /\ Saving' = Saving \union {c} /\ c \notin Saving
         /\ call'[c].blocks = blocks /\ call'[c].known = Nil
         /\ \A d \in Saving : call'[d] = call[d]
<1> DEFINE s == [blocks |-> blocks, known |-> Nil]
<1>1. s \in Save BY DEF Save, EditorTypeOK
<1>2. s # Nil BY <1>1, NilIsNothing
<1>3. \A d \in Call : call'[d] = IF d = c THEN s ELSE call[d] BY DEF EditorTypeOK, Fire
<1>4. s.blocks = blocks /\ s.known = Nil OBVIOUS
<1> HIDE DEF s
<1>5. c \notin Saving BY DEF Fire
<1>6. Saving' = Saving \union {c} BY <1>2, <1>3 DEF Saving
<1>7. \A d \in Saving : call'[d] = call[d] BY <1>3, <1>5 DEF Saving
<1>8. call'[c].blocks = blocks /\ call'[c].known = Nil BY <1>3, <1>4
<1> QED BY <1>5, <1>6, <1>7, <1>8 DEF CallsFollow

LEMMA CallReads ==
  ASSUME EditorTypeOK, NEW c \in Call, SaveReads(c)
  PROVE  /\ CallsFollow /\ Saving' = Saving /\ c \in Saving
         /\ call'[c].blocks = call[c].blocks /\ call'[c].known = Ids
         /\ \A d \in Saving : d # c => call'[d] = call[d]
<1> DEFINE s == [call[c] EXCEPT !.known = Ids]
<1>1. call[c] \in Save /\ c \in Saving BY SaveTyped DEF SaveReads, Saving
<1>2. s \in Save /\ s.blocks = call[c].blocks /\ s.known = Ids BY <1>1 DEF Save, Ids
<1>3. call' = [call EXCEPT ![c] = s] BY DEF SaveReads
<1> HIDE DEF s
<1>4. s # Nil BY <1>2, NilIsNothing
<1>5. \A d \in Call : call'[d] = IF d = c THEN s ELSE call[d] BY <1>3 DEF EditorTypeOK
<1>6. Saving' = Saving BY <1>1, <1>4, <1>5 DEF Saving
<1>7. \A d \in Saving : d # c => call'[d] = call[d] BY <1>5 DEF Saving
<1>8. call'[c] = s BY <1>5
<1> QED BY <1>1, <1>2, <1>6, <1>7, <1>8 DEF CallsFollow

LEMMA ItemAppended ==
  ASSUME EditorTypeOK, NEW b \in Block, b.id \notin IdsOf(blocks), blocks' = Append(blocks, b)
  PROVE  /\ blocks' \in Seq(Block)
         /\ ItemsOf(blocks') = ItemsOf(blocks) \union {b.key}
         /\ IdsOf(blocks') \subseteq IdsOf(blocks) \union {b.id}
         /\ IdsDiffer(blocks) => IdsDiffer(blocks')
         /\ OneEach(blocks) /\ b.key \notin ItemsOf(blocks) => OneEach(blocks')
         /\ \A R : Named(R, blocks) /\ (b.id \in Id /\ R[b.id] # Nil => R[b.id].key = b.key) => Named(R, blocks')
         /\ \A n \in DOMAIN blocks' : blocks'[n] = b \/ (n \in DOMAIN blocks /\ blocks'[n] = blocks[n])
         /\ \A n \in DOMAIN blocks : n \in DOMAIN blocks' /\ blocks'[n] = blocks[n]
         /\ \E n \in DOMAIN blocks' : blocks'[n] = b
<1> DEFINE m == Len(blocks) + 1
<1>1. /\ blocks' \in Seq(Block) /\ DOMAIN blocks' = DOMAIN blocks \union {m} /\ m \notin DOMAIN blocks
      /\ \A n \in DOMAIN blocks : blocks'[n] = blocks[n]
      /\ blocks'[m] = b
      BY Appending DEF EditorTypeOK
<1> HIDE DEF m
<1>2. ItemsOf(blocks') = ItemsOf(blocks) \union {b.key} BY <1>1 DEF ItemsOf
<1>3. IdsOf(blocks') \subseteq IdsOf(blocks) \union {b.id} BY <1>1 DEF IdsOf
<1>4. \A n \in DOMAIN blocks : blocks[n].id = b.id => b.id = Nil BY DEF IdsOf
<1>5. IdsDiffer(blocks) => IdsDiffer(blocks') BY <1>1, <1>4 DEF IdsDiffer
<1>6. ASSUME OneEach(blocks), b.key \notin ItemsOf(blocks) PROVE OneEach(blocks')
      <2>1. \A n \in DOMAIN blocks : blocks[n].key # b.key BY <1>6 DEF ItemsOf
      <2> QED BY <1>1, <1>6, <2>1 DEF OneEach
<1>7. \A R : Named(R, blocks) /\ (b.id \in Id /\ R[b.id] # Nil => R[b.id].key = b.key) => Named(R, blocks')
      BY <1>1 DEF Named
<1> QED BY <1>1, <1>2, <1>3, <1>5, <1>6, <1>7

LEMMA RedrawnKeeps ==
  ASSUME NEW p, Redrawn(p)
  PROVE  /\ blocks' \in Seq(Block)
         /\ ItemsOf(blocks') \subseteq ItemsOf(blocks) /\ IdsOf(blocks') \subseteq IdsOf(blocks)
         /\ ItemsOf(blocks) \subseteq ItemsOf(blocks') \union removed'
         /\ IdsDiffer(blocks) => IdsDiffer(blocks')
         /\ OneEach(blocks) => OneEach(blocks')
         /\ \A R : Named(R, blocks) => Named(R, blocks')
         /\ \A n \in DOMAIN blocks' : \E m \in DOMAIN blocks :
              blocks'[n].key = blocks[m].key /\ blocks'[n].id = blocks[m].id
         /\ \A m \in DOMAIN blocks : \/ blocks[m].key \in removed'
                                      \/ \E n \in DOMAIN blocks' :
                                           blocks'[n].key = blocks[m].key /\ blocks'[n].id = blocks[m].id
<1>1. Drawn(blocks', blocks, p) /\ blocks' \in Seq(Block) BY DEF Redrawn
<1>2. \A n \in DOMAIN blocks' : \E m \in DOMAIN blocks :
        blocks'[n].key = blocks[m].key /\ blocks'[n].id = blocks[m].id
      BY <1>1 DEF Drawn
<1>3. \A m \in DOMAIN blocks : \/ blocks[m].key \in removed'
                                \/ \E n \in DOMAIN blocks' :
                                     blocks'[n].key = blocks[m].key /\ blocks'[n].id = blocks[m].id
      BY <1>1 DEF Drawn, Redrawn
<1>4. ItemsOf(blocks) \subseteq ItemsOf(blocks') \union removed' BY <1>3 DEF ItemsOf
<1>5. \A R : Named(R, blocks) => Named(R, blocks') BY <1>2 DEF Named
<1> QED BY <1>1, <1>2, <1>3, <1>4, <1>5, DrawnKeeps

LEMMA NewItemAdded ==
  ASSUME EditorTypeOK, Numbered, Add \/ PasteUrlInstead
  PROVE  /\ NewBlock(items + 1) \in Block /\ blocks' = Append(blocks, NewBlock(items + 1))
         /\ NewBlock(items + 1).id = Nil /\ NewBlock(items + 1).key = items + 1
         /\ items' = items + 1 /\ items + 1 \notin 1..items /\ 1..items \subseteq 1..items'
         /\ items + 1 # Nil /\ items + 1 \in 1..items'
<1>1. items \in Nat /\ items + 1 \in Key
      BY LessonEditorAssumption DEF Add, PasteUrlInstead, EditorTypeOK, Key
<1>2. blocks' = Append(blocks, NewBlock(items + 1)) /\ items' = items + 1
      BY DEF Add, PasteUrlInstead, Edited
<1>3. items + 1 # Nil BY <1>1, LessonEditorAssumption
<1> QED BY <1>1, <1>2, <1>3, NewItem DEF NewBlock

\* An edit of what is there.
Touch(n) ==
  \/ RemoveItem(n) \/ EditItem(n) \/ Toggle(n)
  \/ \E m \in DOMAIN blocks : MoveItem(n, m)

\* A step of nothing but the screen.
Idle == OpenUploader \/ CloseUploader \/ (\E unmount \in BOOLEAN : Leave(unmount)) \/ UNCHANGED editorVars

\* An upload joins the list, unless its item is there.
LEMMA VideoIsNamed ==
  ASSUME EditorTypeOK, upload.step \in {"answered", "processing"}
  PROVE  [key |-> upload.key, id |-> made, text |-> 0, shown |-> TRUE] \in Block
<1>1. upload.key \in Key /\ made \in Id BY DEF EditorTypeOK
<1> QED BY <1>1 DEF Block

Video == [key |-> upload.key, id |-> made, text |-> 0, shown |-> TRUE]
Joins == Video \in Block /\ Video.id \notin IdsOf(blocks) /\ blocks' = Append(blocks, Video)

LEMMA Joining ==
  ASSUME EditorTypeOK, Absorb \/ UploadReady
  PROVE  /\ Video.key = upload.key /\ Video.id = made /\ Video.shown = TRUE
         /\ \/ open /\ Joins
            \/ open /\ made \in IdsOf(blocks) /\ blocks' = blocks
            \/ ~open /\ blocks' = blocks
<1>1. upload.step \in {"answered", "processing"} BY DEF Absorb, UploadReady
<1>2. TakeOn(busy) \/ TakeOn(busy /\ ~mounted) BY DEF Absorb, UploadReady
<1>3. Video \in Block BY <1>1, VideoIsNamed DEF Video
<1>4. Video.key = upload.key /\ Video.id = made /\ Video.shown = TRUE BY DEF Video
<1>5. /\ ~open => blocks' = blocks
      /\ open => blocks' = IF Video.id \in IdsOf(blocks) THEN blocks ELSE Append(blocks, Video)
      BY <1>2 DEF TakeOn, Absorbed, Video
<1> QED BY <1>3, <1>4, <1>5 DEF Joins

LEMMA IdentifiedStep ==
  EditorTypeOK /\ Identified /\ Numbered /\ [EditorNext]_editorVars => Identified'
<1> SUFFICES ASSUME EditorTypeOK, Identified, Numbered, [EditorNext]_editorVars PROVE Identified'
    OBVIOUS
<1>1. ASSUME Add \/ PasteUrlInstead PROVE Identified'
      <2>1. Nil \notin Ids /\ Nil \notin Id BY NilIsNoRow
      <2>2. Named(rows, blocks') /\ IdsDiffer(blocks')
            <3> DEFINE b == NewBlock(items + 1)
            <3>1. b \in Block /\ b.id = Nil /\ blocks' = Append(blocks, b) BY <1>1, NewItemAdded
            <3> HIDE DEF b
            <3>2. b.id \notin IdsOf(blocks) BY <3>1 DEF IdsOf
            <3> QED BY <2>1, <3>1, <3>2, ItemAppended DEF Identified
      <2>3. rows' = rows /\ call' = call /\ tree' = tree /\ made' = made /\ upload' = upload
            BY <1>1 DEF Add, PasteUrlInstead, Edited, cache, uploads
      <2> QED BY <2>2, <2>3, RowsStay, CallsStay, IdentifiedFrom
<1>2. ASSUME NEW n \in DOMAIN blocks, Touch(n) PROVE Identified'
      <2>1. PICK p : Redrawn(p) BY <1>2, Redrawing DEF Touch
      <2>2. Named(rows, blocks') /\ IdsDiffer(blocks') BY <2>1, RedrawnKeeps DEF Identified
      <2>3. rows' = rows /\ call' = call /\ tree' = tree /\ made' = made /\ upload' = upload
            BY <1>2 DEF Touch, RemoveItem, EditItem, Toggle, MoveItem, Edited, cache, uploads
      <2> QED BY <2>2, <2>3, RowsStay, CallsStay, IdentifiedFrom
<1>3. ASSUME NEW c \in Call, Fire(c) \/ SaveReads(c) \/ SaveFails(c) PROVE Identified'
      <2>1. UNCHANGED <<rows, blocks, tree, made, upload>>
            BY <1>3 DEF Fire, SaveReads, SaveFails, editor, cache, uploads
      <2>2. CallsFollow BY <1>3, CallStarts, CallReads, CallEnds DEF SaveFails
      <2> QED BY <2>1, <2>2, RowsStay, IdentifiedFrom
<1>4. ASSUME NEW c \in Call, SaveCommit(c) PROVE Identified'
      <2>1. UNCHANGED <<blocks, tree, made, upload>> BY <1>4 DEF SaveCommit, uploads
      <2>2. CallsFollow BY <1>4, CallEnds DEF SaveCommit
      <2>3. RowsFollow(ItemsOf(call[c].blocks)) BY <1>4, SaveFollows
      <2> QED BY <2>1, <2>2, <2>3, IdentifiedFrom
<1>5. ASSUME NEW p \in patches, PatchCommit(p) PROVE Identified'
      <2>1. UNCHANGED <<blocks, tree, call, made, upload>> BY <1>5 DEF PatchCommit, editor, uploads
      <2> QED BY <1>5, <2>1, PatchFollows, CallsStay, IdentifiedFrom
<1>6. ASSUME NEW p \in patches, PatchFails(p) PROVE Identified'
      <2>1. UNCHANGED <<rows, blocks, tree, call, made, upload>>
            BY <1>6 DEF PatchFails, editor, cache, uploads
      <2> QED BY <2>1, RowsStay, CallsStay, IdentifiedFrom
<1>7. ASSUME Refetch PROVE Identified'
      <2>1. rows' = rows /\ UNCHANGED <<blocks, call, made, upload>> /\ tree' = Listed
            BY <1>7 DEF Refetch, editor, uploads
      <2>2. Named(rows', tree') /\ IdsDiffer(tree') BY <2>1, ListIsRight
      <2> QED BY <2>1, <2>2, RowsStay, CallsStay, IdentifiedFrom
<1>8. ASSUME UploadStart \/ UploadEnds \/ AnswerLost PROVE Identified'
      <2>1. rows' = rows /\ UNCHANGED <<blocks, tree, call>>
            BY <1>8 DEF UploadStart, UploadEnds, AnswerLost, cache
      <2>2. made' = Nil BY <1>8 DEF UploadStart, UploadEnds, AnswerLost, EditorTypeOK
      <2>3. made' \notin Ids' BY <2>1, <2>2, NilIsNoRow DEF Ids
      <2> QED BY <2>1, <2>3, RowsStay, CallsStay, IdentifiedFrom
<1>9. ASSUME UploadComplete PROVE Identified'
      <2>1. UNCHANGED <<blocks, tree, call>> BY <1>9 DEF UploadComplete, editor, cache
      <2>2. upload'.key = upload.key BY <1>9 DEF UploadComplete, EditorTypeOK
      <2>3. rows'[made'].key = upload'.key BY <1>9, <2>2, UploadMakes
      <2> QED BY <1>9, <2>1, <2>3, UploadMakes, CallsStay, IdentifiedFrom
<1>10. ASSUME Absorb \/ UploadReady PROVE Identified'
      <2>1. rows' = rows /\ UNCHANGED <<tree, call>> BY <1>10 DEF Absorb, UploadReady, cache
      <2>2. blocks' = blocks \/ (Named(rows, blocks') /\ IdsDiffer(blocks'))
            <3>1. ASSUME Joins PROVE Named(rows, blocks') /\ IdsDiffer(blocks')
                  <4>1. Video.key = upload.key /\ Video.id = made BY <1>10, Joining
                  <4>2. Video.id \in Id /\ rows[Video.id] # Nil => rows[Video.id].key = Video.key
                        BY <4>1 DEF Identified, Ids
                  <4> QED BY <3>1, <4>2, ItemAppended DEF Joins, Identified
            <3> QED BY <1>10, <3>1, Joining
      <2>3. CASE Absorb
            <3>1. made' = made /\ upload'.key = upload.key BY <2>3 DEF Absorb, EditorTypeOK
            <3> QED BY <2>1, <2>2, <3>1, RowsStay, CallsStay, IdentifiedFrom
      <2>4. CASE UploadReady
            <3>1. made' \notin Ids' BY <2>1, <2>4, NilIsNoRow DEF UploadReady, Ids
            <3> QED BY <2>1, <2>2, <3>1, RowsStay, CallsStay, IdentifiedFrom
      <2> QED BY <1>10, <2>3, <2>4
<1>11. ASSUME Return PROVE Identified'
       <2>1. rows' = rows /\ UNCHANGED <<tree, call, made, upload>> /\ blocks' = tree
             BY <1>11 DEF Return, cache, uploads
       <2> QED BY <2>1, RowsStay, CallsStay, IdentifiedFrom DEF Identified
<1>12. ASSUME Idle PROVE Identified'
       <2>1. UNCHANGED <<rows, blocks, tree, call, made, upload>>
             BY <1>12 DEF Idle, OpenUploader, CloseUploader, Leave, editorVars, editor, cache, uploads
       <2> QED BY <2>1, RowsStay, CallsStay, IdentifiedFrom
<1> QED BY <1>1, <1>2, <1>3, <1>4, <1>5, <1>6, <1>7, <1>8, <1>9, <1>10, <1>11, <1>12
        DEF EditorNext, Edit, Serve, Touch, Idle

LEMMA NumberedFrom ==
  ASSUME EditorTypeOK, Numbered, NEW K, RowsFollow(K), K \subseteq 1..items, CallsFollow,
         items' \in Nat, items <= items', ItemsOf(blocks') \subseteq 1..items', ItemsOf(tree') \subseteq 1..items',
         stored' \subseteq 1..items', removed' \subseteq 1..items', upload'.key \in 1..items' \union {Nil}
  PROVE  Numbered'
<1>1. 1..items \subseteq 1..items' BY DEF EditorTypeOK
<1>2. KeysOf(Ids)' \subseteq 1..items'
      <2>1. ASSUME NEW i \in Ids' PROVE rows'[i].key \in 1..items
            BY DEF RowsFollow, Numbered, KeysOf
      <2> QED BY <1>1, <2>1 DEF KeysOf
<1>3. ASSUME NEW c \in Saving' PROVE ItemsOf(call'[c].blocks) \subseteq 1..items'
      BY <1>1 DEF CallsFollow, Numbered
<1>4. Numbered' = /\ ItemsOf(blocks') \union ItemsOf(tree') \union KeysOf(Ids)' \union stored' \union removed' \subseteq 1..items'
                  /\ upload'.key \in 1..items' \union {Nil}
                  /\ \A c \in Saving' : ItemsOf(call'[c].blocks) \subseteq 1..items'
      BY DEF Numbered, ItemsOf
<1> QED BY <1>2, <1>3, <1>4

LEMMA NumberedStep ==
  EditorTypeOK /\ Identified /\ Numbered /\ [EditorNext]_editorVars => Numbered'
<1> SUFFICES ASSUME EditorTypeOK, Identified, Numbered, [EditorNext]_editorVars PROVE Numbered'
    OBVIOUS
<1>1. /\ ItemsOf(blocks) \subseteq 1..items /\ ItemsOf(tree) \subseteq 1..items /\ KeysOf(Ids) \subseteq 1..items
      /\ stored \subseteq 1..items /\ removed \subseteq 1..items /\ upload.key \in 1..items \union {Nil}
      /\ items \in Nat /\ items <= items /\ {} \subseteq 1..items
      /\ \A c \in Saving : ItemsOf(call[c].blocks) \subseteq 1..items
      BY LessonEditorAssumption DEF Numbered, EditorTypeOK
<1>2. ASSUME items' = items, rows' = rows, CallsFollow, ItemsOf(blocks') \subseteq 1..items, ItemsOf(tree') \subseteq 1..items,
             stored' \subseteq 1..items, removed' \subseteq 1..items, upload'.key \in 1..items \union {Nil}
      PROVE  Numbered'
      BY <1>1, <1>2, RowsStay, NumberedFrom
<1>3. ASSUME Add \/ PasteUrlInstead PROVE Numbered'
      <2> DEFINE b == NewBlock(items + 1)
      <2>1. /\ b \in Block /\ b.id = Nil /\ b.key = items + 1 /\ blocks' = Append(blocks, b)
            /\ items' = items + 1 /\ 1..items \subseteq 1..items' /\ items + 1 \in 1..items'
            BY <1>3, NewItemAdded
      <2> HIDE DEF b
      <2>2. b.id \notin IdsOf(blocks) BY <2>1 DEF IdsOf
      <2>3. ItemsOf(blocks') = ItemsOf(blocks) \union {items + 1} BY <2>1, <2>2, ItemAppended
      <2>4. UNCHANGED <<rows, call, tree, upload, stored, removed>>
            BY <1>3 DEF Add, PasteUrlInstead, Edited, cache, uploads, past
      <2>5. items' \in Nat /\ items <= items' BY <1>1, <2>1
      <2> QED BY <1>1, <2>1, <2>3, <2>4, <2>5, RowsStay, CallsStay, NumberedFrom
<1>4. ASSUME NEW n \in DOMAIN blocks, Touch(n) PROVE Numbered'
      <2>1. PICK p : Redrawn(p) BY <1>4, Redrawing DEF Touch
      <2>2. ItemsOf(blocks') \subseteq ItemsOf(blocks) BY <2>1, RedrawnKeeps
      <2>3. UNCHANGED <<rows, call, tree, upload, items, stored>>
            BY <1>4 DEF Touch, RemoveItem, EditItem, Toggle, MoveItem, EditOnce, Edited, cache, uploads, past
      <2>4. removed' \subseteq removed \union ItemsOf(blocks)
            BY <1>4 DEF Touch, RemoveItem, EditItem, Toggle, MoveItem, past, ItemsOf
      <2> QED BY <1>1, <1>2, <2>2, <2>3, <2>4, CallsStay
<1>5. ASSUME NEW c \in Call, Fire(c) \/ SaveReads(c) \/ SaveFails(c) PROVE Numbered'
      <2>1. UNCHANGED <<rows, blocks, tree, upload, items, stored, removed>>
            BY <1>5 DEF Fire, SaveReads, SaveFails, editor, cache, uploads, limits, past
      <2>2. CallsFollow BY <1>5, CallStarts, CallReads, CallEnds DEF SaveFails
      <2> QED BY <1>1, <1>2, <2>1, <2>2
<1>6. ASSUME NEW c \in Call, SaveCommit(c) PROVE Numbered'
      <2>1. UNCHANGED <<blocks, tree, upload, items, removed>> BY <1>6 DEF SaveCommit, uploads, limits
      <2>2. CallsFollow BY <1>6, CallEnds DEF SaveCommit
      <2>3. RowsFollow(ItemsOf(call[c].blocks)) BY <1>6, SaveFollows
      <2>4. ItemsOf(call[c].blocks) \subseteq 1..items BY <1>1, <1>6 DEF SaveCommit, Saving
      <2>5. stored' \subseteq stored \union ItemsOf(call[c].blocks) BY <1>6 DEF SaveCommit, ItemsOf
      <2>6. /\ items' \in Nat /\ items <= items' /\ stored' \subseteq 1..items'
            /\ ItemsOf(blocks') \subseteq 1..items' /\ ItemsOf(tree') \subseteq 1..items'
            /\ removed' \subseteq 1..items' /\ upload'.key \in 1..items' \union {Nil}
            BY <1>1, <2>1, <2>4, <2>5
      <2> QED BY <2>2, <2>3, <2>4, <2>6, NumberedFrom
<1>7. ASSUME NEW p \in patches, PatchCommit(p) PROVE Numbered'
      <2>1. UNCHANGED <<blocks, tree, call, upload, items, stored, removed>>
            BY <1>7 DEF PatchCommit, editor, uploads, limits, past
      <2> QED BY <1>1, <1>7, <2>1, PatchFollows, CallsStay, NumberedFrom
<1>8. ASSUME NEW p \in patches, PatchFails(p) PROVE Numbered'
      <2>1. UNCHANGED <<rows, blocks, tree, call, upload, items, stored, removed>>
            BY <1>8 DEF PatchFails, editor, cache, uploads
      <2> QED BY <1>1, <1>2, <2>1, CallsStay
<1>9. ASSUME Refetch PROVE Numbered'
      <2>1. UNCHANGED <<rows, blocks, call, upload, items, stored, removed>> /\ tree' = Listed
            BY <1>9 DEF Refetch, editor, uploads, limits, past
      <2>2. ItemsOf(tree') \subseteq 1..items BY <1>1, <2>1, ListIsRight
      <2> QED BY <1>1, <1>2, <2>1, <2>2, CallsStay
<1>10. ASSUME UploadStart PROVE Numbered'
       <2>1. UNCHANGED <<rows, blocks, tree, call, stored, removed>> BY <1>10 DEF UploadStart, cache, past
       <2>2. items' = items + 1 /\ upload'.key = items + 1 BY <1>10 DEF UploadStart
       <2>3. /\ items' \in Nat /\ items <= items' /\ 1..items \subseteq 1..items' /\ upload'.key \in 1..items'
             BY <1>1, <2>2
       <2> QED BY <1>1, <2>1, <2>3, RowsStay, CallsStay, NumberedFrom
<1>11. ASSUME UploadEnds \/ AnswerLost PROVE Numbered'
       <2>1. UNCHANGED <<rows, blocks, tree, call, items, stored, removed>> /\ upload'.key = Nil
             <3>1. CASE UploadEnds BY <3>1 DEF UploadEnds, NoUpload, cache, limits, past
             <3>2. CASE AnswerLost BY <3>2 DEF AnswerLost, NoUpload, cache
             <3> QED BY <1>11, <3>1, <3>2
       <2> QED BY <1>1, <1>2, <2>1, CallsStay
<1>12. ASSUME UploadComplete PROVE Numbered'
       <2>1. UNCHANGED <<blocks, tree, call, items, removed>> BY <1>12 DEF UploadComplete, editor, cache, limits
       <2>2. upload'.key = upload.key /\ stored' = stored \union {upload.key} /\ upload.key # Nil
             BY <1>12 DEF UploadComplete, EditorTypeOK
       <2>3. {upload.key} \subseteq 1..items BY <1>1, <2>2
       <2> QED BY <1>1, <1>12, <2>1, <2>2, <2>3, UploadMakes, CallsStay, NumberedFrom
<1>13. ASSUME Absorb \/ UploadReady PROVE Numbered'
       <2>1. UNCHANGED <<rows, tree, call, items, stored, removed>>
             BY <1>13 DEF Absorb, UploadReady, cache, limits, past
       <2>2. upload'.key \in {upload.key, Nil} /\ upload.key # Nil
             BY <1>13 DEF Absorb, UploadReady, NoUpload, EditorTypeOK
       <2>3. ItemsOf(blocks') \subseteq ItemsOf(blocks) \union {upload.key}
             <3>1. ASSUME Joins PROVE ItemsOf(blocks') = ItemsOf(blocks) \union {upload.key}
                   BY <1>13, <3>1, Joining, ItemAppended DEF Joins
             <3> QED BY <1>13, <3>1, Joining
       <2> QED BY <1>1, <1>2, <2>1, <2>2, <2>3, CallsStay
<1>14. ASSUME Return PROVE Numbered'
       <2>1. UNCHANGED <<rows, tree, call, upload, items, stored, removed>> /\ blocks' = tree
             BY <1>14 DEF Return, cache, uploads, limits, past
       <2> QED BY <1>1, <1>2, <2>1, CallsStay
<1>15. ASSUME Idle PROVE Numbered'
       <2>1. UNCHANGED <<rows, blocks, tree, call, upload, items, stored, removed>>
             BY <1>15 DEF Idle, OpenUploader, CloseUploader, Leave, editorVars, editor, cache, uploads, limits, past
       <2> QED BY <1>1, <1>2, <2>1, CallsStay
<1> QED BY <1>3, <1>4, <1>5, <1>6, <1>7, <1>8, <1>9, <1>10, <1>11, <1>12, <1>13, <1>14, <1>15
        DEF EditorNext, Edit, Serve, Touch, Idle

-----------------------------------------------------------------------------
(* Waiting, and what happened *)

LEMMA ListUnchanged == rows' = rows => Listed' = Listed
  BY DEF Listed, Ids, Entry, Rank, Before

LEMMA FlagsRise ==
  ASSUME EditorTypeOK, [EditorNext]_editorVars
  PROVE  (overlapped => overlapped') /\ (hasty => hasty') /\ (collided => collided')
<1>1. ASSUME Add \/ PasteUrlInstead PROVE UNCHANGED <<overlapped, hasty, collided>>
      BY <1>1 DEF Add, PasteUrlInstead, past
<1>2. ASSUME NEW n \in DOMAIN blocks, Touch(n) PROVE UNCHANGED <<overlapped, hasty, collided>>
      BY <1>2 DEF Touch, RemoveItem, EditItem, Toggle, MoveItem, past
<1>3. ASSUME NEW c \in Call, Fire(c) PROVE (overlapped => overlapped') /\ hasty' = hasty /\ (collided => collided')
      BY <1>3 DEF Fire
<1>4. ASSUME NEW c \in Call, SaveReads(c) \/ SaveCommit(c) \/ SaveFails(c)
      PROVE UNCHANGED <<overlapped, hasty, collided>>
      BY <1>4 DEF SaveReads, SaveCommit, SaveFails, past
<1>5. ASSUME NEW p \in patches, PatchCommit(p) \/ PatchFails(p) PROVE UNCHANGED <<overlapped, hasty, collided>>
      BY <1>5 DEF PatchCommit, PatchFails, past
<1>6. ASSUME Refetch \/ OpenUploader \/ CloseUploader \/ UploadStart \/ Absorb \/ UploadReady \/ UploadEnds \/ Return
      PROVE UNCHANGED <<overlapped, hasty, collided>>
      BY <1>6 DEF Refetch, OpenUploader, CloseUploader, UploadStart, Absorb, UploadReady, UploadEnds, Return, past
<1>7. ASSUME UploadComplete \/ AnswerLost PROVE UNCHANGED <<overlapped, hasty>> /\ (collided => collided')
      BY <1>7 DEF UploadComplete, AnswerLost
<1>8. ASSUME NEW unmount \in BOOLEAN, Leave(unmount) PROVE UNCHANGED <<overlapped, collided>> /\ (hasty => hasty')
      BY <1>8 DEF Leave
<1>9. ASSUME UNCHANGED editorVars PROVE UNCHANGED <<overlapped, hasty, collided>>
      BY <1>9 DEF editorVars, past
<1> QED BY <1>1, <1>2, <1>3, <1>4, <1>5, <1>6, <1>7, <1>8, <1>9 DEF EditorNext, Edit, Serve, Touch

\* What the timer does when the uploader speaks.
LEMMA TimerStep ==
  ASSUME EditorTypeOK, Waiting, [EditorNext]_editorVars
  PROVE  busy' \/ ~open' => ~timer'
<1>1. busy \/ ~open => ~timer BY DEF Waiting
<1>0. ASSUME NEW bs, Edited(bs), busy' = busy PROVE busy' \/ ~open' => ~timer'
      BY <1>0 DEF Edited, Arm, EditorTypeOK
<1>2. ASSUME Add \/ PasteUrlInstead PROVE busy' \/ ~open' => ~timer'
      <2>1. busy' = busy BY <1>2 DEF Add, PasteUrlInstead, uploads
      <2>2. \E bs : Edited(bs) BY <1>2 DEF Add, PasteUrlInstead
      <2> QED BY <1>0, <2>1, <2>2
<1>3. ASSUME NEW n \in DOMAIN blocks, Touch(n) PROVE busy' \/ ~open' => ~timer'
      <2>1. busy' = busy BY <1>3 DEF Touch, RemoveItem, EditItem, Toggle, MoveItem, uploads
      <2>2. \E bs : Edited(bs) BY <1>3 DEF Touch, RemoveItem, EditItem, Toggle, MoveItem
      <2> QED BY <1>0, <2>1, <2>2
<1>4. ASSUME NEW c \in Call, Fire(c) \/ SaveReads(c) \/ SaveCommit(c) \/ SaveFails(c) PROVE busy' \/ ~open' => ~timer'
      BY <1>1, <1>4 DEF Fire, SaveReads, SaveCommit, SaveFails, uploads, editor
<1>5. ASSUME NEW p \in patches, PatchCommit(p) \/ PatchFails(p) PROVE busy' \/ ~open' => ~timer'
      BY <1>1, <1>5 DEF PatchCommit, PatchFails, uploads, editor
<1>6. ASSUME Refetch \/ CloseUploader \/ UploadComplete PROVE busy' \/ ~open' => ~timer'
      BY <1>1, <1>6 DEF Refetch, CloseUploader, UploadComplete, editor, uploads
<1>7. ASSUME OpenUploader PROVE busy' \/ ~open' => ~timer'
      BY <1>7 DEF OpenUploader, Arm
<1>8. ASSUME UploadStart PROVE busy' \/ ~open' => ~timer'
      BY <1>8 DEF UploadStart, Arm
<1>9. ASSUME Absorb PROVE busy' \/ ~open' => ~timer'
      BY <1>1, <1>9 DEF Absorb, TakeOn, Arm
<1>10. ASSUME UploadReady PROVE busy' \/ ~open' => ~timer'
       BY <1>1, <1>10 DEF UploadReady, TakeOn, Arm
<1>11. ASSUME UploadEnds PROVE busy' \/ ~open' => ~timer'
       BY <1>1, <1>11 DEF UploadEnds, Arm
<1>12. ASSUME AnswerLost PROVE busy' \/ ~open' => ~timer'
       BY <1>1, <1>12 DEF AnswerLost, Arm
<1>13. ASSUME (\E unmount \in BOOLEAN : Leave(unmount)) \/ Return PROVE busy' \/ ~open' => ~timer'
       BY <1>13 DEF Leave, Return, Arm, uploads
<1>14. ASSUME UNCHANGED editorVars PROVE busy' \/ ~open' => ~timer'
       BY <1>1, <1>14 DEF editorVars, editor, uploads
<1> QED BY <1>2, <1>3, <1>4, <1>5, <1>6, <1>7, <1>8, <1>9, <1>10, <1>11, <1>12, <1>13, <1>14
        DEF EditorNext, Edit, Serve, Touch

LEMMA SettledStays ==
  ASSUME Settled, UNCHANGED <<rows, blocks, tree, call, patches, upload>>, ~timer'
  PROVE  Settled'
<1>1. Listed' = Listed BY ListUnchanged
<1>2. Saving' = Saving BY DEF Saving
<1> QED BY <1>1, <1>2 DEF Settled, Read

LEMMA WaitingStep ==
  EditorTypeOK /\ Waiting /\ [EditorNext]_editorVars => Waiting'
<1> SUFFICES ASSUME EditorTypeOK, Waiting, [EditorNext]_editorVars PROVE Waiting'
    OBVIOUS
<1>1. busy' \/ ~open' => ~timer' BY TimerStep
<1>2. (hasty => hasty') BY FlagsRise
<1> SUFFICES ASSUME ~hasty', ~open' PROVE Settled' BY <1>1 DEF Waiting
<1>3. ~hasty /\ ~timer' BY <1>1, <1>2
<1>4. CASE open
      <2>1. PICK unmount \in BOOLEAN : Leave(unmount)
            <3>1. ASSUME Add \/ PasteUrlInstead PROVE open' BY <3>1 DEF Add, PasteUrlInstead, Edited
            <3>2. ASSUME NEW n \in DOMAIN blocks, Touch(n) PROVE open'
                  BY <3>2 DEF Touch, RemoveItem, EditItem, Toggle, MoveItem, Edited
            <3>3. ASSUME NEW c \in Call, Fire(c) \/ SaveReads(c) \/ SaveCommit(c) \/ SaveFails(c) PROVE open'
                  BY <1>4, <3>3 DEF Fire, SaveReads, SaveCommit, SaveFails, editor
            <3>4. ASSUME NEW p \in patches, PatchCommit(p) \/ PatchFails(p) PROVE open'
                  BY <1>4, <3>4 DEF PatchCommit, PatchFails, editor
            <3>5. ASSUME Refetch \/ OpenUploader \/ CloseUploader \/ UploadStart \/ UploadComplete PROVE open'
                  BY <1>4, <3>5 DEF Refetch, OpenUploader, CloseUploader, UploadStart, UploadComplete, editor
            <3>6. ASSUME Absorb \/ UploadReady \/ UploadEnds \/ AnswerLost \/ Return PROVE open'
                  BY <1>4, <3>6 DEF Absorb, UploadReady, UploadEnds, AnswerLost, Return
            <3>7. ASSUME UNCHANGED editorVars PROVE open' BY <1>4, <3>7 DEF editorVars, editor
            <3> QED BY <3>1, <3>2, <3>3, <3>4, <3>5, <3>6, <3>7 DEF EditorNext, Edit, Serve, Touch
      <2>2. Settled BY <1>3, <2>1 DEF Leave
      <2>3. UNCHANGED <<rows, blocks, tree, call, patches, upload>> BY <2>1 DEF Leave, cache
      <2> QED BY <1>3, <2>2, <2>3, SettledStays
<1>5. CASE ~open
      <2>1. Settled BY <1>3, <1>5 DEF Waiting
      <2>2. Saving = {} /\ patches = {} /\ upload.step = "none" /\ ~timer /\ tree = Listed
            BY <2>1 DEF Settled
      <2>3. CASE Refetch
            <3>1. UNCHANGED <<rows, blocks, call, patches, upload>> /\ tree' = Listed
                  BY <2>3 DEF Refetch, editor, uploads
            <3>2. UNCHANGED <<rows, blocks, tree, call, patches, upload>> BY <2>2, <3>1
            <3> QED BY <1>3, <2>1, <3>2, SettledStays
      <2>4. CASE UNCHANGED editorVars
            <3>1. UNCHANGED <<rows, blocks, tree, call, patches, upload>>
                  BY <2>4 DEF editorVars, editor, cache, uploads
            <3> QED BY <1>3, <2>1, <3>1, SettledStays
      <2>5. ASSUME Add \/ PasteUrlInstead PROVE FALSE BY <1>5, <2>5 DEF Add, PasteUrlInstead, Edited
      <2>6. ASSUME NEW n \in DOMAIN blocks, Touch(n) PROVE FALSE
            BY <1>5, <2>6 DEF Touch, RemoveItem, EditItem, Toggle, MoveItem, Edited
      <2>7. ASSUME NEW c \in Call, Fire(c) \/ SaveReads(c) \/ SaveCommit(c) \/ SaveFails(c) PROVE FALSE
            BY <2>2, <2>7 DEF Fire, SaveReads, SaveCommit, SaveFails, Saving
      <2>8. ASSUME OpenUploader \/ CloseUploader \/ UploadStart \/ (\E unmount \in BOOLEAN : Leave(unmount)) PROVE FALSE
            BY <1>5, <2>8 DEF OpenUploader, CloseUploader, UploadStart, Leave
      <2>9. ASSUME UploadComplete \/ Absorb \/ UploadReady \/ UploadEnds \/ AnswerLost PROVE FALSE
            BY <2>2, <2>9 DEF UploadComplete, Absorb, UploadReady, UploadEnds, AnswerLost
      <2>10. ASSUME Return PROVE FALSE BY <2>10 DEF Return
      <2> QED BY <2>2, <2>3, <2>4, <2>5, <2>6, <2>7, <2>8, <2>9, <2>10 DEF EditorNext, Edit, Serve, Touch
<1> QED BY <1>4, <1>5

-----------------------------------------------------------------------------
(* One save at a time *)

LEMMA AloneFrom ==
  ASSUME Alone, UNCHANGED <<rows, call>>, state' = state \/ state' # "saved", OneEach(blocks'), UploadAlone',
         upload'.step \in {"moving", "answered"} => \A c \in Saving : upload'.key \notin ItemsOf(call[c].blocks)
  PROVE  Alone'
<1>1. Saving' = Saving /\ Ids' = Ids BY DEF Saving, Ids
<1>2. RowsDiffer' BY <1>1 DEF Alone, RowsDiffer
<1>3. ASSUME NEW c \in Saving PROVE SaveAlone(c)'
      <2>1. SaveAlone(c) BY DEF Alone
      <2>2. state' # "saved" BY <2>1 DEF SaveAlone
      <2> QED BY <1>1, <2>1, <2>2 DEF SaveAlone, OneEach, ItemsOf
<1>4. OneEach(blocks)' BY DEF OneEach
<1> QED BY <1>1, <1>2, <1>3, <1>4 DEF Alone

\* The rows after a save are of one item each, and of none that is being uploaded.
LEMMA SaveLeavesOneEach ==
  ASSUME EditorTypeOK, Identified, Alone, NEW c \in Call, SaveCommit(c)
  PROVE  RowsDiffer' /\ (upload.step = "moving" => upload.key \notin KeysOf(Ids)')
<1> DEFINE s == call[c]
<1>1. c \in Saving /\ s # Nil /\ s.known # Nil BY DEF SaveCommit, Saving
<1>2. SaveAlone(c) /\ Named(rows, s.blocks) /\ IdsDiffer(s.blocks) /\ s.blocks \in Seq(Block)
      BY <1>1, SaveTyped DEF Alone, Identified
<1>3. CASE Kept(s) \subseteq Ids
      <2>1. PICK new : Becomes(s, new) BY <1>2, <1>3, SaveBecomes
      <2>2. /\ \A n \in DOMAIN s.blocks : rows'[new[n]].key = s.blocks[n].key
            /\ \A i \in Ids' : \/ \E n \in DOMAIN s.blocks : i = new[n]
                               \/ i \in Ids /\ i \notin s.known /\ rows'[i] = rows[i]
            BY <1>1, <1>2, <1>3, <2>1, Posted
      <2>3. \A i \in Ids : i \notin s.known => rows[i].key \notin ItemsOf(s.blocks)
            BY <1>1, <1>2 DEF SaveAlone
      <2>4. ASSUME NEW i \in Ids'
            PROVE  \/ \E n \in DOMAIN s.blocks : i = new[n] /\ rows'[i].key = s.blocks[n].key
                   \/ i \in Ids /\ rows'[i].key = rows[i].key /\ rows'[i].key \notin ItemsOf(s.blocks)
            BY <2>2, <2>3
      <2>5. ASSUME NEW i \in Ids', NEW j \in Ids', rows'[i].key = rows'[j].key PROVE i = j
            <3>1. CASE \E n \in DOMAIN s.blocks : i = new[n] /\ rows'[i].key = s.blocks[n].key
                  <4>1. PICK n \in DOMAIN s.blocks : i = new[n] /\ rows'[i].key = s.blocks[n].key BY <3>1
                  <4>2. rows'[j].key \in ItemsOf(s.blocks) BY <2>5, <4>1 DEF ItemsOf
                  <4>3. PICK m \in DOMAIN s.blocks : j = new[m] /\ rows'[j].key = s.blocks[m].key BY <2>4, <4>2
                  <4>4. m = n BY <1>2, <2>5, <4>1, <4>3 DEF SaveAlone, OneEach
                  <4> QED BY <4>1, <4>3, <4>4
            <3>2. CASE i \in Ids /\ rows'[i].key = rows[i].key /\ rows'[i].key \notin ItemsOf(s.blocks)
                  <4>1. ASSUME NEW m \in DOMAIN s.blocks, rows'[j].key = s.blocks[m].key PROVE FALSE
                        BY <2>5, <3>2, <4>1 DEF ItemsOf
                  <4>2. j \in Ids /\ rows'[j].key = rows[j].key BY <2>4, <4>1
                  <4> QED BY <2>5, <3>2, <4>2 DEF Alone, RowsDiffer
            <3> QED BY <2>4, <3>1, <3>2
      <2>6. ASSUME upload.step = "moving" PROVE upload.key \notin KeysOf(Ids)'
            <3>1. upload.key \notin KeysOf(Ids) /\ upload.key \notin ItemsOf(s.blocks)
                  BY <1>2, <2>6 DEF Alone, UploadAlone, SaveAlone
            <3>2. \A i \in Ids' : rows'[i].key # upload.key BY <2>4, <3>1 DEF KeysOf, ItemsOf
            <3> QED BY <3>2 DEF KeysOf
      <2> QED BY <2>5, <2>6 DEF RowsDiffer
<1>4. CASE ~(Kept(s) \subseteq Ids)
      <2>1. rows' = rows BY <1>4 DEF SaveCommit
      <2> QED BY <2>1 DEF Alone, UploadAlone, RowsDiffer, KeysOf, Ids
<1> QED BY <1>3, <1>4

\* With no save under way there is little to say of saves.
LEMMA AloneQuiet ==
  ASSUME OneEach(blocks'), RowsDiffer', Saving' = {}, UploadAlone'
  PROVE  Alone'
<1>1. OneEach(blocks)' BY DEF OneEach
<1> QED BY <1>1 DEF Alone

LEMMA AloneStep ==
  ASSUME EditorInv, [EditorNext]_editorVars, ~overlapped', ~hasty'
  PROVE  Alone'
<1>1. EditorTypeOK /\ Identified /\ Numbered /\ Waiting BY DEF EditorInv
<1>2. ~overlapped /\ ~hasty BY <1>1, FlagsRise
<1>3. Alone BY <1>2 DEF EditorInv
<1>4. /\ OneEach(blocks) /\ UploadAlone /\ RowsDiffer
      /\ \A c \in Saving : upload.step \in {"moving", "answered"} => upload.key \notin ItemsOf(call[c].blocks)
      BY <1>3 DEF Alone, SaveAlone
<1>5. /\ ItemsOf(blocks) \subseteq 1..items /\ KeysOf(Ids) \subseteq 1..items /\ upload.key \in 1..items \union {Nil}
      /\ \A c \in Saving : ItemsOf(call[c].blocks) \subseteq 1..items
      BY <1>1 DEF Numbered
<1>6. ASSUME UNCHANGED <<rows, call, upload, made, blocks>>, state' = state \/ state' # "saved" PROVE Alone'
      <2>1. UploadAlone' BY <1>4, <1>6 DEF UploadAlone, ItemsOf, KeysOf, Ids
      <2> QED BY <1>3, <1>4, <1>6, <2>1, AloneFrom
<1>7. ASSUME Add \/ PasteUrlInstead PROVE Alone'
      <2> DEFINE b == NewBlock(items + 1)
      <2>1. /\ b \in Block /\ b.id = Nil /\ b.key = items + 1 /\ blocks' = Append(blocks, b)
            /\ items + 1 \notin 1..items /\ items + 1 # Nil
            BY <1>1, <1>7, NewItemAdded
      <2> HIDE DEF b
      <2>2. b.id \notin IdsOf(blocks) BY <2>1 DEF IdsOf
      <2>3. b.key \notin ItemsOf(blocks) /\ b.key # upload.key BY <1>5, <2>1
      <2>4. /\ ItemsOf(blocks') = ItemsOf(blocks) \union {b.key} /\ OneEach(blocks')
            /\ \A n \in DOMAIN blocks' : blocks'[n] = b \/ (n \in DOMAIN blocks /\ blocks'[n] = blocks[n])
            BY <1>1, <1>4, <2>1, <2>2, <2>3, ItemAppended
      <2>5. UNCHANGED <<rows, call, upload, made>> BY <1>7 DEF Add, PasteUrlInstead, Edited, uploads
      <2>6. state' = state \/ state' # "saved" BY <1>7 DEF Add, PasteUrlInstead, Edited, Arm
      <2>7. UploadAlone' BY <1>4, <2>3, <2>4, <2>5 DEF UploadAlone, KeysOf, Ids, ItemsOf
      <2> QED BY <1>3, <1>4, <2>4, <2>5, <2>6, <2>7, AloneFrom
<1>8. ASSUME NEW n \in DOMAIN blocks, Touch(n) PROVE Alone'
      <2>1. PICK p : Redrawn(p) BY <1>1, <1>8, Redrawing DEF Touch
      <2>2. /\ ItemsOf(blocks') \subseteq ItemsOf(blocks) /\ OneEach(blocks')
            /\ \A m \in DOMAIN blocks' : \E k \in DOMAIN blocks :
                 blocks'[m].key = blocks[k].key /\ blocks'[m].id = blocks[k].id
            BY <1>4, <2>1, RedrawnKeeps
      <2>3. UNCHANGED <<rows, call, upload, made>>
            BY <1>8 DEF Touch, RemoveItem, EditItem, Toggle, MoveItem, Edited, uploads
      <2>4. state' = state \/ state' # "saved"
            BY <1>8 DEF Touch, RemoveItem, EditItem, Toggle, MoveItem, Edited, Arm
      <2>5. UploadAlone' BY <1>4, <2>2, <2>3 DEF UploadAlone, KeysOf, Ids, ItemsOf
      <2> QED BY <1>3, <1>4, <2>2, <2>3, <2>4, <2>5, AloneFrom
<1>9. ASSUME NEW c \in Call, Fire(c) PROVE Alone'
      <2>1. Saving = {} BY <1>9 DEF Fire
      <2>2. Saving' = {c} /\ call'[c].blocks = blocks /\ call'[c].known = Nil
            BY <1>1, <1>9, <2>1, CallStarts
      <2>3. UNCHANGED <<rows, blocks, upload, made>> /\ state' = "saving" BY <1>9 DEF Fire, uploads
      <2>4. SaveAlone(c)' BY <1>4, <2>2, <2>3 DEF SaveAlone, UploadAlone, OneEach, ItemsOf
      <2>5. UploadAlone' BY <1>4, <2>3 DEF UploadAlone, ItemsOf, KeysOf, Ids
      <2>6. RowsDiffer' BY <1>4, <2>3 DEF RowsDiffer, Ids
      <2>7. OneEach(blocks)' BY <1>4, <2>3 DEF OneEach
      <2> QED BY <2>2, <2>4, <2>5, <2>6, <2>7 DEF Alone
<1>10. ASSUME NEW c \in Call, SaveReads(c) PROVE Alone'
       <2>1. /\ Saving' = Saving /\ c \in Saving /\ call'[c].blocks = call[c].blocks /\ call'[c].known = Ids
             BY <1>1, <1>10, CallReads
       <2>2. UNCHANGED <<rows, blocks, upload, made, state>> BY <1>10 DEF SaveReads, editor, uploads
       <2>3. Saving = {c} BY <1>3, <2>1 DEF Alone
       <2>4. Ids' = Ids BY <2>2 DEF Ids
       <2>5. SaveAlone(c) BY <1>3, <2>1 DEF Alone
       <2>6. SaveAlone(c)' BY <2>1, <2>2, <2>4, <2>5 DEF SaveAlone, OneEach, ItemsOf
       <2>7. UploadAlone' BY <1>4, <2>2 DEF UploadAlone, ItemsOf, KeysOf, Ids
       <2>8. RowsDiffer' /\ OneEach(blocks)' BY <1>4, <2>2 DEF RowsDiffer, Ids, OneEach
       <2> QED BY <2>1, <2>3, <2>6, <2>7, <2>8 DEF Alone
<1>11. ASSUME NEW c \in Call, SaveCommit(c) PROVE Alone'
       <2>1. c \in Saving /\ call' = [call EXCEPT ![c] = Nil] BY <1>11 DEF SaveCommit, Saving
       <2>2. Saving' = {}
             <3>1. Saving' = Saving \ {c} BY <1>1, <2>1, CallEnds
             <3>2. Saving = {c} BY <1>3, <2>1 DEF Alone
             <3> QED BY <3>1, <3>2
       <2>3. UNCHANGED <<blocks, upload, made>> BY <1>11 DEF SaveCommit, uploads
       <2>4. RowsDiffer' /\ (upload.step = "moving" => upload.key \notin KeysOf(Ids)')
             BY <1>1, <1>3, <1>11, SaveLeavesOneEach
       <2>5. UploadAlone' BY <1>4, <2>3, <2>4 DEF UploadAlone, ItemsOf
       <2> QED BY <1>4, <2>2, <2>3, <2>4, <2>5, AloneQuiet
<1>12. ASSUME NEW c \in Call, SaveFails(c) PROVE Alone'
       <2>1. c \in Saving /\ call' = [call EXCEPT ![c] = Nil] BY <1>12 DEF SaveFails, Saving
       <2>2. Saving' = {}
             <3>1. Saving' = Saving \ {c} BY <1>1, <2>1, CallEnds
             <3>2. Saving = {c} BY <1>3, <2>1 DEF Alone
             <3> QED BY <3>1, <3>2
       <2>3. UNCHANGED <<rows, blocks, upload, made>> BY <1>12 DEF SaveFails, uploads
       <2>4. RowsDiffer' BY <1>4, <2>3 DEF RowsDiffer, Ids
       <2>5. UploadAlone' BY <1>4, <2>3 DEF UploadAlone, ItemsOf, KeysOf, Ids
       <2> QED BY <1>4, <2>2, <2>3, <2>4, <2>5, AloneQuiet
<1>13. ASSUME NEW p \in patches, PatchCommit(p) PROVE Alone'
       <2>1. UNCHANGED <<blocks, call, upload, made, state>> BY <1>13 DEF PatchCommit, editor, uploads
       <2>2. Ids' = Ids /\ KeysOf(Ids)' = KeysOf(Ids) /\ \A i \in Ids : rows'[i].key = rows[i].key
             BY <1>1, <1>13, PatchKeeps
       <2>3. RowsDiffer' BY <1>4, <2>2 DEF RowsDiffer
       <2>4. UploadAlone' BY <1>4, <2>1, <2>2 DEF UploadAlone, ItemsOf
       <2>5. Saving' = Saving BY <2>1 DEF Saving
       <2>6. ASSUME NEW c \in Saving PROVE SaveAlone(c)'
             <3>1. SaveAlone(c) BY <1>3 DEF Alone
             <3> QED BY <2>1, <2>2, <3>1 DEF SaveAlone, OneEach, ItemsOf
       <2>7. OneEach(blocks)' BY <1>4, <2>1 DEF OneEach
       <2> QED BY <1>3, <2>3, <2>4, <2>5, <2>6, <2>7 DEF Alone
<1>14. ASSUME NEW p \in patches, PatchFails(p) PROVE Alone'
       BY <1>6, <1>14 DEF PatchFails, editor, uploads
<1>15. ASSUME Refetch PROVE Alone'
       BY <1>6, <1>15 DEF Refetch, editor, uploads
<1>16. ASSUME Idle PROVE Alone'
       <2>1. UNCHANGED <<rows, call, upload, made, blocks>>
             BY <1>16 DEF Idle, OpenUploader, CloseUploader, Leave, editorVars, editor, uploads
       <2>2. state' = state \/ state' # "saved"
             BY <1>16 DEF Idle, OpenUploader, CloseUploader, Leave, Arm, editorVars, editor
       <2> QED BY <1>6, <2>1, <2>2
<1>17. ASSUME UploadStart PROVE Alone'
       <2>1. UNCHANGED <<rows, call, blocks>> /\ state' = state BY <1>17 DEF UploadStart, Arm
       <2>2. upload'.step = "moving" /\ upload'.key = items + 1 BY <1>17 DEF UploadStart
       <2>3. items + 1 \notin 1..items BY <1>1 DEF EditorTypeOK
       <2>4. /\ upload'.key \notin ItemsOf(blocks) /\ upload'.key \notin KeysOf(Ids)
             /\ \A c \in Saving : upload'.key \notin ItemsOf(call[c].blocks)
             BY <1>5, <2>2, <2>3
       <2>5. UploadAlone' BY <2>1, <2>2, <2>4 DEF UploadAlone, ItemsOf, KeysOf, Ids
       <2> QED BY <1>3, <1>4, <2>1, <2>4, <2>5, AloneFrom
<1>18. ASSUME UploadEnds \/ AnswerLost PROVE Alone'
       <2>1. UNCHANGED <<rows, call, blocks>> BY <1>18 DEF UploadEnds, AnswerLost
       <2>2. upload'.step = "none"
             <3>1. NoUpload.step = "none" BY DEF NoUpload
             <3> QED BY <1>18, <3>1 DEF UploadEnds, AnswerLost
       <2>3. state' = state \/ state' # "saved" BY <1>18 DEF UploadEnds, AnswerLost, Arm
       <2>4. UploadAlone' BY <2>2 DEF UploadAlone
       <2> QED BY <1>3, <1>4, <2>1, <2>2, <2>3, <2>4, AloneFrom
<1>19. ASSUME UploadComplete PROVE Alone'
       <2>1. UNCHANGED <<blocks, call, state>> /\ upload.step = "moving"
             BY <1>19 DEF UploadComplete, editor
       <2>2. upload'.step = "answered" /\ upload'.key = upload.key
             BY <1>1, <1>19 DEF UploadComplete, EditorTypeOK
       <2>3. /\ made' \in Free /\ Ids' = Ids \union {made'} /\ made' \notin Ids
             /\ \A i \in Ids : rows'[i] = rows[i]
             /\ rows'[made'].key = upload.key
             BY <1>1, <1>19, UploadMakes
       <2>4. upload.key \notin KeysOf(Ids) /\ upload.key \notin ItemsOf(blocks)
             BY <1>4, <2>1 DEF UploadAlone
       <2>5. RowsDiffer' BY <1>4, <2>3, <2>4 DEF RowsDiffer, KeysOf
       <2>6. UploadAlone' BY <2>1, <2>2, <2>4 DEF UploadAlone, ItemsOf
       <2>7. Saving' = Saving BY <2>1 DEF Saving
       <2>8. ASSUME NEW c \in Saving PROVE SaveAlone(c)'
             <3>1. SaveAlone(c) /\ upload.key \notin ItemsOf(call[c].blocks) BY <1>3, <1>4, <2>1 DEF Alone
             <3>2. call[c].known # Nil => made' \notin call[c].known
                   <4>1. call[c].known # Nil => Free \intersect (call[c].known \ {Nil}) = {} BY FreeIsFree
                   <4>2. made' # Nil BY <1>1, <2>3, RowsAreFew, NilIsNoRow
                   <4> QED BY <2>3, <4>1, <4>2
             <3>3. ItemsOf(call[c].blocks)' = ItemsOf(call[c].blocks) /\ (OneEach(call[c].blocks)' <=> OneEach(call[c].blocks))
                   BY <2>1 DEF ItemsOf, OneEach
             <3>4. call'[c].known # Nil => \A i \in Ids' : i \notin call'[c].known => rows'[i].key \notin ItemsOf(call[c].blocks)
                   BY <2>1, <2>3, <3>1, <3>2 DEF SaveAlone
             <3>5. upload'.key \notin ItemsOf(call[c].blocks) /\ state' # "saved" BY <2>1, <2>2, <3>1 DEF SaveAlone
             <3> QED BY <3>1, <3>3, <3>4, <3>5 DEF SaveAlone
       <2>9. OneEach(blocks)' BY <1>4, <2>1 DEF OneEach
       <2> QED BY <1>3, <2>5, <2>6, <2>7, <2>8, <2>9 DEF Alone
<1>20. ASSUME Absorb \/ UploadReady PROVE Alone'
       <2>1. UNCHANGED <<rows, call>> BY <1>20 DEF Absorb, UploadReady
       <2>2. state' = state \/ state' # "saved" BY <1>20 DEF Absorb, UploadReady, TakeOn, Arm
       <2>3. /\ Video.key = upload.key /\ Video.id = made
             /\ blocks' = blocks \/ Joins
             BY <1>1, <1>20, Joining
       <2>4. ASSUME Joins PROVE OneEach(blocks')
             <3>1. \A n \in DOMAIN blocks : blocks[n].key = upload.key => blocks[n].id = made
                   BY <1>4, <1>20 DEF Absorb, UploadReady, UploadAlone, ItemsOf
             <3>2. made # Nil BY <1>1, <1>20 DEF Absorb, UploadReady, EditorTypeOK
             <3>3. upload.key \notin ItemsOf(blocks) BY <2>3, <2>4, <3>1, <3>2 DEF Joins, ItemsOf, IdsOf
             <3> QED BY <1>1, <1>4, <2>3, <2>4, <3>3, ItemAppended DEF Joins
       <2>5. UploadAlone'
             <3>1. CASE UploadReady BY <3>1 DEF UploadReady, NoUpload, UploadAlone
             <3>2. CASE Absorb
                   <4>1. upload'.step = "processing" /\ upload'.key = upload.key /\ made' = made
                         BY <1>1, <3>2 DEF Absorb, EditorTypeOK
                   <4>2. \A n \in DOMAIN blocks : blocks[n].key # upload.key
                         BY <1>4, <3>2 DEF Absorb, UploadAlone, ItemsOf
                   <4>3. ASSUME Joins
                         PROVE  \A n \in DOMAIN blocks' : blocks'[n] = Video \/ (n \in DOMAIN blocks /\ blocks'[n] = blocks[n])
                         BY <1>1, <4>3, ItemAppended DEF Joins
                   <4>4. \A n \in DOMAIN blocks' : blocks'[n].key = upload.key => blocks'[n].id = made
                         BY <2>3, <4>2, <4>3
                   <4> QED BY <4>1, <4>4 DEF UploadAlone
             <3> QED BY <1>20, <3>1, <3>2
       <2>6. upload'.step \in {"none", "processing"}
             BY <1>1, <1>20 DEF Absorb, UploadReady, NoUpload, EditorTypeOK
       <2> QED BY <1>3, <1>4, <2>1, <2>2, <2>3, <2>4, <2>5, <2>6, AloneFrom
<1>21. ASSUME Return PROVE Alone'
       <2>1. Settled BY <1>1, <1>2, <1>21 DEF Return, Waiting
       <2>2. blocks' = Listed /\ Saving = {} /\ upload.step = "none" BY <1>21, <2>1 DEF Return, Settled
       <2>3. UNCHANGED <<rows, call, upload, made>> BY <1>21 DEF Return, uploads
       <2>4. OneEach(blocks') BY <1>1, <1>4, <2>2, ListIsRight
       <2>5. RowsDiffer' /\ Saving' = {} BY <1>4, <2>2, <2>3 DEF RowsDiffer, Ids, Saving
       <2>6. UploadAlone' BY <2>2, <2>3 DEF UploadAlone
       <2> QED BY <2>4, <2>5, <2>6, AloneQuiet
<1> QED BY <1>7, <1>8, <1>9, <1>10, <1>11, <1>12, <1>13, <1>14, <1>15, <1>16, <1>17, <1>18, <1>19, <1>20, <1>21
        DEF EditorNext, Edit, Serve, Touch, Idle

-----------------------------------------------------------------------------
(* What a save that nothing crossed leaves *)

\* Places without ties rank the rows.
LEMMA SaveRanks ==
  ASSUME EditorTypeOK, NEW L \in Nat, NEW new \in [1..L -> Id], Ids' = {new[n] : n \in 1..L},
         \A m, n \in 1..L : new[m] = new[n] => m = n,
         \A n \in 1..L : rows'[new[n]].place = n
  PROVE  Cardinality(Ids') = L /\ \A n \in 1..L : Rank(new[n])' = n
<1>1. ASSUME NEW k \in 0..L PROVE Cardinality({new[m] : m \in 1..k}) = k
      <2> DEFINE f == [m \in 1..k |-> new[m]]
                 S == {new[m] : m \in 1..k}
      <2>1. f \in Bijection(1..k, S) BY DEF Bijection, Injection, Surjection, IsInjective
      <2>2. IsFiniteSet(1..k) /\ Cardinality(1..k) = k BY FS_Interval
      <2> HIDE DEF f, S
      <2>3. ExistsBijection(1..k, S) BY <2>1 DEF ExistsBijection
      <2>4. Cardinality(S) = k BY <2>2, <2>3, FS_Bijection
      <2> QED BY <2>4 DEF S
<1>2. ASSUME NEW n \in 1..L PROVE Rank(new[n])' = n
      <2>1. \A m \in 1..L : Before(new[m], new[n])' <=> m <= n
            <3> TAKE m \in 1..L
            <3>1. rows'[new[m]].place = m /\ rows'[new[n]].place = n OBVIOUS
            <3>2. m = n => new[m] = new[n] OBVIOUS
            <3>3. new[m] \in Id /\ new[n] \in Id OBVIOUS
            <3>4. Id \subseteq Int BY LessonEditorAssumption DEF Id
            <3>5. new[m] \in Int /\ new[n] \in Int BY <3>3, <3>4
            <3> QED BY <3>1, <3>2, <3>5 DEF Before
      <2>2. {j \in Ids' : Before(j, new[n])'} = {new[m] : m \in 1..n} BY <2>1
      <2>3. Cardinality({new[m] : m \in 1..n}) = n BY <1>1
      <2> QED BY <2>2, <2>3 DEF Rank
<1>3. Cardinality(Ids') = L
      <2>1. L \in 0..L OBVIOUS
      <2>2. Cardinality({new[m] : m \in 1..L}) = L BY <1>1, <2>1
      <2> QED BY <2>2, Zenon
<1> QED BY <1>2, <1>3

LEMMA SaveIsRead ==
  ASSUME EditorTypeOK, EditorTypeOK', Identified, NEW c \in Call, SaveCommit(c),
         Kept(call[c]) \subseteq Ids, call[c].known = Ids
  PROVE  /\ KeysOf(Ids)' = ItemsOf(call[c].blocks)
         /\ Read(Listed)' = Read(call[c].blocks)
<1> DEFINE s == call[c]
           L == Len(s.blocks)
<1>1. c \in Saving /\ s # Nil /\ s.known # Nil BY DEF SaveCommit, Saving
<1>2. Named(rows, s.blocks) /\ IdsDiffer(s.blocks) /\ s.blocks \in Seq(Block)
      BY <1>1, SaveTyped DEF Identified
<1>3. L \in Nat /\ DOMAIN s.blocks = 1..L BY <1>2
<1>4. PICK new : Becomes(s, new) BY <1>2, SaveBecomes
<1>5. /\ \A n \in 1..L : /\ new[n] \in Ids' /\ rows'[new[n]].key = s.blocks[n].key
                         /\ rows'[new[n]].text = s.blocks[n].text /\ rows'[new[n]].place = n
      /\ \A i \in Ids' : \/ \E n \in 1..L : i = new[n]
                         \/ i \in Ids /\ i \notin s.known
      <2>1. /\ \A n \in DOMAIN s.blocks :
                  /\ new[n] \in Ids' /\ rows'[new[n]].key = s.blocks[n].key
                  /\ rows'[new[n]].text = s.blocks[n].text /\ rows'[new[n]].place = n
            /\ \A i \in Ids' : \/ \E n \in DOMAIN s.blocks : i = new[n]
                               \/ i \in Ids /\ i \notin s.known
            BY <1>1, <1>2, <1>4, Posted
      <2> QED BY <1>3, <2>1
<1>6. Ids' = {new[n] : n \in 1..L} BY <1>5
<1>7. new \in [1..L -> Id] /\ \A m, n \in 1..L : new[m] = new[n] => m = n BY <1>3, <1>4 DEF Becomes
<1>8. Cardinality(Ids') = L /\ \A n \in 1..L : Rank(new[n])' = n
      <2>1. \A n \in 1..L : rows'[new[n]].place = n BY <1>5
      <2> HIDE DEF L, s
      <2> QED BY <1>3, <1>6, <1>7, <2>1, SaveRanks
<1>9. KeysOf(Ids)' = ItemsOf(s.blocks)
      <2>1. KeysOf(Ids)' = {rows'[i].key : i \in Ids'} BY DEF KeysOf
      <2>2. {rows'[i].key : i \in Ids'} = {rows'[new[n]].key : n \in 1..L} BY <1>6
      <2>3. {rows'[new[n]].key : n \in 1..L} = {s.blocks[n].key : n \in 1..L} BY <1>5
      <2> QED BY <1>3, <2>1, <2>2, <2>3 DEF ItemsOf
<1>10. InOrder' BY NextListIsInOrder DEF EditorTypeOK, RowsOK
<1>11. DOMAIN Listed' = 1..L BY <1>8, <1>10 DEF InOrder
<1>12. ASSUME NEW n \in 1..L
       PROVE  Listed'[n].key = s.blocks[n].key /\ Listed'[n].text = s.blocks[n].text
       <2>1. new[n] \in Ids' /\ Rank(new[n])' = n BY <1>5, <1>8
       <2>2. Listed'[n] = Entry(new[n])' BY <1>10, <2>1 DEF InOrder
       <2>3. Listed'[n].key = rows'[new[n]].key /\ Listed'[n].text = rows'[new[n]].text
             BY <2>2 DEF Entry
       <2> QED BY <1>5, <2>3
<1>13. Read(Listed)' = Read(s.blocks) BY <1>3, <1>11, <1>12 DEF Read
<1> QED BY <1>9, <1>13

LEMMA PatchIsRead ==
  ASSUME EditorTypeOK, EditorTypeOK', NEW p \in patches, PatchCommit(p)
  PROVE  Read(Listed)' = Read(Listed)
<1>1. /\ Ids' = Ids
      /\ \A i \in Ids : /\ rows'[i].key = rows[i].key /\ rows'[i].text = rows[i].text
                        /\ rows'[i].place = rows[i].place
      BY PatchKeeps
<1>2. InOrder /\ InOrder' BY ListIsInOrder, NextListIsInOrder DEF EditorTypeOK, RowsOK
<1>3. \A i, j \in Ids : Before(j, i)' <=> Before(j, i) BY <1>1 DEF Before
<1>4. \A i \in Ids : {j \in Ids' : Before(j, i)'} = {j \in Ids : Before(j, i)} BY <1>1, <1>3
<1>5. \A i \in Ids : Rank(i)' = Rank(i) BY <1>4 DEF Rank
<1>6. DOMAIN Listed' = DOMAIN Listed BY <1>1, <1>2 DEF InOrder
<1>7. ASSUME NEW n \in DOMAIN Listed
      PROVE  Listed'[n].key = Listed[n].key /\ Listed'[n].text = Listed[n].text
      <2>1. PICK i \in Ids : Rank(i) = n BY <1>2 DEF InOrder
      <2>2. Listed[n] = Entry(i) BY <1>2, <2>1 DEF InOrder
      <2>3. Listed'[n] = Entry(i)' BY <1>1, <1>2, <1>5, <2>1 DEF InOrder
      <2> QED BY <1>1, <2>1, <2>2, <2>3 DEF Entry
<1> QED BY <1>6, <1>7 DEF Read

-----------------------------------------------------------------------------
(* Nothing is lost *)

LEMMA CompleteFrom ==
  ASSUME Complete, UNCHANGED <<rows, call, stored>>, removed \subseteq removed',
         ItemsOf(blocks) \subseteq ItemsOf(blocks') \union removed',
         Arriving \subseteq Arriving' \union ItemsOf(blocks') \union removed',
         Saving # {} => upload'.step # "answered", UpToDate'
  PROVE  Complete'
<1>1. Saving' = Saving /\ Ids' = Ids BY DEF Saving, Ids
<1>2. KeysOf(Ids)' = KeysOf(Ids) BY <1>1 DEF KeysOf
<1>3. ItemsOf(blocks)' = ItemsOf(blocks') BY DEF ItemsOf
<1>4. ASSUME NEW c \in Saving PROVE SaveComplete(c)'
      <2>1. SaveComplete(c) BY DEF Complete
      <2>2. ItemsOf(call[c].blocks)' = ItemsOf(call[c].blocks) BY DEF ItemsOf
      <2> QED BY <1>1, <1>2, <1>3, <2>1, <2>2 DEF SaveComplete
<1>5. (stored \ removed)' \subseteq KeysOf(Ids)' BY <1>2 DEF Complete
<1>6. KeysOf(Ids)' \subseteq ItemsOf(blocks)' \union removed' \union Arriving' BY <1>2, <1>3 DEF Complete
<1> QED BY <1>1, <1>4, <1>5, <1>6 DEF Complete

LEMMA CompleteQuiet ==
  ASSUME Saving' = {}, stored' \ removed' \subseteq KeysOf(Ids)',
         KeysOf(Ids)' \subseteq ItemsOf(blocks') \union removed' \union Arriving', UpToDate'
  PROVE  Complete'
<1>1. ItemsOf(blocks)' = ItemsOf(blocks') BY DEF ItemsOf
<1> QED BY <1>1 DEF Complete

\* Nothing is promised while the timer runs, an upload is under way, or the
\* lesson is closed; and what was promised stays true.
LEMMA NotYet == (~open' \/ busy' \/ timer') => UpToDate'
  BY DEF UpToDate

LEMMA StillUpToDate ==
  ASSUME UpToDate, UNCHANGED <<rows, call, blocks>>, open' => open, ~busy' /\ ~timer' => ~busy /\ ~timer,
         state' = state \/ state' # "saved", upload'.step # "answered" => upload.step # "answered"
  PROVE  UpToDate'
<1>1. Saving' = Saving BY DEF Saving
<1>2. Listed' = Listed BY ListUnchanged
<1> QED BY <1>1, <1>2 DEF UpToDate, Read

LEMMA CompleteStep ==
  ASSUME EditorInv, EditorTypeOK', [EditorNext]_editorVars, ~overlapped', ~hasty', ~collided'
  PROVE  Complete'
<1>1. EditorTypeOK /\ Identified /\ Numbered /\ Waiting BY DEF EditorInv
<1>2. ~overlapped /\ ~hasty /\ ~collided BY <1>1, FlagsRise
<1>3. Alone /\ Complete /\ (open => Shown) BY <1>2 DEF EditorInv
<1>4. /\ UpToDate /\ stored \ removed \subseteq KeysOf(Ids)
      /\ KeysOf(Ids) \subseteq ItemsOf(blocks) \union removed \union Arriving
      /\ \A c \in Saving : SaveComplete(c)
      /\ Saving # {} => upload.step # "answered"
      BY <1>3 DEF Complete, SaveComplete
<1>5. ~open => Settled BY <1>1, <1>2 DEF Waiting
<1>6. ASSUME UNCHANGED <<rows, call, upload, blocks, stored, removed>>, UpToDate' PROVE Complete'
      <2>1. Arriving' = Arriving BY <1>6 DEF Arriving
      <2> QED BY <1>3, <1>4, <1>6, <2>1, CompleteFrom
<1>7. ASSUME Add \/ PasteUrlInstead PROVE Complete'
      <2> DEFINE b == NewBlock(items + 1)
      <2>1. b \in Block /\ b.id = Nil /\ blocks' = Append(blocks, b) BY <1>1, <1>7, NewItemAdded
      <2> HIDE DEF b
      <2>2. b.id \notin IdsOf(blocks) BY <2>1 DEF IdsOf
      <2>3. ItemsOf(blocks) \subseteq ItemsOf(blocks') BY <1>1, <2>1, <2>2, ItemAppended
      <2>4. UNCHANGED <<rows, call, upload, stored, removed>>
            BY <1>7 DEF Add, PasteUrlInstead, Edited, uploads, past
      <2>5. UpToDate'
            <3>1. \E bs : Edited(bs) BY <1>7 DEF Add, PasteUrlInstead
            <3>2. busy' = busy BY <1>7 DEF Add, PasteUrlInstead, uploads
            <3>3. busy' \/ timer' BY <1>1, <3>1, <3>2 DEF Edited, Arm, EditorTypeOK
            <3> QED BY <3>3, NotYet
      <2>6. Arriving' = Arriving BY <2>4 DEF Arriving
      <2> QED BY <1>3, <1>4, <2>3, <2>4, <2>5, <2>6, CompleteFrom
<1>8. ASSUME NEW n \in DOMAIN blocks, Touch(n) PROVE Complete'
      <2>1. PICK p : Redrawn(p) BY <1>1, <1>8, Redrawing DEF Touch
      <2>2. ItemsOf(blocks) \subseteq ItemsOf(blocks') \union removed' BY <2>1, RedrawnKeeps
      <2>3. UNCHANGED <<rows, call, upload, stored>>
            BY <1>8 DEF Touch, RemoveItem, EditItem, Toggle, MoveItem, Edited, uploads, past
      <2>4. removed \subseteq removed'
            BY <1>8 DEF Touch, RemoveItem, EditItem, Toggle, MoveItem, past
      <2>5. UpToDate'
            <3>1. \E bs : Edited(bs) BY <1>8 DEF Touch, RemoveItem, EditItem, Toggle, MoveItem
            <3>2. busy' = busy BY <1>8 DEF Touch, RemoveItem, EditItem, Toggle, MoveItem, uploads
            <3>3. busy' \/ timer' BY <1>1, <3>1, <3>2 DEF Edited, Arm, EditorTypeOK
            <3> QED BY <3>3, NotYet
      <2>6. Arriving' = Arriving BY <2>3 DEF Arriving
      <2> QED BY <1>3, <1>4, <2>2, <2>3, <2>4, <2>5, <2>6, CompleteFrom
<1>9. ASSUME NEW c \in Call, Fire(c) PROVE Complete'
      <2>1. Saving = {} BY <1>2, <1>9, FlagsRise DEF Fire
      <2>2. Saving' = {c} /\ call'[c].blocks = blocks /\ call'[c].known = Nil
            BY <1>1, <1>9, <2>1, CallStarts
      <2>3. UNCHANGED <<rows, blocks, open, busy, upload, stored, removed>> /\ state' = "saving" /\ timer
            BY <1>9 DEF Fire, uploads
      <2>4. upload.step # "answered"
            <3>1. ~busy BY <1>1, <2>3 DEF Waiting
            <3> QED BY <1>9, <3>1 DEF Fire
      <2>5. Arriving = {} /\ Arriving' = {} BY <2>3, <2>4 DEF Arriving
      <2>6. /\ KeysOf(Ids)' = KeysOf(Ids) /\ ItemsOf(blocks)' = ItemsOf(blocks)
            /\ ItemsOf(call[c].blocks)' = ItemsOf(blocks)
            BY <2>2, <2>3 DEF KeysOf, Ids, ItemsOf
      <2>7. SaveComplete(c)' BY <1>4, <2>2, <2>3, <2>4, <2>5, <2>6 DEF SaveComplete
      <2>8. UpToDate' BY <2>2, <2>3 DEF UpToDate, Read
      <2> QED BY <1>4, <2>2, <2>3, <2>5, <2>6, <2>7, <2>8 DEF Complete
<1>10. ASSUME NEW c \in Call, SaveReads(c) PROVE Complete'
       <2>1. /\ Saving' = Saving /\ c \in Saving /\ call'[c].blocks = call[c].blocks /\ call'[c].known = Ids
             BY <1>1, <1>10, CallReads
       <2>2. UNCHANGED <<rows, blocks, open, busy, timer, state, upload, stored, removed>>
             BY <1>10 DEF SaveReads, editor, uploads, past
       <2>3. Saving = {c} BY <1>3, <2>1 DEF Alone
       <2>4. /\ Ids' = Ids /\ KeysOf(Ids)' = KeysOf(Ids) /\ ItemsOf(blocks)' = ItemsOf(blocks)
             /\ ItemsOf(call[c].blocks)' = ItemsOf(call[c].blocks) /\ Arriving' = Arriving
             BY <2>1, <2>2 DEF Ids, KeysOf, ItemsOf, Arriving
       <2>5. SaveComplete(c)' BY <1>4, <2>1, <2>2, <2>4 DEF SaveComplete
       <2>6. UpToDate'
             <3>1. Listed' = Listed BY <2>2, ListUnchanged
             <3> QED BY <1>4, <2>1, <2>2, <2>3, <3>1 DEF UpToDate, Read
       <2> QED BY <1>4, <2>1, <2>2, <2>3, <2>4, <2>5, <2>6 DEF Complete
<1>11. ASSUME NEW c \in Call, SaveCommit(c) PROVE Complete'
       <2>1. c \in Saving /\ call' = [call EXCEPT ![c] = Nil] /\ call[c].known # Nil BY <1>11 DEF SaveCommit, Saving
       <2>2. Saving' = {}
             <3>1. Saving' = Saving \ {c} BY <1>1, <2>1, CallEnds
             <3>2. Saving = {c} BY <1>3, <2>1 DEF Alone
             <3> QED BY <3>1, <3>2
       <2>3. UNCHANGED <<blocks, open, busy, timer, upload, removed>> BY <1>11 DEF SaveCommit, uploads
       <2>4. SaveComplete(c) /\ call[c].known = Ids BY <1>4, <2>1 DEF SaveComplete
       <2>5. Kept(call[c]) \subseteq Ids BY <2>4 DEF Kept
       <2>6. KeysOf(Ids)' = ItemsOf(call[c].blocks) /\ Read(Listed)' = Read(call[c].blocks)
             BY <1>1, <1>11, <2>4, <2>5, SaveIsRead
       <2>7. stored' = stored \union ItemsOf(call[c].blocks) BY <1>11, <2>5 DEF SaveCommit, ItemsOf
       <2>8. stored' \ removed' \subseteq KeysOf(Ids)' BY <1>4, <2>3, <2>4, <2>6, <2>7 DEF SaveComplete
       <2>9. KeysOf(Ids)' \subseteq ItemsOf(blocks') \union removed'
             BY <2>3, <2>4, <2>6 DEF SaveComplete
       <2>10. UpToDate'
              <3>1. open' /\ ~busy' /\ ~timer' => Read(call[c].blocks) = Read(blocks)
                    BY <1>4, <2>1, <2>3 DEF UpToDate
              <3>2. Read(blocks)' = Read(blocks) BY <2>3 DEF Read
              <3> QED BY <2>2, <2>6, <3>1, <3>2 DEF UpToDate
       <2> QED BY <2>2, <2>8, <2>9, <2>10, CompleteQuiet
<1>12. ASSUME NEW c \in Call, SaveFails(c) PROVE Complete'
       <2>1. c \in Saving /\ call' = [call EXCEPT ![c] = Nil] BY <1>12 DEF SaveFails, Saving
       <2>2. Saving' = {}
             <3>1. Saving' = Saving \ {c} BY <1>1, <2>1, CallEnds
             <3>2. Saving = {c} BY <1>3, <2>1 DEF Alone
             <3> QED BY <3>1, <3>2
       <2>3. UNCHANGED <<rows, blocks, upload, stored, removed>> /\ state' = "error" BY <1>12 DEF SaveFails, uploads, past
       <2>4. KeysOf(Ids)' = KeysOf(Ids) /\ Arriving' = Arriving BY <2>3 DEF KeysOf, Ids, Arriving
       <2>5. UpToDate' BY <2>2, <2>3 DEF UpToDate
       <2> QED BY <1>4, <2>2, <2>3, <2>4, <2>5, CompleteQuiet
<1>13. ASSUME NEW p \in patches, PatchCommit(p) PROVE Complete'
       <2>1. UNCHANGED <<blocks, open, timer, busy, call, upload, state, stored, removed>>
             BY <1>13 DEF PatchCommit, editor, uploads, past
       <2>2. Ids' = Ids /\ KeysOf(Ids)' = KeysOf(Ids) BY <1>1, <1>13, PatchKeeps
       <2>3. Read(Listed)' = Read(Listed) BY <1>1, <1>13, PatchIsRead
       <2>4. Saving' = Saving /\ Arriving' = Arriving /\ ItemsOf(blocks)' = ItemsOf(blocks) /\ Read(blocks)' = Read(blocks)
             BY <2>1 DEF Saving, Arriving, ItemsOf, Read
       <2>5. ASSUME NEW c \in Saving
             PROVE  SaveComplete(c)' /\ Read(call[c].blocks)' = Read(call[c].blocks)
             <3>1. ItemsOf(call[c].blocks)' = ItemsOf(call[c].blocks) /\ Read(call[c].blocks)' = Read(call[c].blocks)
                   BY <2>1 DEF ItemsOf, Read
             <3>2. SaveComplete(c) BY <1>4
             <3> QED BY <2>1, <2>2, <2>4, <3>1, <3>2 DEF SaveComplete
       <2>6. UpToDate' BY <1>4, <2>1, <2>3, <2>4, <2>5 DEF UpToDate
       <2> QED BY <1>4, <2>1, <2>2, <2>4, <2>5, <2>6 DEF Complete
<1>14. ASSUME NEW p \in patches, PatchFails(p) PROVE Complete'
       <2>1. UNCHANGED <<rows, call, upload, blocks, stored, removed, open, busy, timer, state>>
             BY <1>14 DEF PatchFails, editor, uploads
       <2> QED BY <1>4, <1>6, <2>1, StillUpToDate
<1>15. ASSUME Refetch PROVE Complete'
       <2>1. UNCHANGED <<rows, call, upload, blocks, stored, removed, open, busy, timer, state>>
             BY <1>15 DEF Refetch, editor, uploads, past
       <2> QED BY <1>4, <1>6, <2>1, StillUpToDate
<1>16. ASSUME OpenUploader PROVE Complete'
       <2>1. UNCHANGED <<rows, call, upload, blocks, stored, removed, open>> BY <1>16 DEF OpenUploader, past
       <2>2. CASE busy
             <3>1. timer' BY <1>16, <2>2 DEF OpenUploader, Arm
             <3> QED BY <1>6, <2>1, <3>1, NotYet
       <2>3. CASE ~busy
             <3>1. UNCHANGED <<timer, state>> BY <1>16, <2>3 DEF OpenUploader
             <3> QED BY <1>4, <1>6, <2>1, <2>3, <3>1, StillUpToDate
       <2> QED BY <2>2, <2>3
<1>17. ASSUME CloseUploader \/ UNCHANGED editorVars PROVE Complete'
       <2>1. UNCHANGED <<rows, call, upload, blocks, stored, removed, open, busy, timer, state>>
             BY <1>17 DEF CloseUploader, editorVars, editor, uploads, past
       <2> QED BY <1>4, <1>6, <2>1, StillUpToDate
<1>18. ASSUME NEW unmount \in BOOLEAN, Leave(unmount) PROVE Complete'
       <2>1. UNCHANGED <<rows, call, upload, blocks, stored, removed>> /\ ~open' BY <1>18 DEF Leave
       <2> QED BY <1>6, <2>1, NotYet
<1>19. ASSUME UploadStart PROVE Complete'
       <2>1. UNCHANGED <<rows, call, blocks, stored, removed>> /\ busy' BY <1>19 DEF UploadStart, past
       <2>2. upload'.step = "moving" /\ upload.step = "none" BY <1>19 DEF UploadStart
       <2>3. Arriving = {} BY <2>2 DEF Arriving
       <2> QED BY <1>3, <1>4, <2>1, <2>2, <2>3, NotYet, CompleteFrom
<1>20. ASSUME UploadEnds PROVE Complete'
       <2>1. UNCHANGED <<rows, call, blocks, stored, removed, open>> /\ upload.step \in {"moving", "processing"}
             BY <1>20 DEF UploadEnds, past
       <2>2. upload'.step = "none" /\ Arriving = {}
             <3>1. NoUpload.step = "none" BY DEF NoUpload
             <3> QED BY <1>20, <3>1 DEF UploadEnds, Arriving
       <2>3. UpToDate'
             <3>1. CASE open /\ busy /\ mounted
                   <4>1. timer' BY <1>20, <3>1 DEF UploadEnds, Arm
                   <4> QED BY <4>1, NotYet
             <3>2. CASE ~(open /\ busy /\ mounted)
                   <4>1. UNCHANGED <<timer, state>> BY <1>20, <3>2 DEF UploadEnds
                   <4>2. open /\ ~busy' => ~busy BY <1>20, <3>2 DEF UploadEnds
                   <4>3. CASE open
                         BY <1>4, <2>1, <4>1, <4>2, <4>3, StillUpToDate
                   <4>4. CASE ~open BY <2>1, <4>4, NotYet
                   <4> QED BY <4>3, <4>4
             <3> QED BY <3>1, <3>2
       <2> QED BY <1>3, <1>4, <2>1, <2>2, <2>3, CompleteFrom
<1>21. ASSUME AnswerLost PROVE Complete'
       BY <1>21 DEF AnswerLost
<1>22. ASSUME UploadComplete PROVE Complete'
       <2>1. UNCHANGED <<blocks, open, timer, busy, call, state, removed>> /\ stored' = stored \union {upload.key}
             BY <1>22 DEF UploadComplete, editor
       <2>2. upload'.step = "answered" /\ upload'.key = upload.key
             BY <1>1, <1>22 DEF UploadComplete, EditorTypeOK
       <2>3. Saving = {} BY <1>22 DEF UploadComplete
       <2>4. KeysOf(Ids)' = KeysOf(Ids) \union {upload.key} BY <1>1, <1>22, UploadMakes
       <2>5. upload.step = "moving" /\ Arriving = {} /\ Arriving' = {upload.key}
             BY <1>22, <2>2 DEF UploadComplete, Arriving
       <2>6. Saving' = {} BY <2>1, <2>3 DEF Saving
       <2>7. UpToDate' BY <2>2, <2>6 DEF UpToDate
       <2> QED BY <1>4, <2>1, <2>4, <2>5, <2>6, <2>7, CompleteQuiet
<1>23. ASSUME Absorb \/ UploadReady PROVE Complete'
       <2>1. UNCHANGED <<rows, call, stored, removed>> /\ open' = open BY <1>23 DEF Absorb, UploadReady, past
       <2>2. upload.step \in {"answered", "processing"} BY <1>23 DEF Absorb, UploadReady
       <2>3. open BY <1>5, <2>2 DEF Settled
       <2>4. /\ Video.key = upload.key
             /\ Joins \/ (made \in IdsOf(blocks) /\ blocks' = blocks)
             BY <1>1, <1>23, <2>3, Joining
       <2>5. ASSUME Joins PROVE ItemsOf(blocks') = ItemsOf(blocks) \union {upload.key}
             BY <1>1, <2>4, <2>5, ItemAppended DEF Joins
       <2>6. Arriving \subseteq ItemsOf(blocks')
             <3>1. CASE upload.step = "answered"
                   <4>1. made \notin IdsOf(blocks) BY <1>3, <2>3, <3>1 DEF Shown
                   <4> QED BY <2>4, <2>5, <4>1 DEF Arriving
             <3>2. CASE upload.step # "answered" BY <3>2 DEF Arriving
             <3> QED BY <3>1, <3>2
       <2>7. busy' \/ timer'
             <3>1. CASE Absorb BY <1>1, <2>3, <3>1 DEF Absorb, TakeOn, Arm, EditorTypeOK
             <3>2. CASE UploadReady BY <1>1, <2>3, <3>2 DEF UploadReady, TakeOn, Arm, EditorTypeOK
             <3> QED BY <1>23, <3>1, <3>2
       <2>8. upload'.step # "answered"
             <3>1. CASE Absorb BY <1>1, <3>1 DEF Absorb, EditorTypeOK
             <3>2. CASE UploadReady BY <3>2 DEF UploadReady, NoUpload
             <3> QED BY <1>23, <3>1, <3>2
       <2>9. ItemsOf(blocks) \subseteq ItemsOf(blocks') BY <2>4, <2>5
       <2> QED BY <1>3, <2>1, <2>6, <2>7, <2>8, <2>9, NotYet, CompleteFrom
<1>24. ASSUME Return PROVE Complete'
       <2>1. Settled BY <1>5, <1>24 DEF Return
       <2>2. blocks' = Listed /\ Saving = {} /\ upload.step = "none" BY <1>24, <2>1 DEF Return, Settled
       <2>3. UNCHANGED <<rows, call, upload, stored, removed>> BY <1>24 DEF Return, uploads, past
       <2>4. busy' \/ timer' BY <1>1, <1>24 DEF Return, Arm, uploads, EditorTypeOK
       <2>5. ItemsOf(blocks') = KeysOf(Ids) BY <1>1, <2>2, ListIsRight
       <2>6. KeysOf(Ids)' = KeysOf(Ids) /\ Saving' = {} BY <2>2, <2>3 DEF KeysOf, Ids, Saving
       <2> QED BY <1>4, <2>3, <2>4, <2>5, <2>6, NotYet, CompleteQuiet
<1> QED BY <1>7, <1>8, <1>9, <1>10, <1>11, <1>12, <1>13, <1>14, <1>15, <1>16, <1>17, <1>18, <1>19, <1>20,
           <1>21, <1>22, <1>23, <1>24 DEF EditorNext, Edit, Serve, Touch

-----------------------------------------------------------------------------
(* What is hidden stays hidden *)

\* The parts of Shown: the items on the screen, the PATCHes under way, an upload
\* that has made its row, and one that is in the list.
ItemsShown == \A n \in DOMAIN blocks : blocks[n].key \notin removed => AsSet(blocks[n])
PatchesAgree == \A p, q \in patches : p.id = q.id => p = q \/ p.id \in doubtful
UploadIsShown ==
  upload.step = "answered" =>
    /\ made \notin IdsOf(blocks) /\ \A p \in patches : p.id # made
    /\ made \in Ids => rows[made].shown
UploadIsListed ==
  upload.step = "processing" =>
    \/ \E n \in DOMAIN blocks : blocks[n].id = made /\ blocks[n].key = upload.key
    \/ upload.key \in removed

LEMMA ShownParts ==
  /\ Shown <=> ItemsShown /\ PatchesAgree /\ UploadIsShown /\ UploadIsListed
  /\ Shown' <=> ItemsShown' /\ PatchesAgree' /\ UploadIsShown' /\ UploadIsListed'
  BY DEF Shown, ItemsShown, PatchesAgree, UploadIsShown, UploadIsListed

\* With the rows and the PATCHes as they were, each item of the list was there.
LEMMA ListShown ==
  ASSUME Shown, UNCHANGED <<rows, patches, doubtful>>, removed \subseteq removed',
         \A n \in DOMAIN blocks' :
           \/ blocks'[n].key \in removed'
           \/ \E m \in DOMAIN blocks : /\ blocks'[n].key = blocks[m].key /\ blocks'[n].id = blocks[m].id
                                       /\ blocks'[n].shown = blocks[m].shown
           \/ blocks'[n].id \notin Ids /\ \A p \in patches : p.id # blocks'[n].id
  PROVE  ItemsShown'
<1>1. Ids' = Ids BY DEF Ids
<1> SUFFICES ASSUME NEW n \in DOMAIN blocks', blocks'[n].key \notin removed'
             PROVE  AsSet(blocks[n])'
    BY DEF ItemsShown
<1>2. CASE \E m \in DOMAIN blocks : /\ blocks'[n].key = blocks[m].key /\ blocks'[n].id = blocks[m].id
                                    /\ blocks'[n].shown = blocks[m].shown
      <2>1. PICK m \in DOMAIN blocks : /\ blocks'[n].key = blocks[m].key /\ blocks'[n].id = blocks[m].id
                                       /\ blocks'[n].shown = blocks[m].shown
            BY <1>2
      <2>2. AsSet(blocks[m]) BY <2>1 DEF Shown
      <2> QED BY <1>1, <2>1, <2>2 DEF AsSet
<1>3. CASE blocks'[n].id \notin Ids /\ \A p \in patches : p.id # blocks'[n].id
      BY <1>1, <1>3 DEF AsSet
<1> QED BY <1>2, <1>3

LEMMA PatchesStay == Shown /\ UNCHANGED <<patches, doubtful>> => PatchesAgree'
  BY DEF Shown, PatchesAgree

LEMMA ShownStays ==
  ASSUME Shown, UNCHANGED <<rows, blocks, patches, upload, made, removed, doubtful>>
  PROVE  Shown'
<1>1. ItemsShown' BY ListShown
<1>2. PatchesAgree' BY PatchesStay
<1>3. UploadIsShown' BY ShownParts DEF UploadIsShown, IdsOf, Ids
<1>4. UploadIsListed' BY ShownParts DEF UploadIsListed
<1> QED BY <1>1, <1>2, <1>3, <1>4, ShownParts

\* With no upload in the list's way.
LEMMA UploadOver ==
  ASSUME upload'.step \in {"none", "moving"}
  PROVE  UploadIsShown' /\ UploadIsListed'
  BY DEF UploadIsShown, UploadIsListed

LEMMA ToggleShown ==
  ASSUME EditorTypeOK, Identified, Shown, NEW n \in DOMAIN blocks, Toggle(n)
  PROVE  ItemsShown' /\ PatchesAgree' /\ (made \notin IdsOf(blocks) /\ (\A p \in patches : p.id # made)
                                           => \A p \in patches' : p.id # made)
<1> DEFINE b == blocks[n]
<1>1. /\ DOMAIN blocks' = DOMAIN blocks /\ blocks'[n].shown = ~b.shown
      /\ \A m \in DOMAIN blocks : m # n => blocks'[m] = blocks[m]
      BY Toggled
<1>2. \A m \in DOMAIN blocks : blocks'[m].key = blocks[m].key /\ blocks'[m].id = blocks[m].id
      BY DEF Toggle, Edited, EditorTypeOK
<1>3. rows' = rows /\ removed' = removed /\ Ids' = Ids BY DEF Toggle, Edited, Ids
<1>4. CASE b.id = Nil
      <2>1. UNCHANGED <<patches, doubtful>> BY <1>4 DEF Toggle
      <2>2. \A p \in patches : p.id # Nil BY NilIsNoRow DEF EditorTypeOK, Patch
      <2>3. Nil \notin Ids BY NilIsNoRow
      <2>4. \A m \in DOMAIN blocks' :
              \/ \E k \in DOMAIN blocks : /\ blocks'[m].key = blocks[k].key /\ blocks'[m].id = blocks[k].id
                                          /\ blocks'[m].shown = blocks[k].shown
              \/ blocks'[m].id \notin Ids /\ \A p \in patches : p.id # blocks'[m].id
            BY <1>1, <1>2, <1>4, <2>2, <2>3
      <2>5. ItemsShown' BY <1>3, <2>1, <2>4, ListShown
      <2>6. PatchesAgree' BY <2>1, PatchesStay
      <2> QED BY <2>1, <2>5, <2>6
<1>5. CASE b.id # Nil
      <2> DEFINE new == [id |-> b.id, shown |-> ~b.shown]
      <2>1. /\ patches' = patches \union {new} /\ new.id = b.id /\ new.shown = ~b.shown
            /\ doubtful \subseteq doubtful'
            /\ (\E p \in patches : p.id = b.id) => b.id \in doubtful'
            BY <1>5 DEF Toggle
      <2> HIDE DEF new
      <2>2. \A p \in patches : p.id = b.id => b.id \in doubtful' BY <2>1
      <2>3. ASSUME NEW m \in DOMAIN blocks', blocks'[m].key \notin removed' PROVE AsSet(blocks[m])'
            <3>1. CASE m = n
                  <4>1. blocks'[m].id = b.id /\ blocks'[m].shown = ~b.shown BY <1>1, <1>2, <3>1
                  <4>2. new \in patches' /\ new.id = blocks'[m].id BY <2>1, <4>1
                  <4>3. \A p \in patches' : p.id = blocks'[m].id => p.shown = blocks'[m].shown \/ blocks'[m].id \in doubtful'
                        BY <2>1, <2>2, <4>1
                  <4> QED BY <4>2, <4>3 DEF AsSet
            <3>2. CASE m # n
                  <4>1. blocks'[m] = blocks[m] /\ m \in DOMAIN blocks /\ AsSet(blocks[m])
                        BY <1>1, <1>3, <2>3, <3>2 DEF Shown
                  <4>2. blocks[m].id # b.id BY <1>5, <3>2, <4>1 DEF Identified, IdsDiffer
                  <4> QED BY <1>3, <2>1, <4>1, <4>2 DEF AsSet
            <3> QED BY <3>1, <3>2
      <2>4. PatchesAgree' BY <2>1, <2>2 DEF Shown, PatchesAgree
      <2>5. b.id \in IdsOf(blocks) BY <1>5 DEF IdsOf
      <2> QED BY <2>1, <2>3, <2>4, <2>5 DEF ItemsShown
<1> QED BY <1>4, <1>5

LEMMA ShownStep ==
  ASSUME EditorInv, [EditorNext]_editorVars, ~hasty', open'
  PROVE  Shown'
<1>1. EditorTypeOK /\ Identified /\ Numbered /\ Waiting BY DEF EditorInv
<1>2. ~hasty BY <1>1, FlagsRise
<1>3. open => Shown BY <1>2 DEF EditorInv
<1>4. \A p \in patches : p.id \in Id /\ p.id # Nil /\ p.shown \in BOOLEAN BY <1>1, NilIsNoRow DEF EditorTypeOK, Patch
<1>5. Nil \notin Ids BY <1>1, NilIsNoRow
<1>6. ASSUME Add \/ PasteUrlInstead PROVE Shown'
      <2> DEFINE b == NewBlock(items + 1)
      <2>1. b \in Block /\ b.id = Nil /\ blocks' = Append(blocks, b) BY <1>1, <1>6, NewItemAdded
      <2> HIDE DEF b
      <2>2. b.id \notin IdsOf(blocks) BY <2>1 DEF IdsOf
      <2>3. /\ \A n \in DOMAIN blocks' : blocks'[n] = b \/ (n \in DOMAIN blocks /\ blocks'[n] = blocks[n])
            /\ \A n \in DOMAIN blocks : n \in DOMAIN blocks' /\ blocks'[n] = blocks[n]
            /\ IdsOf(blocks') \subseteq IdsOf(blocks) \union {Nil}
            BY <1>1, <2>1, <2>2, ItemAppended
      <2>4. UNCHANGED <<rows, patches, upload, made, removed, doubtful>> /\ open
            BY <1>6 DEF Add, PasteUrlInstead, Edited, uploads, past
      <2>5. Shown BY <1>3, <2>4
      <2>6. ItemsShown' BY <1>4, <1>5, <2>1, <2>3, <2>4, <2>5, ListShown
      <2>7. PatchesAgree' BY <2>4, <2>5, PatchesStay
      <2>8. UploadIsShown'
            <3>1. upload.step = "answered" => made # Nil BY <1>1 DEF EditorTypeOK
            <3>2. IdsOf(blocks)' = IdsOf(blocks') /\ Ids' = Ids BY <2>4 DEF IdsOf, Ids
            <3> QED BY <2>3, <2>4, <2>5, <3>1, <3>2 DEF UploadIsShown, Shown
      <2>9. UploadIsListed' BY <2>3, <2>4, <2>5 DEF UploadIsListed, Shown
      <2> QED BY <2>6, <2>7, <2>8, <2>9, ShownParts
<1>7. ASSUME NEW n \in DOMAIN blocks, Touch(n) PROVE Shown'
      <2>1. open BY <1>7 DEF Touch, RemoveItem, EditItem, Toggle, MoveItem, Edited
      <2>2. Shown BY <1>3, <2>1
      <2>3. UNCHANGED <<rows, upload, made>> /\ removed \subseteq removed' /\ Ids' = Ids
            BY <1>7 DEF Touch, RemoveItem, EditItem, Toggle, MoveItem, Edited, uploads, past, Ids
      <2>4. ASSUME RemoveItem(n) \/ EditItem(n) \/ \E m \in DOMAIN blocks : MoveItem(n, m)
            PROVE  ItemsShown' /\ PatchesAgree' /\ patches' = patches
            <3>1. UNCHANGED <<patches, doubtful>> BY <2>4 DEF RemoveItem, EditItem, MoveItem, past
            <3>2. PICK p : /\ Redrawn(p)
                           /\ \A m \in DOMAIN blocks' : blocks'[m].shown = blocks[p[m]].shown
                  BY <1>1, <2>4, Removed, Changed, Moved
            <3>3. \A m \in DOMAIN blocks' :
                    /\ p[m] \in DOMAIN blocks /\ blocks'[m].key = blocks[p[m]].key
                    /\ blocks'[m].id = blocks[p[m]].id /\ blocks'[m].shown = blocks[p[m]].shown
                  BY <3>2 DEF Redrawn, Drawn
            <3>4. ItemsShown' BY <2>2, <2>3, <3>1, <3>3, ListShown
            <3> QED BY <2>2, <3>1, <3>4, PatchesStay
      <2>5. ItemsShown' /\ PatchesAgree' BY <1>1, <1>7, <2>2, <2>4, ToggleShown DEF Touch
      <2>6. PICK p : Redrawn(p) BY <1>1, <1>7, Redrawing DEF Touch
      <2>7. IdsOf(blocks') \subseteq IdsOf(blocks) /\ ItemsOf(blocks) \subseteq ItemsOf(blocks') \union removed'
            BY <2>6, RedrawnKeeps
      <2>8. UploadIsShown'
            <3>1. IdsOf(blocks)' = IdsOf(blocks') BY DEF IdsOf
            <3>2. upload.step = "answered" => \A q \in patches' : q.id # made
                  BY <1>1, <1>7, <2>2, <2>4, ToggleShown DEF Touch, Shown
            <3> QED BY <2>2, <2>3, <2>7, <3>1, <3>2 DEF UploadIsShown, Shown
      <2>9. UploadIsListed'
            <3> SUFFICES ASSUME upload.step = "processing", upload.key \notin removed'
                         PROVE  \E m \in DOMAIN blocks' : blocks'[m].id = made /\ blocks'[m].key = upload.key
                BY <2>3 DEF UploadIsListed
            <3>1. PICK k \in DOMAIN blocks : blocks[k].id = made /\ blocks[k].key = upload.key
                  BY <2>2, <2>3 DEF Shown
            <3>2. \E m \in DOMAIN blocks' : blocks'[m].id = blocks[k].id /\ blocks'[m].key = blocks[k].key
                  BY <2>6, <3>1, RedrawnKeeps
            <3> QED BY <3>1, <3>2
      <2> QED BY <2>5, <2>8, <2>9, ShownParts
<1>8. ASSUME NEW c \in Call, Fire(c) \/ SaveReads(c) \/ SaveFails(c) PROVE Shown'
      <2>1. UNCHANGED <<rows, blocks, open, patches, upload, made, removed, doubtful>>
            BY <1>8 DEF Fire, SaveReads, SaveFails, editor, uploads, past
      <2> QED BY <1>3, <2>1, ShownStays
<1>9. ASSUME NEW c \in Call, SaveCommit(c) PROVE Shown'
      <2>1. UNCHANGED <<blocks, open, patches, upload, made, removed, doubtful>>
            BY <1>9 DEF SaveCommit, uploads
      <2>2. Shown BY <1>3, <2>1
      <2>3. \A i \in Ids' : i \notin Free => i \in Ids /\ rows'[i].shown = rows[i].shown
            BY <1>1, <1>9, SaveFollows
      <2>4. ItemsShown'
            <3> SUFFICES ASSUME NEW n \in DOMAIN blocks, blocks[n].key \notin removed PROVE AsSet(blocks[n])'
                BY <2>1 DEF ItemsShown
            <3>1. AsSet(blocks[n]) BY <2>2 DEF Shown
            <3>2. blocks[n].id \in Ids' => blocks[n].id \notin Free
                  <4>1. Nil \notin Free BY <1>1, RowsAreFew, NilIsNoRow
                  <4> QED BY <4>1, FreeIsFree DEF IdsOf
            <3> QED BY <2>1, <2>3, <3>1, <3>2 DEF AsSet
      <2>5. PatchesAgree' BY <2>1, <2>2, PatchesStay
      <2>6. made \notin Free BY FreeIsFree
      <2>7. UploadIsShown' BY <2>1, <2>2, <2>3, <2>6 DEF UploadIsShown, Shown, IdsOf
      <2>8. UploadIsListed' BY <2>1, <2>2 DEF UploadIsListed, Shown
      <2> QED BY <2>4, <2>5, <2>7, <2>8, ShownParts
<1>10. ASSUME NEW p \in patches, PatchCommit(p) PROVE Shown'
       <2>1. UNCHANGED <<blocks, open, upload, made, removed, doubtful>> /\ patches' = patches \ {p}
             BY <1>10 DEF PatchCommit, editor, uploads, past
       <2>2. Shown BY <1>3, <2>1
       <2>3. Ids' = Ids /\ \A i \in Ids : rows'[i].shown = IF i = p.id THEN p.shown ELSE rows[i].shown
             BY <1>1, <1>10, PatchKeeps
       <2>4. ItemsShown'
             <3> SUFFICES ASSUME NEW n \in DOMAIN blocks, blocks[n].key \notin removed PROVE AsSet(blocks[n])'
                 BY <2>1 DEF ItemsShown
             <3>1. AsSet(blocks[n]) BY <2>2 DEF Shown
             <3>2. CASE blocks[n].id = p.id BY <2>1, <2>3, <3>1, <3>2 DEF AsSet
             <3>3. CASE blocks[n].id # p.id BY <2>1, <2>3, <3>1, <3>3 DEF AsSet
             <3> QED BY <3>2, <3>3
       <2>5. PatchesAgree' BY <2>1, <2>2 DEF Shown, PatchesAgree
       <2>6. UploadIsShown' BY <2>1, <2>2, <2>3 DEF UploadIsShown, Shown, IdsOf
       <2>7. UploadIsListed' BY <2>1, <2>2 DEF UploadIsListed, Shown
       <2> QED BY <2>4, <2>5, <2>6, <2>7, ShownParts
<1>11. ASSUME NEW p \in patches, PatchFails(p) PROVE Shown'
       <2>1. /\ UNCHANGED <<rows, blocks, open, upload, made, removed>> /\ patches' = patches \ {p}
             /\ doubtful' = doubtful \union {p.id}
             BY <1>11 DEF PatchFails, editor, uploads
       <2>2. Shown /\ Ids' = Ids BY <1>3, <2>1 DEF Ids
       <2>3. ItemsShown'
             <3> SUFFICES ASSUME NEW n \in DOMAIN blocks, blocks[n].key \notin removed PROVE AsSet(blocks[n])'
                 BY <2>1 DEF ItemsShown
             <3>1. AsSet(blocks[n]) BY <2>2 DEF Shown
             <3> QED BY <2>1, <2>2, <3>1 DEF AsSet
       <2>4. PatchesAgree' BY <2>1, <2>2 DEF Shown, PatchesAgree
       <2>5. UploadIsShown' BY <2>1, <2>2 DEF UploadIsShown, Shown, IdsOf
       <2>6. UploadIsListed' BY <2>1, <2>2 DEF UploadIsListed, Shown
       <2> QED BY <2>3, <2>4, <2>5, <2>6, ShownParts
<1>12. ASSUME Refetch \/ Idle PROVE Shown'
       <2>1. UNCHANGED <<rows, blocks, patches, upload, made, removed, doubtful>>
             BY <1>12 DEF Refetch, Idle, OpenUploader, CloseUploader, Leave, editorVars, editor, uploads, past
       <2>2. open BY <1>12 DEF Refetch, Idle, OpenUploader, CloseUploader, Leave, editorVars, editor
       <2> QED BY <1>3, <2>1, <2>2, ShownStays
<1>13. ASSUME UploadStart \/ UploadEnds \/ AnswerLost PROVE Shown'
       <2>1. UNCHANGED <<rows, blocks, open, patches, removed, doubtful>>
             BY <1>13 DEF UploadStart, UploadEnds, AnswerLost, past
       <2>2. upload'.step \in {"none", "moving"}
             <3>1. NoUpload.step = "none" BY DEF NoUpload
             <3>2. UploadStart => upload'.step = "moving" BY DEF UploadStart
             <3>3. UploadEnds \/ AnswerLost => upload' = NoUpload BY DEF UploadEnds, AnswerLost
             <3> QED BY <1>13, <3>1, <3>2, <3>3
       <2>3. Shown BY <1>3, <2>1
       <2>4. ItemsShown' BY <2>1, <2>3, ListShown
       <2>5. PatchesAgree' BY <2>1, <2>3, PatchesStay
       <2> QED BY <2>2, <2>4, <2>5, UploadOver, ShownParts
<1>14. ASSUME UploadComplete PROVE Shown'
       <2>1. UNCHANGED <<blocks, open, patches, removed, doubtful>> BY <1>14 DEF UploadComplete, editor
       <2>2. /\ made' \in Free /\ Ids' = Ids \union {made'}
             /\ \A i \in Ids : rows'[i] = rows[i]
             /\ rows'[made'].shown
             BY <1>1, <1>14, UploadMakes
       <2>3. upload'.step = "answered" BY <1>1, <1>14 DEF UploadComplete, EditorTypeOK
       <2>4. Shown BY <1>3, <2>1
       <2>5. made' \notin IdsOf(blocks) /\ \A p \in patches : p.id # made' BY <2>2, FreeIsFree
       <2>6. made' # Nil BY <1>1, <2>2, RowsAreFew, NilIsNoRow
       <2>7. ItemsShown'
             <3> SUFFICES ASSUME NEW n \in DOMAIN blocks, blocks[n].key \notin removed PROVE AsSet(blocks[n])'
                 BY <2>1 DEF ItemsShown
             <3>1. AsSet(blocks[n]) BY <2>4 DEF Shown
             <3>2. blocks[n].id # made' BY <2>5, <2>6 DEF IdsOf
             <3> QED BY <2>1, <2>2, <3>1, <3>2 DEF AsSet
       <2>8. PatchesAgree' BY <2>1, <2>4, PatchesStay
       <2>9. IdsOf(blocks)' = IdsOf(blocks) BY <2>1 DEF IdsOf
       <2>10. UploadIsShown' BY <2>1, <2>2, <2>5, <2>9 DEF UploadIsShown
       <2>11. UploadIsListed' BY <2>3 DEF UploadIsListed
       <2> QED BY <2>7, <2>8, <2>10, <2>11, ShownParts
<1>15. ASSUME Absorb \/ UploadReady PROVE Shown'
       <2>1. UNCHANGED <<rows, open, patches, removed, doubtful>> BY <1>15 DEF Absorb, UploadReady, past
       <2>2. Shown /\ open /\ Ids' = Ids BY <1>3, <2>1 DEF Ids
       <2>3. /\ Video.key = upload.key /\ Video.id = made /\ Video.shown = TRUE
             /\ Joins \/ (made \in IdsOf(blocks) /\ blocks' = blocks)
             BY <1>1, <1>15, <2>2, Joining
       <2>4. ASSUME Joins
             PROVE  /\ \A n \in DOMAIN blocks' : blocks'[n] = Video \/ (n \in DOMAIN blocks /\ blocks'[n] = blocks[n])
                    /\ \E n \in DOMAIN blocks' : blocks'[n] = Video
                    /\ made \notin IdsOf(blocks)
             BY <1>1, <2>3, <2>4, ItemAppended DEF Joins
       <2>5. PatchesAgree' BY <2>1, <2>2, PatchesStay
       <2>6. CASE Absorb
             <3>1. /\ upload.step = "answered" /\ made \notin IdsOf(blocks) /\ \A p \in patches : p.id # made
                   /\ made \in Ids => rows[made].shown
                   BY <2>2, <2>6 DEF Absorb, Shown
             <3>2. Joins BY <2>3, <3>1
             <3>3. upload'.step = "processing" /\ upload'.key = upload.key /\ made' = made
                   BY <1>1, <2>6 DEF Absorb, EditorTypeOK
             <3>4. UploadIsListed' BY <2>3, <2>4, <3>2, <3>3 DEF UploadIsListed
             <3>5. UploadIsShown' BY <3>3 DEF UploadIsShown
             <3>6. ASSUME NEW n \in DOMAIN blocks', blocks'[n].key \notin removed' PROVE AsSet(blocks[n])'
                   <4>1. CASE blocks'[n] = Video
                         <5>1. blocks'[n].id = made /\ blocks'[n].shown = TRUE BY <2>3, <4>1
                         <5>2. made \in Ids => rows[made].shown = TRUE
                               <6>1. made \in Ids => rows[made] \in Row BY <1>1, RowTyped
                               <6>2. made \in Ids => rows[made].shown \in BOOLEAN BY <6>1 DEF Row
                               <6> QED BY <3>1, <6>2
                         <5> QED BY <2>1, <2>2, <3>1, <5>1, <5>2 DEF AsSet
                   <4>2. CASE n \in DOMAIN blocks /\ blocks'[n] = blocks[n]
                         <5>1. AsSet(blocks[n]) BY <2>1, <2>2, <3>6, <4>2 DEF Shown
                         <5> QED BY <2>1, <2>2, <4>2, <5>1 DEF AsSet
                   <4> QED BY <2>4, <3>2, <4>1, <4>2
             <3>7. ItemsShown' BY <3>6 DEF ItemsShown
             <3> QED BY <2>5, <3>4, <3>5, <3>7, ShownParts
       <2>7. CASE UploadReady
             <3>1. upload'.step = "none" BY <2>7 DEF UploadReady, NoUpload
             <3>2. ASSUME Joins PROVE upload.key \in removed
                   BY <1>1, <2>2, <2>4, <2>7, <3>2 DEF UploadReady, Shown, IdsOf, EditorTypeOK
             <3>3. ItemsShown' BY <2>1, <2>2, <2>3, <2>4, <3>2, ListShown
             <3> QED BY <2>5, <3>1, <3>3, UploadOver, ShownParts
       <2> QED BY <1>15, <2>6, <2>7
<1>16. ASSUME Return PROVE Shown'
       <2>1. Settled BY <1>1, <1>2, <1>16 DEF Return, Waiting
       <2>2. blocks' = Listed /\ patches = {} /\ upload.step = "none" BY <1>16, <2>1 DEF Return, Settled
       <2>3. UNCHANGED <<rows, patches, upload>> BY <1>16 DEF Return, uploads
       <2>4. \A n \in DOMAIN Listed : Listed[n].id \in Ids /\ Listed[n].shown = rows[Listed[n].id].shown
             BY <1>1, ListIsRight
       <2>5. ItemsShown' BY <2>2, <2>3, <2>4 DEF ItemsShown, AsSet
       <2>6. PatchesAgree' BY <2>2, <2>3 DEF PatchesAgree
       <2> QED BY <2>2, <2>3, <2>5, <2>6, UploadOver, ShownParts
<1> QED BY <1>6, <1>7, <1>8, <1>9, <1>10, <1>11, <1>12, <1>13, <1>14, <1>15, <1>16
        DEF EditorNext, Edit, Serve, Touch, Idle

-----------------------------------------------------------------------------
(* The theorems *)

LEMMA EditorInv0 == EditorInit => EditorInv
<1> SUFFICES ASSUME EditorInit PROVE EditorInv OBVIOUS
<1>1. EditorTypeOK BY Typed0
<1>2. Ids = {} /\ Saving = {} BY DEF EditorInit, Ids, Saving
<1>3. blocks = <<>> /\ tree = <<>> /\ upload.step = "none" /\ upload.key = Nil /\ made = Nil
      BY DEF EditorInit, NoUpload
<1>4. DOMAIN blocks = {} /\ DOMAIN tree = {} BY <1>3
<1>5. Identified BY <1>2, <1>4 DEF Identified, Named, IdsDiffer
<1>6. stored = {} /\ removed = {} /\ patches = {} /\ open /\ ~busy /\ timer BY DEF EditorInit
<1>7. Numbered BY <1>2, <1>3, <1>4, <1>6 DEF Numbered, ItemsOf, KeysOf
<1>8. Waiting BY <1>6 DEF Waiting
<1>9. Alone BY <1>2, <1>3, <1>4 DEF Alone, OneEach, RowsDiffer, UploadAlone
<1>10. Complete BY <1>2, <1>6 DEF Complete, UpToDate, KeysOf
<1>11. Shown BY <1>3, <1>4, <1>6 DEF Shown
<1> QED BY <1>1, <1>5, <1>7, <1>8, <1>9, <1>10, <1>11 DEF EditorInv

LEMMA EditorInvStep == EditorInv /\ [EditorNext]_editorVars => EditorInv'
<1> SUFFICES ASSUME EditorInv, [EditorNext]_editorVars PROVE EditorInv' OBVIOUS
<1>1. EditorTypeOK /\ Identified /\ Numbered /\ Waiting BY DEF EditorInv
<1>2. SavesDiffer BY <1>1 DEF Identified, SavesDiffer
<1>3. EditorTypeOK' BY <1>1, <1>2, TypeStep
<1>4. Identified' /\ Numbered' /\ Waiting' BY <1>1, IdentifiedStep, NumberedStep, WaitingStep
<1>5. overlapped' \/ hasty' \/ Alone' BY AloneStep
<1>6. overlapped' \/ hasty' \/ collided' \/ Complete' BY <1>3, CompleteStep
<1>7. hasty' \/ ~open' \/ Shown' BY ShownStep
<1> QED BY <1>3, <1>4, <1>5, <1>6, <1>7 DEF EditorInv

LEMMA EditorAlways == EditorSpec => []EditorInv
<1>1. EditorInit => EditorInv BY EditorInv0
<1>2. EditorInv /\ [EditorNext]_editorVars => EditorInv' BY EditorInvStep
<1> QED BY <1>1, <1>2, PTL DEF EditorSpec

\* Whatever is typed, added, moved, uploaded or lost, and however the autosave's
\* requests fall: an item that was ever saved is on the server until the teacher
\* removes it, and no item is there twice, unless saves overlapped, an upload
\* crossed one, or the lesson was left with something under way (saveContent's
\* "only items the teacher actually removed are deleted").
THEOREM ListStaysKept == EditorSpec => []ListIsKept
<1>1. EditorInv => ListIsKept
      <2> SUFFICES ASSUME EditorInv PROVE ListIsKept OBVIOUS
      <2>1. EditorTypeOK BY DEF EditorInv
      <2>2. NothingIsLost BY DEF EditorInv, Complete, NothingIsLost
      <2>3. NoItemTwice BY DEF EditorInv, Alone, RowsDiffer, OneEach, NoItemTwice
      <2> QED BY <2>1, <2>2, <2>3 DEF ListIsKept
<1> QED BY <1>1, EditorAlways, PTL

\* The timer runs, a save is under way or the word has changed.
LEMMA NotedStep ==
  ASSUME EditorTypeOK, Noted, [EditorNext]_editorVars
  PROVE  Noted'
<1>1. ASSUME UNCHANGED call PROVE Saving' = Saving
      BY <1>1 DEF Saving
<1>0. ASSUME NEW bs, Edited(bs), busy' = busy PROVE Noted'
      <2>1. /\ timer' = (~busy) /\ state' = IF ~busy THEN "dirty" ELSE state
            /\ open' = open /\ call' = call
            BY <1>0 DEF Edited, Arm
      <2>2. Saving' = Saving BY <1>1, <2>1
      <2> QED BY <1>0, <2>1, <2>2 DEF Noted, EditorTypeOK
<1>2. ASSUME Add \/ PasteUrlInstead PROVE Noted'
      <2>1. busy' = busy BY <1>2 DEF Add, PasteUrlInstead, uploads
      <2>2. \E bs : Edited(bs) BY <1>2 DEF Add, PasteUrlInstead
      <2> QED BY <1>0, <2>1, <2>2
<1>3. ASSUME NEW n \in DOMAIN blocks, Touch(n) PROVE Noted'
      <2>1. busy' = busy BY <1>3 DEF Touch, RemoveItem, EditItem, Toggle, MoveItem, uploads
      <2>2. \E bs : Edited(bs) BY <1>3 DEF Touch, RemoveItem, EditItem, Toggle, MoveItem
      <2> QED BY <1>0, <2>1, <2>2
<1>4. ASSUME NEW c \in Call, Fire(c) PROVE Noted'
      <2>1. state' = "saving" /\ call' = [call EXCEPT ![c] = [blocks |-> blocks, known |-> Nil]]
            BY <1>4 DEF Fire
      <2>2. [blocks |-> blocks, known |-> Nil] \in Save BY DEF EditorTypeOK, Save
      <2>3. call'[c] # Nil BY <2>1, <2>2, NilIsNothing DEF EditorTypeOK
      <2> QED BY <2>1, <2>3 DEF Noted, Saving
<1>5. ASSUME NEW c \in Call, SaveReads(c) PROVE Noted'
      <2>1. /\ UNCHANGED <<state, timer, busy, open>> /\ call[c] # Nil
            /\ call' = [call EXCEPT ![c].known = Ids]
            BY <1>5 DEF SaveReads, editor, uploads
      <2>2. call[c] \in Save BY <2>1 DEF EditorTypeOK
      <2>3. [call[c] EXCEPT !.known = Ids] \in Save BY <2>2, RowsAreFew DEF Save
      <2>4. call'[c] # Nil BY <2>1, <2>3, NilIsNothing DEF EditorTypeOK
      <2>5. \A d \in Call \ {c} : call'[d] = call[d] BY <2>1 DEF EditorTypeOK
      <2>6. Saving' = Saving BY <2>1, <2>4, <2>5 DEF Saving
      <2> QED BY <2>1, <2>6 DEF Noted
<1>6. ASSUME NEW c \in Call, SaveCommit(c) \/ SaveFails(c) PROVE Noted'
      BY <1>6 DEF SaveCommit, SaveFails, Noted
<1>7. ASSUME UNCHANGED <<state, timer, busy, open, call>> PROVE Noted'
      BY <1>1, <1>7 DEF Noted
<1>8. ASSUME NEW p \in patches, PatchCommit(p) \/ PatchFails(p) PROVE Noted'
      BY <1>7, <1>8 DEF PatchCommit, PatchFails, uploads, editor
<1>9. ASSUME Refetch \/ CloseUploader \/ UploadComplete \/ UNCHANGED editorVars PROVE Noted'
      <2>1. CASE Refetch BY <1>7, <2>1 DEF Refetch, editor, uploads
      <2>2. CASE CloseUploader BY <1>7, <2>2 DEF CloseUploader, editor
      <2>3. CASE UploadComplete BY <1>7, <2>3 DEF UploadComplete, editor
      <2>4. CASE UNCHANGED editorVars BY <1>7, <2>4 DEF editorVars, editor, uploads
      <2> QED BY <1>9, <2>1, <2>2, <2>3, <2>4
<1>10. ASSUME OpenUploader \/ UploadStart PROVE Noted'
      <2>1. Saving' = Saving BY <1>1, <1>10 DEF OpenUploader, UploadStart
      <2>2. CASE OpenUploader BY <2>1, <2>2 DEF OpenUploader, Arm, Noted, EditorTypeOK
      <2>3. CASE UploadStart BY <2>1, <2>3 DEF UploadStart, Arm, Noted, EditorTypeOK
      <2> QED BY <1>10, <2>2, <2>3
<1>11. ASSUME Absorb \/ UploadReady PROVE Noted'
      <2>1. Saving' = Saving BY <1>1, <1>11 DEF Absorb, UploadReady
      <2>2. ASSUME NEW b \in BOOLEAN, TakeOn(b), busy' = b, open' = open, b => busy PROVE Noted'
            BY <2>1, <2>2 DEF TakeOn, Arm, Noted, EditorTypeOK
      <2>3. CASE Absorb BY <2>2, <2>3 DEF Absorb, EditorTypeOK
      <2>4. CASE UploadReady BY <2>2, <2>4 DEF UploadReady, EditorTypeOK
      <2> QED BY <1>11, <2>3, <2>4
<1>12. ASSUME UploadEnds \/ AnswerLost PROVE Noted'
      <2>1. Saving' = Saving BY <1>1, <1>12 DEF UploadEnds, AnswerLost
      <2>2. /\ busy' = (busy /\ ~mounted) /\ open' = open
            /\ IF open /\ busy /\ mounted THEN timer' = TRUE /\ state' = "dirty" ELSE UNCHANGED <<timer, state>>
            BY <1>12 DEF UploadEnds, AnswerLost, Arm
      <2> QED BY <2>1, <2>2 DEF Noted, EditorTypeOK
<1>13. ASSUME (\E unmount \in BOOLEAN : Leave(unmount)) \/ Return PROVE Noted'
      <2>1. Saving' = Saving BY <1>1, <1>13 DEF Leave, Return
      <2>2. CASE \E unmount \in BOOLEAN : Leave(unmount) BY <2>1, <2>2 DEF Leave, Noted
      <2>3. CASE Return BY <2>1, <2>3 DEF Return, Arm, uploads, Noted, EditorTypeOK
      <2> QED BY <1>13, <2>2, <2>3
<1> QED BY <1>2, <1>3, <1>4, <1>5, <1>6, <1>8, <1>9, <1>10, <1>11, <1>12, <1>13
        DEF EditorNext, Edit, Serve, Touch

\* Whatever the editor says of saving, and whenever the list is edited, during a
\* save too: what is on the screen is on the server, waits for the autosave's
\* timer, is posted by a save under way, or the editor says that a save failed
\* (useAutosave and saveContent), with the exceptions the property names.
THEOREM EditsAreRemembered == EditorSpec => []NoEditIsForgotten
<1>1. EditorInv /\ Noted => NoEditIsForgotten
      <2> SUFFICES ASSUME EditorInv, Noted, open, ~busy, upload.step # "answered", ~timer,
                          state # "error", ~overlapped, ~collided, ~hasty
                   PROVE  \/ Read(Listed) = Read(blocks)
                          \/ \E c \in Saving : Read(call[c].blocks) = Read(blocks)
          BY DEF NoEditIsForgotten
      <2>1. UpToDate /\ EditorTypeOK BY DEF EditorInv, Complete
      <2>2. CASE Saving # {} BY <2>1, <2>2 DEF UpToDate
      <2>3. CASE Saving = {}
            <3>1. state = "saved" BY <2>1, <2>3 DEF Noted, EditorTypeOK
            <3> QED BY <2>1, <3>1 DEF UpToDate
      <2> QED BY <2>2, <2>3
<1>2. EditorInit => Noted BY DEF EditorInit, Noted
<1>3. EditorInv /\ Noted /\ [EditorNext]_editorVars => Noted' BY NotedStep DEF EditorInv
<1>4. EditorSpec => [](EditorInv /\ Noted) BY <1>2, <1>3, EditorAlways, PTL DEF EditorSpec
<1> QED BY <1>1, <1>4, PTL

\* An item with an id is shown or hidden as the teacher set it last, through
\* every autosave that passes the PATCH (setItemStatus and saveContent), unless
\* PATCHes of it overlapped or failed, the lesson was left with something under
\* way, or the item was removed and its video brought it back.
THEOREM HiddenIsKept == EditorSpec => []HiddenStaysHidden
<1>1. EditorInv => HiddenStaysHidden
      BY DEF EditorInv, Shown, AsSet, HiddenStaysHidden
<1> QED BY <1>1, EditorAlways, PTL
=============================================================================
