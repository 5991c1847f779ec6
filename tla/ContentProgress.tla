--------------------------- MODULE ContentProgress ---------------------------
(***************************************************************************)
(* One student in one lesson with a video and readings: the player that    *)
(* counts what is watched and reports it, the API that credits each report *)
(* with no more than the time that has passed, the percentage the page     *)
(* saves, and the lesson, which is completed when its last item is.  The   *)
(* older POST /progress writes the lesson's row as it is told.             *)
(*                                                                         *)
(* The page waits for no answer before it sends again: the pause at the    *)
(* end of a video sends two reports at once.  A handler reads a row and    *)
(* writes it in statements of their own.  Time passes in equal steps.      *)
(***************************************************************************)
EXTENDS Integers, FiniteSets

CONSTANTS
  Worker,
  Item, video,     \* the required items; all but the video are readings
  whole,           \* the lesson's own Progress row
  None,
  Duration,        \* of the video, when it is played at single speed
  Threshold,       \* what counts as all of it: completionPercent of Duration
  Slack,           \* what a report may claim beyond the time that passed
  Speed,           \* the speeds it can be played at; 0 when it is paused
  Full,            \* all of the page: 100 %
  MaxTime,         \* bound on the clock
  MaxRequest,      \* bound on the requests
  MaxFault         \* bound on requests lost or ended by an error

\* A ContentProgress row: watchedSeconds, updatedAt and completed.
Progress == [watched : Nat, at : Nat, completed : BOOLEAN]

ASSUME ContentProgressAssumption ==
  /\ video \in Item /\ whole \notin Item /\ None \notin Item \union {whole} \union Progress
  /\ Duration \in Nat /\ Threshold \in 0..Duration /\ Slack \in Nat
  /\ Speed \subseteq Nat /\ Full \in Nat
  /\ MaxTime \in Nat /\ MaxRequest \in Nat /\ MaxFault \in Nat

VARIABLES
  now,
  played,      \* the player's watched.current
  reported,    \* the player's reported.current
  row,         \* row[i]: the ContentProgress row of an item, or None
  lesson,      \* the Progress row's completed
  percent,     \* and its percent
  pc, job,
  requests, faults,
  start,       \* history: when the video's row was made
  head,        \* history: the most a report that found no row was credited
  updates,     \* history: how often a report has written that row since
  finished,    \* history: the items that were ever complete
  best,        \* history: the highest percentage since POST /progress last set one
  retracted,   \* history: POST /progress took the lesson's completion back
  crossed,     \* history: the rows two requests were at work on at one time
  slow,        \* history: a report took longer than the slack to be written
  fast         \* history: the video was played faster than time passes

player  == <<played, reported>>
server  == <<row, lesson, percent>>
handler == <<pc, job>>
bounds  == <<requests, faults>>
history == <<start, head, updates, finished, best, retracted, crossed, slow, fast>>
vars    == <<now, player, server, handler, bounds, history>>

\* A request: the row it is about, when it was sent, what it claims until it has
\* read, whether it found a row and what it will write.
Job   == [of : Item \union {whole, None}, sent : Nat, claim : Nat, found : BOOLEAN,
          value : Nat, completed : BOOLEAN]
NoJob == [of |-> None, sent |-> 0, claim |-> 0, found |-> FALSE, value |-> 0, completed |-> FALSE]

TypeOK ==
  /\ now \in Nat /\ played \in Nat /\ reported \in Nat /\ reported <= played
  /\ row \in [Item -> Progress \union {None}]
  /\ lesson \in BOOLEAN /\ percent \in Nat
  /\ pc \in [Worker -> {"idle", "report", "reportWrite", "mark", "check", "complete",
                        "save", "saveWrite"}]
  /\ job \in [Worker -> Job]
  /\ \A w \in Worker :
       /\ pc[w] = "idle" <=> job[w].of = None
       /\ pc[w] \in {"report", "reportWrite"} => job[w].of = video
       /\ pc[w] \in {"mark", "check"} => job[w].of \in Item
       /\ pc[w] \in {"save", "saveWrite"} => job[w].of = whole
  /\ requests \in Nat /\ faults \in Nat
  /\ start \in Nat /\ head \in Nat /\ updates \in Nat /\ best \in Nat
  /\ finished \subseteq Item /\ crossed \subseteq Item \union {whole}
  /\ retracted \in BOOLEAN /\ slow \in BOOLEAN /\ fast \in BOOLEAN

Init ==
  /\ now = 0 /\ played = 0 /\ reported = 0
  /\ row = [i \in Item |-> None] /\ lesson = FALSE /\ percent = 0
  /\ pc = [w \in Worker |-> "idle"] /\ job = [w \in Worker |-> NoJob]
  /\ requests = 0 /\ faults = 0
  /\ start = 0 /\ head = 0 /\ updates = 0 /\ finished = {} /\ best = 0
  /\ retracted = FALSE /\ crossed = {} /\ slow = FALSE /\ fast = FALSE

-----------------------------------------------------------------------------
Lesser(a, b)  == IF a < b THEN a ELSE b
Greater(a, b) == IF a < b THEN b ELSE a

Done(i) == row[i] # None /\ row[i].completed

\* The requests that will still write a row.
About(r) == {w \in Worker : IF pc[w] = "complete" THEN r = whole
                                                  ELSE pc[w] # "check" /\ job[w].of = r}

Begin(w, step, j) ==
  /\ pc[w] = "idle" /\ requests < MaxRequest
  /\ requests' = requests + 1
  /\ pc' = [pc EXCEPT ![w] = step]
  /\ job' = [job EXCEPT ![w] = j]
  /\ crossed' = IF About(j.of) = {} THEN crossed ELSE crossed \union {j.of}

Continue(w, step, j) ==
  /\ pc' = [pc EXCEPT ![w] = step]
  /\ job' = [job EXCEPT ![w] = j]

Finish(w) ==
  /\ pc' = [pc EXCEPT ![w] = "idle"]
  /\ job' = [job EXCEPT ![w] = NoJob]

-----------------------------------------------------------------------------
(* VideoPlayer *)

\* Time passes, and what plays on is counted, the same part again too; a seek is not.
Tick(speed) ==
  /\ now < MaxTime /\ now' = now + 1
  /\ played' = played + speed
  /\ fast' = (fast \/ speed > 1)
  /\ UNCHANGED <<reported, server, handler, bounds, start, head, updates, finished, best,
                 retracted, crossed, slow>>

\* By the clock, on a pause and at the end.  A forced one may have nothing new.
Report(w) ==
  /\ Begin(w, "report", [NoJob EXCEPT !.of = video, !.sent = now, !.claim = played - reported])
  /\ reported' = played
  /\ UNCHANGED <<now, played, server, faults, start, head, updates, finished, best, retracted, slow,
                 fast>>

\* The page is left and opened again.
Reopen ==
  /\ played > 0
  /\ played' = 0 /\ reported' = 0
  /\ UNCHANGED <<now, server, handler, bounds, history>>

-----------------------------------------------------------------------------
(* saveContentProgress *)

\* Mutant: a report is credited with what it claims.
CreditClaimed(r, claim) == claim
\* Mutant: the reports must come exactly as they were sent.
CreditExact(r, claim) == IF r = None THEN claim ELSE Lesser(claim, now - r.at)
\* "The smaller of what the client claims and the time that has actually
\* elapsed since its last report (plus a little slack)".
Credit(r, claim) == IF r = None THEN claim ELSE Lesser(claim, now - r.at + Slack)

ReportRead(w) ==
  LET r == row[video]
      watched == Lesser((IF r = None THEN 0 ELSE r.watched) + Credit(r, job[w].claim), Duration)
  IN
  /\ pc[w] = "report"
  /\ Continue(w, "reportWrite",
       [job[w] EXCEPT !.claim = 0, !.found = r # None, !.value = watched,
                      !.completed = Done(video) \/ watched >= Threshold])
  /\ UNCHANGED <<now, player, server, bounds, history>>

ReportWrite(w) ==
  LET j == job[w] IN
  /\ pc[w] = "reportWrite"
  /\ row' = [row EXCEPT ![video] = [watched |-> j.value, at |-> now, completed |-> j.completed]]
  /\ start' = IF row[video] = None THEN now ELSE start
  /\ head' = IF j.found THEN head ELSE Greater(head, j.value)
  /\ updates' = IF row[video] = None THEN updates ELSE updates + 1
  /\ finished' = IF j.completed THEN finished \union {video} ELSE finished
  /\ slow' = (slow \/ now > j.sent + Slack)
  /\ Continue(w, "check", [NoJob EXCEPT !.of = video])
  /\ UNCHANGED <<now, player, lesson, percent, bounds, best, retracted, crossed, fast>>

-----------------------------------------------------------------------------
(* markContentComplete, which takes a video too *)

MarkStart(w, i) ==
  /\ Begin(w, "mark", [NoJob EXCEPT !.of = i])
  /\ UNCHANGED <<now, player, server, faults, start, head, updates, finished, best, retracted, slow,
                 fast>>

MarkWrite(w) ==
  LET i == job[w].of IN
  /\ pc[w] = "mark"
  /\ row' = [row EXCEPT ![i] = [watched |-> IF row[i] = None THEN 0 ELSE row[i].watched,
                                at |-> now, completed |-> TRUE]]
  /\ start' = IF i = video /\ row[i] = None THEN now ELSE start
  /\ finished' = finished \union {i}
  /\ Continue(w, "check", job[w])
  /\ UNCHANGED <<now, player, lesson, percent, bounds, head, updates, best, retracted, crossed,
                 slow, fast>>

-----------------------------------------------------------------------------
(* requiredItemsDone, completeLesson and saveProgress *)

Check(w) ==
  LET complete == \A i \in Item : Done(i) IN
  /\ pc[w] = "check"
  /\ IF complete THEN Continue(w, "complete", job[w]) ELSE Finish(w)
  /\ crossed' = IF complete /\ About(whole) # {} THEN crossed \union {whole} ELSE crossed
  /\ UNCHANGED <<now, player, server, bounds, start, head, updates, finished, best, retracted, slow,
                 fast>>

\* The button of the page, whatever of the items is done.
CompleteByHand(w) ==
  /\ Begin(w, "complete", [NoJob EXCEPT !.of = whole])
  /\ UNCHANGED <<now, player, server, faults, start, head, updates, finished, best, retracted, slow,
                 fast>>

CompleteLesson(w) ==
  /\ pc[w] = "complete"
  /\ lesson' = TRUE /\ percent' = Full
  /\ best' = Greater(best, Full) /\ retracted' = FALSE
  /\ Finish(w)
  /\ UNCHANGED <<now, player, row, bounds, start, head, updates, finished, crossed, slow, fast>>

\* How far the page is scrolled, every now and then.
SaveStart(w, p) ==
  /\ Begin(w, "save", [NoJob EXCEPT !.of = whole, !.claim = p])
  /\ UNCHANGED <<now, player, server, faults, start, head, updates, finished, best, retracted, slow,
                 fast>>

SaveRead(w) ==
  /\ pc[w] = "save"
  /\ Continue(w, "saveWrite", [job[w] EXCEPT !.claim = 0, !.value = Greater(percent, job[w].claim)])
  /\ UNCHANGED <<now, player, server, bounds, history>>

SaveWrite(w) ==
  /\ pc[w] = "saveWrite"
  /\ percent' = job[w].value
  /\ best' = Greater(best, job[w].value)
  /\ Finish(w)
  /\ UNCHANGED <<now, player, row, lesson, bounds, start, head, updates, finished, retracted,
                 crossed, slow, fast>>

-----------------------------------------------------------------------------
(* ProgressService.update, behind POST /progress *)

\* One statement, with the percentage and the completion as sent.
ProgressSent(p, completed) ==
  /\ requests < MaxRequest /\ requests' = requests + 1
  /\ lesson' = completed
  /\ percent' = IF completed THEN Full ELSE p
  /\ best' = percent'
  /\ retracted' = (~completed /\ (lesson \/ retracted))
  /\ crossed' = IF About(whole) = {} THEN crossed ELSE crossed \union {whole}
  /\ UNCHANGED <<now, player, row, handler, faults, start, head, updates, finished, slow, fast>>

-----------------------------------------------------------------------------
\* A request is lost, or ends in an error; an error of completeLesson is
\* swallowed, and the page ignores the others.
Fail(w) ==
  /\ pc[w] # "idle" /\ faults < MaxFault
  /\ faults' = faults + 1
  /\ Finish(w)
  /\ UNCHANGED <<now, player, server, requests, history>>

Request(w) ==
  \/ Report(w) \/ CompleteByHand(w)
  \/ \E i \in Item : MarkStart(w, i)
  \/ \E p \in 0..Full : SaveStart(w, p)

Proceed(w) ==
  \/ ReportRead(w) \/ ReportWrite(w) \/ MarkWrite(w)
  \/ Check(w) \/ CompleteLesson(w) \/ SaveRead(w) \/ SaveWrite(w)

\* The bounds are used up.
Over ==
  /\ now = MaxTime /\ requests = MaxRequest /\ \A w \in Worker : pc[w] = "idle"
  /\ UNCHANGED vars

Next ==
  \/ \E w \in Worker : Request(w) \/ Proceed(w) \/ Fail(w)
  \/ \E p \in 0..Full, completed \in BOOLEAN : ProgressSent(p, completed)
  \/ \E speed \in Speed : Tick(speed)
  \/ Reopen \/ Over

Spec == Init /\ [][Next]_vars

-----------------------------------------------------------------------------
(* Properties *)

\* "A script cannot post one request claiming an hour of viewing": beyond what
\* the first reports claimed the watched time never grows faster than the clock
\* and the slack of each further report, however reports overlap.
WatchedIsPlausible ==
  LET r == row[video] IN
  r # None => r.watched <= head + (r.at - start) + Slack * updates

\* "Videos reach completion through watch time": who has watched enough without
\* a break, at the video's own speed, and has reported it, has completed it,
\* unless reports overlapped, one was lost or one was slow.
WatchingCompletes ==
  \/ reported < Threshold \/ reported = 0 \/ About(video) # {}
  \/ video \in crossed \/ faults > 0 \/ slow \/ fast
  \/ Done(video)

\* What was complete stays complete, and the percentage "only moves forward",
\* unless requests for that row overlapped: an item's, without exception, the
\* lesson's from what POST /progress last set, which may be less.
ProgressSticks ==
  /\ \A i \in finished \ crossed : Done(i)
  /\ whole \in crossed \/ percent = best

\* "A lesson whose every required item is done is a completed lesson": the last
\* of them to be written completes it, in whatever order they are written and
\* read, unless that failed, or POST /progress has taken it back since.
LessonFollows ==
  \/ lesson \/ retracted \/ faults > 0
  \/ \E i \in Item : ~Done(i)
  \/ \E w \in Worker : pc[w] \in {"check", "complete"}

\* Watching, marking and scrolling are credited and kept.
ProgressHolds == WatchingCompletes /\ ProgressSticks /\ LessonFollows
=============================================================================
