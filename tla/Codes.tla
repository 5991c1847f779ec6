------------------------------- MODULE Codes -------------------------------
(***************************************************************************)
(* One-time codes for one address and purpose: sending them, within a      *)
(* cooldown and an hourly cap, and checking a guess.  Email and text codes  *)
(* are served by two services with the same keys and the same statements.  *)
(*                                                                         *)
(* All of it lives in Redis keys that run out.  Each command on a key is   *)
(* a step of its own; bcrypt and the mail server lie between them.  Codes  *)
(* are numbered as they are made; the wrong guess is None.                 *)
(***************************************************************************)
EXTENDS Integers, FiniteSets

CONSTANTS
  Worker, None,
  MaxSends,        \* MAX_SENDS_PER_HOUR
  MaxAttempts,     \* MAX_ATTEMPTS
  MaxCode,         \* bound on the requests for a code
  MaxGuess,        \* bound on the guesses
  MaxFault         \* bound on failed requests

ASSUME CodesAssumption ==
  /\ None \notin Worker \union Nat \union [code : Nat, attempts : Nat]
  /\ MaxSends \in Nat \ {0} /\ MaxAttempts \in Nat \ {0}
  /\ MaxCode \in Nat /\ MaxGuess \in Nat /\ MaxFault \in Nat

Code == 1..MaxCode

VARIABLES
  record,      \* the code's key: its code and the wrong guesses, or None
  cooldown,    \* the cooldown's key is there
  sends,       \* the sends counter: its value (0: no key) and whether it runs out
  pc, job,
  made, guesses, faults,
  era,         \* history: how often the sends counter ended
  sent,        \* history: codes stored since it last did
  delivered,   \* history: the codes that reached the address
  ended,       \* history: the codes used up, run out or replaced
  accepted,    \* history: accepted[c]: how often c was right
  wrong,       \* history: wrong[c]: guesses compared with c that were wrong
  met          \* history: codes that were there while two requests ran

keys    == <<record, cooldown, sends>>
handler == <<pc, job>>
bounds  == <<made, guesses, faults>>
codes   == <<era, sent, delivered, ended, accepted, wrong>>
vars    == <<keys, handler, bounds, codes, met>>

Record == [code : Code, attempts : Nat]
\* A request: the code it made or guesses, the record it has read, the
\* counter's era it counted in.
Job == [code : Code \union {None}, read : Record \union {None}, era : Nat]
NoJob == [code |-> None, read |-> None, era |-> 0]

KeysOK ==
  /\ record \in Record \union {None}
  /\ cooldown \in BOOLEAN
  /\ sends \in [n : Nat, runsOut : BOOLEAN] /\ (sends.n = 0 => ~sends.runsOut)

RequestsOK ==
  /\ pc \in [Worker -> {"idle", "count", "expire", "store", "cool", "mail", "undo", "warm",
                        "check", "compare", "forget", "clear"}]
  /\ job \in [Worker -> Job]
  /\ \A w \in Worker : /\ pc[w] = "idle" => job[w] = NoJob
                       /\ pc[w] \in {"compare", "forget"} => job[w].read # None

CountsOK ==
  /\ made \in 0..MaxCode /\ guesses \in Nat /\ faults \in Nat
  /\ era \in Nat /\ sent \in Nat
  /\ delivered \subseteq 1..made /\ ended \subseteq 1..made /\ met \subseteq 1..made
  /\ accepted \in [Code -> Nat] /\ wrong \in [Code -> Nat]

TypeOK == KeysOK /\ RequestsOK /\ CountsOK

Init ==
  /\ record = None /\ cooldown = FALSE /\ sends = [n |-> 0, runsOut |-> FALSE]
  /\ pc = [w \in Worker |-> "idle"] /\ job = [w \in Worker |-> NoJob]
  /\ made = 0 /\ guesses = 0 /\ faults = 0
  /\ era = 0 /\ sent = 0 /\ delivered = {} /\ ended = {} /\ met = {}
  /\ accepted = [c \in Code |-> 0] /\ wrong = [c \in Code |-> 0]

-----------------------------------------------------------------------------
Current == IF record = None THEN {} ELSE {record.code}
\* The requests about codes that are running, and the codes they are about.
Running == {w \in Worker : pc[w] \notin {"idle"}}
Concerned == {c \in Code : \E w \in Running : job[w].code = c \/ (job[w].read # None /\ job[w].read.code = c)}

\* A request that starts while another runs meets its codes.
Begin(w, step, j) ==
  /\ pc[w] = "idle"
  /\ pc' = [pc EXCEPT ![w] = step]
  /\ job' = [job EXCEPT ![w] = j]

Meet(own) == met' = IF Running = {} THEN met ELSE met \union Current \union Concerned \union own

Continue(w, step, j) ==
  /\ pc' = [pc EXCEPT ![w] = step]
  /\ job' = [job EXCEPT ![w] = j]

Finish(w) ==
  /\ pc' = [pc EXCEPT ![w] = "idle"]
  /\ job' = [job EXCEPT ![w] = NoJob]

\* The counter ends.
Restart == sends' = [n |-> 0, runsOut |-> FALSE] /\ era' = era + 1 /\ sent' = 0

-----------------------------------------------------------------------------
(* issueCode and PhoneVerificationService.send *)

SendCooling == cooldown /\ UNCHANGED vars

SendStart(w) ==
  /\ ~cooldown
  /\ made < MaxCode /\ made' = made + 1
  /\ Begin(w, "count", [NoJob EXCEPT !.code = made + 1])
  /\ Meet({made + 1})
  /\ UNCHANGED <<keys, guesses, faults, codes>>

\* Mutant: the counter is counted and never given a time.
FirstOfHourNever(n) == FALSE
FirstOfHour(n) == n = 1

\* incrWithTtl: INCR, and EXPIRE if this made the key.
CountSend(w) ==
  LET n == sends.n + 1 IN
  /\ pc[w] = "count"
  /\ sends' = [sends EXCEPT !.n = n]
  /\ Continue(w, IF FirstOfHour(n) THEN "expire" ELSE IF n > MaxSends THEN "idle" ELSE "store",
              IF ~FirstOfHour(n) /\ n > MaxSends THEN NoJob ELSE [job[w] EXCEPT !.era = era])
  /\ UNCHANGED <<record, cooldown, bounds, codes, met>>

CountExpires(w) ==
  /\ pc[w] = "expire"
  /\ sends' = [sends EXCEPT !.runsOut = sends.n > 0]
  /\ Continue(w, "store", job[w])
  /\ UNCHANGED <<record, cooldown, bounds, codes, met>>

Stored(c) == [code |-> c, attempts |-> 0]

\* The code is hashed and stored in the place of what was there.
StoreCode(w) ==
  /\ pc[w] = "store"
  /\ record' = Stored(job[w].code)
  /\ ended' = ended \union Current
  /\ sent' = IF job[w].era = era THEN sent + 1 ELSE sent
  /\ Continue(w, "cool", job[w])
  /\ UNCHANGED <<cooldown, sends, bounds, era, delivered, accepted, wrong, met>>

SetCooldown(w) ==
  /\ pc[w] = "cool"
  /\ cooldown' = TRUE
  /\ Continue(w, "mail", job[w])
  /\ UNCHANGED <<record, sends, bounds, codes, met>>

Mail(w) ==
  /\ pc[w] = "mail"
  /\ delivered' = delivered \union {job[w].code}
  /\ Finish(w)
  /\ UNCHANGED <<keys, bounds, era, sent, ended, accepted, wrong, met>>

\* "Nothing was delivered: let the person try again straight away."
MailFails(w) ==
  /\ pc[w] = "mail" /\ faults < MaxFault
  /\ faults' = faults + 1
  /\ Continue(w, "undo", job[w])
  /\ UNCHANGED <<keys, made, guesses, codes, met>>

\* Mutant: what was not delivered is not counted.
UndoSendToo(w) ==
  /\ pc[w] = "undo"
  /\ record' = None
  /\ sends' = [sends EXCEPT !.n = 0, !.runsOut = FALSE]
  /\ Continue(w, "warm", job[w])
  /\ UNCHANGED <<cooldown, bounds, codes, met>>

UndoSend(w) ==
  /\ pc[w] = "undo"
  /\ record' = None
  /\ Continue(w, "warm", job[w])
  /\ UNCHANGED <<cooldown, sends, bounds, codes, met>>

UndoCooldown(w) ==
  /\ pc[w] = "warm"
  /\ cooldown' = FALSE
  /\ Finish(w)
  /\ UNCHANGED <<record, sends, bounds, codes, met>>

-----------------------------------------------------------------------------
(* checkCode *)

CheckStart(w, c) ==
  /\ guesses < MaxGuess /\ guesses' = guesses + 1
  /\ Begin(w, "check", [NoJob EXCEPT !.code = c])
  /\ Meet({})
  /\ UNCHANGED <<keys, made, faults, codes>>

\* "That code has expired."
CheckNothing == record = None /\ UNCHANGED vars

TooMany(r) == r.attempts >= MaxAttempts

CheckRead(w) ==
  /\ pc[w] = "check"
  /\ IF record = None THEN Finish(w)
       ELSE Continue(w, IF TooMany(record) THEN "forget" ELSE "compare",
                     [job[w] EXCEPT !.read = record])
  /\ UNCHANGED <<keys, bounds, codes, met>>

\* Too many wrong guesses: the code is deleted, whichever it is by now.
CheckForget(w) ==
  /\ pc[w] = "forget"
  /\ record' = None
  /\ ended' = ended \union {job[w].read.code}
  /\ Finish(w)
  /\ UNCHANGED <<cooldown, sends, bounds, era, sent, delivered, accepted, wrong, met>>

\* What was read is written back, one guess older.
Guessed(r) == [r EXCEPT !.attempts = @ + 1]

CheckWrong(w) ==
  LET r == job[w].read IN
  /\ pc[w] = "compare" /\ job[w].code # r.code
  /\ record' = Guessed(r)
  /\ wrong' = [wrong EXCEPT ![r.code] = @ + 1]
  /\ Finish(w)
  /\ UNCHANGED <<cooldown, sends, bounds, era, sent, delivered, ended, accepted, met>>

\* Mutant: the code that was right stays.
CheckRightKept(w) ==
  /\ pc[w] = "compare" /\ job[w].code = job[w].read.code
  /\ accepted' = [accepted EXCEPT ![job[w].code] = @ + 1]
  /\ Continue(w, "clear", NoJob)
  /\ UNCHANGED <<keys, bounds, era, sent, delivered, ended, wrong, met>>

CheckRight(w) ==
  /\ pc[w] = "compare" /\ job[w].code = job[w].read.code
  /\ record' = None
  /\ ended' = ended \union {job[w].code} \union Current
  /\ accepted' = [accepted EXCEPT ![job[w].code] = @ + 1]
  /\ Continue(w, "clear", NoJob)
  /\ UNCHANGED <<cooldown, sends, bounds, era, sent, delivered, wrong, met>>

\* And the sends are counted anew.
CheckClear(w) ==
  /\ pc[w] = "clear"
  /\ Restart
  /\ Finish(w)
  /\ UNCHANGED <<record, cooldown, bounds, delivered, ended, accepted, wrong, met>>

-----------------------------------------------------------------------------
(* Redis drops a key after its time *)

CodeRunsOut ==
  /\ record # None
  /\ record' = None /\ ended' = ended \union Current
  /\ UNCHANGED <<cooldown, sends, handler, bounds, era, sent, delivered, accepted, wrong, met>>

CooldownRunsOut ==
  /\ cooldown /\ cooldown' = FALSE
  /\ UNCHANGED <<record, sends, handler, bounds, codes, met>>

SendsRunOut ==
  /\ sends.runsOut
  /\ Restart
  /\ UNCHANGED <<record, cooldown, handler, bounds, delivered, ended, accepted, wrong, met>>

-----------------------------------------------------------------------------
\* A request ends in an error, or with its process.
Fail(w) ==
  /\ pc[w] # "idle" /\ faults < MaxFault
  /\ faults' = faults + 1
  /\ Finish(w)
  /\ UNCHANGED <<keys, made, guesses, codes, met>>

Proceed(w) ==
  \/ CountSend(w) \/ CountExpires(w) \/ StoreCode(w) \/ SetCooldown(w)
  \/ Mail(w) \/ MailFails(w) \/ UndoSend(w) \/ UndoCooldown(w)
  \/ CheckRead(w) \/ CheckForget(w) \/ CheckWrong(w) \/ CheckRight(w) \/ CheckClear(w)

Next ==
  \/ \E w \in Worker :
       \/ Proceed(w) \/ Fail(w) \/ SendStart(w)
       \/ \E c \in delivered \union {None} : CheckStart(w, c)
  \/ SendCooling \/ CheckNothing \/ CodeRunsOut \/ CooldownRunsOut \/ SendsRunOut

Spec == Init /\ [][Next]_vars
\* A request that has started runs on, and Redis drops a counter in time.
FairSpec == Spec /\ WF_vars(SendsRunOut) /\ \A w \in Worker : WF_vars(Proceed(w))

-----------------------------------------------------------------------------
(* Properties *)

\* checkCode: "Single use": a code is accepted once, however it was guessed at,
\* unless requests ran at the same time.
SingleUse == \A c \in Code \ met : accepted[c] <= 1

\* "five wrong guesses": no more are compared with one code, unless requests
\* ran at the same time.
GuessesAreFew == \A c \in Code \ met : wrong[c] <= MaxAttempts

\* The code somebody holds works until it is used, has run out, was guessed at
\* too often or is replaced: no other way of losing it, unless requests ran at
\* the same time.
DeliveredCodeWorks ==
  \A c \in delivered \ (ended \union met) : record # None /\ record.code = c

\* An earlier code is never accepted, nor brought back, once another was stored,
\* unless requests ran at the same time.
NewestCodeCounts == record # None => record.code \in met \/ \A c \in delivered : c <= record.code

\* What a code promises whoever holds it, and whoever guesses at it.
CodeHolds == TypeOK /\ SingleUse /\ GuessesAreFew /\ DeliveredCodeWorks /\ NewestCodeCounts

\* "at most N OTP requests per hour": however requests overlap, no more codes
\* are stored while one counter counts.
SendsWithinCap == sent <= MaxSends

\* Whoever has asked too often can ask again, unless the request that made the
\* counter was cut short before it was given its time.
CapEnds == sends.n >= MaxSends ~> sends.n < MaxSends \/ faults > 0
=============================================================================
