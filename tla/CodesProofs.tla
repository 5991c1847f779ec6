---------------------------- MODULE CodesProofs ----------------------------
(***************************************************************************)
(* Proofs about Codes, for any number of requests, codes, guesses and       *)
(* sends: what a code promises whoever holds it, and the cap on the sends.  *)
(*                                                                         *)
(* A code that no two requests met is in the hands of one request at most   *)
(* (Overlaps).  What that request carries is then what the key says: the    *)
(* guesses counted are those compared, and nothing newer was delivered      *)
(* (Sending, Reading, Kept).  The cap needs none of this: a request that    *)
(* was let through has been counted by the counter it will be held against. *)
(***************************************************************************)
EXTENDS Codes, FiniteSetTheorems, TLAPS

Steps  == {"idle", "count", "expire", "store", "cool", "mail", "undo", "warm",
           "check", "compare", "forget", "clear"}
Sender == {"count", "expire", "store", "cool", "mail", "undo", "warm"}
Reader == {"compare", "forget"}

Busy(w) == pc[w] # "idle"
IsCurrent(c) == record # None /\ record.code = c

\* The code a request will store, or has read and may write back.
Carries(w, c) ==
  \/ pc[w] \in Sender /\ job[w].code = c
  \/ pc[w] \in Reader /\ job[w].read.code = c

\* Where two requests run, the code that is there and those they carry are met.
Overlaps ==
  \A v, w \in Worker : v # w /\ Busy(v) /\ Busy(w) =>
    \A c \in Code : IsCurrent(c) \/ Carries(w, c) => c \in met

\* No code that was delivered is newer than c.
Latest(c) == \A d \in delivered : d <= c

\* A code on its way is the newest, and nobody has seen it yet.
Sending(w) ==
  pc[w] \in Sender =>
    /\ job[w].code \in 1..made
    /\ \/ job[w].code \in met
       \/ /\ job[w].code = made /\ job[w].code \notin delivered /\ accepted[job[w].code] = 0
          /\ pc[w] \in {"count", "expire", "store"} => wrong[job[w].code] = 0
    /\ pc[w] \in {"cool", "mail", "undo"} =>
         record = None \/ record.code \in met \union {job[w].code}
    /\ pc[w] \in {"cool", "mail"} =>
         IsCurrent(job[w].code) \/ job[w].code \in ended \union met

\* A code as it was stored: its guesses are all counted, it was not accepted,
\* and none is newer.
True(r) ==
  r.code \in met \/ (wrong[r.code] = r.attempts /\ accepted[r.code] = 0 /\ Latest(r.code))

\* What was read is still there, if anything is, and is as it was stored.
Reading(w) ==
  pc[w] \in Reader =>
    /\ job[w].read.code \in 1..made /\ True(job[w].read)
    /\ record = None \/ record.code \in met \union {job[w].read.code}
    /\ pc[w] = "compare" => job[w].read.code \in met \/ job[w].read.attempts < MaxAttempts

\* A request is about a code that was made, and holds no record for long.
Named(w) ==
  /\ job[w].code \in (1..made) \union {None}
  /\ job[w].read # None => pc[w] \in Reader

Kept == record # None => record.code \in 1..made /\ True(record)

\* No code that has yet to be made was guessed.
Fresh == \A c \in Code : c > made => accepted[c] = 0 /\ wrong[c] = 0

Promises == Fresh /\ Kept /\ SingleUse /\ GuessesAreFew /\ DeliveredCodeWorks

IInv == TypeOK /\ Overlaps /\ Promises /\ \A w \in Worker : Named(w) /\ Sending(w) /\ Reading(w)

USE CodesAssumption

-----------------------------------------------------------------------------
(* How a request moves *)

\* One request moves, the others stand still.
Moves(w) == \A v \in Worker \ {w} : pc'[v] = pc[v] /\ job'[v] = job[v]

\* Begin, Continue and Finish move one request.
LEMMA Begun ==
  ASSUME RequestsOK, NEW w \in Worker, NEW step, NEW j, Begin(w, step, j)
  PROVE  Moves(w) /\ pc[w] = "idle" /\ pc'[w] = step /\ job'[w] = j
  BY DEF RequestsOK, Begin, Moves

\* The same of Continue.
LEMMA Continued ==
  ASSUME RequestsOK, NEW w \in Worker, NEW step, NEW j, Continue(w, step, j)
  PROVE  Moves(w) /\ pc'[w] = step /\ job'[w] = j
  BY DEF RequestsOK, Continue, Moves

\* And of Finish.
LEMMA Finished ==
  ASSUME RequestsOK, NEW w \in Worker, Finish(w)
  PROVE  Moves(w) /\ pc'[w] = "idle" /\ job'[w] = NoJob
  BY DEF RequestsOK, Finish, Moves

\* A step and a job that go together.
Fits(step, j) ==
  /\ step \in Steps /\ j \in Job
  /\ step = "idle" => j = NoJob
  /\ step \in Reader => j.read # None

\* A request that begins with such has its type.
LEMMA BegunTypes ==
  ASSUME RequestsOK, NEW w \in Worker, NEW step, NEW j, Begin(w, step, j), Fits(step, j)
  PROVE  RequestsOK'
  BY DEF RequestsOK, Fits, Steps, Reader, Begin

\* So has one that goes on.
LEMMA ContinuedTypes ==
  ASSUME RequestsOK, NEW w \in Worker, NEW step, NEW j, Continue(w, step, j), Fits(step, j)
  PROVE  RequestsOK'
  BY DEF RequestsOK, Fits, Steps, Reader, Continue

\* The parts of a job.
LEMMA JobParts ==
  /\ NoJob \in Job /\ NoJob.code = None /\ NoJob.read = None /\ NoJob.era = 0
  /\ \A c \in Code \union {None} :
       [NoJob EXCEPT !.code = c] \in Job /\ [NoJob EXCEPT !.code = c].code = c
       /\ [NoJob EXCEPT !.code = c].read = None /\ [NoJob EXCEPT !.code = c].era = 0
  /\ \A j \in Job, r \in Record :
       [j EXCEPT !.read = r] \in Job /\ [j EXCEPT !.read = r].read = r
       /\ [j EXCEPT !.read = r].code = j.code /\ [j EXCEPT !.read = r].era = j.era
  /\ \A j \in Job, e \in Nat :
       [j EXCEPT !.era = e] \in Job /\ [j EXCEPT !.era = e].code = j.code
       /\ [j EXCEPT !.era = e].read = j.read /\ [j EXCEPT !.era = e].era = e
  BY DEF NoJob, Job

\* And one that ends.
LEMMA FinishedTypes ==
  ASSUME RequestsOK, NEW w \in Worker, Finish(w)
  PROVE  RequestsOK'
  BY JobParts DEF RequestsOK, Finish

\* A record is none of what stands for nothing.
LEMMA RecordParts ==
  /\ None \notin Record /\ None \notin Code
  /\ \A r \in Record : r.code \in Code /\ r.attempts \in Nat
       /\ Guessed(r) \in Record /\ Guessed(r).code = r.code
       /\ Guessed(r).attempts = r.attempts + 1
  /\ \A c \in Code : Stored(c) \in Record /\ Stored(c).code = c /\ Stored(c).attempts = 0
<1>1. Code \subseteq Nat
  BY DEF Code
<1>2. Record \subseteq [code : Nat, attempts : Nat]
  BY <1>1 DEF Record
<1>3. \A r \in Record : Guessed(r) = [code |-> r.code, attempts |-> r.attempts + 1]
  BY DEF Record, Guessed
<1>4. \A r \in Record : r.code \in Code /\ r.attempts \in Nat
  BY DEF Record
<1>5. \A r \in Record : /\ Guessed(r) \in Record /\ Guessed(r).code = r.code
                        /\ Guessed(r).attempts = r.attempts + 1
  BY <1>3, <1>4 DEF Record
<1>6. \A c \in Code : Stored(c) \in Record /\ Stored(c).code = c /\ Stored(c).attempts = 0
  BY DEF Stored, Record
<1> QED BY <1>1, <1>2, <1>4, <1>5, <1>6

\* What a request carries is a code.
LEMMA CarriedParts ==
  ASSUME IInv, NEW w \in Worker
  PROVE  /\ job[w] \in Job /\ made \in Nat /\ 1..made \subseteq Code
         /\ pc[w] \in Sender => job[w].code \in Code /\ Carries(w, job[w].code)
         /\ pc[w] \in Reader => /\ job[w].read \in Record /\ job[w].read.code \in Code
                                /\ Carries(w, job[w].read.code)
<1>1. job[w] \in Job /\ made \in Nat /\ 1..made \subseteq Code
  BY DEF IInv, TypeOK, RequestsOK, CountsOK, Code
<1>2. ASSUME pc[w] \in Sender  PROVE job[w].code \in Code /\ Carries(w, job[w].code)
  BY <1>1, <1>2 DEF IInv, Sending, Carries
<1>3. ASSUME pc[w] \in Reader
      PROVE  job[w].read \in Record /\ job[w].read.code \in Code /\ Carries(w, job[w].read.code)
  <2>1. job[w].read \in Record
    BY <1>1, <1>3 DEF IInv, TypeOK, RequestsOK, Job, Reader
  <2> QED BY <1>3, <2>1, RecordParts DEF Carries
<1> QED BY <1>1, <1>2, <1>3

-----------------------------------------------------------------------------
(* What a step leaves true *)

\* A request under way moves, and leaves no code but its own: what the others
\* carry was met before.
LEMMA RequestStep ==
  ASSUME IInv, TypeOK', NEW w \in Worker, Busy(w), Moves(w), UNCHANGED <<made, met>>,
         record' = None \/ record' = record \/ Carries(w, record'.code),
         \A c \in Code : Carries(w, c)' => Carries(w, c) \/ IsCurrent(c),
         Promises', Named(w)', Sending(w)', Reading(w)'
  PROVE  IInv'
<1>1. record' # None => record' \in Record /\ record'.code \in Code
  BY RecordParts DEF TypeOK, KeysOK
<1>2. \A v \in Worker \ {w} : Busy(v) => (record' = None \/ record'.code \in met)
  BY <1>1 DEF IInv, Overlaps, IsCurrent
<1>3. \A v \in Worker \ {w} : Busy(v) => \A c \in Code : Carries(v, c) => c \in met
  BY DEF IInv, Overlaps
<1>4. ASSUME NEW v \in Worker \ {w}  PROVE Named(v)' /\ Sending(v)' /\ Reading(v)'
  <2>1. pc'[v] = pc[v] /\ job'[v] = job[v]
    BY DEF Moves
  <2>0. Named(v)'
    BY <2>1 DEF IInv, Named
  <2>2. CASE pc[v] \in Sender
    <3>1. Busy(v) /\ job[v].code \in met /\ job[v].code \in 1..made
      BY <1>3, <2>2, CarriedParts DEF Busy, Sender, IInv, Sending
    <3>2. pc[v] \notin Reader
      BY <2>2 DEF Sender, Reader
    <3> QED BY <1>2, <2>0, <2>1, <3>1, <3>2 DEF Sending, Reading
  <2>3. CASE pc[v] \in Reader
    <3>1. Busy(v) /\ job[v].read.code \in met /\ job[v].read.code \in 1..made
      BY <1>3, <2>3, CarriedParts DEF Busy, Reader, IInv, Reading
    <3>2. pc[v] \notin Sender
      BY <2>3 DEF Sender, Reader
    <3> QED BY <1>2, <2>0, <2>1, <3>1, <3>2 DEF Sending, Reading, True
  <2>4. CASE pc[v] \notin Sender /\ pc[v] \notin Reader
    BY <2>0, <2>1, <2>4 DEF Sending, Reading
  <2> QED BY <2>0, <2>2, <2>3, <2>4
<1>5. Overlaps'
  <2> SUFFICES ASSUME NEW u \in Worker, NEW v \in Worker, u # v, Busy(u)', Busy(v)',
                      NEW c \in Code, IsCurrent(c)' \/ Carries(v, c)'
               PROVE  c \in met
    BY DEF Overlaps
  <2>1. Busy(u) /\ Busy(v)
    BY DEF Moves, Busy
  <2>2. PICK o \in Worker \ {w} : Busy(o)
    BY <2>1
  <2>3. CASE IsCurrent(c)'
    BY <1>2, <2>2, <2>3 DEF IsCurrent
  <2>4. CASE Carries(v, c)' /\ v = w
    <3>1. Carries(w, c) \/ IsCurrent(c)
      BY <2>4
    <3> QED BY <2>2, <3>1 DEF IInv, Overlaps
  <2>5. CASE Carries(v, c)' /\ v # w
    <3>1. Carries(v, c)
      BY <2>5 DEF Moves, Carries
    <3> QED BY <1>3, <2>1, <2>5, <3>1
  <2> QED BY <2>3, <2>4, <2>5
<1> QED BY <1>4, <1>5 DEF IInv

\* A request under way moves on by a step about the other keys.
LEMMA RequestQuiet ==
  ASSUME IInv, TypeOK', NEW w \in Worker, Busy(w), Moves(w),
         UNCHANGED <<record, made, met, delivered, ended, accepted, wrong>>,
         pc'[w] \in Sender \union Reader =>
           /\ pc[w] \in Sender /\ pc'[w] \in Sender /\ job'[w].code = job[w].code
           /\ pc'[w] \in {"count", "expire", "store"} => pc[w] \in {"count", "expire", "store"}
           /\ pc'[w] \in {"cool", "mail"} => pc[w] \in {"cool", "mail"}
           /\ pc'[w] = "undo" => pc[w] \in {"cool", "mail", "undo"},
         job'[w].code \in {job[w].code, None}, job'[w].read \in {job[w].read, None},
         job'[w].read # None => pc'[w] \in Reader
  PROVE  IInv'
<1>1. Promises'
  BY DEF IInv, Promises, Fresh, Kept, True, Latest, SingleUse, GuessesAreFew, DeliveredCodeWorks
<1>2. Sending(w)'
  BY DEF IInv, Sending, IsCurrent
<1>3. pc'[w] \notin Reader
  BY DEF Sender, Reader
<1>4. Reading(w)'
  BY <1>3 DEF Reading
<1>5. \A c \in Code : Carries(w, c)' => Carries(w, c)
  BY <1>3 DEF Carries
<1>6. Named(w)'
  BY DEF IInv, Named
<1> QED BY <1>1, <1>2, <1>4, <1>5, <1>6, RequestStep

\* A request that begins meets what is there and what the others carry.
LEMMA RequestBegins ==
  ASSUME IInv, TypeOK', NEW w \in Worker, ~Busy(w), Moves(w), made <= made',
         NEW own, Meet(own), \A c \in Code : Carries(w, c)' => c \in own,
         UNCHANGED <<record, delivered, ended, accepted, wrong>>,
         Named(w)', Sending(w)', Reading(w)'
  PROVE  IInv'
<1>1. met \subseteq met'
  BY DEF Meet
<1>2. made \in Nat /\ made' \in Nat /\ 1..made \subseteq 1..made' /\ 1..made \subseteq Code
      /\ \A c \in Code : c \in Nat
  BY DEF IInv, TypeOK, CountsOK, Code
<1>3. ASSUME NEW v \in Worker \ {w}, Busy(v)
      PROVE  \A c \in Code : IsCurrent(c) \/ Carries(v, c) \/ c \in own => c \in met'
  <2>1. met' = met \union Current \union Concerned \union own
    BY <1>3 DEF Meet, Running, Busy
  <2>2. \A c \in Code : IsCurrent(c) => c \in Current
    BY DEF IsCurrent, Current
  <2>3. \A c \in Code : Carries(v, c) => c \in Concerned
    BY <1>3 DEF Carries, Concerned, Running, Busy, Reader, IInv, TypeOK, RequestsOK
  <2> QED BY <2>1, <2>2, <2>3
<1>4. Promises'
  <2>1. Fresh'
    BY <1>2 DEF IInv, Promises, Fresh
  <2>2. Kept'
    BY <1>1, <1>2 DEF IInv, Promises, Kept, True, Latest
  <2> QED BY <1>1, <2>1, <2>2 DEF IInv, Promises, SingleUse, GuessesAreFew, DeliveredCodeWorks
<1>5. ASSUME NEW v \in Worker \ {w}  PROVE Named(v)' /\ Sending(v)' /\ Reading(v)'
  <2>1. pc'[v] = pc[v] /\ job'[v] = job[v]
    BY DEF Moves
  <2>0. Named(v)'
    BY <1>2, <2>1 DEF IInv, Named
  <2>2. CASE pc[v] \in Sender
    <3>1. Busy(v) /\ Carries(v, job[v].code) /\ job[v].code \in 1..made
      BY <2>2, CarriedParts DEF Busy, Sender, IInv, Sending
    <3>2. job[v].code \in met' /\ job[v].code \in 1..made'
      BY <1>2, <1>3, <3>1
    <3>3. pc[v] \notin Reader
      BY <2>2 DEF Sender, Reader
    <3> QED BY <1>1, <2>0, <2>1, <3>2, <3>3 DEF Sending, Reading, IInv
  <2>3. CASE pc[v] \in Reader
    <3>1. Busy(v) /\ Carries(v, job[v].read.code) /\ job[v].read.code \in 1..made
      BY <2>3, CarriedParts DEF Busy, Reader, IInv, Reading
    <3>2. job[v].read.code \in met' /\ job[v].read.code \in 1..made'
      BY <1>2, <1>3, <3>1
    <3>3. pc[v] \notin Sender
      BY <2>3 DEF Sender, Reader
    <3> QED BY <1>1, <2>0, <2>1, <3>2, <3>3 DEF Sending, Reading, True, IInv
  <2>4. CASE pc[v] \notin Sender /\ pc[v] \notin Reader
    BY <2>0, <2>1, <2>4 DEF Sending, Reading
  <2> QED BY <2>0, <2>2, <2>3, <2>4
<1>6. Overlaps'
  <2> SUFFICES ASSUME NEW u \in Worker, NEW v \in Worker, u # v, Busy(u)', Busy(v)',
                      NEW c \in Code, IsCurrent(c)' \/ Carries(v, c)'
               PROVE  c \in met'
    BY DEF Overlaps
  <2>1. PICK o \in Worker \ {w} : Busy(o) /\ (v # w => o = v)
    BY DEF Moves, Busy
  <2>2. IsCurrent(c)' => IsCurrent(c)
    BY DEF IsCurrent
  <2>3. v # w => (Carries(v, c)' => Carries(v, c))
    BY DEF Moves, Carries
  <2>4. v = w => (Carries(v, c)' => c \in own)
    OBVIOUS
  <2> QED BY <1>3, <2>1, <2>2, <2>3, <2>4
<1> QED BY <1>4, <1>5, <1>6 DEF IInv

\* Nobody is about a code that has yet to be made.
LEMMA ConcernedAreMade ==
  ASSUME IInv  PROVE Concerned \subseteq 1..made
<1> SUFFICES ASSUME NEW c \in Concerned  PROVE c \in 1..made
  OBVIOUS
<1>1. PICK w \in Worker : job[w].code = c \/ (job[w].read # None /\ job[w].read.code = c)
  BY DEF Concerned, Running
<1>2. CASE job[w].code = c
  BY <1>2, RecordParts DEF IInv, Named, Concerned
<1>3. CASE job[w].read # None /\ job[w].read.code = c
  BY <1>3 DEF IInv, Named, Reading
<1> QED BY <1>1, <1>2, <1>3

-----------------------------------------------------------------------------
(* The steps *)

\* A request for a code begins.
LEMMA SendStartKeeps ==
  ASSUME IInv, NEW w \in Worker, SendStart(w)  PROVE IInv'
<1> DEFINE j == [NoJob EXCEPT !.code = made + 1]
<1>1. /\ ~cooldown /\ made < MaxCode /\ made' = made + 1 /\ Begin(w, "count", j)
      /\ Meet({made + 1}) /\ UNCHANGED <<keys, guesses, faults, codes>>
  BY DEF SendStart
<1>2. made \in Nat /\ made + 1 \in Code /\ made + 1 \in 1..made' /\ MaxCode \in Nat
  BY <1>1 DEF IInv, TypeOK, CountsOK, Code
<1>3. j \in Job /\ j.code = made + 1 /\ j.read = None
  BY <1>2, JobParts
<1> HIDE DEF j
<1>4. Moves(w) /\ pc[w] = "idle" /\ pc'[w] = "count" /\ job'[w] = j
  BY <1>1, Begun DEF IInv, TypeOK
<1>5. RequestsOK'
  BY <1>1, <1>3, BegunTypes DEF IInv, TypeOK, Fits, Steps, Reader
<1>6. met' \subseteq 1..made'
  <2>1. Current \subseteq 1..made
    BY DEF IInv, Promises, Kept, Current
  <2>2. met' \subseteq met \union Current \union Concerned \union {made + 1}
    BY <1>1 DEF Meet
  <2> QED BY <1>1, <1>2, <2>1, <2>2, ConcernedAreMade DEF IInv, TypeOK, CountsOK
<1>7. TypeOK'
  BY <1>1, <1>2, <1>5, <1>6 DEF IInv, TypeOK, KeysOK, CountsOK, keys, codes
<1>8. made + 1 \notin delivered /\ accepted[made + 1] = 0 /\ wrong[made + 1] = 0
  BY <1>2 DEF IInv, TypeOK, CountsOK, Promises, Fresh
<1>9. Named(w)' /\ Sending(w)' /\ Reading(w)'
  BY <1>1, <1>2, <1>3, <1>4, <1>8 DEF Named, Sending, Reading, Reader, codes
<1>10. \A c \in Code : Carries(w, c)' => c \in {made + 1}
  BY <1>3, <1>4 DEF Carries, Reader
<1> QED BY <1>1, <1>2, <1>4, <1>7, <1>9, <1>10, RequestBegins DEF Busy, keys, codes
\* A guess begins.
LEMMA CheckStartKeeps ==
  ASSUME IInv, NEW w \in Worker, NEW c \in delivered \union {None}, CheckStart(w, c)
  PROVE  IInv'
<1> DEFINE j == [NoJob EXCEPT !.code = c]
<1>1. /\ guesses' = guesses + 1 /\ Begin(w, "check", j)
      /\ Meet({}) /\ UNCHANGED <<keys, made, faults, codes>>
  BY DEF CheckStart
<1>2. made \in Nat /\ 1..made \subseteq Code /\ c \in (1..made) \union {None}
  BY DEF IInv, TypeOK, CountsOK, Code
<1>3. j \in Job /\ j.code = c /\ j.read = None
  BY <1>2, JobParts
<1> HIDE DEF j
<1>4. Moves(w) /\ pc[w] = "idle" /\ pc'[w] = "check" /\ job'[w] = j
  BY <1>1, Begun DEF IInv, TypeOK
<1>5. RequestsOK'
  BY <1>1, <1>3, BegunTypes DEF IInv, TypeOK, Fits, Steps, Reader
<1>6. met' \subseteq 1..made'
  <2>1. Current \subseteq 1..made
    BY DEF IInv, Promises, Kept, Current
  <2>2. met' \subseteq met \union Current \union Concerned
    BY <1>1 DEF Meet
  <2> QED BY <1>1, <2>1, <2>2, ConcernedAreMade DEF IInv, TypeOK, CountsOK
<1>7. TypeOK'
  BY <1>1, <1>5, <1>6 DEF IInv, TypeOK, KeysOK, CountsOK, keys, codes
<1>8. Named(w)' /\ Sending(w)' /\ Reading(w)'
  BY <1>1, <1>2, <1>3, <1>4 DEF Named, Sending, Reading, Sender, Reader
<1>9. \A d \in Code : Carries(w, d)' => d \in {}
  BY <1>4 DEF Carries, Sender, Reader
<1> QED BY <1>1, <1>2, <1>4, <1>7, <1>8, <1>9, RequestBegins DEF Busy, keys, codes

\* What the steps of a request to send start from.
LEMMA SenderParts ==
  ASSUME IInv, NEW w \in Worker, pc[w] \in Sender
  PROVE  /\ Busy(w) /\ pc[w] \notin Reader /\ job[w] \in Job /\ job[w].read = None
         /\ job[w].code \in Code /\ job[w].code \in 1..made /\ Carries(w, job[w].code)
         /\ KeysOK /\ RequestsOK /\ CountsOK
<1>1. Busy(w) /\ pc[w] \notin Reader
  BY DEF Busy, Sender, Reader
<1>2. job[w].read = None
  BY <1>1 DEF IInv, Named
<1> QED BY <1>1, <1>2, CarriedParts DEF IInv, TypeOK, Sending

\* The steps of a request to send that touch only the other keys.
LEMMA SendingKeeps ==
  ASSUME IInv, NEW w \in Worker,
         CountSend(w) \/ CountExpires(w) \/ SetCooldown(w) \/ MailFails(w) \/ UndoCooldown(w)
  PROVE  IInv'
<1>1. ASSUME CountSend(w)  PROVE IInv'
  <2>1. pc[w] = "count" /\ sends' = [sends EXCEPT !.n = sends.n + 1]
        /\ UNCHANGED <<record, cooldown, bounds, codes, met>>
    BY <1>1 DEF CountSend
  <2>2. PICK step \in {"idle", "expire", "store"}, j \in {NoJob, [job[w] EXCEPT !.era = era]} :
          Continue(w, step, j) /\ (step = "idle" <=> j = NoJob)
    <3>1. [job[w] EXCEPT !.era = era].code # None
      BY <2>1, SenderParts, JobParts, RecordParts DEF Sender, CountsOK
    <3> QED BY <1>1, <3>1, JobParts DEF CountSend
  <2>3. Moves(w) /\ pc'[w] = step /\ job'[w] = j
    BY <2>2, Continued DEF IInv, TypeOK
  <2>4. j \in Job /\ j.read = None /\ j.code \in {job[w].code, None}
        /\ (j # NoJob => j.code = job[w].code)
    <3>1. job[w] \in Job /\ job[w].read = None /\ era \in Nat
      BY <2>1, SenderParts DEF Sender, CountsOK
    <3>2. CASE j = NoJob
      BY <3>2, JobParts
    <3>3. CASE j = [job[w] EXCEPT !.era = era]
      BY <3>1, <3>3, JobParts
    <3> QED BY <3>2, <3>3
  <2>5. RequestsOK'
    BY <2>2, <2>4, ContinuedTypes DEF IInv, TypeOK, Fits, Steps, Reader
  <2>6. KeysOK'
    BY <2>1 DEF IInv, TypeOK, KeysOK
  <2>7. TypeOK'
    BY <2>1, <2>5, <2>6 DEF IInv, TypeOK, CountsOK, bounds, codes
  <2>8. pc'[w] \in Sender \union Reader =>
          pc'[w] \in {"expire", "store"} /\ job'[w].code = job[w].code
    BY <2>2, <2>3, <2>4 DEF Sender, Reader
  <2> QED BY <2>1, <2>3, <2>4, <2>7, <2>8, RequestQuiet DEF Busy, Sender, bounds, codes
<1>2. ASSUME CountExpires(w) \/ SetCooldown(w) \/ MailFails(w)  PROVE IInv'
  <2>1. /\ pc[w] \in {"expire", "cool", "mail"}
        /\ UNCHANGED <<record, made, met, codes>>
        /\ Continue(w, CASE pc[w] = "expire" -> "store" [] pc[w] = "cool" -> "mail"
                         [] OTHER -> "undo", job[w])
    BY <1>2 DEF CountExpires, SetCooldown, MailFails, keys, bounds
  <2>2. PICK step \in {"store", "mail", "undo"} :
          /\ Continue(w, step, job[w])
          /\ step = "store" => pc[w] = "expire"
          /\ step = "mail" => pc[w] = "cool"
          /\ step = "undo" => pc[w] = "mail"
    BY <2>1
  <2>3. Moves(w) /\ pc'[w] = step /\ job'[w] = job[w]
    BY <2>2, Continued DEF IInv, TypeOK
  <2>4. pc[w] \in Sender /\ job[w] \in Job /\ job[w].read = None
    BY <2>1, SenderParts DEF Sender
  <2>5. RequestsOK'
    BY <2>2, <2>4, ContinuedTypes DEF IInv, TypeOK, Fits, Steps, Reader
  <2>6. KeysOK'
    <3>1. KeysOK /\ (sends.n > 0) \in BOOLEAN
      BY DEF IInv, TypeOK
    <3>2. CASE CountExpires(w)
      <4>1. sends' = [n |-> sends.n, runsOut |-> sends.n > 0] /\ UNCHANGED <<record, cooldown>>
        BY <3>1, <3>2 DEF CountExpires, KeysOK
      <4>2. sends'.n = sends.n /\ sends'.runsOut = (sends.n > 0) /\ sends.n \in Nat
        BY <3>1, <4>1 DEF KeysOK
      <4>3. ASSUME sends'.n = 0  PROVE ~sends'.runsOut
        <5>1. ~(sends.n > 0)
          BY <4>2, <4>3
        <5> QED BY <4>2, <5>1, Zenon
      <4> QED BY <3>1, <4>1, <4>2, <4>3 DEF KeysOK
    <3>3. CASE SetCooldown(w) \/ MailFails(w)
      BY <3>1, <3>3 DEF SetCooldown, MailFails, keys, KeysOK
    <3> QED BY <1>2, <3>2, <3>3
  <2>7. CountsOK'
    BY <1>2 DEF CountExpires, SetCooldown, MailFails, bounds, codes, IInv, TypeOK, CountsOK
  <2>8. TypeOK'
    BY <2>5, <2>6, <2>7 DEF TypeOK
  <2> QED BY <2>1, <2>2, <2>3, <2>4, <2>8, RequestQuiet DEF Busy, Sender, Reader, codes
<1>3. ASSUME UndoCooldown(w)  PROVE IInv'
  <2>1. pc[w] = "warm" /\ cooldown' = FALSE /\ Finish(w)
        /\ UNCHANGED <<record, sends, bounds, codes, met>>
    BY <1>3 DEF UndoCooldown
  <2>2. Moves(w) /\ pc'[w] = "idle" /\ job'[w] = NoJob /\ RequestsOK'
    BY <2>1, Finished, FinishedTypes DEF IInv, TypeOK
  <2>3. TypeOK'
    BY <2>1, <2>2 DEF IInv, TypeOK, KeysOK, CountsOK, bounds, codes
  <2> QED BY <2>1, <2>2, <2>3, JobParts, RequestQuiet DEF Busy, Sender, Reader, bounds, codes
<1> QED BY <1>1, <1>2, <1>3

\* The code is stored: it is the newest, and what was there has ended.
LEMMA StoreCodeKeeps ==
  ASSUME IInv, NEW w \in Worker, StoreCode(w)  PROVE IInv'
<1> DEFINE c == job[w].code
<1>1. /\ pc[w] = "store" /\ record' = Stored(c) /\ ended' = ended \union Current
      /\ sent' = IF job[w].era = era THEN sent + 1 ELSE sent
      /\ Continue(w, "cool", job[w])
      /\ UNCHANGED <<cooldown, sends, bounds, era, delivered, accepted, wrong, met>>
  BY DEF StoreCode
<1>2. Moves(w) /\ pc'[w] = "cool" /\ job'[w] = job[w]
  BY <1>1, Continued DEF IInv, TypeOK
<1>3. /\ Busy(w) /\ job[w] \in Job /\ job[w].read = None /\ c \in Code /\ c \in 1..made
      /\ Carries(w, c) /\ KeysOK /\ CountsOK
  BY <1>1, SenderParts DEF Sender
<1>4. c \in met \/ (c = made /\ c \notin delivered /\ accepted[c] = 0 /\ wrong[c] = 0)
  BY <1>1 DEF IInv, Sending, Sender
<1>5. Stored(c) \in Record /\ Stored(c).code = c /\ Stored(c).attempts = 0 /\ Stored(c) # None
  BY <1>3, RecordParts
<1>6. RequestsOK'
  BY <1>1, <1>3, ContinuedTypes DEF IInv, TypeOK, Fits, Steps, Reader
<1>0. c' = c
  BY <1>2
<1> HIDE DEF c
<1>7. Current \subseteq 1..made
  BY DEF IInv, Promises, Kept, Current
<1>8. TypeOK'
  <2>1. KeysOK'
    BY <1>1, <1>3, <1>5 DEF KeysOK
  <2>2. (ended \subseteq 1..made)'
    BY <1>1, <1>3, <1>7 DEF CountsOK, bounds
  <2>3. (sent \in Nat)'
    BY <1>1, <1>3 DEF CountsOK
  <2>4. CountsOK'
    BY <1>1, <1>3, <2>2, <2>3 DEF CountsOK, bounds
  <2> QED BY <1>6, <2>1, <2>4 DEF TypeOK
<1>9. Latest(c)' \/ c \in met
  <2>1. ASSUME c = made, NEW d \in delivered  PROVE d <= c
    BY <1>3, <2>1 DEF CountsOK
  <2> QED BY <1>0, <1>1, <1>4, <2>1 DEF Latest
<1>10. Kept'
  BY <1>0, <1>1, <1>3, <1>4, <1>5, <1>9 DEF Kept, True, bounds
<1>11. Fresh' /\ SingleUse' /\ GuessesAreFew'
  BY <1>1 DEF bounds, IInv, Promises, Fresh, SingleUse, GuessesAreFew
<1>12. DeliveredCodeWorks'
  BY <1>1 DEF IInv, Promises, DeliveredCodeWorks, Current
<1>13. Named(w)' /\ Sending(w)' /\ Reading(w)'
  BY <1>1, <1>2, <1>3, <1>4, <1>5 DEF Named, Sending, Reading, Reader, IsCurrent, bounds, c
<1>14. \A d \in Code : Carries(w, d)' => Carries(w, d)
  BY <1>1, <1>2 DEF Carries, Sender, Reader
<1> QED BY <1>1, <1>2, <1>3, <1>5, <1>8, <1>10, <1>11, <1>12, <1>13, <1>14, RequestStep
      DEF Promises, bounds

\* The code is delivered: it is there, or has ended.
LEMMA MailKeeps ==
  ASSUME IInv, NEW w \in Worker, Mail(w)  PROVE IInv'
<1> DEFINE c == job[w].code
<1>1. /\ pc[w] = "mail" /\ delivered' = delivered \union {c} /\ Finish(w)
      /\ UNCHANGED <<keys, bounds, era, sent, ended, accepted, wrong, met>>
  BY DEF Mail
<1>2. Moves(w) /\ pc'[w] = "idle" /\ job'[w] = NoJob /\ RequestsOK'
  BY <1>1, Finished, FinishedTypes DEF IInv, TypeOK
<1>3. Busy(w) /\ c \in 1..made /\ c \in Nat /\ KeysOK /\ CountsOK
  BY <1>1, SenderParts DEF Sender
<1>4. record = None \/ record.code \in met \union {c}
  BY <1>1 DEF IInv, Sending, Sender
<1>5. IsCurrent(c) \/ c \in ended \union met
  BY <1>1 DEF IInv, Sending, Sender
<1> HIDE DEF c
<1>6. TypeOK'
  BY <1>1, <1>2, <1>3 DEF TypeOK, KeysOK, CountsOK, keys, bounds
<1>7. Kept'
  BY <1>1, <1>3, <1>4 DEF IInv, Promises, Kept, True, Latest, keys, bounds
<1>8. Fresh' /\ SingleUse' /\ GuessesAreFew'
  BY <1>1 DEF bounds, IInv, Promises, Fresh, SingleUse, GuessesAreFew
<1>9. DeliveredCodeWorks'
  BY <1>1, <1>5 DEF IInv, Promises, DeliveredCodeWorks, IsCurrent, keys
<1>10. Named(w)' /\ Sending(w)' /\ Reading(w)'
  BY <1>2, JobParts DEF Named, Sending, Reading, Sender, Reader
<1>11. \A d \in Code : Carries(w, d)' => Carries(w, d)
  BY <1>2 DEF Carries, Sender, Reader
<1> QED BY <1>1, <1>2, <1>3, <1>6, <1>7, <1>8, <1>9, <1>10, <1>11, RequestStep
      DEF Promises, bounds, keys

\* Nothing was delivered: what is dropped is the request's own code.
LEMMA UndoSendKeeps ==
  ASSUME IInv, NEW w \in Worker, UndoSend(w)  PROVE IInv'
<1>1. /\ pc[w] = "undo" /\ record' = None /\ Continue(w, "warm", job[w])
      /\ UNCHANGED <<cooldown, sends, bounds, codes, met>>
  BY DEF UndoSend
<1>2. Moves(w) /\ pc'[w] = "warm" /\ job'[w] = job[w]
  BY <1>1, Continued DEF IInv, TypeOK
<1>3. /\ Busy(w) /\ job[w] \in Job /\ job[w].read = None /\ KeysOK /\ CountsOK
  BY <1>1, SenderParts DEF Sender
<1>4. RequestsOK'
  BY <1>1, <1>3, ContinuedTypes DEF IInv, TypeOK, Fits, Steps, Reader
<1>5. TypeOK'
  BY <1>1, <1>3, <1>4 DEF TypeOK, KeysOK, CountsOK, codes, bounds
<1>6. Kept' /\ Fresh' /\ SingleUse' /\ GuessesAreFew'
  BY <1>1 DEF bounds, codes, IInv, Promises, Kept, Fresh, SingleUse, GuessesAreFew
<1>7. DeliveredCodeWorks'
  <2>1. ASSUME NEW d \in delivered \ (ended \union met)  PROVE FALSE
    <3>1. record # None /\ record.code = d
      BY <2>1 DEF IInv, Promises, DeliveredCodeWorks
    <3> QED BY <1>1, <2>1, <3>1 DEF IInv, Sending, Sender
  <2> QED BY <1>1, <2>1 DEF DeliveredCodeWorks, codes
<1>8. Named(w)' /\ Sending(w)' /\ Reading(w)'
  BY <1>1, <1>2 DEF Named, Sending, Reading, Sender, Reader, IInv, bounds, codes
<1>9. \A d \in Code : Carries(w, d)' => Carries(w, d)
  BY <1>1, <1>2 DEF Carries, Sender, Reader
<1> QED BY <1>1, <1>2, <1>3, <1>5, <1>6, <1>7, <1>8, <1>9, RequestStep
      DEF Promises, bounds, codes

\* What the steps of a guess start from.
LEMMA ReaderParts ==
  ASSUME IInv, NEW w \in Worker, pc[w] \in Reader
  PROVE  /\ Busy(w) /\ pc[w] \notin Sender /\ KeysOK /\ RequestsOK /\ CountsOK
         /\ job[w].read \in Record /\ job[w].read.code \in Code /\ job[w].read.attempts \in Nat
         /\ job[w].read.code \in 1..made /\ Carries(w, job[w].read.code)
         /\ record = None \/ record.code \in met \union {job[w].read.code}
         /\ True(job[w].read)
  BY CarriedParts, RecordParts DEF IInv, TypeOK, Reading, Sender, Reader, Busy

\* A request whose next step carries nothing.
LEMMA CarriesNothing ==
  ASSUME NEW w \in Worker, pc'[w] \notin Sender \union Reader, job'[w] = NoJob
  PROVE  /\ Named(w)' /\ Sending(w)' /\ Reading(w)'
         /\ \A c \in Code : Carries(w, c)' => Carries(w, c)
  BY JobParts DEF Named, Sending, Reading, Carries

\* A guess reads what is there, and finds it as it was stored.
LEMMA CheckReadKeeps ==
  ASSUME IInv, NEW w \in Worker, CheckRead(w)  PROVE IInv'
<1>1. pc[w] = "check" /\ Busy(w) /\ UNCHANGED <<keys, bounds, codes, met>>
  BY DEF CheckRead, Busy
<1>2. KeysOK /\ RequestsOK /\ CountsOK /\ KeysOK' /\ CountsOK'
  BY <1>1 DEF IInv, TypeOK, KeysOK, CountsOK, keys, bounds, codes
<1>3. CASE record = None
  <2>1. Finish(w)
    BY <1>3 DEF CheckRead
  <2>2. Moves(w) /\ pc'[w] = "idle" /\ job'[w] = NoJob /\ RequestsOK'
    BY <1>2, <2>1, Finished, FinishedTypes
  <2> QED BY <1>1, <1>2, <2>2, JobParts, RequestQuiet
        DEF TypeOK, Sender, Reader, keys, bounds, codes
<1>4. CASE record # None
  <2> DEFINE j == [job[w] EXCEPT !.read = record]
  <2>1. PICK step \in Reader : Continue(w, step, j) /\ (step = "compare" => ~TooMany(record))
    BY <1>4 DEF CheckRead, Reader
  <2>2. record \in Record /\ record.code \in Code /\ record.attempts \in Nat /\ job[w] \in Job
    BY <1>2, <1>4, RecordParts DEF KeysOK, RequestsOK
  <2>3. j \in Job /\ j.read = record /\ j.code = job[w].code
    BY <2>2, JobParts
  <2> HIDE DEF j
  <2>4. Moves(w) /\ pc'[w] = step /\ job'[w] = j
    BY <1>2, <2>1, Continued
  <2>5. TypeOK'
    BY <1>2, <1>4, <2>1, <2>3, ContinuedTypes DEF TypeOK, Fits, Steps, Reader
  <2>6. record.code \in 1..made /\ True(record)
    BY <1>4 DEF IInv, Promises, Kept
  <2>7. step = "compare" => record.attempts < MaxAttempts
    BY <2>1, <2>2 DEF TooMany
  <2>8. Sending(w)'
    BY <2>1, <2>4 DEF Sending, Sender, Reader
  <2>9. True(record)'
    BY <1>1, <2>6 DEF True, Latest, keys, codes
  <2>10. Named(w)' /\ Reading(w)'
    BY <1>1, <1>2, <2>1, <2>3, <2>4, <2>6, <2>7, <2>9
       DEF Named, Reading, Reader, keys, bounds, codes, IInv, CountsOK
  <2>11. \A c \in Code : Carries(w, c)' => IsCurrent(c)
    BY <1>4, <2>1, <2>3, <2>4 DEF Carries, IsCurrent, Sender, Reader
  <2>12. Promises'
    BY <1>1 DEF IInv, Promises, Fresh, Kept, True, Latest, SingleUse, GuessesAreFew,
      DeliveredCodeWorks, keys, bounds, codes
  <2> QED BY <1>1, <2>4, <2>5, <2>8, <2>10, <2>11, <2>12, RequestStep DEF keys, bounds
<1> QED BY <1>3, <1>4

\* A code guessed at too often is dropped.
LEMMA CheckForgetKeeps ==
  ASSUME IInv, NEW w \in Worker, CheckForget(w)  PROVE IInv'
<1>1. /\ pc[w] = "forget" /\ record' = None /\ ended' = ended \union {job[w].read.code}
      /\ Finish(w)
      /\ UNCHANGED <<cooldown, sends, bounds, era, sent, delivered, accepted, wrong, met>>
  BY DEF CheckForget
<1>2. Moves(w) /\ pc'[w] = "idle" /\ job'[w] = NoJob /\ RequestsOK'
  BY <1>1, Finished, FinishedTypes DEF IInv, TypeOK
<1>3. /\ Busy(w) /\ KeysOK /\ CountsOK /\ job[w].read.code \in 1..made
      /\ record = None \/ record.code \in met \union {job[w].read.code}
  BY <1>1, ReaderParts DEF Reader
<1>4. TypeOK'
  BY <1>1, <1>2, <1>3 DEF TypeOK, KeysOK, CountsOK, bounds
<1>5. Promises'
  <2>1. Fresh' /\ Kept' /\ SingleUse' /\ GuessesAreFew'
    BY <1>1 DEF IInv, Promises, Fresh, Kept, SingleUse, GuessesAreFew, bounds
  <2>2. DeliveredCodeWorks'
    BY <1>1, <1>3 DEF IInv, Promises, DeliveredCodeWorks
  <2> QED BY <2>1, <2>2 DEF Promises
<1> QED BY <1>1, <1>2, <1>3, <1>4, <1>5, CarriesNothing, RequestStep
      DEF bounds, Sender, Reader

\* A wrong guess is counted in what was read, which is written back.
LEMMA CheckWrongKeeps ==
  ASSUME IInv, NEW w \in Worker, CheckWrong(w)  PROVE IInv'
<1> DEFINE r == job[w].read
           c == r.code
<1>1. /\ pc[w] = "compare" /\ record' = Guessed(r)
      /\ wrong' = [wrong EXCEPT ![c] = wrong[c] + 1]
      /\ Finish(w)
      /\ UNCHANGED <<cooldown, sends, bounds, era, sent, delivered, ended, accepted, met>>
  BY DEF CheckWrong
<1>2. Moves(w) /\ pc'[w] = "idle" /\ job'[w] = NoJob /\ RequestsOK'
  BY <1>1, Finished, FinishedTypes DEF IInv, TypeOK
<1>3. /\ Busy(w) /\ KeysOK /\ CountsOK /\ r \in Record /\ c \in Code /\ r.attempts \in Nat
      /\ c \in 1..made /\ Carries(w, c) /\ True(r)
      /\ record = None \/ record.code \in met \union {c}
  BY <1>1, ReaderParts DEF Reader
<1>4. c \in met \/ r.attempts < MaxAttempts
  BY <1>1 DEF IInv, Reading, Reader
<1>5. /\ Guessed(r) \in Record /\ Guessed(r).code = c /\ Guessed(r) # None
      /\ Guessed(r).attempts = r.attempts + 1
  BY <1>3, RecordParts
<1>6. c \in met \/ (wrong[c] = r.attempts /\ accepted[c] = 0 /\ Latest(c))
  BY <1>3 DEF True
<1>7. wrong[c] \in Nat /\ wrong'[c] = wrong[c] + 1
      /\ \A d \in Code \ {c} : wrong'[d] = wrong[d]
  BY <1>1, <1>3 DEF CountsOK
<1>8. PICK k : k = c
  OBVIOUS
<1>9. PICK a : a = r.attempts
  OBVIOUS
<1> HIDE DEF r, c
<1>10. TypeOK'
  <2>1. wrong' \in [Code -> Nat]
    BY <1>1, <1>3, <1>7 DEF CountsOK
  <2> QED BY <1>1, <1>2, <1>3, <1>5, <2>1 DEF TypeOK, KeysOK, CountsOK, bounds
<1>11. Fresh'
  <2>1. made \in Nat /\ c <= made
    BY <1>3 DEF CountsOK
  <2> QED BY <1>1, <1>3, <1>7, <2>1 DEF IInv, Promises, Fresh, bounds, Code
<1>12. Kept'
  <2>1. record'.code = k /\ record'.attempts = a + 1 /\ k \in 1..made'
    BY <1>1, <1>3, <1>5, <1>8, <1>9 DEF bounds
  <2>2. k \in met' \/ (wrong'[k] = a + 1 /\ accepted'[k] = 0 /\ Latest(k)')
    BY <1>1, <1>6, <1>7, <1>8, <1>9 DEF Latest
  <2> QED BY <2>1, <2>2 DEF Kept, True, Latest
<1>13. GuessesAreFew'
  <2> SUFFICES ASSUME NEW d \in Code \ met  PROVE wrong'[d] <= MaxAttempts
    BY <1>1 DEF GuessesAreFew
  <2>1. CASE d = c
    BY <1>3, <1>4, <1>6, <1>7, <2>1
  <2>2. CASE d # c
    BY <1>7, <2>2 DEF IInv, Promises, GuessesAreFew
  <2> QED BY <2>1, <2>2
<1>14. SingleUse'
  BY <1>1 DEF IInv, Promises, SingleUse
<1>15. DeliveredCodeWorks'
  BY <1>1, <1>3, <1>5 DEF IInv, Promises, DeliveredCodeWorks
<1> QED BY <1>1, <1>2, <1>3, <1>5, <1>10, <1>11, <1>12, <1>13, <1>14, <1>15, CarriesNothing,
           RequestStep
      DEF Promises, bounds, Sender, Reader

\* A right guess uses the code up: it is accepted for the first time, and nobody
\* else can bring it back.
LEMMA CheckRightKeeps ==
  ASSUME IInv, NEW w \in Worker, CheckRight(w)  PROVE IInv'
<1> DEFINE c == job[w].read.code
<1>1. /\ pc[w] = "compare" /\ record' = None
      /\ ended' = ended \union {c} \union Current
      /\ accepted' = [accepted EXCEPT ![c] = accepted[c] + 1]
      /\ Continue(w, "clear", NoJob)
      /\ UNCHANGED <<cooldown, sends, bounds, era, sent, delivered, wrong, met>>
  BY DEF CheckRight
<1>2. Moves(w) /\ pc'[w] = "clear" /\ job'[w] = NoJob
  BY <1>1, Continued DEF IInv, TypeOK
<1>3. /\ Busy(w) /\ KeysOK /\ CountsOK /\ c \in Code /\ c \in 1..made /\ True(job[w].read)
  BY <1>1, ReaderParts DEF Reader
<1>4. RequestsOK'
  BY <1>1, JobParts, ContinuedTypes DEF IInv, TypeOK, Fits, Steps, Reader
<1>5. c \in met \/ accepted[c] = 0
  BY <1>3 DEF True
<1>6. accepted[c] \in Nat /\ accepted'[c] = accepted[c] + 1
      /\ \A d \in Code \ {c} : accepted'[d] = accepted[d]
  BY <1>1, <1>3 DEF CountsOK
<1> HIDE DEF c
<1>7. TypeOK'
  <2>1. accepted' \in [Code -> Nat]
    BY <1>1, <1>3, <1>6 DEF CountsOK
  <2>2. Current \subseteq 1..made
    BY DEF IInv, Promises, Kept, Current
  <2> QED BY <1>1, <1>3, <1>4, <2>1, <2>2 DEF TypeOK, KeysOK, CountsOK, bounds
<1>8. Fresh'
  <2>1. made \in Nat /\ c <= made
    BY <1>3 DEF CountsOK
  <2> QED BY <1>1, <1>3, <1>6, <2>1 DEF IInv, Promises, Fresh, bounds, Code
<1>9. SingleUse'
  <2> SUFFICES ASSUME NEW d \in Code \ met  PROVE accepted'[d] <= 1
    BY <1>1 DEF SingleUse
  <2>1. CASE d = c
    BY <1>5, <1>6, <2>1
  <2>2. CASE d # c
    BY <1>6, <2>2 DEF IInv, Promises, SingleUse
  <2> QED BY <2>1, <2>2
<1>10. Kept' /\ GuessesAreFew'
  BY <1>1 DEF IInv, Promises, Kept, GuessesAreFew
<1>11. DeliveredCodeWorks'
  BY <1>1 DEF IInv, Promises, DeliveredCodeWorks, Current
<1> QED BY <1>1, <1>2, <1>3, <1>7, <1>8, <1>9, <1>10, <1>11, CarriesNothing, RequestStep
      DEF Promises, bounds, Sender, Reader

\* The counter is started anew.
LEMMA CheckClearKeeps ==
  ASSUME IInv, NEW w \in Worker, CheckClear(w)  PROVE IInv'
<1>1. /\ pc[w] = "clear" /\ Restart /\ Finish(w)
      /\ UNCHANGED <<record, cooldown, bounds, delivered, ended, accepted, wrong, met>>
  BY DEF CheckClear
<1>2. Moves(w) /\ pc'[w] = "idle" /\ job'[w] = NoJob /\ RequestsOK'
  BY <1>1, Finished, FinishedTypes DEF IInv, TypeOK
<1>3. TypeOK'
  BY <1>1, <1>2 DEF IInv, TypeOK, KeysOK, CountsOK, bounds, Restart
<1> QED BY <1>1, <1>2, <1>3, JobParts, RequestQuiet DEF Busy, Sender, Reader, bounds

\* A request ends in an error.
LEMMA FailKeeps ==
  ASSUME IInv, NEW w \in Worker, Fail(w)  PROVE IInv'
<1>1. /\ Busy(w) /\ faults' = faults + 1 /\ Finish(w)
      /\ UNCHANGED <<keys, made, guesses, codes, met>>
  BY DEF Fail, Busy
<1>2. Moves(w) /\ pc'[w] = "idle" /\ job'[w] = NoJob /\ RequestsOK'
  BY <1>1, Finished, FinishedTypes DEF IInv, TypeOK
<1>3. TypeOK'
  BY <1>1, <1>2 DEF IInv, TypeOK, KeysOK, CountsOK, keys, codes
<1> QED BY <1>1, <1>2, <1>3, JobParts, RequestQuiet DEF Sender, Reader, keys, codes

\* A key runs out, or nothing happens to the codes.
LEMMA TimeKeeps ==
  ASSUME IInv, CodeRunsOut \/ CooldownRunsOut \/ SendsRunOut \/ UNCHANGED vars  PROVE IInv'
<1>1. ASSUME CodeRunsOut  PROVE IInv'
  <2>1. /\ record' = None /\ ended' = ended \union Current
        /\ UNCHANGED <<cooldown, sends, pc, job, bounds, era, sent, delivered, accepted, wrong, met>>
    BY <1>1 DEF CodeRunsOut, handler
  <2>2. Current \subseteq 1..made
    BY DEF IInv, Promises, Kept, Current
  <2>3. KeysOK' /\ CountsOK'
    BY <2>1, <2>2 DEF IInv, TypeOK, KeysOK, CountsOK, bounds
  <2>4. RequestsOK'
    BY <2>1 DEF IInv, TypeOK, RequestsOK
  <2>5. Promises'
    BY <2>1 DEF IInv, Promises, Fresh, Kept, SingleUse, GuessesAreFew, DeliveredCodeWorks,
      Current, bounds
  <2>6. Overlaps'
    BY <2>1 DEF IInv, Overlaps, IsCurrent, Carries, Busy
  <2>7. \A w \in Worker : Named(w)' /\ Reading(w)'
    BY <2>1 DEF IInv, Named, Reading, True, Latest, bounds
  <2>8. \A w \in Worker : Sending(w)'
    BY <2>1 DEF IInv, Sending, IsCurrent, Current, bounds
  <2> QED BY <2>3, <2>4, <2>5, <2>6, <2>7, <2>8 DEF IInv, TypeOK
<1>2. ASSUME CooldownRunsOut \/ SendsRunOut \/ UNCHANGED vars  PROVE IInv'
  <2>1. UNCHANGED <<record, pc, job, bounds, delivered, ended, accepted, wrong, met>>
    BY <1>2 DEF CooldownRunsOut, SendsRunOut, vars, keys, handler, codes
  <2>2. KeysOK' /\ CountsOK'
    <3>1. KeysOK /\ CountsOK
      BY DEF IInv, TypeOK
    <3>2. CASE CooldownRunsOut
      BY <3>1, <3>2 DEF CooldownRunsOut, codes, bounds, KeysOK, CountsOK
    <3>3. CASE SendsRunOut
      BY <3>1, <3>3 DEF SendsRunOut, Restart, bounds, KeysOK, CountsOK
    <3>4. CASE UNCHANGED vars
      BY <3>1, <3>4 DEF vars, keys, codes, bounds, KeysOK, CountsOK
    <3> QED BY <1>2, <3>2, <3>3, <3>4
  <2>3. RequestsOK'
    BY <2>1 DEF IInv, TypeOK, RequestsOK
  <2>4. Promises' /\ Overlaps'
    BY <2>1 DEF IInv, Promises, Fresh, Kept, True, Latest, SingleUse, GuessesAreFew,
      DeliveredCodeWorks, bounds, Overlaps, IsCurrent, Carries, Busy
  <2>5. \A w \in Worker : Named(w)' /\ Sending(w)' /\ Reading(w)'
    BY <2>1 DEF IInv, Named, Sending, Reading, True, Latest, IsCurrent, bounds
  <2> QED BY <2>2, <2>3, <2>4, <2>5 DEF IInv, TypeOK
<1> QED BY <1>1, <1>2

\* Every step keeps the invariant.
LEMMA StepsKeep ==
  ASSUME IInv, [Next]_vars  PROVE IInv'
  BY SendStartKeeps, CheckStartKeeps, SendingKeeps, StoreCodeKeeps, MailKeeps, UndoSendKeeps,
     CheckReadKeeps, CheckForgetKeeps, CheckWrongKeeps, CheckRightKeeps, CheckClearKeeps,
     FailKeeps, TimeKeeps
  DEF Next, Proceed, SendCooling, CheckNothing

\* It holds at first.
LEMMA InitHolds == Init => IInv
<1> SUFFICES ASSUME Init  PROVE IInv
  OBVIOUS
<1>1. /\ record = None /\ cooldown = FALSE /\ sends.n = 0 /\ sends.runsOut = FALSE
      /\ \A w \in Worker : pc[w] = "idle" /\ job[w] = NoJob
  BY DEF Init
<1>2. made = 0 /\ delivered = {} /\ ended = {} /\ met = {}
      /\ \A c \in Code : accepted[c] = 0 /\ wrong[c] = 0
  BY DEF Init
<1>3. KeysOK
  BY <1>1 DEF Init, KeysOK
<1>4. RequestsOK
  BY <1>1, JobParts DEF Init, RequestsOK
<1>5. CountsOK
  BY <1>2 DEF Init, CountsOK
<1>6. Promises
  BY <1>1, <1>2 DEF Promises, Fresh, Kept, SingleUse, GuessesAreFew, DeliveredCodeWorks
<1>7. Overlaps
  BY <1>1 DEF Overlaps, Busy
<1>8. \A w \in Worker : Named(w) /\ Sending(w) /\ Reading(w)
  BY <1>1, JobParts DEF Named, Sending, Reading, Sender, Reader
<1> QED BY <1>3, <1>4, <1>5, <1>6, <1>7, <1>8 DEF IInv, TypeOK

\* The invariant of the proofs.
THEOREM InvariantHolds == Spec => []IInv
<1> QED BY InitHolds, StepsKeep, PTL DEF Spec

\* What a code promises, for any number of requests, codes and guesses: it is
\* accepted once, guessed at no more often than the limit, kept for whoever holds
\* it, and gives way to a newer one, unless requests ran at the same time.
THEOREM CodesHold == Spec => []CodeHolds
<1>1. IInv => CodeHolds
  BY DEF IInv, Promises, Kept, True, Latest, CodeHolds, NewestCodeCounts
<1> QED BY <1>1, InvariantHolds, PTL

-----------------------------------------------------------------------------
(* The cap on the sends *)

\* The requests that the running counter let through and that have yet to store
\* their code.
Storing == {w \in Worker : pc[w] \in {"expire", "store"} /\ job[w].era = era}

\* Each of them, like each code stored, was counted by that counter, and at most
\* as many are let through as the cap allows.
CapInv ==
  /\ IsFiniteSet(Storing) /\ \A w \in Worker : job[w].era <= era
  /\ sent + Cardinality(Storing) <= sends.n
  /\ sent + Cardinality(Storing) <= MaxSends

\* The numbers in it.
LEMMA CapNumbers ==
  ASSUME IInv, CapInv
  PROVE  /\ sent \in Nat /\ era \in Nat /\ sends.n \in Nat /\ Cardinality(Storing) \in Nat
         /\ \A w \in Worker : job[w] \in Job /\ job[w].era \in Nat
         /\ KeysOK /\ RequestsOK /\ CountsOK
  BY FS_CardinalityType DEF CapInv, IInv, TypeOK, KeysOK, RequestsOK, CountsOK, Job

\* No request is let through, and none stores.
LEMMA CapSettles ==
  ASSUME IInv, CapInv, Storing' \subseteq Storing, sent' = sent, sends'.n \in Nat,
         sends.n <= sends'.n, \A w \in Worker : job'[w].era <= era'
  PROVE  CapInv'
<1>1. /\ IsFiniteSet(Storing') /\ Cardinality(Storing') <= Cardinality(Storing)
      /\ Cardinality(Storing') \in Nat
  BY FS_Subset, FS_CardinalityType DEF CapInv
<1> QED BY <1>1, CapNumbers DEF CapInv

\* A request moves to a step where it will not store.
LEMMA CapQuiet ==
  ASSUME IInv, CapInv, NEW w \in Worker, Moves(w), UNCHANGED <<sends, era, sent>>,
         pc'[w] \notin {"expire", "store"}, job'[w].era \in {0, job[w].era}
  PROVE  CapInv'
<1>1. Storing' \subseteq Storing
  BY DEF Storing, Moves
<1>2. \A v \in Worker : job'[v].era <= era'
  BY CapNumbers DEF CapInv, Moves
<1> QED BY <1>1, <1>2, CapNumbers, CapSettles

\* The counter ends, and nobody was let through by the next.
LEMMA CapRestarts ==
  ASSUME IInv, CapInv, Restart,
         \A w \in Worker : job'[w].era \in {0, job[w].era}
  PROVE  CapInv'
<1>1. sends'.n = 0 /\ era' = era + 1 /\ sent' = 0
  BY DEF Restart
<1>2. \A w \in Worker : job'[w].era < era'
  BY <1>1, CapNumbers DEF CapInv
<1>3. \A w \in Worker : job'[w].era <= era' /\ job'[w].era # era'
  BY <1>1, <1>2, CapNumbers
<1>4. Storing' = {}
  BY <1>3 DEF Storing
<1>5. IsFiniteSet(Storing') /\ Cardinality(Storing') = 0
  BY <1>4, FS_EmptySet
<1> QED BY <1>1, <1>3, <1>5 DEF CapInv

\* Counting: the request is let through only if the counter, with it, is within
\* the cap.
LEMMA CapCounts ==
  ASSUME IInv, CapInv, NEW w \in Worker, CountSend(w)  PROVE CapInv'
<1> DEFINE n == sends.n + 1
<1>1. pc[w] = "count" /\ sends' = [sends EXCEPT !.n = n] /\ UNCHANGED <<era, sent>>
  BY DEF CountSend, codes
<1>2. sends'.n = n /\ n \in Nat /\ sends.n <= n
  BY <1>1, CapNumbers DEF KeysOK
<1>3. [job[w] EXCEPT !.era = era].era = era
  BY CapNumbers, JobParts
<1>4. CASE ~FirstOfHour(n) /\ n > MaxSends
  <2>1. Continue(w, "idle", NoJob)
    BY <1>4 DEF CountSend
  <2>2. Moves(w) /\ pc'[w] = "idle" /\ job'[w] = NoJob
    BY <2>1, Continued, CapNumbers
  <2>3. Storing' \subseteq Storing
    BY <1>1, <2>2 DEF Storing, Moves
  <2>4. \A v \in Worker : job'[v].era <= era'
    BY <1>1, <2>2, JobParts, CapNumbers DEF CapInv, Moves
  <2> QED BY <1>1, <1>2, <2>3, <2>4, CapSettles
<1>5. CASE ~(~FirstOfHour(n) /\ n > MaxSends)
  <2>1. PICK step \in {"expire", "store"} : Continue(w, step, [job[w] EXCEPT !.era = era])
    BY <1>5 DEF CountSend
  <2>2. Moves(w) /\ job'[w].era = era
    <3>1. RequestsOK
      BY CapNumbers
    <3>2. Moves(w) /\ job'[w] = [job[w] EXCEPT !.era = era]
      BY <2>1, <3>1, Continued
    <3> QED BY <1>3, <3>2
  <2>3. n <= MaxSends
    BY <1>2, <1>5 DEF FirstOfHour
  <2>4. Storing' \subseteq Storing \union {w}
    BY <1>1, <2>2 DEF Storing, Moves
  <2>5. IsFiniteSet(Storing \union {w})
        /\ Cardinality(Storing \union {w}) <= Cardinality(Storing) + 1
    <3>1. /\ IsFiniteSet(Storing \union {w})
          /\ Cardinality(Storing \union {w}) = IF w \in Storing THEN Cardinality(Storing)
                                                ELSE Cardinality(Storing) + 1
      BY FS_AddElement DEF CapInv
    <3>2. Cardinality(Storing) \in Nat
      BY CapNumbers
    <3> QED BY <3>1, <3>2
  <2>6. /\ IsFiniteSet(Storing') /\ Cardinality(Storing') \in Nat
        /\ Cardinality(Storing') <= Cardinality(Storing) + 1
    BY <2>4, <2>5, FS_Subset, FS_CardinalityType, CapNumbers
  <2>7. \A v \in Worker : job'[v].era <= era'
    BY <1>1, <2>2, CapNumbers DEF CapInv, Moves
  <2>8. sent' + Cardinality(Storing') <= sends'.n /\ sent' + Cardinality(Storing') <= MaxSends
    BY <1>1, <1>2, <2>3, <2>6, CapNumbers DEF CapInv
  <2> QED BY <2>6, <2>7, <2>8 DEF CapInv
<1> QED BY <1>4, <1>5

\* Storing: one code more is stored, and one request fewer is to store one.
LEMMA CapStores ==
  ASSUME IInv, CapInv, NEW w \in Worker, StoreCode(w)  PROVE CapInv'
<1>1. /\ pc[w] = "store" /\ sent' = IF job[w].era = era THEN sent + 1 ELSE sent
      /\ Continue(w, "cool", job[w]) /\ UNCHANGED <<sends, era>>
  BY DEF StoreCode
<1>2. Moves(w) /\ pc'[w] = "cool" /\ job'[w] = job[w]
  BY <1>1, Continued, CapNumbers
<1>3. CASE job[w].era = era
  <2>1. w \in Storing /\ Storing' = Storing \ {w}
    BY <1>1, <1>2, <1>3 DEF Storing, Moves
  <2>2. IsFiniteSet(Storing') /\ Cardinality(Storing') = Cardinality(Storing) - 1
    BY <2>1, FS_RemoveElement DEF CapInv
  <2>3. sent' + Cardinality(Storing') = sent + Cardinality(Storing)
    BY <1>1, <1>3, <2>2, CapNumbers
  <2>4. \A v \in Worker : job'[v].era <= era'
    BY <1>1, <1>2 DEF CapInv, Moves
  <2> QED BY <1>1, <2>2, <2>3, <2>4 DEF CapInv
<1>4. CASE job[w].era # era
  BY <1>1, <1>2, <1>4, CapQuiet
<1> QED BY <1>3, <1>4

\* Every step keeps the count.
LEMMA CapKept ==
  ASSUME IInv, CapInv, [Next]_vars  PROVE CapInv'
<1> DEFINE Other(w) == /\ Moves(w) /\ UNCHANGED <<sends, era, sent>>
                       /\ pc'[w] \notin {"expire", "store"} /\ job'[w].era \in {0, job[w].era}
<1>1. ASSUME NEW w \in Worker, SendStart(w)  PROVE Other(w)
  <2>1. made + 1 \in Code
    BY <1>1, CapNumbers DEF SendStart, CountsOK, Code
  <2>2. [NoJob EXCEPT !.code = made + 1].era = 0
    BY <2>1, JobParts
  <2>3. RequestsOK /\ Begin(w, "count", [NoJob EXCEPT !.code = made + 1])
    BY <1>1, CapNumbers DEF SendStart
  <2>4. Moves(w) /\ pc'[w] = "count" /\ job'[w] = [NoJob EXCEPT !.code = made + 1]
    BY <2>3, Begun
  <2> QED BY <1>1, <2>2, <2>4 DEF SendStart, keys, codes
<1>2. ASSUME NEW w \in Worker, NEW c \in delivered \union {None}, CheckStart(w, c)
      PROVE  Other(w)
  <2>1. c \in Code \union {None}
    BY CapNumbers DEF CountsOK, Code
  <2>2. [NoJob EXCEPT !.code = c].era = 0
    BY <2>1, JobParts
  <2>3. RequestsOK /\ Begin(w, "check", [NoJob EXCEPT !.code = c])
    BY <1>2, CapNumbers DEF CheckStart
  <2>4. Moves(w) /\ pc'[w] = "check" /\ job'[w] = [NoJob EXCEPT !.code = c]
    BY <2>3, Begun
  <2> QED BY <1>2, <2>2, <2>4 DEF CheckStart, keys, codes
<1>3. ASSUME NEW w \in Worker,
             SetCooldown(w) \/ MailFails(w) \/ UndoSend(w)
      PROVE  Other(w)
  <2>1. PICK step \in {"mail", "undo", "warm"} : Continue(w, step, job[w])
    BY <1>3 DEF SetCooldown, MailFails, UndoSend
  <2>2. UNCHANGED <<sends, era, sent>>
    BY <1>3 DEF SetCooldown, MailFails, UndoSend, keys, codes
  <2> QED BY <2>1, <2>2, Continued, CapNumbers
<1>4. ASSUME NEW w \in Worker,
             Mail(w) \/ UndoCooldown(w) \/ CheckForget(w) \/ CheckWrong(w) \/ Fail(w)
      PROVE  Other(w)
  <2>1. Finish(w) /\ UNCHANGED <<sends, era, sent>>
    BY <1>4 DEF Mail, UndoCooldown, CheckForget, CheckWrong, Fail, keys, codes
  <2> QED BY <2>1, Finished, JobParts, CapNumbers
<1>5. ASSUME NEW w \in Worker, CheckRight(w)  PROVE Other(w)
  BY <1>5, Continued, JobParts, CapNumbers DEF CheckRight, codes
<1>6. ASSUME NEW w \in Worker, CheckRead(w)  PROVE Other(w)
  <2>1. UNCHANGED <<sends, era, sent>>
    BY <1>6 DEF CheckRead, keys, codes
  <2>2. CASE record = None
    BY <1>6, <2>1, <2>2, Finished, JobParts, CapNumbers DEF CheckRead
  <2>3. CASE record # None
    <3>1. PICK step \in Reader : Continue(w, step, [job[w] EXCEPT !.read = record])
      BY <1>6, <2>3 DEF CheckRead, Reader
    <3>2. [job[w] EXCEPT !.read = record].era = job[w].era
      BY <2>3, JobParts, CapNumbers DEF KeysOK
    <3>3. RequestsOK
      BY CapNumbers
    <3>4. Moves(w) /\ pc'[w] = step /\ job'[w] = [job[w] EXCEPT !.read = record]
      BY <3>1, <3>3, Continued
    <3> QED BY <2>1, <3>2, <3>4 DEF Reader
  <2> QED BY <2>2, <2>3
<1>7. ASSUME NEW w \in Worker, Other(w)  PROVE CapInv'
  BY <1>7, CapQuiet
<1> HIDE DEF Other
<1>8. ASSUME NEW w \in Worker, CountExpires(w)  PROVE CapInv'
  <2>1. /\ pc[w] = "expire" /\ sends' = [sends EXCEPT !.runsOut = sends.n > 0]
        /\ Continue(w, "store", job[w]) /\ UNCHANGED <<era, sent>>
    BY <1>8 DEF CountExpires, codes
  <2>2. Moves(w) /\ pc'[w] = "store" /\ job'[w] = job[w]
    BY <2>1, Continued, CapNumbers
  <2>3. Storing' \subseteq Storing /\ \A v \in Worker : job'[v].era <= era'
    BY <2>1, <2>2 DEF Storing, Moves, CapInv
  <2>4. sends'.n = sends.n
    BY <2>1, CapNumbers DEF KeysOK
  <2> QED BY <2>1, <2>3, <2>4, CapNumbers, CapSettles
<1>9. ASSUME NEW w \in Worker, CheckClear(w)  PROVE CapInv'
  <2>1. Restart /\ Moves(w) /\ job'[w].era = 0
    BY <1>9, Finished, JobParts, CapNumbers DEF CheckClear
  <2> QED BY <2>1, CapRestarts DEF Moves
<1>10. ASSUME SendsRunOut  PROVE CapInv'
  BY <1>10, CapRestarts DEF SendsRunOut, handler
<1>11. ASSUME CodeRunsOut \/ CooldownRunsOut \/ UNCHANGED vars  PROVE CapInv'
  <2>1. UNCHANGED <<pc, job, sends, era, sent>>
    BY <1>11 DEF CodeRunsOut, CooldownRunsOut, vars, keys, handler, codes
  <2> QED BY <2>1 DEF CapInv, Storing
<1> QED BY <1>1, <1>2, <1>3, <1>4, <1>5, <1>6, <1>7, <1>8, <1>9, <1>10, <1>11,
           CapCounts, CapStores
     DEF Next, Proceed, SendCooling, CheckNothing

\* However many requests overlap, and whatever is cut short, one counter lets no
\* more codes be stored than the cap.
THEOREM SendsStayWithinCap == Spec => []SendsWithinCap
<1>1. Init => CapInv
  <2> SUFFICES ASSUME Init  PROVE CapInv
    OBVIOUS
  <2>1. sent = 0 /\ era = 0 /\ sends.n = 0 /\ \A w \in Worker : pc[w] = "idle" /\ job[w] = NoJob
    BY DEF Init
  <2>2. Storing = {}
    BY <2>1 DEF Storing
  <2>3. IsFiniteSet(Storing) /\ Cardinality(Storing) = 0
    BY <2>2, FS_EmptySet
  <2>4. \A w \in Worker : job[w].era <= era
    BY <2>1, JobParts
  <2> QED BY <2>1, <2>3, <2>4 DEF CapInv
<1>2. IInv /\ CapInv => SendsWithinCap
  <2> SUFFICES ASSUME IInv, CapInv  PROVE sent <= MaxSends
    BY DEF SendsWithinCap
  <2> QED BY CapNumbers DEF CapInv
<1> QED BY <1>1, <1>2, CapKept, InvariantHolds, PTL DEF Spec
=============================================================================
