------------------------------ MODULE Uploads ------------------------------
(***************************************************************************)
(* The videos of one lesson: upload sessions, the bytes in storage, the     *)
(* video items with their assets, and the background task that measures a   *)
(* video after its upload or on a retry.                                    *)
(*                                                                         *)
(* The service checks hardly any status, and nobody supervises the task.    *)
(* A session and its storage key share a number; so do an item and its      *)
(* asset, which are made and deleted together.  A file stands for its       *)
(* length; None is a length nobody knows.                                   *)
(***************************************************************************)
EXTENDS Integers, FiniteSets, Sequences

CONSTANTS
  Worker, Task, File, None,
  MaxRequest,      \* bound on the requests
  MaxUpload,       \* bound on the sessions
  MaxClip,         \* bound on the video items
  MaxFault         \* bound on stopped requests and tasks

ASSUME UploadsAssumption ==
  /\ None \notin File \union Nat
  /\ MaxRequest \in Nat /\ MaxUpload \in Nat \ {0} /\ MaxClip \in Nat \ {0} /\ MaxFault \in Nat

Upload == 1..MaxUpload
Clip   == 1..MaxClip

VARIABLES
  upload,      \* the session rows, None once deleted
  opened,      \* sessions opened so far
  file,        \* the file each session was opened for
  stored,      \* the sessions whose bytes are in storage
  clip,        \* the video items with their assets, None if there is none
  added,       \* video items made so far
  pc, job, task,
  requests, faults,
  crossed,     \* history: videos whose tasks overlapped or were cut short
  completed,   \* history: how often each session was completed
  wiped        \* history: sessions aborted, or whose removal was cut short, or whose file
               \* a stream that broke had begun to write again while a video played it

sessions == <<upload, opened, file>>
clips    == <<clip, added>>
handler  == <<pc, job>>
bounds   == <<requests, faults>>
history  == <<crossed, completed, wiped>>
uploads  == <<sessions, stored, clips, handler, task, bounds, history>>

Length  == File \union {None}
Session == [file : File, status : {"PENDING", "UPLOADING", "COMPLETED", "FAILED", "ABORTED"},
            expired : BOOLEAN]
\* An item (its status and seconds) and its asset (key, length and state);
\* known is history: its last run has measured the file it plays.
Video   == [status : {"PUBLISHED", "DRAFT"}, seconds : Length,
            key : Upload, length : Length,
            state : {"PENDING", "PROCESSING", "READY", "FAILED"}, known : BOOLEAN]
\* What stands for no row is none.
ASSUME NoneIsNoRow == None \notin Session \union Video
\* What a request is about; 0 where it is about none.
Job     == [upload : 0..MaxUpload, clip : 0..MaxClip, file : Length]
NoJob   == [upload |-> 0, clip |-> 0, file |-> None]
\* A run of the task: the video, what it read of it, what it measured.
Run     == [at : {"idle", "read", "claim", "probe", "write", "item", "fail"},
            clip : 0..MaxClip, key : 0..MaxUpload, length : Length, probed : Length]
NoRun   == [at |-> "idle", clip |-> 0, key |-> 0, length |-> None, probed |-> None]

UploadSteps == {"free", "open", "mark", "stream", "fail", "attach", "schedule",
                "wipe", "abort", "delete", "requeue"}

SessionsOK ==
  /\ upload \in [Upload -> Session \union {None}] /\ opened \in 0..MaxUpload
  /\ file \in [Upload -> Length] /\ stored \subseteq 1..opened
  /\ completed \in [Upload -> Nat] /\ wiped \subseteq Upload

VideosOK ==
  /\ clip \in [Clip -> Video \union {None}] /\ added \in 0..MaxClip
  /\ crossed \subseteq Clip

RunsOK ==
  /\ job \in [Worker -> Job] /\ task \in [Task -> Run]
  /\ \A t \in Task : task[t].at = "idle" <=> task[t] = NoRun
  /\ requests \in 0..MaxRequest /\ faults \in 0..MaxFault

UploadsOK == SessionsOK /\ VideosOK /\ RunsOK

Open == {s \in Upload : upload[s] # None}
Here == {c \in Clip : clip[c] # None}

\* A lesson without a video; with one that was uploaded and measured before;
\* and with one, while another file has arrived.
Earlier == {<<>>} \union {<<f>> : f \in File}
             \union {<<p[1], p[2]>> : p \in {q \in File \X File : q[1] # q[2] /\ MaxUpload > 1}}

UploadsInit ==
  /\ \E fs \in Earlier :
       /\ opened = Len(fs) /\ stored = 1..Len(fs)
       /\ file = [s \in Upload |-> IF s <= Len(fs) THEN fs[s] ELSE None]
       /\ upload = [s \in Upload |->
            IF s > Len(fs) THEN None
            ELSE [file |-> fs[s], status |-> IF s = 1 THEN "COMPLETED" ELSE "UPLOADING",
                  expired |-> FALSE]]
       /\ added = IF fs = <<>> THEN 0 ELSE 1
       /\ clip = [c \in Clip |->
            IF c > added THEN None
            ELSE [status |-> "PUBLISHED", seconds |-> fs[1], key |-> 1, length |-> fs[1],
                  state |-> "READY", known |-> TRUE]]
  /\ pc = [w \in Worker |-> "idle"] /\ job = [w \in Worker |-> NoJob]
  /\ task = [t \in Task |-> NoRun]
  /\ requests = 0 /\ faults = 0
  /\ crossed = {} /\ wiped = {}
  /\ completed = [s \in Upload |-> Cardinality({c \in Here : clip[c].key = s})]

-----------------------------------------------------------------------------
Ask == requests < MaxRequest /\ requests' = requests + 1 /\ UNCHANGED faults

Begin(w, step, j) ==
  /\ pc[w] = "idle" /\ Ask
  /\ pc' = [pc EXCEPT ![w] = step]
  /\ job' = [job EXCEPT ![w] = j]

Continue(w, step) == pc' = [pc EXCEPT ![w] = step] /\ UNCHANGED job

Finish(w) ==
  /\ pc' = [pc EXCEPT ![w] = "idle"]
  /\ job' = [job EXCEPT ![w] = NoJob]

\* On to a step, or out: a row to update that is gone is an error.
ContinueIf(ok, w, step) == IF ok /\ step # "idle" THEN Continue(w, step) ELSE Finish(w)

\* The runs of the task on a video that are under way, or about to be started.
RunsOn(c) == {t \in Task : task[t].clip = c}
Started(c) == RunsOn(c) # {} \/ \E w \in Worker : pc[w] = "schedule" /\ job[w].clip = c
\* A video is set pending for a new run.
Requeued(c) == crossed' = IF Started(c) THEN crossed \union {c} ELSE crossed \ {c}

-----------------------------------------------------------------------------
(* presign *)

SessionOf(f) == {s \in Open : upload[s].file = f}

Resumable(s) == upload[s].status # "COMPLETED" /\ ~upload[s].expired

\* "Same file: hand back the session already in flight".
PresignResumed(f) ==
  /\ \E s \in SessionOf(f) : Resumable(s)
  /\ Ask /\ UNCHANGED <<sessions, stored, clips, handler, task, history>>

Opening == {w \in Worker : pc[w] \in {"free", "open"}}

PresignStart(w, f) ==
  /\ SessionOf(f) = {} /\ opened + Cardinality(Opening) < MaxUpload
  /\ Begin(w, "open", [NoJob EXCEPT !.file = f])
  /\ UNCHANGED <<sessions, stored, clips, task, history>>

\* The session is finished, or its time has passed: it makes room for another.
PresignAgain(w, s) ==
  /\ s \in Open /\ opened + Cardinality(Opening) < MaxUpload
  /\ upload' = IF upload[s].status = "COMPLETED" THEN upload
               ELSE [upload EXCEPT ![s].expired = TRUE]
  /\ Begin(w, "free", [NoJob EXCEPT !.upload = s, !.file = upload[s].file])
  /\ UNCHANGED <<opened, file, stored, clips, task, history>>

PresignFree(w) ==
  LET s == job[w].upload IN
  /\ pc[w] = "free"
  /\ upload' = [upload EXCEPT ![s] = None]
  /\ ContinueIf(upload[s] # None, w, "open")
  /\ UNCHANGED <<opened, file, stored, clips, task, bounds, history>>

\* One row for a teacher and a fingerprint: a second is an error.
PresignOpen(w) ==
  LET f == job[w].file  s == opened + 1 IN
  /\ pc[w] = "open"
  /\ IF SessionOf(f) # {} THEN UNCHANGED sessions
       ELSE /\ opened' = s
            /\ upload' = [upload EXCEPT ![s] =
                            [file |-> f, status |-> "PENDING", expired |-> FALSE]]
            /\ file' = [file EXCEPT ![s] = f]
  /\ Finish(w)
  /\ UNCHANGED <<stored, clips, task, bounds, history>>

-----------------------------------------------------------------------------
(* receiveDirect *)

ReceiveStart(w, s) ==
  /\ s \in Open /\ ~upload[s].expired /\ upload[s].status # "COMPLETED"
  /\ Begin(w, "mark", [NoJob EXCEPT !.upload = s])
  /\ UNCHANGED <<sessions, stored, clips, task, history>>

Marked(s, status) ==
  upload' = IF upload[s] = None THEN upload ELSE [upload EXCEPT ![s].status = status]

ReceiveMark(w) ==
  LET s == job[w].upload IN
  /\ pc[w] = "mark"
  /\ Marked(s, "UPLOADING") /\ ContinueIf(upload[s] # None, w, "stream")
  /\ UNCHANGED <<opened, file, stored, clips, task, bounds, history>>

ReceiveStream(w) ==
  /\ pc[w] = "stream"
  /\ stored' = stored \union {job[w].upload} /\ Finish(w)
  /\ UNCHANGED <<sessions, clips, task, bounds, history>>

\* A stream that ends early may leave nothing of a file that was there before.
Breaks(s) ==
  /\ stored' \in {stored, stored \ {s}}
  /\ wiped' = IF \E c \in Here : clip[c].key = s THEN wiped \union {s} ELSE wiped

ReceiveBreak(w) ==
  /\ pc[w] = "stream"
  /\ Breaks(job[w].upload) /\ Continue(w, "fail")
  /\ UNCHANGED <<sessions, clips, task, bounds, crossed, completed>>

\* The stream broke: the session has failed, even if it was completed meanwhile.
ReceiveFail(w) ==
  /\ pc[w] = "fail"
  /\ Marked(job[w].upload, "FAILED") /\ Finish(w)
  /\ UNCHANGED <<opened, file, stored, clips, task, bounds, history>>

-----------------------------------------------------------------------------
(* complete *)

Making == {w \in Worker : pc[w] = "attach" /\ job[w].clip = 0}

\* c is the item to replace, 0 to make one; the browser may have measured the file.
CompleteStart(w, s, c, hint) ==
  /\ s \in Open /\ hint \in {None, upload[s].file}
  /\ c \in Here \/ (c = 0 /\ added + Cardinality(Making) < MaxClip)
  /\ Begin(w, "attach", [upload |-> s, clip |-> c, file |-> hint])
  /\ UNCHANGED <<sessions, stored, clips, task, history>>

Hinted(hint, old) == IF hint = None THEN old ELSE hint

Replaced(v, s, hint) ==
  [v EXCEPT !.seconds = Hinted(hint, @), !.key = s, !.length = Hinted(hint, @),
            !.state = "PENDING", !.known = FALSE]

\* One transaction: the item, its asset, the session.
CompleteAttach(w) ==
  LET s == job[w].upload  hint == job[w].file
      c == IF job[w].clip = 0 THEN added + 1 ELSE job[w].clip IN
  /\ pc[w] = "attach"
  /\ IF upload[s] = None \/ (job[w].clip # 0 /\ clip[c] = None)
       THEN Finish(w) /\ UNCHANGED <<upload, clips, crossed, completed>>
       ELSE /\ IF job[w].clip = 0
                 THEN /\ clip' = [clip EXCEPT ![c] = [status |-> "PUBLISHED", seconds |-> hint,
                                    key |-> s, length |-> hint, state |-> "PENDING",
                                    known |-> FALSE]]
                      /\ added' = c /\ UNCHANGED crossed
                 ELSE /\ clip' = [clip EXCEPT ![c] = Replaced(@, s, hint)]
                      /\ Requeued(c) /\ UNCHANGED added
            /\ Marked(s, "COMPLETED")
            /\ completed' = [completed EXCEPT ![s] = @ + 1]
            /\ pc' = [pc EXCEPT ![w] = "schedule"] /\ job' = [job EXCEPT ![w].clip = c]
  /\ UNCHANGED <<opened, file, stored, task, bounds, wiped>>

\* schedule: the task is started beside the request, which ends.
Schedule(w) ==
  /\ pc[w] = "schedule"
  /\ \E t \in Task :
       /\ task[t] = NoRun
       /\ task' = [task EXCEPT ![t] = [NoRun EXCEPT !.at = "read", !.clip = job[w].clip]]
  /\ Finish(w)
  /\ UNCHANGED <<sessions, stored, clips, bounds, history>>

-----------------------------------------------------------------------------
(* abort, remove, retryProcessing *)

AbortStart(w, s) ==
  /\ s \in Open
  /\ Begin(w, "wipe", [NoJob EXCEPT !.upload = s])
  /\ UNCHANGED <<sessions, stored, clips, task, history>>

RemoveStart(w, c) ==
  /\ c \in Here
  /\ Begin(w, "wipe", [NoJob EXCEPT !.upload = clip[c].key, !.clip = c])
  /\ UNCHANGED <<sessions, stored, clips, task, history>>

\* The file goes first; that it could not be removed is not an error.
Wipe(w) ==
  LET s == job[w].upload IN
  /\ pc[w] = "wipe"
  /\ stored' \in {stored, stored \ {s}}
  /\ wiped' = IF job[w].clip = 0 THEN wiped \union {s} ELSE wiped
  /\ Continue(w, IF job[w].clip = 0 THEN "abort" ELSE "delete")
  /\ UNCHANGED <<sessions, clips, task, bounds, crossed, completed>>

AbortMark(w) ==
  /\ pc[w] = "abort"
  /\ Marked(job[w].upload, "ABORTED") /\ Finish(w)
  /\ UNCHANGED <<opened, file, stored, clips, task, bounds, history>>

RemoveDelete(w) ==
  /\ pc[w] = "delete"
  /\ clip' = [clip EXCEPT ![job[w].clip] = None]
  /\ Finish(w)
  /\ UNCHANGED <<sessions, stored, added, task, bounds, history>>

RetryStart(w, c) ==
  /\ c \in Here
  /\ Begin(w, "requeue", [NoJob EXCEPT !.clip = c])
  /\ UNCHANGED <<sessions, stored, clips, task, history>>

RetryRequeue(w) ==
  LET c == job[w].clip IN
  /\ pc[w] = "requeue"
  /\ IF c \in Here
       THEN /\ clip' = [clip EXCEPT ![c].state = "PENDING", ![c].known = FALSE]
            /\ Requeued(c)
       ELSE UNCHANGED <<clip, crossed>>
  /\ ContinueIf(c \in Here, w, "schedule")
  /\ UNCHANGED <<sessions, stored, added, task, bounds, completed, wiped>>

-----------------------------------------------------------------------------
(* VideoProcessingService.process *)

Goes(t, run) == task' = [task EXCEPT ![t] = run]
\* A row that is gone: the update fails, and so does the one that says so.
Onward(t, c, run) == Goes(t, IF c \in Here THEN run ELSE NoRun)

TaskRead(t) ==
  LET c == task[t].clip IN
  /\ task[t].at = "read"
  /\ Onward(t, c, [task[t] EXCEPT !.at = "claim", !.key = clip[c].key,
                                  !.length = clip[c].length])
  /\ UNCHANGED <<sessions, stored, clips, handler, bounds, history>>

SetState(c, state) == clip' = IF c \in Here THEN [clip EXCEPT ![c].state = state] ELSE clip

TaskClaim(t) ==
  LET c == task[t].clip IN
  /\ task[t].at = "claim"
  /\ SetState(c, "PROCESSING") /\ Onward(t, c, [task[t] EXCEPT !.at = "probe"])
  /\ UNCHANGED <<sessions, stored, added, handler, bounds, history>>

\* A file on the server's disk is measured by a tool, where that is installed
\* and finds a length; otherwise the run goes on with none.  A file that is not
\* there, or that one of the tools cannot read, is an error.
TaskProbe(t) ==
  LET s == task[t].key IN
  /\ task[t].at = "probe"
  /\ \/ Goes(t, [task[t] EXCEPT !.at = "write"])
     \/ s \in stored /\ Goes(t, [task[t] EXCEPT !.at = "write", !.probed = file[s]])
     \/ Goes(t, [task[t] EXCEPT !.at = "fail"])
  /\ UNCHANGED <<sessions, stored, clips, handler, bounds, history>>

TaskReady(t) ==
  LET c == task[t].clip IN
  /\ task[t].at = "write"
  /\ clip' = IF c \in Here
               THEN [clip EXCEPT ![c].state = "READY", ![c].length = Hinted(task[t].probed, @),
                                 ![c].known = (task[t].probed # None)]
               ELSE clip
  /\ Onward(t, c, [task[t] EXCEPT !.at = "item"])
  /\ UNCHANGED <<sessions, stored, added, handler, bounds, history>>

\* Mutant: the length read before the file was measured comes first.
TaskItemAsRead(t) ==
  LET c == task[t].clip  seconds == Hinted(task[t].length, task[t].probed) IN
  /\ task[t].at = "item"
  /\ clip' = IF c \in Here THEN [clip EXCEPT ![c].seconds = Hinted(seconds, @)]
               ELSE clip
  /\ Goes(t, NoRun)
  /\ UNCHANGED <<sessions, stored, added, handler, bounds, history>>

\* "Keep the item's own duration in step".
TaskItem(t) ==
  LET c == task[t].clip  seconds == Hinted(task[t].probed, task[t].length) IN
  /\ task[t].at = "item"
  /\ clip' = IF c \in Here THEN [clip EXCEPT ![c].seconds = Hinted(seconds, @)]
               ELSE clip
  /\ Goes(t, NoRun)
  /\ UNCHANGED <<sessions, stored, added, handler, bounds, history>>

\* Mutant: the error is logged, and the video is left as it is.
TaskFailUnsaid(t) ==
  /\ task[t].at = "fail" /\ Goes(t, NoRun)
  /\ UNCHANGED <<sessions, stored, clips, handler, bounds, history>>

TaskFail(t) ==
  /\ task[t].at = "fail"
  /\ SetState(task[t].clip, "FAILED") /\ Goes(t, NoRun)
  /\ UNCHANGED <<sessions, stored, added, handler, bounds, history>>

-----------------------------------------------------------------------------
\* A request ends in an error, or with its process.
Stop(w) ==
  /\ pc[w] \in UploadSteps /\ faults < MaxFault /\ faults' = faults + 1
  /\ IF pc[w] = "stream" THEN Breaks(job[w].upload)
       ELSE /\ wiped' = IF pc[w] = "delete" THEN wiped \union {job[w].upload} ELSE wiped
            /\ UNCHANGED stored
  /\ Finish(w)
  /\ UNCHANGED <<sessions, clips, task, requests, crossed, completed>>

\* The process that runs the task stops.
StopTask(t) ==
  /\ task[t] # NoRun /\ faults < MaxFault /\ faults' = faults + 1
  /\ crossed' = crossed \union {task[t].clip}
  /\ Goes(t, NoRun)
  /\ UNCHANGED <<sessions, stored, clips, handler, requests, completed, wiped>>

ProceedUpload(w) ==
  \/ PresignFree(w) \/ PresignOpen(w) \/ ReceiveMark(w) \/ ReceiveStream(w) \/ ReceiveBreak(w)
  \/ ReceiveFail(w) \/ CompleteAttach(w) \/ Schedule(w) \/ Wipe(w) \/ AbortMark(w) \/ RemoveDelete(w)
  \/ RetryRequeue(w)

ProceedTask(t) ==
  \/ TaskRead(t) \/ TaskClaim(t) \/ TaskProbe(t) \/ TaskReady(t) \/ TaskItem(t) \/ TaskFail(t)

UploadsNext ==
  \/ \E w \in Worker :
       \/ ProceedUpload(w) \/ Stop(w)
       \/ \E f \in File : PresignStart(w, f)
       \/ \E s \in Upload : \/ PresignAgain(w, s) \/ ReceiveStart(w, s) \/ AbortStart(w, s)
                            \/ \E c \in Clip \union {0}, hint \in Length :
                                 CompleteStart(w, s, c, hint)
       \/ \E c \in Clip : RemoveStart(w, c) \/ RetryStart(w, c)
  \/ \E t \in Task : ProceedTask(t) \/ StopTask(t)
  \/ \E f \in File : PresignResumed(f)

-----------------------------------------------------------------------------
(* Properties *)

Settled(c) == RunsOn(c) = {} /\ clip[c] # None /\ clip[c].state = "READY"

\* "Keep the item's own duration in step": the two rows of a video that is ready
\* give one length, and what its last run measured is the length of the file it
\* plays, unless two runs of its task overlapped or one was cut short; a retry
\* alone then repairs it.  What no run measures keeps the length the browser
\* gave, or even that of the file it replaced.
LengthIsOfFile ==
  \A c \in Clip \ crossed : Settled(c) =>
    /\ clip[c].seconds = clip[c].length
    /\ clip[c].known => clip[c].length = file[clip[c].key]

Twice == {s \in Upload : completed[s] > 1}

\* The file of a video that was measured stays, unless its upload is aborted after all, was
\* completed twice, so that two videos share it, or sent a second time by a
\* stream that broke, or the video's removal is under way or was cut short.
FileStays ==
  \A c \in Clip \ crossed : Settled(c) /\ clip[c].known =>
    \/ clip[c].key \in stored \union Twice \union wiped
    \/ \E w \in Worker : pc[w] = "delete" /\ job[w].upload = clip[c].key

\* What a student is offered as ready and measured can be played to its end.
ReadyVideosPlay == UploadsOK /\ LengthIsOfFile /\ FileStays

\* "the video still becomes READY ... rather than parking it in PROCESSING
\* forever": whatever is pending or processing has a run that will settle it,
\* or a request about to start one, unless a stop cut it short.
NothingIsParked ==
  \A c \in Here : clip[c].state \in {"PENDING", "PROCESSING"} => Started(c) \/ faults > 0
=============================================================================
