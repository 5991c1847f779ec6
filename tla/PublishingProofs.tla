------------------------- MODULE PublishingProofs -------------------------
(***************************************************************************)
(* Proofs about Uploads and Publishing, for any number of requests, tasks, *)
(* files, uploads and videos.                                              *)
(*                                                                         *)
(* Bounded: rows, requests and runs speak of uploads and videos there are, *)
(* and there is room for those that requests were let in to make.          *)
(* CourseInv: what the course rests on found something to show, and of two *)
(* publishes being recorded each has met the other.  VideosInv: somebody   *)
(* will settle every video that is pending; a run that is alone with its   *)
(* video knows it as it is; and a file that a removal takes was completed  *)
(* for each that holds it.                                                 *)
(***************************************************************************)
EXTENDS Publishing, FiniteSetTheorems, SequenceTheorems, TLAPS

Steps == {"idle"} \union UploadSteps \union PublishSteps

-----------------------------------------------------------------------------
(* The rows, the requests and the runs fit what was opened and added *)

OfUpload == {"free", "mark", "stream", "fail", "attach", "wipe", "abort", "delete"}
OfClip   == {"schedule", "delete", "requeue"}

\* A request at a step knows what the step is about, among o uploads and a videos.
JobFits(step, j, o, a) ==
  /\ step \in Steps /\ j \in Job
  /\ j.upload <= o /\ j.clip <= a
  /\ step \in {"free", "open"} => j.file \in File
  /\ step \in OfUpload => j.upload # 0
  /\ step \in OfClip => j.clip # 0
  /\ step = "abort" => j.clip = 0

RunFits(r, a) ==
  /\ r \in Run /\ (r.at = "idle" <=> r = NoRun)
  /\ r.clip <= a /\ (r.at # "idle" => r.clip # 0)
  /\ r.at \in {"read", "claim", "probe"} => r.probed = None

\* There is room for what ws have been let in for.
Room(ws, n, max) == IsFiniteSet(ws) /\ n + Cardinality(ws) <= max

SessionsFit ==
  /\ SessionsOK
  /\ \A s \in Upload : s <= opened => file[s] \in File
  /\ \A s \in Open : s <= opened /\ upload[s].file = file[s]

ClipsFit ==
  /\ VideosOK
  /\ \A c \in Clip : c > added => clip[c] = None
  /\ \A c \in Here : clip[c].key <= opened

HandlersFit ==
  /\ pc \in [Worker -> Steps] /\ job \in [Worker -> Job]
  /\ \A w \in Worker : JobFits(pc[w], job[w], opened, added)
  /\ Room(Opening, opened, MaxUpload) /\ Room(Making, added, MaxClip)

RunsFit ==
  /\ task \in [Task -> Run]
  /\ \A t \in Task : RunFits(task[t], added)

CountsFit == requests \in 0..MaxRequest /\ faults \in 0..MaxFault

Bounded == SessionsFit /\ ClipsFit /\ HandlersFit /\ RunsFit /\ CountsFit

LEMMA BoundedIsOK ==
  ASSUME Bounded
  PROVE  UploadsOK /\ opened \in 0..MaxUpload /\ added \in 0..MaxClip
  BY DEF Bounded, SessionsFit, ClipsFit, HandlersFit, RunsFit, CountsFit, RunFits,
         UploadsOK, RunsOK, SessionsOK, VideosOK

LEMMA MaxesAreNumbers ==
  /\ MaxRequest \in Nat /\ MaxUpload \in Nat \ {0} /\ MaxClip \in Nat \ {0} /\ MaxFault \in Nat
  /\ None \notin File /\ None \notin Nat
  BY UploadsAssumption

-----------------------------------------------------------------------------
(* Room *)

LEMMA RoomShrinks ==
  ASSUME NEW S, NEW T, NEW n \in Nat, NEW max \in Nat, Room(S, n, max), T \subseteq S
  PROVE  Room(T, n, max)
<1>1. IsFiniteSet(T) /\ Cardinality(T) <= Cardinality(S)
      BY FS_Subset DEF Room
<1>2. Cardinality(T) \in Nat /\ Cardinality(S) \in Nat
      BY <1>1, FS_CardinalityType DEF Room
<1> QED BY <1>1, <1>2 DEF Room

LEMMA RoomGrows ==
  ASSUME NEW S, NEW T, NEW w, NEW n \in Nat, NEW max \in Nat, Room(S, n, max),
         n + Cardinality(S) < max, T \subseteq S \union {w}
  PROVE  Room(T, n, max)
<1>1. IsFiniteSet(S \union {w}) /\ Cardinality(S \union {w}) \in {Cardinality(S), Cardinality(S) + 1}
      <2>1. IsFiniteSet(S) BY DEF Room
      <2>2. CASE w \in S
            <3>1. S \union {w} = S BY <2>2
            <3> QED BY <2>1, <3>1
      <2>3. CASE w \notin S
            BY <2>1, <2>3, FS_AddElement
      <2> QED BY <2>2, <2>3
<1>2. Cardinality(S) \in Nat BY FS_CardinalityType DEF Room
<1>3. Room(S \union {w}, n, max) BY <1>1, <1>2 DEF Room
<1> QED BY <1>3, RoomShrinks

LEMMA RoomGiven ==
  ASSUME NEW S, NEW T, NEW w \in S, NEW n \in Nat, NEW max \in Nat, Room(S, n, max),
         T \subseteq S \ {w}
  PROVE  n + 1 <= max /\ Room(T, n + 1, max)
<1>1. IsFiniteSet(S \ {w}) /\ Cardinality(S \ {w}) = Cardinality(S) - 1
      BY FS_RemoveElement DEF Room
<1>2. Cardinality(S \ {w}) \in Nat /\ Cardinality(S) \in Nat
      BY <1>1, FS_CardinalityType DEF Room
<1>3. n + 1 <= max /\ Room(S \ {w}, n + 1, max) BY <1>1, <1>2 DEF Room
<1> QED BY <1>3, RoomShrinks

LEMMA EmptyRoom ==
  ASSUME NEW n \in Nat, NEW max \in Nat, n <= max
  PROVE  Room({}, n, max)
  BY FS_EmptySet DEF Room

-----------------------------------------------------------------------------
(* One request goes from a step to a step *)

\* w goes to the step and the job.
WorkerGoes(w, step, j) == pc' = [pc EXCEPT ![w] = step] /\ job' = [job EXCEPT ![w] = j]

LEMMA OpeningMoves ==
  ASSUME NEW w \in Worker, NEW step, NEW j, HandlersFit, WorkerGoes(w, step, j)
  PROVE  /\ Opening' \subseteq Opening \union {w}
         /\ pc[w] \in {"free", "open"} => Opening' \subseteq Opening
         /\ step \notin {"free", "open"} => Opening' \subseteq Opening \ {w}
  BY DEF Opening, WorkerGoes, HandlersFit

LEMMA MakingMoves ==
  ASSUME NEW w \in Worker, NEW step, NEW j, HandlersFit, WorkerGoes(w, step, j)
  PROVE  /\ Making' \subseteq Making \union {w}
         /\ step # "attach" \/ j.clip # 0 => Making' \subseteq Making \ {w}
  BY DEF Making, WorkerGoes, HandlersFit

LEMMA JobsMove ==
  ASSUME NEW w \in Worker, NEW step, NEW j, HandlersFit, WorkerGoes(w, step, j),
         opened \in Nat, opened' \in Nat, opened <= opened',
         added \in Nat, added' \in Nat, added <= added',
         JobFits(step, j, opened', added')
  PROVE  /\ (pc \in [Worker -> Steps])' /\ (job \in [Worker -> Job])'
         /\ \A v \in Worker : JobFits(pc'[v], job'[v], opened', added')
<1>1. step \in Steps /\ j \in Job BY DEF JobFits
<1>2. (pc \in [Worker -> Steps])' /\ (job \in [Worker -> Job])'
      BY <1>1 DEF WorkerGoes, HandlersFit
<1>3. \A v \in Worker : JobFits(pc'[v], job'[v], opened', added')
      <2> TAKE v \in Worker
      <2>1. CASE v = w
            <3>1. pc'[v] = step /\ job'[v] = j BY <2>1 DEF WorkerGoes, HandlersFit
            <3> QED BY <3>1
      <2>2. CASE v # w
            <3>1. pc'[v] = pc[v] /\ job'[v] = job[v] BY <2>2 DEF WorkerGoes, HandlersFit
            <3>2. JobFits(pc[v], job[v], opened, added) /\ job[v] \in Job BY DEF HandlersFit
            <3>3. job[v].upload \in Int /\ job[v].clip \in Int
                  BY <3>2, MaxesAreNumbers DEF Job
            <3>4. job[v].upload <= opened' /\ job[v].clip <= added'
                  BY <3>2, <3>3 DEF JobFits
            <3> QED BY <3>1, <3>2, <3>4 DEF JobFits
      <2> QED BY <2>1, <2>2
<1> QED BY <1>2, <1>3

\* A request that is let in for nothing takes no room.
LEMMA HandlersMove ==
  ASSUME Bounded, NEW w \in Worker, NEW step, NEW j, WorkerGoes(w, step, j),
         opened' = opened, added' = added, JobFits(step, j, opened, added),
         step \in {"free", "open"} => pc[w] \in {"free", "open"},
         step = "attach" => j.clip # 0
  PROVE  HandlersFit'
<1>1. HandlersFit /\ opened \in Nat /\ added \in Nat
      BY BoundedIsOK, MaxesAreNumbers DEF Bounded
<1>2. /\ (pc \in [Worker -> Steps])' /\ (job \in [Worker -> Job])'
      /\ \A v \in Worker : JobFits(pc'[v], job'[v], opened', added')
      BY <1>1, JobsMove
<1>3. Opening' \subseteq Opening /\ Making' \subseteq Making
      BY <1>1, OpeningMoves, MakingMoves
<1>4. Room(Opening', opened, MaxUpload) /\ Room(Making', added, MaxClip)
      BY <1>1, <1>3, RoomShrinks, MaxesAreNumbers DEF HandlersFit
<1> QED BY <1>2, <1>4 DEF HandlersFit

LEMMA HandlersStay ==
  ASSUME Bounded, UNCHANGED handler, opened' = opened, added' = added
  PROVE  HandlersFit'
  BY DEF Bounded, HandlersFit, Opening, Making, handler

-----------------------------------------------------------------------------
(* What a step leaves alone still fits *)

LEMMA SessionsStay ==
  ASSUME Bounded, UNCHANGED sessions, stored' \subseteq stored \union 1..opened,
         (completed \in [Upload -> Nat])', wiped' \subseteq Upload
  PROVE  SessionsFit'
  BY DEF Bounded, SessionsFit, SessionsOK, sessions, Open

\* Sessions may be marked, and may be deleted.
LEMMA SessionsMarked ==
  ASSUME Bounded, UNCHANGED <<opened, file, stored, wiped>>, (completed \in [Upload -> Nat])',
         NEW s \in Upload, NEW u \in Session \union {None},
         upload' = [upload EXCEPT ![s] = u],
         u # None => upload[s] # None /\ u.file = upload[s].file
  PROVE  SessionsFit'
<1>1. \A r \in Upload : upload'[r] = IF r = s THEN u ELSE upload[r]
      BY DEF Bounded, SessionsFit, SessionsOK
<1> QED BY <1>1 DEF Bounded, SessionsFit, SessionsOK, Open

LEMMA ClipsStay ==
  ASSUME Bounded, UNCHANGED clips, opened' \in Nat, opened <= opened', crossed' \subseteq Clip
  PROVE  ClipsFit'
<1>1. opened \in Nat /\ \A c \in Here : clip[c].key \in Nat
      BY MaxesAreNumbers, BoundedIsOK DEF Bounded, ClipsFit, VideosOK, Here, Video, Upload
<1>2. UNCHANGED <<clip, added, Here>> BY DEF clips, Here
<1>3. \A c \in Here : clip[c].key <= opened' BY <1>1 DEF Bounded, ClipsFit
<1> QED BY <1>2, <1>3 DEF Bounded, ClipsFit, VideosOK

\* A video that is there may change, or be deleted.
LEMMA ClipsChange ==
  ASSUME Bounded, UNCHANGED <<added, opened>>, crossed' \subseteq Clip,
         NEW c \in Clip, NEW v \in Video \union {None}, clip' = [clip EXCEPT ![c] = v],
         v # None => c \in Here /\ v.key <= opened
  PROVE  ClipsFit'
<1>1. \A d \in Clip : clip'[d] = IF d = c THEN v ELSE clip[d]
      BY DEF Bounded, ClipsFit, VideosOK
<1>2. (clip \in [Clip -> Video \union {None}])' BY DEF Bounded, ClipsFit, VideosOK
<1> QED BY <1>1, <1>2 DEF Bounded, ClipsFit, VideosOK, Here

LEMMA RunsStay ==
  ASSUME Bounded, UNCHANGED task, added' = added
  PROVE  RunsFit'
  BY DEF Bounded, RunsFit

LEMMA RunsGo ==
  ASSUME Bounded, NEW t \in Task, NEW r, Goes(t, r), added' = added, RunFits(r, added)
  PROVE  RunsFit'
<1>1. r \in Run BY DEF RunFits
<1>2. (task \in [Task -> Run])' BY <1>1 DEF Bounded, RunsFit, Goes
<1>3. \A u \in Task : task'[u] = IF u = t THEN r ELSE task[u]
      BY DEF Bounded, RunsFit, Goes
<1> QED BY <1>2, <1>3 DEF Bounded, RunsFit

LEMMA CountsStay ==
  ASSUME Bounded, UNCHANGED bounds \/ Ask \/ (UNCHANGED requests /\ faults < MaxFault /\ faults' = faults + 1)
  PROVE  CountsFit'
  BY MaxesAreNumbers DEF Bounded, CountsFit, Ask, bounds

\* What a request is about when it begins.
LEMMA JobsBegun ==
  ASSUME NEW s, NEW c, NEW f
  PROVE  /\ [NoJob EXCEPT !.upload = s] = [upload |-> s, clip |-> 0, file |-> None]
         /\ [NoJob EXCEPT !.clip = c] = [upload |-> 0, clip |-> c, file |-> None]
         /\ [NoJob EXCEPT !.file = f] = [upload |-> 0, clip |-> 0, file |-> f]
         /\ [NoJob EXCEPT !.upload = s, !.file = f] = [upload |-> s, clip |-> 0, file |-> f]
         /\ [NoJob EXCEPT !.upload = s, !.clip = c] = [upload |-> s, clip |-> c, file |-> None]
<1>1. [NoJob EXCEPT !.upload = s] = [upload |-> s, clip |-> 0, file |-> None] BY DEF NoJob
<1>2. [NoJob EXCEPT !.clip = c] = [upload |-> 0, clip |-> c, file |-> None] BY DEF NoJob
<1>3. [NoJob EXCEPT !.file = f] = [upload |-> 0, clip |-> 0, file |-> f] BY DEF NoJob
<1>4. [NoJob EXCEPT !.upload = s, !.file = f] = [upload |-> s, clip |-> 0, file |-> f]
      <2>1. [NoJob EXCEPT !.upload = s, !.file = f] = [[NoJob EXCEPT !.upload = s] EXCEPT !.file = f]
            OBVIOUS
      <2>2. [[upload |-> s, clip |-> 0, file |-> None] EXCEPT !.file = f]
              = [upload |-> s, clip |-> 0, file |-> f]
            OBVIOUS
      <2> QED BY <1>1, <2>1, <2>2
<1>5. [NoJob EXCEPT !.upload = s, !.clip = c] = [upload |-> s, clip |-> c, file |-> None]
      <2>1. [NoJob EXCEPT !.upload = s, !.clip = c] = [[NoJob EXCEPT !.upload = s] EXCEPT !.clip = c]
            OBVIOUS
      <2>2. [[upload |-> s, clip |-> 0, file |-> None] EXCEPT !.clip = c]
              = [upload |-> s, clip |-> c, file |-> None]
            OBVIOUS
      <2> QED BY <1>1, <2>1, <2>2
<1> QED BY <1>1, <1>2, <1>3, <1>4, <1>5

LEMMA RunBegun ==
  ASSUME NEW c
  PROVE  [NoRun EXCEPT !.at = "read", !.clip = c]
           = [at |-> "read", clip |-> c, key |-> 0, length |-> None, probed |-> None]
<1>1. [NoRun EXCEPT !.at = "read"]
        = [at |-> "read", clip |-> 0, key |-> 0, length |-> None, probed |-> None]
      BY DEF NoRun
<1>2. [NoRun EXCEPT !.at = "read", !.clip = c] = [[NoRun EXCEPT !.at = "read"] EXCEPT !.clip = c]
      OBVIOUS
<1>3. [[at |-> "read", clip |-> 0, key |-> 0, length |-> None, probed |-> None] EXCEPT !.clip = c]
        = [at |-> "read", clip |-> c, key |-> 0, length |-> None, probed |-> None]
      OBVIOUS
<1> QED BY <1>1, <1>2, <1>3

\* What begins, goes on or ends is one request.
LEMMA OneGoes ==
  ASSUME NEW w \in Worker, Bounded
  PROVE  /\ \A step, j : Begin(w, step, j) => WorkerGoes(w, step, j) /\ pc[w] = "idle"
         /\ \A step : Continue(w, step) => WorkerGoes(w, step, job[w])
         /\ Finish(w) => WorkerGoes(w, "idle", NoJob)
         /\ \A ok, step : ContinueIf(ok, w, step) =>
              \/ ok /\ WorkerGoes(w, step, job[w])
              \/ WorkerGoes(w, "idle", NoJob)
<1>1. job' = job => job' = [job EXCEPT ![w] = job[w]] BY DEF Bounded, HandlersFit
<1> QED BY <1>1 DEF Begin, Continue, Finish, ContinueIf, WorkerGoes

LEMMA NoJobFits ==
  ASSUME Bounded
  PROVE  JobFits("idle", NoJob, opened, added)
  BY BoundedIsOK, MaxesAreNumbers
     DEF JobFits, Job, NoJob, Steps, Length, OfUpload, OfClip

LEMMA NoRunFits ==
  ASSUME Bounded
  PROVE  RunFits(NoRun, added)
  BY BoundedIsOK, MaxesAreNumbers DEF RunFits, Run, NoRun, Length

LEMMA EndsBounded ==
  ASSUME Bounded, NEW w \in Worker, WorkerGoes(w, "idle", NoJob), opened' = opened, added' = added
  PROVE  HandlersFit'
  BY HandlersMove, NoJobFits

\* The numbers of what a request or a run is about.
LEMMA JobNumbers ==
  ASSUME Bounded, NEW w \in Worker
  PROVE  /\ JobFits(pc[w], job[w], opened, added) /\ job[w] \in Job
         /\ job[w].upload \in 0..opened /\ job[w].clip \in 0..added
         /\ job[w].upload # 0 => job[w].upload \in Upload
         /\ job[w].clip # 0 => job[w].clip \in Clip
  BY BoundedIsOK, MaxesAreNumbers DEF Bounded, HandlersFit, JobFits, Job, Upload, Clip

LEMMA RunNumbers ==
  ASSUME Bounded, NEW t \in Task
  PROVE  /\ RunFits(task[t], added) /\ task[t] \in Run
         /\ task[t].clip \in 0..added
         /\ task[t].at # "idle" => task[t].clip \in Clip
  BY BoundedIsOK, MaxesAreNumbers DEF Bounded, RunsFit, RunFits, Run, Clip

LEMMA RowNumbers ==
  ASSUME Bounded
  PROVE  /\ \A c \in Here : /\ c \in Clip /\ c <= added /\ clip[c] \in Video
                           /\ clip[c].key \in Upload /\ clip[c].key <= opened
         /\ \A s \in Open : s \in Upload /\ s <= opened /\ upload[s] \in Session
<1>1. SessionsFit /\ ClipsFit /\ opened \in Nat /\ added \in Nat
      BY BoundedIsOK, MaxesAreNumbers DEF Bounded
<1>2. ASSUME NEW c \in Here
      PROVE  /\ c \in Clip /\ c <= added /\ clip[c] \in Video
             /\ clip[c].key \in Upload /\ clip[c].key <= opened
      <2>1. c \in Clip /\ clip[c] # None BY DEF Here
      <2>2. clip[c] \in Video BY <1>1, <2>1 DEF ClipsFit, VideosOK
      <2>3. c <= added BY <1>1, <2>1 DEF ClipsFit, Clip
      <2> QED BY <1>1, <2>1, <2>2, <2>3 DEF ClipsFit, Video
<1> QED BY <1>1, <1>2 DEF SessionsFit, SessionsOK, Open

\* A session or a video is not none.
LEMMA RowsAreThere ==
  /\ \A s \in Session : s # None
  /\ \A v \in Video : v # None
  BY NoneIsNoRow

-----------------------------------------------------------------------------
(* Every step of the uploads keeps Bounded *)

LEMMA PresignsBounded ==
  ASSUME Bounded, NEW w \in Worker,
         \/ \E f \in File : PresignStart(w, f)
         \/ \E s \in Upload : PresignAgain(w, s)
  PROVE  Bounded'
<1>0. /\ opened \in Nat /\ added \in Nat /\ MaxUpload \in Nat /\ MaxClip \in Nat
      /\ HandlersFit /\ SessionsFit
      BY BoundedIsOK, MaxesAreNumbers DEF Bounded
<1>1. /\ UNCHANGED <<opened, file, stored, clips, task, history>> /\ Ask
      /\ SessionsFit' /\ opened + Cardinality(Opening) < MaxUpload
      /\ \E step \in {"open", "free"} : \E j :
           WorkerGoes(w, step, j) /\ JobFits(step, j, opened, added) /\ j.clip = 0
      <2>1. CASE \E f \in File : PresignStart(w, f)
            <3> PICK f \in File : PresignStart(w, f) BY <2>1
            <3> DEFINE j == [NoJob EXCEPT !.file = f]
            <3>1. WorkerGoes(w, "open", j) BY OneGoes DEF PresignStart
            <3>2. JobFits("open", j, opened, added) /\ j.clip = 0
                  BY <1>0 DEF JobFits, Job, NoJob, Steps, UploadSteps, Length, OfUpload, OfClip
            <3>3. SessionsFit'
                  BY SessionsStay, <1>0 DEF PresignStart, SessionsFit, SessionsOK, history
            <3> QED BY <3>1, <3>2, <3>3 DEF PresignStart, Begin, sessions
      <2>2. CASE \E s \in Upload : PresignAgain(w, s)
            <3> PICK s \in Upload : PresignAgain(w, s) BY <2>2
            <3> DEFINE j == [NoJob EXCEPT !.upload = s, !.file = upload[s].file]
            <3>1. WorkerGoes(w, "free", j) BY OneGoes DEF PresignAgain
            <3>2. s <= opened /\ upload[s] \in Session
                  BY <1>0 DEF PresignAgain, SessionsFit, SessionsOK, Open
            <3>3. JobFits("free", j, opened, added) /\ j.clip = 0
                  <4>1. upload[s].file \in File BY <3>2 DEF Session
                  <4>2. j = [upload |-> s, clip |-> 0, file |-> upload[s].file] BY JobsBegun
                  <4> HIDE DEF j
                  <4>3. j \in Job /\ s # 0 BY <1>0, <4>1, <4>2 DEF Job, Upload, Length
                  <4>4. j.upload = s /\ j.clip = 0 /\ j.file \in File BY <4>1, <4>2
                  <4> QED BY <1>0, <3>2, <4>3, <4>4
                          DEF JobFits, Steps, UploadSteps, OfUpload, OfClip
            <3>4. SessionsFit'
                  <4>1. CASE upload' = upload
                        BY <4>1, SessionsStay, <1>0
                           DEF PresignAgain, SessionsFit, SessionsOK, history, sessions
                  <4>2. CASE upload' = [upload EXCEPT ![s].expired = TRUE]
                        <5>1. [upload[s] EXCEPT !.expired = TRUE] \in Session
                              BY <3>2 DEF Session
                        <5>2. [upload[s] EXCEPT !.expired = TRUE].file = upload[s].file
                              BY <3>2 DEF Session
                        <5>3. upload' = [upload EXCEPT ![s] = [upload[s] EXCEPT !.expired = TRUE]]
                              BY <4>2
                        <5>4. (completed \in [Upload -> Nat])' /\ UNCHANGED <<opened, file, stored, wiped>>
                              BY <1>0 DEF PresignAgain, SessionsFit, SessionsOK, history
                        <5> QED BY <5>1, <5>2, <5>3, <5>4, SessionsMarked DEF PresignAgain, Open
                  <4> QED BY <4>1, <4>2 DEF PresignAgain
            <3> QED BY <3>1, <3>3, <3>4 DEF PresignAgain, Begin
      <2> QED BY <2>1, <2>2
<1>2. PICK step \in {"open", "free"} : \E j :
           WorkerGoes(w, step, j) /\ JobFits(step, j, opened, added) /\ j.clip = 0
      BY <1>1
<1>9. PICK j : WorkerGoes(w, step, j) /\ JobFits(step, j, opened, added) /\ j.clip = 0
      BY <1>2
<1>3. /\ (pc \in [Worker -> Steps])' /\ (job \in [Worker -> Job])'
      /\ \A v \in Worker : JobFits(pc'[v], job'[v], opened', added')
      BY <1>0, <1>1, <1>9, JobsMove DEF clips
<1>4. Opening' \subseteq Opening \union {w} /\ Making' \subseteq Making
      BY <1>0, <1>9, OpeningMoves, MakingMoves
<1>5. Room(Opening', opened, MaxUpload) /\ Room(Making', added, MaxClip)
      BY <1>0, <1>1, <1>4, RoomShrinks, RoomGrows DEF HandlersFit
<1>6. HandlersFit' BY <1>1, <1>3, <1>5 DEF HandlersFit, clips
<1>7. ClipsFit' BY <1>0, <1>1, ClipsStay DEF Bounded, ClipsFit, VideosOK, history
<1>8. RunsFit' /\ CountsFit' BY <1>1, RunsStay, CountsStay DEF clips
<1> QED BY <1>1, <1>6, <1>7, <1>8 DEF Bounded

\* A request that only goes on or ends, and what it may mark on the way.
LEMMA GoesOnBounded ==
  ASSUME Bounded, NEW w \in Worker, NEW step, NEW j, WorkerGoes(w, step, j),
         UNCHANGED <<opened, added, task>>, UNCHANGED bounds \/ Ask,
         JobFits(step, j, opened, added),
         step \in {"free", "open"} => pc[w] \in {"free", "open"},
         step = "attach" => j.clip # 0,
         SessionsFit', ClipsFit'
  PROVE  Bounded'
  BY HandlersMove, RunsStay, CountsStay DEF Bounded

LEMMA PresignFreeBounded ==
  ASSUME Bounded, NEW w \in Worker, PresignFree(w)
  PROVE  Bounded'
<1> DEFINE s == job[w].upload
<1>0. SessionsFit /\ ClipsFit BY DEF Bounded
<1>1. s \in Upload /\ s <= opened /\ JobFits("free", job[w], opened, added)
      BY JobNumbers DEF PresignFree, JobFits, OfUpload
<1>2. SessionsFit'
      BY <1>0, <1>1, SessionsMarked DEF PresignFree, SessionsFit, SessionsOK, history
<1>3. ClipsFit' BY <1>0, ClipsStay, BoundedIsOK DEF PresignFree, ClipsFit, VideosOK, history
<1>4. CASE WorkerGoes(w, "idle", NoJob)
      BY <1>2, <1>3, <1>4, GoesOnBounded, NoJobFits DEF PresignFree, clips
<1>5. CASE upload[s] # None /\ WorkerGoes(w, "open", job[w])
      <2>1. upload[s] \in Session BY <1>0, <1>1, <1>5 DEF SessionsFit, SessionsOK
      <2>2. job[w].file \in File BY <1>1 DEF JobFits
      <2>3. JobFits("open", job[w], opened, added)
            BY <1>1, <2>2 DEF JobFits, Steps, UploadSteps, OfUpload, OfClip
      <2> QED BY <1>2, <1>3, <1>5, <2>3, GoesOnBounded DEF PresignFree, clips
<1> QED BY <1>4, <1>5, OneGoes DEF PresignFree

\* The rows stay as they are.
LEMMA RowsStay ==
  ASSUME Bounded, UNCHANGED <<sessions, stored, clips, history>>
  PROVE  SessionsFit' /\ ClipsFit'
<1>1. SessionsFit /\ ClipsFit BY DEF Bounded
<1>2. SessionsFit' BY <1>1, SessionsStay DEF SessionsFit, SessionsOK, history
<1>3. ClipsFit'
      BY <1>1, ClipsStay, BoundedIsOK DEF ClipsFit, VideosOK, history, sessions
<1> QED BY <1>2, <1>3

LEMMA BeginsBounded ==
  ASSUME Bounded, NEW w \in Worker, NEW step, NEW j, Begin(w, step, j),
         UNCHANGED <<sessions, stored, clips, task, history>>,
         JobFits(step, j, opened, added),
         step \notin {"free", "open"}, step = "attach" => j.clip # 0
  PROVE  Bounded'
<1>1. WorkerGoes(w, step, j) BY OneGoes
<1>2. Ask BY DEF Begin
<1> QED BY <1>1, <1>2, RowsStay, GoesOnBounded DEF sessions, clips

LEMMA StartsBounded ==
  ASSUME Bounded, NEW w \in Worker,
         \/ \E s \in Upload : ReceiveStart(w, s) \/ AbortStart(w, s)
         \/ \E c \in Clip : RemoveStart(w, c) \/ RetryStart(w, c)
  PROVE  Bounded'
<1>0. SessionsFit /\ ClipsFit /\ opened \in 0..MaxUpload /\ added \in 0..MaxClip
      BY BoundedIsOK DEF Bounded
<1>1. ASSUME NEW s \in Upload, ReceiveStart(w, s) \/ AbortStart(w, s) PROVE Bounded'
      <2> DEFINE j == [upload |-> s, clip |-> 0, file |-> None]
      <2>1. s <= opened BY <1>0, <1>1 DEF ReceiveStart, AbortStart, SessionsFit
      <2>2. j \in Job /\ j.upload # 0
            BY MaxesAreNumbers DEF Job, Upload, Length
      <2>3. JobFits("mark", j, opened, added) /\ JobFits("wipe", j, opened, added)
            BY <1>0, <2>1, <2>2 DEF JobFits, Steps, UploadSteps, OfUpload, OfClip
      <2>4. \/ Begin(w, "mark", j)
            \/ Begin(w, "wipe", j)
            BY <1>1, JobsBegun DEF ReceiveStart, AbortStart
      <2> QED BY <1>1, <2>3, <2>4, BeginsBounded DEF ReceiveStart, AbortStart
<1>2. ASSUME NEW c \in Clip, RemoveStart(w, c) PROVE Bounded'
      <2> DEFINE j == [upload |-> clip[c].key, clip |-> c, file |-> None]
      <2>1. clip[c] \in Video /\ clip[c].key <= opened /\ c <= added
            BY <1>2, RowNumbers DEF RemoveStart
      <2>2. j \in Job /\ j.upload # 0
            BY <2>1, MaxesAreNumbers DEF Job, Upload, Clip, Length, Video
      <2>3. JobFits("wipe", j, opened, added)
            BY <1>0, <2>1, <2>2 DEF JobFits, Steps, UploadSteps, OfUpload, OfClip
      <2>4. Begin(w, "wipe", j) BY <1>2, JobsBegun DEF RemoveStart
      <2> HIDE DEF j
      <2> QED BY <1>2, <2>3, <2>4, BeginsBounded DEF RemoveStart
<1>3. ASSUME NEW c \in Clip, RetryStart(w, c) PROVE Bounded'
      <2> DEFINE j == [upload |-> 0, clip |-> c, file |-> None]
      <2>1. c <= added
            BY <1>0, <1>3 DEF RetryStart, ClipsFit, VideosOK, Here, Clip
      <2>2. j \in Job /\ j.clip # 0
            BY <2>1, MaxesAreNumbers DEF Job, Upload, Clip, Length, Video
      <2>3. JobFits("requeue", j, opened, added)
            BY <1>0, <2>1, <2>2 DEF JobFits, Steps, UploadSteps, OfUpload, OfClip
      <2>4. Begin(w, "requeue", j) BY <1>3, JobsBegun DEF RetryStart
      <2> QED BY <1>3, <2>3, <2>4, BeginsBounded DEF RetryStart
<1> QED BY <1>1, <1>2, <1>3

LEMMA CompleteStartBounded ==
  ASSUME Bounded, NEW w \in Worker, NEW s \in Upload, NEW c \in Clip \union {0}, NEW hint \in Length,
         CompleteStart(w, s, c, hint)
  PROVE  Bounded'
<1> DEFINE j == [upload |-> s, clip |-> c, file |-> hint]
<1>0. /\ SessionsFit /\ ClipsFit /\ HandlersFit /\ opened \in Nat /\ added \in Nat
      /\ MaxUpload \in Nat /\ MaxClip \in Nat
      BY BoundedIsOK, MaxesAreNumbers DEF Bounded
<1>1. s <= opened /\ c <= added
      BY <1>0 DEF CompleteStart, SessionsFit, ClipsFit, Here, Clip
<1>2. j \in Job /\ j.upload # 0
      BY <1>0 DEF Job, Upload, Clip
<1>3. JobFits("attach", j, opened, added)
      BY <1>0, <1>1, <1>2 DEF JobFits, Steps, UploadSteps, OfUpload, OfClip
<1>4. WorkerGoes(w, "attach", j) BY OneGoes DEF CompleteStart
<1>5. CASE c # 0
      BY <1>3, <1>5, BeginsBounded DEF CompleteStart
<1>6. CASE c = 0
      <2>1. added + Cardinality(Making) < MaxClip BY <1>6 DEF CompleteStart, Here, Clip
      <2>2. Opening' \subseteq Opening /\ Making' \subseteq Making \union {w}
            BY <1>0, <1>4, OpeningMoves, MakingMoves
      <2>3. Room(Opening', opened, MaxUpload) /\ Room(Making', added, MaxClip)
            BY <1>0, <2>1, <2>2, RoomShrinks, RoomGrows DEF HandlersFit
      <2>4. /\ (pc \in [Worker -> Steps])' /\ (job \in [Worker -> Job])'
            /\ \A v \in Worker : JobFits(pc'[v], job'[v], opened', added')
            BY <1>0, <1>3, <1>4, JobsMove DEF CompleteStart, sessions, clips
      <2>5. HandlersFit' BY <2>3, <2>4 DEF HandlersFit, CompleteStart, sessions, clips
      <2>6. RunsFit' /\ CountsFit'
            BY RunsStay, CountsStay DEF CompleteStart, Begin, clips
      <2> QED BY <2>5, <2>6, RowsStay DEF CompleteStart, Bounded
<1> QED BY <1>5, <1>6

LEMMA MarkedFits ==
  ASSUME Bounded, NEW s \in Upload,
         NEW status \in {"PENDING", "UPLOADING", "COMPLETED", "FAILED", "ABORTED"},
         Marked(s, status), UNCHANGED <<opened, file, stored, wiped>>, (completed \in [Upload -> Nat])'
  PROVE  SessionsFit'
<1>1. CASE upload[s] = None
      BY <1>1, SessionsStay DEF Marked, Bounded, SessionsFit, SessionsOK, sessions
<1>2. CASE upload[s] # None
      <2> DEFINE u == [upload[s] EXCEPT !.status = status]
      <2>1. upload[s] \in Session BY <1>2, RowNumbers DEF Open
      <2>2. u \in Session /\ u.file = upload[s].file BY <2>1 DEF Session
      <2>3. upload' = [upload EXCEPT ![s] = u] BY <1>2 DEF Marked
      <2> HIDE DEF u
      <2> QED BY <1>2, <2>2, <2>3, SessionsMarked
<1> QED BY <1>1, <1>2

\* A request at "mark" or after it goes on to a step that is about the upload.
LEMMA GoesOnFits ==
  ASSUME Bounded, NEW w \in Worker, NEW step
  PROVE  /\ pc[w] \in OfUpload /\ step \in {"stream", "fail"} =>
              JobFits(step, job[w], opened, added)
         /\ pc[w] \in OfClip /\ step = "schedule" => JobFits(step, job[w], opened, added)
         /\ pc[w] = "wipe" /\ step = (IF job[w].clip = 0 THEN "abort" ELSE "delete") =>
              JobFits(step, job[w], opened, added)
         /\ pc[w] = "free" /\ step = "open" => JobFits(step, job[w], opened, added)
  BY JobNumbers DEF JobFits, OfUpload, OfClip, Steps, UploadSteps

LEMMA ReceivesBounded ==
  ASSUME Bounded, NEW w \in Worker,
         ReceiveMark(w) \/ ReceiveStream(w) \/ ReceiveBreak(w) \/ ReceiveFail(w) \/ AbortMark(w)
  PROVE  Bounded'
<1> DEFINE s == job[w].upload
<1>0. /\ SessionsFit /\ ClipsFit /\ s \in Upload /\ s \in 1..opened /\ UNCHANGED <<opened, added, task, bounds>>
      BY JobNumbers
         DEF ReceiveMark, ReceiveStream, ReceiveBreak, ReceiveFail, AbortMark, JobFits, OfUpload, Bounded,
             sessions, clips
<1>1. CASE ReceiveMark(w)
      <2>1. SessionsFit' BY <1>0, <1>1, MarkedFits DEF ReceiveMark, SessionsFit, SessionsOK, history
      <2>2. ClipsFit' BY <1>0, <1>1, ClipsStay, BoundedIsOK DEF ReceiveMark, ClipsFit, VideosOK, history
      <2>3. CASE WorkerGoes(w, "idle", NoJob)
            BY <1>0, <2>1, <2>2, <2>3, GoesOnBounded, NoJobFits
      <2>4. CASE WorkerGoes(w, "stream", job[w])
            <3>1. JobFits("stream", job[w], opened, added) BY <1>1, GoesOnFits DEF ReceiveMark, OfUpload
            <3> QED BY <1>0, <2>1, <2>2, <2>4, <3>1, GoesOnBounded
      <2> QED BY <1>1, <2>3, <2>4, OneGoes DEF ReceiveMark
<1>2. CASE ReceiveStream(w)
      <2>1. SessionsFit' BY <1>0, <1>2, SessionsStay DEF ReceiveStream, SessionsFit, SessionsOK, history
      <2>2. ClipsFit' BY <1>0, <1>2, ClipsStay, BoundedIsOK DEF ReceiveStream, ClipsFit, VideosOK, history
      <2>3. WorkerGoes(w, "idle", NoJob) BY <1>2, OneGoes DEF ReceiveStream
      <2> QED BY <1>0, <2>1, <2>2, <2>3, GoesOnBounded, NoJobFits
<1>3. CASE ReceiveBreak(w)
      <2>1. SessionsFit'
            BY <1>0, <1>3, SessionsStay DEF ReceiveBreak, Breaks, SessionsFit, SessionsOK
      <2>2. ClipsFit' BY <1>0, <1>3, ClipsStay, BoundedIsOK DEF ReceiveBreak, ClipsFit, VideosOK
      <2>3. WorkerGoes(w, "fail", job[w]) BY <1>3, OneGoes DEF ReceiveBreak
      <2>4. JobFits("fail", job[w], opened, added) BY <1>3, GoesOnFits DEF ReceiveBreak, OfUpload
      <2> QED BY <1>0, <2>1, <2>2, <2>3, <2>4, GoesOnBounded
<1>4. CASE ReceiveFail(w) \/ AbortMark(w)
      <2>1. SessionsFit'
            BY <1>0, <1>4, MarkedFits DEF ReceiveFail, AbortMark, SessionsFit, SessionsOK, history
      <2>2. ClipsFit'
            BY <1>0, <1>4, ClipsStay, BoundedIsOK DEF ReceiveFail, AbortMark, ClipsFit, VideosOK, history
      <2>3. WorkerGoes(w, "idle", NoJob) BY <1>4, OneGoes DEF ReceiveFail, AbortMark
      <2> QED BY <1>0, <2>1, <2>2, <2>3, GoesOnBounded, NoJobFits
<1> QED BY <1>1, <1>2, <1>3, <1>4

LEMMA WipeBounded ==
  ASSUME Bounded, NEW w \in Worker, Wipe(w)
  PROVE  Bounded'
<1> DEFINE s == job[w].upload  step == IF job[w].clip = 0 THEN "abort" ELSE "delete"
<1>0. SessionsFit /\ ClipsFit /\ s \in Upload /\ UNCHANGED <<opened, added, task, bounds>>
      BY JobNumbers DEF Wipe, JobFits, OfUpload, Bounded, sessions, clips
<1>1. SessionsFit' BY <1>0, SessionsStay DEF Wipe, SessionsFit, SessionsOK
<1>2. ClipsFit' BY <1>0, ClipsStay, BoundedIsOK DEF Wipe, ClipsFit, VideosOK
<1>3. WorkerGoes(w, step, job[w]) BY OneGoes DEF Wipe
<1>4. JobFits(step, job[w], opened, added) BY GoesOnFits DEF Wipe
<1> QED BY <1>0, <1>1, <1>2, <1>3, <1>4, GoesOnBounded

LEMMA RemovesBounded ==
  ASSUME Bounded, NEW w \in Worker, RemoveDelete(w) \/ RetryRequeue(w)
  PROVE  Bounded'
<1> DEFINE c == job[w].clip
<1>0. /\ SessionsFit /\ ClipsFit /\ c \in Clip /\ UNCHANGED <<opened, added, task, bounds>>
      BY JobNumbers DEF RemoveDelete, RetryRequeue, JobFits, OfClip, Bounded, sessions, clips
<1>1. SessionsFit'
      BY <1>0, SessionsStay DEF RemoveDelete, RetryRequeue, SessionsFit, SessionsOK, history
<1>2. CASE RemoveDelete(w)
      <2>1. ClipsFit' BY <1>0, <1>2, ClipsChange DEF RemoveDelete, ClipsFit, VideosOK, history
      <2>2. WorkerGoes(w, "idle", NoJob) BY <1>2, OneGoes DEF RemoveDelete
      <2> QED BY <1>0, <1>1, <2>1, <2>2, GoesOnBounded, NoJobFits
<1>3. CASE RetryRequeue(w)
      <2>1. ClipsFit'
            <3>1. CASE c \in Here
                  <4> DEFINE v == [clip[c] EXCEPT !.state = "PENDING", !.known = FALSE]
                  <4>1. clip[c] \in Video /\ clip[c].key <= opened BY <3>1, RowNumbers
                  <4>2. v \in Video /\ v.key = clip[c].key BY <4>1 DEF Video
                  <4>3. clip' = [clip EXCEPT ![c] = v] /\ crossed' \subseteq Clip
                        BY <1>0, <1>3, <3>1 DEF RetryRequeue, Requeued, ClipsFit, VideosOK
                  <4> HIDE DEF v
                  <4> QED BY <1>0, <1>3, <3>1, <4>1, <4>2, <4>3, ClipsChange DEF RetryRequeue
            <3>2. CASE c \notin Here
                  BY <1>0, <1>3, <3>2, ClipsStay, BoundedIsOK
                     DEF RetryRequeue, ClipsFit, VideosOK, clips
            <3> QED BY <3>1, <3>2
      <2>2. CASE WorkerGoes(w, "idle", NoJob)
            BY <1>0, <1>1, <2>1, <2>2, GoesOnBounded, NoJobFits
      <2>3. CASE WorkerGoes(w, "schedule", job[w])
            <3>1. JobFits("schedule", job[w], opened, added)
                  BY <1>3, GoesOnFits DEF RetryRequeue, OfClip
            <3> QED BY <1>0, <1>1, <2>1, <2>3, <3>1, GoesOnBounded
      <2> QED BY <1>3, <2>2, <2>3, OneGoes DEF RetryRequeue
<1> QED BY <1>2, <1>3

LEMMA ScheduleBounded ==
  ASSUME Bounded, NEW w \in Worker, Schedule(w)
  PROVE  Bounded'
<1>1. PICK t \in Task :
        task' = [task EXCEPT ![t] = [NoRun EXCEPT !.at = "read", !.clip = job[w].clip]]
      BY DEF Schedule
<1> DEFINE r == [at |-> "read", clip |-> job[w].clip, key |-> 0, length |-> None, probed |-> None]
<1>2. [NoRun EXCEPT !.at = "read", !.clip = job[w].clip] = r BY RunBegun
<1>3. r # NoRun BY DEF NoRun
<1>4. job[w].clip \in 1..added /\ job[w].clip \in 0..MaxClip
      BY JobNumbers, BoundedIsOK, MaxesAreNumbers DEF Schedule, JobFits, OfClip
<1>5. r \in Run BY <1>4, MaxesAreNumbers DEF Run, Length
<1>6. RunFits(r, added) BY <1>3, <1>4, <1>5 DEF RunFits
<1>7. WorkerGoes(w, "idle", NoJob) BY OneGoes DEF Schedule
<1> HIDE DEF r
<1>8. RunsFit' BY <1>1, <1>2, <1>6, RunsGo DEF Goes, Schedule, clips
<1>9. HandlersFit' BY <1>7, EndsBounded DEF Schedule, clips, sessions
<1> QED BY <1>8, <1>9, RowsStay, CountsStay DEF Schedule, Bounded

LEMMA PresignOpenBounded ==
  ASSUME Bounded, NEW w \in Worker, PresignOpen(w)
  PROVE  Bounded'
<1> DEFINE f == job[w].file  s == opened + 1
           u == [file |-> f, status |-> "PENDING", expired |-> FALSE]
<1>0. /\ SessionsFit /\ ClipsFit /\ HandlersFit /\ opened \in Nat /\ added \in Nat
      /\ MaxUpload \in Nat /\ MaxClip \in Nat /\ f \in File
      BY BoundedIsOK, MaxesAreNumbers, JobNumbers DEF Bounded, PresignOpen, JobFits
<1>1. WorkerGoes(w, "idle", NoJob) BY OneGoes DEF PresignOpen
<1>2. RunsFit' /\ CountsFit' BY RunsStay, CountsStay DEF PresignOpen, clips
<1>3. CASE SessionOf(f) # {}
      BY <1>1, <1>2, <1>3, RowsStay, EndsBounded DEF PresignOpen, Bounded, sessions, clips, history
<1>4. CASE SessionOf(f) = {}
      <2>1. /\ opened' = s /\ upload' = [upload EXCEPT ![s] = u] /\ file' = [file EXCEPT ![s] = f]
            BY <1>4 DEF PresignOpen
      <2>2. w \in Opening BY DEF Opening, PresignOpen
      <2>3. Opening' \subseteq Opening \ {w} /\ Making' \subseteq Making
            BY <1>0, <1>1, OpeningMoves, MakingMoves
      <2>4. s <= MaxUpload /\ Room(Opening', s, MaxUpload) /\ Room(Making', added, MaxClip)
            BY <1>0, <2>2, <2>3, RoomGiven, RoomShrinks DEF HandlersFit
      <2>5. JobFits("idle", NoJob, opened', added)
            BY <1>0, <2>1, NoJobFits DEF JobFits, NoJob
      <2>6. /\ (pc \in [Worker -> Steps])' /\ (job \in [Worker -> Job])'
            /\ \A v \in Worker : JobFits(pc'[v], job'[v], opened', added')
            BY <1>0, <1>1, <2>1, <2>5, JobsMove DEF PresignOpen, clips
      <2>7. HandlersFit' BY <2>1, <2>4, <2>6 DEF HandlersFit, PresignOpen, clips
      <2>8. u \in Session BY <1>0 DEF Session
      <2> HIDE DEF u
      <2>9. SessionsFit'
            <3>1. s \in Upload /\ u.file = f BY <1>0, <2>4 DEF Upload, u
            <3>2. \A r \in Upload : /\ upload'[r] = IF r = s THEN u ELSE upload[r]
                                    /\ file'[r] = IF r = s THEN f ELSE file[r]
                  BY <2>1 DEF Bounded, SessionsFit, SessionsOK
            <3>3. SessionsOK'
                  <4>1. (upload \in [Upload -> Session \union {None}])' /\ (file \in [Upload -> Length])'
                        BY <1>0, <2>1, <2>8 DEF SessionsFit, SessionsOK, Length
                  <4>2. opened' \in 0..MaxUpload BY <1>0, <2>1, <2>4
                  <4>3. (stored \subseteq 1..opened)'
                        BY <1>0, <2>1 DEF PresignOpen, SessionsFit, SessionsOK
                  <4> QED BY <1>0, <4>1, <4>2, <4>3 DEF SessionsFit, SessionsOK, PresignOpen, history
            <3>4. \A r \in Upload : r <= opened' => file'[r] \in File
                  BY <1>0, <2>1, <3>1, <3>2 DEF SessionsFit, Upload
            <3>5. ASSUME NEW r \in Upload, upload'[r] # None
                  PROVE  r <= opened' /\ upload'[r].file = file'[r]
                  <4>1. CASE r = s BY <1>0, <2>1, <3>1, <3>2, <4>1
                  <4>2. CASE r # s
                        BY <1>0, <2>1, <3>2, <3>5, <4>2 DEF SessionsFit, Open, Upload
                  <4> QED BY <4>1, <4>2
            <3> QED BY <3>3, <3>4, <3>5 DEF SessionsFit, Open
      <2>10. ClipsFit'
            BY <1>0, <2>1, ClipsStay DEF PresignOpen, history, ClipsFit, VideosOK
      <2> QED BY <1>2, <2>7, <2>9, <2>10 DEF Bounded
<1> QED BY <1>3, <1>4

LEMMA CompleteAttachBounded ==
  ASSUME Bounded, NEW w \in Worker, CompleteAttach(w)
  PROVE  Bounded'
<1> DEFINE s == job[w].upload  hint == job[w].file
           c == IF job[w].clip = 0 THEN added + 1 ELSE job[w].clip
           j == [job[w] EXCEPT !.clip = c]
           fails == upload[s] = None \/ (job[w].clip # 0 /\ clip[c] = None)
           new == [status |-> "PUBLISHED", seconds |-> hint, key |-> s, length |-> hint,
                   state |-> "PENDING", known |-> FALSE]
<1>0. /\ SessionsFit /\ ClipsFit /\ HandlersFit /\ opened \in Nat /\ added \in Nat
      /\ MaxUpload \in Nat /\ MaxClip \in Nat /\ s \in Upload /\ s <= opened /\ hint \in Length
      /\ job[w] \in Job /\ job[w].clip \in 0..added /\ pc[w] = "attach" /\ JobFits("attach", job[w], opened, added)
      BY BoundedIsOK, MaxesAreNumbers, JobNumbers DEF Bounded, CompleteAttach, JobFits, OfUpload, Job
<1>1. /\ UNCHANGED <<opened, file, stored, task, bounds, wiped>>
      /\ CountsFit'
      BY CountsStay DEF CompleteAttach
<1>2. CASE fails
      <2>1. WorkerGoes(w, "idle", NoJob) /\ UNCHANGED <<upload, clips, crossed, completed>>
            BY <1>2, OneGoes DEF CompleteAttach
      <2>2. SessionsFit' /\ ClipsFit' BY <1>1, <2>1, RowsStay DEF sessions, history
      <2>3. HandlersFit' /\ RunsFit' BY <1>1, <2>1, EndsBounded, RunsStay DEF clips
      <2> QED BY <1>1, <2>2, <2>3 DEF Bounded
<1>3. CASE ~fails
      <2>1. /\ Marked(s, "COMPLETED") /\ completed' = [completed EXCEPT ![s] = @ + 1]
            /\ pc' = [pc EXCEPT ![w] = "schedule"] /\ job' = [job EXCEPT ![w].clip = c]
            BY <1>3 DEF CompleteAttach
      <2>2. WorkerGoes(w, "schedule", j) BY <1>0, <2>1 DEF WorkerGoes, HandlersFit
      <2>3. (completed \in [Upload -> Nat])' BY <1>0, <2>1 DEF SessionsFit, SessionsOK
      <2>4. SessionsFit' BY <1>0, <1>1, <2>1, <2>3, MarkedFits
      <2>5. CASE job[w].clip = 0
            <3>1. clip' = [clip EXCEPT ![c] = new] /\ added' = c /\ UNCHANGED crossed /\ c = added + 1
                  BY <1>3, <2>5 DEF CompleteAttach
            <3>2. w \in Making BY <1>0, <2>5 DEF Making
            <3>3. Opening' \subseteq Opening /\ Making' \subseteq Making \ {w}
                  BY <1>0, <2>2, OpeningMoves, MakingMoves
            <3>4. c <= MaxClip /\ Room(Opening', opened, MaxUpload) /\ Room(Making', c, MaxClip)
                  BY <1>0, <3>1, <3>2, <3>3, RoomGiven, RoomShrinks DEF HandlersFit
            <3>5. new \in Video BY <1>0 DEF Video
            <3>11. new.key = s OBVIOUS
            <3>6. c \in Clip /\ new.key = s /\ new # None
                  <4> HIDE DEF new
                  <4> QED BY <1>0, <3>1, <3>4, <3>5, <3>11, RowsAreThere DEF Clip
            <3> HIDE DEF new
            <3>7. \A d \in Clip : clip'[d] = IF d = c THEN new ELSE clip[d]
                  BY <1>0, <3>1 DEF ClipsFit, VideosOK
            <3>8. ClipsFit'
                  <4>1. VideosOK'
                        <5>1. (clip \in [Clip -> Video \union {None}])'
                              BY <1>0, <3>1, <3>5 DEF ClipsFit, VideosOK
                        <5>2. added' \in 0..MaxClip BY <1>0, <3>1, <3>4
                        <5> QED BY <1>0, <1>1, <3>1, <5>1, <5>2 DEF ClipsFit, VideosOK
                  <4>2. \A d \in Clip : d > added' => clip'[d] = None
                        BY <1>0, <3>1, <3>7 DEF ClipsFit, Clip
                  <4>3. \A d \in Clip : clip'[d] # None => clip'[d].key <= opened
                        BY <1>0, <3>6, <3>7 DEF ClipsFit, Here
                  <4> QED BY <1>1, <4>1, <4>2, <4>3 DEF ClipsFit, Here
            <3>9. JobFits("schedule", j, opened, c)
                  <4>1. j \in Job /\ j.clip = c /\ j.upload = s BY <1>0, <3>6 DEF Job, Clip
                  <4> HIDE DEF j
                  <4> QED BY <1>0, <3>1, <3>6, <4>1 DEF JobFits, Steps, UploadSteps, OfUpload, Clip
            <3> HIDE DEF j
            <3>10. HandlersFit'
                  <4>1. /\ (pc \in [Worker -> Steps])' /\ (job \in [Worker -> Job])'
                        /\ \A v \in Worker : JobFits(pc'[v], job'[v], opened', added')
                        BY <1>0, <1>1, <2>2, <3>1, <3>9, JobsMove
                  <4> QED BY <1>1, <3>1, <3>4, <4>1 DEF HandlersFit
            <3>12. RunsFit'
                  <4>1. \A t \in Task : RunFits(task[t], added) /\ task[t].clip \in 0..added
                        BY RunNumbers
                  <4>2. \A t \in Task : RunFits(task[t], added')
                        BY <1>0, <3>1, <4>1 DEF RunFits
                  <4> QED BY <1>1, <4>2 DEF RunsFit, Bounded
            <3> QED BY <1>1, <2>4, <3>8, <3>10, <3>12 DEF Bounded
      <2>6. CASE job[w].clip # 0
            <3> DEFINE v == Replaced(clip[c], s, hint)
            <3>1. /\ clip' = [clip EXCEPT ![c] = v] /\ Requeued(c) /\ UNCHANGED added
                  /\ c = job[w].clip /\ clip[c] # None
                  BY <1>3, <2>6 DEF CompleteAttach
            <3>2. c \in Clip /\ c \in Here
                  BY <1>0, <2>6, <3>1, JobNumbers DEF Here
            <3>3. clip[c] \in Video BY <3>2, RowNumbers
            <3>4. v \in Video /\ v.key = s
                  BY <1>0, <3>3 DEF Replaced, Hinted, Video
            <3>5. crossed' \subseteq Clip BY <1>0, <3>1, <3>2 DEF Requeued, ClipsFit, VideosOK
            <3> HIDE DEF v
            <3>6. ClipsFit' BY <1>0, <1>1, <3>1, <3>2, <3>4, <3>5, ClipsChange
            <3>7. j = job[w] BY <1>0, <3>1 DEF Job
            <3>8. JobFits("schedule", j, opened, added)
                  BY <1>0, <3>1, <3>7, <2>6 DEF JobFits, Steps, UploadSteps, OfUpload
            <3> HIDE DEF j
            <3>9. HandlersFit' /\ RunsFit'
                  BY <1>1, <2>2, <3>1, <3>8, HandlersMove, RunsStay
            <3> QED BY <1>1, <2>4, <3>6, <3>9 DEF Bounded
      <2> QED BY <2>5, <2>6
<1> QED BY <1>2, <1>3

\* A step of a run that changes the video it is about, or none.
LEMMA RunGoesBounded ==
  ASSUME Bounded, NEW t \in Task, NEW r, Goes(t, r), RunFits(r, added),
         UNCHANGED <<sessions, stored, added, handler, bounds, history>>,
         \/ clip' = clip
         \/ \E v \in Video : task[t].clip \in Here /\ v.key = clip[task[t].clip].key
                           /\ clip' = [clip EXCEPT ![task[t].clip] = v]
  PROVE  Bounded'
<1>0. SessionsFit /\ ClipsFit BY DEF Bounded
<1>1. SessionsFit' BY <1>0, SessionsStay DEF SessionsFit, SessionsOK, history
<1>2. HandlersFit' /\ RunsFit' /\ CountsFit'
      BY HandlersStay, RunsGo, CountsStay DEF sessions
<1>3. crossed' \subseteq Clip /\ UNCHANGED <<opened, added>> /\ opened \in Nat
      BY <1>0, BoundedIsOK, MaxesAreNumbers DEF ClipsFit, VideosOK, history, sessions
<1>4. CASE clip' = clip
      <2>1. ClipsFit' BY <1>3, <1>4, ClipsStay DEF clips
      <2> QED BY <1>1, <1>2, <2>1 DEF Bounded
<1>5. CASE clip' # clip
      <2>1. PICK v \in Video : /\ task[t].clip \in Here /\ v.key = clip[task[t].clip].key
                              /\ clip' = [clip EXCEPT ![task[t].clip] = v]
            BY <1>5
      <2> DEFINE c == task[t].clip
      <2>2. c \in Clip /\ v.key <= opened BY <2>1, RowNumbers
      <2> HIDE DEF c
      <2>3. v \in Video \union {None} /\ c \in Here /\ clip' = [clip EXCEPT ![c] = v]
            BY <2>1 DEF c
      <2>4. ClipsFit' BY <1>3, <2>2, <2>3, ClipsChange
      <2> QED BY <1>1, <1>2, <2>4 DEF Bounded
<1> QED BY <1>4, <1>5

\* A run that is under way, with another step or length, is still a run.
LEMMA RunGoesOnFits ==
  ASSUME Bounded, NEW t \in Task, task[t].at # "idle",
         NEW at \in {"claim", "probe", "write", "item", "fail"},
         NEW r, r \in Run, r.at = at, r.clip = task[t].clip,
         at \in {"claim", "probe"} => r.probed = None
  PROVE  RunFits(r, added)
<1>1. NoRun.at = "idle" BY DEF NoRun
<1> QED BY <1>1, RunNumbers DEF RunFits

LEMMA TasksBounded ==
  ASSUME Bounded, NEW t \in Task, ProceedTask(t)
  PROVE  Bounded'
<1> DEFINE c == task[t].clip  run == task[t]
<1>0. /\ SessionsFit /\ ClipsFit /\ run \in Run /\ run.at # "idle" /\ c \in Clip
      /\ RunFits(NoRun, added) /\ UNCHANGED <<sessions, stored, added, handler, bounds, history>>
      BY NoRunFits, RunNumbers
         DEF Bounded, ProceedTask, TaskRead, TaskClaim, TaskProbe, TaskReady, TaskItem, TaskFail, clips
<1>1. c \in Here => clip[c] \in Video BY RowNumbers
<1>2. CASE TaskRead(t)
      <2> DEFINE r == [run EXCEPT !.at = "claim", !.key = clip[c].key, !.length = clip[c].length]
      <2>1. CASE c \notin Here
            BY <1>0, <1>2, <2>1, RunGoesBounded DEF TaskRead, Onward, clips
      <2>2. CASE c \in Here
            <3>1. clip[c].key \in 0..MaxUpload /\ clip[c].length \in Length
                  BY <1>1, <2>2, MaxesAreNumbers DEF Video, Upload
            <3>2. r \in Run /\ r.at = "claim" /\ r.clip = run.clip /\ r.probed = run.probed
                  BY <1>0, <3>1 DEF Run
            <3>5. run.probed = None BY <1>2, RunNumbers DEF TaskRead, RunFits
            <3>3. Goes(t, r) BY <1>2, <2>2 DEF TaskRead, Onward
            <3> HIDE DEF r
            <3>4. RunFits(r, added) BY <1>0, <3>2, <3>5, RunGoesOnFits
            <3> QED BY <1>0, <1>2, <3>3, <3>4, RunGoesBounded DEF TaskRead, clips
      <2> QED BY <2>1, <2>2
<1>3. CASE TaskClaim(t)
      <2> DEFINE r == [run EXCEPT !.at = "probe"]  v == [clip[c] EXCEPT !.state = "PROCESSING"]
      <2>1. CASE c \notin Here
            BY <1>0, <1>3, <2>1, RunGoesBounded DEF TaskClaim, SetState, Onward
      <2>2. CASE c \in Here
            <3>4. run.probed = None BY <1>3, RunNumbers DEF TaskClaim, RunFits
            <3>1. /\ r \in Run /\ r.at = "probe" /\ r.clip = run.clip /\ r.probed = run.probed
                  /\ v \in Video /\ v.key = clip[c].key
                  BY <1>0, <1>1, <2>2 DEF Run, Video
            <3>2. Goes(t, r) /\ clip' = [clip EXCEPT ![c] = v]
                  BY <1>3, <2>2 DEF TaskClaim, SetState, Onward
            <3> HIDE DEF r, v
            <3>3. RunFits(r, added) BY <1>0, <3>1, <3>4, RunGoesOnFits
            <3> QED BY <1>0, <2>2, <3>1, <3>2, <3>3, RunGoesBounded
      <2> QED BY <2>1, <2>2
<1>4. CASE TaskProbe(t)
      <2>1. \A s \in Upload : s \in stored => file[s] \in Length
            BY <1>0 DEF SessionsFit, SessionsOK
      <2>2. run.key \in stored => run.key \in Upload
            <3>1. stored \subseteq 1..opened /\ opened \in 0..MaxUpload
                  BY <1>0 DEF SessionsFit, SessionsOK
            <3>2. opened \in Nat /\ opened <= MaxUpload BY <3>1, MaxesAreNumbers
            <3>3. 1..opened \subseteq 1..MaxUpload BY <3>2, MaxesAreNumbers
            <3> QED BY <3>1, <3>3 DEF Upload
      <2>3. /\ [run EXCEPT !.at = "write"] \in Run /\ [run EXCEPT !.at = "fail"] \in Run
            /\ run.key \in stored => [run EXCEPT !.at = "write", !.probed = file[run.key]] \in Run
            BY <1>0, <2>1, <2>2 DEF Run
      <2>4. \E r : /\ Goes(t, r) /\ r \in Run /\ r.clip = run.clip
                  /\ r.at \in {"write", "fail"}
            BY <1>0, <1>4, <2>3 DEF TaskProbe, Run
      <2>5. PICK r : /\ Goes(t, r) /\ r \in Run /\ r.clip = run.clip
                     /\ r.at \in {"write", "fail"}
            BY <2>4
      <2>6. RunFits(r, added) BY <1>0, <2>5, RunGoesOnFits
      <2> QED BY <1>0, <1>4, <2>5, <2>6, RunGoesBounded DEF TaskProbe, clips
<1>5. CASE TaskReady(t)
      <2> DEFINE r == [run EXCEPT !.at = "item"]
                 v == [clip[c] EXCEPT !.state = "READY", !.length = Hinted(run.probed, @),
                                      !.known = (run.probed # None)]
      <2>1. CASE c \notin Here
            BY <1>0, <1>5, <2>1, RunGoesBounded DEF TaskReady, Onward
      <2>2. CASE c \in Here
            <3>1. r \in Run /\ r.at = "item" /\ r.clip = run.clip /\ v \in Video /\ v.key = clip[c].key
                  BY <1>0, <1>1, <2>2 DEF Run, Video, Hinted
            <3>2. Goes(t, r) /\ clip' = [clip EXCEPT ![c] = v]
                  BY <1>0, <1>5, <2>2 DEF TaskReady, Onward, ClipsFit, VideosOK
            <3> HIDE DEF r, v
            <3>3. RunFits(r, added) BY <1>0, <3>1, RunGoesOnFits
            <3> QED BY <1>0, <2>2, <3>1, <3>2, <3>3, RunGoesBounded
      <2> QED BY <2>1, <2>2
<1>6. CASE TaskItem(t)
      <2> DEFINE v == [clip[c] EXCEPT !.seconds = Hinted(Hinted(run.probed, run.length), @)]
      <2>1. CASE c \notin Here
            BY <1>0, <1>6, <2>1, RunGoesBounded DEF TaskItem
      <2>2. CASE c \in Here
            <3>1. v \in Video /\ v.key = clip[c].key
                  BY <1>0, <1>1, <2>2 DEF Run, Video, Hinted
            <3>2. Goes(t, NoRun) /\ clip' = [clip EXCEPT ![c] = v]
                  BY <1>6, <2>2 DEF TaskItem
            <3> HIDE DEF v
            <3> QED BY <1>0, <2>2, <3>1, <3>2, RunGoesBounded
      <2> QED BY <2>1, <2>2
<1>7. CASE TaskFail(t)
      <2> DEFINE v == [clip[c] EXCEPT !.state = "FAILED"]
      <2>1. CASE c \notin Here
            BY <1>0, <1>7, <2>1, RunGoesBounded DEF TaskFail, SetState
      <2>2. CASE c \in Here
            <3>1. v \in Video /\ v.key = clip[c].key BY <1>1, <2>2 DEF Video
            <3>2. Goes(t, NoRun) /\ clip' = [clip EXCEPT ![c] = v]
                  BY <1>7, <2>2 DEF TaskFail, SetState
            <3> HIDE DEF v
            <3> QED BY <1>0, <2>2, <3>1, <3>2, RunGoesBounded
      <2> QED BY <2>1, <2>2
<1> QED BY <1>2, <1>3, <1>4, <1>5, <1>6, <1>7 DEF ProceedTask

LEMMA StopsBounded ==
  ASSUME Bounded,
         \/ \E w \in Worker : Stop(w)
         \/ \E t \in Task : StopTask(t)
         \/ \E f \in File : PresignResumed(f)
  PROVE  Bounded'
<1>0. SessionsFit /\ ClipsFit BY DEF Bounded
<1>1. ASSUME NEW w \in Worker, Stop(w) PROVE Bounded'
      <2>1. UNCHANGED <<sessions, clips, task, requests, crossed, completed>>
            BY <1>1 DEF Stop
      <2>2. job[w].upload \in Upload \/ job[w].upload = 0 BY JobNumbers
      <2>3. pc[w] \in {"stream", "delete"} => job[w].upload \in Upload
            BY <2>2, JobNumbers DEF JobFits, OfUpload
      <2>4. stored' \subseteq stored /\ wiped' \subseteq Upload
            BY <1>0, <1>1, <2>3 DEF Stop, Breaks, SessionsFit, SessionsOK
      <2>5. SessionsFit' BY <1>0, <2>1, <2>4, SessionsStay DEF SessionsFit, SessionsOK
      <2>6. ClipsFit' BY <1>0, <2>1, ClipsStay, BoundedIsOK DEF sessions, ClipsFit, VideosOK
      <2>7. HandlersFit' BY <1>1, <2>1, OneGoes, EndsBounded DEF Stop, sessions, clips
      <2>8. RunsFit' /\ CountsFit' BY <1>1, <2>1, RunsStay, CountsStay DEF Stop, clips
      <2> QED BY <2>5, <2>6, <2>7, <2>8 DEF Bounded
<1>2. ASSUME NEW t \in Task, StopTask(t) PROVE Bounded'
      <2>1. UNCHANGED <<sessions, stored, clips, handler, requests, completed, wiped>>
            BY <1>2 DEF StopTask
      <2>2. task[t].clip \in Clip BY <1>2, RunNumbers DEF StopTask, RunFits
      <2>3. SessionsFit' BY <1>0, <2>1, SessionsStay DEF SessionsFit, SessionsOK
      <2>4. crossed' \subseteq Clip BY <1>0, <1>2, <2>2 DEF StopTask, ClipsFit, VideosOK
      <2>5. ClipsFit' BY <1>0, <2>1, <2>4, ClipsStay, BoundedIsOK DEF sessions
      <2>6. RunsFit' BY <1>2, <2>1, RunsGo, NoRunFits DEF StopTask, clips
      <2>7. HandlersFit' /\ CountsFit'
            BY <1>2, <2>1, HandlersStay, CountsStay DEF StopTask, sessions, clips
      <2> QED BY <2>3, <2>5, <2>6, <2>7 DEF Bounded
<1>3. ASSUME NEW f \in File, PresignResumed(f) PROVE Bounded'
      <2>1. SessionsFit' /\ ClipsFit' BY <1>3, RowsStay DEF PresignResumed
      <2>2. HandlersFit' /\ RunsFit' /\ CountsFit'
            BY <1>3, HandlersStay, RunsStay, CountsStay DEF PresignResumed, sessions, clips
      <2> QED BY <2>1, <2>2 DEF Bounded
<1> QED BY <1>1, <1>2, <1>3

\* Every step of the uploads leaves what is there within its bounds.
LEMMA UploadsBounded ==
  ASSUME Bounded, UploadsNext
  PROVE  Bounded'
  BY PresignsBounded, PresignFreeBounded, PresignOpenBounded, ReceivesBounded, CompleteStartBounded,
     CompleteAttachBounded, ScheduleBounded, WipeBounded, RemovesBounded, StartsBounded,
     TasksBounded, StopsBounded
     DEF UploadsNext, ProceedUpload


-----------------------------------------------------------------------------
(* Every step keeps Bounded *)

LEMMA NothingFits ==
  ASSUME Bounded, NEW step \in PublishSteps
  PROVE  JobFits(step, NoJob, opened, added)
         /\ step \notin {"free", "open", "attach"} \union UploadSteps
  BY NoJobFits DEF JobFits, OfUpload, OfClip, Steps, UploadSteps, PublishSteps

\* A publish or a submission that goes on leaves the uploads alone.
LEMMA PublishesBounded ==
  ASSUME Bounded, NEW w \in Worker,
         PublishStart(w) \/ ReviewStart(w) \/ ProceedPublish(w) \/ StopPublish(w)
  PROVE  Bounded'
<1>1. UNCHANGED <<sessions, stored, clips, task, history>>
      BY DEF PublishStart, ReviewStart, ProceedPublish, PublishCommit, SnapshotTree, SnapshotNumber,
             SnapshotCreate, ReviewSubmit, StopPublish, Elsewhere
<1>2. CASE PublishStart(w) \/ ReviewStart(w)
      <2>1. PICK step \in {"publish", "review"} : Begin(w, step, NoJob)
            BY <1>2 DEF PublishStart, ReviewStart
      <2>2. JobFits(step, NoJob, opened, added) /\ step \notin {"free", "open", "attach"}
            BY NothingFits DEF PublishSteps
      <2> QED BY <1>1, <2>1, <2>2, BeginsBounded
<1>3. CASE ProceedPublish(w) \/ StopPublish(w)
      <2>1. pc[w] \in PublishSteps
            BY <1>3 DEF ProceedPublish, PublishCommit, SnapshotTree, SnapshotNumber, SnapshotCreate,
                        ReviewSubmit, StopPublish, PublishSteps
      <2>2. \/ WorkerGoes(w, "idle", NoJob)
            \/ \E step \in {"snapshot", "number", "record"} : WorkerGoes(w, step, job[w])
            BY <1>3, OneGoes DEF ProceedPublish, PublishCommit, SnapshotTree, SnapshotNumber, SnapshotCreate,
                        ReviewSubmit, StopPublish, Leave
      <2>3. SessionsFit' /\ ClipsFit' /\ RunsFit'
            BY <1>1, RowsStay, RunsStay DEF clips
      <2>4. CountsFit'
            BY <1>3, CountsStay
               DEF ProceedPublish, PublishCommit, SnapshotTree, SnapshotNumber, SnapshotCreate,
                   ReviewSubmit, StopPublish
      <2>5. \A step \in {"snapshot", "number", "record"} : JobFits(step, job[w], opened, added)
            BY JobNumbers DEF JobFits, OfUpload, OfClip, Steps, PublishSteps
      <2>6. HandlersFit'
            BY <1>1, <2>2, <2>5, EndsBounded, HandlersMove DEF sessions, clips
      <2> QED BY <2>3, <2>4, <2>6 DEF Bounded
<1> QED BY <1>2, <1>3

LEMMA ItemsBounded ==
  ASSUME Bounded, NEW i \in Clip \union {Text}, SetItemStatus(i) \/ DropItem(i)
  PROVE  Bounded'
<1>0. /\ SessionsFit /\ ClipsFit /\ Ask
      /\ UNCHANGED <<sessions, stored, added, handler, task, history>>
      BY DEF SetItemStatus, DropItem, Bounded
<1>1. HandlersFit' /\ RunsFit' /\ CountsFit'
      BY <1>0, HandlersStay, RunsStay, CountsStay DEF sessions
<1>2. SessionsFit' BY <1>0, SessionsStay DEF SessionsFit, SessionsOK, history
<1>3. crossed' \subseteq Clip /\ UNCHANGED <<opened, added>> /\ opened \in Nat
      BY <1>0, BoundedIsOK, MaxesAreNumbers DEF ClipsFit, VideosOK, history, sessions
<1>4. CASE clip' = clip
      <2>1. ClipsFit' BY <1>0, <1>3, <1>4, ClipsStay DEF clips
      <2> QED BY <1>1, <1>2, <2>1 DEF Bounded
<1>5. CASE clip' # clip
      <2> DEFINE shown == [clip[i] EXCEPT !.status = Other(@)]
      <2>1. /\ i \in Here
            /\ clip' = [clip EXCEPT ![i].status = Other(@)] \/ clip' = [clip EXCEPT ![i] = None]
            BY <1>5 DEF SetItemStatus, DropItem
      <2>2. clip[i] \in Video /\ clip[i].key <= opened /\ i \in Clip BY <2>1, RowNumbers
      <2>3. shown \in Video /\ shown.key = clip[i].key BY <2>2 DEF Video, Other
      <2>4. \E v \in {shown, None} : clip' = [clip EXCEPT ![i] = v] BY <2>1
      <2> HIDE DEF shown
      <2>5. PICK v \in {shown, None} : clip' = [clip EXCEPT ![i] = v] BY <2>4
      <2>6. v \in Video \union {None} /\ (v # None => i \in Here /\ v.key <= opened)
            BY <2>1, <2>2, <2>3
      <2>7. ClipsFit' BY <1>0, <1>3, <2>2, <2>5, <2>6, ClipsChange
      <2> QED BY <1>1, <1>2, <2>7 DEF Bounded
<1> QED BY <1>4, <1>5

\* Requests that are about to make an item lose their lesson.
LEMMA ReplaceBounded ==
  ASSUME Bounded, NEW live \in BOOLEAN, ReplaceLessons(live)
  PROVE  Bounded'
<1>0. /\ SessionsFit /\ ClipsFit /\ HandlersFit /\ Ask
      /\ UNCHANGED <<sessions, stored, added, task, history>>
      /\ clip' = [c \in Clip |-> None]
      /\ pc' = [w \in Worker |-> IF w \in Making THEN "idle" ELSE pc[w]]
      /\ job' = [w \in Worker |-> IF w \in Making THEN NoJob ELSE job[w]]
      BY DEF ReplaceLessons, Bounded
<1>1. RunsFit' /\ CountsFit' BY <1>0, RunsStay, CountsStay
<1>2. SessionsFit' BY <1>0, SessionsStay DEF SessionsFit, SessionsOK, history
<1>3. ClipsFit' BY <1>0 DEF ClipsFit, VideosOK, Here, history, sessions
<1>4. HandlersFit'
      <2>1. NoJob \in Job /\ "idle" \in Steps /\ JobFits("idle", NoJob, opened, added)
            BY NoJobFits DEF JobFits
      <2>2. (pc \in [Worker -> Steps])' /\ (job \in [Worker -> Job])'
            BY <1>0, <2>1 DEF HandlersFit
      <2>3. \A w \in Worker : JobFits(pc'[w], job'[w], opened', added')
            BY <1>0, <2>1 DEF HandlersFit, sessions
      <2>4. Opening' \subseteq Opening /\ Making' \subseteq Making
            BY <1>0 DEF Opening, Making
      <2>5. opened \in Nat /\ added \in Nat BY BoundedIsOK, MaxesAreNumbers
      <2>6. Room(Opening', opened, MaxUpload) /\ Room(Making', added, MaxClip)
            BY <1>0, <2>4, <2>5, RoomShrinks, MaxesAreNumbers DEF HandlersFit
      <2> QED BY <1>0, <2>2, <2>3, <2>6 DEF HandlersFit, sessions
<1> QED BY <1>1, <1>2, <1>3, <1>4 DEF Bounded

\* A step of the course, or of a lesson, that touches no item but a text.
CourseStep ==
  \/ TakeDown \/ Approve \/ Reject \/ DeleteOther
  \/ \E status \in ItemStatus :
       \/ AddText(status) \/ UpdateLesson(status)
       \/ \E filled \in BOOLEAN : AddOther(status, filled) \/ UpdateOther(status, filled)

LEMMA NextBounded ==
  ASSUME Bounded, [Next]_vars
  PROVE  Bounded'
<1>1. CASE UNCHANGED vars
      <2>1. UNCHANGED <<sessions, stored, clips, handler, task, bounds, history>>
            BY <1>1 DEF vars, uploads
      <2> QED BY <2>1, RowsStay, HandlersStay, RunsStay, CountsStay DEF Bounded, sessions, clips
<1>2. CASE CourseStep
      <2>1. UNCHANGED <<sessions, stored, clips, handler, task, history>> /\ Ask
            BY <1>2 DEF CourseStep, TakeDown, Approve, Reject, DeleteOther, AddText, UpdateLesson,
                        AddOther, UpdateOther, Lessons, Elsewhere
      <2> QED BY <2>1, RowsStay, HandlersStay, RunsStay, CountsStay DEF Bounded, sessions, clips
<1> QED BY <1>1, <1>2, UploadsBounded, PublishesBounded, ItemsBounded, ReplaceBounded
        DEF Next, PublishingNext, VideosNext, AllQuiet, CourseStep

LEMMA InitBounded ==
  ASSUME Init
  PROVE  Bounded
<1>0. UploadsInit BY DEF Init
<1>1. PICK fs \in Earlier :
       /\ opened = Len(fs) /\ stored = 1..Len(fs)
       /\ file = [s \in Upload |-> IF s <= Len(fs) THEN fs[s] ELSE None]
       /\ upload = [s \in Upload |->
            IF s > Len(fs) THEN None
            ELSE [file |-> fs[s], status |-> IF s = 1 THEN "COMPLETED" ELSE "UPLOADING",
                  expired |-> FALSE]]
       /\ added = IF fs = <<>> THEN 0 ELSE 1
       /\ clip = [c \in Clip |->
            IF c > added THEN None
            ELSE [status |-> "PUBLISHED", seconds |-> fs[1], key |-> 1, length |-> fs[1],
                  state |-> "READY", known |-> TRUE]]
      BY <1>0 DEF UploadsInit
<1>2. /\ Len(fs) \in 0..2 /\ Len(fs) <= MaxUpload /\ \A i \in 1..Len(fs) : fs[i] \in File
      /\ fs = <<>> <=> Len(fs) = 0
      <2>1. CASE fs = <<>> BY <2>1, MaxesAreNumbers
      <2>2. CASE \E f \in File : fs = <<f>> BY <2>2, MaxesAreNumbers
      <2>3. CASE \E p \in {q \in File \X File : q[1] # q[2] /\ MaxUpload > 1} : fs = <<p[1], p[2]>>
            <3>1. PICK p \in File \X File : MaxUpload > 1 /\ fs = <<p[1], p[2]>> BY <2>3
            <3>2. Len(fs) = 2 /\ fs # <<>> BY <3>1
            <3>3. \A i \in 1..2 : fs[i] \in File BY <3>1
            <3> QED BY <3>1, <3>2, <3>3, MaxesAreNumbers
      <2> QED BY <2>1, <2>2, <2>3 DEF Earlier
<1>3. added \in {0, 1} /\ opened \in 0..MaxUpload /\ added \in 0..MaxClip /\ (added = 1 => fs[1] \in File /\ opened >= 1)
      BY <1>1, <1>2, MaxesAreNumbers
<1>4. SessionsFit
      <2>1. \A s \in Upload : s \in Int /\ s >= 1 BY DEF Upload
      <2>2. \A s \in Upload : /\ s <= Len(fs) => /\ file[s] = fs[s] /\ fs[s] \in File
                                                 /\ upload[s] \in Session /\ upload[s].file = fs[s]
                              /\ ~(s <= Len(fs)) => file[s] = None /\ upload[s] = None
            BY <1>1, <1>2, <2>1 DEF Session
      <2>3. (upload \in [Upload -> Session \union {None}]) /\ file \in [Upload -> Length]
            BY <1>1, <2>2 DEF Length
      <2>4. completed \in [Upload -> Nat] /\ wiped = {}
            <3>1. IsFiniteSet(Clip) BY MaxesAreNumbers, FS_Interval DEF Clip
            <3>2. \A s \in Upload : Cardinality({c \in Here : clip[c].key = s}) \in Nat
                  <4> TAKE s \in Upload
                  <4>1. {c \in Here : clip[c].key = s} \subseteq Clip BY DEF Here
                  <4> QED BY <3>1, <4>1, FS_Subset, FS_CardinalityType
            <3> QED BY <1>0, <3>2 DEF UploadsInit
      <2> QED BY <1>1, <1>2, <1>3, <2>2, <2>3, <2>4 DEF SessionsFit, SessionsOK, Open
<1>5. ClipsFit
      <2> DEFINE v == [status |-> "PUBLISHED", seconds |-> fs[1], key |-> 1, length |-> fs[1],
                       state |-> "READY", known |-> TRUE]
      <2>1. added = 1 => v \in Video /\ v.key = 1
            BY <1>3, MaxesAreNumbers DEF Video, Upload, Length
      <2>2. \A c \in Clip : c \in Int /\ c >= 1 BY DEF Clip
      <2>3. \A c \in Clip : clip[c] = IF c > added THEN None ELSE v BY <1>1
      <2> HIDE DEF v
      <2>4. \A c \in Clip : (c > added /\ clip[c] = None) \/ (added = 1 /\ clip[c] = v)
            BY <1>3, <2>2, <2>3, MaxesAreNumbers
      <2>5. clip \in [Clip -> Video \union {None}] BY <1>1, <2>1, <2>4
      <2>6. \A c \in Here : clip[c].key <= opened
            BY <1>3, <2>1, <2>4, MaxesAreNumbers DEF Here
      <2> QED BY <1>0, <1>3, <2>4, <2>5, <2>6 DEF ClipsFit, VideosOK, UploadsInit
<1>6. /\ pc = [w \in Worker |-> "idle"] /\ job = [w \in Worker |-> NoJob] /\ task = [t \in Task |-> NoRun]
      BY <1>0 DEF UploadsInit
<1>7. JobFits("idle", NoJob, opened, added) /\ RunFits(NoRun, added)
      BY <1>3, MaxesAreNumbers
         DEF JobFits, RunFits, Job, Run, NoJob, NoRun, Steps, Length, OfUpload, OfClip
<1>8. HandlersFit
      <2>1. Opening = {} /\ Making = {} BY <1>6 DEF Opening, Making
      <2>2. Room(Opening, opened, MaxUpload) /\ Room(Making, added, MaxClip)
            BY <1>3, <2>1, MaxesAreNumbers, EmptyRoom
      <2> QED BY <1>6, <1>7, <2>2 DEF HandlersFit, JobFits
<1>9. RunsFit BY <1>6, <1>7 DEF RunsFit, RunFits
<1>10. CountsFit BY <1>0, MaxesAreNumbers DEF CountsFit, UploadsInit
<1> QED BY <1>4, <1>5, <1>8, <1>9, <1>10 DEF Bounded

-----------------------------------------------------------------------------
(* Publishing *)

\* What the course's going live rests on, or may yet rest on, found no lesson that
\* shows nothing; the publish left none that is a draft.
Live ==
  /\ basis.by = "checklist" => basis.cuts + Unseen <= cuts
  /\ basis.by = "school" => basis.cuts + Hollow <= cuts
  /\ course.status = "REVIEW" => checked + Hollow <= cuts
  /\ \A w \in Worker : pc[w] \in {"publish", "review"} => draft[w].cuts + Hollow <= cuts

\* Of two publishes that are being recorded, each has met the other; what one
\* has read is no older than any version there, or it has met another.
Recorded(w) ==
  /\ w \in Recording => draft[w].began + Hidden <= edits
  /\ \A v \in Recording \ {w} : w \in Recording => draft[w].met
  /\ pc[w] \in {"number", "record"} =>
       /\ draft[w].began + draft[w].hidden <= draft[w].edits /\ draft[w].edits <= edits
       /\ draft[w].met \/ \A i \in DOMAIN versions : versions[i].edits <= draft[w].edits
  /\ pc[w] = "record" =>
       draft[w].last <= Len(versions) /\ (draft[w].met \/ draft[w].last = Len(versions))

Versioned ==
  /\ IsFiniteSet(Recording)
  /\ \A i \in DOMAIN versions : versions[i].edits <= edits
  /\ VersionsHold
  /\ \A w \in Worker : Recorded(w)

CourseInv == PublishingOK /\ Live /\ Versioned

Version == [edits : Nat, hidden : Nat, began : Nat, met : BOOLEAN]

LEMMA VersionsTyped ==
  ASSUME PublishingOK
  PROVE  /\ versions \in Seq(Version) /\ Len(versions) \in Nat /\ DOMAIN versions = 1..Len(versions)
         /\ \A i \in DOMAIN versions : versions[i] \in Version /\ versions[i].edits \in Nat
<1>1. versions \in Seq(Version) BY DEF PublishingOK, Version
<1>2. Len(versions) \in Nat /\ DOMAIN versions = 1..Len(versions) BY <1>1
<1>3. \A i \in DOMAIN versions : versions[i] \in Version BY <1>1, <1>2
<1> QED BY <1>1, <1>2, <1>3 DEF Version

\* The requests of the uploads are not those that publish.
LEMMA UploadsAside ==
  ASSUME Bounded, UploadsNext
  PROVE  \A w \in Worker : pc[w] \in PublishSteps \/ pc'[w] \in PublishSteps => pc'[w] = pc[w]
<1>1. \/ UNCHANGED pc
      \/ \E w \in Worker, step \in {"idle"} \union UploadSteps :
           pc[w] \in {"idle"} \union UploadSteps /\ pc' = [pc EXCEPT ![w] = step]
      <2>1. ASSUME NEW w \in Worker, ProceedUpload(w) \/ Stop(w)
            PROVE  \E step \in {"idle"} \union UploadSteps :
                     pc[w] \in {"idle"} \union UploadSteps /\ pc' = [pc EXCEPT ![w] = step]
            <3>1. pc[w] \in UploadSteps
                  BY <2>1 DEF ProceedUpload, PresignFree, PresignOpen, ReceiveMark, ReceiveStream,
                              ReceiveBreak, ReceiveFail, CompleteAttach, Schedule, Wipe, AbortMark,
                              RemoveDelete, RetryRequeue, Stop, UploadSteps
            <3>2. \E step \in {"idle", "open", "stream", "fail", "schedule", "abort", "delete"} :
                    pc' = [pc EXCEPT ![w] = step]
                  BY <2>1 DEF ProceedUpload, PresignFree, PresignOpen, ReceiveMark, ReceiveStream,
                              ReceiveBreak, ReceiveFail, CompleteAttach, Schedule, Wipe, AbortMark,
                              RemoveDelete, RetryRequeue, Stop, Continue, Finish, ContinueIf
            <3> QED BY <3>1, <3>2 DEF UploadSteps
      <2>2. ASSUME NEW w \in Worker,
                   \/ \E f \in File : PresignStart(w, f)
                   \/ \E s \in Upload : \/ PresignAgain(w, s) \/ ReceiveStart(w, s) \/ AbortStart(w, s)
                                        \/ \E c \in Clip \union {0}, hint \in Length :
                                             CompleteStart(w, s, c, hint)
                   \/ \E c \in Clip : RemoveStart(w, c) \/ RetryStart(w, c)
            PROVE  \E step \in {"idle"} \union UploadSteps :
                     pc[w] \in {"idle"} \union UploadSteps /\ pc' = [pc EXCEPT ![w] = step]
            BY <2>2 DEF PresignStart, PresignAgain, ReceiveStart, AbortStart, CompleteStart, RemoveStart,
                        RetryStart, Begin, UploadSteps
      <2>3. ASSUME \/ \E t \in Task : ProceedTask(t) \/ StopTask(t)
                   \/ \E f \in File : PresignResumed(f)
            PROVE  UNCHANGED pc
            BY <2>3 DEF ProceedTask, TaskRead, TaskClaim, TaskProbe, TaskReady, TaskItem, TaskFail,
                        StopTask, PresignResumed, handler
      <2> QED BY <2>1, <2>2, <2>3 DEF UploadsNext
<1>2. \A step \in {"idle"} \union UploadSteps : step \notin PublishSteps
      BY DEF UploadSteps, PublishSteps
<1> QED BY <1>1, <1>2 DEF Bounded, HandlersFit

\* What students see is part of the tree.
LEMMA TreeShows ==
  ASSUME Bounded, Bounded', Tree' = Tree
  PROVE  Visible' = Visible
<1>1. text' = text /\ \A c \in Clip : Tree'.clips[c] = Tree.clips[c] BY DEF Tree
<1>2. \A c \in Clip : (IF c \in Here' THEN clip'[c].status ELSE "none")
                        = (IF c \in Here THEN clip[c].status ELSE "none")
      BY <1>1 DEF Tree
<1>3. /\ \A c \in Here : clip[c].status \in {"PUBLISHED", "DRAFT"}
      /\ \A c \in Here' : clip'[c].status \in {"PUBLISHED", "DRAFT"}
      <2>1. \A c \in Here : clip[c] \in Video BY RowNumbers
      <2>2. \A c \in Here' : clip'[c] \in Video
            BY DEF Bounded, ClipsFit, VideosOK, Here
      <2> QED BY <2>1, <2>2 DEF Video
<1>4. \A c \in Clip : (c \in Here <=> c \in Here') /\ (c \in Here => clip'[c].status = clip[c].status)
      BY <1>2, <1>3
<1> QED BY <1>1, <1>4 DEF Visible, Here

LEMMA NotedCounts ==
  ASSUME Bounded, Bounded', Noted, edits \in Nat, cuts \in 0..edits
  PROVE  /\ edits' \in Nat /\ edits <= edits' /\ cuts' \in 0..edits'
         /\ (cuts' = cuts /\ Visible \subseteq Visible') \/ cuts' = cuts + 1
<1>1. CASE UNCHANGED <<clip, text>>
      <2>1. Visible' = Visible BY <1>1 DEF Visible, Here
      <2> QED BY <1>1, <2>1 DEF Noted
<1>2. CASE ~UNCHANGED <<clip, text>> /\ Tree' = Tree BY <1>2, TreeShows DEF Noted
<1>3. CASE ~UNCHANGED <<clip, text>> /\ Tree' # Tree BY <1>3 DEF Noted
<1> QED BY <1>1, <1>2, <1>3

\* How many required lessons are wrong, in each of the three ways.
LEMMA Gaps ==
  /\ Hidden \in Nat /\ Hollow \in Nat /\ Unseen \in Nat
  /\ Hidden' \in Nat /\ Hollow' \in Nat /\ Unseen' \in Nat
  BY DEF Hidden, Hollow, Unseen, Count

\* A total and what is left out of it: more of it, one more of each, and what was
\* to hold.
LEMMA SumsKept    == \A n, m, g, h \in Nat : n <= m /\ h <= g => n + h <= m + g
  OBVIOUS
LEMMA SumsCounted == \A n, m, g, h \in Nat : m = n + 1 /\ h <= g + 1 => n + h <= m + g
  OBVIOUS
LEMMA SumsHold    == \A k, n, m, g, h \in Nat : k + g <= n /\ n + h <= m + g => k + h <= m
  OBVIOUS

\* A change of lessons and items counts what it may make wrong.
Grows ==
  /\ edits' \in Nat /\ cuts' \in 0..edits' /\ edits <= edits'
  /\ edits + Hidden' <= edits' + Hidden
  /\ cuts + Hollow' <= cuts' + Hollow
  /\ cuts + Unseen' <= cuts' + Unseen

LEMMA ItemsGrow ==
  ASSUME PublishingOK, Bounded, Bounded', Noted, UNCHANGED <<lesson, other>>
  PROVE  Grows
<1>1. /\ edits \in Nat /\ cuts \in 0..edits
      /\ edits' \in Nat /\ edits <= edits' /\ cuts' \in 0..edits'
      /\ (cuts' = cuts /\ Visible \subseteq Visible') \/ cuts' = cuts + 1
      BY NotedCounts DEF PublishingOK
<1>2. Hidden' = Hidden BY DEF Hidden
<1>3. Hollow' <= Hollow + 1 /\ Unseen' <= Unseen + 1 BY DEF Hollow, Unseen, Count
<1>4. Visible \subseteq Visible' => Hollow' <= Hollow /\ Unseen' <= Unseen
      BY DEF Hollow, Unseen, Count
<1>5. Hidden' <= Hidden BY <1>2, Gaps
<1>6. cuts \in Nat /\ cuts' \in Nat BY <1>1
<1>7. edits + Hidden' <= edits' + Hidden BY <1>1, <1>5, Gaps, SumsKept, SumsCounted
<1>8. cuts + Hollow' <= cuts' + Hollow /\ cuts + Unseen' <= cuts' + Unseen
      <2>1. CASE cuts' = cuts /\ Visible \subseteq Visible'
            <3>1. cuts <= cuts' BY <1>6, <2>1
            <3> QED BY <1>4, <1>6, <2>1, <3>1, Gaps, SumsKept, SumsCounted
      <2>2. CASE cuts' = cuts + 1 BY <1>3, <1>6, <2>2, Gaps, SumsKept, SumsCounted
      <2> QED BY <1>1, <2>1, <2>2
<1> QED BY <1>1, <1>7, <1>8 DEF Grows

LEMMA LessonsGrow ==
  ASSUME PublishingOK,
         \/ DeleteOther
         \/ \E status \in ItemStatus :
              \/ UpdateLesson(status)
              \/ \E filled \in BOOLEAN : AddOther(status, filled) \/ UpdateOther(status, filled)
  PROVE  Grows /\ lesson' \in ItemStatus /\ other' \in Lesson
<1>1. edits \in Nat /\ cuts \in 0..edits /\ lesson \in ItemStatus /\ other \in Lesson
      BY DEF PublishingOK
<1>2. UNCHANGED <<clip, text>> /\ Visible' = Visible
      BY DEF DeleteOther, UpdateLesson, AddOther, UpdateOther, Lessons, Elsewhere, clips, Visible, Here
<1>3. CASE DeleteOther
      <2>1. other' = NoLesson /\ ~other'.there /\ NoLesson \in Lesson /\ UNCHANGED lesson
            /\ edits' = edits + 1 /\ cuts' = cuts
            BY <1>1, <1>3 DEF DeleteOther, NoLesson, Lesson, ItemStatus, LessonNoted, Count
      <2>2. Hidden' <= Hidden /\ Hollow' <= Hollow /\ Unseen' <= Unseen
            BY <1>2, <2>1 DEF Hidden, Hollow, Unseen, Count
      <2>3. /\ edits' \in Nat /\ cuts' \in 0..edits' /\ edits <= edits' /\ cuts <= cuts'
            /\ cuts \in Nat /\ cuts' \in Nat
            BY <1>1, <2>1
      <2>4. edits + Hidden' <= edits' + Hidden BY <1>1, <2>2, <2>3, Gaps, SumsKept, SumsCounted
      <2>5. cuts + Hollow' <= cuts' + Hollow /\ cuts + Unseen' <= cuts' + Unseen
            BY <2>2, <2>3, Gaps, SumsKept, SumsCounted
      <2>6. Grows BY <2>3, <2>4, <2>5 DEF Grows
      <2> QED BY <1>1, <2>1, <2>6
<1>4. ASSUME NEW status \in ItemStatus, UpdateLesson(status)
      PROVE  Grows /\ lesson' \in ItemStatus /\ other' \in Lesson
      <2>1. /\ lesson' = status /\ UNCHANGED other /\ edits' = edits + 1
            /\ cuts' = IF status = "DRAFT" THEN cuts + 1 ELSE cuts
            BY <1>1, <1>4 DEF UpdateLesson, LessonNoted, Count
      <2>2. Hollow' = Hollow /\ Hidden' <= Hidden + 1 /\ Unseen' <= Unseen + 1
            BY <1>2, <2>1 DEF Hidden, Hollow, Unseen, Count
      <2>3. status # "DRAFT" => Unseen' <= Unseen
            BY <1>2, <2>1 DEF Unseen, Count
      <2>4. /\ edits' \in Nat /\ cuts' \in 0..edits' /\ edits <= edits' /\ cuts <= cuts'
            /\ cuts \in Nat /\ cuts' \in Nat /\ (status = "DRAFT" => cuts' = cuts + 1)
            BY <1>1, <2>1
      <2>9. edits' = edits + 1 /\ Hidden' <= Hidden + 1 /\ edits \in Nat BY <1>1, <2>1, <2>2
      <2>5. edits + Hidden' <= edits' + Hidden BY <2>4, <2>9, Gaps, SumsCounted
      <2>6. Hollow' <= Hollow BY <2>2, Gaps
      <2>7. cuts + Hollow' <= cuts' + Hollow BY <2>4, <2>6, Gaps, SumsKept, SumsCounted
      <2>8. cuts + Unseen' <= cuts' + Unseen
            <3>1. CASE status = "DRAFT" BY <2>2, <2>4, <3>1, Gaps, SumsKept, SumsCounted
            <3>2. CASE status # "DRAFT" BY <2>3, <2>4, <3>2, Gaps, SumsKept, SumsCounted
            <3> QED BY <3>1, <3>2
      <2>10. Grows BY <2>4, <2>5, <2>7, <2>8 DEF Grows
      <2> QED BY <1>1, <2>1, <2>10
<1>5. ASSUME NEW status \in ItemStatus, NEW filled \in BOOLEAN,
             AddOther(status, filled) \/ UpdateOther(status, filled)
      PROVE  Grows /\ lesson' \in ItemStatus /\ other' \in Lesson
      <2>1. other' \in Lesson /\ other'.there /\ other'.status = status /\ other'.filled = filled
            <3>1. CASE AddOther(status, filled) BY <1>1, <3>1 DEF AddOther, Lesson
            <3>2. CASE UpdateOther(status, filled)
                  <4>1. other' = [other EXCEPT !.status = status, !.filled = filled] /\ other.there
                        BY <3>2 DEF UpdateOther
                  <4> QED BY <1>1, <4>1 DEF Lesson
            <3> QED BY <1>5, <3>1, <3>2
      <2>2. /\ UNCHANGED lesson /\ edits' = edits + 1
            /\ cuts' = cuts \/ cuts' = cuts + 1
            /\ status = "DRAFT" \/ ~filled => cuts' = cuts + 1
            <3>1. CASE AddOther(status, filled) BY <1>1, <3>1 DEF AddOther, LessonNoted, Count
            <3>2. CASE UpdateOther(status, filled)
                  <4>1. /\ UNCHANGED lesson /\ edits' = edits + 1
                        /\ cuts' = cuts + Count(status = "DRAFT" \/ ~filled)
                        BY <3>2 DEF UpdateOther, LessonNoted
                  <4>2. CASE status = "DRAFT" \/ ~filled BY <1>1, <4>1, <4>2 DEF Count
                  <4>3. CASE ~(status = "DRAFT" \/ ~filled) BY <1>1, <4>1, <4>3 DEF Count
                  <4> QED BY <4>1, <4>2, <4>3
            <3> QED BY <1>5, <3>1, <3>2
      <2>3. Hidden' <= Hidden + 1 /\ Hollow' <= Hollow + 1 /\ Unseen' <= Unseen + 1
            BY <1>2, <2>2 DEF Hidden, Hollow, Unseen, Count
      <2>4. filled => Hollow' <= Hollow
            BY <1>2, <2>1, <2>2 DEF Hollow, Count
      <2>5. filled /\ status # "DRAFT" => Unseen' <= Unseen
            BY <1>2, <2>1, <2>2 DEF Unseen, Count
      <2>6. /\ edits' \in Nat /\ cuts' \in 0..edits' /\ edits <= edits' /\ cuts <= cuts'
            /\ cuts \in Nat /\ cuts' \in Nat
            BY <1>1, <2>2
      <2>9. edits' = edits + 1 /\ Hidden' <= Hidden + 1 /\ edits \in Nat BY <1>1, <2>2, <2>3
      <2>7. edits + Hidden' <= edits' + Hidden BY <2>6, <2>9, Gaps, SumsCounted
      <2>8. cuts + Hollow' <= cuts' + Hollow /\ cuts + Unseen' <= cuts' + Unseen
            <3>1. CASE cuts' = cuts + 1 BY <2>3, <2>6, <3>1, Gaps, SumsKept, SumsCounted
            <3>2. CASE cuts' # cuts + 1
                  <4>1. filled /\ status # "DRAFT" BY <2>2, <3>2
                  <4> QED BY <2>4, <2>5, <2>6, <4>1, Gaps, SumsKept, SumsCounted
            <3> QED BY <3>1, <3>2
      <2>10. Grows BY <2>6, <2>7, <2>8 DEF Grows
      <2> QED BY <1>1, <2>1, <2>2, <2>10
<1> QED BY <1>3, <1>4, <1>5

\* The course wizard leaves one lesson, that may show nothing.
LEMMA ReplaceGrows ==
  ASSUME PublishingOK, NEW live \in BOOLEAN, ReplaceLessons(live)
  PROVE  /\ Grows /\ lesson' \in ItemStatus /\ other' \in Lesson /\ text' \in TextStatus
         /\ \A w \in Worker : pc[w] \in PublishSteps \/ pc'[w] \in PublishSteps => pc'[w] = pc[w]
<1>1. edits \in Nat /\ cuts \in 0..edits BY DEF PublishingOK
<1>2. /\ lesson' = "PUBLISHED" /\ other' = NoLesson /\ ~other'.there
      /\ edits' = edits + 1 /\ cuts' = cuts + 1
      BY DEF ReplaceLessons, LessonNoted, Count, NoLesson
<1>3. Hidden' = 0 /\ Hollow' <= 1 /\ Unseen' <= 1
      BY <1>2 DEF Hidden, Hollow, Unseen, Count
<1>4. Grows
      <2>1. /\ edits' \in Nat /\ cuts' \in 0..edits' /\ edits <= edits'
            /\ cuts \in Nat /\ cuts' \in Nat /\ 0 \in Nat /\ 1 \in Nat
            BY <1>1, <1>2
      <2>2. \A g \in Nat : 0 <= g /\ 1 <= g + 1 OBVIOUS
      <2>3. Hidden' <= Hidden BY <1>3, <2>2, Gaps
      <2>4. \A g, h \in Nat : h <= 1 => h <= g + 1 OBVIOUS
      <2>5. Hollow' <= Hollow + 1 /\ Unseen' <= Unseen + 1 BY <1>3, <2>4, Gaps
      <2>6. edits + Hidden' <= edits' + Hidden BY <1>1, <2>1, <2>3, Gaps, SumsKept, SumsCounted
      <2>7. cuts + Hollow' <= cuts' + Hollow /\ cuts + Unseen' <= cuts' + Unseen
            BY <1>2, <2>1, <2>5, Gaps, SumsKept, SumsCounted
      <2> QED BY <2>1, <2>6, <2>7 DEF Grows
<1>5. lesson' \in ItemStatus /\ other' \in Lesson /\ text' \in TextStatus
      BY <1>2 DEF ReplaceLessons, NoLesson, Lesson, ItemStatus, TextStatus
<1>6. \A w \in Worker : pc[w] \in PublishSteps \/ pc'[w] \in PublishSteps => pc'[w] = pc[w]
      BY DEF ReplaceLessons, Making, PublishSteps
<1> QED BY <1>4, <1>5, <1>6

\* Lessons and items change: what was checked and recorded stays as good as it was.
LEMMA CourseSeesChanges ==
  ASSUME CourseInv, Bounded', Grows,
         text' \in TextStatus, lesson' \in ItemStatus, other' \in Lesson,
         UNCHANGED <<versions, draft, checked, commits, spoiled>>,
         \/ UNCHANGED <<course, basis>>
         \/ course' = [status |-> "PUBLISHED", published |-> TRUE] /\ basis' = Unfounded,
         \A w \in Worker : pc[w] \in PublishSteps \/ pc'[w] \in PublishSteps => pc'[w] = pc[w]
  PROVE  CourseInv'
<1>0. PublishingOK /\ Live /\ Versioned BY DEF CourseInv
<1>1. /\ edits' \in Nat /\ cuts' \in Nat /\ edits <= edits' /\ cuts \in Nat /\ edits \in Nat
      BY <1>0 DEF PublishingOK, Grows
<1>2. PublishingOK'
      <2>1. (pc \in [Worker -> {"idle"} \union UploadSteps \union PublishSteps])'
            BY DEF Bounded, HandlersFit, Steps
      <2>2. \A w \in Worker : pc'[w] \notin PublishSteps => draft'[w] = NoDraft
            BY <1>0 DEF PublishingOK
      <2>3. course' \in [status : CourseStatus, published : BOOLEAN] /\ basis' \in Basis
            <3>1. [status |-> "PUBLISHED", published |-> TRUE] \in [status : CourseStatus, published : BOOLEAN]
                  BY DEF CourseStatus
            <3>2. Unfounded \in Basis BY DEF Unfounded, Basis
            <3> QED BY <1>0, <3>1, <3>2 DEF PublishingOK
      <2>4. edits' \in Nat /\ cuts' \in 0..edits' BY DEF Grows
      <2> QED BY <1>0, <2>1, <2>2, <2>3, <2>4 DEF PublishingOK
<1>3. Live'
      <2>1. \A n \in Nat : n + Hollow <= cuts => n + Hollow' <= cuts'
            <3>1. cuts + Hollow' <= cuts' + Hollow BY DEF Grows
            <3> QED BY <1>1, <3>1, Gaps, SumsHold
      <2>2. \A n \in Nat : n + Unseen <= cuts => n + Unseen' <= cuts'
            <3>1. cuts + Unseen' <= cuts' + Unseen BY DEF Grows
            <3> QED BY <1>1, <3>1, Gaps, SumsHold
      <2>3. basis.cuts \in Nat /\ checked \in Nat /\ \A w \in Worker : draft[w].cuts \in Nat
            BY <1>0 DEF PublishingOK, Basis, Draft
      <2>4. \A w \in Worker : pc'[w] \in {"publish", "review"} => draft[w].cuts + Hollow <= cuts
            BY <1>0 DEF Live, PublishSteps
      <2>5. course'.status = "REVIEW" => course.status = "REVIEW"
            BY <1>0 DEF PublishingOK
      <2>6. basis' = basis \/ basis'.by = "nobody" BY DEF Unfounded
      <2> QED BY <1>0, <2>1, <2>2, <2>3, <2>4, <2>5, <2>6 DEF Live
<1>4. Versioned'
      <2>1. Recording' = Recording BY DEF Recording, PublishSteps
      <2>2. \A i \in DOMAIN versions : versions[i].edits \in Nat BY <1>0, VersionsTyped
      <2>3. \A w \in Worker : draft[w].edits \in Nat /\ draft[w].began \in Nat
            BY <1>0 DEF PublishingOK, Draft
      <2>4. VersionsHold' BY <1>0, <2>1 DEF Versioned, VersionsHold, VersionsInOrder, PublishesAreRecorded
      <2>5. \A w \in Worker : Recorded(w)'
            <3> TAKE w \in Worker
            <3>1. pc'[w] \in {"number", "record"} => pc[w] = pc'[w] BY DEF PublishSteps
            <3>2. Recorded(w) BY <1>0 DEF Versioned
            <3>3. pc'[w] \in {"number", "record"} => draft[w].edits <= edits'
                  BY <1>1, <2>3, <3>1, <3>2 DEF Recorded
            <3>5. edits + Hidden' <= edits' + Hidden BY DEF Grows
            <3>6. w \in Recording => draft[w].began + Hidden <= edits BY <3>2 DEF Recorded
            <3>7. /\ edits \in Nat /\ edits' \in Nat /\ draft[w].began \in Nat
                  /\ Hidden \in Nat /\ Hidden' \in Nat
                  BY <1>1, <2>3, Gaps
            <3>4. w \in Recording => draft[w].began + Hidden' <= edits'
                  BY <3>5, <3>6, <3>7, SumsHold
            <3> QED BY <2>1, <3>1, <3>2, <3>3, <3>4 DEF Recorded
      <2>6. \A i \in DOMAIN versions : versions[i].edits <= edits'
            BY <1>0, <1>1, <2>2 DEF Versioned
      <2> QED BY <1>0, <2>1, <2>4, <2>5, <2>6 DEF Versioned
<1> QED BY <1>2, <1>3, <1>4 DEF CourseInv

\* A step that leaves the lessons and the items alone.
Still == UNCHANGED <<clip, text, lesson, other, edits, cuts>>

LEMMA StillShown ==
  ASSUME Still
  PROVE  Hidden' = Hidden /\ Hollow' = Hollow /\ Unseen' = Unseen /\ cuts' = cuts /\ edits' = edits
<1>1. Visible' = Visible BY DEF Still, Visible, Here
<1> QED BY <1>1 DEF Still, Hidden, Hollow, Unseen

\* A worker's step and its draft.
LEMMA DraftsMove ==
  ASSUME PublishingOK, NEW w \in Worker, NEW step, NEW d \in Draft,
         step \in {"idle"} \union PublishSteps, step \notin PublishSteps => d = NoDraft,
         pc' = [pc EXCEPT ![w] = step], draft' = [draft EXCEPT ![w] = d]
  PROVE  /\ pc' \in [Worker -> {"idle"} \union UploadSteps \union PublishSteps]
         /\ draft' \in [Worker -> Draft]
         /\ \A v \in Worker : pc'[v] = (IF v = w THEN step ELSE pc[v])
                           /\ draft'[v] = (IF v = w THEN d ELSE draft[v])
         /\ \A v \in Worker : pc'[v] \notin PublishSteps => draft'[v] = NoDraft
<1>1. \A v \in Worker : pc'[v] = (IF v = w THEN step ELSE pc[v])
                     /\ draft'[v] = (IF v = w THEN d ELSE draft[v])
      BY DEF PublishingOK
<1>2. /\ pc' \in [Worker -> {"idle"} \union UploadSteps \union PublishSteps]
      /\ draft' \in [Worker -> Draft]
      BY DEF PublishingOK
<1> QED BY <1>1, <1>2 DEF PublishingOK

LEMMA DraftTyped ==
  /\ NoDraft \in Draft
  /\ \A d \in Draft : d.cuts \in Nat /\ d.edits \in Nat /\ d.last \in Nat /\ d.met \in BOOLEAN
                    /\ d.hidden \in Nat /\ d.began \in Nat
  BY DEF NoDraft, Draft

\* A publish or a submission begins on lessons that all show something.
LEMMA StartsKeepCourse ==
  ASSUME CourseInv, Bounded, NEW w \in Worker, PublishStart(w) \/ ReviewStart(w)
  PROVE  CourseInv'
<1> DEFINE d == [NoDraft EXCEPT !.cuts = cuts]
<1>0. PublishingOK /\ Live /\ Versioned BY DEF CourseInv
<1>1. PICK step \in {"publish", "review"} : Begin(w, step, NoJob)
      BY DEF PublishStart, ReviewStart
<1>2. /\ pc[w] = "idle" /\ pc' = [pc EXCEPT ![w] = step] /\ draft' = [draft EXCEPT ![w] = d]
      /\ Ready /\ UNCHANGED <<course, lesson, text, other, versions, record, clips>>
      BY <1>1 DEF PublishStart, ReviewStart, Begin, Noting, Elsewhere
<1>3. d \in Draft /\ d.cuts = cuts /\ cuts \in Nat /\ edits \in Nat
      <2>1. edits \in Nat /\ cuts \in Nat BY <1>0 DEF PublishingOK
      <2>2. NoDraft \in Draft
            /\ NoDraft \in [cuts : Nat, edits : Nat, hidden : Nat, last : Nat, began : Nat, met : BOOLEAN]
            BY DraftTyped DEF Draft
      <2>3. d \in Draft /\ d.cuts = cuts BY <2>1, <2>2 DEF Draft
      <2> QED BY <2>1, <2>3
<1>4. Still BY <1>2 DEF Still, record, clips
<1>9. Hollow = 0
      BY <1>2 DEF Ready, Contents, Hollow, Count
<1> HIDE DEF d
<1>5. /\ pc' \in [Worker -> {"idle"} \union UploadSteps \union PublishSteps]
      /\ draft' \in [Worker -> Draft]
      /\ \A v \in Worker : pc'[v] = (IF v = w THEN step ELSE pc[v])
                        /\ draft'[v] = (IF v = w THEN d ELSE draft[v])
      /\ \A v \in Worker : pc'[v] \notin PublishSteps => draft'[v] = NoDraft
      BY <1>0, <1>2, <1>3, DraftsMove DEF PublishSteps
<1>6. PublishingOK' BY <1>0, <1>2, <1>5 DEF PublishingOK, record
<1>7. Live'
      <2>1. \A v \in Worker : pc'[v] \in {"publish", "review"} => draft'[v].cuts + Hollow <= cuts
            BY <1>0, <1>2, <1>3, <1>5, <1>9 DEF Live
      <2> QED BY <1>0, <1>2, <1>4, <2>1, StillShown DEF Live, record
<1>8. Versioned'
      <2>1. Recording' = Recording BY <1>2, <1>5 DEF Recording
      <2>2. w \notin Recording BY <1>2 DEF Recording
      <2>3. \A v \in Worker : Recorded(v)'
            BY <1>0, <1>2, <1>4, <1>5, <2>1, <2>2, StillShown DEF Versioned, Recorded, Recording, record
      <2> QED BY <1>0, <1>2, <2>1, <2>3
              DEF Versioned, VersionsHold, VersionsInOrder, PublishesAreRecorded, record
<1> QED BY <1>6, <1>7, <1>8 DEF CourseInv

\* The steps of the school and of a teacher that run alone.
LEMMA DecisionsKeepCourse ==
  ASSUME CourseInv, Bounded, TakeDown \/ Approve \/ Reject
  PROVE  CourseInv'
<1>0. PublishingOK /\ Live /\ Versioned BY DEF CourseInv
<1>1. UNCHANGED <<clips, pc, lesson, text, other, versions, draft, edits, cuts, checked, commits, spoiled>>
      BY DEF TakeDown, Approve, Reject, Elsewhere, handler, record
<1>2. Still BY <1>1 DEF Still, clips
<1>3. Recording' = Recording BY <1>1 DEF Recording
<1>4. course' \in [status : CourseStatus, published : BOOLEAN] /\ basis' \in Basis
      <2>1. /\ course \in [status : CourseStatus, published : BOOLEAN]
            /\ basis \in Basis /\ Unfounded \in Basis /\ [by |-> "school", cuts |-> checked] \in Basis
            BY <1>0 DEF PublishingOK, Basis, Unfounded
      <2>2. /\ [status |-> "DOWN", published |-> FALSE] \in [status : CourseStatus, published : BOOLEAN]
            /\ [status |-> "PUBLISHED", published |-> TRUE] \in [status : CourseStatus, published : BOOLEAN]
            /\ [course EXCEPT !.status = "DRAFT"] \in [status : CourseStatus, published : BOOLEAN]
            BY <2>1 DEF CourseStatus
      <2> QED BY <2>1, <2>2 DEF TakeDown, Approve, Reject, record
<1>5. PublishingOK' BY <1>0, <1>1, <1>4 DEF PublishingOK
<1>6. Live'
      <2>1. course'.status = "REVIEW" => course.status = "REVIEW"
            BY <1>0 DEF TakeDown, Approve, Reject, PublishingOK
      <2>2. \/ basis' = basis
            \/ basis' = Unfounded
            \/ course.status = "REVIEW" /\ basis' = [by |-> "school", cuts |-> checked]
            BY DEF TakeDown, Approve, Reject, record
      <2>3. basis'.by = "checklist" => basis'.cuts + Unseen <= cuts
            BY <1>0, <2>2 DEF Live, Unfounded
      <2>4. basis'.by = "school" => basis'.cuts + Hollow <= cuts
            BY <1>0, <2>2 DEF Live, Unfounded
      <2> QED BY <1>0, <1>1, <1>2, <2>1, <2>3, <2>4, StillShown DEF Live
<1>7. Versioned'
      <2>1. \A v \in Worker : Recorded(v)' BY <1>0, <1>1, <1>2, <1>3, StillShown DEF Versioned, Recorded
      <2> QED BY <1>0, <1>1, <1>3, <2>1
              DEF Versioned, VersionsHold, VersionsInOrder, PublishesAreRecorded
<1> QED BY <1>5, <1>6, <1>7 DEF CourseInv

\* A draft whose publish has, or has not, met another; and that of the commit.
Meeting(d, b) == [d EXCEPT !.met = b]
Beginning(d, b, e) == [d EXCEPT !.met = b, !.began = e]

LEMMA MeetingTyped ==
  ASSUME NEW d \in Draft, NEW b \in BOOLEAN
  PROVE  /\ Meeting(d, b) \in Draft /\ Meeting(d, b).met = b
         /\ Meeting(d, b).cuts = d.cuts /\ Meeting(d, b).edits = d.edits
         /\ Meeting(d, b).hidden = d.hidden /\ Meeting(d, b).last = d.last
         /\ Meeting(d, b).began = d.began
  BY DEF Meeting, Draft

LEMMA BeginningTyped ==
  ASSUME NEW d \in Draft, NEW b \in BOOLEAN, NEW e \in Nat
  PROVE  /\ Beginning(d, b, e) \in Draft
         /\ Beginning(d, b, e).met = b /\ Beginning(d, b, e).began = e
         /\ Beginning(d, b, e).cuts = d.cuts /\ Beginning(d, b, e).edits = d.edits
         /\ Beginning(d, b, e).hidden = d.hidden /\ Beginning(d, b, e).last = d.last
  BY DEF Beginning, Draft

\* The commit: the first of two publishes meets the second, and the second the first.
LEMMA CommitKeepsCourse ==
  ASSUME CourseInv, Bounded, NEW w \in Worker, PublishCommit(w)
  PROVE  CourseInv'
<1>0. PublishingOK /\ Live /\ Versioned BY DEF CourseInv
<1>1. /\ pc[w] = "publish" /\ lesson' = "PUBLISHED" /\ course' = [status |-> "PUBLISHED", published |-> TRUE]
      /\ other' = IF other.there THEN [other EXCEPT !.status = "PUBLISHED"] ELSE other
      /\ basis' = [by |-> "checklist", cuts |-> draft[w].cuts] /\ commits' = commits + 1
      /\ pc' = [pc EXCEPT ![w] = "snapshot"]
      /\ UNCHANGED <<clips, text, versions, edits, cuts, checked, spoiled>>
      BY DEF PublishCommit, Continue, Elsewhere
<1>2. Hidden' = 0 /\ Hollow' = Hollow /\ Unseen' = Hollow
      <2>1. Visible' = Visible BY <1>1 DEF Visible, Here, clips
      <2>2. other \in Lesson BY <1>0 DEF PublishingOK
      <2>3. /\ other' \in Lesson /\ other'.there = other.there /\ other'.filled = other.filled
            /\ other.there => other'.status = "PUBLISHED"
            BY <1>1, <2>2 DEF Lesson, ItemStatus
      <2> QED BY <1>1, <2>1, <2>2, <2>3 DEF Hidden, Hollow, Unseen, Count, Lesson
<1>3. /\ \A v \in Worker : draft[v] \in Draft
      /\ TRUE \in BOOLEAN /\ (Recording # {}) \in BOOLEAN /\ edits \in Nat
      BY <1>0 DEF PublishingOK
<1>4. /\ pc' \in [Worker -> {"idle"} \union UploadSteps \union PublishSteps]
      /\ \A v \in Worker : pc'[v] = (IF v = w THEN "snapshot" ELSE pc[v])
      BY <1>0, <1>1 DEF PublishingOK, PublishSteps
<1>5. w \notin Recording /\ Recording' = Recording \union {w}
      BY <1>1, <1>4 DEF Recording
<1>11. PICK b \in BOOLEAN : b = (Recording # {}) BY <1>3
<1>6. /\ draft' \in [Worker -> Draft]
      /\ \A v \in Recording : draft'[v] = Meeting(draft[v], TRUE)
      /\ draft'[w] = Beginning(draft[w], b, edits)
      /\ \A v \in Worker \ Recording : v # w => draft'[v] = draft[v]
      <2>1. \A v \in Worker : draft'[v] =
              (IF v \in Recording THEN Meeting(draft[v], TRUE)
               ELSE IF v = w THEN Beginning(draft[w], b, edits) ELSE draft[v])
            BY <1>11 DEF PublishCommit, Meeting, Beginning
      <2>2. Beginning(draft[w], b, edits) \in Draft BY <1>3, <1>11, BeginningTyped
      <2>3. \A v \in Worker : draft'[v] \in Draft BY <1>3, <2>1, <2>2, MeetingTyped
      <2>4. draft' = [v \in Worker |-> draft'[v]] BY DEF PublishCommit
      <2>5. draft' \in [Worker -> Draft] BY <2>3, <2>4
      <2> QED BY <1>5, <2>1, <2>5 DEF Recording
<1>7. \A v \in Worker : /\ draft'[v].cuts = draft[v].cuts /\ draft'[v].edits = draft[v].edits
                        /\ draft'[v].hidden = draft[v].hidden /\ draft'[v].last = draft[v].last
                        /\ v # w => draft'[v].began = draft[v].began
      <2> TAKE v \in Worker
      <2>1. CASE v \in Recording
            <3>1. draft'[v] = Meeting(draft[v], TRUE) /\ draft[v] \in Draft BY <1>3, <1>6, <2>1
            <3> QED BY <1>3, <3>1, MeetingTyped
      <2>2. CASE v = w
            <3>1. draft'[v] = Beginning(draft[v], b, edits) /\ draft[v] \in Draft
                  BY <1>3, <1>6, <2>2
            <3> QED BY <1>3, <2>2, <3>1, BeginningTyped
      <2>3. CASE v \notin Recording /\ v # w BY <1>6, <2>3
      <2> QED BY <2>1, <2>2, <2>3
<1>8. PublishingOK'
      <2>1. \A v \in Worker : pc'[v] \notin PublishSteps => draft'[v] = NoDraft
            BY <1>0, <1>4, <1>6 DEF PublishingOK, Recording, PublishSteps
      <2>2. course' \in [status : CourseStatus, published : BOOLEAN] /\ basis' \in Basis
            BY <1>1, <1>3, DraftTyped DEF CourseStatus, Basis
      <2>3. lesson' \in ItemStatus /\ commits' \in Nat /\ spoiled' \in 0..commits'
            BY <1>0, <1>1 DEF PublishingOK, ItemStatus
      <2>4. other' \in Lesson BY <1>0, <1>1 DEF PublishingOK, Lesson, ItemStatus
      <2> QED BY <1>0, <1>1, <1>4, <1>6, <2>1, <2>2, <2>3, <2>4 DEF PublishingOK
<1>9. Live'
      <2>1. draft[w].cuts + Hollow <= cuts BY <1>0, <1>1 DEF Live
      <2>2. ASSUME NEW v \in Worker, pc'[v] \in {"publish", "review"}
            PROVE  draft'[v].cuts + Hollow <= cuts
            <3>1. pc[v] \in {"publish", "review"} BY <1>4, <2>2
            <3>2. draft[v].cuts + Hollow <= cuts BY <1>0, <3>1 DEF Live
            <3> QED BY <1>7, <3>2
      <2> QED BY <1>0, <1>1, <1>2, <2>1, <2>2 DEF Live
<1>10. Versioned'
      <2>1. /\ IsFiniteSet(Recording') /\ Cardinality(Recording') = Cardinality(Recording) + 1
            /\ Cardinality(Recording) \in Nat
            BY <1>0, <1>5, FS_AddElement, FS_CardinalityType DEF Versioned
      <2>2. \A v \in Worker : Recorded(v)'
            <3> TAKE v \in Worker
            <3>1. Recorded(v) BY <1>0 DEF Versioned
            <3>2. \A u \in Recording' \ {v} : v \in Recording' => draft'[v].met
                  <4>1. CASE v \in Recording BY <1>3, <1>6, <4>1, MeetingTyped
                  <4>2. CASE v = w /\ Recording # {}
                        <5>1. draft'[v].met = b BY <1>3, <1>6, <1>11, <4>2, BeginningTyped
                        <5> QED BY <1>11, <4>2, <5>1
                  <4> QED BY <1>5, <4>1, <4>2
            <3>3. pc'[v] \in {"number", "record"} =>
                    v \in Recording /\ v # w /\ pc[v] = pc'[v] /\ draft'[v].met
                  BY <1>3, <1>4, <1>6, MeetingTyped DEF Recording
            <3>4. v \in Recording' => draft'[v].began + Hidden' <= edits'
                  <4>1. CASE v = w
                        <5>2. draft'[v] = Beginning(draft[v], b, edits) /\ draft[v] \in Draft
                              BY <1>3, <1>6, <4>1
                        <5>3. b \in BOOLEAN /\ edits \in Nat BY <1>3, <1>11
                        <5>4. Beginning(draft[v], b, edits).began = edits
                              BY <5>2, <5>3, BeginningTyped
                        <5>1. draft'[v].began = edits BY <5>2, <5>4
                        <5> QED BY <1>1, <1>2, <1>3, <5>1
                  <4>2. CASE v # w
                        <5>1. draft'[v].began = draft[v].began BY <1>7, <4>2
                        <5>2. v \in Recording' => draft[v].began + Hidden <= edits
                              BY <1>5, <3>1, <4>2 DEF Recorded
                        <5>3. draft[v] \in Draft BY <1>3
                        <5>4. draft[v].began \in Nat BY <5>3, DraftTyped
                        <5>5. \A k, n, g \in Nat : k + g <= n => k + 0 <= n OBVIOUS
                        <5>6. v \in Recording' => draft[v].began + 0 <= edits
                              BY <1>3, <5>2, <5>4, <5>5, Gaps
                        <5> QED BY <1>1, <1>2, <5>1, <5>6
                  <4> QED BY <4>1, <4>2
            <3>5. pc'[v] \in {"number", "record"} =>
                    /\ draft'[v].began = draft[v].began /\ draft'[v].hidden = draft[v].hidden
                    /\ draft'[v].edits = draft[v].edits /\ draft'[v].last = draft[v].last
                  BY <1>7, <3>3
            <3> QED BY <1>1, <3>1, <3>2, <3>3, <3>4, <3>5 DEF Recorded
      <2>3. VersionsHold'
            <3>1. Len(versions) \in Nat /\ commits \in Nat /\ spoiled \in Nat
                  BY <1>0, VersionsTyped DEF PublishingOK
            <3> QED BY <1>0, <1>1, <2>1, <3>1
                    DEF Versioned, VersionsHold, VersionsInOrder, PublishesAreRecorded
      <2> QED BY <1>0, <1>1, <2>1, <2>2, <2>3 DEF Versioned
<1> QED BY <1>8, <1>9, <1>10 DEF CourseInv

\* What the publish reads: the tree, and then the last number.
LEMMA ReadsKeepCourse ==
  ASSUME CourseInv, Bounded, NEW w \in Worker, SnapshotTree(w) \/ SnapshotNumber(w)
  PROVE  CourseInv'
<1>0. PublishingOK /\ Live /\ Versioned BY DEF CourseInv
<1>1. /\ draft[w] \in Draft /\ edits \in Nat /\ Len(versions) \in Nat /\ Hidden \in Nat
      /\ UNCHANGED <<clips, course, lesson, text, other, versions, record>> /\ w \in Recording
      BY <1>0, VersionsTyped, Gaps DEF PublishingOK, SnapshotTree, SnapshotNumber, Elsewhere, Recording
<1>2. \E step \in {"number", "record"} : \E d \in Draft :
        /\ pc' = [pc EXCEPT ![w] = step] /\ draft' = [draft EXCEPT ![w] = d]
        /\ d.met = draft[w].met /\ d.began = draft[w].began
        /\ \/ pc[w] = "snapshot" /\ step = "number" /\ d.edits = edits /\ d.hidden = Hidden
           \/ /\ pc[w] = "number" /\ step = "record" /\ d.last = Len(versions)
              /\ d.edits = draft[w].edits /\ d.hidden = draft[w].hidden
      <2>1. CASE SnapshotTree(w)
            <3> DEFINE d == [draft[w] EXCEPT !.edits = edits, !.hidden = Hidden]
            <3>1. /\ d \in Draft /\ d.met = draft[w].met /\ d.began = draft[w].began
                  /\ d.edits = edits /\ d.hidden = Hidden
                  BY <1>1 DEF Draft
            <3> QED BY <2>1, <3>1 DEF SnapshotTree, Noting, Continue
      <2>2. CASE SnapshotNumber(w)
            <3> DEFINE d == [draft[w] EXCEPT !.last = Len(versions)]
            <3>1. /\ d \in Draft /\ d.met = draft[w].met /\ d.began = draft[w].began /\ d.last = Len(versions)
                  /\ d.edits = draft[w].edits /\ d.hidden = draft[w].hidden
                  BY <1>1 DEF Draft
            <3> QED BY <2>2, <3>1 DEF SnapshotNumber, Noting, Continue
      <2> QED BY <2>1, <2>2
<1>3. PICK step \in {"number", "record"} : \E d \in Draft :
        /\ pc' = [pc EXCEPT ![w] = step] /\ draft' = [draft EXCEPT ![w] = d]
        /\ d.met = draft[w].met /\ d.began = draft[w].began
        /\ \/ pc[w] = "snapshot" /\ step = "number" /\ d.edits = edits /\ d.hidden = Hidden
           \/ /\ pc[w] = "number" /\ step = "record" /\ d.last = Len(versions)
              /\ d.edits = draft[w].edits /\ d.hidden = draft[w].hidden
      BY <1>2
<1>4. PICK d \in Draft :
        /\ pc' = [pc EXCEPT ![w] = step] /\ draft' = [draft EXCEPT ![w] = d]
        /\ d.met = draft[w].met /\ d.began = draft[w].began
        /\ \/ pc[w] = "snapshot" /\ step = "number" /\ d.edits = edits /\ d.hidden = Hidden
           \/ /\ pc[w] = "number" /\ step = "record" /\ d.last = Len(versions)
              /\ d.edits = draft[w].edits /\ d.hidden = draft[w].hidden
      BY <1>3
<1>5. /\ pc' \in [Worker -> {"idle"} \union UploadSteps \union PublishSteps]
      /\ draft' \in [Worker -> Draft]
      /\ \A v \in Worker : pc'[v] = (IF v = w THEN step ELSE pc[v])
                        /\ draft'[v] = (IF v = w THEN d ELSE draft[v])
      /\ \A v \in Worker : pc'[v] \notin PublishSteps => draft'[v] = NoDraft
      BY <1>0, <1>4, DraftsMove DEF PublishSteps
<1>6. Still /\ Recording' = Recording BY <1>1, <1>5 DEF Still, clips, record, Recording
<1>7. PublishingOK' BY <1>0, <1>1, <1>5 DEF PublishingOK, record
<1>8. Live'
      <2>1. \A v \in Worker : pc'[v] \in {"publish", "review"} => draft'[v].cuts + Hollow <= cuts
            BY <1>0, <1>5 DEF Live
      <2> QED BY <1>0, <1>1, <1>6, <2>1, StillShown DEF Live, record
<1>9. Versioned'
      <2>1. \A v \in Worker : draft'[v].met = draft[v].met BY <1>4, <1>5
      <2>2. \A v \in Worker \ {w} : Recorded(v)'
            BY <1>0, <1>1, <1>5, <1>6, StillShown DEF Versioned, Recorded, record
      <2>3. Recorded(w)'
            <3>1. Recorded(w) BY <1>0 DEF Versioned
            <3>2. pc'[w] = step /\ draft'[w] = d BY <1>5
            <3>3. draft[w].began + Hidden <= edits BY <1>1, <3>1 DEF Recorded
            <3>4. Hidden' = Hidden /\ edits' = edits /\ UNCHANGED versions BY <1>1, <1>6, StillShown
            <3> QED BY <1>0, <1>1, <1>4, <1>6, <2>1, <3>1, <3>2, <3>3, <3>4 DEF Recorded, Versioned
      <2> QED BY <1>0, <1>1, <1>6, <2>2, <2>3
              DEF Versioned, VersionsHold, VersionsInOrder, PublishesAreRecorded, record
<1> QED BY <1>7, <1>8, <1>9 DEF CourseInv

\* A publish or a submission ends.
LEMMA Leaves ==
  ASSUME PublishingOK, NEW w \in Worker, Leave(w)
  PROVE  /\ pc' \in [Worker -> {"idle"} \union UploadSteps \union PublishSteps]
         /\ draft' \in [Worker -> Draft]
         /\ \A v \in Worker : pc'[v] = (IF v = w THEN "idle" ELSE pc[v])
                           /\ draft'[v] = (IF v = w THEN NoDraft ELSE draft[v])
         /\ \A v \in Worker : pc'[v] \notin PublishSteps => draft'[v] = NoDraft
         /\ Recording' = Recording \ {w}
<1>1. /\ pc' = [pc EXCEPT ![w] = "idle"] /\ draft' = [draft EXCEPT ![w] = NoDraft]
      BY DEF Leave, Finish, Noting
<1>2. /\ pc' \in [Worker -> {"idle"} \union UploadSteps \union PublishSteps]
      /\ draft' \in [Worker -> Draft]
      /\ \A v \in Worker : pc'[v] = (IF v = w THEN "idle" ELSE pc[v])
                        /\ draft'[v] = (IF v = w THEN NoDraft ELSE draft[v])
      /\ \A v \in Worker : pc'[v] \notin PublishSteps => draft'[v] = NoDraft
      BY <1>1, DraftTyped, DraftsMove
<1>3. Recording' = Recording \ {w} BY <1>2 DEF Recording
<1> QED BY <1>2, <1>3

\* The publishes that are left when one has ended, by its version or without.
LEMMA OneFewer ==
  ASSUME CourseInv, NEW w \in Worker, Leave(w), Still,
         Len(versions') \in Nat, Len(versions) <= Len(versions'),
         w \in Recording \/ UNCHANGED versions
  PROVE  /\ IsFiniteSet(Recording') /\ Cardinality(Recording) \in Nat /\ Cardinality(Recording') \in Nat
         /\ Cardinality(Recording') = (IF w \in Recording THEN Cardinality(Recording) - 1
                                       ELSE Cardinality(Recording))
         /\ \A v \in Worker : Recorded(v)'
<1>0. PublishingOK /\ Versioned BY DEF CourseInv
<1>1. /\ \A v \in Worker : pc'[v] = (IF v = w THEN "idle" ELSE pc[v])
                        /\ draft'[v] = (IF v = w THEN NoDraft ELSE draft[v])
      /\ Recording' = Recording \ {w}
      BY <1>0, Leaves
<1>2. /\ IsFiniteSet(Recording)
      /\ w \in Recording => IsFiniteSet(Recording') /\ Cardinality(Recording') = Cardinality(Recording) - 1
      /\ w \notin Recording => Recording' = Recording
      BY <1>0, <1>1, FS_RemoveElement DEF Versioned
<1>3. Cardinality(Recording) \in Nat /\ Cardinality(Recording') \in Nat
      BY <1>2, FS_CardinalityType
<1>4. ASSUME NEW v \in Worker PROVE Recorded(v)'
      <2>1. Recorded(v) BY <1>0 DEF Versioned
      <2>2. CASE v = w
            BY <1>1, <2>2 DEF Recorded
      <2>3. CASE v # w
            <3>1. pc'[v] = pc[v] /\ draft'[v] = draft[v] BY <1>1, <2>3
            <3>2. v \in Recording' <=> v \in Recording BY <1>1, <2>3
            <3>7. Hidden' = Hidden /\ edits' = edits BY StillShown
            <3>3. v \in Recording' => draft'[v].began + Hidden' <= edits'
                  BY <2>1, <3>1, <3>2, <3>7 DEF Recorded
            <3>4. \A u \in Recording' \ {v} : v \in Recording' => draft'[v].met
                  BY <1>1, <2>1, <3>1, <3>2 DEF Recorded
            <3>5. CASE UNCHANGED versions
                  BY <2>1, <3>1, <3>3, <3>4, <3>5, <3>7 DEF Recorded
            <3>6. CASE w \in Recording
                  <4>1. v \in Recording => draft[v].met BY <2>1, <2>3, <3>6 DEF Recorded
                  <4>2. pc[v] \in {"number", "record"} => v \in Recording BY DEF Recording
                  <4>3. draft[v].last \in Nat /\ Len(versions) \in Nat
                        BY <1>0, DraftTyped, VersionsTyped DEF PublishingOK
                  <4>4. pc[v] = "record" => draft[v].last <= Len(versions')
                        BY <2>1, <4>3 DEF Recorded
                  <4> QED BY <2>1, <3>1, <3>3, <3>4, <3>7, <4>1, <4>2, <4>4 DEF Recorded
            <3> QED BY <3>5, <3>6
      <2> QED BY <2>2, <2>3
<1> QED BY <1>2, <1>3, <1>4

\* A publish or a submission ends that records nothing.
LEMMA EndsKeepCourse ==
  ASSUME CourseInv, Bounded, NEW w \in Worker,
         ReviewSubmit(w) \/ StopPublish(w) \/ (SnapshotCreate(w) /\ UNCHANGED versions)
  PROVE  CourseInv'
<1>0. PublishingOK /\ Live /\ Versioned BY DEF CourseInv
<1>1. /\ Leave(w) /\ UNCHANGED <<clips, lesson, text, other, versions, edits, cuts, basis, commits>>
      BY DEF ReviewSubmit, StopPublish, SnapshotCreate, Elsewhere
<1>2. Still BY <1>1 DEF Still, clips
<1>3. spoiled' = IF w \in Recording THEN spoiled + 1 ELSE spoiled
      <2>1. CASE ReviewSubmit(w) BY <2>1 DEF ReviewSubmit, Recording
      <2>2. CASE StopPublish(w) BY <2>2 DEF StopPublish
      <2>3. CASE SnapshotCreate(w) /\ UNCHANGED versions
            <3>1. pc[w] = "record" /\ w \in Recording BY <2>3 DEF SnapshotCreate, Recording
            <3>2. Len(versions) \in Nat /\ draft[w].last \in Nat
                  BY <1>0, VersionsTyped, DraftTyped DEF PublishingOK
            <3>3. Len(versions) > draft[w].last
                  <4>1. ASSUME NEW v \in Version PROVE Append(versions, v) # versions
                        <5>1. Len(Append(versions, v)) = Len(versions) + 1 BY <1>0, VersionsTyped
                        <5> QED BY <3>2, <5>1
                  <4>2. [edits |-> draft[w].edits, hidden |-> draft[w].hidden, began |-> draft[w].began,
                         met |-> draft[w].met] \in Version
                        BY <1>0, DraftTyped DEF PublishingOK, Version
                  <4> QED BY <2>3, <4>1, <4>2 DEF SnapshotCreate
            <3>4. Recorded(w) BY <1>0 DEF Versioned
            <3>5. draft[w].met BY <3>1, <3>2, <3>3, <3>4 DEF Recorded
            <3> QED BY <2>3, <3>1, <3>3, <3>5 DEF SnapshotCreate
      <2> QED BY <2>1, <2>2, <2>3
<1>4. /\ pc' \in [Worker -> {"idle"} \union UploadSteps \union PublishSteps]
      /\ draft' \in [Worker -> Draft]
      /\ \A v \in Worker : pc'[v] = (IF v = w THEN "idle" ELSE pc[v])
                        /\ draft'[v] = (IF v = w THEN NoDraft ELSE draft[v])
      /\ \A v \in Worker : pc'[v] \notin PublishSteps => draft'[v] = NoDraft
      BY <1>0, <1>1, Leaves
<1>5. /\ IsFiniteSet(Recording') /\ Cardinality(Recording) \in Nat /\ Cardinality(Recording') \in Nat
      /\ Cardinality(Recording') = (IF w \in Recording THEN Cardinality(Recording) - 1
                                    ELSE Cardinality(Recording))
      /\ \A v \in Worker : Recorded(v)'
      <2>1. Len(versions) \in Nat /\ Len(versions') = Len(versions) BY <1>0, <1>1, VersionsTyped
      <2> QED BY <1>1, <1>2, <2>1, OneFewer
<1>6. commits = Len(versions) + Cardinality(Recording) + spoiled /\ Len(versions) \in Nat
      /\ commits \in Nat /\ spoiled \in Nat
      BY <1>0, VersionsTyped DEF PublishingOK, Versioned, VersionsHold, PublishesAreRecorded
<1>7. commits' = Len(versions') + Cardinality(Recording') + spoiled' /\ spoiled' \in 0..commits'
      BY <1>1, <1>3, <1>5, <1>6
<1>8. PublishingOK'
      <2>1. course' \in [status : CourseStatus, published : BOOLEAN] /\ checked' \in Nat
            <3>1. CASE ReviewSubmit(w)
                  BY <1>0, <3>1, DraftTyped DEF ReviewSubmit, PublishingOK, CourseStatus
            <3>2. CASE ~ReviewSubmit(w)
                  BY <1>0, <3>2 DEF StopPublish, SnapshotCreate, PublishingOK
            <3> QED BY <3>1, <3>2
      <2> QED BY <1>0, <1>1, <1>4, <1>7, <2>1 DEF PublishingOK
<1>9. Live'
      <2>1. \A v \in Worker : pc'[v] \in {"publish", "review"} => draft'[v].cuts + Hollow <= cuts
            BY <1>0, <1>4 DEF Live
      <2>2. course'.status = "REVIEW" => checked' + Hollow <= cuts
            <3>1. CASE ReviewSubmit(w) BY <1>0, <3>1 DEF ReviewSubmit, Live
            <3>2. CASE ~ReviewSubmit(w) BY <1>0, <3>2 DEF StopPublish, SnapshotCreate, Live
            <3> QED BY <3>1, <3>2
      <2> QED BY <1>0, <1>1, <1>2, <2>1, <2>2, StillShown DEF Live
<1>10. Versioned'
      BY <1>0, <1>1, <1>5, <1>7 DEF Versioned, VersionsHold, VersionsInOrder, PublishesAreRecorded
<1> QED BY <1>8, <1>9, <1>10 DEF CourseInv

\* A version is recorded.
LEMMA VersionKeepsCourse ==
  ASSUME CourseInv, Bounded, NEW w \in Worker, SnapshotCreate(w), versions' # versions
  PROVE  CourseInv'
<1> DEFINE v == [edits |-> draft[w].edits, hidden |-> draft[w].hidden, began |-> draft[w].began,
                 met |-> draft[w].met]
<1>0. PublishingOK /\ Live /\ Versioned BY DEF CourseInv
<1>1. /\ Leave(w) /\ UNCHANGED <<clips, course, lesson, text, other, edits, cuts, basis, checked, commits, spoiled>>
      /\ versions' = Append(versions, v) /\ pc[w] = "record" /\ w \in Recording
      BY DEF SnapshotCreate, Elsewhere, Recording
<1>2. Still BY <1>1 DEF Still, clips
<1>3. /\ pc' \in [Worker -> {"idle"} \union UploadSteps \union PublishSteps]
      /\ draft' \in [Worker -> Draft]
      /\ \A u \in Worker : pc'[u] = (IF u = w THEN "idle" ELSE pc[u])
                        /\ draft'[u] = (IF u = w THEN NoDraft ELSE draft[u])
      /\ \A u \in Worker : pc'[u] \notin PublishSteps => draft'[u] = NoDraft
      BY <1>0, <1>1, Leaves
<1>4. draft[w] \in Draft /\ v \in Version
      BY <1>0, DraftTyped DEF PublishingOK, Version
<1>5. /\ v.edits = draft[w].edits /\ v.hidden <= v.edits - v.began /\ v.edits <= edits
      /\ (v.met = draft[w].met)
      /\ draft[w].met \/ \A i \in DOMAIN versions : versions[i].edits <= v.edits
      <2>1. Recorded(w) BY <1>0 DEF Versioned
      <2>2. draft[w].began \in Nat /\ draft[w].hidden \in Nat /\ draft[w].edits \in Nat
            BY <1>4, DraftTyped
      <2> QED BY <1>1, <2>1, <2>2 DEF Recorded
<1> HIDE DEF v
<1> DEFINE n == Len(versions)
<1>6. /\ versions \in Seq(Version) /\ n \in Nat /\ DOMAIN versions = 1..n
      /\ Len(versions') = n + 1 /\ versions' \in Seq(Version) /\ DOMAIN versions' = 1..(n + 1)
      /\ \A i \in 1..n : versions'[i] = versions[i]
      /\ versions'[n + 1] = v
      <2>1. versions \in Seq(Version) /\ n \in Nat /\ DOMAIN versions = 1..n
            BY <1>0, VersionsTyped
      <2>2. /\ Append(versions, v) \in Seq(Version) /\ Len(Append(versions, v)) = n + 1
            /\ \A i \in 1..n : Append(versions, v)[i] = versions[i]
            /\ Append(versions, v)[n + 1] = v
            BY <1>4, <2>1, AppendProperties
      <2>3. DOMAIN Append(versions, v) = 1..(n + 1)
            BY <2>2
      <2> QED BY <1>1, <2>1, <2>2, <2>3
<1> HIDE DEF n
<1>7. /\ IsFiniteSet(Recording') /\ Cardinality(Recording) \in Nat /\ Cardinality(Recording') \in Nat
      /\ Cardinality(Recording') = Cardinality(Recording) - 1
      /\ \A u \in Worker : Recorded(u)'
      <2>1. Len(versions') \in Nat /\ Len(versions) <= Len(versions')
            <3>1. Len(versions) = n BY DEF n
            <3> QED BY <1>6, <3>1
      <2> QED BY <1>1, <1>2, <2>1, OneFewer
<1>8. PublishingOK'
      BY <1>0, <1>1, <1>3, <1>6 DEF PublishingOK, Version
<1>9. Live'
      <2>1. \A u \in Worker : pc'[u] \in {"publish", "review"} => draft'[u].cuts + Hollow <= cuts
            BY <1>0, <1>3 DEF Live
      <2> QED BY <1>0, <1>1, <1>2, <2>1, StillShown DEF Live
<1>10. \A i \in 1..(n + 1) : i \in 1..n \/ i = n + 1 BY <1>6
<1>11. VersionsInOrder'
      <2> SUFFICES ASSUME NEW i \in 1..(n + 1), NEW j \in 1..(n + 1), i < j
                   PROVE  versions'[i].edits <= versions'[j].edits \/ versions'[j].met
          BY <1>6 DEF VersionsInOrder
      <2>1. i \in 1..n BY <1>6
      <2>2. CASE j \in 1..n
            BY <1>0, <1>6, <2>1, <2>2 DEF Versioned, VersionsHold, VersionsInOrder
      <2>3. CASE j = n + 1
            <3>1. CASE draft[w].met BY <1>5, <1>6, <2>3, <3>1
            <3>2. CASE \A k \in DOMAIN versions : versions[k].edits <= v.edits
                  BY <1>6, <2>1, <2>3, <3>2
            <3> QED BY <1>5, <3>1, <3>2
      <2> QED BY <1>10, <2>2, <2>3
<1>12. PublishesAreRecorded'
      <2>1. commits' = Len(versions') + Cardinality(Recording') + spoiled'
            <3>1. commits = n + Cardinality(Recording) + spoiled /\ spoiled \in Nat /\ commits \in Nat
                  BY <1>0 DEF PublishingOK, Versioned, VersionsHold, PublishesAreRecorded, n
            <3> QED BY <1>1, <1>6, <1>7, <3>1
      <2>2. \A i \in DOMAIN versions' : versions'[i].hidden <= versions'[i].edits - versions'[i].began
            BY <1>0, <1>5, <1>6, <1>10 DEF Versioned, VersionsHold, PublishesAreRecorded
      <2> QED BY <2>1, <2>2 DEF PublishesAreRecorded
<1>13. \A i \in DOMAIN versions' : versions'[i].edits <= edits'
      BY <1>0, <1>1, <1>5, <1>6, <1>10 DEF Versioned
<1>14. Versioned' BY <1>7, <1>11, <1>12, <1>13 DEF Versioned, VersionsHold
<1> QED BY <1>8, <1>9, <1>14 DEF CourseInv

LEMMA NextKeepsCourse ==
  ASSUME CourseInv, Bounded, Bounded', [Next]_vars
  PROVE  CourseInv'
<1>0. PublishingOK /\ Live /\ Versioned BY DEF CourseInv
<1>1. CASE UNCHANGED vars
      <2>1. UNCHANGED <<clip, pc, publishing, record>>
            BY <1>1 DEF vars, uploads, clips, handler
      <2>2. Recording' = Recording /\ Still
            BY <2>1 DEF Recording, Still, record, publishing
      <2>3. PublishingOK' BY <1>0, <2>1 DEF PublishingOK, publishing, record
      <2>4. Live' BY <1>0, <2>1, <2>2, StillShown DEF Live, publishing, record
      <2>5. \A w \in Worker : Recorded(w)'
            BY <1>0, <2>1, <2>2, StillShown DEF Versioned, Recorded, publishing, record
      <2>6. Versioned'
            BY <1>0, <2>1, <2>2, <2>5
               DEF Versioned, VersionsHold, VersionsInOrder, PublishesAreRecorded, publishing, record
      <2> QED BY <2>3, <2>4, <2>6 DEF CourseInv
<1>2. ASSUME \/ \E i \in Clip \union {Text} : SetItemStatus(i) \/ DropItem(i)
             \/ \E status \in ItemStatus : AddText(status)
      PROVE  CourseInv'
      <2>1. /\ Noted
            /\ UNCHANGED <<course, lesson, other, versions, draft, basis, checked, commits, spoiled, pc>>
            BY <1>2 DEF SetItemStatus, DropItem, AddText, handler
      <2>2. text' \in TextStatus
            BY <1>0, <1>2 DEF SetItemStatus, DropItem, AddText, Other, ItemStatus, TextStatus, PublishingOK
      <2>3. Grows /\ lesson' \in ItemStatus /\ other' \in Lesson
            BY <1>0, <2>1, ItemsGrow DEF PublishingOK
      <2> QED BY <2>1, <2>2, <2>3, CourseSeesChanges
<1>3. CASE VideosNext
      <2>1. /\ Noted
            /\ UNCHANGED <<course, lesson, other, versions, draft, basis, checked, commits, spoiled, text>>
            BY <1>3 DEF VideosNext, publishing
      <2>2. text' \in TextStatus /\ Grows /\ lesson' \in ItemStatus /\ other' \in Lesson
            BY <1>0, <2>1, ItemsGrow DEF PublishingOK
      <2> QED BY <1>3, <2>1, <2>2, UploadsAside, CourseSeesChanges DEF VideosNext
<1>4. ASSUME NEW w \in Worker, ProceedPublish(w) \/ StopPublish(w) PROVE CourseInv'
      BY <1>4, CommitKeepsCourse, ReadsKeepCourse, EndsKeepCourse, VersionKeepsCourse DEF ProceedPublish
<1>5. ASSUME \/ DeleteOther
             \/ \E status \in ItemStatus :
                  \/ UpdateLesson(status)
                  \/ \E filled \in BOOLEAN : AddOther(status, filled) \/ UpdateOther(status, filled)
      PROVE  CourseInv'
      <2>1. Grows /\ lesson' \in ItemStatus /\ other' \in Lesson BY <1>0, <1>5, LessonsGrow
      <2>2. UNCHANGED <<pc, course, text, versions, draft, basis, checked, commits, spoiled>>
            BY <1>5 DEF DeleteOther, UpdateLesson, AddOther, UpdateOther, Lessons, handler
      <2>3. text' \in TextStatus BY <1>0, <2>2 DEF PublishingOK
      <2> QED BY <2>1, <2>2, <2>3, CourseSeesChanges
<1>6. ASSUME NEW live \in BOOLEAN, ReplaceLessons(live) PROVE CourseInv'
      <2>1. /\ UNCHANGED <<versions, draft, checked, commits, spoiled>>
            /\ \/ UNCHANGED <<course, basis>>
               \/ course' = [status |-> "PUBLISHED", published |-> TRUE] /\ basis' = Unfounded
            BY <1>6 DEF ReplaceLessons
      <2> QED BY <1>0, <1>6, <2>1, ReplaceGrows, CourseSeesChanges
<1> QED BY <1>1, <1>2, <1>3, <1>4, <1>5, <1>6, StartsKeepCourse, DecisionsKeepCourse
        DEF Next, PublishingNext, AllQuiet

LEMMA InitCourse ==
  ASSUME Init
  PROVE  CourseInv
<1>1. /\ pc = [w \in Worker |-> "idle"] /\ course = [status |-> "DRAFT", published |-> FALSE]
      /\ lesson = "DRAFT" /\ text = "PUBLISHED" /\ other = NoLesson /\ versions = <<>> /\ draft = [w \in Worker |-> NoDraft]
      /\ edits = 0 /\ cuts = 0 /\ basis = Unfounded /\ checked = 0 /\ commits = 0 /\ spoiled = 0
      BY DEF Init, UploadsInit
<1>2. PublishingOK
      <2>1. versions \in Seq([edits : Nat, hidden : Nat, began : Nat, met : BOOLEAN]) BY <1>1
      <2>2. basis \in Basis /\ course \in [status : CourseStatus, published : BOOLEAN]
            /\ lesson \in ItemStatus /\ text \in TextStatus /\ other \in Lesson
            BY <1>1 DEF Basis, Unfounded, CourseStatus, ItemStatus, TextStatus, Lesson, NoLesson
      <2>3. draft \in [Worker -> Draft] /\ \A w \in Worker : draft[w] = NoDraft
            BY <1>1, DraftTyped
      <2>4. pc \in [Worker -> {"idle"} \union UploadSteps \union PublishSteps] BY <1>1
      <2> QED BY <1>1, <2>1, <2>2, <2>3, <2>4 DEF PublishingOK
<1>3. Live BY <1>1 DEF Live, Unfounded
<1>4. Recording = {} BY <1>1 DEF Recording
<1>5. IsFiniteSet(Recording) /\ Cardinality(Recording) = 0 BY <1>4, FS_EmptySet
<1>6. Len(versions) = 0 /\ DOMAIN versions = {} BY <1>1
<1>7. VersionsHold BY <1>1, <1>5, <1>6 DEF VersionsHold, VersionsInOrder, PublishesAreRecorded
<1>8. \A w \in Worker : Recorded(w) BY <1>1, <1>4 DEF Recorded
<1> QED BY <1>2, <1>3, <1>5, <1>6, <1>7, <1>8 DEF CourseInv, Versioned

\* The requests, the rows and the runs stay within their bounds, and the course
\* stays as its invariant says.
THEOREM PublishingInvariant == Spec => [](Bounded /\ CourseInv)
<1>1. Init => Bounded /\ CourseInv BY InitBounded, InitCourse
<1>2. Bounded /\ CourseInv /\ [Next]_vars => (Bounded /\ CourseInv)'
      BY NextBounded, NextKeepsCourse
<1> QED BY <1>1, <1>2, PTL DEF Spec

\* What students see of a live course is what was checked: when a checklist
\* published it, no more of its required lessons are drafts or show nothing than
\* changes that may do so were made since the checklist was read, whoever made
\* them; the same of those that show nothing where the school approved it
\* (publish, submitForReview, approveCourse).
THEOREM LiveCoursesAreReady == Spec => []LiveCourseIsReady
<1>1. CourseInv => LiveCourseIsReady
      <2> SUFFICES ASSUME CourseInv PROVE LiveCourseIsReady OBVIOUS
      <2>1. PublishingOK /\ Live BY DEF CourseInv
      <2>2. basis.cuts \in Nat /\ cuts \in Nat BY <2>1 DEF PublishingOK, Basis
      <2> QED BY <2>1, <2>2, Gaps DEF Live, LiveCourseIsReady, ChecklistHolds, ReviewHolds
<1> QED BY <1>1, PublishingInvariant, PTL

\* The history of a course is the history of its publishes: every commit has
\* its version, in the order of the trees, unless publishes met or one was
\* stopped, and no more lessons are drafts in it than changes were made between
\* the commit and the reading (StudioService.snapshot).
THEOREM VersionsAreHistory == Spec => []VersionsHold
<1>1. CourseInv => VersionsHold BY DEF CourseInv, Versioned
<1> QED BY <1>1, PublishingInvariant, PTL

-----------------------------------------------------------------------------
(* The videos *)

Unsettled == {"read", "claim", "probe", "write", "fail"}

\* The requests about to start a run on the video.
Scheduling(c) == {w \in Worker : pc[w] = "schedule" /\ job[w].clip = c}

\* Somebody will settle the video, or a stop cut it short.
Tended(c) ==
  \/ \E t \in Task : task[t].clip = c /\ task[t].at \in Unsettled
  \/ Scheduling(c) # {}
  \/ faults > 0

\* While nobody knows the length of a file, no row and no run claims one.
NoLengthAt(c) ==
  clip[c].length = None =>
    /\ clip[c].seconds = None
    /\ \A t \in RunsOn(c) : task[t].length = None /\ (task[t].at = "item" => task[t].probed = None)

\* The uploads whose file is there, or whose loss FileStays excuses.
SafeUploads ==
  stored \union Twice \union wiped \union {job[w].upload : w \in {v \in Worker : pc[v] = "delete"}}

\* One run at most is under way or about to be started.
Alone(c) ==
  /\ \A t, u \in RunsOn(c) : t = u
  /\ \A v, w \in Scheduling(c) : v = w
  /\ RunsOn(c) = {} \/ Scheduling(c) = {}

\* A run knows the video as it is, and what it measured is the length of its file.
Measured(c, t) ==
  /\ task[t].at \in {"claim", "probe", "fail", "write"} =>
       task[t].key = clip[c].key /\ task[t].length = clip[c].length
  /\ task[t].at = "item" =>
       task[t].key = clip[c].key /\ clip[c].length = Hinted(task[t].probed, task[t].length)
  /\ task[t].at \in {"write", "item"} =>
       (task[t].probed # None => task[t].probed = file[clip[c].key] /\ clip[c].key \in SafeUploads)
  /\ task[t].at = "item" => clip[c].known = (task[t].probed # None)

SettledWell(c) ==
  Settled(c) => /\ clip[c].seconds = clip[c].length
                /\ clip[c].known => clip[c].length = file[clip[c].key] /\ clip[c].key \in SafeUploads

Processed(c) ==
  /\ Alone(c)
  /\ Scheduling(c) # {} => clip[c].state = "PENDING"
  /\ \A t \in RunsOn(c) : Measured(c, t)
  /\ SettledWell(c)

ClipOK(c) ==
  /\ clip[c].state \in {"PENDING", "PROCESSING"} => Tended(c)
  /\ NoLengthAt(c)
  /\ c \notin crossed => Processed(c)

\* Who holds a file: its session was completed for each.
Removing(w) == pc[w] \in {"wipe", "delete"} /\ job[w].clip # 0
Holders ==
  /\ \A c \in Here : completed[clip[c].key] >= 1
  /\ \A w \in Worker : Removing(w) => completed[job[w].upload] >= 1
  /\ \A c, d \in Here : c # d /\ clip[c].key = clip[d].key => completed[clip[c].key] >= 2
  /\ \A w \in Worker, c \in Here :
       Removing(w) /\ job[w].clip # c /\ job[w].upload = clip[c].key => completed[clip[c].key] >= 2

VideosInv == Holders /\ \A c \in Here : ClipOK(c)

-----------------------------------------------------------------------------
(* A video that a step leaves alone *)

\* A step leaves the video and its run as they are, may take back a request to
\* start one if that counts as a fault, and keeps its file where it was.
Stands(c) ==
  /\ clip[c] # None /\ clip'[c] # None
  /\ clip'[c].key = clip[c].key /\ clip'[c].length = clip[c].length
  /\ clip'[c].seconds = clip[c].seconds /\ clip'[c].state = clip[c].state
  /\ clip'[c].known = clip[c].known
  /\ \A t \in Task : task[t].clip = c \/ task'[t].clip = c => task'[t] = task[t]
  /\ Scheduling(c)' \subseteq Scheduling(c) /\ (Scheduling(c)' = Scheduling(c) \/ faults' > 0)
  /\ faults' > 0 \/ faults' = faults
  /\ c \notin crossed' => c \notin crossed
  /\ file'[clip[c].key] = file[clip[c].key]
  /\ clip[c].key \in SafeUploads => clip[c].key \in SafeUploads'

LEMMA StandingOK ==
  ASSUME NEW c \in Clip, ClipOK(c), Stands(c)
  PROVE  ClipOK(c)'
<1>1. /\ RunsOn(c)' = RunsOn(c) /\ \A t \in RunsOn(c) : task'[t] = task[t]
      BY DEF Stands, RunsOn
<1>2. (clip[c].state \in {"PENDING", "PROCESSING"} => Tended(c))'
      <2>1. Tended(c) => Tended(c)'
            BY DEF Tended, Stands
      <2> QED BY <2>1 DEF ClipOK, Stands
<1>3. NoLengthAt(c)' BY <1>1 DEF ClipOK, NoLengthAt, Stands
<1>4. ASSUME c \notin crossed' PROVE Processed(c)'
      <2>0. Processed(c) BY <1>4 DEF ClipOK, Stands
      <2>1. Alone(c)' BY <1>1, <2>0 DEF Processed, Alone, Stands
      <2>2. (Scheduling(c) # {} => clip[c].state = "PENDING")' BY <2>0 DEF Processed, Stands
      <2>3. \A t \in RunsOn(c)' : Measured(c, t)'
            BY <1>1, <2>0 DEF Processed, Measured, Stands
      <2>4. SettledWell(c)' BY <1>1, <2>0 DEF Processed, SettledWell, Settled, Stands
      <2> QED BY <2>1, <2>2, <2>3, <2>4 DEF Processed
<1> QED BY <1>2, <1>3, <1>4 DEF ClipOK

\* What counts in favour of a file is not taken back, save by the end of a removal.
LEMMA SafeStays ==
  ASSUME Bounded, NEW s \in SafeUploads, s \in stored => s \in stored' \union wiped',
         wiped \subseteq wiped', \A u \in Upload : completed'[u] \in Nat /\ completed[u] <= completed'[u],
         \A w \in Worker : pc[w] = "delete" /\ job[w].upload = s =>
            (pc'[w] = "delete" /\ job'[w].upload = s) \/ s \in wiped' \union Twice'
  PROVE  s \in SafeUploads'
<1>1. completed \in [Upload -> Nat] BY DEF Bounded, SessionsFit, SessionsOK
<1>2. Twice \subseteq Twice' BY <1>1 DEF Twice
<1> QED BY <1>2 DEF SafeUploads

\* Who holds a file: no video takes another file, and no removal begins.
LEMMA HoldersStand ==
  ASSUME Bounded, Holders,
         \A c \in Here' : c \in Here /\ clip'[c].key = clip[c].key,
         \A u \in Upload : completed'[u] = completed[u],
         \A w \in Worker : Removing(w)' => Removing(w) /\ job'[w] = job[w]
  PROVE  Holders'
<1>1. \A c \in Here : clip[c].key \in Upload BY RowNumbers
<1>2. \A w \in Worker : Removing(w) => job[w].upload \in Upload
      BY JobNumbers DEF Removing, JobFits, OfUpload
<1> QED BY <1>1, <1>2 DEF Holders

\* A request goes from a step to another and leaves the videos and the runs alone.
LEMMA VideosStand ==
  ASSUME Bounded, VideosInv, NEW w \in Worker, NEW step, NEW j, WorkerGoes(w, step, j),
         UNCHANGED <<clip, task, crossed>>,
         step # "schedule", pc[w] = "schedule" => faults' > 0, faults' > 0 \/ faults' = faults,
         \A s \in Upload : s <= opened => file'[s] = file[s],
         \A c \in Here : clip[c].key \in SafeUploads => clip[c].key \in SafeUploads'
  PROVE  \A c \in Here' : ClipOK(c)'
<1> SUFFICES ASSUME NEW c \in Clip, c \in Here PROVE ClipOK(c)'
    BY DEF Here
<1>1. clip[c].key \in Upload /\ clip[c].key <= opened BY RowNumbers
<1>2. \A v \in Worker : pc'[v] = (IF v = w THEN step ELSE pc[v])
                    /\ job'[v] = (IF v = w THEN j ELSE job[v])
      BY DEF WorkerGoes, Bounded, HandlersFit
<1>3. Scheduling(c)' = Scheduling(c) \ {w} BY <1>2 DEF Scheduling
<1>4. Scheduling(c)' = Scheduling(c) \/ faults' > 0 BY <1>3 DEF Scheduling
<1>5. Stands(c) BY <1>1, <1>3, <1>4 DEF Stands, Here
<1> QED BY <1>5, StandingOK DEF VideosInv

\* Such a request is not one that begins to remove a video.
LEMMA HoldersKept ==
  ASSUME Bounded, Holders, NEW w \in Worker, NEW step, NEW j, WorkerGoes(w, step, j),
         UNCHANGED <<clip, completed>>,
         step \in {"wipe", "delete"} => j.clip = 0 \/ (Removing(w) /\ j = job[w])
  PROVE  Holders'
<1>1. \A v \in Worker : pc'[v] = (IF v = w THEN step ELSE pc[v])
                    /\ job'[v] = (IF v = w THEN j ELSE job[v])
      BY DEF WorkerGoes, Bounded, HandlersFit
<1>2. \A v \in Worker : Removing(v)' => Removing(v) /\ job'[v] = job[v]
      BY <1>1 DEF Removing
<1>3. Here' = Here BY DEF Here
<1> QED BY <1>2, <1>3, HoldersStand

\* What is stored stays, and nothing is deleted.
LEMMA SafeUnlessDeleted ==
  ASSUME Bounded, NEW w \in Worker, NEW step, NEW j, WorkerGoes(w, step, j), pc[w] # "delete",
         completed' = completed, wiped \subseteq wiped',
         \A c \in Here : clip[c].key \in stored => clip[c].key \in stored' \union wiped'
  PROVE  \A c \in Here : clip[c].key \in SafeUploads => clip[c].key \in SafeUploads'
<1> TAKE c \in Here
<1>1. \A v \in Worker : pc[v] = "delete" => pc'[v] = "delete" /\ job'[v] = job[v]
      BY DEF WorkerGoes, Bounded, HandlersFit
<1>2. \A u \in Upload : completed'[u] \in Nat /\ completed[u] <= completed'[u]
      BY DEF Bounded, SessionsFit, SessionsOK
<1> QED BY <1>1, <1>2, SafeStays

\* The steps that touch no video, no run and no file.
LEMMA QuietKeepVideos ==
  ASSUME Bounded, VideosInv, NEW w \in Worker, NEW step, NEW j, WorkerGoes(w, step, j),
         pc[w] \notin {"schedule", "delete"}, step \notin {"schedule", "delete"},
         step = "wipe" => j.clip = 0,
         UNCHANGED <<clip, task, stored, crossed, completed, wiped, faults>>,
         \A s \in Upload : s <= opened => file'[s] = file[s]
  PROVE  VideosInv'
<1>1. \A c \in Here : clip[c].key \in SafeUploads => clip[c].key \in SafeUploads'
      BY SafeUnlessDeleted
<1>2. \A c \in Here' : ClipOK(c)' BY <1>1, VideosStand
<1>3. Holders' BY HoldersKept DEF VideosInv
<1> QED BY <1>2, <1>3 DEF VideosInv

LEMMA PresignAgainKeepsVideos ==
  ASSUME Bounded, VideosInv, NEW w \in Worker, NEW s \in Upload, PresignAgain(w, s)
  PROVE  VideosInv'
<1> DEFINE j == [NoJob EXCEPT !.upload = s, !.file = upload[s].file]
<1>1. UNCHANGED <<opened, file, stored, clips, task, history>> /\ Begin(w, "free", j)
      BY DEF PresignAgain
<1> HIDE DEF j
<1>2. UNCHANGED <<clip, task, stored, crossed, completed, wiped, faults, file>>
      BY <1>1 DEF Begin, Ask, clips, history
<1>3. pc[w] = "idle" /\ WorkerGoes(w, "free", j) BY <1>1, OneGoes DEF Begin
<1> QED BY <1>2, <1>3, QuietKeepVideos

LEMMA PresignsKeepVideos ==
  ASSUME Bounded, VideosInv, NEW w \in Worker,
         \/ \E f \in File : PresignStart(w, f)
         \/ \E s \in Upload : PresignAgain(w, s)
         \/ PresignFree(w) \/ PresignOpen(w)
  PROVE  VideosInv'
<1>1. CASE \E f \in File : PresignStart(w, f)
      <2>1. UNCHANGED <<clip, task, stored, crossed, completed, wiped, faults, file>>
            BY <1>1 DEF PresignStart, Begin, Ask, sessions, clips, history
      <2>2. pc[w] = "idle" /\ \E j : WorkerGoes(w, "open", j) BY <1>1, OneGoes DEF PresignStart
      <2> QED BY <2>1, <2>2, QuietKeepVideos
<1>2. CASE \E s \in Upload : PresignAgain(w, s)
      BY <1>2, PresignAgainKeepsVideos
<1>3. CASE PresignFree(w)
      <2>1. UNCHANGED <<clip, task, stored, crossed, completed, wiped, faults, file>>
            BY <1>3 DEF PresignFree, clips, history, bounds
      <2>2. pc[w] = "free" /\ \E step \in {"idle", "open"} : \E j : WorkerGoes(w, step, j)
            BY <1>3, OneGoes DEF PresignFree
      <2> QED BY <2>1, <2>2, QuietKeepVideos
<1>4. CASE PresignOpen(w)
      <2>1. UNCHANGED <<clip, task, stored, crossed, completed, wiped, faults>>
            BY <1>4 DEF PresignOpen, clips, history, bounds
      <2>2. pc[w] = "open" /\ WorkerGoes(w, "idle", NoJob) BY <1>4, OneGoes DEF PresignOpen
      <2>3. \A s \in Upload : s <= opened => file'[s] = file[s]
            <3>1. file' = file \/ file' = [file EXCEPT ![opened + 1] = job[w].file]
                  BY <1>4 DEF PresignOpen, sessions
            <3>2. opened \in Nat BY BoundedIsOK, MaxesAreNumbers
            <3>3. file \in [Upload -> Length] BY DEF Bounded, SessionsFit, SessionsOK
            <3>4. \A s \in Upload : s <= opened => s # opened + 1 BY <3>2 DEF Upload
            <3> QED BY <3>1, <3>3, <3>4
      <2> QED BY <2>1, <2>2, <2>3, QuietKeepVideos
<1> QED BY <1>1, <1>2, <1>3, <1>4

LEMMA ReceivesKeepVideos ==
  ASSUME Bounded, VideosInv, NEW w \in Worker,
         \/ \E s \in Upload : ReceiveStart(w, s)
         \/ ReceiveMark(w) \/ ReceiveStream(w) \/ ReceiveBreak(w) \/ ReceiveFail(w)
  PROVE  VideosInv'
<1>1. /\ UNCHANGED <<clip, task, crossed, completed, file, faults>>
      /\ pc[w] \notin {"schedule", "delete"}
      BY DEF ReceiveStart, ReceiveMark, ReceiveStream, ReceiveBreak, ReceiveFail, clips, history, bounds, Begin,
             Ask, sessions
<1>2. PICK step \in {"idle", "mark", "stream", "fail"} : \E j : WorkerGoes(w, step, j)
      BY OneGoes DEF ReceiveStart, ReceiveMark, ReceiveStream, ReceiveBreak, ReceiveFail
<1>3. /\ wiped \subseteq wiped'
      /\ \A c \in Here : clip[c].key \in stored => clip[c].key \in stored' \union wiped'
      BY DEF ReceiveStart, ReceiveMark, ReceiveStream, ReceiveBreak, ReceiveFail, Breaks, history
<1>4. \A c \in Here : clip[c].key \in SafeUploads => clip[c].key \in SafeUploads'
      BY <1>1, <1>2, <1>3, SafeUnlessDeleted
<1>5. \A c \in Here' : ClipOK(c)' BY <1>1, <1>2, <1>4, VideosStand
<1>6. Holders' BY <1>1, <1>2, HoldersKept DEF VideosInv
<1> QED BY <1>5, <1>6 DEF VideosInv

LEMMA StartsKeepVideos ==
  ASSUME Bounded, VideosInv, NEW w \in Worker,
         \/ \E s \in Upload : \/ AbortStart(w, s)
                              \/ \E c \in Clip \union {0}, hint \in Length : CompleteStart(w, s, c, hint)
         \/ \E c \in Clip : RetryStart(w, c)
         \/ AbortMark(w)
  PROVE  VideosInv'
<1>1. /\ UNCHANGED <<clip, task, stored, crossed, completed, wiped, faults, file>>
      /\ pc[w] \notin {"schedule", "delete"}
      BY DEF AbortStart, CompleteStart, RetryStart, AbortMark, clips, history, bounds, Begin, Ask, sessions
<1>2. \/ \E s : WorkerGoes(w, "wipe", [NoJob EXCEPT !.upload = s])
      \/ \E step \in {"idle", "attach", "requeue"} : \E j : WorkerGoes(w, step, j)
      BY OneGoes DEF AbortStart, CompleteStart, RetryStart, AbortMark
<1>4. CASE \E s : WorkerGoes(w, "wipe", [NoJob EXCEPT !.upload = s])
      <2>1. PICK s : WorkerGoes(w, "wipe", [NoJob EXCEPT !.upload = s]) BY <1>4
      <2> DEFINE j == [NoJob EXCEPT !.upload = s]
      <2>2. j.clip = 0 BY DEF NoJob
      <2> HIDE DEF j
      <2>3. WorkerGoes(w, "wipe", j) BY <2>1 DEF j
      <2> QED BY <1>1, <2>2, <2>3, QuietKeepVideos
<1>5. CASE \E step \in {"idle", "attach", "requeue"} : \E j : WorkerGoes(w, step, j)
      BY <1>1, <1>5, QuietKeepVideos
<1> QED BY <1>2, <1>4, <1>5

\* A removal begins: its file was completed for the video.
LEMMA RemoveStartKeepsVideos ==
  ASSUME Bounded, VideosInv, NEW w \in Worker, NEW c \in Clip, RemoveStart(w, c)
  PROVE  VideosInv'
<1> DEFINE j == [NoJob EXCEPT !.upload = clip[c].key, !.clip = c]
<1>1. /\ c \in Here /\ Begin(w, "wipe", j)
      /\ UNCHANGED <<sessions, stored, clips, task, history>>
      BY DEF RemoveStart
<1>2. j.upload = clip[c].key /\ j.clip = c BY DEF NoJob
<1> HIDE DEF j
<1>3. /\ UNCHANGED <<clip, task, stored, crossed, completed, wiped, faults, file>>
      /\ pc[w] = "idle" /\ WorkerGoes(w, "wipe", j)
      BY <1>1, OneGoes DEF Begin, Ask, clips, history, sessions
<1>4. \A d \in Here : clip[d].key \in SafeUploads => clip[d].key \in SafeUploads'
      BY <1>3, SafeUnlessDeleted
<1>5. \A d \in Here' : ClipOK(d)' BY <1>3, <1>4, VideosStand
<1>6. Holders'
      <2>1. /\ Holders /\ Here' = Here
            /\ \A d \in Here : clip[d].key \in Upload
            BY <1>3, RowNumbers DEF VideosInv, Here
      <2>2. \A v \in Worker : /\ v # w => (Removing(v)' <=> Removing(v)) /\ job'[v] = job[v]
                              /\ job'[w] = j
            BY <1>3 DEF WorkerGoes, Bounded, HandlersFit, Removing
      <2>3. \A v \in Worker : Removing(v)' => completed[job'[v].upload] >= 1
            BY <1>1, <1>2, <2>1, <2>2 DEF Holders
      <2>4. \A v \in Worker, d \in Here :
              Removing(v)' /\ job'[v].clip # d /\ job'[v].upload = clip[d].key => completed[clip[d].key] >= 2
            BY <1>1, <1>2, <2>1, <2>2 DEF Holders
      <2> QED BY <1>3, <2>1, <2>3, <2>4 DEF Holders
<1> QED BY <1>5, <1>6 DEF VideosInv

\* The file goes first: its video is being deleted, or its session aborted.
LEMMA WipeKeepsVideos ==
  ASSUME Bounded, VideosInv, NEW w \in Worker, Wipe(w)
  PROVE  VideosInv'
<1> DEFINE s == job[w].upload  step == IF job[w].clip = 0 THEN "abort" ELSE "delete"
<1>1. /\ UNCHANGED <<clip, task, crossed, completed, faults, file>>
      /\ pc[w] = "wipe" /\ WorkerGoes(w, step, job[w])
      /\ stored' \in {stored, stored \ {s}}
      /\ wiped' = IF job[w].clip = 0 THEN wiped \union {s} ELSE wiped
      BY OneGoes DEF Wipe, clips, bounds, sessions
<1>2. ASSUME NEW c \in Here, clip[c].key \in SafeUploads PROVE clip[c].key \in SafeUploads'
      <2>1. CASE clip[c].key = s
            <3>1. CASE job[w].clip = 0 BY <1>1, <2>1, <3>1 DEF SafeUploads
            <3>2. CASE job[w].clip # 0
                  <4>1. pc'[w] = "delete" /\ job'[w].upload = s
                        BY <1>1, <3>2 DEF WorkerGoes, Bounded, HandlersFit
                  <4> QED BY <2>1, <4>1 DEF SafeUploads
            <3> QED BY <3>1, <3>2
      <2>2. CASE clip[c].key # s
            <3>1. \A v \in Worker : pc[v] = "delete" => pc'[v] = "delete" /\ job'[v] = job[v]
                  BY <1>1 DEF WorkerGoes, Bounded, HandlersFit
            <3>2. \A u \in Upload : completed'[u] \in Nat /\ completed[u] <= completed'[u]
                  BY <1>1 DEF Bounded, SessionsFit, SessionsOK
            <3> QED BY <1>1, <1>2, <2>2, <3>1, <3>2, SafeStays
      <2> QED BY <2>1, <2>2
<1>3. \A c \in Here' : ClipOK(c)' BY <1>1, <1>2, VideosStand
<1>4. Holders' BY <1>1, HoldersKept DEF VideosInv, Removing
<1> QED BY <1>3, <1>4 DEF VideosInv

\* The row goes: who else holds its file has completed it too.
LEMMA RemoveDeleteKeepsVideos ==
  ASSUME Bounded, VideosInv, NEW w \in Worker, RemoveDelete(w)
  PROVE  VideosInv'
<1>1. /\ UNCHANGED <<task, crossed, completed, faults, file, stored, wiped>>
      /\ pc[w] = "delete" /\ WorkerGoes(w, "idle", NoJob)
      /\ clip' = [clip EXCEPT ![job[w].clip] = None]
      BY OneGoes DEF RemoveDelete, bounds, sessions, history
<1>2. \A v \in Worker : pc'[v] = (IF v = w THEN "idle" ELSE pc[v])
                    /\ job'[v] = (IF v = w THEN NoJob ELSE job[v])
      BY <1>1 DEF WorkerGoes, Bounded, HandlersFit
<1>3. clip \in [Clip -> Video \union {None}] BY DEF Bounded, ClipsFit, VideosOK
<1>4. \A c \in Here' : c \in Here /\ c # job[w].clip /\ clip'[c] = clip[c]
      BY <1>1, <1>3 DEF Here
<1>5. Holders'
      <2>1. \A v \in Worker : Removing(v)' => Removing(v) /\ job'[v] = job[v]
            BY <1>2 DEF Removing
      <2> QED BY <1>1, <1>4, <2>1, HoldersStand DEF VideosInv
<1>6. ASSUME NEW c \in Here' PROVE ClipOK(c)'
      <2>1. /\ c \in Clip /\ c \in Here /\ c # job[w].clip /\ clip'[c] = clip[c] /\ clip[c] # None
            /\ clip[c].key \in Upload
            BY <1>4, <1>6, RowNumbers DEF Here
      <2>2. Scheduling(c)' = Scheduling(c) BY <1>1, <1>2 DEF Scheduling
      <2>3. ASSUME clip[c].key \in SafeUploads PROVE clip[c].key \in SafeUploads'
            <3>1. job[w].clip # 0 BY <1>1, JobNumbers DEF JobFits, OfClip
            <3>2. job[w].upload = clip[c].key => clip[c].key \in Twice'
                  <4>1. completed \in [Upload -> Nat] BY DEF Bounded, SessionsFit, SessionsOK
                  <4>2. job[w].upload = clip[c].key => completed[clip[c].key] >= 2
                        BY <1>1, <2>1, <3>1 DEF VideosInv, Holders, Removing
                  <4> QED BY <1>1, <2>1, <4>1, <4>2 DEF Twice
            <3>3. \A u \in Upload : completed'[u] \in Nat /\ completed[u] <= completed'[u]
                  BY <1>1 DEF Bounded, SessionsFit, SessionsOK
            <3>4. \A v \in Worker : pc[v] = "delete" /\ job[v].upload = clip[c].key =>
                    (pc'[v] = "delete" /\ job'[v].upload = clip[c].key) \/ clip[c].key \in wiped' \union Twice'
                  BY <1>2, <3>2
            <3> QED BY <1>1, <2>3, <3>3, <3>4, SafeStays
      <2>4. Stands(c) BY <1>1, <2>1, <2>2, <2>3 DEF Stands
      <2> QED BY <2>1, <2>4, StandingOK DEF VideosInv
<1> QED BY <1>5, <1>6 DEF VideosInv

\* A video is set pending, and a run is about to be started on it.
LEMMA RequeueKeepsVideos ==
  ASSUME Bounded, VideosInv, NEW w \in Worker, NEW j, WorkerGoes(w, "schedule", j),
         pc[w] \in {"attach", "requeue"}, NEW c \in Clip, j.clip = c,
         UNCHANGED <<task, file, stored, wiped, faults>>,
         \A u \in Upload : completed'[u] \in Nat /\ completed[u] <= completed'[u],
         crossed \subseteq crossed' \union {c}, c \notin crossed' => ~Started(c),
         NEW v \in Video, clip' = [clip EXCEPT ![c] = v], v.state = "PENDING",
         v.length = None => /\ v.seconds = None
                            /\ \A t \in RunsOn(c) :
                                 task[t].length = None /\ (task[t].at = "item" => task[t].probed = None)
  PROVE  \A d \in Here' : ClipOK(d)'
<1>1. \A u \in Worker : pc'[u] = (IF u = w THEN "schedule" ELSE pc[u])
                    /\ job'[u] = (IF u = w THEN j ELSE job[u])
      BY DEF WorkerGoes, Bounded, HandlersFit
<1>2. \A d \in Clip : clip'[d] = IF d = c THEN v ELSE clip[d]
      BY DEF Bounded, ClipsFit, VideosOK
<1>3. Scheduling(c)' = Scheduling(c) \union {w} /\ \A d \in Clip : d # c => Scheduling(d)' = Scheduling(d)
      BY <1>1 DEF Scheduling
<1>4. ClipOK(c)'
      <2>1. RunsOn(c)' = RunsOn(c) BY DEF RunsOn
      <2>2. NoLengthAt(c)' BY <1>2, <2>1 DEF NoLengthAt
      <2>3. Tended(c)' BY <1>3 DEF Tended
      <2>4. ASSUME c \notin crossed' PROVE Processed(c)'
            <3>1. RunsOn(c)' = {} /\ Scheduling(c)' = {w}
                  BY <1>3, <2>1, <2>4 DEF Started, Scheduling
            <3>2. Alone(c)' BY <3>1 DEF Alone
            <3>3. ~Settled(c)' BY <1>2 DEF Settled
            <3> QED BY <1>2, <3>1, <3>2, <3>3 DEF Processed, SettledWell
      <2> QED BY <2>2, <2>3, <2>4 DEF ClipOK
<1>5. ASSUME NEW d \in Clip, d # c, d \in Here PROVE ClipOK(d)'
      <2>1. clip[d] # None /\ clip'[d] = clip[d] /\ clip[d].key \in Upload
            BY <1>2, <1>5, RowNumbers DEF Here
      <2>2. ASSUME clip[d].key \in SafeUploads PROVE clip[d].key \in SafeUploads'
            <3>1. \A u \in Worker : pc[u] = "delete" => pc'[u] = "delete" /\ job'[u] = job[u]
                  BY <1>1
            <3> QED BY <2>2, <3>1, SafeStays
      <2>3. Stands(d) BY <1>3, <1>5, <2>1, <2>2 DEF Stands
      <2> QED BY <1>5, <2>3, StandingOK DEF VideosInv
<1>6. \A d \in Here' : d \in Clip /\ (d = c \/ d \in Here) BY <1>2 DEF Here
<1> QED BY <1>4, <1>5, <1>6

LEMMA RetryRequeueKeepsVideos ==
  ASSUME Bounded, VideosInv, NEW w \in Worker, RetryRequeue(w)
  PROVE  VideosInv'
<1>0. PICK c : c = job[w].clip OBVIOUS
<1>1. /\ UNCHANGED <<task, completed, faults, file, stored, wiped>> /\ pc[w] = "requeue"
      BY DEF RetryRequeue, bounds, sessions
<1>2. CASE c \in Here
      <2> DEFINE v == [clip[c] EXCEPT !.state = "PENDING", !.known = FALSE]
      <2>2. clip[c] \in Video /\ c \in Clip BY <1>2, RowNumbers
      <2>1. /\ WorkerGoes(w, "schedule", job[w]) /\ Requeued(c) /\ clip' = [clip EXCEPT ![c] = v]
            <3>1. /\ WorkerGoes(w, "schedule", job[w]) /\ Requeued(c)
                  /\ clip' = [clip EXCEPT ![c].state = "PENDING", ![c].known = FALSE]
                  BY <1>0, <1>2 DEF RetryRequeue, ContinueIf, Continue, WorkerGoes, Bounded, HandlersFit
            <3>2. clip \in [Clip -> Video \union {None}] BY DEF Bounded, ClipsFit, VideosOK
            <3> QED BY <2>2, <3>1, <3>2
      <2>3. /\ v \in Video /\ v.key = clip[c].key /\ v.state = "PENDING" /\ v.seconds = clip[c].seconds
            /\ v.length = clip[c].length
            BY <2>2 DEF Video
      <2> HIDE DEF v
      <2>4. NoLengthAt(c) BY <1>2 DEF VideosInv, ClipOK
      <2>5. crossed \subseteq crossed' \union {c} /\ (c \notin crossed' => ~Started(c))
            BY <2>1 DEF Requeued
      <2>6. \A u \in Upload : completed'[u] \in Nat /\ completed[u] <= completed'[u]
            BY <1>1 DEF Bounded, SessionsFit, SessionsOK
      <2>7. \A d \in Here' : ClipOK(d)'
            BY <1>0, <1>1, <2>1, <2>2, <2>3, <2>4, <2>5, <2>6, RequeueKeepsVideos DEF NoLengthAt
      <2>8. \A d \in Clip : clip'[d] = IF d = c THEN v ELSE clip[d]
            BY <2>1 DEF Bounded, ClipsFit, VideosOK
      <2>9. \A d \in Here' : d \in Here /\ clip'[d].key = clip[d].key
            BY <1>2, <2>3, <2>8 DEF Here
      <2>10. \A u \in Worker : Removing(u)' => Removing(u) /\ job'[u] = job[u]
            BY <2>1 DEF WorkerGoes, Bounded, HandlersFit, Removing
      <2>11. Holders' BY <1>1, <2>9, <2>10, HoldersStand DEF VideosInv
      <2> QED BY <2>7, <2>11 DEF VideosInv
<1>3. CASE c \notin Here
      <2>1. UNCHANGED <<clip, crossed>> /\ WorkerGoes(w, "idle", NoJob)
            BY <1>0, <1>3 DEF RetryRequeue, ContinueIf, Finish, WorkerGoes
      <2> QED BY <1>1, <2>1, QuietKeepVideos
<1> QED BY <1>2, <1>3

LEMMA CompleteAttachKeepsVideos ==
  ASSUME Bounded, VideosInv, NEW w \in Worker, CompleteAttach(w)
  PROVE  VideosInv'
<1> DEFINE fails == upload[job[w].upload] = None \/ (job[w].clip # 0 /\ clip[job[w].clip] = None)
           new == [status |-> "PUBLISHED", seconds |-> job[w].file, key |-> job[w].upload,
                   length |-> job[w].file, state |-> "PENDING", known |-> FALSE]
<1>0. /\ UNCHANGED <<task, faults, file, stored, wiped>> /\ pc[w] = "attach"
      /\ completed \in [Upload -> Nat]
      BY DEF CompleteAttach, bounds, Bounded, SessionsFit, SessionsOK
<1>1. /\ job[w] \in Job /\ job[w].upload \in Upload /\ job[w].file \in Length /\ job[w].clip \in 0..added
      /\ added \in Nat
      BY <1>0, JobNumbers, BoundedIsOK, MaxesAreNumbers DEF JobFits, OfUpload, Job
<1>2. CASE fails
      <2>1. UNCHANGED <<clip, crossed, completed>> /\ WorkerGoes(w, "idle", NoJob)
            BY <1>2, OneGoes DEF CompleteAttach, clips
      <2> QED BY <1>0, <2>1, QuietKeepVideos
<1>3. CASE ~fails
      <2>0. PICK c : c = IF job[w].clip = 0 THEN added + 1 ELSE job[w].clip OBVIOUS
      <2> DEFINE s == job[w].upload  j == [job[w] EXCEPT !.clip = c]
      <2>1. /\ completed' = [completed EXCEPT ![s] = @ + 1] /\ WorkerGoes(w, "schedule", j)
            BY <1>3, <2>0 DEF CompleteAttach, WorkerGoes, Bounded, HandlersFit
      <2>2. j.clip = c /\ j.upload = s BY <1>1 DEF Job
      <2> HIDE DEF j
      <2>3. \E v \in Video :
              /\ clip' = [clip EXCEPT ![c] = v] /\ v.state = "PENDING" /\ v.key = s
              /\ v.length = None => /\ v.seconds = None
                                    /\ \A t \in RunsOn(c) :
                                         task[t].length = None /\ (task[t].at = "item" => task[t].probed = None)
              /\ crossed \subseteq crossed' \union {c} /\ (c \notin crossed' => ~Started(c))
              /\ c \in Clip
            <3>1. CASE job[w].clip = 0
                  <4>1. clip' = [clip EXCEPT ![c] = new] /\ UNCHANGED crossed /\ added' = added + 1
                        BY <1>3, <2>0, <3>1 DEF CompleteAttach
                  <4>2. new \in Video /\ new.state = "PENDING" /\ new.key = s /\ new.length = new.seconds
                        BY <1>1 DEF Video
                  <4>3. ~Started(c)
                        <5>1. \A t \in Task : task[t].clip \in 0..added BY RunNumbers
                        <5>2. \A u \in Worker : job[u].clip \in 0..added BY JobNumbers
                        <5> QED BY <1>1, <2>0, <3>1, <5>1, <5>2 DEF Started, RunsOn
                  <4>4. c \in Clip
                        <5>1. Bounded' BY CompleteAttachBounded
                        <5>2. added' \in 0..MaxClip BY <5>1 DEF Bounded, ClipsFit, VideosOK
                        <5> QED BY <1>1, <2>0, <3>1, <4>1, <5>2, MaxesAreNumbers DEF Clip
                  <4>5. RunsOn(c) = {} BY <4>3 DEF Started
                  <4> HIDE DEF new
                  <4> QED BY <4>1, <4>2, <4>3, <4>4, <4>5
            <3>2. CASE job[w].clip # 0
                  <4> DEFINE v == Replaced(clip[c], s, job[w].file)
                  <4>1. clip' = [clip EXCEPT ![c] = v] /\ Requeued(c) /\ clip[c] # None
                        BY <1>3, <2>0, <3>2 DEF CompleteAttach
                  <4>2. c \in Here /\ clip[c] \in Video
                        BY <2>0, <3>2, <4>1, JobNumbers, RowNumbers DEF Here
                  <4>3. /\ v \in Video /\ v.state = "PENDING" /\ v.key = s
                        /\ v.length = Hinted(job[w].file, clip[c].length)
                        /\ v.seconds = Hinted(job[w].file, clip[c].seconds)
                        BY <1>1, <4>2 DEF Replaced, Hinted, Video
                  <4> HIDE DEF v
                  <4>4. NoLengthAt(c) BY <4>2 DEF VideosInv, ClipOK
                  <4>5. v.length = None => /\ v.seconds = None
                                    /\ \A t \in RunsOn(c) :
                                         task[t].length = None /\ (task[t].at = "item" => task[t].probed = None)
                        BY <4>3, <4>4 DEF NoLengthAt, Hinted
                  <4>6. crossed \subseteq crossed' \union {c} /\ (c \notin crossed' => ~Started(c))
                        BY <4>1 DEF Requeued
                  <4> QED BY <4>1, <4>2, <4>3, <4>5, <4>6 DEF Here
            <3> QED BY <3>1, <3>2
      <2>4. PICK v \in Video :
              /\ clip' = [clip EXCEPT ![c] = v] /\ v.state = "PENDING" /\ v.key = s
              /\ v.length = None => /\ v.seconds = None
                                    /\ \A t \in RunsOn(c) :
                                         task[t].length = None /\ (task[t].at = "item" => task[t].probed = None)
              /\ crossed \subseteq crossed' \union {c} /\ (c \notin crossed' => ~Started(c))
              /\ c \in Clip
            BY <2>3
      <2>5. \A u \in Upload : /\ completed'[u] = IF u = s THEN completed[u] + 1 ELSE completed[u]
                              /\ completed'[u] \in Nat /\ completed[u] <= completed'[u]
            BY <1>0, <2>1
      <2>6. \A d \in Here' : ClipOK(d)'
            BY <1>0, <2>1, <2>2, <2>4, <2>5, RequeueKeepsVideos
      <2>7. \A d \in Clip : clip'[d] = IF d = c THEN v ELSE clip[d]
            BY <2>4 DEF Bounded, ClipsFit, VideosOK
      <2>8. Holders'
            <3>1. \A d \in Here' : (d = c /\ clip'[d].key = s) \/ (d \in Here /\ d # c /\ clip'[d].key = clip[d].key)
                  BY <2>4, <2>7 DEF Here
            <3>2. \A u \in Worker : Removing(u)' => Removing(u) /\ job'[u] = job[u]
                  BY <2>1 DEF WorkerGoes, Bounded, HandlersFit, Removing
            <3>3. \A d \in Here : clip[d].key \in Upload /\ completed[clip[d].key] \in Nat
                  BY <1>0, RowNumbers
            <3>4. \A u \in Worker : Removing(u) => job[u].upload \in Upload /\ completed[job[u].upload] \in Nat
                  BY <1>0, JobNumbers DEF Removing, JobFits, OfUpload
            <3>5. s \in Upload /\ completed'[s] >= 1 /\ completed[s] \in Nat BY <1>0, <1>1, <2>5
            <3>6. Holders BY DEF VideosInv
            <3>7. \A d \in Here' : completed'[clip'[d].key] >= 1
                  BY <2>5, <3>1, <3>3, <3>5, <3>6 DEF Holders
            <3>8. \A u \in Worker : Removing(u)' => completed'[job'[u].upload] >= 1
                  BY <2>5, <3>2, <3>4, <3>6 DEF Holders
            <3>9. ASSUME NEW d \in Here', NEW e \in Here', d # e, clip'[d].key = clip'[e].key
                  PROVE  completed'[clip'[d].key] >= 2
                  <4>1. CASE d = c \/ e = c
                        <5>1. PICK f \in Here : clip[f].key = s /\ clip'[d].key = s BY <3>1, <3>9, <4>1
                        <5>2. completed[s] >= 1 BY <3>6, <5>1 DEF Holders
                        <5> QED BY <2>5, <3>5, <5>1, <5>2
                  <4>2. CASE d # c /\ e # c
                        BY <2>5, <3>1, <3>3, <3>6, <3>9, <4>2 DEF Holders
                  <4> QED BY <4>1, <4>2
            <3>10. ASSUME NEW u \in Worker, NEW d \in Here', Removing(u)', job'[u].clip # d,
                          job'[u].upload = clip'[d].key
                   PROVE  completed'[clip'[d].key] >= 2
                  <4>1. CASE d = c
                        <5>1. completed[s] >= 1 BY <3>1, <3>2, <3>6, <3>10, <4>1 DEF Holders
                        <5> QED BY <2>5, <3>1, <3>5, <4>1, <5>1
                  <4>2. CASE d # c
                        BY <2>5, <3>1, <3>2, <3>3, <3>6, <3>10, <4>2 DEF Holders
                  <4> QED BY <4>1, <4>2
            <3> QED BY <3>7, <3>8, <3>9, <3>10 DEF Holders
      <2> QED BY <2>6, <2>8 DEF VideosInv
<1> QED BY <1>2, <1>3

\* The request ends and its run begins.
LEMMA ScheduleKeepsVideos ==
  ASSUME Bounded, VideosInv, NEW w \in Worker, Schedule(w)
  PROVE  VideosInv'
<1> DEFINE r == [at |-> "read", clip |-> job[w].clip, key |-> 0, length |-> None, probed |-> None]
<1>begun. [NoRun EXCEPT !.at = "read", !.clip = job[w].clip] = r BY Zenon, RunBegun
<1>0. PICK c : c = job[w].clip OBVIOUS
<1>1. PICK t \in Task :
        /\ task[t] = NoRun
        /\ task' = [task EXCEPT ![t] = [NoRun EXCEPT !.at = "read", !.clip = job[w].clip]]
      BY DEF Schedule
<1>2. /\ UNCHANGED <<clip, crossed, completed, faults, file, stored, wiped>> /\ pc[w] = "schedule"
      /\ WorkerGoes(w, "idle", NoJob)
      BY OneGoes DEF Schedule, clips, bounds, sessions, history
<1>3. \A v \in Worker : pc'[v] = (IF v = w THEN "idle" ELSE pc[v])
                    /\ job'[v] = (IF v = w THEN NoJob ELSE job[v])
      BY <1>2 DEF WorkerGoes, Bounded, HandlersFit
<1>5. /\ r.at = "read" /\ r.clip = c /\ r.length = None /\ r.probed = None
      /\ \A u \in Task : task'[u] = IF u = t THEN r ELSE task[u]
      <2>4. r.at = "read" /\ r.clip = c /\ r.length = None /\ r.probed = None BY <1>0
      <2> HIDE DEF r
      <2>2. task' = [task EXCEPT ![t] = r] BY <1>1, <1>begun
      <2> QED BY <2>2, <2>4 DEF Bounded, RunsFit
<1> HIDE DEF r
<1>6. task[t].clip = 0 /\ c \in Clip
      BY <1>0, <1>1, <1>2, JobNumbers DEF NoRun, JobFits, OfClip
<1>7. c # 0 /\ 0 \notin Clip BY <1>6 DEF Clip
<1>8. \A d \in Here : clip[d].key \in SafeUploads => clip[d].key \in SafeUploads'
      BY <1>2, SafeUnlessDeleted
<1>9. Holders' BY <1>2, HoldersKept DEF VideosInv
<1>10. ASSUME NEW d \in Here, d # c PROVE ClipOK(d)'
      <2>1. d \in Clip /\ clip[d] # None /\ clip[d].key \in Upload BY RowNumbers DEF Here
      <2>2. Scheduling(d)' = Scheduling(d) BY <1>0, <1>3, <1>10 DEF Scheduling
      <2>3. \A u \in Task : task[u].clip = d \/ task'[u].clip = d => task'[u] = task[u]
            BY <1>5, <1>6, <1>7, <1>10, <2>1
      <2>4. Stands(d) BY <1>2, <1>8, <2>1, <2>2, <2>3 DEF Stands
      <2> QED BY <2>1, <2>4, StandingOK DEF VideosInv
<1>11. ASSUME c \in Here PROVE ClipOK(c)'
      <2>0. ClipOK(c) BY <1>11 DEF VideosInv
      <2>1. Tended(c)' BY <1>5 DEF Tended, Unsettled
      <2>2. RunsOn(c)' = RunsOn(c) \union {t} BY <1>5, <1>6, <1>7 DEF RunsOn
      <2>3. NoLengthAt(c)'
            <3>1. /\ \A u \in RunsOn(c) : task'[u] = task[u]
                  /\ task'[t].length = None /\ task'[t].at = "read"
                  BY <1>5, <1>6, <1>7 DEF RunsOn
            <3>2. NoLengthAt(c) BY <2>0 DEF ClipOK
            <3> QED BY <1>2, <2>2, <3>1, <3>2 DEF NoLengthAt
      <2>4. ASSUME c \notin crossed' PROVE Processed(c)'
            <3>1. Processed(c) /\ w \in Scheduling(c)
                  BY <1>0, <1>2, <2>0, <2>4 DEF ClipOK, Scheduling
            <3>2. RunsOn(c)' = {t} BY <2>2, <3>1 DEF Processed, Alone
            <3>3. Scheduling(c)' = {} BY <1>3, <3>1 DEF Processed, Alone, Scheduling
            <3>4. Alone(c)' BY <3>2, <3>3 DEF Alone
            <3>5. Measured(c, t)' BY <1>5 DEF Measured
            <3>6. ~Settled(c)' BY <3>2 DEF Settled
            <3> QED BY <3>2, <3>3, <3>4, <3>5, <3>6 DEF Processed, SettledWell
      <2> QED BY <2>1, <2>3, <2>4 DEF ClipOK
<1>12. Here' = Here BY <1>2 DEF Here
<1> QED BY <1>9, <1>10, <1>11, <1>12 DEF VideosInv

\* The run on video d becomes r, and the video v: it will be settled still,
LeavesTended(t, d, r, v) ==
  v.state \in {"PENDING", "PROCESSING"} =>
    \/ r.clip = d /\ r.at \in Unsettled
    \/ task[t].at \notin Unsettled /\ v.state = clip[d].state

\* nobody comes to claim a length that nobody knows,
LeavesNoLength(d, r, v) ==
  v.length = None => /\ clip[d].length = None /\ v.seconds = None
                     /\ r.clip = d => r.length = None /\ (r.at = "item" => r.probed = None)

\* what the run knows is right,
LeavesMeasured(d, r, v) ==
  d \notin crossed /\ r.clip = d =>
    /\ r.at \in {"claim", "probe", "fail", "write"} => r.key = v.key /\ r.length = v.length
    /\ r.at = "item" => r.key = v.key /\ v.length = Hinted(r.probed, r.length)
    /\ r.at \in {"write", "item"} =>
         (r.probed # None => r.probed = file[v.key] /\ v.key \in SafeUploads)
    /\ r.at = "item" => v.known = (r.probed # None)

\* and a run that ends well leaves the right length in both rows.
SettlesWell(d, r, v) ==
  d \notin crossed /\ r = NoRun /\ v.state = "READY" =>
    /\ v.seconds = v.length
    /\ v.known => v.length = file[v.key] /\ v.key \in SafeUploads

\* A run goes on or ends, and may change its video: the other videos stand, and
\* its own is settled well, or is measured and will be settled.
LEMMA RunStepKeepsVideos ==
  ASSUME Bounded, VideosInv, NEW t \in Task, NEW d \in Clip, task[t].clip = d, NEW r, Goes(t, r),
         UNCHANGED <<handler, faults, file, stored, wiped, completed, crossed>>,
         NEW v \in Video, d \in Here, clip' = [clip EXCEPT ![d] = v], v.key = clip[d].key,
         r = NoRun \/ r.clip = d,
         LeavesTended(t, d, r, v), LeavesNoLength(d, r, v), LeavesMeasured(d, r, v), SettlesWell(d, r, v)
  PROVE  VideosInv'
<1>1. \A u \in Task : task'[u] = IF u = t THEN r ELSE task[u]
      BY DEF Goes, Bounded, RunsFit
<1>2. \A c \in Clip : clip'[c] = IF c = d THEN v ELSE clip[c]
      BY DEF Bounded, ClipsFit, VideosOK
<1>3. /\ Here' = Here /\ d # 0 /\ NoRun.clip = 0 /\ 0 \notin Clip /\ clip[d] # None /\ v # None
      BY <1>2, RowsAreThere DEF Here, NoRun, Clip
<1>4. /\ UNCHANGED <<pc, job>> /\ SafeUploads' = SafeUploads
      /\ \A c \in Clip : Scheduling(c)' = Scheduling(c)
      BY DEF handler, SafeUploads, Twice, Scheduling
<1>5. Holders'
      <2>1. \A u \in Worker : Removing(u)' => Removing(u) /\ job'[u] = job[u]
            BY <1>4 DEF Removing
      <2>2. \A c \in Here' : c \in Here /\ clip'[c].key = clip[c].key
            BY <1>2, <1>3 DEF Here
      <2> QED BY <2>1, <2>2, HoldersStand DEF VideosInv
<1>6. ASSUME NEW c \in Here, c # d PROVE ClipOK(c)'
      <2>1. c \in Clip /\ clip[c] # None /\ clip[c].key \in Upload /\ clip'[c] = clip[c]
            BY <1>2, <1>6, RowNumbers DEF Here
      <2>2. \A u \in Task : task[u].clip = c \/ task'[u].clip = c => task'[u] = task[u]
            BY <1>1, <1>3, <1>6, <2>1
      <2>3. Stands(c) BY <1>4, <2>1, <2>2 DEF Stands
      <2> QED BY <2>1, <2>3, StandingOK DEF VideosInv
<1>7. ClipOK(d)'
      <2>0. ClipOK(d) BY DEF VideosInv
      <2>1. v.state \in {"PENDING", "PROCESSING"} => Tended(d)'
            <3>1. CASE r.clip = d /\ r.at \in Unsettled BY <1>1, <3>1 DEF Tended
            <3>2. CASE task[t].at \notin Unsettled /\ v.state = clip[d].state
                  <4>1. v.state \in {"PENDING", "PROCESSING"} => Tended(d) BY <2>0, <3>2 DEF ClipOK
                  <4>2. Tended(d) => Tended(d)' BY <1>1, <1>4, <3>2 DEF Tended
                  <4> QED BY <4>1, <4>2
            <3> QED BY <3>1, <3>2 DEF LeavesTended
      <2>2. RunsOn(d)' = IF r.clip = d THEN RunsOn(d) ELSE RunsOn(d) \ {t}
            BY <1>1 DEF RunsOn
      <2>3. NoLengthAt(d)'
            <3> SUFFICES ASSUME v.length = None
                         PROVE  /\ v.seconds = None
                                /\ \A u \in RunsOn(d)' : task'[u].length = None
                                                         /\ (task'[u].at = "item" => task'[u].probed = None)
                BY <1>2 DEF NoLengthAt
            <3>1. NoLengthAt(d) /\ clip[d].length = None /\ v.seconds = None
                  BY <2>0 DEF ClipOK, LeavesNoLength
            <3>2. ASSUME NEW u \in RunsOn(d)'
                  PROVE  task'[u].length = None /\ (task'[u].at = "item" => task'[u].probed = None)
                  <4>1. CASE u = t
                        <5>1. task'[u] = r /\ r.clip = d BY <1>1, <4>1, <3>2 DEF RunsOn
                        <5> QED BY <5>1 DEF LeavesNoLength
                  <4>2. CASE u # t
                        <5>1. task'[u] = task[u] /\ u \in RunsOn(d) BY <1>1, <3>2, <4>2 DEF RunsOn
                        <5> QED BY <3>1, <5>1 DEF NoLengthAt
                  <4> QED BY <4>1, <4>2
            <3> QED BY <3>1, <3>2
      <2>4. ASSUME d \notin crossed PROVE Processed(d)'
            <3>1. Processed(d) /\ t \in RunsOn(d) BY <2>0, <2>4 DEF ClipOK, RunsOn
            <3>2. RunsOn(d) = {t} /\ Scheduling(d) = {} BY <3>1 DEF Processed, Alone
            <3>3. RunsOn(d)' = (IF r.clip = d THEN {t} ELSE {}) /\ Scheduling(d)' = {}
                  BY <1>4, <2>2, <3>2
            <3>4. Alone(d)' BY <3>3 DEF Alone
            <3>5. r.clip = d => Measured(d, t)'
                  <4>1. task'[t] = r /\ clip'[d] = v BY <1>1, <1>2
                  <4> QED BY <1>4, <2>4, <4>1 DEF Measured, LeavesMeasured
            <3>6. SettledWell(d)'
                  <4>1. clip'[d] = v BY <1>2
                  <4>2. Settled(d)' => r.clip # d /\ v.state = "READY"
                        BY <3>3, <4>1 DEF Settled
                  <4>3. r.clip # d => r = NoRun OBVIOUS
                  <4> QED BY <1>4, <2>4, <4>1, <4>2, <4>3 DEF SettledWell, SettlesWell
            <3>7. \A u \in RunsOn(d)' : Measured(d, u)' BY <3>3, <3>5
            <3> QED BY <3>3, <3>4, <3>6, <3>7 DEF Processed
      <2>5. d \notin crossed' => d \notin crossed OBVIOUS
      <2>6. (clip[d].state \in {"PENDING", "PROCESSING"} => Tended(d))' BY <1>2, <2>1
      <2> QED BY <2>3, <2>4, <2>5, <2>6 DEF ClipOK
<1> QED BY <1>3, <1>5, <1>6, <1>7 DEF VideosInv

\* A run whose video is gone changes no other.
LEMMA RunOfNoneKeepsVideos ==
  ASSUME Bounded, VideosInv, NEW t \in Task, task[t].clip \notin Here, NEW r, Goes(t, r),
         r.clip = task[t].clip \/ r = NoRun,
         UNCHANGED <<clip, handler, faults, file, stored, wiped, completed, crossed>>
  PROVE  VideosInv'
<1>1. \A u \in Task : task'[u] = IF u = t THEN r ELSE task[u]
      BY DEF Goes, Bounded, RunsFit
<1>2. /\ Here' = Here /\ UNCHANGED <<pc, job>> /\ SafeUploads' = SafeUploads
      /\ \A c \in Clip : Scheduling(c)' = Scheduling(c)
      BY DEF handler, SafeUploads, Twice, Scheduling, Here
<1>3. NoRun.clip = 0 /\ 0 \notin Clip BY DEF NoRun, Clip
<1>4. Holders' BY <1>2 DEF Holders, VideosInv, Removing
<1>5. ASSUME NEW c \in Here PROVE ClipOK(c)'
      <2>1. c \in Clip /\ clip[c] # None /\ clip[c].key \in Upload
            BY <1>5, RowNumbers DEF Here
      <2>2. \A u \in Task : task[u].clip = c \/ task'[u].clip = c => task'[u] = task[u]
            BY <1>1, <1>3, <1>5, <2>1
      <2>3. Stands(c) BY <1>2, <2>1, <2>2 DEF Stands
      <2> QED BY <2>1, <2>3, StandingOK DEF VideosInv
<1> QED BY <1>2, <1>4, <1>5 DEF VideosInv

\* What is known of a run and of the video it is about.
LEMMA RunView ==
  ASSUME Bounded, VideosInv, NEW t \in Task, task[t].at # "idle", NEW d, d = task[t].clip
  PROVE  /\ d \in Clip /\ task[t] \in Run
         /\ task[t].at \in {"read", "claim", "probe"} => task[t].probed = None
         /\ d \in Here => /\ clip[d] \in Video /\ clip[d].key <= opened /\ clip[d].key \in Upload
                          /\ file[clip[d].key] \in File
                          /\ NoLengthAt(d) /\ t \in RunsOn(d)
                          /\ d \notin crossed => Measured(d, t)
<1>1. d \in Clip /\ task[t] \in Run BY RunNumbers
<1>2. task[t].at \in {"read", "claim", "probe"} => task[t].probed = None
      BY RunNumbers DEF RunFits
<1>3. ASSUME d \in Here
      PROVE  /\ clip[d] \in Video /\ clip[d].key <= opened /\ clip[d].key \in Upload
             /\ file[clip[d].key] \in File
      BY <1>3, RowNumbers DEF Bounded, SessionsFit
<1>4. t \in RunsOn(d) BY DEF RunsOn
<1>5. ASSUME d \in Here PROVE NoLengthAt(d) /\ (d \notin crossed => Measured(d, t))
      BY <1>4, <1>5 DEF VideosInv, ClipOK, Processed
<1> QED BY <1>1, <1>2, <1>3, <1>4, <1>5

LEMMA TaskReadKeepsVideos ==
  ASSUME Bounded, VideosInv, NEW t \in Task, TaskRead(t)
  PROVE  VideosInv'
<1>0. PICK d : d = task[t].clip OBVIOUS
<1> DEFINE r == [task[t] EXCEPT !.at = "claim", !.key = clip[d].key, !.length = clip[d].length]
<1>1. /\ UNCHANGED <<clip, handler, faults, file, stored, wiped, completed, crossed>>
      /\ task[t].at = "read" /\ task[t].at # "idle"
      BY DEF TaskRead, clips, bounds, history, sessions
<1>2. CASE d \notin Here
      BY <1>0, <1>1, <1>2, RunOfNoneKeepsVideos DEF TaskRead, Onward
<1>3. CASE d \in Here
      <2>1. /\ clip[d] \in Video /\ d \in Clip /\ task[t] \in Run /\ NoLengthAt(d) /\ task[t].probed = None
            BY <1>0, <1>1, <1>3, RunView
      <2>2. Goes(t, r) BY <1>0, <1>3 DEF TaskRead, Onward
      <2>3. /\ r.at = "claim" /\ r.key = clip[d].key /\ r.length = clip[d].length
            /\ r.clip = d /\ r.probed = None
            BY <1>0, <2>1 DEF Run
      <2> HIDE DEF r
      <2>4. clip' = [clip EXCEPT ![d] = clip[d]] BY <1>1 DEF Bounded, ClipsFit, VideosOK
      <2>5. LeavesTended(t, d, r, clip[d]) BY <2>3 DEF LeavesTended, Unsettled
      <2>6. LeavesNoLength(d, r, clip[d]) BY <2>1, <2>3 DEF LeavesNoLength, NoLengthAt
      <2>7. LeavesMeasured(d, r, clip[d]) BY <2>3 DEF LeavesMeasured
      <2>8. SettlesWell(d, r, clip[d]) BY <2>3 DEF SettlesWell, NoRun
      <2> QED BY <1>0, <1>1, <1>3, <2>1, <2>2, <2>3, <2>4, <2>5, <2>6, <2>7, <2>8, RunStepKeepsVideos
<1> QED BY <1>2, <1>3

LEMMA TaskClaimKeepsVideos ==
  ASSUME Bounded, VideosInv, NEW t \in Task, TaskClaim(t)
  PROVE  VideosInv'
<1>0. PICK d : d = task[t].clip OBVIOUS
<1> DEFINE r == [task[t] EXCEPT !.at = "probe"]  v == [clip[d] EXCEPT !.state = "PROCESSING"]
<1>1. /\ UNCHANGED <<handler, faults, file, stored, wiped, completed, crossed>>
      /\ task[t].at = "claim" /\ task[t].at # "idle"
      BY DEF TaskClaim, bounds, history, sessions
<1>2. CASE d \notin Here
      BY <1>0, <1>1, <1>2, RunOfNoneKeepsVideos DEF TaskClaim, Onward, SetState
<1>3. CASE d \in Here
      <2>1. /\ clip[d] \in Video /\ d \in Clip /\ task[t] \in Run /\ NoLengthAt(d) /\ t \in RunsOn(d)
            /\ d \notin crossed => Measured(d, t)
            BY <1>0, <1>1, <1>3, RunView
      <2>2. Goes(t, r) /\ clip' = [clip EXCEPT ![d] = v]
            BY <1>0, <1>3 DEF TaskClaim, Onward, SetState
      <2>3. /\ r.at = "probe" /\ r.key = task[t].key /\ r.length = task[t].length
            /\ r.clip = d /\ r.probed = task[t].probed
            BY <1>0, <2>1 DEF Run
      <2>4. /\ v \in Video /\ v.key = clip[d].key /\ v.length = clip[d].length
            /\ v.seconds = clip[d].seconds /\ v.state = "PROCESSING"
            BY <2>1 DEF Video
      <2> HIDE DEF r, v
      <2>5. LeavesTended(t, d, r, v) BY <2>3 DEF LeavesTended, Unsettled
      <2>6. LeavesNoLength(d, r, v) BY <2>1, <2>3, <2>4 DEF LeavesNoLength, NoLengthAt
      <2>7. LeavesMeasured(d, r, v) BY <1>1, <2>1, <2>3, <2>4 DEF LeavesMeasured, Measured
      <2>8. SettlesWell(d, r, v) BY <2>3 DEF SettlesWell, NoRun
      <2> QED BY <1>0, <1>1, <1>3, <2>1, <2>2, <2>3, <2>4, <2>5, <2>6, <2>7, <2>8, RunStepKeepsVideos
<1> QED BY <1>2, <1>3

LEMMA TaskProbeKeepsVideos ==
  ASSUME Bounded, VideosInv, NEW t \in Task, TaskProbe(t)
  PROVE  VideosInv'
<1>0. PICK d : d = task[t].clip OBVIOUS
<1>1. /\ UNCHANGED <<clip, handler, faults, file, stored, wiped, completed, crossed>>
      /\ task[t].at = "probe" /\ task[t].at # "idle"
      BY DEF TaskProbe, clips, bounds, history, sessions
<1>2. task[t] \in Run /\ task[t].probed = None BY <1>0, <1>1, RunView
<1>3. PICK r :
        /\ Goes(t, r) /\ r.clip = d /\ r.key = task[t].key /\ r.length = task[t].length
        /\ \/ r.at = "write" /\ r.probed = None
           \/ task[t].key \in stored /\ r.at = "write" /\ r.probed = file[task[t].key]
           \/ r.at = "fail"
      <2>1. CASE Goes(t, [task[t] EXCEPT !.at = "write"])
            <3> DEFINE r == [task[t] EXCEPT !.at = "write"]
            <3>1. r.clip = d /\ r.key = task[t].key /\ r.length = task[t].length /\ r.at = "write" /\ r.probed = None
                  BY <1>0, <1>2 DEF Run
            <3> QED BY <2>1, <3>1
      <2>2. CASE /\ task[t].key \in stored
                 /\ Goes(t, [task[t] EXCEPT !.at = "write", !.probed = file[task[t].key]])
            <3> DEFINE r == [task[t] EXCEPT !.at = "write", !.probed = file[task[t].key]]
            <3>1. /\ r.clip = d /\ r.key = task[t].key /\ r.length = task[t].length /\ r.at = "write"
                  /\ r.probed = file[task[t].key]
                  BY <1>0, <1>2 DEF Run
            <3> QED BY <2>2, <3>1
      <2>3. CASE Goes(t, [task[t] EXCEPT !.at = "fail"])
            <3> DEFINE r == [task[t] EXCEPT !.at = "fail"]
            <3>1. r.clip = d /\ r.key = task[t].key /\ r.length = task[t].length /\ r.at = "fail"
                  BY <1>0, <1>2 DEF Run
            <3> QED BY <2>3, <3>1
      <2> QED BY <2>1, <2>2, <2>3 DEF TaskProbe
<1>4. CASE d \notin Here
      BY <1>0, <1>1, <1>3, <1>4, RunOfNoneKeepsVideos
<1>5. CASE d \in Here
      <2>1. /\ clip[d] \in Video /\ d \in Clip /\ NoLengthAt(d) /\ t \in RunsOn(d)
            /\ d \notin crossed => Measured(d, t)
            BY <1>0, <1>1, <1>5, RunView
      <2>2. clip' = [clip EXCEPT ![d] = clip[d]] BY <1>1 DEF Bounded, ClipsFit, VideosOK
      <2>3. r.at \in {"write", "fail"} BY <1>3
      <2>4. d \notin crossed => task[t].key = clip[d].key /\ task[t].length = clip[d].length
            BY <1>1, <2>1 DEF Measured
      <2>5. LeavesTended(t, d, r, clip[d]) BY <1>3, <2>3 DEF LeavesTended, Unsettled
      <2>6. LeavesNoLength(d, r, clip[d])
            BY <1>3, <2>1, <2>3 DEF LeavesNoLength, NoLengthAt
      <2>7. LeavesMeasured(d, r, clip[d])
            <3>1. d \notin crossed /\ r.at = "write" /\ r.probed # None =>
                    r.probed = file[clip[d].key] /\ clip[d].key \in SafeUploads
                  BY <1>3, <2>4 DEF SafeUploads
            <3> QED BY <1>3, <2>3, <2>4, <3>1 DEF LeavesMeasured
      <2>8. SettlesWell(d, r, clip[d]) BY <2>3 DEF SettlesWell, NoRun
      <2> QED BY <1>0, <1>1, <1>3, <1>5, <2>1, <2>2, <2>5, <2>6, <2>7, <2>8, RunStepKeepsVideos
<1> QED BY <1>4, <1>5

LEMMA TaskReadyKeepsVideos ==
  ASSUME Bounded, VideosInv, NEW t \in Task, TaskReady(t)
  PROVE  VideosInv'
<1>0. PICK d : d = task[t].clip OBVIOUS
<1> DEFINE r == [task[t] EXCEPT !.at = "item"]
           v == [clip[d] EXCEPT !.state = "READY", !.length = Hinted(task[t].probed, @),
                                !.known = (task[t].probed # None)]
<1>1. /\ UNCHANGED <<handler, faults, file, stored, wiped, completed, crossed>>
      /\ task[t].at = "write" /\ task[t].at # "idle"
      BY DEF TaskReady, bounds, history, sessions
<1>2. CASE d \notin Here
      BY <1>0, <1>1, <1>2, RunOfNoneKeepsVideos DEF TaskReady, Onward
<1>3. CASE d \in Here
      <2>1. /\ clip[d] \in Video /\ d \in Clip /\ task[t] \in Run /\ NoLengthAt(d) /\ t \in RunsOn(d)
            /\ d \notin crossed => Measured(d, t)
            BY <1>0, <1>1, <1>3, RunView
      <2>2. Goes(t, r) BY <1>0, <1>3 DEF TaskReady, Onward
      <2>3. /\ r.at = "item" /\ r.key = task[t].key /\ r.length = task[t].length
            /\ r.clip = d /\ r.probed = task[t].probed
            BY <1>0, <2>1 DEF Run
      <2>4. /\ v \in Video /\ v.key = clip[d].key /\ v.length = Hinted(task[t].probed, clip[d].length)
            /\ v.seconds = clip[d].seconds /\ v.state = "READY"
            /\ v.known = (task[t].probed # None)
            BY <2>1 DEF Video, Hinted, Run
      <2>9. clip' = [clip EXCEPT ![d] = v]
            <3>1. clip \in [Clip -> Video \union {None}] BY DEF Bounded, ClipsFit, VideosOK
            <3>2. clip' = [clip EXCEPT ![d].state = "READY", ![d].length = Hinted(task[t].probed, @),
                                       ![d].known = (task[t].probed # None)]
                  BY <1>0, <1>3 DEF TaskReady
            <3> QED BY <2>1, <3>1, <3>2
      <2> HIDE DEF r, v
      <2>5. LeavesTended(t, d, r, v) BY <2>4 DEF LeavesTended
      <2>6. LeavesNoLength(d, r, v) BY <2>1, <2>3, <2>4 DEF LeavesNoLength, NoLengthAt, Hinted
      <2>7. LeavesMeasured(d, r, v)
            BY <1>1, <2>1, <2>3, <2>4 DEF LeavesMeasured, Measured
      <2>8. SettlesWell(d, r, v) BY <2>3 DEF SettlesWell, NoRun
      <2> QED BY <1>0, <1>1, <1>3, <2>1, <2>2, <2>3, <2>4, <2>5, <2>6, <2>7, <2>8, <2>9, RunStepKeepsVideos
<1> QED BY <1>2, <1>3

LEMMA TaskItemKeepsVideos ==
  ASSUME Bounded, VideosInv, NEW t \in Task, TaskItem(t)
  PROVE  VideosInv'
<1>0. PICK d : d = task[t].clip OBVIOUS
<1>1. /\ UNCHANGED <<handler, faults, file, stored, wiped, completed, crossed>>
      /\ task[t].at = "item" /\ task[t].at # "idle" /\ Goes(t, NoRun)
      BY DEF TaskItem, bounds, history, sessions
<1>2. CASE d \notin Here
      BY <1>0, <1>1, <1>2, RunOfNoneKeepsVideos DEF TaskItem
<1>3. CASE d \in Here
      <2> DEFINE seconds == Hinted(task[t].probed, task[t].length)
                 v == [clip[d] EXCEPT !.seconds = Hinted(seconds, @)]
      <2>1. /\ clip[d] \in Video /\ d \in Clip /\ task[t] \in Run /\ NoLengthAt(d) /\ t \in RunsOn(d)
            /\ d \notin crossed => Measured(d, t)
            /\ file[clip[d].key] \in File
            BY <1>0, <1>1, <1>3, RunView
      <2>3. NoRun.clip = 0 /\ d # 0 /\ NoRun.at = "idle"
            BY <2>1 DEF NoRun, Clip
      <2>4. /\ v \in Video /\ v.key = clip[d].key /\ v.length = clip[d].length
            /\ v.seconds = Hinted(seconds, clip[d].seconds) /\ v.state = clip[d].state
            /\ v.known = clip[d].known
            BY <2>1 DEF Video, Hinted, Run
      <2>9. clip' = [clip EXCEPT ![d] = v]
            <3>1. clip \in [Clip -> Video \union {None}] BY DEF Bounded, ClipsFit, VideosOK
            <3>2. clip' = [clip EXCEPT ![d].seconds = Hinted(seconds, @)]
                  BY <1>0, <1>3 DEF TaskItem
            <3> QED BY <2>1, <3>1, <3>2
      <2> HIDE DEF v
      <2>5. LeavesTended(t, d, NoRun, v) BY <1>1, <2>4 DEF LeavesTended, Unsettled
      <2>6. LeavesNoLength(d, NoRun, v)
            BY <1>1, <2>1, <2>3, <2>4 DEF LeavesNoLength, NoLengthAt, Hinted
      <2>7. LeavesMeasured(d, NoRun, v) BY <2>3 DEF LeavesMeasured
      <2>8. SettlesWell(d, NoRun, v)
            <3> SUFFICES ASSUME d \notin crossed
                         PROVE  /\ v.seconds = v.length
                                /\ v.known => v.length = file[v.key] /\ v.key \in SafeUploads
                BY DEF SettlesWell
            <3>1. /\ v.length = seconds
                  /\ v.known => task[t].probed = file[v.key] /\ v.key \in SafeUploads
                  BY <1>1, <2>1, <2>4 DEF Measured
            <3>2. v.length = None => v.seconds = None
                  BY <2>1, <2>4, <3>1 DEF NoLengthAt, Hinted
            <3>3. v.seconds = v.length BY <2>4, <3>1, <3>2 DEF Hinted
            <3>4. file[v.key] # None BY <2>1, <2>4, MaxesAreNumbers
            <3>5. v.known => v.length = file[v.key] BY <3>1, <3>4 DEF Hinted
            <3> QED BY <3>1, <3>3, <3>5
      <2> QED BY <1>0, <1>1, <1>3, <2>1, <2>4, <2>5, <2>6, <2>7, <2>8, <2>9, RunStepKeepsVideos
<1> QED BY <1>2, <1>3

LEMMA TaskFailKeepsVideos ==
  ASSUME Bounded, VideosInv, NEW t \in Task, TaskFail(t)
  PROVE  VideosInv'
<1>0. PICK d : d = task[t].clip OBVIOUS
<1>1. /\ UNCHANGED <<handler, faults, file, stored, wiped, completed, crossed>>
      /\ task[t].at = "fail" /\ task[t].at # "idle" /\ Goes(t, NoRun)
      BY DEF TaskFail, bounds, history, sessions
<1>2. CASE d \notin Here
      BY <1>0, <1>1, <1>2, RunOfNoneKeepsVideos DEF TaskFail, SetState
<1>3. CASE d \in Here
      <2> DEFINE v == [clip[d] EXCEPT !.state = "FAILED"]
      <2>1. clip[d] \in Video /\ d \in Clip /\ NoLengthAt(d)
            BY <1>0, <1>1, <1>3, RunView
      <2>2. clip' = [clip EXCEPT ![d] = v] BY <1>0, <1>3 DEF TaskFail, SetState
      <2>3. NoRun.clip = 0 /\ d # 0 BY <2>1 DEF NoRun, Clip
      <2>4. /\ v \in Video /\ v.key = clip[d].key /\ v.length = clip[d].length
            /\ v.seconds = clip[d].seconds /\ v.state = "FAILED"
            BY <2>1 DEF Video
      <2> HIDE DEF v
      <2>5. LeavesTended(t, d, NoRun, v) BY <2>4 DEF LeavesTended
      <2>6. LeavesNoLength(d, NoRun, v) BY <2>1, <2>3, <2>4 DEF LeavesNoLength, NoLengthAt
      <2>7. LeavesMeasured(d, NoRun, v) BY <2>3 DEF LeavesMeasured
      <2>8. SettlesWell(d, NoRun, v) BY <2>4 DEF SettlesWell
      <2> QED BY <1>0, <1>1, <1>3, <2>1, <2>2, <2>4, <2>5, <2>6, <2>7, <2>8, RunStepKeepsVideos
<1> QED BY <1>2, <1>3

\* A request is stopped: whoever it was about to start counts as lost.
LEMMA StopKeepsVideos ==
  ASSUME Bounded, VideosInv, NEW w \in Worker, Stop(w)
  PROVE  VideosInv'
<1>1. /\ UNCHANGED <<clip, task, crossed, completed, file>> /\ WorkerGoes(w, "idle", NoJob)
      /\ faults' = faults + 1
      BY OneGoes DEF Stop, sessions, clips
<1>2. faults' > 0 BY <1>1 DEF Bounded, CountsFit
<1>3. /\ wiped \subseteq wiped'
      /\ pc[w] = "delete" => job[w].upload \in wiped'
      /\ \A c \in Here : clip[c].key \in stored => clip[c].key \in stored' \union wiped'
      <2>1. CASE pc[w] = "stream" BY <2>1 DEF Stop, Breaks
      <2>2. CASE pc[w] # "stream" BY <2>2 DEF Stop
      <2> QED BY <2>1, <2>2
<1>4. ASSUME NEW c \in Here, clip[c].key \in SafeUploads PROVE clip[c].key \in SafeUploads'
      <2>1. \A v \in Worker : v # w => pc'[v] = pc[v] /\ job'[v] = job[v]
            BY <1>1 DEF WorkerGoes, Bounded, HandlersFit
      <2>2. \A u \in Upload : completed'[u] \in Nat /\ completed[u] <= completed'[u]
            BY <1>1 DEF Bounded, SessionsFit, SessionsOK
      <2>3. \A v \in Worker : pc[v] = "delete" /\ job[v].upload = clip[c].key =>
              (pc'[v] = "delete" /\ job'[v].upload = clip[c].key) \/ clip[c].key \in wiped' \union Twice'
            BY <1>3, <2>1
      <2> QED BY <1>3, <1>4, <2>2, <2>3, SafeStays
<1>5. \A c \in Here' : ClipOK(c)' BY <1>1, <1>2, <1>4, VideosStand
<1>6. Holders' BY <1>1, HoldersKept DEF VideosInv
<1> QED BY <1>5, <1>6 DEF VideosInv

\* A run is cut short: its video is crossed, and somebody has stopped.
LEMMA StopTaskKeepsVideos ==
  ASSUME Bounded, VideosInv, NEW t \in Task, StopTask(t)
  PROVE  VideosInv'
<1>0. PICK d : d = task[t].clip OBVIOUS
<1>1. /\ UNCHANGED <<clip, pc, job, file, stored, wiped, completed>> /\ Goes(t, NoRun)
      /\ crossed' = crossed \union {d} /\ faults' = faults + 1
      BY <1>0 DEF StopTask, sessions, clips, handler
<1>2. \A u \in Task : task'[u] = IF u = t THEN NoRun ELSE task[u]
      BY <1>1 DEF Goes, Bounded, RunsFit
<1>3. faults' > 0 BY <1>1 DEF Bounded, CountsFit
<1>4. /\ SafeUploads' = SafeUploads /\ Here' = Here
      /\ \A c \in Clip : Scheduling(c)' = Scheduling(c)
      BY <1>1 DEF SafeUploads, Twice, Scheduling, Here
<1>5. NoRun.clip = 0 /\ 0 \notin Clip BY DEF NoRun, Clip
<1>6. Holders' BY <1>1, <1>4 DEF Holders, VideosInv, Removing
<1>7. ASSUME NEW c \in Here, c # d PROVE ClipOK(c)'
      <2>1. c \in Clip /\ clip[c] # None /\ clip[c].key \in Upload
            BY <1>7, RowNumbers DEF Here
      <2>2. \A u \in Task : task[u].clip = c \/ task'[u].clip = c => task'[u] = task[u]
            BY <1>0, <1>2, <1>5, <1>7, <2>1
      <2>3. c \notin crossed' => c \notin crossed BY <1>1
      <2>4. Stands(c) BY <1>1, <1>3, <1>4, <2>1, <2>2, <2>3 DEF Stands
      <2> QED BY <2>1, <2>4, StandingOK DEF VideosInv
<1>8. ASSUME d \in Here PROVE ClipOK(d)'
      <2>1. NoLengthAt(d) /\ d \in Clip BY <1>8 DEF VideosInv, ClipOK, Here
      <2>2. RunsOn(d)' = RunsOn(d) \ {t}
            BY <1>2, <1>5, <2>1 DEF RunsOn
      <2>3. NoLengthAt(d)'
            <3>1. \A u \in RunsOn(d)' : u \in RunsOn(d) /\ task'[u] = task[u]
                  BY <1>2, <2>2 DEF RunsOn
            <3> QED BY <1>1, <2>1, <3>1 DEF NoLengthAt
      <2>4. Tended(d)' BY <1>3 DEF Tended
      <2>5. d \in crossed' BY <1>1
      <2> QED BY <2>3, <2>4, <2>5 DEF ClipOK
<1> QED BY <1>4, <1>6, <1>7, <1>8 DEF VideosInv

\* What changes no request, no run and no file, and of a video only its status,
\* or deletes it.
Alike(u, v) ==
  u.key = v.key /\ u.length = v.length /\ u.seconds = v.seconds /\ u.state = v.state /\ u.known = v.known

LEMMA StatusKeepsVideos ==
  ASSUME Bounded, VideosInv,
         UNCHANGED <<pc, job, task, faults, file, stored, wiped, completed, crossed>>,
         \A c \in Here' : c \in Here /\ Alike(clip'[c], clip[c])
  PROVE  VideosInv'
<1>1. /\ SafeUploads' = SafeUploads
      /\ \A c \in Clip : Scheduling(c)' = Scheduling(c)
      BY DEF SafeUploads, Twice, Scheduling
<1>2. ASSUME NEW c \in Here' PROVE ClipOK(c)'
      <2>0. c \in Here /\ c \in Clip /\ clip'[c] # None BY <1>2 DEF Here
      <2>1. clip[c] # None /\ clip[c].key \in Upload BY <2>0, RowNumbers DEF Here
      <2>2. Stands(c) BY <1>1, <1>2, <2>0, <2>1 DEF Stands, Alike
      <2> QED BY <2>0, <2>2, StandingOK DEF VideosInv
<1>3. Holders' BY HoldersStand DEF VideosInv, Removing, Alike
<1> QED BY <1>2, <1>3 DEF VideosInv

LEMMA UploadsKeepVideos ==
  ASSUME Bounded, VideosInv, UploadsNext
  PROVE  VideosInv'
<1>1. ASSUME NEW f \in File, PresignResumed(f) PROVE VideosInv'
      <2>1. /\ UNCHANGED <<pc, job, task, faults, file, stored, wiped, completed, crossed, clip>>
            /\ Here' = Here
            BY <1>1 DEF PresignResumed, Ask, sessions, clips, handler, history, Here
      <2> QED BY <2>1, StatusKeepsVideos DEF Alike
<1>2. ASSUME NEW w \in Worker, ProceedUpload(w) PROVE VideosInv'
      BY <1>2, PresignsKeepVideos, ReceivesKeepVideos, CompleteAttachKeepsVideos, ScheduleKeepsVideos,
         WipeKeepsVideos, StartsKeepVideos, RemoveDeleteKeepsVideos, RetryRequeueKeepsVideos
         DEF ProceedUpload
<1>3. ASSUME NEW t \in Task, ProceedTask(t) PROVE VideosInv'
      BY <1>3, TaskReadKeepsVideos, TaskClaimKeepsVideos, TaskProbeKeepsVideos, TaskReadyKeepsVideos,
         TaskItemKeepsVideos, TaskFailKeepsVideos
         DEF ProceedTask
<1>4. ASSUME NEW w \in Worker,
             \/ \E f \in File : PresignStart(w, f)
             \/ \E s \in Upload : \/ PresignAgain(w, s) \/ ReceiveStart(w, s) \/ AbortStart(w, s)
                                  \/ \E c \in Clip \union {0}, hint \in Length : CompleteStart(w, s, c, hint)
             \/ \E c \in Clip : RemoveStart(w, c) \/ RetryStart(w, c)
      PROVE  VideosInv'
      <2>1. CASE \E f \in File : PresignStart(w, f) BY <2>1, PresignsKeepVideos
      <2>2. ASSUME NEW s \in Upload, PresignAgain(w, s) PROVE VideosInv'
            BY <2>2, PresignAgainKeepsVideos
      <2>3. ASSUME NEW s \in Upload, ReceiveStart(w, s) PROVE VideosInv'
            BY <2>3, ReceivesKeepVideos
      <2>4. ASSUME NEW s \in Upload,
                   AbortStart(w, s) \/ \E c \in Clip \union {0}, hint \in Length : CompleteStart(w, s, c, hint)
            PROVE  VideosInv'
            BY <2>4, StartsKeepVideos
      <2>5. ASSUME NEW c \in Clip, RemoveStart(w, c) PROVE VideosInv'
            BY <2>5, RemoveStartKeepsVideos
      <2>6. ASSUME NEW c \in Clip, RetryStart(w, c) PROVE VideosInv'
            BY <2>6, StartsKeepVideos
      <2> QED BY <1>4, <2>1, <2>2, <2>3, <2>4, <2>5, <2>6
<1> QED BY <1>1, <1>2, <1>3, <1>4, StopKeepsVideos, StopTaskKeepsVideos DEF UploadsNext

\* The requests that publish touch no video, no run and no file.
LEMMA PublishesKeepVideos ==
  ASSUME Bounded, VideosInv, NEW w \in Worker,
         PublishStart(w) \/ ReviewStart(w) \/ ProceedPublish(w) \/ StopPublish(w)
  PROVE  VideosInv'
<1>1. UNCHANGED <<clip, task, stored, crossed, completed, wiped, file>>
      BY DEF PublishStart, ReviewStart, ProceedPublish, PublishCommit, SnapshotTree, SnapshotNumber,
             SnapshotCreate, ReviewSubmit, StopPublish, Elsewhere, sessions, clips, history
<1>2. faults' = faults \/ faults' > 0
      <2>1. CASE StopPublish(w) BY <2>1 DEF StopPublish, Bounded, CountsFit
      <2>2. CASE PublishStart(w) \/ ReviewStart(w) BY <2>2 DEF PublishStart, ReviewStart, Begin, Ask
      <2>3. CASE ProceedPublish(w)
            BY <2>3 DEF ProceedPublish, PublishCommit, SnapshotTree, SnapshotNumber, SnapshotCreate,
                        ReviewSubmit, bounds
      <2> QED BY <2>1, <2>2, <2>3
<1>3. /\ pc[w] \notin {"schedule", "delete"}
      /\ \E step \in {"idle", "publish", "review", "snapshot", "number", "record"} : \E j :
           WorkerGoes(w, step, j)
      <2>1. CASE PublishStart(w) \/ ReviewStart(w)
            BY <2>1, OneGoes DEF PublishStart, ReviewStart, Begin
      <2>2. CASE ProceedPublish(w) \/ StopPublish(w)
            <3>1. pc[w] \in PublishSteps
                  BY <2>2 DEF ProceedPublish, PublishCommit, SnapshotTree, SnapshotNumber, SnapshotCreate,
                              ReviewSubmit, StopPublish, PublishSteps
            <3>2. \/ WorkerGoes(w, "idle", NoJob)
                  \/ \E step \in {"snapshot", "number", "record"} : WorkerGoes(w, step, job[w])
                  BY <2>2, OneGoes DEF ProceedPublish, PublishCommit, SnapshotTree, SnapshotNumber,
                              SnapshotCreate, ReviewSubmit, StopPublish, Leave
            <3> QED BY <3>1, <3>2 DEF PublishSteps
      <2> QED BY <2>1, <2>2
<1>4. PICK step \in {"idle", "publish", "review", "snapshot", "number", "record"} : \E j :
           WorkerGoes(w, step, j)
      BY <1>3
<1>5. PICK j : WorkerGoes(w, step, j) BY <1>4
<1>6. \A c \in Here : clip[c].key \in SafeUploads => clip[c].key \in SafeUploads'
      BY <1>1, <1>3, <1>5, SafeUnlessDeleted
<1>7. \A c \in Here' : ClipOK(c)' BY <1>1, <1>2, <1>3, <1>4, <1>5, <1>6, VideosStand
<1>8. Holders' BY <1>1, <1>4, <1>5, HoldersKept DEF VideosInv
<1> QED BY <1>7, <1>8 DEF VideosInv

LEMMA NextKeepsVideos ==
  ASSUME Bounded, VideosInv, [Next]_vars
  PROVE  VideosInv'
<1>1. CASE UNCHANGED vars \/ CourseStep
      <2>1. UNCHANGED <<pc, job, task, faults, file, stored, wiped, completed, crossed, clip>>
            BY <1>1 DEF CourseStep, TakeDown, Approve, Reject, AddText, UpdateLesson, AddOther, UpdateOther,
                        DeleteOther, Lessons, Ask, Elsewhere, vars, uploads, sessions, clips, handler,
                        history, bounds
      <2>2. Here' = Here BY <2>1 DEF Here
      <2> QED BY <2>1, <2>2, StatusKeepsVideos DEF Alike
<1>2. ASSUME NEW i \in Clip \union {Text}, SetItemStatus(i) PROVE VideosInv'
      <2>1. UNCHANGED <<pc, job, task, faults, file, stored, wiped, completed, crossed>>
            BY <1>2 DEF SetItemStatus, Ask, sessions, handler, history
      <2>2. CASE UNCHANGED clip
            <3>1. Here' = Here BY <2>2 DEF Here
            <3> QED BY <2>1, <2>2, <3>1, StatusKeepsVideos DEF Alike
      <2>3. CASE i \in Here /\ clip' = [clip EXCEPT ![i].status = Other(@)]
            <3> DEFINE v == [clip[i] EXCEPT !.status = Other(@)]
            <3>1. clip[i] \in Video /\ i \in Clip /\ clip \in [Clip -> Video \union {None}]
                  BY <2>3, RowNumbers DEF Bounded, ClipsFit, VideosOK
            <3>2. clip' = [clip EXCEPT ![i] = v] BY <2>3
            <3>3. Alike(v, clip[i]) BY <3>1 DEF Video, Other, Alike
            <3> HIDE DEF v
            <3>4. \A c \in Clip : clip'[c] = IF c = i THEN v ELSE clip[c] BY <3>1, <3>2
            <3>5. \A c \in Here' : c \in Here /\ Alike(clip'[c], clip[c])
                  BY <2>3, <3>3, <3>4 DEF Here, Alike
            <3> QED BY <2>1, <3>5, StatusKeepsVideos
      <2> QED BY <1>2, <2>2, <2>3 DEF SetItemStatus
<1>3. CASE UploadsNext BY <1>3, UploadsKeepVideos
<1>4. ASSUME NEW w \in Worker, PublishStart(w) \/ ReviewStart(w) \/ ProceedPublish(w) \/ StopPublish(w)
      PROVE  VideosInv'
      BY <1>4, PublishesKeepVideos
<1>5. ASSUME NEW i \in Clip \union {Text}, DropItem(i) PROVE VideosInv'
      <2>1. UNCHANGED <<pc, job, task, faults, file, stored, wiped, completed, crossed>>
            BY <1>5 DEF DropItem, Ask, sessions, handler, history
      <2>2. clip' = clip \/ clip' = [clip EXCEPT ![i] = None] BY <1>5 DEF DropItem
      <2>3. clip \in [Clip -> Video \union {None}] BY DEF Bounded, ClipsFit, VideosOK
      <2>4. \A c \in Here' : c \in Here /\ clip'[c] = clip[c] BY <2>2, <2>3 DEF Here
      <2> QED BY <2>1, <2>4, StatusKeepsVideos DEF Alike
<1>6. ASSUME NEW live \in BOOLEAN, ReplaceLessons(live) PROVE VideosInv'
      <2>1. /\ clip' = [c \in Clip |-> None] /\ completed' = completed
            /\ pc' = [w \in Worker |-> IF w \in Making THEN "idle" ELSE pc[w]]
            /\ job' = [w \in Worker |-> IF w \in Making THEN NoJob ELSE job[w]]
            BY <1>6 DEF ReplaceLessons, history
      <2>2. Here' = {} BY <2>1 DEF Here
      <2>3. \A w \in Worker : Removing(w)' => Removing(w) /\ job'[w] = job[w]
            BY <2>1 DEF Removing, Making
      <2>4. Holders' BY <2>1, <2>2, <2>3, HoldersStand DEF VideosInv
      <2> QED BY <2>2, <2>4 DEF VideosInv
<1>7. UNCHANGED vars \/ PublishingNext \/ UploadsNext BY DEF Next, VideosNext, AllQuiet
<1> QED BY <1>1, <1>2, <1>3, <1>4, <1>5, <1>6, <1>7 DEF PublishingNext, CourseStep

LEMMA InitVideos ==
  ASSUME Init
  PROVE  VideosInv
<1>0. UploadsInit /\ Bounded BY InitBounded DEF Init
<1>1. PICK fs \in Earlier :
       /\ stored = 1..Len(fs)
       /\ file = [s \in Upload |-> IF s <= Len(fs) THEN fs[s] ELSE None]
       /\ added = IF fs = <<>> THEN 0 ELSE 1
       /\ clip = [c \in Clip |->
            IF c > added THEN None
            ELSE [status |-> "PUBLISHED", seconds |-> fs[1], key |-> 1, length |-> fs[1],
                  state |-> "READY", known |-> TRUE]]
      BY <1>0 DEF UploadsInit
<1>2. fs # <<>> => 1 \in 1..Len(fs) /\ fs[1] \in File
      <2>1. CASE \E f \in File : fs = <<f>> BY <2>1
      <2>2. CASE \E p \in {q \in File \X File : q[1] # q[2] /\ MaxUpload > 1} : fs = <<p[1], p[2]>>
            <3>1. PICK p \in File \X File : fs = <<p[1], p[2]>> BY <2>2
            <3> QED BY <3>1
      <2> QED BY <2>1, <2>2 DEF Earlier
<1>3. /\ pc = [w \in Worker |-> "idle"] /\ task = [t \in Task |-> NoRun]
      /\ completed = [s \in Upload |-> Cardinality({c \in Here : clip[c].key = s})]
      BY <1>0 DEF UploadsInit
<1>4. \A c \in Here : c \in Clip /\ c = 1 /\ added = 1 /\ fs # <<>>
      <2>1. \A c \in Clip : c \in Int /\ c >= 1 BY DEF Clip
      <2>2. \A c \in Here : c \in Clip /\ ~(c > added) BY <1>1 DEF Here
      <2> QED BY <1>1, <2>1, <2>2
<1>5. ASSUME NEW c \in Here
      PROVE  /\ clip[c].seconds = fs[1] /\ clip[c].key = 1 /\ clip[c].length = fs[1] /\ clip[c].state = "READY"
             /\ 1 \in stored /\ 1 \in Upload /\ file[1] = fs[1] /\ fs[1] # None
             /\ completed[1] = 1
      <2>1. c = 1 /\ added = 1 /\ fs # <<>> /\ c \in Clip BY <1>4
      <2>2. clip[c] = [status |-> "PUBLISHED", seconds |-> fs[1], key |-> 1, length |-> fs[1],
                       state |-> "READY", known |-> TRUE]
            BY <1>1, <2>1
      <2>3. 1 \in stored /\ 1 \in Upload /\ fs[1] # None
            BY <1>1, <1>2, <2>1, MaxesAreNumbers DEF Upload
      <2>4. file[1] = fs[1] BY <1>1, <1>2, <2>1, <2>3
      <2>5. {d \in Here : clip[d].key = 1} = {1}
            <3>1. 1 \in Here /\ clip[1].key = 1 BY <1>5, <2>1, <2>2
            <3>2. \A d \in Here : d = 1 BY <1>4
            <3> QED BY <3>1, <3>2
      <2>6. completed[1] = 1 BY <1>3, <2>3, <2>5, FS_Singleton
      <2> QED BY <2>2, <2>3, <2>4, <2>6
<1>6. \A t \in Task : task[t].clip = 0 /\ 0 \notin Clip
      BY <1>3 DEF NoRun, Clip
<1>7. Holders
      <2>1. \A w \in Worker : ~Removing(w) BY <1>3 DEF Removing
      <2>2. \A c \in Here : completed[clip[c].key] >= 1 BY <1>5
      <2>3. \A c, d \in Here : c = d BY <1>4
      <2> QED BY <2>1, <2>2, <2>3 DEF Holders
<1>8. ASSUME NEW c \in Here PROVE ClipOK(c)
      <2>1. RunsOn(c) = {} /\ Scheduling(c) = {}
            BY <1>3, <1>4, <1>6, <1>8 DEF RunsOn, Scheduling
      <2>2. clip[c].key \in SafeUploads BY <1>5, <1>8 DEF SafeUploads
      <2>3. NoLengthAt(c) BY <1>5, <1>8 DEF NoLengthAt
      <2>4. SettledWell(c) BY <1>5, <1>8, <2>2 DEF SettledWell
      <2>5. Alone(c) BY <2>1 DEF Alone
      <2>6. Processed(c) BY <2>1, <2>4, <2>5 DEF Processed
      <2> QED BY <1>5, <1>8, <2>3, <2>6 DEF ClipOK
<1> QED BY <1>7, <1>8 DEF VideosInv

\* Every video is as its runs and its file make it.
THEOREM VideosInvariant == Spec => [](Bounded /\ VideosInv)
<1>1. Init => Bounded /\ VideosInv BY InitBounded, InitVideos
<1>2. Bounded /\ VideosInv /\ [Next]_vars => (Bounded /\ VideosInv)'
      BY NextBounded, NextKeepsVideos
<1> QED BY <1>1, <1>2, PTL DEF Spec

\* What a student is offered as ready and measured can be played to its end: its
\* two lengths are that of its file, which is there; one that no run measured has
\* one length in both rows (VideoProcessingService.process, and the requests that
\* replace, abort, drop and remove what it works on).
THEOREM VideosPlay == Spec => []ReadyVideosPlay
<1>1. ASSUME Bounded, VideosInv PROVE ReadyVideosPlay
      <2>1. UploadsOK BY <1>1, BoundedIsOK
      <2>2. ASSUME NEW c \in Clip \ crossed, Settled(c)
            PROVE  /\ clip[c].seconds = clip[c].length
                   /\ clip[c].known => clip[c].length = file[clip[c].key] /\ clip[c].key \in SafeUploads
            BY <1>1, <2>2 DEF VideosInv, ClipOK, Processed, SettledWell, Settled, Here
      <2>3. LengthIsOfFile BY <2>2 DEF LengthIsOfFile
      <2>4. FileStays
            <3> SUFFICES ASSUME NEW c \in Clip \ crossed, Settled(c), clip[c].known
                         PROVE  \/ clip[c].key \in stored \union Twice \union wiped
                                \/ \E w \in Worker : pc[w] = "delete" /\ job[w].upload = clip[c].key
                BY DEF FileStays
            <3>1. clip[c].key \in SafeUploads BY <2>2
            <3> QED BY <3>1 DEF SafeUploads
      <2> QED BY <2>1, <2>3, <2>4 DEF ReadyVideosPlay
<1> QED BY <1>1, VideosInvariant, PTL

\* No video is parked: whatever is pending or processing has a run that will
\* settle it, or a request about to start one, unless a stop cut it short
\* (VideoProcessingService.schedule and process).
THEOREM NobodyIsParked == Spec => []NothingIsParked
<1>1. ASSUME Bounded, VideosInv PROVE NothingIsParked
      <2>1. ASSUME NEW c \in Here, Tended(c) PROVE Started(c) \/ faults > 0
            BY <2>1 DEF Tended, Started, RunsOn, Scheduling
      <2> QED BY <1>1, <2>1 DEF NothingIsParked, VideosInv, ClipOK
<1> QED BY <1>1, VideosInvariant, PTL
=============================================================================
