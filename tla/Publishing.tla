---------------------------- MODULE Publishing ----------------------------
(***************************************************************************)
(* One course with a required lesson, which holds a text and the videos of  *)
(* Uploads, and room for another: what its teachers write, hide, show and   *)
(* remove while they and the school publish the course, take it down, send  *)
(* it to review or approve it, and the versions that record what students   *)
(* were shown.                                                              *)
(*                                                                         *)
(* The checklist is read before the transaction that publishes, and the     *)
(* version is read, numbered and written after it.  The older course wizard *)
(* replaces all the lessons, and publishes with neither.                    *)
(***************************************************************************)
EXTENDS Uploads

VARIABLES
  course,      \* its status and published
  lesson,      \* the lesson's status
  text,        \* the status of its text, or what the lesson has instead
  other,       \* the course's other required lesson
  versions,    \* the recorded versions, by number
  draft,       \* what a worker's publish or submit has read
  edits, cuts, \* history: changes of lessons and items; those that hid or removed one
               \* or added a lesson
  basis,       \* history: what the course's going live rests on
  checked,     \* history: the cuts when the course in review was checked
  commits,     \* history: publishes that committed
  spoiled      \* history: of those, the ones whose version was lost to another or to a stop

publishing == <<course, lesson, text, other, versions, draft>>
record     == <<edits, cuts, basis, checked, commits, spoiled>>
vars       == <<uploads, publishing, record>>

ItemStatus   == {"PUBLISHED", "DRAFT"}
\* DOWN: UNPUBLISHED or ARCHIVED, which differ in name only.
CourseStatus == {"DRAFT", "REVIEW", "PUBLISHED", "DOWN"}
\* An address is the lesson's own, of a video that is no item.
TextStatus   == ItemStatus \union {"none", "address"}
\* Whether it is there, its status, and whether it has something to show.
Lesson   == [there : BOOLEAN, status : ItemStatus, filled : BOOLEAN]
NoLesson == [there |-> FALSE, status |-> "DRAFT", filled |-> FALSE]
\* What was read: the cuts at the check; the edits and the draft lessons in the
\* tree, the last version; the edits at the commit; and whether another publish
\* was under way.
Draft   == [cuts : Nat, edits : Nat, hidden : Nat, last : Nat, began : Nat, met : BOOLEAN]
NoDraft == [cuts |-> 0, edits |-> 0, hidden |-> 0, last |-> 0, began |-> 0, met |-> FALSE]
\* Nobody has looked, or the checklist or the school has at so many cuts.
Basis   == [by : {"nobody", "checklist", "school"}, cuts : Nat]
Unfounded == [by |-> "nobody", cuts |-> 0]

PublishSteps == {"publish", "snapshot", "number", "record", "review"}

PublishingOK ==
  /\ pc \in [Worker -> {"idle"} \union UploadSteps \union PublishSteps]
  /\ course \in [status : CourseStatus, published : BOOLEAN]
  /\ lesson \in ItemStatus /\ text \in TextStatus /\ other \in Lesson
  /\ versions \in Seq([edits : Nat, hidden : Nat, began : Nat, met : BOOLEAN])
  /\ draft \in [Worker -> Draft]
  /\ \A w \in Worker : pc[w] \notin PublishSteps => draft[w] = NoDraft
  /\ edits \in Nat /\ cuts \in 0..edits
  /\ basis \in Basis /\ checked \in Nat
  /\ commits \in Nat /\ spoiled \in 0..commits

Init ==
  /\ UploadsInit
  /\ course = [status |-> "DRAFT", published |-> FALSE]
  /\ lesson = "DRAFT" /\ text = "PUBLISHED" /\ other = NoLesson
  /\ versions = <<>> /\ draft = [w \in Worker |-> NoDraft]
  /\ edits = 0 /\ cuts = 0 /\ basis = Unfounded /\ checked = 0
  /\ commits = 0 /\ spoiled = 0

-----------------------------------------------------------------------------
Text == 0
\* What a student would see of the lesson, and its items with their status.
Visible ==
  {c \in Here : clip[c].status = "PUBLISHED"}
    \union {i \in {Text} : text \in {"PUBLISHED", "address"}}
Tree ==
  [text |-> text, clips |-> [c \in Clip |-> IF c \in Here THEN clip[c].status ELSE "none"]]

Count(holds) == IF holds THEN 1 ELSE 0

\* The required lessons that are drafts, that show nothing, and that are or do either.
Hidden == Count(lesson = "DRAFT") + Count(other.there /\ other.status = "DRAFT")
Hollow == Count(Visible = {}) + Count(other.there /\ ~other.filled)
Unseen == Count(lesson = "DRAFT" \/ Visible = {})
            + Count(other.there /\ (other.status = "DRAFT" \/ ~other.filled))

\* The history of every step that touches the items.
Noted ==
  IF UNCHANGED <<clip, text>> THEN UNCHANGED <<edits, cuts>>
  ELSE /\ edits' = IF Tree' = Tree THEN edits ELSE edits + 1
       /\ cuts' = IF Visible \subseteq Visible' THEN cuts ELSE cuts + 1

\* Mutant: the checklist counts the drafts too.
ContentsWithDrafts == Here \union {Text}
\* checklist: what counts as the lesson's content, and no required lesson is empty.
Contents == Visible
Ready == Contents # {} /\ (other.there => other.filled)

\* The publishes between their commit and their version.
Recording == {w \in Worker : pc[w] \in {"snapshot", "number", "record"}}

Elsewhere == UNCHANGED <<sessions, stored, clips, task, history>>
Noting(w, d) == draft' = [draft EXCEPT ![w] = d]
Leave(w) == Finish(w) /\ Noting(w, NoDraft)

-----------------------------------------------------------------------------
(* publish and snapshot *)

PublishStart(w) ==
  /\ Begin(w, "publish", NoJob) /\ Ready /\ Noting(w, [NoDraft EXCEPT !.cuts = cuts])
  /\ Elsewhere /\ UNCHANGED <<course, lesson, text, other, versions, record>>

\* "Publish them with it": lessons that are drafts go live with the course.
PublishCommit(w) ==
  /\ pc[w] = "publish"
  /\ lesson' = "PUBLISHED"
  /\ other' = IF other.there THEN [other EXCEPT !.status = "PUBLISHED"] ELSE other
  /\ course' = [status |-> "PUBLISHED", published |-> TRUE]
  /\ draft' = [u \in Worker |->
       IF u \in Recording THEN [draft[u] EXCEPT !.met = TRUE]
       ELSE IF u = w THEN [draft[w] EXCEPT !.met = Recording # {}, !.began = edits] ELSE draft[u]]
  /\ basis' = [by |-> "checklist", cuts |-> draft[w].cuts]
  /\ commits' = commits + 1
  /\ Continue(w, "snapshot")
  /\ Elsewhere /\ UNCHANGED <<bounds, text, versions, edits, cuts, checked, spoiled>>

SnapshotTree(w) ==
  /\ pc[w] = "snapshot"
  /\ Noting(w, [draft[w] EXCEPT !.edits = edits, !.hidden = Hidden])
  /\ Continue(w, "number")
  /\ Elsewhere /\ UNCHANGED <<bounds, course, lesson, text, other, versions, record>>

SnapshotNumber(w) ==
  /\ pc[w] = "number"
  /\ Noting(w, [draft[w] EXCEPT !.last = Len(versions)])
  /\ Continue(w, "record")
  /\ Elsewhere /\ UNCHANGED <<bounds, course, lesson, text, other, versions, record>>

\* Mutant: the second to write a number takes it over.
SnapshotReplace(w) ==
  LET d == draft[w] IN
  /\ pc[w] = "record"
  /\ versions' = Append(SubSeq(versions, 1, d.last),
                        [edits |-> d.edits, hidden |-> d.hidden, began |-> d.began, met |-> d.met])
  /\ Leave(w)
  /\ Elsewhere /\ UNCHANGED <<bounds, course, lesson, text, other, record>>

\* A number is given once: the second to write it fails.
SnapshotCreate(w) ==
  LET d == draft[w] IN
  /\ pc[w] = "record"
  /\ IF Len(versions) > d.last
       THEN spoiled' = (IF d.met THEN spoiled + 1 ELSE spoiled) /\ UNCHANGED versions
       ELSE /\ versions' =
                 Append(versions, [edits |-> d.edits, hidden |-> d.hidden,
                                   began |-> d.began, met |-> d.met])
            /\ UNCHANGED spoiled
  /\ Leave(w)
  /\ Elsewhere
  /\ UNCHANGED <<bounds, course, lesson, text, other, edits, cuts, basis, checked, commits>>

-----------------------------------------------------------------------------
(* archive, unpublish, submitForReview, approveCourse *)

TakeDown ==
  /\ Ask /\ course' = [status |-> "DOWN", published |-> FALSE]
  /\ Elsewhere /\ UNCHANGED <<handler, lesson, text, other, versions, draft, record>>

ReviewStart(w) ==
  /\ Ready
  /\ Begin(w, "review", NoJob) /\ Noting(w, [NoDraft EXCEPT !.cuts = cuts])
  /\ Elsewhere /\ UNCHANGED <<course, lesson, text, other, versions, record>>

\* A course that is live stays so.
ReviewSubmit(w) ==
  /\ pc[w] = "review"
  /\ course' = [course EXCEPT !.status = "REVIEW"]
  /\ checked' = draft[w].cuts
  /\ Leave(w)
  /\ Elsewhere
  /\ UNCHANGED <<bounds, lesson, text, other, versions, edits, cuts, basis, commits, spoiled>>

\* The school approves in any status, and looks at no checklist.
Approve ==
  /\ Ask /\ course' = [status |-> "PUBLISHED", published |-> TRUE]
  /\ basis' = IF course.status # "REVIEW" THEN Unfounded
              ELSE [by |-> "school", cuts |-> checked]
  /\ Elsewhere
  /\ UNCHANGED <<handler, lesson, text, other, versions, draft, edits, cuts, checked, commits,
                 spoiled>>

Reject ==
  /\ Ask /\ course' = [course EXCEPT !.status = "DRAFT"]
  /\ Elsewhere /\ UNCHANGED <<handler, lesson, text, other, versions, draft, record>>

-----------------------------------------------------------------------------
(* The items and the lessons: setItemStatus, addContent, saveContent,       *)
(* deleteContent, createLesson, updateLesson, duplicateLesson, deleteLesson *)

\* To the other status: an item that has its own already is left as it is.
Other(status) == IF status = "PUBLISHED" THEN "DRAFT" ELSE "PUBLISHED"

SetItemStatus(i) ==
  /\ Ask
  /\ IF i = Text THEN text \in ItemStatus /\ text' = Other(text) /\ UNCHANGED clip
       ELSE i \in Here /\ clip' = [clip EXCEPT ![i].status = Other(@)] /\ UNCHANGED text
  /\ Noted
  /\ UNCHANGED <<sessions, stored, added, handler, task, history,
                 course, lesson, other, versions, draft, basis, checked, commits, spoiled>>

\* An item is written, or left out of the list that is saved; the file of a
\* video stays where it is.
AddText(status) ==
  /\ Ask /\ text = "none" /\ text' = status
  /\ Elsewhere /\ Noted
  /\ UNCHANGED <<handler, course, lesson, other, versions, draft, basis, checked, commits,
                 spoiled>>

DropItem(i) ==
  /\ Ask
  /\ IF i = Text THEN text \in ItemStatus /\ text' = "none" /\ UNCHANGED clip
       ELSE i \in Here /\ clip' = [clip EXCEPT ![i] = None] /\ UNCHANGED text
  /\ Noted
  /\ UNCHANGED <<sessions, stored, added, handler, task, history,
                 course, lesson, other, versions, draft, basis, checked, commits, spoiled>>

\* A lesson is changed, whatever the status of its course.
LessonNoted(cut) == edits' = edits + 1 /\ cuts' = cuts + Count(cut)
Lessons ==
  /\ Ask /\ Elsewhere
  /\ UNCHANGED <<handler, course, text, versions, draft, basis, checked, commits, spoiled>>

UpdateLesson(status) ==
  /\ Lessons /\ lesson # status /\ lesson' = status
  /\ LessonNoted(status = "DRAFT") /\ UNCHANGED other

\* A lesson is made, copied (a draft) or marked as required, with or without
\* something to show.
AddOther(status, filled) ==
  /\ Lessons /\ ~other.there
  /\ other' = [there |-> TRUE, status |-> status, filled |-> filled]
  /\ LessonNoted(TRUE) /\ UNCHANGED lesson

\* Its status, or what it shows, changes.
UpdateOther(status, filled) ==
  /\ Lessons /\ other.there
  /\ other' = [other EXCEPT !.status = status, !.filled = filled] /\ other' # other
  /\ LessonNoted(status = "DRAFT" \/ ~filled) /\ UNCHANGED lesson

DeleteOther ==
  /\ Lessons /\ other.there /\ other' = NoLesson
  /\ LessonNoted(FALSE) /\ UNCHANGED lesson

\* The course wizard (saveCurriculum, publish): whatever the course's status,
\* its lessons go, with all they hold, and one is made that is live.  An item
\* about to be made has lost its lesson, which is an error.
ReplaceLessons(live) ==
  /\ Ask
  /\ lesson' = "PUBLISHED" /\ text' \in {"none", "address"} /\ other' = NoLesson
  /\ clip' = [c \in Clip |-> None]
  /\ pc' = [w \in Worker |-> IF w \in Making THEN "idle" ELSE pc[w]]
  /\ job' = [w \in Worker |-> IF w \in Making THEN NoJob ELSE job[w]]
  /\ IF live THEN /\ course' = [status |-> "PUBLISHED", published |-> TRUE]
                  /\ basis' = Unfounded
             ELSE UNCHANGED <<course, basis>>
  /\ LessonNoted(TRUE)
  /\ UNCHANGED <<sessions, stored, added, task, history, versions, draft, checked, commits,
                 spoiled>>

\* A publish that is stopped after its commit has no version.
StopPublish(w) ==
  /\ pc[w] \in PublishSteps /\ faults < MaxFault /\ faults' = faults + 1
  /\ spoiled' = IF w \in Recording THEN spoiled + 1 ELSE spoiled
  /\ Leave(w)
  /\ Elsewhere
  /\ UNCHANGED <<requests, course, lesson, text, other, versions, edits, cuts, basis, checked,
                 commits>>

-----------------------------------------------------------------------------
ProceedPublish(w) ==
  \/ PublishCommit(w) \/ SnapshotTree(w) \/ SnapshotNumber(w) \/ SnapshotCreate(w)
  \/ ReviewSubmit(w)

PublishingNext ==
  \/ \E w \in Worker : PublishStart(w) \/ ReviewStart(w) \/ ProceedPublish(w) \/ StopPublish(w)
  \/ TakeDown \/ Approve \/ Reject
  \/ \E i \in Clip \union {Text} : SetItemStatus(i) \/ DropItem(i)
  \/ \E status \in ItemStatus :
       \/ AddText(status) \/ UpdateLesson(status)
       \/ \E filled \in BOOLEAN : AddOther(status, filled) \/ UpdateOther(status, filled)
  \/ DeleteOther \/ \E live \in BOOLEAN : ReplaceLessons(live)

\* The lesson's videos, as Uploads has them.
VideosNext == UploadsNext /\ UNCHANGED <<publishing, basis, checked, commits, spoiled>> /\ Noted

\* Nobody has anything left to ask.
AllQuiet ==
  /\ requests = MaxRequest
  /\ \A w \in Worker : pc[w] = "idle"
  /\ \A t \in Task : task[t] = NoRun
  /\ UNCHANGED vars

Next == PublishingNext \/ VideosNext \/ AllQuiet

Spec == Init /\ [][Next]_vars

-----------------------------------------------------------------------------
(* Properties *)

\* "A draft lesson would be invisible to students in a published course", and "a
\* teacher cannot skip" the checklist: when a course that a checklist published is
\* live, no more of its required lessons are drafts or show nothing than changes
\* that hide, remove or add were made since the checklist was read.
ChecklistHolds ==
  course.published /\ basis.by = "checklist" => Unseen <= cuts - basis.cuts

\* The same of lessons that show nothing where the school approved what was in
\* review, which publishes no drafts.  Nobody has looked at what it approves
\* otherwise, nor at what the course wizard publishes.
ReviewHolds ==
  course.published /\ basis.by = "school" => Hollow <= cuts - basis.cuts

\* What students see of a live course is what was checked.
LiveCourseIsReady == PublishingOK /\ ChecklistHolds /\ ReviewHolds

\* A higher number holds no older tree, unless publishes overlapped.
VersionsInOrder ==
  \A i, j \in DOMAIN versions :
    i < j => versions[i].edits <= versions[j].edits \/ versions[j].met

\* "Record what students were actually shown, after the publish committed":
\* every publish of the studio has its version, unless it was stopped or another
\* took its number; and no more lessons are drafts in it than changes were made
\* between the commit, which leaves none, and the reading of the tree.
PublishesAreRecorded ==
  /\ commits = Len(versions) + Cardinality(Recording) + spoiled
  /\ \A i \in DOMAIN versions :
       versions[i].hidden <= versions[i].edits - versions[i].began

\* The history of a course is the history of its publishes.
VersionsHold == VersionsInOrder /\ PublishesAreRecorded
=============================================================================
