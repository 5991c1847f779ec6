---------------------------- MODULE LessonEditor ----------------------------
(***************************************************************************)
(* One lesson open in the course studio: the list of items in the browser  *)
(* (LessonCanvas), the autosave that posts it (useAutosave), an upload that *)
(* makes an item of its own, and the API that keeps the items' rows.       *)
(*                                                                         *)
(* The list in the browser is the working copy: it is seeded from the      *)
(* cached course tree when the lesson is opened, and not again while it is *)
(* open.  saveContent makes the rows what it was posted: it reads the ids  *)
(* there are, and the end of its transaction shows others its deletions,   *)
(* updates and new rows.  The teacher knows an item by its key, whatever   *)
(* row holds it.                                                           *)
(***************************************************************************)
EXTENDS Integers, FiniteSets, Sequences, SequencesExt, FiniteSetsExt

CONSTANTS
  Nil,
  MaxCall,         \* bound on the saves under way at one time
  MaxRow,          \* bound on the row ids in use at one time
  MaxItem,         \* bound on the items ever in the lesson, but for one by URL
  MaxEdit,         \* bound on the other edits
  MaxMishap        \* bound on failed requests, slow saves and departures

ASSUME LessonEditorAssumption ==
  /\ Nil \notin Nat /\ MaxCall \in Nat
  /\ MaxRow \in Nat \ {0} /\ MaxItem \in Nat \ {0}
  /\ MaxEdit \in Nat /\ MaxMishap \in Nat

Call == 1..MaxCall
Id  == 1..MaxRow
Key == 1..MaxItem + 1
\* An item in the browser: its row's id if it was seeded with one, the version
\* of what was typed, and whether students are to see it.
Block == [key : Key, id : Id \union {Nil}, text : Nat, shown : BOOLEAN]
\* A LessonContent row.
Row   == [key : Key, text : Nat, place : Nat, shown : BOOLEAN]
\* A save: what it posts, and the ids it has read.  A PATCH of an item's status.
NoUpload == [step |-> "none", key |-> Nil]
Save  == [blocks : Seq(Block), known : {Nil} \union SUBSET Id]
Patch == [id : Id, shown : BOOLEAN]
ASSUME NilIsNothing == Nil \notin Row \union Save /\ \A S \in SUBSET Id : S # Nil

VARIABLES
  rows,       \* rows[i]: the row with this id, or Nil
  blocks,     \* the working copy
  open,       \* this lesson is the one in the canvas
  timer,      \* the autosave's debounce is running
  state,      \* what the editor says of saving
  tree,       \* the lesson in the query cache
  stale,      \* the cache was invalidated and not fetched yet
  call,       \* call[c]: a save under way, or Nil
  patches,    \* the PATCHes under way
  upload,     \* where the upload is, and the item it makes
  made,       \* the row the upload has made
  mounted,    \* the uploader is on the screen
  busy,       \* uploadsBusy: what an uploader last said of itself
  items, edits, mishaps,
  stored,     \* history: the items that were ever on the server
  removed,    \* history: the items the teacher removed
  overlapped, \* history: two saves were under way at one time
  collided,   \* history: an upload made its item while a save was under way, or
              \* the browser did not hear of it
  hasty,      \* history: the lesson was left with something under way
  doubtful    \* history: the ids whose PATCHes overlapped or failed

editor  == <<blocks, open, timer, state>>
cache   == <<tree, stale>>
uploads == <<upload, made, mounted, busy>>
limits  == <<items, edits, mishaps>>
past    == <<stored, removed, overlapped, collided, hasty, doubtful>>
editorVars == <<rows, editor, cache, call, patches, uploads, limits, past>>

EditorTypeOK ==
  /\ rows \in [Id -> Row \union {Nil}]
  /\ blocks \in Seq(Block) /\ tree \in Seq(Block)
  /\ {open, timer, stale, mounted, busy, overlapped, collided, hasty} \subseteq BOOLEAN
  /\ state \in {"dirty", "saving", "saved", "error"}
  /\ call \in [Call -> Save \union {Nil}]
  /\ patches \subseteq Patch
  /\ upload \in [step : {"none", "moving", "answered", "processing"}, key : Key \union {Nil}]
  /\ upload.step = "none" <=> upload.key = Nil
  /\ made \in Id \union {Nil} /\ (made # Nil <=> upload.step \in {"answered", "processing"})
  /\ items \in 0..MaxItem + 1 /\ edits \in Nat /\ mishaps \in Nat
  /\ stored \subseteq Key /\ removed \subseteq Key /\ doubtful \subseteq Id

-----------------------------------------------------------------------------
Ids == {i \in Id : rows[i] # Nil}
IdsOf(bs) == {bs[n].id : n \in DOMAIN bs} \ {Nil}
KeysOf(S) == {rows[i].key : i \in S}
Saving == {c \in Call : call[c] # Nil}

\* The rows by their place; ties, which only overlapping requests leave, by id.
Before(i, j) == \/ rows[i].place < rows[j].place
                \/ rows[i].place = rows[j].place /\ i <= j
Rank(i) == Cardinality({j \in Ids : Before(j, i)})
Entry(i) == [key |-> rows[i].key, id |-> i, text |-> rows[i].text, shown |-> rows[i].shown]
Listed == [n \in 1..Cardinality(Ids) |-> Entry(CHOOSE i \in Ids : Rank(i) = n)]

\* What the teacher reads in a list of items.
Read(bs) == [n \in DOMAIN bs |-> <<bs[n].key, bs[n].text>>]

\* Ids the database has not given: none that anything still speaks of.
Known == UNION {call[c].known \ {Nil} : c \in {d \in Saving : call[d].known # Nil}}
Free == Id \ (Ids \union IdsOf(blocks) \union IdsOf(tree) \union {made} \union Known
               \union {p.id : p \in patches} \union UNION {IdsOf(call[c].blocks) : c \in Saving})

\* A new lesson has just been opened, which arms the autosave.
EditorInit ==
  /\ rows = [i \in Id |-> Nil] /\ blocks = <<>> /\ tree = <<>>
  /\ open = TRUE /\ timer = TRUE /\ state = "dirty" /\ stale = FALSE
  /\ call = [c \in Call |-> Nil] /\ patches = {}
  /\ upload = NoUpload /\ made = Nil /\ mounted = FALSE /\ busy = FALSE
  /\ items = 0 /\ edits = 0 /\ mishaps = 0
  /\ stored = {} /\ removed = {} /\ doubtful = {}
  /\ overlapped = FALSE /\ collided = FALSE /\ hasty = FALSE

-----------------------------------------------------------------------------
(* Edits in the browser *)

\* Mutant: every change is saved, whatever is being uploaded.
ArmAlways(on) == timer' = TRUE /\ state' = "dirty"

\* Mutant: a change during a save is left to that save.
ArmUnlessSaving(on) ==
  /\ timer' = (on /\ Saving = {})
  /\ state' = IF on THEN "dirty" ELSE state

\* useAutosave's effect, when the list or `enabled` changes: the running timer
\* is dropped, and another started unless the uploader is busy.
Arm(on) ==
  /\ timer' = on
  /\ state' = IF on THEN "dirty" ELSE state

Edited(bs) ==
  /\ open /\ blocks' = bs
  /\ Arm(~busy)
  /\ UNCHANGED <<rows, open, cache, call>>

\* addEmptyItem: a row for the teacher to fill in.  It has no id.
NewBlock(k) == [key |-> k, id |-> Nil, text |-> 0, shown |-> TRUE]
Add ==
  /\ items < MaxItem /\ items' = items + 1
  /\ Edited(Append(blocks, NewBlock(items + 1)))
  /\ UNCHANGED <<patches, uploads, edits, mishaps, past>>

EditOnce == edits < MaxEdit /\ edits' = edits + 1 /\ UNCHANGED <<items, mishaps>>

RemoveItem(n) ==
  /\ EditOnce
  /\ Edited(RemoveAt(blocks, n))
  /\ removed' = removed \union {blocks[n].key}
  /\ UNCHANGED <<patches, uploads, stored, overlapped, collided, hasty, doubtful>>

MoveItem(from, to) ==
  /\ from # to /\ EditOnce
  /\ Edited(InsertAt(RemoveAt(blocks, from), to, blocks[from]))
  /\ UNCHANGED <<patches, uploads, past>>

EditItem(n) ==
  /\ EditOnce
  /\ Edited([blocks EXCEPT ![n].text = @ + 1])
  /\ UNCHANGED <<patches, uploads, past>>

\* "Hiding something from children should not wait": an item that has an id is
\* patched at once.
Toggle(n) ==
  LET b == blocks[n] IN
  /\ EditOnce
  /\ Edited([blocks EXCEPT ![n].shown = ~@])
  /\ IF b.id = Nil
       THEN UNCHANGED <<patches, doubtful>>
       ELSE /\ patches' = patches \union {[id |-> b.id, shown |-> ~b.shown]}
            /\ doubtful' = IF \E p \in patches : p.id = b.id THEN doubtful \union {b.id} ELSE doubtful
  /\ UNCHANGED <<uploads, stored, removed, overlapped, collided, hasty>>

-----------------------------------------------------------------------------
(* The autosave and AuthoringService.saveContent *)

Fire(c) ==
  /\ timer /\ c \notin Saving /\ 1..c - 1 \subseteq Saving
  /\ mishaps' = IF Saving = {} THEN mishaps ELSE mishaps + 1
  /\ mishaps' <= MaxMishap
  /\ timer' = FALSE /\ state' = "saving"
  /\ call' = [call EXCEPT ![c] = [blocks |-> blocks, known |-> Nil]]
  /\ overlapped' = (overlapped \/ Saving # {})
  /\ collided' = (collided \/ (upload.step = "answered" /\ ~busy))
  /\ UNCHANGED <<rows, blocks, open, cache, patches, uploads, items, edits, stored, removed, hasty, doubtful>>

SaveReads(c) ==
  /\ call[c] # Nil /\ call[c].known = Nil
  /\ call' = [call EXCEPT ![c].known = Ids]
  /\ UNCHANGED <<rows, editor, cache, patches, uploads, limits, past>>

Kept(s) == IdsOf(s.blocks) \intersect s.known

\* Mutant: an update writes every column of the item it was given.
UpdatedWhole(r, b, place) == [r EXCEPT !.text = b.text, !.place = place, !.shown = TRUE]
\* The patch of a kept item: what was posted and its place.  The DTO has no
\* status, so an item's is neither changed here nor given to a new row.
Updated(r, b, place) == [r EXCEPT !.text = b.text, !.place = place]
Created(b, place) == [key |-> b.key, text |-> b.text, place |-> place, shown |-> TRUE]

\* Mutant: rows that were not posted stay.
SavedKeepsRest(s, new) ==
  [i \in Id |->
     IF \E n \in DOMAIN s.blocks : i = new[n]
       THEN LET n == CHOOSE n \in DOMAIN s.blocks : i = new[n] IN
            IF i \in Kept(s) THEN Updated(rows[i], s.blocks[n], n) ELSE Created(s.blocks[n], n)
       ELSE rows[i]]
\* The rows after a save: new[n] is the id of the n-th item posted.
Saved(s, new) ==
  [i \in Id |->
     IF \E n \in DOMAIN s.blocks : i = new[n]
       THEN LET n == CHOOSE n \in DOMAIN s.blocks : i = new[n] IN
            IF i \in Kept(s) THEN Updated(rows[i], s.blocks[n], n) ELSE Created(s.blocks[n], n)
       ELSE IF i \in s.known THEN Nil ELSE rows[i]]

\* Items without an id, or with one that was not found, get free ones.
New(s) == {n \in DOMAIN s.blocks : s.blocks[n].id \notin Kept(s)}
NewIds(s) ==
  LET given == CHOOSE f \in [New(s) -> Free] : IsInjective(f)
  IN [n \in DOMAIN s.blocks |-> IF n \in New(s) THEN given[n] ELSE s.blocks[n].id]

\* A kept row that is gone by now fails the update, and so the whole save.
SaveCommit(c) ==
  LET s == call[c] IN
  /\ s # Nil /\ s.known # Nil
  /\ call' = [call EXCEPT ![c] = Nil]
  /\ IF Kept(s) \subseteq Ids
       THEN /\ Cardinality(New(s)) <= Cardinality(Free)
            /\ rows' = Saved(s, NewIds(s))
            /\ stale' = TRUE /\ state' = "saved"
            /\ stored' = stored \union {s.blocks[n].key : n \in DOMAIN s.blocks}
       ELSE state' = "error" /\ UNCHANGED <<rows, stale, stored>>
  /\ UNCHANGED <<blocks, open, timer, tree, patches, uploads, limits, removed, overlapped, collided, hasty, doubtful>>

SaveFails(c) ==
  /\ call[c] # Nil /\ mishaps < MaxMishap
  /\ mishaps' = mishaps + 1
  /\ call' = [call EXCEPT ![c] = Nil]
  /\ state' = "error"
  /\ UNCHANGED <<rows, blocks, open, timer, cache, patches, uploads, items, edits, past>>

\* StudioService.setItemStatus.
PatchCommit(p) ==
  /\ patches' = patches \ {p}
  /\ rows' = IF rows[p.id] = Nil THEN rows ELSE [rows EXCEPT ![p.id].shown = p.shown]
  /\ stale' = (stale \/ rows[p.id] # Nil)
  /\ UNCHANGED <<editor, tree, call, uploads, limits, past>>

\* Lost, or refused: an empty item cannot be shown.
PatchFails(p) ==
  /\ mishaps < MaxMishap /\ mishaps' = mishaps + 1
  /\ patches' = patches \ {p}
  /\ doubtful' = doubtful \union {p.id}
  /\ UNCHANGED <<rows, editor, cache, call, uploads, items, edits, stored, removed, overlapped, collided, hasty>>

\* The course tree is fetched again after a write.
Refetch ==
  /\ stale /\ stale' = FALSE
  /\ tree' = Listed
  /\ UNCHANGED <<rows, editor, call, patches, uploads, limits, past>>

-----------------------------------------------------------------------------
(* VideoUploader and UploadsService.complete *)

\* The uploader that appears has no jobs, and says that it is not busy.
OpenUploader ==
  /\ open /\ ~mounted /\ mounted' = TRUE
  /\ busy' = FALSE
  /\ IF busy THEN Arm(TRUE) ELSE UNCHANGED <<timer, state>>
  /\ UNCHANGED <<rows, blocks, open, cache, call, patches, upload, made, limits, past>>

\* "Done", which waits for the uploads.
CloseUploader ==
  /\ open /\ mounted /\ ~busy /\ mounted' = FALSE
  /\ UNCHANGED <<rows, editor, cache, call, patches, upload, made, busy, limits, past>>

\* "Add a video by URL instead", which does not.
PasteUrlInstead ==
  /\ mounted /\ mounted' = FALSE
  /\ items <= MaxItem /\ items' = items + 1
  /\ Edited(Append(blocks, NewBlock(items + 1)))
  /\ UNCHANGED <<patches, upload, made, busy, edits, mishaps, past>>

UploadStart ==
  /\ open /\ mounted /\ upload.step = "none" /\ items < MaxItem
  /\ items' = items + 1
  /\ upload' = [step |-> "moving", key |-> items + 1] /\ busy' = TRUE
  /\ Arm(FALSE)
  /\ UNCHANGED <<rows, blocks, open, cache, call, patches, made, mounted, edits, mishaps, past>>

\* complete makes the item, after the last one.
UploadComplete ==
  LET i == CHOOSE i \in Free : TRUE
      place == Max({0} \union {rows[j].place : j \in Ids}) + 1
  IN
  /\ upload.step = "moving" /\ Free # {}
  /\ upload' = [upload EXCEPT !.step = "answered"] /\ made' = i
  /\ rows' = [rows EXCEPT ![i] = [key |-> upload.key, text |-> 0, place |-> place, shown |-> TRUE]]
  /\ stored' = stored \union {upload.key}
  /\ collided' = (collided \/ Saving # {})
  /\ UNCHANGED <<editor, cache, call, patches, mounted, busy, limits, removed, overlapped, hasty, doubtful>>

\* absorbVideo: "without this the next autosave would post a list missing the
\* new item".  It joins the list of the lesson that is in the canvas by now.
Absorbed(b) == IF b.id \in IdsOf(blocks) THEN blocks ELSE Append(blocks, b)

TakeOn(isBusy) ==
  IF open
    THEN /\ blocks' = Absorbed([key |-> upload.key, id |-> made, text |-> 0, shown |-> TRUE])
         /\ Arm(~isBusy)
    ELSE UNCHANGED <<blocks, timer, state>>

Absorb ==
  /\ upload.step = "answered"
  /\ upload' = [upload EXCEPT !.step = "processing"]
  /\ TakeOn(busy)
  /\ UNCHANGED <<rows, open, cache, call, patches, made, mounted, busy, limits, past>>

\* The video is ready, and absorbed once more: it comes back if the teacher has
\* removed it meanwhile.
UploadReady ==
  LET isBusy == busy /\ ~mounted IN
  /\ upload.step = "processing"
  /\ upload' = NoUpload /\ made' = Nil /\ busy' = isBusy
  /\ TakeOn(isBusy)
  /\ UNCHANGED <<rows, open, cache, call, patches, mounted, limits, past>>

\* Mutant: the end of an upload does not arm the autosave again.
UploadEndsQuietly ==
  /\ upload.step \in {"moving", "processing"}
  /\ upload' = NoUpload
  /\ busy' = (busy /\ ~mounted)
  /\ made' = Nil
  /\ IF open /\ busy /\ mounted THEN state' = "dirty" ELSE UNCHANGED state
  /\ UNCHANGED <<rows, blocks, open, timer, cache, call, patches, mounted, limits, past>>

\* Processing has failed, or the bytes did not get through, or the teacher
\* cancelled.  Only the uploader on the screen tells the editor.
UploadEnds ==
  /\ upload.step \in {"moving", "processing"}
  /\ upload' = NoUpload /\ made' = Nil
  /\ busy' = (busy /\ ~mounted)
  /\ IF open /\ busy /\ mounted THEN Arm(TRUE) ELSE UNCHANGED <<timer, state>>
  /\ UNCHANGED <<rows, blocks, open, cache, call, patches, mounted, limits, past>>

\* complete's answer is lost: the item is there, and the browser does not know.
AnswerLost ==
  /\ upload.step = "answered" /\ mishaps < MaxMishap
  /\ mishaps' = mishaps + 1 /\ collided' = TRUE
  /\ upload' = NoUpload /\ made' = Nil
  /\ busy' = (busy /\ ~mounted)
  /\ IF open /\ busy /\ mounted THEN Arm(TRUE) ELSE UNCHANGED <<timer, state>>
  /\ UNCHANGED <<rows, blocks, open, cache, call, patches, mounted, items, edits, stored, removed, overlapped, hasty, doubtful>>

-----------------------------------------------------------------------------
(* Going to another lesson and back *)

Settled ==
  /\ ~timer /\ Saving = {} /\ patches = {} /\ upload.step = "none"
  /\ tree = Listed /\ Read(blocks) = Read(Listed)

\* To another lesson, whose canvas is the same one, or to a module's page, which
\* unmounts it.  The timer goes with the list it was for.
Leave(unmount) ==
  /\ open /\ mishaps < MaxMishap
  /\ mishaps' = mishaps + 1
  /\ open' = FALSE /\ timer' = FALSE
  /\ mounted' = (mounted /\ ~unmount) /\ busy' = (busy /\ ~unmount)
  /\ hasty' = (hasty \/ ~Settled)
  /\ UNCHANGED <<rows, blocks, state, cache, call, patches, upload, made, items, edits, stored, removed, overlapped, collided, doubtful>>

\* The list is seeded from the cache.
Return ==
  /\ ~open /\ open' = TRUE
  /\ blocks' = tree
  /\ Arm(~busy)
  /\ UNCHANGED <<rows, cache, call, patches, uploads, limits, past>>

-----------------------------------------------------------------------------
Edit ==
  \/ Add \/ PasteUrlInstead
  \/ \E n \in DOMAIN blocks : RemoveItem(n) \/ EditItem(n) \/ Toggle(n) \/ \E m \in DOMAIN blocks : MoveItem(n, m)

Serve ==
  \/ \E c \in Call : SaveReads(c) \/ SaveCommit(c)
  \/ \E p \in patches : PatchCommit(p)
  \/ Refetch \/ UploadComplete \/ Absorb \/ UploadReady \/ UploadEnds

EditorNext ==
  \/ Edit \/ Serve
  \/ \E c \in Call : Fire(c) \/ SaveFails(c)
  \/ \E p \in patches : PatchFails(p)
  \/ OpenUploader \/ CloseUploader \/ UploadStart \/ AnswerLost
  \/ \E unmount \in BOOLEAN : Leave(unmount)
  \/ Return

EditorSpec == EditorInit /\ [][EditorNext]_editorVars
\* The timer fires in time and requests are answered: as long as any of that
\* is left to do, some of it is done.
FairEditorSpec == EditorSpec /\ WF_editorVars(Serve \/ \E c \in Call : Fire(c))

-----------------------------------------------------------------------------
(* Properties *)

\* No edit is forgotten, whatever the editor says of saving: the lesson on the
\* server reads like the one on the screen, or the autosave's timer runs, or a
\* save under way posts what is on the screen, or the editor says that a save
\* failed.  Not so when saves overlapped, an upload crossed one or a busy upload
\* holds the autosave back.  The word "saved" promises less: after an edit made
\* during a save it is said while the timer runs, without the warning before
\* the page is left.
NoEditIsForgotten ==
  open /\ ~busy /\ upload.step # "answered" =>
    \/ Read(Listed) = Read(blocks)
    \/ timer
    \/ \E c \in Saving : Read(call[c].blocks) = Read(blocks)
    \/ state = "error"
    \/ overlapped \/ collided \/ hasty

\* saveContent: "only items the teacher actually removed are deleted", and no
\* item is there twice, unless saves overlapped, an upload crossed one, or the
\* lesson was left with something under way.
NothingIsLost == stored \ removed \subseteq KeysOf(Ids) \/ overlapped \/ collided \/ hasty
NoItemTwice ==
  \/ overlapped \/ hasty
  \/ /\ \A i, j \in Ids : rows[i].key = rows[j].key => i = j
     /\ \A m, n \in DOMAIN blocks : blocks[m].key = blocks[n].key => m = n
ListIsKept == EditorTypeOK /\ NothingIsLost /\ NoItemTwice

\* An item that has an id stays hidden, or shown, as the teacher set it last,
\* through every autosave that passes its PATCH.  A video that was removed and
\* comes back when it is ready reads "shown" whatever its row says.
HiddenStaysHidden ==
  open /\ ~hasty => \A n \in DOMAIN blocks :
    LET b == blocks[n] IN
    b.id \in Ids /\ b.key \notin removed =>
      rows[b.id].shown = b.shown \/ b.id \in doubtful \/ \E p \in patches : p.id = b.id

\* What is edited reaches the server: again and again it has what is on the
\* screen, unless a request failed, saves overlapped, the lesson is left, or an
\* upload's end was never told to the editor.
EditsReachServer ==
  []<>(\/ mishaps > 0 \/ ~open \/ overlapped \/ (busy /\ ~mounted)
       \/ Read(blocks) = Read(Listed))
=============================================================================
