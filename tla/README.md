# Kidora: a verification project

Kidora is a learning platform for children. This directory models the rules its
API must keep when requests interleave, handlers stop half way, transactions
wait for one another, answers are lost and payment providers repeat
themselves; and the three parts of its web client that keep state of their own
against the API, the refresh of a session, the lesson editor and the video
player. TLC checks the models on small instances; TLAPS proves their safety
properties, all of them, for every number of users, payments, courses, tokens, videos,
edits, requests and crashes; liveness is model-checked only.

Paths below are relative to `src/kidora-api/src/` unless they say otherwise.
`PROJECT.json` holds the same inventory for machines: which lines of the code
each definition stands for, which property answers which hazard, and which
mutation of the code each property detects.

- [1. The system](#1-the-system)
- [2. How the models read the code](#2-how-the-models-read-the-code)
- [3. The modules](#3-the-modules)
- [4. The runs](#4-the-runs)
- [5. The proofs](#5-the-proofs)
- [6. Where the code and its texts disagree](#6-where-the-code-and-its-texts-disagree)
- [7. Plan](#7-plan)

## 1. The system

`kidora-api` is a NestJS service over Postgres (Prisma) and Redis, run in
several replicas. `kidora-web` is its Next.js client, `apps/ai-service` a
stateless Python service behind the tutor. There is no queue and no scheduler:
all state changes happen inside request handlers, Stripe's and Chapa's calls,
socket events, and one fire-and-forget background task (video processing). A
handler is a chain of awaits, so any two handlers interleave at every await.
A few of them use Prisma interactive transactions, at READ COMMITTED.

Two generations of code live side by side. `lms/` is the newer one; the older
`economy/`, `progress/`, `quizzes/`, `certificates/`, `rewards/` and `courses/`
are still mounted and write some of the same rows: the wallet, the quests,
`User.points`, the `Progress` row of a lesson, the status of a course. Much of what
is hard comes from that: two services with different habits (idempotent keyed
transactions, absolute writes of values read earlier) own the same rows. Where an
older service writes a row that a model is about, its write is a step of that model.

| Component | State | Operations | Talks to | Hard about it | What makes it correct | Modelled |
|---|---|---|---|---|---|---|
| Payments and settlement (`payments/`) | `Payment` rows, provider orders | checkout and confirmation for Chapa, PayPal, Stripe; settle; pilot activation | providers, pricing, subscriptions | the same payment is reported by webhook, callback and buyer at once; provider calls of up to 15 s between read and write; events repeated or early; crash between claim and grant | one grant per payment, only for its exact amount; a settled row is final; a paid order is recognised | `Payments` |
| Subscriptions (`subscriptions/`) | one `Subscription` per user | mine, set free, cancel | written by payments | written by several actors without a lock | the plan stands on a succeeded payment of the same user | `Payments` |
| Pricing (`pricing/`) | catalogue, pilot window | mode of a plan | payments | the window closes while an activation runs | pilot access ends with the window | `Payments` (mode and window) |
| Rewards (`lms/gamification/`) | wallet, points, ledger, quests, streak, achievements | reward of a lesson, attempt, submission or game; claim of a quest | learning, quizzes, assignments, games | the same event reported twice; two transactions on one wallet; deadlock with a claim; midnight | each source paid once; balances are the ledger's sums; quests count each event once | `Wallet` |
| Economy (`economy/`) | the same wallet and quests, inventory | earn, purchase, complete a mission | rewards (shared rows) | checks before the transaction; absolute writes | an item is paid once; a quest is paid once; what is lost or overdrawn is bounded | `Wallet` |
| Learning (`lms/learning/`) | enrolments, lesson progress | enrol, be assigned, leave, complete a lesson | completion, rewards | double clicks; leaving while something ends | prerequisites first; each lesson completed once | `Courses` |
| Completion and certificates (`lms/learning/completion.service.ts`, `lms/certificates/`) | enrolment status, certificates | evaluate, sync, issue | called by lessons, attempts, submissions | verdicts from reads that do not see the other transaction; two ways to a certificate | completion is earned, recorded, and certified once | `Courses` |
| Quizzes and exams (`lms/assessments/`) | attempts, answers | start, submit | rewards, completion | double start, double submit, the clock | attempts within their limit; a passed attempt counts | `Courses` |
| Assignments (`lms/assessments/assignments.service.ts`) | submissions | hand in, grade | rewards, peer review | a grade against a resubmission | rewarded once; a grade stands | `Coursework`; what it pays and completes in `Courses`, `Wallet` |
| Peer review (`lms/peer-review/`) | reviews, peer score | assign, submit, result | assignments | shortfall and mean from stale reads; top-up of earlier submissions | no more reviewers than asked, and as many; the score is the mean | `Coursework` |
| Sessions (`auth/services/auth.service.ts`, `token.service.ts`; the browser's store) | refresh tokens, lock counter, password; each tab's copy of the token, the storage all tabs share and the one each tab has | sign-in, refresh, role answer, reset, logout; the tabs' writes of their store | web client | rotation races, replays, lost answers; sign-in across a reset; a tab writes its whole state at every set | a refresh token is redeemed once; a reset ends the sessions before it; a lock is earned | `Sessions` |
| Verification codes (`auth/services/email-verification`, `phone-verification`) | codes, cooldowns, counters in Redis | send, check | sessions | read-compare-write around bcrypt; a counter and its expiry in two commands | at most five guesses, one use; the hourly cap holds and ends | `Codes` |
| OAuth sign-in (`auth/services/oauth.service.ts`) | an exchange code in Redis | exchange, link | sessions | read then delete | a code is redeemed once | no: section 7 |
| Org access and school membership (`auth/services/registeration.service.ts`, `org/`, `lms/school/`, `auth/strategies/`) | claims, roles, seats, the tenancy cache | register, answer the role question, claim with and without a code, review, join, create a student | tenancy cache | check outside the transaction; cache dropped before commit; last seat | one decision per claim; a role is vouched for; no stale role | `Membership` |
| Course codes and assignment (`lms/learning/course-access.service.ts`) | codes, wrong-code counters | join, assign | learning | counters read and written back | the limit holds; one enrolment | assignment in `Courses`; codes no: section 7 |
| Lesson content progress (`lms/learning/learning.service.ts:501`; the web's `VideoPlayer`, `LessonPlayer`) | watched seconds, item completion, page percentage; the player's counts | report, mark, save, complete by hand | lesson completion | the page sends again before it is answered; rows are read, then written; a slow or lost report; failures are swallowed | watched time stays within the clock; watching completes; what is complete stays so | `ContentProgress` |
| Games and live games (`games/`) | sessions, attempts, mastery; rooms in Redis | attempt, hint, complete; room events | rewards | tries counted from a stale read; reward after the claim; whole-room rewrite | tries within limit; a level is paid once | planned |
| Lesson editor and autosave (`src/kidora-web/src/features/studio/`, `course-builder/parts.tsx`; `lms/authoring/authoring.service.ts`) | the list in the browser, its timer, the items' rows | edit, autosave, upload, hide, leave | uploads | two saves at a time; a list seeded from an old tree; a lost answer | nothing is lost or doubled; "saved" is saved; edits arrive | `LessonEditor` |
| Uploads and video (`lms/uploads/`) | upload sessions, files, video rows | presign, receive, complete, abort, remove, process, retry | storage, publishing | hardly any status is checked; a task without a supervisor | a ready video plays to its end; none is parked | `Uploads` |
| Authoring and publishing (`lms/authoring/`, the course wizard of `courses/`) | course, lesson and item status, version snapshots | hide, make, change, copy and delete lessons; publish, take down, review, approve; replace the curriculum | uploads, learning | checklist before the transaction, snapshot after it; approval and wizard check nothing; a lesson may become a draft while the course is live | a live course shows something in every required lesson; every publish has its version | `Publishing` |
| Legacy progress, quizzes, badges, certificates, leaderboard | points, badges, scores; the `Progress` row of a lesson | update, submit, award | Redis leaderboard, the rows of `lms/` | repeats are paid again; look-up then create; progress written as sent | points once per lesson; scores not older than points | what they write of shared rows in `Wallet`, `Courses`, `ContentProgress`; the rest no: section 7 |
| Chat, LMS messages | conversations, reactions, presence | open, send, react | sockets | look-up then create; JSON rewrites | one DM per pair | no: nothing depends on it |
| Users, avatar, calendar, support | single rows | edits | | JSON merge, equip, ticket status from a stale read | last writer is meant to win, mostly | no: small, script-testable |
| Dashboards, attendance, notifications, analytics | none of their own | reads, appends, upserts | all | | | no: read models |
| AI tutor and AI service | none | proxy, moderation, degraded answer | model provider | | | no: stateless, answers are not specifiable |
| Infrastructure, boot, configuration, schema | | adapters | all | | what models rely on (locks, unique keys, READ COMMITTED) is stated as external operators | no |
| Rest of `kidora-web`, `deploy/`, `scripts/` | client caches | presentation, calls | API | | | no, except as requests in any order |

### Hazards

`PROJECT.json` lists the hazards that matter most, each at its line with the
properties that answer it or the planned module. Lesser or not yet
planned ones seen while surveying:

| Where | What |
|---|---|
| `payments/stripe.service.ts:52` | a session completed with a delayed method is reported unpaid once; the later asynchronous success has no handler |
| `lms/learning/course-access.service.ts:140` | wrong-code count read at 133, written back plus one |
| `lms/learning/course-access.service.ts:198` | assignment by a teacher enrols without the prerequisite check (a step of `Courses`, excepted by `waived`) |
| `progress/progress.service.ts:24` | progress is written as sent, backwards too (a step of `ContentProgress` and `Courses`) |
| `auth/services/auth.service.ts:81` | registration stores administrative roles (a start of `Membership`, excepted by `chosen`) |
| `lms/authoring/authoring.service.ts:308` | a lesson of a live course becomes a draft (a step of `Publishing`, counted by `cuts`) |
| `lms/learning/learning.service.ts:557` | failure to complete the lesson is swallowed after its last item is recorded (a step of `ContentProgress`, excepted by its properties) |
| `auth/services/oauth.service.ts:134` | read then delete; the comment at 133 says a racing redemption finds nothing |
| `progress/progress.service.ts:31` | leaderboard score copied after the increment, in any order |
| `certificates/certificates.service.ts:11` | "once per course per user" by look-up and create |
| `lms/peer-review/peer-review.service.ts:151` | counts a reviewer's reviews of all assignments |
| `games/games.service.ts:183`, `:219`, `games/live-games.service.ts:52` | tries, mastery and rooms from stale reads |
| `chat/chat.service.ts:23`, `:60`, `avatar/avatar.service.ts:36`, `users/users.service.ts:61`, `support/support.service.ts:94` | look-up then create, JSON rewrites, two items equipped, status from a stale read |
| `lms/gamification/rewards.service.ts:125`, `:142`, `:176` | XP quests advance only when a level is gained; courses counted at every `justCompleted`; `completed` taken back from a stale read |

## 2. How the models read the code

- **Requests.** A `Worker` is a slot in which one request runs: `pc` is its next
  await, `job` (`req`) what it is about, `seen`/`held` what it read and still
  relies on. A finished slot is reused, so the number of workers bounds
  concurrency, not the number of requests.
- **Browsers.** In `ContentProgress` the player's counts are variables and its
  requests run beside one another. In `Sessions` each tab is an actor that waits for one answer
  at a time; in `LessonEditor` the browser's list, timer and cache are
  variables, and a save under way is a slot of its own, because the browser
  does not wait for one before it starts the next.
- **Atomicity.** One action lasts from one point where others can see or change
  something to the next: a statement outside a transaction, the first lock of a
  transaction, its commit, one Redis command. Reads of a transaction that take
  no lock happen at the step where the code makes them, and what they returned
  is carried along. Several reads in a row are one action only where what they
  read can only grow, or where nothing they read has another writer.
- **Locks.** A row a transaction has written stays locked until it commits
  (`lock` in `Wallet`, `Held` in `Membership`, the guards of the waiting steps
  in `Courses`). Postgres resolves a cycle by failing one transaction;
  `DeadlockVictim` is that.
- **Failures.** `Abort`, `Fail`, `Stop` end a request at any await: the process
  stops or the database refuses a statement. What was committed stays.
  `MaxCrash` and `MaxFault` bound how often. `LoseReply` and `AnswerLost` lose
  an answer the API has given; `StopTask` stops the process that measures a
  video.
- **Data.** Money is an amount in minor units with its currency folded in;
  payments, lessons, quests and items are model values; a mark is "passed" or
  "failed"; a text is the number of its version; a file stands for its length.
  Messages, notifications, activity rows and logging are left out.
- **History variables** (`grants`, `told`, `paid`, `charges`, `heirs`, ...) only
  record; no guard reads them.
- **Named exemptions.** Where the code loses a race, the property that the race
  breaks does not go away: a history variable notes when exactly that has
  happened, and the property holds for everything it has not touched. So a property
  says both what is promised and what it takes to break it; section 6 has the races
  themselves. The flags are of two sorts.
  - Some *measure*: the property bounds or equates the damage, and so is about the
    hazard itself. `lost`, `overlapped` and `unlisted` give the exact difference
    between a balance and its rows, `unchecked` the overdraft of racing purchases,
    `admitted` the seats too many, `cuts` what a live course may hide, `spoiled` the
    versions lost; `Provided` (too few reviewers) and `NothingIsParked` except nothing.
  - Others *except*: of what they touch nothing is claimed, and the hazard they name is
    described in section 6 and not caught by the property. These are `crashes` (a stop
    between claim and grant), `doubtful` (a fill across the drop of the cached copy),
    `crossed` (two decisions of a claim; two runs on a video; two requests for a progress
    row), `overrun`, `met` (two requests about one code), `faults` (a counter without
    expiry), `regraded`, `doubled`, `blurred` (Coursework), `overlapped`, `hasty`,
    `collided`, `doubtful` and `busy` (the editor), `wiped` (uploads), `raced`,
    `clobbered`, `tainted` (sessions), `repeats`, `slow`, `fast`, `retracted`; and `waived`
    and `chosen`, which except requests that ask for nothing: an assignment, a
    registration with a role. What such a property is left with is the promise for
    requests that do not overlap in that one way, in every order otherwise; where only
    two requests share the row, that is the sequential promise, and no more is
    claimed for it. The late lock of an account has no property at all. The notes of the
    hazards in `PROJECT.json` say which sort each is.
- **Conjunctions.** An invariant of a run is a conjunction of named parts
  (`GrantsAreSound`, `CodeHolds`, ...), the type invariant or its part for that
  module among them: one question, checked and proved together.
- **Mutants.** An operator preceded by "Mutant" is a plausible slip in the code
  (a dropped condition, a swapped order). The specification does not use it;
  putting it in place of the real definition must break the property it is
  listed with.

## 3. The modules

Each module carries its properties at its end. `MC*` modules only give
constants their values; `*Proofs` modules hold the theorems.

### Entitlement

What the payment subsystem promises, in three sets: payments whose money is in
order, payments granted, and the payment each user's plan stands on. `Pay`,
`Grant` (once, only after `Pay`) and `GiveUp` are its only steps.

### Payments

| Specification | Code |
|---|---|
| `row`, `bound` | `Payment.status` and whether `externalId` finds the row |
| `sub` | the `Subscription` row |
| `order`, `charged`, `given`, `event` | the provider's side (external): the order's state, what it took, whether the buyer got the link, Stripe's event |
| `Chapa*`, `Stripe*`, `Paypal*` | `payments/chapa.service.ts`, `stripe.service.ts`, `paypal.service.ts`, one action per await, error paths included |
| `SettleRead`, `SettleReject`, `SettleClaim`, `SettleUpsert` | `payment-settlement.service.ts` `settle`: read, refuse a mismatch, conditional `updateMany`, subscription upsert |
| `PilotActivate`, `PilotCreate`, `PilotUpsert` | `activatePilot` |
| `SubscriptionMine`, `SubscriptionSetFree`, `SubscriptionCancel` | `subscriptions.service.ts` |
| `BuyerPays`, `BuyerApproves`, `FundsClear`, ... | the buyer and the provider (external) |

`Mode` and `PilotWindow` stand for `pricing.service.ts`. Not modelled: there is
no await between reading the pilot terms and the running subscription that
another request could use, so they are one step; a `custom_id` that names
another row is a refusal no honest order reaches; the status `refunded` has no
writer.

### Wallet

One student: `wallet`, `points`, `ledger` and `recorded` (the keys and the sums
of the `Transaction` rows), `quest` (`StudentMission`), `owned`, `streak`.
`RewardStart/Lock/Commit` are the transaction that `onLessonCompleted`,
`onQuizSubmitted`, `onAssignmentSubmitted` and `onGameLevelCompleted` share;
`ClaimStart/Mark/Commit` are `claimQuest`; `CompleteStart/Mark`,
`EarnRead/Write`, `PurchaseStart/Commit` are `economy.service.ts`. `Advance`,
`TouchStreak` and `Grant` are its helpers. `AwardPoints` is what `POST /progress` and
the older quizzes' submit add to `User.points`, with no `Transaction` row. Students
share no row, so one student is the whole model.

The histories measure what the two services do to each other: `unlisted` sums the
points and XP credited without a row, `lost` what an absolute write of an older reading
took from coins or XP, `overlapped` names a balance that changed while a request held
a reading of it, and `unchecked` the coins that left while a purchase had its check
behind it. `BalancesAreSums` is the equation of balances, rows and these;
`OverdraftIsOverlap` bounds the overdraft.

Left out: the creation of a wallet on first use (registration creates it for
every child), quests on XP earned (advanced inside `grant`), the reward for a
course (`rollupCourse`), races on the creation of a `StudentMission` row. Keys
of different kinds are disjoint by their prefix, which is the assumption
`WalletAssumption` makes. `Bonus` gives the XP of a set of achievements at once.

`repeats` counts attempts reported again after their reward: the payment is keyed,
what they add to quests and the streak is not, and nothing locks a
wallet for them (`MaxRepeat`).

### Courses

One student over several courses: `enrollment`, `completed` and `lessons` (the two
columns of a lesson's `Progress` row, `completed` and rewarded), `attempt` (a sequence
of statuses per quiz), `answered`, `late`, `handed`, `rewarded`, `certs`.

| Specification | Code |
|---|---|
| `EnrollStart`, `EnrollCreate`, `Unenroll` | `learning.service.ts` `enroll`, `unenroll` |
| `AssignStart` | `course-access.service.ts` `assign`: the enrolment that asks for no prerequisites |
| `LessonStart`, `LessonMark` | `completeLesson` up to its sync |
| `LessonReported` | the earlier `POST /progress`: `completed` as sent, without a sync |
| `AttemptStart`, `AttemptCreate`, `SubmitStart`, `SubmitExpire`, `SubmitFinalize` | `quizzes.service.ts` `startAttempt`, `submitAttempt` |
| `HandInStart`, `HandInWrite` | `assignments.service.ts` `submit` |
| `KeyRead`, `RewardMark` | the reward's key, inside the rewards transaction |
| `Satisfied`, `SyncWrite`, `SyncCommit` | `completion.service.ts` `evaluate`, `sync` with its certificate |
| `IssueFind`, `IssueCreate` | `certificates.service.ts` `issueForExam` |

Course content does not change while students work on it, a quiz has a
question, the exam's window is open, and an exam's attempts are limited as a
quiz's. `waived` names the courses that a request which asks for no prerequisites has
opened ahead of them: an assignment, a lesson of a course the student is not in,
completed through `student/lessons`, or a hand-in for a class, whose sync makes the
enrolment (`Opens`). `done` names the lessons that were completed at any time, since
`POST /progress` may take that back. Left out: marking (a choice), the back-fill of certificate codes, and
`issueForCourse`, which has no caller. Handing in again and grading are in
`Coursework`.

### Sessions

One account, its API and the tabs of one browser.

| Specification | Code |
|---|---|
| `rows`, `issued` | the `RefreshToken` rows, by the order of their creation |
| `verified`, `password`, `failed`, `locked` | columns of `User` |
| `RefreshFind`, `RefreshRevoke`, `RefreshDelete`, `RefreshAccount`, `Issue` | `AuthService.refresh`, `TokenService.consumeRefresh` and `issue` |
| `LoginRead`, `LoginWrong`, `LoginRight`, `LoginUnlock`, `LockElapses` | `AuthService.login`, around bcrypt |
| `VerifyWrite`, `ResetRevoke`, `ResetWrite` | what an accepted code does: `verify`, `resetPassword` |
| `Logout` | `AuthService.logout` |
| `AskRole`, `RoleRead`, `RoleWrite` | `AuthService.selectRole`, which issues a pair on any access token that is still valid |
| `store`, `own`, `mem`, `kept` | `localStorage`, which the tabs share; the `sessionStorage` of each tab; its memory; "Remember me" (`stores/auth.store.ts`) |
| `Item`, `Hydrated`, `Rehydrate` | `getItem`, and the storage event |
| `Write`, `SetUser` | persist: every `set` writes the tab's whole state to one storage and clears the other, the token it holds included |
| `AskRefresh`, `Receive`, `SignOut` | `refreshOnce` and `doRefresh`, `setSession`, the store's `logout` |

`heirs` counts the pairs issued for a token, `born` the password its session
was opened with; `clobbered` notes that a tab wrote over a stored token it had not
read, and `brushed` the requests that ran while a reset did its writes, or that answer
the role question on an access token from before it. Left out: MFA, the blacklist of access tokens (it ends no
session), an account that is disabled (nothing does that).

### Codes

The three Redis keys of one address and purpose: the code with its attempts,
the cooldown and the counter of sends. `SendStart` to `Mail` are `send`, one
step per command (`CountSend` and `CountExpires` are `CacheService.incr`'s INCR
and EXPIRE); `UndoSend` and `UndoCooldown` what it does when the mail fails;
`CheckStart` to `CheckClear` are `checkCode`, around bcrypt. A key may run out at
any moment. The email and the text service make the same statements, so one
module is both. What an accepted code does is in `Sessions`.

### Membership

One person at a time is enough to race with: `role`, `confirmed`, `school`,
`wanted` are columns of `User`, `claims` the `OrgAccessRequest` rows, `cache` the
copy of role and school that `JwtStrategy` keeps for a minute.

| Specification | Code |
|---|---|
| `SignedUp` | what `register` leaves of an account, the roles picked on its form included |
| `AnswerStart`, `AnswerProfile`, `AnswerRole`, `Drop` | `AuthService.selectRole`, `RegistrationService.applyProfile`, `bustTenancy` |
| `FillStart`, `FillSet`, `Expires` | `JwtStrategy.tenancy` |
| `SubmitStart`, `SubmitFind`, `SubmitCreate`, `SubmitConfirm` | `OrgAccessService.submit` |
| `ApproveStart`, `Grant`, `GrantDrop`, `GrantCommit` | `approve`, and `submit` with an organisation's code: the transaction of `grant` |
| `DecideStart`, `Decide` | `reject`, `requestChanges` |
| `ReviewStart`, `Decline`, `CountSeats`, `Admit` | `SchoolService.reviewJoinRequest` |
| `CreateStart`, `CreateStudent` | `createStudent` |

Everybody has registered, in one of ten ways: a parent, a child or a teacher, with or
without a school, or an administrative role with the organisation made for it, which
registration asks nobody about. `chosen` names these accounts: no claim vouches for their
role. A grant's update is invisible until its commit and holds the account's row
(`Held`). There is one school; "own" is an organisation made for a claim.
Documents, mails and audit rows are left out.

### ContentProgress

One student in one lesson: `played` and `reported` are the player's two counts,
`row` the `ContentProgress` rows, `lesson` and `percent` the `Progress` row, `now` the
clock in steps of the slack.

| Specification | Code |
|---|---|
| `Tick`, `Report`, `Reopen` | `VideoPlayer.tsx`: `onTimeUpdate`; `report`, on the timer, a pause and the end; a new mount |
| `Credit`, `ReportRead`, `ReportWrite` | `learning.service.ts` `saveContentProgress`: the row read, the credit, the upsert |
| `MarkStart`, `MarkWrite` | `markContentComplete` |
| `Check`, `CompleteLesson` | `requiredItemsDone`, and the first writes of the rewards transaction of `completeLesson` |
| `CompleteByHand`, `SaveStart`, `SaveRead`, `SaveWrite` | the page's button and autosave (`LessonPlayer.tsx`), `saveProgress` |
| `ProgressSent` | the earlier `POST /progress` (`progress/progress.service.ts`): one upsert of percentage and completion as sent |
| `Fail` | a request that is lost or ends in an error, `completeLesson`'s swallowed one included |

`start`, `head` and `updates` date the video's row, `crossed` names the rows that two
requests were at work on at once, `slow` and `fast` note a report that took longer
than the slack and a video played above its own speed; `best` is the highest percentage
since `POST /progress` last set one, and `retracted` that it took the lesson's
completion back. Left out: quizzes as
required items (their pass is `Courses`'), the last position, the time spent,
rounding, and a duration only the client knows.

### Coursework

One assignment and its students: `status` of each submission, the `PeerReview`
rows (`assigned`, `total`), `peerScore`. `HandInBegins/HandIn` and
`GradeStart/Grade` are `assignments.service.ts` `submit` and `grade`; `Pick` (the
submission with its reviewers is read), `Choose` (the candidates are read and picked
from), `Give`, `Others` are `assignReviewers` for the new submission and the top-up of
the earlier ones; `ReviewStart`, `Review`, `MeanRead`, `MeanWrite` are
`submitReview` and `recomputePeerScore`, the rounding of the mean included
(`MarksOf`, `Mean`), and `ScoreWithoutRubric` the mark where the assignment has no rubric. Who is picked among the classmates is any choice the ordering
allows. Names such as `CourseworkNext`, `stage` and `errand` differ from those of `Courses`
because `CoursesProofs` extends both modules.

### LessonEditor

One lesson in the studio, from both sides. `blocks`, `timer`, `state`, `open` are
`LessonCanvas` and `useAutosave`; `tree` and `stale` the query cache; `call` the
saves under way; `patches` those of an item's status; `upload`, `mounted` and
`busy` the uploader; `rows` what the API keeps. `SaveReads` and `SaveCommit` are
`saveContent`: it reads the ids there are, and its transaction deletes, updates
and creates; `PatchCommit` is `setItemStatus`; `UploadComplete` the item that
`complete` makes. `Add`, `EditItem`, `RemoveItem`, `MoveItem`, `Toggle` and
`PasteUrlInstead` are the teacher's edits, `Fire` the debounce's end, `Absorb` and
`UploadReady` what `VideoUploader` tells the editor, `Leave` and `Return` going
to another lesson and back. An item has a `key` only the model knows: what the
teacher takes for the same item, whatever row holds it.

An item typed into the list has no id, and the list is not seeded again while the
lesson is open: every autosave deletes the row the one before made for it and makes
another (`New`, `Created`), although `saveContent` notes that ids survive an edit. The
model has this; the properties are about the item and not about its id. A video hidden
and then removed while it is processed comes back when it is ready, and reads "shown"
whatever its row says (`LessonCanvas.tsx:147`): `HiddenStaysHidden` excepts what was removed. TLC finds
that with `MaxEdit` at three; the run has one edit, the theorem any number.

### Uploads

The videos of one lesson: `upload` (`UploadSession`), `stored` (the file of each
session), `clip` (a `LessonContent` row of type VIDEO with its `VideoAsset`), and
the runs of the background task.

| Specification | Code |
|---|---|
| `PresignResumed`, `PresignStart`, `PresignAgain`, `PresignFree`, `PresignOpen` | `uploads.service.ts` `presign` |
| `ReceiveStart`, `ReceiveMark`, `ReceiveStream`, `ReceiveBreak`, `ReceiveFail` | `receiveDirect` with the local driver's stream |
| `CompleteStart`, `CompleteAttach`, `Schedule` | `complete`, making an item or replacing one's video |
| `AbortStart`, `RemoveStart`, `Wipe`, `AbortMark`, `RemoveDelete` | `abort`, `remove` |
| `RetryStart`, `RetryRequeue` | `retryProcessing` |
| `TaskRead` to `TaskFail` | `VideoProcessingService.process` |

`ffprobe`, the tool that measures, may be missing, find no length, or not reach the
file (S3 gives it no path): then the run goes on with none, and the video is READY with
the length it had, hinted or of a file it has replaced (`TaskProbe`). `known` says that
the last run of a video has measured the file it plays; what is claimed of lengths is
claimed of these. Left out: the teacher's update of a video (title,
captions, preview), thumbnails, a presigned PUT straight to S3, the legacy
uploads service.

### Publishing

`Publishing` EXTENDS `Uploads` and composes it with the course that shows the
videos: `PublishStart`, `PublishCommit`, `SnapshotTree`, `SnapshotNumber`,
`SnapshotCreate` are `publish.service.ts` `publish` and `snapshot`; `TakeDown` is
`archive` and `unpublish`; `ReviewStart`, `ReviewSubmit`, `Approve`, `Reject` are
`submitForReview` and the school's decision; `SetItemStatus`, `AddText` and `DropItem` hide,
show, add and remove an item; `UpdateLesson`, `AddOther`, `UpdateOther` and `DeleteOther` are
`updateLesson`, `createLesson`, `duplicateLesson` and `deleteLesson`, whatever the status
of the course; `ReplaceLessons` is the course wizard of `courses/courses.service.ts`,
which exchanges the curriculum and publishes with no checklist and no version. `other` stands
for all required lessons but the one with the videos. The checklist's row that the items answer (each required lesson shows
something) is `Ready`; its other rows read columns nothing here changes. Left
out: outcomes, instructors, module exams, and the older `POST /lessons`, which adds
what `AddOther` does. `edits` counts changes of lessons and items and `cuts` those that hid
or removed one or added a lesson, so that a version and a check can be dated; `basis` says
what a live course rests on: a checklist, the school's approval of what was in
review, or nothing.

## 4. The runs

Bounds: two concurrent requests everywhere a race is the question (three would
only repeat a pair: each property relates one payment, key, quest, course,
token, claim or item, and each race found is between two requests), one fault
(two in `PaymentsPilot`, so that a redelivery can fail again), and the smallest set
of things that takes every branch. Deadlock is checked in all runs.

| Run | Instance | Shows | Distinct states |
|---|---|---|---|
| `PaymentsSettlement` | a Chapa, a PayPal and a Stripe payment of one user, two plans, right and wrong amounts, one crash | every grant is single, exact and owned; a settled row is final; no order is payable before it is bound; the subsystem implements `Entitlement` | 672,139 |
| `PaymentsPilot` | two pilot attempts and a Stripe order, clock over the window's end, two crashes | pilot access never outlives the window; every Stripe session paid in full settles | 22,560 |
| `PaymentsToldPaid` | one PayPal payment | violated: section 6 | |
| `Wallet` | a lesson and an attempt, a quest, a badge and two items, one repeated report, points awarded without a row | each source, item and claim is paid once, balances differ from the ledger by exactly what was lost or unlisted, days and events are counted once, the overdraft is bounded | 1,722,324 |
| `ContentProgress` | a video of three steps, complete at two, and a reading; three requests over four steps of the clock, paused, at single and at double speed, one fault | watched time within the clock, watching completes, progress sticks, the lesson follows its items | 6,342,016 |
| `CoursesCompletion` | a course with a lesson, a quiz and an assignment, and behind it one with a lesson and an exam; one attempt each, one slip in all: an unenrolment, a stop, a lesson reported or a request that asks for no prerequisites | completion and certificates are earned and come together, prerequisites come first, attempts stay within their limit, every request ends | 618,627 |
| `Sessions` | two tabs, three tokens, two wrong passwords lock, with and without "Remember me", and one reset, sign-out, lost answer or failed request | a token is redeemed once; a browser alone keeps its session; a reset ends older ones; a lock is earned | 3,716,107 |
| `Codes` | two codes, a cap of one send and one wrong guess, three guesses, one fault | what a code, its attempts and the cap promise, and when overlapping requests break it; the cap ends | 203,809 |
| `Membership` | one person, registered in any of ten ways, two claims, one seat, one fault | roles and approvals vouch for each other; a decision is final; seats within one of their limit; the cached copy is fresh | 2,781,935 |
| `Coursework` | three students, one reviewer each, a rubric of two points, two reviews, one grading, one fault | who reviews whom, the mean, a grade stands | 1,498,224 |
| `LessonEditor` | an item, one by URL and an upload, two saves at a time, one edit, one fault | nothing is lost or doubled, no edit is forgotten, what is hidden stays hidden, edits arrive | 431,746 |
| `Publishing` | a lesson with a text and up to two videos, a second lesson, two sessions, two runs of the task, three requests (each change of a lesson is one), one stop | ready and measured videos play, none is parked, a live course shows what was checked but for the changes since, versions are the publishes | 2,267,648 |

The clock runs to `MaxNow` or `MaxDay`, which must pass the end of the window or
leave room for a missed day. `MaxRow` of `LessonEditor` is reached by no state of
the run: ids are taken again once nothing speaks of them, and a save or an upload
that finds too few would have to wait, which the theorems allow. `MaxCode` is 2: a code and the one
that replaces it. `MaxIssue` is 3: a token, the one it is exchanged for, and the
one of a race or a replay. `MaxSlip` of `Courses` is one in all, and `Award` and `MaxAward` of
`Wallet` allow one award; the theorems allow any number. `Coursework`, `Publishing`, `ContentProgress`, `Sessions` and `Wallet` use
symmetry (students and workers; workers, runs of the task and files; workers; workers and
tabs; workers and items), which is sound since these runs check no liveness property: that no video
stays in processing is stated as an invariant, `NothingIsParked`, of who will move it on.

**Fairness.** `FairSpec` adds weak fairness of each worker's `Proceed`: a
request that has started goes on, because Node runs every resolved continuation,
calls to Chapa and PayPal time out (`chapa.service.ts:100`, `:128`,
`paypal.service.ts:253`) and interactive transactions do so by Prisma's default; a
call that fails is a step of the model too. `Payments` adds strong
fairness of the delivery of a due Stripe event, because Stripe redelivers until
it is acknowledged; strong, since a delivery needs a free worker and one that
fails leaves the event due. `Codes` adds weak fairness of `SendsRunOut`: Redis
drops a key that has an expiry. `LessonEditor` has weak fairness of its timer and
of the answers taken together, so a teacher who types forever starves nothing.
Nothing makes buyers, students, teachers or new requests arrive. Each liveness
property therefore says only that what has started ends, or that what Stripe
still owes us settles, or that what is on the screen arrives.

## 5. The proofs

| Module | Theorems of the runs' properties | Not stated by one |
|---|---|---|
| `PaymentsProofs` | `EveryGrantIsSound`, `OnlyAbortsLoseGrants`, `PayableOrdersAreBound`, `SucceededRowsAreFinal`, `PaymentsImplementEntitlement`, `PilotsEnd` | `StripePaymentSettles` (liveness) |
| `WalletProofs` | `EverythingIsPaidOnce`, `BalancesAreLedger`, `DaysAreRight`, `OverdraftIsBounded` | |
| `CoursesProofs` | `CompletionIsEarned`, `CertificatesFollowCompletion`, `AttemptsAreLimited`, `PrerequisitesComeFirst`; of `Coursework`, `ReviewersStayRight`, `GradesStand`, `PeerScoresAreSound` | `RequestsFinish` (liveness) |
| `SessionsProofs` | `TokensRotateOnce`, `LoneBrowserStaysSignedIn`, `ResetsEndSessions`, `SignInStaysGuarded` | |
| `MembershipProofs` | `VouchersHold`, `SeatsStayNearLimit`, `CopiesAreFresh`, `DecisionsStand` | |
| `LessonProofs` | `WatchedTimeIsPlausible`, `ProgressIsCreditedAndKept` of `ContentProgress`; `ListStaysKept`, `EditsAreRemembered`, `HiddenIsKept` of `LessonEditor` | `EditsReachServer` (liveness) |
| `CodesProofs` | `CodesHold`, `SendsStayWithinCap` | `CapEnds` (liveness) |
| `PublishingProofs` | `LiveCoursesAreReady`, `VersionsAreHistory`, `VideosPlay`, `NobodyIsParked` | |

Each module holds an inductive invariant for each group of theorems, one lemma or
step per action, and the theorems that follow. They assume only the named
assumptions on the constants: any number of users, payments, students' works, tokens,
tabs, claims, codes, sessions, videos, workers and faults. What these assumptions say
of `None` (it is no key, no number, no row) is a convention of the models and not of the
code: it stands for an absent row or column.

**Payments.** The properties alone are not inductive: that `SettleUpsert` grants
once needs to know why no other handler grants the same payment. `Ticket` says
so: moving the row to succeeded is a ticket only one handler holds, and until
it is used nothing is granted. `Reported` carries what the provider said through
the awaits between the provider's answer and the claim; `Creation` says that an
attempt being created is in one handler's hands and cannot settle yet; `Bound`
that whatever the browser or a provider can present is bound to a row; `Roles` that each step belongs to one
provider. `PaymentsImplementEntitlement` maps every step to `Pay`, `Grant`,
`GiveUp` or a stutter: only `SettleUpsert` and `PilotUpsert` grant, and the
invariant shows that what they grant was paid and had not been granted. `PilotEnd`
carries the window's end from the activation that read it, through its two awaits, to
the subscription: whatever another request writes in between is about another payment.

**Wallet.** `LockIsHeld`: a reward about to commit holds the wallet row, and
until it commits nobody else records its key. `ClaimIsAlone`: a claim holds its
quest row alone, so what it read of the key stays true. With these, the parts of
`PaidOnce` and `BalancesAreSums` are inductive. `DaysInv` is about a wallet no event
is reported to again: whoever is about to commit a reward found its key missing and
holds the wallet row, so nobody else counts, and the quests and the streak it read are
still the ones it writes over (`CountsAlone`). A daily quest's progress is then the
number of the recorded events it counted, cut at its target (`Counted`); `DayTouched`
is the case analysis of `touchStreak`, the same day, the next one and a later one, over
runs of days (`RunsOver`). `DriftInv` is what a reading is worth: a purchase that is about
to commit had the price before the coins left that `unchecked` has counted since,
and a balance that is not what a request read of it is in `overlapped`. The midnight between the lock and the commit is in it: the
day is the one that was read.

**Courses.** A request acts on what it was told several steps ago. `Told(w)`
lists what that was: it knows a pass, its verdict was earned, a completed row
it saw had its certificate, the prerequisites were met, its number of attempts
was counted. All of this stays true while others run because the records
only grow in the directions that matter (`Grow`, lemma `OthersStayTold`);
`HoldsAlone` adds that a sync about to commit holds its enrolment alone. So an
action has to show only that it keeps the records' own facts (`RecordFacts`) and
its own request's (`StepKeeps`). A lesson that `POST /progress` takes back stays in
`done`, and a course opened ahead of its prerequisites in `waived`, so both kinds of
facts still only grow.

**Coursework** is extended by `CoursesProofs` beside `Courses` and shares nothing with it but
the module of its proofs. That the top-up reaches
everybody is `Provided`: a submission that was handed in has its reviewers, or some
request will still look at it (`WillPick`: its own, or one that has it on its list, or
one that has not read the list yet), or is about to give it enough (`WillGive`).
A hand-in makes one more classmate wanted of everybody, and puts everybody on its list in
the same step, which is why the promise survives it. `InTurn` bounds the reviewers of a
submission by what the requests about to give it some have picked; at most one does, and
what it read of the reviewers still holds when it chooses among the candidates, unless
two were at it at the same time (`doubled`). `PicksEnough` and `NoneToPick` are the arithmetic
of `assignReviewers`. `Overtaken` knows the hand-in a grade has overtaken. `MeanInv` says
that what a request is about to write is still the mean: any review brought since would
have seen it at work.
`Worthy` says that what the rows hold, what a reviewer brings and what a request has computed
are marks between nothing and the assignment's worth, and that a mean is only read when
a review is in, so nothing is divided by zero. What keeps it is that `recomputePeerScore`'s
rounded mean of marks is a mark (`MeansAreMarks`), whatever their number, and that
`scoreAgainstRubric`'s result is one, whatever the rubric (`TotalsAreMarks`). A mean is a sum
over a set, which the community modules compute by recursion over its subsets.
`LeastSubset` takes the place of an induction: if a claim failed for some subset of a finite
set it would fail for a smallest one. From it the recursion has a value for every
finite set (`SumsReach`), and a sum of `n` numbers between 0 and `M` is between 0 and `M * n`
(`SumsWithin`).

**Sessions.** `OnceOnly`: a row that exists has no heir, and of a token's row,
its heir and the requests past its delete there is one in all, because only
the delete that removes the row goes on. `Presented` says that what a request
presents was issued; `Guarded` that requests on their way to a session belong to
a verified account, and what they have read of the count of failures was really
guessed; `Ended` that a session from before the present password, and a request
that would extend one, is tainted or brushed by the reset, the answer to the role
question on an older access token included. One `Quiet` lemma per
part covers the actions that do not touch it. `AloneInv` is the single flight, seen from
both sides: as long as no two tabs have refreshed at a time, no tab has written over a
token it had not read and nothing was lost or ended, each request is the one its tab waits for (`Attended`), what a refresh presents is in the
database until that refresh deletes it, and an answer on its way holds a token that is
live and that nobody else has (`Awaited`). That leaves one way to be without a
live token, to be refreshing.

**Membership.** `Reviewing` says what a reviewer at work knows of its claim (open, or
crossed), `Vouched` that a role and an approval stand for each other while
`Answering` covers an answer being saved (an account that registered with an
administrative role is `chosen` from the start and stays so), `Cached` with `Filling` what a cached copy and a
fill on its way can be. `ChangesAt` is the frame: an action changes one request,
and every fact about another's follows from the records it kept. `SeatsInv` counts the
last seats: students let in, and requests that found a seat and have yet to take it
(`Seating`), are within the limit and one more for every other request, because a request
finds a seat only while what it can see, the students there are, is below the limit,
and all it cannot see are the other requests.

**ContentProgress.** `CreditInv` follows a report: as long as requests for the
video's row have not crossed and none was lost or late, what the page has
reported is credited or claimed by the one report on its way, and what it has
not reported was watched since the row was last written, which is what keeps
the next claim within the elapsed time and the slack. It needs `AloneInv` (who
writes an uncrossed row is alone with it), `PastInv` (rows and requests are of the past)
and `ThresholdInv` (enough watched time is a completion from the moment it is
computed). `PlausibleInv` bounds what a report is about to write by what it may
write later, for crossing reports too. `SticksInv` and `PercentInv` say that a
request alone with its row knows what was complete, and that the percentage is at
least the best since `POST /progress` last set one.

**LessonEditor.** `Identified` says that an item with an id is the one that row is of, on
the screen, in the cached tree and in a save under way; `Numbered` that items are new
when they are made. `Alone` holds until two saves overlap or the lesson is left in haste:
one save at a time, no item twice on the screen or among the rows, and what an upload is
making is posted by nobody yet. `Complete` also needs that no upload met a save: the rows are of
items on the screen, removed, or about to be absorbed (`Arriving`), a save under way
posts all of them (`SaveComplete`), and with no timer running what it posts is what the
screen reads (`UpToDate`): with an edit made meanwhile the timer does run, whatever
the editor says, which is `NoEditIsForgotten`. A save that commits makes the rows read like its list because
the places it writes rank them without ties (`SaveRanks`, `SaveIsRead`); that a list
seeded from the rows is theirs in order is `Listed`'s arithmetic, for which `Greatest`
takes the place of an induction: of the finite subsets of a set without a maximum there
would be a least one (`WFMin`). `Shown` follows an item's status through the PATCHes of
its id: `AsSet` of every item on the screen that was not removed.

**Codes.** Requests that overlap may spoil whatever code either of them carries, and
`met` names it; the invariant is about all other codes. `Sending` says that a code on
its way is the newest and has not been seen, `Reading` that what a check read of a code is
still there, or nothing is, and is as it was stored; `Kept` that the stored
record counts every wrong guess and precedes no delivered code. `Overlaps` hands a code
over to `met` in time. That an earlier code never comes back (`NewestCodeCounts`) is `Kept`,
read of the stored record. `CapInv`
is apart: what one counter let through and has not stored (`Storing`) and what it has
stored are at most what it counted, and at most the cap. A counter that runs out
takes its requests' places with it: the next one starts from nothing.

**Uploads and publishing.** `Bounded` is the type invariant with the bounds made
exact: requests that will open a session or make an item have a place reserved (`Room`),
so identifiers never run out in the middle of one. `CourseInv` dates what is known:
whatever a live course, a review or a publish under way rests on was found at a count
of `cuts`, and of the required lessons no more are drafts or show nothing than `cuts`
have been added since (`Live`): each change of a lesson or an item adds one lesson at
most and counts itself. Of two publishes being recorded each has met the other, the
version a request will write comes after those it has read, and the drafts it has seen are
bounded by the edits since its commit (`Recorded`, `Versioned`). `VideosInv` follows a
video from the moment its item exists: while it is pending or processing somebody will
settle it (`Tended`); unless two runs have crossed on it, one run or one request about
to start one has it alone (`Alone`), knows its file and, once it was measured, its length
(`Measured`), and leaves it settled: with the length of a file that is there, or was
removed by a request that `FileStays` excepts, if this run has measured it (`known`),
and otherwise with the one length in both rows (`SettledWell`).
`Holders` counts who holds a file: two videos share one only if its session was
completed twice. `Stands` is the frame, all a step must leave alone for the facts
of another video to go on holding.

Proved: type correctness of every module, and every safety property of the passing runs,
action properties and the refinement included. Only model-checked: `StripePaymentSettles`,
`RequestsFinish`, `CapEnds` and `EditsReachServer`, which are liveness and out of the
prover's reach; and the counterexample of `PaymentsToldPaid`.

Every property was checked by TLC before it was proved, and so were the invariants that
were not obvious: `DaysInv` on the states of the run `Wallet`, `WorkInv` of Coursework on
those of `Coursework` and with two reviewers each, `EditorInv` on those of `LessonEditor`.

## 6. Where the code and its texts disagree

One has a run whose counterexample is the scenario.

| Run | The text | The code |
|---|---|---|
| `PaymentsToldPaid` | `payments/paypal.service.ts:32`: COMPLETED once the plan is granted | a buyer whose first card was declined approves again; the capture succeeds, the failed row no longer matches, the answer is COMPLETED and nothing is granted |

Others were met while modelling. They are behaviours of the models, mostly the
very cases the history variables except, without a run of their own.

**Payments.**
- `payments/chapa.service.ts:114` says a confirmation settles, safe to call any number of
  times. A stop between claim and upsert is never repaired, as the next
  confirmation finds the row settled (`SucceededIsBeingGranted` has `MaxCrash`).
- `docs/PAYMENTS.md:41` says a repeated pilot activation changes nothing; two
  concurrent ones write two payments.
- `docs/PAYMENTS.md:80` says each order buys 30 days; a second order within a
  period sets the end to now plus 30 days.

**Wallet.**
- `economy/economy.service.ts:117` has the student hold enough coins; two purchases pass
  one balance.
- `lms/gamification/rewards.service.ts:72` claims a completed quest once; completed and
  paid through `economy`, it is still claimable in `lms`.
- `economy/economy.service.ts:80` writes the coins and XP it read plus what is earned: what
  a reward or a purchase wrote in between is lost, and the XP it adds has no row
  (`BalancesAreSums` counts both).
- `POST /progress` (`progress/progress.service.ts:31`) and the older quizzes' submit
  (`quizzes/quizzes.service.ts:25`) add to `User.points` with no `Transaction` row;
  `economy/economy.service.ts:50` would ideally have one for every change of a balance.
- An attempt reported again after its reward advances quests and the streak
  again, and may do so beside another reward: only the payment is keyed
  (`DaysAreCounted` holds while `repeats` is 0).
- The comment at `economy/economy.service.ts:272` gives daily missions a period; the
  frequency it reads is no column, so the key is always `''`.
- `level.util.ts` and `economy` compute the level from different curves.
- `completeMission` marks the row and pays in another statement: a stop between
  them loses the reward for good.

**Courses.**
- `lms/certificates/certificates.service.ts:31`: one certificate, not two; the exam's
  look-up and create straddle a sync's commit.
- `lms/learning/completion.service.ts:126`: the row matches the evaluated state; of two
  last lessons at once each misses the other, and nothing syncs again.
- `lms/learning/course-access.service.ts:196` puts a student on a course without its
  prerequisites; so do a lesson completed through `student/lessons` and a hand-in for a
  class, whose sync makes the enrolment.
- `POST /progress` also writes a certificate once all lessons are reported complete
  (`progress/progress.service.ts:47`), whatever the quizzes say. Its row names the course by
  its title and has no `courseId`, so the look-ups of `lms/` do not find it (`certs`
  counts rows with a `courseId`), and the student can hold two.
- A student who leaves a course and comes back stays ACTIVE at zero with all
  work done: rewarded lessons sync nothing.
- A late submission that read its attempt open expires it after another one was
  graded in time.

**Content progress** (paths in `lms/learning/learning.service.ts` unless named).
- `:496` has one request claim no hour of viewing; the first report of a video is
  not limited (`:522`), and a whole video can be one report.
- At twice the speed a report of ten seconds claims twenty and is credited
  fifteen: a video watched to its end may stay below the threshold, and at `:592`
  marking is for items that are no video.
- The end of a video sends two reports at once (pause and end): the second writes
  what it read before the first, and can take back watched time and a completion.
- The watched time of a lost report is not sent again; the comment in
  `VideoPlayer.tsx:63` relies on the next one, which carries the position only.
- The report "on the way out" (`VideoPlayer.tsx:68`) finds the element already
  detached, and sends nothing.
- `:589` speaks of items that are no video; the code takes any item. No page calls
  it (only `src/kidora-web/src/lib/api/learning.ts:160` names it), so a required
  reading is never completed through the web.
- `:619` says progress only moves forward; `POST /progress`
  (`progress/progress.service.ts:24`) writes the percentage and the completion as sent, back
  from complete too; and two saves at once, or a save that
  overlaps a completion, write an older percentage last.
- The autosave of `LessonPlayer.tsx:43` looks for its element while the page still
  shows a placeholder, and does not look again for that lesson.
- `dto.ts:21` means the seconds since the last save; the button sends all since the
  lesson was opened (`LessonPlayer.tsx:74`), which the autosaves have added already.

**Sessions.**
- The loser of two refreshes of one token takes the missing row for a replay
  and deletes every session, the winner's new one included (`auth/services/token.service.ts:44`).
- `email-verification.service.ts:227` ends the sessions, hashes, and only then
  writes the password: what signs in or refreshes in between survives.
- A lock can come late, since concurrent guesses write the same count
  (`auth/services/auth.service.ts:200`).
- `selectRole` (`auth/services/auth.service.ts:170`) issues a pair on any access token that
  is still valid: for a quarter of an hour after a reset an account whose role question is
  open can be signed in again with a token from before it.
- Every `set` of the browser's store writes the tab's whole state
  (`src/kidora-web/src/stores/auth.store.ts:201`, `:213`, `:287`, `:302`): a tab that asked for
  its user before another refreshed puts the rotated token back, and the next refresh is
  taken for a replay, which ends every session.
- Without "Remember me" the tokens are in `sessionStorage`, one copy per tab
  (`auth.store.ts:148`): a tab that is opened later has none, and one that signs in so takes
  the shared copy away from the others.
- The store's logout tells the API nothing: the refresh token stays good.

**Membership.**
- The comment on `OrgAccessService` calls an approval the only path by which an
  administrative role is ever granted; `auth/services/auth.service.ts:81` stores
  SCHOOL_ADMIN, SCHOOL_LEADER and DISTRICT_ADMIN as chosen on the registration form, with no
  claim and no review.
- An approval and a rejection that cross both succeed, and the person keeps the
  role while the claim says rejected (`org/org-access.service.ts:237`).
- An answer to the role question that was being saved when the claim was approved
  writes its own role over the grant.
- Requests at the last seat all pass the count, one student too many for each.
- `grant` drops the cached copy inside its transaction: a fill before the commit
  keeps the old role for a minute.

**Codes.**
- Guesses in flight share one count of attempts, and a late write of it brings a
  used or replaced code back.
- A send whose mail fails deletes the code that another request has delivered.
- A stop between INCR and EXPIRE leaves an hourly counter that never runs out.

**Coursework.**
- A resubmission that read the row ungraded sets a graded one back to SUBMITTED.
- Two requests that pick for one submission give it more reviewers than asked;
  `lms/peer-review/peer-review.service.ts:62` sorts by reviews received, its comment says
  given.
- Of two reviews that end at once the older mean may be written last.

**Lesson editor** (paths in `src/kidora-web/src/features/`).
- Leave a lesson before its save commits and come back: the list is seeded from
  the old tree (`studio/LessonCanvas.tsx:87`), and the next autosave deletes the rows the
  save made, although "only items the teacher actually removed are deleted"
  (`src/kidora-api/src/lms/authoring/authoring.service.ts:432`).
- A new item has no id in the list until it is seeded again: every autosave
  deletes its row and makes another, although ids are said to survive an edit.
- A new item that is hidden at once is stored as published, despite
  `studio/LessonCanvas.tsx:294`.
- After an edit made while a save is under way the editor says "saved" when that save ends
  (`course-builder/parts.tsx:75`), with the edit unsaved and the warning before the page
  is left off (`:55`): the timer has it (`NoEditIsForgotten`), a closed page loses it.
- A video by URL takes the uploader away and leaves `uploadsBusy` set: the
  autosave stays off (`studio/LessonCanvas.tsx:344`).
- When the answer of `complete` is lost, the next autosave deletes the video's row.
- A removed video comes back when its processing ends (`studio/VideoUploader.tsx:137`);
  cancelling a first try never calls abort (`:145`).

**Uploads and publishing.**
- The school's approval asks for no review, checklist, draft lesson or version
  (`lms/school/school.service.ts:207`), while `lms/authoring/publish.service.ts:140`
  notes that a draft lesson would be invisible.
- "A teacher cannot skip" the checklist: the course wizard's
  publish (`courses/courses.service.ts:139`) has none, and records no version.
- A lesson of a live course becomes a draft by `updateLesson`
  (`lms/authoring/authoring.service.ts:293`), and draft or empty lessons join it by
  `createLesson` (`:254`) and `duplicateLesson` (`:353`), also between a publish and its
  snapshot, which then shows them as drafts.
- A live course sent to review, or rejected from it, stays `published`.
- A session completed twice makes two videos share a file; removing one takes
  the other's. Aborting a completed session removes a live video's file, and a
  late stream that breaks truncates it and sets the session to FAILED.
- The file of a replaced video is never removed.
- A video whose bytes never came becomes READY where `ffprobe` is not installed. One that
  cannot be measured (no length found, or less than half a second,
  `lms/uploads/video-processing.service.ts:73`, `:115`; S3 without a local path, `:105`) becomes
  READY with the length the browser said, or that of the file it has replaced.
- Two runs of the task on one video can leave the length of the replaced file.
- A version is lost when two publishes take one number or the process stops
  after the commit.

## 7. Plan

Done: `Payments` with `Entitlement`, `Wallet`, `Courses`, `Coursework`, `Sessions`,
`Membership`, `ContentProgress`, `Codes`, `Uploads` and `Publishing`, each with its
proofs, and `LessonEditor`, whose proofs are in `LessonProofs` with `ContentProgress`'s.

Each further module gets one passing run whose properties ask all its
questions. Runs are kept few: a new module joins the run of one it shares state
with, or takes the place of an older run whose question it also asks.

1. Games: a level's attempts, hints and completion; its reward is `Wallet`'s
   (shared key, so paid once). Live rooms as a small module.
2. Composition: `Courses` with `Wallet` (the reward of `rollupCourse`, XP quests), so
   that a completed course is certified and rewarded together.
3. Money conversions (`paypal.service.ts` `toMinor`/`toMajor`, Chapa's amounts) as
   operators checked over bounded amounts, the round trip as a lemma.

### Not modelled

- The pages and widgets of `kidora-web`, apart from the three stores of state
  above, are presentation and calls to the API; what they send is a request the
  models already take in any order. They are most of the repository's lines.
- OAuth sign-in is one Redis key read and deleted, and two look-ups; the
  providers are external.
- Course access codes: the enrolment they make is where `Courses` starts; the
  limit of wrong codes is the count of `Codes` without its expiry. Assignment to a course
  is `AssignStart` of `Courses`.
- The legacy services write rows that `lms/` reads as well, and these writes are steps of
  the models: `economy/` in `Wallet`, with the points of `progress/` and
  `quizzes/`; the `Progress` row of `progress/` in `Courses` and `ContentProgress`; the course
  wizard and the publish of `courses/` in `Publishing`. Not modelled are the rows of their own:
  the leaderboard's scores, badges, `rewards/`, the look-up and create of the older
  `certificates/`, the older quizzes' results, `uploads/`.
- Dashboards, notifications and analytics read or append; chat, avatar, calendar
  and support write single rows; the AI tutor is a stateless proxy.
- Seeds, migrations, boot, configuration and deployment have no transitions.
