------------------------------- MODULE Wallet -------------------------------
(***************************************************************************)
(* One student's wallet, reward ledger, quests, inventory and streak, and  *)
(* the two services that write them: the LMS RewardsService (transactions, *)
(* idempotent through Transaction.sourceKey) and the older EconomyService  *)
(* (absolute writes, no keys).  The two older routes that award points      *)
(* outside both services (progress, quizzes) add to User.points only.      *)
(*                                                                         *)
(* Interactive transactions run at READ COMMITTED: a read sees what is     *)
(* committed, the first UPDATE of the wallet row waits for the transaction *)
(* that holds it, and a unique key fails the transaction that comes        *)
(* second.  What a transaction wrote becomes visible in one step, its      *)
(* commit.  Students share nothing here, so one student is the whole model.*)
(***************************************************************************)
EXTENDS Integers, FiniteSets

CONSTANTS
  Worker,
  None,         \* an idle handler's job; the wallet lock of nobody
  Source,       \* rewarded events: a lesson, attempt, submission or session
  Kind,         \* Kind[s]: "lesson", "attempt", "submission" or "game"
  Xp, Coins,    \* Xp[s], Coins[s]: what the event pays
  Mission,
  Daily,        \* the missions whose kind is DAILY
  Counts,       \* Counts[s]: the missions whose metric the event advances
  Target, QuestXp, QuestCoins,   \* per mission
  Achievement, Needs,            \* Needs[a]: the XP that unlocks it
  Bonus,        \* Bonus[A]: the XP the achievements of the set A pay together
  Item, Price,
  OpeningCoins,
  Award,        \* the points the older routes give: 20 a lesson, 10 an answer
  MaxAward,     \* bound on the points they give in all
  MaxDay,       \* bound on the days
  MaxRepeat     \* bound on the reports of what is rewarded already

Period == 0..MaxDay                \* periodKey; 0 stands for ''
Quest  == Mission \X Period        \* a StudentMission row
Key    == Source \union Quest \union Achievement   \* Transaction.sourceKey

ASSUME WalletAssumption ==
  /\ None \notin Key \union Item \union Worker
  /\ Source \intersect Quest = {} /\ Source \intersect Achievement = {}
  /\ Quest \intersect Achievement = {}
  /\ Kind \in [Source -> {"lesson", "attempt", "submission", "game"}]
  /\ Xp \in [Source -> Nat] /\ Coins \in [Source -> Nat]
  /\ Daily \subseteq Mission
  /\ Counts \in [Source -> SUBSET Mission]
  /\ Target \in [Mission -> Nat \ {0}]
  /\ QuestXp \in [Mission -> Nat] /\ QuestCoins \in [Mission -> Nat]
  /\ Needs \in [Achievement -> Nat] /\ Bonus \in [SUBSET Achievement -> Nat]
  /\ Price \in [Item -> Nat]
  /\ Award \subseteq Nat /\ MaxAward \in Nat
  /\ OpeningCoins \in Nat /\ MaxDay \in Nat \ {0} /\ MaxRepeat \in Nat

VARIABLES
  wallet,    \* RewardWallet
  points,    \* User.points
  ledger,    \* the sourceKeys of the Transaction rows
  recorded,  \* the sums of the Transaction rows, per currency
  quest,     \* StudentMission rows; [progress 0, not completed]: no row
  owned,     \* Inventory
  streak,    \* User.streak, RewardWallet.lastStreakDate and longestStreak
  pc, job,   \* a request: next step, what it is about
  seen,      \* what it read before its next step
  lock,      \* the transaction that holds the wallet row
  day,
  repeats,   \* the reports of attempts and submissions rewarded before
  paid,      \* history: how often each key's reward was committed
  charges,   \* history: how often each item's price was taken
  counted,   \* history: the events that advanced each quest
  active,    \* history: the days that touched the streak
  unlisted,  \* history: the points and XP credited without a Transaction row
  lost,      \* history: what writes of stale values took from coins and XP
  overlapped,\* history: the balances that changed while a request held a reading
  unchecked  \* history: the coins that left while a purchase had its check behind it

money   == <<wallet, points, ledger, recorded>>
handler == <<pc, job, seen, lock>>
clock   == <<day, repeats>>
drift   == <<lost, overlapped, unchecked>>
history == <<paid, charges, counted, active, unlisted, drift>>
vars    == <<money, quest, owned, streak, handler, clock, history>>

\* levelFromXp of the LMS and levelForXp of the economy service.
LevelFromXp(xp) == 1 + Cardinality({n \in 1..xp : 100 * n * n <= xp})
LevelForXp(xp) == xp \div 500 + 1

NoStreak == [count |-> 0, last |-> -1, longest |-> 0]
Streak   == [count : Nat, last : {-1} \union 1..MaxDay, longest : Nat]
Progress == [progress : Nat, completed : BOOLEAN, claimed : BOOLEAN]
Seen     == [xp : Nat, coins : Int, fresh : BOOLEAN, day : 1..MaxDay,
             quest : [Mission -> Progress], streak : Streak]
NothingSeen == [xp |-> 0, coins |-> 0, fresh |-> FALSE, day |-> 1,
                quest |-> [m \in Mission |-> [progress |-> 0, completed |-> FALSE, claimed |-> FALSE]],
                streak |-> NoStreak]

TypeOK ==
  /\ wallet \in [coins : Int, xp : Nat, level : Nat]
  /\ points \in Nat
  /\ ledger \subseteq Key
  /\ recorded \in [coins : Int, xp : Nat]
  /\ quest \in [Quest -> Progress]
  /\ owned \subseteq Item
  /\ streak \in Streak
  /\ pc \in [Worker -> {"idle", "reward", "rewardCommit", "claim", "claimCommit",
                        "complete", "earnRead", "earnWrite", "purchase"}]
  /\ job \in [Worker -> Key \union Item \union {None}]
  /\ \A w \in Worker :
       /\ pc[w] = "idle" => job[w] = None
       /\ pc[w] \in {"reward", "rewardCommit"} => job[w] \in Source
       /\ pc[w] = "purchase" => job[w] \in Item
       /\ pc[w] \in {"claim", "claimCommit", "complete", "earnRead", "earnWrite"}
            => job[w] \in Quest
  /\ seen \in [Worker -> Seen]
  /\ lock \in Worker \union {None}
  /\ day \in 1..MaxDay
  /\ paid \in [Key -> Nat] /\ charges \in [Item -> Nat]
  /\ counted \in [Quest -> SUBSET Source]
  /\ active \subseteq 1..MaxDay /\ repeats \in Nat
  /\ unlisted \in [points : Nat, xp : Nat] /\ lost \in [coins : Int, xp : Int]
  /\ overlapped \subseteq {"coins", "xp"} /\ unchecked \in Nat

Init ==
  /\ wallet = [coins |-> OpeningCoins, xp |-> 0, level |-> 1]
  /\ points = 0 /\ ledger = {} /\ recorded = [coins |-> 0, xp |-> 0]
  /\ quest = [q \in Quest |-> [progress |-> 0, completed |-> FALSE, claimed |-> FALSE]]
  /\ owned = {} /\ streak = NoStreak
  /\ pc = [w \in Worker |-> "idle"] /\ job = [w \in Worker |-> None]
  /\ seen = [w \in Worker |-> NothingSeen] /\ lock = None
  /\ day = 1
  /\ paid = [k \in Key |-> 0] /\ charges = [i \in Item |-> 0]
  /\ counted = [q \in Quest |-> {}]
  /\ active = {} /\ repeats = 0
  /\ unlisted = [points |-> 0, xp |-> 0] /\ lost = [coins |-> 0, xp |-> 0]
  /\ overlapped = {} /\ unchecked = 0

-----------------------------------------------------------------------------
(* Requests and transactions *)

Begin(w, j, step, s) ==
  /\ pc[w] = "idle"
  /\ pc' = [pc EXCEPT ![w] = step]
  /\ job' = [job EXCEPT ![w] = j]
  /\ seen' = [seen EXCEPT ![w] = s]

Continue(w, step, s) ==
  /\ pc' = [pc EXCEPT ![w] = step]
  /\ seen' = [seen EXCEPT ![w] = s]
  /\ UNCHANGED job

\* The request is answered, or its transaction is rolled back.
Finish(w) ==
  /\ pc' = [pc EXCEPT ![w] = "idle"]
  /\ job' = [job EXCEPT ![w] = None]
  /\ seen' = [seen EXCEPT ![w] = NothingSeen]
  /\ lock' = IF lock = w THEN None ELSE lock

Row(m, d) == <<m, IF m \in Daily THEN d ELSE 0>>     \* periodKeyFor

\* The StudentMission row a claim has updated and not committed.
RowHeld(q) == \E v \in Worker : pc[v] = "claimCommit" /\ job[v] = q

TouchStreak(s, d) ==
  IF s.last = d THEN s
  ELSE LET n == IF s.last = d - 1 THEN s.count + 1 ELSE 1
       IN [count |-> n, last |-> d,
           longest |-> IF n > s.longest THEN n ELSE s.longest]

Advance(q, m) ==
  LET p == q.progress + 1 IN
  IF q.completed THEN q
  ELSE [q EXCEPT !.progress = IF p < Target[m] THEN p ELSE Target[m],
                 !.completed = p >= Target[m]]

\* checkAchievements: what the wallet's XP unlocks now.
Unlocks(xp) == {a \in Achievement \ ledger : xp >= Needs[a]}

\* The requests that hold a reading of the balance c which they will write over.
Holding(c) == {v \in Worker :
  \/ pc[v] = "earnWrite"
  \/ c = "xp" /\ seen[v].fresh /\ pc[v] \in {"reward", "rewardCommit", "claimCommit"}}

\* History of a write of the wallet that started from these coins and XP.
Writes(w, coins, xp) ==
  /\ lost' = [coins |-> lost.coins + (wallet.coins - coins), xp |-> lost.xp + (wallet.xp - xp)]
  /\ overlapped' = overlapped \union
       {c \in {"coins", "xp"} : wallet'[c] # wallet[c] /\ Holding(c) \ {w} # {}}
  /\ unchecked' =
       IF wallet'.coins < wallet.coins /\ \E v \in Worker \ {w} : pc[v] = "purchase"
         THEN unchecked + (wallet.coins - wallet'.coins) ELSE unchecked

\* grant, for the keys ks: coins and points are increments, xp is written as a
\* number computed from the xp the transaction read.
Grant(w, ks, base, xp, coins) ==
  /\ wallet' = [coins |-> wallet.coins + coins, xp |-> base + xp,
                level |-> LevelFromXp(base + xp)]
  /\ points' = points + xp
  /\ ledger' = ledger \union ks
  /\ recorded' = [coins |-> recorded.coins + coins, xp |-> recorded.xp + xp]
  /\ paid' = [k \in Key |-> IF k \in ks THEN paid[k] + 1 ELSE paid[k]]
  /\ Writes(w, wallet.coins, base)

-----------------------------------------------------------------------------
(* RewardsService: a lesson, quiz attempt, submission or game level *)

\* grant reads the key and the wallet.  A lesson completed again waits for the
\* first one's Progress row; a rewarded lesson or session returns at once.
RewardStart(w, s) ==
  /\ Kind[s] = "lesson" => \A v \in Worker : job[v] # s
  /\ Kind[s] \in {"lesson", "game"} => s \notin ledger
  /\ s \in ledger => repeats < MaxRepeat
  /\ repeats' = IF s \in ledger THEN repeats + 1 ELSE repeats
  /\ Begin(w, s, "reward", [NothingSeen EXCEPT !.xp = wallet.xp, !.fresh = s \notin ledger])
  /\ UNCHANGED <<money, quest, owned, streak, lock, day, history>>

RewardRepeated(s) ==
  /\ Kind[s] \in {"lesson", "game"} /\ s \in ledger
  /\ UNCHANGED vars

\* Mutants: no unique key; the wallet row is not locked until the commit.
RewardLockGoes(w, holder) ==
  /\ pc[w] = "reward" /\ lock = None
  /\ lock' = holder
  /\ Continue(w, "rewardCommit",
       [seen[w] EXCEPT !.day = day, !.streak = streak,
                       !.quest = [m \in Mission |-> quest[Row(m, day)]]])
  /\ UNCHANGED <<money, quest, owned, streak, clock, history>>
RewardLockNoKey(w)  == RewardLockGoes(w, w)
RewardLockNoLock(w) == RewardLockGoes(w, None)

\* The update of the wallet row: it waits for the row, and the insert after it
\* fails if the key was recorded meanwhile.  Then streak and quests are read.
RewardLock(w) ==
  LET s == job[w] IN
  /\ pc[w] = "reward"
  /\ seen[w].fresh => lock = None
  /\ IF seen[w].fresh /\ s \in ledger
       THEN Finish(w)
       ELSE /\ lock' = IF seen[w].fresh THEN w ELSE lock
            /\ Continue(w, "rewardCommit",
                 [seen[w] EXCEPT !.day = day, !.streak = streak,
                                 !.quest = [m \in Mission |-> quest[Row(m, day)]]])
  /\ UNCHANGED <<money, quest, owned, streak, clock, history>>

RewardCommit(w) ==
  LET s == job[w]
      d == seen[w].day
      base == IF seen[w].fresh THEN seen[w].xp ELSE wallet.xp
      xp == IF seen[w].fresh THEN Xp[s] ELSE 0
      coins == IF seen[w].fresh THEN Coins[s] ELSE 0
      new == Unlocks(base + xp)
      moved == {m \in Counts[s] : ~seen[w].quest[m].completed}
      touched == Kind[s] # "submission" /\ seen[w].streak.last # d
  IN
  /\ pc[w] = "rewardCommit"
  /\ \A m \in moved : ~RowHeld(Row(m, d))
  /\ touched \/ new # {} => lock \in {None, w}
  /\ IF seen[w].fresh \/ new # {}
       THEN Grant(w, new \union (IF seen[w].fresh THEN {s} ELSE {}), base, xp + Bonus[new], coins)
       ELSE UNCHANGED <<money, paid, drift>>
  /\ quest' = [q \in Quest |->
                 IF q[1] \in moved /\ q = Row(q[1], d)
                   THEN [Advance(seen[w].quest[q[1]], q[1]) EXCEPT !.claimed = quest[q].claimed]
                   ELSE quest[q]]
  /\ counted' = [q \in Quest |-> IF q[1] \in moved /\ q = Row(q[1], d)
                                   THEN counted[q] \union {s} ELSE counted[q]]
  /\ streak' = IF touched THEN TouchStreak(seen[w].streak, d) ELSE streak
  /\ active' = IF Kind[s] # "submission" THEN active \union {d} ELSE active
  /\ Finish(w)
  /\ UNCHANGED <<owned, clock, charges, unlisted>>

(* RewardsService.claimQuest *)

ClaimStart(w, m) ==
  LET q == Row(m, day) IN
  /\ quest[q].completed /\ ~quest[q].claimed
  /\ Begin(w, q, "claim", NothingSeen)
  /\ UNCHANGED <<money, quest, owned, streak, lock, clock, history>>

\* The row is updated, under its lock, whether or not it was claimed meanwhile;
\* then grant reads the key and the wallet.
ClaimMark(w) ==
  /\ pc[w] = "claim" /\ ~RowHeld(job[w])
  /\ Continue(w, "claimCommit",
       [NothingSeen EXCEPT !.xp = wallet.xp, !.fresh = job[w] \notin ledger])
  /\ UNCHANGED <<money, quest, owned, streak, lock, clock, history>>

ClaimCommit(w) ==
  LET q == job[w] IN
  /\ pc[w] = "claimCommit"
  /\ quest' = [quest EXCEPT ![q].claimed = TRUE]
  /\ IF seen[w].fresh
       THEN /\ lock = None
            /\ Grant(w, {q}, seen[w].xp, QuestXp[q[1]], QuestCoins[q[1]])
       ELSE UNCHANGED <<money, paid, drift>>
  /\ Finish(w)
  /\ UNCHANGED <<owned, streak, clock, charges, counted, active, unlisted>>

-----------------------------------------------------------------------------
(* EconomyService *)

\* Mission has no frequency column, so the period key is always ''.
EconomyRow(m) == <<m, 0>>

CompleteStart(w, m) ==
  /\ ~quest[EconomyRow(m)].completed
  /\ Begin(w, EconomyRow(m), "complete", NothingSeen)
  /\ UNCHANGED <<money, quest, owned, streak, lock, clock, history>>

CompleteMark(w) ==
  /\ pc[w] = "complete" /\ ~RowHeld(job[w])
  /\ quest' = [quest EXCEPT ![job[w]].progress = 100, ![job[w]].completed = TRUE]
  /\ Continue(w, "earnRead", seen[w])
  /\ UNCHANGED <<money, owned, streak, lock, clock, history>>

EarnRead(w) ==
  /\ pc[w] = "earnRead"
  /\ Continue(w, "earnWrite",
       [seen[w] EXCEPT !.xp = wallet.xp, !.coins = wallet.coins])
  /\ UNCHANGED <<money, quest, owned, streak, lock, clock, history>>

\* Absolute values of what was read; only the coins get a Transaction row.
EarnWrite(w) ==
  LET m == job[w][1]
      xp == seen[w].xp + QuestXp[m]
  IN
  /\ pc[w] = "earnWrite" /\ lock = None
  /\ wallet' = [coins |-> seen[w].coins + QuestCoins[m], xp |-> xp, level |-> LevelForXp(xp)]
  /\ recorded' = [recorded EXCEPT !.coins = @ + QuestCoins[m]]
  /\ unlisted' = [unlisted EXCEPT !.xp = @ + QuestXp[m]]
  /\ Writes(w, seen[w].coins, seen[w].xp)
  /\ Finish(w)
  /\ UNCHANGED <<points, ledger, quest, owned, streak, clock, paid, charges, counted, active>>

\* Mutant: the balance is not compared with the price.
PurchaseStartUnchecked(w, i) ==
  /\ i \notin owned
  /\ Begin(w, i, "purchase", NothingSeen)
  /\ UNCHANGED <<money, quest, owned, streak, lock, clock, history>>

\* Ownership and balance are checked before the purchase's transaction.
PurchaseStart(w, i) ==
  /\ i \notin owned /\ wallet.coins >= Price[i]
  /\ Begin(w, i, "purchase", NothingSeen)
  /\ UNCHANGED <<money, quest, owned, streak, lock, clock, history>>

\* Mutant: the purchase is no transaction.
PurchaseCommitLoose(w) ==
  LET i == job[w] IN
  /\ pc[w] = "purchase" /\ lock = None
  /\ wallet' = [wallet EXCEPT !.coins = @ - Price[i]]
  /\ recorded' = IF i \in owned THEN recorded
                                 ELSE [recorded EXCEPT !.coins = @ - Price[i]]
  /\ owned' = owned \union {i}
  /\ Writes(w, wallet.coins, wallet.xp)
  /\ UNCHANGED charges
  /\ Finish(w)
  /\ UNCHANGED <<points, ledger, quest, streak, clock, paid, counted, active, unlisted>>

\* The inventory row is unique per user and item: the second of two purchases
\* is rolled back with its decrement.
PurchaseCommit(w) ==
  LET i == job[w] IN
  /\ pc[w] = "purchase" /\ lock = None
  /\ IF i \in owned
       THEN UNCHANGED <<wallet, recorded, owned, charges, drift>>
       ELSE /\ wallet' = [wallet EXCEPT !.coins = @ - Price[i]]
            /\ recorded' = [recorded EXCEPT !.coins = @ - Price[i]]
            /\ owned' = owned \union {i}
            /\ charges' = [charges EXCEPT ![i] = @ + 1]
            /\ Writes(w, wallet.coins, wallet.xp)
  /\ Finish(w)
  /\ UNCHANGED <<points, ledger, quest, streak, clock, paid, counted, active, unlisted>>

(* POST /progress and the older quizzes' submit *)

\* One increment of User.points, with no Transaction row.
AwardPoints(n) ==
  /\ unlisted.points + n <= MaxAward
  /\ points' = points + n
  /\ unlisted' = [unlisted EXCEPT !.points = @ + n]
  /\ UNCHANGED <<wallet, ledger, recorded, quest, owned, streak, handler, clock,
                 paid, charges, counted, active, drift>>

-----------------------------------------------------------------------------
NextDay ==
  /\ day < MaxDay
  /\ day' = day + 1
  /\ UNCHANGED <<money, quest, owned, streak, handler, repeats, history>>

\* The process stops or the database refuses a statement.
Abort(w) ==
  /\ pc[w] # "idle"
  /\ Finish(w)
  /\ UNCHANGED <<money, quest, owned, streak, clock, history>>

\* A reward that holds the wallet waits for a quest row, and the claim that
\* holds that row waits for the wallet: Postgres rolls one of them back.
DeadlockVictim(w) ==
  /\ \E r, c \in Worker :
       /\ pc[r] = "rewardCommit" /\ lock = r /\ pc[c] = "claimCommit" /\ seen[c].fresh
       /\ \E m \in Counts[job[r]] : Row(m, seen[r].day) = job[c] /\ ~seen[r].quest[m].completed
       /\ w \in {r, c}
  /\ Finish(w)
  /\ UNCHANGED <<money, quest, owned, streak, clock, history>>

Proceed(w) ==
  \/ RewardLock(w) \/ RewardCommit(w)
  \/ ClaimMark(w) \/ ClaimCommit(w)
  \/ CompleteMark(w) \/ EarnRead(w) \/ EarnWrite(w)
  \/ PurchaseCommit(w) \/ DeadlockVictim(w)

Request(w) ==
  \/ \E s \in Source : RewardStart(w, s)
  \/ \E m \in Mission : ClaimStart(w, m) \/ CompleteStart(w, m)
  \/ \E i \in Item : PurchaseStart(w, i)

Next ==
  \/ \E w \in Worker : Proceed(w) \/ Request(w) \/ Abort(w)
  \/ \E s \in Source : RewardRepeated(s)
  \/ \E n \in Award : AwardPoints(n)
  \/ NextDay

Spec == Init /\ [][Next]_vars

-----------------------------------------------------------------------------
(* Properties *)

\* "idempotent via Transaction.sourceKey": however often and however
\* concurrently an event is reported or a quest claimed, its reward is
\* committed once, and exactly when its key is recorded.  What the economy
\* service pays for a mission has no key and is not counted here.
PaidOncePerKey ==
  \A k \in Key : paid[k] = IF k \in ledger THEN 1 ELSE 0

\* User.points, kept by increments, is the sum of the XP rows and of what the
\* older routes gave without one.
PointsAreLedger == points = recorded.xp + unlisted.points

\* Coins and XP are what the rows and the economy service's unlisted XP add up
\* to, less what writes of stale values took away.
WalletIsLedger ==
  /\ wallet.coins = OpeningCoins + recorded.coins - lost.coins
  /\ wallet.xp = recorded.xp + unlisted.xp - lost.xp

\* A stale write takes from a balance only if that balance changed while the
\* request that wrote it held its reading; rewards alone never take coins.
LossIsOverlap ==
  /\ "coins" \notin overlapped => lost.coins = 0
  /\ "xp" \notin overlapped => lost.xp = 0

\* "Every coin/gem/XP change should ideally have a corresponding transaction
\* record": the exact difference between the balances and their rows.
BalancesAreSums == PointsAreLedger /\ WalletIsLedger /\ LossIsOverlap

\* "Not enough coins" is checked outside the purchase's transaction: the balance
\* is overdrawn by no more than the coins that left between another purchase's
\* check and its commit, so never by purchases made one after the other.
OverdraftIsOverlap == wallet.coins + unchecked >= 0

\* A double-clicked purchase takes the price once, and never without the item.
OwnedItemsArePaidOnce ==
  \A i \in Item : charges[i] = IF i \in owned THEN 1 ELSE 0

\* claimQuest: "Claim a completed quest once", its mark and its reward together.
ClaimedIsPaid ==
  \A q \in Quest : quest[q].claimed <=> q \in ledger

\* Rewards, items and quests are each paid once, and what is marked as bought or
\* claimed is what was paid.
PaidOnce == PaidOncePerKey /\ OwnedItemsArePaidOnce /\ ClaimedIsPaid

\* A daily quest's progress counts each event once, up to its target: no
\* concurrent reward is lost and none is counted twice.
QuestCountsEachOnce ==
  \A q \in Daily \X (1..MaxDay) :
    LET n == Cardinality(counted[q]) IN
    quest[q].progress = IF n < Target[q[1]] THEN n ELSE Target[q[1]]

\* touchStreak: the streak is the number of days in a row, up to the last
\* active one, on which the student was rewarded, and the longest one such run.
Run(d) == CHOOSE n \in 0..d :
            /\ \A e \in (d - n + 1)..d : e \in active
            /\ d - n \notin active
StreakIsRunOfDays ==
  IF active = {} THEN streak = NoStreak
  ELSE /\ streak.last \in active /\ \A d \in active : d <= streak.last
       /\ streak.count = Run(streak.last)
       /\ \A d \in active : Run(d) <= streak.longest
       /\ \E d \in active : Run(d) = streak.longest

\* Quests and streak count what a student did each day, unless an attempt or a
\* submission was reported again: that one skips the wallet and its lock, but
\* not the quests and the streak.
DaysAreCounted == repeats > 0 \/ (QuestCountsEachOnce /\ StreakIsRunOfDays)
=============================================================================
