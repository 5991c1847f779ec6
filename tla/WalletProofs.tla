---------------------------- MODULE WalletProofs ----------------------------
(***************************************************************************)
(* Wallet, for every set of sources, quests, items and requests and every  *)
(* bound: type correctness, the inductive invariant behind the ledger's    *)
(* properties, and those properties; then the invariant behind the daily   *)
(* quests and the streak, and what they count.                             *)
(* Between the two, what the balances can differ from their rows by.       *)
(***************************************************************************)
EXTENDS Wallet, FiniteSetTheorems, TLAPS

\* The wallet row is held by a reward about to commit, and until it commits
\* nobody else records its key.
LockIsHeld ==
  /\ lock # None => pc[lock] = "rewardCommit" /\ seen[lock].fresh
  /\ \A w \in Worker :
       pc[w] = "rewardCommit" /\ seen[w].fresh => lock = w /\ job[w] \notin ledger

\* A claim holds its quest row alone, so what it read of the key stays true.
ClaimIsAlone ==
  \A w \in Worker : pc[w] = "claimCommit" =>
    /\ seen[w].fresh <=> job[w] \notin ledger
    /\ \A v \in Worker \ {w} : pc[v] = "claimCommit" => job[v] # job[w]

IInv ==
  /\ TypeOK /\ LockIsHeld /\ ClaimIsAlone
  /\ PaidOncePerKey /\ PointsAreLedger
  /\ OwnedItemsArePaidOnce /\ ClaimedIsPaid

USE WalletAssumption

\* Levels are natural numbers under either curve.
LEMMA LevelsAreNat ==
  ASSUME NEW xp \in Nat
  PROVE  LevelFromXp(xp) \in Nat /\ LevelForXp(xp) \in Nat
<1>1. IsFiniteSet(1..xp)
  BY FS_Interval
<1>2. IsFiniteSet({n \in 1..xp : 100 * n * n <= xp})
  BY <1>1, FS_Subset
<1>3. Cardinality({n \in 1..xp : 100 * n * n <= xp}) \in Nat
  BY <1>2, FS_CardinalityType
<1> QED BY <1>3 DEF LevelFromXp, LevelForXp

\* A mission's row for a day is a quest row.
LEMMA RowIsQuest ==
  ASSUME NEW m \in Mission, NEW d \in Period
  PROVE  Row(m, d) \in Quest /\ EconomyRow(m) \in Quest
  BY DEF Row, EconomyRow, Quest, Period

\* What a request has read is typed.
LEMMA NothingSeenType == NothingSeen \in Seen
  BY DEF NothingSeen, Seen, Progress, NoStreak, Streak

LEMMA SeenFields ==
  ASSUME TypeOK, NEW w \in Worker
  PROVE  /\ seen[w].xp \in Nat /\ seen[w].coins \in Int /\ seen[w].fresh \in BOOLEAN
         /\ wallet.xp \in Nat /\ wallet.coins \in Int
         /\ recorded.xp \in Nat /\ recorded.coins \in Int
  BY DEF TypeOK, Seen

\* A write of the wallet leaves its history typed.
LEMMA WritesType ==
  ASSUME TypeOK, NEW w \in Worker, NEW coins \in Int, NEW xp \in Int,
         wallet' \in [coins : Int, xp : Nat, level : Nat], Writes(w, coins, xp)
  PROVE  /\ lost' \in [coins : Int, xp : Int] /\ overlapped' \subseteq {"coins", "xp"}
         /\ unchecked' \in Nat
<1>1. lost \in [coins : Int, xp : Int] /\ wallet \in [coins : Int, xp : Nat, level : Nat]
      /\ unchecked \in Nat /\ overlapped \subseteq {"coins", "xp"}
  BY DEF TypeOK
<1>2. lost' \in [coins : Int, xp : Int]
  BY <1>1 DEF Writes
<1>3. unchecked' \in Nat
  BY <1>1 DEF Writes
<1> QED BY <1>1, <1>2, <1>3 DEF Writes

\* Beginning a reward reads only.
LEMMA RewardStartKeeps == ASSUME IInv, NEW w \in Worker, NEW s \in Source, RewardStart(w, s) PROVE IInv'
<1> USE DEF IInv
<1>f. /\ seen[w].xp \in Nat /\ seen[w].coins \in Int /\ seen[w].fresh \in BOOLEAN
      /\ wallet.xp \in Nat /\ wallet.coins \in Int
      /\ recorded.xp \in Nat /\ recorded.coins \in Int
  BY SeenFields
<1> DEFINE read == [NothingSeen EXCEPT !.xp = wallet.xp, !.fresh = s \notin ledger]
<1>r. read \in Seen /\ (read.fresh <=> s \notin ledger)
  BY NothingSeenType, SeenFields DEF Seen
<1>s. seen' \in [Worker -> Seen] /\ seen'[w] = read /\ \A v \in Worker \ {w} : seen'[v] = seen[v]
  BY <1>r DEF RewardStart, Begin, Continue, TypeOK
<1> HIDE DEF read
<1>0. TypeOK'
  BY <1>f, <1>r, <1>s, SMTT(40) DEF TypeOK, Key, money, handler, clock, history, drift, vars, Begin, Continue, Finish, RewardStart
<1>1. LockIsHeld'
  BY <1>f, <1>r, <1>s, SMTT(40) DEF TypeOK, LockIsHeld, ClaimIsAlone, Key, money, handler, clock, history, drift, vars, Begin, Continue, Finish, RewardStart
<1>2. ClaimIsAlone'
  BY <1>f, <1>r, <1>s, SMTT(40) DEF TypeOK, LockIsHeld, ClaimIsAlone, Key, money, handler, clock, history, drift, vars, Begin, Continue, Finish, RewardStart
<1>3. PaidOncePerKey'
  BY <1>f, <1>r, <1>s, SMTT(40) DEF TypeOK, LockIsHeld, ClaimIsAlone, PaidOncePerKey, Key, money, handler, clock, history, drift, vars, Begin, Continue, Finish, RewardStart
<1>4. PointsAreLedger'
  BY <1>f, <1>r, <1>s, SMTT(40) DEF TypeOK, LockIsHeld, ClaimIsAlone, PointsAreLedger, Key, money, handler, clock, history, drift, vars, Begin, Continue, Finish, RewardStart
<1>5. OwnedItemsArePaidOnce'
  BY <1>f, <1>r, <1>s, SMTT(40) DEF TypeOK, LockIsHeld, ClaimIsAlone, OwnedItemsArePaidOnce, Key, money, handler, clock, history, drift, vars, Begin, Continue, Finish, RewardStart
<1>6. ClaimedIsPaid'
  BY <1>f, <1>r, <1>s, SMTT(40) DEF TypeOK, LockIsHeld, ClaimIsAlone, ClaimedIsPaid, Key, money, handler, clock, history, drift, vars, Begin, Continue, Finish, RewardStart
<1> QED BY <1>0, <1>1, <1>2, <1>3, <1>4, <1>5, <1>6

\* Taking the wallet row: a key recorded meanwhile ends the transaction.
LEMMA RewardLockKeeps == ASSUME IInv, NEW w \in Worker, RewardLock(w) PROVE IInv'
<1> USE DEF IInv
<1>f. /\ seen[w].xp \in Nat /\ seen[w].coins \in Int /\ seen[w].fresh \in BOOLEAN
      /\ wallet.xp \in Nat /\ wallet.coins \in Int
      /\ recorded.xp \in Nat /\ recorded.coins \in Int
  BY SeenFields
<1>y. seen[w] \in Seen /\ day \in 1..MaxDay /\ streak \in Streak
  BY DEF TypeOK
<1>q. [m \in Mission |-> quest[Row(m, day)]] \in [Mission -> Progress]
  BY RowIsQuest DEF TypeOK, Period
<1> DEFINE read == [seen[w] EXCEPT !.day = day, !.streak = streak,
                    !.quest = [m \in Mission |-> quest[Row(m, day)]]]
<1>r. read \in Seen /\ (read.fresh <=> seen[w].fresh)
  BY <1>q, <1>y DEF Seen
<1>s. seen' \in [Worker -> Seen] /\ (pc'[w] # "idle" => seen'[w] = read)
  BY <1>r, NothingSeenType DEF RewardLock, Continue, Finish, TypeOK
<1> HIDE DEF read
<1>0. TypeOK'
  BY <1>f, <1>r, <1>s, SMTT(40) DEF TypeOK, Key, money, handler, clock, history, drift, vars, Begin, Continue, Finish, RewardLock, Row
<1>1. LockIsHeld'
  BY <1>f, <1>r, <1>s, SMTT(40) DEF TypeOK, LockIsHeld, ClaimIsAlone, Key, money, handler, clock, history, drift, vars, Begin, Continue, Finish, RewardLock, Row
<1>2. ClaimIsAlone'
  BY <1>f, <1>r, <1>s, SMTT(40) DEF TypeOK, LockIsHeld, ClaimIsAlone, Key, money, handler, clock, history, drift, vars, Begin, Continue, Finish, RewardLock, Row
<1>3. PaidOncePerKey'
  BY <1>f, <1>r, <1>s, SMTT(40) DEF TypeOK, LockIsHeld, ClaimIsAlone, PaidOncePerKey, Key, money, handler, clock, history, drift, vars, Begin, Continue, Finish, RewardLock, Row
<1>4. PointsAreLedger'
  BY <1>f, <1>r, <1>s, SMTT(40) DEF TypeOK, LockIsHeld, ClaimIsAlone, PointsAreLedger, Key, money, handler, clock, history, drift, vars, Begin, Continue, Finish, RewardLock, Row
<1>5. OwnedItemsArePaidOnce'
  BY <1>f, <1>r, <1>s, SMTT(40) DEF TypeOK, LockIsHeld, ClaimIsAlone, OwnedItemsArePaidOnce, Key, money, handler, clock, history, drift, vars, Begin, Continue, Finish, RewardLock, Row
<1>6. ClaimedIsPaid'
  BY <1>f, <1>r, <1>s, SMTT(40) DEF TypeOK, LockIsHeld, ClaimIsAlone, ClaimedIsPaid, Key, money, handler, clock, history, drift, vars, Begin, Continue, Finish, RewardLock, Row
<1> QED BY <1>0, <1>1, <1>2, <1>3, <1>4, <1>5, <1>6

\* A claim starts with a read.
LEMMA ClaimStartKeeps == ASSUME IInv, NEW w \in Worker, NEW m \in Mission, ClaimStart(w, m) PROVE IInv'
<1> USE DEF IInv
<1>f. /\ seen[w].xp \in Nat /\ seen[w].coins \in Int /\ seen[w].fresh \in BOOLEAN
      /\ wallet.xp \in Nat /\ wallet.coins \in Int
      /\ recorded.xp \in Nat /\ recorded.coins \in Int
  BY SeenFields
<1>q. Row(m, day) \in Quest
  BY RowIsQuest DEF TypeOK, Period
<1>s. seen' \in [Worker -> Seen]
  BY NothingSeenType DEF ClaimStart, Begin, Continue, Finish, TypeOK, history, handler
<1>0. TypeOK'
  BY <1>f, <1>s, <1>q, SMTT(40) DEF TypeOK, Key, money, handler, clock, history, drift, vars, Begin, Continue, Finish, ClaimStart
<1>1. LockIsHeld'
  BY <1>f, <1>s, <1>q, SMTT(40) DEF TypeOK, LockIsHeld, ClaimIsAlone, Key, money, handler, clock, history, drift, vars, Begin, Continue, Finish, ClaimStart
<1>2. ClaimIsAlone'
  BY <1>f, <1>s, <1>q, SMTT(40) DEF TypeOK, LockIsHeld, ClaimIsAlone, Key, money, handler, clock, history, drift, vars, Begin, Continue, Finish, ClaimStart
<1>3. PaidOncePerKey'
  BY <1>f, <1>s, <1>q, SMTT(40) DEF TypeOK, LockIsHeld, ClaimIsAlone, PaidOncePerKey, Key, money, handler, clock, history, drift, vars, Begin, Continue, Finish, ClaimStart
<1>4. PointsAreLedger'
  BY <1>f, <1>s, <1>q, SMTT(40) DEF TypeOK, LockIsHeld, ClaimIsAlone, PointsAreLedger, Key, money, handler, clock, history, drift, vars, Begin, Continue, Finish, ClaimStart
<1>5. OwnedItemsArePaidOnce'
  BY <1>f, <1>s, <1>q, SMTT(40) DEF TypeOK, LockIsHeld, ClaimIsAlone, OwnedItemsArePaidOnce, Key, money, handler, clock, history, drift, vars, Begin, Continue, Finish, ClaimStart
<1>6. ClaimedIsPaid'
  BY <1>f, <1>s, <1>q, SMTT(40) DEF TypeOK, LockIsHeld, ClaimIsAlone, ClaimedIsPaid, Key, money, handler, clock, history, drift, vars, Begin, Continue, Finish, ClaimStart
<1> QED BY <1>0, <1>1, <1>2, <1>3, <1>4, <1>5, <1>6

\* The claim takes its row.
LEMMA ClaimMarkKeeps == ASSUME IInv, NEW w \in Worker, ClaimMark(w) PROVE IInv'
<1> USE DEF IInv
<1>f. /\ seen[w].xp \in Nat /\ seen[w].coins \in Int /\ seen[w].fresh \in BOOLEAN
      /\ wallet.xp \in Nat /\ wallet.coins \in Int
      /\ recorded.xp \in Nat /\ recorded.coins \in Int
  BY SeenFields
<1> DEFINE read == [NothingSeen EXCEPT !.xp = wallet.xp, !.fresh = job[w] \notin ledger]
<1>r. read \in Seen /\ (read.fresh <=> job[w] \notin ledger)
  BY NothingSeenType, SeenFields DEF Seen
<1>s. seen' \in [Worker -> Seen] /\ seen'[w] = read /\ \A v \in Worker \ {w} : seen'[v] = seen[v]
  BY <1>r DEF ClaimMark, Begin, Continue, TypeOK
<1> HIDE DEF read
<1>0. TypeOK'
  BY <1>f, <1>r, <1>s, SMTT(40) DEF TypeOK, Key, money, handler, clock, history, drift, vars, Begin, Continue, Finish, ClaimMark, RowHeld
<1>1. LockIsHeld'
  BY <1>f, <1>r, <1>s, SMTT(40) DEF TypeOK, LockIsHeld, ClaimIsAlone, Key, money, handler, clock, history, drift, vars, Begin, Continue, Finish, ClaimMark, RowHeld
<1>2. ClaimIsAlone'
  <2> SUFFICES ASSUME NEW v \in Worker, pc'[v] = "claimCommit"
               PROVE  /\ seen'[v].fresh <=> job'[v] \notin ledger'
                      /\ \A x \in Worker \ {v} : pc'[x] = "claimCommit" => job'[x] # job'[v]
    BY DEF ClaimIsAlone
  <2>1. job' = job /\ ledger' = ledger /\ ~RowHeld(job[w])
    BY DEF ClaimMark, Continue, money
  <2>2. \A x \in Worker \ {w} : pc'[x] = pc[x]
    BY DEF ClaimMark, Continue, TypeOK
  <2>3. CASE v = w
    BY <1>s, <1>r, <2>1, <2>2, <2>3 DEF RowHeld
  <2>4. CASE v # w
    BY <1>s, <2>1, <2>2, <2>4 DEF RowHeld, ClaimIsAlone
  <2> QED BY <2>3, <2>4
<1>3. PaidOncePerKey'
  BY <1>f, <1>r, <1>s, SMTT(40) DEF TypeOK, LockIsHeld, ClaimIsAlone, PaidOncePerKey, Key, money, handler, clock, history, drift, vars, Begin, Continue, Finish, ClaimMark, RowHeld
<1>4. PointsAreLedger'
  BY <1>f, <1>r, <1>s, SMTT(40) DEF TypeOK, LockIsHeld, ClaimIsAlone, PointsAreLedger, Key, money, handler, clock, history, drift, vars, Begin, Continue, Finish, ClaimMark, RowHeld
<1>5. OwnedItemsArePaidOnce'
  BY <1>f, <1>r, <1>s, SMTT(40) DEF TypeOK, LockIsHeld, ClaimIsAlone, OwnedItemsArePaidOnce, Key, money, handler, clock, history, drift, vars, Begin, Continue, Finish, ClaimMark, RowHeld
<1>6. ClaimedIsPaid'
  BY <1>f, <1>r, <1>s, SMTT(40) DEF TypeOK, LockIsHeld, ClaimIsAlone, ClaimedIsPaid, Key, money, handler, clock, history, drift, vars, Begin, Continue, Finish, ClaimMark, RowHeld
<1> QED BY <1>0, <1>1, <1>2, <1>3, <1>4, <1>5, <1>6

\* The mark and the reward commit together.
LEMMA ClaimCommitKeeps == ASSUME IInv, NEW w \in Worker, ClaimCommit(w) PROVE IInv'
<1> USE DEF IInv
<1>f. /\ seen[w].xp \in Nat /\ seen[w].coins \in Int /\ seen[w].fresh \in BOOLEAN
      /\ wallet.xp \in Nat /\ wallet.coins \in Int
      /\ recorded.xp \in Nat /\ recorded.coins \in Int
  BY SeenFields
<1>j. job[w] \in Quest /\ quest[job[w]] \in Progress /\ job[w] \in Key
  BY DEF ClaimCommit, TypeOK, Key
<1>q. /\ quest' \in [Quest -> Progress] /\ quest'[job[w]].claimed
      /\ \A q \in Quest : q # job[w] => quest'[q].claimed = quest[q].claimed
  BY <1>j DEF ClaimCommit, TypeOK, Progress
<1>c. QuestXp[job[w][1]] \in Nat /\ QuestCoins[job[w][1]] \in Nat
  BY <1>j DEF Quest
<1>w. /\ wallet' \in [coins : Int, xp : Nat, level : Nat] /\ recorded' \in [coins : Int, xp : Nat]
      /\ wallet'.coins - wallet.coins = recorded'.coins - recorded.coins
  <2>1. CASE seen[w].fresh
    <3>1. seen[w].xp + QuestXp[job[w][1]] \in Nat
      BY <1>f, <1>c
    <3>2. LevelFromXp(seen[w].xp + QuestXp[job[w][1]]) \in Nat
      BY <3>1, LevelsAreNat
    <3> QED BY <1>f, <1>c, <2>1, <3>1, <3>2 DEF ClaimCommit, Grant
  <2>2. CASE ~seen[w].fresh
    BY <1>f, <2>2 DEF ClaimCommit, TypeOK, money
  <2> QED BY <1>f, <2>1, <2>2
<1>t. /\ lost' \in [coins : Int, xp : Int] /\ overlapped' \subseteq {"coins", "xp"}
      /\ unchecked' \in Nat
  <2>1. CASE Writes(w, wallet.coins, seen[w].xp)
    BY <1>f, <1>w, <2>1, WritesType
  <2>2. CASE UNCHANGED drift
    BY <2>2 DEF drift, TypeOK
  <2> QED BY <2>1, <2>2 DEF ClaimCommit, Grant
<1>s. seen' \in [Worker -> Seen]
  BY NothingSeenType DEF ClaimCommit, Begin, Continue, Finish, TypeOK, history, handler
<1>p. points' \in Nat /\ paid' \in [Key -> Nat] /\ ledger' \subseteq Key
  BY <1>f, <1>j, <1>c DEF ClaimCommit, Grant, TypeOK, money
<1>v. Finish(w) /\ UNCHANGED <<owned, streak, day, repeats, charges, counted, active, unlisted>>
  BY DEF ClaimCommit, clock
<1>0. TypeOK'
  BY <1>p, <1>q, <1>s, <1>t, <1>v, <1>w DEF TypeOK, Finish
<1>1. LockIsHeld'
  BY <1>f, <1>s, <1>j, <1>q, <1>c, <1>w, SMTT(40) DEF TypeOK, LockIsHeld, ClaimIsAlone, Key, money, handler, clock, history, drift, vars, Begin, Continue, Finish, ClaimCommit, Grant
<1>2. ClaimIsAlone'
  BY <1>f, <1>s, <1>j, <1>q, <1>c, <1>w, SMTT(40) DEF TypeOK, LockIsHeld, ClaimIsAlone, Key, money, handler, clock, history, drift, vars, Begin, Continue, Finish, ClaimCommit, Grant
<1>3. PaidOncePerKey'
  BY <1>f, <1>s, <1>j, <1>q, <1>c, <1>w, SMTT(40) DEF TypeOK, LockIsHeld, ClaimIsAlone, PaidOncePerKey, Key, money, handler, clock, history, drift, vars, Begin, Continue, Finish, ClaimCommit, Grant
<1>4. PointsAreLedger'
  BY <1>f, <1>s, <1>j, <1>q, <1>c, <1>w, SMTT(40) DEF TypeOK, LockIsHeld, ClaimIsAlone, PointsAreLedger, Key, money, handler, clock, history, drift, vars, Begin, Continue, Finish, ClaimCommit, Grant
<1>5. OwnedItemsArePaidOnce'
  BY <1>f, <1>s, <1>j, <1>q, <1>c, <1>w, SMTT(40) DEF TypeOK, LockIsHeld, ClaimIsAlone, OwnedItemsArePaidOnce, Key, money, handler, clock, history, drift, vars, Begin, Continue, Finish, ClaimCommit, Grant
<1>6. ClaimedIsPaid'
  BY <1>f, <1>s, <1>j, <1>q, <1>c, <1>w, SMTT(40) DEF TypeOK, LockIsHeld, ClaimIsAlone, ClaimedIsPaid, Key, money, handler, clock, history, drift, vars, Begin, Continue, Finish, ClaimCommit, Grant
<1> QED BY <1>0, <1>1, <1>2, <1>3, <1>4, <1>5, <1>6

\* Completing a mission starts with a read.
LEMMA CompleteStartKeeps == ASSUME IInv, NEW w \in Worker, NEW m \in Mission, CompleteStart(w, m) PROVE IInv'
<1> USE DEF IInv
<1>f. /\ seen[w].xp \in Nat /\ seen[w].coins \in Int /\ seen[w].fresh \in BOOLEAN
      /\ wallet.xp \in Nat /\ wallet.coins \in Int
      /\ recorded.xp \in Nat /\ recorded.coins \in Int
  BY SeenFields
<1>q. EconomyRow(m) \in Quest
  BY RowIsQuest DEF TypeOK, Period
<1>s. seen' \in [Worker -> Seen]
  BY NothingSeenType DEF CompleteStart, Begin, Continue, Finish, TypeOK, history, handler
<1>0. TypeOK'
  BY <1>f, <1>s, <1>q, SMTT(40) DEF TypeOK, Key, money, handler, clock, history, drift, vars, Begin, Continue, Finish, CompleteStart
<1>1. LockIsHeld'
  BY <1>f, <1>s, <1>q, SMTT(40) DEF TypeOK, LockIsHeld, ClaimIsAlone, Key, money, handler, clock, history, drift, vars, Begin, Continue, Finish, CompleteStart
<1>2. ClaimIsAlone'
  BY <1>f, <1>s, <1>q, SMTT(40) DEF TypeOK, LockIsHeld, ClaimIsAlone, Key, money, handler, clock, history, drift, vars, Begin, Continue, Finish, CompleteStart
<1>3. PaidOncePerKey'
  BY <1>f, <1>s, <1>q, SMTT(40) DEF TypeOK, LockIsHeld, ClaimIsAlone, PaidOncePerKey, Key, money, handler, clock, history, drift, vars, Begin, Continue, Finish, CompleteStart
<1>4. PointsAreLedger'
  BY <1>f, <1>s, <1>q, SMTT(40) DEF TypeOK, LockIsHeld, ClaimIsAlone, PointsAreLedger, Key, money, handler, clock, history, drift, vars, Begin, Continue, Finish, CompleteStart
<1>5. OwnedItemsArePaidOnce'
  BY <1>f, <1>s, <1>q, SMTT(40) DEF TypeOK, LockIsHeld, ClaimIsAlone, OwnedItemsArePaidOnce, Key, money, handler, clock, history, drift, vars, Begin, Continue, Finish, CompleteStart
<1>6. ClaimedIsPaid'
  BY <1>f, <1>s, <1>q, SMTT(40) DEF TypeOK, LockIsHeld, ClaimIsAlone, ClaimedIsPaid, Key, money, handler, clock, history, drift, vars, Begin, Continue, Finish, CompleteStart
<1> QED BY <1>0, <1>1, <1>2, <1>3, <1>4, <1>5, <1>6

\* The quest row is completed; nothing is paid.
LEMMA CompleteMarkKeeps == ASSUME IInv, NEW w \in Worker, CompleteMark(w) PROVE IInv'
<1> USE DEF IInv
<1>f. /\ seen[w].xp \in Nat /\ seen[w].coins \in Int /\ seen[w].fresh \in BOOLEAN
      /\ wallet.xp \in Nat /\ wallet.coins \in Int
      /\ recorded.xp \in Nat /\ recorded.coins \in Int
  BY SeenFields
<1>j. job[w] \in Quest /\ quest[job[w]] \in Progress
  BY DEF CompleteMark, TypeOK
<1>q. quest' \in [Quest -> Progress] /\ \A q \in Quest : quest'[q].claimed = quest[q].claimed
  BY <1>j DEF CompleteMark, TypeOK, Progress
<1>s. seen' \in [Worker -> Seen]
  BY NothingSeenType DEF CompleteMark, Begin, Continue, Finish, TypeOK, history, handler
<1>0. TypeOK'
  BY <1>f, <1>s, <1>j, <1>q, SMTT(40) DEF TypeOK, Key, money, handler, clock, history, drift, vars, Begin, Continue, Finish, CompleteMark, RowHeld
<1>1. LockIsHeld'
  BY <1>f, <1>s, <1>j, <1>q, SMTT(40) DEF TypeOK, LockIsHeld, ClaimIsAlone, Key, money, handler, clock, history, drift, vars, Begin, Continue, Finish, CompleteMark, RowHeld
<1>2. ClaimIsAlone'
  BY <1>f, <1>s, <1>j, <1>q, SMTT(40) DEF TypeOK, LockIsHeld, ClaimIsAlone, Key, money, handler, clock, history, drift, vars, Begin, Continue, Finish, CompleteMark, RowHeld
<1>3. PaidOncePerKey'
  BY <1>f, <1>s, <1>j, <1>q, SMTT(40) DEF TypeOK, LockIsHeld, ClaimIsAlone, PaidOncePerKey, Key, money, handler, clock, history, drift, vars, Begin, Continue, Finish, CompleteMark, RowHeld
<1>4. PointsAreLedger'
  BY <1>f, <1>s, <1>j, <1>q, SMTT(40) DEF TypeOK, LockIsHeld, ClaimIsAlone, PointsAreLedger, Key, money, handler, clock, history, drift, vars, Begin, Continue, Finish, CompleteMark, RowHeld
<1>5. OwnedItemsArePaidOnce'
  BY <1>f, <1>s, <1>j, <1>q, SMTT(40) DEF TypeOK, LockIsHeld, ClaimIsAlone, OwnedItemsArePaidOnce, Key, money, handler, clock, history, drift, vars, Begin, Continue, Finish, CompleteMark, RowHeld
<1>6. ClaimedIsPaid'
  BY <1>f, <1>s, <1>j, <1>q, SMTT(40) DEF TypeOK, LockIsHeld, ClaimIsAlone, ClaimedIsPaid, Key, money, handler, clock, history, drift, vars, Begin, Continue, Finish, CompleteMark, RowHeld
<1> QED BY <1>0, <1>1, <1>2, <1>3, <1>4, <1>5, <1>6

\* earn reads the wallet.
LEMMA EarnReadKeeps == ASSUME IInv, NEW w \in Worker, EarnRead(w) PROVE IInv'
<1> USE DEF IInv
<1>f. /\ seen[w].xp \in Nat /\ seen[w].coins \in Int /\ seen[w].fresh \in BOOLEAN
      /\ wallet.xp \in Nat /\ wallet.coins \in Int
      /\ recorded.xp \in Nat /\ recorded.coins \in Int
  BY SeenFields
<1>y. seen[w] \in Seen /\ day \in 1..MaxDay /\ streak \in Streak
  BY DEF TypeOK
<1> DEFINE read == [seen[w] EXCEPT !.xp = wallet.xp, !.coins = wallet.coins]
<1>r. read \in Seen /\ (read.fresh <=> seen[w].fresh)
  BY <1>f, <1>y DEF Seen
<1>s. seen' \in [Worker -> Seen] /\ seen'[w] = read /\ \A v \in Worker \ {w} : seen'[v] = seen[v]
  BY <1>r DEF EarnRead, Begin, Continue, TypeOK
<1> HIDE DEF read
<1>0. TypeOK'
  BY <1>f, <1>r, <1>s, SMTT(40) DEF TypeOK, Key, money, handler, clock, history, drift, vars, Begin, Continue, Finish, EarnRead
<1>1. LockIsHeld'
  BY <1>f, <1>r, <1>s, SMTT(40) DEF TypeOK, LockIsHeld, ClaimIsAlone, Key, money, handler, clock, history, drift, vars, Begin, Continue, Finish, EarnRead
<1>2. ClaimIsAlone'
  BY <1>f, <1>r, <1>s, SMTT(40) DEF TypeOK, LockIsHeld, ClaimIsAlone, Key, money, handler, clock, history, drift, vars, Begin, Continue, Finish, EarnRead
<1>3. PaidOncePerKey'
  BY <1>f, <1>r, <1>s, SMTT(40) DEF TypeOK, LockIsHeld, ClaimIsAlone, PaidOncePerKey, Key, money, handler, clock, history, drift, vars, Begin, Continue, Finish, EarnRead
<1>4. PointsAreLedger'
  BY <1>f, <1>r, <1>s, SMTT(40) DEF TypeOK, LockIsHeld, ClaimIsAlone, PointsAreLedger, Key, money, handler, clock, history, drift, vars, Begin, Continue, Finish, EarnRead
<1>5. OwnedItemsArePaidOnce'
  BY <1>f, <1>r, <1>s, SMTT(40) DEF TypeOK, LockIsHeld, ClaimIsAlone, OwnedItemsArePaidOnce, Key, money, handler, clock, history, drift, vars, Begin, Continue, Finish, EarnRead
<1>6. ClaimedIsPaid'
  BY <1>f, <1>r, <1>s, SMTT(40) DEF TypeOK, LockIsHeld, ClaimIsAlone, ClaimedIsPaid, Key, money, handler, clock, history, drift, vars, Begin, Continue, Finish, EarnRead
<1> QED BY <1>0, <1>1, <1>2, <1>3, <1>4, <1>5, <1>6

\* earn writes absolute values.
LEMMA EarnWriteKeeps == ASSUME IInv, NEW w \in Worker, EarnWrite(w) PROVE IInv'
<1> USE DEF IInv
<1>f. /\ seen[w].xp \in Nat /\ seen[w].coins \in Int /\ seen[w].fresh \in BOOLEAN
      /\ wallet.xp \in Nat /\ wallet.coins \in Int
      /\ recorded.xp \in Nat /\ recorded.coins \in Int
  BY SeenFields
<1>j. job[w] \in Quest
  BY DEF EarnWrite, TypeOK
<1>c. QuestXp[job[w][1]] \in Nat /\ QuestCoins[job[w][1]] \in Nat
  BY <1>j DEF Quest
<1>w. /\ wallet' \in [coins : Int, xp : Nat, level : Nat] /\ recorded' \in [coins : Int, xp : Nat]
      /\ wallet'.coins = seen[w].coins + QuestCoins[job[w][1]]
      /\ recorded'.coins = recorded.coins + QuestCoins[job[w][1]] /\ recorded'.xp = recorded.xp
  <2>1. recorded \in [coins : Int, xp : Nat]
    BY DEF TypeOK
  <2> QED BY <1>f, <1>c, <2>1, LevelsAreNat DEF EarnWrite
<1>t. /\ lost' \in [coins : Int, xp : Int] /\ overlapped' \subseteq {"coins", "xp"}
      /\ unchecked' \in Nat
  BY <1>f, <1>w, WritesType DEF EarnWrite
<1>u. unlisted' \in [points : Nat, xp : Nat] /\ unlisted'.points = unlisted.points
  BY <1>c DEF EarnWrite, TypeOK
<1>s. seen' \in [Worker -> Seen]
  BY NothingSeenType DEF EarnWrite, Begin, Continue, Finish, TypeOK, history, handler
<1>0. TypeOK'
  BY <1>f, <1>s, <1>j, <1>c, <1>w, <1>t, <1>u, SMTT(40) DEF TypeOK, Key, money, handler, clock, history, drift, vars, Begin, Continue, Finish, EarnWrite
<1>1. LockIsHeld'
  BY <1>f, <1>s, <1>j, <1>c, <1>w, <1>t, <1>u, SMTT(40) DEF TypeOK, LockIsHeld, ClaimIsAlone, Key, money, handler, clock, history, drift, vars, Begin, Continue, Finish, EarnWrite
<1>2. ClaimIsAlone'
  BY <1>f, <1>s, <1>j, <1>c, <1>w, <1>t, <1>u, SMTT(40) DEF TypeOK, LockIsHeld, ClaimIsAlone, Key, money, handler, clock, history, drift, vars, Begin, Continue, Finish, EarnWrite
<1>3. PaidOncePerKey'
  BY <1>f, <1>s, <1>j, <1>c, <1>w, <1>t, <1>u, SMTT(40) DEF TypeOK, LockIsHeld, ClaimIsAlone, PaidOncePerKey, Key, money, handler, clock, history, drift, vars, Begin, Continue, Finish, EarnWrite
<1>4. PointsAreLedger'
  BY <1>f, <1>s, <1>j, <1>c, <1>w, <1>t, <1>u, SMTT(40) DEF TypeOK, LockIsHeld, ClaimIsAlone, PointsAreLedger, Key, money, handler, clock, history, drift, vars, Begin, Continue, Finish, EarnWrite
<1>5. OwnedItemsArePaidOnce'
  BY <1>f, <1>s, <1>j, <1>c, <1>w, <1>t, <1>u, SMTT(40) DEF TypeOK, LockIsHeld, ClaimIsAlone, OwnedItemsArePaidOnce, Key, money, handler, clock, history, drift, vars, Begin, Continue, Finish, EarnWrite
<1>6. ClaimedIsPaid'
  BY <1>f, <1>s, <1>j, <1>c, <1>w, <1>t, <1>u, SMTT(40) DEF TypeOK, LockIsHeld, ClaimIsAlone, ClaimedIsPaid, Key, money, handler, clock, history, drift, vars, Begin, Continue, Finish, EarnWrite
<1> QED BY <1>0, <1>1, <1>2, <1>3, <1>4, <1>5, <1>6

\* A purchase checks before its transaction.
LEMMA PurchaseStartKeeps == ASSUME IInv, NEW w \in Worker, NEW i \in Item, PurchaseStart(w, i) PROVE IInv'
<1> USE DEF IInv
<1>f. /\ seen[w].xp \in Nat /\ seen[w].coins \in Int /\ seen[w].fresh \in BOOLEAN
      /\ wallet.xp \in Nat /\ wallet.coins \in Int
      /\ recorded.xp \in Nat /\ recorded.coins \in Int
  BY SeenFields
<1>s. seen' \in [Worker -> Seen]
  BY NothingSeenType DEF PurchaseStart, Begin, Continue, Finish, TypeOK, history, handler
<1>0. TypeOK'
  BY <1>f, <1>s, SMTT(40) DEF TypeOK, Key, money, handler, clock, history, drift, vars, Begin, Continue, Finish, PurchaseStart
<1>1. LockIsHeld'
  BY <1>f, <1>s, SMTT(40) DEF TypeOK, LockIsHeld, ClaimIsAlone, Key, money, handler, clock, history, drift, vars, Begin, Continue, Finish, PurchaseStart
<1>2. ClaimIsAlone'
  BY <1>f, <1>s, SMTT(40) DEF TypeOK, LockIsHeld, ClaimIsAlone, Key, money, handler, clock, history, drift, vars, Begin, Continue, Finish, PurchaseStart
<1>3. PaidOncePerKey'
  BY <1>f, <1>s, SMTT(40) DEF TypeOK, LockIsHeld, ClaimIsAlone, PaidOncePerKey, Key, money, handler, clock, history, drift, vars, Begin, Continue, Finish, PurchaseStart
<1>4. PointsAreLedger'
  BY <1>f, <1>s, SMTT(40) DEF TypeOK, LockIsHeld, ClaimIsAlone, PointsAreLedger, Key, money, handler, clock, history, drift, vars, Begin, Continue, Finish, PurchaseStart
<1>5. OwnedItemsArePaidOnce'
  BY <1>f, <1>s, SMTT(40) DEF TypeOK, LockIsHeld, ClaimIsAlone, OwnedItemsArePaidOnce, Key, money, handler, clock, history, drift, vars, Begin, Continue, Finish, PurchaseStart
<1>6. ClaimedIsPaid'
  BY <1>f, <1>s, SMTT(40) DEF TypeOK, LockIsHeld, ClaimIsAlone, ClaimedIsPaid, Key, money, handler, clock, history, drift, vars, Begin, Continue, Finish, PurchaseStart
<1> QED BY <1>0, <1>1, <1>2, <1>3, <1>4, <1>5, <1>6

\* The price, its row and the item commit together or not at all.
LEMMA PurchaseCommitKeeps == ASSUME IInv, NEW w \in Worker, PurchaseCommit(w) PROVE IInv'
<1> USE DEF IInv
<1>f. /\ seen[w].xp \in Nat /\ seen[w].coins \in Int /\ seen[w].fresh \in BOOLEAN
      /\ wallet.xp \in Nat /\ wallet.coins \in Int
      /\ recorded.xp \in Nat /\ recorded.coins \in Int
  BY SeenFields
<1>w. /\ wallet' \in [coins : Int, xp : Nat, level : Nat] /\ recorded' \in [coins : Int, xp : Nat]
      /\ recorded'.xp = recorded.xp
  <2>1. job[w] \in Item /\ wallet \in [coins : Int, xp : Nat, level : Nat]
        /\ recorded \in [coins : Int, xp : Nat]
    BY DEF PurchaseCommit, TypeOK
  <2> QED BY <2>1 DEF PurchaseCommit
<1>t. /\ lost' \in [coins : Int, xp : Int] /\ overlapped' \subseteq {"coins", "xp"}
      /\ unchecked' \in Nat
  <2>1. CASE Writes(w, wallet.coins, wallet.xp)
    BY <1>f, <1>w, <2>1, WritesType
  <2>2. CASE UNCHANGED drift
    BY <2>2 DEF drift, TypeOK
  <2> QED BY <2>1, <2>2 DEF PurchaseCommit
<1>s. seen' \in [Worker -> Seen]
  BY NothingSeenType DEF PurchaseCommit, Begin, Continue, Finish, TypeOK, history, handler
<1>0. TypeOK'
  BY <1>f, <1>s, <1>w, <1>t, SMTT(40) DEF TypeOK, Key, money, handler, clock, history, drift, vars, Begin, Continue, Finish, PurchaseCommit
<1>1. LockIsHeld'
  BY <1>f, <1>s, <1>w, <1>t, SMTT(40) DEF TypeOK, LockIsHeld, ClaimIsAlone, Key, money, handler, clock, history, drift, vars, Begin, Continue, Finish, PurchaseCommit
<1>2. ClaimIsAlone'
  BY <1>f, <1>s, <1>w, <1>t, SMTT(40) DEF TypeOK, LockIsHeld, ClaimIsAlone, Key, money, handler, clock, history, drift, vars, Begin, Continue, Finish, PurchaseCommit
<1>3. PaidOncePerKey'
  BY <1>f, <1>s, <1>w, <1>t, SMTT(40) DEF TypeOK, LockIsHeld, ClaimIsAlone, PaidOncePerKey, Key, money, handler, clock, history, drift, vars, Begin, Continue, Finish, PurchaseCommit
<1>4. PointsAreLedger'
  BY <1>f, <1>s, <1>w, <1>t, SMTT(40) DEF TypeOK, LockIsHeld, ClaimIsAlone, PointsAreLedger, Key, money, handler, clock, history, drift, vars, Begin, Continue, Finish, PurchaseCommit
<1>5. OwnedItemsArePaidOnce'
  BY <1>f, <1>s, <1>w, <1>t, SMTT(40) DEF TypeOK, LockIsHeld, ClaimIsAlone, OwnedItemsArePaidOnce, Key, money, handler, clock, history, drift, vars, Begin, Continue, Finish, PurchaseCommit
<1>6. ClaimedIsPaid'
  BY <1>f, <1>s, <1>w, <1>t, SMTT(40) DEF TypeOK, LockIsHeld, ClaimIsAlone, ClaimedIsPaid, Key, money, handler, clock, history, drift, vars, Begin, Continue, Finish, PurchaseCommit
<1> QED BY <1>0, <1>1, <1>2, <1>3, <1>4, <1>5, <1>6

\* A rolled back request leaves nothing behind.
LEMMA AbortKeeps == ASSUME IInv, NEW w \in Worker, Abort(w) PROVE IInv'
<1> USE DEF IInv
<1>f. /\ seen[w].xp \in Nat /\ seen[w].coins \in Int /\ seen[w].fresh \in BOOLEAN
      /\ wallet.xp \in Nat /\ wallet.coins \in Int
      /\ recorded.xp \in Nat /\ recorded.coins \in Int
  BY SeenFields
<1>s. seen' \in [Worker -> Seen]
  BY NothingSeenType DEF Abort, Begin, Continue, Finish, TypeOK, history, handler
<1>0. TypeOK'
  BY <1>f, <1>s, SMTT(40) DEF TypeOK, Key, money, handler, clock, history, drift, vars, Begin, Continue, Finish, Abort
<1>1. LockIsHeld'
  BY <1>f, <1>s, SMTT(40) DEF TypeOK, LockIsHeld, ClaimIsAlone, Key, money, handler, clock, history, drift, vars, Begin, Continue, Finish, Abort
<1>2. ClaimIsAlone'
  BY <1>f, <1>s, SMTT(40) DEF TypeOK, LockIsHeld, ClaimIsAlone, Key, money, handler, clock, history, drift, vars, Begin, Continue, Finish, Abort
<1>3. PaidOncePerKey'
  BY <1>f, <1>s, SMTT(40) DEF TypeOK, LockIsHeld, ClaimIsAlone, PaidOncePerKey, Key, money, handler, clock, history, drift, vars, Begin, Continue, Finish, Abort
<1>4. PointsAreLedger'
  BY <1>f, <1>s, SMTT(40) DEF TypeOK, LockIsHeld, ClaimIsAlone, PointsAreLedger, Key, money, handler, clock, history, drift, vars, Begin, Continue, Finish, Abort
<1>5. OwnedItemsArePaidOnce'
  BY <1>f, <1>s, SMTT(40) DEF TypeOK, LockIsHeld, ClaimIsAlone, OwnedItemsArePaidOnce, Key, money, handler, clock, history, drift, vars, Begin, Continue, Finish, Abort
<1>6. ClaimedIsPaid'
  BY <1>f, <1>s, SMTT(40) DEF TypeOK, LockIsHeld, ClaimIsAlone, ClaimedIsPaid, Key, money, handler, clock, history, drift, vars, Begin, Continue, Finish, Abort
<1> QED BY <1>0, <1>1, <1>2, <1>3, <1>4, <1>5, <1>6

\* Nor does a deadlock victim.
LEMMA DeadlockVictimKeeps == ASSUME IInv, NEW w \in Worker, DeadlockVictim(w) PROVE IInv'
<1> USE DEF IInv
<1>f. /\ seen[w].xp \in Nat /\ seen[w].coins \in Int /\ seen[w].fresh \in BOOLEAN
      /\ wallet.xp \in Nat /\ wallet.coins \in Int
      /\ recorded.xp \in Nat /\ recorded.coins \in Int
  BY SeenFields
<1>s. seen' \in [Worker -> Seen]
  BY NothingSeenType DEF DeadlockVictim, Begin, Continue, Finish, TypeOK, history, handler
<1>0. TypeOK'
  BY <1>f, <1>s, SMTT(40) DEF TypeOK, Key, money, handler, clock, history, drift, vars, Begin, Continue, Finish, DeadlockVictim, Row
<1>1. LockIsHeld'
  BY <1>f, <1>s, SMTT(40) DEF TypeOK, LockIsHeld, ClaimIsAlone, Key, money, handler, clock, history, drift, vars, Begin, Continue, Finish, DeadlockVictim, Row
<1>2. ClaimIsAlone'
  BY <1>f, <1>s, SMTT(40) DEF TypeOK, LockIsHeld, ClaimIsAlone, Key, money, handler, clock, history, drift, vars, Begin, Continue, Finish, DeadlockVictim, Row
<1>3. PaidOncePerKey'
  BY <1>f, <1>s, SMTT(40) DEF TypeOK, LockIsHeld, ClaimIsAlone, PaidOncePerKey, Key, money, handler, clock, history, drift, vars, Begin, Continue, Finish, DeadlockVictim, Row
<1>4. PointsAreLedger'
  BY <1>f, <1>s, SMTT(40) DEF TypeOK, LockIsHeld, ClaimIsAlone, PointsAreLedger, Key, money, handler, clock, history, drift, vars, Begin, Continue, Finish, DeadlockVictim, Row
<1>5. OwnedItemsArePaidOnce'
  BY <1>f, <1>s, SMTT(40) DEF TypeOK, LockIsHeld, ClaimIsAlone, OwnedItemsArePaidOnce, Key, money, handler, clock, history, drift, vars, Begin, Continue, Finish, DeadlockVictim, Row
<1>6. ClaimedIsPaid'
  BY <1>f, <1>s, SMTT(40) DEF TypeOK, LockIsHeld, ClaimIsAlone, ClaimedIsPaid, Key, money, handler, clock, history, drift, vars, Begin, Continue, Finish, DeadlockVictim, Row
<1> QED BY <1>0, <1>1, <1>2, <1>3, <1>4, <1>5, <1>6

\* A quest row that is advanced is still a row.
LEMMA AdvanceType ==
  ASSUME NEW q \in Progress, NEW m \in Mission, NEW b \in BOOLEAN
  PROVE  /\ [Advance(q, m) EXCEPT !.claimed = b] \in Progress
         /\ [Advance(q, m) EXCEPT !.claimed = b].claimed = b
<1>1. Target[m] \in Nat
  OBVIOUS
<1>2. q.progress \in Nat /\ q.completed \in BOOLEAN
  BY DEF Progress
<1>3. (IF q.progress + 1 < Target[m] THEN q.progress + 1 ELSE Target[m]) \in Nat
  BY <1>1, <1>2
<1>4. (q.progress + 1 >= Target[m]) \in BOOLEAN
  OBVIOUS
<1>5. CASE q.completed
  <2>1. Advance(q, m) = q
    BY <1>5 DEF Advance
  <2> QED BY <2>1 DEF Progress
<1>6. CASE ~q.completed
  <2> DEFINE n == IF q.progress + 1 < Target[m] THEN q.progress + 1 ELSE Target[m]
             c == q.progress + 1 >= Target[m]
  <2>1. Advance(q, m) = [q EXCEPT !.progress = n, !.completed = c]
    BY <1>6 DEF Advance
  <2>2. n \in Nat /\ c \in BOOLEAN
    BY <1>3, <1>4
  <2> HIDE DEF n, c
  <2> QED BY <2>1, <2>2 DEF Progress
<1> QED BY <1>5, <1>6

\* Touching the streak keeps its type.
LEMMA TouchStreakType ==
  ASSUME NEW s \in Streak, NEW d \in 1..MaxDay
  PROVE  TouchStreak(s, d) \in Streak
  BY DEF TouchStreak, Streak

\* A reward commits its own key if it was fresh, and the achievements it
\* unlocks; none of them was recorded before.
LEMMA RewardCommitKeeps == ASSUME IInv, NEW w \in Worker, RewardCommit(w) PROVE IInv'
<1> USE DEF IInv
<1> DEFINE s == job[w]
           d == seen[w].day
           fresh == seen[w].fresh
           base == IF fresh THEN seen[w].xp ELSE wallet.xp
           xp == IF fresh THEN Xp[s] ELSE 0
           coins == IF fresh THEN Coins[s] ELSE 0
           new == Unlocks(base + xp)
           moved == {m \in Counts[s] : ~seen[w].quest[m].completed}
           touched == Kind[s] # "submission" /\ seen[w].streak.last # d
           ks == new \union (IF fresh THEN {s} ELSE {})
<1>f. /\ seen[w].xp \in Nat /\ seen[w].coins \in Int /\ seen[w].fresh \in BOOLEAN
      /\ wallet.xp \in Nat /\ wallet.coins \in Int
      /\ recorded.xp \in Nat /\ recorded.coins \in Int
  BY SeenFields
<1>a. s \in Source /\ d \in 1..MaxDay /\ seen[w].streak \in Streak
      /\ seen[w].quest \in [Mission -> Progress]
  BY DEF RewardCommit, TypeOK, Seen
<1>b. base \in Nat /\ xp \in Nat /\ coins \in Nat
  BY <1>a, <1>f
<1>c. new \subseteq Achievement \ ledger /\ Bonus[new] \in Nat
  <2>1. new \subseteq Achievement \ ledger
    BY DEF Unlocks
  <2> QED BY <2>1
<1>d. pc[w] = "rewardCommit" /\ (fresh => lock = w /\ s \notin ledger)
  BY DEF RewardCommit, LockIsHeld
<1>e. ks \subseteq Key /\ ks \intersect ledger = {} /\ ks \intersect Quest = {}
  BY <1>a, <1>c, <1>d DEF Key
<1>q. quest' \in [Quest -> Progress] /\ \A q \in Quest : quest'[q].claimed = quest[q].claimed
  <2>0. moved \subseteq Mission
    BY <1>a
  <2>1. quest' = [q \in Quest |->
                 IF q[1] \in moved /\ q = Row(q[1], d)
                   THEN [Advance(seen[w].quest[q[1]], q[1]) EXCEPT !.claimed = quest[q].claimed]
                   ELSE quest[q]]
    BY DEF RewardCommit
  <2> HIDE DEF moved, d
  <2> SUFFICES ASSUME NEW q \in Quest
               PROVE  quest'[q] \in Progress /\ quest'[q].claimed = quest[q].claimed
    BY <2>1
  <2>2. quest[q] \in Progress /\ quest[q].claimed \in BOOLEAN
    BY DEF TypeOK, Progress
  <2>3. CASE q[1] \in moved /\ q = Row(q[1], d)
    <3>1. q[1] \in Mission /\ seen[w].quest[q[1]] \in Progress
      BY <2>0, <2>3, <1>a
    <3>2. quest'[q] = [Advance(seen[w].quest[q[1]], q[1]) EXCEPT !.claimed = quest[q].claimed]
      BY <2>1, <2>3
    <3> QED BY <3>1, <3>2, <2>2, AdvanceType
  <2>4. CASE ~(q[1] \in moved /\ q = Row(q[1], d))
    BY <2>1, <2>2, <2>4
  <2> QED BY <2>3, <2>4
<1>g. \/ Grant(w, ks, base, xp + Bonus[new], coins) /\ lock \in {None, w}
      \/ UNCHANGED <<money, paid, drift>>
  BY <1>d DEF RewardCommit
<1>h. /\ wallet' \in [coins : Int, xp : Nat, level : Nat] /\ recorded' \in [coins : Int, xp : Nat]
      /\ points' \in Nat /\ paid' \in [Key -> Nat] /\ ledger' \subseteq Key
      /\ points' - points = recorded'.xp - recorded.xp
      /\ wallet'.coins - wallet.coins = recorded'.coins - recorded.coins
  <2> HIDE DEF ks, base, xp, coins, new
  <2>1. CASE Grant(w, ks, base, xp + Bonus[new], coins)
    <3>1. base + (xp + Bonus[new]) \in Nat
      BY <1>b, <1>c
    <3>2. LevelFromXp(base + (xp + Bonus[new])) \in Nat
      BY <3>1, LevelsAreNat
    <3>3. wallet' \in [coins : Int, xp : Nat, level : Nat] /\ wallet'.coins = wallet.coins + coins
      BY <2>1, <1>b, <1>f, <3>1, <3>2 DEF Grant
    <3>4. recorded' = [coins |-> recorded.coins + coins, xp |-> recorded.xp + (xp + Bonus[new])]
      BY <2>1 DEF Grant
    <3>5. recorded' \in [coins : Int, xp : Nat] /\ recorded'.coins = recorded.coins + coins
          /\ recorded'.xp = recorded.xp + (xp + Bonus[new])
      BY <3>4, <1>b, <1>c, <1>f
    <3>6. points' = points + (xp + Bonus[new]) /\ points \in Nat
      BY <2>1 DEF Grant, TypeOK
    <3>7. paid' \in [Key -> Nat] /\ ledger' \subseteq Key
      BY <2>1, <1>e DEF Grant, TypeOK
    <3> QED BY <1>b, <1>c, <1>f, <3>3, <3>5, <3>6, <3>7
  <2>2. CASE UNCHANGED <<money, paid, drift>>
    BY <2>2, <1>f DEF money, TypeOK
  <2> QED BY <2>1, <2>2, <1>g
<1>t. /\ lost' \in [coins : Int, xp : Int] /\ overlapped' \subseteq {"coins", "xp"}
      /\ unchecked' \in Nat
  <2>1. CASE Writes(w, wallet.coins, base)
    BY <1>b, <1>f, <1>h, <2>1, WritesType
  <2>2. CASE UNCHANGED drift
    BY <2>2 DEF drift, TypeOK
  <2> QED BY <1>g, <2>1, <2>2 DEF Grant
<1>i. \/ /\ lock \in {None, w} /\ ledger' = ledger \union ks
         /\ paid' = [k \in Key |-> IF k \in ks THEN paid[k] + 1 ELSE paid[k]]
      \/ ledger' = ledger /\ paid' = paid
  BY <1>g DEF Grant, money
<1>j. streak' \in Streak /\ active' \subseteq 1..MaxDay
  <2>1. TouchStreak(seen[w].streak, d) \in Streak
    BY <1>a, TouchStreakType
  <2> QED BY <2>1, <1>a DEF RewardCommit, TypeOK
<1>k. counted' \in [Quest -> SUBSET Source]
  BY <1>a DEF RewardCommit, TypeOK
<1>l. /\ pc' = [pc EXCEPT ![w] = "idle"] /\ job' = [job EXCEPT ![w] = None]
      /\ seen' = [seen EXCEPT ![w] = NothingSeen] /\ lock' = (IF lock = w THEN None ELSE lock)
      /\ UNCHANGED <<owned, day, repeats, charges, unlisted>>
  BY DEF RewardCommit, Finish, clock
<1> HIDE DEF s, d, fresh, base, xp, coins, new, moved, touched, ks
<1>s. seen' \in [Worker -> Seen] /\ \A v \in Worker \ {w} : seen'[v] = seen[v]
  BY <1>l, NothingSeenType DEF TypeOK
<1>0. TypeOK'
  BY <1>h, <1>j, <1>k, <1>l, <1>q, <1>s, <1>t DEF TypeOK
<1>1. LockIsHeld'
  <2>1. lock # None /\ lock # w => ledger' = ledger
    BY <1>i
  <2>2. ASSUME NEW v \in Worker, pc'[v] = "rewardCommit", seen'[v].fresh
        PROVE  lock' = v /\ job'[v] \notin ledger'
    <3>1. v # w /\ pc[v] = "rewardCommit" /\ seen[v].fresh /\ job'[v] = job[v]
      BY <2>2, <1>l, <1>s DEF TypeOK
    <3> QED BY <3>1, <2>1, <1>l DEF LockIsHeld, TypeOK
  <2>3. lock' # None => lock' # w /\ lock = lock'
    BY <1>l
  <2> QED BY <2>2, <2>3, <1>l, <1>s DEF LockIsHeld, TypeOK
<1>2. ClaimIsAlone'
  <2>1. \A q \in Quest : q \in ledger' <=> q \in ledger
    BY <1>i, <1>e
  <2>2. \A v \in Worker : pc'[v] = "claimCommit" =>
          v # w /\ pc[v] = "claimCommit" /\ job'[v] = job[v] /\ job[v] \in Quest
    BY <1>l DEF TypeOK
  <2> QED BY <2>1, <2>2, <1>s DEF ClaimIsAlone
<1>3. PaidOncePerKey'
  BY <1>i, <1>e DEF PaidOncePerKey, TypeOK
<1>4. PointsAreLedger'
  <2>1. points \in Nat /\ points = recorded.xp + unlisted.points /\ unlisted.points \in Nat
    BY DEF TypeOK, PointsAreLedger
  <2>2. points' \in Nat /\ recorded'.xp \in Nat
    BY <1>h
  <2>3. points' = recorded'.xp + unlisted'.points
    BY <2>1, <2>2, <1>h, <1>f, <1>l
  <2> QED BY <2>3 DEF PointsAreLedger
<1>5. OwnedItemsArePaidOnce'
  BY <1>l DEF OwnedItemsArePaidOnce
<1>6. ClaimedIsPaid'
  <2>1. \A q \in Quest : q \in ledger' <=> q \in ledger
    BY <1>i, <1>e
  <2> QED BY <1>q, <2>1 DEF ClaimedIsPaid
<1> QED BY <1>0, <1>1, <1>2, <1>3, <1>4, <1>5, <1>6

\* Points without a row are counted as such.
LEMMA AwardPointsKeeps == ASSUME IInv, NEW n \in Award, AwardPoints(n) PROVE IInv'
<1>1. n \in Nat /\ points \in Nat /\ unlisted \in [points : Nat, xp : Nat] /\ recorded.xp \in Nat
  BY DEF IInv, TypeOK
<1>2. points' \in Nat /\ unlisted' \in [points : Nat, xp : Nat]
      /\ points' = points + n /\ unlisted'.points = unlisted.points + n
  BY <1>1 DEF AwardPoints
<1>3. PointsAreLedger'
  BY <1>1, <1>2 DEF AwardPoints, IInv, PointsAreLedger
<1> QED BY <1>2, <1>3 DEF AwardPoints, IInv, TypeOK, LockIsHeld, ClaimIsAlone, PaidOncePerKey,
     OwnedItemsArePaidOnce, ClaimedIsPaid, handler, clock, drift

\* Every step keeps the invariant.
THEOREM InvariantIsInductive == IInv /\ [Next]_vars => IInv'
<1> SUFFICES ASSUME IInv, [Next]_vars PROVE IInv'
  OBVIOUS
<1>1. ASSUME NEW w \in Worker, Proceed(w) PROVE IInv'
  BY <1>1, RewardLockKeeps, RewardCommitKeeps, ClaimMarkKeeps, ClaimCommitKeeps, CompleteMarkKeeps,
     EarnReadKeeps, EarnWriteKeeps, PurchaseCommitKeeps, DeadlockVictimKeeps DEF Proceed
<1>2. ASSUME NEW w \in Worker, Request(w) PROVE IInv'
  BY <1>2, RewardStartKeeps, ClaimStartKeeps, CompleteStartKeeps, PurchaseStartKeeps DEF Request
<1>3. ASSUME NEW w \in Worker, Abort(w) PROVE IInv'
  BY <1>3, AbortKeeps
<1>4. ASSUME NEW n \in Award, AwardPoints(n) PROVE IInv'
  BY <1>4, AwardPointsKeeps
<1>5. CASE NextDay
  BY <1>5 DEF NextDay, IInv, TypeOK, LockIsHeld, ClaimIsAlone, PaidOncePerKey, PointsAreLedger,
     OwnedItemsArePaidOnce, ClaimedIsPaid, money, handler, history, drift
<1>6. CASE UNCHANGED vars
  BY <1>6 DEF IInv, TypeOK, LockIsHeld, ClaimIsAlone, PaidOncePerKey, PointsAreLedger,
     OwnedItemsArePaidOnce, ClaimedIsPaid, money, handler, clock, history, drift, vars
<1> QED BY <1>1, <1>2, <1>3, <1>4, <1>5, <1>6 DEF Next, RewardRepeated

\* A new student's empty ledger satisfies it.
LEMMA InitEstablishesInvariant == Init => IInv
<1> SUFFICES ASSUME Init PROVE IInv
  OBVIOUS
<1>1. NothingSeen \in Seen /\ NoStreak \in Streak /\ 1 \in 1..MaxDay
  BY NothingSeenType DEF NoStreak, Streak
<1>2. TypeOK
  <2>1. wallet \in [coins : Int, xp : Nat, level : Nat] /\ recorded \in [coins : Int, xp : Nat]
    BY DEF Init
  <2>2. quest \in [Quest -> Progress]
    BY DEF Init, Progress
  <2>3. seen \in [Worker -> Seen] /\ streak \in Streak /\ day \in 1..MaxDay
    BY <1>1 DEF Init
  <2>4. paid \in [Key -> Nat] /\ charges \in [Item -> Nat]
        /\ counted \in [Quest -> SUBSET Source]
    BY DEF Init
  <2>5. pc \in [Worker -> {"idle"}] /\ job \in [Worker -> {None}]
    BY DEF Init
  <2>6. /\ points \in Nat /\ ledger \subseteq Key /\ owned \subseteq Item
        /\ lock \in Worker \union {None} /\ active \subseteq 1..MaxDay /\ repeats \in Nat
        /\ unlisted \in [points : Nat, xp : Nat] /\ lost \in [coins : Int, xp : Int]
        /\ overlapped \subseteq {"coins", "xp"} /\ unchecked \in Nat
    BY DEF Init
  <2> QED BY <2>1, <2>2, <2>3, <2>4, <2>5, <2>6 DEF TypeOK
<1>3. /\ LockIsHeld /\ ClaimIsAlone /\ PaidOncePerKey /\ PointsAreLedger
      /\ OwnedItemsArePaidOnce /\ ClaimedIsPaid
  BY SMTT(30) DEF Init, LockIsHeld, ClaimIsAlone, PaidOncePerKey, PointsAreLedger,
     OwnedItemsArePaidOnce, ClaimedIsPaid
<1> QED BY <1>2, <1>3 DEF IInv

\* The inductive invariant holds throughout.
THEOREM InvariantHolds == Spec => []IInv
  BY InitEstablishesInvariant, InvariantIsInductive, PTL DEF Spec

\* Every variable keeps its type.
THEOREM TypesHold == Spec => []TypeOK
  BY InvariantHolds, PTL DEF IInv

\* A reward is committed once per source key, whatever repeats and races; an
\* item's price is taken once, exactly when the item is owned; and a claimed
\* quest is a paid quest, and the other way round.
THEOREM EverythingIsPaidOnce == Spec => []PaidOnce
  BY InvariantHolds, PTL DEF IInv, PaidOnce

-----------------------------------------------------------------------------
(* Balances and their rows *)

\* A reading of a balance that nothing has changed since is still right.
ReadingsHold ==
  /\ "coins" \notin overlapped => \A v \in Holding("coins") : seen[v].coins = wallet.coins
  /\ "xp" \notin overlapped => \A v \in Holding("xp") : seen[v].xp = wallet.xp

\* Whoever checked the balance may overdraw it by what has left since, and earn
\* restores no balance that was lower than that.
ChecksHold ==
  /\ \A v \in Worker : pc[v] = "purchase" => wallet.coins + unchecked >= Price[job[v]]
  /\ \A v \in Holding("coins") : seen[v].coins + unchecked >= 0

DriftInv ==
  WalletIsLedger /\ LossIsOverlap /\ ReadingsHold /\ ChecksHold /\ OverdraftIsOverlap

\* A step that writes no wallet: whoever holds a reading held it before or has
\* just taken it, and whoever checked a price had done so or has just done it.
Looks ==
  /\ \A v \in Worker : pc'[v] = "earnWrite" =>
       \/ seen'[v].coins = wallet.coins /\ seen'[v].xp = wallet.xp
       \/ pc[v] = "earnWrite" /\ seen'[v] = seen[v]
  /\ \A v \in Worker : pc'[v] \in {"reward", "rewardCommit", "claimCommit"} /\ seen'[v].fresh =>
       \/ seen'[v].xp = wallet.xp
       \/ /\ pc[v] \in {"reward", "rewardCommit", "claimCommit"} /\ seen[v].fresh
          /\ seen'[v].xp = seen[v].xp
  /\ \A v \in Worker : pc'[v] = "purchase" =>
       \/ wallet.coins >= Price[job'[v]]
       \/ pc[v] = "purchase" /\ job'[v] = job[v]

LEMMA LooksKeepDrift ==
  ASSUME TypeOK, TypeOK', DriftInv, Looks,
         UNCHANGED <<wallet, recorded, drift>>, unlisted'.xp = unlisted.xp
  PROVE  DriftInv'
<1>1. /\ wallet' = wallet /\ recorded' = recorded /\ lost' = lost
      /\ overlapped' = overlapped /\ unchecked' = unchecked
  BY DEF drift
<1>t. wallet.coins \in Int /\ wallet.xp \in Nat /\ unchecked \in Nat
  BY DEF TypeOK
<1>2. WalletIsLedger' /\ LossIsOverlap' /\ OverdraftIsOverlap'
  BY <1>1 DEF DriftInv, WalletIsLedger, LossIsOverlap, OverdraftIsOverlap
<1>3. \A v \in Holding("coins")' : pc'[v] = "earnWrite" /\ v \in Worker
  BY DEF Holding
<1>4. \A v \in Worker : pc[v] = "earnWrite" => v \in Holding("coins") /\ v \in Holding("xp")
  BY DEF Holding
<1>5. ReadingsHold'
  <2>1. ASSUME "coins" \notin overlapped, NEW v \in Holding("coins")' PROVE seen'[v].coins = wallet.coins
    BY <1>3, <1>4, <2>1 DEF Looks, DriftInv, ReadingsHold
  <2>2. ASSUME "xp" \notin overlapped, NEW v \in Holding("xp")' PROVE seen'[v].xp = wallet.xp
    <3>1. v \in Worker /\ (pc'[v] = "earnWrite" \/ (seen'[v].fresh /\ pc'[v] \in {"reward", "rewardCommit", "claimCommit"}))
      BY DEF Holding
    <3>2. CASE pc'[v] = "earnWrite"
      BY <1>4, <2>2, <3>1, <3>2 DEF Looks, DriftInv, ReadingsHold
    <3>3. CASE seen'[v].fresh /\ pc'[v] \in {"reward", "rewardCommit", "claimCommit"}
      <4>1. pc[v] \in {"reward", "rewardCommit", "claimCommit"} /\ seen[v].fresh => v \in Holding("xp")
        BY <3>1 DEF Holding
      <4> QED BY <2>2, <3>1, <3>3, <4>1 DEF Looks, DriftInv, ReadingsHold
    <3> QED BY <3>1, <3>2, <3>3
  <2> QED BY <1>1, <2>1, <2>2 DEF ReadingsHold
<1>6. ChecksHold'
  <2>1. ASSUME NEW v \in Worker, pc'[v] = "purchase" PROVE wallet.coins + unchecked >= Price[job'[v]]
    <3>1. Price[job'[v]] \in Nat
      BY <2>1 DEF TypeOK
    <3>2. CASE wallet.coins >= Price[job'[v]]
      BY <1>t, <3>1, <3>2
    <3>3. CASE pc[v] = "purchase" /\ job'[v] = job[v]
      BY <3>3 DEF DriftInv, ChecksHold
    <3> QED BY <2>1, <3>2, <3>3 DEF Looks
  <2>2. ASSUME NEW v \in Holding("coins")' PROVE seen'[v].coins + unchecked >= 0
    <3>1. wallet.coins + unchecked >= 0
      BY DEF DriftInv, OverdraftIsOverlap
    <3>2. pc[v] = "earnWrite" => seen[v].coins + unchecked >= 0
      BY <1>3, <1>4 DEF DriftInv, ChecksHold
    <3> QED BY <1>3, <3>1, <3>2 DEF Looks
  <2> QED BY <1>1, <2>1, <2>2 DEF ChecksHold
<1> QED BY <1>2, <1>5, <1>6 DEF DriftInv

\* A write of the wallet by w that started from the balances w had read: what it
\* adds is what its rows add, and it does not go below what was checked.
LEMMA WritesKeepDrift ==
  ASSUME TypeOK, TypeOK', DriftInv, NEW w \in Worker, NEW coins \in Int, NEW xp \in Int,
         Writes(w, coins, xp), Finish(w),
         "coins" \notin overlapped => coins = wallet.coins,
         "xp" \notin overlapped => xp = wallet.xp,
         wallet'.coins - coins = recorded'.coins - recorded.coins,
         wallet'.xp - xp = (recorded'.xp - recorded.xp) + (unlisted'.xp - unlisted.xp),
         wallet'.coins + unchecked >= 0
  PROVE  DriftInv'
<1>t. /\ wallet.coins \in Int /\ wallet.xp \in Nat /\ wallet'.coins \in Int /\ wallet'.xp \in Nat
      /\ recorded.coins \in Int /\ recorded.xp \in Nat /\ recorded'.coins \in Int
      /\ recorded'.xp \in Nat /\ unlisted.xp \in Nat /\ unlisted'.xp \in Nat
      /\ lost.coins \in Int /\ lost.xp \in Int /\ unchecked \in Nat /\ unchecked' \in Nat
      /\ overlapped \subseteq {"coins", "xp"} /\ OpeningCoins \in Nat
  BY DEF TypeOK
<1>l. lost'.coins = lost.coins + (wallet.coins - coins) /\ lost'.xp = lost.xp + (wallet.xp - xp)
  BY DEF Writes
<1>o. overlapped \subseteq overlapped'
  BY DEF Writes
<1>p. /\ pc' = [pc EXCEPT ![w] = "idle"] /\ job' = [job EXCEPT ![w] = None]
      /\ seen' = [seen EXCEPT ![w] = NothingSeen]
  BY DEF Finish
<1>q. \A v \in Worker : v # w => pc'[v] = pc[v] /\ job'[v] = job[v] /\ seen'[v] = seen[v]
  BY <1>p DEF TypeOK
<1>h. \A c \in {"coins", "xp"} : \A v \in Holding(c)' : v \in Holding(c) \ {w}
  BY <1>p, <1>q DEF Holding, TypeOK
<1>1. WalletIsLedger'
  <2>1. wallet.coins = OpeningCoins + recorded.coins - lost.coins
        /\ wallet.xp = recorded.xp + unlisted.xp - lost.xp
    BY DEF DriftInv, WalletIsLedger
  <2>2. wallet'.coins = OpeningCoins + recorded'.coins - lost'.coins
    BY <1>t, <1>l, <2>1
  <2>3. wallet'.xp = recorded'.xp + unlisted'.xp - lost'.xp
    BY <1>t, <1>l, <2>1
  <2> QED BY <2>2, <2>3 DEF WalletIsLedger
<1>2. LossIsOverlap'
  <2>1. "coins" \notin overlapped' => lost'.coins = 0
    BY <1>t, <1>l, <1>o DEF DriftInv, LossIsOverlap
  <2>2. "xp" \notin overlapped' => lost'.xp = 0
    BY <1>t, <1>l, <1>o DEF DriftInv, LossIsOverlap
  <2> QED BY <2>1, <2>2 DEF LossIsOverlap
<1>3. ReadingsHold'
  <2>1. ASSUME "coins" \notin overlapped', NEW v \in Holding("coins")'
        PROVE  seen'[v].coins = wallet'.coins
    <3>1. v \in Holding("coins") \ {w} /\ v \in Worker
      BY <1>h DEF Holding
    <3>2. wallet'.coins = wallet.coins
      BY <2>1, <3>1 DEF Writes
    <3> QED BY <1>o, <1>q, <2>1, <3>1, <3>2 DEF DriftInv, ReadingsHold
  <2>2. ASSUME "xp" \notin overlapped', NEW v \in Holding("xp")'
        PROVE  seen'[v].xp = wallet'.xp
    <3>1. v \in Holding("xp") \ {w} /\ v \in Worker
      BY <1>h DEF Holding
    <3>2. wallet'.xp = wallet.xp
      BY <2>2, <3>1 DEF Writes
    <3> QED BY <1>o, <1>q, <2>2, <3>1, <3>2 DEF DriftInv, ReadingsHold
  <2> QED BY <2>1, <2>2 DEF ReadingsHold
<1>4. unchecked' >= unchecked
  BY <1>t DEF Writes
<1>5. ChecksHold'
  <2>1. ASSUME NEW v \in Worker, pc'[v] = "purchase"
        PROVE  wallet'.coins + unchecked' >= Price[job'[v]]
    <3>1. v # w /\ pc[v] = "purchase" /\ job'[v] = job[v] /\ Price[job[v]] \in Nat
      BY <1>p, <1>q, <2>1 DEF TypeOK
    <3>2. wallet.coins + unchecked >= Price[job[v]]
      BY <3>1 DEF DriftInv, ChecksHold
    <3>3. wallet'.coins + unchecked' >= wallet.coins + unchecked
      <4>1. CASE wallet'.coins < wallet.coins
        <5>1. unchecked' = unchecked + (wallet.coins - wallet'.coins)
          BY <3>1, <4>1 DEF Writes
        <5> QED BY <1>t, <5>1
      <4>2. CASE ~(wallet'.coins < wallet.coins)
        BY <1>t, <1>4, <4>2
      <4> QED BY <4>1, <4>2
    <3> QED BY <1>t, <3>1, <3>2, <3>3
  <2>2. ASSUME NEW v \in Holding("coins")' PROVE seen'[v].coins + unchecked' >= 0
    <3>1. v \in Holding("coins") \ {w} /\ v \in Worker
      BY <1>h DEF Holding
    <3>2. seen[v].coins + unchecked >= 0 /\ seen'[v] = seen[v]
      BY <1>q, <3>1 DEF DriftInv, ChecksHold
    <3>3. seen[v].coins \in Int
      BY <3>1, SeenFields
    <3> QED BY <1>t, <1>4, <3>2, <3>3
  <2> QED BY <2>1, <2>2 DEF ChecksHold
<1>6. OverdraftIsOverlap'
  BY <1>t, <1>4 DEF OverdraftIsOverlap
<1> QED BY <1>1, <1>2, <1>3, <1>5, <1>6 DEF DriftInv

\* Requests that begin, go on or end without writing the wallet.
LEMMA LooksBegin ==
  ASSUME TypeOK, NEW w \in Worker, NEW j, NEW step, NEW s, Begin(w, j, step, s),
         step # "earnWrite",
         step \in {"reward", "rewardCommit", "claimCommit"} /\ s.fresh => s.xp = wallet.xp,
         step = "purchase" => wallet.coins >= Price[j]
  PROVE  Looks
  BY DEF Looks, Begin, TypeOK

LEMMA LooksContinue ==
  ASSUME TypeOK, NEW w \in Worker, NEW step, NEW s, Continue(w, step, s), step # "purchase",
         step = "earnWrite" => s.coins = wallet.coins /\ s.xp = wallet.xp,
         step \in {"reward", "rewardCommit", "claimCommit"} /\ s.fresh =>
           s.xp = wallet.xp \/ (pc[w] = "reward" /\ seen[w].fresh /\ s.xp = seen[w].xp)
  PROVE  Looks
<1>1. seen'[w] = s /\ pc'[w] = step /\ job' = job
  BY DEF Continue, TypeOK
<1>2. \A v \in Worker : v # w => pc'[v] = pc[v] /\ seen'[v] = seen[v]
  BY DEF Continue, TypeOK
<1> QED BY <1>1, <1>2 DEF Looks

LEMMA LooksFinish ==
  ASSUME TypeOK, NEW w \in Worker, Finish(w)
  PROVE  Looks
  BY DEF Looks, Finish, TypeOK

LEMMA RequestsKeepDrift ==
  ASSUME IInv, TypeOK', DriftInv, NEW w \in Worker, Request(w)
  PROVE  DriftInv'
<1>0. TypeOK BY DEF IInv
<1>t. wallet.xp \in Nat BY SeenFields, <1>0
<1>u. UNCHANGED <<money, history>> => UNCHANGED <<wallet, recorded, drift>> /\ unlisted' = unlisted
  BY DEF money, history
<1>1. ASSUME NEW s \in Source, RewardStart(w, s) PROVE DriftInv'
  <2> DEFINE read == [NothingSeen EXCEPT !.xp = wallet.xp, !.fresh = s \notin ledger]
  <2>1. read.xp = wallet.xp BY DEF NothingSeen
  <2>2. Begin(w, s, "reward", read) BY <1>1 DEF RewardStart
  <2> HIDE DEF read
  <2>3. Looks BY <1>0, <2>1, <2>2, LooksBegin
  <2>4. UNCHANGED <<money, history>> BY <1>1 DEF RewardStart
  <2> QED BY <1>0, <1>u, <2>3, <2>4, LooksKeepDrift
<1>2. ASSUME NEW m \in Mission, ClaimStart(w, m) PROVE DriftInv'
  <2>1. Looks BY <1>0, <1>2, LooksBegin DEF ClaimStart
  <2>2. UNCHANGED <<money, history>> BY <1>2 DEF ClaimStart
  <2> QED BY <1>0, <1>u, <2>1, <2>2, LooksKeepDrift
<1>3. ASSUME NEW m \in Mission, CompleteStart(w, m) PROVE DriftInv'
  <2>1. Looks BY <1>0, <1>3, LooksBegin DEF CompleteStart
  <2>2. UNCHANGED <<money, history>> BY <1>3 DEF CompleteStart
  <2> QED BY <1>0, <1>u, <2>1, <2>2, LooksKeepDrift
<1>4. ASSUME NEW i \in Item, PurchaseStart(w, i) PROVE DriftInv'
  <2>1. Looks BY <1>0, <1>4, LooksBegin DEF PurchaseStart
  <2>2. UNCHANGED <<money, history>> BY <1>4 DEF PurchaseStart
  <2> QED BY <1>0, <1>u, <2>1, <2>2, LooksKeepDrift
<1> QED BY <1>1, <1>2, <1>3, <1>4 DEF Request

\* Steps of a request that do not write the wallet.
LEMMA QuietStepsKeepDrift ==
  ASSUME IInv, TypeOK', DriftInv, NEW w \in Worker,
         RewardLock(w) \/ ClaimMark(w) \/ CompleteMark(w) \/ EarnRead(w)
           \/ DeadlockVictim(w) \/ Abort(w)
  PROVE  DriftInv'
<1>0. TypeOK BY DEF IInv
<1>t. /\ wallet.xp \in Nat /\ wallet.coins \in Int /\ seen[w] \in Seen
  BY <1>0, SeenFields DEF TypeOK
<1>u. UNCHANGED <<money, history>> => UNCHANGED <<wallet, recorded, drift>> /\ unlisted' = unlisted
  BY DEF money, history
<1>k. Looks /\ UNCHANGED <<money, history>> => DriftInv'
  BY <1>0, <1>u, LooksKeepDrift
<1>1. CASE RewardLock(w)
  <2> DEFINE read == [seen[w] EXCEPT !.day = day, !.streak = streak,
                      !.quest = [m \in Mission |-> quest[Row(m, day)]]]
  <2>1. read.xp = seen[w].xp /\ (read.fresh <=> seen[w].fresh)
    BY <1>t DEF Seen
  <2>2. Finish(w) \/ Continue(w, "rewardCommit", read)
    BY <1>1 DEF RewardLock
  <2>3. pc[w] = "reward" BY <1>1 DEF RewardLock
  <2> HIDE DEF read
  <2>4. Looks BY <1>0, <2>1, <2>2, <2>3, LooksContinue, LooksFinish
  <2> QED BY <1>1, <1>k, <2>4 DEF RewardLock
<1>2. CASE ClaimMark(w)
  <2> DEFINE read == [NothingSeen EXCEPT !.xp = wallet.xp, !.fresh = job[w] \notin ledger]
  <2>1. read.xp = wallet.xp BY DEF NothingSeen
  <2>2. Continue(w, "claimCommit", read) BY <1>2 DEF ClaimMark
  <2> HIDE DEF read
  <2>3. Looks BY <1>0, <2>1, <2>2, LooksContinue
  <2> QED BY <1>2, <1>k, <2>3 DEF ClaimMark
<1>3. CASE CompleteMark(w)
  <2>1. Looks BY <1>0, <1>3, LooksContinue DEF CompleteMark
  <2>2. UNCHANGED <<wallet, recorded, drift>> /\ unlisted' = unlisted
    BY <1>3 DEF CompleteMark, money, history
  <2> QED BY <1>0, <2>1, <2>2, LooksKeepDrift
<1>4. CASE EarnRead(w)
  <2> DEFINE read == [seen[w] EXCEPT !.xp = wallet.xp, !.coins = wallet.coins]
  <2>1. read.xp = wallet.xp /\ read.coins = wallet.coins
    BY <1>t DEF Seen
  <2>2. Continue(w, "earnWrite", read) BY <1>4 DEF EarnRead
  <2> HIDE DEF read
  <2>3. Looks BY <1>0, <2>1, <2>2, LooksContinue
  <2> QED BY <1>4, <1>k, <2>3 DEF EarnRead
<1>5. CASE DeadlockVictim(w)
  BY <1>0, <1>5, <1>k, LooksFinish DEF DeadlockVictim
<1>6. CASE Abort(w)
  BY <1>0, <1>6, <1>k, LooksFinish DEF Abort
<1> QED BY <1>1, <1>2, <1>3, <1>4, <1>5, <1>6

\* grant writes XP from its reading and adds coins; earn writes both from its
\* reading; a purchase takes a price that was checked.
LEMMA WritersKeepDrift ==
  ASSUME IInv, TypeOK', DriftInv, NEW w \in Worker,
         RewardCommit(w) \/ ClaimCommit(w) \/ EarnWrite(w) \/ PurchaseCommit(w)
  PROVE  DriftInv'
<1>0. TypeOK BY DEF IInv
<1>t. /\ wallet.xp \in Nat /\ wallet.coins \in Int /\ recorded.xp \in Nat /\ recorded.coins \in Int
      /\ recorded \in [coins : Int, xp : Nat] /\ wallet \in [coins : Int, xp : Nat, level : Nat]
      /\ unlisted.xp \in Nat /\ unlisted \in [points : Nat, xp : Nat]
      /\ seen[w].xp \in Nat /\ seen[w].coins \in Int /\ unchecked \in Nat
  BY <1>0, SeenFields DEF TypeOK
<1>o. wallet.coins + unchecked >= 0 BY DEF DriftInv, OverdraftIsOverlap
<1>g. ASSUME NEW ks, NEW base \in Nat, NEW xp \in Nat, NEW coins \in Nat,
             Grant(w, ks, base, xp, coins), Finish(w), unlisted' = unlisted,
             "xp" \notin overlapped => base = wallet.xp
      PROVE  DriftInv'
  <2>1. wallet'.coins = wallet.coins + coins /\ wallet'.xp = base + xp
        /\ recorded'.coins = recorded.coins + coins /\ recorded'.xp = recorded.xp + xp
        /\ Writes(w, wallet.coins, base)
    BY <1>g DEF Grant
  <2>2. wallet'.coins - wallet.coins = recorded'.coins - recorded.coins
        /\ wallet'.coins + unchecked >= 0
    BY <1>t, <1>o, <2>1
  <2>3. wallet'.xp - base = (recorded'.xp - recorded.xp) + (unlisted'.xp - unlisted.xp)
    BY <1>g, <1>t, <2>1
  <2>4. base \in Int /\ wallet.coins \in Int BY <1>t
  <2> QED BY <1>0, <1>g, <2>1, <2>2, <2>3, <2>4, WritesKeepDrift
<1>k. Finish(w) /\ UNCHANGED <<money, drift>> /\ unlisted' = unlisted => DriftInv'
  BY <1>0, LooksFinish, LooksKeepDrift DEF money
<1>1. CASE RewardCommit(w)
  <2> DEFINE s == job[w]
             base == IF seen[w].fresh THEN seen[w].xp ELSE wallet.xp
             xp == IF seen[w].fresh THEN Xp[s] ELSE 0
             coins == IF seen[w].fresh THEN Coins[s] ELSE 0
             new == Unlocks(base + xp)
             ks == new \union (IF seen[w].fresh THEN {s} ELSE {})
  <2>1. s \in Source BY <1>0, <1>1 DEF RewardCommit, TypeOK
  <2>2. base \in Nat /\ xp \in Nat /\ coins \in Nat BY <1>t, <2>1
  <2>3. Bonus[new] \in Nat
    <3>1. new \in SUBSET Achievement BY DEF Unlocks
    <3> QED BY <3>1
  <2>4. "xp" \notin overlapped => base = wallet.xp
    BY <1>1 DEF RewardCommit, DriftInv, ReadingsHold, Holding
  <2>5. Finish(w) /\ unlisted' = unlisted
    BY <1>1 DEF RewardCommit
  <2>6. Grant(w, ks, base, xp + Bonus[new], coins) \/ UNCHANGED <<money, drift>>
    BY <1>1 DEF RewardCommit
  <2> HIDE DEF s, base, xp, coins, new, ks
  <2>7. xp + Bonus[new] \in Nat BY <2>2, <2>3
  <2> QED BY <1>g, <1>k, <2>2, <2>4, <2>5, <2>6, <2>7
<1>2. CASE ClaimCommit(w)
  <2> DEFINE q == job[w]
  <2>1. q \in Quest BY <1>0, <1>2 DEF ClaimCommit, TypeOK
  <2>2. QuestXp[q[1]] \in Nat /\ QuestCoins[q[1]] \in Nat BY <2>1 DEF Quest
  <2>3. seen[w].fresh => ("xp" \notin overlapped => seen[w].xp = wallet.xp)
    BY <1>2 DEF ClaimCommit, DriftInv, ReadingsHold, Holding
  <2>4. Finish(w) /\ unlisted' = unlisted /\
        (\/ seen[w].fresh /\ Grant(w, {q}, seen[w].xp, QuestXp[q[1]], QuestCoins[q[1]])
         \/ UNCHANGED <<money, drift>>)
    BY <1>2 DEF ClaimCommit
  <2> HIDE DEF q
  <2> QED BY <1>g, <1>k, <1>t, <2>2, <2>3, <2>4
<1>3. CASE EarnWrite(w)
  <2> DEFINE m == job[w][1]
  <2>1. QuestXp[m] \in Nat /\ QuestCoins[m] \in Nat
    <3>1. job[w] \in Quest BY <1>0, <1>3 DEF EarnWrite, TypeOK
    <3> QED BY <3>1 DEF Quest
  <2>2. w \in Holding("coins") /\ w \in Holding("xp")
    BY <1>3 DEF EarnWrite, Holding
  <2>3. /\ "coins" \notin overlapped => seen[w].coins = wallet.coins
        /\ "xp" \notin overlapped => seen[w].xp = wallet.xp
        /\ seen[w].coins + unchecked >= 0
    BY <2>2 DEF DriftInv, ReadingsHold, ChecksHold
  <2>4. /\ wallet'.coins = seen[w].coins + QuestCoins[m] /\ wallet'.xp = seen[w].xp + QuestXp[m]
        /\ recorded'.coins = recorded.coins + QuestCoins[m] /\ recorded'.xp = recorded.xp
        /\ unlisted'.xp = unlisted.xp + QuestXp[m]
        /\ Writes(w, seen[w].coins, seen[w].xp) /\ Finish(w)
    BY <1>3, <1>t DEF EarnWrite
  <2> HIDE DEF m
  <2>5. wallet'.coins - seen[w].coins = recorded'.coins - recorded.coins
        /\ wallet'.coins + unchecked >= 0
    BY <1>t, <2>1, <2>3, <2>4
  <2>6. wallet'.xp - seen[w].xp = (recorded'.xp - recorded.xp) + (unlisted'.xp - unlisted.xp)
    BY <1>t, <2>1, <2>4
  <2>7. seen[w].xp \in Int /\ seen[w].coins \in Int BY <1>t
  <2> QED BY <1>0, <2>3, <2>4, <2>5, <2>6, <2>7, WritesKeepDrift
<1>4. CASE PurchaseCommit(w)
  <2> DEFINE i == job[w]
  <2>1. i \in Item /\ pc[w] = "purchase" BY <1>0, <1>4 DEF PurchaseCommit, TypeOK
  <2>2. Price[i] \in Nat /\ wallet.coins + unchecked >= Price[i]
    BY <2>1 DEF DriftInv, ChecksHold
  <2>3. Finish(w) /\ unlisted' = unlisted
    BY <1>4 DEF PurchaseCommit
  <2>4. CASE i \in owned
    <3>1. UNCHANGED <<money, drift>>
      BY <1>4, <2>4 DEF PurchaseCommit, money
    <3> QED BY <1>k, <2>3, <3>1
  <2>5. CASE i \notin owned
    <3>1. /\ wallet'.coins = wallet.coins - Price[i] /\ wallet'.xp = wallet.xp
          /\ recorded'.coins = recorded.coins - Price[i] /\ recorded'.xp = recorded.xp
          /\ Writes(w, wallet.coins, wallet.xp)
      BY <1>4, <1>t, <2>5 DEF PurchaseCommit
    <3> HIDE DEF i
    <3>2. wallet'.coins - wallet.coins = recorded'.coins - recorded.coins
          /\ wallet'.coins + unchecked >= 0
      BY <1>t, <2>2, <3>1
    <3>3. wallet'.xp - wallet.xp = (recorded'.xp - recorded.xp) + (unlisted'.xp - unlisted.xp)
      BY <1>t, <2>3, <3>1
    <3>4. wallet.xp \in Int /\ wallet.coins \in Int BY <1>t
    <3> QED BY <1>0, <2>3, <3>1, <3>2, <3>3, <3>4, WritesKeepDrift
  <2> QED BY <2>4, <2>5
<1> QED BY <1>1, <1>2, <1>3, <1>4

LEMMA StepsKeepDrift == ASSUME IInv, TypeOK', DriftInv, [Next]_vars PROVE DriftInv'
<1>0. TypeOK BY DEF IInv
<1>1. ASSUME NEW w \in Worker, Proceed(w) PROVE DriftInv'
  BY <1>1, WritersKeepDrift, QuietStepsKeepDrift DEF Proceed
<1>2. ASSUME NEW w \in Worker, Request(w) PROVE DriftInv'
  BY <1>2, RequestsKeepDrift
<1>3. ASSUME NEW w \in Worker, Abort(w) PROVE DriftInv'
  BY <1>3, QuietStepsKeepDrift
<1>4. ASSUME NEW n \in Award, AwardPoints(n) PROVE DriftInv'
  <2>1. Looks BY <1>4 DEF AwardPoints, handler, Looks
  <2>2. UNCHANGED <<wallet, recorded, drift>> /\ unlisted'.xp = unlisted.xp
    BY <1>0, <1>4 DEF AwardPoints, TypeOK
  <2> QED BY <1>0, <2>1, <2>2, LooksKeepDrift
<1>5. CASE NextDay
  <2>1. Looks BY <1>5 DEF NextDay, handler, Looks
  <2>2. UNCHANGED <<wallet, recorded, drift>> /\ unlisted'.xp = unlisted.xp
    BY <1>5 DEF NextDay, money, history
  <2> QED BY <1>0, <2>1, <2>2, LooksKeepDrift
<1>6. CASE UNCHANGED vars
  <2>1. Looks BY <1>6 DEF vars, handler, Looks
  <2>2. UNCHANGED <<wallet, recorded, drift>> /\ unlisted'.xp = unlisted.xp
    BY <1>6 DEF vars, money, history
  <2> QED BY <1>0, <2>1, <2>2, LooksKeepDrift
<1> QED BY <1>1, <1>2, <1>3, <1>4, <1>5, <1>6 DEF Next, RewardRepeated

LEMMA InitHasNoDrift == ASSUME Init PROVE DriftInv
  BY DEF Init, DriftInv, WalletIsLedger, LossIsOverlap, ReadingsHold, ChecksHold, Holding,
         OverdraftIsOverlap

THEOREM DriftIsInductive == Spec => [](IInv /\ DriftInv)
<1>1. Init => IInv /\ DriftInv
  BY InitEstablishesInvariant, InitHasNoDrift
<1>2. IInv /\ DriftInv /\ [Next]_vars => (IInv /\ DriftInv)'
  <2> SUFFICES ASSUME IInv, DriftInv, [Next]_vars PROVE IInv' /\ DriftInv'
    OBVIOUS
  <2>1. IInv' BY InvariantIsInductive
  <2>2. TypeOK' BY <2>1 DEF IInv
  <2> QED BY <2>1, <2>2, StepsKeepDrift
<1> QED BY <1>1, <1>2, PTL DEF Spec

\* Points, coins and XP are what their rows, the unlisted awards and the exact
\* loss to stale writes add up to; nothing is lost unless a balance changed
\* under a reading.
THEOREM BalancesAreLedger == Spec => []BalancesAreSums
<1>1. IInv /\ DriftInv => BalancesAreSums
  BY DEF IInv, DriftInv, BalancesAreSums
<1> QED BY <1>1, DriftIsInductive, PTL

\* The coins never fall below zero by more than what left the wallet while
\* another purchase had its check behind it.
THEOREM OverdraftIsBounded == Spec => []OverdraftIsOverlap
<1>1. IInv /\ DriftInv => OverdraftIsOverlap
  BY DEF DriftInv
<1> QED BY <1>1, DriftIsInductive, PTL

-----------------------------------------------------------------------------
(* Days and events *)

\* The n days up to d were active, and the one before them was not.
RunIs(A, d, n) == n \in 0..d /\ (\A e \in (d - n + 1)..d : e \in A) /\ d - n \notin A

\* The streak s counts the run that ends with the last of the days A, and the longest.
RunsOver(A, s) ==
  IF A = {} THEN s = NoStreak
  ELSE /\ s.last \in A /\ \A d \in A : d <= s.last
       /\ RunIs(A, s.last, s.count)
       /\ \A d \in A : \E n \in 0..s.longest : RunIs(A, d, n)
       /\ \E d \in A : RunIs(A, d, s.longest)

DailyQuest == Daily \X (1..MaxDay)

\* While no attempt or submission is reported again, whoever is about to count
\* an event is alone, and what it has read is still so.  The economy service
\* completes other rows than the daily ones.
CountsAlone(w) ==
  /\ pc[w] = "complete" => job[w] \notin DailyQuest
  /\ pc[w] \in {"reward", "rewardCommit"} => seen[w].fresh
  /\ pc[w] = "rewardCommit" =>
       /\ seen[w].day <= day /\ \A d \in active : d <= seen[w].day
       /\ seen[w].streak = streak
       /\ \A m \in Daily : /\ seen[w].quest[m].progress = quest[<<m, seen[w].day>>].progress
                           /\ seen[w].quest[m].completed = quest[<<m, seen[w].day>>].completed

\* A daily quest's events are recorded ones, and it is completed once they are enough.
Counted(q) ==
  /\ IsFiniteSet(counted[q]) /\ counted[q] \subseteq ledger
  /\ quest[q].progress = IF Cardinality(counted[q]) < Target[q[1]] THEN Cardinality(counted[q])
                                                                    ELSE Target[q[1]]
  /\ quest[q].completed <=> Cardinality(counted[q]) >= Target[q[1]]

DaysInv ==
  repeats = 0 => /\ \A w \in Worker : CountsAlone(w)
                 /\ \A q \in DailyQuest : Counted(q)
                 /\ RunsOver(active, streak) /\ \A d \in active : d <= day

\* A day ends one run.
LEMMA RunIsOne ==
  ASSUME NEW A, NEW d \in Nat, NEW n, RunIs(A, d, n), NEW m, RunIs(A, d, m)
  PROVE  n = m
<1>1. n \in 0..d /\ m \in 0..d BY DEF RunIs
<1>2. CASE n < m
      <2>1. d - n \in (d - m + 1)..d BY <1>1, <1>2
      <2> QED BY <2>1 DEF RunIs
<1>3. CASE m < n
      <2>1. d - m \in (d - n + 1)..d BY <1>1, <1>3
      <2> QED BY <2>1 DEF RunIs
<1> QED BY <1>1, <1>2, <1>3

LEMMA RunIsRun ==
  ASSUME NEW d \in Nat, NEW n, RunIs(active, d, n)
  PROVE  Run(d) = n
<1> DEFINE R(k) == (\A e \in (d - k + 1)..d : e \in active) /\ d - k \notin active
<1>1. n \in 0..d /\ R(n) BY DEF RunIs
<1>2. Run(d) = CHOOSE k \in 0..d : R(k) BY DEF Run
<1>3. \A k \in 0..d : R(k) => k = n BY RunIsOne DEF RunIs
<1> HIDE DEF R
<1> QED BY <1>1, <1>2, <1>3

LEMMA RunsAreStreak ==
  ASSUME TypeOK, RunsOver(active, streak)
  PROVE  StreakIsRunOfDays
<1>1. CASE active = {} BY <1>1 DEF RunsOver, StreakIsRunOfDays
<1>2. CASE active # {}
      <2>1. active \subseteq Nat /\ streak.longest \in Nat BY DEF TypeOK, Streak
      <2>2. /\ streak.last \in active /\ \A d \in active : d <= streak.last
            /\ RunIs(active, streak.last, streak.count)
            /\ \A d \in active : \E n \in 0..streak.longest : RunIs(active, d, n)
            /\ \E d \in active : RunIs(active, d, streak.longest)
            BY <1>2 DEF RunsOver
      <2>3. streak.count = Run(streak.last) BY <2>1, <2>2, RunIsRun
      <2>4. ASSUME NEW d \in active PROVE Run(d) <= streak.longest
            <3>1. PICK n \in 0..streak.longest : RunIs(active, d, n) BY <2>2
            <3>2. Run(d) = n BY <2>1, <3>1, RunIsRun
            <3> QED BY <2>1, <3>2
      <2>5. \E d \in active : Run(d) = streak.longest
            <3>1. PICK d \in active : RunIs(active, d, streak.longest) BY <2>2
            <3>2. Run(d) = streak.longest BY <2>1, <3>1, RunIsRun
            <3> QED BY <3>2
      <2> QED BY <1>2, <2>2, <2>3, <2>4, <2>5 DEF StreakIsRunOfDays
<1> QED BY <1>1, <1>2

\* A new day continues the run that ends the day before, or begins one.
LEMMA DayTouched ==
  ASSUME NEW A \in SUBSET (1..MaxDay), NEW s \in Streak, NEW d \in 1..MaxDay, \A a \in A : a <= d,
         RunsOver(A, s), s.last # d
  PROVE  RunsOver(A \union {d}, TouchStreak(s, d))
<1> DEFINE B == A \union {d}
           n == IF s.last = d - 1 THEN s.count + 1 ELSE 1
           most == IF n > s.longest THEN n ELSE s.longest
<1>0. s.count \in Nat /\ s.longest \in Nat /\ d \in Nat /\ d >= 1 BY DEF Streak
<1>1. TouchStreak(s, d) = [count |-> n, last |-> d, longest |-> most]
      BY DEF TouchStreak
<1>2. A # {} => /\ s.last \in A /\ \A a \in A : a <= s.last
                /\ RunIs(A, s.last, s.count)
                /\ \A a \in A : \E k \in 0..s.longest : RunIs(A, a, k)
                /\ \E a \in A : RunIs(A, a, s.longest)
      BY DEF RunsOver
<1>n. \A a \in A : a \in Nat /\ a <= d
      <2>1. \A a \in 1..MaxDay : a \in Nat OBVIOUS
      <2> QED BY <2>1
<1>3. A = {} => s.last = -1 /\ s.longest = 0
      <2>1. A = {} => s = NoStreak BY DEF RunsOver
      <2> QED BY <2>1 DEF NoStreak
<1>4. \A a \in A : a \in Nat /\ a < d
      <2> TAKE a \in A
      <2>1. s.last \in A /\ a <= s.last BY <1>2
      <2>2. s.last <= d /\ s.last # d /\ s.last \in Nat /\ a \in Nat BY <1>n, <2>1
      <2> QED BY <1>0, <2>1, <2>2
<1>5. n \in Nat /\ most \in Nat /\ n <= most /\ s.longest <= most /\ (most = n \/ most = s.longest)
      BY <1>0
<1>6. RunIs(B, d, n)
      <2>1. CASE s.last = d - 1
            <3>1. A # {} BY <1>0, <1>3, <2>1
            <3>2. s.count \in 0..(d - 1) /\ (\A e \in (d - 1 - s.count + 1)..(d - 1) : e \in A)
                  /\ d - 1 - s.count \notin A
                  BY <1>2, <2>1, <3>1 DEF RunIs
            <3>3. n = s.count + 1 BY <2>1
            <3>4. \A e \in (d - n + 1)..d : e \in (d - 1 - s.count + 1)..(d - 1) \/ e = d
                  BY <1>0, <3>3
            <3>5. d - n = d - 1 - s.count /\ d - n # d /\ n \in 0..d BY <1>0, <3>2, <3>3
            <3> HIDE DEF n
            <3>6. \A e \in (d - n + 1)..d : e \in B BY <3>2, <3>4
            <3>7. d - n \notin B BY <3>2, <3>5
            <3> QED BY <3>5, <3>6, <3>7 DEF RunIs
      <2>2. CASE s.last # d - 1
            <3>1. d - 1 \notin A
                  <4>1. ASSUME d - 1 \in A PROVE FALSE
                        <5>1. s.last \in Nat /\ d - 1 <= s.last /\ s.last < d BY <1>2, <1>4, <1>n, <4>1
                        <5> QED BY <1>0, <2>2, <5>1
                  <4> QED BY <4>1
            <3>2. n = 1 BY <2>2
            <3>3. \A e \in d..d : e = d BY <1>0
            <3>4. d - 1 + 1 = d /\ d - 1 # d /\ 1 \in 0..d BY <1>0
            <3> HIDE DEF n
            <3> QED BY <3>1, <3>2, <3>3, <3>4 DEF RunIs
      <2> QED BY <2>1, <2>2
<1>7. ASSUME NEW a \in A, NEW k, RunIs(A, a, k) PROVE RunIs(B, a, k)
      <2>1. k \in 0..a /\ a \in Nat /\ a < d BY <1>4, <1>7 DEF RunIs
      <2>2. a - k # d BY <1>0, <2>1
      <2> QED BY <1>7, <2>2 DEF RunIs
<1> HIDE DEF n, most
<1>8. \A a \in B : a <= d BY <1>0, <1>4
<1>9. ASSUME NEW a \in B PROVE \E k \in 0..most : RunIs(B, a, k)
      <2>1. CASE a = d BY <1>5, <1>6, <2>1
      <2>2. CASE a \in A
            <3>1. PICK k \in 0..s.longest : RunIs(A, a, k) BY <1>2, <2>2
            <3>2. k \in 0..most BY <1>0, <1>5
            <3> QED BY <1>7, <2>2, <3>1, <3>2
      <2> QED BY <2>1, <2>2
<1>10. \E a \in B : RunIs(B, a, most)
      <2>1. CASE most = n BY <1>6, <2>1
      <2>2. CASE most # n
            <3>1. most = s.longest BY <1>5, <2>2
            <3>2. A # {}
                  <4>1. A = {} => most = n BY <1>0, <1>3, <1>5, <1>6, <3>1 DEF n, most
                  <4> QED BY <2>2, <4>1
            <3> QED BY <1>2, <1>7, <3>1, <3>2
      <2> QED BY <2>1, <2>2
<1> DEFINE t == [count |-> n, last |-> d, longest |-> most]
<1>11. t.count = n /\ t.last = d /\ t.longest = most OBVIOUS
<1> HIDE DEF t
<1>12. RunsOver(B, t)
      BY <1>6, <1>8, <1>9, <1>10, <1>11 DEF RunsOver
<1> QED BY <1>1, <1>12 DEF t

\* What a step must leave alone for the days to stay counted: days, streak and
\* events; the progress of daily quests; and what those about to count have read.
QuietWorkers ==
  \A v \in Worker : \/ pc'[v] = pc[v] /\ seen'[v] = seen[v] /\ job'[v] = job[v]
                    \/ /\ pc'[v] \notin {"reward", "rewardCommit"}
                       /\ pc'[v] = "complete" => job'[v] \notin DailyQuest

QuietQuests ==
  \A q \in DailyQuest : /\ quest'[q].progress = quest[q].progress
                        /\ quest'[q].completed = quest[q].completed

LEMMA QuietKeepsDays ==
  ASSUME IInv, DaysInv, repeats' = repeats, UNCHANGED <<streak, active, counted>>,
         day' \in Nat, day <= day', ledger \subseteq ledger', QuietWorkers, QuietQuests
  PROVE  DaysInv'
<1> SUFFICES ASSUME repeats = 0
             PROVE  /\ \A w \in Worker : CountsAlone(w)'
                    /\ \A q \in DailyQuest : Counted(q)'
                    /\ RunsOver(active, streak)' /\ \A d \in active' : d <= day'
      BY DEF DaysInv
<1>0. day \in Nat /\ active \subseteq Nat BY DEF IInv, TypeOK
<1>1. /\ \A w \in Worker : CountsAlone(w)
      /\ \A q \in DailyQuest : Counted(q)
      /\ RunsOver(active, streak) /\ \A d \in active : d <= day
      BY DEF DaysInv
<1>2. ASSUME NEW w \in Worker PROVE CountsAlone(w)'
      <2>1. CASE pc'[w] = pc[w] /\ seen'[w] = seen[w] /\ job'[w] = job[w]
            <3>1. \A m \in Daily : pc[w] = "rewardCommit" =>
                    /\ quest'[<<m, seen[w].day>>].progress = quest[<<m, seen[w].day>>].progress
                    /\ quest'[<<m, seen[w].day>>].completed = quest[<<m, seen[w].day>>].completed
                  <4>1. seen[w].day \in 1..MaxDay BY DEF IInv, TypeOK, Seen
                  <4>2. \A m \in Daily : <<m, seen[w].day>> \in DailyQuest BY <4>1 DEF DailyQuest
                  <4> QED BY <4>2 DEF QuietQuests
            <3>2. seen[w].day \in Nat BY DEF IInv, TypeOK, Seen
            <3>3. CountsAlone(w) BY <1>1
            <3> QED BY <1>0, <2>1, <3>1, <3>2, <3>3 DEF CountsAlone
      <2>2. CASE /\ pc'[w] \notin {"reward", "rewardCommit"}
                 /\ pc'[w] = "complete" => job'[w] \notin DailyQuest
            BY <2>2 DEF CountsAlone, DailyQuest
      <2> QED BY <2>1, <2>2 DEF QuietWorkers
<1>3. ASSUME NEW q \in DailyQuest PROVE Counted(q)'
      <2>1. Counted(q) BY <1>1
      <2> QED BY <2>1 DEF Counted, QuietQuests
<1>4. RunsOver(active, streak)' BY <1>1 DEF RunsOver, RunIs
<1>5. \A d \in active' : d <= day' BY <1>0, <1>1
<1> QED BY <1>2, <1>3, <1>4, <1>5

\* Requests that begin, go on or end without counting anything.
LEMMA QuietBegin ==
  ASSUME TypeOK, NEW w \in Worker, NEW j, NEW step, NEW s, Begin(w, j, step, s),
         step \notin {"reward", "rewardCommit"}, step = "complete" => j \notin DailyQuest
  PROVE  QuietWorkers
  BY DEF QuietWorkers, Begin, TypeOK

LEMMA QuietContinue ==
  ASSUME TypeOK, NEW w \in Worker, NEW step, NEW s, Continue(w, step, s),
         step \notin {"reward", "rewardCommit", "complete"}
  PROVE  QuietWorkers
  BY DEF QuietWorkers, Continue, TypeOK

LEMMA QuietFinish ==
  ASSUME TypeOK, NEW w \in Worker, Finish(w)
  PROVE  QuietWorkers
  BY DEF QuietWorkers, Finish, TypeOK

LEMMA ReadsKeepDays ==
  ASSUME IInv, DaysInv, QuietWorkers, UNCHANGED <<money, quest, streak, clock, history>>
  PROVE  DaysInv'
<1>1. QuietQuests BY DEF QuietQuests
<1>2. day \in Nat BY DEF IInv, TypeOK
<1>3. /\ repeats' = repeats /\ day' = day /\ ledger' = ledger
      /\ UNCHANGED <<streak, active, counted>>
      BY DEF money, clock, history
<1> QED BY <1>1, <1>2, <1>3, QuietKeepsDays

LEMMA RequestsKeepDays ==
  ASSUME IInv, DaysInv, NEW w \in Worker,
         \/ \E m \in Mission : ClaimStart(w, m) \/ CompleteStart(w, m)
         \/ \E i \in Item : PurchaseStart(w, i)
         \/ ClaimMark(w) \/ EarnRead(w) \/ DeadlockVictim(w)
  PROVE  DaysInv'
<1>0. TypeOK BY DEF IInv
<1>1. ASSUME NEW m \in Mission, ClaimStart(w, m) PROVE DaysInv'
      BY <1>0, <1>1, QuietBegin, ReadsKeepDays DEF ClaimStart
<1>2. ASSUME NEW m \in Mission, CompleteStart(w, m) PROVE DaysInv'
      <2>1. EconomyRow(m) \notin DailyQuest BY DEF EconomyRow, DailyQuest
      <2> QED BY <1>0, <1>2, <2>1, QuietBegin, ReadsKeepDays DEF CompleteStart
<1>3. ASSUME NEW i \in Item, PurchaseStart(w, i) PROVE DaysInv'
      BY <1>0, <1>3, QuietBegin, ReadsKeepDays DEF PurchaseStart
<1>4. CASE ClaimMark(w)
      BY <1>0, <1>4, QuietContinue, ReadsKeepDays DEF ClaimMark
<1>5. CASE EarnRead(w)
      BY <1>0, <1>5, QuietContinue, ReadsKeepDays DEF EarnRead
<1>6. CASE DeadlockVictim(w)
      BY <1>0, <1>6, QuietFinish, ReadsKeepDays DEF DeadlockVictim
<1> QED BY <1>1, <1>2, <1>3, <1>4, <1>5, <1>6

\* A claim marks its row and grows the ledger.
LEMMA ClaimCommitKeepsDays ==
  ASSUME IInv, DaysInv, NEW w \in Worker, ClaimCommit(w)
  PROVE  DaysInv'
<1>1. TypeOK /\ day \in Nat /\ DailyQuest \subseteq Quest BY DEF IInv, TypeOK, DailyQuest, Quest, Period
<1>2. QuietWorkers BY <1>1, QuietFinish DEF ClaimCommit
<1>3. QuietQuests
      <2>1. quest' = [quest EXCEPT ![job[w]].claimed = TRUE] BY DEF ClaimCommit
      <2>2. quest \in [Quest -> Progress] BY <1>1 DEF TypeOK
      <2>3. \A q \in Quest : quest'[q].progress = quest[q].progress
                           /\ quest'[q].completed = quest[q].completed
            BY <2>1, <2>2 DEF Progress
      <2> QED BY <1>1, <2>3 DEF QuietQuests
<1>4. ledger \subseteq ledger' BY DEF ClaimCommit, Grant, money
<1>5. repeats' = repeats /\ day' = day /\ UNCHANGED <<streak, active, counted>>
      BY DEF ClaimCommit, clock
<1> QED BY <1>1, <1>2, <1>3, <1>4, <1>5, QuietKeepsDays

\* The economy service completes its own row, and writes money.
LEMMA EconomyKeepsDays ==
  ASSUME IInv, DaysInv, NEW w \in Worker, CompleteMark(w) \/ EarnWrite(w) \/ PurchaseCommit(w)
  PROVE  DaysInv'
<1>1. TypeOK /\ day \in Nat /\ DailyQuest \subseteq Quest BY DEF IInv, TypeOK, DailyQuest, Quest, Period
<1>2. CASE CompleteMark(w)
      <2>1. repeats' = repeats BY <1>2 DEF CompleteMark, clock
      <2>2. CASE repeats # 0 BY <2>1, <2>2 DEF DaysInv
      <2>3. CASE repeats = 0
            <3>1. job[w] \notin DailyQuest
                  BY <1>2, <2>3 DEF CompleteMark, DaysInv, CountsAlone
            <3>2. QuietQuests
                  <4>1. quest \in [Quest -> Progress] BY <1>1 DEF TypeOK
                  <4>2. \A q \in Quest : q # job[w] => quest'[q] = quest[q]
                        BY <1>2, <4>1 DEF CompleteMark
                  <4> QED BY <1>1, <3>1, <4>2 DEF QuietQuests
            <3>3. QuietWorkers BY <1>1, <1>2, QuietContinue DEF CompleteMark
            <3>4. /\ day' = day /\ ledger' = ledger
                  /\ UNCHANGED <<streak, active, counted>>
                  BY <1>2 DEF CompleteMark, money, clock, history
            <3> QED BY <1>1, <2>1, <3>2, <3>3, <3>4, QuietKeepsDays
      <2> QED BY <2>2, <2>3
<1>3. CASE EarnWrite(w) \/ PurchaseCommit(w)
      <2>1. QuietWorkers BY <1>1, <1>3, QuietFinish DEF EarnWrite, PurchaseCommit
      <2>2. /\ repeats' = repeats /\ day' = day /\ ledger' = ledger /\ quest' = quest
            /\ UNCHANGED <<streak, active, counted>>
            BY <1>3 DEF EarnWrite, PurchaseCommit, clock
      <2>3. QuietQuests BY <2>2 DEF QuietQuests
      <2> QED BY <1>1, <2>1, <2>2, <2>3, QuietKeepsDays
<1> QED BY <1>2, <1>3

\* A request that fails counts nothing, and a new day nothing yet.
LEMMA AbortKeepsDays ==
  ASSUME IInv, DaysInv, NEW w \in Worker, Abort(w)
  PROVE  DaysInv'
<1>1. TypeOK /\ day \in Nat BY DEF IInv, TypeOK
<1>2. QuietWorkers BY <1>1, QuietFinish DEF Abort
<1>3. /\ repeats' = repeats /\ day' = day /\ ledger' = ledger /\ quest' = quest
      /\ UNCHANGED <<streak, active, counted>>
      BY DEF Abort, money, clock, history
<1>4. QuietQuests BY <1>3 DEF QuietQuests
<1> QED BY <1>1, <1>2, <1>3, <1>4, QuietKeepsDays

LEMMA AwardPointsKeepsDays ==
  ASSUME IInv, DaysInv, NEW n \in Award, AwardPoints(n)
  PROVE  DaysInv'
<1>1. TypeOK /\ day \in Nat BY DEF IInv, TypeOK
<1>2. QuietWorkers BY DEF QuietWorkers, AwardPoints, handler
<1>3. /\ repeats' = repeats /\ day' = day /\ ledger' = ledger /\ quest' = quest
      /\ UNCHANGED <<streak, active, counted>>
      BY DEF AwardPoints, clock
<1>4. QuietQuests BY <1>3 DEF QuietQuests
<1> QED BY <1>1, <1>2, <1>3, <1>4, QuietKeepsDays

LEMMA NextDayKeepsDays ==
  ASSUME IInv, DaysInv, NextDay
  PROVE  DaysInv'
<1>1. TypeOK /\ day \in Nat BY DEF IInv, TypeOK
<1>2. QuietWorkers BY DEF QuietWorkers, NextDay, handler
<1>3. /\ repeats' = repeats /\ day' = day + 1 /\ ledger' = ledger /\ quest' = quest
      /\ UNCHANGED <<streak, active, counted>>
      BY DEF NextDay, money, history
<1>4. QuietQuests BY <1>3 DEF QuietQuests
<1> QED BY <1>1, <1>2, <1>3, <1>4, QuietKeepsDays

\* With no event reported again, one that begins is fresh.
LEMMA RewardStartKeepsDays ==
  ASSUME IInv, DaysInv, NEW w \in Worker, NEW s \in Source, RewardStart(w, s)
  PROVE  DaysInv'
<1> SUFFICES ASSUME repeats' = 0 PROVE DaysInv' BY DEF DaysInv
<1>1. TypeOK /\ repeats \in Nat BY DEF IInv, TypeOK
<1>2. repeats = 0 /\ s \notin ledger BY <1>1 DEF RewardStart
<1>3. /\ ledger' = ledger /\ quest' = quest /\ day' = day
      /\ UNCHANGED <<streak, active, counted>>
      BY DEF RewardStart, money, history
<1>4. pc'[w] = "reward" /\ seen'[w].fresh
      <2> DEFINE read == [NothingSeen EXCEPT !.xp = wallet.xp, !.fresh = s \notin ledger]
      <2>1. read.fresh = (s \notin ledger) BY DEF NothingSeen
      <2>2. pc'[w] = "reward" /\ seen'[w] = read BY <1>1 DEF RewardStart, Begin, TypeOK
      <2> HIDE DEF read
      <2> QED BY <1>2, <2>1, <2>2
<1>5. \A v \in Worker \ {w} : pc'[v] = pc[v] /\ seen'[v] = seen[v] /\ job'[v] = job[v]
      BY <1>1 DEF RewardStart, Begin, TypeOK
<1>6. \A v \in Worker : CountsAlone(v)'
      <2> TAKE v \in Worker
      <2>1. CASE v = w BY <1>4, <2>1 DEF CountsAlone
      <2>2. CASE v # w
            <3>1. CountsAlone(v) BY <1>2 DEF DaysInv
            <3> QED BY <1>3, <1>5, <2>2, <3>1 DEF CountsAlone
      <2> QED BY <2>1, <2>2
<1>7. \A q \in DailyQuest : Counted(q)'
      BY <1>2, <1>3 DEF DaysInv, Counted
<1>8. RunsOver(active, streak)' /\ \A d \in active' : d <= day'
      BY <1>2, <1>3 DEF DaysInv, RunsOver, RunIs
<1> QED BY <1>6, <1>7, <1>8 DEF DaysInv

\* What the transaction reads of the day, the streak and its quests, it reads now.
LEMMA RewardLockKeepsDays ==
  ASSUME IInv, DaysInv, NEW w \in Worker, RewardLock(w)
  PROVE  DaysInv'
<1> DEFINE read == [seen[w] EXCEPT !.day = day, !.streak = streak,
                                   !.quest = [m \in Mission |-> quest[Row(m, day)]]]
<1>1. TypeOK BY DEF IInv
<1>2. /\ repeats' = repeats /\ day' = day /\ ledger' = ledger /\ quest' = quest
      /\ UNCHANGED <<streak, active, counted>>
      BY DEF RewardLock, money, clock, history
<1>3. pc[w] = "reward" /\ (Finish(w) \/ Continue(w, "rewardCommit", read)) BY DEF RewardLock
<1>4. CASE Finish(w)
      <2>1. QuietWorkers BY <1>1, <1>4, QuietFinish
      <2>2. QuietQuests BY <1>2 DEF QuietQuests
      <2>3. day \in Nat BY <1>1 DEF TypeOK
      <2> QED BY <1>2, <2>1, <2>2, <2>3, QuietKeepsDays
<1>5. CASE Continue(w, "rewardCommit", read)
      <2> SUFFICES ASSUME repeats = 0 PROVE DaysInv' BY <1>2 DEF DaysInv
      <2>1. /\ \A v \in Worker : CountsAlone(v)
            /\ \A q \in DailyQuest : Counted(q)
            /\ RunsOver(active, streak) /\ \A d \in active : d <= day
            BY DEF DaysInv
      <2>2. seen[w] \in Seen /\ day \in 1..MaxDay BY <1>1 DEF TypeOK
      <2>3. /\ read.fresh = seen[w].fresh /\ read.day = day /\ read.streak = streak
            /\ \A m \in Daily : read.quest[m] = quest[<<m, day>>]
            BY <2>2 DEF Seen, Row
      <2> HIDE DEF read
      <2>4. pc'[w] = "rewardCommit" /\ seen'[w] = read
            BY <1>1, <1>5 DEF Continue, TypeOK
      <2>5. \A v \in Worker \ {w} : pc'[v] = pc[v] /\ seen'[v] = seen[v] /\ job'[v] = job[v]
            BY <1>1, <1>5 DEF Continue, TypeOK
      <2>6. CountsAlone(w)'
            <3>1. seen[w].fresh BY <1>3, <2>1 DEF CountsAlone
            <3>2. day <= day BY <2>2
            <3> QED BY <1>2, <2>1, <2>3, <2>4, <3>1, <3>2 DEF CountsAlone
      <2>7. ASSUME NEW v \in Worker, v # w PROVE CountsAlone(v)'
            <3>1. CountsAlone(v) BY <2>1
            <3> QED BY <1>2, <2>5, <2>7, <3>1 DEF CountsAlone
      <2>8. \A q \in DailyQuest : Counted(q)' BY <1>2, <2>1 DEF Counted
      <2>9. RunsOver(active, streak)' /\ \A d \in active' : d <= day'
            BY <1>2, <2>1 DEF RunsOver, RunIs
      <2> QED BY <2>6, <2>7, <2>8, <2>9 DEF DaysInv
<1> QED BY <1>3, <1>4, <1>5

\* A row that is not completed advances by one event.
LEMMA AdvanceRow ==
  ASSUME NEW p \in Progress, NEW m \in Mission, ~p.completed
  PROVE  /\ Advance(p, m) \in Progress
         /\ Advance(p, m).progress = IF p.progress + 1 < Target[m] THEN p.progress + 1 ELSE Target[m]
         /\ Advance(p, m).completed = (p.progress + 1 >= Target[m])
<1> DEFINE k == IF p.progress + 1 < Target[m] THEN p.progress + 1 ELSE Target[m]
           c == p.progress + 1 >= Target[m]
<1>1. Advance(p, m) = [p EXCEPT !.progress = k, !.completed = c] BY DEF Advance
<1>2. k \in Nat /\ c \in BOOLEAN
      <2>1. Target[m] \in Nat /\ p.progress \in Nat BY DEF Progress
      <2> QED BY <2>1
<1> HIDE DEF k, c
<1>3. Advance(p, m) \in Progress /\ Advance(p, m).progress = k /\ Advance(p, m).completed = c
      BY <1>1, <1>2 DEF Progress
<1> QED BY <1>3 DEF k, c

\* A quest that one more event advances.
LEMMA OneMoreCounts ==
  ASSUME NEW q \in DailyQuest, TypeOK, Counted(q), NEW s, s \notin ledger, ~quest[q].completed,
         NEW p \in Progress, p.progress = quest[q].progress, p.completed = quest[q].completed,
         counted'[q] = counted[q] \union {s},
         quest'[q].progress = Advance(p, q[1]).progress,
         quest'[q].completed = Advance(p, q[1]).completed,
         ledger \subseteq ledger', s \in ledger'
  PROVE  Counted(q)'
<1> DEFINE n == Cardinality(counted[q])
           t == Target[q[1]]
<1>1. IsFiniteSet(counted[q]) /\ s \notin counted[q] BY DEF Counted
<1>2. /\ IsFiniteSet(counted'[q]) /\ Cardinality(counted'[q]) = n + 1
      <2> DEFINE C == counted[q]
      <2>1. IsFiniteSet(C) /\ s \notin C BY <1>1
      <2> HIDE DEF C
      <2>2. IsFiniteSet(C \union {s}) /\ Cardinality(C \union {s}) = Cardinality(C) + 1
            BY <2>1, FS_AddElement
      <2> QED BY <2>2 DEF C
<1>3. n \in Nat /\ t \in Nat BY <1>1, FS_CardinalityType DEF DailyQuest
<1>4. counted'[q] \subseteq ledger' BY DEF Counted
<1>5. n < t /\ p.progress = n
      <2>1. ~(n >= t) BY DEF Counted
      <2>2. n < t BY <1>3, <2>1
      <2>3. quest[q].progress = n BY <2>2 DEF Counted
      <2> QED BY <2>2, <2>3
<1>6. /\ Advance(p, q[1]).progress = IF p.progress + 1 < t THEN p.progress + 1 ELSE t
      /\ Advance(p, q[1]).completed = (p.progress + 1 >= t)
      BY AdvanceRow DEF DailyQuest
<1> HIDE DEF n, t
<1>7. quest'[q].progress = IF n + 1 < t THEN n + 1 ELSE t BY <1>5, <1>6
<1>8. quest'[q].completed <=> n + 1 >= t BY <1>5, <1>6
<1>9. Cardinality(counted'[q]) < t <=> n + 1 < t BY <1>2
<1> QED BY <1>2, <1>4, <1>7, <1>8, <1>9 DEF Counted, t

\* An event that commits holds the wallet row alone, so that what it read of the
\* quests and the streak is what it advances.
LEMMA RewardCommitKeepsDays ==
  ASSUME IInv, DaysInv, NEW w \in Worker, RewardCommit(w)
  PROVE  DaysInv'
<1> DEFINE s == job[w]
           d == seen[w].day
           moved == {m \in Counts[s] : ~seen[w].quest[m].completed}
           touched == Kind[s] # "submission" /\ seen[w].streak.last # d
<1>1. TypeOK BY DEF IInv
<1>2. repeats' = repeats /\ day' = day BY DEF RewardCommit, clock
<1> SUFFICES ASSUME repeats = 0 PROVE DaysInv' BY <1>2 DEF DaysInv
<1>3. /\ \A v \in Worker : CountsAlone(v)
      /\ \A q \in DailyQuest : Counted(q)
      /\ RunsOver(active, streak) /\ \A e \in active : e <= day
      BY DEF DaysInv
<1>4. pc[w] = "rewardCommit" /\ seen[w].fresh BY <1>3 DEF RewardCommit, CountsAlone
<1>5. /\ seen[w].day <= day /\ (\A e \in active : e <= seen[w].day) /\ seen[w].streak = streak
      /\ \A m \in Daily : /\ seen[w].quest[m].progress = quest[<<m, seen[w].day>>].progress
                          /\ seen[w].quest[m].completed = quest[<<m, seen[w].day>>].completed
      BY <1>3, <1>4 DEF CountsAlone
<1>6. /\ s \in Source /\ d \in 1..MaxDay /\ seen[w].quest \in [Mission -> Progress]
      /\ streak \in Streak /\ active \in SUBSET (1..MaxDay)
      BY <1>1, <1>4 DEF TypeOK, Seen
<1>7. lock = w /\ s \notin ledger BY <1>4 DEF IInv, LockIsHeld
<1>8. \A v \in Worker \ {w} : pc[v] # "rewardCommit"
      BY <1>3, <1>7 DEF CountsAlone, IInv, LockIsHeld
<1>9. ledger \subseteq ledger' /\ s \in ledger'
      BY <1>4 DEF RewardCommit, Grant
<1>10. /\ quest' = [q \in Quest |->
                 IF q[1] \in moved /\ q = Row(q[1], d)
                   THEN [Advance(seen[w].quest[q[1]], q[1]) EXCEPT !.claimed = quest[q].claimed]
                   ELSE quest[q]]
       /\ counted' = [q \in Quest |-> IF q[1] \in moved /\ q = Row(q[1], d)
                                        THEN counted[q] \union {s} ELSE counted[q]]
       /\ streak' = (IF touched THEN TouchStreak(seen[w].streak, d) ELSE streak)
       /\ active' = (IF Kind[s] # "submission" THEN active \union {d} ELSE active)
       /\ Finish(w)
       BY DEF RewardCommit
<1>11. pc'[w] = "idle" /\ \A v \in Worker \ {w} : pc'[v] = pc[v] /\ seen'[v] = seen[v] /\ job'[v] = job[v]
       BY <1>1, <1>10 DEF Finish, TypeOK
<1> HIDE DEF moved
<1>12. ASSUME NEW v \in Worker PROVE CountsAlone(v)'
       <2>1. CASE v = w BY <1>11, <2>1 DEF CountsAlone
       <2>2. CASE v # w
             <3>1. CountsAlone(v) BY <1>3
             <3> QED BY <1>8, <1>11, <2>2, <3>1 DEF CountsAlone, DailyQuest
       <2> QED BY <2>1, <2>2
<1>13. ASSUME NEW q \in DailyQuest PROVE Counted(q)'
       <2>1. /\ q \in Quest /\ q[1] \in Daily /\ q[1] \in Mission /\ Counted(q)
             /\ Row(q[1], d) = <<q[1], d>>
             BY <1>3 DEF DailyQuest, Quest, Period, Row
       <2>2. CASE q[1] \in moved /\ q = Row(q[1], d)
             <3> DEFINE p == seen[w].quest[q[1]]
             <3>1. p \in Progress /\ p.progress = quest[q].progress /\ p.completed = quest[q].completed
                   BY <1>5, <1>6, <2>1, <2>2
             <3>2. ~quest[q].completed BY <2>2, <3>1 DEF moved
             <3>3. /\ counted'[q] = counted[q] \union {s}
                   /\ quest'[q] = [Advance(p, q[1]) EXCEPT !.claimed = quest[q].claimed]
                   BY <1>10, <2>1, <2>2
             <3> HIDE DEF p, s, d
             <3>4. Advance(p, q[1]) \in Progress BY <2>1, <3>1, <3>2, AdvanceRow
             <3>5. /\ quest'[q].progress = Advance(p, q[1]).progress
                   /\ quest'[q].completed = Advance(p, q[1]).completed
                   BY <3>3, <3>4 DEF Progress
             <3> QED BY <1>1, <1>7, <1>9, <2>1, <3>1, <3>2, <3>3, <3>5, OneMoreCounts
       <2>3. CASE ~(q[1] \in moved /\ q = Row(q[1], d))
             <3>1. counted'[q] = counted[q] /\ quest'[q] = quest[q] BY <1>10, <2>1, <2>3
             <3> QED BY <1>9, <2>1, <3>1 DEF Counted
       <2> QED BY <2>2, <2>3
<1>14. RunsOver(active, streak)'
       <2>1. CASE touched
             <3>1. active' = active \union {d} /\ streak' = TouchStreak(streak, d) /\ streak.last # d
                   BY <1>5, <1>10, <2>1
             <3>2. RunsOver(active \union {d}, TouchStreak(streak, d))
                   BY <1>3, <1>5, <1>6, <3>1, DayTouched
             <3> QED BY <3>1, <3>2 DEF RunsOver, RunIs
       <2>2. CASE ~touched
             <3>1. streak' = streak BY <1>10, <2>2
             <3>2. active' = active
                   <4>1. CASE Kind[s] = "submission" BY <1>10, <4>1
                   <4>2. CASE Kind[s] # "submission"
                         <5>1. streak.last = d BY <1>5, <2>2, <4>2
                         <5>2. active # {}
                               <6>1. active = {} => streak = NoStreak BY <1>3 DEF RunsOver
                               <6>2. NoStreak.last = -1 BY DEF NoStreak
                               <6> QED BY <1>6, <5>1, <6>1, <6>2
                         <5>3. d \in active BY <1>3, <5>1, <5>2 DEF RunsOver
                         <5> QED BY <1>10, <5>3
                   <4> QED BY <4>1, <4>2
             <3> QED BY <1>3, <3>1, <3>2 DEF RunsOver, RunIs
       <2> QED BY <2>1, <2>2
<1>15. \A e \in active' : e <= day' BY <1>2, <1>3, <1>5, <1>10
<1> QED BY <1>12, <1>13, <1>14, <1>15 DEF DaysInv

LEMMA InitCountsDays == ASSUME Init PROVE DaysInv
<1>1. \A w \in Worker : CountsAlone(w) BY DEF Init, CountsAlone
<1>2. ASSUME NEW q \in DailyQuest PROVE Counted(q)
      <2>1. q \in Quest /\ Target[q[1]] \in Nat \ {0} BY DEF DailyQuest, Quest, Period
      <2>2. counted[q] = {} /\ quest[q].progress = 0 /\ ~quest[q].completed BY <2>1 DEF Init
      <2>3. IsFiniteSet({}) /\ Cardinality({}) = 0 BY FS_EmptySet
      <2> QED BY <2>1, <2>2, <2>3 DEF Counted
<1>3. RunsOver(active, streak) /\ \A d \in active : d <= day BY DEF Init, RunsOver
<1> QED BY <1>1, <1>2, <1>3 DEF DaysInv

LEMMA StepsKeepDays == ASSUME IInv, DaysInv, [Next]_vars PROVE DaysInv'
<1>1. ASSUME NEW w \in Worker, Proceed(w) PROVE DaysInv'
      BY <1>1, RewardLockKeepsDays, RewardCommitKeepsDays, ClaimCommitKeepsDays, EconomyKeepsDays,
         RequestsKeepDays DEF Proceed
<1>2. ASSUME NEW w \in Worker, Request(w) PROVE DaysInv'
      BY <1>2, RewardStartKeepsDays, RequestsKeepDays DEF Request
<1>3. ASSUME NEW w \in Worker, Abort(w) PROVE DaysInv' BY <1>3, AbortKeepsDays
<1>4. CASE UNCHANGED vars
      <2>1. QuietWorkers BY <1>4 DEF QuietWorkers, vars, handler
      <2> QED BY <1>4, <2>1, ReadsKeepDays DEF vars
<1> QED BY <1>1, <1>2, <1>3, <1>4, NextDayKeepsDays, AwardPointsKeepsDays DEF Next, RewardRepeated

\* Until an attempt or a submission is reported again, every daily quest counts
\* each event once, and the streak is the run of days the student was rewarded on.
THEOREM DaysAreRight == Spec => []DaysAreCounted
<1>1. ASSUME IInv, DaysInv PROVE DaysAreCounted
      <2>1. CASE repeats = 0
            <3>1. QuestCountsEachOnce
                  BY <1>1, <2>1 DEF DaysInv, Counted, DailyQuest, QuestCountsEachOnce
            <3>2. StreakIsRunOfDays
                  BY <1>1, <2>1, RunsAreStreak DEF DaysInv, IInv
            <3> QED BY <3>1, <3>2 DEF DaysAreCounted
      <2>2. CASE repeats # 0
            BY <1>1, <2>2 DEF DaysAreCounted, IInv, TypeOK
      <2> QED BY <2>1, <2>2
<1>2. IInv /\ DaysInv /\ [Next]_vars => DaysInv' BY StepsKeepDays
<1> QED BY <1>1, <1>2, InitCountsDays, InvariantHolds, PTL DEF Spec
=============================================================================
