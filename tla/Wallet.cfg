SPECIFICATION Spec
CONSTANTS
  lesson1 = lesson1
  attempt1 = attempt1
  m1 = m1
  badge = badge
  hat = hat
  cape = cape
  Worker = {w1, w2}
  None = None
  Source = {lesson1, attempt1}
  Kind <- KindOf
  Xp <- XpOf
  Coins <- CoinsOf
  Mission = {m1}
  Daily = {m1}
  Counts <- CountsOf
  Target <- TargetOf
  QuestXp <- QuestXpOf
  QuestCoins <- QuestCoinsOf
  Achievement = {badge}
  Needs <- NeedsOf
  Bonus <- BonusOf
  Item = {hat, cape}
  Price <- PriceOf
  OpeningCoins = 3
  Award = {20}
  MaxAward = 20
  MaxDay = 3
  MaxRepeat = 1
SYMMETRY Symmetry
INVARIANTS PaidOnce BalancesAreSums DaysAreCounted OverdraftIsOverlap
