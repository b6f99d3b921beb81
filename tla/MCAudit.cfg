SPECIFICATION FairSpec
CONSTANTS
  t1 = t1
  t2 = t2
  Nobody = Nobody
  Events <- AllEvents
  Legacy <- OldEvents
  Threads = {t1, t2}
  MinAge = 1
  MaxTime = 2
  MaxCrashes = 1
  MayDamage = TRUE
INVARIANTS TypeOK ChainIsIntact
PROPERTIES SavedIsStored OnlyExpiredGo VerdictIsRight DamageIsReported
