SPECIFICATION FairSpec
CONSTANTS
  c1 = c1 c2 = c2 it = it
  Jobs = {c1, c2, it}
  Iterators = {it}
  Deskewing = {c1, it}
  PoolSize = 2
  Selection <- Pages
  Total <- Lengths
  Capacity <- Capacities
  After <- OneReader
  MayCancel = {c1}
  Faulty = {c2, it}
INVARIANTS EndMeansSessionGone NoPageAfterRaise
PROPERTIES KeepsPromise EveryJobEnds
CHECK_DEADLOCK FALSE
