SPECIFICATION Spec
CONSTANTS
  Threads = {t1, t2}
  NPages = 5
  Spreads = {2, 3}
  NoPage = NoPage
INVARIANTS WholeOrNothing SuccessMeansEverything PagesAccountedFor OneWindowHeld
CHECK_DEADLOCK FALSE
