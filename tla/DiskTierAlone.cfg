SPECIFICATION FairSpec
CONSTANTS
  p1 = p1 p2 = p2 t1 = t1 t2 = t2 d1 = d1 d2 = d2 a = a b = b Final = Final
  Procs = {p1}
  Threads = {t1, t2}
  ProcOf <- OneProcess
  Docs = {d1, d2}
  Entries = {a, b}
  DocOf <- TwoDocuments
  Size <- UnitAndDouble
  Depth = 2
  Budget = 2
  BadAtStart = {}
  ReadErrors = TRUE
  Killable = {}
  EstimateCap = 2
INVARIANTS InFlightExact EstimateCovers NoTempLeft
PROPERTIES DropReturns
