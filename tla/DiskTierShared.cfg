SPECIFICATION Spec
CONSTANTS
  p1 = p1 p2 = p2 t1 = t1 t2 = t2 d1 = d1 d2 = d2 a = a b = b Final = Final
  Procs = {p1, p2}
  Threads = {t1, t2}
  ProcOf <- TwoProcesses
  Docs = {d1}
  Entries = {a}
  DocOf <- OnlyEntry
  Size <- UnitEntry
  Depth = 1
  Budget = 1
  BadAtStart = {a}
  ReadErrors = TRUE
  Killable = {p1}
  EstimateCap = 2
INVARIANTS NoEntryTorn EstimateCovers
