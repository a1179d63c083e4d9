SPECIFICATION MCSpec
CONSTANTS
  p1 = p1 p2 = p2 a = a b = b small = small large = large
  NoPage = NoPage NoDraw = NoDraw
  Pages = {p1, p2}
  Keys = {a, b}
  Draws = {small, large}
  Jpx = {b}
  Size <- OneAndTwo
  Budget = 2
  PageBudget = 2
  Results = {"host", "device", "curtailed", "curtailedFailure", "failed", "absent"}
  MaxPanics = 1
INVARIANTS TypeOK BytesMatchKept BudgetRespected OneMaker
PROPERTIES KeptNeverRedecoded WaitingPageServed
