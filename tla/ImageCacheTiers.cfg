SPECIFICATION MCSpec
CONSTANTS
  t1 = t1 t2 = t2 k1 = k1 k2 = k2 d = d a = a b = b
  Threads = {t1, t2}
  Keys = {k1, k2}
  Hashes = {a, b}
  HashOf <- OneHashEach
  DocOf <- OneDocument
  Size <- UnitAndDouble
  VramBudget = 2
  HostBudget = 2
  DiskAtStart <- NoFiles
  WriteQueue = 0
  IterSlack = 4
  DriftCap = 3
  PinCap = 0
INVARIANTS TypeOK VramAccounting OvershootBounded
SYMMETRY ThreadSymmetry
CHECK_DEADLOCK FALSE
