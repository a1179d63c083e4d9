SPECIFICATION FairSpec
CONSTANTS
  f1 = f1 f2 = f2 up = up down = down
  upStaging = upStaging downStaging = downStaging
  Fillers = {f1, f2}
  Copiers = {up, down}
  Rounds <- Starts
  MaxFailures = 2
  Scratches = {1, 2, 3}
  Staging <- Directions
  Shared = Shared
  Nobody = Nobody
INVARIANTS HostAccessAlone PoolsQuiet ScratchesLentOnce
PROPERTIES EveryoneComesBack
CHECK_DEADLOCK FALSE
