SPECIFICATION FairSpec
CONSTANTS
  Renderers = {r1, r2}
  NoOne = NoOne
  Workers = {w1, w2}
  a = a b = b c = c d = d
  Images = {a, b, c, d}
  Dct = {a, b, d}
  Refs <- Walk
  MaxImages = 2
  Nobody = Nobody
INVARIANTS OneJobPerImage CancelIsPrompt NothingLeftRunning
PROPERTIES EveryRequestAnswered SessionGetsThrough
CHECK_DEADLOCK FALSE
