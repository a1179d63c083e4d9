SPECIFICATION ObjectsFairSpec
CONSTANTS
  s1 = s1
  s2 = s2
  s3 = s3
  s4 = s4
  s5 = s5
  Threads = {t1, t2}
  Streams = {s1, s2, s3, s4, s5}
  Parms = {s3}
  File = File
  Nothing = Nothing
  Documents <- MCDocuments
  AskedFor <- MCAskedFor
  Uses <- MCUses
  MaxNesting = 2
  MaxPanics = 1
INVARIANTS DamageIsConfined DerivedOnce
PROPERTIES EveryRequestEnds
