----------------------------- MODULE MCDiskTier -----------------------------
(* Instances of DiskTier for TLC.                                          *)
EXTENDS DiskTier, TLC

CONSTANTS p1, p2, t1, t2, d1, d2, a, b

OneProcess == (t1 :> p1) @@ (t2 :> p1)
TwoProcesses == (t1 :> p1) @@ (t2 :> p2)
TwoDocuments == (a :> d1) @@ (b :> d2)
OnlyEntry == a :> d1
UnitEntry == a :> 1
UnitAndDouble == (a :> 1) @@ (b :> 2)
=============================================================================
