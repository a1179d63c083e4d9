------------------------- MODULE MCDeviceImageCache -------------------------
(* Instances of DeviceImageCache for TLC.                                  *)
EXTENDS DeviceImageCache, TLC

CONSTANTS t1, t2, k1, k2, d, a, b

VARIABLE drawn  \* the objects the threads draw

OneDocument == [k \in Keys |-> d]
OneHashEach == (k1 :> a) @@ (k2 :> b)
UnitAndDouble == (a :> 1) @@ (b :> 2)
NoFiles == {}
ThreadSymmetry == Permutations(Threads)

(* Two sessions: in one the threads draw two images and the disk writer    *)
(* never gets to run, in the other they draw one image, which comes back   *)
(* from the disk.                                                          *)
MCInit == Init /\ drawn \in {{k1, k2}, {k2}}
MCNext ==
  /\ Next
  /\ \A t \in Threads : pc'[t] = "probe" => key'[t] \in drawn
  /\ drawn = {k1, k2} => (disk' = disk /\ queued \subseteq queued')
  /\ UNCHANGED drawn
MCFairSpec ==
  MCInit /\ [][MCNext]_<<vars, drawn>> /\ \A t \in Threads : WF_vars(Step(t))

\* Both images drawn, and no writer at all.
BothDrawn == Init /\ drawn = Keys
MCSpec == BothDrawn /\ [][Next /\ UNCHANGED drawn]_<<vars, drawn>>
=============================================================================
