----------------------- MODULE DeviceImageCacheProofs -----------------------
(* Proofs about DeviceImageCache.                                          *)
EXTENDS DeviceImageCache, TotalsTheorems

-----------------------------------------------------------------------------
(* Types.                                                                  *)

\* What the assumptions on the constants say of keys, hashes and sizes.
LEMMA Constants ==
  /\ AnyKey \in Keys
  /\ AnyHash \in Hashes
  /\ \A k \in Keys : HashOf[k] \in Hashes
  /\ \A h \in Hashes : Size[h] \in Nat
BY SomeKey, HashOfType, SizeType DEF AnyKey, AnyHash

\* The bound of an eviction loop, the entries plus a slack, is a number.
LEMMA MaxItersType ==
  ASSUME NEW E, E \subseteq Hashes
  PROVE  MaxIters(E) \in Int
<1>1. IsFiniteSet(E)
  BY HashesFinite, FS_Subset
<1> QED  BY <1>1, FS_CardinalityType, BoundsType DEF MaxIters

\* A thread goes to a label.
LEMMA GotoType ==
  ASSUME CallTypes, NEW t \in Threads, NEW l \in Labels, Goto(t, l)
  PROVE  pc' \in [Threads -> Labels]
BY DEF CallTypes, Goto

\* Locals of the eviction loop are reset within their types when it ends.
LEMMA EvictionOverType ==
  ASSUME CallTypes, NEW t \in Threads, EvictionOver(t)
  PROVE  /\ room' \in [Threads -> {"promote", "insert"}]
         /\ victim' \in [Threads -> Hashes]
         /\ left' \in [Threads -> Int]
BY Constants DEF CallTypes, EvictionOver

\* So are they set when evict_to_fit is called.
LEMMA StartEvictionType ==
  ASSUME TierTypes, CallTypes, NEW t \in Threads, NEW why \in {"promote", "insert"},
         StartEviction(t, why)
  PROVE  /\ pc' \in [Threads -> Labels]
         /\ room' \in [Threads -> {"promote", "insert"}]
         /\ victim' \in [Threads -> Hashes]
         /\ left' \in [Threads -> Int]
<1>1. MaxIters(primary) \in Int
  BY MaxItersType DEF TierTypes
<1>2. "check" \in Labels
  BY DEF Labels
<1>3. pc' \in [Threads -> Labels]
  BY <1>2, GotoType DEF StartEviction
<1> QED  BY <1>1, <1>3, Constants DEF CallTypes, StartEviction

\* A return from the cache leaves the locals well typed, with the image pinned or not.
LEMMA ReturnType ==
  ASSUME CallTypes, NEW t \in Threads, Return(t),
         pins' \in [Threads -> SUBSET Hashes], aliased' \subseteq Keys
  PROVE  CallTypes'
<1>1. "idle" \in Labels
  BY DEF Labels
<1>2. pc' \in [Threads -> Labels]
  BY <1>1, GotoType DEF Return
<1>3. EvictionOver(t)
  BY DEF Return
<1> QED  BY <1>2, <1>3, EvictionOverType, Constants DEF CallTypes, Return, hosting

\* A hit returns.
LEMMA HitType ==
  ASSUME CallTypes, NEW t \in Threads, Hit(t)
  PROVE  CallTypes'
<1>1. HashOfThread(t) \in Hashes /\ key[t] \in Keys
  BY Constants DEF CallTypes, HashOfThread
<1>2. pins' \in [Threads -> SUBSET Hashes] /\ aliased' \subseteq Keys
  BY <1>1 DEF Hit, CallTypes
<1> QED  BY <1>2, ReturnType DEF Hit

\* A miss goes on to the next probe.
LEMMA MissType ==
  ASSUME CallTypes, NEW t \in Threads, Miss(t)
  PROVE  CallTypes'
<1>1. "probe" \in Labels /\ "decode" \in Labels
  BY DEF Labels
<1>2. pc' \in [Threads -> Labels]
  BY <1>1, GotoType DEF Miss
<1>3. EvictionOver(t)
  BY DEF Miss
<1> QED  BY <1>2, <1>3, EvictionOverType DEF CallTypes, Miss, hosting

\* A failed promotion counts as a miss.
LEMMA PromotionFailedType ==
  ASSUME TierTypes, CallTypes, NEW t \in Threads, PromotionFailed(t)
  PROVE  CallTypes'
<1>1. CASE Miss(t)
  BY <1>1, MissType
<1>2. CASE Goto(t, "disk") /\ EvictionOver(t) /\ hostPins' = hostPins \ {t}
             /\ UNCHANGED <<aliased, pins, request, hosting>>
  <2>1. "disk" \in Labels
    BY DEF Labels
  <2>2. pc' \in [Threads -> Labels]
    BY <1>2, <2>1, GotoType
  <2> QED  BY <1>2, <2>2, EvictionOverType DEF CallTypes, request, hosting
<1>3. CASE StartEviction(t, "insert") /\ hostPins' = hostPins \ {t}
             /\ UNCHANGED <<aliased, pins, request, hosting>>
  BY <1>3, StartEvictionType DEF CallTypes, request, hosting
<1> QED  BY <1>1, <1>2, <1>3 DEF PromotionFailed

\* A failed eviction fails the call it made room for.
LEMMA EvictionFailedType ==
  ASSUME TierTypes, CallTypes, NEW t \in Threads, EvictionFailed(t)
  PROVE  CallTypes'
<1>1. CASE PromotionFailed(t)
  BY <1>1, PromotionFailedType
<1>2. CASE Return(t) /\ UNCHANGED <<pins, aliased>>
  BY <1>2, ReturnType DEF CallTypes
<1> QED  BY <1>1, <1>2 DEF EvictionFailed

\* The tiers begin empty and the threads idle.
LEMMA TypesInit == Init => TierTypes /\ CallTypes
BY Constants DEF Init, TierTypes, CallTypes, Labels

\* The VRAM eviction loop goes round.
LEMMA NextIterationType ==
  ASSUME CallTypes, NEW t \in Threads, NextIteration(t)
  PROVE  /\ pc' \in [Threads -> Labels]
         /\ victim' \in [Threads -> Hashes]
         /\ left' \in [Threads -> Int]
<1>1. pc' \in [Threads -> Labels]
  BY GotoType DEF NextIteration, Labels
<1>2. left[t] - 1 \in Int
  BY DEF CallTypes
<1>3. left' \in [Threads -> Int]
  BY <1>2 DEF CallTypes, NextIteration
<1>4. victim' \in [Threads -> Hashes]
  BY Constants DEF CallTypes, NextIteration
<1> QED  BY <1>1, <1>3, <1>4

\* The host eviction loop begins or goes round.
LEMMA HostEvictionType ==
  ASSUME TierTypes, CallTypes, NEW t \in Threads, StartHostEviction(t) \/ NextHostIteration(t)
  PROVE  /\ pc' \in [Threads -> Labels]
         /\ hostLeft' \in [Threads -> Int]
         /\ NextHostIteration(t) => hostVictim' \in [Threads -> Hashes]
<1>1. MaxIters(host) \in Int
  BY MaxItersType DEF TierTypes
<1>2. pc' \in [Threads -> Labels]
  BY GotoType DEF StartHostEviction, NextHostIteration, Labels
<1> QED  BY <1>1, <1>2, Constants DEF CallTypes, StartHostEviction, NextHostIteration

\* Every step keeps the types, action by action; the counters are only known to be integers so far.
LEMMA StepTypes ==
  ASSUME TierTypes, CallTypes, NEW t \in Threads, ThreadNext(t)
  PROVE  TierTypes' /\ CallTypes'
<1>0. /\ HashOfThread(t) \in Hashes /\ Size[HashOfThread(t)] \in Int
      /\ Hosted(t) \in Hashes /\ Size[Hosted(t)] \in Int
      /\ victim[t] \in Hashes /\ Size[victim[t]] \in Int
      /\ hostVictim[t] \in Hashes /\ Size[hostVictim[t]] \in Int
  BY Constants DEF CallTypes, HashOfThread, Hosted
<1>1. CASE Probe(t)
  <2>1. TierTypes'
    BY <1>1 DEF Probe, TierTypes, hostTier
  <2>2. CASE Hit(t)
    BY <2>1, <2>2, HitType
  <2>3. CASE Goto(t, "hostLookup") /\ UNCHANGED <<pins, aliased, request, evicting, hosting, hostPins>>
    <3>1. pc' \in [Threads -> Labels]
      BY <2>3, GotoType DEF Labels
    <3> QED  BY <2>1, <2>3, <3>1 DEF CallTypes, request, evicting, hosting
  <2> QED  BY <1>1, <2>2, <2>3 DEF Probe
<1>2. CASE Decode(t)
  <2>1. TierTypes'
    BY <1>2 DEF Decode, TierTypes, vram, hostTier
  <2>2. CASE Return(t)
    BY <1>2, <2>1, <2>2, ReturnType DEF Decode, CallTypes, vram
  <2>3. CASE Goto(t, "probe") /\ UNCHANGED <<request, evicting, hosting, hostPins>>
    <3>1. pc' \in [Threads -> Labels]
      BY <2>3, GotoType DEF Labels
    <3> QED  BY <1>2, <2>1, <2>3, <3>1 DEF Decode, CallTypes, vram, request, evicting, hosting
  <2> QED  BY <1>2, <2>2, <2>3 DEF Decode
<1>3. CASE InsertInstall(t)
  <2>1. TierTypes'
    BY <1>0, <1>3 DEF InsertInstall, TierTypes, vram, hostTier
  <2>2. CASE Return(t) /\ UNCHANGED <<vram, aliased, queued>>
    BY <2>1, <2>2, ReturnType DEF CallTypes, vram
  <2>3. CASE Hit(t)
    BY <2>1, <2>3, HitType
  <2> QED  BY <1>3, <2>2, <2>3 DEF InsertInstall
<1>4. CASE HostLookup(t)
  <2>1. TierTypes'
    BY <1>4 DEF HostLookup, TierTypes, hostTier
  <2>2. CASE /\ hostPins' = hostPins \cup {t}
             /\ StartEviction(t, "promote")
             /\ UNCHANGED <<pins, aliased, request, hosting>>
    BY <2>1, <2>2, StartEvictionType DEF CallTypes, request, hosting
  <2>3. CASE PromotionFailed(t)
    BY <2>1, <2>3, PromotionFailedType
  <2> QED  BY <1>4, <2>2, <2>3 DEF HostLookup
<1>5. CASE PromoteInstall(t)
  <2>1. TierTypes'
    BY <1>0, <1>5 DEF PromoteInstall, TierTypes, hostTier
  <2>2. CASE PromotionFailed(t)
    BY <2>1, <2>2, PromotionFailedType
  <2>3. CASE Hit(t)
    BY <2>1, <2>3, HitType
  <2> QED  BY <1>5, <2>2, <2>3 DEF PromoteInstall
<1>6. CASE DiskLookup(t)
  <2>1. TierTypes'
    BY <1>6 DEF DiskLookup, TierTypes, hostTier
  <2>2. CASE Miss(t)
    BY <2>1, <2>2, MissType
  <2>3. CASE /\ Goto(t, "hostReplace")
             /\ source' = [source EXCEPT ![t] = "disk"]
             /\ purpose' = [purpose EXCEPT ![t] = "disk"]
             /\ UNCHANGED <<pins, aliased, disk, key, stage, evicting, hostVictim, hostLeft,
                            hostPins>>
    <3>1. pc' \in [Threads -> Labels]
      BY <2>3, GotoType DEF Labels
    <3> QED  BY <2>1, <2>3, <3>1 DEF CallTypes, evicting
  <2> QED  BY <1>6, <2>2, <2>3 DEF DiskLookup
<1>7. CASE Check(t)
  <2>1. TierTypes'
    BY <1>7 DEF Check, TierTypes, hostTier
  <2>2. CASE EvictionFailed(t)
    BY <2>1, <2>2, EvictionFailedType
  <2>3. CASE /\ IF HasRoom(t)
                   THEN Goto(t, "install") /\ left' = [left EXCEPT ![t] = 0]
                   ELSE Goto(t, "pick") /\ UNCHANGED left
             /\ UNCHANGED <<pins, aliased, request, room, victim, hosting, hostPins>>
    <3>1. pc' \in [Threads -> Labels]
      BY <2>3, GotoType DEF Labels
    <3>2. left' \in [Threads -> Int]
      BY <2>3 DEF CallTypes
    <3> QED  BY <2>1, <2>3, <3>1, <3>2 DEF CallTypes, request, hosting
  <2> QED  BY <1>7, <2>2, <2>3 DEF Check
<1>8. CASE Pick(t)
  <2>1. TierTypes'
    BY <1>8 DEF Pick, TierTypes, hostTier
  <2>2. CASE EvictionFailed(t)
    BY <2>1, <2>2, EvictionFailedType
  <2>3. ASSUME NEW v \in Unpinned,
               victim' = [victim EXCEPT ![t] = v],
               Goto(t, "remove"),
               UNCHANGED <<pins, aliased, request, room, left, hosting, hostPins>>
        PROVE  CallTypes'
    <3>1. pc' \in [Threads -> Labels]
      BY <2>3, GotoType DEF Labels
    <3>2. v \in Hashes
      BY DEF Unpinned, TierTypes
    <3> QED  BY <2>3, <3>1, <3>2 DEF CallTypes, request, hosting
  <2> QED  BY <1>8, <2>1, <2>2, <2>3 DEF Pick
<1>9. CASE Remove(t)
  <2>1. TierTypes'
    BY <1>0, <1>9 DEF Remove, TierTypes, vram, hostTier
  <2>2. pc' \in [Threads -> Labels]
    BY <1>9, GotoType, NextIterationType DEF Remove, Labels
  <2> QED  BY <1>0, <1>9, <2>1, <2>2, NextIterationType, Constants
           DEF Remove, TierTypes, CallTypes, vram, request, evicting, hosting
<1>10. CASE Subtract(t)
  <2>1. TierTypes'
    BY <1>0, <1>10 DEF Subtract, TierTypes, vram, hostTier
  <2>2. pc' \in [Threads -> Labels]
    BY <1>10, GotoType DEF Subtract, Labels
  <2> QED  BY <1>0, <1>10, <2>1, <2>2, Constants
           DEF Subtract, TierTypes, CallTypes, vram, request, evicting, hosting
<1>11. CASE Demote(t)
  <2>1. TierTypes'
    BY <1>0, <1>11 DEF Demote, TierTypes, vram, hostTier
  <2>2. pc' \in [Threads -> Labels]
    BY <1>11, GotoType, NextIterationType DEF Demote, Labels
  <2> QED  BY <1>0, <1>11, <2>1, <2>2, NextIterationType, Constants
           DEF Demote, TierTypes, CallTypes, vram, request, evicting, hosting
<1>12. CASE HostReplace(t)
  <2>1. TierTypes'
    BY <1>0, <1>12 DEF HostReplace, HostRemove, TierTypes, vram, hostTier
  <2>2. pc' \in [Threads -> Labels]
    BY <1>12, GotoType, HostEvictionType DEF HostReplace, HostRemove, Labels
  <2> QED  BY <1>0, <1>12, <2>1, <2>2, HostEvictionType, Constants
           DEF HostReplace, HostRemove, TierTypes, CallTypes, vram, request, evicting, hosting
<1>13. CASE HostReplaceSub(t)
  <2>1. TierTypes'
    BY <1>0, <1>13 DEF HostReplaceSub, TierTypes, vram, hostTier
  <2>2. pc' \in [Threads -> Labels]
    BY <1>13, GotoType, HostEvictionType DEF HostReplaceSub, Labels
  <2> QED  BY <1>0, <1>13, <2>1, <2>2, HostEvictionType, Constants
           DEF HostReplaceSub, TierTypes, CallTypes, vram, request, evicting, hosting
<1>14. CASE HostCheck(t)
  <2>1. TierTypes'
    BY <1>0, <1>14 DEF HostCheck, TierTypes, vram, hostTier
  <2>2. pc' \in [Threads -> Labels]
    BY <1>14, GotoType DEF HostCheck, Labels
  <2> QED  BY <1>0, <1>14, <2>1, <2>2, Constants
           DEF HostCheck, TierTypes, CallTypes, vram, request, evicting, hosting
<1>15. CASE HostPick(t)
  <2>1. TierTypes'
    BY <1>0, <1>15 DEF HostPick, HostUnpinned, TierTypes, vram, hostTier
  <2>2. pc' \in [Threads -> Labels]
    BY <1>15, GotoType DEF HostPick, HostUnpinned, Labels
  <2> QED  BY <1>0, <1>15, <2>1, <2>2, Constants
           DEF HostPick, HostUnpinned, TierTypes, CallTypes, vram, request, evicting, hosting
<1>16. CASE HostDrop(t)
  <2>1. TierTypes'
    BY <1>0, <1>16 DEF HostDrop, HostRemove, TierTypes, vram, hostTier
  <2>2. pc' \in [Threads -> Labels]
    BY <1>16, GotoType, HostEvictionType DEF HostDrop, HostRemove, Labels
  <2> QED  BY <1>0, <1>16, <2>1, <2>2, HostEvictionType, Constants
           DEF HostDrop, HostRemove, TierTypes, CallTypes, vram, request, evicting, hosting
<1>17. CASE HostDropSub(t)
  <2>1. TierTypes'
    BY <1>0, <1>17 DEF HostDropSub, TierTypes, vram, hostTier
  <2>2. pc' \in [Threads -> Labels]
    BY <1>17, GotoType, HostEvictionType DEF HostDropSub, Labels
  <2> QED  BY <1>0, <1>17, <2>1, <2>2, HostEvictionType, Constants
           DEF HostDropSub, TierTypes, CallTypes, vram, request, evicting, hosting
<1>18. CASE HostAdd(t)
  <2>1. TierTypes'
    BY <1>0, <1>18 DEF HostAdd, TierTypes, vram, hostTier
  <2>2. pc' \in [Threads -> Labels]
    BY <1>18, GotoType DEF HostAdd, Labels
  <2> QED  BY <1>0, <1>18, <2>1, <2>2, Constants
           DEF HostAdd, TierTypes, CallTypes, vram, request, evicting, hosting
<1>19. CASE HostPut(t)
  <2>1. TierTypes'
    BY <1>0, <1>19 DEF HostPut, HostInsertOver, TierTypes, vram, hostTier
  <2>2. pc' \in [Threads -> Labels]
    BY <1>19, GotoType, NextIterationType DEF HostPut, HostInsertOver, Labels
  <2>3. hostPins' \subseteq Threads
    BY <1>19 DEF HostPut, CallTypes
  <2>4. /\ room' = room /\ left' \in [Threads -> Int] /\ victim' \in [Threads -> Hashes]
        /\ UNCHANGED <<aliased, pins, key, stage, source>>
    BY <1>19, NextIterationType DEF HostPut, CallTypes, vram, request
  <2>5. /\ purpose' \in [Threads -> {"demote", "disk"}]
        /\ hostVictim' \in [Threads -> Hashes] /\ hostLeft' \in [Threads -> Int]
    BY <1>19, Constants DEF HostPut, HostInsertOver, CallTypes
  <2> QED  BY <2>1, <2>2, <2>3, <2>4, <2>5 DEF CallTypes
<1>20. ASSUME NEW k \in Keys, Request(t, k)  PROVE TierTypes' /\ CallTypes'
  <2>1. TierTypes'
    BY <1>20 DEF Request, TierTypes, vram, hostTier
  <2>2. pc' \in [Threads -> Labels]
    BY <1>20, GotoType DEF Request, Labels
  <2> QED  BY <1>20, <2>1, <2>2 DEF Request, CallTypes, vram, evicting, hosting
<1>21. ASSUME NEW h \in Hashes, Release(t, h)  PROVE TierTypes' /\ CallTypes'
  BY <1>21 DEF Release, TierTypes, CallTypes, hostTier, request, evicting, hosting
<1> QED  BY <1>1, <1>2, <1>3, <1>4, <1>5, <1>6, <1>7, <1>8, <1>9, <1>10, <1>11, <1>12, <1>13, <1>14, <1>15, <1>16, <1>17, <1>18, <1>19, <1>20, <1>21 DEF ThreadNext, Step

-----------------------------------------------------------------------------
(* What a step of a thread does to the tiers and to the other threads.     *)

\* The locals of thread u that the invariants read are left alone.
LocalsKept(u) ==
    /\ pc'[u] = pc[u] /\ key'[u] = key[u] /\ victim'[u] = victim[u]
    /\ purpose'[u] = purpose[u] /\ hostVictim'[u] = hostVictim[u]

\* A step of one thread leaves the locals of the others.
LEMMA OthersKept ==
  ASSUME CallTypes, NEW t \in Threads, ThreadNext(t), NEW u \in Threads, u # t
  PROVE  LocalsKept(u)
<1> USE DEF CallTypes, LocalsKept, Goto, EvictionOver, vram, hostTier, request, evicting, hosting
<1>1. CASE Probe(t)
  BY <1>1 DEF Probe, Hit, Return
<1>2. CASE Decode(t)
  BY <1>2 DEF Decode, Return
<1>3. CASE InsertInstall(t)
  BY <1>3 DEF InsertInstall, Hit, Return
<1>4. CASE HostLookup(t)
  BY <1>4 DEF HostLookup, StartEviction, PromotionFailed, Miss
<1>5. CASE PromoteInstall(t)
  BY <1>5 DEF PromoteInstall, PromotionFailed, Miss, StartEviction, Hit, Return
<1>6. CASE DiskLookup(t)
  BY <1>6 DEF DiskLookup, Miss
<1>7. CASE Check(t)
  BY <1>7 DEF Check, EvictionFailed, PromotionFailed, Miss, StartEviction, Return
<1>8. CASE Pick(t)
  BY <1>8 DEF Pick, EvictionFailed, PromotionFailed, Miss, StartEviction, Return
<1>9. CASE Remove(t)
  BY <1>9 DEF Remove, NextIteration
<1>10. CASE Subtract(t)
  BY <1>10 DEF Subtract
<1>11. CASE Demote(t)
  BY <1>11 DEF Demote, NextIteration
<1>12. CASE HostReplace(t)
  BY <1>12 DEF HostReplace, HostRemove, StartHostEviction
<1>13. CASE HostReplaceSub(t)
  BY <1>13 DEF HostReplaceSub, StartHostEviction
<1>14. CASE HostCheck(t)
  BY <1>14 DEF HostCheck
<1>15. CASE HostPick(t)
  BY <1>15 DEF HostPick
<1>16. CASE HostDrop(t)
  BY <1>16 DEF HostDrop, HostRemove, NextHostIteration
<1>17. CASE HostDropSub(t)
  BY <1>17 DEF HostDropSub, NextHostIteration
<1>18. CASE HostAdd(t)
  BY <1>18 DEF HostAdd
<1>19. CASE HostPut(t)
  BY <1>19 DEF HostPut, HostInsertOver, NextIteration
<1>20. ASSUME NEW k \in Keys, Request(t, k)  PROVE LocalsKept(u)
  BY <1>20 DEF Request
<1>21. ASSUME NEW h \in Hashes, Release(t, h)  PROVE LocalsKept(u)
  BY <1>21 DEF Release
<1> QED  BY <1>1, <1>2, <1>3, <1>4, <1>5, <1>6, <1>7, <1>8, <1>9, <1>10, <1>11, <1>12, <1>13,
           <1>14, <1>15, <1>16, <1>17, <1>18, <1>19, <1>20, <1>21 DEF ThreadNext, Step

VramKept(t) ==
    used' = used /\ primary' = primary /\ pc[t] # "sub" /\ pc'[t] # "sub"
VramInstalled(t) ==
    /\ pc[t] = "install" /\ pc'[t] = "idle"
    /\ HashOfThread(t) \in Hashes \ primary
    /\ primary' = primary \cup {HashOfThread(t)} /\ used' = used + Size[HashOfThread(t)]
VramRemoved(t) ==
    /\ pc[t] = "remove" /\ pc'[t] = "sub"
    /\ victim[t] \in primary /\ victim'[t] = victim[t]
    /\ primary' = primary \ {victim[t]} /\ used' = used
VramSubtracted(t) ==
    /\ pc[t] = "sub" /\ pc'[t] = "demote"
    /\ primary' = primary /\ used' = used - Size[victim[t]]

\* A step does one of four things to the VRAM index, its counter and the victims being refunded.
LEMMA VramEffects ==
  ASSUME CallTypes, NEW t \in Threads, ThreadNext(t)
  PROVE  VramKept(t) \/ VramInstalled(t) \/ VramRemoved(t) \/ VramSubtracted(t)
<1> USE DEF CallTypes, VramKept, Goto, EvictionOver, vram, hostTier, request, evicting, hosting
<1>0. HashOfThread(t) \in Hashes
  BY Constants DEF HashOfThread
<1>1. CASE Probe(t)
  BY <1>0, <1>1 DEF Probe, Hit, Return
<1>2. CASE Decode(t)
  BY <1>0, <1>2 DEF Decode, Return
<1>3. CASE InsertInstall(t)
  BY <1>0, <1>3 DEF VramInstalled, InsertInstall, Hit, Return
<1>4. CASE HostLookup(t)
  BY <1>0, <1>4 DEF HostLookup, StartEviction, PromotionFailed, Miss
<1>5. CASE PromoteInstall(t)
  BY <1>0, <1>5 DEF VramInstalled, PromoteInstall, PromotionFailed, Miss, StartEviction, Hit, Return
<1>6. CASE DiskLookup(t)
  BY <1>0, <1>6 DEF DiskLookup, Miss
<1>7. CASE Check(t)
  BY <1>0, <1>7 DEF Check, EvictionFailed, PromotionFailed, Miss, StartEviction, Return
<1>8. CASE Pick(t)
  BY <1>0, <1>8 DEF Pick, EvictionFailed, PromotionFailed, Miss, StartEviction, Return
<1>9. CASE Remove(t)
  BY <1>0, <1>9 DEF VramRemoved, Remove, NextIteration
<1>10. CASE Subtract(t)
  BY <1>0, <1>10 DEF VramSubtracted, Subtract
<1>11. CASE Demote(t)
  BY <1>0, <1>11 DEF Demote, NextIteration
<1>12. CASE HostReplace(t)
  BY <1>0, <1>12 DEF HostReplace, HostRemove, StartHostEviction
<1>13. CASE HostReplaceSub(t)
  BY <1>0, <1>13 DEF HostReplaceSub, StartHostEviction
<1>14. CASE HostCheck(t)
  BY <1>0, <1>14 DEF HostCheck
<1>15. CASE HostPick(t)
  BY <1>0, <1>15 DEF HostPick
<1>16. CASE HostDrop(t)
  BY <1>0, <1>16 DEF HostDrop, HostRemove, NextHostIteration
<1>17. CASE HostDropSub(t)
  BY <1>0, <1>17 DEF HostDropSub, NextHostIteration
<1>18. CASE HostAdd(t)
  BY <1>0, <1>18 DEF HostAdd
<1>19. CASE HostPut(t)
  BY <1>0, <1>19 DEF HostPut, HostInsertOver, NextIteration
<1>20. ASSUME NEW k \in Keys, Request(t, k)  PROVE VramKept(t)
  BY <1>20 DEF Request
<1>21. ASSUME NEW h \in Hashes, Release(t, h)  PROVE VramKept(t)
  BY <1>21 DEF Release
<1> QED  BY <1>1, <1>2, <1>3, <1>4, <1>5, <1>6, <1>7, <1>8, <1>9, <1>10, <1>11, <1>12, <1>13,
           <1>14, <1>15, <1>16, <1>17, <1>18, <1>19, <1>20, <1>21 DEF ThreadNext, Step

Admitted(t) ==
    /\ pc[t] = "check" /\ key'[t] = key[t]
    /\ used' = used /\ used + Size[HashOfThread(t)] <= VramBudget

\* A thread is at its install only after a room check that passed for its own image.
LEMMA AdmissionEffects ==
  ASSUME CallTypes, NEW t \in Threads, ThreadNext(t), pc'[t] = "install"
  PROVE  Admitted(t)
<1> USE DEF CallTypes, Admitted, Goto, EvictionOver, vram, hostTier, request, evicting, hosting
<1>1. CASE Probe(t)
  BY <1>1 DEF Probe, Hit, Return
<1>2. CASE Decode(t)
  BY <1>2 DEF Decode, Return
<1>3. CASE InsertInstall(t)
  BY <1>3 DEF InsertInstall, Hit, Return
<1>4. CASE HostLookup(t)
  BY <1>4 DEF HostLookup, StartEviction, PromotionFailed, Miss
<1>5. CASE PromoteInstall(t)
  BY <1>5 DEF PromoteInstall, PromotionFailed, Miss, StartEviction, Hit, Return
<1>6. CASE DiskLookup(t)
  BY <1>6 DEF DiskLookup, Miss
<1>7. CASE Check(t)
  BY <1>7 DEF Check, HasRoom, EvictionFailed, PromotionFailed, Miss, StartEviction, Return
<1>8. CASE Pick(t)
  BY <1>8 DEF Pick, EvictionFailed, PromotionFailed, Miss, StartEviction, Return
<1>9. CASE Remove(t)
  BY <1>9 DEF Remove, NextIteration
<1>10. CASE Subtract(t)
  BY <1>10 DEF Subtract
<1>11. CASE Demote(t)
  BY <1>11 DEF Demote, NextIteration
<1>12. CASE HostReplace(t)
  BY <1>12 DEF HostReplace, HostRemove, StartHostEviction
<1>13. CASE HostReplaceSub(t)
  BY <1>13 DEF HostReplaceSub, StartHostEviction
<1>14. CASE HostCheck(t)
  BY <1>14 DEF HostCheck
<1>15. CASE HostPick(t)
  BY <1>15 DEF HostPick
<1>16. CASE HostDrop(t)
  BY <1>16 DEF HostDrop, HostRemove, NextHostIteration
<1>17. CASE HostDropSub(t)
  BY <1>17 DEF HostDropSub, NextHostIteration
<1>18. CASE HostAdd(t)
  BY <1>18 DEF HostAdd
<1>19. CASE HostPut(t)
  BY <1>19 DEF HostPut, HostInsertOver, NextIteration
<1>20. ASSUME NEW k \in Keys, Request(t, k)  PROVE Admitted(t)
  BY <1>20 DEF Request
<1>21. ASSUME NEW h \in Hashes, Release(t, h)  PROVE Admitted(t)
  BY <1>21 DEF Release
<1> QED  BY <1>1, <1>2, <1>3, <1>4, <1>5, <1>6, <1>7, <1>8, <1>9, <1>10, <1>11, <1>12, <1>13,
           <1>14, <1>15, <1>16, <1>17, <1>18, <1>19, <1>20, <1>21 DEF ThreadNext, Step

\* The labels at which a thread owes the host tier's counter an entry.
Owing == {"hostReplaceSub", "hostDropSub", "hostPut"}

HostedKept(t) == key'[t] = key[t] /\ victim'[t] = victim[t] /\ purpose'[t] = purpose[t]

HostKept(t) ==
    host' = host /\ hostUsed' = hostUsed /\ pc[t] \notin Owing /\ pc'[t] \notin Owing
HostReplaced(t) ==
    /\ pc[t] = "hostReplace" /\ pc'[t] = "hostReplaceSub" /\ HostedKept(t)
    /\ Hosted(t) \in host /\ host' = host \ {Hosted(t)} /\ hostUsed' = hostUsed
HostReplaceSubtracted(t) ==
    /\ pc[t] = "hostReplaceSub" /\ pc'[t] = "hostCheck"
    /\ host' = host /\ hostUsed' = hostUsed - Size[Hosted(t)]
HostDropped(t) ==
    /\ pc[t] = "hostDrop" /\ pc'[t] = "hostDropSub" /\ hostVictim'[t] = hostVictim[t]
    /\ hostVictim[t] \in host /\ host' = host \ {hostVictim[t]} /\ hostUsed' = hostUsed
HostDropSubtracted(t) ==
    /\ pc[t] = "hostDropSub" /\ pc'[t] = "hostCheck"
    /\ host' = host /\ hostUsed' = hostUsed - Size[hostVictim[t]]
HostAdded(t) ==
    /\ pc[t] = "hostAdd" /\ pc'[t] = "hostPut" /\ HostedKept(t)
    /\ host' = host /\ hostUsed' = hostUsed + Size[Hosted(t)]
HostWasPut(t) ==
    /\ pc[t] = "hostPut" /\ pc'[t] \notin Owing
    /\ host' = host \cup {Hosted(t)} /\ hostUsed' = hostUsed

HostEffect(t) ==
    \/ HostKept(t) \/ HostReplaced(t) \/ HostReplaceSubtracted(t) \/ HostDropped(t)
    \/ HostDropSubtracted(t) \/ HostAdded(t) \/ HostWasPut(t)

\* A step does one of seven things to the host index, its counter and what threads owe to it.
LEMMA HostEffects ==
  ASSUME CallTypes, NEW t \in Threads, ThreadNext(t)
  PROVE  HostEffect(t)
<1> USE DEF CallTypes, HostEffect, HostKept, Owing, Goto, EvictionOver, vram, hostTier, request, evicting, hosting
<1>1. CASE Probe(t)
  BY <1>1 DEF Probe, Hit, Return
<1>2. CASE Decode(t)
  BY <1>2 DEF Decode, Return
<1>3. CASE InsertInstall(t)
  BY <1>3 DEF InsertInstall, Hit, Return
<1>4. CASE HostLookup(t)
  BY <1>4 DEF HostLookup, StartEviction, PromotionFailed, Miss
<1>5. CASE PromoteInstall(t)
  BY <1>5 DEF PromoteInstall, PromotionFailed, Miss, StartEviction, Hit, Return
<1>6. CASE DiskLookup(t)
  BY <1>6 DEF DiskLookup, Miss
<1>7. CASE Check(t)
  BY <1>7 DEF Check, EvictionFailed, PromotionFailed, Miss, StartEviction, Return
<1>8. CASE Pick(t)
  BY <1>8 DEF Pick, EvictionFailed, PromotionFailed, Miss, StartEviction, Return
<1>9. CASE Remove(t)
  BY <1>9 DEF Remove, NextIteration
<1>10. CASE Subtract(t)
  BY <1>10 DEF Subtract
<1>11. CASE Demote(t)
  BY <1>11 DEF Demote, NextIteration
<1>12. CASE HostReplace(t)
  BY <1>12 DEF HostReplaced, HostedKept, HostReplace, HostRemove, StartHostEviction
<1>13. CASE HostReplaceSub(t)
  BY <1>13 DEF HostReplaceSubtracted, HostReplaceSub, StartHostEviction
<1>14. CASE HostCheck(t)
  BY <1>14 DEF HostCheck
<1>15. CASE HostPick(t)
  BY <1>15 DEF HostPick
<1>16. CASE HostDrop(t)
  BY <1>16 DEF HostDropped, HostDrop, HostRemove, NextHostIteration
<1>17. CASE HostDropSub(t)
  BY <1>17 DEF HostDropSubtracted, HostDropSub, NextHostIteration
<1>18. CASE HostAdd(t)
  BY <1>18 DEF HostAdded, HostedKept, HostAdd
<1>19. CASE HostPut(t)
  BY <1>19 DEF HostWasPut, HostPut, HostInsertOver, NextIteration
<1>20. ASSUME NEW k \in Keys, Request(t, k)  PROVE HostKept(t)
  BY <1>20 DEF Request
<1>21. ASSUME NEW h \in Hashes, Release(t, h)  PROVE HostKept(t)
  BY <1>21 DEF Release
<1> QED  BY <1>1, <1>2, <1>3, <1>4, <1>5, <1>6, <1>7, <1>8, <1>9, <1>10, <1>11, <1>12, <1>13,
           <1>14, <1>15, <1>16, <1>17, <1>18, <1>19, <1>20, <1>21 DEF HostEffect, ThreadNext, Step

-----------------------------------------------------------------------------
(* Totals over the threads at a label.                                     *)

\* What happens to the total of a weight over the threads at label l when t moves and the
\* others stay, their weights with them.
LEMMA AtUnmoved ==
  ASSUME NEW t \in Threads, NEW l, NEW v, NEW w,
         \A u \in Threads : u # t => pc'[u] = pc[u] /\ w[u] = v[u],
         pc[t] # l /\ pc'[t] # l
  PROVE  Total(At(l)', w) = Total(At(l), v)
<1>1. At(l)' = At(l)
  BY DEF At
<1>2. \A u \in At(l) : w[u] = v[u]
  BY DEF At
<1>3. Total(At(l), w) = Total(At(l), v)
  BY <1>2, TotalSame
<1> QED  BY <1>1, <1>3

\* The threads at a label are finitely many, before and after a step.
LEMMA AtFinite ==
  ASSUME NEW l
  PROVE  IsFiniteSet(At(l)) /\ IsFiniteSet(At(l)')
<1>1. At(l) \in SUBSET Threads /\ At(l)' \in SUBSET Threads
  BY DEF At
<1> QED  BY <1>1, ThreadsFinite, FS_Subset

\* When thread t comes to a label, its weight is added to the total there.
LEMMA AtJoined ==
  ASSUME NEW t \in Threads, NEW l, NEW v, NEW w,
         \A u \in Threads : w[u] \in Nat,
         \A u \in Threads : u # t => pc'[u] = pc[u] /\ w[u] = v[u],
         pc[t] # l /\ pc'[t] = l
  PROVE  Total(At(l)', w) = Total(At(l), v) + w[t]
<1>1. At(l)' = At(l) \cup {t} /\ t \notin At(l) /\ At(l) \subseteq Threads
  BY DEF At
<1>2. Total(At(l) \cup {t}, w) = Total(At(l), w) + w[t]
  BY <1>1, AtFinite, TotalAdd
<1>3. \A u \in At(l) : w[u] = v[u]
  BY <1>1 DEF At
<1>4. Total(At(l), w) = Total(At(l), v)
  BY <1>3, TotalSame
<1> QED  BY <1>1, <1>2, <1>4

\* When thread t leaves a label, its weight is taken from the total there.
LEMMA AtLeft ==
  ASSUME NEW t \in Threads, NEW l, NEW v, NEW w,
         \A u \in Threads : v[u] \in Nat,
         \A u \in Threads : u # t => pc'[u] = pc[u] /\ w[u] = v[u],
         pc[t] = l /\ pc'[t] # l
  PROVE  Total(At(l)', w) = Total(At(l), v) - v[t]
<1>1. At(l)' = At(l) \ {t} /\ t \in At(l) /\ At(l) \subseteq Threads
  BY DEF At
<1>2. Total(At(l) \ {t}, v) = Total(At(l), v) - v[t]
  BY <1>1, AtFinite, TotalRemove
<1>3. \A u \in At(l) \ {t} : w[u] = v[u]
  BY <1>1
<1>4. Total(At(l) \ {t}, w) = Total(At(l) \ {t}, v)
  BY <1>3, TotalSame
<1> QED  BY <1>1, <1>2, <1>4

\* The total at a label is a natural number.
LEMMA AtType ==
  ASSUME NEW l, NEW v, \A u \in Threads : v[u] \in Nat
  PROVE  Total(At(l), v) \in Nat
<1>1. At(l) \subseteq Threads
  BY DEF At
<1> QED  BY <1>1, AtFinite, TotalType

\* So is the total size of a tier.
LEMMA TierTotalType ==
  ASSUME NEW E, E \subseteq Hashes
  PROVE  IsFiniteSet(E) /\ (\A h \in E : Size[h] \in Nat) /\ Total(E, Size) \in Nat
<1>1. IsFiniteSet(E)
  BY HashesFinite, FS_Subset
<1>2. \A h \in E : Size[h] \in Nat
  BY Constants
<1> QED  BY <1>1, <1>2, TotalType

\* The weights of the invariants are sizes, and only thread t's change in its step.
LEMMA Weights ==
  ASSUME CallTypes
  PROVE  \A u \in Threads :
            /\ VictimSize[u] = Size[victim[u]] /\ VictimSize[u] \in Nat
            /\ WantedSize[u] = Size[HashOfThread(u)] /\ WantedSize[u] \in Nat
            /\ HostedSize[u] = Size[Hosted(u)] /\ HostedSize[u] \in Nat
            /\ HostVictimSize[u] = Size[hostVictim[u]] /\ HostVictimSize[u] \in Nat
<1>1. ASSUME NEW u \in Threads
      PROVE  /\ victim[u] \in Hashes /\ hostVictim[u] \in Hashes
             /\ HashOfThread(u) \in Hashes /\ Hosted(u) \in Hashes
  BY Constants DEF CallTypes, HashOfThread, Hosted
<1> QED  BY <1>1, Constants DEF VictimSize, WantedSize, HostedSize, HostVictimSize

\* The same after a step.
LEMMA WeightsAfter ==
  ASSUME CallTypes'
  PROVE  \A u \in Threads :
            /\ VictimSize'[u] = Size[victim'[u]] /\ VictimSize'[u] \in Nat
            /\ WantedSize'[u] = Size[HashOf[key'[u]]] /\ WantedSize'[u] \in Nat
            /\ HostedSize'[u] = Size[Hosted(u)'] /\ HostedSize'[u] \in Nat
            /\ HostVictimSize'[u] = Size[hostVictim'[u]] /\ HostVictimSize'[u] \in Nat
<1>1. ASSUME NEW u \in Threads
      PROVE  /\ victim'[u] \in Hashes /\ hostVictim'[u] \in Hashes
             /\ HashOf[key'[u]] \in Hashes /\ Hosted(u)' \in Hashes
  BY Constants DEF CallTypes, HashOfThread, Hosted
<1> QED  BY <1>1, Constants DEF VictimSize, WantedSize, HostedSize, HostVictimSize, HashOfThread

\* A step of thread t changes no other thread's weights.
LEMMA WeightsKept ==
  ASSUME CallTypes, NEW t \in Threads, ThreadNext(t)
  PROVE  \A u \in Threads : u # t =>
            /\ pc'[u] = pc[u]
            /\ VictimSize'[u] = VictimSize[u] /\ WantedSize'[u] = WantedSize[u]
            /\ HostedSize'[u] = HostedSize[u] /\ HostVictimSize'[u] = HostVictimSize[u]
<1> SUFFICES ASSUME NEW u \in Threads, u # t
             PROVE  /\ pc'[u] = pc[u]
                    /\ VictimSize'[u] = VictimSize[u] /\ WantedSize'[u] = WantedSize[u]
                    /\ HostedSize'[u] = HostedSize[u] /\ HostVictimSize'[u] = HostVictimSize[u]
  OBVIOUS
<1>1. LocalsKept(u)
  BY OthersKept
<1> QED
  BY <1>1 DEF LocalsKept, VictimSize, WantedSize, HostedSize, HostVictimSize, Hosted, HashOfThread

-----------------------------------------------------------------------------
(* The VRAM tier.                                                          *)

\* Each of the four effects on the VRAM tier keeps its counter exact.
LEMMA VramAccountingStep ==
  ASSUME TierTypes, CallTypes, VramAccounting, NEW t \in Threads, ThreadNext(t)
  PROVE  VramAccounting'
<1> DEFINE kept == Total(primary, Size)
           owed == Total(At("sub"), VictimSize)
<1>1. TierTypes' /\ CallTypes'
  BY StepTypes
<1>2. /\ kept \in Nat /\ owed \in Nat /\ IsFiniteSet(primary)
      /\ \A h \in Hashes : Size[h] \in Nat
  BY TierTotalType, AtType, Weights, Constants DEF TierTypes
<1>3. used = kept + owed
  BY DEF VramAccounting
<1>4. CASE VramKept(t)
  <2>1. Total(At("sub")', VictimSize') = owed
    BY <1>4, WeightsKept, AtUnmoved DEF VramKept
  <2>2. Total(primary', Size) = kept
    BY <1>4 DEF VramKept
  <2> QED  BY <1>3, <1>4, <2>1, <2>2 DEF VramAccounting, VramKept
<1>5. CASE VramInstalled(t)
  <2>1. Total(At("sub")', VictimSize') = owed
    BY <1>5, WeightsKept, AtUnmoved DEF VramInstalled
  <2>2. Total(primary', Size) = kept + Size[HashOfThread(t)]
    BY <1>2, <1>5, TotalAdd DEF VramInstalled, TierTypes
  <2>3. used' = kept + Size[HashOfThread(t)] + owed
    BY <1>2, <1>3, <1>5 DEF VramInstalled
  <2> QED  BY <2>1, <2>2, <2>3 DEF VramAccounting
<1>6. CASE VramRemoved(t)
  <2>1. VictimSize'[t] = Size[victim[t]] /\ \A u \in Threads : VictimSize'[u] \in Nat
    BY <1>1, <1>6, WeightsAfter DEF VramRemoved
  <2>2. Total(At("sub")', VictimSize') = owed + Size[victim[t]]
    BY <1>6, <2>1, WeightsKept, AtJoined DEF VramRemoved
  <2>3. Total(primary', Size) = kept - Size[victim[t]]
    BY <1>2, <1>6, TotalRemove DEF VramRemoved, TierTypes
  <2>4. Size[victim[t]] \in Nat
    BY <1>2, <1>6 DEF VramRemoved, TierTypes
  <2>5. used' = (kept - Size[victim[t]]) + (owed + Size[victim[t]])
    BY <1>2, <1>3, <1>6, <2>4 DEF VramRemoved
  <2> QED  BY <2>2, <2>3, <2>5 DEF VramAccounting
<1>7. CASE VramSubtracted(t)
  <2>1. VictimSize[t] = Size[victim[t]] /\ VictimSize[t] \in Nat
        /\ \A u \in Threads : VictimSize[u] \in Nat
    BY Weights
  <2>2. Total(At("sub")', VictimSize') = owed - Size[victim[t]]
    BY <1>7, <2>1, WeightsKept, AtLeft DEF VramSubtracted
  <2>3. Total(primary', Size) = kept
    BY <1>7 DEF VramSubtracted
  <2>4. used' = kept + (owed - Size[victim[t]])
    BY <1>2, <1>3, <1>7, <2>1 DEF VramSubtracted
  <2> QED  BY <2>2, <2>3, <2>4 DEF VramAccounting
<1> QED  BY <1>4, <1>5, <1>6, <1>7, VramEffects

\* Nothing is indexed, nothing is being refunded.
LEMMA VramAccountingInit == Init => VramAccounting
<1> SUFFICES ASSUME Init  PROVE VramAccounting
  OBVIOUS
<1>1. At("sub") = {}
  BY DEF Init, At
<1>2. Total(primary, Size) = 0 /\ Total(At("sub"), VictimSize) = 0
  BY <1>1, TotalEmpty DEF Init
<1> QED  BY <1>2 DEF Init, VramAccounting

\* Overshoot: what a thread was admitted with fits the budget by itself.
AdmittedFit == \A t \in At("install") : WantedSize[t] <= VramBudget

\* The bytes grow only at an install, which weighs at most a budget and was counted already,
\* and threads are added to those about to install only by a check that found room.
LEMMA OvershootStep ==
  ASSUME TierTypes, CallTypes, VramAccounting, AdmittedFit, OvershootBounded,
         NEW t \in Threads, ThreadNext(t)
  PROVE  AdmittedFit' /\ OvershootBounded'
<1> DEFINE admitted == Total(At("install"), WantedSize)
           admittedAfter == Total(At("install")', WantedSize')
           limit == Cardinality(Threads) * VramBudget
<1>1. CallTypes'
  BY StepTypes
<1>2. used \in Nat /\ used' \in Int
  <2>1. Total(primary, Size) \in Nat /\ Total(At("sub"), VictimSize) \in Nat
    BY TierTotalType, AtType, Weights DEF TierTypes
  <2> QED  BY <2>1, StepTypes DEF VramAccounting, TierTypes
<1>3. admitted \in Nat /\ admittedAfter \in Nat
  <2>1. admitted \in Nat
    BY AtType, Weights
  <2>2. At("install")' \subseteq Threads /\ IsFiniteSet(At("install")')
    BY AtFinite DEF At
  <2>3. \A u \in At("install")' : WantedSize'[u] \in Nat
    BY <1>1, <2>2, WeightsAfter
  <2> QED  BY <2>1, <2>2, <2>3, TotalType
<1>4. Cardinality(Threads) \in Nat /\ VramBudget \in Nat /\ limit \in Nat
  BY ThreadsFinite, FS_CardinalityType, BudgetsType
<1>5. used + admitted <= limit
  BY DEF OvershootBounded
<1>6. limit \in Int
  BY <1>4
<1>7. CASE pc'[t] = "install"
  <2>1. Admitted(t)
    BY <1>7, AdmissionEffects
  <2>2. WantedSize'[t] = WantedSize[t] /\ WantedSize[t] \in Nat
        /\ used + WantedSize[t] <= VramBudget /\ used' = used
    BY <1>1, <2>1, Weights, WeightsAfter DEF Admitted, HashOfThread
  <2>3. WantedSize[t] <= VramBudget
    BY <1>2, <1>4, <2>2
  <2>4. ASSUME NEW u \in At("install")'  PROVE WantedSize'[u] <= VramBudget
    <3>1. CASE u = t
      BY <2>2, <2>3, <3>1
    <3>2. CASE u # t
      <4>1. u \in At("install") /\ WantedSize'[u] = WantedSize[u]
        BY <3>2, WeightsKept DEF At
      <4> QED  BY <4>1 DEF AdmittedFit
    <3> QED  BY <3>1, <3>2
  <2>5. pc[t] # "install"
    BY <2>1 DEF Admitted
  <2>6. admittedAfter = admitted + WantedSize[t]
    BY <1>1, <1>7, <2>2, <2>5, WeightsKept, WeightsAfter, AtJoined
  <2>7. admitted <= Cardinality(At("install")) * VramBudget
    <3>1. \A u \in At("install") : WantedSize[u] \in Nat /\ WantedSize[u] <= VramBudget
      BY Weights DEF AdmittedFit, At
    <3> QED  BY <1>4, <3>1, AtFinite, TotalBound
  <2>8. Cardinality(At("install")) <= Cardinality(Threads) - 1
        /\ Cardinality(At("install")) \in Nat
    <3>1. At("install") \in SUBSET (Threads \ {t})
      BY <2>5 DEF At
    <3>2. IsFiniteSet(Threads \ {t}) /\ Cardinality(Threads \ {t}) = Cardinality(Threads) - 1
      BY ThreadsFinite, FS_RemoveElement
    <3>3. Cardinality(At("install")) <= Cardinality(Threads \ {t})
      BY <3>1, <3>2, FS_Subset
    <3> QED  BY <3>2, <3>3, AtFinite, FS_CardinalityType
  <2>9. Cardinality(At("install")) * VramBudget <= (Cardinality(Threads) - 1) * VramBudget
    BY <1>4, <2>8
  <2>10. (Cardinality(Threads) - 1) * VramBudget + VramBudget = limit
    BY <1>4
  <2>11. (Cardinality(Threads) - 1) * VramBudget \in Int
         /\ Cardinality(At("install")) * VramBudget \in Int
    BY <1>4, <2>8
  <2> HIDE DEF limit, admitted, admittedAfter
  <2>12. used' + admittedAfter <= limit
    BY <1>2, <1>3, <1>4, <2>2, <2>6, <2>7, <2>9, <2>10, <2>11
  <2> QED  BY <2>4, <2>12 DEF AdmittedFit, OvershootBounded, limit, admittedAfter
<1>8. CASE pc'[t] # "install"
  <2>1. AdmittedFit'
    <3>1. ASSUME NEW u \in At("install")'  PROVE WantedSize'[u] <= VramBudget
      <4>1. u # t /\ u \in Threads
        BY <1>8 DEF At
      <4>2. u \in At("install") /\ WantedSize'[u] = WantedSize[u]
        BY <4>1, WeightsKept DEF At
      <4> QED  BY <4>2 DEF AdmittedFit
    <3> QED  BY <3>1 DEF AdmittedFit
  <2>2. CASE pc[t] # "install"
    <3>1. admittedAfter = admitted
      BY <1>8, <2>2, WeightsKept, AtUnmoved
    <3>2. used' <= used
      <4>1. Size[victim[t]] \in Nat
        BY Weights
      <4> QED  BY <1>2, <2>2, <4>1, VramEffects
               DEF VramKept, VramInstalled, VramRemoved, VramSubtracted
    <3> HIDE DEF limit, admitted, admittedAfter
    <3>3. used' + admitted <= limit
      <4> DEFINE u == used
                 v == used'
      <4>1. u \in Int /\ v \in Int /\ admitted \in Int /\ limit \in Int
        BY <1>2, <1>3, <1>6
      <4>2. v <= u /\ u + admitted <= limit
        BY <1>5, <3>2
      <4> HIDE DEF u, v
      <4>3. v + admitted <= limit
        BY <4>1, <4>2
      <4> QED  BY <4>3 DEF v
    <3>4. used' + admittedAfter <= limit
      BY <3>1, <3>3
    <3> QED  BY <2>1, <3>4 DEF OvershootBounded, limit, admittedAfter
  <2>3. CASE pc[t] = "install"
    <3>1. WantedSize[t] = Size[HashOfThread(t)] /\ WantedSize[t] \in Nat
          /\ \A u \in Threads : WantedSize[u] \in Nat
      BY Weights
    <3>2. admittedAfter = admitted - WantedSize[t]
      BY <1>8, <2>3, <3>1, WeightsKept, AtLeft
    <3>3. used' <= used + WantedSize[t]
      BY <1>2, <2>3, <3>1, VramEffects
         DEF VramKept, VramInstalled, VramRemoved, VramSubtracted
    <3> HIDE DEF limit, admitted, admittedAfter
    <3>4. used' + admittedAfter <= limit
      BY <1>2, <1>3, <1>4, <1>5, <3>1, <3>2, <3>3
    <3> QED  BY <2>1, <3>4 DEF OvershootBounded, limit, admittedAfter
  <2> QED  BY <2>2, <2>3
<1> QED  BY <1>7, <1>8

\* No thread is about to install.
LEMMA OvershootInit == Init => AdmittedFit /\ OvershootBounded
<1> SUFFICES ASSUME Init  PROVE AdmittedFit /\ OvershootBounded
  OBVIOUS
<1>1. At("install") = {}
  BY DEF Init, At
<1>2. Total(At("install"), WantedSize) = 0
  BY <1>1, TotalEmpty
<1>3. Cardinality(Threads) \in Nat /\ VramBudget \in Nat
  BY ThreadsFinite, FS_CardinalityType, BudgetsType
<1>4. Cardinality(Threads) * VramBudget >= 0
  BY <1>3
<1> QED  BY <1>1, <1>2, <1>4 DEF Init, AdmittedFit, OvershootBounded

-----------------------------------------------------------------------------
(* The host tier.                                                          *)

\* Each of the seven effects on the host tier keeps the counter at or above what it covers.
LEMMA HostStep ==
  ASSUME TierTypes, CallTypes, HostNeverUndercounts, NEW t \in Threads, ThreadNext(t)
  PROVE  HostNeverUndercounts'
<1> DEFINE kept == Total(host, Size)
           keptAfter == Total(host', Size)
           toReplace == Total(At("hostReplaceSub"), HostedSize)
           toReplaceAfter == Total(At("hostReplaceSub")', HostedSize')
           toDrop == Total(At("hostDropSub"), HostVictimSize)
           toDropAfter == Total(At("hostDropSub")', HostVictimSize')
           toPut == Total(At("hostPut"), HostedSize)
           toPutAfter == Total(At("hostPut")', HostedSize')
           charged == hostUsed
           chargedAfter == hostUsed'
           hosted == Size[Hosted(t)]
           dropped == Size[hostVictim[t]]
<1>1. TierTypes' /\ CallTypes'
  BY StepTypes
<1>2. /\ kept \in Nat /\ toReplace \in Nat /\ toDrop \in Nat /\ toPut \in Nat
      /\ charged \in Int /\ chargedAfter \in Int
      /\ hosted \in Nat /\ dropped \in Nat
      /\ HostedSize[t] = hosted /\ HostVictimSize[t] = dropped
  BY <1>1, TierTotalType, AtType, Weights DEF TierTypes
<1>3. IsFiniteSet(host) /\ IsFiniteSet(host') /\ keptAfter \in Nat
      /\ \A h \in Hashes : Size[h] \in Nat
  BY <1>1, TierTotalType, Constants DEF TierTypes
<1>4. charged >= kept + toReplace + toDrop + toPut
  BY DEF HostNeverUndercounts
<1>5. /\ pc[t] # "hostReplaceSub" /\ pc'[t] # "hostReplaceSub" => toReplaceAfter = toReplace
      /\ pc[t] # "hostDropSub" /\ pc'[t] # "hostDropSub" => toDropAfter = toDrop
      /\ pc[t] # "hostPut" /\ pc'[t] # "hostPut" => toPutAfter = toPut
  BY WeightsKept, AtUnmoved
<1>6. /\ pc[t] = "hostReplaceSub" /\ pc'[t] # "hostReplaceSub" =>
            toReplaceAfter = toReplace - hosted
      /\ pc[t] = "hostDropSub" /\ pc'[t] # "hostDropSub" => toDropAfter = toDrop - dropped
      /\ pc[t] = "hostPut" /\ pc'[t] # "hostPut" => toPutAfter = toPut - hosted
  BY <1>2, Weights, WeightsKept, AtLeft
<1>7. /\ HostedKept(t) => HostedSize'[t] = hosted
      /\ hostVictim'[t] = hostVictim[t] => HostVictimSize'[t] = dropped
  BY <1>1, WeightsAfter DEF HostedKept, Hosted, HashOfThread
<1>8. /\ HostedKept(t) /\ pc[t] # "hostReplaceSub" /\ pc'[t] = "hostReplaceSub" =>
            toReplaceAfter = toReplace + hosted
      /\ HostedKept(t) /\ pc[t] # "hostPut" /\ pc'[t] = "hostPut" => toPutAfter = toPut + hosted
      /\ hostVictim'[t] = hostVictim[t] /\ pc[t] # "hostDropSub" /\ pc'[t] = "hostDropSub" =>
            toDropAfter = toDrop + dropped
  BY <1>1, <1>7, WeightsAfter, WeightsKept, AtJoined
<1>9. SUFFICES chargedAfter >= keptAfter + toReplaceAfter + toDropAfter + toPutAfter
  BY DEF HostNeverUndercounts
<1>10. CASE HostKept(t)
  <2>1. /\ keptAfter = kept /\ chargedAfter = charged /\ toReplaceAfter = toReplace
        /\ toDropAfter = toDrop /\ toPutAfter = toPut
    BY <1>5, <1>10 DEF HostKept, Owing
  <2> QED  BY <1>4, <2>1
<1>11. CASE HostReplaced(t)
  <2>1. keptAfter = kept - hosted
    BY <1>3, <1>11, TotalRemove DEF HostReplaced, TierTypes
  <2>2. /\ chargedAfter = charged /\ toReplaceAfter = toReplace + hosted
        /\ toDropAfter = toDrop /\ toPutAfter = toPut
    BY <1>5, <1>8, <1>11 DEF HostReplaced
  <2> HIDE DEF kept, keptAfter, toReplace, toReplaceAfter, toDrop, toDropAfter, toPut, toPutAfter,
               charged, chargedAfter, hosted, dropped
  <2> QED  BY <1>2, <1>4, <2>1, <2>2
<1>12. CASE HostReplaceSubtracted(t)
  <2>1. /\ keptAfter = kept /\ chargedAfter = charged - hosted
        /\ toReplaceAfter = toReplace - hosted /\ toDropAfter = toDrop /\ toPutAfter = toPut
    BY <1>5, <1>6, <1>12 DEF HostReplaceSubtracted
  <2> HIDE DEF kept, keptAfter, toReplace, toReplaceAfter, toDrop, toDropAfter, toPut, toPutAfter,
               charged, chargedAfter, hosted, dropped
  <2> QED  BY <1>2, <1>4, <2>1
<1>13. CASE HostDropped(t)
  <2>1. keptAfter = kept - dropped
    BY <1>3, <1>13, TotalRemove DEF HostDropped, TierTypes
  <2>2. /\ chargedAfter = charged /\ toReplaceAfter = toReplace
        /\ toDropAfter = toDrop + dropped /\ toPutAfter = toPut
    BY <1>5, <1>8, <1>13 DEF HostDropped
  <2> HIDE DEF kept, keptAfter, toReplace, toReplaceAfter, toDrop, toDropAfter, toPut, toPutAfter,
               charged, chargedAfter, hosted, dropped
  <2> QED  BY <1>2, <1>4, <2>1, <2>2
<1>14. CASE HostDropSubtracted(t)
  <2>1. /\ keptAfter = kept /\ chargedAfter = charged - dropped
        /\ toReplaceAfter = toReplace /\ toDropAfter = toDrop - dropped /\ toPutAfter = toPut
    BY <1>5, <1>6, <1>14 DEF HostDropSubtracted
  <2> HIDE DEF kept, keptAfter, toReplace, toReplaceAfter, toDrop, toDropAfter, toPut, toPutAfter,
               charged, chargedAfter, hosted, dropped
  <2> QED  BY <1>2, <1>4, <2>1
<1>15. CASE HostAdded(t)
  <2>1. /\ keptAfter = kept /\ chargedAfter = charged + hosted
        /\ toReplaceAfter = toReplace /\ toDropAfter = toDrop /\ toPutAfter = toPut + hosted
    BY <1>5, <1>8, <1>15 DEF HostAdded
  <2> HIDE DEF kept, keptAfter, toReplace, toReplaceAfter, toDrop, toDropAfter, toPut, toPutAfter,
               charged, chargedAfter, hosted, dropped
  <2> QED  BY <1>2, <1>4, <2>1
<1>16. CASE HostWasPut(t)
  <2>1. Hosted(t) \in Hashes
    BY Constants DEF CallTypes, Hosted, HashOfThread
  <2>2. keptAfter <= kept + hosted
    BY <1>3, <1>16, <2>1, TotalAddAtMost DEF HostWasPut, TierTypes
  <2>3. /\ chargedAfter = charged /\ toReplaceAfter = toReplace
        /\ toDropAfter = toDrop /\ toPutAfter = toPut - hosted
    BY <1>5, <1>6, <1>16 DEF HostWasPut, Owing
  <2> HIDE DEF kept, keptAfter, toReplace, toReplaceAfter, toDrop, toDropAfter, toPut, toPutAfter,
               charged, chargedAfter, hosted, dropped
  <2> QED  BY <1>2, <1>3, <1>4, <2>2, <2>3
<1> QED  BY <1>10, <1>11, <1>12, <1>13, <1>14, <1>15, <1>16, HostEffects DEF HostEffect

\* The host tier is empty and nothing is owed to it.
LEMMA HostInit == Init => HostNeverUndercounts
<1> SUFFICES ASSUME Init  PROVE HostNeverUndercounts
  OBVIOUS
<1>1. At("hostReplaceSub") = {} /\ At("hostDropSub") = {} /\ At("hostPut") = {}
  BY DEF Init, At
<1> QED  BY <1>1, TotalEmpty DEF Init, HostNeverUndercounts

-----------------------------------------------------------------------------
(* The theorems.                                                           *)

\* The inductive invariant.
IInv ==
    /\ TierTypes /\ CallTypes
    /\ VramAccounting
    /\ AdmittedFit /\ OvershootBounded
    /\ HostNeverUndercounts

\* The inductive invariant is preserved by every step.
LEMMA IInvStep == IInv /\ [Next]_vars => IInv'
<1> SUFFICES ASSUME IInv, [Next]_vars  PROVE IInv'
  OBVIOUS
<1>1. ASSUME NEW t \in Threads, ThreadNext(t)  PROVE IInv'
  BY <1>1, StepTypes, VramAccountingStep, OvershootStep, HostStep DEF IInv
<1>2. CASE UNCHANGED <<vram, hostTier, aliased, pc, request, evicting, hosting, hostPins>>
  <2>1. UNCHANGED <<primary, used, pins, host, hostUsed, aliased, pc, key, stage, source,
                    room, victim, left, purpose, hostVictim, hostLeft, hostPins>>
    BY <1>2 DEF vram, hostTier, request, evicting, hosting
  <2>2. TierTypes' /\ CallTypes'
    BY <2>1 DEF IInv, TierTypes, CallTypes
  <2>3. \A l : At(l)' = At(l)
    BY <2>1 DEF At
  <2>4. UNCHANGED <<VictimSize, WantedSize, HostedSize, HostVictimSize>>
    BY <2>1 DEF VictimSize, WantedSize, HostedSize, HostVictimSize, Hosted, HashOfThread
  <2>5. VramAccounting' /\ HostNeverUndercounts' /\ AdmittedFit' /\ OvershootBounded'
    BY <2>1, <2>3, <2>4
       DEF IInv, VramAccounting, HostNeverUndercounts, AdmittedFit, OvershootBounded
  <2> QED  BY <2>2, <2>5 DEF IInv
<1>3. DiskWrite => UNCHANGED <<vram, hostTier, aliased, pc, request, evicting, hosting, hostPins>>
  BY DEF DiskWrite
<1>4. DiskEvict => UNCHANGED <<vram, hostTier, aliased, pc, request, evicting, hosting, hostPins>>
  BY DEF DiskEvict
<1>5. UNCHANGED vars => UNCHANGED <<vram, hostTier, aliased, pc, request, evicting, hosting, hostPins>>
  BY DEF vars
<1> QED  BY <1>1, <1>2, <1>3, <1>4, <1>5 DEF Next

\* The counters are natural numbers because what they count is.
LEMMA IInvTypes == IInv => TypeOK
<1> SUFFICES ASSUME IInv  PROVE TypeOK
  OBVIOUS
<1> DEFINE a == Total(primary, Size)
           b == Total(At("sub"), VictimSize)
           c == Total(host, Size)
           d == Total(At("hostReplaceSub"), HostedSize)
           e == Total(At("hostDropSub"), HostVictimSize)
           f == Total(At("hostPut"), HostedSize)
<1>1. a \in Nat /\ b \in Nat /\ c \in Nat /\ d \in Nat /\ e \in Nat /\ f \in Nat
  BY TierTotalType, AtType, Weights DEF IInv, TierTypes
<1>2. used = a + b /\ hostUsed >= c + d + e + f /\ hostUsed \in Int
  BY DEF IInv, VramAccounting, HostNeverUndercounts, TierTypes
<1> HIDE DEF a, b, c, d, e, f
<1>3. used \in Nat /\ hostUsed \in Nat
  BY <1>1, <1>2
<1> QED  BY <1>3 DEF IInv, TypeOK

\* The inductive invariant: the accounting of both tiers, with the admission of each thread
\* that is about to install an entry.
THEOREM Invariance == Spec => []IInv
<1>1. Init => IInv
  BY TypesInit, VramAccountingInit, OvershootInit, HostInit DEF IInv
<1> QED  BY <1>1, IInvStep, PTL DEF Spec

\* In every cache, whatever its threads, sizes and budgets, the state keeps its types; in
\* particular neither tier's byte counter ever underflows.
THEOREM TypeCorrect == Spec => []TypeOK
BY Invariance, IInvTypes, PTL

\* The VRAM tier's counter is exact but for the evictions under way, whatever races the
\* inserts, promotions and evictions of any number of threads run.
THEOREM VramAccountingHolds == Spec => []VramAccounting
<1>1. IInv => VramAccounting
  BY DEF IInv
<1> QED  BY <1>1, Invariance, PTL

\* The VRAM tier's bytes never exceed the budget once per thread: what evict_to_fit's check
\* apart from the fetch_add costs, for any number of threads.
THEOREM OvershootBoundedHolds == Spec => []OvershootBounded
<1>1. IInv => OvershootBounded
  BY DEF IInv
<1> QED  BY <1>1, Invariance, PTL

\* The host tier's counter never loses a charge.
THEOREM HostNeverUndercountsHolds == Spec => []HostNeverUndercounts
<1>1. IInv => HostNeverUndercounts
  BY DEF IInv
<1> QED  BY <1>1, Invariance, PTL
=============================================================================
