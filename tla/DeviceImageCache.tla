-------------------------- MODULE DeviceImageCache --------------------------
(***************************************************************************)
(* The GPU image cache of crates/gpu/src/cache: VRAM tier (mod.rs,         *)
(* eviction.rs), pinned host-RAM tier (host_tier.rs), promotion between    *)
(* them (promotion.rs), and the disk tier as the cache sees it.  Render    *)
(* workers and prefetch threads share one cache without a lock around it:  *)
(* two sharded maps and two relaxed counters.  Each thread runs the DCT    *)
(* decode path (resources/image/codecs/dct.rs): lookup_by_id, then         *)
(* lookup_by_hash_for_doc, then decode and insert.  One action is one      *)
(* access to a shared map or counter; everything between two accesses is   *)
(* local to the thread.                                                    *)
(*                                                                         *)
(* Abstractions.  An Arc is a pin on the entry its hash maps to now; a     *)
(* removed entry's Arcs are of no further interest to the cache.  The LRU  *)
(* clock is left out: any unpinned entry may be the oldest.  The pixels of *)
(* a hash are always the same bytes, so an alias holds one possible value. *)
(***************************************************************************)
EXTENDS Totals

CONSTANTS Threads,      \* render workers and prefetch workers
          Keys,         \* (DocId, ObjId) pairs
          Hashes,       \* content hashes
          HashOf,       \* the hash of the bytes behind a key
          DocOf,        \* the document of a key
          Size,         \* decoded bytes of a hash
          VramBudget,   \* VramBudget::vram_bytes
          HostBudget,   \* HostBudget::host_bytes; 0 turns the host tier off
          DiskAtStart,  \* the <<doc, hash>> entries an earlier process left on disk
          WriteQueue,   \* slots of the disk writer's queue; 0 for a cache without a disk tier
          IterSlack,    \* the constant of the eviction loops' bound, 4 in the code
          DriftCap,     \* bound: no new request once hostUsed is above it
          PinCap        \* bound: Arcs a thread holds when it makes a request

ASSUME ThreadsFinite == IsFiniteSet(Threads)
ASSUME HashesFinite == IsFiniteSet(Hashes)
ASSUME SomeKey == Keys # {}
ASSUME HashOfType == HashOf \in [Keys -> Hashes]
ASSUME SizeType == Size \in [Hashes -> Nat]
ASSUME BudgetsType == VramBudget \in Nat /\ HostBudget \in Nat
ASSUME BoundsType == WriteQueue \in Nat /\ IterSlack \in Nat /\ DriftCap \in Nat /\ PinCap \in Nat

VARIABLES
    primary,    \* hashes with a VRAM entry
    used,       \* used_bytes of the VRAM tier
    pins,       \* pins[t]: entries of primary whose Arc thread t holds
    host,       \* hashes with a host entry
    hostUsed,   \* used_bytes of the host tier
    aliased,    \* keys bound in by_doc_obj
    disk,       \* <<doc, hash>> pairs with an entry file
    queued,     \* pairs handed to the disk writer
    pc,         \* the access thread t performs next
    key,        \* the key thread t asks for
    stage,      \* the call it is in: "byId", "byHash" or "insert"
    source,     \* the tier promote_from_host was reached through: "host" or "disk"
    room,       \* what evict_to_fit makes room for: "promote" or "insert"
    victim,     \* the VRAM entry it evicts
    left,       \* iterations left in the VRAM evict_to_fit
    purpose,    \* why it inserts into the host tier: "demote" or "disk"
    hostVictim, \* the host entry it evicts
    hostLeft,   \* iterations left in the host evict_to_fit
    hostPins    \* the threads that hold an Arc of the host entry their hash maps to

vram == <<primary, used, pins>>
hostTier == <<host, hostUsed>>
diskTier == <<disk, queued>>
request == <<key, stage, source>>
evicting == <<room, victim, left>>
hosting == <<purpose, hostVictim, hostLeft>>
vars == <<vram, hostTier, aliased, diskTier, pc, request, evicting, hosting, hostPins>>

HashOfThread(t) == HashOf[key[t]]
Wanted(t) == <<DocOf[key[t]], HashOfThread(t)>>
\* The hash HostTier::insert is installing.
Hosted(t) == IF purpose[t] = "demote" THEN victim[t] ELSE HashOfThread(t)
\* Arc::strong_count = 1: only the index holds the entry.
Unpinned == { h \in primary : \A t \in Threads : h \notin pins[t] }
HostUnpinned == { h \in host : \A t \in hostPins : HashOfThread(t) # h }
\* A scan for the oldest unpinned entry finds none: there is none, or, since it visits shard
\* after shard, other threads have pinned each as it came by.
FindsNone(t, unpinned) == unpinned = {} \/ Threads # {t}
\* The livelock guard of both evict_to_fit loops.
MaxIters(entries) == 2 * Cardinality(entries) + IterSlack

AnyKey == CHOOSE k \in Keys : TRUE
AnyHash == CHOOSE h \in Hashes : TRUE

Init ==
    /\ primary = {} /\ used = 0 /\ pins = [t \in Threads |-> {}]
    /\ host = {} /\ hostUsed = 0
    /\ aliased = {} /\ queued = {}
    /\ disk = DiskAtStart
    /\ pc = [t \in Threads |-> "idle"]
    /\ key = [t \in Threads |-> AnyKey]
    /\ stage = [t \in Threads |-> "byId"]
    /\ source = [t \in Threads |-> "host"]
    /\ room = [t \in Threads |-> "promote"]
    /\ victim = [t \in Threads |-> AnyHash]
    /\ left = [t \in Threads |-> 0]
    /\ purpose = [t \in Threads |-> "demote"]
    /\ hostVictim = [t \in Threads |-> AnyHash]
    /\ hostLeft = [t \in Threads |-> 0]
    /\ hostPins = {}

Goto(t, label) == pc' = [pc EXCEPT ![t] = label]

-----------------------------------------------------------------------------
(* What a thread does when a call returns.                                 *)

\* Locals that have gone out of scope take a fixed value.
EvictionOver(t) ==
    /\ room' = [room EXCEPT ![t] = "promote"]
    /\ victim' = [victim EXCEPT ![t] = AnyHash]
    /\ left' = [left EXCEPT ![t] = 0]

HostInsertOver(t) ==
    /\ purpose' = [purpose EXCEPT ![t] = "demote"]
    /\ hostVictim' = [hostVictim EXCEPT ![t] = AnyHash]
    /\ hostLeft' = [hostLeft EXCEPT ![t] = 0]

\* The request is over.
Return(t) ==
    /\ Goto(t, "idle")
    /\ key' = [key EXCEPT ![t] = AnyKey]
    /\ stage' = [stage EXCEPT ![t] = "byId"]
    /\ source' = [source EXCEPT ![t] = "host"]
    /\ EvictionOver(t)
    /\ hostPins' = hostPins \ {t}
    /\ UNCHANGED hosting

\* A VRAM entry is returned to the caller; every path but lookup_by_id binds the alias.
Hit(t) ==
    /\ Return(t)
    /\ pins' = [pins EXCEPT ![t] = @ \cup {HashOfThread(t)}]
    /\ aliased' = IF stage[t] = "byId" THEN aliased ELSE aliased \cup {key[t]}

\* Every tier missed: the next call of the DCT path, with its lookups redone.
Miss(t) ==
    /\ \/ /\ stage[t] = "byId"
          /\ Goto(t, "probe")
          /\ stage' = [stage EXCEPT ![t] = "byHash"]
       \/ /\ stage[t] = "byHash"
          /\ Goto(t, "decode")
          /\ stage' = [stage EXCEPT ![t] = "insert"]
    /\ source' = [source EXCEPT ![t] = "host"]
    /\ EvictionOver(t)
    /\ hostPins' = hostPins \ {t}
    /\ UNCHANGED <<aliased, pins, key, hosting>>

StartEviction(t, why) ==
    /\ Goto(t, "check")
    /\ room' = [room EXCEPT ![t] = why]
    /\ left' = [left EXCEPT ![t] = MaxIters(primary)]
    /\ victim' = [victim EXCEPT ![t] = AnyHash]

\* promote_from_host returned None: a lookup tries the disk tier, insert makes room.
PromotionFailed(t) ==
    \/ source[t] = "disk" /\ Miss(t)
    \/ /\ source[t] = "host" /\ stage[t] # "insert"
       /\ Goto(t, "disk")
       /\ EvictionOver(t)
       /\ hostPins' = hostPins \ {t}
       /\ UNCHANGED <<aliased, pins, request, hosting>>
    \/ /\ source[t] = "host" /\ stage[t] = "insert"
       /\ StartEviction(t, "insert")
       /\ hostPins' = hostPins \ {t}
       /\ UNCHANGED <<aliased, pins, request, hosting>>

-----------------------------------------------------------------------------
(* lookup_by_id, lookup_by_hash, insert.                                   *)

Request(t, k) ==
    /\ pc[t] = "idle"
    /\ hostUsed <= DriftCap /\ Cardinality(pins[t]) <= PinCap
    /\ Goto(t, "probe")
    /\ key' = [key EXCEPT ![t] = k]
    /\ stage' = [stage EXCEPT ![t] = IF k \in aliased THEN "byId" ELSE "byHash"]
    /\ UNCHANGED <<vram, hostTier, aliased, diskTier, source, evicting, hosting, hostPins>>

\* The caller drops its Arc.
Release(t, h) ==
    /\ pc[t] = "idle"
    /\ h \in pins[t]
    /\ pins' = [pins EXCEPT ![t] = @ \ {h}]
    /\ UNCHANGED <<primary, used, hostTier, aliased, diskTier, pc, request, evicting,
                   hosting, hostPins>>

Probe(t) ==
    /\ pc[t] = "probe"
    /\ UNCHANGED <<primary, used, hostTier, diskTier>>
    /\ \/ HashOfThread(t) \in primary /\ Hit(t)
       \/ /\ HashOfThread(t) \notin primary
          /\ Goto(t, "hostLookup")
          /\ UNCHANGED <<pins, aliased, request, evicting, hosting, hostPins>>

\* insert refuses an empty payload and one that exceeds the budget alone.
Insertable(h) == Size[h] \in 1..VramBudget

\* The image is decoded on the CPU; a CMYK or failed decode is not inserted.
Decode(t) ==
    /\ pc[t] = "decode"
    /\ UNCHANGED <<vram, hostTier, aliased, diskTier>>
    /\ \/ Return(t)
       \/ /\ Insertable(HashOfThread(t))
          /\ Goto(t, "probe")
          /\ UNCHANGED <<request, evicting, hosting, hostPins>>

\* The upload, then the Entry transition of insert.
InsertInstall(t) ==
    /\ pc[t] = "install" /\ room[t] = "insert"
    /\ UNCHANGED <<hostTier, disk>>
    /\ \/ Return(t) /\ UNCHANGED <<vram, aliased, queued>>     \* the upload failed
       \/ /\ HashOfThread(t) \in primary                        \* lost the dedup race
          /\ Hit(t)
          /\ UNCHANGED <<primary, used, queued>>
       \/ /\ HashOfThread(t) \notin primary
          /\ Hit(t)
          /\ used' = used + Size[HashOfThread(t)]
          /\ primary' = primary \cup {HashOfThread(t)}
          /\ queued' = IF Cardinality(queued) < WriteQueue         \* dropped when full
                          THEN queued \cup {Wanted(t)} ELSE queued

-----------------------------------------------------------------------------
(* promote_from_host, promote_from_disk.                                   *)

HostLookup(t) ==
    /\ pc[t] = "hostLookup"
    /\ UNCHANGED <<primary, used, hostTier, diskTier>>
    /\ \/ /\ HashOfThread(t) \in host
          /\ hostPins' = hostPins \cup {t}
          /\ StartEviction(t, "promote")
          /\ UNCHANGED <<pins, aliased, request, hosting>>
       \/ HashOfThread(t) \notin host /\ PromotionFailed(t)

\* An entry another thread has put there meanwhile is overwritten and charged again.
PromoteOverwrites(t) ==
    /\ pc[t] = "install" /\ room[t] = "promote"
    /\ UNCHANGED <<hostTier, diskTier>>
    /\ Hit(t)
    /\ used' = used + Size[HashOfThread(t)]
    /\ primary' = primary \cup {HashOfThread(t)}

PromoteInstall(t) ==
    /\ pc[t] = "install" /\ room[t] = "promote"
    /\ UNCHANGED <<hostTier, diskTier>>
    /\ \/ PromotionFailed(t) /\ UNCHANGED <<primary, used>>     \* the upload failed
       \/ HashOfThread(t) \in primary /\ Hit(t) /\ UNCHANGED <<primary, used>>
       \/ /\ HashOfThread(t) \notin primary
          /\ Hit(t)
          /\ used' = used + Size[HashOfThread(t)]
          /\ primary' = primary \cup {HashOfThread(t)}

\* DiskTier::lookup_into: no slab for the pixels leaves the file, a bad file is removed.
DiskLookup(t) ==
    /\ pc[t] = "disk"
    /\ UNCHANGED <<primary, used, hostTier, queued>>
    /\ \/ /\ Wanted(t) \in disk
          /\ Goto(t, "hostReplace")
          /\ source' = [source EXCEPT ![t] = "disk"]
          /\ purpose' = [purpose EXCEPT ![t] = "disk"]
          /\ UNCHANGED <<pins, aliased, disk, key, stage, evicting, hostVictim, hostLeft,
                         hostPins>>
       \/ Miss(t) /\ UNCHANGED disk
       \/ Wanted(t) \in disk /\ Miss(t) /\ disk' = disk \ {Wanted(t)}

\* The disk writer thread lands an entry file, or fails to; DiskTier has the steps.
DiskWrite ==
    \E p \in queued :
        /\ disk' \in {disk, disk \cup {p}}
        /\ queued' = queued \ {p}
        /\ UNCHANGED <<vram, hostTier, aliased, pc, request, evicting, hosting, hostPins>>

\* The writer thread, of this process or another, evicts a document.
DiskEvict ==
    \E p \in disk :
        /\ disk' = { q \in disk : q[1] # p[1] }
        /\ UNCHANGED <<vram, hostTier, aliased, queued, pc, request, evicting, hosting,
                       hostPins>>

-----------------------------------------------------------------------------
(* The VRAM tier's evict_to_fit and demote_to_host.                        *)

EvictionFailed(t) ==
    \/ room[t] = "promote" /\ PromotionFailed(t)
    \/ room[t] = "insert" /\ Return(t) /\ UNCHANGED <<pins, aliased>>

\* The check leaves out the bytes about to be added.
HasRoomIgnoringNeed(t) == used <= VramBudget
HasRoom(t) == used + Size[HashOfThread(t)] <= VramBudget

Check(t) ==
    /\ pc[t] = "check"
    /\ UNCHANGED <<primary, used, hostTier, diskTier>>
    /\ \/ left[t] = 0 /\ EvictionFailed(t)
       \/ /\ left[t] > 0
          /\ IF HasRoom(t)
                THEN Goto(t, "install") /\ left' = [left EXCEPT ![t] = 0]
                ELSE Goto(t, "pick") /\ UNCHANGED left
          /\ UNCHANGED <<pins, aliased, request, room, victim, hosting, hostPins>>

\* A scan without a candidate is retried until another thread drops its Arc.
PickRetries(t) ==
    /\ pc[t] = "pick"
    /\ UNCHANGED <<primary, used, pins, hostTier, aliased, diskTier, request, room, left,
                   hosting, hostPins>>
    /\ \/ FindsNone(t, Unpinned) /\ Goto(t, "check") /\ UNCHANGED victim
       \/ \E v \in Unpinned : victim' = [victim EXCEPT ![t] = v] /\ Goto(t, "remove")

Pick(t) ==
    /\ pc[t] = "pick"
    /\ UNCHANGED <<primary, used, hostTier, diskTier>>
    /\ \/ FindsNone(t, Unpinned) /\ EvictionFailed(t)
       \/ \E v \in Unpinned :
             /\ victim' = [victim EXCEPT ![t] = v]
             /\ Goto(t, "remove")
             /\ UNCHANGED <<pins, aliased, request, room, left, hosting, hostPins>>

NextIteration(t) ==
    /\ Goto(t, "check")
    /\ left' = [left EXCEPT ![t] = @ - 1]
    /\ victim' = [victim EXCEPT ![t] = AnyHash]

\* The victim's bytes are refunded whether or not this thread removed it.
RemoveRefundsAnyway(t) ==
    /\ pc[t] = "remove"
    /\ primary' = primary \ {victim[t]}
    /\ pins' = [u \in Threads |-> pins[u] \ {victim[t]}]
    /\ Goto(t, "sub")
    /\ UNCHANGED <<used, hostTier, aliased, diskTier, request, evicting, hosting, hostPins>>

\* Another thread may have removed the victim, or pinned it, since the scan.
Remove(t) ==
    /\ pc[t] = "remove"
    /\ UNCHANGED <<used, hostTier, aliased, diskTier, request, room, hosting, hostPins>>
    /\ \/ /\ victim[t] \in primary
          /\ primary' = primary \ {victim[t]}
          /\ pins' = [u \in Threads |-> pins[u] \ {victim[t]}]
          /\ Goto(t, "sub")
          /\ UNCHANGED <<left, victim>>
       \/ /\ victim[t] \notin primary
          /\ NextIteration(t)
          /\ UNCHANGED <<primary, pins>>

Subtract(t) ==
    /\ pc[t] = "sub"
    /\ used' = used - Size[victim[t]]
    /\ Goto(t, "demote")
    /\ UNCHANGED <<primary, pins, hostTier, aliased, diskTier, request, evicting, hosting,
                   hostPins>>

\* Skipped without a host tier or with the bytes there already; the copy may fail.
Demote(t) ==
    /\ pc[t] = "demote"
    /\ UNCHANGED <<vram, hostTier, aliased, diskTier, request, room, hostVictim, hostLeft,
                   hostPins>>
    /\ \/ NextIteration(t) /\ UNCHANGED purpose
       \/ /\ HostBudget # 0
          /\ victim[t] \notin host
          /\ Goto(t, "hostReplace")
          /\ purpose' = [purpose EXCEPT ![t] = "demote"]
          /\ UNCHANGED <<left, victim>>

-----------------------------------------------------------------------------
(* HostTier::insert and its evict_to_fit.                                  *)

\* Dropping h from the index leaves its holders with an Arc the index no longer counts.
HostRemove(h) ==
    /\ host' = host \ {h}
    /\ hostPins' = { u \in hostPins : HashOfThread(u) # h }

StartHostEviction(t) ==
    /\ Goto(t, "hostCheck")
    /\ hostLeft' = [hostLeft EXCEPT ![t] = MaxIters(host)]

\* The entry replaced is refunded without looking whether there was one.
HostReplaceUnchecked(t) ==
    /\ pc[t] = "hostReplace"
    /\ HostRemove(Hosted(t))
    /\ Goto(t, "hostReplaceSub")
    /\ UNCHANGED <<vram, hostUsed, aliased, diskTier, request, evicting, hosting>>

HostReplace(t) ==
    /\ pc[t] = "hostReplace"
    /\ UNCHANGED <<vram, hostUsed, aliased, diskTier, request, evicting, purpose, hostVictim>>
    /\ \/ /\ Hosted(t) \in host
          /\ HostRemove(Hosted(t))
          /\ Goto(t, "hostReplaceSub")
          /\ UNCHANGED hostLeft
       \/ /\ Hosted(t) \notin host
          /\ StartHostEviction(t)
          /\ UNCHANGED <<host, hostPins>>

HostReplaceSub(t) ==
    /\ pc[t] = "hostReplaceSub"
    /\ hostUsed' = hostUsed - Size[Hosted(t)]
    /\ StartHostEviction(t)
    /\ UNCHANGED <<vram, host, aliased, diskTier, request, evicting, purpose, hostVictim,
                   hostPins>>

HostCheck(t) ==
    /\ pc[t] = "hostCheck"
    /\ IF hostLeft[t] = 0 \/ hostUsed + Size[Hosted(t)] <= HostBudget
          THEN Goto(t, "hostAdd") /\ hostLeft' = [hostLeft EXCEPT ![t] = 0]
          ELSE Goto(t, "hostPick") /\ UNCHANGED hostLeft
    /\ UNCHANGED <<vram, hostTier, aliased, diskTier, request, evicting, purpose, hostVictim,
                   hostPins>>

\* Nothing reclaimable: the tier overshoots its budget.
HostPick(t) ==
    /\ pc[t] = "hostPick"
    /\ UNCHANGED <<vram, hostTier, aliased, diskTier, request, evicting, purpose, hostLeft,
                   hostPins>>
    /\ \/ FindsNone(t, HostUnpinned) /\ Goto(t, "hostAdd") /\ UNCHANGED hostVictim
       \/ \E v \in HostUnpinned :
             /\ hostVictim' = [hostVictim EXCEPT ![t] = v]
             /\ Goto(t, "hostDrop")

NextHostIteration(t) ==
    /\ Goto(t, "hostCheck")
    /\ hostLeft' = [hostLeft EXCEPT ![t] = @ - 1]
    /\ hostVictim' = [hostVictim EXCEPT ![t] = AnyHash]

HostDrop(t) ==
    /\ pc[t] = "hostDrop"
    /\ UNCHANGED <<vram, hostUsed, aliased, diskTier, request, evicting, purpose>>
    /\ \/ /\ hostVictim[t] \in host
          /\ HostRemove(hostVictim[t])
          /\ Goto(t, "hostDropSub")
          /\ UNCHANGED <<hostLeft, hostVictim>>
       \/ /\ hostVictim[t] \notin host
          /\ NextHostIteration(t)
          /\ UNCHANGED <<host, hostPins>>

HostDropSub(t) ==
    /\ pc[t] = "hostDropSub"
    /\ hostUsed' = hostUsed - Size[hostVictim[t]]
    /\ NextHostIteration(t)
    /\ UNCHANGED <<vram, host, aliased, diskTier, request, evicting, purpose, hostPins>>

HostAdd(t) ==
    /\ pc[t] = "hostAdd"
    /\ hostUsed' = hostUsed + Size[Hosted(t)]
    /\ Goto(t, "hostPut")
    /\ UNCHANGED <<vram, host, aliased, diskTier, request, evicting, hosting, hostPins>>

\* An entry another thread put meanwhile is overwritten, its bytes never subtracted.
\* promote_from_disk keeps the Arc and promotes; demotion returns to the eviction loop.
HostPut(t) ==
    /\ pc[t] = "hostPut"
    /\ host' = host \cup {Hosted(t)}
    /\ hostPins' = { u \in hostPins : HashOfThread(u) # Hosted(t) }
                      \cup (IF purpose[t] = "disk" THEN {t} ELSE {})
    /\ \/ purpose[t] = "demote" /\ NextIteration(t)
       \/ purpose[t] = "disk" /\ Goto(t, "hostLookup") /\ UNCHANGED <<left, victim>>
    /\ HostInsertOver(t)
    /\ UNCHANGED <<vram, hostUsed, aliased, diskTier, request, room>>

-----------------------------------------------------------------------------
Step(t) ==
    \/ Probe(t) \/ Decode(t) \/ InsertInstall(t)
    \/ HostLookup(t) \/ PromoteInstall(t) \/ DiskLookup(t)
    \/ Check(t) \/ Pick(t) \/ Remove(t) \/ Subtract(t) \/ Demote(t)
    \/ HostReplace(t) \/ HostReplaceSub(t) \/ HostCheck(t) \/ HostPick(t)
    \/ HostDrop(t) \/ HostDropSub(t) \/ HostAdd(t) \/ HostPut(t)

ThreadNext(t) ==
    \/ \E k \in Keys : Request(t, k)
    \/ \E h \in Hashes : Release(t, h)
    \/ Step(t)

Next == DiskWrite \/ DiskEvict \/ \E t \in Threads : ThreadNext(t)

Spec == Init /\ [][Next]_vars

\* A thread inside a cache call keeps running: the calls take no lock they could wait on.
FairSpec == Spec /\ \A t \in Threads : WF_vars(Step(t))
-----------------------------------------------------------------------------
(* Properties.                                                             *)

Labels == {"idle", "probe", "decode", "hostLookup", "disk", "check", "pick", "remove", "sub",
           "demote", "install", "hostReplace", "hostReplaceSub", "hostCheck", "hostPick",
           "hostDrop", "hostDropSub", "hostAdd", "hostPut"}

TierTypes ==
    /\ primary \subseteq Hashes /\ used \in Int
    /\ host \subseteq Hashes /\ hostUsed \in Int

CallTypes ==
    /\ aliased \subseteq Keys
    /\ pins \in [Threads -> SUBSET Hashes]
    /\ pc \in [Threads -> Labels]
    /\ key \in [Threads -> Keys]
    /\ stage \in [Threads -> {"byId", "byHash", "insert"}]
    /\ source \in [Threads -> {"host", "disk"}]
    /\ room \in [Threads -> {"promote", "insert"}]
    /\ victim \in [Threads -> Hashes] /\ left \in [Threads -> Int]
    /\ purpose \in [Threads -> {"demote", "disk"}]
    /\ hostVictim \in [Threads -> Hashes] /\ hostLeft \in [Threads -> Int]
    /\ hostPins \subseteq Threads

\* The types of the variables; the two byte counters are unsigned, so neither may underflow.
TypeOK == TierTypes /\ CallTypes /\ used \in Nat /\ hostUsed \in Nat

VictimSize == [t \in Threads |-> Size[victim[t]]]
WantedSize == [t \in Threads |-> Size[HashOfThread(t)]]
HostedSize == [t \in Threads |-> Size[Hosted(t)]]
HostVictimSize == [t \in Threads |-> Size[hostVictim[t]]]
At(label) == { t \in Threads : pc[t] = label }

\* used_bytes is the bytes of the indexed entries plus those of the entries a thread has
\* taken out of the index and is about to subtract: whatever races the inserts, promotions
\* and evictions of one hash run, no entry is charged twice or refunded twice, so the
\* counter never underflows (the debug_assert of evict_to_fit).
VramAccounting == used = Total(primary, Size) + Total(At("sub"), VictimSize)

\* The budget check and the fetch_add that follows the upload are apart, so the tier may
\* exceed its budget, but by no more than one admitted entry for each other thread.
OvershootBounded ==
    used + Total(At("install"), WantedSize) <= Cardinality(Threads) * VramBudget

\* The host tier's counter never falls below what its index holds: a race on one hash can
\* leave bytes charged for ever, it cannot lose a charge (the debug_assert of evict_to_fit).
HostNeverUndercounts ==
    hostUsed >= Total(host, Size) + Total(At("hostReplaceSub"), HostedSize)
                  + Total(At("hostDropSub"), HostVictimSize) + Total(At("hostPut"), HostedSize)

\* Every request returns, in spite of other threads pinning and evicting the same entries:
\* both eviction loops and the path through the tiers are bounded.
RequestReturns == \A t \in Threads : []<>(pc[t] = "idle")
=============================================================================
