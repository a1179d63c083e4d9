----------------------------- MODULE DecoderLend -----------------------------
(***************************************************************************)
(* The per-thread GPU image decoders of crates/pdf_raster: gpu_init.rs     *)
(* keeps each decoder in a thread-local slot and builds it on first use,   *)
(* one construction at a time in the process; decoders.rs moves a thread's *)
(* decoders into the renderer of the page it renders and a guard moves     *)
(* them back on every way out; render.rs arms the guard before the lend.   *)
(* The pages of one thread follow one another; a worker pool runs several  *)
(* threads.                                                                *)
(*                                                                         *)
(* slot[t][d] is "uninit", "failed", "held" for Ready(Some) and "lent" for *)
(* Ready(None).                                                            *)
(***************************************************************************)
EXTENDS Integers, Sequences, FiniteSets

CONSTANTS Threads,
          Lendable,       \* the decoders compiled in, in the order lend_decoders takes them
          Policies,       \* BackendPolicy of the pages: the session's, or a page's own
          VulkanSession,  \* session.vk_backend is Some
          HuffmanKernel,  \* device_kernel_enabled(HuffmanJpeg)
          NoThread

DecoderKinds == {"huffCuda", "huffVk", "nvjpeg", "nvjpeg2k"}
PolicyKinds == {"Auto", "CpuOnly", "ForceCuda", "ForceVulkan", "ForceVaapi"}

ASSUME LendableType == Lendable \in Seq(DecoderKinds)
ASSUME PoliciesType == Policies # {} /\ Policies \subseteq PolicyKinds
ASSUME SwitchesType == VulkanSession \in BOOLEAN /\ HuffmanKernel \in BOOLEAN
ASSUME NoThreadType == NoThread \notin Threads

VARIABLES
    slot,      \* the thread-local slots
    lent,      \* lent[t]: the decoders the renderer of t's page holds
    pc,        \* "idle", "lend", "lock", "build", "render" or "unwind"
    policy,    \* the effective policy of t's page
    next,      \* the decoder lend_decoders is at
    initLock   \* the thread holding DECODER_INIT_LOCK

lendingVars == <<slot, lent, pc, policy, next, initLock>>

Decoders == { Lendable[i] : i \in DOMAIN Lendable }
AnyPolicy == CHOOSE p \in Policies : TRUE

LendingInit ==
    /\ slot = [t \in Threads |-> [d \in Decoders |-> "uninit"]]
    /\ lent = [t \in Threads |-> {}]
    /\ pc = [t \in Threads |-> "idle"]
    /\ policy = [t \in Threads |-> AnyPolicy]
    /\ next = [t \in Threads |-> 1]
    /\ initLock = NoThread

Goto(t, label) == pc' = [pc EXCEPT ![t] = label]
Current(t) == Lendable[next[t]]

-----------------------------------------------------------------------------
\* wants_huffman_decoder
WantsHuffman(p) ==
    \/ p = "Auto" /\ HuffmanKernel
    \/ p \in {"ForceCuda", "ForceVulkan"}

\* Vulkan wins Auto in a session that has a Vulkan backend.
PrefersVulkan(p) == "huffVk" \in Decoders /\ (p = "ForceVulkan" \/ (p = "Auto" /\ VulkanSession))

\* Whether lend_decoders comes to the ensure call of d.
Wants(p, d) ==
    CASE d = "huffVk"   -> WantsHuffman(p) /\ PrefersVulkan(p)
      [] d = "huffCuda" -> WantsHuffman(p) /\ ~PrefersVulkan(p)
      [] OTHER          -> p \notin {"CpuOnly", "ForceVaapi"}

\* Whether a decoder that cannot be built fails the page.
Forces(p, d) == p = (IF d = "huffVk" THEN "ForceVulkan" ELSE "ForceCuda")

-----------------------------------------------------------------------------
\* The guard is armed, then lend_decoders called.
BeginPage(t, p) ==
    /\ pc[t] = "idle"
    /\ policy' = [policy EXCEPT ![t] = p]
    /\ next' = [next EXCEPT ![t] = 1]
    /\ Goto(t, IF p = "CpuOnly" THEN "render" ELSE "lend")
    /\ UNCHANGED <<slot, lent, initLock>>

\* The lend moves on; the alternative steps over the decoder after one it has taken.
Skip(t) == next' = [next EXCEPT ![t] = @ + (IF slot[t][Current(t)] = "held" THEN 2 ELSE 1)]
Advance(t) == next' = [next EXCEPT ![t] = @ + 1]

\* slot.take().  The alternative leaves the slot as if its decoder had never been built.
TakeForgetting(t, d) ==
    /\ slot' = [slot EXCEPT ![t][d] = "uninit"]
    /\ lent' = [lent EXCEPT ![t] = @ \cup {d}]
TakeDecoder(t, d) ==
    /\ slot' = [slot EXCEPT ![t][d] = "lent"]
    /\ lent' = [lent EXCEPT ![t] = @ \cup {d}]

\* One ensure and take; an uninitialised slot is built first, a failed one fails the page
\* under the policy that forces it.
Lend(t) ==
    LET d == Current(t) IN
    /\ pc[t] = "lend"
    /\ next[t] <= Len(Lendable)
    /\ \/ /\ Wants(policy[t], d) /\ slot[t][d] = "uninit"
          /\ Goto(t, "lock")
          /\ UNCHANGED <<slot, lent, next>>
       \/ /\ Wants(policy[t], d) /\ slot[t][d] = "failed" /\ Forces(policy[t], d)
          /\ Goto(t, "unwind")
          /\ UNCHANGED <<slot, lent, next>>
       \/ /\ Wants(policy[t], d) /\ slot[t][d] = "held"
          /\ TakeDecoder(t, d)
          /\ Advance(t)
          /\ UNCHANGED pc
       \/ /\ Wants(policy[t], d) =>
                slot[t][d] = "lent" \/ (slot[t][d] = "failed" /\ ~Forces(policy[t], d))
          /\ Advance(t)
          /\ UNCHANGED <<slot, lent, pc>>
    /\ UNCHANGED <<policy, initLock>>

EndLend(t) ==
    /\ pc[t] = "lend"
    /\ next[t] > Len(Lendable)
    /\ Goto(t, "render")
    /\ UNCHANGED <<slot, lent, policy, next, initLock>>

Lock(t) ==
    /\ pc[t] = "lock"
    /\ initLock = NoThread
    /\ initLock' = t
    /\ Goto(t, "build")
    /\ UNCHANGED <<slot, lent, policy, next>>

\* The constructor returns; the ensure call then goes on from the slot's new state.
Build(t) ==
    /\ pc[t] = "build"
    /\ initLock' = NoThread
    /\ \E built \in {"held", "failed"} : slot' = [slot EXCEPT ![t][Current(t)] = built]
    /\ Goto(t, "lend")
    /\ UNCHANGED <<lent, policy, next>>

\* The page is rendered, or aborted.
EndRender(t) ==
    /\ pc[t] = "render"
    /\ Goto(t, "unwind")
    /\ UNCHANGED <<slot, lent, policy, next, initLock>>

\* A panic in a constructor that holds on to the lock.
PanicKeepsLock(t) ==
    /\ pc[t] \in {"render", "build"}
    /\ Goto(t, "unwind")
    /\ UNCHANGED <<slot, lent, policy, next, initLock>>

\* A panic while rendering, or in a constructor, whose lock guard is dropped on the way out;
\* later lockers take the poisoned lock as it is.
Panic(t) ==
    /\ pc[t] \in {"render", "build"}
    /\ Goto(t, "unwind")
    /\ initLock' = IF pc[t] = "build" THEN NoThread ELSE initLock
    /\ UNCHANGED <<slot, lent, policy, next>>

\* What reclaim_decoders leaves in a slot; the alternative does not ask whether it is Ready.
ReclaimedUnready(t, d) == IF d \in lent[t] THEN "held" ELSE "lent"
Reclaimed(t, d) ==
    IF slot[t][d] \in {"held", "lent"} THEN IF d \in lent[t] THEN "held" ELSE "lent"
                                       ELSE slot[t][d]

\* The guard is dropped, then the renderer.
Reclaim(t) ==
    /\ pc[t] = "unwind"
    /\ slot' = [slot EXCEPT ![t] = [d \in Decoders |-> Reclaimed(t, d)]]
    /\ lent' = [lent EXCEPT ![t] = {}]
    /\ next' = [next EXCEPT ![t] = 1]
    /\ Goto(t, "idle")
    /\ UNCHANGED <<policy, initLock>>

\* release_gpu_decoders, broadcast to the pool when no page is rendering.
Release(t) ==
    /\ \A u \in Threads : pc[u] = "idle"
    /\ slot' = [slot EXCEPT ![t] =
                   [d \in Decoders |-> IF d = "huffCuda" THEN @[d] ELSE "uninit"]]
    /\ UNCHANGED <<lent, pc, policy, next, initLock>>

-----------------------------------------------------------------------------
Work(t) ==
    \/ Lend(t) \/ EndLend(t) \/ Lock(t) \/ Build(t) \/ EndRender(t) \/ Reclaim(t)

LendingNext ==
    \E t \in Threads :
        \/ \E p \in Policies : BeginPage(t, p)
        \/ Work(t) \/ Panic(t) \/ Release(t)

LendingSpec == LendingInit /\ [][LendingNext]_lendingVars

\* A thread with a page goes on with it, when the lock it may wait for is free.
LendingFairSpec == LendingSpec /\ \A t \in Threads : WF_lendingVars(Work(t))

-----------------------------------------------------------------------------
\* The types of the variables.
LendingTypeOK ==
    /\ slot \in [Threads -> [Decoders -> {"uninit", "failed", "held", "lent"}]]
    /\ lent \in [Threads -> SUBSET Decoders]
    /\ pc \in [Threads -> {"idle", "lend", "lock", "build", "render", "unwind"}]
    /\ policy \in [Threads -> Policies]
    /\ next \in [Threads -> 1..(Len(Lendable) + 1)]
    /\ initLock \in Threads \cup {NoThread}

\* Whatever a page has been lent can be given back: however far the lend came before it
\* failed or the page panicked, each decoder in the renderer has its slot waiting for it.
LentIsReturnable == \A t \in Threads : \A d \in lent[t] : slot[t][d] = "lent"

\* A failed construction is remembered: only the release of the idle pool forgets it.
FailureRemembered ==
    [][\A t \in Threads, d \in Decoders :
          slot[t][d] = "failed" /\ slot'[t][d] # "failed" =>
             \A u \in Threads : pc[u] = "idle"]_lendingVars

\* Every page gives the thread back, whatever constructions fail or panic under the lock:
\* the lock is not fair, but a slot is constructed once, so unless constructors panic for
\* ever the threads that pass a waiting one run out.
PanicsStop == <>[][\A t \in Threads : ~Panic(t)]_lendingVars
PageEnds == PanicsStop => \A t \in Threads : pc[t] # "idle" ~> pc[t] = "idle"

\* decoders.rs, on the guard: "subsequent pages on the same Rayon worker still find their
\* decoder slots populated"; a thread between pages has no slot whose decoder is away.
SlotsPopulatedBetweenPages ==
    \A t \in Threads, d \in Decoders : pc[t] = "idle" => slot[t][d] # "lent"
=============================================================================
