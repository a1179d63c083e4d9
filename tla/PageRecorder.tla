---------------------------- MODULE PageRecorder ----------------------------
(* The Vulkan backend's page recorder, staged transfers and fill scratch   *)
(* (crates/gpu/src/backend: vulkan/recorder.rs, vulkan/transfer.rs,        *)
(* vulkan/mod.rs, mod.rs, aa_fill.rs).  Threads fill anti-aliased paths in *)
(* pages of device work, and copy to and from device buffers; the device   *)
(* has one queue.  On a mapped (integrated) device the host reaches device *)
(* buffers in place; on another it copies through staging buffers.         *)
EXTENDS Naturals, Sequences, FiniteSets

CONSTANTS
  Fillers,      \* threads that run aa_fill
  Copiers,      \* threads that upload or download
  Rounds,       \* bound: thread -> fills or copies it starts
  MaxFailures,  \* bound: steps that fail or panic
  Scratches,    \* names for fill scratches
  Staging,      \* copier -> the staging buffer of its direction
  Shared,       \* a device buffer that pages and copies use
  Nobody        \* a lock is free, a thread has no scratch

Threads == Fillers \cup Copiers
Buffers == {Staging[c] : c \in Copiers}

ASSUME PageRecorderAssumption ==
  /\ Fillers \cap Copiers = {} /\ Nobody \notin Threads \cup Scratches
  /\ Rounds \in [Threads -> Nat] /\ MaxFailures \in Nat
  /\ Shared \notin Scratches \cup Buffers /\ Buffers \cap Scratches = {}
  /\ IsFiniteSet(Fillers) /\ IsFiniteSet(Scratches)
  /\ Cardinality(Scratches) >= Cardinality(Fillers)

VARIABLES
  mapped,     \* device buffers are host-mapped
  at,         \* thread -> its next step
  left,       \* thread -> fills or copies it may still start
  outcome,    \* filler -> "ok", "error" or "panic" of its page
  scratch,    \* filler -> the scratch lent to it
  idle,       \* the scratch pool, last in first out
  page,       \* holder of the backend's page lock
  inner,      \* holder of the recorder's lock
  state,      \* the recorder's: "Idle", "Recording" or "Submitted"
  nextValue,  \* timeline value of the next submission
  lastSubmitted,  \* timeline value of the last page submitted, 0 for none
  fence,      \* filler -> timeline value of its page
  staging,    \* staging buffer -> holder of its lock
  cmdPool,    \* holder of the transfers' command pool
  queue,      \* holder of the device queue's lock
  inFlight,   \* submissions the device has not completed
  timeline,   \* value of the timeline semaphore
  failures,   \* steps that have failed
  lost        \* work was left in flight by a wait that failed

threadVars == <<at, left, outcome>>
scratchVars == <<scratch, idle>>
recorderVars == <<page, inner, state, nextValue, lastSubmitted, fence>>
transferVars == <<staging, cmdPool>>
deviceVars == <<queue, inFlight, timeline>>
faultVars == <<failures, lost>>
vars == <<mapped, threadVars, scratchVars, recorderVars, transferVars,
          deviceVars, faultVars>>

Points == {"idle", "stage", "lock page", "begin", "record", "submit", "submitting",
           "wait", "waiting", "abandon", "abandoning", "unlock page", "put",
           "quiesce", "quiescing", "access", "lock staging", "lock pool",
           "lock queue", "copying", "read"}
Work == [by : Threads, value : Nat, uses : SUBSET (Scratches \cup Buffers \cup {Shared})]

TypeOK ==
  /\ mapped \in BOOLEAN
  /\ at \in [Threads -> Points]
  /\ left \in [Threads -> Nat]
  /\ outcome \in [Fillers -> {"ok", "error", "panic"}]
  /\ scratch \in [Fillers -> Scratches \cup {Nobody}]
  /\ idle \in Seq(Scratches)
  /\ page \in Fillers \cup {Nobody}
  /\ inner \in Threads \cup {Nobody}
  /\ state \in {"Idle", "Recording", "Submitted"}
  /\ nextValue \in Nat \ {0}
  /\ lastSubmitted \in 0..(nextValue - 1)
  /\ fence \in [Fillers -> 0..(nextValue - 1)]
  /\ staging \in [Buffers -> Copiers \cup {Nobody}]
  /\ cmdPool \in Copiers \cup {Nobody}
  /\ queue \in Copiers \cup {Nobody}
  /\ inFlight \in Seq(Work)
  /\ timeline \in 0..(nextValue - 1)
  /\ failures \in 0..MaxFailures
  /\ lost \in BOOLEAN

Init ==
  /\ mapped \in BOOLEAN
  /\ at = [t \in Threads |-> "idle"]
  /\ left = Rounds
  /\ outcome = [t \in Fillers |-> "ok"]
  /\ scratch = [t \in Fillers |-> Nobody]
  /\ idle = <<>>
  /\ page = Nobody /\ inner = Nobody
  /\ state = "Idle"
  /\ nextValue = 1 /\ lastSubmitted = 0
  /\ fence = [t \in Fillers |-> 0]
  /\ staging = [b \in Buffers |-> Nobody]
  /\ cmdPool = Nobody /\ queue = Nobody
  /\ inFlight = <<>> /\ timeline = 0
  /\ failures = 0 /\ lost = FALSE

-----------------------------------------------------------------------------
GoTo(t, p) == at' = [at EXCEPT ![t] = p]
Idle(s) == \E i \in 1..Len(idle) : idle[i] = s
Lent(s) == \E t \in Fillers : scratch[t] = s
NewScratch == CHOOSE s \in Scratches : ~Idle(s) /\ ~Lent(s)
Fail == failures < MaxFailures /\ failures' = failures + 1

-----------------------------------------------------------------------------
(* aa_fill: a scratch, a page, its counts.  The recorder refuses a step in *)
(* the wrong state; pages that go through run_page never meet that.        *)

\* A pool that keeps the scratch it lends.
TakeInUse(t) ==
  /\ at[t] = "idle" /\ left[t] > 0
  /\ left' = [left EXCEPT ![t] = @ - 1]
  /\ GoTo(t, "stage")
  /\ IF idle = <<>>
     THEN scratch' = [scratch EXCEPT ![t] = NewScratch] /\ UNCHANGED idle
     ELSE /\ scratch' = [scratch EXCEPT ![t] = idle[Len(idle)]]
          /\ UNCHANGED idle
  /\ UNCHANGED <<mapped, outcome, recorderVars, transferVars, deviceVars, faultVars>>

Take(t) ==
  /\ at[t] = "idle" /\ left[t] > 0
  /\ left' = [left EXCEPT ![t] = @ - 1]
  /\ GoTo(t, "stage")
  /\ IF idle = <<>>
     THEN scratch' = [scratch EXCEPT ![t] = NewScratch] /\ UNCHANGED idle
     ELSE /\ scratch' = [scratch EXCEPT ![t] = idle[Len(idle)]]
          /\ idle' = SubSeq(idle, 1, Len(idle) - 1)
  /\ UNCHANGED <<mapped, outcome, recorderVars, transferVars, deviceVars, faultVars>>

\* The host writes the scratch; growing it may fail.
Stage(t) ==
  /\ at[t] = "stage"
  /\ \/ GoTo(t, "lock page") /\ UNCHANGED <<outcome, failures>>
     \/ Fail /\ GoTo(t, "put") /\ outcome' = [outcome EXCEPT ![t] = "error"]
  /\ UNCHANGED <<mapped, left, scratchVars, recorderVars, transferVars, deviceVars, lost>>

\* A page whose thread does not go through run_page's lock.
BeginUnlocked(t) ==
  /\ at[t] = "lock page"
  /\ GoTo(t, "begin")
  /\ UNCHANGED <<mapped, left, outcome, scratchVars, recorderVars, transferVars,
                 deviceVars, faultVars>>

LockPage(t) ==
  /\ at[t] = "lock page"
  /\ page = Nobody
  /\ page' = t
  /\ GoTo(t, "begin")
  /\ UNCHANGED <<mapped, left, outcome, scratchVars, inner, state, nextValue,
                 lastSubmitted, fence, transferVars, deviceVars, faultVars>>

\* A step of run_page_steps that fails or unwinds leads to the abandon.
Abandon(t, how) ==
  Fail /\ GoTo(t, "abandon") /\ outcome' = [outcome EXCEPT ![t] = how]

\* Resets the recorder's command and descriptor pools.
BeginPage(t) ==
  /\ at[t] = "begin"
  /\ inner = Nobody
  /\ \/ /\ state = "Idle"
        /\ state' = "Recording"
        /\ GoTo(t, "record")
        /\ UNCHANGED <<outcome, failures>>
     \/ Abandon(t, "error") /\ UNCHANGED state
  /\ UNCHANGED <<mapped, left, scratchVars, page, inner, nextValue, lastSubmitted,
                 fence, transferVars, deviceVars, lost>>

\* Every dispatch and copy of the page; one may be refused, or panic.
Record(t) ==
  /\ at[t] = "record"
  /\ state = "Recording"
  /\ \/ GoTo(t, "submit") /\ UNCHANGED <<outcome, failures>>
     \/ \E how \in {"error", "panic"} : Abandon(t, how)
  /\ UNCHANGED <<mapped, left, scratchVars, recorderVars, transferVars, deviceVars, lost>>

SubmitPage(t) ==
  /\ at[t] = "submit"
  /\ inner = Nobody
  /\ inner' = t
  /\ GoTo(t, "submitting")
  /\ UNCHANGED <<mapped, left, outcome, scratchVars, page, state, nextValue,
                 lastSubmitted, fence, transferVars, deviceVars, faultVars>>

\* A mutant of EndAndSubmit: a failed submission is noted as submitted.
CountsFailedSubmission(t) ==
  /\ at[t] = "submitting" /\ state = "Recording"
  /\ queue = Nobody
  /\ inner' = Nobody
  /\ nextValue' = nextValue + 1
  /\ \/ /\ inFlight' = Append(inFlight, [by |-> t, value |-> nextValue,
                                         uses |-> {scratch[t], Shared}])
        /\ lastSubmitted' = nextValue
        /\ fence' = [fence EXCEPT ![t] = nextValue]
        /\ state' = "Submitted"
        /\ GoTo(t, "wait")
        /\ UNCHANGED <<outcome, failures>>
     \/ /\ state' = "Idle"
        /\ Abandon(t, "error")
        /\ lastSubmitted' = nextValue
        /\ UNCHANGED <<inFlight, fence>>
  /\ UNCHANGED <<mapped, left, scratchVars, page, transferVars, queue, timeline, lost>>

\* end_and_submit takes the queue's lock with the recorder's held, and takes
\* its timeline value before the submission, which may fail.
EndAndSubmit(t) ==
  /\ at[t] = "submitting" /\ state = "Recording"
  /\ queue = Nobody
  /\ inner' = Nobody
  /\ nextValue' = nextValue + 1
  /\ \/ /\ inFlight' = Append(inFlight, [by |-> t, value |-> nextValue,
                                         uses |-> {scratch[t], Shared}])
        /\ lastSubmitted' = nextValue
        /\ fence' = [fence EXCEPT ![t] = nextValue]
        /\ state' = "Submitted"
        /\ GoTo(t, "wait")
        /\ UNCHANGED <<outcome, failures>>
     \/ /\ state' = "Idle"
        /\ Abandon(t, "error")
        /\ UNCHANGED <<inFlight, lastSubmitted, fence>>
  /\ UNCHANGED <<mapped, left, scratchVars, page, transferVars, queue, timeline, lost>>

\* The command buffer could not be ended: no value is taken.
EndFails(t) ==
  /\ at[t] = "submitting" /\ state = "Recording"
  /\ inner' = Nobody
  /\ state' = "Idle"
  /\ Abandon(t, "error")
  /\ UNCHANGED <<mapped, left, scratchVars, page, nextValue, lastSubmitted, fence,
                 transferVars, deviceVars, lost>>

WaitPage(t) ==
  /\ at[t] = "wait"
  /\ inner = Nobody
  /\ inner' = t
  /\ GoTo(t, "waiting")
  /\ UNCHANGED <<mapped, left, outcome, scratchVars, page, state, nextValue,
                 lastSubmitted, fence, transferVars, deviceVars, faultVars>>

Waited(t) ==
  /\ at[t] = "waiting" /\ state = "Submitted"
  /\ inner' = Nobody
  /\ \/ /\ timeline >= fence[t]
        /\ state' = "Idle"
        /\ GoTo(t, "unlock page")
        /\ UNCHANGED <<outcome, failures>>
     \/ /\ Abandon(t, "error")
        /\ UNCHANGED state
  /\ UNCHANGED <<mapped, left, scratchVars, page, nextValue, lastSubmitted, fence,
                 transferVars, deviceVars, lost>>

\* An abandon that only forgets the page.
AbortWithoutWait(t) ==
  /\ at[t] = "abandon"
  /\ inner = Nobody
  /\ state' = "Idle"
  /\ GoTo(t, "unlock page")
  /\ UNCHANGED <<mapped, left, outcome, scratchVars, page, inner, nextValue,
                 lastSubmitted, fence, transferVars, deviceVars, faultVars>>

\* abort_page discards a recording page, and waits for a submitted one.
AbortPage(t) ==
  /\ at[t] = "abandon"
  /\ inner = Nobody
  /\ IF state = "Submitted"
     THEN inner' = t /\ GoTo(t, "abandoning") /\ UNCHANGED state
     ELSE state' = "Idle" /\ GoTo(t, "unlock page") /\ UNCHANGED inner
  /\ UNCHANGED <<mapped, left, outcome, scratchVars, page, nextValue,
                 lastSubmitted, fence, transferVars, deviceVars, faultVars>>

\* A wait that fails here too is logged, and the page left to the device.
Aborted(t) ==
  /\ at[t] = "abandoning"
  /\ \/ timeline >= lastSubmitted /\ UNCHANGED faultVars
     \/ Fail /\ lost' = TRUE
  /\ inner' = Nobody
  /\ state' = "Idle"
  /\ GoTo(t, "unlock page")
  /\ UNCHANGED <<mapped, left, outcome, scratchVars, page, nextValue,
                 lastSubmitted, fence, transferVars, deviceVars>>

UnlockPage(t) ==
  /\ at[t] = "unlock page"
  /\ page' = Nobody
  /\ GoTo(t, "put")
  /\ UNCHANGED <<mapped, left, outcome, scratchVars, inner, state, nextValue,
                 lastSubmitted, fence, transferVars, deviceVars, faultVars>>

\* The counts of a page that went well are read; the scratch goes back to
\* the pool, or is freed with the frames of a fill that unwinds.
Put(t) ==
  /\ at[t] = "put"
  /\ idle' = IF outcome[t] = "panic" THEN idle ELSE Append(idle, scratch[t])
  /\ scratch' = [scratch EXCEPT ![t] = Nobody]
  /\ outcome' = [outcome EXCEPT ![t] = "ok"]
  /\ fence' = [fence EXCEPT ![t] = 0]
  /\ GoTo(t, "idle")
  /\ UNCHANGED <<mapped, left, page, inner, state, nextValue, lastSubmitted,
                 transferVars, deviceVars, faultVars>>
-----------------------------------------------------------------------------
(* Copies.  On a mapped device: with_quiescent, the recorder's lock held   *)
(* from the wait to the end of the access.                                 *)

StartCopy(c) ==
  /\ at[c] = "idle" /\ left[c] > 0
  /\ left' = [left EXCEPT ![c] = @ - 1]
  /\ GoTo(c, IF mapped THEN "quiesce" ELSE "lock staging")
  /\ UNCHANGED <<mapped, outcome, scratchVars, recorderVars, transferVars, deviceVars, faultVars>>

Quiesce(c) ==
  /\ at[c] = "quiesce"
  /\ inner = Nobody
  /\ inner' = c
  /\ GoTo(c, "quiescing")
  /\ UNCHANGED <<mapped, left, outcome, scratchVars, page, state, nextValue,
                 lastSubmitted, fence, transferVars, deviceVars, faultVars>>

Quiescent(c) ==
  /\ at[c] = "quiescing"
  /\ \/ timeline >= lastSubmitted /\ GoTo(c, "access") /\ UNCHANGED <<inner, failures>>
     \/ Fail /\ inner' = Nobody /\ GoTo(c, "idle")
  /\ UNCHANGED <<mapped, left, outcome, scratchVars, page, state, nextValue,
                 lastSubmitted, fence, transferVars, deviceVars, lost>>

Access(c) ==
  /\ at[c] = "access"
  /\ inner' = Nobody
  /\ GoTo(c, "idle")
  /\ UNCHANGED <<mapped, left, outcome, scratchVars, page, state, nextValue,
                 lastSubmitted, fence, transferVars, deviceVars, faultVars>>

(* On another device: through the direction's staging buffer, the transfer *)
(* command pool and the queue, each held until the queue is idle.          *)

LockStaging(c) ==
  /\ at[c] = "lock staging"
  /\ staging[Staging[c]] = Nobody
  /\ staging' = [staging EXCEPT ![Staging[c]] = c]
  /\ GoTo(c, "lock pool")
  /\ UNCHANGED <<mapped, left, outcome, scratchVars, recorderVars, cmdPool, deviceVars, faultVars>>

Unstage(c) == staging' = [staging EXCEPT ![Staging[c]] = Nobody] /\ GoTo(c, "idle")

LockCmdPool(c) ==
  /\ at[c] = "lock pool"
  /\ \/ cmdPool = Nobody /\ cmdPool' = c /\ GoTo(c, "lock queue") /\ UNCHANGED <<staging, failures>>
     \/ Fail /\ Unstage(c) /\ UNCHANGED cmdPool
  /\ UNCHANGED <<mapped, left, outcome, scratchVars, recorderVars, deviceVars, lost>>

SubmitCopy(c) ==
  /\ at[c] = "lock queue"
  /\ \/ /\ queue = Nobody
        /\ queue' = c
        /\ inFlight' = Append(inFlight, [by |-> c, value |-> 0,
                                         uses |-> {Staging[c], Shared}])
        /\ GoTo(c, "copying")
        /\ UNCHANGED <<transferVars, failures>>
     \/ Fail /\ Unstage(c) /\ cmdPool' = Nobody /\ UNCHANGED <<queue, inFlight>>
  /\ UNCHANGED <<mapped, left, outcome, scratchVars, recorderVars, timeline, lost>>

QueueIdle(c) ==
  /\ at[c] = "copying"
  /\ queue' = Nobody
  /\ cmdPool' = Nobody
  /\ \/ inFlight = <<>> /\ GoTo(c, "read") /\ UNCHANGED <<staging, faultVars>>
     \/ Fail /\ lost' = TRUE /\ Unstage(c)
  /\ UNCHANGED <<mapped, left, outcome, scratchVars, recorderVars, inFlight, timeline>>

ReadStaging(c) ==
  /\ at[c] = "read"
  /\ Unstage(c)
  /\ UNCHANGED <<mapped, left, outcome, scratchVars, recorderVars, cmdPool, deviceVars, faultVars>>

-----------------------------------------------------------------------------
\* The device completes the head of its queue; a page signals its value.
Complete ==
  /\ inFlight # <<>>
  /\ inFlight' = Tail(inFlight)
  /\ timeline' = IF Head(inFlight).value > 0 THEN Head(inFlight).value ELSE timeline
  /\ UNCHANGED <<mapped, threadVars, scratchVars, recorderVars, transferVars, queue, faultVars>>

Fill(t) ==
  \/ Take(t) \/ Stage(t) \/ LockPage(t) \/ BeginPage(t) \/ Record(t)
  \/ SubmitPage(t) \/ EndAndSubmit(t) \/ EndFails(t) \/ WaitPage(t) \/ Waited(t)
  \/ AbortPage(t) \/ Aborted(t) \/ UnlockPage(t) \/ Put(t)

Copy(c) ==
  \/ StartCopy(c) \/ Quiesce(c) \/ Quiescent(c) \/ Access(c) \/ LockStaging(c)
  \/ LockCmdPool(c) \/ SubmitCopy(c) \/ QueueIdle(c) \/ ReadStaging(c)

Next ==
  \/ \E t \in Fillers : Fill(t)
  \/ \E c \in Copiers : Copy(c)
  \/ Complete

Spec == Init /\ [][Next]_vars

\* Every thread runs, and the device completes what it was given.  Locks are
\* not fair: a thread may be passed over while others start new work.
FairSpec ==
  /\ Spec
  /\ \A t \in Fillers : WF_vars(Fill(t))
  /\ \A c \in Copiers : WF_vars(Copy(c))
  /\ WF_vars(Complete)

-----------------------------------------------------------------------------
InFlight == {inFlight[i] : i \in 1..Len(inFlight)}

\* What the host may read, write or hand on at a thread's point.
Touches(t) ==
  IF t \in Fillers
  THEN IF at[t] \in {"stage", "put"} THEN {scratch[t]} ELSE {}
  ELSE CASE at[t] = "access" -> {Shared}
         [] at[t] \in {"lock pool", "lock queue", "read"} -> {Staging[t]}
         [] OTHER -> {}

\* No work in flight uses memory the host may touch: a scratch being staged,
\* read or idle in the pool, a mapped buffer being copied in place, a staging
\* buffer.  Pages that fail, panic or whose wait fails are no exception; only
\* a wait that fails with none left to follow gives up on it (aa_fill.rs
\* 212-214, 316-320, recorder.rs 281-330, transfer.rs 86-150).
HostAccessAlone ==
  ~lost =>
    \A w \in InFlight :
      /\ \A t \in Threads : w.uses \cap Touches(t) = {}
      /\ \A s \in w.uses : ~Idle(s)

\* The pools of a page are reset only while the device runs none: a page in
\* flight is the one last submitted, and the recorder stands at Submitted
\* until it is done.  A copy in flight holds the transfers' pool.
PoolsQuiet ==
  ~lost =>
    \A w \in InFlight :
      IF w.value > 0
      THEN state = "Submitted" /\ w.value = lastSubmitted /\ page = w.by
      ELSE cmdPool = w.by

\* A scratch is lent to one fill at a time, and there are no more scratches
\* than fills that ran at once (aa_fill.rs 47-86).
ScratchesLentOnce ==
  /\ TypeOK
  /\ \A s \in Scratches :
       Cardinality({t \in Fillers : scratch[t] = s})
         + Cardinality({i \in 1..Len(idle) : idle[i] = s}) <= 1
  /\ Len(idle) + Cardinality({t \in Fillers : scratch[t] # Nobody})
       <= Cardinality(Fillers)

\* Every fill and copy that starts returns: no thread waits for a timeline
\* value that was never submitted, nor for a lock that is never released.
EveryoneComesBack ==
  <>[](\A t \in Threads : at[t] = "idle")
=============================================================================
