------------------------- MODULE RenderSessionProofs ------------------------
(* Theorems about RenderSession, for any renderers, workers, images and    *)
(* walks: every blocked renderer has its request in one place, an image is *)
(* sent once, workers stop soon after the flag is set, and a session that  *)
(* is gone has left no thread behind; and about DecoderLend, the decoders  *)
(* that threads lend to the pages they render in a session.                *)
EXTENDS RenderSession, DecoderLend, SequenceTheorems, FiniteSetTheorems, TLAPS

-----------------------------------------------------------------------------
(* Sequences without repetitions                                           *)

Elements(s) == {s[i] : i \in DOMAIN s}
Distinct(s) == \A i, j \in 1..Len(s) : s[i] = s[j] => i = j

\* Nothing is in the empty sequence.
LEMMA NoElements == Elements(<<>>) = {} /\ Distinct(<<>>) /\ Len(<<>>) = 0
BY DEF Elements, Distinct

\* Appending a new element.
LEMMA AppendNew ==
  ASSUME NEW S, NEW s \in Seq(S), NEW x \in S, x \notin Elements(s), Distinct(s)
  PROVE  /\ Elements(Append(s, x)) = Elements(s) \cup {x}
         /\ Distinct(Append(s, x))
         /\ Append(s, x) \in Seq(S)
         /\ Len(Append(s, x)) = Len(s) + 1
<1>1. /\ Append(s, x) \in Seq(S)
      /\ Len(Append(s, x)) = Len(s) + 1
      /\ DOMAIN Append(s, x) = 1..(Len(s) + 1)
      /\ DOMAIN s = 1..Len(s)
      /\ Len(s) \in Nat
  BY AppendProperties, LenProperties
<1>2. /\ \A i \in 1..Len(s) : Append(s, x)[i] = s[i]
      /\ Append(s, x)[Len(s) + 1] = x
  BY AppendProperties
<1>3. Elements(Append(s, x)) = Elements(s) \cup {x}
  BY <1>1, <1>2 DEF Elements
<1>4. \A i \in 1..Len(s) : s[i] # x
  BY <1>1 DEF Elements
<1>5. Distinct(Append(s, x))
  BY <1>1, <1>2, <1>4 DEF Distinct
<1> QED BY <1>1, <1>3, <1>5

\* Taking the first element.
LEMMA TakeFirst ==
  ASSUME NEW S, NEW s \in Seq(S), s # <<>>, Distinct(s)
  PROVE  /\ Head(s) \in Elements(s) /\ Head(s) \in S
         /\ Elements(Tail(s)) = Elements(s) \ {Head(s)}
         /\ Distinct(Tail(s))
         /\ Tail(s) \in Seq(S)
<1>1. /\ Tail(s) \in Seq(S)
      /\ Len(Tail(s)) = Len(s) - 1
      /\ Head(s) = s[1] /\ Head(s) \in S
      /\ \A i \in 1..Len(Tail(s)) : Tail(s)[i] = s[i + 1]
      /\ DOMAIN s = 1..Len(s)
      /\ DOMAIN Tail(s) = 1..Len(Tail(s))
      /\ Len(s) \in Nat /\ Len(s) > 0
  BY HeadTailProperties, EmptySeq, LenProperties
<1>2. Head(s) \in Elements(s)
  BY <1>1 DEF Elements
<1>3. Distinct(Tail(s))
  BY <1>1 DEF Distinct
<1>4. Elements(Tail(s)) = Elements(s) \ {Head(s)}
  <2>1. ASSUME NEW i \in 1..Len(Tail(s))
        PROVE  Tail(s)[i] \in Elements(s) \ {Head(s)}
    BY <1>1 DEF Elements, Distinct
  <2>2. ASSUME NEW i \in 1..Len(s), s[i] # Head(s)
        PROVE  s[i] \in Elements(Tail(s))
    <3>1. i - 1 \in 1..Len(Tail(s)) /\ (i - 1) + 1 = i
      BY <1>1, <2>2
    <3>2. Tail(s)[i - 1] = s[i]
      BY <1>1, <3>1
    <3> QED BY <1>1, <3>1, <3>2 DEF Elements
  <2> QED BY <1>1, <2>1, <2>2 DEF Elements
<1> QED BY <1>1, <1>2, <1>3, <1>4

-----------------------------------------------------------------------------
(* The inductive invariant                                                 *)

\* A request is in the channel, in hand or answered, and in one place only.
QueueInv ==
  /\ Distinct(jobs)
  /\ Elements(jobs) \subseteq waiting
  /\ worker # "running" => jobs = <<>> /\ inHand = NoOne
  /\ inHand # NoOne => inHand \in waiting /\ inHand \notin Elements(jobs)
  /\ \A r \in waiting :
       (reply[r] # "none") <=> (r \notin Elements(jobs) /\ r # inHand)

\* What the stage of the session says of the queue.
StageInv ==
  /\ sender = "none" => worker = "none"
  /\ session \notin {"opening", "spawning", "giving up", "open"} => handles = {}
  /\ session \in {"cache", "prefetch", "gone"} => worker # "running"
  /\ session = "gone" => PrefetchJoined

\* What the walk has sent it has seen, and what it is about to send it has not sent.
WalkInv ==
  /\ Distinct(emitted)
  /\ Elements(emitted) \subseteq seen
  /\ Len(emitted) <= MaxImages
  /\ walk \in {"filter", "send"} =>
       position < Len(Refs) /\ Len(emitted) < MaxImages
  /\ walk = "send" => Image \in seen \ Elements(emitted)

\* The lock is held in recv only; a late decode ends at the flag.
WorkerInv ==
  /\ lock # Nobody => place[lock] = "recv"
  /\ \A w \in Workers :
       /\ late[w] \in {0, 1}
       /\ late[w] = 1 => cancel /\ place[w] \in {"decode", "check", "ended"}

Types == QueueTypeOK /\ PrefetchTypeOK /\ session \in Stages

IInv == Types /\ QueueInv /\ StageInv /\ WalkInv /\ WorkerInv

-----------------------------------------------------------------------------
(* The queue                                                               *)

\* A step that touches none of the queue's variables keeps what is said of them.
LEMMA QueueUntouched ==
  ASSUME QueueTypeOK, QueueInv, UNCHANGED queueVars
  PROVE  QueueTypeOK' /\ QueueInv'
BY DEF queueVars, QueueTypeOK, QueueInv

\* Each operation of a renderer, the owner or the worker keeps types and requests.
LEMMA QueueStep ==
  ASSUME QueueTypeOK, QueueInv, StageInv,
         \/ New \/ CloseSender \/ WorkerStep
         \/ \E r \in Renderers : Handle(r) \/ Decode(r) \/ Receive(r) \/ DropHandle(r)
  PROVE  QueueTypeOK' /\ QueueInv'
<1>1. CASE New
  BY <1>1 DEF New, QueueTypeOK, QueueInv
<1>2. CASE CloseSender
  BY <1>2 DEF CloseSender, QueueTypeOK, QueueInv
<1>3. ASSUME NEW r \in Renderers, Handle(r) \/ DropHandle(r)
      PROVE  QueueTypeOK' /\ QueueInv'
  BY <1>3 DEF Handle, DropHandle, QueueTypeOK, QueueInv
<1>4. ASSUME NEW r \in Renderers, Decode(r)
      PROVE  QueueTypeOK' /\ QueueInv'
  <2>1. r \notin Elements(jobs) /\ r # inHand
    BY <1>4, NoOneAssumption DEF Decode, QueueInv
  <2>2. /\ Elements(jobs') = Elements(jobs) \cup {r}
        /\ Distinct(jobs') /\ jobs' \in Seq(Renderers)
    BY <1>4, <2>1, AppendNew DEF Decode, QueueTypeOK, QueueInv
  <2>3. QueueTypeOK'
    BY <1>4, <2>2 DEF Decode, QueueTypeOK
  <2>4. QueueInv'
    BY <1>4, <2>1, <2>2 DEF Decode, QueueTypeOK, QueueInv
  <2> QED BY <2>3, <2>4
<1>5. ASSUME NEW r \in Renderers, Receive(r)
      PROVE  QueueTypeOK' /\ QueueInv'
  <2>1. r \notin Elements(jobs) /\ r # inHand
    BY <1>5 DEF Receive, QueueInv
  <2>2. QueueTypeOK'
    BY <1>5 DEF Receive, QueueTypeOK
  <2>3. QueueInv'
    BY <1>5, <2>1 DEF Receive, QueueTypeOK, QueueInv
  <2> QED BY <2>2, <2>3
<1>6. CASE WorkerTake
  <2>1. /\ Head(jobs) \in Elements(jobs) /\ Head(jobs) \in Renderers
        /\ Elements(Tail(jobs)) = Elements(jobs) \ {Head(jobs)}
        /\ Distinct(Tail(jobs)) /\ Tail(jobs) \in Seq(Renderers)
    BY <1>6, TakeFirst DEF WorkerTake, QueueTypeOK, QueueInv
  <2>2. QueueTypeOK'
    BY <1>6, <2>1 DEF WorkerTake, QueueTypeOK
  <2>3. QueueInv'
    BY <1>6, <2>1, NoOneAssumption DEF WorkerTake, QueueTypeOK, QueueInv
  <2> QED BY <2>2, <2>3
<1>7. CASE WorkerReply
  <2>1. PICK result \in {"image", "error"} :
           reply' = [reply EXCEPT ![inHand] = result]
    BY <1>7 DEF WorkerReply
  <2>2. QueueTypeOK'
    BY <1>7, <2>1 DEF WorkerReply, QueueTypeOK
  <2>3. QueueInv'
    BY <1>7, <2>1, NoOneAssumption DEF WorkerReply, QueueTypeOK, QueueInv
  <2> QED BY <2>2, <2>3
<1>8. CASE WorkerPanic
  <2>1. Queued = Elements(jobs)
    BY DEF Queued, Elements
  <2>2. QueueTypeOK'
    BY <1>8, EmptySeq DEF WorkerPanic, QueueTypeOK
  <2>3. \A r \in waiting' : reply'[r] # "none" /\ r # inHand'
    BY <1>8, <2>1, NoOneAssumption DEF WorkerPanic, QueueTypeOK, QueueInv
  <2>4. QueueInv'
    BY <1>8, <2>3, NoElements DEF WorkerPanic, QueueInv
  <2> QED BY <2>2, <2>4
<1>9. CASE WorkerEnd
  BY <1>9 DEF WorkerEnd, QueueTypeOK, QueueInv
<1> QED BY <1>1, <1>2, <1>3, <1>4, <1>5, <1>6, <1>7, <1>8, <1>9 DEF WorkerStep

-----------------------------------------------------------------------------
(* The prefetcher                                                          *)

PrefetchInv == WalkInv /\ WorkerInv

\* A step that touches none of the prefetcher's variables.
LEMMA PrefetchUntouched ==
  ASSUME PrefetchTypeOK, PrefetchInv, UNCHANGED prefetchVars
  PROVE  PrefetchTypeOK' /\ PrefetchInv'
BY DEF prefetchVars, PrefetchTypeOK, PrefetchInv, WalkInv, WorkerInv, Image

\* The steps of the walk.
LEMMA WalkKeeps ==
  ASSUME PrefetchTypeOK, PrefetchInv, WalkStep
  PROVE  PrefetchTypeOK' /\ PrefetchInv'
<1>0. /\ Len(Refs) \in Nat /\ MaxImages \in Nat /\ position \in Nat
      /\ Len(emitted) \in Nat
      /\ position < Len(Refs) => Image \in Images
  BY PrefetchAssumption, LenProperties, ElementOfSeq DEF PrefetchTypeOK, Image
<1>1. CASE WalkCheck
  <2>1. PrefetchTypeOK'
    BY <1>1 DEF WalkCheck, PrefetchTypeOK
  <2>2. WalkInv'
    BY <1>0, <1>1 DEF WalkCheck, PrefetchTypeOK, PrefetchInv, WalkInv
  <2>3. WorkerInv'
    BY <1>1 DEF WalkCheck, PrefetchInv, WorkerInv
  <2> QED BY <2>1, <2>2, <2>3 DEF PrefetchInv
<1>2. CASE WalkFilter
  <2>1. position < Len(Refs) /\ Image \in Images
    BY <1>0, <1>2 DEF WalkFilter, PrefetchInv, WalkInv
  <2>2. \/ walk' = "check" /\ position' = position + 1
        \/ walk' = "send" /\ position' = position /\ Image \notin seen
    BY <1>2 DEF WalkFilter, Skips
  <2>3. PrefetchTypeOK'
    <3>1. position' \in 0..Len(Refs)
      BY <1>0, <2>1, <2>2
    <3>2. walk' \in {"none", "check", "filter", "send", "ended"}
      BY <2>2
    <3> QED BY <1>2, <2>1, <3>1, <3>2 DEF WalkFilter, PrefetchTypeOK
  <2>4. WalkInv'
    BY <1>0, <1>2, <2>1, <2>2 DEF WalkFilter, PrefetchInv, WalkInv, Image
  <2>5. WorkerInv'
    BY <1>2 DEF WalkFilter, PrefetchInv, WorkerInv
  <2> QED BY <2>3, <2>4, <2>5 DEF PrefetchInv
<1>3. CASE WalkSend
  <2>1. /\ position < Len(Refs) /\ Image \in Images
        /\ Image \in seen /\ Image \notin Elements(emitted)
        /\ Len(emitted) < MaxImages /\ Distinct(emitted)
        /\ emitted \in Seq(Images)
    BY <1>0, <1>3 DEF WalkSend, PrefetchInv, WalkInv, PrefetchTypeOK
  <2>2. WorkerInv'
    BY <1>3 DEF WalkSend, PrefetchInv, WorkerInv
  <2>3. CASE \A w \in Workers : place[w] = "ended"
    <3>1. walk' = "ended" /\ UNCHANGED <<channel, emitted, position, cancel, seen, place, lock, late>>
      BY <1>3, <2>3 DEF WalkSend
    <3>2. PrefetchTypeOK'
      BY <3>1 DEF PrefetchTypeOK
    <3>3. WalkInv'
      BY <3>1 DEF PrefetchInv, WalkInv
    <3> QED BY <2>2, <3>2, <3>3 DEF PrefetchInv
  <2>4. CASE ~ \A w \in Workers : place[w] = "ended"
    <3>1. /\ channel' = Append(channel, Image) /\ emitted' = Append(emitted, Image)
          /\ position' = position + 1 /\ walk' = "check"
          /\ UNCHANGED <<cancel, seen, place, lock, late>>
      BY <1>3, <2>4 DEF WalkSend
    <3>2. /\ Elements(emitted') = Elements(emitted) \cup {Image}
          /\ Distinct(emitted') /\ emitted' \in Seq(Images)
          /\ Len(emitted') = Len(emitted) + 1
      BY <2>1, <3>1, AppendNew
    <3>3. channel' \in Seq(Images) /\ position' \in 0..Len(Refs)
      BY <1>0, <2>1, <3>1, AppendProperties DEF PrefetchTypeOK
    <3>4. PrefetchTypeOK'
      BY <3>1, <3>2, <3>3 DEF PrefetchTypeOK
    <3>5. WalkInv'
      BY <1>0, <2>1, <3>1, <3>2 DEF PrefetchInv, WalkInv
    <3> QED BY <2>2, <3>4, <3>5 DEF PrefetchInv
  <2> QED BY <2>3, <2>4
<1> QED BY <1>1, <1>2, <1>3 DEF WalkStep

\* Starting, cancelling and giving up the threads.
LEMMA OwnerKeeps ==
  ASSUME PrefetchTypeOK, PrefetchInv,
         SpawnWalk \/ SpawnFails \/ Cancel \/ \E w \in Workers : SpawnWorker(w)
  PROVE  PrefetchTypeOK' /\ PrefetchInv'
<1>1. CASE SpawnWalk \/ SpawnFails \/ Cancel
  BY <1>1 DEF SpawnWalk, SpawnFails, Cancel, PrefetchTypeOK, PrefetchInv, WalkInv, WorkerInv, Image
<1>2. ASSUME NEW w \in Workers, SpawnWorker(w)
      PROVE  PrefetchTypeOK' /\ PrefetchInv'
  <2>1. PrefetchTypeOK'
    BY <1>2 DEF SpawnWorker, GoTo, PrefetchTypeOK
  <2>2. WalkInv'
    BY <1>2 DEF SpawnWorker, PrefetchInv, WalkInv, Image
  <2>3. WorkerInv'
    BY <1>2 DEF SpawnWorker, GoTo, PrefetchInv, WorkerInv, PrefetchTypeOK
  <2> QED BY <2>1, <2>2, <2>3 DEF PrefetchInv
<1> QED BY <1>1, <1>2

\* The steps of a worker.
LEMMA WorkerKeeps ==
  ASSUME PrefetchTypeOK, PrefetchInv, NEW w \in Workers, PrefetchWorkerStep(w)
  PROVE  PrefetchTypeOK' /\ PrefetchInv'
<1>1. WalkInv'
  BY DEF PrefetchWorkerStep, WorkerCheck, Acquire, TakeJob, SeeClosed, Decoded,
         PrefetchInv, WalkInv, Image
<1>2. CASE TakeJob(w)
  <2>1. late[w] = 0
    BY <1>2 DEF TakeJob, PrefetchInv, WorkerInv
  <2>2. /\ channel' \in Seq(Images) /\ lock' = Nobody
        /\ place' = [place EXCEPT ![w] = "decode"]
        /\ late' = [late EXCEPT ![w] = IF cancel THEN 1 ELSE 0]
        /\ UNCHANGED <<cancel, walk, position, seen, emitted>>
    <3>1. channel' \in Seq(Images)
      BY <1>2, HeadTailProperties DEF TakeJob, PrefetchTypeOK
    <3>2. late' = [late EXCEPT ![w] = 0 + (IF cancel THEN 1 ELSE 0)]
      BY <1>2, <2>1 DEF TakeJob, PrefetchTypeOK
    <3>3. 0 + (IF cancel THEN 1 ELSE 0) = IF cancel THEN 1 ELSE 0
      OBVIOUS
    <3> QED BY <1>2, <3>1, <3>2, <3>3 DEF TakeJob, GoTo
  <2>3. PrefetchTypeOK'
    BY <2>2 DEF PrefetchTypeOK
  <2>4. WorkerInv'
    BY <2>2 DEF PrefetchInv, WorkerInv, PrefetchTypeOK
  <2> QED BY <1>1, <2>3, <2>4 DEF PrefetchInv
<1>3. CASE ~TakeJob(w)
  <2>1. PrefetchTypeOK'
    BY <1>3 DEF PrefetchWorkerStep, WorkerCheck, Acquire, SeeClosed, Decoded,
       GoTo, PrefetchTypeOK
  <2>2. WorkerInv'
    BY <1>3 DEF PrefetchWorkerStep, WorkerCheck, Acquire, SeeClosed, Decoded,
       GoTo, PrefetchTypeOK, PrefetchInv, WorkerInv
  <2> QED BY <1>1, <2>1, <2>2 DEF PrefetchInv
<1> QED BY <1>2, <1>3

-----------------------------------------------------------------------------
(* The session                                                             *)

\* Types and the two parts' invariants, over the steps of the whole.
LEMMA PartsStep ==
  ASSUME IInv, Next
  PROVE  Types' /\ QueueInv' /\ WalkInv' /\ WorkerInv'
<1>0. QueueTypeOK /\ QueueInv /\ StageInv /\ PrefetchTypeOK /\ PrefetchInv
  BY DEF IInv, Types, PrefetchInv
<1>1. QueueTypeOK' /\ QueueInv'
  <2>1. \/ UNCHANGED queueVars
        \/ New \/ CloseSender \/ WorkerStep
        \/ \E r \in Renderers : Handle(r) \/ Decode(r) \/ Receive(r) \/ DropHandle(r)
    BY DEF Next, Owner, BuildQueue, SpawnPrefetch, GiveUpPrefetch,
           OpenWithoutPrefetch, Render, Close, DropQueue, DropCache,
           DropPrefetch, QueueThread, WalkThread, PrefetchThread
  <2> QED BY <1>0, <2>1, QueueUntouched, QueueStep
<1>2. PrefetchTypeOK' /\ PrefetchInv'
  <2>1. \/ UNCHANGED prefetchVars
        \/ SpawnWalk \/ SpawnFails \/ Cancel
        \/ \E w \in Workers : SpawnWorker(w)
        \/ WalkStep
        \/ \E w \in Workers : PrefetchWorkerStep(w)
    BY DEF Next, Owner, BuildQueue, SpawnPrefetch, GiveUpPrefetch,
           OpenWithoutPrefetch, Render, Close, DropQueue, DropCache,
           DropPrefetch, QueueThread, WalkThread, PrefetchThread
  <2> QED BY <1>0, <2>1, PrefetchUntouched, OwnerKeeps, WalkKeeps, WorkerKeeps
<1>3. session' \in Stages
  BY DEF IInv, Types, Next, Owner, BuildQueue, SpawnPrefetch, GiveUpPrefetch,
         OpenWithoutPrefetch, Render, Close, DropQueue, DropCache,
         DropPrefetch, QueueThread, WalkThread, PrefetchThread, Stages
<1> QED BY <1>1, <1>2, <1>3 DEF Types, PrefetchInv

\* Each stage of the session leaves what the next one relies on.
LEMMA StageStep ==
  ASSUME IInv, Next
  PROVE  StageInv'
<1>0. StageInv /\ session \in Stages /\ QueueTypeOK
  BY DEF IInv, Types
<1>1. CASE BuildQueue
  BY <1>0, <1>1 DEF BuildQueue, New, queueVars, StageInv, QueueTypeOK
<1>2. CASE SpawnPrefetch \/ OpenWithoutPrefetch \/ GiveUpPrefetch
  BY <1>0, <1>2 DEF SpawnPrefetch, OpenWithoutPrefetch, GiveUpPrefetch,
     queueVars, StageInv
<1>3. ASSUME NEW r \in Renderers, Render(r)
      PROVE  StageInv'
  BY <1>0, <1>3 DEF Render, Handle, Decode, Receive, DropHandle, StageInv
<1>4. CASE Close
  BY <1>0, <1>4 DEF Close, queueVars, StageInv
<1>5. CASE DropQueue
  BY <1>0, <1>5 DEF DropQueue, CloseSender, Joined, queueVars, StageInv
<1>6. CASE DropCache
  BY <1>0, <1>6 DEF DropCache, queueVars, StageInv
<1>7. CASE DropPrefetch
  BY <1>0, <1>7 DEF DropPrefetch, Cancel, PrefetchJoined, Live, queueVars,
     prefetchVars, StageInv
<1>8. CASE QueueThread
  BY <1>0, <1>8 DEF QueueThread, WorkerStep, WorkerTake, WorkerReply,
     WorkerPanic, WorkerEnd, prefetchVars, PrefetchJoined, Live, StageInv,
     IInv, QueueInv
<1>9. CASE WalkThread
  BY <1>0, <1>9 DEF WalkThread, WalkStep, WalkCheck, WalkFilter, WalkSend,
     queueVars, PrefetchJoined, StageInv
<1>10. ASSUME NEW w \in Workers, PrefetchThread(w)
       PROVE  StageInv'
  <2>1. session # "gone"
    BY <1>0, <1>10 DEF PrefetchThread, PrefetchWorkerStep, WorkerCheck,
       Acquire, TakeJob, SeeClosed, Decoded, PrefetchJoined, Live, StageInv
  <2> QED BY <1>0, <1>10, <2>1 DEF PrefetchThread, queueVars, StageInv
<1> QED
  BY <1>1, <1>2, <1>3, <1>4, <1>5, <1>6, <1>7, <1>8, <1>9, <1>10
     DEF Next, Owner

\* The first state.
LEMMA InitInv == Init => IInv
<1> SUFFICES ASSUME Init PROVE IInv
  OBVIOUS
<1>1. QueueTypeOK /\ session \in Stages
  BY EmptySeq DEF Init, QueueInit, QueueTypeOK, Stages
<1>2. PrefetchTypeOK
  <2>1. Len(Refs) \in Nat
    BY PrefetchAssumption, LenProperties
  <2>2. position \in 0..Len(Refs)
    BY <2>1 DEF Init, PrefetchInit
  <2>3. channel \in Seq(Images) /\ emitted \in Seq(Images)
    BY EmptySeq DEF Init, PrefetchInit
  <2> QED BY <2>2, <2>3 DEF Init, PrefetchInit, PrefetchTypeOK
<1>3. QueueInv /\ StageInv
  BY NoElements DEF Init, QueueInit, QueueInv, StageInv
<1>4. WalkInv /\ WorkerInv
  BY NoElements, PrefetchAssumption DEF Init, PrefetchInit, WalkInv, WorkerInv
<1> QED BY <1>1, <1>2, <1>3, <1>4 DEF IInv, Types

\* Every step.
LEMMA NextInv == IInv /\ [Next]_vars => IInv'
<1> SUFFICES ASSUME IInv, [Next]_vars PROVE IInv'
  OBVIOUS
<1>1. CASE Next
  BY <1>1, PartsStep, StageStep DEF IInv
<1>2. CASE UNCHANGED vars
  <2>1. UNCHANGED queueVars /\ UNCHANGED prefetchVars /\ session' = session
    BY <1>2 DEF vars
  <2>2. Types' /\ QueueInv' /\ WalkInv' /\ WorkerInv'
    BY <2>1, QueueUntouched, PrefetchUntouched DEF IInv, Types, PrefetchInv, Stages
  <2>3. /\ handles' = handles /\ sender' = sender /\ worker' = worker
        /\ walk' = walk /\ place' = place
    BY <2>1 DEF queueVars, prefetchVars
  <2>4. PrefetchJoined' <=> PrefetchJoined
    BY <2>3 DEF PrefetchJoined, Live
  <2>5. StageInv'
    BY <2>1, <2>3, <2>4 DEF IInv, StageInv
  <2> QED BY <2>2, <2>5 DEF IInv
<1> QED BY <1>1, <1>2

\* The invariant holds throughout.
LEMMA Invariant == Spec => []IInv
BY InitInv, NextInv, PTL DEF Spec

-----------------------------------------------------------------------------
(* The theorems                                                            *)

\* The invariant puts the request of a blocked renderer in one place.
LEMMA OnePlace == ASSUME IInv PROVE RequestInOnePlace
<1> SUFFICES ASSUME NEW r \in waiting
             PROVE  Cardinality({p \in {"queued", "inHand", "answered"} :
                      \/ p = "queued" /\ r \in Queued /\ worker = "running"
                      \/ p = "inHand" /\ r = inHand
                      \/ p = "answered" /\ reply[r] # "none"}) = 1
  BY DEF RequestInOnePlace
<1> DEFINE Places == {p \in {"queued", "inHand", "answered"} :
                       \/ p = "queued" /\ r \in Queued /\ worker = "running"
                       \/ p = "inHand" /\ r = inHand
                       \/ p = "answered" /\ reply[r] # "none"}
<1>1. r \in Queued => worker = "running"
  BY NoElements DEF IInv, QueueInv, Queued, Elements
<1>2. r \in Queued <=> r \in Elements(jobs)
  BY DEF Queued, Elements
<1>3. r \in Renderers
  BY DEF IInv, Types, QueueTypeOK
<1>4. \E p \in {"queued", "inHand", "answered"} : Places = {p}
  <2>1. CASE r \in Queued
    <3>1. r # inHand /\ reply[r] = "none"
      BY <1>2, <1>3, <2>1, NoOneAssumption DEF IInv, QueueInv
    <3> QED BY <1>1, <2>1, <3>1
  <2>2. CASE r = inHand
    <3>1. r \notin Queued /\ reply[r] = "none"
      BY <1>2, <1>3, <2>2, NoOneAssumption DEF IInv, QueueInv
    <3> QED BY <2>2, <3>1
  <2>3. CASE r \notin Queued /\ r # inHand
    <3>1. reply[r] # "none"
      BY <1>2, <2>3 DEF IInv, QueueInv
    <3> QED BY <2>3, <3>1
  <2> QED BY <2>1, <2>2, <2>3
<1> HIDE DEF Places
<1>5. Cardinality(Places) = 1
  BY <1>4, FS_Singleton
<1> QED BY <1>5 DEF Places

\* The session is of its types, and the request of every blocked renderer
\* is in one place: it cannot be lost (decode_queue.rs 180-202).
THEOREM TypeCorrect == Spec => []TypeOK
<1>1. IInv => TypeOK
  BY OnePlace DEF IInv, Types, TypeOK
<1> QED BY <1>1, Invariant, PTL

\* The walk sends an image once, and no more images than the cap
\* (discover_pages, prefetch.rs 223-281).
THEOREM OneJobPerImageHolds == Spec => []OneJobPerImage
<1>1. IInv => OneJobPerImage
  BY DEF IInv, WalkInv, Distinct, OneJobPerImage
<1> QED BY <1>1, Invariant, PTL

\* A worker begins at most one decode after the flag is set
\* (worker_loop, prefetch.rs 286-316).
THEOREM CancelIsPromptHolds == Spec => []CancelIsPrompt
<1>1. IInv => CancelIsPrompt
  BY DEF IInv, WorkerInv, CancelIsPrompt
<1> QED BY <1>1, Invariant, PTL

\* A session that is gone has no thread running and no request waiting
\* (open.rs 74-97, decode_queue.rs 103-122, prefetch.rs 90-108).
THEOREM NothingLeftRunningHolds == Spec => []NothingLeftRunning
<1>1. ASSUME IInv PROVE NothingLeftRunning
  <2>1. TypeOK
    BY <1>1, OnePlace DEF IInv, Types, TypeOK
  <2>2. ASSUME session = "gone"
        PROVE  /\ worker # "running" /\ jobs = <<>> /\ waiting = {}
               /\ PrefetchJoined /\ lock = Nobody
    <3>1. worker # "running" /\ handles = {} /\ PrefetchJoined
      BY <1>1, <2>2 DEF IInv, StageInv
    <3>2. jobs = <<>> /\ waiting = {}
      BY <1>1, <3>1 DEF IInv, QueueInv, Types, QueueTypeOK
    <3>3. lock = Nobody
      BY <1>1, <3>1 DEF IInv, WorkerInv, Types, PrefetchTypeOK, PrefetchJoined, Live
    <3> QED BY <3>1, <3>2, <3>3
  <2> QED BY <2>1, <2>2 DEF NothingLeftRunning
<1> QED BY <1>1, Invariant, PTL

-----------------------------------------------------------------------------
(* The decoders of the threads that render in a session (DecoderLend)      *)

\* A thread that waits for the lock, or builds, is at a slot that was never built, and a
\* thread without a page has been lent nothing.
BuildsUnbuilt ==
  \A t \in Threads : pc[t] \in {"lock", "build"} =>
     next[t] <= Len(Lendable) /\ slot[t][Current(t)] = "uninit"
IdleHoldsNothing == \A t \in Threads : pc[t] = "idle" => lent[t] = {}

\* The inductive invariant.
LendInv == LendingTypeOK /\ BuildsUnbuilt /\ IdleHoldsNothing /\ LentIsReturnable

\* The decoder the lend is at is one of those compiled in.
LEMMA CurrentIsDecoder ==
  ASSUME LendingTypeOK, NEW t \in Threads, next[t] <= Len(Lendable)
  PROVE  Current(t) \in Decoders
BY LendableType DEF LendingTypeOK, Decoders, Current

\* There are finitely many decoders to lend.
LEMMA LendableLength == Len(Lendable) \in Nat
BY LendableType

-----------------------------------------------------------------------------
\* No slot is built, no thread has a page.
LEMMA LendInvStarts == LendingInit => LendInv
BY LendableLength, PoliciesType
   DEF LendingInit, LendInv, LendingTypeOK, BuildsUnbuilt, IdleHoldsNothing,
       LentIsReturnable, AnyPolicy

\* A page begins with nothing lent, by IdleHoldsNothing.
LEMMA BeginPageKeeps ==
  ASSUME LendInv, NEW t \in Threads, NEW p \in Policies, BeginPage(t, p)
  PROVE  LendInv'
BY LendableLength
   DEF LendInv, LendingTypeOK, BuildsUnbuilt, IdleHoldsNothing, LentIsReturnable,
       BeginPage, Goto, Current

\* Taking a ready decoder leaves its slot waiting for it; one not built stays not built.
LEMMA LendKeeps ==
  ASSUME LendInv, NEW t \in Threads, Lend(t)
  PROVE  LendInv'
<1> DEFINE d == Current(t)
<1>1. d \in Decoders
  BY CurrentIsDecoder DEF LendInv, Lend
<1>2. next[t] \in Int /\ next[t] + 1 \in 1..(Len(Lendable) + 1)
  BY LendableLength DEF LendInv, LendingTypeOK, Lend
<1>3. CASE Goto(t, "lock") /\ slot[t][d] = "uninit"
           /\ UNCHANGED <<slot, lent, next, policy, initLock>>
  BY <1>3
     DEF LendInv, LendingTypeOK, BuildsUnbuilt, IdleHoldsNothing, LentIsReturnable,
         Lend, Goto, Current
<1>4. CASE Goto(t, "unwind") /\ UNCHANGED <<slot, lent, next, policy, initLock>>
  BY <1>4
     DEF LendInv, LendingTypeOK, BuildsUnbuilt, IdleHoldsNothing, LentIsReturnable,
         Goto, Current
<1>5. CASE TakeDecoder(t, d) /\ Advance(t) /\ UNCHANGED <<pc, policy, initLock>>
  <2> HIDE DEF d
  <2>1. LendingTypeOK'
    BY <1>1, <1>2, <1>5 DEF LendInv, LendingTypeOK, TakeDecoder, Advance
  <2>2. BuildsUnbuilt' /\ IdleHoldsNothing'
    BY <1>5
       DEF LendInv, LendingTypeOK, BuildsUnbuilt, IdleHoldsNothing, TakeDecoder,
           Advance, Current, Lend
  <2>3. LentIsReturnable'
    BY <1>1, <1>5 DEF LendInv, LendingTypeOK, LentIsReturnable, TakeDecoder
  <2> QED  BY <2>1, <2>2, <2>3 DEF LendInv
<1>6. CASE Advance(t) /\ UNCHANGED <<slot, lent, pc, policy, initLock>>
  BY <1>2, <1>6
     DEF LendInv, LendingTypeOK, BuildsUnbuilt, IdleHoldsNothing, LentIsReturnable,
         Advance, Current, Lend
<1> QED  BY <1>3, <1>4, <1>5, <1>6 DEF Lend

\* The slot that is built was not built before (BuildsUnbuilt), so it is not one that lent a decoder.
LEMMA BuildKeeps ==
  ASSUME LendInv, NEW t \in Threads, Build(t)
  PROVE  LendInv'
<1> DEFINE d == Current(t)
<1>1. d \in Decoders /\ slot[t][d] = "uninit"
  BY CurrentIsDecoder DEF LendInv, BuildsUnbuilt, Build
<1>2. LendingTypeOK'
  BY <1>1 DEF LendInv, LendingTypeOK, Build, Goto
<1>3. BuildsUnbuilt' /\ IdleHoldsNothing'
  BY
     DEF LendInv, LendingTypeOK, BuildsUnbuilt, IdleHoldsNothing, Build, Goto,
         Current
<1>4. LentIsReturnable'
  BY <1>1 DEF LendInv, LendingTypeOK, LentIsReturnable, Build
<1> QED  BY <1>2, <1>3, <1>4 DEF LendInv

\* The slots that lent are filled, and the thread holds nothing.
LEMMA ReclaimKeeps ==
  ASSUME LendInv, NEW t \in Threads, Reclaim(t)
  PROVE  LendInv'
<1>1. \A d \in Decoders : Reclaimed(t, d) \in {"uninit", "failed", "held", "lent"}
  BY DEF LendInv, LendingTypeOK, Reclaimed
<1>2. LendingTypeOK'
  BY <1>1, LendableLength DEF LendInv, LendingTypeOK, Reclaim, Goto
<1>3. BuildsUnbuilt' /\ IdleHoldsNothing' /\ LentIsReturnable'
  BY
     DEF LendInv, LendingTypeOK, BuildsUnbuilt, IdleHoldsNothing, LentIsReturnable,
         Reclaim, Goto, Current
<1> QED  BY <1>2, <1>3 DEF LendInv

\* A release is of idle threads, which hold nothing.
LEMMA ReleaseKeeps ==
  ASSUME LendInv, NEW t \in Threads, Release(t)
  PROVE  LendInv'
BY DEF LendInv, LendingTypeOK, BuildsUnbuilt, IdleHoldsNothing, LentIsReturnable, Release

\* The steps that touch no slot.
LEMMA SlotlessKeeps ==
  ASSUME LendInv, NEW t \in Threads, EndLend(t) \/ Lock(t)
         \/ EndRender(t) \/ Panic(t)
  PROVE  LendInv'
<1>1. LendingTypeOK'
  BY DEF LendInv, LendingTypeOK, EndLend, Lock, EndRender, Panic, Goto
<1>2. BuildsUnbuilt'
  <2> SUFFICES ASSUME NEW u \in Threads, pc'[u] \in {"lock", "build"}
               PROVE  pc[u] \in {"lock", "build"}
    BY
       DEF LendInv, BuildsUnbuilt, EndLend, Lock, EndRender, Panic,
           Current
  <2> QED  BY
     DEF LendInv, LendingTypeOK, EndLend, Lock, EndRender, Panic,
         Goto
<1>3. IdleHoldsNothing'
  BY
     DEF LendInv, LendingTypeOK, IdleHoldsNothing, EndLend, Lock, EndRender,
         Panic, Goto
<1>4. LentIsReturnable'
  BY DEF LendInv, LentIsReturnable, EndLend, Lock, EndRender, Panic
<1> QED  BY <1>1, <1>2, <1>3, <1>4 DEF LendInv

\* The inductive invariant is preserved by every step.
LEMMA LendInvKept == LendInv /\ [LendingNext]_lendingVars => LendInv'
<1> SUFFICES ASSUME LendInv, [LendingNext]_lendingVars  PROVE LendInv'
  OBVIOUS
<1>1. CASE UNCHANGED lendingVars
  BY <1>1
     DEF LendInv, LendingTypeOK, BuildsUnbuilt, IdleHoldsNothing, LentIsReturnable,
         lendingVars, Current
<1>2. CASE LendingNext
  BY <1>2, BeginPageKeeps, LendKeeps, BuildKeeps, ReclaimKeeps, ReleaseKeeps, SlotlessKeeps
     DEF LendingNext, Work
<1> QED  BY <1>1, <1>2

\* The inductive invariant holds in every reachable state.
THEOREM LendInvariance ==
  LendingSpec => []LendInv
BY LendInvStarts, LendInvKept, PTL DEF LendingSpec

\* The variables keep their types: the lend never runs past the decoders compiled in.
THEOREM LendTypeCorrect ==
  LendingSpec => []LendingTypeOK
<1>1. LendInv => LendingTypeOK
  BY DEF LendInv
<1> QED  BY <1>1, LendInvariance, PTL

\* For any number of threads, decoders and policies: whatever the renderer of a page holds,
\* its slot is waiting for it, however far the lend came and however the page ends.
THEOREM LentIsReturnableHolds ==
  LendingSpec => []LentIsReturnable
<1>1. LendInv => LentIsReturnable
  BY DEF LendInv
<1> QED  BY <1>1, LendInvariance, PTL

-----------------------------------------------------------------------------
\* A failed slot stays failed as long as some thread has a page.
LEMMA StepRemembersFailure ==
  ASSUME LendInv, [LendingNext]_lendingVars,
         NEW t \in Threads, NEW d \in Decoders, slot[t][d] = "failed", slot'[t][d] # "failed"
  PROVE  \A u \in Threads : pc[u] = "idle"
<1>1. PICK u \in Threads : Work(u) \/ Panic(u) \/ Release(u)
           \/ \E p \in Policies : BeginPage(u, p)
  BY DEF LendingNext, lendingVars
<1>2. CASE Lend(u)
  <2>1. Current(u) \in Decoders
    BY <1>2, CurrentIsDecoder DEF LendInv, Lend
  <2> QED  BY <1>2, <2>1 DEF LendInv, LendingTypeOK, Lend, TakeDecoder
<1>3. CASE Build(u)
  <2>1. Current(u) \in Decoders /\ slot[u][Current(u)] = "uninit"
    BY <1>3, CurrentIsDecoder DEF LendInv, BuildsUnbuilt, Build
  <2> QED  BY <1>3, <2>1 DEF LendInv, LendingTypeOK, Build
<1>4. CASE Reclaim(u)
  BY <1>4 DEF LendInv, LendingTypeOK, Reclaim, Reclaimed
<1>5. CASE Release(u)
  BY <1>5 DEF Release
<1>6. CASE EndLend(u) \/ Lock(u) \/ EndRender(u) \/ Panic(u)
           \/ \E p \in Policies : BeginPage(u, p)
  BY <1>6 DEF EndLend, Lock, EndRender, Panic, BeginPage
<1> QED  BY <1>1, <1>2, <1>3, <1>4, <1>5, <1>6 DEF Work

\* For any number of threads: no page retries a construction that failed; only the release
\* of the idle pool forgets it.
THEOREM FailureRememberedHolds ==
  LendingSpec => FailureRemembered
<1>1. LendInv /\ [LendingNext]_lendingVars =>
        [\A t \in Threads, d \in Decoders :
            slot[t][d] = "failed" /\ slot'[t][d] # "failed" =>
               \A u \in Threads : pc[u] = "idle"]_lendingVars
  BY StepRemembersFailure
<1> QED  BY <1>1, LendInvariance, PTL DEF LendingSpec, FailureRemembered
=============================================================================
