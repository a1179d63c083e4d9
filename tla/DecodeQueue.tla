----------------------------- MODULE DecodeQueue ----------------------------
(* The JPEG decode queue (crates/gpu/src/decode_queue.rs): one worker      *)
(* thread owns the hardware decoder; renderers send it requests through    *)
(* handles and block until it replies.  The job channel is open while the  *)
(* queue's own sender or a handle is left.                                 *)
EXTENDS Naturals, Sequences, FiniteSets

CONSTANTS Renderers,   \* threads that render pages
          NoOne        \* the worker has no request in hand

ASSUME NoOneAssumption == NoOne \notin Renderers

VARIABLES
  sender,    \* the queue's own sender: "none", "kept" or "closed"
  handles,   \* renderers that hold a handle
  jobs,      \* requests sent and not taken by the worker, by renderer
  worker,    \* "none", "running" or "ended"
  inHand,    \* the renderer whose request is being decoded
  waiting,   \* renderers blocked on their reply channel
  reply      \* renderer -> what its reply channel holds

queueVars == <<sender, handles, jobs, worker, inHand, waiting, reply>>

Queued == {jobs[i] : i \in DOMAIN jobs}

QueueTypeOK ==
  /\ sender \in {"none", "kept", "closed"}
  /\ handles \subseteq Renderers
  /\ jobs \in Seq(Renderers)
  /\ worker \in {"none", "running", "ended"}
  /\ inHand \in Renderers \cup {NoOne}
  /\ waiting \subseteq handles
  /\ reply \in [Renderers -> {"none", "image", "error", "disconnected"}]

QueueInit ==
  /\ sender = "none"
  /\ handles = {}
  /\ jobs = <<>>
  /\ worker = "none"
  /\ inHand = NoOne
  /\ waiting = {}
  /\ reply = [r \in Renderers |-> "none"]

-----------------------------------------------------------------------------
New ==
  /\ worker = "none"
  /\ sender' = "kept"
  /\ worker' = "running"
  /\ UNCHANGED <<handles, jobs, inHand, waiting, reply>>

Handle(r) ==
  /\ sender = "kept"
  /\ r \notin handles
  /\ handles' = handles \cup {r}
  /\ UNCHANGED <<sender, jobs, worker, inHand, waiting, reply>>

DropHandle(r) ==
  /\ r \in handles \ waiting
  /\ handles' = handles \ {r}
  /\ UNCHANGED <<sender, jobs, worker, inHand, waiting, reply>>

\* Without a worker the send fails, and the renderer decodes on the CPU.
Decode(r) ==
  /\ r \in handles \ waiting
  /\ worker = "running"
  /\ jobs' = Append(jobs, r)
  /\ waiting' = waiting \cup {r}
  /\ reply' = [reply EXCEPT ![r] = "none"]
  /\ UNCHANGED <<sender, handles, worker, inHand>>

\* An image, or no image and the CPU path: decoding failed, or the worker
\* is gone and its end of the reply channel with it.
Receive(r) ==
  /\ r \in waiting
  /\ reply[r] # "none"
  /\ waiting' = waiting \ {r}
  /\ reply' = [reply EXCEPT ![r] = "none"]
  /\ UNCHANGED <<sender, handles, jobs, worker, inHand>>

-----------------------------------------------------------------------------
WorkerTake ==
  /\ worker = "running"
  /\ inHand = NoOne
  /\ jobs # <<>>
  /\ inHand' = Head(jobs)
  /\ jobs' = Tail(jobs)
  /\ UNCHANGED <<sender, handles, worker, waiting, reply>>

WorkerReply ==
  /\ inHand # NoOne
  /\ \E result \in {"image", "error"} :
        reply' = [reply EXCEPT ![inHand] = result]
  /\ inHand' = NoOne
  /\ UNCHANGED <<sender, handles, jobs, worker, waiting>>

\* A panic in the decoder drops the receiver with the requests in it.
WorkerDiesAlone ==
  /\ inHand # NoOne
  /\ worker' = "ended"
  /\ reply' = [reply EXCEPT ![inHand] = "disconnected"]
  /\ inHand' = NoOne
  /\ UNCHANGED <<sender, handles, jobs, waiting>>

WorkerPanic ==
  /\ inHand # NoOne
  /\ worker' = "ended"
  /\ reply' = [r \in Renderers |->
                 IF r \in Queued \cup {inHand} THEN "disconnected" ELSE reply[r]]
  /\ jobs' = <<>>
  /\ inHand' = NoOne
  /\ UNCHANGED <<sender, handles, waiting>>

WorkerEnd ==
  /\ worker = "running"
  /\ inHand = NoOne
  /\ jobs = <<>>
  /\ sender = "closed" /\ handles = {}
  /\ worker' = "ended"
  /\ UNCHANGED <<sender, handles, jobs, inHand, waiting, reply>>

\* Drop closes the queue's own sender and then joins the worker.
CloseSender ==
  /\ sender = "kept"
  /\ sender' = "closed"
  /\ UNCHANGED <<handles, jobs, worker, inHand, waiting, reply>>

Joined == sender = "closed" /\ worker = "ended"

WorkerStep == WorkerTake \/ WorkerReply \/ WorkerPanic \/ WorkerEnd

-----------------------------------------------------------------------------
\* A blocked renderer has its request in one place: in the channel of a
\* worker that runs, with the worker, or answered.  Elsewhere it would
\* block for ever (decode_queue.rs 180-202).
RequestInOnePlace ==
  \A r \in waiting :
    Cardinality({p \in {"queued", "inHand", "answered"} :
                   \/ p = "queued" /\ r \in Queued /\ worker = "running"
                   \/ p = "inHand" /\ r = inHand
                   \/ p = "answered" /\ reply[r] # "none"}) = 1
=============================================================================
