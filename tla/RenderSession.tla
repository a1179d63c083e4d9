---------------------------- MODULE RenderSession ---------------------------
(* A raster session and the threads it owns (crates/pdf_raster/src/open.rs,*)
(* decoders.rs): opening starts the JPEG decode queue and the prefetcher;  *)
(* renderers borrow queue handles from the open session; its drop runs the *)
(* fields' drops in the order they are declared, the queue's, the cache's  *)
(* reference and the prefetcher's.                                         *)
EXTENDS DecodeQueue, Prefetch

VARIABLE session
  \* "opening"     no thread yet
  \* "spawning"    in spawn_threads
  \* "giving up"   a prefetch thread could not be made: its handle's drop
  \* "open"        renderers may borrow it
  \* "queue"       in the drop of vaapi_queue
  \* "cache"       in the drop of image_cache
  \* "prefetch"    in the drop of prefetch
  \* "gone"

vars == <<queueVars, prefetchVars, session>>

Stages == {"opening", "spawning", "giving up", "open", "queue", "cache",
           "prefetch", "gone"}

TypeOK ==
  /\ QueueTypeOK /\ RequestInOnePlace
  /\ PrefetchTypeOK /\ session \in Stages

Init == QueueInit /\ PrefetchInit /\ session = "opening"

-----------------------------------------------------------------------------
(* open_session                                                            *)

\* No node, or a policy that does without VA-API: there is no queue.
BuildQueue ==
  /\ session = "opening"
  /\ session' = "spawning"
  /\ New \/ UNCHANGED queueVars
  /\ UNCHANGED prefetchVars

SpawnPrefetch ==
  /\ session = "spawning"
  /\ \/ \E w \in Workers : SpawnWorker(w) /\ UNCHANGED session
     \/ SpawnWalk /\ session' = "open"
     \/ SpawnFails /\ session' = "giving up"
  /\ UNCHANGED queueVars

\* The threads that were started are stopped, and rendering goes on without.
GiveUpPrefetch ==
  /\ session = "giving up"
  /\ \/ ~cancel /\ Cancel /\ UNCHANGED session
     \/ cancel /\ PrefetchJoined /\ session' = "open" /\ UNCHANGED prefetchVars
  /\ UNCHANGED queueVars

\* Not asked for, or there is no cache to fill.
OpenWithoutPrefetch ==
  /\ session = "spawning"
  /\ \A w \in Workers : place[w] = "none"
  /\ session' = "open"
  /\ UNCHANGED <<queueVars, prefetchVars>>

-----------------------------------------------------------------------------
(* Renderers borrow the session while it is open.                          *)

Render(r) ==
  /\ session = "open"
  /\ Handle(r) \/ Decode(r) \/ Receive(r) \/ DropHandle(r)
  /\ UNCHANGED <<prefetchVars, session>>

-----------------------------------------------------------------------------
(* Drop                                                                    *)

\* The last owner lets go: no renderer borrows the session, and none holds
\* a handle.
CloseWhateverBorrowed ==
  /\ session = "open"
  /\ session' = "queue"
  /\ UNCHANGED <<queueVars, prefetchVars>>

Close ==
  /\ session = "open"
  /\ handles = {}
  /\ session' = "queue"
  /\ UNCHANGED <<queueVars, prefetchVars>>

DropQueue ==
  /\ session = "queue"
  /\ \/ CloseSender /\ UNCHANGED session
     \/ /\ sender = "none" \/ Joined
        /\ session' = "cache"
        /\ UNCHANGED queueVars
  /\ UNCHANGED prefetchVars

\* The threads of the prefetcher hold the cache too: this only lets go of
\* the session's reference.
DropCache ==
  /\ session = "cache"
  /\ session' = "prefetch"
  /\ UNCHANGED <<queueVars, prefetchVars>>

DropWithoutJoin ==
  /\ session = "prefetch"
  /\ session' = "gone"
  /\ Cancel
  /\ UNCHANGED queueVars

DropPrefetch ==
  /\ session = "prefetch"
  /\ \/ ~cancel /\ Cancel /\ UNCHANGED session
     \/ /\ cancel /\ PrefetchJoined
        /\ session' = "gone"
        /\ UNCHANGED prefetchVars
  /\ UNCHANGED queueVars

-----------------------------------------------------------------------------
QueueThread == WorkerStep /\ UNCHANGED <<prefetchVars, session>>
WalkThread == WalkStep /\ UNCHANGED <<queueVars, session>>
PrefetchThread(w) == PrefetchWorkerStep(w) /\ UNCHANGED <<queueVars, session>>

Owner ==
  \/ BuildQueue \/ SpawnPrefetch \/ GiveUpPrefetch \/ OpenWithoutPrefetch
  \/ DropQueue \/ DropCache \/ DropPrefetch

Next ==
  \/ Owner \/ Close \/ QueueThread \/ WalkThread
  \/ \E r \in Renderers : Render(r)
  \/ \E w \in Workers : PrefetchThread(w)

Spec == Init /\ [][Next]_vars

\* Every thread runs, a decode ends, and a renderer waits for its reply and
\* no longer.  Nobody has to close the session.
FairSpec ==
  /\ Spec
  /\ WF_vars(Owner)
  /\ WF_vars(QueueThread)
  /\ WF_vars(WalkThread)
  /\ \A r \in Renderers : WF_vars(Receive(r) /\ UNCHANGED <<prefetchVars, session>>)
  /\ \A w \in Workers : WF_vars(PrefetchThread(w))

-----------------------------------------------------------------------------
\* When the drop of the session returns, none of its threads runs, nothing
\* waits in their channels, and no renderer waits (open.rs 74-97).
NothingLeftRunning ==
  /\ TypeOK
  /\ session = "gone" =>
       /\ worker # "running" /\ jobs = <<>> /\ waiting = {}
       /\ PrefetchJoined /\ lock = Nobody

\* A renderer blocked on the queue gets its answer, from a worker that
\* panics too (decode_queue.rs 180-202).
EveryRequestAnswered ==
  \A r \in Renderers : (r \in waiting) ~> (r \notin waiting)

\* Opening ends though a prefetch thread cannot be made, and so does the
\* drop of a session, with its queue's worker in recv and the prefetcher's
\* workers behind one lock, whatever they were doing (decode_queue.rs
\* 103-122, prefetch.rs 90-108).
SessionGetsThrough ==
  /\ (session = "opening") ~> (session = "open")
  /\ (session = "queue") ~> (session = "gone")
=============================================================================
