------------------------------ MODULE Prefetch ------------------------------
(* The image prefetcher (crates/pdf_interp/src/cache/prefetch.rs): a       *)
(* discovery thread walks the pages and sends each JPEG image once;        *)
(* workers take turns, under a lock, at the one receiver and decode into   *)
(* the device image cache; the handle cancels and joins them all.          *)
EXTENDS Naturals, Sequences, FiniteSets

CONSTANTS Workers,     \* decode workers
          Images,      \* image XObjects
          Refs,        \* the references to images in the order of the walk
          Dct,         \* the images that are JPEGs
          MaxImages,   \* PrefetchConfig::max_images
          Nobody       \* the receiver's lock is free

ASSUME PrefetchAssumption ==
  Refs \in Seq(Images) /\ Dct \subseteq Images /\ MaxImages \in Nat

VARIABLES
  cancel,      \* the cancel flag
  channel,     \* images sent and not taken
  walk,        \* discovery: "none", "check", "filter", "send" or "ended"
  position,    \* references the walk is done with
  seen,        \* images the walk has met
  emitted,     \* images sent, in order
  place,       \* worker -> "none", "check", "lock", "recv", "decode", "ended"
  lock,        \* the worker that holds the receiver's lock
  late         \* worker -> decodes it has begun since the flag was set

prefetchVars == <<cancel, channel, walk, position, seen, emitted, place,
                  lock, late>>

PrefetchTypeOK ==
  /\ cancel \in BOOLEAN
  /\ channel \in Seq(Images)
  /\ walk \in {"none", "check", "filter", "send", "ended"}
  /\ position \in 0..Len(Refs)
  /\ seen \subseteq Images
  /\ emitted \in Seq(Images)
  /\ place \in [Workers -> {"none", "check", "lock", "recv", "decode", "ended"}]
  /\ lock \in Workers \cup {Nobody}
  /\ late \in [Workers -> Nat]

PrefetchInit ==
  /\ cancel = FALSE
  /\ channel = <<>>
  /\ walk = "none"
  /\ position = 0
  /\ seen = {}
  /\ emitted = <<>>
  /\ place = [w \in Workers |-> "none"]
  /\ lock = Nobody
  /\ late = [w \in Workers |-> 0]

Live == {w \in Workers : place[w] \notin {"none", "ended"}}
GoTo(w, p) == place' = [place EXCEPT ![w] = p]

-----------------------------------------------------------------------------
(* spawn_threads: the workers, then discovery.  Until discovery runs the   *)
(* sender is in the caller's frame.                                        *)

SpawnWorker(w) ==
  /\ walk = "none"
  /\ place[w] = "none"
  /\ GoTo(w, "check")
  /\ UNCHANGED <<cancel, channel, walk, position, seen, emitted, lock, late>>

SpawnWalk ==
  /\ walk = "none"
  /\ \A w \in Workers : place[w] # "none"
  /\ walk' = "check"
  /\ UNCHANGED <<cancel, channel, position, seen, emitted, place, lock, late>>

\* A thread cannot be made: the frame ends, and the sender with it.
SpawnFails ==
  /\ walk = "none"
  /\ walk' = "ended"
  /\ UNCHANGED <<cancel, channel, position, seen, emitted, place, lock, late>>

-----------------------------------------------------------------------------
(* discover_pages                                                          *)

Image == Refs[position + 1]

WalkCheck ==
  /\ walk = "check"
  /\ walk' = IF cancel \/ position = Len(Refs) \/ Len(emitted) >= MaxImages
             THEN "ended" ELSE "filter"
  /\ UNCHANGED <<cancel, channel, position, seen, emitted, place, lock, late>>

\* Decoded already by a renderer, or in the disk tier.
SkipsCached(inCache) == inCache \/ Image \notin Dct
Skips(inCache) == Image \in seen \/ inCache \/ Image \notin Dct

WalkFilter ==
  /\ walk = "filter"
  /\ seen' = seen \cup {Image}
  /\ \E inCache \in BOOLEAN :
        IF Skips(inCache)
        THEN walk' = "check" /\ position' = position + 1
        ELSE walk' = "send" /\ UNCHANGED position
  /\ UNCHANGED <<cancel, channel, emitted, place, lock, late>>

\* The send fails once no worker is left to receive.
WalkSend ==
  /\ walk = "send"
  /\ IF \A w \in Workers : place[w] = "ended"
     THEN walk' = "ended" /\ UNCHANGED <<channel, emitted, position>>
     ELSE /\ channel' = Append(channel, Image)
          /\ emitted' = Append(emitted, Image)
          /\ position' = position + 1
          /\ walk' = "check"
  /\ UNCHANGED <<cancel, seen, place, lock, late>>

WalkStep == WalkCheck \/ WalkFilter \/ WalkSend

-----------------------------------------------------------------------------
(* worker_loop                                                             *)

\* A worker that goes back to the lock without a look at the flag.
WorkerGoesOn(w) ==
  /\ place[w] = "check"
  /\ GoTo(w, "lock")
  /\ UNCHANGED <<cancel, channel, walk, position, seen, emitted, lock, late>>

WorkerCheck(w) ==
  /\ place[w] = "check"
  /\ GoTo(w, IF cancel THEN "ended" ELSE "lock")
  /\ UNCHANGED <<cancel, channel, walk, position, seen, emitted, lock, late>>

Acquire(w) ==
  /\ place[w] = "lock"
  /\ lock = Nobody
  /\ lock' = w
  /\ GoTo(w, "recv")
  /\ UNCHANGED <<cancel, channel, walk, position, seen, emitted, late>>

TakeJob(w) ==
  /\ place[w] = "recv"
  /\ channel # <<>>
  /\ channel' = Tail(channel)
  /\ lock' = Nobody
  /\ GoTo(w, "decode")
  /\ late' = [late EXCEPT ![w] = @ + (IF cancel THEN 1 ELSE 0)]
  /\ UNCHANGED <<cancel, walk, position, seen, emitted>>

\* The sender is gone: it lives in the walk, or in spawn_threads before it.
SeeClosed(w) ==
  /\ place[w] = "recv"
  /\ channel = <<>>
  /\ walk = "ended"
  /\ lock' = Nobody
  /\ GoTo(w, "ended")
  /\ UNCHANGED <<cancel, channel, walk, position, seen, emitted, late>>

\* Decoded, failed or panicked: the worker goes round.
Decoded(w) ==
  /\ place[w] = "decode"
  /\ GoTo(w, "check")
  /\ UNCHANGED <<cancel, channel, walk, position, seen, emitted, lock, late>>

PrefetchWorkerStep(w) ==
  WorkerCheck(w) \/ Acquire(w) \/ TakeJob(w) \/ SeeClosed(w) \/ Decoded(w)

-----------------------------------------------------------------------------
(* Drop of the handle                                                      *)

Cancel ==
  /\ cancel' = TRUE
  /\ UNCHANGED <<channel, walk, position, seen, emitted, place, lock, late>>

PrefetchJoined == walk \in {"none", "ended"} /\ Live = {}

-----------------------------------------------------------------------------
\* An image is sent once however many references lead to it, and no more
\* images than the cap (discover_pages, 223-281).
OneJobPerImage ==
  /\ \A i, j \in 1..Len(emitted) : emitted[i] = emitted[j] => i = j
  /\ Len(emitted) <= MaxImages

\* A worker that was about to receive when the flag was set begins one more
\* decode, and no worker begins two (worker_loop, 286-316).
CancelIsPrompt == \A w \in Workers : late[w] <= 1
=============================================================================
