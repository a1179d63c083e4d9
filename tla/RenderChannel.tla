---------------------------- MODULE RenderChannel ---------------------------
(* The page iterator and the render channel (crates/pdf_raster/src/        *)
(* batch.rs) over the thread pool they share.                              *)
(*                                                                         *)
(* A job renders one document for one reader.  A channel job runs as a     *)
(* task of the pool and sends into a bounded channel; an iterator job runs *)
(* on its reader's own thread.  With deskew, a page is also a parallel     *)
(* loop in the pool: another thread may take a part of it, and a thread    *)
(* that waits for its part takes other work meanwhile, which it then has   *)
(* to finish first.  Hence a busy thread is a stack of frames; threads     *)
(* have no names here.  What the pool does by itself is external (rayon).  *)
EXTENDS Integers, Sequences, FiniteSets

CONSTANTS Jobs,        \* documents being rendered
          Iterators,   \* the jobs read through PageIter
          Deskewing,   \* the jobs with RasterOptions::deskew
          PoolSize,    \* threads of the pool
          Selection,   \* job -> ascending sequence of page numbers asked for
          Total,       \* job -> number of pages of the document
          Capacity,    \* job -> capacity asked of the channel
          After,       \* job -> the jobs its reader, once they are called, reads first
          Faulty,      \* jobs that may meet an error or a panic
          MayCancel    \* jobs whose token somebody may raise

ASSUME JobsAssumption == Iterators \subseteq Jobs
ASSUME SelectionAssumption ==
  /\ Selection \in [Jobs -> Seq(Nat)]
  /\ Total \in [Jobs -> Nat]
ASSUME CapacityAssumption == Capacity \in [Jobs -> Nat]

VARIABLES
  phase,      \* job -> how far its producer is
  next,       \* job -> pages the cursor has given out
  outcome,    \* job -> result of the page in hand
  open,       \* jobs that hold an open session
  channel,    \* job -> items sent and not received
  received,   \* job -> items received, in order
  reader,     \* job -> its reader: reading, dropped, or done
  raised,     \* job -> pages given out when its token was raised, or Never
  queue,      \* work handed to the pool, first come first served
  threads     \* the busy threads: the frames of each, the running one first

jobVars == <<phase, next, outcome, open>>
readerVars == <<channel, received, reader>>
poolVars == <<queue, threads>>
vars == <<jobVars, readerVars, raised, poolVars>>

-----------------------------------------------------------------------------
Channels == Jobs \ Iterators
Never == -1
Phases == {"uncalled", "opening", "paging", "rendering",
           "deskewing", "joining", "sending", "dropping", "unwinding",
           "aborting", "closing", "ended"}
PageResults == {"page", "error", "cancelled"}
Item(p, r) == [page |-> p, result |-> r]
Abort == Item(1, "abort")
Items == [page : Nat, result : PageResults \cup {"abort"}]

JobFrame(j) == [kind |-> "job", of |-> j]
PartFrame(j) == [kind |-> "part", of |-> j]
Frames == [kind : {"job", "part"}, of : Jobs]

TypeOK ==
  /\ phase \in [Jobs -> Phases]
  /\ next \in [Jobs -> Nat]
  /\ outcome \in [Jobs -> PageResults]
  /\ open \subseteq Jobs
  /\ channel \in [Jobs -> Seq(Items)]
  /\ received \in [Jobs -> Seq(Items)]
  /\ reader \in [Jobs -> {"reading", "dropped", "done"}]
  /\ raised \in [Jobs -> Nat \cup {Never}]
  /\ queue \in Seq(Frames)
  /\ threads \subseteq Seq(Frames) \ {<<>>}

Init ==
  /\ phase = [j \in Jobs |-> "uncalled"]
  /\ next = [j \in Jobs |-> 0]
  /\ outcome = [j \in Jobs |-> "page"]
  /\ open = {}
  /\ channel = [j \in Jobs |-> <<>>]
  /\ received = [j \in Jobs |-> <<>>]
  /\ reader = [j \in Jobs |-> "reading"]
  /\ raised = [j \in Jobs |-> Never]
  /\ queue = <<>>
  /\ threads = {}

-----------------------------------------------------------------------------
(* Who runs                                                                *)

Runs(t, frame) == Head(t) = frame

\* The reader of j reads the jobs of After[j] first: those that have been called, in whatever
\* order it calls them.
MyTurn(j) == \A k \in After[j] : phase[k] = "uncalled" \/ reader[k] # "reading"

\* The producer of j can take its next step.
Active(j) == IF j \in Iterators
             THEN reader[j] = "reading" /\ MyTurn(j)
             ELSE \E t \in threads : Runs(t, JobFrame(j))

\* A thread takes work when it has none, or waits inside a parallel loop.
Idle == IF Cardinality(threads) < PoolSize THEN {<<>>} ELSE {}
Waiting == {t \in threads : \/ Head(t).kind = "part"
                            \/ phase[Head(t).of] = "joining"}

Push(t, frame) == threads' = (threads \ {t}) \cup {<<frame>> \o t}
Pop(t) == threads' = (threads \ {t}) \cup ({Tail(t)} \ {<<>>})
GoTo(j, p) == phase' = [phase EXCEPT ![j] = p]

-----------------------------------------------------------------------------
(* The call: options are checked at once, the rest is the task's           *)

Room(j) == Len(channel[j]) < (IF Capacity[j] = 0 THEN 1 ELSE Capacity[j])

MoreToRender(j) ==
  next[j] < Len(Selection[j]) /\ Selection[j][next[j] + 1] <= Total[j]

CallInvalid(j) ==
  /\ j \in Faulty
  /\ phase[j] = "uncalled"
  /\ IF j \in Iterators
     THEN GoTo(j, "aborting") /\ UNCHANGED channel
     ELSE GoTo(j, "ended") /\ channel' = [channel EXCEPT ![j] = <<Abort>>]
  /\ UNCHANGED <<next, outcome, open, received, reader, raised, poolVars>>

Call(j) ==
  /\ phase[j] = "uncalled"
  /\ GoTo(j, "opening")
  /\ queue' = IF j \in Iterators THEN queue ELSE Append(queue, JobFrame(j))
  /\ UNCHANGED <<next, outcome, open, readerVars, raised, threads>>

-----------------------------------------------------------------------------
(* The pool                                                                *)

TakeFromQueue ==
  /\ queue # <<>>
  /\ \E t \in Idle \cup Waiting : Push(t, Head(queue))
  /\ queue' = Tail(queue)
  /\ UNCHANGED <<jobVars, readerVars, raised>>

\* Another thread takes a part of the parallel loop of a page.
StealPart(j) ==
  /\ j \in Channels
  /\ Active(j)
  /\ phase[j] = "deskewing"
  /\ \E t \in Idle \cup Waiting : Push(t, PartFrame(j))
  /\ GoTo(j, "joining")
  /\ UNCHANGED <<next, outcome, open, readerVars, raised, queue>>

\* A parallel loop started outside the pool is handed to it as a whole.
InjectPart(j) ==
  /\ j \in Iterators
  /\ Active(j)
  /\ phase[j] = "deskewing"
  /\ queue' = Append(queue, PartFrame(j))
  /\ GoTo(j, "joining")
  /\ UNCHANGED <<next, outcome, open, readerVars, raised, threads>>

FinishPart(j) ==
  /\ phase[j] = "joining"
  /\ \E t \in threads : Runs(t, PartFrame(j)) /\ Pop(t)
  /\ GoTo(j, "sending")
  /\ UNCHANGED <<next, outcome, open, readerVars, raised, queue>>

-----------------------------------------------------------------------------
(* The producer                                                            *)

Open(j) ==
  /\ Active(j)
  /\ phase[j] = "opening"
  /\ \/ GoTo(j, "paging") /\ open' = open \cup {j}
     \/ j \in Faulty /\ GoTo(j, "aborting") /\ UNCHANGED open
  /\ UNCHANGED <<next, outcome, readerVars, raised, poolVars>>

\* A page that fails, in its deskew or before, and a page that panics are
\* all an error item.
Failures(j) == IF j \in Faulty THEN {"error"} ELSE {}

\* A render begun after the token was raised draws nothing; the page may
\* still fail before the token is looked at.
StartWhateverRaised(j) ==
  /\ Active(j)
  /\ phase[j] = "paging"
  /\ MoreToRender(j)
  /\ next' = [next EXCEPT ![j] = @ + 1]
  /\ GoTo(j, "rendering")
  /\ UNCHANGED <<outcome, open, readerVars, raised, poolVars>>

StartPage(j) ==
  /\ Active(j)
  /\ phase[j] = "paging"
  /\ MoreToRender(j)
  /\ next' = [next EXCEPT ![j] = @ + 1]
  /\ IF raised[j] = Never
     THEN GoTo(j, "rendering") /\ UNCHANGED outcome
     ELSE /\ GoTo(j, "sending")
          /\ \E r \in {"cancelled"} \cup Failures(j) :
                outcome' = [outcome EXCEPT ![j] = r]
  /\ UNCHANGED <<open, readerVars, raised, poolVars>>

ResultsNow(j) ==
  {"page"} \cup Failures(j) \cup (IF raised[j] = Never THEN {} ELSE {"cancelled"})

FinishPage(j) ==
  /\ Active(j)
  /\ phase[j] = "rendering"
  /\ \E r \in ResultsNow(j) :
        /\ outcome' = [outcome EXCEPT ![j] = r]
        /\ GoTo(j, IF r = "page" /\ j \in Deskewing THEN "deskewing"
                                                    ELSE "sending")
  /\ UNCHANGED <<next, open, readerVars, raised, poolVars>>

\* Nobody took a part, so the thread does the whole loop.
DeskewAlone(j) ==
  /\ j \in Channels
  /\ Active(j)
  /\ phase[j] = "deskewing"
  /\ GoTo(j, "sending")
  /\ UNCHANGED <<next, outcome, open, readerVars, raised, poolVars>>

InHand(j) == Item(Selection[j][next[j]], outcome[j])

\* Blocks while the channel is full; fails once the receiver is gone.
SendOnAfterCancel(j) ==
  /\ j \in Channels
  /\ Active(j)
  /\ phase[j] = "sending"
  /\ reader[j] # "reading" \/ Room(j)
  /\ channel' = IF reader[j] # "reading" THEN channel
                ELSE [channel EXCEPT ![j] = Append(@, InHand(j))]
  /\ GoTo(j, IF reader[j] # "reading" THEN "dropping" ELSE "paging")
  /\ UNCHANGED <<next, outcome, open, received, reader, raised, poolVars>>

SendToReaderOnly(j) ==
  /\ reader[j] = "reading"
  /\ SendOnAfterCancel(j)

Send(j) ==
  /\ j \in Channels
  /\ Active(j)
  /\ phase[j] = "sending"
  /\ reader[j] # "reading" \/ Room(j)
  /\ channel' = IF reader[j] # "reading" THEN channel
                ELSE [channel EXCEPT ![j] = Append(@, InHand(j))]
  /\ GoTo(j, IF reader[j] # "reading" \/ outcome[j] = "cancelled"
             THEN "dropping" ELSE "paging")
  /\ UNCHANGED <<next, outcome, open, received, reader, raised, poolVars>>

CloseHoldingSession(j) ==
  /\ j \in Channels
  /\ Active(j)
  /\ phase[j] = "paging"
  /\ ~MoreToRender(j)
  /\ GoTo(j, "closing")
  /\ UNCHANGED <<next, outcome, open, readerVars, raised, poolVars>>

NoMorePages(j) ==
  /\ j \in Channels
  /\ Active(j)
  /\ phase[j] = "paging"
  /\ ~MoreToRender(j)
  /\ GoTo(j, "dropping")
  /\ UNCHANGED <<next, outcome, open, readerVars, raised, poolVars>>

\* A panic outside a page leaves the closure that owns the session.
Unwind(j) ==
  /\ j \in Channels
  /\ Active(j)
  /\ phase[j] = "paging"
  /\ j \in Faulty
  /\ GoTo(j, "unwinding")
  /\ UNCHANGED <<next, outcome, open, readerVars, raised, poolVars>>

DropSession(j) ==
  /\ Active(j)
  /\ \/ phase[j] = "dropping" /\ GoTo(j, "closing")
     \/ phase[j] = "unwinding" /\ GoTo(j, "aborting")
  /\ open' = open \ {j}
  /\ UNCHANGED <<next, outcome, readerVars, raised, poolVars>>

SendAbort(j) ==
  /\ j \in Channels
  /\ Active(j)
  /\ phase[j] = "aborting"
  /\ reader[j] # "reading" \/ Room(j)
  /\ channel' = IF reader[j] # "reading" THEN channel
                ELSE [channel EXCEPT ![j] = Append(@, Abort)]
  /\ GoTo(j, "closing")
  /\ UNCHANGED <<next, outcome, open, received, reader, raised, poolVars>>

\* The task ends and drops the sender.
Close(j) ==
  /\ phase[j] = "closing"
  /\ \E t \in threads : Runs(t, JobFrame(j)) /\ Pop(t)
  /\ GoTo(j, "ended")
  /\ UNCHANGED <<next, outcome, open, readerVars, raised, queue>>

-----------------------------------------------------------------------------
(* The iterator's own next(), on the thread of its reader                  *)

YieldPage(j) ==
  /\ j \in Iterators
  /\ Active(j)
  /\ phase[j] = "sending"
  /\ received' = [received EXCEPT ![j] = Append(@, InHand(j))]
  /\ IF outcome[j] = "cancelled"
     THEN GoTo(j, "ended") /\ open' = open \ {j}
     ELSE GoTo(j, "paging") /\ UNCHANGED open
  /\ UNCHANGED <<next, outcome, channel, reader, raised, poolVars>>

YieldError(j) ==
  /\ j \in Iterators
  /\ Active(j)
  /\ phase[j] = "aborting"
  /\ received' = [received EXCEPT ![j] = Append(@, Abort)]
  /\ GoTo(j, "ended")
  /\ UNCHANGED <<next, outcome, open, channel, reader, raised, poolVars>>

Exhaust(j) ==
  /\ j \in Iterators
  /\ Active(j)
  /\ phase[j] = "paging"
  /\ ~MoreToRender(j)
  /\ GoTo(j, "ended")
  /\ open' = open \ {j}
  /\ UNCHANGED <<next, outcome, readerVars, raised, poolVars>>

-----------------------------------------------------------------------------
(* The reader                                                              *)

Receive(j) ==
  /\ reader[j] = "reading"
  /\ MyTurn(j)
  /\ channel[j] # <<>>
  /\ received' = [received EXCEPT ![j] = Append(@, Head(channel[j]))]
  /\ channel' = [channel EXCEPT ![j] = Tail(@)]
  /\ UNCHANGED <<jobVars, reader, raised, poolVars>>

SeeEnd(j) ==
  /\ reader[j] = "reading"
  /\ MyTurn(j)
  /\ phase[j] = "ended"
  /\ channel[j] = <<>>
  /\ reader' = [reader EXCEPT ![j] = "done"]
  /\ UNCHANGED <<jobVars, channel, received, raised, poolVars>>

\* The receiver is dropped with what it has not read; the iterator only
\* between two calls of next, and its session with it.
DropReader(j) ==
  /\ reader[j] = "reading"
  /\ MyTurn(j)
  /\ phase[j] # "uncalled"
  /\ reader' = [reader EXCEPT ![j] = "dropped"]
  /\ IF j \in Iterators
     THEN /\ phase[j] \in {"paging", "aborting", "ended"}
          /\ GoTo(j, "ended")
          /\ open' = open \ {j}
          /\ UNCHANGED channel
     ELSE /\ channel' = [channel EXCEPT ![j] = <<>>]
          /\ UNCHANGED <<phase, open>>
  /\ UNCHANGED <<next, outcome, received, raised, poolVars>>

Raise(j) ==
  /\ j \in MayCancel
  /\ raised[j] = Never
  /\ raised' = [raised EXCEPT ![j] = next[j]]
  /\ UNCHANGED <<jobVars, readerVars, poolVars>>

-----------------------------------------------------------------------------
Work(j) ==
  \/ Open(j) \/ StartPage(j) \/ FinishPage(j)
  \/ DeskewAlone(j) \/ InjectPart(j) \/ FinishPart(j)
  \/ Send(j) \/ NoMorePages(j) \/ DropSession(j) \/ SendAbort(j) \/ Close(j)
  \/ YieldPage(j) \/ YieldError(j) \/ Exhaust(j)
Read(j) == Receive(j) \/ SeeEnd(j)

Next ==
  \/ \E j \in Jobs :
        \/ CallInvalid(j) \/ Call(j)
        \/ Work(j) \/ Unwind(j) \/ StealPart(j)
        \/ Read(j) \/ DropReader(j) \/ Raise(j)
  \/ TakeFromQueue

Spec == Init /\ [][Next]_vars

\* A task that runs takes its steps, the pool runs what it is given, and a
\* reader that has not dropped its end goes on reading.
FairSpec ==
  /\ Spec
  /\ \A j \in Jobs : WF_vars(Work(j)) /\ WF_vars(Read(j))
  /\ WF_vars(TakeFromQueue)

-----------------------------------------------------------------------------
(* Properties                                                              *)

\* What the readers see is what PageDelivery promises: each selected page
\* once, in order, errors and panics in their page's place, at most one
\* last item for page 1 (batch.rs 264-299, 166-190).
Delivery == INSTANCE PageDelivery
  WITH delivered <- received, finished <- {j \in Jobs : reader[j] = "done"}
KeepsPromise == Delivery!Spec

\* A reader that has seen the end may delete or replace the document: no
\* session holds it any more.  The closure of the worker drops the session
\* before the sender goes, on every path (batch.rs 269-298).
EndMeansSessionGone == \A j \in Jobs : reader[j] = "done" => j \notin open

\* No page begun after the token was raised is rendered (lib.rs 422-426),
\* whatever was queued, sent or deskewed at that moment.
NoPageAfterRaise ==
  \A j \in Jobs : raised[j] # Never =>
    \A i \in DOMAIN received[j] :
      received[j][i].result = "page" => i <= raised[j]

\* A producer at a full channel whose reader is reading another job.
HeldUp(k) ==
  /\ \E t \in threads : Runs(t, JobFrame(k))
  /\ phase[k] \in {"sending", "aborting"} /\ reader[k] = "reading"
  /\ ~Room(k) /\ ~MyTurn(k)

\* It has another job's task or part beneath it on its thread.
Burying(k) ==
  \E t \in threads :
     Runs(t, JobFrame(k)) /\ \E i \in 2..Len(t) : t[i].of # k

\* Work waits for a thread, and each is held up so.
Starving ==
  /\ queue # <<>> /\ Cardinality(threads) = PoolSize
  /\ \A t \in threads : Head(t).kind = "job" /\ HeldUp(Head(t).of)

HoldsUpPool == Starving \/ \E k \in Channels : HeldUp(k) /\ Burying(k)

Ended(j) == phase[j] = "ended" /\ reader[j] # "reading"

\* In the end every job that was called has ended, and its reader with it, however the tasks
\* are stacked on the threads and whichever channels are full; unless the reader of a full
\* channel reads another job for ever, whose work is beneath that channel's producer or gets no
\* thread for such producers.  lib.rs 60-64 warns of the like for readers inside the pool only.
EveryJobEnds ==
  <>[](HoldsUpPool \/ \A j \in Jobs : phase[j] # "uncalled" => Ended(j))
=============================================================================
