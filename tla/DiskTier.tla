------------------------------ MODULE DiskTier ------------------------------
(***************************************************************************)
(* The disk tier of the image cache (crates/gpu/src/cache/disk_tier.rs).   *)
(* Processes share a cache directory: a directory for each document, a     *)
(* file for each decoded image.  In a process render threads queue writes  *)
(* on a bounded channel and one writer thread lands each as a temporary    *)
(* file that is synced and renamed, then evicts whole documents when its   *)
(* own count of the bytes on disk passes the budget.  Nothing is locked    *)
(* between processes, and each may be killed at any step.                  *)
(*                                                                         *)
(* An action is one system call or one access to a shared counter or       *)
(* channel.  Abstractions: any directory may be the oldest; a temporary    *)
(* file that is not complete counts for all of its bytes or for none;      *)
(* unlinking a single file succeeds.                                       *)
(***************************************************************************)
EXTENDS Totals, Sequences

CONSTANTS Procs,       \* processes, each with one DiskTier, a pid of its own
          Threads,     \* their render threads
          ProcOf,
          Docs, Entries, DocOf,
          Size,        \* bytes of an entry's file
          Depth,       \* WRITE_QUEUE_DEPTH
          Budget,      \* WriterState::budget; 0 is unbounded
          BadAtStart,  \* entries whose file an earlier version or another program left
          ReadErrors,  \* whether a sound file may fail to be read
          Killable,    \* processes that may be killed
          EstimateCap, \* bound: no insert once used_estimate is above it
          Final        \* the name of the file lookups open

ASSUME ProcOfType == ProcOf \in [Threads -> Procs]
ASSUME DocOfType == DocOf \in [Entries -> Docs]
ASSUME EntriesFinite == IsFiniteSet(Entries) /\ Entries # {}
ASSUME ThreadsFinite == IsFiniteSet(Threads)
ASSUME ProcsFinite == IsFiniteSet(Procs)
ASSUME DocsFinite == IsFiniteSet(Docs)
ASSUME SizeType == Size \in [Entries -> Nat]
ASSUME LimitsType == Depth \in Nat \ {0} /\ Budget \in Nat /\ EstimateCap \in Nat
ASSUME BadType == BadAtStart \subseteq Entries /\ ReadErrors \in BOOLEAN
ASSUME KillableType == Killable \subseteq Procs
ASSUME FinalType == Final \notin Procs

VARIABLES
    file,      \* file[e][n]: the contents under e's name n, Final or the temporary one of n
    dirs,      \* documents that have a directory
    up,        \* up[p]: "up", "dropping" while DiskTier::drop runs, or "down"
    open,      \* open[p]: the channel has a sender
    queue,     \* queue[p]: the channel
    inFlight,  \* inFlight[p]: in_flight
    used,      \* used[p]: used_estimate
    wpc, job,  \* the writer's next step and the entry it writes
    scan,      \* scan[p]: directories evict_to_fit has left to size
    found,     \* found[p]: directories it has left to evict
    sizes,     \* sizes[p]: the bytes it found in each directory
    listing,   \* listing[p]: the directory it is sizing, with the <<entry, name>> files in it
    pc, want,  \* a render thread's next step and its entry
    \* history, to state EstimateCovers with
    mine,      \* mine[p]: entries p has written since it started, still in place
    unread,    \* unread[p]: directories the pass met an error in and counts as empty
    missed     \* missed[p]: entries of mine[p] that the last count of the bytes left out so

disk == <<file, dirs, mine>>
channel == <<open, queue, inFlight>>
pass == <<scan, found, sizes, listing, unread>>
estimate == <<used, missed>>
writer == <<estimate, wpc, job, pass>>
threads == <<pc, want>>
vars == <<disk, up, channel, writer, threads>>

AnyEntry == CHOOSE e \in Entries : TRUE
Names == Procs \cup {Final}
NoSizes == [d \in Docs |-> 0]
NoListing == [dir |-> CHOOSE d \in Docs : TRUE, files |-> {}]

Init ==
    /\ file = [e \in Entries |-> [n \in Names |->
                  IF n = Final /\ e \in BadAtStart THEN "bad" ELSE "none"]]
    /\ dirs = { DocOf[e] : e \in BadAtStart }
    /\ up = [p \in Procs |-> "down"]
    /\ open = [p \in Procs |-> FALSE]
    /\ queue = [p \in Procs |-> << >>]
    /\ inFlight = [p \in Procs |-> 0]
    /\ used = [p \in Procs |-> 0]
    /\ wpc = [p \in Procs |-> "recv"]
    /\ job = [p \in Procs |-> AnyEntry]
    /\ scan = [p \in Procs |-> {}]
    /\ found = [p \in Procs |-> {}]
    /\ sizes = [p \in Procs |-> NoSizes]
    /\ listing = [p \in Procs |-> NoListing]
    /\ pc = [t \in Threads |-> "idle"]
    /\ want = [t \in Threads |-> AnyEntry]
    /\ mine = [p \in Procs |-> {}]
    /\ unread = [p \in Procs |-> {}]
    /\ missed = [p \in Procs |-> {}]

ThreadsOf(p) == { t \in Threads : ProcOf[t] = p }
Goto(t, label) == pc' = [pc EXCEPT ![t] = label]
Return(t) == Goto(t, "idle") /\ want' = [want EXCEPT ![t] = AnyEntry]
WriterTo(p, label) == wpc' = [wpc EXCEPT ![p] = label]
FilesIn(d) == { f \in Entries \X Names : DocOf[f[1]] = d /\ file[f[1]][f[2]] # "none" }

\* The files F are gone; those under their final name leave every process's account.
Unlink(F) ==
    /\ file' = [e \in Entries |-> [n \in Names |->
                   IF <<e, n>> \in F THEN "none" ELSE file[e][n]]]
    /\ mine' = [p \in Procs |-> { e \in mine[p] : <<e, Final>> \notin F }]

-----------------------------------------------------------------------------
(* DiskTier::insert and lookup_into on a render thread.                    *)

\* With the queue saturated the write is dropped here, and nothing changes.
Insert(t, e) ==
    /\ pc[t] = "idle" /\ up[ProcOf[t]] = "up"
    /\ inFlight[ProcOf[t]] < Depth
    /\ used[ProcOf[t]] <= EstimateCap
    /\ Goto(t, "add")
    /\ want' = [want EXCEPT ![t] = e]
    /\ UNCHANGED <<disk, up, channel, writer>>

Add(t) ==
    /\ pc[t] = "add"
    /\ inFlight' = [inFlight EXCEPT ![ProcOf[t]] = @ + 1]
    /\ Goto(t, "send")
    /\ UNCHANGED <<disk, up, open, queue, writer, want>>

\* try_send
Send(t) ==
    LET p == ProcOf[t] IN
    /\ pc[t] = "send"
    /\ \/ /\ Len(queue[p]) < Depth
          /\ queue' = [queue EXCEPT ![p] = Append(@, want[t])]
          /\ Return(t)
       \/ /\ Len(queue[p]) >= Depth
          /\ Goto(t, "undo")
          /\ UNCHANGED <<queue, want>>
    /\ UNCHANGED <<disk, up, open, inFlight, writer>>

Undo(t) ==
    /\ pc[t] = "undo"
    /\ inFlight' = [inFlight EXCEPT ![ProcOf[t]] = @ - 1]
    /\ Return(t)
    /\ UNCHANGED <<disk, up, open, queue, writer>>

\* The file opened is not an entry, is cut short, or cannot be read.
Condemned(e) ==
    file[e][Final] \in {"bad", "part"} \cup (IF ReadErrors THEN {"whole"} ELSE {})

\* Such a file is to be removed; any other lookup changes nothing.
Lookup(t, e) ==
    /\ pc[t] = "idle" /\ up[ProcOf[t]] = "up"
    /\ Condemned(e)
    /\ Goto(t, "remove")
    /\ want' = [want EXCEPT ![t] = e]
    /\ UNCHANGED <<disk, up, channel, writer>>

\* report_bad_entry removes what is there now.
RemoveBad(t) ==
    /\ pc[t] = "remove"
    /\ Unlink({<<want[t], Final>>})
    /\ Return(t)
    /\ UNCHANGED <<dirs, up, channel, writer>>

-----------------------------------------------------------------------------
(* writer_loop: one queued write, by write_entry.                          *)

Take(p) ==
    /\ wpc[p] = "recv" /\ up[p] # "down"
    /\ queue[p] # << >>
    /\ job' = [job EXCEPT ![p] = Head(queue[p])]
    /\ queue' = [queue EXCEPT ![p] = Tail(@)]
    /\ WriterTo(p, "mkdir")
    /\ UNCHANGED <<disk, up, open, inFlight, estimate, pass, threads>>

\* A job that fails here returns to the channel without its decrement.
MakeDirForgets(p) ==
    /\ wpc[p] = "mkdir"
    /\ \/ dirs' = dirs \cup {DocOf[job[p]]} /\ WriterTo(p, "create")
       \/ WriterTo(p, "recv") /\ UNCHANGED dirs
    /\ UNCHANGED <<file, mine, up, channel, estimate, job, pass, threads>>

\* create_dir_all of the document's directory.
MakeDir(p) ==
    /\ wpc[p] = "mkdir"
    /\ \/ dirs' = dirs \cup {DocOf[job[p]]} /\ WriterTo(p, "create")
       \/ WriterTo(p, "release") /\ UNCHANGED dirs
    /\ UNCHANGED <<file, mine, up, channel, estimate, job, pass, threads>>

Write(p, name, contents) == file' = [file EXCEPT ![job[p]][name] = contents]

\* The entry is written under its final name.
CreateInPlace(p) ==
    /\ wpc[p] = "create"
    /\ Write(p, Final, "part")
    /\ WriterTo(p, "fill")
    /\ UNCHANGED <<dirs, mine, up, channel, estimate, job, pass, threads>>

\* create_new of the temporary file: an eviction may have taken the directory, a killed
\* process with this pid may have left the name.
CreateTmp(p) ==
    /\ wpc[p] = "create"
    /\ \/ /\ DocOf[job[p]] \in dirs /\ file[job[p]][p] = "none"
          /\ Write(p, p, "part")
          /\ WriterTo(p, "fill")
       \/ WriterTo(p, "clean") /\ UNCHANGED file
    /\ UNCHANGED <<dirs, mine, up, channel, estimate, job, pass, threads>>

\* An error while writing leaves the temporary file.
FillLeavesTmp(p) ==
    /\ wpc[p] = "fill"
    /\ \/ /\ IF file[job[p]][p] = "none" THEN UNCHANGED file ELSE Write(p, p, "whole")
          /\ WriterTo(p, "rename")
       \/ WriterTo(p, "release") /\ UNCHANGED file
    /\ UNCHANGED <<dirs, mine, up, channel, estimate, job, pass, threads>>

\* write_all and sync_all, to a file that may have been unlinked meanwhile.
Fill(p) ==
    /\ wpc[p] = "fill"
    /\ \/ /\ IF file[job[p]][p] = "none" THEN UNCHANGED file ELSE Write(p, p, "whole")
          /\ WriterTo(p, "rename")
       \/ WriterTo(p, "clean") /\ UNCHANGED file
    /\ UNCHANGED <<dirs, mine, up, channel, estimate, job, pass, threads>>

\* The rename replaces a file of that name, another process's or an earlier write's.
Rename(p) ==
    LET e == job[p] IN
    /\ wpc[p] = "rename"
    /\ \/ /\ file[e][p] # "none"
          /\ file' = [file EXCEPT ![e] = [@ EXCEPT ![Final] = file[e][p], ![p] = "none"]]
          /\ mine' = [q \in Procs |-> IF q = p THEN mine[q] \cup {e} ELSE mine[q] \ {e}]
          /\ missed' = [missed EXCEPT ![p] = @ \ {e}]
          /\ WriterTo(p, "count")
       \/ WriterTo(p, "clean") /\ UNCHANGED <<file, mine, missed>>
    /\ UNCHANGED <<dirs, up, channel, used, job, pass, threads>>

\* write_entry failed: the temporary file is unlinked.
CleanUp(p) ==
    /\ wpc[p] = "clean"
    /\ Unlink({<<job[p], p>>})
    /\ WriterTo(p, "release")
    /\ UNCHANGED <<dirs, up, channel, estimate, job, pass, threads>>

Count(p) ==
    /\ wpc[p] = "count"
    /\ used' = [used EXCEPT ![p] = @ + Size[job[p]]]
    /\ WriterTo(p, IF Budget > 0 /\ used'[p] > Budget THEN "scan" ELSE "release")
    /\ UNCHANGED <<disk, up, channel, missed, job, pass, threads>>

\* do_decrement, at the end of every job.
Release(p) ==
    /\ wpc[p] = "release"
    /\ inFlight' = [inFlight EXCEPT ![p] = @ - 1]
    /\ job' = [job EXCEPT ![p] = AnyEntry]
    /\ found' = [found EXCEPT ![p] = {}]
    /\ scan' = [scan EXCEPT ![p] = {}]
    /\ sizes' = [sizes EXCEPT ![p] = NoSizes]
    /\ unread' = [unread EXCEPT ![p] = {}]
    /\ WriterTo(p, "recv")
    /\ UNCHANGED <<disk, up, open, queue, estimate, listing, threads>>

-----------------------------------------------------------------------------
(* The writer's evict_to_fit.                                              *)

\* scan_doc_dirs lists the root, or fails: the pass returns early.
ScanRoot(p) ==
    /\ wpc[p] = "scan"
    /\ \/ /\ scan' = [scan EXCEPT ![p] = dirs]
          /\ found' = [found EXCEPT ![p] = dirs]
          /\ WriterTo(p, "size")
       \/ WriterTo(p, "release") /\ UNCHANGED <<scan, found>>
    /\ UNCHANGED <<disk, up, channel, estimate, job, sizes, listing, unread, threads>>

\* Any error but one of dir_total_bytes fails the scan; that one counts the directory as
\* empty, be it gone or not.
CountsNothing(p, d) == unread' = [unread EXCEPT ![p] = @ \cup {d}]

\* The next directory is listed.
ListDir(p) ==
    /\ wpc[p] = "size"
    /\ \E d \in scan[p] :
          \/ /\ d \in dirs
             /\ listing' = [listing EXCEPT ![p] = [dir |-> d, files |-> FilesIn(d)]]
             /\ scan' = [scan EXCEPT ![p] = @ \ {d}]
             /\ WriterTo(p, "stat")
             /\ UNCHANGED unread
          \/ /\ WriterTo(p, "release")
             /\ UNCHANGED <<listing, scan, unread>>
          \/ /\ CountsNothing(p, d)
             /\ scan' = [scan EXCEPT ![p] = @ \ {d}]
             /\ UNCHANGED <<listing, wpc>>
    /\ UNCHANGED <<disk, up, channel, estimate, job, found, sizes, threads>>

Bytes(F) == Total(F, [f \in F |-> Size[f[1]]])
Present(F) == { f \in F : file[f[1]][f[2]] # "none" }
Incomplete(F) == { f \in F : file[f[1]][f[2]] = "part" }

\* dir_total_bytes reads the size of each file listed: it fails if one has gone, and may
\* with all of them there.
StatDir(p) ==
    LET F == listing[p].files IN
    /\ wpc[p] = "stat"
    /\ \/ /\ Present(F) = F
          /\ \E begun \in SUBSET Incomplete(F) :
                sizes' = [sizes EXCEPT ![p][listing[p].dir] = Bytes((F \ Incomplete(F)) \cup begun)]
          /\ UNCHANGED unread
       \/ CountsNothing(p, listing[p].dir) /\ UNCHANGED sizes
    /\ listing' = [listing EXCEPT ![p] = NoListing]
    /\ WriterTo(p, "size")
    /\ UNCHANGED <<disk, up, channel, estimate, job, scan, found, threads>>

\* The counter is set to the sum of the sizes found.
Reconcile(p) ==
    /\ wpc[p] = "size" /\ scan[p] = {}
    /\ used' = [used EXCEPT ![p] = Total(Docs, sizes[p])]
    /\ missed' = [missed EXCEPT ![p] = { e \in mine[p] : DocOf[e] \in unread[p] }]
    /\ WriterTo(p, "evict")
    /\ UNCHANGED <<disk, up, channel, job, pass, threads>>

EvictDone(p) ==
    /\ used[p] <= Budget \/ found[p] = {}
    /\ WriterTo(p, "release")
    /\ UNCHANGED <<disk, used, found>>

Removed(p, d) ==
    /\ d \in dirs
    /\ Unlink(FilesIn(d))
    /\ dirs' = dirs \ {d}
    /\ used' = [used EXCEPT ![p] = @ - sizes[p][d]]
    /\ found' = [found EXCEPT ![p] = @ \ {d}]
    /\ UNCHANGED wpc

\* A directory that could not be removed is counted as gone.
PassedOverCounted(p, d) ==
    /\ \E F \in SUBSET FilesIn(d) : Unlink(F)
    /\ used' = [used EXCEPT ![p] = @ - sizes[p][d]]
    /\ found' = [found EXCEPT ![p] = @ \ {d}]
    /\ UNCHANGED <<dirs, wpc>>

\* A directory that could not be removed starts the pass again.
PassedOverRescans(p, d) ==
    /\ \E F \in SUBSET FilesIn(d) : Unlink(F)
    /\ found' = [found EXCEPT ![p] = @ \ {d}]
    /\ WriterTo(p, "scan")
    /\ UNCHANGED <<dirs, used>>

\* A directory that cannot be removed whole, some of its files gone.
PassedOver(p, d) ==
    /\ \E F \in SUBSET FilesIn(d) : Unlink(F)
    /\ found' = [found EXCEPT ![p] = @ \ {d}]
    /\ UNCHANGED <<dirs, used, wpc>>

\* Directories go until the counter fits, `used` being the pass's own total meanwhile.
Evict(p) ==
    /\ wpc[p] = "evict"
    /\ \/ EvictDone(p)
       \/ used[p] > Budget /\ \E d \in found[p] : Removed(p, d) \/ PassedOver(p, d)
    /\ UNCHANGED <<up, channel, missed, job, scan, sizes, listing, unread, threads>>

-----------------------------------------------------------------------------
(* The life of a process.                                                  *)

\* try_new
Start(p) ==
    /\ up[p] = "down"
    /\ up' = [up EXCEPT ![p] = "up"]
    /\ open' = [open EXCEPT ![p] = TRUE]
    /\ UNCHANGED <<disk, queue, inFlight, writer, threads>>

\* drop: no thread has a use of the tier left; the channel is closed, then the writer joined.
Drop(p) ==
    /\ up[p] = "up"
    /\ \A t \in ThreadsOf(p) : pc[t] = "idle"
    /\ up' = [up EXCEPT ![p] = "dropping"]
    /\ open' = [open EXCEPT ![p] = FALSE]
    /\ UNCHANGED <<disk, queue, inFlight, writer, threads>>

\* The process has ended, in order or not: only the disk is left of it.
End(p) ==
    /\ up' = [up EXCEPT ![p] = "down"]
    /\ open' = [open EXCEPT ![p] = FALSE]
    /\ queue' = [queue EXCEPT ![p] = << >>]
    /\ inFlight' = [inFlight EXCEPT ![p] = 0]
    /\ used' = [used EXCEPT ![p] = 0]
    /\ WriterTo(p, "recv")
    /\ job' = [job EXCEPT ![p] = AnyEntry]
    /\ scan' = [scan EXCEPT ![p] = {}]
    /\ found' = [found EXCEPT ![p] = {}]
    /\ sizes' = [sizes EXCEPT ![p] = NoSizes]
    /\ listing' = [listing EXCEPT ![p] = NoListing]
    /\ pc' = [t \in Threads |-> IF ProcOf[t] = p THEN "idle" ELSE pc[t]]
    /\ want' = [t \in Threads |-> IF ProcOf[t] = p THEN AnyEntry ELSE want[t]]
    /\ mine' = [mine EXCEPT ![p] = {}]
    /\ unread' = [unread EXCEPT ![p] = {}]
    /\ missed' = [missed EXCEPT ![p] = {}]
    /\ UNCHANGED <<file, dirs>>

\* The writer drains the channel, returns, and the join with it.
Joined(p) ==
    /\ up[p] = "dropping"
    /\ wpc[p] = "recv" /\ queue[p] = << >> /\ ~open[p]
    /\ End(p)

Crash(p) == p \in Killable /\ up[p] # "down" /\ End(p)

-----------------------------------------------------------------------------
WriterStep(p) ==
    \/ Take(p) \/ MakeDir(p) \/ CreateTmp(p) \/ Fill(p) \/ Rename(p) \/ CleanUp(p)
    \/ Count(p) \/ Release(p) \/ Joined(p)
    \/ ScanRoot(p) \/ ListDir(p) \/ StatDir(p) \/ Reconcile(p) \/ Evict(p)

ThreadStep(t) == Add(t) \/ Send(t) \/ Undo(t) \/ RemoveBad(t)

Next ==
    \/ \E p \in Procs : WriterStep(p) \/ Start(p) \/ Drop(p) \/ Crash(p)
    \/ \E t \in Threads :
          \/ ThreadStep(t)
          \/ \E e \in Entries : Insert(t, e) \/ Lookup(t, e)

Spec == Init /\ [][Next]_vars

\* The writer thread runs; nothing it waits for but the channel, which render threads and
\* drop alone feed and close.
FairSpec == Spec /\ \A p \in Procs : WF_vars(WriterStep(p))
-----------------------------------------------------------------------------
DiskTypes ==
    /\ file \in [Entries -> [Names -> {"none", "part", "whole", "bad"}]]
    /\ dirs \subseteq Docs
    /\ mine \in [Procs -> SUBSET Entries]

WriterTypes ==
    /\ up \in [Procs -> {"up", "dropping", "down"}]
    /\ open \in [Procs -> BOOLEAN]
    /\ queue \in [Procs -> Seq(Entries)]
    /\ inFlight \in [Procs -> Nat] /\ used \in [Procs -> Nat]
    /\ wpc \in [Procs -> {"recv", "mkdir", "create", "fill", "rename", "clean", "count", "release",
                         "scan", "size", "stat", "evict"}]
    /\ job \in [Procs -> Entries]
    /\ scan \in [Procs -> SUBSET Docs] /\ found \in [Procs -> SUBSET Docs]
    /\ sizes \in [Procs -> [Docs -> Nat]]
    /\ listing \in [Procs -> [dir : Docs, files : SUBSET (Entries \X Names)]]
    /\ unread \in [Procs -> SUBSET Docs] /\ missed \in [Procs -> SUBSET Entries]

\* The types of the variables; the unsigned in_flight and used_estimate never underflow.
TypeOK ==
    /\ DiskTypes /\ WriterTypes
    /\ pc \in [Threads -> {"idle", "add", "send", "undo", "remove"}]
    /\ want \in [Threads -> Entries]

\* in_flight is the writes queued, the one the writer has, and those a thread is about to
\* send or give up: whatever step of a write fails, its slot comes back, so the saturation
\* test of insert does not end up dropping every write.
InFlightExact ==
    /\ TypeOK
    /\ \A p \in Procs :
        inFlight[p] = Len(queue[p]) + (IF wpc[p] = "recv" THEN 0 ELSE 1)
                        + Cardinality({ t \in ThreadsOf(p) : pc[t] \in {"send", "undo"} })

\* The file lookups open never holds an entry in part: not while it is being written, nor
\* after its writer is killed, nor with several processes writing the one entry.
NoEntryTorn == \A e \in Entries : file[e][Final] # "part"

\* write_entry leaves no temporary file behind on any error path: one that is there is being
\* written by its owner, unless the owner may have been killed.
NoTempLeft ==
    \A p \in Procs \ Killable, e \in Entries :
        file[e][p] # "none" => job[p] = e /\ wpc[p] \in {"fill", "rename", "clean"}

\* used_estimate covers what the process has itself written and is still there (WriterState:
\* "Bytes written by *this process* since startup"), but for what its last reconciliation left
\* out, counting a directory it met an error in as empty: were it less, a write that passes the
\* budget would start no eviction.  So it is with passes that fail half-way, directories
\* that stay, other processes that replace or evict its files, lookups that remove them.
EstimateCovers ==
    \A p \in Procs :
        wpc[p] # "count" => used[p] >= Total(mine[p] \ missed[p], Size)

\* The writes that were queued are made before drop returns, and it does return.
DropReturns == \A p \in Procs : up[p] = "dropping" ~> up[p] = "down"
=============================================================================
