--------------------------- MODULE DiskTierProofs ---------------------------
(* Theorems about DiskTier, for any processes, threads, entries and limits,*)
(* with any of the processes killed at any step: the queue's slots are     *)
(* exactly accounted for, no lookup finds half an entry, no error path     *)
(* leaves a temporary file behind, and the estimate of a process alone     *)
(* with its directory covers what it wrote there.                          *)
EXTENDS DiskTier, TotalsTheorems, SequenceTheorems

-----------------------------------------------------------------------------
(* The threads of a process that hold a slot and have not sent             *)

Labels == {"idle", "add", "send", "undo", "remove"}
Holding == {"send", "undo"}
Senders(at, p) == { t \in ThreadsOf(p) : at[t] \in Holding }

\* They are finitely many.
LEMMA SendersFinite ==
  ASSUME NEW at, NEW p \in Procs
  PROVE  IsFiniteSet(Senders(at, p)) /\ Cardinality(Senders(at, p)) \in Nat
<1>1. Senders(at, p) \subseteq Threads
  BY DEF Senders, ThreadsOf
<1> QED BY <1>1, ThreadsFinite, FS_Subset, FS_CardinalityType

\* One thread's step changes the count of its own process by what it does.
LEMMA SendersMove ==
  ASSUME NEW at \in [Threads -> Labels], NEW t \in Threads, NEW l \in Labels,
         NEW p \in Procs
  PROVE  LET new == Senders([at EXCEPT ![t] = l], p)
             old == Senders(at, p)
         IN  /\ \/ p # ProcOf[t]
                \/ at[t] \in Holding /\ l \in Holding
                \/ at[t] \notin Holding /\ l \notin Holding
                => new = old
             /\ p = ProcOf[t] /\ at[t] \notin Holding /\ l \in Holding
                => Cardinality(new) = Cardinality(old) + 1
             /\ p = ProcOf[t] /\ at[t] \in Holding /\ l \notin Holding
                => Cardinality(new) = Cardinality(old) - 1
<1> DEFINE new == Senders([at EXCEPT ![t] = l], p)
           old == Senders(at, p)
<1>1. IsFiniteSet(old) /\ Cardinality(old) \in Nat
  BY SendersFinite
<1>2. ASSUME \/ p # ProcOf[t]
             \/ at[t] \in Holding /\ l \in Holding
             \/ at[t] \notin Holding /\ l \notin Holding
      PROVE  new = old
  BY <1>2 DEF Senders, ThreadsOf
<1>3. ASSUME p = ProcOf[t], at[t] \notin Holding, l \in Holding
      PROVE  Cardinality(new) = Cardinality(old) + 1
  <2>1. new = old \cup {t} /\ t \notin old
    BY <1>3 DEF Senders, ThreadsOf
  <2> HIDE DEF new, old
  <2> QED BY <1>1, <2>1, FS_AddElement
<1>4. ASSUME p = ProcOf[t], at[t] \in Holding, l \notin Holding
      PROVE  Cardinality(new) = Cardinality(old) - 1
  <2>1. new = old \ {t} /\ t \in old
    BY <1>4 DEF Senders, ThreadsOf
  <2> HIDE DEF new, old
  <2> QED BY <1>1, <2>1, FS_RemoveElement
<1> QED BY <1>2, <1>3, <1>4

-----------------------------------------------------------------------------
(* The inductive invariant                                                 *)

\* The types, the two counters being integers so far.
Types ==
  /\ DiskTypes
  /\ up \in [Procs -> {"up", "dropping", "down"}]
  /\ open \in [Procs -> BOOLEAN]
  /\ queue \in [Procs -> Seq(Entries)]
  /\ inFlight \in [Procs -> Int] /\ used \in [Procs -> Int]
  /\ wpc \in [Procs -> {"recv", "mkdir", "create", "fill", "rename", "clean", "count", "release",
                       "scan", "size", "stat", "evict"}]
  /\ job \in [Procs -> Entries]
  /\ scan \in [Procs -> SUBSET Docs] /\ found \in [Procs -> SUBSET Docs]
  /\ sizes \in [Procs -> [Docs -> Nat]]
  /\ listing \in [Procs -> [dir : Docs, files : SUBSET (Entries \X Names)]]
  /\ unread \in [Procs -> SUBSET Docs] /\ missed \in [Procs -> SUBSET Entries]
  /\ pc \in [Threads -> Labels]
  /\ want \in [Threads -> Entries]

\* The slots of one process.
InHand(label) == IF label = "recv" THEN 0 ELSE 1
Exact(n, q, label, senders) == n = Len(q) + InHand(label) + Cardinality(senders)

SlotsInv ==
  \A p \in Procs : Exact(inFlight[p], queue[p], wpc[p], Senders(pc, p))

\* While a pass evicts, the counter is still the sum over what it may evict.
UsedInv ==
  \A p \in Procs :
    /\ used[p] >= 0
    /\ wpc[p] = "evict" => used[p] >= Total(found[p], sizes[p])

\* What is renamed has been filled.
FilesInv ==
  /\ NoEntryTorn
  /\ NoTempLeft
  /\ \A p \in Procs : wpc[p] = "rename" => file[job[p]][p] # "part"

IInv == Types /\ SlotsInv /\ UsedInv /\ FilesInv

-----------------------------------------------------------------------------
(* Types                                                                   *)

\* The values that stand for none.
LEMMA Defaults ==
  /\ AnyEntry \in Entries
  /\ NoListing \in [dir : Docs, files : SUBSET (Entries \X Names)]
  /\ NoSizes \in [Docs -> Nat]
<1>1. AnyEntry \in Entries
  BY EntriesFinite DEF AnyEntry
<1>2. DocOf[AnyEntry] \in Docs
  BY <1>1, DocOfType
<1>3. (CHOOSE d \in Docs : TRUE) \in Docs
  BY <1>2
<1> QED BY <1>1, <1>3 DEF NoListing, NoSizes

\* Unlinking files keeps the types of the disk.
LEMMA UnlinkTypes ==
  ASSUME DiskTypes, NEW F, Unlink(F), dirs' \subseteq Docs
  PROVE  DiskTypes'
BY DEF Unlink, DiskTypes

\* A scan's sum of file sizes is a natural number.
LEMMA BytesType ==
  ASSUME NEW F, F \subseteq Entries \X Names
  PROVE  Bytes(F) \in Nat
<1>1. IsFiniteSet(Names)
  BY ProcsFinite, FS_AddElement DEF Names
<1>2. IsFiniteSet(F)
  BY <1>1, EntriesFinite, FS_Product, FS_Subset
<1> DEFINE w == [f \in F |-> Size[f[1]]]
<1>3. \A f \in F : w[f] \in Nat
  BY SizeType
<1> HIDE DEF w
<1>4. Total(F, w) \in Nat
  BY <1>2, <1>3, TotalType
<1> QED BY <1>4 DEF Bytes, w

\* The steps of a render thread.
LEMMA ThreadTypes ==
  ASSUME Types, NEW t \in Threads,
         \/ ThreadStep(t)
         \/ \E e \in Entries : Insert(t, e) \/ Lookup(t, e)
  PROVE  Types'
<1>0. ProcOf[t] \in Procs /\ AnyEntry \in Entries
  BY ProcOfType, Defaults
<1>1. ASSUME NEW e \in Entries, Insert(t, e) \/ Lookup(t, e)
      PROVE  Types'
  <2>1. /\ pc' \in [Threads -> Labels] /\ want' \in [Threads -> Entries]
        /\ UNCHANGED <<disk, up, channel, writer>>
    BY <1>1 DEF Insert, Lookup, Goto, Types, Labels
  <2> QED BY <2>1 DEF Types, DiskTypes, disk, channel, writer, estimate, pass
<1>2. CASE Add(t)
  BY <1>0, <1>2 DEF Add, Goto, Types, DiskTypes, Labels, disk, channel, writer, estimate, pass
<1>3. CASE Send(t)
  <2>1. queue' \in [Procs -> Seq(Entries)]
    <3>1. CASE UNCHANGED queue
      BY <3>1 DEF Types
    <3>2. CASE queue' = [queue EXCEPT ![ProcOf[t]] = Append(@, want[t])]
      <4>1. Append(queue[ProcOf[t]], want[t]) \in Seq(Entries)
        BY <1>0, AppendProperties DEF Types
      <4> QED BY <1>0, <3>2, <4>1 DEF Types
    <3> QED BY <1>3, <3>1, <3>2 DEF Send
  <2>2. pc' \in [Threads -> Labels] /\ want' \in [Threads -> Entries]
    <3>1. CASE Return(t)
      BY <1>0, <3>1 DEF Return, Goto, Types, Labels
    <3>2. CASE Goto(t, "undo") /\ UNCHANGED want
      BY <3>2 DEF Goto, Types, Labels
    <3> QED BY <1>3, <3>1, <3>2 DEF Send
  <2> QED
    BY <1>3, <2>1, <2>2 DEF Send, Types, DiskTypes, disk, writer, estimate, pass
<1>4. CASE Undo(t)
  BY <1>0, <1>4 DEF Undo, Return, Goto, Types, DiskTypes, Labels, disk, writer, estimate, pass
<1>5. CASE RemoveBad(t)
  <2>1. DiskTypes'
    BY <1>5, UnlinkTypes DEF RemoveBad, Types, DiskTypes
  <2> QED
    BY <1>0, <1>5, <2>1 DEF RemoveBad, Return, Goto, Types, Labels, channel, writer, estimate, pass
<1> QED BY <1>1, <1>2, <1>3, <1>4, <1>5 DEF ThreadStep

\* The steps of a writer that write an entry.
LEMMA WriteTypes ==
  ASSUME Types, NEW p \in Procs,
         \/ Take(p) \/ MakeDir(p) \/ CreateTmp(p) \/ Fill(p) \/ Rename(p) \/ CleanUp(p)
         \/ Count(p) \/ Release(p)
  PROVE  Types'
<1>0. p \in Names /\ Final \in Names /\ AnyEntry \in Entries /\ NoSizes \in [Docs -> Nat]
  BY Defaults DEF Names
<1>1. CASE Take(p)
  <2>1. queue' \in [Procs -> Seq(Entries)] /\ job' \in [Procs -> Entries]
    BY <1>1, HeadTailProperties DEF Take, Types
  <2> QED
    BY <1>1, <2>1 DEF Take, WriterTo, Types, DiskTypes, disk, estimate, pass, threads
<1>2. CASE MakeDir(p)
  <2>1. DiskTypes'
    BY <1>2, DocOfType DEF MakeDir, Types, DiskTypes
  <2>2. wpc' \in [Procs -> {"recv", "mkdir", "create", "fill", "rename", "clean", "count",
                            "release", "scan", "size", "stat", "evict"}]
    BY <1>2 DEF MakeDir, WriterTo, Types
  <2> QED
    BY <1>2, <2>1, <2>2 DEF MakeDir, Types, channel, estimate, pass, threads
<1>3. CASE CreateTmp(p) \/ Fill(p)
  <2>1. file' = file \/ \E c \in {"part", "whole"} : Write(p, p, c)
    BY <1>3 DEF CreateTmp, Fill
  <2>2. file' \in [Entries -> [Names -> {"none", "part", "whole", "bad"}]]
    <3>1. CASE file' = file
      BY <3>1 DEF Types, DiskTypes
    <3>2. ASSUME NEW c \in {"part", "whole"}, Write(p, p, c)
          PROVE  file' \in [Entries -> [Names -> {"none", "part", "whole", "bad"}]]
      <4>1. job[p] \in Entries /\ file[job[p]] \in [Names -> {"none", "part", "whole", "bad"}]
        BY DEF Types, DiskTypes
      <4> QED BY <1>0, <3>2, <4>1 DEF Write, Types, DiskTypes
    <3> QED BY <2>1, <3>1, <3>2
  <2>3. wpc' \in [Procs -> {"recv", "mkdir", "create", "fill", "rename", "clean", "count",
                            "release", "scan", "size", "stat", "evict"}]
    BY <1>3 DEF CreateTmp, Fill, WriterTo, Types
  <2> QED
    BY <1>3, <2>2, <2>3 DEF CreateTmp, Fill, Types, DiskTypes, channel, estimate, pass, threads
<1>4. CASE Rename(p)
  <2>1. DiskTypes'
    <3>1. CASE UNCHANGED <<file, mine>>
      BY <1>4, <3>1 DEF Rename, Types, DiskTypes
    <3>2. CASE /\ file' = [file EXCEPT ![job[p]] =
                               [@ EXCEPT ![Final] = file[job[p]][p], ![p] = "none"]]
               /\ mine' = [q \in Procs |-> IF q = p THEN mine[q] \cup {job[p]}
                                                   ELSE mine[q] \ {job[p]}]
      <4>1. /\ job[p] \in Entries
            /\ file[job[p]] \in [Names -> {"none", "part", "whole", "bad"}]
        BY DEF Types, DiskTypes
      <4>2. file' \in [Entries -> [Names -> {"none", "part", "whole", "bad"}]]
        BY <1>0, <3>2, <4>1 DEF Types, DiskTypes
      <4>3. mine' \in [Procs -> SUBSET Entries]
        BY <3>2, <4>1 DEF Types, DiskTypes
      <4> QED BY <1>4, <4>2, <4>3 DEF Rename, Types, DiskTypes
    <3> QED BY <1>4, <3>1, <3>2 DEF Rename
  <2>2. wpc' \in [Procs -> {"recv", "mkdir", "create", "fill", "rename", "clean", "count",
                            "release", "scan", "size", "stat", "evict"}]
    BY <1>4 DEF Rename, WriterTo, Types
  <2>3. missed' \in [Procs -> SUBSET Entries]
    <3>1. missed \in [Procs -> SUBSET Entries] /\ missed[p] \ {job[p]} \in SUBSET Entries
      BY DEF Types
    <3>2. UNCHANGED missed \/ missed' = [missed EXCEPT ![p] = missed[p] \ {job[p]}]
      BY <1>4 DEF Rename
    <3> QED BY <3>1, <3>2
  <2> QED
    BY <1>4, <2>1, <2>2, <2>3 DEF Rename, Types, channel, pass, threads
<1>5. CASE CleanUp(p)
  <2>1. DiskTypes'
    BY <1>5, UnlinkTypes DEF CleanUp, Types, DiskTypes
  <2> QED
    BY <1>5, <2>1 DEF CleanUp, WriterTo, Types, channel, estimate, pass, threads
<1>6. CASE Count(p)
  <2>1. used' \in [Procs -> Int]
    BY <1>6, SizeType DEF Count, Types
  <2>2. wpc' \in [Procs -> {"recv", "mkdir", "create", "fill", "rename", "clean", "count",
                            "release", "scan", "size", "stat", "evict"}]
    BY <1>6 DEF Count, WriterTo, Types
  <2> QED
    BY <1>6, <2>1, <2>2 DEF Count, Types, DiskTypes, disk, channel, estimate, pass, threads
<1>7. CASE Release(p)
  BY <1>0, <1>7 DEF Release, WriterTo, Types, DiskTypes, disk, estimate, threads
<1> QED BY <1>1, <1>2, <1>3, <1>4, <1>5, <1>6, <1>7

\* The steps of a writer that evicts.
LEMMA EvictTypes ==
  ASSUME Types, NEW p \in Procs,
         ScanRoot(p) \/ ListDir(p) \/ StatDir(p) \/ Reconcile(p) \/ Evict(p)
  PROVE  Types'
<1>0. NoListing \in [dir : Docs, files : SUBSET (Entries \X Names)]
  BY Defaults
<1>1. CASE ScanRoot(p)
  BY <1>1 DEF ScanRoot, WriterTo, Types, DiskTypes, disk, channel, estimate, threads
<1>2. CASE ListDir(p)
  <2>1. PICK d \in scan[p] :
          \/ /\ listing' = [listing EXCEPT ![p] = [dir |-> d, files |-> FilesIn(d)]]
             /\ scan' = [scan EXCEPT ![p] = @ \ {d}]
             /\ WriterTo(p, "stat")
             /\ UNCHANGED unread
          \/ /\ WriterTo(p, "release")
             /\ UNCHANGED <<listing, scan, unread>>
          \/ /\ CountsNothing(p, d)
             /\ scan' = [scan EXCEPT ![p] = @ \ {d}]
             /\ UNCHANGED <<listing, wpc>>
    BY <1>2 DEF ListDir
  <2>2. d \in Docs /\ FilesIn(d) \subseteq Entries \X Names
    BY <2>1 DEF Types, FilesIn
  <2>3. /\ listing' \in [Procs -> [dir : Docs, files : SUBSET (Entries \X Names)]]
        /\ scan' \in [Procs -> SUBSET Docs] /\ unread' \in [Procs -> SUBSET Docs]
    <3>1. [dir |-> d, files |-> FilesIn(d)] \in [dir : Docs, files : SUBSET (Entries \X Names)]
      BY <2>2
    <3>2. listing' = listing
          \/ listing' = [listing EXCEPT ![p] = [dir |-> d, files |-> FilesIn(d)]]
      BY <2>1
    <3>3. scan' = scan \/ scan' = [scan EXCEPT ![p] = @ \ {d}]
      BY <2>1
    <3>4. listing' \in [Procs -> [dir : Docs, files : SUBSET (Entries \X Names)]]
      BY <3>1, <3>2 DEF Types
    <3>5. scan' \in [Procs -> SUBSET Docs]
      <4>1. scan \in [Procs -> SUBSET Docs] /\ scan[p] \ {d} \in SUBSET Docs
        BY DEF Types
      <4> QED BY <3>3, <4>1
    <3>6. unread' \in [Procs -> SUBSET Docs]
      BY <2>1, <2>2 DEF CountsNothing, Types
    <3> QED BY <3>4, <3>5, <3>6
  <2>4. wpc' \in [Procs -> {"recv", "mkdir", "create", "fill", "rename", "clean", "count",
                            "release", "scan", "size", "stat", "evict"}]
    BY <2>1 DEF Types, WriterTo
  <2> QED
    BY <1>2, <2>3, <2>4 DEF ListDir, Types, DiskTypes, disk, channel, estimate, threads
<1>3. CASE StatDir(p)
  <2>1. listing[p].dir \in Docs /\ listing[p].files \subseteq Entries \X Names
    BY DEF Types
  <2>2. sizes' \in [Procs -> [Docs -> Nat]]
    <3>1. CASE UNCHANGED sizes
      BY <3>1 DEF Types
    <3>2. ASSUME NEW begun \in SUBSET Incomplete(listing[p].files),
                 sizes' = [sizes EXCEPT ![p][listing[p].dir] =
                    Bytes((listing[p].files \ Incomplete(listing[p].files)) \cup begun)]
          PROVE  sizes' \in [Procs -> [Docs -> Nat]]
      <4>1. (listing[p].files \ Incomplete(listing[p].files)) \cup begun
              \subseteq Entries \X Names
        BY <2>1 DEF Incomplete
      <4>2. Bytes((listing[p].files \ Incomplete(listing[p].files)) \cup begun) \in Nat
        BY <4>1, BytesType
      <4> QED BY <2>1, <3>2, <4>2 DEF Types
    <3> QED BY <1>3, <3>1, <3>2 DEF StatDir
  <2>3. unread' \in [Procs -> SUBSET Docs]
    <3>1. UNCHANGED unread \/ CountsNothing(p, listing[p].dir)
      BY <1>3 DEF StatDir
    <3>2. unread \in [Procs -> SUBSET Docs] /\ unread[p] \cup {listing[p].dir} \in SUBSET Docs
      BY <2>1 DEF Types
    <3> QED BY <3>1, <3>2 DEF CountsNothing
  <2> QED
    BY <1>0, <1>3, <2>2, <2>3 DEF StatDir, WriterTo, Types, DiskTypes, disk, channel, estimate, threads
<1>4. CASE Reconcile(p)
  <2>1. Total(Docs, sizes[p]) \in Nat
    BY DocsFinite, TotalType DEF Types
  <2>2. missed' \in [Procs -> SUBSET Entries]
    BY <1>4 DEF Reconcile, Types, DiskTypes
  <2> QED
    BY <1>4, <2>1, <2>2 DEF Reconcile, WriterTo, Types, DiskTypes, disk, channel, estimate, pass, threads
<1>5. CASE Evict(p)
  <2>1. CASE EvictDone(p)
    BY <1>5, <2>1 DEF Evict, EvictDone, WriterTo, Types, DiskTypes, disk, channel, estimate, threads
  <2>2. ASSUME NEW d \in found[p], Removed(p, d) \/ PassedOver(p, d)
        PROVE  Types'
    <3>1. DiskTypes'
      <4>1. PICK F : Unlink(F) /\ dirs' \subseteq dirs
        BY <2>2 DEF Removed, PassedOver
      <4> QED BY <4>1, UnlinkTypes DEF Types, DiskTypes
    <3>2. used' \in [Procs -> Int] /\ found' \in [Procs -> SUBSET Docs] /\ wpc' = wpc
      <4>1. used[p] \in Int /\ sizes[p][d] \in Nat /\ d \in Docs
        BY DEF Types
      <4>2. used' = used \/ used' = [used EXCEPT ![p] = @ - sizes[p][d]]
        BY <2>2 DEF Removed, PassedOver
      <4>3. used' \in [Procs -> Int]
        BY <4>1, <4>2 DEF Types
      <4>4. found' = [found EXCEPT ![p] = @ \ {d}] /\ wpc' = wpc
        BY <2>2 DEF Removed, PassedOver
      <4>5. found' \in [Procs -> SUBSET Docs]
        BY <4>4 DEF Types
      <4> QED BY <4>3, <4>4, <4>5
    <3> QED
      BY <1>5, <3>1, <3>2 DEF Evict, Types, channel, threads
  <2> QED BY <1>5, <2>1, <2>2 DEF Evict
<1> QED BY <1>1, <1>2, <1>3, <1>4, <1>5

\* The life of a process.
LEMMA ProcTypes ==
  ASSUME Types, NEW p \in Procs, Start(p) \/ Drop(p) \/ Joined(p) \/ Crash(p)
  PROVE  Types'
<1>1. CASE Start(p) \/ Drop(p)
  BY <1>1 DEF Start, Drop, Types, DiskTypes, disk, writer, estimate, estimate, pass, threads
<1>2. CASE End(p)
  <2>1. pc' \in [Threads -> Labels] /\ want' \in [Threads -> Entries]
    BY <1>2, Defaults DEF End, Types, Labels
  <2>2. queue' \in [Procs -> Seq(Entries)]
    BY <1>2, EmptySeq DEF End, Types
  <2>3. DiskTypes' /\ job' \in [Procs -> Entries] /\ sizes' \in [Procs -> [Docs -> Nat]]
        /\ listing' \in [Procs -> [dir : Docs, files : SUBSET (Entries \X Names)]]
    BY <1>2, Defaults DEF End, Types, DiskTypes
  <2> QED
    BY <1>2, <2>1, <2>2, <2>3 DEF End, WriterTo, Types
<1> QED BY <1>1, <1>2 DEF Joined, Crash

-----------------------------------------------------------------------------
(* Slots                                                                   *)

\* The steps of a writer in the middle of a job.
MidJob(p) ==
  \/ MakeDir(p) \/ CreateTmp(p) \/ Fill(p) \/ Rename(p) \/ CleanUp(p) \/ Count(p)
  \/ ScanRoot(p) \/ ListDir(p) \/ StatDir(p) \/ Reconcile(p) \/ Evict(p)

\* They keep the job in hand, and touch no slot.
LEMMA MidJobKeeps ==
  ASSUME Types, NEW p \in Procs, MidJob(p)
  PROVE  /\ UNCHANGED <<inFlight, queue, pc>>
         /\ \A q \in Procs : InHand(wpc'[q]) = InHand(wpc[q])
         /\ \A q \in Procs \ {p} : wpc'[q] = wpc[q]
         /\ wpc[p] # "recv" /\ wpc'[p] # "recv"
<1>1. UNCHANGED <<inFlight, queue, pc>> /\ wpc[p] # "recv"
  BY DEF MidJob, MakeDir, CreateTmp, Fill, Rename, CleanUp, Count, ScanRoot,
         ListDir, StatDir, Reconcile, Evict, EvictDone, Removed, PassedOver,
         channel, threads
<1>2. wpc' = wpc \/ \E l \in {"create", "fill", "rename", "clean", "count", "release",
                               "scan", "size", "stat", "evict"} : WriterTo(p, l)
  BY DEF MidJob, MakeDir, CreateTmp, Fill, Rename, CleanUp, Count, ScanRoot,
         ListDir, StatDir, Reconcile, Evict, EvictDone, Removed, PassedOver
<1>3. CASE wpc' = wpc
  BY <1>1, <1>3
<1>4. ASSUME NEW l \in {"create", "fill", "rename", "clean", "count", "release",
                        "scan", "size", "stat", "evict"}, WriterTo(p, l)
      PROVE  /\ \A q \in Procs : InHand(wpc'[q]) = InHand(wpc[q])
             /\ \A q \in Procs \ {p} : wpc'[q] = wpc[q]
             /\ wpc'[p] # "recv"
  BY <1>1, <1>4 DEF WriterTo, Types, InHand
<1> QED BY <1>1, <1>2, <1>3, <1>4

\* The next step that moves a slot, of a writer, of a thread, or the end of a process.
LEMMA SlotsStep ==
  ASSUME Types, SlotsInv, Next
  PROVE  SlotsInv'
<1>0. /\ \A q \in Procs : queue[q] \in Seq(Entries) /\ Len(queue[q]) \in Nat
      /\ \A q \in Procs : Cardinality(Senders(pc, q)) \in Nat
      /\ pc \in [Threads -> Labels]
      /\ inFlight \in [Procs -> Int]
      /\ \A q \in Procs : InHand(wpc[q]) \in Nat
  BY SendersFinite, LenProperties DEF Types, InHand
<1>1. ASSUME NEW p \in Procs, MidJob(p)
      PROVE  SlotsInv'
  BY <1>1, MidJobKeeps DEF SlotsInv, Exact, Senders, ThreadsOf
<1>2. ASSUME NEW p \in Procs, Take(p)
      PROVE  SlotsInv'
  <2>1. Len(Tail(queue[p])) = Len(queue[p]) - 1
    BY <1>0, <1>2, HeadTailProperties, EmptySeq DEF Take
  <2>2. /\ UNCHANGED <<inFlight, pc>> /\ wpc[p] = "recv"
        /\ queue' = [queue EXCEPT ![p] = Tail(queue[p])]
        /\ wpc' = [wpc EXCEPT ![p] = "mkdir"]
    BY <1>2 DEF Take, WriterTo, threads
  <2>3. ASSUME NEW q \in Procs
        PROVE  Exact(inFlight[q], queue'[q], wpc'[q], Senders(pc, q))
    <3>1. CASE q # p
      <4>1. queue'[q] = queue[q] /\ wpc'[q] = wpc[q]
        BY <2>2, <3>1 DEF Types
      <4> QED BY <4>1 DEF SlotsInv
    <3>2. CASE q = p
      <4>1. Len(queue'[q]) = Len(queue[q]) - 1 /\ InHand(wpc'[q]) = 1 /\ InHand(wpc[q]) = 0
        BY <2>1, <2>2, <3>2 DEF Types, InHand
      <4>2. Exact(inFlight[q], queue[q], wpc[q], Senders(pc, q))
        BY DEF SlotsInv
      <4> QED BY <1>0, <4>1, <4>2 DEF Exact
    <3> QED BY <3>1, <3>2
  <2> QED BY <2>2, <2>3 DEF SlotsInv, Senders, ThreadsOf
<1>3. ASSUME NEW p \in Procs, Release(p)
      PROVE  SlotsInv'
  <2>1. /\ UNCHANGED <<queue, pc>> /\ wpc[p] = "release"
        /\ inFlight' = [inFlight EXCEPT ![p] = inFlight[p] - 1]
        /\ wpc' = [wpc EXCEPT ![p] = "recv"]
    BY <1>3 DEF Release, WriterTo, threads
  <2>2. ASSUME NEW q \in Procs
        PROVE  Exact(inFlight'[q], queue[q], wpc'[q], Senders(pc, q))
    BY <1>0, <2>1 DEF SlotsInv, Exact, InHand, Types
  <2> QED BY <2>1, <2>2 DEF SlotsInv, Senders, ThreadsOf
<1>4. ASSUME NEW p \in Procs, End(p)
      PROVE  SlotsInv'
  <2>1. ASSUME NEW q \in Procs \ {p}
        PROVE  Exact(inFlight'[q], queue'[q], wpc'[q], Senders(pc', q))
    <3>1. Senders(pc', q) = Senders(pc, q)
      BY <1>4 DEF End, Senders, ThreadsOf
    <3>2. inFlight'[q] = inFlight[q] /\ queue'[q] = queue[q] /\ wpc'[q] = wpc[q]
      BY <1>4 DEF End, WriterTo, Types
    <3> QED BY <3>1, <3>2 DEF SlotsInv
  <2>2. Exact(inFlight'[p], queue'[p], wpc'[p], Senders(pc', p))
    <3>1. Senders(pc', p) = {}
      BY <1>4 DEF End, Senders, ThreadsOf, Holding
    <3>2. inFlight'[p] = 0 /\ queue'[p] = <<>> /\ wpc'[p] = "recv"
      BY <1>4 DEF End, WriterTo, Types
    <3>3. Len(<<>>) = 0 /\ Cardinality({}) = 0
      BY EmptySeq, FS_EmptySet
    <3> QED BY <3>1, <3>2, <3>3 DEF Exact, InHand
  <2> QED BY <2>1, <2>2 DEF SlotsInv, Senders, ThreadsOf
<1>5. ASSUME NEW p \in Procs, Start(p) \/ Drop(p)
      PROVE  SlotsInv'
  <2>1. UNCHANGED <<inFlight, queue, wpc, pc>>
    BY <1>5 DEF Start, Drop, writer, threads
  <2> QED BY <2>1 DEF SlotsInv, Senders, ThreadsOf
<1>6. ASSUME NEW t \in Threads, Add(t)
      PROVE  SlotsInv'
  <2>1. /\ UNCHANGED <<queue, wpc>> /\ pc[t] = "add" /\ pc' = [pc EXCEPT ![t] = "send"]
        /\ inFlight' = [inFlight EXCEPT ![ProcOf[t]] = inFlight[ProcOf[t]] + 1]
    BY <1>6 DEF Add, Goto, writer
  <2>2. ASSUME NEW q \in Procs
        PROVE  Exact(inFlight'[q], queue[q], wpc[q], Senders(pc', q))
    <3>1. /\ q # ProcOf[t] => Senders(pc', q) = Senders(pc, q)
          /\ q = ProcOf[t] => Cardinality(Senders(pc', q)) = Cardinality(Senders(pc, q)) + 1
      BY <1>0, <2>1, SendersMove DEF Labels, Holding
    <3>2. /\ q # ProcOf[t] => inFlight'[q] = inFlight[q]
          /\ q = ProcOf[t] => inFlight'[q] = inFlight[q] + 1
      BY <1>0, <2>1
    <3>3. Exact(inFlight[q], queue[q], wpc[q], Senders(pc, q))
      BY DEF SlotsInv
    <3> QED BY <1>0, <3>1, <3>2, <3>3 DEF Exact
  <2> QED BY <2>1, <2>2 DEF SlotsInv, Senders, ThreadsOf
<1>7. ASSUME NEW t \in Threads, Send(t)
      PROVE  SlotsInv'
  <2> DEFINE longer == Append(queue[ProcOf[t]], want[t])
  <2>1. ProcOf[t] \in Procs
    BY ProcOfType
  <2>2. /\ UNCHANGED <<inFlight, wpc>> /\ pc[t] = "send"
        /\ \/ /\ queue' = [queue EXCEPT ![ProcOf[t]] = longer]
              /\ pc' = [pc EXCEPT ![t] = "idle"]
           \/ queue' = queue /\ pc' = [pc EXCEPT ![t] = "undo"]
    BY <1>7 DEF Send, Return, Goto, writer
  <2>3. Len(longer) = Len(queue[ProcOf[t]]) + 1
    BY <1>0, <2>1, AppendProperties DEF Types
  <2>4. ASSUME NEW q \in Procs
        PROVE  Exact(inFlight[q], queue'[q], wpc[q], Senders(pc', q))
    <3>1. CASE queue' = queue /\ pc' = [pc EXCEPT ![t] = "undo"]
      <4>1. Senders(pc', q) = Senders(pc, q)
        BY <1>0, <2>2, <3>1, SendersMove DEF Labels, Holding
      <4> QED BY <3>1, <4>1 DEF SlotsInv
    <3>2. CASE /\ queue' = [queue EXCEPT ![ProcOf[t]] = longer]
               /\ pc' = [pc EXCEPT ![t] = "idle"]
      <4>1. /\ q # ProcOf[t] => Senders(pc', q) = Senders(pc, q)
            /\ q = ProcOf[t] => Cardinality(Senders(pc', q)) = Cardinality(Senders(pc, q)) - 1
        BY <1>0, <2>2, <3>2, SendersMove DEF Labels, Holding
      <4>2. /\ q # ProcOf[t] => queue'[q] = queue[q]
            /\ q = ProcOf[t] => Len(queue'[q]) = Len(queue[q]) + 1
        BY <2>3, <3>2 DEF Types
      <4>3. Exact(inFlight[q], queue[q], wpc[q], Senders(pc, q))
        BY DEF SlotsInv
      <4> QED BY <1>0, <4>1, <4>2, <4>3 DEF Exact
    <3> QED BY <2>2, <3>1, <3>2
  <2> QED BY <2>2, <2>4 DEF SlotsInv, Senders, ThreadsOf
<1>8. ASSUME NEW t \in Threads, Undo(t)
      PROVE  SlotsInv'
  <2>1. /\ UNCHANGED <<queue, wpc>> /\ pc[t] = "undo" /\ pc' = [pc EXCEPT ![t] = "idle"]
        /\ inFlight' = [inFlight EXCEPT ![ProcOf[t]] = inFlight[ProcOf[t]] - 1]
    BY <1>8 DEF Undo, Return, Goto, writer
  <2>2. ASSUME NEW q \in Procs
        PROVE  Exact(inFlight'[q], queue[q], wpc[q], Senders(pc', q))
    <3>1. /\ q # ProcOf[t] => Senders(pc', q) = Senders(pc, q)
          /\ q = ProcOf[t] => Cardinality(Senders(pc', q)) = Cardinality(Senders(pc, q)) - 1
      BY <1>0, <2>1, SendersMove DEF Labels, Holding
    <3>2. /\ q # ProcOf[t] => inFlight'[q] = inFlight[q]
          /\ q = ProcOf[t] => inFlight'[q] = inFlight[q] - 1
      BY <1>0, <2>1
    <3>3. Exact(inFlight[q], queue[q], wpc[q], Senders(pc, q))
      BY DEF SlotsInv
    <3>4. CASE q # ProcOf[t]
      BY <3>1, <3>2, <3>3, <3>4
    <3>5. CASE q = ProcOf[t]
      <4> DEFINE n == Cardinality(Senders(pc, q))
                 m == Cardinality(Senders(pc', q))
                 l == Len(queue[q])
                 h == InHand(wpc[q])
      <4>1. /\ n \in Nat /\ l \in Nat /\ h \in Nat /\ inFlight[q] \in Int
            /\ inFlight[q] = l + h + n /\ m = n - 1 /\ inFlight'[q] = inFlight[q] - 1
        BY <1>0, <3>1, <3>2, <3>3, <3>5 DEF Exact
      <4> HIDE DEF n, m, l, h
      <4>2. inFlight'[q] = l + h + m
        BY <4>1
      <4> QED BY <4>2 DEF Exact, n, m, l, h
    <3> QED BY <3>4, <3>5
  <2> QED BY <2>1, <2>2 DEF SlotsInv, Senders, ThreadsOf
<1>9. ASSUME NEW t \in Threads,
             RemoveBad(t) \/ \E e \in Entries : Insert(t, e) \/ Lookup(t, e)
      PROVE  SlotsInv'
  <2>1. /\ UNCHANGED <<queue, wpc, inFlight>> /\ pc[t] \notin Holding
        /\ \E l \in Labels \ Holding : pc' = [pc EXCEPT ![t] = l]
    BY <1>9 DEF RemoveBad, Insert, Lookup, Return, Goto, writer, channel, Labels, Holding
  <2>2. ASSUME NEW q \in Procs
        PROVE  Senders(pc', q) = Senders(pc, q)
    <3>1. PICK l \in Labels \ Holding : pc' = [pc EXCEPT ![t] = l]
      BY <2>1
    <3>2. l \in Labels /\ l \notin Holding /\ pc[t] \notin Holding
      BY <2>1
    <3> HIDE DEF Labels, Holding
    <3> QED BY <1>0, <3>1, <3>2, SendersMove
  <2> QED BY <2>1, <2>2 DEF SlotsInv
<1> QED
  BY <1>1, <1>2, <1>3, <1>4, <1>5, <1>6, <1>7, <1>8, <1>9
     DEF Next, WriterStep, ThreadStep, MidJob, Joined, Crash

-----------------------------------------------------------------------------
(* used_estimate                                                           *)

\* The steps that leave the counters alone and start no eviction of their own.
LEMMA UsedUntouched ==
  ASSUME UsedInv, UNCHANGED used,
         \A q \in Procs : wpc'[q] = "evict" =>
            wpc[q] = "evict" /\ found'[q] = found[q] /\ sizes'[q] = sizes[q]
  PROVE  UsedInv'
BY DEF UsedInv

\* The counter never goes below zero.
LEMMA UsedStep ==
  ASSUME Types, UsedInv, Next
  PROVE  UsedInv'
<1>0. /\ \A q \in Procs : used[q] \in Int /\ found[q] \subseteq Docs
      /\ \A q \in Procs, d \in Docs : sizes[q][d] \in Nat
  BY DEF Types
<1>1. ASSUME NEW p \in Procs, Start(p) \/ Drop(p)
      PROVE  UsedInv'
  BY <1>1, UsedUntouched DEF Start, Drop, writer, estimate, pass
<1>2. ASSUME NEW t \in Threads,
             \/ ThreadStep(t)
             \/ \E e \in Entries : Insert(t, e) \/ Lookup(t, e)
      PROVE  UsedInv'
  BY <1>2, UsedUntouched DEF ThreadStep, Add, Send, Undo, RemoveBad, Insert, Lookup, writer, estimate, pass
<1>3. ASSUME NEW p \in Procs, Take(p) \/ MakeDir(p) \/ CreateTmp(p) \/ Fill(p) \/ Rename(p) \/ CleanUp(p)
      PROVE  UsedInv'
  BY <1>3, UsedUntouched DEF Take, MakeDir, CreateTmp, Fill, Rename, CleanUp, WriterTo, estimate, pass, Types
<1>4. ASSUME NEW p \in Procs, Release(p) \/ ScanRoot(p) \/ ListDir(p) \/ StatDir(p)
      PROVE  UsedInv'
  <2>1. /\ UNCHANGED used
        /\ \A q \in Procs \ {p} :
              found'[q] = found[q] /\ sizes'[q] = sizes[q] /\ wpc'[q] = wpc[q]
        /\ wpc'[p] # "evict"
    BY <1>4 DEF Release, ScanRoot, ListDir, StatDir, WriterTo, Types, estimate
  <2> QED BY <2>1, UsedUntouched
<1>5. ASSUME NEW p \in Procs, End(p)
      PROVE  UsedInv'
  <2>1. /\ used'[p] = 0 /\ wpc'[p] = "recv"
        /\ \A q \in Procs \ {p} :
              /\ found'[q] = found[q] /\ sizes'[q] = sizes[q] /\ wpc'[q] = wpc[q]
              /\ used'[q] = used[q]
    BY <1>5 DEF End, WriterTo, Types
  <2> QED BY <2>1 DEF UsedInv
<1>6. ASSUME NEW p \in Procs, Count(p)
      PROVE  UsedInv'
  <2>1. Size[job[p]] \in Nat
    BY SizeType DEF Types
  <2>2. /\ used'[p] = used[p] + Size[job[p]] /\ wpc'[p] # "evict"
        /\ UNCHANGED <<found, sizes>>
        /\ \A q \in Procs \ {p} : wpc'[q] = wpc[q] /\ used'[q] = used[q]
    BY <1>6 DEF Count, WriterTo, Types, estimate, pass
  <2> QED BY <1>0, <2>1, <2>2 DEF UsedInv
<1>7. ASSUME NEW p \in Procs, Reconcile(p)
      PROVE  UsedInv'
  <2>1. /\ used'[p] = Total(Docs, sizes[p])
        /\ UNCHANGED <<found, sizes>>
        /\ \A q \in Procs \ {p} : wpc'[q] = wpc[q] /\ used'[q] = used[q]
    BY <1>7 DEF Reconcile, WriterTo, Types, estimate, pass
  <2>2. Total(Docs, sizes[p]) \in Nat /\ Total(found[p], sizes[p]) <= Total(Docs, sizes[p])
    BY <1>0, DocsFinite, TotalType, TotalPart
  <2> QED BY <2>1, <2>2 DEF UsedInv
<1>8. ASSUME NEW p \in Procs, Evict(p)
      PROVE  UsedInv'
  <2>0. UNCHANGED sizes /\ wpc[p] = "evict" /\ used[p] >= Total(found[p], sizes[p])
    BY <1>8 DEF Evict, UsedInv
  <2>1. CASE EvictDone(p)
    <3>1. UNCHANGED <<used, found>> /\ \A q \in Procs : wpc'[q] = "evict" => wpc[q] = "evict"
      BY <2>1 DEF EvictDone, WriterTo, Types
    <3> QED BY <2>0, <3>1, UsedUntouched
  <2>2. ASSUME NEW d \in found[p], Removed(p, d) \/ PassedOver(p, d)
        PROVE  UsedInv'
    <3>1. /\ found'[p] = found[p] \ {d} /\ UNCHANGED wpc
          /\ \A q \in Procs \ {p} : found'[q] = found[q] /\ used'[q] = used[q]
          /\ used'[p] = used[p] \/ used'[p] = used[p] - sizes[p][d]
      <4>1. found' = [found EXCEPT ![p] = @ \ {d}] /\ UNCHANGED wpc
            /\ (used' = used \/ used' = [used EXCEPT ![p] = @ - sizes[p][d]])
        BY <2>2 DEF Removed, PassedOver
      <4> QED BY <4>1 DEF Types
    <3>2. IsFiniteSet(found[p]) /\ d \in Docs
      BY <1>0, DocsFinite, FS_Subset
    <3>3. /\ Total(found[p] \ {d}, sizes[p]) = Total(found[p], sizes[p]) - sizes[p][d]
          /\ Total(found[p], sizes[p]) \in Nat
      BY <1>0, <3>2, TotalRemove, TotalType
    <3>4. Total(found[p] \ {d}, sizes[p]) \in Nat
      <4>1. IsFiniteSet(found[p] \ {d})
        BY <3>2, FS_Subset
      <4> QED BY <1>0, <4>1, TotalType
    <3>5. used'[p] >= 0 /\ used'[p] >= Total(found'[p], sizes[p])
      <4> DEFINE rest == Total(found[p] \ {d}, sizes[p])
                 all == Total(found[p], sizes[p])
      <4>1. /\ rest \in Nat /\ all \in Nat /\ sizes[p][d] \in Nat /\ used[p] \in Int
            /\ used[p] >= all /\ rest = all - sizes[p][d]
        BY <1>0, <2>0, <3>2, <3>3, <3>4
      <4>2. found'[p] = found[p] \ {d} /\ (used'[p] = used[p] \/ used'[p] = used[p] - sizes[p][d])
        BY <3>1
      <4> HIDE DEF rest, all
      <4>3. used'[p] >= 0 /\ used'[p] >= rest
        BY <4>1, <4>2
      <4> QED BY <4>2, <4>3 DEF rest
    <3> QED BY <2>0, <3>1, <3>5 DEF UsedInv
  <2> QED BY <1>8, <2>1, <2>2 DEF Evict
<1> QED
  BY <1>1, <1>2, <1>3, <1>4, <1>5, <1>6, <1>7, <1>8
     DEF Next, WriterStep, Joined, Crash

-----------------------------------------------------------------------------
(* Files                                                                   *)

\* Files that are only unlinked, by steps that end no job.
LEMMA FilesRemoved ==
  ASSUME Types, FilesInv, NEW F, Unlink(F), UNCHANGED <<wpc, job>>
  PROVE  FilesInv'
<1>1. \A e \in Entries, n \in Names : file'[e][n] = file[e][n] \/ file'[e][n] = "none"
  BY DEF Unlink
<1>2. \A p \in Procs : job[p] \in Entries /\ p \in Names /\ Final \in Names
  BY DEF Types, Names
<1>3. NoEntryTorn'
  BY <1>1, <1>2, EntriesFinite DEF FilesInv, NoEntryTorn, Names
<1>4. NoTempLeft'
  BY <1>1, <1>2 DEF FilesInv, NoTempLeft
<1>5. \A p \in Procs : wpc'[p] = "rename" => file'[job'[p]][p] # "part"
  BY <1>1, <1>2 DEF FilesInv
<1> QED BY <1>3, <1>4, <1>5 DEF FilesInv

\* Steps that leave the files and the jobs, and start or end no write.
LEMMA FilesUntouched ==
  ASSUME FilesInv, UNCHANGED <<file, job>>,
         \A q \in Procs : \/ wpc'[q] = wpc[q]
                          \/ wpc[q] \notin {"fill", "rename", "clean"} /\ wpc'[q] # "rename"
  PROVE  FilesInv'
BY DEF FilesInv, NoEntryTorn, NoTempLeft

\* No step leaves half an entry, or a temporary file.
LEMMA FilesStep ==
  ASSUME Types, FilesInv, Next
  PROVE  FilesInv'
<1>0. /\ \A q \in Procs : job[q] \in Entries /\ q \in Names /\ q # Final
      /\ Final \in Names
      /\ file \in [Entries -> [Names -> {"none", "part", "whole", "bad"}]]
  BY FinalType DEF Types, DiskTypes, Names
<1>1. ASSUME NEW p \in Procs, Start(p) \/ Drop(p)
      PROVE  FilesInv'
  BY <1>1, FilesUntouched DEF Start, Drop, writer, disk
<1>2. ASSUME NEW t \in Threads,
             \/ Add(t) \/ Send(t) \/ Undo(t)
             \/ \E e \in Entries : Insert(t, e) \/ Lookup(t, e)
      PROVE  FilesInv'
  BY <1>2, FilesUntouched DEF Add, Send, Undo, Insert, Lookup, writer, disk
<1>3. ASSUME NEW t \in Threads, RemoveBad(t)
      PROVE  FilesInv'
  BY <1>3, FilesRemoved DEF RemoveBad, writer
<1>4. ASSUME NEW p \in Procs, MakeDir(p) \/ Count(p) \/ ScanRoot(p) \/ ListDir(p) \/ StatDir(p) \/ Reconcile(p)
      PROVE  FilesInv'
  <2>1. UNCHANGED <<file, job>>
    BY <1>4 DEF MakeDir, Count, ScanRoot, ListDir, StatDir, Reconcile, disk
  <2>2. /\ wpc[p] \notin {"fill", "rename", "clean"} /\ wpc'[p] # "rename"
        /\ \A q \in Procs \ {p} : wpc'[q] = wpc[q]
    BY <1>4 DEF MakeDir, Count, ScanRoot, ListDir, StatDir, Reconcile, WriterTo, Types
  <2> QED BY <2>1, <2>2, FilesUntouched
<1>5. ASSUME NEW p \in Procs, Take(p) \/ Release(p)
      PROVE  FilesInv'
  <2>1. /\ UNCHANGED file /\ wpc[p] \notin {"fill", "rename", "clean"}
        /\ wpc'[p] # "rename"
        /\ \A q \in Procs \ {p} : wpc'[q] = wpc[q] /\ job'[q] = job[q]
    BY <1>5 DEF Take, Release, WriterTo, Types, disk
  <2> QED BY <2>1 DEF FilesInv, NoEntryTorn, NoTempLeft
<1>6. ASSUME NEW p \in Procs, CreateTmp(p) \/ Fill(p)
      PROVE  FilesInv'
  <2> DEFINE e == job[p]
  <2>1. /\ UNCHANGED job
        /\ \A q \in Procs \ {p} : wpc'[q] = wpc[q]
        /\ wpc'[p] \in {"fill", "clean", "rename"}
        /\ wpc[p] \in {"create", "fill"}
        /\ wpc'[p] = "rename" => wpc[p] = "fill"
    BY <1>6 DEF CreateTmp, Fill, WriterTo, Types
  <2>2. \A f \in Entries, n \in Names : <<f, n>> # <<e, p>> => file'[f][n] = file[f][n]
    <3>1. file' = file \/ \E c \in {"part", "whole"} : Write(p, p, c)
      BY <1>6 DEF CreateTmp, Fill
    <3> QED BY <1>0, <3>1 DEF Write
  <2>3. wpc'[p] = "rename" => file'[e][p] # "part"
    BY <1>0, <1>6, <2>1 DEF CreateTmp, Fill, WriterTo, Write, Types
  <2>4. NoEntryTorn'
    BY <1>0, <2>2 DEF FilesInv, NoEntryTorn
  <2>5. NoTempLeft'
    BY <1>0, <2>1, <2>2 DEF FilesInv, NoTempLeft
  <2>6. \A q \in Procs : wpc'[q] = "rename" => file'[job'[q]][q] # "part"
    BY <1>0, <2>1, <2>2, <2>3 DEF FilesInv
  <2> QED BY <2>4, <2>5, <2>6 DEF FilesInv
<1>7. ASSUME NEW p \in Procs, Rename(p)
      PROVE  FilesInv'
  <2> DEFINE e == job[p]
  <2>1. /\ UNCHANGED job /\ wpc[p] = "rename"
        /\ \A q \in Procs \ {p} : wpc'[q] = wpc[q]
        /\ wpc'[p] \in {"count", "clean"}
    BY <1>7 DEF Rename, WriterTo, Types
  <2>2. CASE UNCHANGED file /\ wpc'[p] = "clean"
    BY <2>1, <2>2 DEF FilesInv, NoEntryTorn, NoTempLeft
  <2>3. CASE file' = [file EXCEPT ![e] = [@ EXCEPT ![Final] = file[e][p], ![p] = "none"]]
    <3>1. /\ file'[e][p] = "none" /\ file'[e][Final] = file[e][p]
          /\ \A f \in Entries, n \in Names :
                <<f, n>> # <<e, p>> /\ <<f, n>> # <<e, Final>> => file'[f][n] = file[f][n]
      BY <1>0, <2>3
    <3>2. file[e][p] # "part"
      BY <2>1 DEF FilesInv
    <3>3. NoEntryTorn'
      BY <1>0, <3>1, <3>2 DEF FilesInv, NoEntryTorn
    <3>4. NoTempLeft'
      BY <1>0, <2>1, <3>1 DEF FilesInv, NoTempLeft
    <3>5. \A q \in Procs : wpc'[q] = "rename" => file'[job'[q]][q] # "part"
      BY <1>0, <2>1, <3>1 DEF FilesInv
    <3> QED BY <3>3, <3>4, <3>5 DEF FilesInv
  <2> QED BY <1>7, <2>1, <2>2, <2>3 DEF Rename, WriterTo, Types
<1>8. ASSUME NEW p \in Procs, CleanUp(p)
      PROVE  FilesInv'
  <2>1. /\ UNCHANGED job /\ wpc[p] = "clean" /\ wpc'[p] = "release"
        /\ \A q \in Procs \ {p} : wpc'[q] = wpc[q]
    BY <1>8 DEF CleanUp, WriterTo, Types
  <2>2. /\ file'[job[p]][p] = "none"
        /\ \A f \in Entries, n \in Names :
              <<f, n>> # <<job[p], p>> => file'[f][n] = file[f][n]
    BY <1>0, <1>8 DEF CleanUp, Unlink
  <2>3. NoEntryTorn'
    BY <1>0, <2>2 DEF FilesInv, NoEntryTorn
  <2>4. NoTempLeft'
    BY <1>0, <2>1, <2>2 DEF FilesInv, NoTempLeft
  <2>5. \A q \in Procs : wpc'[q] = "rename" => file'[job'[q]][q] # "part"
    BY <1>0, <2>1, <2>2 DEF FilesInv
  <2> QED BY <2>3, <2>4, <2>5 DEF FilesInv
<1>9. ASSUME NEW p \in Procs, Evict(p)
      PROVE  FilesInv'
  <2>1. CASE EvictDone(p)
    <3>1. /\ UNCHANGED <<file, job>> /\ wpc[p] = "evict" /\ wpc'[p] = "release"
          /\ \A q \in Procs \ {p} : wpc'[q] = wpc[q]
      BY <1>9, <2>1 DEF Evict, EvictDone, WriterTo, Types, disk
    <3> QED BY <3>1, FilesUntouched
  <2>2. ASSUME NEW d \in found[p], Removed(p, d) \/ PassedOver(p, d)
        PROVE  FilesInv'
    <3>1. PICK F : Unlink(F) /\ UNCHANGED <<wpc, job>>
      BY <1>9, <2>2 DEF Evict, Removed, PassedOver
    <3> QED BY <3>1, FilesRemoved
  <2> QED BY <1>9, <2>1, <2>2 DEF Evict
<1>10. ASSUME NEW p \in Procs, Joined(p) \/ Crash(p)
       PROVE  FilesInv'
  <2>1. /\ UNCHANGED file /\ wpc'[p] = "recv"
        /\ \A q \in Procs \ {p} : wpc'[q] = wpc[q] /\ job'[q] = job[q]
        /\ p \in Killable \/ wpc[p] = "recv"
    BY <1>10 DEF Joined, Crash, End, WriterTo, Types
  <2> QED BY <2>1 DEF FilesInv, NoEntryTorn, NoTempLeft
<1> QED
  BY <1>1, <1>2, <1>3, <1>4, <1>5, <1>6, <1>7, <1>8, <1>9, <1>10
     DEF Next, WriterStep, ThreadStep

-----------------------------------------------------------------------------
(* The theorems                                                            *)

\* The first state.
LEMMA InitInv == Init => IInv
<1> SUFFICES ASSUME Init PROVE IInv
  OBVIOUS
<1>1. Types
  <2>1. DiskTypes
    BY BadType, DocOfType DEF Init, DiskTypes
  <2>2. queue \in [Procs -> Seq(Entries)]
    BY EmptySeq DEF Init
  <2>3. /\ job \in [Procs -> Entries] /\ sizes \in [Procs -> [Docs -> Nat]]
        /\ listing \in [Procs -> [dir : Docs, files : SUBSET (Entries \X Names)]]
        /\ want \in [Threads -> Entries]
    BY Defaults DEF Init
  <2> QED BY <2>1, <2>2, <2>3 DEF Init, Types, Labels
<1>2. SlotsInv
  <2>1. ASSUME NEW p \in Procs
        PROVE  Exact(inFlight[p], queue[p], wpc[p], Senders(pc, p))
    <3>1. Senders(pc, p) = {}
      BY DEF Init, Senders, ThreadsOf, Holding
    <3>2. Len(<<>>) = 0 /\ Cardinality({}) = 0
      BY EmptySeq, FS_EmptySet
    <3>3. inFlight[p] = 0 /\ queue[p] = <<>> /\ InHand(wpc[p]) = 0
      BY DEF Init, InHand
    <3> QED BY <3>1, <3>2, <3>3 DEF Exact
  <2> QED BY <2>1 DEF SlotsInv
<1>3. UsedInv
  BY DEF Init, UsedInv
<1>4. FilesInv
  BY FinalType DEF Init, FilesInv, NoEntryTorn, NoTempLeft, Names
<1> QED BY <1>1, <1>2, <1>3, <1>4 DEF IInv

\* Every step.
LEMMA NextInv == IInv /\ [Next]_vars => IInv'
<1> SUFFICES ASSUME IInv, [Next]_vars PROVE IInv'
  OBVIOUS
<1>1. CASE Next
  <2>1. Types /\ SlotsInv /\ UsedInv /\ FilesInv
    BY DEF IInv
  <2>2. Types'
    BY <1>1, <2>1, ThreadTypes, WriteTypes, EvictTypes, ProcTypes DEF Next, WriterStep
  <2> QED BY <1>1, <2>1, <2>2, SlotsStep, UsedStep, FilesStep DEF IInv
<1>2. CASE UNCHANGED vars
  <2>1. UNCHANGED <<file, dirs, mine, up, open, queue, inFlight, used, missed, wpc, job,
                    scan, found, sizes, listing, unread, pc, want>>
    BY <1>2 DEF vars, disk, channel, estimate, pass, writer, threads
  <2>2. Types'
    BY <2>1 DEF IInv, Types, DiskTypes
  <2>3. SlotsInv'
    BY <2>1 DEF IInv, SlotsInv, Senders, ThreadsOf
  <2>4. UsedInv' /\ FilesInv'
    BY <2>1 DEF IInv, UsedInv, FilesInv, NoEntryTorn, NoTempLeft
  <2> QED BY <2>2, <2>3, <2>4 DEF IInv
<1> QED BY <1>1, <1>2

\* The invariant holds throughout.
LEMMA Invariant == Spec => []IInv
BY InitInv, NextInv, PTL DEF Spec

\* With the accounting, the integers are natural numbers.
LEMMA TypesHold == ASSUME IInv PROVE TypeOK
<1>1. ASSUME NEW p \in Procs
      PROVE  inFlight[p] \in Nat /\ used[p] \in Nat
  <2>1. Len(queue[p]) \in Nat /\ InHand(wpc[p]) \in Nat /\ Cardinality(Senders(pc, p)) \in Nat
    BY SendersFinite, LenProperties DEF IInv, Types, InHand
  <2>2. inFlight[p] = Len(queue[p]) + InHand(wpc[p]) + Cardinality(Senders(pc, p))
    BY DEF IInv, SlotsInv, Exact
  <2>3. used[p] \in Int /\ used[p] >= 0
    BY DEF IInv, Types, UsedInv
  <2> QED BY <2>1, <2>2, <2>3
<1>2. inFlight \in [Procs -> Nat] /\ used \in [Procs -> Nat]
  BY <1>1 DEF IInv, Types
<1> QED BY <1>2 DEF IInv, Types, TypeOK, WriterTypes, Labels

\* The variables keep their types: in_flight and used_estimate, unsigned in
\* the code, never go below zero.
THEOREM TypeCorrect == Spec => []TypeOK
<1>1. IInv => TypeOK
  BY TypesHold
<1> QED BY <1>1, Invariant, PTL

\* in_flight is the writes queued, in hand, or about to be sent or given up
\* (disk_tier.rs, insert and writer_loop), whatever fails or is killed.
THEOREM InFlightExactHolds == Spec => []InFlightExact
<1>1. ASSUME IInv PROVE InFlightExact
  <2>1. ASSUME NEW p \in Procs
        PROVE  inFlight[p] = Len(queue[p]) + (IF wpc[p] = "recv" THEN 0 ELSE 1)
                 + Cardinality({ t \in ThreadsOf(p) : pc[t] \in {"send", "undo"} })
    BY <1>1 DEF IInv, SlotsInv, Exact, InHand, Senders, Holding
  <2> QED BY <1>1, <2>1, TypesHold DEF InFlightExact
<1> QED BY <1>1, Invariant, PTL

\* No lookup opens half an entry (write_entry), with any number of processes
\* at one file, each of them killed at any step.
THEOREM NoEntryTornHolds == Spec => []NoEntryTorn
<1>1. IInv => NoEntryTorn
  BY DEF IInv, FilesInv
<1> QED BY <1>1, Invariant, PTL

\* No error path of write_entry leaves its temporary file behind.
THEOREM NoTempLeftHolds == Spec => []NoTempLeft
<1>1. IInv => NoTempLeft
  BY DEF IInv, FilesInv
<1> QED BY <1>1, Invariant, PTL

-----------------------------------------------------------------------------
(* The estimate.  While a pass sizes the directories, what it is to cover   *)
(* is what the process wrote to those it met no error in; from then on, all *)
(* but what the history says was left out.                                  *)

\* The entries of M in the document d, and those in no document of D.
InDir(M, d) == { e \in M : DocOf[e] = d }
OutOf(M, D) == { e \in M : DocOf[e] \notin D }

Kept(p) == mine[p] \ missed[p]
Readable(p) == { e \in mine[p] : DocOf[e] \notin unread[p] }
Counted(p) == IF wpc[p] = "evict" THEN Kept(p) ELSE Readable(p)

\* Each file is in a directory, and what a process wrote is under its final name.
InPlace ==
  /\ \A e \in Entries, n \in Names : file[e][n] # "none" => DocOf[e] \in dirs
  /\ \A p \in Procs : \A e \in mine[p] : file[e][Final] # "none"

\* What the process wrote is in the directories its scan found.
AllFound(p) ==
  wpc[p] \in {"size", "stat"} =>
     scan[p] \subseteq found[p] /\ \A e \in mine[p] : DocOf[e] \in found[p]

\* A listing has all that the process wrote there and is still there.
ListingComplete(p) ==
  wpc[p] = "stat" => \A e \in InDir(mine[p], listing[p].dir) : <<e, Final>> \in listing[p].files

\* A directory that has been sized was found to hold what the process wrote there.
SizesCover(p) ==
  \A d \in found[p] :
     \/ wpc[p] \notin {"size", "stat", "evict"}
     \/ wpc[p] \in {"size", "stat"} /\ d \in scan[p]
     \/ wpc[p] = "stat" /\ d = listing[p].dir
     \/ sizes[p][d] >= Total(InDir(Counted(p), d), Size)

\* The estimate covers what was written, with the entry about to be counted; while the pass
\* evicts, it covers the directories still to go and the entries in the others.
UsedCovers(p) ==
  /\ wpc[p] = "count" => used[p] + Size[job[p]] >= Total(Kept(p), Size)
  /\ wpc[p] # "count" => used[p] >= Total(Kept(p), Size)
  /\ wpc[p] = "evict" =>
        used[p] >= Total(found[p], sizes[p]) + Total(OutOf(Kept(p), found[p]), Size)

Covers(p) == AllFound(p) /\ ListingComplete(p) /\ SizesCover(p) /\ UsedCovers(p)

CoverInv == InPlace /\ \A p \in Procs : Covers(p)

\* Sets of entries and of documents have totals.
LEMMA EntriesTotal ==
  ASSUME NEW M, M \subseteq Entries
  PROVE  IsFiniteSet(M) /\ (\A e \in M : Size[e] \in Nat) /\ Total(M, Size) \in Nat
<1>1. IsFiniteSet(M) /\ \A e \in M : Size[e] \in Nat
  BY EntriesFinite, SizeType, FS_Subset
<1> QED  BY <1>1, TotalType

\* Of sets of entries, a part weighs no more.
LEMMA EntriesPart ==
  ASSUME NEW M, M \subseteq Entries, NEW L, L \subseteq M
  PROVE  Total(L, Size) <= Total(M, Size)
BY EntriesTotal, TotalPart

\* The bytes of files that hold the entries of M under their final names.
LEMMA BytesCover ==
  ASSUME NEW M, M \subseteq Entries, NEW F, F \subseteq Entries \X Names,
         \A e \in M : <<e, Final>> \in F
  PROVE  Total(M, Size) <= Bytes(F)
<1> DEFINE w == [f \in F |-> Size[f[1]]]
           g == [e \in M |-> <<e, Final>>]
<1>1. IsFiniteSet(Names)
  BY ProcsFinite, FS_AddElement DEF Names
<1>2. IsFiniteSet(F)
  BY <1>1, EntriesFinite, FS_Product, FS_Subset
<1>3. \A f \in F : w[f] \in Nat
  BY SizeType
<1>4. \A e \in M : g[e] \in F
  OBVIOUS
<1>5. ASSUME NEW f \in F
      PROVE  Total(Group(M, g, f), Size) <= w[f]
  <2>1. f[1] \in Entries /\ Group(M, g, f) \subseteq {f[1]} /\ w[f] = Size[f[1]]
    BY DEF Group
  <2>2. Total({f[1]}, Size) = Size[f[1]]
    <3>1. Total({} \cup {f[1]}, Size) = Total({}, Size) + Size[f[1]]
      BY <2>1, SizeType, FS_EmptySet, TotalAdd
    <3>2. {} \cup {f[1]} = {f[1]} /\ Total({}, Size) = 0 /\ Size[f[1]] \in Nat
      BY <2>1, SizeType, TotalEmpty
    <3>3. Total({f[1]}, Size) = 0 + Size[f[1]]
      BY <3>1, <3>2
    <3> HIDE DEF w, g
    <3> QED  BY <3>2, <3>3
  <2>3. Total(Group(M, g, f), Size) <= Total({f[1]}, Size)
    BY <2>1, EntriesPart
  <2> HIDE DEF w, g
  <2> QED  BY <2>1, <2>2, <2>3
<1>6. IsFiniteSet(M) /\ \A e \in M : Size[e] \in Nat
  BY EntriesTotal
<1> HIDE DEF w, g
<1>7. Total(M, Size) <= Total(F, w)
  BY <1>2, <1>3, <1>4, <1>5, <1>6, TotalGrouped
<1> QED  BY <1>7 DEF Bytes, w

\* Bounds on what is in the documents of D, with the entries outside them, cover M.
LEMMA DocsCover ==
  ASSUME NEW M, M \subseteq Entries, NEW D, D \subseteq Docs, NEW bound,
         \A d \in D : bound[d] \in Nat /\ bound[d] >= Total(InDir(M, d), Size)
  PROVE  /\ Total(D, bound) \in Nat
         /\ Total(M, Size) <= Total(D, bound) + Total(OutOf(M, D), Size)
<1> DEFINE In == M \ OutOf(M, D)
<1>1. In \subseteq Entries /\ OutOf(M, D) \subseteq Entries /\ M = In \cup OutOf(M, D)
  BY DEF OutOf
<1>2. \A e \in In : DocOf[e] \in D
  BY DEF OutOf
<1>3. IsFiniteSet(D) /\ \A d \in D : bound[d] \in Nat
  BY DocsFinite, FS_Subset
<1>4. ASSUME NEW d \in D
      PROVE  Total(Group(In, DocOf, d), Size) <= bound[d]
  <2>1. Group(In, DocOf, d) \subseteq InDir(M, d) /\ InDir(M, d) \subseteq Entries
    BY DEF Group, InDir
  <2>2. /\ Total(Group(In, DocOf, d), Size) <= Total(InDir(M, d), Size)
        /\ Total(InDir(M, d), Size) \in Nat
    BY <2>1, EntriesPart, EntriesTotal
  <2>3. Group(In, DocOf, d) \subseteq Entries
    BY <2>1
  <2>4. Total(Group(In, DocOf, d), Size) \in Nat
    BY <2>3, EntriesTotal
  <2> HIDE DEF In
  <2> QED  BY <2>2, <2>4
<1>5. /\ IsFiniteSet(In) /\ (\A e \in In : Size[e] \in Nat) /\ Total(In, Size) \in Nat
  BY <1>1, EntriesTotal
<1> HIDE DEF In
<1>6. Total(In, Size) <= Total(D, bound)
  BY <1>2, <1>3, <1>4, <1>5, TotalGrouped
<1>7. /\ IsFiniteSet(OutOf(M, D)) /\ (\A e \in OutOf(M, D) : Size[e] \in Nat)
      /\ Total(OutOf(M, D), Size) \in Nat
  BY <1>1, EntriesTotal
<1>8. \A e \in In \cup OutOf(M, D) : Size[e] \in Nat
  BY <1>5, <1>7
<1>9. Total(In \cup OutOf(M, D), Size) <= Total(In, Size) + Total(OutOf(M, D), Size)
  BY <1>5, <1>7, <1>8, TotalSplit
<1>10. Total(M, Size) <= Total(In, Size) + Total(OutOf(M, D), Size)
  BY <1>1, <1>9
<1>11. Total(D, bound) \in Nat /\ Total(M, Size) \in Nat
  BY <1>3, TotalType, EntriesTotal
<1> QED  BY <1>5, <1>6, <1>7, <1>10, <1>11

\* Files go only with what the processes count as their own.
LEMMA UnlinkInPlace ==
  ASSUME IInv, InPlace, NEW F, Unlink(F),
         \A e \in Entries, n \in Names :
            <<e, n>> \notin F /\ file[e][n] # "none" => DocOf[e] \in dirs'
  PROVE  InPlace'
<1>1. /\ \A e \in Entries, n \in Names :
           file'[e][n] = IF <<e, n>> \in F THEN "none" ELSE file[e][n]
      /\ \A p \in Procs : mine'[p] = { e \in mine[p] : <<e, Final>> \notin F }
  BY DEF Unlink
<1>2. Final \in Names /\ \A p \in Procs : mine[p] \subseteq Entries
  BY DEF IInv, Types, DiskTypes, Names
<1> QED  BY <1>1, <1>2 DEF InPlace

\* A write goes to a directory that is there, and a directory goes with all that is in it.
LEMMA InPlaceStep ==
  ASSUME IInv, InPlace, Next
  PROVE  InPlace'
<1>0. /\ \A p \in Procs : p \in Names /\ p # Final /\ job[p] \in Entries /\ mine[p] \subseteq Entries
      /\ Final \in Names
      /\ file \in [Entries -> [Names -> {"none", "part", "whole", "bad"}]]
  BY FinalType DEF IInv, Types, DiskTypes, Names
<1>1. CASE UNCHANGED disk
  BY <1>1 DEF InPlace, disk
<1>2. ASSUME NEW p \in Procs, MakeDir(p)
      PROVE  InPlace'
  BY <1>2 DEF InPlace, MakeDir
<1>3. ASSUME NEW p \in Procs, CreateTmp(p) \/ Fill(p)
      PROVE  InPlace'
  <2>1. UNCHANGED <<dirs, mine>>
    BY <1>3 DEF CreateTmp, Fill
  <2>2. \/ file' = file
        \/ \E c \in {"part", "whole"} : Write(p, p, c) /\ DocOf[job[p]] \in dirs
    BY <1>0, <1>3 DEF CreateTmp, Fill, InPlace
  <2>3. CASE file' = file
    BY <2>1, <2>3 DEF InPlace
  <2>4. ASSUME NEW c \in {"part", "whole"}, Write(p, p, c), DocOf[job[p]] \in dirs
        PROVE  InPlace'
    <3>1. \A e \in Entries, n \in Names : (e = job[p] /\ n = p) \/ file'[e][n] = file[e][n]
      BY <1>0, <2>4 DEF Write
    <3> QED  BY <1>0, <2>1, <2>4, <3>1 DEF InPlace
  <2> QED  BY <2>2, <2>3, <2>4
<1>4. ASSUME NEW p \in Procs, Rename(p)
      PROVE  InPlace'
  <2>1. CASE UNCHANGED <<file, mine>>
    BY <1>4, <2>1 DEF InPlace, Rename
  <2>2. CASE /\ file[job[p]][p] # "none"
             /\ file' = [file EXCEPT ![job[p]] =
                             [@ EXCEPT ![Final] = file[job[p]][p], ![p] = "none"]]
             /\ mine' = [q \in Procs |-> IF q = p THEN mine[q] \cup {job[p]}
                                                 ELSE mine[q] \ {job[p]}]
    <3>1. /\ file'[job[p]][p] = "none" /\ file'[job[p]][Final] = file[job[p]][p]
          /\ \A e \in Entries, n \in Names :
                (e = job[p] /\ (n = p \/ n = Final)) \/ file'[e][n] = file[e][n]
      BY <1>0, <2>2
    <3>2. UNCHANGED dirs
      BY <1>4 DEF Rename
    <3>3. \A q \in Procs : \A e \in mine'[q] : e \in Entries /\ (e = job[p] \/ e \in mine[q])
      BY <1>0, <2>2
    <3> QED  BY <1>0, <2>2, <3>1, <3>2, <3>3 DEF InPlace
  <2> QED  BY <1>4, <2>1, <2>2 DEF Rename
<1>5. ASSUME NEW p \in Procs, CleanUp(p)
      PROVE  InPlace'
  BY <1>5, UnlinkInPlace DEF CleanUp, InPlace
<1>6. ASSUME NEW p \in Procs, Evict(p)
      PROVE  InPlace'
  <2>1. ASSUME NEW d \in found[p], Removed(p, d)
        PROVE  InPlace'
    <3>1. Unlink(FilesIn(d)) /\ dirs' = dirs \ {d}
      BY <2>1 DEF Removed
    <3>2. \A e \in Entries, n \in Names :
             <<e, n>> \notin FilesIn(d) /\ file[e][n] # "none" => DocOf[e] \in dirs'
      BY <3>1 DEF InPlace, FilesIn
    <3> QED  BY <3>1, <3>2, UnlinkInPlace
  <2>2. ASSUME NEW d \in found[p], PassedOver(p, d)
        PROVE  InPlace'
    <3>1. PICK F \in SUBSET FilesIn(d) : Unlink(F) /\ UNCHANGED dirs
      BY <2>2 DEF PassedOver
    <3> QED  BY <3>1, UnlinkInPlace DEF InPlace
  <2> QED  BY <1>1, <1>6, <2>1, <2>2 DEF Evict, EvictDone
<1>7. ASSUME NEW p \in Procs, End(p)
      PROVE  InPlace'
  <2>1. UNCHANGED <<file, dirs>> /\ \A q \in Procs : mine'[q] \subseteq mine[q]
    BY <1>7 DEF End, IInv, Types, DiskTypes
  <2> QED  BY <2>1 DEF InPlace
<1>8. ASSUME NEW t \in Threads, RemoveBad(t)
      PROVE  InPlace'
  BY <1>8, UnlinkInPlace DEF RemoveBad, InPlace
<1>9. CASE \E t \in Threads : \/ Add(t) \/ Send(t) \/ Undo(t)
                              \/ \E e \in Entries : Insert(t, e) \/ Lookup(t, e)
  BY <1>1, <1>9 DEF Add, Send, Undo, Insert, Lookup
<1>10. CASE \E p \in Procs : \/ Take(p) \/ Count(p) \/ Release(p) \/ ScanRoot(p) \/ ListDir(p)
                             \/ StatDir(p) \/ Reconcile(p) \/ Start(p) \/ Drop(p)
  BY <1>1, <1>10 DEF Take, Count, Release, ScanRoot, ListDir, StatDir, Reconcile, Start, Drop
<1> QED
  BY <1>2, <1>3, <1>4, <1>5, <1>6, <1>7, <1>8, <1>9, <1>10
     DEF Next, WriterStep, ThreadStep, Joined, Crash

\* What a process wrote may be taken from it by anyone, and stays covered.
LEMMA LossCovers ==
  ASSUME IInv, NEW p \in Procs, Covers(p), mine'[p] \subseteq mine[p],
         missed'[p] = missed[p], used'[p] = used[p], wpc'[p] = wpc[p], job'[p] = job[p],
         scan'[p] = scan[p], found'[p] = found[p], sizes'[p] = sizes[p],
         listing'[p] = listing[p], unread'[p] = unread[p]
  PROVE  Covers(p)'
<1>0. /\ mine[p] \subseteq Entries /\ used[p] \in Int /\ job[p] \in Entries
      /\ found[p] \subseteq Docs /\ \A d \in Docs : sizes[p][d] \in Nat
  BY DEF IInv, Types, DiskTypes
<1>1. AllFound(p)' /\ ListingComplete(p)'
  BY DEF Covers, AllFound, ListingComplete, InDir
<1>2. Kept(p)' \subseteq Kept(p) /\ Counted(p)' \subseteq Counted(p)
  BY DEF Kept, Counted, Readable
<1>3. Kept(p) \subseteq Entries /\ Counted(p) \subseteq Entries
  BY <1>0 DEF Kept, Counted, Readable
<1>4. ASSUME NEW M, M \subseteq Entries, NEW L, L \subseteq M
      PROVE  Total(L, Size) <= Total(M, Size) /\ Total(L, Size) \in Nat /\ Total(M, Size) \in Nat
  <2>1. L \subseteq Entries
    BY <1>4
  <2> QED  BY <1>4, <2>1, EntriesPart, EntriesTotal
<1>5. SizesCover(p)'
  <2>1. ASSUME NEW d \in found[p], sizes[p][d] >= Total(InDir(Counted(p), d), Size)
        PROVE  sizes[p][d] >= Total(InDir(Counted(p)', d), Size)
    <3>1. /\ InDir(Counted(p)', d) \subseteq InDir(Counted(p), d)
          /\ InDir(Counted(p), d) \subseteq Entries
      BY <1>2, <1>3 DEF InDir
    <3>2. sizes[p][d] \in Nat
      BY <1>0
    <3> QED  BY <1>4, <2>1, <3>1, <3>2
  <2>2. SizesCover(p)
    BY DEF Covers
  <2> QED  BY <2>1, <2>2 DEF SizesCover
<1>6. UsedCovers(p)'
  <2>1. /\ Total(Kept(p)', Size) <= Total(Kept(p), Size)
        /\ Total(Kept(p)', Size) \in Nat /\ Total(Kept(p), Size) \in Nat
    BY <1>2, <1>3, <1>4
  <2>2. /\ OutOf(Kept(p)', found[p]) \subseteq OutOf(Kept(p), found[p])
        /\ OutOf(Kept(p), found[p]) \subseteq Entries
    BY <1>2, <1>3 DEF OutOf
  <2>3. /\ Total(OutOf(Kept(p)', found[p]), Size) <= Total(OutOf(Kept(p), found[p]), Size)
        /\ Total(OutOf(Kept(p)', found[p]), Size) \in Nat
        /\ Total(OutOf(Kept(p), found[p]), Size) \in Nat
    BY <1>4, <2>2
  <2>4. IsFiniteSet(found[p]) /\ Total(found[p], sizes[p]) \in Nat
    BY <1>0, DocsFinite, FS_Subset, TotalType
  <2>5. Size[job[p]] \in Nat
    BY <1>0, SizeType
  <2>6. UsedCovers(p)
    BY DEF Covers
  <2> DEFINE K == Kept(p)'
  <2>7. /\ wpc[p] = "count" => used[p] + Size[job[p]] >= Total(K, Size)
        /\ wpc[p] # "count" => used[p] >= Total(K, Size)
        /\ wpc[p] = "evict" => used[p] >= Total(found[p], sizes[p]) + Total(OutOf(K, found[p]), Size)
    BY <1>0, <2>1, <2>3, <2>4, <2>5, <2>6 DEF UsedCovers
  <2> QED  BY <2>7 DEF UsedCovers
<1> QED  BY <1>1, <1>5, <1>6 DEF Covers

\* Off a pass, and with nothing about to be counted, what is to be shown is that the
\* estimate covers what was written.
LEMMA OffPass ==
  ASSUME NEW p, wpc'[p] \notin {"size", "stat", "evict", "count"},
         used'[p] >= Total(Kept(p)', Size)
  PROVE  Covers(p)'
BY DEF Covers, AllFound, ListingComplete, SizesCover, UsedCovers

\* The steps that count nothing, lose nothing and start no pass.
LEMMA WriteCovers ==
  ASSUME NEW p \in Procs, IInv, Covers(p),
         \/ Take(p) \/ MakeDir(p) \/ CreateTmp(p) \/ Fill(p) \/ CleanUp(p) \/ Count(p) \/ Release(p)
         \/ Rename(p) \/ End(p)
  PROVE  Covers(p)'
<1>0. /\ p # Final /\ job[p] \in Entries /\ mine[p] \subseteq Entries
      /\ used \in [Procs -> Int] /\ mine \in [Procs -> SUBSET Entries]
      /\ missed \in [Procs -> SUBSET Entries]
      /\ wpc \in [Procs -> {"recv", "mkdir", "create", "fill", "rename", "clean", "count",
                            "release", "scan", "size", "stat", "evict"}]
  BY FinalType DEF IInv, Types, DiskTypes, Names
<1>1. /\ wpc[p] = "count" => used[p] + Size[job[p]] >= Total(Kept(p), Size)
      /\ wpc[p] # "count" => used[p] >= Total(Kept(p), Size)
  BY DEF Covers, UsedCovers
<1>2. CASE Take(p) \/ MakeDir(p) \/ CreateTmp(p) \/ Fill(p) \/ Release(p)
  <2>1. UNCHANGED <<used, mine, missed>> /\ wpc[p] # "count"
    BY <1>2 DEF Take, MakeDir, CreateTmp, Fill, Release, disk, estimate
  <2>2. wpc'[p] \notin {"size", "stat", "evict", "count"}
    BY <1>0, <1>2 DEF Take, MakeDir, CreateTmp, Fill, Release, WriterTo
  <2>3. Kept(p)' = Kept(p)
    BY <2>1 DEF Kept
  <2> QED  BY <1>1, <2>1, <2>2, <2>3, OffPass
<1>3. CASE CleanUp(p)
  <2>1. UNCHANGED <<used, missed>> /\ wpc[p] # "count" /\ mine'[p] = mine[p]
    BY <1>0, <1>3 DEF CleanUp, Unlink, estimate
  <2>2. wpc'[p] \notin {"size", "stat", "evict", "count"}
    BY <1>0, <1>3 DEF CleanUp, WriterTo
  <2>3. Kept(p)' = Kept(p)
    BY <2>1 DEF Kept
  <2> QED  BY <1>1, <2>1, <2>2, <2>3, OffPass
<1>4. CASE Count(p)
  <2>1. /\ used'[p] = used[p] + Size[job[p]] /\ wpc[p] = "count" /\ mine'[p] = mine[p]
        /\ missed'[p] = missed[p]
    BY <1>0, <1>4 DEF Count, disk
  <2>2. wpc'[p] \notin {"size", "stat", "evict", "count"}
    BY <1>0, <1>4 DEF Count, WriterTo
  <2>3. Kept(p)' = Kept(p)
    BY <2>1 DEF Kept
  <2> QED  BY <1>1, <2>1, <2>2, <2>3, OffPass
<1>5. CASE Rename(p)
  <2>1. UNCHANGED <<used, job>> /\ wpc[p] # "count"
    BY <1>5 DEF Rename
  <2>2. CASE WriterTo(p, "clean") /\ UNCHANGED <<file, mine, missed>>
    <3>1. wpc'[p] = "clean" /\ Kept(p)' = Kept(p)
      BY <1>0, <2>2 DEF WriterTo, Kept
    <3> QED  BY <1>1, <2>1, <3>1, OffPass
  <2>3. CASE /\ mine' = [q \in Procs |-> IF q = p THEN mine[q] \cup {job[p]}
                                                 ELSE mine[q] \ {job[p]}]
             /\ missed' = [missed EXCEPT ![p] = @ \ {job[p]}]
             /\ WriterTo(p, "count")
    <3>1. wpc'[p] = "count" /\ Kept(p)' = Kept(p) \cup {job[p]} /\ Kept(p) \subseteq Entries
      BY <1>0, <2>3 DEF WriterTo, Kept
    <3> DEFINE K == Kept(p)
    <3>2. /\ IsFiniteSet(K) /\ Total(K, Size) \in Nat
          /\ \A e \in K \cup {job[p]} : Size[e] \in Nat
      BY <1>0, <3>1, EntriesTotal, SizeType
    <3>3. Total(K \cup {job[p]}, Size) <= Total(K, Size) + Size[job[p]]
      <4> HIDE DEF K
      <4> QED  BY <3>2, TotalAddAtMost
    <3>4. Total(K \cup {job[p]}, Size) \in Nat
      <4>1. K \cup {job[p]} \subseteq Entries
        BY <1>0, <3>1
      <4> HIDE DEF K
      <4> QED  BY <4>1, EntriesTotal
    <3>5. used[p] + Size[job[p]] >= Total(K \cup {job[p]}, Size)
      BY <1>0, <1>1, <2>1, <3>2, <3>3, <3>4
    <3> QED  BY <2>1, <3>1, <3>5 DEF Covers, AllFound, ListingComplete, SizesCover, UsedCovers
  <2> QED  BY <1>5, <2>2, <2>3 DEF Rename
<1>6. CASE End(p)
  <2>1. used'[p] = 0 /\ mine'[p] = {} /\ wpc'[p] = "recv"
    BY <1>0, <1>6 DEF End, WriterTo
  <2>2. Kept(p)' = {} /\ Total({}, Size) = 0
    BY <2>1, TotalEmpty DEF Kept
  <2> QED  BY <2>1, <2>2, OffPass
<1> QED  BY <1>2, <1>3, <1>4, <1>5, <1>6

\* A pass lists the root, and each directory as it is then; a size it reads covers what the
\* process has there, and one it cannot read leaves the directory out.
LEMMA ScanCovers ==
  ASSUME NEW p \in Procs, IInv, InPlace, Covers(p), ScanRoot(p) \/ ListDir(p) \/ StatDir(p)
  PROVE  Covers(p)'
<1>0. /\ Final \in Names /\ mine[p] \subseteq Entries
      /\ wpc \in [Procs -> {"recv", "mkdir", "create", "fill", "rename", "clean", "count",
                            "release", "scan", "size", "stat", "evict"}]
      /\ scan \in [Procs -> SUBSET Docs] /\ found \in [Procs -> SUBSET Docs]
      /\ sizes \in [Procs -> [Docs -> Nat]]
      /\ listing \in [Procs -> [dir : Docs, files : SUBSET (Entries \X Names)]]
      /\ unread \in [Procs -> SUBSET Docs]
  BY DEF IInv, Types, DiskTypes, Names
<1>1. AllFound(p) /\ ListingComplete(p) /\ SizesCover(p) /\ UsedCovers(p)
  BY DEF Covers
<1>2. UNCHANGED <<file, dirs, mine, used, missed>> /\ wpc[p] \in {"scan", "size", "stat"}
  BY DEF ScanRoot, ListDir, StatDir, disk, estimate
<1>3. used'[p] >= Total(Kept(p)', Size)
  BY <1>1, <1>2 DEF UsedCovers, Kept
<1>4. CASE wpc'[p] = "release"
  BY <1>3, <1>4, OffPass
<1>5. ASSUME wpc'[p] \in {"size", "stat"}
      PROVE  UsedCovers(p)'
  BY <1>3, <1>5 DEF UsedCovers
<1>6. CASE ScanRoot(p) /\ wpc'[p] # "release"
  <2>1. scan'[p] = dirs /\ found'[p] = dirs /\ wpc'[p] = "size"
    BY <1>0, <1>6 DEF ScanRoot, WriterTo
  <2>2. \A e \in mine[p] : DocOf[e] \in dirs
    BY <1>0 DEF InPlace
  <2> QED  BY <1>2, <1>5, <2>1, <2>2 DEF Covers, AllFound, ListingComplete, SizesCover
<1>7. ASSUME NEW d \in Docs, NEW c \in [Docs -> Nat],
             \A x \in Docs \ {d} : c[x] = sizes[p][x],
             sizes'[p] = c, found'[p] = found[p], wpc'[p] = "size", wpc[p] # "scan",
             \A x \in found[p] : x \in scan'[p] \/ x = d
                                \/ sizes[p][x] >= Total(InDir(Readable(p), x), Size),
             \/ unread'[p] = unread[p] /\ c[d] >= Total(InDir(Readable(p), d), Size)
             \/ unread'[p] = unread[p] \cup {d},
             scan'[p] \subseteq scan[p]
      PROVE  Covers(p)'
  <2>1. Readable(p)' \subseteq Readable(p) /\ Readable(p) \subseteq Entries
    BY <1>0, <1>2, <1>7 DEF Readable
  <2>2. AllFound(p)' /\ ListingComplete(p)' /\ UsedCovers(p)'
    BY <1>1, <1>2, <1>5, <1>7 DEF AllFound, ListingComplete
  <2>3. ASSUME NEW x \in found[p], x \notin scan'[p]
        PROVE  c[x] >= Total(InDir(Readable(p)', x), Size)
    <3>1. /\ InDir(Readable(p)', x) \subseteq InDir(Readable(p), x)
          /\ InDir(Readable(p), x) \subseteq Entries /\ InDir(Readable(p)', x) \subseteq Entries
      BY <2>1 DEF InDir
    <3>2. /\ Total(InDir(Readable(p)', x), Size) <= Total(InDir(Readable(p), x), Size)
          /\ Total(InDir(Readable(p)', x), Size) \in Nat
          /\ Total(InDir(Readable(p), x), Size) \in Nat
      BY <3>1, EntriesPart, EntriesTotal
    <3>3. x \in Docs /\ c[x] \in Nat
      BY <1>0, <1>7, <2>3
    <3>4. CASE c[x] >= Total(InDir(Readable(p), x), Size)
      BY <3>2, <3>3, <3>4
    <3>5. CASE unread'[p] = unread[p] \cup {d} /\ x = d
      <4>1. InDir(Readable(p)', x) = {}
        BY <3>5 DEF InDir, Readable
      <4> QED  BY <3>3, <4>1, TotalEmpty
    <3>6. x = d \/ c[x] >= Total(InDir(Readable(p), x), Size)
      BY <1>7, <2>3, <3>3
    <3> QED  BY <1>7, <3>4, <3>5, <3>6
  <2>4. Counted(p)' = Readable(p)'
    BY <1>7 DEF Counted
  <2>5. SizesCover(p)'
    BY <1>7, <2>3, <2>4 DEF SizesCover
  <2> QED  BY <2>2, <2>5 DEF Covers
<1>8. CASE ListDir(p)
  <2>1. wpc[p] = "size" /\ UNCHANGED <<found, sizes>>
    BY <1>8 DEF ListDir
  <2>2. PICK d \in scan[p] :
          \/ /\ listing' = [listing EXCEPT ![p] = [dir |-> d, files |-> FilesIn(d)]]
             /\ scan' = [scan EXCEPT ![p] = @ \ {d}]
             /\ WriterTo(p, "stat")
             /\ UNCHANGED unread
          \/ WriterTo(p, "release")
          \/ /\ CountsNothing(p, d)
             /\ scan' = [scan EXCEPT ![p] = @ \ {d}]
             /\ UNCHANGED <<listing, wpc>>
    BY <1>8 DEF ListDir
  <2>3. Counted(p) = Readable(p) /\ d \in Docs
    BY <1>0, <2>1 DEF Counted
  <2>4. CASE WriterTo(p, "release")
    BY <1>0, <1>4, <2>4 DEF WriterTo
  <2>5. CASE /\ CountsNothing(p, d)
             /\ scan' = [scan EXCEPT ![p] = @ \ {d}]
             /\ UNCHANGED <<listing, wpc>>
    <3>1. /\ unread'[p] = unread[p] \cup {d} /\ scan'[p] = scan[p] \ {d} /\ wpc'[p] = "size"
          /\ sizes'[p] = sizes[p] /\ found'[p] = found[p] /\ sizes[p] \in [Docs -> Nat]
      BY <1>0, <2>1, <2>5 DEF CountsNothing
    <3>2. \A x \in found[p] : x \in scan'[p] \/ x = d
                             \/ sizes[p][x] >= Total(InDir(Readable(p), x), Size)
      BY <1>1, <2>1, <2>3, <3>1 DEF SizesCover
    <3> QED  BY <1>7, <2>1, <2>3, <3>1, <3>2
  <2>6. CASE /\ listing' = [listing EXCEPT ![p] = [dir |-> d, files |-> FilesIn(d)]]
             /\ scan' = [scan EXCEPT ![p] = @ \ {d}]
             /\ WriterTo(p, "stat")
             /\ UNCHANGED unread
    <3>1. /\ listing'[p].dir = d /\ listing'[p].files = FilesIn(d)
          /\ scan'[p] = scan[p] \ {d} /\ wpc'[p] = "stat"
      BY <1>0, <2>6 DEF WriterTo
    <3>2. \A e \in InDir(mine[p], d) : <<e, Final>> \in FilesIn(d)
      BY <1>0 DEF InDir, FilesIn, InPlace
    <3>3. ListingComplete(p)' /\ AllFound(p)'
      BY <1>1, <1>2, <2>1, <3>1, <3>2 DEF ListingComplete, AllFound
    <3>4. Counted(p)' = Readable(p)
      BY <1>2, <2>6, <3>1 DEF Counted, Readable
    <3>5. SizesCover(p)'
      BY <1>1, <2>1, <2>3, <3>1, <3>4 DEF SizesCover
    <3> QED  BY <1>5, <3>1, <3>3, <3>5 DEF Covers
  <2> QED  BY <2>2, <2>4, <2>5, <2>6
<1>9. CASE StatDir(p)
  <2> DEFINE F == listing[p].files
             d == listing[p].dir
  <2>1. /\ wpc[p] = "stat" /\ UNCHANGED <<found, scan>> /\ d \in Docs /\ F \subseteq Entries \X Names
        /\ \A e \in InDir(mine[p], d) : <<e, Final>> \in F
    BY <1>0, <1>1, <1>9 DEF StatDir, ListingComplete
  <2>2. /\ wpc'[p] = "size" /\ scan'[p] = scan[p] /\ found'[p] = found[p]
        /\ Counted(p) = Readable(p)
    BY <1>0, <1>9, <2>1 DEF StatDir, WriterTo, Counted
  <2>3. \A x \in found[p] : x \in scan'[p] \/ x = d
                           \/ sizes[p][x] >= Total(InDir(Readable(p), x), Size)
    BY <1>1, <2>1, <2>2 DEF SizesCover
  <2>4. CASE CountsNothing(p, d) /\ UNCHANGED sizes
    <3>1. unread'[p] = unread[p] \cup {d} /\ sizes'[p] = sizes[p] /\ sizes[p] \in [Docs -> Nat]
      BY <1>0, <2>4 DEF CountsNothing
    <3> HIDE DEF d, F
    <3> QED  BY <1>7, <2>1, <2>2, <2>3, <3>1
  <2>5. ASSUME NEW begun \in SUBSET Incomplete(F), UNCHANGED unread,
               sizes' = [sizes EXCEPT ![p][d] = Bytes((F \ Incomplete(F)) \cup begun)]
        PROVE  Covers(p)'
    <3> DEFINE G == (F \ Incomplete(F)) \cup begun
    <3>1. G \subseteq Entries \X Names /\ \A e \in InDir(Readable(p), d) : <<e, Final>> \in G
      <4>1. \A e \in Entries : file[e][Final] # "part"
        BY DEF IInv, FilesInv, NoEntryTorn
      <4>2. \A e \in InDir(Readable(p), d) : e \in Entries /\ e \in InDir(mine[p], d)
        BY <1>0 DEF InDir, Readable
      <4> QED  BY <2>1, <4>1, <4>2 DEF Incomplete
    <3>2. InDir(Readable(p), d) \subseteq Entries
      BY <1>0 DEF InDir, Readable
    <3> HIDE DEF G, d, F
    <3>3. Total(InDir(Readable(p), d), Size) <= Bytes(G) /\ Bytes(G) \in Nat
      BY <3>1, <3>2, BytesCover, BytesType
    <3>4. Total(InDir(Readable(p), d), Size) \in Nat
      BY <3>2, EntriesTotal
    <3>5. sizes'[p][d] = Bytes(G) /\ \A x \in Docs \ {d} : sizes'[p][x] = sizes[p][x]
      BY <1>0, <2>1, <2>5 DEF G
    <3>6. sizes'[p] \in [Docs -> Nat] /\ sizes'[p][d] >= Total(InDir(Readable(p), d), Size)
      BY <1>0, <2>1, <2>5, <3>3, <3>4, <3>5 DEF G
    <3> QED  BY <1>7, <2>1, <2>2, <2>3, <2>5, <3>5, <3>6
  <2> QED  BY <1>9, <2>4, <2>5 DEF StatDir
<1> QED  BY <1>4, <1>6, <1>8, <1>9

\* At the end of a scan every directory has been sized or left out, and what was written is
\* in them.
LEMMA ReconcileCovers ==
  ASSUME NEW p \in Procs, IInv, Covers(p), Reconcile(p)
  PROVE  Covers(p)'
<1> DEFINE M == Readable(p)
           D == found[p]
           w == sizes[p]
<1>0. /\ M \subseteq Entries /\ D \subseteq Docs
      /\ wpc \in [Procs -> {"recv", "mkdir", "create", "fill", "rename", "clean", "count",
                            "release", "scan", "size", "stat", "evict"}]
      /\ used \in [Procs -> Int] /\ missed \in [Procs -> SUBSET Entries]
      /\ \A d \in Docs : w[d] \in Nat
  BY DEF IInv, Types, DiskTypes, Readable
<1>1. /\ UNCHANGED <<mine, found, sizes, unread>> /\ missed'[p] = mine[p] \ M
      /\ used'[p] = Total(Docs, w) /\ wpc[p] = "size" /\ wpc'[p] = "evict" /\ scan[p] = {}
  BY <1>0 DEF Reconcile, WriterTo, disk, pass, Readable
<1>2. Kept(p)' = M /\ Counted(p)' = M /\ Counted(p) = M
  BY <1>1 DEF Kept, Counted, Readable
<1>3. \A d \in D : w[d] \in Nat /\ w[d] >= Total(InDir(M, d), Size)
  BY <1>0, <1>1, <1>2 DEF Covers, SizesCover
<1>4. OutOf(M, D) = {}
  BY <1>1 DEF Covers, AllFound, OutOf, Readable
<1>5. SizesCover(p)' /\ AllFound(p)' /\ ListingComplete(p)'
  BY <1>1, <1>2, <1>3 DEF SizesCover, AllFound, ListingComplete
<1> HIDE DEF M, D, w
<1>6. Total(D, w) <= Total(Docs, w) /\ Total(Docs, w) \in Nat
  BY <1>0, DocsFinite, TotalPart, TotalType
<1>7. /\ Total(D, w) \in Nat
      /\ Total(M, Size) <= Total(D, w) + Total(OutOf(M, D), Size)
  BY <1>0, <1>3, DocsCover
<1>8. Total(OutOf(M, D), Size) = 0 /\ Total(M, Size) \in Nat
  BY <1>0, <1>4, TotalEmpty, EntriesTotal
<1>9. /\ used'[p] >= Total(D, w) + Total(OutOf(M, D), Size)
      /\ used'[p] >= Total(M, Size)
  BY <1>1, <1>6, <1>7, <1>8
<1>10. UsedCovers(p)'
  BY <1>1, <1>2, <1>9 DEF UsedCovers, D, w
<1> QED  BY <1>5, <1>10 DEF Covers

\* A directory that goes takes from the estimate what it was found to hold, and all that the
\* process wrote there with it; one that stays leaves the estimate.
LEMMA EvictCovers ==
  ASSUME NEW p \in Procs, IInv, InPlace, Covers(p), Evict(p)
  PROVE  Covers(p)'
<1> DEFINE M == Kept(p)
           N == Kept(p)'
           D == found[p]
           w == sizes[p]
<1>0. /\ Final \in Names /\ M \subseteq Entries /\ D \subseteq Docs
      /\ wpc \in [Procs -> {"recv", "mkdir", "create", "fill", "rename", "clean", "count",
                            "release", "scan", "size", "stat", "evict"}]
      /\ found \in [Procs -> SUBSET Docs]
      /\ used \in [Procs -> Int] /\ \A d \in Docs : w[d] \in Nat
  BY DEF IInv, Types, DiskTypes, Names, Kept
<1>1. UNCHANGED <<sizes, scan, listing, missed>> /\ wpc[p] = "evict" /\ Counted(p) = M
  BY DEF Evict, Counted
<1>2. /\ used[p] >= Total(M, Size)
      /\ used[p] >= Total(D, w) + Total(OutOf(M, D), Size)
      /\ \A d \in D : w[d] >= Total(InDir(M, d), Size)
  BY <1>1 DEF Covers, UsedCovers, SizesCover
<1>3. CASE EvictDone(p)
  <2>1. UNCHANGED <<used, mine>> /\ wpc'[p] = "release"
    BY <1>0, <1>3 DEF EvictDone, WriterTo, disk
  <2>2. N = M
    BY <1>1, <2>1 DEF Kept
  <2> QED  BY <1>2, <2>1, <2>2, OffPass
<1>4. ASSUME NEW d \in D, NEW F \in SUBSET FilesIn(d), Unlink(F),
             found' = [found EXCEPT ![p] = @ \ {d}], UNCHANGED wpc,
             used'[p] = used[p] \/ (F = FilesIn(d) /\ used'[p] = used[p] - w[d])
      PROVE  Covers(p)'
  <2>1. /\ N = { e \in M : <<e, Final>> \notin F } /\ found'[p] = D \ {d} /\ wpc'[p] = "evict"
        /\ N \subseteq M
    BY <1>0, <1>1, <1>4 DEF Unlink, Kept
  <2>2. ASSUME F = FilesIn(d)
        PROVE  OutOf(N, D \ {d}) \subseteq OutOf(M, D)
    <3>1. \A e \in M : DocOf[e] = d => <<e, Final>> \in FilesIn(d)
      BY <1>0 DEF InPlace, FilesIn, Kept
    <3> QED  BY <2>1, <2>2, <3>1 DEF OutOf
  <2>3. /\ OutOf(N, D \ {d}) \subseteq OutOf(M, D) \cup InDir(M, d)
        /\ \A c \in D : InDir(N, c) \subseteq InDir(M, c)
    BY <2>1 DEF OutOf, InDir
  <2>4. /\ OutOf(M, D) \subseteq Entries /\ OutOf(N, D \ {d}) \subseteq Entries
        /\ \A c \in D : InDir(M, c) \subseteq Entries /\ InDir(N, c) \subseteq Entries
    BY <1>0, <2>1 DEF OutOf, InDir
  <2>5. used'[p] = used[p] \/ (F = FilesIn(d) /\ used'[p] = used[p] - w[d])
    BY <1>4
  <2>6. used[p] \in Int /\ w[d] \in Nat /\ \A c \in D : w[c] \in Nat
    BY <1>0
  <2> HIDE DEF M, N, D, w
  <2>7. ASSUME NEW c \in D
        PROVE  w[c] >= Total(InDir(N, c), Size)
    <3>1. Total(InDir(N, c), Size) <= Total(InDir(M, c), Size)
      BY <2>3, <2>4, EntriesPart
    <3>2. Total(InDir(N, c), Size) \in Nat /\ Total(InDir(M, c), Size) \in Nat
      BY <2>4, EntriesTotal
    <3> QED  BY <1>2, <2>6, <3>1, <3>2
  <2>8. /\ Total(D \ {d}, w) = Total(D, w) - w[d]
        /\ Total(D, w) \in Nat /\ Total(D \ {d}, w) \in Nat
    <3>1. IsFiniteSet(D) /\ IsFiniteSet(D \ {d})
      BY <1>0, DocsFinite, FS_Subset
    <3> QED  BY <2>6, <3>1, TotalRemove, TotalType
  <2>9. /\ Total(OutOf(M, D), Size) \in Nat /\ Total(OutOf(N, D \ {d}), Size) \in Nat
        /\ Total(InDir(M, d), Size) \in Nat
    BY <2>4, EntriesTotal
  <2>10. F = FilesIn(d) => Total(OutOf(N, D \ {d}), Size) <= Total(OutOf(M, D), Size)
    BY <2>2, <2>4, EntriesPart
  <2>11. Total(OutOf(N, D \ {d}), Size) <= Total(OutOf(M, D), Size) + Total(InDir(M, d), Size)
    <3>1. OutOf(M, D) \cup InDir(M, d) \subseteq Entries
      BY <2>4
    <3>2. Total(OutOf(N, D \ {d}), Size) <= Total(OutOf(M, D) \cup InDir(M, d), Size)
      BY <2>3, <3>1, EntriesPart
    <3>3. IsFiniteSet(OutOf(M, D)) /\ IsFiniteSet(InDir(M, d))
      BY <2>4, EntriesTotal
    <3>4. \A e \in OutOf(M, D) \cup InDir(M, d) : Size[e] \in Nat
      BY <3>1, EntriesTotal
    <3>5. Total(OutOf(M, D) \cup InDir(M, d), Size)
            <= Total(OutOf(M, D), Size) + Total(InDir(M, d), Size)
      BY <3>3, <3>4, TotalSplit
    <3>6. Total(OutOf(M, D) \cup InDir(M, d), Size) \in Nat
      BY <3>1, EntriesTotal
    <3> QED  BY <2>9, <3>2, <3>5, <3>6
  <2>12. used'[p] >= Total(D \ {d}, w) + Total(OutOf(N, D \ {d}), Size)
    <3>1. w[d] >= Total(InDir(M, d), Size)
      BY <1>2
    <3>2. CASE used'[p] = used[p]
      BY <1>2, <2>6, <2>8, <2>9, <2>11, <3>1, <3>2
    <3>3. CASE F = FilesIn(d) /\ used'[p] = used[p] - w[d]
      BY <1>2, <2>6, <2>8, <2>9, <2>10, <3>3
    <3> QED  BY <2>5, <3>2, <3>3
  <2>13. Total(N, Size) <= Total(D \ {d}, w) + Total(OutOf(N, D \ {d}), Size)
    <3>1. N \subseteq Entries /\ D \ {d} \subseteq Docs
      BY <1>0, <2>1
    <3> QED  BY <2>6, <2>7, <3>1, DocsCover
  <2>14. Total(N, Size) \in Nat /\ used'[p] \in Int
    <3>1. N \subseteq Entries
      BY <1>0, <2>1
    <3> QED  BY <2>5, <2>6, <3>1, EntriesTotal
  <2>15. used'[p] >= Total(N, Size)
    BY <2>8, <2>9, <2>12, <2>13, <2>14
  <2>16. UsedCovers(p)'
    BY <1>1, <2>1, <2>12, <2>15 DEF UsedCovers, N, w
  <2>17. SizesCover(p)'
    <3>1. Counted(p)' = N
      BY <2>1 DEF Counted, N
    <3> QED  BY <1>1, <2>1, <2>7, <3>1 DEF SizesCover, w
  <2> QED  BY <2>1, <2>16, <2>17 DEF Covers, AllFound, ListingComplete
<1>5. ASSUME NEW d \in D, Removed(p, d)
      PROVE  Covers(p)'
  <2>1. used'[p] = used[p] - w[d]
    BY <1>0, <1>5 DEF Removed
  <2>2. Unlink(FilesIn(d)) /\ found' = [found EXCEPT ![p] = @ \ {d}] /\ UNCHANGED wpc
    BY <1>5 DEF Removed
  <2>3. FilesIn(d) \in SUBSET FilesIn(d)
    OBVIOUS
  <2> HIDE DEF D, w
  <2> QED  BY <1>4, <2>1, <2>2, <2>3
<1>6. ASSUME NEW d \in D, PassedOver(p, d)
      PROVE  Covers(p)'
  <2>1. used'[p] = used[p] /\ found' = [found EXCEPT ![p] = @ \ {d}] /\ UNCHANGED wpc
    BY <1>6 DEF PassedOver
  <2>2. PICK F \in SUBSET FilesIn(d) : Unlink(F)
    BY <1>6 DEF PassedOver
  <2>3. F \in SUBSET FilesIn(d)
        /\ (used'[p] = used[p] \/ (F = FilesIn(d) /\ used'[p] = used[p] - w[d]))
    BY <2>1, <2>2
  <2> HIDE DEF D, w
  <2> QED  BY <1>4, <2>1, <2>2, <2>3
<1> QED  BY <1>3, <1>5, <1>6 DEF Evict

\* The step of a process or of a thread leaves the others' counts as they are.
LEMMA OthersCovers ==
  ASSUME IInv, NEW p \in Procs, Covers(p), NEW q \in Procs, q # p,
         WriterStep(q) \/ Start(q) \/ Drop(q) \/ Crash(q)
  PROVE  Covers(p)'
<1>0. Types
  BY DEF IInv
<1>1. mine'[p] \subseteq mine[p]
  <2>1. \/ UNCHANGED mine
        \/ \E F : Unlink(F)
        \/ \E e : mine' = [r \in Procs |-> IF r = q THEN mine[r] \cup {e} ELSE mine[r] \ {e}]
        \/ mine' = [mine EXCEPT ![q] = {}]
    BY DEF WriterStep, Take, MakeDir, CreateTmp, Fill, Rename, CleanUp, Count, Release, Joined,
           ScanRoot, ListDir, StatDir, Reconcile, Evict, EvictDone, Removed, PassedOver,
           Start, Drop, Crash, End, disk
  <2>2. mine \in [Procs -> SUBSET Entries]
    BY <1>0 DEF Types, DiskTypes
  <2>3. CASE \E F : Unlink(F)
    BY <2>3 DEF Unlink
  <2>4. CASE \E e : mine' = [r \in Procs |-> IF r = q THEN mine[r] \cup {e} ELSE mine[r] \ {e}]
    BY <2>4
  <2>5. CASE mine' = [mine EXCEPT ![q] = {}]
    BY <2>2, <2>5
  <2> QED  BY <2>1, <2>3, <2>4, <2>5
<1>2. wpc'[p] = wpc[p] /\ job'[p] = job[p]
  BY <1>0 DEF WriterStep, Take, MakeDir, CreateTmp, Fill, Rename, CleanUp, Count, Release, Joined,
         ScanRoot, ListDir, StatDir, Reconcile, Evict, EvictDone, Removed, PassedOver,
         Start, Drop, Crash, End, WriterTo, writer, Types
<1>3. missed'[p] = missed[p] /\ used'[p] = used[p]
  BY <1>0 DEF WriterStep, Take, MakeDir, CreateTmp, Fill, Rename, CleanUp, Count, Release, Joined,
         ScanRoot, ListDir, StatDir, Reconcile, Evict, EvictDone, Removed, PassedOver,
         Start, Drop, Crash, End, writer, estimate, Types
<1>4. scan'[p] = scan[p] /\ found'[p] = found[p]
  BY <1>0 DEF WriterStep, Take, MakeDir, CreateTmp, Fill, Rename, CleanUp, Count, Release, Joined,
         ScanRoot, ListDir, StatDir, Reconcile, Evict, EvictDone, Removed, PassedOver,
         Start, Drop, Crash, End, writer, pass, Types
<1>5. sizes'[p] = sizes[p]
  BY <1>0 DEF WriterStep, Take, MakeDir, CreateTmp, Fill, Rename, CleanUp, Count, Release, Joined,
         ScanRoot, ListDir, StatDir, Reconcile, Evict, Start, Drop, Crash, End, writer, pass, Types
<1>6. listing'[p] = listing[p] /\ unread'[p] = unread[p]
  BY <1>0 DEF WriterStep, Take, MakeDir, CreateTmp, Fill, Rename, CleanUp, Count, Release, Joined,
         ScanRoot, ListDir, StatDir, Reconcile, Evict, CountsNothing,
         Start, Drop, Crash, End, writer, pass, Types
<1> QED  BY <1>1, <1>2, <1>3, <1>4, <1>5, <1>6, LossCovers

\* The estimate covers what was written at every step.
LEMMA CoverNext == IInv /\ CoverInv /\ [Next]_vars => CoverInv'
<1> SUFFICES ASSUME IInv, CoverInv, [Next]_vars PROVE CoverInv'
  OBVIOUS
<1>1. ASSUME UNCHANGED <<used, missed, wpc, job, scan, found, sizes, listing, unread>>,
             \A p \in Procs : mine'[p] \subseteq mine[p]
      PROVE  \A p \in Procs : Covers(p)'
  BY <1>1, LossCovers DEF CoverInv
<1>2. CASE UNCHANGED vars
  <2>1. UNCHANGED <<file, dirs, mine, used, missed, wpc, job, scan, found, sizes, listing, unread>>
    BY <1>2 DEF vars, disk, pass, estimate, writer
  <2> QED  BY <1>1, <2>1 DEF CoverInv, InPlace
<1>3. CASE Next
  <2>1. ASSUME NEW p \in Procs, NEW q \in Procs, WriterStep(q) \/ Start(q) \/ Drop(q) \/ Crash(q)
        PROVE  Covers(p)'
    <3>1. CASE q # p
      BY <2>1, <3>1, OthersCovers DEF CoverInv
    <3>2. CASE q = p /\ (Start(p) \/ Drop(p))
      <4>1. UNCHANGED <<mine, used, missed, wpc, job, scan, found, sizes, listing, unread>>
        BY <3>2 DEF Start, Drop, disk, writer, pass, estimate
      <4> QED  BY <1>1, <4>1
    <3>3. CASE q = p /\ (WriterStep(p) \/ Crash(p))
      BY <3>3, WriteCovers, ScanCovers, ReconcileCovers, EvictCovers
         DEF CoverInv, WriterStep, Joined, Crash
    <3> QED  BY <2>1, <3>1, <3>2, <3>3
  <2>2. ASSUME NEW t \in Threads, ThreadStep(t) \/ \E e \in Entries : Insert(t, e) \/ Lookup(t, e)
        PROVE  \A p \in Procs : Covers(p)'
    <3>1. UNCHANGED <<used, missed, wpc, job, scan, found, sizes, listing, unread>>
      BY <2>2 DEF ThreadStep, Add, Send, Undo, RemoveBad, Insert, Lookup, writer, pass, estimate
    <3>2. \A p \in Procs : mine'[p] \subseteq mine[p]
      <4>1. UNCHANGED mine \/ \E F : Unlink(F)
        BY <2>2 DEF ThreadStep, Add, Send, Undo, RemoveBad, Insert, Lookup, disk
      <4> QED  BY <4>1 DEF Unlink
    <3> QED  BY <1>1, <3>1, <3>2
  <2>3. InPlace'
    BY <1>3, InPlaceStep DEF CoverInv
  <2> QED  BY <1>3, <2>1, <2>2, <2>3 DEF Next, CoverInv
<1> QED  BY <1>2, <1>3

\* The first state: nothing is counted, and what is on the disk is no process's.
LEMMA CoverInit == Init => CoverInv
<1> SUFFICES ASSUME Init PROVE CoverInv
  OBVIOUS
<1>1. ASSUME NEW p \in Procs
      PROVE  Covers(p)
  <2>1. mine[p] = {} /\ used[p] = 0 /\ wpc[p] = "recv"
    BY DEF Init
  <2>2. Total(Kept(p), Size) = 0
    BY <2>1, TotalEmpty DEF Kept
  <2> QED  BY <2>1, <2>2 DEF Covers, AllFound, ListingComplete, SizesCover, UsedCovers
<1>2. InPlace
  BY DEF Init, InPlace
<1> QED  BY <1>1, <1>2 DEF CoverInv

\* For any processes, threads, entries, documents, sizes and limits: the estimate of a process
\* covers what it has written and is still there (WriterState), all but what its last
\* reconciliation left out for an error; so a write that passes the budget starts an eviction,
\* whatever other processes and lookups remove, and whatever fails or is killed.
THEOREM EstimateCoversHolds == Spec => []EstimateCovers
<1>1. CoverInv => EstimateCovers
  BY DEF CoverInv, Covers, UsedCovers, EstimateCovers, Kept
<1>2. IInv /\ CoverInv /\ [Next]_vars => (IInv /\ CoverInv)'
  BY NextInv, CoverNext
<1>3. Init => IInv /\ CoverInv
  BY InitInv, CoverInit
<1> QED  BY <1>1, <1>2, <1>3, PTL DEF Spec
=============================================================================
