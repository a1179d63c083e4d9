-------------------------- MODULE PageRecorderProofs ------------------------
(* Theorems about PageRecorder, for any threads, scratches and failures:   *)
(* the host touches nothing the device uses, pools are reset only when it  *)
(* runs none of their work, and a scratch is lent to one fill.             *)
EXTENDS PageRecorder, SequenceTheorems, FunctionTheorems, FiniteSetTheorems, TLAPS

-----------------------------------------------------------------------------
(* The queue of the device: a sequence of works, one page in it at most    *)

Elements(s) == {s[i] : i \in 1..Len(s)}
PagesOnce(s) == \A i, j \in 1..Len(s) : s[i].value > 0 /\ s[j].value > 0 => i = j

\* A submission adds one work to those in flight.
LEMMA Submitting ==
  ASSUME NEW S, NEW s \in Seq(S), NEW w \in S
  PROVE  /\ Append(s, w) \in Seq(S)
         /\ Elements(Append(s, w)) = Elements(s) \cup {w}
<1>1. /\ Append(s, w) \in Seq(S) /\ Len(Append(s, w)) = Len(s) + 1
      /\ Len(s) \in Nat
      /\ \A i \in 1..Len(s) : Append(s, w)[i] = s[i]
      /\ Append(s, w)[Len(s) + 1] = w
  BY AppendProperties, LenProperties
<1> QED BY <1>1 DEF Elements

\* A page submitted when there is none is the only one.
LEMMA SubmittingPage ==
  ASSUME NEW S, NEW s \in Seq(S), NEW w \in S,
         \A v \in Elements(s) : ~(v.value > 0)
  PROVE  PagesOnce(Append(s, w))
<1>1. /\ Len(Append(s, w)) = Len(s) + 1 /\ Len(s) \in Nat
      /\ \A i \in 1..Len(s) : Append(s, w)[i] = s[i]
  BY AppendProperties, LenProperties
<1>2. \A i \in 1..Len(s) : ~(Append(s, w)[i].value > 0)
  BY <1>1 DEF Elements
<1> QED BY <1>1, <1>2 DEF PagesOnce

\* A copy beside a page.
LEMMA SubmittingCopy ==
  ASSUME NEW S, NEW s \in Seq(S), NEW w \in S, PagesOnce(s), ~(w.value > 0)
  PROVE  PagesOnce(Append(s, w))
<1>1. /\ Len(Append(s, w)) = Len(s) + 1 /\ Len(s) \in Nat
      /\ \A i \in 1..Len(s) : Append(s, w)[i] = s[i]
      /\ Append(s, w)[Len(s) + 1] = w
  BY AppendProperties, LenProperties
<1> QED BY <1>1 DEF PagesOnce

\* The device completes the first; after a page there is no other.
LEMMA Completing ==
  ASSUME NEW S, NEW s \in Seq(S), s # <<>>
  PROVE  /\ Tail(s) \in Seq(S)
         /\ Head(s) \in Elements(s)
         /\ Elements(Tail(s)) \subseteq Elements(s)
         /\ PagesOnce(s) => PagesOnce(Tail(s))
         /\ PagesOnce(s) /\ Head(s).value > 0
              => \A w \in Elements(Tail(s)) : ~(w.value > 0)
<1>1. /\ Tail(s) \in Seq(S) /\ Len(Tail(s)) = Len(s) - 1 /\ Head(s) = s[1]
      /\ \A i \in 1..Len(Tail(s)) : Tail(s)[i] = s[i + 1]
      /\ Len(s) \in Nat /\ Len(s) > 0
  BY HeadTailProperties, EmptySeq, LenProperties
<1>2. \A i \in 1..Len(Tail(s)) : i + 1 \in 1..Len(s) /\ i + 1 # 1
  BY <1>1
<1>3. Head(s) \in Elements(s) /\ Elements(Tail(s)) \subseteq Elements(s)
  BY <1>1, <1>2 DEF Elements
<1>4. PagesOnce(s) => PagesOnce(Tail(s))
  BY <1>1, <1>2 DEF PagesOnce
<1>5. ASSUME PagesOnce(s), Head(s).value > 0, NEW i \in 1..Len(Tail(s))
      PROVE  ~(Tail(s)[i].value > 0)
  BY <1>1, <1>2, <1>5 DEF PagesOnce
<1> QED BY <1>1, <1>3, <1>4, <1>5 DEF Elements

-----------------------------------------------------------------------------
(* The pool of scratches: a sequence without repetitions                   *)

Distinct(s) == \A i, j \in 1..Len(s) : s[i] = s[j] => i = j

\* A scratch that comes back.
LEMMA Pushing ==
  ASSUME NEW S, NEW s \in Seq(S), NEW x \in S, x \notin Elements(s), Distinct(s)
  PROVE  Distinct(Append(s, x)) /\ Len(Append(s, x)) = Len(s) + 1
<1>1. /\ Len(Append(s, x)) = Len(s) + 1 /\ Len(s) \in Nat
      /\ \A i \in 1..Len(s) : Append(s, x)[i] = s[i]
      /\ Append(s, x)[Len(s) + 1] = x
  BY AppendProperties, LenProperties
<1>2. \A i \in 1..Len(s) : s[i] # x
  BY DEF Elements
<1> QED BY <1>1, <1>2 DEF Distinct

\* The last one is lent.
LEMMA Popping ==
  ASSUME NEW S, NEW s \in Seq(S), s # <<>>, Distinct(s)
  PROVE  LET rest == SubSeq(s, 1, Len(s) - 1)
         IN  /\ rest \in Seq(S) /\ Len(rest) = Len(s) - 1 /\ Distinct(rest)
             /\ Elements(rest) \subseteq Elements(s)
             /\ s[Len(s)] \in Elements(s) \ Elements(rest)
             /\ s[Len(s)] \in S
<1> DEFINE rest == SubSeq(s, 1, Len(s) - 1)
<1>1. Len(s) \in Nat /\ Len(s) > 0 /\ Len(s) \in 1..Len(s)
  BY EmptySeq, LenProperties
<1>2. \A i \in 1..Len(s) : s[i] \in S
  BY ElementOfSeq
<1>3. /\ rest \in Seq(S) /\ Len(rest) = Len(s) - 1
      /\ \A i \in 1..(Len(s) - 1) : rest[i] = s[i]
  <2>1. \A i \in 1..(Len(s) - 1) : s[i] \in S
    BY <1>1, <1>2
  <2>2. /\ rest \in Seq(S)
        /\ Len(rest) = IF 1 <= Len(s) - 1 THEN (Len(s) - 1) - 1 + 1 ELSE 0
        /\ \A i \in 1..((Len(s) - 1) - 1 + 1) : rest[i] = s[1 + i - 1]
    BY <1>1, <2>1, SubSeqProperties
  <2>3. \A i \in 1..(Len(s) - 1) : i \in 1..((Len(s) - 1) - 1 + 1) /\ 1 + i - 1 = i
    BY <1>1
  <2> HIDE DEF rest
  <2>4. Len(rest) = Len(s) - 1
    <3>1. (Len(s) - 1) - 1 + 1 = Len(s) - 1
      BY <1>1
    <3>2. CASE 1 <= Len(s) - 1
      BY <2>2, <3>1, <3>2
    <3>3. CASE ~(1 <= Len(s) - 1)
      <4> DEFINE n == Len(s)
      <4>1. n \in Nat /\ n > 0 /\ ~(1 <= n - 1)
        BY <1>1, <3>3
      <4> HIDE DEF n
      <4>2. n - 1 = 0
        BY <4>1
      <4>3. Len(s) - 1 = 0
        BY <4>2 DEF n
      <4> QED BY <2>2, <3>3, <4>3
    <3> QED BY <3>2, <3>3
  <2>5. \A i \in 1..(Len(s) - 1) : rest[i] = s[i]
    BY <2>2, <2>3
  <2> QED BY <2>2, <2>4, <2>5
<1> HIDE DEF rest
<1>4. Distinct(rest) /\ Elements(rest) \subseteq Elements(s)
  BY <1>1, <1>3 DEF Distinct, Elements
<1>5. s[Len(s)] \in Elements(s) \ Elements(rest)
  BY <1>1, <1>3 DEF Distinct, Elements
<1> QED BY <1>1, <1>2, <1>3, <1>4, <1>5 DEF rest

-----------------------------------------------------------------------------
(* The inductive invariant                                                 *)

FillPoints == {"idle", "stage", "lock page", "begin", "record", "submit", "submitting",
               "wait", "waiting", "abandon", "abandoning", "unlock page", "put"}
InPage == FillPoints \ {"idle", "stage", "lock page", "put"}
InInner == {"submitting", "waiting", "abandoning", "quiescing", "access"}
InPool == {"lock queue", "copying"}
InQueue == {"copying"}
InStaging == {"lock pool", "lock queue", "copying", "read"}
MappedPoints == {"idle", "quiesce", "quiescing", "access"}
StagedPoints == {"idle", "lock staging"} \cup InStaging

\* A lock is held by the one of its users that is between lock and unlock.
HeldBy(lock, users, points) == \A t \in users : lock = t <=> at[t] \in points
Users(b) == {c \in Copiers : Staging[c] = b}

LocksInv ==
  /\ \A t \in Fillers : at[t] \in FillPoints
  /\ \A c \in Copiers : at[c] \in IF mapped THEN MappedPoints ELSE StagedPoints
  /\ HeldBy(page, Fillers, InPage)
  /\ HeldBy(inner, Threads, InInner)
  /\ \A b \in Buffers : HeldBy(staging[b], Users(b), InStaging)
  /\ HeldBy(cmdPool, Copiers, InPool)
  /\ HeldBy(queue, Copiers, InQueue)

\* The recorder's state at the point of the page's thread.
StateAt(p, st) ==
  /\ p \in {"begin", "unlock page"} => st = "Idle"
  /\ p \in {"record", "submit", "submitting"} => st = "Recording"
  /\ p \in {"wait", "waiting", "abandoning"} => st = "Submitted"

StateInv ==
  /\ page = Nobody => state = "Idle"
  /\ \A t \in Fillers :
       /\ StateAt(at[t], state)
       /\ at[t] \in {"wait", "waiting"} => fence[t] = lastSubmitted

\* Scratches are lent or idle, each once, and no more than there are fillers.
Borrowers == {t \in Fillers : scratch[t] # Nobody}

ScratchInv ==
  /\ \A t \in Fillers : at[t] = "idle" <=> scratch[t] = Nobody
  /\ \A t, u \in Fillers : scratch[t] = scratch[u] /\ scratch[t] # Nobody => t = u
  /\ \A t \in Fillers : scratch[t] \notin Elements(idle)
  /\ Distinct(idle)
  /\ Len(idle) + Cardinality(Borrowers) <= Cardinality(Fillers)

\* A page in flight is the one submitted last, and not signalled.
PageWork(w) ==
  /\ w.by \in Fillers /\ page = w.by /\ state = "Submitted"
  /\ w.value = lastSubmitted /\ timeline < w.value
  /\ w.uses = {scratch[w.by], Shared}

CopyWork(w) ==
  /\ w.by \in Copiers /\ at[w.by] = "copying"
  /\ w.uses = {Staging[w.by], Shared}

DeviceInv ==
  /\ \A w \in Elements(inFlight) : w.value < nextValue
  /\ ~lost =>
       /\ PagesOnce(inFlight)
       /\ \A w \in Elements(inFlight) :
            IF w.value > 0 THEN PageWork(w) ELSE CopyWork(w)
       /\ \A c \in Copiers : at[c] = "access" => timeline >= lastSubmitted

IInv == TypeOK /\ LocksInv /\ StateInv /\ ScratchInv /\ DeviceInv

-----------------------------------------------------------------------------
(* Types                                                                   *)

\* A thread moves.
LEMMA GoToTypes ==
  ASSUME TypeOK, NEW t \in Threads, NEW p \in Points, GoTo(t, p)
  PROVE  at' \in [Threads -> Points]
BY DEF GoTo, TypeOK

\* One more failure.
LEMMA FailTypes ==
  ASSUME TypeOK, Fail \/ UNCHANGED failures
  PROVE  failures' \in 0..MaxFailures
BY PageRecorderAssumption DEF Fail, TypeOK

\* There is a scratch that is neither lent nor idle when the pool is empty.
LEMMA FreshScratch ==
  ASSUME TypeOK, ScratchInv, NEW t \in Fillers, at[t] = "idle", idle = <<>>
  PROVE  NewScratch \in Scratches /\ \A u \in Fillers : scratch[u] # NewScratch
<1>1. IsFiniteSet(Fillers) /\ IsFiniteSet(Scratches)
      /\ Cardinality(Scratches) >= Cardinality(Fillers)
  BY PageRecorderAssumption
<1> DEFINE lent == {scratch[u] : u \in Borrowers}
<1>2. IsFiniteSet(Borrowers) /\ Cardinality(Borrowers) < Cardinality(Fillers)
  <2>1. Borrowers \subseteq Fillers \ {t}
    BY DEF Borrowers, ScratchInv
  <2>2. IsFiniteSet(Fillers \ {t}) /\ Cardinality(Fillers \ {t}) = Cardinality(Fillers) - 1
        /\ Cardinality(Fillers) \in Nat
    BY <1>1, FS_RemoveElement, FS_CardinalityType
  <2>3. IsFiniteSet(Borrowers) /\ Cardinality(Borrowers) <= Cardinality(Fillers \ {t})
        /\ Cardinality(Borrowers) \in Nat
    BY <2>1, <2>2, FS_Subset, FS_CardinalityType
  <2> QED BY <2>2, <2>3
<1>3. IsFiniteSet(lent) /\ Cardinality(lent) <= Cardinality(Borrowers)
  <2> DEFINE f == [u \in Borrowers |-> scratch[u]]
  <2>1. f \in Surjection(Borrowers, lent)
    <3>1. f \in [Borrowers -> lent]
      OBVIOUS
    <3>2. \A s \in lent : \E u \in Borrowers : f[u] = s
      OBVIOUS
    <3> QED BY <3>1, <3>2, Fun_IsSurj
  <2> HIDE DEF f, lent
  <2> QED BY <1>2, <2>1, FS_Surjection
<1>4. ~(Scratches \subseteq lent)
  <2> HIDE DEF lent
  <2>1. Cardinality(lent) \in Nat /\ Cardinality(Borrowers) \in Nat
        /\ Cardinality(Scratches) \in Nat /\ Cardinality(Fillers) \in Nat
    BY <1>1, <1>2, <1>3, FS_CardinalityType
  <2>2. Cardinality(lent) < Cardinality(Scratches)
    BY <1>1, <1>2, <1>3, <2>1
  <2>3. Scratches \subseteq lent => Cardinality(Scratches) <= Cardinality(lent)
    BY <1>3, FS_Subset
  <2> QED BY <2>1, <2>2, <2>3
<1>5. PICK s \in Scratches : s \notin lent
  BY <1>4
<1>6. \A x : ~Idle(x)
  BY EmptySeq DEF Idle
<1>7. ~Lent(s)
  BY <1>5, PageRecorderAssumption DEF Lent, Borrowers
<1>8. NewScratch \in Scratches /\ ~Lent(NewScratch)
  BY <1>5, <1>6, <1>7 DEF NewScratch
<1> QED BY <1>8 DEF Lent

-----------------------------------------------------------------------------
(* Locks                                                                   *)

\* Thread t, going to p, keeps, takes or gives back a lock.
Exchange(old, new, users, points, t, p) ==
  \/ new = old /\ (t \in users => (at[t] \in points <=> p \in points))
  \/ old = Nobody /\ new = t /\ t \in users /\ p \in points
  \/ new = Nobody /\ t \in users /\ at[t] \in points /\ p \notin points

Moves(t, p) ==
  /\ GoTo(t, p)
  /\ IF t \in Fillers THEN p \in FillPoints
                      ELSE p \in IF mapped THEN MappedPoints ELSE StagedPoints
  /\ UNCHANGED mapped
  /\ Exchange(page, page', Fillers, InPage, t, p)
  /\ Exchange(inner, inner', Threads, InInner, t, p)
  /\ \A b \in Buffers : Exchange(staging[b], staging'[b], Users(b), InStaging, t, p)
  /\ Exchange(cmdPool, cmdPool', Copiers, InPool, t, p)
  /\ Exchange(queue, queue', Copiers, InQueue, t, p)

\* Then the lock is held as before.
LEMMA Exchanging ==
  ASSUME TypeOK, NEW users \in SUBSET Threads, NEW points, NEW t \in Threads, NEW p,
         NEW old, NEW new, HeldBy(old, users, points),
         Exchange(old, new, users, points, t, p), GoTo(t, p)
  PROVE  \A u \in users : new = u <=> at'[u] \in points
<1>1. /\ at'[t] = p
      /\ \A u \in users : u # t => at'[u] = at[u]
  BY DEF TypeOK, GoTo
<1>2. Nobody \notin users
  BY PageRecorderAssumption
<1> QED BY <1>1, <1>2 DEF HeldBy, Exchange

\* So are all locks after a move.
LEMMA MovingKeepsLocks ==
  ASSUME TypeOK, LocksInv, NEW t \in Threads, NEW p, Moves(t, p)
  PROVE  LocksInv'
<1>1. \A t_1 \in Fillers : at'[t_1] \in FillPoints
  BY DEF Moves, GoTo, LocksInv, TypeOK, Threads
<1>2. \A c \in Copiers : at'[c] \in IF mapped' THEN MappedPoints ELSE StagedPoints
  BY PageRecorderAssumption DEF Moves, GoTo, LocksInv, TypeOK, Threads
<1>3. Fillers \in SUBSET Threads /\ Copiers \in SUBSET Threads
      /\ Threads \in SUBSET Threads /\ \A b \in Buffers : Users(b) \in SUBSET Threads
  BY DEF Threads, Users
<1>4. HeldBy(page, Fillers, InPage)'
  <2>1. HeldBy(page, Fillers, InPage) /\ GoTo(t, p)
        /\ Exchange(page, page', Fillers, InPage, t, p)
    BY DEF LocksInv, Moves
  <2>2. \A u \in Fillers : page' = u <=> at'[u] \in InPage
    BY <1>3, <2>1, Exchanging
  <2> QED BY <2>2 DEF HeldBy
<1>5. HeldBy(inner, Threads, InInner)'
  <2>1. HeldBy(inner, Threads, InInner) /\ GoTo(t, p)
        /\ Exchange(inner, inner', Threads, InInner, t, p)
    BY DEF LocksInv, Moves
  <2>2. \A u \in Threads : inner' = u <=> at'[u] \in InInner
    BY <1>3, <2>1, Exchanging
  <2> QED BY <2>2 DEF HeldBy
<1>6. HeldBy(cmdPool, Copiers, InPool)'
  <2>1. HeldBy(cmdPool, Copiers, InPool) /\ GoTo(t, p)
        /\ Exchange(cmdPool, cmdPool', Copiers, InPool, t, p)
    BY DEF LocksInv, Moves
  <2>2. \A u \in Copiers : cmdPool' = u <=> at'[u] \in InPool
    BY <1>3, <2>1, Exchanging
  <2> QED BY <2>2 DEF HeldBy
<1>7. HeldBy(queue, Copiers, InQueue)'
  <2>1. HeldBy(queue, Copiers, InQueue) /\ GoTo(t, p)
        /\ Exchange(queue, queue', Copiers, InQueue, t, p)
    BY DEF LocksInv, Moves
  <2>2. \A u \in Copiers : queue' = u <=> at'[u] \in InQueue
    BY <1>3, <2>1, Exchanging
  <2> QED BY <2>2 DEF HeldBy
<1>8. ASSUME NEW b \in Buffers PROVE HeldBy(staging[b], Users(b), InStaging)'
  <2>1. HeldBy(staging[b], Users(b), InStaging) /\ GoTo(t, p)
        /\ Exchange(staging[b], staging'[b], Users(b), InStaging, t, p)
    BY DEF LocksInv, Moves
  <2>2. Users(b) \in SUBSET Threads
    BY <1>3
  <2> DEFINE users == Users(b)
             old == staging[b]
             new == staging'[b]
  <2>3. \A u \in users : new = u <=> at'[u] \in InStaging
    <3>1. HeldBy(old, users, InStaging) /\ GoTo(t, p)
          /\ Exchange(old, new, users, InStaging, t, p) /\ users \in SUBSET Threads
      BY <2>1, <2>2
    <3> HIDE DEF users, old, new
    <3> QED BY <3>1, Exchanging
  <2> QED BY <2>3 DEF HeldBy, Users
<1> QED BY <1>1, <1>2, <1>4, <1>5, <1>6, <1>7, <1>8 DEF LocksInv

\* The staging buffers' locks, of which a copier uses its own.
LEMMA StagingExchange ==
  ASSUME TypeOK, NEW c \in Copiers, NEW p,
         \/ UNCHANGED staging /\ (at[c] \in InStaging <=> p \in InStaging)
         \/ /\ staging[Staging[c]] = Nobody /\ p \in InStaging
            /\ staging' = [staging EXCEPT ![Staging[c]] = c]
         \/ /\ at[c] \in InStaging /\ p \notin InStaging
            /\ staging' = [staging EXCEPT ![Staging[c]] = Nobody]
  PROVE  \A b \in Buffers : Exchange(staging[b], staging'[b], Users(b), InStaging, c, p)
<1> SUFFICES ASSUME NEW b \in Buffers
             PROVE  Exchange(staging[b], staging'[b], Users(b), InStaging, c, p)
  OBVIOUS
<1>1. /\ Staging[c] \in Buffers
      /\ c \in Users(b) <=> b = Staging[c]
  BY DEF Buffers, Users
<1>2. staging \in [Buffers -> Copiers \cup {Nobody}]
  BY DEF TypeOK
<1> QED BY <1>1, <1>2 DEF Exchange

\* Every step is a move of a thread, or of none.
LEMMA LocksStep ==
  ASSUME IInv, Next
  PROVE  LocksInv'
<1> USE DEF threadVars, scratchVars, recorderVars, transferVars, deviceVars, faultVars
<1>1. TypeOK /\ LocksInv
  BY DEF IInv
<1>2. ASSUME NEW t \in Fillers, Take(t) PROVE LocksInv'
  <2>1. Moves(t, "stage")
    BY <1>1, <1>2, PageRecorderAssumption
    DEF Take, GoTo, Moves, Exchange, Threads, FillPoints, InPage, InInner, InStaging,
        InPool, InQueue, MappedPoints, StagedPoints
  <2> QED BY <1>1, <2>1, MovingKeepsLocks DEF Threads
<1>3. ASSUME NEW t \in Fillers, Stage(t) PROVE LocksInv'
  <2>1. Moves(t, "lock page") \/ Moves(t, "put")
    BY <1>1, <1>3, PageRecorderAssumption
    DEF Stage, GoTo, Fail, Moves, Exchange, Threads, FillPoints, InPage, InInner,
        InStaging, InPool, InQueue, MappedPoints, StagedPoints
  <2> QED BY <1>1, <2>1, MovingKeepsLocks DEF Threads
<1>4. ASSUME NEW t \in Fillers, LockPage(t) PROVE LocksInv'
  <2>1. Moves(t, "begin")
    BY <1>1, <1>4, PageRecorderAssumption
    DEF LockPage, GoTo, Moves, Exchange, Threads, FillPoints, InPage, InInner, InStaging,
        InPool, InQueue, MappedPoints, StagedPoints
  <2> QED BY <1>1, <2>1, MovingKeepsLocks DEF Threads
<1>5. ASSUME NEW t \in Fillers, BeginPage(t) PROVE LocksInv'
  <2>1. Moves(t, "record") \/ Moves(t, "abandon")
    BY <1>1, <1>5, PageRecorderAssumption
    DEF BeginPage, GoTo, Abandon, Fail, Moves, Exchange, Threads, FillPoints, InPage,
        InInner, InStaging, InPool, InQueue, MappedPoints, StagedPoints
  <2> QED BY <1>1, <2>1, MovingKeepsLocks DEF Threads
<1>6. ASSUME NEW t \in Fillers, Record(t) PROVE LocksInv'
  <2>1. Moves(t, "submit") \/ Moves(t, "abandon")
    BY <1>1, <1>6, PageRecorderAssumption
    DEF Record, GoTo, Abandon, Fail, Moves, Exchange, Threads, FillPoints, InPage,
        InInner, InStaging, InPool, InQueue, MappedPoints, StagedPoints
  <2> QED BY <1>1, <2>1, MovingKeepsLocks DEF Threads
<1>7. ASSUME NEW t \in Fillers, SubmitPage(t) PROVE LocksInv'
  <2>1. Moves(t, "submitting")
    BY <1>1, <1>7, PageRecorderAssumption
    DEF SubmitPage, GoTo, Moves, Exchange, Threads, FillPoints, InPage, InInner,
        InStaging, InPool, InQueue, MappedPoints, StagedPoints
  <2> QED BY <1>1, <2>1, MovingKeepsLocks DEF Threads
<1>8. ASSUME NEW t \in Fillers, EndAndSubmit(t) PROVE LocksInv'
  <2>1. Moves(t, "wait") \/ Moves(t, "abandon")
    BY <1>1, <1>8, PageRecorderAssumption
    DEF EndAndSubmit, GoTo, Abandon, Fail, Moves, Exchange, Threads, FillPoints, InPage,
        InInner, InStaging, InPool, InQueue, MappedPoints, StagedPoints
  <2> QED BY <1>1, <2>1, MovingKeepsLocks DEF Threads
<1>9. ASSUME NEW t \in Fillers, EndFails(t) PROVE LocksInv'
  <2>1. Moves(t, "abandon")
    BY <1>1, <1>9, PageRecorderAssumption
    DEF EndFails, GoTo, Abandon, Fail, Moves, Exchange, Threads, FillPoints, InPage,
        InInner, InStaging, InPool, InQueue, MappedPoints, StagedPoints
  <2> QED BY <1>1, <2>1, MovingKeepsLocks DEF Threads
<1>10. ASSUME NEW t \in Fillers, WaitPage(t) PROVE LocksInv'
  <2>1. Moves(t, "waiting")
    BY <1>1, <1>10, PageRecorderAssumption
    DEF WaitPage, GoTo, Moves, Exchange, Threads, FillPoints, InPage, InInner, InStaging,
        InPool, InQueue, MappedPoints, StagedPoints
  <2> QED BY <1>1, <2>1, MovingKeepsLocks DEF Threads
<1>11. ASSUME NEW t \in Fillers, Waited(t) PROVE LocksInv'
  <2>1. Moves(t, "unlock page") \/ Moves(t, "abandon")
    BY <1>1, <1>11, PageRecorderAssumption
    DEF Waited, GoTo, Abandon, Fail, Moves, Exchange, Threads, FillPoints, InPage,
        InInner, InStaging, InPool, InQueue, MappedPoints, StagedPoints
  <2> QED BY <1>1, <2>1, MovingKeepsLocks DEF Threads
<1>12. ASSUME NEW t \in Fillers, AbortPage(t) PROVE LocksInv'
  <2>1. Moves(t, "abandoning") \/ Moves(t, "unlock page")
    BY <1>1, <1>12, PageRecorderAssumption
    DEF AbortPage, GoTo, Moves, Exchange, Threads, FillPoints, InPage, InInner, InStaging,
        InPool, InQueue, MappedPoints, StagedPoints
  <2> QED BY <1>1, <2>1, MovingKeepsLocks DEF Threads
<1>13. ASSUME NEW t \in Fillers, Aborted(t) PROVE LocksInv'
  <2>1. Moves(t, "unlock page")
    BY <1>1, <1>13, PageRecorderAssumption
    DEF Aborted, GoTo, Fail, Moves, Exchange, Threads, FillPoints, InPage, InInner,
        InStaging, InPool, InQueue, MappedPoints, StagedPoints
  <2> QED BY <1>1, <2>1, MovingKeepsLocks DEF Threads
<1>14. ASSUME NEW t \in Fillers, UnlockPage(t) PROVE LocksInv'
  <2>1. Moves(t, "put")
    BY <1>1, <1>14, PageRecorderAssumption
    DEF UnlockPage, GoTo, Moves, Exchange, Threads, FillPoints, InPage, InInner,
        InStaging, InPool, InQueue, MappedPoints, StagedPoints
  <2> QED BY <1>1, <2>1, MovingKeepsLocks DEF Threads
<1>15. ASSUME NEW t \in Fillers, Put(t) PROVE LocksInv'
  <2>1. Moves(t, "idle")
    BY <1>1, <1>15, PageRecorderAssumption
    DEF Put, GoTo, Moves, Exchange, Threads, FillPoints, InPage, InInner, InStaging,
        InPool, InQueue, MappedPoints, StagedPoints
  <2> QED BY <1>1, <2>1, MovingKeepsLocks DEF Threads
<1>16. ASSUME NEW c \in Copiers, StartCopy(c) PROVE LocksInv'
  <2>1. Moves(c, "quiesce") \/ Moves(c, "lock staging")
    BY <1>1, <1>16, PageRecorderAssumption
    DEF StartCopy, GoTo, Moves, Exchange, Threads, FillPoints, InPage, InInner, InStaging,
        InPool, InQueue, MappedPoints, StagedPoints, LocksInv
  <2> QED BY <1>1, <2>1, MovingKeepsLocks DEF Threads
<1>17. ASSUME NEW c \in Copiers, Quiesce(c) PROVE LocksInv'
  <2>1. Moves(c, "quiescing")
    BY <1>1, <1>17, PageRecorderAssumption
    DEF Quiesce, GoTo, Moves, Exchange, Threads, FillPoints, InPage, InInner, InStaging,
        InPool, InQueue, MappedPoints, StagedPoints, LocksInv
  <2> QED BY <1>1, <2>1, MovingKeepsLocks DEF Threads
<1>18. ASSUME NEW c \in Copiers, Quiescent(c) PROVE LocksInv'
  <2>1. Moves(c, "access") \/ Moves(c, "idle")
    BY <1>1, <1>18, PageRecorderAssumption
    DEF Quiescent, GoTo, Fail, Moves, Exchange, Threads, FillPoints, InPage, InInner,
        InStaging, InPool, InQueue, MappedPoints, StagedPoints, LocksInv
  <2> QED BY <1>1, <2>1, MovingKeepsLocks DEF Threads
<1>19. ASSUME NEW c \in Copiers, Access(c) PROVE LocksInv'
  <2>1. Moves(c, "idle")
    BY <1>1, <1>19, PageRecorderAssumption
    DEF Access, GoTo, Moves, Exchange, Threads, FillPoints, InPage, InInner, InStaging,
        InPool, InQueue, MappedPoints, StagedPoints, LocksInv
  <2> QED BY <1>1, <2>1, MovingKeepsLocks DEF Threads
<1>20. ASSUME NEW c \in Copiers, LockStaging(c) PROVE LocksInv'
  <2>1. ~mapped /\ c \notin Fillers /\ at[c] = "lock staging" /\ UNCHANGED <<mapped, page, inner>>
    BY <1>1, <1>20, PageRecorderAssumption DEF LockStaging, LocksInv, MappedPoints
  <2>2. GoTo(c, "lock pool") /\ staging[Staging[c]] = Nobody
        /\ staging' = [staging EXCEPT ![Staging[c]] = c] /\ UNCHANGED cmdPool
        /\ UNCHANGED queue
    BY <1>20 DEF LockStaging, GoTo
  <2>3. CASE GoTo(c, "lock pool") /\ staging[Staging[c]] = Nobody
             /\ staging' = [staging EXCEPT ![Staging[c]] = c] /\ UNCHANGED cmdPool
             /\ UNCHANGED queue
    <3>1. \A b \in Buffers : Exchange(staging[b], staging'[b], Users(b), InStaging, c, "lock pool")
      BY <1>1, <2>1, <2>3, StagingExchange DEF InStaging
    <3>2. Moves(c, "lock pool")
      BY <2>1, <2>3, <3>1
      DEF Moves, Exchange, InPage, InInner, InPool, InQueue, InStaging, StagedPoints, Threads
    <3> QED BY <1>1, <3>2, MovingKeepsLocks DEF Threads
  <2> QED BY <2>2, <2>3
<1>21. ASSUME NEW c \in Copiers, LockCmdPool(c) PROVE LocksInv'
  <2>1. ~mapped /\ c \notin Fillers /\ at[c] = "lock pool" /\ UNCHANGED <<mapped, page, inner>>
    BY <1>1, <1>21, PageRecorderAssumption DEF LockCmdPool, LocksInv, MappedPoints
  <2>2. \/ GoTo(c, "lock queue") /\ UNCHANGED staging /\ cmdPool = Nobody
           /\ cmdPool' = c /\ UNCHANGED queue
        \/ GoTo(c, "idle") /\ staging' = [staging EXCEPT ![Staging[c]] = Nobody]
           /\ UNCHANGED cmdPool /\ UNCHANGED queue
    BY <1>21 DEF LockCmdPool, GoTo, Fail, Unstage
  <2>3. CASE GoTo(c, "lock queue") /\ UNCHANGED staging /\ cmdPool = Nobody
             /\ cmdPool' = c /\ UNCHANGED queue
    <3>1. \A b \in Buffers : Exchange(staging[b], staging'[b], Users(b), InStaging, c, "lock queue")
      BY <1>1, <2>1, <2>3, StagingExchange DEF InStaging
    <3>2. Moves(c, "lock queue")
      BY <2>1, <2>3, <3>1
      DEF Moves, Exchange, InPage, InInner, InPool, InQueue, InStaging, StagedPoints, Threads
    <3> QED BY <1>1, <3>2, MovingKeepsLocks DEF Threads
  <2>4. CASE GoTo(c, "idle") /\ staging' = [staging EXCEPT ![Staging[c]] = Nobody]
             /\ UNCHANGED cmdPool /\ UNCHANGED queue
    <3>1. \A b \in Buffers : Exchange(staging[b], staging'[b], Users(b), InStaging, c, "idle")
      BY <1>1, <2>1, <2>4, StagingExchange DEF InStaging
    <3>2. Moves(c, "idle")
      BY <2>1, <2>4, <3>1
      DEF Moves, Exchange, InPage, InInner, InPool, InQueue, InStaging, StagedPoints, Threads
    <3> QED BY <1>1, <3>2, MovingKeepsLocks DEF Threads
  <2> QED BY <2>2, <2>3, <2>4
<1>22. ASSUME NEW c \in Copiers, SubmitCopy(c) PROVE LocksInv'
  <2>1. ~mapped /\ c \notin Fillers /\ at[c] = "lock queue" /\ UNCHANGED <<mapped, page, inner>>
    BY <1>1, <1>22, PageRecorderAssumption DEF SubmitCopy, LocksInv, MappedPoints
  <2>2. \/ GoTo(c, "copying") /\ UNCHANGED staging /\ UNCHANGED cmdPool
           /\ queue = Nobody /\ queue' = c
        \/ GoTo(c, "idle") /\ staging' = [staging EXCEPT ![Staging[c]] = Nobody]
           /\ cmdPool' = Nobody /\ UNCHANGED queue
    BY <1>22 DEF SubmitCopy, GoTo, Fail, Unstage
  <2>3. CASE GoTo(c, "copying") /\ UNCHANGED staging /\ UNCHANGED cmdPool
             /\ queue = Nobody /\ queue' = c
    <3>1. \A b \in Buffers : Exchange(staging[b], staging'[b], Users(b), InStaging, c, "copying")
      BY <1>1, <2>1, <2>3, StagingExchange DEF InStaging
    <3>2. Moves(c, "copying")
      BY <2>1, <2>3, <3>1
      DEF Moves, Exchange, InPage, InInner, InPool, InQueue, InStaging, StagedPoints, Threads
    <3> QED BY <1>1, <3>2, MovingKeepsLocks DEF Threads
  <2>4. CASE GoTo(c, "idle") /\ staging' = [staging EXCEPT ![Staging[c]] = Nobody]
             /\ cmdPool' = Nobody /\ UNCHANGED queue
    <3>1. \A b \in Buffers : Exchange(staging[b], staging'[b], Users(b), InStaging, c, "idle")
      BY <1>1, <2>1, <2>4, StagingExchange DEF InStaging
    <3>2. Moves(c, "idle")
      BY <2>1, <2>4, <3>1
      DEF Moves, Exchange, InPage, InInner, InPool, InQueue, InStaging, StagedPoints, Threads
    <3> QED BY <1>1, <3>2, MovingKeepsLocks DEF Threads
  <2> QED BY <2>2, <2>3, <2>4
<1>23. ASSUME NEW c \in Copiers, QueueIdle(c) PROVE LocksInv'
  <2>1. ~mapped /\ c \notin Fillers /\ at[c] = "copying" /\ UNCHANGED <<mapped, page, inner>>
    BY <1>1, <1>23, PageRecorderAssumption DEF QueueIdle, LocksInv, MappedPoints
  <2>2. \/ GoTo(c, "read") /\ UNCHANGED staging /\ cmdPool' = Nobody /\ queue' = Nobody
        \/ GoTo(c, "idle") /\ staging' = [staging EXCEPT ![Staging[c]] = Nobody]
           /\ cmdPool' = Nobody /\ queue' = Nobody
    BY <1>23 DEF QueueIdle, GoTo, Fail, Unstage
  <2>3. CASE GoTo(c, "read") /\ UNCHANGED staging /\ cmdPool' = Nobody /\ queue' = Nobody
    <3>1. \A b \in Buffers : Exchange(staging[b], staging'[b], Users(b), InStaging, c, "read")
      BY <1>1, <2>1, <2>3, StagingExchange DEF InStaging
    <3>2. Moves(c, "read")
      BY <2>1, <2>3, <3>1
      DEF Moves, Exchange, InPage, InInner, InPool, InQueue, InStaging, StagedPoints, Threads
    <3> QED BY <1>1, <3>2, MovingKeepsLocks DEF Threads
  <2>4. CASE GoTo(c, "idle") /\ staging' = [staging EXCEPT ![Staging[c]] = Nobody]
             /\ cmdPool' = Nobody /\ queue' = Nobody
    <3>1. \A b \in Buffers : Exchange(staging[b], staging'[b], Users(b), InStaging, c, "idle")
      BY <1>1, <2>1, <2>4, StagingExchange DEF InStaging
    <3>2. Moves(c, "idle")
      BY <2>1, <2>4, <3>1
      DEF Moves, Exchange, InPage, InInner, InPool, InQueue, InStaging, StagedPoints, Threads
    <3> QED BY <1>1, <3>2, MovingKeepsLocks DEF Threads
  <2> QED BY <2>2, <2>3, <2>4
<1>24. ASSUME NEW c \in Copiers, ReadStaging(c) PROVE LocksInv'
  <2>1. ~mapped /\ c \notin Fillers /\ at[c] = "read" /\ UNCHANGED <<mapped, page, inner>>
    BY <1>1, <1>24, PageRecorderAssumption DEF ReadStaging, LocksInv, MappedPoints
  <2>2. GoTo(c, "idle") /\ staging' = [staging EXCEPT ![Staging[c]] = Nobody]
        /\ UNCHANGED cmdPool /\ UNCHANGED queue
    BY <1>24 DEF ReadStaging, GoTo, Unstage
  <2>3. CASE GoTo(c, "idle") /\ staging' = [staging EXCEPT ![Staging[c]] = Nobody]
             /\ UNCHANGED cmdPool /\ UNCHANGED queue
    <3>1. \A b \in Buffers : Exchange(staging[b], staging'[b], Users(b), InStaging, c, "idle")
      BY <1>1, <2>1, <2>3, StagingExchange DEF InStaging
    <3>2. Moves(c, "idle")
      BY <2>1, <2>3, <3>1
      DEF Moves, Exchange, InPage, InInner, InPool, InQueue, InStaging, StagedPoints, Threads
    <3> QED BY <1>1, <3>2, MovingKeepsLocks DEF Threads
  <2> QED BY <2>2, <2>3
<1>25. CASE Complete
  BY <1>1, <1>25 DEF Complete, LocksInv, HeldBy
<1> QED BY <1>2, <1>3, <1>4, <1>5, <1>6, <1>7, <1>8, <1>9, <1>10, <1>11,
     <1>12, <1>13, <1>14, <1>15, <1>16, <1>17, <1>18, <1>19, <1>20, <1>21,
     <1>22, <1>23, <1>24, <1>25 DEF Next, Fill, Copy

-----------------------------------------------------------------------------
(* Every step keeps the types                                              *)

\* Every step keeps the types.
LEMMA TypeStep ==
  ASSUME IInv, Next
  PROVE  TypeOK'
<1> USE DEF threadVars, scratchVars, recorderVars, transferVars, deviceVars, faultVars
<1>1. TypeOK
  BY DEF IInv
<1>2. ASSUME NEW t \in Fillers, Take(t) PROVE TypeOK'
  <2>1. at' \in [Threads -> Points] /\ left' \in [Threads -> Nat]
    <3>1. at' \in [Threads -> Points]
      BY <1>1, <1>2, GoToTypes DEF Take, Points, Threads
    <3>2. left \in [Threads -> Nat] /\ left[t] - 1 \in Nat /\ left' = [left EXCEPT ![t] = left[t] - 1]
      BY <1>1, <1>2 DEF Take, TypeOK, Threads
    <3> QED BY <3>1, <3>2
  <2>2. scratch' \in [Fillers -> Scratches \cup {Nobody}] /\ idle' \in Seq(Scratches)
    <3>1. CASE idle = <<>>
      <4>1. NewScratch \in Scratches
        BY <1>2, <3>1, FreshScratch DEF Take, IInv
      <4> QED BY <1>1, <1>2, <3>1, <4>1 DEF Take, TypeOK
    <3>2. CASE idle # <<>>
      <4>1. /\ SubSeq(idle, 1, Len(idle) - 1) \in Seq(Scratches)
            /\ idle[Len(idle)] \in Scratches
        BY <1>1, <3>2, Popping DEF TypeOK, IInv, ScratchInv
      <4> QED BY <1>1, <1>2, <3>2, <4>1 DEF Take, TypeOK
    <3> QED BY <3>1, <3>2
  <2>3. UNCHANGED <<mapped, outcome, page, inner, state, nextValue, lastSubmitted, fence,
                    staging, cmdPool, queue, inFlight, timeline, failures, lost>>
    BY <1>2 DEF Take
  <2> QED BY <1>1, <2>1, <2>2, <2>3 DEF TypeOK
<1>3. ASSUME NEW t \in Fillers, Stage(t) PROVE TypeOK'
  <2>1. at' \in [Threads -> Points]
    BY <1>1, <1>3, GoToTypes DEF Stage, Points, Threads
  <2>2. failures' \in 0..MaxFailures
    BY <1>1, <1>3, FailTypes DEF Stage
  <2>3. outcome' \in [Fillers -> {"ok", "error", "panic"}]
    BY <1>1, <1>3 DEF Stage, Fail, TypeOK, Threads
  <2>4. UNCHANGED <<mapped, left, scratch, idle, page, inner, state,
                    nextValue, lastSubmitted, fence, staging, cmdPool, queue,
                    inFlight, timeline, lost>>
    BY <1>3 DEF Stage, Fail
  <2> QED BY <1>1, <2>1, <2>2, <2>3, <2>4 DEF TypeOK
<1>4. ASSUME NEW t \in Fillers, LockPage(t) PROVE TypeOK'
  <2>1. at' \in [Threads -> Points]
    BY <1>1, <1>4, GoToTypes DEF LockPage, Points, Threads
  <2>2. page' \in Fillers \cup {Nobody}
    BY <1>1, <1>4 DEF LockPage, TypeOK, Threads
  <2>3. UNCHANGED <<mapped, left, outcome, scratch, idle, inner, state,
                    nextValue, lastSubmitted, fence, staging, cmdPool, queue,
                    inFlight, timeline, failures, lost>>
    BY <1>4 DEF LockPage
  <2> QED BY <1>1, <2>1, <2>2, <2>3 DEF TypeOK
<1>5. ASSUME NEW t \in Fillers, BeginPage(t) PROVE TypeOK'
  <2>1. at' \in [Threads -> Points]
    BY <1>1, <1>5, GoToTypes DEF BeginPage, Abandon, Points, Threads
  <2>2. failures' \in 0..MaxFailures
    BY <1>1, <1>5, FailTypes DEF BeginPage, Abandon
  <2>3. /\ state' \in {"Idle", "Recording", "Submitted"}
        /\ outcome' \in [Fillers -> {"ok", "error", "panic"}]
    BY <1>1, <1>5 DEF BeginPage, Abandon, Fail, TypeOK, Threads
  <2>4. UNCHANGED <<mapped, left, scratch, idle, page, inner, nextValue,
                    lastSubmitted, fence, staging, cmdPool, queue, inFlight,
                    timeline, lost>>
    BY <1>5 DEF BeginPage, Abandon, Fail
  <2> QED BY <1>1, <2>1, <2>2, <2>3, <2>4 DEF TypeOK
<1>6. ASSUME NEW t \in Fillers, Record(t) PROVE TypeOK'
  <2>1. at' \in [Threads -> Points]
    BY <1>1, <1>6, GoToTypes DEF Record, Abandon, Points, Threads
  <2>2. failures' \in 0..MaxFailures
    BY <1>1, <1>6, FailTypes DEF Record, Abandon
  <2>3. outcome' \in [Fillers -> {"ok", "error", "panic"}]
    BY <1>1, <1>6 DEF Record, Abandon, Fail, TypeOK, Threads
  <2>4. UNCHANGED <<mapped, left, scratch, idle, page, inner, state,
                    nextValue, lastSubmitted, fence, staging, cmdPool, queue,
                    inFlight, timeline, lost>>
    BY <1>6 DEF Record, Abandon, Fail
  <2> QED BY <1>1, <2>1, <2>2, <2>3, <2>4 DEF TypeOK
<1>7. ASSUME NEW t \in Fillers, SubmitPage(t) PROVE TypeOK'
  <2>1. at' \in [Threads -> Points]
    BY <1>1, <1>7, GoToTypes DEF SubmitPage, Points, Threads
  <2>2. inner' \in Threads \cup {Nobody}
    BY <1>1, <1>7 DEF SubmitPage, TypeOK, Threads
  <2>3. UNCHANGED <<mapped, left, outcome, scratch, idle, page, state,
                    nextValue, lastSubmitted, fence, staging, cmdPool, queue,
                    inFlight, timeline, failures, lost>>
    BY <1>7 DEF SubmitPage
  <2> QED BY <1>1, <2>1, <2>2, <2>3 DEF TypeOK
<1>8. ASSUME NEW t \in Fillers, EndAndSubmit(t) PROVE TypeOK'
  <2>1. at' \in [Threads -> Points]
    BY <1>1, <1>8, GoToTypes DEF EndAndSubmit, Abandon, Points, Threads
  <2>2. failures' \in 0..MaxFailures
    BY <1>1, <1>8, FailTypes DEF EndAndSubmit, Abandon
  <2>3. /\ outcome' \in [Fillers -> {"ok", "error", "panic"}]
        /\ inner' \in Threads \cup {Nobody}
        /\ state' \in {"Idle", "Recording", "Submitted"}
    BY <1>1, <1>8 DEF EndAndSubmit, Abandon, TypeOK
  <2>4. nextValue \in Nat \ {0} /\ nextValue' = nextValue + 1
    BY <1>1, <1>8 DEF EndAndSubmit, TypeOK
  <2>5. lastSubmitted' \in 0..(nextValue' - 1) /\ timeline' \in 0..(nextValue' - 1)
    BY <1>1, <1>8, <2>4 DEF EndAndSubmit, TypeOK
  <2>6. fence' \in [Fillers -> 0..(nextValue' - 1)]
    <3>1. fence \in [Fillers -> 0..(nextValue - 1)]
          /\ (fence' = fence \/ fence' = [fence EXCEPT ![t] = nextValue])
      BY <1>1, <1>8 DEF EndAndSubmit, TypeOK
    <3>2. 0..(nextValue - 1) \subseteq 0..(nextValue' - 1) /\ nextValue \in 0..(nextValue' - 1)
      BY <2>4
    <3> DEFINE old == 0..(nextValue - 1)
               new == 0..(nextValue' - 1)
    <3> HIDE DEF old, new
    <3>3. fence \in [Fillers -> old] /\ old \subseteq new /\ nextValue \in new
      BY <3>1, <3>2 DEF old, new
    <3>4. fence' \in [Fillers -> new]
      BY <3>1, <3>3
    <3> QED BY <3>4 DEF new
  <2>7. inFlight' \in Seq(Work)
    <3>1. scratch[t] \in Scratches
      BY <1>1, <1>8 DEF EndAndSubmit, IInv, TypeOK, ScratchInv
    <3>2. [by |-> t, value |-> nextValue, uses |-> {scratch[t], Shared}] \in Work
      BY <2>4, <3>1 DEF Work, Threads
    <3>3. inFlight \in Seq(Work)
      BY <1>1 DEF TypeOK
    <3>4. inFlight' = inFlight
          \/ inFlight' = Append(inFlight, [by |-> t, value |-> nextValue,
                                           uses |-> {scratch[t], Shared}])
      BY <1>8 DEF EndAndSubmit
    <3> QED BY <3>2, <3>3, <3>4, Submitting
  <2>8. UNCHANGED <<mapped, left, scratch, idle, page, staging, cmdPool, queue, lost>>
    BY <1>8 DEF EndAndSubmit
  <2>9. nextValue' \in Nat \ {0}
    BY <2>4
  <2> QED BY <1>1, <2>1, <2>2, <2>3, <2>5, <2>6, <2>7, <2>8, <2>9 DEF TypeOK
<1>9. ASSUME NEW t \in Fillers, EndFails(t) PROVE TypeOK'
  <2>1. at' \in [Threads -> Points]
    BY <1>1, <1>9, GoToTypes DEF EndFails, Abandon, Points, Threads
  <2>2. failures' \in 0..MaxFailures
    BY <1>1, <1>9, FailTypes DEF EndFails, Abandon
  <2>3. /\ inner' \in Threads \cup {Nobody}
        /\ state' \in {"Idle", "Recording", "Submitted"}
        /\ outcome' \in [Fillers -> {"ok", "error", "panic"}]
    BY <1>1, <1>9 DEF EndFails, Abandon, Fail, TypeOK, Threads
  <2>4. UNCHANGED <<mapped, left, scratch, idle, page, nextValue,
                    lastSubmitted, fence, staging, cmdPool, queue, inFlight,
                    timeline, lost>>
    BY <1>9 DEF EndFails, Abandon, Fail
  <2> QED BY <1>1, <2>1, <2>2, <2>3, <2>4 DEF TypeOK
<1>10. ASSUME NEW t \in Fillers, WaitPage(t) PROVE TypeOK'
  <2>1. at' \in [Threads -> Points]
    BY <1>1, <1>10, GoToTypes DEF WaitPage, Points, Threads
  <2>2. inner' \in Threads \cup {Nobody}
    BY <1>1, <1>10 DEF WaitPage, TypeOK, Threads
  <2>3. UNCHANGED <<mapped, left, outcome, scratch, idle, page, state,
                    nextValue, lastSubmitted, fence, staging, cmdPool, queue,
                    inFlight, timeline, failures, lost>>
    BY <1>10 DEF WaitPage
  <2> QED BY <1>1, <2>1, <2>2, <2>3 DEF TypeOK
<1>11. ASSUME NEW t \in Fillers, Waited(t) PROVE TypeOK'
  <2>1. at' \in [Threads -> Points]
    BY <1>1, <1>11, GoToTypes DEF Waited, Abandon, Points, Threads
  <2>2. failures' \in 0..MaxFailures
    BY <1>1, <1>11, FailTypes DEF Waited, Abandon
  <2>3. /\ inner' \in Threads \cup {Nobody}
        /\ state' \in {"Idle", "Recording", "Submitted"}
        /\ outcome' \in [Fillers -> {"ok", "error", "panic"}]
    BY <1>1, <1>11 DEF Waited, Abandon, Fail, TypeOK, Threads
  <2>4. UNCHANGED <<mapped, left, scratch, idle, page, nextValue,
                    lastSubmitted, fence, staging, cmdPool, queue, inFlight,
                    timeline, lost>>
    BY <1>11 DEF Waited, Abandon, Fail
  <2> QED BY <1>1, <2>1, <2>2, <2>3, <2>4 DEF TypeOK
<1>12. ASSUME NEW t \in Fillers, AbortPage(t) PROVE TypeOK'
  <2>1. at' \in [Threads -> Points]
    BY <1>1, <1>12, GoToTypes DEF AbortPage, Points, Threads
  <2>2. /\ inner' \in Threads \cup {Nobody}
        /\ state' \in {"Idle", "Recording", "Submitted"}
    BY <1>1, <1>12 DEF AbortPage, TypeOK, Threads
  <2>3. UNCHANGED <<mapped, left, outcome, scratch, idle, page, nextValue,
                    lastSubmitted, fence, staging, cmdPool, queue, inFlight,
                    timeline, failures, lost>>
    BY <1>12 DEF AbortPage
  <2> QED BY <1>1, <2>1, <2>2, <2>3 DEF TypeOK
<1>13. ASSUME NEW t \in Fillers, Aborted(t) PROVE TypeOK'
  <2>1. at' \in [Threads -> Points]
    BY <1>1, <1>13, GoToTypes DEF Aborted, Points, Threads
  <2>2. failures' \in 0..MaxFailures
    BY <1>1, <1>13, FailTypes DEF Aborted
  <2>3. /\ inner' \in Threads \cup {Nobody}
        /\ state' \in {"Idle", "Recording", "Submitted"}
        /\ lost' \in BOOLEAN
    BY <1>1, <1>13 DEF Aborted, Fail, TypeOK, Threads
  <2>4. UNCHANGED <<mapped, left, outcome, scratch, idle, page, nextValue,
                    lastSubmitted, fence, staging, cmdPool, queue, inFlight,
                    timeline>>
    BY <1>13 DEF Aborted, Fail
  <2> QED BY <1>1, <2>1, <2>2, <2>3, <2>4 DEF TypeOK
<1>14. ASSUME NEW t \in Fillers, UnlockPage(t) PROVE TypeOK'
  <2>1. at' \in [Threads -> Points]
    BY <1>1, <1>14, GoToTypes DEF UnlockPage, Points, Threads
  <2>2. page' \in Fillers \cup {Nobody}
    BY <1>1, <1>14 DEF UnlockPage, TypeOK, Threads
  <2>3. UNCHANGED <<mapped, left, outcome, scratch, idle, inner, state,
                    nextValue, lastSubmitted, fence, staging, cmdPool, queue,
                    inFlight, timeline, failures, lost>>
    BY <1>14 DEF UnlockPage
  <2> QED BY <1>1, <2>1, <2>2, <2>3 DEF TypeOK
<1>15. ASSUME NEW t \in Fillers, Put(t) PROVE TypeOK'
  <2>1. at' \in [Threads -> Points]
    BY <1>1, <1>15, GoToTypes DEF Put, Points, Threads
  <2>2. scratch' \in [Fillers -> Scratches \cup {Nobody}]
        /\ outcome' \in [Fillers -> {"ok", "error", "panic"}]
    BY <1>1, <1>15 DEF Put, TypeOK
  <2>3. idle' \in Seq(Scratches)
    <3>1. scratch[t] \in Scratches
      BY <1>1, <1>15 DEF Put, IInv, TypeOK, ScratchInv
    <3>2. idle \in Seq(Scratches) /\ (idle' = idle \/ idle' = Append(idle, scratch[t]))
      BY <1>1, <1>15 DEF Put, TypeOK
    <3> QED BY <3>1, <3>2, Submitting
  <2>4. fence' \in [Fillers -> 0..(nextValue - 1)]
    <3>1. 0 \in 0..(nextValue - 1) /\ fence \in [Fillers -> 0..(nextValue - 1)]
      BY <1>1 DEF TypeOK
    <3>2. fence' = [fence EXCEPT ![t] = 0]
      BY <1>15 DEF Put
    <3> QED BY <3>1, <3>2
  <2>5. UNCHANGED <<mapped, left, page, inner, state, nextValue, lastSubmitted, staging,
                    cmdPool, queue, inFlight, timeline, failures, lost>>
    BY <1>15 DEF Put
  <2> QED BY <1>1, <2>1, <2>2, <2>3, <2>4, <2>5 DEF TypeOK
<1>16. ASSUME NEW c \in Copiers, StartCopy(c) PROVE TypeOK'
  <2>1. at' \in [Threads -> Points]
    BY <1>1, <1>16, GoToTypes DEF StartCopy, Points, Threads
  <2>2. left' \in [Threads -> Nat]
    <3>1. c \in Threads /\ left \in [Threads -> Nat]
      BY <1>1 DEF TypeOK, Threads
    <3>2. left[c] > 0 /\ left' = [left EXCEPT ![c] = left[c] - 1]
      BY <1>16 DEF StartCopy
    <3>3. left[c] - 1 \in Nat
      BY <3>1, <3>2
    <3> QED BY <3>1, <3>2, <3>3
  <2>3. UNCHANGED <<mapped, outcome, scratch, idle, page, inner, state,
                    nextValue, lastSubmitted, fence, staging, cmdPool, queue,
                    inFlight, timeline, failures, lost>>
    BY <1>16 DEF StartCopy
  <2> QED BY <1>1, <2>1, <2>2, <2>3 DEF TypeOK
<1>17. ASSUME NEW c \in Copiers, Quiesce(c) PROVE TypeOK'
  <2>1. at' \in [Threads -> Points]
    BY <1>1, <1>17, GoToTypes DEF Quiesce, Points, Threads
  <2>2. inner' \in Threads \cup {Nobody}
    BY <1>1, <1>17 DEF Quiesce, TypeOK, Threads
  <2>3. UNCHANGED <<mapped, left, outcome, scratch, idle, page, state,
                    nextValue, lastSubmitted, fence, staging, cmdPool, queue,
                    inFlight, timeline, failures, lost>>
    BY <1>17 DEF Quiesce
  <2> QED BY <1>1, <2>1, <2>2, <2>3 DEF TypeOK
<1>18. ASSUME NEW c \in Copiers, Quiescent(c) PROVE TypeOK'
  <2>1. at' \in [Threads -> Points]
    BY <1>1, <1>18, GoToTypes DEF Quiescent, Points, Threads
  <2>2. failures' \in 0..MaxFailures
    BY <1>1, <1>18, FailTypes DEF Quiescent
  <2>3. inner' \in Threads \cup {Nobody}
    BY <1>1, <1>18 DEF Quiescent, Fail, TypeOK, Threads
  <2>4. UNCHANGED <<mapped, left, outcome, scratch, idle, page, state,
                    nextValue, lastSubmitted, fence, staging, cmdPool, queue,
                    inFlight, timeline, lost>>
    BY <1>18 DEF Quiescent, Fail
  <2> QED BY <1>1, <2>1, <2>2, <2>3, <2>4 DEF TypeOK
<1>19. ASSUME NEW c \in Copiers, Access(c) PROVE TypeOK'
  <2>1. at' \in [Threads -> Points]
    BY <1>1, <1>19, GoToTypes DEF Access, Points, Threads
  <2>2. inner' \in Threads \cup {Nobody}
    BY <1>1, <1>19 DEF Access, TypeOK, Threads
  <2>3. UNCHANGED <<mapped, left, outcome, scratch, idle, page, state,
                    nextValue, lastSubmitted, fence, staging, cmdPool, queue,
                    inFlight, timeline, failures, lost>>
    BY <1>19 DEF Access
  <2> QED BY <1>1, <2>1, <2>2, <2>3 DEF TypeOK
<1>20. ASSUME NEW c \in Copiers, LockStaging(c) PROVE TypeOK'
  <2>1. at' \in [Threads -> Points]
    BY <1>1, <1>20, GoToTypes DEF LockStaging, Points, Threads
  <2>2. staging' \in [Buffers -> Copiers \cup {Nobody}]
    BY <1>1, <1>20 DEF LockStaging, TypeOK, Threads
  <2>3. UNCHANGED <<mapped, left, outcome, scratch, idle, page, inner, state,
                    nextValue, lastSubmitted, fence, cmdPool, queue, inFlight,
                    timeline, failures, lost>>
    BY <1>20 DEF LockStaging
  <2> QED BY <1>1, <2>1, <2>2, <2>3 DEF TypeOK
<1>21. ASSUME NEW c \in Copiers, LockCmdPool(c) PROVE TypeOK'
  <2>1. at' \in [Threads -> Points]
    BY <1>1, <1>21, GoToTypes DEF LockCmdPool, Unstage, Points, Threads
  <2>2. failures' \in 0..MaxFailures
    BY <1>1, <1>21, FailTypes DEF LockCmdPool, Unstage
  <2>3. /\ cmdPool' \in Copiers \cup {Nobody}
        /\ staging' \in [Buffers -> Copiers \cup {Nobody}]
    BY <1>1, <1>21 DEF LockCmdPool, Fail, Unstage, TypeOK, Threads
  <2>4. UNCHANGED <<mapped, left, outcome, scratch, idle, page, inner, state,
                    nextValue, lastSubmitted, fence, queue, inFlight,
                    timeline, lost>>
    BY <1>21 DEF LockCmdPool, Fail, Unstage
  <2> QED BY <1>1, <2>1, <2>2, <2>3, <2>4 DEF TypeOK
<1>22. ASSUME NEW c \in Copiers, SubmitCopy(c) PROVE TypeOK'
  <2>1. at' \in [Threads -> Points]
    BY <1>1, <1>22, GoToTypes DEF SubmitCopy, Unstage, Points, Threads
  <2>2. failures' \in 0..MaxFailures
    BY <1>1, <1>22, FailTypes DEF SubmitCopy, Unstage
  <2>3. /\ staging' \in [Buffers -> Copiers \cup {Nobody}]
        /\ cmdPool' \in Copiers \cup {Nobody}
        /\ queue' \in Copiers \cup {Nobody}
    BY <1>1, <1>22 DEF SubmitCopy, Unstage, TypeOK
  <2>4. inFlight' \in Seq(Work)
    <3>1. [by |-> c, value |-> 0, uses |-> {Staging[c], Shared}] \in Work
      BY DEF Work, Threads, Buffers
    <3>2. inFlight \in Seq(Work)
      BY <1>1 DEF TypeOK
    <3>3. inFlight' = inFlight
          \/ inFlight' = Append(inFlight, [by |-> c, value |-> 0,
                                           uses |-> {Staging[c], Shared}])
      BY <1>22 DEF SubmitCopy
    <3> QED BY <3>1, <3>2, <3>3, Submitting
  <2>5. UNCHANGED <<mapped, left, outcome, scratch, idle, page, inner, state, nextValue,
                    lastSubmitted, fence, timeline, lost>>
    BY <1>22 DEF SubmitCopy
  <2> QED BY <1>1, <2>1, <2>2, <2>3, <2>4, <2>5 DEF TypeOK
<1>23. ASSUME NEW c \in Copiers, QueueIdle(c) PROVE TypeOK'
  <2>1. at' \in [Threads -> Points]
    BY <1>1, <1>23, GoToTypes DEF QueueIdle, Unstage, Points, Threads
  <2>2. failures' \in 0..MaxFailures
    BY <1>1, <1>23, FailTypes DEF QueueIdle, Unstage
  <2>3. /\ queue' \in Copiers \cup {Nobody}
        /\ cmdPool' \in Copiers \cup {Nobody}
        /\ staging' \in [Buffers -> Copiers \cup {Nobody}]
        /\ lost' \in BOOLEAN
    BY <1>1, <1>23 DEF QueueIdle, Fail, Unstage, TypeOK, Threads
  <2>4. UNCHANGED <<mapped, left, outcome, scratch, idle, page, inner, state,
                    nextValue, lastSubmitted, fence, inFlight, timeline>>
    BY <1>23 DEF QueueIdle, Fail, Unstage
  <2> QED BY <1>1, <2>1, <2>2, <2>3, <2>4 DEF TypeOK
<1>24. ASSUME NEW c \in Copiers, ReadStaging(c) PROVE TypeOK'
  <2>1. at' \in [Threads -> Points]
    BY <1>1, <1>24, GoToTypes DEF ReadStaging, Unstage, Points, Threads
  <2>2. staging' \in [Buffers -> Copiers \cup {Nobody}]
    BY <1>1, <1>24 DEF ReadStaging, Unstage, TypeOK, Threads
  <2>3. UNCHANGED <<mapped, left, outcome, scratch, idle, page, inner, state,
                    nextValue, lastSubmitted, fence, cmdPool, queue, inFlight,
                    timeline, failures, lost>>
    BY <1>24 DEF ReadStaging, Unstage
  <2> QED BY <1>1, <2>1, <2>2, <2>3 DEF TypeOK
<1>25. CASE Complete
  <2>1. /\ inFlight \in Seq(Work) /\ inFlight # <<>> /\ inFlight' = Tail(inFlight)
        /\ timeline' = IF Head(inFlight).value > 0 THEN Head(inFlight).value ELSE timeline
        /\ nextValue \in Nat /\ timeline \in 0..(nextValue - 1)
    BY <1>1, <1>25 DEF Complete, TypeOK
  <2>2. inFlight' \in Seq(Work) /\ Head(inFlight) \in Elements(inFlight)
        /\ Head(inFlight) \in Work
    <3>1. inFlight' \in Seq(Work) /\ Head(inFlight) \in Elements(inFlight)
      BY <2>1, Completing
    <3>2. Head(inFlight) \in Work
      BY <2>1, HeadTailProperties
    <3> QED BY <3>1, <3>2
  <2>3. timeline' \in 0..(nextValue - 1)
    <3>1. Head(inFlight).value < nextValue
      BY <2>2 DEF IInv, DeviceInv
    <3>2. Head(inFlight).value \in Nat
      BY <2>2 DEF Work
    <3> DEFINE v == Head(inFlight).value
    <3> HIDE DEF v
    <3>3. v < nextValue /\ v \in Nat /\ timeline' = IF v > 0 THEN v ELSE timeline
      BY <2>1, <3>1, <3>2 DEF v
    <3> QED BY <2>1, <3>3
  <2>4. UNCHANGED <<mapped, at, left, outcome, scratch, idle, page, inner, state, nextValue,
                    lastSubmitted, fence, staging, cmdPool, queue, failures, lost>>
    BY <1>25 DEF Complete
  <2> QED BY <1>1, <2>2, <2>3, <2>4 DEF TypeOK
<1> QED BY <1>2, <1>3, <1>4, <1>5, <1>6, <1>7, <1>8, <1>9, <1>10, <1>11,
     <1>12, <1>13, <1>14, <1>15, <1>16, <1>17, <1>18, <1>19, <1>20, <1>21,
     <1>22, <1>23, <1>24, <1>25 DEF Next, Fill, Copy

-----------------------------------------------------------------------------
(* The recorder's state                                                    *)

\* A step inside a page, or that opens one, concerns no other filler.
LEMMA PageMove ==
  ASSUME TypeOK, LocksInv, StateInv, NEW t \in Fillers, NEW p, GoTo(t, p),
         at[t] \in InPage \/ page = Nobody,
         StateAt(p, state'), p \in {"wait", "waiting"} => fence'[t] = lastSubmitted',
         page' = Nobody => state' = "Idle"
  PROVE  StateInv'
<1>1. Nobody \notin Fillers
  BY PageRecorderAssumption DEF Threads
<1>2. ASSUME NEW u \in Fillers, u # t PROVE at'[u] = at[u] /\ at[u] \notin InPage
  BY <1>1, <1>2 DEF GoTo, TypeOK, Threads, LocksInv, HeldBy
<1>3. at'[t] = p
  BY DEF GoTo, TypeOK, Threads
<1>4. ASSUME NEW u \in Fillers
      PROVE  StateAt(at'[u], state')
             /\ (at'[u] \in {"wait", "waiting"} => fence'[u] = lastSubmitted')
  <2>1. CASE u = t
    BY <2>1, <1>3
  <2>2. CASE u # t
    BY <1>2, <2>2 DEF StateAt, InPage, FillPoints, LocksInv
  <2> QED BY <2>1, <2>2
<1> QED BY <1>4 DEF StateInv

\* A step outside the pages concerns none.
LEMMA OutsideMove ==
  ASSUME TypeOK, StateInv, NEW t \in Threads, NEW p, GoTo(t, p),
         t \in Fillers => p \notin InPage,
         UNCHANGED <<page, state, lastSubmitted>>,
         \A u \in Fillers : u # t => fence'[u] = fence[u]
  PROVE  StateInv'
<1>1. at'[t] = p /\ \A u \in Threads : u # t => at'[u] = at[u]
  BY DEF GoTo, TypeOK
<1>2. ASSUME NEW u \in Fillers
      PROVE  StateAt(at'[u], state')
             /\ (at'[u] \in {"wait", "waiting"} => fence'[u] = lastSubmitted')
  <2>1. CASE u = t
    BY <1>1, <2>1 DEF StateAt, InPage, FillPoints
  <2>2. CASE u # t
    BY <1>1, <2>2 DEF StateInv, Threads
  <2> QED BY <2>1, <2>2
<1> QED BY <1>2 DEF StateInv

\* The recorder's state follows the thread that holds the page.
LEMMA StateStep ==
  ASSUME IInv, Next
  PROVE  StateInv'
<1> USE DEF threadVars, scratchVars, recorderVars, transferVars, deviceVars, faultVars
<1>1. TypeOK /\ LocksInv /\ StateInv
  BY DEF IInv
<1>2. ASSUME NEW t \in Fillers, Take(t) PROVE StateInv'
  <2>1. GoTo(t, "stage")
    BY <1>2 DEF Take
  <2>2. /\ UNCHANGED <<page, state, lastSubmitted>>
        /\ \A u \in Fillers : u # t => fence'[u] = fence[u]
    BY <1>1, <1>2 DEF Take
  <2> QED BY <1>1, <2>1, <2>2, OutsideMove DEF Threads, InPage, FillPoints
<1>3. ASSUME NEW t \in Fillers, Stage(t) PROVE StateInv'
  <2>1. GoTo(t, "lock page") \/ GoTo(t, "put")
    BY <1>3 DEF Stage
  <2>2. /\ UNCHANGED <<page, state, lastSubmitted>>
        /\ \A u \in Fillers : u # t => fence'[u] = fence[u]
    BY <1>1, <1>3 DEF Stage
  <2> QED BY <1>1, <2>1, <2>2, OutsideMove DEF Threads, InPage, FillPoints
<1>4. ASSUME NEW t \in Fillers, LockPage(t) PROVE StateInv'
  <2>1. page = Nobody /\ page' = t
    BY <1>1, <1>4 DEF LockPage
  <2>2. GoTo(t, "begin") /\ StateAt("begin", state')
    BY <1>1, <1>4 DEF LockPage, StateAt, StateInv, TypeOK
  <2>3. page' = Nobody => state' = "Idle"
    BY <1>1, <1>4, <2>1, PageRecorderAssumption DEF LockPage, Threads
  <2> QED BY <1>1, <2>1, <2>2, <2>3, PageMove
<1>5. ASSUME NEW t \in Fillers, BeginPage(t) PROVE StateInv'
  <2>1. at[t] \in InPage /\ page = t
    BY <1>1, <1>5 DEF BeginPage, InPage, FillPoints, LocksInv, HeldBy
  <2>2. \/ GoTo(t, "record") /\ StateAt("record", state')
        \/ GoTo(t, "abandon") /\ StateAt("abandon", state')
    BY <1>1, <1>5 DEF BeginPage, Abandon, StateAt, StateInv, TypeOK
  <2>3. page' = Nobody => state' = "Idle"
    BY <1>1, <1>5, <2>1, PageRecorderAssumption DEF BeginPage, Abandon, Threads
  <2> QED BY <1>1, <2>1, <2>2, <2>3, PageMove
<1>6. ASSUME NEW t \in Fillers, Record(t) PROVE StateInv'
  <2>1. at[t] \in InPage /\ page = t
    BY <1>1, <1>6 DEF Record, InPage, FillPoints, LocksInv, HeldBy
  <2>2. \/ GoTo(t, "submit") /\ StateAt("submit", state')
        \/ GoTo(t, "abandon") /\ StateAt("abandon", state')
    BY <1>1, <1>6 DEF Record, Abandon, StateAt, StateInv, TypeOK
  <2>3. page' = Nobody => state' = "Idle"
    BY <1>1, <1>6, <2>1, PageRecorderAssumption DEF Record, Abandon, Threads
  <2> QED BY <1>1, <2>1, <2>2, <2>3, PageMove
<1>7. ASSUME NEW t \in Fillers, SubmitPage(t) PROVE StateInv'
  <2>1. at[t] \in InPage /\ page = t
    BY <1>1, <1>7 DEF SubmitPage, InPage, FillPoints, LocksInv, HeldBy
  <2>2. GoTo(t, "submitting") /\ StateAt("submitting", state')
    BY <1>1, <1>7 DEF SubmitPage, StateAt, StateInv, TypeOK
  <2>3. page' = Nobody => state' = "Idle"
    BY <1>1, <1>7, <2>1, PageRecorderAssumption DEF SubmitPage, Threads
  <2> QED BY <1>1, <2>1, <2>2, <2>3, PageMove
<1>8. ASSUME NEW t \in Fillers, EndAndSubmit(t) PROVE StateInv'
  <2>1. at[t] \in InPage /\ page = t
    BY <1>1, <1>8 DEF EndAndSubmit, InPage, FillPoints, LocksInv, HeldBy
  <2>2. \/ GoTo(t, "wait") /\ StateAt("wait", state') /\ fence'[t] = lastSubmitted'
        \/ GoTo(t, "abandon") /\ StateAt("abandon", state')
    BY <1>1, <1>8 DEF EndAndSubmit, Abandon, StateAt, StateInv, TypeOK
  <2>3. page' = Nobody => state' = "Idle"
    BY <1>1, <1>8, <2>1, PageRecorderAssumption DEF EndAndSubmit, Abandon, Threads
  <2> QED BY <1>1, <2>1, <2>2, <2>3, PageMove
<1>9. ASSUME NEW t \in Fillers, EndFails(t) PROVE StateInv'
  <2>1. at[t] \in InPage /\ page = t
    BY <1>1, <1>9 DEF EndFails, InPage, FillPoints, LocksInv, HeldBy
  <2>2. GoTo(t, "abandon") /\ StateAt("abandon", state')
    BY <1>1, <1>9 DEF EndFails, Abandon, StateAt, StateInv, TypeOK
  <2>3. page' = Nobody => state' = "Idle"
    BY <1>1, <1>9, <2>1, PageRecorderAssumption DEF EndFails, Abandon, Threads
  <2> QED BY <1>1, <2>1, <2>2, <2>3, PageMove
<1>10. ASSUME NEW t \in Fillers, WaitPage(t) PROVE StateInv'
  <2>1. at[t] \in InPage /\ page = t
    BY <1>1, <1>10 DEF WaitPage, InPage, FillPoints, LocksInv, HeldBy
  <2>2. GoTo(t, "waiting") /\ StateAt("waiting", state') /\ fence'[t] = lastSubmitted'
    BY <1>1, <1>10 DEF WaitPage, StateAt, StateInv, TypeOK
  <2>3. page' = Nobody => state' = "Idle"
    BY <1>1, <1>10, <2>1, PageRecorderAssumption DEF WaitPage, Threads
  <2> QED BY <1>1, <2>1, <2>2, <2>3, PageMove
<1>11. ASSUME NEW t \in Fillers, Waited(t) PROVE StateInv'
  <2>1. at[t] \in InPage /\ page = t
    BY <1>1, <1>11 DEF Waited, InPage, FillPoints, LocksInv, HeldBy
  <2>2. \/ GoTo(t, "unlock page") /\ StateAt("unlock page", state')
        \/ GoTo(t, "abandon") /\ StateAt("abandon", state')
    BY <1>1, <1>11 DEF Waited, Abandon, StateAt, StateInv, TypeOK
  <2>3. page' = Nobody => state' = "Idle"
    BY <1>1, <1>11, <2>1, PageRecorderAssumption DEF Waited, Abandon, Threads
  <2> QED BY <1>1, <2>1, <2>2, <2>3, PageMove
<1>12. ASSUME NEW t \in Fillers, AbortPage(t) PROVE StateInv'
  <2>1. at[t] \in InPage /\ page = t
    BY <1>1, <1>12 DEF AbortPage, InPage, FillPoints, LocksInv, HeldBy
  <2>2. \/ GoTo(t, "abandoning") /\ StateAt("abandoning", state')
        \/ GoTo(t, "unlock page") /\ StateAt("unlock page", state')
    BY <1>1, <1>12 DEF AbortPage, StateAt, StateInv, TypeOK
  <2>3. page' = Nobody => state' = "Idle"
    BY <1>1, <1>12, <2>1, PageRecorderAssumption DEF AbortPage, Threads
  <2> QED BY <1>1, <2>1, <2>2, <2>3, PageMove
<1>13. ASSUME NEW t \in Fillers, Aborted(t) PROVE StateInv'
  <2>1. at[t] \in InPage /\ page = t
    BY <1>1, <1>13 DEF Aborted, InPage, FillPoints, LocksInv, HeldBy
  <2>2. GoTo(t, "unlock page") /\ StateAt("unlock page", state')
    BY <1>1, <1>13 DEF Aborted, StateAt, StateInv, TypeOK
  <2>3. page' = Nobody => state' = "Idle"
    BY <1>1, <1>13, <2>1, PageRecorderAssumption DEF Aborted, Threads
  <2> QED BY <1>1, <2>1, <2>2, <2>3, PageMove
<1>14. ASSUME NEW t \in Fillers, UnlockPage(t) PROVE StateInv'
  <2>1. at[t] \in InPage /\ page = t
    BY <1>1, <1>14 DEF UnlockPage, InPage, FillPoints, LocksInv, HeldBy
  <2>2. GoTo(t, "put") /\ StateAt("put", state')
    BY <1>1, <1>14 DEF UnlockPage, StateAt, StateInv, TypeOK
  <2>3. page' = Nobody => state' = "Idle"
    BY <1>1, <1>14, <2>1, PageRecorderAssumption DEF UnlockPage, Threads, StateInv, StateAt
  <2> QED BY <1>1, <2>1, <2>2, <2>3, PageMove
<1>15. ASSUME NEW t \in Fillers, Put(t) PROVE StateInv'
  <2>1. GoTo(t, "idle")
    BY <1>15 DEF Put
  <2>2. /\ UNCHANGED <<page, state, lastSubmitted>>
        /\ \A u \in Fillers : u # t => fence'[u] = fence[u]
    BY <1>1, <1>15 DEF Put, TypeOK
  <2> QED BY <1>1, <2>1, <2>2, OutsideMove DEF Threads, InPage, FillPoints
<1>16. ASSUME NEW c \in Copiers, StartCopy(c) PROVE StateInv'
  <2>1. GoTo(c, "quiesce") \/ GoTo(c, "lock staging")
    BY <1>16 DEF StartCopy
  <2>2. /\ UNCHANGED <<page, state, lastSubmitted>>
        /\ \A u \in Fillers : u # c => fence'[u] = fence[u]
    BY <1>1, <1>16 DEF StartCopy
  <2>3. c \in Threads /\ c \notin Fillers
    BY PageRecorderAssumption DEF Threads
  <2> QED BY <1>1, <2>1, <2>2, <2>3, OutsideMove
<1>17. ASSUME NEW c \in Copiers, Quiesce(c) PROVE StateInv'
  <2>1. GoTo(c, "quiescing")
    BY <1>17 DEF Quiesce
  <2>2. /\ UNCHANGED <<page, state, lastSubmitted>>
        /\ \A u \in Fillers : u # c => fence'[u] = fence[u]
    BY <1>1, <1>17 DEF Quiesce
  <2>3. c \in Threads /\ c \notin Fillers
    BY PageRecorderAssumption DEF Threads
  <2> QED BY <1>1, <2>1, <2>2, <2>3, OutsideMove
<1>18. ASSUME NEW c \in Copiers, Quiescent(c) PROVE StateInv'
  <2>1. GoTo(c, "access") \/ GoTo(c, "idle")
    BY <1>18 DEF Quiescent
  <2>2. /\ UNCHANGED <<page, state, lastSubmitted>>
        /\ \A u \in Fillers : u # c => fence'[u] = fence[u]
    BY <1>1, <1>18 DEF Quiescent
  <2>3. c \in Threads /\ c \notin Fillers
    BY PageRecorderAssumption DEF Threads
  <2> QED BY <1>1, <2>1, <2>2, <2>3, OutsideMove
<1>19. ASSUME NEW c \in Copiers, Access(c) PROVE StateInv'
  <2>1. GoTo(c, "idle")
    BY <1>19 DEF Access
  <2>2. /\ UNCHANGED <<page, state, lastSubmitted>>
        /\ \A u \in Fillers : u # c => fence'[u] = fence[u]
    BY <1>1, <1>19 DEF Access
  <2>3. c \in Threads /\ c \notin Fillers
    BY PageRecorderAssumption DEF Threads
  <2> QED BY <1>1, <2>1, <2>2, <2>3, OutsideMove
<1>20. ASSUME NEW c \in Copiers, LockStaging(c) PROVE StateInv'
  <2>1. GoTo(c, "lock pool")
    BY <1>20 DEF LockStaging
  <2>2. /\ UNCHANGED <<page, state, lastSubmitted>>
        /\ \A u \in Fillers : u # c => fence'[u] = fence[u]
    BY <1>1, <1>20 DEF LockStaging
  <2>3. c \in Threads /\ c \notin Fillers
    BY PageRecorderAssumption DEF Threads
  <2> QED BY <1>1, <2>1, <2>2, <2>3, OutsideMove
<1>21. ASSUME NEW c \in Copiers, LockCmdPool(c) PROVE StateInv'
  <2>1. GoTo(c, "lock queue") \/ GoTo(c, "idle")
    BY <1>21 DEF LockCmdPool, Unstage
  <2>2. /\ UNCHANGED <<page, state, lastSubmitted>>
        /\ \A u \in Fillers : u # c => fence'[u] = fence[u]
    BY <1>1, <1>21 DEF LockCmdPool, Unstage
  <2>3. c \in Threads /\ c \notin Fillers
    BY PageRecorderAssumption DEF Threads
  <2> QED BY <1>1, <2>1, <2>2, <2>3, OutsideMove
<1>22. ASSUME NEW c \in Copiers, SubmitCopy(c) PROVE StateInv'
  <2>1. GoTo(c, "copying") \/ GoTo(c, "idle")
    BY <1>22 DEF SubmitCopy, Unstage
  <2>2. /\ UNCHANGED <<page, state, lastSubmitted>>
        /\ \A u \in Fillers : u # c => fence'[u] = fence[u]
    BY <1>1, <1>22 DEF SubmitCopy, Unstage
  <2>3. c \in Threads /\ c \notin Fillers
    BY PageRecorderAssumption DEF Threads
  <2> QED BY <1>1, <2>1, <2>2, <2>3, OutsideMove
<1>23. ASSUME NEW c \in Copiers, QueueIdle(c) PROVE StateInv'
  <2>1. GoTo(c, "read") \/ GoTo(c, "idle")
    BY <1>23 DEF QueueIdle, Unstage
  <2>2. /\ UNCHANGED <<page, state, lastSubmitted>>
        /\ \A u \in Fillers : u # c => fence'[u] = fence[u]
    BY <1>1, <1>23 DEF QueueIdle, Unstage
  <2>3. c \in Threads /\ c \notin Fillers
    BY PageRecorderAssumption DEF Threads
  <2> QED BY <1>1, <2>1, <2>2, <2>3, OutsideMove
<1>24. ASSUME NEW c \in Copiers, ReadStaging(c) PROVE StateInv'
  <2>1. GoTo(c, "idle")
    BY <1>24 DEF ReadStaging, Unstage
  <2>2. /\ UNCHANGED <<page, state, lastSubmitted>>
        /\ \A u \in Fillers : u # c => fence'[u] = fence[u]
    BY <1>1, <1>24 DEF ReadStaging, Unstage
  <2>3. c \in Threads /\ c \notin Fillers
    BY PageRecorderAssumption DEF Threads
  <2> QED BY <1>1, <2>1, <2>2, <2>3, OutsideMove
<1>25. CASE Complete
  BY <1>1, <1>25 DEF Complete, StateInv
<1> QED BY <1>2, <1>3, <1>4, <1>5, <1>6, <1>7, <1>8, <1>9, <1>10, <1>11,
     <1>12, <1>13, <1>14, <1>15, <1>16, <1>17, <1>18, <1>19, <1>20, <1>21,
     <1>22, <1>23, <1>24, <1>25 DEF Next, Fill, Copy

-----------------------------------------------------------------------------
(* The pool                                                                *)

\* A step that neither borrows nor gives back.
LEMMA ScratchKept ==
  ASSUME TypeOK, ScratchInv, NEW t \in Threads, NEW p, GoTo(t, p), UNCHANGED scratchVars,
         t \in Fillers => at[t] # "idle" /\ p # "idle"
  PROVE  ScratchInv'
<1>1. UNCHANGED <<scratch, idle>>
  BY DEF scratchVars
<1>2. \A u \in Fillers : at'[u] = "idle" <=> at[u] = "idle"
  BY DEF GoTo, TypeOK, Threads
<1>3. Borrowers' = Borrowers
  BY <1>1 DEF Borrowers
<1> QED BY <1>1, <1>2, <1>3 DEF ScratchInv

\* Scratches lent are counted.
LEMMA BorrowersFinite ==
  /\ IsFiniteSet(Borrowers) /\ Cardinality(Borrowers) \in Nat
  /\ Cardinality(Fillers) \in Nat /\ Cardinality(Borrowers) <= Cardinality(Fillers)
<1>1. IsFiniteSet(Fillers) /\ Borrowers \subseteq Fillers
  BY PageRecorderAssumption DEF Borrowers
<1> QED BY <1>1, FS_Subset, FS_CardinalityType

\* A borrowed scratch was idle or is new.
LEMMA TakeKeeps ==
  ASSUME IInv, NEW t \in Fillers, Take(t)
  PROVE  ScratchInv'
<1>1. /\ TypeOK /\ ScratchInv /\ at[t] = "idle" /\ scratch[t] = Nobody
      /\ Nobody \notin Scratches
  BY PageRecorderAssumption DEF IInv, Take, ScratchInv
<1>2. PICK s \in Scratches :
        /\ scratch' = [scratch EXCEPT ![t] = s]
        /\ \A u \in Fillers : scratch[u] # s
        /\ s \notin Elements(idle') /\ Elements(idle') \subseteq Elements(idle)
        /\ Distinct(idle')
        /\ \/ idle # <<>> /\ Len(idle') = Len(idle) - 1
           \/ Len(idle') = 0
  <2>1. CASE idle = <<>>
    <3>1. /\ NewScratch \in Scratches /\ \A u \in Fillers : scratch[u] # NewScratch
          /\ scratch' = [scratch EXCEPT ![t] = NewScratch] /\ idle' = idle
      BY <1>1, <2>1, FreshScratch DEF Take
    <3>2. Len(idle) = 0 /\ Elements(idle) = {}
      BY <2>1, EmptySeq DEF Elements
    <3>3. Distinct(idle)
      BY <1>1 DEF ScratchInv
    <3> QED BY <3>1, <3>2, <3>3
  <2>2. CASE idle # <<>>
    <3>1. /\ scratch' = [scratch EXCEPT ![t] = idle[Len(idle)]]
          /\ idle' = SubSeq(idle, 1, Len(idle) - 1)
      BY <2>2 DEF Take
    <3>2. idle \in Seq(Scratches) /\ Distinct(idle)
      BY <1>1 DEF TypeOK, ScratchInv
    <3>3. /\ Len(idle') = Len(idle) - 1 /\ Distinct(idle')
          /\ Elements(idle') \subseteq Elements(idle)
          /\ idle[Len(idle)] \in Elements(idle) \ Elements(idle')
          /\ idle[Len(idle)] \in Scratches
      BY <2>2, <3>1, <3>2, Popping
    <3>4. \A u \in Fillers : scratch[u] # idle[Len(idle)]
      BY <1>1, <3>3 DEF ScratchInv
    <3> QED BY <2>2, <3>1, <3>3, <3>4
  <2> QED BY <2>1, <2>2
<1>3. /\ scratch'[t] = s /\ at'[t] = "stage"
      /\ \A u \in Fillers : u # t => scratch'[u] = scratch[u] /\ at'[u] = at[u]
  BY <1>1, <1>2 DEF Take, GoTo, TypeOK, Threads
<1>4. Len(idle') + Cardinality(Borrowers') <= Cardinality(Fillers)
  <2>1. Borrowers' = Borrowers \cup {t} /\ t \notin Borrowers
    BY <1>1, <1>3 DEF Borrowers
  <2>2. /\ Cardinality(Borrowers') = Cardinality(Borrowers) + 1
        /\ Cardinality(Borrowers) \in Nat /\ Cardinality(Fillers) \in Nat
    BY <2>1, BorrowersFinite, FS_AddElement
  <2>3. Cardinality(Borrowers') <= Cardinality(Fillers)
    <3>1. IsFiniteSet(Fillers) /\ Borrowers' \subseteq Fillers
      BY PageRecorderAssumption DEF Borrowers
    <3> QED BY <3>1, FS_Subset
  <2>4. Len(idle) \in Nat /\ Len(idle) + Cardinality(Borrowers) <= Cardinality(Fillers)
    BY <1>1, LenProperties DEF TypeOK, ScratchInv
  <2> DEFINE b == Cardinality(Borrowers)
             f == Cardinality(Fillers)
             l == Len(idle)
             m == Len(idle')
             c == Cardinality(Borrowers')
  <2>5. m = l - 1 \/ m = 0
    BY <1>2
  <2>6. b \in Nat /\ f \in Nat /\ l \in Nat /\ c = b + 1 /\ c <= f /\ l + b <= f
    BY <2>2, <2>3, <2>4
  <2> HIDE DEF b, f, l, m, c
  <2>7. m + c <= f
    BY <2>5, <2>6
  <2> QED BY <2>7 DEF m, c, f
<1>5. \A u \in Fillers : at'[u] = "idle" <=> scratch'[u] = Nobody
  BY <1>1, <1>2, <1>3 DEF ScratchInv
<1>6. \A u, v \in Fillers : scratch'[u] = scratch'[v] /\ scratch'[u] # Nobody => u = v
  BY <1>1, <1>2, <1>3 DEF ScratchInv
<1>7. \A u \in Fillers : scratch'[u] \notin Elements(idle')
  BY <1>1, <1>2, <1>3 DEF ScratchInv
<1> QED BY <1>2, <1>4, <1>5, <1>6, <1>7 DEF ScratchInv

\* A scratch given back was lent to no one else.
LEMMA PutKeeps ==
  ASSUME IInv, NEW t \in Fillers, Put(t)
  PROVE  ScratchInv'
<1>1. /\ TypeOK /\ ScratchInv /\ at[t] = "put" /\ scratch[t] # Nobody
      /\ scratch[t] \in Scratches /\ idle \in Seq(Scratches)
  BY DEF IInv, Put, ScratchInv, TypeOK
<1>2. /\ scratch'[t] = Nobody /\ at'[t] = "idle"
      /\ \A u \in Fillers : u # t => scratch'[u] = scratch[u] /\ at'[u] = at[u]
  BY <1>1 DEF Put, GoTo, TypeOK, Threads
<1>3. idle' = idle \/ idle' = Append(idle, scratch[t])
  BY DEF Put
<1>4. scratch[t] \notin Elements(idle) /\ Distinct(idle)
  BY <1>1 DEF ScratchInv
<1>5. /\ Distinct(idle') /\ Elements(idle') \subseteq Elements(idle) \cup {scratch[t]}
      /\ (Len(idle') = Len(idle) \/ Len(idle') = Len(idle) + 1)
  <2>1. CASE idle' = idle
    BY <1>4, <2>1
  <2>2. CASE idle' = Append(idle, scratch[t])
    BY <1>1, <1>4, <2>2, Pushing, Submitting
  <2> QED BY <1>3, <2>1, <2>2
<1>6. Len(idle') + Cardinality(Borrowers') <= Cardinality(Fillers)
  <2>1. Borrowers' = Borrowers \ {t} /\ t \in Borrowers
    BY <1>1, <1>2 DEF Borrowers
  <2>2. /\ Cardinality(Borrowers') = Cardinality(Borrowers) - 1
        /\ Cardinality(Borrowers) \in Nat /\ Cardinality(Fillers) \in Nat
    BY <2>1, BorrowersFinite, FS_RemoveElement
  <2>3. Len(idle) \in Nat /\ Len(idle) + Cardinality(Borrowers) <= Cardinality(Fillers)
    BY <1>1, LenProperties DEF ScratchInv
  <2> DEFINE b == Cardinality(Borrowers)
             f == Cardinality(Fillers)
             l == Len(idle)
             m == Len(idle')
             c == Cardinality(Borrowers')
  <2>4. m = l \/ m = l + 1
    BY <1>5
  <2>5. b \in Nat /\ f \in Nat /\ l \in Nat /\ c = b - 1 /\ l + b <= f
    BY <2>2, <2>3
  <2> HIDE DEF b, f, l, m, c
  <2>6. m + c <= f
    BY <2>4, <2>5
  <2> QED BY <2>6 DEF m, c, f
<1>7. \A u \in Fillers : at'[u] = "idle" <=> scratch'[u] = Nobody
  BY <1>1, <1>2 DEF ScratchInv
<1>8. \A u, v \in Fillers : scratch'[u] = scratch'[v] /\ scratch'[u] # Nobody => u = v
  BY <1>1, <1>2 DEF ScratchInv
<1>9. \A u \in Fillers : scratch'[u] \notin Elements(idle')
  <2>1. Nobody \notin Elements(idle')
    <3>1. idle' \in Seq(Scratches)
      BY <1>1, <1>3, Submitting
    <3>2. \A i \in 1..Len(idle') : idle'[i] \in Scratches
      BY <3>1, ElementOfSeq
    <3> QED BY <3>2, PageRecorderAssumption DEF Elements
  <2> QED BY <1>1, <1>2, <1>5, <2>1 DEF ScratchInv
<1> QED BY <1>5, <1>6, <1>7, <1>8, <1>9 DEF ScratchInv

\* Scratches are lent once, whatever happens to the pages.
LEMMA ScratchStep ==
  ASSUME IInv, Next
  PROVE  ScratchInv'
<1> USE DEF threadVars, scratchVars, recorderVars, transferVars, deviceVars, faultVars
<1>1. TypeOK /\ ScratchInv
  BY DEF IInv
<1>2. ASSUME NEW t \in Fillers, Take(t) PROVE ScratchInv'
  BY <1>2, TakeKeeps
<1>3. ASSUME NEW t \in Fillers, Stage(t) PROVE ScratchInv'
  <2>1. /\ (GoTo(t, "lock page") \/ GoTo(t, "put"))
        /\ UNCHANGED scratchVars /\ at[t] # "idle"
    BY <1>3 DEF Stage
  <2> QED BY <1>1, <2>1, ScratchKept DEF Threads
<1>4. ASSUME NEW t \in Fillers, LockPage(t) PROVE ScratchInv'
  <2>1. /\ GoTo(t, "begin")
        /\ UNCHANGED scratchVars /\ at[t] # "idle"
    BY <1>4 DEF LockPage
  <2> QED BY <1>1, <2>1, ScratchKept DEF Threads
<1>5. ASSUME NEW t \in Fillers, BeginPage(t) PROVE ScratchInv'
  <2>1. /\ (GoTo(t, "record") \/ GoTo(t, "abandon"))
        /\ UNCHANGED scratchVars /\ at[t] # "idle"
    BY <1>5 DEF BeginPage, Abandon
  <2> QED BY <1>1, <2>1, ScratchKept DEF Threads
<1>6. ASSUME NEW t \in Fillers, Record(t) PROVE ScratchInv'
  <2>1. /\ (GoTo(t, "submit") \/ GoTo(t, "abandon"))
        /\ UNCHANGED scratchVars /\ at[t] # "idle"
    BY <1>6 DEF Record, Abandon
  <2> QED BY <1>1, <2>1, ScratchKept DEF Threads
<1>7. ASSUME NEW t \in Fillers, SubmitPage(t) PROVE ScratchInv'
  <2>1. /\ GoTo(t, "submitting")
        /\ UNCHANGED scratchVars /\ at[t] # "idle"
    BY <1>7 DEF SubmitPage
  <2> QED BY <1>1, <2>1, ScratchKept DEF Threads
<1>8. ASSUME NEW t \in Fillers, EndAndSubmit(t) PROVE ScratchInv'
  <2>1. /\ (GoTo(t, "wait") \/ GoTo(t, "abandon"))
        /\ UNCHANGED scratchVars /\ at[t] # "idle"
    BY <1>8 DEF EndAndSubmit, Abandon
  <2> QED BY <1>1, <2>1, ScratchKept DEF Threads
<1>9. ASSUME NEW t \in Fillers, EndFails(t) PROVE ScratchInv'
  <2>1. /\ GoTo(t, "abandon")
        /\ UNCHANGED scratchVars /\ at[t] # "idle"
    BY <1>9 DEF EndFails, Abandon
  <2> QED BY <1>1, <2>1, ScratchKept DEF Threads
<1>10. ASSUME NEW t \in Fillers, WaitPage(t) PROVE ScratchInv'
  <2>1. /\ GoTo(t, "waiting")
        /\ UNCHANGED scratchVars /\ at[t] # "idle"
    BY <1>10 DEF WaitPage
  <2> QED BY <1>1, <2>1, ScratchKept DEF Threads
<1>11. ASSUME NEW t \in Fillers, Waited(t) PROVE ScratchInv'
  <2>1. /\ (GoTo(t, "unlock page") \/ GoTo(t, "abandon"))
        /\ UNCHANGED scratchVars /\ at[t] # "idle"
    BY <1>11 DEF Waited, Abandon
  <2> QED BY <1>1, <2>1, ScratchKept DEF Threads
<1>12. ASSUME NEW t \in Fillers, AbortPage(t) PROVE ScratchInv'
  <2>1. /\ (GoTo(t, "abandoning") \/ GoTo(t, "unlock page"))
        /\ UNCHANGED scratchVars /\ at[t] # "idle"
    BY <1>12 DEF AbortPage
  <2> QED BY <1>1, <2>1, ScratchKept DEF Threads
<1>13. ASSUME NEW t \in Fillers, Aborted(t) PROVE ScratchInv'
  <2>1. /\ GoTo(t, "unlock page")
        /\ UNCHANGED scratchVars /\ at[t] # "idle"
    BY <1>13 DEF Aborted
  <2> QED BY <1>1, <2>1, ScratchKept DEF Threads
<1>14. ASSUME NEW t \in Fillers, UnlockPage(t) PROVE ScratchInv'
  <2>1. /\ GoTo(t, "put")
        /\ UNCHANGED scratchVars /\ at[t] # "idle"
    BY <1>14 DEF UnlockPage
  <2> QED BY <1>1, <2>1, ScratchKept DEF Threads
<1>15. ASSUME NEW t \in Fillers, Put(t) PROVE ScratchInv'
  BY <1>15, PutKeeps
<1>16. ASSUME NEW c \in Copiers, StartCopy(c) PROVE ScratchInv'
  <2>1. /\ (GoTo(c, "quiesce") \/ GoTo(c, "lock staging"))
        /\ UNCHANGED scratchVars
    BY <1>16 DEF StartCopy
  <2>2. c \in Threads /\ c \notin Fillers
    BY PageRecorderAssumption DEF Threads
  <2> QED BY <1>1, <2>1, <2>2, ScratchKept
<1>17. ASSUME NEW c \in Copiers, Quiesce(c) PROVE ScratchInv'
  <2>1. /\ GoTo(c, "quiescing")
        /\ UNCHANGED scratchVars
    BY <1>17 DEF Quiesce
  <2>2. c \in Threads /\ c \notin Fillers
    BY PageRecorderAssumption DEF Threads
  <2> QED BY <1>1, <2>1, <2>2, ScratchKept
<1>18. ASSUME NEW c \in Copiers, Quiescent(c) PROVE ScratchInv'
  <2>1. /\ (GoTo(c, "access") \/ GoTo(c, "idle"))
        /\ UNCHANGED scratchVars
    BY <1>18 DEF Quiescent
  <2>2. c \in Threads /\ c \notin Fillers
    BY PageRecorderAssumption DEF Threads
  <2> QED BY <1>1, <2>1, <2>2, ScratchKept
<1>19. ASSUME NEW c \in Copiers, Access(c) PROVE ScratchInv'
  <2>1. /\ GoTo(c, "idle")
        /\ UNCHANGED scratchVars
    BY <1>19 DEF Access
  <2>2. c \in Threads /\ c \notin Fillers
    BY PageRecorderAssumption DEF Threads
  <2> QED BY <1>1, <2>1, <2>2, ScratchKept
<1>20. ASSUME NEW c \in Copiers, LockStaging(c) PROVE ScratchInv'
  <2>1. /\ GoTo(c, "lock pool")
        /\ UNCHANGED scratchVars
    BY <1>20 DEF LockStaging
  <2>2. c \in Threads /\ c \notin Fillers
    BY PageRecorderAssumption DEF Threads
  <2> QED BY <1>1, <2>1, <2>2, ScratchKept
<1>21. ASSUME NEW c \in Copiers, LockCmdPool(c) PROVE ScratchInv'
  <2>1. /\ (GoTo(c, "lock queue") \/ GoTo(c, "idle"))
        /\ UNCHANGED scratchVars
    BY <1>21 DEF LockCmdPool, Unstage
  <2>2. c \in Threads /\ c \notin Fillers
    BY PageRecorderAssumption DEF Threads
  <2> QED BY <1>1, <2>1, <2>2, ScratchKept
<1>22. ASSUME NEW c \in Copiers, SubmitCopy(c) PROVE ScratchInv'
  <2>1. /\ (GoTo(c, "copying") \/ GoTo(c, "idle"))
        /\ UNCHANGED scratchVars
    BY <1>22 DEF SubmitCopy, Unstage
  <2>2. c \in Threads /\ c \notin Fillers
    BY PageRecorderAssumption DEF Threads
  <2> QED BY <1>1, <2>1, <2>2, ScratchKept
<1>23. ASSUME NEW c \in Copiers, QueueIdle(c) PROVE ScratchInv'
  <2>1. /\ (GoTo(c, "read") \/ GoTo(c, "idle"))
        /\ UNCHANGED scratchVars
    BY <1>23 DEF QueueIdle, Unstage
  <2>2. c \in Threads /\ c \notin Fillers
    BY PageRecorderAssumption DEF Threads
  <2> QED BY <1>1, <2>1, <2>2, ScratchKept
<1>24. ASSUME NEW c \in Copiers, ReadStaging(c) PROVE ScratchInv'
  <2>1. /\ GoTo(c, "idle")
        /\ UNCHANGED scratchVars
    BY <1>24 DEF ReadStaging, Unstage
  <2>2. c \in Threads /\ c \notin Fillers
    BY PageRecorderAssumption DEF Threads
  <2> QED BY <1>1, <2>1, <2>2, ScratchKept
<1>25. CASE Complete
  BY <1>1, <1>25 DEF Complete, ScratchInv, Borrowers
<1> QED BY <1>2, <1>3, <1>4, <1>5, <1>6, <1>7, <1>8, <1>9, <1>10, <1>11,
     <1>12, <1>13, <1>14, <1>15, <1>16, <1>17, <1>18, <1>19, <1>20, <1>21,
     <1>22, <1>23, <1>24, <1>25 DEF Next, Fill, Copy

-----------------------------------------------------------------------------
(* The device                                                              *)

\* Each work in flight is one.
LEMMA WorkInFlight ==
  ASSUME TypeOK, NEW w \in Elements(inFlight)
  PROVE  w \in Work /\ w.value \in Nat
<1>1. PICK i \in 1..Len(inFlight) : w = inFlight[i]
  BY DEF Elements
<1>2. inFlight \in Seq(Work)
  BY DEF TypeOK
<1>3. w \in Work
  BY <1>1, <1>2, ElementOfSeq
<1> QED BY <1>3 DEF Work

NoPageInFlight == \A w \in Elements(inFlight) : ~(w.value > 0)

\* Without a page submitted, or with its value signalled, none is in flight.
LEMMA NoPage ==
  ASSUME IInv, ~lost, state # "Submitted" \/ page = Nobody \/ timeline >= lastSubmitted
  PROVE  NoPageInFlight
<1> SUFFICES ASSUME NEW w \in Elements(inFlight), w.value > 0
             PROVE  FALSE
  BY DEF NoPageInFlight
<1>1. PageWork(w)
  BY DEF IInv, DeviceInv
<1>2. timeline \in Nat /\ lastSubmitted \in Nat
  BY DEF IInv, TypeOK
<1> QED BY <1>1, <1>2, PageRecorderAssumption DEF PageWork, Threads

\* A step that submits nothing, while no page is in flight or beside the one
\* that is.
LEMMA DeviceKept ==
  ASSUME IInv, NEW t \in Threads, NEW p, GoTo(t, p), at[t] # "copying",
         p = "access" => timeline >= lastSubmitted,
         UNCHANGED <<inFlight, timeline, lost, lastSubmitted>>,
         nextValue' = nextValue \/ nextValue' = nextValue + 1,
         \/ ~lost => NoPageInFlight
         \/ /\ UNCHANGED <<page, state>>
            /\ \A u \in Fillers : at[u] \in InPage => scratch'[u] = scratch[u]
  PROVE  DeviceInv'
<1>1. at'[t] = p /\ \A u \in Threads : u # t => at'[u] = at[u]
  BY DEF IInv, TypeOK, GoTo
<1>2. Elements(inFlight') = Elements(inFlight) /\ PagesOnce(inFlight') = PagesOnce(inFlight)
  OBVIOUS
<1>3. \A w \in Elements(inFlight') : w.value < nextValue'
  <2>1. nextValue \in Nat
    BY DEF IInv, TypeOK
  <2> SUFFICES ASSUME NEW w \in Elements(inFlight) PROVE w.value < nextValue'
    BY <1>2
  <2>2. w.value < nextValue /\ w.value \in Nat
    BY WorkInFlight DEF IInv, DeviceInv
  <2> DEFINE v == w.value
  <2> HIDE DEF v
  <2>3. v < nextValue'
    BY <2>1, <2>2 DEF v
  <2> QED BY <2>3 DEF v
<1>4. ASSUME ~lost PROVE \A w \in Elements(inFlight') :
                           IF w.value > 0 THEN PageWork(w)' ELSE CopyWork(w)'
  <2> SUFFICES ASSUME NEW w \in Elements(inFlight)
               PROVE  IF w.value > 0 THEN PageWork(w)' ELSE CopyWork(w)'
    BY <1>2
  <2>1. CASE w.value > 0
    <3>1. PageWork(w)
      BY <1>4, <2>1 DEF IInv, DeviceInv
    <3>2. at[w.by] \in InPage
      BY <3>1 DEF PageWork, IInv, LocksInv, HeldBy
    <3>3. UNCHANGED <<page, state>> /\ scratch'[w.by] = scratch[w.by]
      BY <1>4, <2>1, <3>1, <3>2 DEF NoPageInFlight, PageWork
    <3> QED BY <2>1, <3>1, <3>3 DEF PageWork
  <2>2. CASE ~(w.value > 0)
    <3>1. CopyWork(w)
      BY <1>4, <2>2 DEF IInv, DeviceInv
    <3> QED BY <1>1, <2>2, <3>1 DEF CopyWork, Threads
  <2> QED BY <2>1, <2>2
<1>5. ASSUME ~lost, NEW c \in Copiers, at'[c] = "access"
      PROVE  timeline' >= lastSubmitted'
  BY <1>1, <1>5 DEF IInv, DeviceInv, Threads
<1> QED BY <1>2, <1>3, <1>4, <1>5 DEF IInv, DeviceInv

\* A wait that fails: nothing is claimed any more.
LEMMA DeviceLost ==
  ASSUME IInv, lost', UNCHANGED <<inFlight, nextValue>>
  PROVE  DeviceInv'
BY DEF IInv, DeviceInv

\* A page is submitted when the one before is done.
LEMMA SubmissionKeeps ==
  ASSUME IInv, NEW t \in Fillers, EndAndSubmit(t)
  PROVE  DeviceInv'
<1> USE DEF scratchVars, transferVars
<1>1. /\ TypeOK /\ at[t] = "submitting" /\ page = t /\ inner = t
      /\ ~lost => NoPageInFlight
  BY NoPage DEF IInv, EndAndSubmit, LocksInv, HeldBy, InPage, InInner, FillPoints, Threads
<1>2. CASE GoTo(t, "abandon") /\ inFlight' = inFlight /\ lastSubmitted' = lastSubmitted
  <2>1. /\ UNCHANGED <<inFlight, timeline, lost, lastSubmitted>>
        /\ nextValue' = nextValue + 1
    BY <1>2 DEF EndAndSubmit
  <2> QED BY <1>1, <1>2, <2>1, DeviceKept DEF Threads
<1>3. CASE GoTo(t, "wait") /\ lastSubmitted' = nextValue /\ state' = "Submitted"
  <2>1. /\ nextValue' = nextValue + 1 /\ nextValue \in Nat \ {0}
        /\ UNCHANGED <<page, timeline, lost, scratch>> /\ timeline \in 0..(nextValue - 1)
        /\ inFlight \in Seq(Work)
        /\ inFlight' = Append(inFlight, [by |-> t, value |-> nextValue,
                                         uses |-> {scratch[t], Shared}])
    BY <1>1, <1>3 DEF EndAndSubmit, GoTo, Abandon, TypeOK, Threads
  <2>2. scratch[t] \in Scratches
    BY <1>1 DEF IInv, TypeOK, ScratchInv
  <2>3. [by |-> t, value |-> nextValue, uses |-> {scratch[t], Shared}] \in Work
    BY <2>1, <2>2 DEF Work, Threads
  <2>4. at'[t] = "wait" /\ \A u \in Threads : u # t => at'[u] = at[u]
    BY <1>1, <1>3 DEF TypeOK, GoTo, Threads
  <2>5. PICK w \in Work : /\ inFlight' = Append(inFlight, w)
                          /\ w.by = t /\ w.value = nextValue
                          /\ w.uses = {scratch[t], Shared}
    BY <2>1, <2>3
  <2>6. Elements(inFlight') = Elements(inFlight) \cup {w}
    BY <2>1, <2>5, Submitting
  <2>7. ASSUME NEW v \in Elements(inFlight) PROVE v.value < nextValue'
    <3>1. v.value < nextValue /\ v.value \in Nat
      BY WorkInFlight DEF IInv, DeviceInv
    <3> DEFINE x == v.value
    <3> HIDE DEF x
    <3>2. x < nextValue'
      BY <2>1, <3>1 DEF x
    <3> QED BY <3>2 DEF x
  <2>8. ASSUME ~lost PROVE PagesOnce(inFlight')
    BY <1>1, <2>1, <2>5, <2>8, SubmittingPage DEF NoPageInFlight
  <2>9. ASSUME ~lost, NEW v \in Elements(inFlight) PROVE ~(v.value > 0) /\ CopyWork(v)'
    <3>1. ~(v.value > 0) /\ CopyWork(v)
      BY <1>1, <2>9 DEF NoPageInFlight, IInv, DeviceInv
    <3> QED BY <1>1, <2>4, <3>1 DEF CopyWork, Threads
  <2>10. PageWork(w)' /\ w.value > 0 /\ w.value < nextValue'
    BY <1>1, <1>3, <2>1, <2>5 DEF PageWork
  <2>11. ASSUME NEW c \in Copiers PROVE at'[c] # "access"
    <3>1. c \in Threads /\ c # t
      BY PageRecorderAssumption DEF Threads
    <3>2. at[c] # "access"
      BY <1>1, <3>1 DEF IInv, LocksInv, HeldBy, InInner
    <3> QED BY <2>4, <3>1, <3>2
  <2>12. \A v \in Elements(inFlight') : v.value < nextValue'
    BY <2>6, <2>7, <2>10
  <2>13. ASSUME ~lost, NEW v \in Elements(inFlight')
         PROVE  IF v.value > 0 THEN PageWork(v)' ELSE CopyWork(v)'
    BY <2>6, <2>9, <2>10, <2>13
  <2> QED BY <2>1, <2>8, <2>11, <2>12, <2>13 DEF DeviceInv
<1> QED BY <1>2, <1>3 DEF EndAndSubmit, Abandon

\* A copy is submitted beside a page.
LEMMA CopyKeeps ==
  ASSUME IInv, NEW c \in Copiers, SubmitCopy(c)
  PROVE  DeviceInv'
<1> USE DEF scratchVars, recorderVars
<1>1. /\ TypeOK /\ at[c] = "lock queue" /\ c \in Threads /\ c \notin Fillers
      /\ UNCHANGED <<page, state, lastSubmitted, nextValue, timeline, lost, scratch>>
  BY PageRecorderAssumption DEF IInv, SubmitCopy, Threads
<1>2. CASE GoTo(c, "idle") /\ inFlight' = inFlight
  BY <1>1, <1>2, DeviceKept
<1>3. CASE /\ GoTo(c, "copying")
           /\ inFlight' = Append(inFlight, [by |-> c, value |-> 0,
                                            uses |-> {Staging[c], Shared}])
  <2>1. inFlight \in Seq(Work) /\ nextValue \in Nat \ {0}
    BY <1>1 DEF TypeOK
  <2>2. [by |-> c, value |-> 0, uses |-> {Staging[c], Shared}] \in Work
    BY DEF Work, Threads, Buffers
  <2>3. at'[c] = "copying" /\ \A u \in Threads : u # c => at'[u] = at[u]
    BY <1>1, <1>3 DEF TypeOK, GoTo
  <2>4. PICK w \in Work : /\ inFlight' = Append(inFlight, w)
                          /\ w.by = c /\ w.value = 0 /\ w.uses = {Staging[c], Shared}
    BY <1>3, <2>2
  <2>5. Elements(inFlight') = Elements(inFlight) \cup {w}
    BY <2>1, <2>4, Submitting
  <2>6. ~(w.value > 0) /\ CopyWork(w)' /\ w.value < nextValue'
    <3>1. CopyWork(w)'
      BY <2>3, <2>4 DEF CopyWork
    <3>2. nextValue' \in Nat \ {0}
      BY <1>1, <2>1
    <3>3. w.value = 0 /\ ~(0 > 0) /\ 0 < nextValue'
      BY <2>4, <3>2
    <3> QED BY <3>1, <3>3
  <2>7. ASSUME ~lost PROVE PagesOnce(inFlight')
    BY <2>1, <2>4, <2>6, <2>7, SubmittingCopy DEF IInv, DeviceInv
  <2>8. ASSUME ~lost, NEW v \in Elements(inFlight)
        PROVE  IF v.value > 0 THEN PageWork(v)' ELSE CopyWork(v)'
    <3>1. IF v.value > 0 THEN PageWork(v) ELSE CopyWork(v)
      BY <2>8 DEF IInv, DeviceInv
    <3>2. CopyWork(v) => CopyWork(v)'
      BY <2>3 DEF CopyWork, Threads
    <3>3. PageWork(v) => PageWork(v)'
      BY <1>1 DEF PageWork
    <3> QED BY <3>1, <3>2, <3>3
  <2>9. ASSUME ~lost, NEW v \in Elements(inFlight')
        PROVE  IF v.value > 0 THEN PageWork(v)' ELSE CopyWork(v)'
    BY <2>5, <2>6, <2>8, <2>9
  <2>10. \A v \in Elements(inFlight') : v.value < nextValue'
    BY <1>1, <2>5, <2>6 DEF IInv, DeviceInv
  <2>11. ASSUME ~lost, NEW u \in Copiers, at'[u] = "access" PROVE timeline' >= lastSubmitted'
    BY <1>1, <2>3, <2>11 DEF IInv, DeviceInv, Threads
  <2> QED BY <1>1, <2>7, <2>9, <2>10, <2>11 DEF DeviceInv
<1> QED BY <1>2, <1>3 DEF SubmitCopy, Unstage

\* The queue is idle.
LEMMA QueueIdleKeeps ==
  ASSUME IInv, NEW c \in Copiers, QueueIdle(c)
  PROVE  DeviceInv'
<1> USE DEF recorderVars, faultVars
<1>1. CASE lost'
  BY <1>1, DeviceLost DEF QueueIdle
<1>2. CASE ~lost'
  <2>1. /\ TypeOK /\ inFlight = <<>> /\ GoTo(c, "read") /\ ~lost
        /\ UNCHANGED <<inFlight, timeline, lastSubmitted>>
    BY <1>2 DEF QueueIdle, IInv
  <2>2. Elements(inFlight') = {} /\ PagesOnce(inFlight')
    BY <2>1, EmptySeq DEF Elements, PagesOnce
  <2>3. \A u \in Copiers : at'[u] = "access" => at[u] = "access"
    BY <2>1 DEF GoTo, TypeOK, Threads
  <2> QED BY <2>1, <2>2, <2>3 DEF IInv, DeviceInv
<1> QED BY <1>1, <1>2

\* Work completes in order; after a page there is no other.
LEMMA CompletionKeeps ==
  ASSUME IInv, Complete
  PROVE  DeviceInv'
<1> USE DEF threadVars, scratchVars, recorderVars, transferVars, faultVars
<1> DEFINE h == Head(inFlight)
<1>1. /\ inFlight \in Seq(Work) /\ inFlight # <<>> /\ inFlight' = Tail(inFlight)
      /\ timeline' = IF h.value > 0 THEN h.value ELSE timeline
      /\ UNCHANGED <<at, page, state, lastSubmitted, nextValue, scratch, lost>>
  BY DEF Complete, IInv, TypeOK
<1>2. /\ h \in Elements(inFlight) /\ Elements(inFlight') \subseteq Elements(inFlight)
      /\ PagesOnce(inFlight) => PagesOnce(inFlight')
      /\ PagesOnce(inFlight) /\ h.value > 0
           => \A w \in Elements(inFlight') : ~(w.value > 0)
  BY <1>1, Completing
<1> HIDE DEF h
<1>3. ASSUME ~lost, NEW w \in Elements(inFlight')
      PROVE  IF w.value > 0 THEN PageWork(w)' ELSE CopyWork(w)'
  <2>1. /\ PagesOnce(inFlight) /\ IF w.value > 0 THEN PageWork(w) ELSE CopyWork(w)
    BY <1>2, <1>3 DEF IInv, DeviceInv
  <2>2. CASE h.value > 0
    BY <1>1, <1>2, <2>1, <2>2 DEF CopyWork
  <2>3. CASE ~(h.value > 0)
    BY <1>1, <2>1, <2>3 DEF PageWork, CopyWork
  <2> QED BY <2>2, <2>3
<1>4. ASSUME ~lost, NEW c \in Copiers, at'[c] = "access"
      PROVE  timeline' >= lastSubmitted'
  <2>1. timeline >= lastSubmitted /\ lastSubmitted \in Nat
    BY <1>1, <1>4 DEF IInv, DeviceInv, TypeOK
  <2>2. h.value > 0 => h.value = lastSubmitted
    BY <1>2, <1>4 DEF IInv, DeviceInv, PageWork
  <2>3. CASE h.value > 0
    <3>1. timeline' = lastSubmitted /\ lastSubmitted' = lastSubmitted
      BY <1>1, <2>2, <2>3
    <3> QED BY <2>1, <3>1
  <2>4. CASE ~(h.value > 0)
    BY <1>1, <2>1, <2>4
  <2> QED BY <2>3, <2>4
<1>5. \A w \in Elements(inFlight') : w.value < nextValue'
  BY <1>1, <1>2 DEF IInv, DeviceInv
<1>6. ~lost => PagesOnce(inFlight')
  BY <1>2 DEF IInv, DeviceInv
<1> QED BY <1>1, <1>3, <1>4, <1>5, <1>6 DEF DeviceInv

\* The device's work stays as claimed.
LEMMA DeviceStep ==
  ASSUME IInv, Next
  PROVE  DeviceInv'
<1> USE DEF threadVars, scratchVars, recorderVars, transferVars, deviceVars, faultVars
<1>1. TypeOK
  BY DEF IInv
<1>2. ASSUME NEW t \in Fillers, Take(t) PROVE DeviceInv'
  <2>1. /\ t \in Threads /\ at[t] # "copying" /\ GoTo(t, "stage")
        /\ UNCHANGED <<inFlight, timeline, lastSubmitted, nextValue, lost>>
    BY <1>2 DEF Take, Threads
  <2>2. /\ UNCHANGED <<page, state>>
        /\ \A u \in Fillers : at[u] \in InPage => scratch'[u] = scratch[u]
    BY <1>2 DEF Take, IInv, TypeOK, InPage
  <2> QED BY <2>1, <2>2, DeviceKept
<1>3. ASSUME NEW t \in Fillers, Stage(t) PROVE DeviceInv'
  <2>1. /\ t \in Threads /\ at[t] # "copying" /\ (GoTo(t, "lock page") \/ GoTo(t, "put"))
        /\ UNCHANGED <<inFlight, timeline, lastSubmitted, nextValue, lost>>
    BY <1>3 DEF Stage, Threads
  <2>2. /\ UNCHANGED <<page, state>>
        /\ \A u \in Fillers : at[u] \in InPage => scratch'[u] = scratch[u]
    BY <1>3 DEF Stage
  <2> QED BY <2>1, <2>2, DeviceKept
<1>4. ASSUME NEW t \in Fillers, LockPage(t) PROVE DeviceInv'
  <2>1. /\ t \in Threads /\ at[t] # "copying" /\ GoTo(t, "begin")
        /\ UNCHANGED <<inFlight, timeline, lastSubmitted, nextValue, lost>>
    BY <1>4 DEF LockPage, Threads
  <2>2. page = Nobody
    BY <1>4 DEF LockPage, IInv, StateInv, StateAt
  <2> QED BY <2>1, <2>2, NoPage, DeviceKept
<1>5. ASSUME NEW t \in Fillers, BeginPage(t) PROVE DeviceInv'
  <2>1. /\ t \in Threads /\ at[t] # "copying" /\ (GoTo(t, "record") \/ GoTo(t, "abandon"))
        /\ UNCHANGED <<inFlight, timeline, lastSubmitted, nextValue, lost>>
    BY <1>5 DEF BeginPage, Abandon, Threads
  <2>2. state # "Submitted" \/ UNCHANGED state
    BY <1>5 DEF BeginPage, IInv, StateInv
  <2>3. UNCHANGED <<page, scratch>>
    BY <1>5 DEF BeginPage
  <2> QED BY <2>1, <2>2, <2>3, NoPage, DeviceKept
<1>6. ASSUME NEW t \in Fillers, Record(t) PROVE DeviceInv'
  <2>1. /\ t \in Threads /\ at[t] # "copying" /\ (GoTo(t, "submit") \/ GoTo(t, "abandon"))
        /\ UNCHANGED <<inFlight, timeline, lastSubmitted, nextValue, lost>>
    BY <1>6 DEF Record, Abandon, Threads
  <2>2. /\ UNCHANGED <<page, state>>
        /\ \A u \in Fillers : at[u] \in InPage => scratch'[u] = scratch[u]
    BY <1>6 DEF Record, Abandon
  <2> QED BY <2>1, <2>2, DeviceKept
<1>7. ASSUME NEW t \in Fillers, SubmitPage(t) PROVE DeviceInv'
  <2>1. /\ t \in Threads /\ at[t] # "copying" /\ GoTo(t, "submitting")
        /\ UNCHANGED <<inFlight, timeline, lastSubmitted, nextValue, lost>>
    BY <1>7 DEF SubmitPage, Threads
  <2>2. /\ UNCHANGED <<page, state>>
        /\ \A u \in Fillers : at[u] \in InPage => scratch'[u] = scratch[u]
    BY <1>7 DEF SubmitPage
  <2> QED BY <2>1, <2>2, DeviceKept
<1>8. ASSUME NEW t \in Fillers, EndAndSubmit(t) PROVE DeviceInv'
  BY <1>8, SubmissionKeeps
<1>9. ASSUME NEW t \in Fillers, EndFails(t) PROVE DeviceInv'
  <2>1. /\ t \in Threads /\ at[t] # "copying" /\ GoTo(t, "abandon")
        /\ UNCHANGED <<inFlight, timeline, lastSubmitted, nextValue, lost>>
    BY <1>9 DEF EndFails, Abandon, Threads
  <2>2. state # "Submitted"
    BY <1>9 DEF EndFails, IInv, StateInv, StateAt
  <2> QED BY <2>1, <2>2, NoPage, DeviceKept
<1>10. ASSUME NEW t \in Fillers, WaitPage(t) PROVE DeviceInv'
  <2>1. /\ t \in Threads /\ at[t] # "copying" /\ GoTo(t, "waiting")
        /\ UNCHANGED <<inFlight, timeline, lastSubmitted, nextValue, lost>>
    BY <1>10 DEF WaitPage, Threads
  <2>2. /\ UNCHANGED <<page, state>>
        /\ \A u \in Fillers : at[u] \in InPage => scratch'[u] = scratch[u]
    BY <1>10 DEF WaitPage
  <2> QED BY <2>1, <2>2, DeviceKept
<1>11. ASSUME NEW t \in Fillers, Waited(t) PROVE DeviceInv'
  <2>1. /\ t \in Threads /\ at[t] # "copying" /\ (GoTo(t, "unlock page") \/ GoTo(t, "abandon"))
        /\ UNCHANGED <<inFlight, timeline, lastSubmitted, nextValue, lost>>
    BY <1>11 DEF Waited, Abandon, Threads
  <2>2. timeline >= lastSubmitted \/ UNCHANGED state
    BY <1>11 DEF Waited, IInv, StateInv
  <2>3. UNCHANGED <<page, scratch>>
    BY <1>11 DEF Waited
  <2> QED BY <2>1, <2>2, <2>3, NoPage, DeviceKept
<1>12. ASSUME NEW t \in Fillers, AbortPage(t) PROVE DeviceInv'
  <2>1. /\ t \in Threads /\ at[t] # "copying" /\ (GoTo(t, "abandoning") \/ GoTo(t, "unlock page"))
        /\ UNCHANGED <<inFlight, timeline, lastSubmitted, nextValue, lost>>
    BY <1>12 DEF AbortPage, Threads
  <2>2. state # "Submitted" \/ UNCHANGED state
    BY <1>12 DEF AbortPage, IInv, StateInv
  <2>3. UNCHANGED <<page, scratch>>
    BY <1>12 DEF AbortPage
  <2> QED BY <2>1, <2>2, <2>3, NoPage, DeviceKept
<1>13. ASSUME NEW t \in Fillers, Aborted(t) PROVE DeviceInv'
  <2>1. /\ t \in Threads /\ at[t] # "copying" /\ GoTo(t, "unlock page")
        /\ UNCHANGED <<inFlight, timeline, lastSubmitted, nextValue>>
    BY <1>13 DEF Aborted, Threads
  <2>2. CASE lost'
    BY <2>1, <2>2, DeviceLost
  <2>3. CASE ~lost'
    <3>1. timeline >= lastSubmitted /\ UNCHANGED lost
      BY <1>13, <2>3 DEF Aborted
    <3> QED BY <2>1, <3>1, NoPage, DeviceKept
  <2> QED BY <2>2, <2>3
<1>14. ASSUME NEW t \in Fillers, UnlockPage(t) PROVE DeviceInv'
  <2>1. /\ t \in Threads /\ at[t] # "copying" /\ GoTo(t, "put")
        /\ UNCHANGED <<inFlight, timeline, lastSubmitted, nextValue, lost>>
    BY <1>14 DEF UnlockPage, Threads
  <2>2. state # "Submitted"
    BY <1>14 DEF UnlockPage, IInv, StateInv, StateAt
  <2> QED BY <2>1, <2>2, NoPage, DeviceKept
<1>15. ASSUME NEW t \in Fillers, Put(t) PROVE DeviceInv'
  <2>1. /\ t \in Threads /\ at[t] # "copying" /\ GoTo(t, "idle")
        /\ UNCHANGED <<inFlight, timeline, lastSubmitted, nextValue, lost>>
    BY <1>15 DEF Put, Threads
  <2>2. /\ UNCHANGED <<page, state>>
        /\ \A u \in Fillers : at[u] \in InPage => scratch'[u] = scratch[u]
    BY <1>15 DEF Put, IInv, TypeOK, InPage
  <2> QED BY <2>1, <2>2, DeviceKept
<1>16. ASSUME NEW c \in Copiers, StartCopy(c) PROVE DeviceInv'
  <2>1. /\ c \in Threads /\ at[c] # "copying"
                                                  /\ (GoTo(c, "quiesce") \/ GoTo(c, "lock staging"))
        /\ UNCHANGED <<inFlight, timeline, lastSubmitted, nextValue, lost>>
    BY <1>16 DEF StartCopy, Threads
  <2>2. /\ UNCHANGED <<page, state>>
        /\ \A u \in Fillers : at[u] \in InPage => scratch'[u] = scratch[u]
    BY <1>16 DEF StartCopy
  <2> QED BY <2>1, <2>2, DeviceKept
<1>17. ASSUME NEW c \in Copiers, Quiesce(c) PROVE DeviceInv'
  <2>1. /\ c \in Threads /\ at[c] # "copying" /\ GoTo(c, "quiescing")
        /\ UNCHANGED <<inFlight, timeline, lastSubmitted, nextValue, lost>>
    BY <1>17 DEF Quiesce, Threads
  <2>2. /\ UNCHANGED <<page, state>>
        /\ \A u \in Fillers : at[u] \in InPage => scratch'[u] = scratch[u]
    BY <1>17 DEF Quiesce
  <2> QED BY <2>1, <2>2, DeviceKept
<1>18. ASSUME NEW c \in Copiers, Quiescent(c) PROVE DeviceInv'
  <2>1. /\ c \in Threads /\ at[c] # "copying" /\ (GoTo(c, "access") \/ GoTo(c, "idle"))
        /\ UNCHANGED <<inFlight, timeline, lastSubmitted, nextValue, lost>>
    BY <1>18 DEF Quiescent, Threads
  <2>2. /\ UNCHANGED <<page, state>>
        /\ \A u \in Fillers : at[u] \in InPage => scratch'[u] = scratch[u]
    BY <1>18 DEF Quiescent
  <2>3. GoTo(c, "idle") \/ (GoTo(c, "access") /\ timeline >= lastSubmitted)
    BY <1>18 DEF Quiescent
  <2> QED BY <2>1, <2>2, <2>3, DeviceKept
<1>19. ASSUME NEW c \in Copiers, Access(c) PROVE DeviceInv'
  <2>1. /\ c \in Threads /\ at[c] # "copying" /\ GoTo(c, "idle")
        /\ UNCHANGED <<inFlight, timeline, lastSubmitted, nextValue, lost>>
    BY <1>19 DEF Access, Threads
  <2>2. /\ UNCHANGED <<page, state>>
        /\ \A u \in Fillers : at[u] \in InPage => scratch'[u] = scratch[u]
    BY <1>19 DEF Access
  <2> QED BY <2>1, <2>2, DeviceKept
<1>20. ASSUME NEW c \in Copiers, LockStaging(c) PROVE DeviceInv'
  <2>1. /\ c \in Threads /\ at[c] # "copying" /\ GoTo(c, "lock pool")
        /\ UNCHANGED <<inFlight, timeline, lastSubmitted, nextValue, lost>>
    BY <1>20 DEF LockStaging, Threads
  <2>2. /\ UNCHANGED <<page, state>>
        /\ \A u \in Fillers : at[u] \in InPage => scratch'[u] = scratch[u]
    BY <1>20 DEF LockStaging
  <2> QED BY <2>1, <2>2, DeviceKept
<1>21. ASSUME NEW c \in Copiers, LockCmdPool(c) PROVE DeviceInv'
  <2>1. /\ c \in Threads /\ at[c] # "copying" /\ (GoTo(c, "lock queue") \/ GoTo(c, "idle"))
        /\ UNCHANGED <<inFlight, timeline, lastSubmitted, nextValue, lost>>
    BY <1>21 DEF LockCmdPool, Unstage, Threads
  <2>2. /\ UNCHANGED <<page, state>>
        /\ \A u \in Fillers : at[u] \in InPage => scratch'[u] = scratch[u]
    BY <1>21 DEF LockCmdPool, Unstage
  <2> QED BY <2>1, <2>2, DeviceKept
<1>22. ASSUME NEW c \in Copiers, SubmitCopy(c) PROVE DeviceInv'
  BY <1>22, CopyKeeps
<1>23. ASSUME NEW c \in Copiers, QueueIdle(c) PROVE DeviceInv'
  BY <1>23, QueueIdleKeeps
<1>24. ASSUME NEW c \in Copiers, ReadStaging(c) PROVE DeviceInv'
  <2>1. /\ c \in Threads /\ at[c] # "copying" /\ GoTo(c, "idle")
        /\ UNCHANGED <<inFlight, timeline, lastSubmitted, nextValue, lost>>
    BY <1>24 DEF ReadStaging, Unstage, Threads
  <2>2. /\ UNCHANGED <<page, state>>
        /\ \A u \in Fillers : at[u] \in InPage => scratch'[u] = scratch[u]
    BY <1>24 DEF ReadStaging, Unstage
  <2> QED BY <2>1, <2>2, DeviceKept
<1>25. CASE Complete
  BY <1>25, CompletionKeeps
<1> QED BY <1>2, <1>3, <1>4, <1>5, <1>6, <1>7, <1>8, <1>9, <1>10, <1>11,
     <1>12, <1>13, <1>14, <1>15, <1>16, <1>17, <1>18, <1>19, <1>20, <1>21,
     <1>22, <1>23, <1>24, <1>25 DEF Next, Fill, Copy

-----------------------------------------------------------------------------
(* The invariant, and what follows                                         *)

\* At first nothing is lent, held or in flight.
LEMMA InitInv == Init => IInv
<1> SUFFICES ASSUME Init PROVE IInv
  OBVIOUS
<1>1. TypeOK
  <2>1. 0 \in 0..(nextValue - 1) /\ nextValue \in Nat \ {0} /\ 0 \in 0..MaxFailures
    BY PageRecorderAssumption DEF Init
  <2>2. /\ at \in [Threads -> Points] /\ left \in [Threads -> Nat]
        /\ outcome \in [Fillers -> {"ok", "error", "panic"}]
        /\ scratch \in [Fillers -> Scratches \cup {Nobody}]
        /\ staging \in [Buffers -> Copiers \cup {Nobody}]
    BY PageRecorderAssumption DEF Init, Points
  <2>3. fence \in [Fillers -> 0..(nextValue - 1)]
    BY <2>1 DEF Init
  <2>4. idle \in Seq(Scratches) /\ inFlight \in Seq(Work)
    BY EmptySeq DEF Init
  <2> QED BY <2>1, <2>2, <2>3, <2>4 DEF Init, TypeOK
<1>2. LocksInv
  BY PageRecorderAssumption
  DEF Init, LocksInv, HeldBy, Threads, Users, Buffers, FillPoints, InPage, InInner, InStaging,
      InPool, InQueue, MappedPoints, StagedPoints
<1>3. StateInv
  BY DEF Init, StateInv, StateAt, Threads
<1>4. Elements(idle) = {} /\ Elements(inFlight) = {} /\ Len(idle) = 0 /\ Len(inFlight) = 0
  BY EmptySeq DEF Init, Elements
<1>5. ScratchInv
  <2>1. Borrowers = {}
    BY DEF Init, Borrowers
  <2>2. Len(idle) + Cardinality(Borrowers) <= Cardinality(Fillers)
    <3>1. Cardinality(Borrowers) = 0 /\ Cardinality(Fillers) \in Nat
      BY <2>1, FS_EmptySet, BorrowersFinite
    <3> QED BY <1>4, <3>1
  <2>3. Distinct(idle)
    BY <1>4 DEF Distinct
  <2> QED BY <1>4, <2>2, <2>3 DEF Init, ScratchInv, Threads
<1>6. DeviceInv
  <2>1. \A c \in Copiers : at[c] # "access"
    BY DEF Init, Threads
  <2> QED BY <1>4, <2>1 DEF DeviceInv, PagesOnce
<1> QED BY <1>1, <1>2, <1>3, <1>5, <1>6 DEF IInv

\* Every step keeps the invariant.
LEMMA NextInv == IInv /\ [Next]_vars => IInv'
<1>1. ASSUME IInv, Next PROVE IInv'
  BY <1>1, TypeStep, LocksStep, StateStep, ScratchStep, DeviceStep DEF IInv
<1>2. ASSUME IInv, UNCHANGED vars PROVE IInv'
  <2>1. UNCHANGED <<mapped, at, left, outcome, scratch, idle, page, inner, state, nextValue,
                    lastSubmitted, fence, staging, cmdPool, queue, inFlight, timeline,
                    failures, lost>>
    BY <1>2
    DEF vars, threadVars, scratchVars, recorderVars, transferVars, deviceVars, faultVars
  <2>2. TypeOK'
    BY <1>2, <2>1 DEF IInv, TypeOK
  <2>3. LocksInv' /\ StateInv'
    BY <1>2, <2>1 DEF IInv, LocksInv, HeldBy, StateInv
  <2>4. ScratchInv'
    BY <1>2, <2>1 DEF IInv, ScratchInv, Borrowers
  <2>5. DeviceInv'
    BY <1>2, <2>1 DEF IInv, DeviceInv, PageWork, CopyWork
  <2> QED BY <2>2, <2>3, <2>4, <2>5 DEF IInv
<1> QED BY <1>1, <1>2

\* The invariant holds throughout.
LEMMA Invariant == Spec => []IInv
BY InitInv, NextInv, PTL DEF Spec

\* The names in flight are the elements of the queue.
LEMMA InFlightElements == InFlight = Elements(inFlight)
BY DEF InFlight, Elements

\* A borrowed scratch is one of the pool's.
LEMMA PageUses ==
  ASSUME IInv, NEW w, PageWork(w)
  PROVE  scratch[w.by] \in Scratches /\ at[w.by] \in InPage /\ Nobody \notin Scratches
<1>1. at[w.by] \in InPage
  BY DEF PageWork, IInv, LocksInv, HeldBy
<1>2. scratch[w.by] # Nobody
  BY <1>1 DEF PageWork, IInv, ScratchInv, InPage
<1> QED BY <1>1, <1>2, PageRecorderAssumption DEF PageWork, IInv, TypeOK

\* Every variable keeps its type: the timeline, the fences and the last page
\* submitted have values that end_and_submit has handed out (recorder.rs).
THEOREM TypeCorrect == Spec => []TypeOK
<1>1. IInv => TypeOK
  BY DEF IInv
<1> QED BY <1>1, Invariant, PTL

\* No work in flight uses memory the host may touch: a scratch while aa_fill
\* stages or reads it, a buffer with_quiescent lends, a staging buffer
\* (aa_fill.rs, recorder.rs, transfer.rs), with any threads and failures.
THEOREM HostAccessAloneHolds == Spec => []HostAccessAlone
<1>1. ASSUME IInv PROVE HostAccessAlone
  <2> SUFFICES ASSUME ~lost, NEW w \in Elements(inFlight)
               PROVE  /\ \A t \in Threads : w.uses \cap Touches(t) = {}
                      /\ \A s \in w.uses : ~Idle(s)
    BY InFlightElements DEF HostAccessAlone
  <2>1. ASSUME NEW s, Idle(s) PROVE s \in Elements(idle) /\ s \in Scratches
    BY <1>1, <2>1, ElementOfSeq DEF Idle, Elements, IInv, TypeOK
  <2>2. CASE w.value > 0
    <3>1. PageWork(w)
      BY <1>1, <2>2 DEF IInv, DeviceInv
    <3>2. scratch[w.by] \in Scratches /\ at[w.by] \in InPage /\ Nobody \notin Scratches
      BY <1>1, <3>1, PageUses
    <3>3. \A t \in Copiers : at[t] # "access"
      BY <1>1, <3>1 DEF IInv, TypeOK, DeviceInv, PageWork
    <3>4. ASSUME NEW t \in Fillers, at[t] \in {"stage", "put"} PROVE scratch[t] \notin w.uses
      <4>1. t # w.by /\ w.by \in Fillers
        BY <3>1, <3>2, <3>4 DEF InPage, PageWork
      <4>2. scratch[t] # Nobody /\ scratch[t] # scratch[w.by]
        BY <1>1, <3>2, <3>4, <4>1 DEF IInv, ScratchInv
      <4>3. scratch[t] \in Scratches /\ Shared \notin Scratches
        BY <1>1, <4>2, PageRecorderAssumption DEF IInv, TypeOK
      <4> QED BY <3>1, <4>2, <4>3 DEF PageWork
    <3>5. ASSUME NEW t \in Copiers PROVE Staging[t] \notin w.uses
      <4>1. Staging[t] \in Buffers
        BY DEF Buffers
      <4> QED BY <3>1, <3>2, <4>1, PageRecorderAssumption DEF PageWork
    <3>6. \A t \in Threads : w.uses \cap Touches(t) = {}
      BY <3>3, <3>4, <3>5 DEF Touches, Threads
    <3>7. \A s \in w.uses : ~Idle(s)
      BY <1>1, <2>1, <3>1, PageRecorderAssumption DEF PageWork, IInv, ScratchInv
    <3> QED BY <3>6, <3>7
  <2>3. CASE ~(w.value > 0)
    <3>1. CopyWork(w) /\ Staging[w.by] \in Buffers
      BY <1>1, <2>3 DEF IInv, DeviceInv, CopyWork, Buffers
    <3>2. \A t \in Copiers : at[t] # "access"
      BY <1>1, <3>1 DEF CopyWork, IInv, LocksInv, MappedPoints, StagedPoints, InStaging
    <3>3. ASSUME NEW t \in Fillers, at[t] \in {"stage", "put"} PROVE scratch[t] \notin w.uses
      <4>1. scratch[t] \in Scratches
        BY <1>1, <3>3 DEF IInv, TypeOK, ScratchInv
      <4> QED BY <3>1, <4>1, PageRecorderAssumption DEF CopyWork
    <3>4. ASSUME NEW t \in Copiers, at[t] \in {"lock pool", "lock queue", "read"}
          PROVE  Staging[t] \notin w.uses
      <4>1. Staging[t] = Staging[w.by] => t = w.by
        <5> SUFFICES ASSUME Staging[t] = Staging[w.by] PROVE t = w.by
          OBVIOUS
        <5>1. t \in Users(Staging[t]) /\ w.by \in Users(Staging[t]) /\ Staging[t] \in Buffers
          BY <3>1 DEF Users, Buffers, CopyWork
        <5>2. at[t] \in InStaging /\ at[w.by] \in InStaging
          BY <3>1, <3>4 DEF InStaging, CopyWork
        <5>3. HeldBy(staging[Staging[t]], Users(Staging[t]), InStaging)
          BY <1>1, <5>1 DEF IInv, LocksInv
        <5> QED BY <5>1, <5>2, <5>3 DEF HeldBy
      <4>2. Staging[t] \in Buffers /\ t # w.by
        BY <3>1, <3>4 DEF Buffers, CopyWork
      <4> QED BY <3>1, <4>1, <4>2, PageRecorderAssumption DEF CopyWork
    <3>5. \A t \in Threads : w.uses \cap Touches(t) = {}
      BY <3>2, <3>3, <3>4 DEF Touches, Threads
    <3>6. \A s \in w.uses : ~Idle(s)
      BY <2>1, <3>1, PageRecorderAssumption DEF CopyWork
    <3> QED BY <3>5, <3>6
  <2> QED BY <2>2, <2>3
<1> QED BY <1>1, Invariant, PTL

\* begin_page and the transfers reset their command pools only when no work
\* of theirs is in flight (recorder.rs, transfer.rs).
THEOREM PoolsQuietHolds == Spec => []PoolsQuiet
<1>1. ASSUME IInv PROVE PoolsQuiet
  <2> SUFFICES ASSUME ~lost, NEW w \in Elements(inFlight)
               PROVE  IF w.value > 0
                      THEN state = "Submitted" /\ w.value = lastSubmitted /\ page = w.by
                      ELSE cmdPool = w.by
    BY InFlightElements DEF PoolsQuiet
  <2>1. CASE w.value > 0
    BY <1>1, <2>1 DEF IInv, DeviceInv, PageWork
  <2>2. CASE ~(w.value > 0)
    <3>1. CopyWork(w)
      BY <1>1, <2>2 DEF IInv, DeviceInv
    <3>2. cmdPool = w.by
      BY <1>1, <3>1 DEF CopyWork, IInv, LocksInv, HeldBy, InPool
    <3> QED BY <2>2, <3>2
  <2> QED BY <2>1, <2>2
<1> QED BY <1>1, Invariant, PTL

\* The pool of aa_fill.rs lends a scratch to one fill at a time, and never
\* makes more of them than fills ran at once.
THEOREM ScratchesLentOnceHolds == Spec => []ScratchesLentOnce
<1>1. ASSUME IInv PROVE ScratchesLentOnce
  <2>1. ASSUME NEW s \in Scratches
        PROVE  Cardinality({t \in Fillers : scratch[t] = s})
                 + Cardinality({i \in 1..Len(idle) : idle[i] = s}) <= 1
    <3> DEFINE lent == {t \in Fillers : scratch[t] = s}
               back == {i \in 1..Len(idle) : idle[i] = s}
    <3>1. s # Nobody
      BY PageRecorderAssumption
    <3>2. lent = {} \/ \E t \in Fillers : lent = {t}
      BY <1>1, <3>1 DEF IInv, ScratchInv
    <3>3. back = {} \/ \E i \in 1..Len(idle) : back = {i}
      BY <1>1 DEF IInv, ScratchInv, Distinct
    <3>4. lent = {} \/ back = {}
      BY <1>1 DEF IInv, ScratchInv, Elements
    <3> HIDE DEF lent, back
    <3>5. Cardinality(lent) \in {0, 1} /\ Cardinality(back) \in {0, 1}
          /\ (lent = {} => Cardinality(lent) = 0) /\ (back = {} => Cardinality(back) = 0)
      BY <3>2, <3>3, FS_EmptySet, FS_Singleton
    <3>6. Cardinality(lent) + Cardinality(back) <= 1
      BY <3>4, <3>5
    <3> QED BY <3>6 DEF lent, back
  <2>2. Len(idle) + Cardinality({t \in Fillers : scratch[t] # Nobody}) <= Cardinality(Fillers)
    BY <1>1 DEF IInv, ScratchInv, Borrowers
  <2> QED BY <1>1, <2>1, <2>2 DEF IInv, ScratchesLentOnce
<1> QED BY <1>1, Invariant, PTL
=============================================================================
