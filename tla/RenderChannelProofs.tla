------------------------- MODULE RenderChannelProofs ------------------------
(* Theorems about RenderChannel, for any jobs, selections, capacities and  *)
(* pool: the readers get what PageDelivery promises, the end of a channel  *)
(* comes after its session, and no page begun after a cancel is rendered.  *)
EXTENDS RenderChannel, SequenceTheorems, TLAPS

-----------------------------------------------------------------------------
(* The items of a job: received ones, then those in the channel            *)

Count(r, c) == Len(r) + Len(c)
At(r, c, i) == IF i <= Len(r) THEN r[i] ELSE c[i - Len(r)]

\* Sending adds an item at the end.
LEMMA SendAppends ==
  ASSUME NEW S, NEW r \in Seq(S), NEW c \in Seq(S), NEW x \in S
  PROVE  /\ Count(r, Append(c, x)) = Count(r, c) + 1
         /\ Count(r, c) \in Nat
         /\ \A i \in 1..Count(r, c) : At(r, Append(c, x), i) = At(r, c, i)
         /\ At(r, Append(c, x), Count(r, c) + 1) = x
BY DEF Count, At

\* An iterator hands an item over directly.
LEMMA YieldAppends ==
  ASSUME NEW S, NEW r \in Seq(S), NEW x \in S
  PROVE  /\ Count(Append(r, x), <<>>) = Count(r, <<>>) + 1
         /\ Count(r, <<>>) = Len(r)
         /\ \A i \in 1..Count(r, <<>>) : At(Append(r, x), <<>>, i) = At(r, <<>>, i)
         /\ At(Append(r, x), <<>>, Count(r, <<>>) + 1) = x
BY DEF Count, At

\* Receiving moves an item and changes none.
LEMMA ReceiveMoves ==
  ASSUME NEW S, NEW r \in Seq(S), NEW c \in Seq(S), c # <<>>
  PROVE  /\ Count(Append(r, Head(c)), Tail(c)) = Count(r, c)
         /\ Count(r, c) \in Nat
         /\ \A i \in 1..Count(r, c) :
               At(Append(r, Head(c)), Tail(c), i) = At(r, c, i)
         /\ At(r, c, Len(r) + 1) = Head(c)
         /\ Len(r) + 1 \in 1..Count(r, c)
BY DEF Count, At

\* The received items come first.
LEMMA ReceivedFirst ==
  ASSUME NEW S, NEW r \in Seq(S), NEW c \in Seq(S), NEW i \in 1..Len(r)
  PROVE  i \in 1..Count(r, c) /\ At(r, c, i) = r[i]
BY DEF Count, At

-----------------------------------------------------------------------------
(* The inductive invariant                                                 *)

Good(j, i, item) ==
  /\ Delivery!MorePages(j, i - 1)
  /\ \E r \in PageResults : item = Item(Selection[j][i], r)

\* Pages in order, and nothing behind a last item.
InOrder(j, r, c) ==
  \A i \in 1..Count(r, c) :
    /\ Good(j, i, At(r, c, i)) \/ At(r, c, i) = Abort
    /\ i < Count(r, c) => Delivery!GoesOn(At(r, c, i))

AllGoOn(r, c) ==
  Count(r, c) > 0 => Delivery!GoesOn(At(r, c, Count(r, c)))

InPage == {"rendering", "deskewing", "joining", "sending"}

\* What the producer's place says of the items.
PhaseFits(j, p, n, r, c) ==
  /\ p \in {"uncalled", "opening"} => Count(r, c) = 0 /\ n = 0
  /\ p \in {"paging", "unwinding"} => Count(r, c) = n /\ AllGoOn(r, c)
  /\ p \in InPage => /\ Count(r, c) + 1 = n
                     /\ AllGoOn(r, c)
                     /\ Delivery!MorePages(j, n - 1)
  /\ p = "aborting" => AllGoOn(r, c)
  /\ p \in {"dropping", "closing", "ended"} =>
        \/ ~AllGoOn(r, c)
        \/ Count(r, c) = n /\ ~Delivery!MorePages(j, n)

JobInOrder(j, p, n, r, c, rd) ==
  /\ rd = "reading" => InOrder(j, r, c) /\ PhaseFits(j, p, n, r, c)
  /\ j \in Iterators => c = <<>>

OrderInv ==
  \A j \in Jobs :
    JobInOrder(j, phase[j], next[j], received[j], channel[j], reader[j])

SessionInv ==
  \A j \in Jobs :
    /\ j \in open => phase[j] \in InPage \cup {"paging", "dropping", "unwinding"}
    /\ reader[j] = "done" => phase[j] = "ended"

\* Pages sent or in hand were begun before the token was raised.
ItemsRaised(n, r, c, ra) ==
  \A i \in 1..Count(r, c) :
    At(r, c, i).result = "page" => i <= n /\ (ra # Never => i <= ra)

HandRaised(p, n, out, ra) ==
  ra # Never => /\ p = "rendering" => n <= ra
                /\ p \in InPage /\ out = "page" => n <= ra

RaisedInv ==
  \A j \in Jobs :
    /\ ItemsRaised(next[j], received[j], channel[j], raised[j])
    /\ HandRaised(phase[j], next[j], outcome[j], raised[j])

IInv == TypeOK /\ OrderInv /\ SessionInv /\ RaisedInv

-----------------------------------------------------------------------------
(* The invariant over the two sequences of one job                         *)

\* A page of the selection, or the abort, may follow items that go on.
LEMMA SendInOrder ==
  ASSUME NEW j \in Jobs, NEW r \in Seq(Items), NEW c \in Seq(Items),
         NEW x \in Items, InOrder(j, r, c), AllGoOn(r, c),
         Good(j, Count(r, c) + 1, x) \/ x = Abort
  PROVE  /\ InOrder(j, r, Append(c, x))
         /\ AllGoOn(r, Append(c, x)) <=> Delivery!GoesOn(x)
         /\ Count(r, Append(c, x)) = Count(r, c) + 1
BY SendAppends DEF InOrder, AllGoOn

\* The same for an iterator, which has no channel.
LEMMA YieldInOrder ==
  ASSUME NEW j \in Jobs, NEW r \in Seq(Items),
         NEW x \in Items, InOrder(j, r, <<>>), AllGoOn(r, <<>>),
         Good(j, Count(r, <<>>) + 1, x) \/ x = Abort
  PROVE  /\ InOrder(j, Append(r, x), <<>>)
         /\ AllGoOn(Append(r, x), <<>>) <=> Delivery!GoesOn(x)
         /\ Count(Append(r, x), <<>>) = Count(r, <<>>) + 1
BY YieldAppends DEF InOrder, AllGoOn

\* Receiving keeps the order and the last item.
LEMMA ReceiveInOrder ==
  ASSUME NEW j \in Jobs, NEW r \in Seq(Items), NEW c \in Seq(Items), c # <<>>
  PROVE  /\ InOrder(j, r, c) => InOrder(j, Append(r, Head(c)), Tail(c))
         /\ AllGoOn(Append(r, Head(c)), Tail(c)) <=> AllGoOn(r, c)
         /\ Count(Append(r, Head(c)), Tail(c)) = Count(r, c)
BY ReceiveMoves DEF InOrder, AllGoOn

\* Nothing has been sent yet.
LEMMA NothingSent ==
  ASSUME NEW j \in Jobs
  PROVE  InOrder(j, <<>>, <<>>) /\ AllGoOn(<<>>, <<>>) /\ Count(<<>>, <<>>) = 0
BY DEF InOrder, AllGoOn, Count

-----------------------------------------------------------------------------
(* Types                                                                   *)

\* The page in hand is an item of the job's selection.
LEMMA InHandGood ==
  ASSUME TypeOK, NEW j \in Jobs, next[j] \in Nat,
         Delivery!MorePages(j, next[j] - 1), next[j] > 0
  PROVE  /\ InHand(j) \in Items
         /\ Good(j, next[j], InHand(j))
         /\ Delivery!GoesOn(InHand(j)) <=> outcome[j] # "cancelled"
         /\ InHand(j).result = outcome[j]
BY SelectionAssumption
   DEF TypeOK, InHand, Item, Items, Good, Delivery!MorePages,
       Delivery!GoesOn, PageResults

\* The frames of threads and queue stay frames.
LEMMA FramesStay ==
  ASSUME threads \subseteq Seq(Frames) \ {<<>>}, NEW f \in Frames,
         NEW t \in threads \cup {<<>>}
  PROVE  /\ Push(t, f) => threads' \subseteq Seq(Frames) \ {<<>>}
         /\ t \in threads /\ Pop(t) => threads' \subseteq Seq(Frames) \ {<<>>}
<1>0. t \in Seq(Frames)
  BY EmptySeq
<1>1. <<f>> \o t \in Seq(Frames) \ {<<>>}
  <2>1. <<f>> \in Seq(Frames) /\ Len(<<f>>) = 1
    OBVIOUS
  <2> DEFINE s == <<f>>
  <2> HIDE DEF s
  <2>2. s \o t \in Seq(Frames) /\ Len(s \o t) = 1 + Len(t)
    BY <1>0, <2>1, ConcatProperties DEF s
  <2>3. Len(t) \in Nat
    BY <1>0
  <2> QED BY <2>2, <2>3, EmptySeq DEF s
<1>2. t \in threads => Tail(t) \in Seq(Frames)
  OBVIOUS
<1> QED BY <1>1, <1>2 DEF Push, Pop

\* Every step keeps the types.
LEMMA TypeStep == ASSUME TypeOK, OrderInv, Next PROVE TypeOK'
<1> USE JobsAssumption, SelectionAssumption
    DEF TypeOK, jobVars, readerVars, poolVars, Phases, GoTo
<1>0. ASSUME NEW j \in Jobs PROVE JobFrame(j) \in Frames /\ PartFrame(j) \in Frames
  BY DEF JobFrame, PartFrame, Frames
<1>00. Abort \in Items /\ <<>> \in Seq(Items)
  <2>1. Abort \in Items
    BY DEF Abort, Item, Items
  <2> QED BY <2>1
<1>000. ASSUME NEW j \in Jobs, phase[j] = "sending", reader[j] = "reading"
        PROVE  InHand(j) \in Items
  <2>1. PhaseFits(j, "sending", next[j], received[j], channel[j])
    BY <1>000 DEF OrderInv, JobInOrder
  <2>2. Count(received[j], channel[j]) \in Nat
    BY DEF Count
  <2>3. next[j] > 0 /\ Delivery!MorePages(j, next[j] - 1)
    BY <2>1, <2>2 DEF PhaseFits, InPage
  <2> QED BY <2>3, InHandGood
<1>1. ASSUME NEW j \in Jobs, CallInvalid(j) PROVE TypeOK'
  <2>1. channel' \in [Jobs -> Seq(Items)]
    <3>1. <<Abort>> \in Seq(Items)
      BY <1>00
    <3> QED BY <1>1, <3>1 DEF CallInvalid
  <2> QED BY <1>1, <2>1 DEF CallInvalid
<1>2. ASSUME NEW j \in Jobs, Call(j) PROVE TypeOK'
  BY <1>2, <1>0, AppendProperties DEF Call
<1>3. ASSUME NEW j \in Jobs, Open(j) PROVE TypeOK'
  BY <1>3 DEF Open
<1>4. ASSUME NEW j \in Jobs, StartPage(j) PROVE TypeOK'
  <2>1. outcome' \in [Jobs -> PageResults]
    BY <1>4 DEF StartPage, Failures, PageResults
  <2>2. phase' \in [Jobs -> Phases]
    BY <1>4 DEF StartPage
  <2>3. next' \in [Jobs -> Nat]
    BY <1>4 DEF StartPage
  <2> QED BY <1>4, <2>1, <2>2, <2>3 DEF StartPage
<1>5. ASSUME NEW j \in Jobs, FinishPage(j) PROVE TypeOK'
  BY <1>5 DEF FinishPage, ResultsNow, Failures, PageResults
<1>6. ASSUME NEW j \in Jobs, DeskewAlone(j) PROVE TypeOK'
  BY <1>6 DEF DeskewAlone
<1>7. ASSUME NEW j \in Jobs, InjectPart(j) PROVE TypeOK'
  BY <1>7, <1>0 DEF InjectPart
<1>8. ASSUME NEW j \in Jobs, FinishPart(j) PROVE TypeOK'
  <2>1. threads' \subseteq Seq(Frames) \ {<<>>}
    BY <1>8, <1>0, FramesStay DEF FinishPart
  <2> QED BY <1>8, <2>1 DEF FinishPart
<1>9. ASSUME NEW j \in Jobs, Send(j) PROVE TypeOK'
  BY <1>9, <1>000 DEF Send
<1>10. ASSUME NEW j \in Jobs, NoMorePages(j) PROVE TypeOK'
  BY <1>10 DEF NoMorePages
<1>11. ASSUME NEW j \in Jobs, DropSession(j) PROVE TypeOK'
  BY <1>11 DEF DropSession
<1>12. ASSUME NEW j \in Jobs, SendAbort(j) PROVE TypeOK'
  BY <1>12, <1>00 DEF SendAbort
<1>13. ASSUME NEW j \in Jobs, Close(j) PROVE TypeOK'
  <2>1. threads' \subseteq Seq(Frames) \ {<<>>}
    BY <1>13, <1>0, FramesStay DEF Close
  <2> QED BY <1>13, <2>1 DEF Close
<1>14. ASSUME NEW j \in Jobs, YieldPage(j) PROVE TypeOK'
  <2>1. InHand(j) \in Items
    BY <1>14, <1>000 DEF YieldPage, Active
  <2>2. phase' \in [Jobs -> Phases] /\ open' \subseteq Jobs
    BY <1>14 DEF YieldPage
  <2>3. received' \in [Jobs -> Seq(Items)]
    BY <1>14, <2>1 DEF YieldPage
  <2> QED BY <1>14, <2>2, <2>3 DEF YieldPage
<1>15. ASSUME NEW j \in Jobs, YieldError(j) PROVE TypeOK'
  BY <1>15, <1>00 DEF YieldError
<1>16. ASSUME NEW j \in Jobs, Exhaust(j) PROVE TypeOK'
  BY <1>16 DEF Exhaust
<1>17. ASSUME NEW j \in Jobs, Unwind(j) PROVE TypeOK'
  BY <1>17 DEF Unwind
<1>18. ASSUME NEW j \in Jobs, StealPart(j) PROVE TypeOK'
  <2>1. threads' \subseteq Seq(Frames) \ {<<>>}
    BY <1>18, <1>0, FramesStay DEF StealPart, Idle, Waiting
  <2> QED BY <1>18, <2>1 DEF StealPart
<1>19. ASSUME NEW j \in Jobs, Receive(j) PROVE TypeOK'
  BY <1>19 DEF Receive
<1>20. ASSUME NEW j \in Jobs, SeeEnd(j) PROVE TypeOK'
  BY <1>20 DEF SeeEnd
<1>21. ASSUME NEW j \in Jobs, DropReader(j) PROVE TypeOK'
  BY <1>21, <1>00 DEF DropReader
<1>22. ASSUME NEW j \in Jobs, Raise(j) PROVE TypeOK'
  BY <1>22 DEF Raise
<1>23. CASE TakeFromQueue
  <2>1. threads' \subseteq Seq(Frames) \ {<<>>}
    BY <1>23, FramesStay DEF TakeFromQueue, Idle, Waiting
  <2> QED BY <1>23, <2>1 DEF TakeFromQueue
<1> QED
  BY <1>1, <1>2, <1>3, <1>4, <1>5, <1>6, <1>7, <1>8, <1>9, <1>10, <1>11,
     <1>12, <1>13, <1>14, <1>15, <1>16, <1>17, <1>18, <1>19, <1>20, <1>21,
     <1>22, <1>23 DEF Next, Work, Read

-----------------------------------------------------------------------------
(* Order                                                                   *)

\* What holds of a job holds of it after a step that leaves it alone.
LEMMA OrderUntouched ==
  ASSUME OrderInv, NEW k \in Jobs,
         phase'[k] = phase[k], next'[k] = next[k], received'[k] = received[k],
         channel'[k] = channel[k], reader'[k] = reader[k]
  PROVE  JobInOrder(k, phase'[k], next'[k], received'[k], channel'[k], reader'[k])
BY DEF OrderInv

\* Every step keeps the items in order.
LEMMA OrderStep == ASSUME TypeOK, OrderInv, Next PROVE OrderInv'
<1> DEFINE Ordered(k) ==
      JobInOrder(k, phase'[k], next'[k], received'[k], channel'[k], reader'[k])
<1> SUFFICES ASSUME NEW k \in Jobs PROVE Ordered(k)
  BY DEF OrderInv
<1> USE DEF GoTo, jobVars, readerVars, poolVars
<1>0. JobInOrder(k, phase[k], next[k], received[k], channel[k], reader[k])
  BY DEF OrderInv
<1>t. /\ phase \in [Jobs -> Phases] /\ next \in [Jobs -> Nat]
      /\ received \in [Jobs -> Seq(Items)] /\ channel \in [Jobs -> Seq(Items)]
      /\ reader \in [Jobs -> {"reading", "dropped", "done"}]
      /\ received[k] \in Seq(Items) /\ channel[k] \in Seq(Items)
      /\ Count(received[k], channel[k]) \in Nat
  BY DEF TypeOK, Count
<1>m. MoreToRender(k) <=> Delivery!MorePages(k, next[k])
  BY DEF MoreToRender, Delivery!MorePages
<1>1. ASSUME NEW j \in Jobs, Call(j) PROVE Ordered(k)
  <2>1. CASE k # j
    BY <1>1, <2>1, <1>t, OrderUntouched DEF Call
  <2>2. CASE k = j
    BY <1>1, <2>2, <1>0, <1>t DEF Call, JobInOrder, PhaseFits, InPage
  <2> QED BY <2>1, <2>2
<1>2. ASSUME NEW j \in Jobs, Open(j) PROVE Ordered(k)
  <2>1. CASE k # j
    BY <1>2, <2>1, <1>t, OrderUntouched DEF Open
  <2>2. CASE k = j
    BY <1>2, <2>2, <1>0, <1>t DEF Open, JobInOrder, PhaseFits, InPage, AllGoOn
  <2> QED BY <2>1, <2>2
<1>3. ASSUME NEW j \in Jobs, StartPage(j) PROVE Ordered(k)
  <2>1. CASE k # j
    BY <1>3, <2>1, <1>t, OrderUntouched DEF StartPage
  <2>2. CASE k = j
    <3>1. /\ next'[k] = next[k] + 1 /\ next'[k] - 1 = next[k]
          /\ phase[k] = "paging" /\ phase'[k] \in {"rendering", "sending"}
          /\ Delivery!MorePages(k, next[k])
          /\ UNCHANGED <<received, channel, reader>>
      BY <1>3, <2>2, <1>t, <1>m DEF StartPage
    <3> QED BY <3>1, <1>0, <1>t DEF JobInOrder, PhaseFits, InPage
  <2> QED BY <2>1, <2>2
<1>4. ASSUME NEW j \in Jobs, FinishPage(j) PROVE Ordered(k)
  <2>1. CASE k # j
    BY <1>4, <2>1, <1>t, OrderUntouched DEF FinishPage
  <2>2. CASE k = j
    BY <1>4, <2>2, <1>0, <1>t DEF FinishPage, JobInOrder, PhaseFits, InPage
  <2> QED BY <2>1, <2>2
<1>5. ASSUME NEW j \in Jobs, DeskewAlone(j) PROVE Ordered(k)
  <2>1. CASE k # j
    BY <1>5, <2>1, <1>t, OrderUntouched DEF DeskewAlone
  <2>2. CASE k = j
    BY <1>5, <2>2, <1>0, <1>t DEF DeskewAlone, JobInOrder, PhaseFits, InPage
  <2> QED BY <2>1, <2>2
<1>6. ASSUME NEW j \in Jobs, InjectPart(j) PROVE Ordered(k)
  <2>1. CASE k # j
    BY <1>6, <2>1, <1>t, OrderUntouched DEF InjectPart
  <2>2. CASE k = j
    BY <1>6, <2>2, <1>0, <1>t DEF InjectPart, JobInOrder, PhaseFits, InPage
  <2> QED BY <2>1, <2>2
<1>7. ASSUME NEW j \in Jobs, FinishPart(j) PROVE Ordered(k)
  <2>1. CASE k # j
    BY <1>7, <2>1, <1>t, OrderUntouched DEF FinishPart
  <2>2. CASE k = j
    BY <1>7, <2>2, <1>0, <1>t DEF FinishPart, JobInOrder, PhaseFits, InPage
  <2> QED BY <2>1, <2>2
<1>8. ASSUME NEW j \in Jobs, NoMorePages(j) PROVE Ordered(k)
  <2>1. CASE k # j
    BY <1>8, <2>1, <1>t, OrderUntouched DEF NoMorePages
  <2>2. CASE k = j
    BY <1>8, <2>2, <1>0, <1>t, <1>m DEF NoMorePages, JobInOrder, PhaseFits, InPage
  <2> QED BY <2>1, <2>2
<1>9. ASSUME NEW j \in Jobs, DropSession(j) PROVE Ordered(k)
  <2>1. CASE k # j
    BY <1>9, <2>1, <1>t, OrderUntouched DEF DropSession
  <2>2. CASE k = j
    BY <1>9, <2>2, <1>0, <1>t DEF DropSession, JobInOrder, PhaseFits, InPage
  <2> QED BY <2>1, <2>2
<1>10. ASSUME NEW j \in Jobs, Close(j) PROVE Ordered(k)
  <2>1. CASE k # j
    BY <1>10, <2>1, <1>t, OrderUntouched DEF Close
  <2>2. CASE k = j
    BY <1>10, <2>2, <1>0, <1>t DEF Close, JobInOrder, PhaseFits, InPage
  <2> QED BY <2>1, <2>2
<1>11. ASSUME NEW j \in Jobs, Exhaust(j) PROVE Ordered(k)
  <2>1. CASE k # j
    BY <1>11, <2>1, <1>t, OrderUntouched DEF Exhaust
  <2>2. CASE k = j
    BY <1>11, <2>2, <1>0, <1>t, <1>m DEF Exhaust, JobInOrder, PhaseFits, InPage, Active
  <2> QED BY <2>1, <2>2
<1>12. ASSUME NEW j \in Jobs, Unwind(j) PROVE Ordered(k)
  <2>1. CASE k # j
    BY <1>12, <2>1, <1>t, OrderUntouched DEF Unwind
  <2>2. CASE k = j
    BY <1>12, <2>2, <1>0, <1>t DEF Unwind, JobInOrder, PhaseFits, InPage
  <2> QED BY <2>1, <2>2
<1>13. ASSUME NEW j \in Jobs, StealPart(j) PROVE Ordered(k)
  <2>1. CASE k # j
    BY <1>13, <2>1, <1>t, OrderUntouched DEF StealPart
  <2>2. CASE k = j
    BY <1>13, <2>2, <1>0, <1>t DEF StealPart, JobInOrder, PhaseFits, InPage
  <2> QED BY <2>1, <2>2
<1>14. ASSUME NEW j \in Jobs, SeeEnd(j) PROVE Ordered(k)
  <2>1. CASE k # j
    BY <1>14, <2>1, <1>t, OrderUntouched DEF SeeEnd
  <2>2. CASE k = j
    BY <1>14, <2>2, <1>0, <1>t DEF SeeEnd, JobInOrder, PhaseFits, InPage
  <2> QED BY <2>1, <2>2
<1>15. ASSUME NEW j \in Jobs, Raise(j) PROVE Ordered(k)
  <2>1. CASE k # j
    BY <1>15, <2>1, <1>t, OrderUntouched DEF Raise
  <2>2. CASE k = j
    BY <1>15, <2>2, <1>0, <1>t DEF Raise, JobInOrder, PhaseFits, InPage
  <2> QED BY <2>1, <2>2
<1>16. CASE TakeFromQueue
  BY <1>16, <1>t, OrderUntouched DEF TakeFromQueue
<1>17. ASSUME NEW j \in Jobs, CallInvalid(j) PROVE Ordered(k)
  <2>1. CASE k # j
    BY <1>17, <2>1, <1>t, OrderUntouched DEF CallInvalid
  <2>2. CASE k = j
    <3>1. reader[k] = "reading" => received[k] = <<>> /\ channel[k] = <<>>
      BY <1>17, <2>2, <1>0, <1>t DEF CallInvalid, JobInOrder, PhaseFits, Count
    <3>2. Abort \in Items /\ <<>> \in Seq(Items) /\ Append(<<>>, Abort) = <<Abort>>
      BY EmptySeq DEF Abort, Item, Items
    <3>3. ~Delivery!GoesOn(Abort)
      BY DEF Abort, Item, Delivery!GoesOn
    <3>4. /\ InOrder(k, <<>>, Append(<<>>, Abort))
          /\ ~AllGoOn(<<>>, Append(<<>>, Abort))
      BY <3>2, <3>3, NothingSent, SendInOrder
    <3> QED
      BY <1>17, <2>2, <3>1, <3>2, <3>4, NothingSent, <1>0, <1>t
         DEF CallInvalid, JobInOrder, PhaseFits, InPage
  <2> QED BY <2>1, <2>2
<1>18. ASSUME NEW j \in Jobs, Send(j) PROVE Ordered(k)
  <2>1. CASE k # j
    BY <1>18, <2>1, <1>t, OrderUntouched DEF Send
  <2>2. CASE k = j
    <3>1. CASE reader[k] # "reading"
      BY <1>18, <2>2, <3>1, <1>0, <1>t DEF Send, JobInOrder, Channels
    <3>2. CASE reader[k] = "reading"
      <4>1. PhaseFits(k, "sending", next[k], received[k], channel[k])
        BY <1>18, <2>2, <3>2, <1>0 DEF Send, JobInOrder
      <4>2. /\ Count(received[k], channel[k]) + 1 = next[k]
            /\ AllGoOn(received[k], channel[k])
            /\ Delivery!MorePages(k, next[k] - 1)
            /\ next[k] > 0
        BY <4>1, <1>t DEF PhaseFits, InPage
      <4>3. /\ InHand(k) \in Items
            /\ Good(k, next[k], InHand(k))
            /\ Delivery!GoesOn(InHand(k)) <=> outcome[k] # "cancelled"
        BY <4>2, <1>t, InHandGood
      <4>4. InOrder(k, received[k], channel[k])
        BY <3>2, <1>0 DEF JobInOrder
      <4>5. /\ InOrder(k, received[k], Append(channel[k], InHand(k)))
            /\ AllGoOn(received[k], Append(channel[k], InHand(k)))
                  <=> outcome[k] # "cancelled"
            /\ Count(received[k], Append(channel[k], InHand(k))) = next[k]
        BY <4>2, <4>3, <4>4, <1>t, SendInOrder
      <4> QED
        BY <1>18, <2>2, <3>2, <4>5, <1>t
           DEF Send, JobInOrder, PhaseFits, InPage, Channels
    <3> QED BY <3>1, <3>2
  <2> QED BY <2>1, <2>2
<1>19. ASSUME NEW j \in Jobs, SendAbort(j) PROVE Ordered(k)
  <2>1. CASE k # j
    BY <1>19, <2>1, <1>t, OrderUntouched DEF SendAbort
  <2>2. CASE k = j
    <3>1. CASE reader[k] # "reading"
      BY <1>19, <2>2, <3>1, <1>0, <1>t DEF SendAbort, JobInOrder, Channels
    <3>2. CASE reader[k] = "reading"
      <4>1. InOrder(k, received[k], channel[k]) /\ AllGoOn(received[k], channel[k])
        BY <1>19, <2>2, <3>2, <1>0 DEF SendAbort, JobInOrder, PhaseFits
      <4>2. Abort \in Items /\ ~Delivery!GoesOn(Abort)
        BY DEF Abort, Item, Items, Delivery!GoesOn
      <4>3. /\ InOrder(k, received[k], Append(channel[k], Abort))
            /\ ~AllGoOn(received[k], Append(channel[k], Abort))
        BY <4>1, <4>2, <1>t, SendInOrder
      <4> QED
        BY <1>19, <2>2, <3>2, <4>3, <1>t
           DEF SendAbort, JobInOrder, PhaseFits, InPage, Channels
    <3> QED BY <3>1, <3>2
  <2> QED BY <2>1, <2>2
<1>20. ASSUME NEW j \in Jobs, YieldPage(j) PROVE Ordered(k)
  <2>1. CASE k # j
    BY <1>20, <2>1, <1>t, OrderUntouched DEF YieldPage
  <2>2. CASE k = j
    <3>1. reader[k] = "reading" /\ channel[k] = <<>>
      BY <1>20, <2>2, <1>0 DEF YieldPage, Active, JobInOrder
    <3>2. /\ Count(received[k], <<>>) + 1 = next[k]
          /\ InOrder(k, received[k], <<>>) /\ AllGoOn(received[k], <<>>)
          /\ Delivery!MorePages(k, next[k] - 1)
          /\ next[k] > 0
      BY <1>20, <2>2, <3>1, <1>0, <1>t DEF YieldPage, JobInOrder, PhaseFits, InPage
    <3>3. /\ InHand(k) \in Items
          /\ Good(k, next[k], InHand(k))
          /\ Delivery!GoesOn(InHand(k)) <=> outcome[k] # "cancelled"
      BY <3>2, <1>t, InHandGood
    <3>4. /\ InOrder(k, Append(received[k], InHand(k)), <<>>)
          /\ AllGoOn(Append(received[k], InHand(k)), <<>>) <=> outcome[k] # "cancelled"
          /\ Count(Append(received[k], InHand(k)), <<>>) = next[k]
      BY <3>2, <3>3, <1>t, YieldInOrder
    <3> QED
      BY <1>20, <2>2, <3>1, <3>4, <1>t
         DEF YieldPage, JobInOrder, PhaseFits, InPage
  <2> QED BY <2>1, <2>2
<1>21. ASSUME NEW j \in Jobs, YieldError(j) PROVE Ordered(k)
  <2>1. CASE k # j
    BY <1>21, <2>1, <1>t, OrderUntouched DEF YieldError
  <2>2. CASE k = j
    <3>1. reader[k] = "reading" /\ channel[k] = <<>>
      BY <1>21, <2>2, <1>0 DEF YieldError, Active, JobInOrder
    <3>2. InOrder(k, received[k], <<>>) /\ AllGoOn(received[k], <<>>)
      BY <1>21, <2>2, <3>1, <1>0 DEF YieldError, JobInOrder, PhaseFits
    <3>3. Abort \in Items /\ ~Delivery!GoesOn(Abort)
      BY DEF Abort, Item, Items, Delivery!GoesOn
    <3>4. /\ InOrder(k, Append(received[k], Abort), <<>>)
          /\ ~AllGoOn(Append(received[k], Abort), <<>>)
      BY <3>2, <3>3, <1>t, YieldInOrder
    <3> QED
      BY <1>21, <2>2, <3>1, <3>4, <1>t
         DEF YieldError, JobInOrder, PhaseFits, InPage
  <2> QED BY <2>1, <2>2
<1>22. ASSUME NEW j \in Jobs, Receive(j) PROVE Ordered(k)
  <2>1. CASE k # j
    BY <1>22, <2>1, <1>t, OrderUntouched DEF Receive
  <2>2. CASE k = j
    <3>1. /\ InOrder(k, received[k], channel[k]) =>
                InOrder(k, received'[k], channel'[k])
          /\ AllGoOn(received'[k], channel'[k]) <=> AllGoOn(received[k], channel[k])
          /\ Count(received'[k], channel'[k]) = Count(received[k], channel[k])
      BY <1>22, <2>2, <1>t, ReceiveInOrder DEF Receive
    <3> QED
      BY <1>22, <2>2, <3>1, <1>0, <1>t DEF Receive, JobInOrder, PhaseFits, InPage
  <2> QED BY <2>1, <2>2
<1>23. ASSUME NEW j \in Jobs, DropReader(j) PROVE Ordered(k)
  <2>1. CASE k # j
    BY <1>23, <2>1, <1>t, OrderUntouched DEF DropReader
  <2>2. CASE k = j
    BY <1>23, <2>2, <1>0, <1>t DEF DropReader, JobInOrder
  <2> QED BY <2>1, <2>2
<1> QED
  BY <1>1, <1>2, <1>3, <1>4, <1>5, <1>6, <1>7, <1>8, <1>9, <1>10, <1>11,
     <1>12, <1>13, <1>14, <1>15, <1>16, <1>17, <1>18, <1>19, <1>20, <1>21,
     <1>22, <1>23
     DEF Next, Work, Read

-----------------------------------------------------------------------------
(* Sessions                                                                *)

\* Every step keeps sessions within the life of their producer.
LEMMA SessionStep == ASSUME TypeOK, SessionInv, Next PROVE SessionInv'
<1> USE DEF SessionInv, TypeOK, InPage, GoTo, jobVars, readerVars, poolVars
<1>1. ASSUME NEW j \in Jobs, CallInvalid(j) PROVE SessionInv'
  BY <1>1 DEF CallInvalid
<1>2. ASSUME NEW j \in Jobs, Call(j) PROVE SessionInv'
  BY <1>2 DEF Call
<1>3. ASSUME NEW j \in Jobs, Open(j) PROVE SessionInv'
  <2>1. CASE open' = open \cup {j} /\ phase' = [phase EXCEPT ![j] = "paging"]
    BY <1>3, <2>1 DEF Open
  <2>2. CASE open' = open /\ phase' = [phase EXCEPT ![j] = "aborting"]
    BY <1>3, <2>2 DEF Open
  <2> QED BY <1>3, <2>1, <2>2 DEF Open
<1>4. ASSUME NEW j \in Jobs, StartPage(j) PROVE SessionInv'
  BY <1>4 DEF StartPage
<1>5. ASSUME NEW j \in Jobs, FinishPage(j) PROVE SessionInv'
  BY <1>5 DEF FinishPage
<1>6. ASSUME NEW j \in Jobs, DeskewAlone(j) PROVE SessionInv'
  BY <1>6 DEF DeskewAlone
<1>7. ASSUME NEW j \in Jobs, InjectPart(j) PROVE SessionInv'
  BY <1>7 DEF InjectPart
<1>8. ASSUME NEW j \in Jobs, FinishPart(j) PROVE SessionInv'
  BY <1>8 DEF FinishPart
<1>9. ASSUME NEW j \in Jobs, Send(j) PROVE SessionInv'
  BY <1>9 DEF Send
<1>10. ASSUME NEW j \in Jobs, NoMorePages(j) PROVE SessionInv'
  BY <1>10 DEF NoMorePages
<1>11. ASSUME NEW j \in Jobs, DropSession(j) PROVE SessionInv'
  BY <1>11 DEF DropSession
<1>12. ASSUME NEW j \in Jobs, SendAbort(j) PROVE SessionInv'
  BY <1>12 DEF SendAbort
<1>13. ASSUME NEW j \in Jobs, Close(j) PROVE SessionInv'
  BY <1>13 DEF Close
<1>14. ASSUME NEW j \in Jobs, YieldPage(j) PROVE SessionInv'
  BY <1>14 DEF YieldPage
<1>15. ASSUME NEW j \in Jobs, YieldError(j) PROVE SessionInv'
  BY <1>15 DEF YieldError
<1>16. ASSUME NEW j \in Jobs, Exhaust(j) PROVE SessionInv'
  BY <1>16 DEF Exhaust
<1>17. ASSUME NEW j \in Jobs, Unwind(j) PROVE SessionInv'
  BY <1>17 DEF Unwind
<1>18. ASSUME NEW j \in Jobs, StealPart(j) PROVE SessionInv'
  BY <1>18 DEF StealPart
<1>19. ASSUME NEW j \in Jobs, Receive(j) PROVE SessionInv'
  BY <1>19 DEF Receive
<1>20. ASSUME NEW j \in Jobs, SeeEnd(j) PROVE SessionInv'
  BY <1>20 DEF SeeEnd
<1>21. ASSUME NEW j \in Jobs, DropReader(j) PROVE SessionInv'
  BY <1>21 DEF DropReader
<1>22. ASSUME NEW j \in Jobs, Raise(j) PROVE SessionInv'
  BY <1>22 DEF Raise
<1>23. CASE TakeFromQueue
  BY <1>23 DEF TakeFromQueue
<1> QED
  BY <1>1, <1>2, <1>3, <1>4, <1>5, <1>6, <1>7, <1>8, <1>9, <1>10, <1>11,
     <1>12, <1>13, <1>14, <1>15, <1>16, <1>17, <1>18, <1>19, <1>20, <1>21,
     <1>22, <1>23
     DEF Next, Work, Read

-----------------------------------------------------------------------------
(* Cancellation                                                            *)

\* Adding an item that is no page, or the page of the cursor.
LEMMA AddRaised ==
  ASSUME NEW r \in Seq(Items), NEW c \in Seq(Items), NEW x \in Items,
         NEW n \in Nat, NEW ra \in Nat \cup {Never},
         ItemsRaised(n, r, c, ra),
         x.result = "page" =>
           Count(r, c) + 1 <= n /\ (ra # Never => Count(r, c) + 1 <= ra)
  PROVE  /\ ItemsRaised(n, r, Append(c, x), ra)
         /\ c = <<>> => ItemsRaised(n, Append(r, x), c, ra)
<1>1. ItemsRaised(n, r, Append(c, x), ra)
  BY SendAppends DEF ItemsRaised
<1>2. ASSUME c = <<>> PROVE ItemsRaised(n, Append(r, x), <<>>, ra)
  BY <1>2, YieldAppends DEF ItemsRaised
<1> QED BY <1>1, <1>2

\* Receiving or losing items adds none.
LEMMA FewerRaised ==
  ASSUME NEW r \in Seq(Items), NEW c \in Seq(Items),
         NEW n \in Nat, NEW ra \in Nat \cup {Never}, ItemsRaised(n, r, c, ra)
  PROVE  /\ c # <<>> => ItemsRaised(n, Append(r, Head(c)), Tail(c), ra)
         /\ ItemsRaised(n, r, <<>>, ra)
<1>1. ASSUME c # <<>> PROVE ItemsRaised(n, Append(r, Head(c)), Tail(c), ra)
  BY <1>1, ReceiveMoves DEF ItemsRaised
<1>2. ItemsRaised(n, r, <<>>, ra)
  BY DEF ItemsRaised, Count, At
<1> QED BY <1>1, <1>2

\* Every step keeps the pages after a cancel unrendered.
LEMMA RaisedStep ==
  ASSUME TypeOK, OrderInv, RaisedInv, Next PROVE RaisedInv'
<1> DEFINE Ok(k) == /\ ItemsRaised(next'[k], received'[k], channel'[k], raised'[k])
                    /\ HandRaised(phase'[k], next'[k], outcome'[k], raised'[k])
<1> SUFFICES ASSUME NEW k \in Jobs PROVE Ok(k)
  BY DEF RaisedInv
<1> USE DEF GoTo, jobVars, readerVars, poolVars
<1>0. /\ ItemsRaised(next[k], received[k], channel[k], raised[k])
      /\ HandRaised(phase[k], next[k], outcome[k], raised[k])
  BY DEF RaisedInv
<1>t. /\ phase \in [Jobs -> Phases] /\ next \in [Jobs -> Nat]
      /\ outcome \in [Jobs -> PageResults]
      /\ received \in [Jobs -> Seq(Items)] /\ channel \in [Jobs -> Seq(Items)]
      /\ raised \in [Jobs -> Nat \cup {Never}]
      /\ received[k] \in Seq(Items) /\ channel[k] \in Seq(Items)
      /\ next[k] \in Nat /\ raised[k] \in Nat \cup {Never}
      /\ Count(received[k], channel[k]) \in Nat
  BY DEF TypeOK, Count
<1>a. Abort \in Items /\ Abort.result # "page"
  BY DEF Abort, Item, Items
\* A page in hand is the next item, and was begun in time.
<1>h. ASSUME phase[k] = "sending", reader[k] = "reading"
      PROVE  /\ InHand(k) \in Items
             /\ InHand(k).result = "page" =>
                  /\ Count(received[k], channel[k]) + 1 <= next[k]
                  /\ raised[k] # Never =>
                       Count(received[k], channel[k]) + 1 <= raised[k]
  <2>1. PhaseFits(k, "sending", next[k], received[k], channel[k])
    BY <1>h DEF OrderInv, JobInOrder
  <2>2. /\ Count(received[k], channel[k]) + 1 = next[k]
        /\ Delivery!MorePages(k, next[k] - 1) /\ next[k] > 0
    BY <2>1, <1>t DEF PhaseFits, InPage
  <2>3. InHand(k) \in Items /\ InHand(k).result = outcome[k]
    BY <2>2, <1>t, InHandGood
  <2> QED BY <1>h, <2>2, <2>3, <1>0, <1>t DEF HandRaised, InPage
<1>1. ASSUME NEW j \in Jobs, CallInvalid(j) PROVE Ok(k)
  <2>1. CASE k # j
    BY <1>1, <2>1, <1>0, <1>t DEF CallInvalid
  <2>2. CASE k = j
    <3>1. phase'[k] \notin InPage /\ UNCHANGED <<next, received, raised>>
      BY <1>1, <2>2, <1>t DEF CallInvalid, InPage
    <3>2. ItemsRaised(next[k], received[k], <<>>, raised[k])
      BY <1>0, <1>t, FewerRaised
    <3>3. <<>> \in Seq(Items) /\ Append(<<>>, Abort) = <<Abort>>
      BY <1>a, EmptySeq
    <3>4. ItemsRaised(next[k], received[k], Append(<<>>, Abort), raised[k])
      BY <3>2, <3>3, <1>a, <1>t, AddRaised
    <3>5. channel'[k] = channel[k] \/ channel'[k] = Append(<<>>, Abort)
      BY <1>1, <2>2, <3>3, <1>t DEF CallInvalid
    <3>6. ItemsRaised(next'[k], received'[k], channel'[k], raised'[k])
      BY <3>1, <3>4, <3>5, <1>0
    <3> QED BY <3>1, <3>6 DEF HandRaised, InPage
  <2> QED BY <2>1, <2>2
<1>2. ASSUME NEW j \in Jobs, Call(j) PROVE Ok(k)
  <2>1. CASE k # j
    BY <1>2, <2>1, <1>0, <1>t DEF Call
  <2>2. CASE k = j
    BY <1>2, <2>2, <1>0, <1>t DEF Call, HandRaised, InPage
  <2> QED BY <2>1, <2>2
<1>3. ASSUME NEW j \in Jobs, Open(j) PROVE Ok(k)
  <2>1. CASE k # j
    BY <1>3, <2>1, <1>0, <1>t DEF Open
  <2>2. CASE k = j
    BY <1>3, <2>2, <1>0, <1>t DEF Open, HandRaised, InPage
  <2> QED BY <2>1, <2>2
<1>4. ASSUME NEW j \in Jobs, StartPage(j) PROVE Ok(k)
  <2>1. CASE k # j
    BY <1>4, <2>1, <1>0, <1>t DEF StartPage
  <2>2. CASE k = j
    <3>1. ItemsRaised(next[k] + 1, received[k], channel[k], raised[k])
      BY <1>0, <1>t DEF ItemsRaised
    <3>2. /\ next'[k] = next[k] + 1
          /\ raised'[k] = raised[k]
          /\ raised[k] # Never => phase'[k] = "sending" /\ outcome'[k] # "page"
      BY <1>4, <2>2, <1>t DEF StartPage, Failures
    <3> QED BY <1>4, <2>2, <3>1, <3>2, <1>t DEF StartPage, HandRaised
  <2> QED BY <2>1, <2>2
<1>5. ASSUME NEW j \in Jobs, FinishPage(j) PROVE Ok(k)
  <2>1. CASE k # j
    BY <1>5, <2>1, <1>0, <1>t DEF FinishPage
  <2>2. CASE k = j
    BY <1>5, <2>2, <1>0, <1>t DEF FinishPage, HandRaised, InPage, ResultsNow
  <2> QED BY <2>1, <2>2
<1>6. ASSUME NEW j \in Jobs, DeskewAlone(j) PROVE Ok(k)
  <2>1. CASE k # j
    BY <1>6, <2>1, <1>0, <1>t DEF DeskewAlone
  <2>2. CASE k = j
    BY <1>6, <2>2, <1>0, <1>t DEF DeskewAlone, HandRaised, InPage
  <2> QED BY <2>1, <2>2
<1>7. ASSUME NEW j \in Jobs, InjectPart(j) PROVE Ok(k)
  <2>1. CASE k # j
    BY <1>7, <2>1, <1>0, <1>t DEF InjectPart
  <2>2. CASE k = j
    BY <1>7, <2>2, <1>0, <1>t DEF InjectPart, HandRaised, InPage
  <2> QED BY <2>1, <2>2
<1>8. ASSUME NEW j \in Jobs, FinishPart(j) PROVE Ok(k)
  <2>1. CASE k # j
    BY <1>8, <2>1, <1>0, <1>t DEF FinishPart
  <2>2. CASE k = j
    BY <1>8, <2>2, <1>0, <1>t DEF FinishPart, HandRaised, InPage
  <2> QED BY <2>1, <2>2
<1>9. ASSUME NEW j \in Jobs, Send(j) PROVE Ok(k)
  <2>1. CASE k # j
    BY <1>9, <2>1, <1>0, <1>t DEF Send
  <2>2. CASE k = j
    <3>1. CASE reader[k] # "reading"
      BY <1>9, <2>2, <3>1, <1>0, <1>t DEF Send, HandRaised, InPage
    <3>2. CASE reader[k] = "reading"
      <4>1. ItemsRaised(next[k], received[k], Append(channel[k], InHand(k)), raised[k])
        BY <1>9, <2>2, <3>2, <1>0, <1>t, <1>h, AddRaised DEF Send
      <4> QED
        BY <1>9, <2>2, <3>2, <4>1, <1>t DEF Send, HandRaised, InPage
    <3> QED BY <3>1, <3>2
  <2> QED BY <2>1, <2>2
<1>10. ASSUME NEW j \in Jobs, NoMorePages(j) PROVE Ok(k)
  <2>1. CASE k # j
    BY <1>10, <2>1, <1>0, <1>t DEF NoMorePages
  <2>2. CASE k = j
    BY <1>10, <2>2, <1>0, <1>t DEF NoMorePages, HandRaised, InPage
  <2> QED BY <2>1, <2>2
<1>11. ASSUME NEW j \in Jobs, DropSession(j) PROVE Ok(k)
  <2>1. CASE k # j
    BY <1>11, <2>1, <1>0, <1>t DEF DropSession
  <2>2. CASE k = j
    BY <1>11, <2>2, <1>0, <1>t DEF DropSession, HandRaised, InPage
  <2> QED BY <2>1, <2>2
<1>12. ASSUME NEW j \in Jobs, SendAbort(j) PROVE Ok(k)
  <2>1. CASE k # j
    BY <1>12, <2>1, <1>0, <1>t DEF SendAbort
  <2>2. CASE k = j
    <3>1. ItemsRaised(next[k], received[k], Append(channel[k], Abort), raised[k])
      BY <1>0, <1>t, <1>a, AddRaised
    <3> QED
      BY <1>12, <2>2, <3>1, <1>0, <1>t DEF SendAbort, HandRaised, InPage
  <2> QED BY <2>1, <2>2
<1>13. ASSUME NEW j \in Jobs, Close(j) PROVE Ok(k)
  <2>1. CASE k # j
    BY <1>13, <2>1, <1>0, <1>t DEF Close
  <2>2. CASE k = j
    BY <1>13, <2>2, <1>0, <1>t DEF Close, HandRaised, InPage
  <2> QED BY <2>1, <2>2
<1>14. ASSUME NEW j \in Jobs, YieldPage(j) PROVE Ok(k)
  <2>1. CASE k # j
    BY <1>14, <2>1, <1>0, <1>t DEF YieldPage
  <2>2. CASE k = j
    <3>1. reader[k] = "reading" /\ channel[k] = <<>> /\ phase[k] = "sending"
      BY <1>14, <2>2 DEF YieldPage, Active, OrderInv, JobInOrder
    <3>2. ItemsRaised(next[k], Append(received[k], InHand(k)), channel[k], raised[k])
      BY <3>1, <1>h, <1>0, <1>t, AddRaised
    <3> QED
      BY <1>14, <2>2, <3>2, <1>t DEF YieldPage, HandRaised, InPage
  <2> QED BY <2>1, <2>2
<1>15. ASSUME NEW j \in Jobs, YieldError(j) PROVE Ok(k)
  <2>1. CASE k # j
    BY <1>15, <2>1, <1>0, <1>t DEF YieldError
  <2>2. CASE k = j
    <3>1. channel[k] = <<>>
      BY <1>15, <2>2 DEF YieldError, OrderInv, JobInOrder
    <3>2. ItemsRaised(next[k], Append(received[k], Abort), channel[k], raised[k])
      BY <3>1, <1>a, <1>0, <1>t, AddRaised
    <3> QED
      BY <1>15, <2>2, <3>2, <1>t DEF YieldError, HandRaised, InPage
  <2> QED BY <2>1, <2>2
<1>16. ASSUME NEW j \in Jobs, Exhaust(j) PROVE Ok(k)
  <2>1. CASE k # j
    BY <1>16, <2>1, <1>0, <1>t DEF Exhaust
  <2>2. CASE k = j
    BY <1>16, <2>2, <1>0, <1>t DEF Exhaust, HandRaised, InPage
  <2> QED BY <2>1, <2>2
<1>17. ASSUME NEW j \in Jobs, Unwind(j) PROVE Ok(k)
  <2>1. CASE k # j
    BY <1>17, <2>1, <1>0, <1>t DEF Unwind
  <2>2. CASE k = j
    BY <1>17, <2>2, <1>0, <1>t DEF Unwind, HandRaised, InPage
  <2> QED BY <2>1, <2>2
<1>18. ASSUME NEW j \in Jobs, StealPart(j) PROVE Ok(k)
  <2>1. CASE k # j
    BY <1>18, <2>1, <1>0, <1>t DEF StealPart
  <2>2. CASE k = j
    BY <1>18, <2>2, <1>0, <1>t DEF StealPart, HandRaised, InPage
  <2> QED BY <2>1, <2>2
<1>19. ASSUME NEW j \in Jobs, Receive(j) PROVE Ok(k)
  <2>1. CASE k # j
    BY <1>19, <2>1, <1>0, <1>t DEF Receive
  <2>2. CASE k = j
    BY <1>19, <2>2, <1>0, <1>t, FewerRaised DEF Receive
  <2> QED BY <2>1, <2>2
<1>20. ASSUME NEW j \in Jobs, SeeEnd(j) PROVE Ok(k)
  <2>1. CASE k # j
    BY <1>20, <2>1, <1>0, <1>t DEF SeeEnd
  <2>2. CASE k = j
    BY <1>20, <2>2, <1>0, <1>t DEF SeeEnd, HandRaised, InPage
  <2> QED BY <2>1, <2>2
<1>21. ASSUME NEW j \in Jobs, DropReader(j) PROVE Ok(k)
  <2>1. CASE k # j
    BY <1>21, <2>1, <1>0, <1>t DEF DropReader
  <2>2. CASE k = j
    <3>1. ItemsRaised(next[k], received[k], <<>>, raised[k])
      BY <1>0, <1>t, FewerRaised
    <3>2. phase'[k] = phase[k] \/ phase'[k] = "ended"
      BY <1>21, <2>2, <1>t DEF DropReader
    <3> QED
      BY <1>21, <2>2, <3>1, <3>2, <1>0, <1>t DEF DropReader, HandRaised, InPage
  <2> QED BY <2>1, <2>2
<1>22. ASSUME NEW j \in Jobs, Raise(j) PROVE Ok(k)
  <2>1. CASE k # j
    BY <1>22, <2>1, <1>0, <1>t DEF Raise
  <2>2. CASE k = j
    BY <1>22, <2>2, <1>0, <1>t DEF Raise, HandRaised, ItemsRaised
  <2> QED BY <2>1, <2>2
<1>23. CASE TakeFromQueue
  BY <1>23, <1>0 DEF TakeFromQueue
<1> QED
  BY <1>1, <1>2, <1>3, <1>4, <1>5, <1>6, <1>7, <1>8, <1>9, <1>10, <1>11,
     <1>12, <1>13, <1>14, <1>15, <1>16, <1>17, <1>18, <1>19, <1>20, <1>21,
     <1>22, <1>23
     DEF Next, Work, Read

-----------------------------------------------------------------------------
(* Refinement                                                              *)

\* The initial states satisfy the invariant.
LEMMA InitInv == Init => IInv
<1> SUFFICES ASSUME Init PROVE IInv
  OBVIOUS
<1> USE DEF Init
<1>1. TypeOK
  BY EmptySeq DEF TypeOK, Phases, PageResults
<1>2. OrderInv
  BY NothingSent DEF OrderInv, JobInOrder, PhaseFits, InPage
<1>3. SessionInv
  BY DEF SessionInv
<1>4. RaisedInv
  BY NothingSent DEF RaisedInv, ItemsRaised, HandRaised
<1> QED BY <1>1, <1>2, <1>3, <1>4 DEF IInv

\* Every step keeps it.
LEMMA NextInv == IInv /\ [Next]_vars => IInv'
<1> SUFFICES ASSUME IInv, [Next]_vars PROVE IInv'
  OBVIOUS
<1>1. CASE Next
  BY <1>1, TypeStep, OrderStep, SessionStep, RaisedStep DEF IInv
<1>2. CASE UNCHANGED vars
  BY <1>2 DEF IInv, TypeOK, OrderInv, SessionInv, RaisedInv, Active, vars,
              jobVars, readerVars, poolVars
<1> QED BY <1>1, <1>2

\* Handing the next item to the reader is a step of PageDelivery.
LEMMA DeliverStep ==
  ASSUME NEW j \in Jobs, NEW c \in Seq(Items), NEW x \in Items,
         received \in [Jobs -> Seq(Items)], reader[j] = "reading",
         InOrder(j, received[j], c), Len(received[j]) > 0 =>
            Delivery!GoesOn(received[j][Len(received[j])]),
         Good(j, Len(received[j]) + 1, x) \/ x = Abort,
         received' = [received EXCEPT ![j] = Append(@, x)],
         UNCHANGED reader
  PROVE  Delivery!Next
<1>1. ~Delivery!Over(received[j])
  BY EmptySeq DEF Delivery!Over
<1>2. Delivery!Deliver(j, x)
  BY <1>1 DEF Delivery!Deliver
<1>3. CASE x = Abort
  BY <1>2, <1>3 DEF Delivery!Next, Delivery!GiveUp, Delivery!Abort, Abort,
                    Delivery!Item, Item
<1>4. CASE Good(j, Len(received[j]) + 1, x)
  <2>1. Len(received[j]) + 1 - 1 = Len(received[j])
    OBVIOUS
  <2>2. Delivery!Page(j)
    BY <1>2, <1>4, <2>1 DEF Good, Delivery!Page, Delivery!Item, Item,
                            Delivery!PageResults, PageResults
  <2> QED BY <2>2 DEF Delivery!Next
<1> QED BY <1>3, <1>4

\* Every step of RenderChannel is a step of PageDelivery, or changes
\* nothing a reader sees.
LEMMA StepRefines ==
  IInv /\ [Next]_vars => [Delivery!Next]_(Delivery!vars)
<1> DEFINE Same == /\ UNCHANGED received
                   /\ {i \in Jobs : reader'[i] = "done"}
                        = {i \in Jobs : reader[i] = "done"}
<1> SUFFICES ASSUME IInv, Next PROVE Delivery!Next \/ Same
  BY DEF Delivery!vars, vars, readerVars
<1> USE DEF jobVars, readerVars, poolVars
<1>t. TypeOK /\ OrderInv
  BY DEF IInv
<1>1. ASSUME NEW j \in Jobs, CallInvalid(j) PROVE Same
  BY <1>1 DEF CallInvalid
<1>2. ASSUME NEW j \in Jobs, Call(j) PROVE Same
  BY <1>2 DEF Call
<1>3. ASSUME NEW j \in Jobs, Open(j) PROVE Same
  BY <1>3 DEF Open
<1>4. ASSUME NEW j \in Jobs, StartPage(j) PROVE Same
  BY <1>4 DEF StartPage
<1>5. ASSUME NEW j \in Jobs, FinishPage(j) PROVE Same
  BY <1>5 DEF FinishPage
<1>6. ASSUME NEW j \in Jobs, DeskewAlone(j) PROVE Same
  BY <1>6 DEF DeskewAlone
<1>7. ASSUME NEW j \in Jobs, InjectPart(j) PROVE Same
  BY <1>7 DEF InjectPart
<1>8. ASSUME NEW j \in Jobs, FinishPart(j) PROVE Same
  BY <1>8 DEF FinishPart
<1>9. ASSUME NEW j \in Jobs, Send(j) PROVE Same
  BY <1>9 DEF Send
<1>10. ASSUME NEW j \in Jobs, NoMorePages(j) PROVE Same
  BY <1>10 DEF NoMorePages
<1>11. ASSUME NEW j \in Jobs, DropSession(j) PROVE Same
  BY <1>11 DEF DropSession
<1>12. ASSUME NEW j \in Jobs, SendAbort(j) PROVE Same
  BY <1>12 DEF SendAbort
<1>13. ASSUME NEW j \in Jobs, Close(j) PROVE Same
  BY <1>13 DEF Close
<1>14. ASSUME NEW j \in Jobs, Exhaust(j) PROVE Same
  BY <1>14 DEF Exhaust
<1>15. ASSUME NEW j \in Jobs, Unwind(j) PROVE Same
  BY <1>15 DEF Unwind
<1>16. ASSUME NEW j \in Jobs, StealPart(j) PROVE Same
  BY <1>16 DEF StealPart
<1>17. ASSUME NEW j \in Jobs, Raise(j) PROVE Same
  BY <1>17 DEF Raise
<1>18. ASSUME TakeFromQueue PROVE Same
  BY <1>18 DEF TakeFromQueue
<1>19. ASSUME NEW j \in Jobs, Receive(j) PROVE Delivery!Next
  <2>1. InOrder(j, received[j], channel[j])
    BY <1>19, <1>t DEF OrderInv, JobInOrder, Receive
  <2>t. received[j] \in Seq(Items) /\ channel[j] \in Seq(Items) /\ channel[j] # <<>>
    BY <1>19, <1>t DEF TypeOK, Receive
  <2>2. /\ At(received[j], channel[j], Len(received[j]) + 1) = Head(channel[j])
        /\ Len(received[j]) + 1 \in 1..Count(received[j], channel[j])
        /\ Count(received[j], channel[j]) \in Nat
    BY <2>t, ReceiveMoves
  <2>3. \/ Good(j, Len(received[j]) + 1, Head(channel[j]))
        \/ Head(channel[j]) = Abort
    BY <2>1, <2>2 DEF InOrder
  <2>4. Len(received[j]) > 0 => Delivery!GoesOn(received[j][Len(received[j])])
    BY <2>1, <2>2, <2>t DEF InOrder, At
  <2>5. Head(channel[j]) \in Items
    BY <2>t
  <2> QED
    BY <1>19, <1>t, <2>1, <2>t, <2>3, <2>4, <2>5, DeliverStep DEF Receive, TypeOK
<1>20. ASSUME NEW j \in Jobs, YieldPage(j) \/ YieldError(j) PROVE Delivery!Next
  <2>1. reader[j] = "reading" /\ channel[j] = <<>> /\ received[j] \in Seq(Items)
    BY <1>20, <1>t DEF YieldPage, YieldError, Active, OrderInv, JobInOrder, TypeOK
  <2>2. /\ InOrder(j, received[j], <<>>)
        /\ PhaseFits(j, phase[j], next[j], received[j], <<>>)
        /\ Count(received[j], <<>>) = Len(received[j])
        /\ \A i \in 1..Len(received[j]) : At(received[j], <<>>, i) = received[j][i]
    BY <2>1, <1>t DEF OrderInv, JobInOrder, Count, At
  <2>3. phase[j] \in {"sending", "aborting"} => AllGoOn(received[j], <<>>)
    BY <2>2 DEF PhaseFits, InPage
  <2>4. Len(received[j]) > 0 => Delivery!GoesOn(received[j][Len(received[j])])
    BY <1>20, <2>1, <2>2, <2>3 DEF YieldPage, YieldError, AllGoOn
  <2>5. CASE YieldPage(j)
    <3>1. /\ Len(received[j]) + 1 = next[j] /\ next[j] > 0
          /\ Delivery!MorePages(j, next[j] - 1)
      BY <2>1, <2>2, <2>5 DEF YieldPage, PhaseFits, InPage
    <3>2. InHand(j) \in Items /\ Good(j, Len(received[j]) + 1, InHand(j))
      BY <3>1, <1>t, InHandGood DEF TypeOK
    <3> QED
      BY <2>1, <2>2, <2>4, <2>5, <3>2, <1>t, EmptySeq, DeliverStep DEF YieldPage, TypeOK
  <2>6. CASE YieldError(j)
    <3>1. Abort \in Items
      BY DEF Abort, Item, Items
    <3> QED
      BY <2>1, <2>2, <2>4, <2>6, <3>1, <1>t, EmptySeq, DeliverStep
         DEF YieldError, TypeOK
  <2> QED BY <1>20, <2>5, <2>6
<1>21. ASSUME NEW j \in Jobs, SeeEnd(j) PROVE Delivery!Next
  <2>1. /\ InOrder(j, received[j], <<>>)
        /\ PhaseFits(j, "ended", next[j], received[j], <<>>)
        /\ received[j] \in Seq(Items)
    BY <1>21, <1>t DEF SeeEnd, OrderInv, JobInOrder, TypeOK
  <2>2. /\ Count(received[j], <<>>) = Len(received[j])
        /\ \A i \in 1..Len(received[j]) : At(received[j], <<>>, i) = received[j][i]
    BY <2>1 DEF Count, At
  <2>3. Delivery!Over(received[j]) \/ ~Delivery!MorePages(j, Len(received[j]))
    BY <2>1, <2>2, EmptySeq DEF PhaseFits, AllGoOn, Delivery!Over
  <2>4. {i \in Jobs : reader'[i] = "done"} = {i \in Jobs : reader[i] = "done"} \cup {j}
    BY <1>21, <1>t DEF SeeEnd, TypeOK
  <2>5. Delivery!End(j)
    BY <1>21, <2>3, <2>4 DEF SeeEnd, Delivery!End
  <2> QED BY <2>5 DEF Delivery!Next
<1>22. ASSUME NEW j \in Jobs, DropReader(j)
       PROVE  Same
  BY <1>22, <1>t DEF DropReader, TypeOK
<1> QED
  BY <1>1, <1>2, <1>3, <1>4, <1>5, <1>6, <1>7, <1>8, <1>9, <1>10, <1>11,
     <1>12, <1>13, <1>14, <1>15, <1>16, <1>17, <1>18, <1>19, <1>20, <1>21,
     <1>22
     DEF Next, Work, Read

-----------------------------------------------------------------------------
(* The theorems                                                            *)

\* The invariant holds throughout.
LEMMA Invariant == Spec => []IInv
BY InitInv, NextInv, PTL DEF Spec

\* RenderChannel is always of its types.
THEOREM TypeCorrect == Spec => []TypeOK
<1>1. IInv => TypeOK
  BY DEF IInv
<1> QED BY <1>1, Invariant, PTL

\* The readers of every job get what PageDelivery promises (batch.rs
\* 264-299 and 166-190), for any jobs, pool and channel capacities.
THEOREM KeepsPromiseHolds == Spec => KeepsPromise
<1>1. Init => Delivery!Init
  BY DEF Init, Delivery!Init
<1> QED BY <1>1, Invariant, StepRefines, PTL DEF Spec, KeepsPromise, Delivery!Spec

\* A reader that has seen the end finds no session open.
THEOREM EndMeansSessionGoneHolds == Spec => []EndMeansSessionGone
<1>1. IInv => EndMeansSessionGone
  BY DEF IInv, SessionInv, InPage, EndMeansSessionGone
<1> QED BY <1>1, Invariant, PTL

\* No page begun after the token was raised is rendered.
THEOREM NoPageAfterRaiseHolds == Spec => []NoPageAfterRaise
<1>1. ASSUME IInv PROVE NoPageAfterRaise
  <2> SUFFICES ASSUME NEW j \in Jobs, raised[j] # Never,
                      NEW i \in DOMAIN received[j],
                      received[j][i].result = "page"
               PROVE  i <= raised[j]
    BY DEF NoPageAfterRaise
  <2>1. received[j] \in Seq(Items) /\ channel[j] \in Seq(Items)
    BY <1>1 DEF IInv, TypeOK
  <2>2. i \in 1..Count(received[j], channel[j])
        /\ At(received[j], channel[j], i) = received[j][i]
    <3>1. i \in 1..Len(received[j]) /\ Len(received[j]) \in Nat /\ Len(channel[j]) \in Nat
      BY <2>1, LenProperties
    <3> QED BY <2>1, <3>1, ReceivedFirst
  <2>3. ItemsRaised(next[j], received[j], channel[j], raised[j])
    BY <1>1 DEF IInv, RaisedInv
  <2> QED BY <2>2, <2>3 DEF ItemsRaised
<1> QED BY <1>1, Invariant, PTL
=============================================================================
