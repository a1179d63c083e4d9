------------------------ MODULE DocumentImagesProofs ------------------------
(* Proofs about DocumentImages.                                            *)
EXTENDS DocumentImages, TotalsTheorems

USE DEF LocalResults

-----------------------------------------------------------------------------
(* Types.                                                                  *)

\* The value `want` has for an idle page.
LEMMA AnyWantType == AnyWant \in Keys \X Draws
<1>1. PICK k \in Keys, d \in Draws : TRUE
  BY SomeWant
<1>2. <<k, d>> \in Keys \X Draws
  OBVIOUS
<1> QED  BY <1>2 DEF AnyWant

\* What a page asks for is an image at a draw size.
LEMMA KeyOfType ==
  ASSUME PageTypes, NEW p \in Pages
  PROVE  KeyOf(p) \in Keys /\ DrawOf(p) \in Draws /\ want[p] \in Keys \X Draws
BY DEF PageTypes, KeyOf, DrawOf

\* A page goes to a label.
LEMMA GotoType ==
  ASSUME PageTypes, NEW p \in Pages,
         NEW l \in {"idle", "lookup", "decode", "resolve", "make", "take", "settle"}
                   \cup LocalResults,
         Goto(p, l)
  PROVE  pc' \in [Pages -> {"idle", "lookup", "decode", "resolve", "make", "take", "settle"}
                               \cup LocalResults]
BY DEF PageTypes, Goto

\* A memo gains an entry.
LEMMA KeepType ==
  ASSUME PageTypes, NEW p \in Pages, NEW draw \in Draws \cup {NoDraw}, NEW charge \in Nat,
         Keep(p, draw, charge)
  PROVE  memo' \in [Pages -> [Keys -> [held : BOOLEAN, made : Draws \cup {NoDraw}, charge : Nat]]]
<1> DEFINE Entry == [held : BOOLEAN, made : Draws \cup {NoDraw}, charge : Nat]
           e == IF Fits(p, charge) THEN [held |-> TRUE, made |-> draw, charge |-> charge]
                                   ELSE NoEntry
<1>1. e \in Entry
  BY DEF NoEntry
<1>2. memo' = [memo EXCEPT ![p][KeyOf(p)] = e]
  BY DEF Keep
<1>3. KeyOf(p) \in Keys /\ memo \in [Pages -> [Keys -> Entry]]
  BY KeyOfType DEF PageTypes
<1> HIDE DEF e, Entry
<1>4. memo' \in [Pages -> [Keys -> Entry]]
  BY <1>1, <1>2, <1>3
<1> QED  BY <1>4 DEF Entry

\* An offer is withdrawn with the memo entry it pointed to.
LEMMA WithdrawType ==
  ASSUME StoreTypes, NEW p \in Pages, NEW K, Withdraw(p, K)
  PROVE  offered' \in [Keys -> Draws \cup {NoDraw}]
BY DEF StoreTypes, Withdraw

\* A memo remembers a failed decode.
LEMMA RememberFailureType ==
  ASSUME PageTypes, NEW p \in Pages, RememberFailure(p)
  PROVE  failures' \in [Pages -> SUBSET (Keys \X Draws)]
BY KeyOfType DEF PageTypes, RememberFailure

\* A page's own decode goes to its memo, or its failure does.
LEMMA TakeDecodeType ==
  ASSUME StoreTypes, PageTypes, NEW p \in Pages, NEW result, NEW share, TakeDecode(p, result, share)
  PROVE  /\ offered' \in [Keys -> Draws \cup {NoDraw}]
         /\ memo' \in [Pages -> [Keys -> [held : BOOLEAN, made : Draws \cup {NoDraw}, charge : Nat]]]
         /\ failures' \in [Pages -> SUBSET (Keys \X Draws)]
<1> DEFINE k == KeyOf(p)
           charge == DecodeCharge(k, result)
<1>1. k \in Keys /\ DrawOf(p) \in Draws
  BY KeyOfType
<1>2. charge \in Nat
  BY <1>1, SizeType DEF DecodeCharge
<1>3. CASE /\ Keep(p, DrawOf(p), charge)
           /\ IF share /\ result = "host" /\ Fits(p, charge) /\ slot[k] = "seen" /\ first[k] = p
                 THEN offered' = [offered EXCEPT ![k] = DrawOf(p)]
                 ELSE Withdraw(p, {k})
           /\ UNCHANGED failures
  <2>1. offered' \in [Keys -> Draws \cup {NoDraw}]
    BY <1>1, <1>3, WithdrawType DEF StoreTypes
  <2> QED  BY <2>1, <1>1, <1>2, <1>3, KeepType DEF PageTypes
<1>4. CASE RememberFailure(p) /\ UNCHANGED <<memo, offered>>
  BY <1>4, RememberFailureType DEF StoreTypes, PageTypes
<1>5. CASE UNCHANGED <<memo, offered, failures>>
  BY <1>5 DEF StoreTypes, PageTypes
<1> QED  BY <1>3, <1>4, <1>5 DEF TakeDecode

\* So does the store's outcome, unless it does not serve and the page decodes for itself.
LEMMA TakeOutcomeType ==
  ASSUME StoreTypes, PageTypes, NEW p \in Pages, NEW kept, TakeOutcome(p, kept)
  PROVE  /\ offered' \in [Keys -> Draws \cup {NoDraw}]
         /\ memo' \in [Pages -> [Keys -> [held : BOOLEAN, made : Draws \cup {NoDraw}, charge : Nat]]]
         /\ failures' \in [Pages -> SUBSET (Keys \X Draws)]
         /\ pc' = [pc EXCEPT ![p] = "idle"] \/ pc' = [pc EXCEPT ![p] = "decode"]
<1> DEFINE k == KeyOf(p)
           charge == SharedCharge(k, kept)
<1>1. k \in Keys /\ DrawOf(p) \in Draws
  BY KeyOfType
<1>2. charge \in Nat
  BY <1>1, SizeType DEF SharedCharge
<1>3. CASE /\ Keep(p, DrawOf(p), charge) /\ Withdraw(p, {k})
           /\ Goto(p, "idle") /\ UNCHANGED failures
  BY <1>1, <1>2, <1>3, KeepType, WithdrawType DEF PageTypes, Goto
<1>4. CASE RememberFailure(p) /\ Goto(p, "idle") /\ UNCHANGED <<memo, offered>>
  BY <1>4, RememberFailureType DEF StoreTypes, PageTypes, Goto
<1>5. CASE (Goto(p, "idle") \/ Goto(p, "decode")) /\ UNCHANGED <<memo, offered, failures>>
  BY <1>5 DEF StoreTypes, PageTypes, Goto
<1> QED  BY <1>3, <1>4, <1>5 DEF TakeOutcome

\* A page that panics loses its memo and returns to idle.
LEMMA DropPageType ==
  ASSUME StoreTypes, PageTypes, NEW p \in Pages, DropPage(p)
  PROVE  /\ offered' \in [Keys -> Draws \cup {NoDraw}]
         /\ memo' \in [Pages -> [Keys -> [held : BOOLEAN, made : Draws \cup {NoDraw}, charge : Nat]]]
         /\ failures' \in [Pages -> SUBSET (Keys \X Draws)]
         /\ pc' = [pc EXCEPT ![p] = "idle"]
<1>1. NoEntry \in [held : BOOLEAN, made : Draws \cup {NoDraw}, charge : Nat]
  BY DEF NoEntry
<1> QED  BY <1>1, WithdrawType DEF PageTypes, DropPage, Goto

\* What a settled outcome weighs is a number.
LEMMA SettledType ==
  ASSUME StoreTypes, NEW k \in Keys
  PROVE  OutcomeSize(k) \in Nat /\ BytesSettled(k) \in Nat
BY SizeType DEF StoreTypes, OutcomeSize, BytesSettled

\* The store and memos begin empty.
LEMMA InitTypes == Init => TypeOK
<1>1. NoEntry \in [held : BOOLEAN, made : Draws \cup {NoDraw}, charge : Nat]
  BY DEF NoEntry
<1> QED  BY <1>1, AnyWantType, BudgetsType DEF Init, TypeOK, StoreTypes, PageTypes

\* Every step of a page inside the Do operator keeps the types, action by action.
LEMMA WorkTypes ==
  ASSUME StoreTypes, PageTypes, NEW p \in Pages, Work(p)
  PROVE  StoreTypes' /\ PageTypes'
<1>0. KeyOf(p) \in Keys /\ DrawOf(p) \in Draws
  BY KeyOfType
<1>1. CASE Lookup(p)
  <2>1. PageTypes'
    BY <1>1, GotoType DEF Lookup, AdoptOffer, PageTypes
  <2>2. StoreTypes'
    BY <1>0, <1>1, SizeType DEF Lookup, AdoptOffer, StoreTypes, store, cells
  <2> QED  BY <2>1, <2>2
<1>2. CASE DecodeOnPage(p)
  <2>1. PICK result : TakeDecode(p, result, result # "curtailed")
    BY <1>2 DEF DecodeOnPage
  <2> QED  BY <1>2, <2>1, TakeDecodeType, GotoType DEF DecodeOnPage, StoreTypes, PageTypes, cells
<1>3. CASE Resolve(p)
  BY <1>3, GotoType DEF Resolve, StoreTypes, PageTypes, store
<1>4. CASE Make(p)
  <2>1. PICK result \in Results :
           cell' = [cell EXCEPT ![KeyOf(p)] = OutcomeOf(result)] /\ Goto(p, MakeLabel(result))
    BY <1>4 DEF Make
  <2>2. OutcomeOf(result) \in {"image", "local", "failed", "absent"}
    BY ResultsType DEF OutcomeOf, DecodeResults
  <2>3. MakeLabel(result) \in {"settle"} \cup LocalResults
    BY DEF MakeLabel
  <2>4. PageTypes'
    BY <1>4, <2>1, <2>3, GotoType DEF Make, PageTypes
  <2> QED  BY <1>0, <1>4, <2>1, <2>2, <2>4 DEF Make, StoreTypes, store
<1>5. CASE Take(p)
  BY <1>5, TakeOutcomeType DEF Take, StoreTypes, PageTypes, cells
<1>6. CASE Settle(p)
  BY <1>0, <1>6, TakeOutcomeType, SettledType DEF Settle, StoreTypes, PageTypes, cells
<1>7. CASE SettleLocal(p)
  BY <1>0, <1>7, TakeDecodeType, GotoType DEF SettleLocal, StoreTypes, PageTypes, cells
<1> QED  BY <1>1, <1>2, <1>3, <1>4, <1>5, <1>6, <1>7 DEF Work

\* So does every other step.
LEMMA NextTypes == TypeOK /\ [Next]_vars => TypeOK'
<1> SUFFICES ASSUME StoreTypes, PageTypes, [Next]_vars  PROVE StoreTypes' /\ PageTypes'
  BY DEF TypeOK
<1>1. CASE UNCHANGED vars
  BY <1>1 DEF StoreTypes, PageTypes, vars, store, cells, pages
<1>2. ASSUME NEW p \in Pages, NEW k \in Keys, NEW d \in Draws, Draw(p, k, d)
      PROVE  StoreTypes' /\ PageTypes'
  BY <1>2, GotoType DEF Draw, StoreTypes, PageTypes, store, cells
<1>3. ASSUME NEW p \in Pages, Work(p)  PROVE StoreTypes' /\ PageTypes'
  BY <1>3, WorkTypes
<1>4. ASSUME NEW p \in Pages, EndPage(p)  PROVE StoreTypes' /\ PageTypes'
  BY <1>4, DropPageType DEF EndPage, DropPage, StoreTypes, PageTypes
<1>5. ASSUME NEW p \in Pages, Panic(p)  PROVE StoreTypes' /\ PageTypes'
  <2>1. panics' \in 0..MaxPanics
    BY <1>5, BudgetsType DEF Panic, PageTypes
  <2>2. cell' \in [Keys -> {"empty", "making", "image", "failed", "absent", "local"}]
    BY <1>5 DEF Panic, StoreTypes
  <2> QED  BY <1>5, <2>1, <2>2, DropPageType DEF Panic, DropPage, StoreTypes, PageTypes
<1> QED  BY <1>1, <1>2, <1>3, <1>4, <1>5 DEF Next

-----------------------------------------------------------------------------
(* The store's account of the decodes it keeps.                            *)

\* The pages that made the decode in their image's cell and have not settled it.
Makers == { p \in Pages : pc[p] \in {"make", "settle"} \cup LocalResults }

\* What a page on its way through the cell knows of it.
CellOfPage ==
  \A p \in Pages :
     /\ pc[p] = "make" => cell[KeyOf(p)] = "making"
     /\ pc[p] = "settle" => cell[KeyOf(p)] \in {"image", "failed", "absent"}
     /\ pc[p] \in LocalResults => cell[KeyOf(p)] = "local"
     /\ pc[p] = "take" => cell[KeyOf(p)] \notin {"empty", "making"}

\* ... and of its image's slot: until its maker settles, it is shared.
SlotOfPage ==
  \A p \in Pages :
     /\ p \in Makers => slot[KeyOf(p)] = "shared"
     /\ pc[p] = "resolve" => \/ slot[KeyOf(p)] = "shared"
                             \/ slot[KeyOf(p)] = "refused" /\ cell[KeyOf(p)] # "empty"
     /\ pc[p] = "take" => slot[KeyOf(p)] \in {"shared", "refused"}

\* A slot that was never shared has no cell, and no slot is shared in a store turned off.
Unshared ==
  \A k \in Keys :
     /\ slot[k] \in {"none", "seen"} => cell[k] = "empty"
     /\ Budget = 0 => slot[k] = "none"

\* Which slots, cells and places in the code go together.
Protocol == CellOfPage /\ SlotOfPage /\ Unshared /\ OneMaker

\* If no page becomes a maker, a cell that had one maker has at most one.
LEMMA FewerMakers ==
  ASSUME OneMaker, Makers' \subseteq Makers, UNCHANGED want
  PROVE  OneMaker'
<1>1. \A p, q \in Makers : KeyOf(p) = KeyOf(q) => p = q
  BY DEF OneMaker, Makers
<1>2. \A p, q \in Makers' : KeyOf(p)' = KeyOf(q)' => p = q
  BY <1>1 DEF KeyOf
<1> QED  BY <1>2 DEF OneMaker, Makers

\* No page is in a cell.
LEMMA InitProtocol == Init => Protocol
BY DEF Init, Protocol, CellOfPage, SlotOfPage, Unshared, OneMaker, Makers

\* What a step of page p does to the slots, cells and byte count.
Adopts(p) ==
  LET k == KeyOf(p) IN
  /\ pc[p] = "lookup" /\ slot[k] = "seen" /\ Size[k] <= Budget - bytes /\ Budget # 0
  /\ slot' = [slot EXCEPT ![k] = "shared"] /\ cell' = [cell EXCEPT ![k] = "image"]
  /\ bytes' = bytes + Size[k] /\ pc' = [pc EXCEPT ![p] = "resolve"]

Looks(p) ==
  LET k == KeyOf(p) IN
  /\ pc[p] = "lookup" /\ UNCHANGED <<cell, bytes>>
  /\ \/ /\ Budget = 0 \/ slot[k] \in {"refused", "seen"}
        /\ pc' = [pc EXCEPT ![p] = "decode"] /\ UNCHANGED slot
     \/ /\ Budget # 0 /\ slot[k] = "none"
        /\ pc' = [pc EXCEPT ![p] = "decode"] /\ slot' = [slot EXCEPT ![k] = "seen"]
     \/ /\ Budget # 0 /\ slot[k] = "seen"
        /\ pc' = [pc EXCEPT ![p] = "decode"] /\ slot' = [slot EXCEPT ![k] = "refused"]
     \/ /\ Budget # 0 /\ slot[k] = "seen"
        /\ pc' = [pc EXCEPT ![p] = "resolve"] /\ slot' = [slot EXCEPT ![k] = "shared"]
     \/ slot[k] = "shared" /\ pc' = [pc EXCEPT ![p] = "resolve"] /\ UNCHANGED slot

\* A lookup either adopts another page's decode into a cell that is set, or only looks.
LEMMA LookupEffect ==
  ASSUME NEW p \in Pages, Lookup(p)
  PROVE  (Adopts(p) \/ Looks(p)) /\ UNCHANGED want
BY DEF Lookup, AdoptOffer, Goto, Adopts, Looks, store, cells

\* An adoption shares a slot that had no cell, so that no page is inside it.
LEMMA AdoptsKeeps ==
  ASSUME TypeOK, Protocol, NEW p \in Pages, Adopts(p), UNCHANGED want
  PROVE  Protocol'
<1> USE DEF TypeOK, StoreTypes, PageTypes, Protocol, KeyOf, Adopts
<1>1. KeyOf(p) \in Keys
  BY KeyOfType
<1>2. CellOfPage'
  BY <1>1 DEF CellOfPage, SlotOfPage, Makers
<1>3. SlotOfPage'
  BY <1>1 DEF SlotOfPage, Makers
<1>4. Unshared'
  BY <1>1 DEF Unshared
<1>5. OneMaker'
  BY DEF OneMaker
<1> QED  BY <1>2, <1>3, <1>4, <1>5

\* The other lookups leave the cells and share no slot that was refused.
LEMMA LooksKeeps ==
  ASSUME TypeOK, Protocol, NEW p \in Pages, Looks(p), UNCHANGED want
  PROVE  Protocol'
<1> USE DEF TypeOK, StoreTypes, PageTypes, Protocol, KeyOf, Looks
<1>1. KeyOf(p) \in Keys
  BY KeyOfType
<1>2. CellOfPage'
  BY <1>1 DEF CellOfPage
<1>3. SlotOfPage'
  BY <1>1 DEF SlotOfPage, Makers
<1>4. Unshared'
  BY <1>1 DEF Unshared
<1>5. OneMaker'
  <2>1. Makers' \subseteq Makers
    BY DEF Makers
  <2> QED  BY <2>1, FewerMakers
<1> QED  BY <1>2, <1>3, <1>4, <1>5

\* A page becomes the maker of a cell that was empty, thus of one without a maker.
LEMMA ResolveKeeps ==
  ASSUME TypeOK, Protocol, NEW p \in Pages, Resolve(p)
  PROVE  Protocol'
<1> USE DEF TypeOK, StoreTypes, PageTypes, Protocol, KeyOf, Resolve, Goto, store
<1>1. KeyOf(p) \in Keys
  BY KeyOfType
<1>2. CellOfPage'
  BY <1>1 DEF CellOfPage
<1>3. SlotOfPage'
  BY <1>1 DEF SlotOfPage, Makers
<1>4. Unshared'
  BY <1>1 DEF Unshared, SlotOfPage
<1>5. \A q \in Makers : cell[KeyOf(q)] # "empty"
  BY DEF CellOfPage, Makers
<1>6. OneMaker'
  <2>1. CASE cell[KeyOf(p)] = "empty" /\ pc' = [pc EXCEPT ![p] = "make"]
    BY <1>1, <1>5, <2>1 DEF OneMaker, Makers
  <2>2. CASE pc' = [pc EXCEPT ![p] = "take"]
    BY <2>2 DEF OneMaker
  <2> QED  BY <2>1, <2>2
<1> QED  BY <1>2, <1>3, <1>4, <1>6

\* The maker sets the cell and has it to settle.
LEMMA MakeKeeps ==
  ASSUME TypeOK, Protocol, NEW p \in Pages, Make(p)
  PROVE  Protocol'
<1> USE DEF TypeOK, StoreTypes, PageTypes, Protocol, KeyOf
<1>1. KeyOf(p) \in Keys /\ cell[KeyOf(p)] = "making" /\ slot[KeyOf(p)] = "shared" /\ pc[p] = "make"
  BY KeyOfType DEF CellOfPage, SlotOfPage, Makers, Make
<1>2. PICK result \in Results :
         cell' = [cell EXCEPT ![KeyOf(p)] = OutcomeOf(result)]
         /\ pc' = [pc EXCEPT ![p] = MakeLabel(result)]
  BY DEF Make, Goto
<1>3. /\ MakeLabel(result) \in {"settle"} \cup LocalResults
      /\ OutcomeOf(result) \in {"image", "failed", "absent", "local"}
      /\ MakeLabel(result) = "settle" => OutcomeOf(result) # "local"
      /\ MakeLabel(result) # "settle" => OutcomeOf(result) = "local"
  BY ResultsType DEF OutcomeOf, MakeLabel, DecodeResults
<1>4. UNCHANGED <<slot, want>>
  BY DEF Make, store
<1>5. CellOfPage'
  <2>1. \A q \in Pages : q # p /\ pc[q] \in {"make", "settle", "take"} \cup LocalResults
                         => KeyOf(q) # KeyOf(p)
    BY <1>1 DEF OneMaker, CellOfPage
  <2> QED  BY <1>1, <1>2, <1>3, <1>4, <2>1 DEF CellOfPage
<1>6. SlotOfPage'
  BY <1>1, <1>2, <1>3, <1>4 DEF SlotOfPage, Makers
<1>7. Unshared'
  BY <1>1, <1>2, <1>4 DEF Unshared
<1>8. OneMaker'
  BY <1>1, <1>2, <1>3, <1>4 DEF OneMaker
<1> QED  BY <1>5, <1>6, <1>7, <1>8

\* A page leaves the cell or the lookup behind, and the store and cells are as before.
LEMMA LeavingKeeps ==
  ASSUME TypeOK, Protocol, NEW p \in Pages,
         pc' \in {[pc EXCEPT ![p] = "idle"], [pc EXCEPT ![p] = "decode"], pc},
         UNCHANGED <<slot, cell, want>>
  PROVE  Protocol'
<1> USE DEF TypeOK, StoreTypes, PageTypes, Protocol, KeyOf
<1>1. \A q \in Pages : pc'[q] = pc[q] \/ pc'[q] \in {"idle", "decode"}
  OBVIOUS
<1>2. CellOfPage'
  BY <1>1 DEF CellOfPage
<1>3. SlotOfPage'
  BY <1>1 DEF SlotOfPage, Makers
<1>4. Unshared'
  BY DEF Unshared
<1>5. OneMaker'
  <2>1. Makers' \subseteq Makers
    BY <1>1 DEF Makers
  <2> QED  BY <2>1, FewerMakers
<1> QED  BY <1>2, <1>3, <1>4, <1>5

\* The maker settles: it leaves, and the slot stays shared or is refused.
LEMMA SettlingKeeps ==
  ASSUME TypeOK, Protocol, NEW p \in Pages, pc[p] \in {"settle"} \cup LocalResults,
         pc' \in {[pc EXCEPT ![p] = "idle"], [pc EXCEPT ![p] = "decode"]},
         slot' \in {slot, [slot EXCEPT ![KeyOf(p)] = "refused"]},
         UNCHANGED <<cell, want>>
  PROVE  Protocol'
<1> USE DEF TypeOK, StoreTypes, PageTypes, Protocol, KeyOf
<1>1. /\ \A q \in Pages : pc'[q] = pc[q] \/ pc'[q] \in {"idle", "decode"}
      /\ p \notin Makers' /\ Makers' \subseteq Makers
  BY DEF Makers
<1>2. CellOfPage'
  BY <1>1 DEF CellOfPage
<1>3. KeyOf(p) \in Keys /\ slot[KeyOf(p)] = "shared" /\ cell[KeyOf(p)] # "empty"
  BY KeyOfType DEF SlotOfPage, CellOfPage, Makers
<1>4. \A q \in Makers' : KeyOf(q) # KeyOf(p)
  BY <1>1 DEF OneMaker, Makers
<1>5. SlotOfPage'
  BY <1>1, <1>3, <1>4 DEF SlotOfPage
<1>6. Unshared'
  BY <1>3 DEF Unshared
<1>7. OneMaker'
  BY <1>1, FewerMakers
<1> QED  BY <1>2, <1>5, <1>6, <1>7

\* The maker panics: the cell is empty again, for a slot that is still shared.
LEMMA PanicInCellKeeps ==
  ASSUME TypeOK, Protocol, NEW p \in Pages, Panic(p), pc[p] = "make"
  PROVE  Protocol'
<1> USE DEF TypeOK, StoreTypes, PageTypes, Protocol, KeyOf
<1>1. /\ pc' = [pc EXCEPT ![p] = "idle"]
      /\ cell' = [cell EXCEPT ![KeyOf(p)] = "empty"]
      /\ UNCHANGED <<slot, want>>
  BY DEF Panic, DropPage, Goto
<1>2. KeyOf(p) \in Keys /\ cell[KeyOf(p)] = "making" /\ slot[KeyOf(p)] = "shared"
  BY KeyOfType DEF CellOfPage, SlotOfPage, Makers
<1>3. CellOfPage'
  <2>1. \A q \in Pages : q # p /\ pc[q] \in {"make", "settle", "take"} \cup LocalResults
                         => KeyOf(q) # KeyOf(p)
    BY <1>2 DEF OneMaker, CellOfPage
  <2> QED  BY <1>1, <1>2, <2>1 DEF CellOfPage
<1>4. SlotOfPage'
  BY <1>1, <1>2 DEF SlotOfPage, Makers
<1>5. Unshared'
  BY <1>1, <1>2 DEF Unshared
<1>6. OneMaker'
  BY <1>1 DEF OneMaker
<1> QED  BY <1>3, <1>4, <1>5, <1>6

\* The protocol of slots, cells and makers is preserved by every step.
LEMMA NextProtocol == TypeOK /\ Protocol /\ [Next]_vars => Protocol'
<1> SUFFICES ASSUME TypeOK, Protocol, [Next]_vars  PROVE Protocol'
  OBVIOUS
<1>1. CASE UNCHANGED vars
  BY <1>1 DEF vars, store, cells, pages, Protocol, CellOfPage, SlotOfPage, Unshared, OneMaker,
              Makers, KeyOf
<1>2. ASSUME NEW p \in Pages, NEW k \in Keys, NEW d \in Draws, Draw(p, k, d)
      PROVE  Protocol'
  <2>1. \A q \in Pages : (pc'[q] = pc[q] /\ want'[q] = want[q]) \/ pc'[q] = "lookup"
    BY <1>2 DEF Draw, Goto, TypeOK, PageTypes
  <2>2. UNCHANGED <<slot, cell>>
    BY <1>2 DEF Draw, store, cells
  <2> QED  BY <2>1, <2>2 DEF Protocol, CellOfPage, SlotOfPage, Unshared, OneMaker, Makers, KeyOf
<1>3. ASSUME NEW p \in Pages, Work(p)  PROVE Protocol'
  <2>1. CASE Lookup(p)
    BY <2>1, LookupEffect, AdoptsKeeps, LooksKeeps
  <2>2. CASE DecodeOnPage(p)
    BY <2>2, LeavingKeeps DEF DecodeOnPage, Goto, cells
  <2>3. CASE Resolve(p)
    BY <2>3, ResolveKeeps
  <2>4. CASE Make(p)
    BY <2>4, MakeKeeps
  <2>5. CASE Take(p)
    BY <2>5, TakeOutcomeType, LeavingKeeps DEF Take, cells, TypeOK
  <2>6. CASE Settle(p)
    BY <2>6, TakeOutcomeType, SettlingKeeps DEF Settle, cells, TypeOK
  <2>7. CASE SettleLocal(p)
    BY <2>7, SettlingKeeps DEF SettleLocal, Goto, cells
  <2> QED  BY <1>3, <2>1, <2>2, <2>3, <2>4, <2>5, <2>6, <2>7 DEF Work
<1>4. ASSUME NEW p \in Pages, EndPage(p)  PROVE Protocol'
  BY <1>4, LeavingKeeps DEF EndPage, DropPage, Goto
<1>5. ASSUME NEW p \in Pages, Panic(p)  PROVE Protocol'
  <2>1. CASE pc[p] = "decode"
    BY <1>5, <2>1, LeavingKeeps DEF Panic, DropPage, Goto
  <2>2. CASE pc[p] = "make"
    BY <1>5, <2>2, PanicInCellKeeps DEF Panic
  <2> QED  BY <1>5, <2>1, <2>2 DEF Panic
<1> QED  BY <1>1, <1>2, <1>3, <1>4, <1>5 DEF Next

-----------------------------------------------------------------------------
(* The byte count.                                                         *)

\* What the byte count promises.
Accounting == BytesMatchKept /\ BudgetRespected

\* The kept decodes are finitely many and have sizes.
LEMMA KeptType ==
  IsFiniteSet(KeptKeys) /\ KeptKeys \subseteq Keys /\ \A k \in Keys : Size[k] \in Nat
<1>1. KeptKeys \subseteq Keys
  BY DEF KeptKeys
<1> QED  BY <1>1, KeysFinite, SizeType, FS_Subset

\* One more decode is kept, and counted.
LEMMA KeepingCounts ==
  ASSUME TypeOK, Accounting, NEW k \in Keys, k \notin KeptKeys, KeptKeys' = KeptKeys \cup {k},
         bytes' = bytes + Size[k], Size[k] <= Budget - bytes
  PROVE  Accounting'
<1>1. Total(KeptKeys \cup {k}, Size) = Total(KeptKeys, Size) + Size[k]
  BY KeptType, TotalAdd
<1>2. bytes' <= Budget
  BY KeptType, BudgetsType DEF TypeOK, StoreTypes
<1> QED  BY <1>1, <1>2 DEF Accounting, BytesMatchKept, BudgetRespected

\* None is.
LEMMA SameCount ==
  ASSUME Accounting, KeptKeys' = KeptKeys, bytes' = bytes
  PROVE  Accounting'
BY DEF Accounting, BytesMatchKept, BudgetRespected

\* Nothing is kept.
LEMMA InitAccounting == Init => Accounting
<1> SUFFICES ASSUME Init  PROVE Accounting
  OBVIOUS
<1>1. KeptKeys = {}
  BY DEF Init, KeptKeys
<1> QED  BY <1>1, TotalEmpty, BudgetsType DEF Init, Accounting, BytesMatchKept, BudgetRespected

\* A step that leaves the cells and slots, and settles nothing.
LEMMA SettlesNothing ==
  ASSUME TypeOK, NEW p \in Pages, NEW l \in {"idle", "decode", "lookup", "take", "make"},
         pc[p] # "settle", pc' = [pc EXCEPT ![p] = l],
         \A q \in Pages : q # p => want'[q] = want[q],
         UNCHANGED <<slot, cell>>
  PROVE  KeptKeys' = KeptKeys
<1>1. \A k \in Keys : Settling(k)' <=> Settling(k)
  BY DEF Settling, KeyOf, TypeOK, PageTypes
<1> QED  BY <1>1 DEF KeptKeys

\* An adoption adds one decode to those kept, and its bytes if there is room for them.
LEMMA LookupAccounts ==
  ASSUME TypeOK, Protocol, Accounting, NEW p \in Pages, Lookup(p)
  PROVE  Accounting'
<1>1. KeyOf(p) \in Keys
  BY KeyOfType DEF TypeOK
<1>2. UNCHANGED want
  BY LookupEffect
<1>3. CASE Adopts(p)
  <2>1. \A k \in Keys : Settling(k)' <=> Settling(k)
    BY <1>2, <1>3 DEF Adopts, Settling, KeyOf, TypeOK, PageTypes
  <2>2. ~Settling(KeyOf(p))
    BY <1>3 DEF Adopts, Settling, Protocol, SlotOfPage, Makers
  <2>3. KeyOf(p) \notin KeptKeys /\ KeptKeys' = KeptKeys \cup {KeyOf(p)}
    BY <1>1, <1>3, <2>1, <2>2 DEF Adopts, KeptKeys, TypeOK, StoreTypes
  <2> QED  BY <1>1, <1>3, <2>3, KeepingCounts DEF Adopts
<1>4. CASE Looks(p)
  <2>1. \A k \in Keys : Settling(k)' <=> Settling(k)
    BY <1>2, <1>4 DEF Looks, Settling, KeyOf, TypeOK, PageTypes
  <2>2. slot[KeyOf(p)] \in {"none", "seen"} => cell[KeyOf(p)] = "empty"
    BY <1>1 DEF Protocol, Unshared
  <2>3. KeptKeys' = KeptKeys
    BY <1>1, <1>4, <2>1, <2>2 DEF Looks, KeptKeys, TypeOK, StoreTypes
  <2> QED  BY <1>4, <2>3, SameCount DEF Looks
<1> QED  BY <1>3, <1>4, LookupEffect

\* Entering a cell keeps nothing.
LEMMA ResolveAccounts ==
  ASSUME TypeOK, Accounting, NEW p \in Pages, Resolve(p)
  PROVE  Accounting'
<1>1. \A k \in Keys : Settling(k)' <=> Settling(k)
  BY DEF Resolve, Goto, Settling, KeyOf, TypeOK, PageTypes
<1>2. KeptKeys' = KeptKeys
  BY <1>1, KeyOfType DEF Resolve, KeptKeys, TypeOK, StoreTypes, store
<1> QED  BY <1>2, SameCount DEF Resolve, store

\* The new outcome is being settled, or is the page's own.
LEMMA MakeAccounts ==
  ASSUME TypeOK, Protocol, Accounting, NEW p \in Pages, Make(p)
  PROVE  Accounting'
<1>1. KeyOf(p) \in Keys /\ cell[KeyOf(p)] = "making" /\ pc[p] = "make"
  BY KeyOfType DEF TypeOK, Protocol, CellOfPage, Make
<1>2. PICK result \in Results :
         cell' = [cell EXCEPT ![KeyOf(p)] = OutcomeOf(result)]
         /\ pc' = [pc EXCEPT ![p] = MakeLabel(result)]
  BY DEF Make, Goto
<1>3. UNCHANGED <<slot, bytes, want>>
  BY DEF Make, store
<1>4. MakeLabel(result) = "settle" \/ OutcomeOf(result) = "local"
  BY ResultsType DEF OutcomeOf, MakeLabel, DecodeResults
<1>5. \A k \in Keys : k # KeyOf(p) => (Settling(k)' <=> Settling(k))
  BY <1>1, <1>2, <1>3 DEF Settling, KeyOf, TypeOK, PageTypes
<1>6. \A k \in Keys : k = KeyOf(p) => Settling(k)' \/ cell'[k] # "image"
  BY <1>1, <1>2, <1>3, <1>4 DEF Settling, KeyOf, TypeOK, PageTypes, StoreTypes
<1>7. KeptKeys' = KeptKeys
  BY <1>1, <1>2, <1>3, <1>5, <1>6 DEF KeptKeys, TypeOK, StoreTypes
<1> QED  BY <1>3, <1>7, SameCount

\* The maker is the only page that settles its cell, so that a kept outcome is counted once.
LEMMA SettleAccounts ==
  ASSUME TypeOK, Protocol, Accounting, NEW p \in Pages, Settle(p)
  PROVE  Accounting'
<1> DEFINE k == KeyOf(p)
<1>1. /\ k \in Keys /\ pc[p] = "settle" /\ Settling(k)
      /\ slot[k] = "shared" /\ cell[k] \in {"image", "failed", "absent"}
  BY KeyOfType DEF TypeOK, Protocol, CellOfPage, SlotOfPage, Makers, Settle, Settling
<1>2. /\ pc' = [pc EXCEPT ![p] = "idle"] \/ pc' = [pc EXCEPT ![p] = "decode"]
      /\ UNCHANGED <<cell, want>>
  BY TakeOutcomeType DEF Settle, TypeOK, cells
<1>3. \A q \in Pages : q # p /\ pc[q] = "settle" => KeyOf(q) # k
  BY <1>1 DEF Protocol, OneMaker
<1>4. \A j \in Keys : Settling(j)' <=> Settling(j) /\ j # k
  BY <1>2, <1>3 DEF Settling, KeyOf, TypeOK, PageTypes
<1>5. k \notin KeptKeys
  BY <1>1 DEF KeptKeys
<1>6. Size[k] \in Nat /\ bytes \in Nat
  BY <1>1, SizeType DEF TypeOK, StoreTypes
<1>7. CASE Settles(k) /\ cell[k] = "image"
  <2>1. slot' = slot /\ bytes' = bytes + Size[k] /\ Size[k] <= Budget - bytes
    BY <1>7 DEF Settle, BytesSettled, Settles, OutcomeSize
  <2>2. KeptKeys' = KeptKeys \cup {k}
    BY <1>1, <1>2, <1>4, <1>7, <2>1 DEF KeptKeys, TypeOK, StoreTypes
  <2> QED  BY <1>1, <1>5, <2>1, <2>2, KeepingCounts
<1>8. CASE Settles(k) /\ cell[k] # "image"
  <2>1. slot' = slot /\ bytes' = bytes
    BY <1>6, <1>8 DEF Settle, BytesSettled, OutcomeSize
  <2>2. KeptKeys' = KeptKeys
    BY <1>1, <1>2, <1>4, <1>8, <2>1 DEF KeptKeys, TypeOK, StoreTypes
  <2> QED  BY <2>1, <2>2, SameCount
<1>9. CASE ~Settles(k)
  <2>1. slot' = [slot EXCEPT ![k] = "refused"] /\ bytes' = bytes
    BY <1>9 DEF Settle, BytesSettled
  <2>2. KeptKeys' = KeptKeys
    BY <1>1, <1>2, <1>4, <1>5, <2>1 DEF KeptKeys, TypeOK, StoreTypes
  <2> QED  BY <2>1, <2>2, SameCount
<1> QED  BY <1>7, <1>8, <1>9

\* An outcome of its page alone is not kept.
LEMMA SettleLocalAccounts ==
  ASSUME TypeOK, Protocol, Accounting, NEW p \in Pages, SettleLocal(p)
  PROVE  Accounting'
<1>1. KeyOf(p) \in Keys /\ cell[KeyOf(p)] = "local"
  BY KeyOfType DEF TypeOK, Protocol, CellOfPage, SettleLocal
<1>2. /\ slot' = [slot EXCEPT ![KeyOf(p)] = "refused"] /\ UNCHANGED <<bytes, cell, want>>
      /\ pc[p] # "settle" /\ pc' = [pc EXCEPT ![p] = "idle"]
  BY DEF SettleLocal, Goto, cells
<1>3. \A k \in Keys : Settling(k)' <=> Settling(k)
  BY <1>2 DEF Settling, KeyOf, TypeOK, PageTypes
<1>4. KeptKeys' = KeptKeys
  BY <1>1, <1>2, <1>3 DEF KeptKeys, TypeOK, StoreTypes
<1> QED  BY <1>2, <1>4, SameCount

\* A panic leaves an empty cell, which keeps nothing.
LEMMA PanicAccounts ==
  ASSUME TypeOK, Protocol, Accounting, NEW p \in Pages, Panic(p)
  PROVE  Accounting'
<1>1. /\ pc[p] \in {"decode", "make"} /\ pc' = [pc EXCEPT ![p] = "idle"]
      /\ UNCHANGED <<slot, bytes, want>>
      /\ \/ UNCHANGED cell
         \/ pc[p] = "make" /\ cell' = [cell EXCEPT ![KeyOf(p)] = "empty"]
  BY DEF Panic, DropPage, Goto
<1>2. KeyOf(p) \in Keys /\ (pc[p] = "make" => cell[KeyOf(p)] = "making")
  BY KeyOfType DEF TypeOK, Protocol, CellOfPage
<1>3. \A k \in Keys : Settling(k)' <=> Settling(k)
  BY <1>1 DEF Settling, KeyOf, TypeOK, PageTypes
<1>4. KeptKeys' = KeptKeys
  BY <1>1, <1>2, <1>3 DEF KeptKeys, TypeOK, StoreTypes
<1> QED  BY <1>1, <1>4, SameCount

\* The accounting is preserved by every step.
LEMMA NextAccounts == TypeOK /\ Protocol /\ Accounting /\ [Next]_vars => Accounting'
<1> SUFFICES ASSUME TypeOK, Protocol, Accounting, [Next]_vars  PROVE Accounting'
  OBVIOUS
<1>1. CASE UNCHANGED vars
  BY <1>1 DEF vars, store, cells, pages, Accounting, BytesMatchKept, BudgetRespected, KeptKeys,
              Settling, KeyOf
<1>2. ASSUME NEW p \in Pages, NEW k \in Keys, NEW d \in Draws, Draw(p, k, d)
      PROVE  Accounting'
  <2>1. /\ pc[p] # "settle" /\ pc' = [pc EXCEPT ![p] = "lookup"] /\ UNCHANGED <<slot, cell, bytes>>
        /\ \A q \in Pages : q # p => want'[q] = want[q]
    BY <1>2 DEF Draw, Goto, store, cells, TypeOK, PageTypes
  <2> QED  BY <2>1, SettlesNothing, SameCount
<1>3. ASSUME NEW p \in Pages, Work(p)  PROVE Accounting'
  <2>1. CASE DecodeOnPage(p)
    BY <2>1, SettlesNothing, SameCount DEF DecodeOnPage, Goto, cells
  <2>2. CASE Take(p)
    BY <2>2, TakeOutcomeType, SettlesNothing, SameCount DEF Take, cells, TypeOK
  <2> QED  BY <1>3, <2>1, <2>2, LookupAccounts, ResolveAccounts, MakeAccounts, SettleAccounts,
              SettleLocalAccounts DEF Work
<1>4. ASSUME NEW p \in Pages, EndPage(p)  PROVE Accounting'
  BY <1>4, SettlesNothing, SameCount DEF EndPage, DropPage, Goto
<1>5. ASSUME NEW p \in Pages, Panic(p)  PROVE Accounting'
  BY <1>5, PanicAccounts
<1> QED  BY <1>1, <1>2, <1>3, <1>4, <1>5 DEF Next

-----------------------------------------------------------------------------
(* The inductive invariant and what follows from it.                       *)

\* The inductive invariant.
IInv == TypeOK /\ Protocol /\ Accounting

\* The inductive invariant holds in every reachable state.
THEOREM Invariance == Spec => []IInv
<1>1. Init => IInv
  BY InitTypes, InitProtocol, InitAccounting DEF IInv
<1>2. IInv /\ [Next]_vars => IInv'
  BY NextTypes, NextProtocol, NextAccounts DEF IInv
<1> QED  BY <1>1, <1>2, PTL DEF Spec

\* The variables keep their types, for any number of pages, images and any budgets.
THEOREM TypeCorrect == Spec => []TypeOK
<1>1. IInv => TypeOK
  BY DEF IInv
<1> QED  BY <1>1, Invariance, PTL

\* For any number of pages and images: State::bytes is the bytes of the decodes kept.
THEOREM BytesMatchKeptHolds == Spec => []BytesMatchKept
<1>1. IInv => BytesMatchKept
  BY DEF IInv, Accounting
<1> QED  BY <1>1, Invariance, PTL

\* For any budget and sizes: the decodes kept fit the budget, whichever pages settle first.
THEOREM BudgetRespectedHolds == Spec => []BudgetRespected
<1>1. IInv => BudgetRespected
  BY DEF IInv, Accounting
<1> QED  BY <1>1, Invariance, PTL

\* For any number of pages: a cell has one maker, also after makers panicked.
THEOREM OneMakerHolds == Spec => []OneMaker
<1>1. IInv => OneMaker
  BY DEF IInv, Protocol
<1> QED  BY <1>1, Invariance, PTL

\* Page p starts to decode an image the store keeps and that serves its draw.
Redecodes(p) ==
  /\ pc'[p] \in {"decode", "make"} /\ pc[p] \notin {"decode", "make"}
  /\ KeyOf(p) \in KeptKeys /\ Serves(KeyOf(p), made[KeyOf(p)], DrawOf(p))

\* In one step: a page that begins a decode does so of an image the store does not keep,
\* or keeps in a form that does not serve the draw.
LEMMA NoRedecode ==
  ASSUME IInv, [Next]_vars, NEW p \in Pages
  PROVE  ~Redecodes(p)
<1> SUFFICES ASSUME Redecodes(p)  PROVE FALSE
  OBVIOUS
<1>1. /\ slot[KeyOf(p)] = "shared" /\ cell[KeyOf(p)] = "image" /\ ~Settling(KeyOf(p))
      /\ KeyOf(p) \in Keys
  BY DEF Redecodes, KeptKeys
<1>2. PICK q \in Pages :
         Work(q) \/ EndPage(q) \/ Panic(q) \/ \E k \in Keys, d \in Draws : Draw(q, k, d)
  BY DEF Redecodes, Next, vars, pages
<1>3. CASE Lookup(q)
  <2>1. Budget # 0
    BY <1>1 DEF IInv, Protocol, Unshared
  <2>2. Adopts(q) \/ Looks(q)
    BY <1>3, LookupEffect
  <2> QED  BY <1>1, <2>1, <2>2 DEF Redecodes, Adopts, Looks, IInv, TypeOK, PageTypes
<1>4. CASE Resolve(q)
  BY <1>1, <1>4 DEF Redecodes, Resolve, Goto, IInv, TypeOK, PageTypes
<1>5. CASE Take(q)
  BY <1>1, <1>5 DEF Redecodes, Take, TakeOutcome, Goto, IInv, TypeOK, PageTypes
<1>6. CASE Settle(q)
  <2>1. p # q
    BY <1>1, <1>6 DEF Settle, Settling
  <2>2. pc'[p] = pc[p]
    BY <1>6, <2>1, TakeOutcomeType DEF Settle, IInv, TypeOK, PageTypes
  <2> QED  BY <2>2 DEF Redecodes
<1>7. CASE DecodeOnPage(q) \/ SettleLocal(q) \/ EndPage(q) \/ Panic(q)
  BY <1>7 DEF Redecodes, DecodeOnPage, SettleLocal, EndPage, Panic, DropPage, Goto, IInv,
              TypeOK, PageTypes
<1>8. CASE Make(q)
  <2>1. PICK result \in Results : Goto(q, MakeLabel(result))
    BY <1>8 DEF Make
  <2> QED  BY <2>1 DEF Redecodes, MakeLabel, Goto, IInv, TypeOK, PageTypes
<1>9. CASE \E k \in Keys, d \in Draws : Draw(q, k, d)
  BY <1>9 DEF Redecodes, Draw, Goto, IInv, TypeOK, PageTypes
<1> QED  BY <1>2, <1>3, <1>4, <1>5, <1>6, <1>7, <1>8, <1>9 DEF Work

\* For any number of pages and draw sizes: no page decodes what the store's decode serves.
THEOREM KeptNeverRedecodedHolds == Spec => KeptNeverRedecoded
<1>1. IInv /\ [Next]_vars =>
        [\A p \in Pages :
            pc'[p] \in {"decode", "make"} /\ pc[p] \notin {"decode", "make"} =>
               ~(KeyOf(p) \in KeptKeys /\ Serves(KeyOf(p), made[KeyOf(p)], DrawOf(p)))]_vars
  BY NoRedecode DEF Redecodes
<1> QED  BY <1>1, Invariance, PTL DEF Spec, KeptNeverRedecoded
=============================================================================
