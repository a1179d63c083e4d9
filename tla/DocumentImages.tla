--------------------------- MODULE DocumentImages ---------------------------
(***************************************************************************)
(* The decoded image XObjects shared by the pages of one document          *)
(* (crates/pdf_interp/src/renderer/document_images.rs), used through each  *)
(* page's own memo (page/image_memo.rs) by the Do operator                 *)
(* (page/xobject.rs).  Pages render in parallel; the store's slots and     *)
(* byte count are under one mutex, a decode several pages wait for is in a *)
(* OnceLock cell outside it.  An action is one critical section of the     *)
(* mutex, or one decode.                                                   *)
(*                                                                         *)
(* Slots are never removed and never leave Shared or Refused for an        *)
(* earlier kind, so an image has at most one cell, kept here by key.       *)
(***************************************************************************)
EXTENDS Totals

CONSTANTS Pages, Keys,
          Draws,        \* draw sizes images are requested at
          Jpx,          \* images whose decode depends on the draw size
          Size,         \* host bytes of an image's decode
          Budget,       \* DocumentImages::budget; 0 turns sharing off
          PageBudget,   \* the page memo's budget
          Results,      \* what decoding may give: see DecodeResults
          MaxPanics,    \* bound: decodes that panic
          NoPage, NoDraw

\* A curtailed decode, or its failure, depends on how much tint-transform work the page had
\* left; an ink page reads its device-resident decodes back, which makes them "curtailed" too.
DecodeResults == {"host", "device", "curtailed", "curtailedFailure", "failed", "absent"}
\* The results that stay with the page that made them.
LocalResults == {"device", "curtailed", "curtailedFailure"}

ASSUME KeysFinite == IsFiniteSet(Keys)
ASSUME SomeWant == Keys # {} /\ Draws # {}
ASSUME SizeType == Size \in [Keys -> Nat]
ASSUME BudgetsType == Budget \in Nat /\ PageBudget \in Nat /\ MaxPanics \in Nat
ASSUME ResultsType == Results \subseteq DecodeResults
ASSUME JpxType == Jpx \subseteq Keys
ASSUME NullsType == NoPage \notin Pages /\ NoDraw \notin Draws

VARIABLES
    slot,      \* slot[k]: "none", "seen", "shared" or "refused"
    first,     \* the page of a "seen" slot
    offered,   \* draw size of the decode that page offers while it keeps it, or NoDraw
    bytes,     \* State::bytes
    cell,      \* cell[k]: "empty", "making" or the Outcome: "image", "failed", "absent", "local"
    made,      \* the draw size the outcome in the cell was made for
    pc, want,  \* what page p does, for which <<key, draw size>>
    memo,      \* memo[p][k]: the page's entry, with the bytes it is charged
    failures,  \* failures[p]: the <<key, draw size>> pairs known to fail on the page
    panics

store == <<slot, first, offered, bytes>>
cells == <<cell, made>>
pages == <<pc, want, memo, failures>>
vars == <<store, cells, pages, panics>>

NoEntry == [held |-> FALSE, made |-> NoDraw, charge |-> 0]
AnyWant == CHOOSE w \in Keys \X Draws : TRUE

Init ==
    /\ slot = [k \in Keys |-> "none"]
    /\ first = [k \in Keys |-> NoPage]
    /\ offered = [k \in Keys |-> NoDraw]
    /\ bytes = 0
    /\ cell = [k \in Keys |-> "empty"]
    /\ made = [k \in Keys |-> NoDraw]
    /\ pc = [p \in Pages |-> "idle"]
    /\ want = [p \in Pages |-> AnyWant]
    /\ memo = [p \in Pages |-> [k \in Keys |-> NoEntry]]
    /\ failures = [p \in Pages |-> {}]
    /\ panics = 0

Goto(p, label) == pc' = [pc EXCEPT ![p] = label]
KeyOf(p) == want[p][1]
DrawOf(p) == want[p][2]
\* document_images::serves
Serves(k, kept, draw) == k \notin Jpx \/ kept = draw
Charged(p) == Total(Keys, [k \in Keys |-> memo[p][k].charge])

\* image_memo's keep: the entry replaces the page's earlier one if it fits, else neither stays.
Fits(p, charge) == charge <= PageBudget - (Charged(p) - memo[p][KeyOf(p)].charge)
Keep(p, draw, charge) ==
    memo' = [memo EXCEPT ![p][KeyOf(p)] =
                IF Fits(p, charge) THEN [held |-> TRUE, made |-> draw, charge |-> charge]
                                   ELSE NoEntry]

\* The decode a page offers is a weak reference: it dies with the memo entry it was made with.
Withdraw(p, K) ==
    offered' = [k \in Keys |-> IF k \in K /\ first[k] = p THEN NoDraw ELSE offered[k]]

RememberFailure(p) == failures' = [failures EXCEPT ![p] = @ \cup {want[p]}]

-----------------------------------------------------------------------------
\* The memo's decode of k serves a draw at d.
MemoServes(p, k, d) == memo[p][k].held /\ Serves(k, memo[p][k].made, d)

\* The Do operator, when neither the memo's decode nor its record of a failure serves.
Draw(p, k, d) ==
    /\ pc[p] = "idle"
    /\ ~MemoServes(p, k, d)
    /\ <<k, d>> \notin failures[p]
    /\ Goto(p, "lookup")
    /\ want' = [want EXCEPT ![p] = <<k, d>>]
    /\ UNCHANGED <<store, cells, memo, failures, panics>>

\* The second page takes over the decode the first still holds, if it fits the budget.
AdoptOffer(p, k) ==
    \/ /\ Size[k] > Budget - bytes
       /\ slot' = [slot EXCEPT ![k] = "refused"]
       /\ Goto(p, "decode")
       /\ UNCHANGED <<bytes, cells>>
    \/ /\ Size[k] <= Budget - bytes
       /\ bytes' = bytes + Size[k]
       /\ slot' = [slot EXCEPT ![k] = "shared"]
       /\ cell' = [cell EXCEPT ![k] = "image"]
       /\ made' = [made EXCEPT ![k] = offered[k]]
       /\ Goto(p, "resolve")

Lookup(p) ==
    LET k == KeyOf(p) IN
    /\ pc[p] = "lookup"
    /\ \/ /\ Budget = 0 \/ slot[k] = "refused" \/ (slot[k] = "seen" /\ first[k] = p)
          /\ Goto(p, "decode")
          /\ UNCHANGED <<store, cells>>
       \/ /\ Budget # 0 /\ slot[k] = "none"
          /\ slot' = [slot EXCEPT ![k] = "seen"]
          /\ first' = [first EXCEPT ![k] = p]
          /\ Goto(p, "decode")
          /\ UNCHANGED <<offered, bytes, cells>>
       \/ /\ Budget # 0 /\ slot[k] = "seen" /\ first[k] # p /\ offered[k] # NoDraw
          /\ AdoptOffer(p, k)
          /\ UNCHANGED <<first, offered>>
       \/ /\ Budget # 0 /\ slot[k] = "seen" /\ first[k] # p /\ offered[k] = NoDraw
          /\ slot' = [slot EXCEPT ![k] = "shared"]
          /\ Goto(p, "resolve")
          /\ UNCHANGED <<first, offered, bytes, cells>>
       \/ /\ Budget # 0 /\ slot[k] = "shared"
          /\ Goto(p, "resolve")
          /\ UNCHANGED <<store, cells>>
    /\ UNCHANGED <<want, memo, failures, panics>>

-----------------------------------------------------------------------------
\* What the page's own decode, and one from the store, cost the memo.
DecodeCharge(k, result) == IF result = "device" THEN 0 ELSE Size[k]
SharedCharge(k, kept) == IF kept THEN 0 ELSE Size[k]

\* handle_image_resolution of a decode the page made, with the offer when it may be shared.
TakeDecode(p, result, share) ==
    LET k == KeyOf(p)
        charge == DecodeCharge(k, result)
    IN  \/ /\ result \in {"host", "device", "curtailed"}
           /\ Keep(p, DrawOf(p), charge)
           /\ IF share /\ result = "host" /\ Fits(p, charge) /\ slot[k] = "seen" /\ first[k] = p
                 THEN offered' = [offered EXCEPT ![k] = DrawOf(p)]
                 ELSE Withdraw(p, {k})
           /\ UNCHANGED failures
        \/ result \in {"failed", "curtailedFailure"} /\ RememberFailure(p) /\ UNCHANGED <<memo, offered>>
        \/ result = "absent" /\ UNCHANGED <<memo, offered, failures>>

DecodeOnPage(p) ==
    /\ pc[p] = "decode"
    /\ \E result \in Results : TakeDecode(p, result, result # "curtailed")
    /\ Goto(p, "idle")
    /\ UNCHANGED <<slot, first, bytes, cells, want, panics>>

\* The cell is filled without asking whether another page has filled it, or is about to.
ResolveAlwaysMakes(p) ==
    /\ pc[p] = "resolve"
    /\ cell' = [cell EXCEPT ![KeyOf(p)] = "making"]
    /\ Goto(p, "make")
    /\ UNCHANGED <<store, made, want, memo, failures, panics>>

\* resolve's get_or_init: one page decodes, the others wait for the cell to be set.
Resolve(p) ==
    LET k == KeyOf(p) IN
    /\ pc[p] = "resolve"
    /\ \/ /\ cell[k] = "empty"
          /\ cell' = [cell EXCEPT ![k] = "making"]
          /\ Goto(p, "make")
       \/ /\ cell[k] \notin {"empty", "making"}
          /\ Goto(p, "take")
          /\ UNCHANGED cell
    /\ UNCHANGED <<store, made, want, memo, failures, panics>>

OutcomeOf(result) ==
    CASE result = "host" -> "image"
      [] result \in LocalResults -> "local"
      [] OTHER -> result

\* The page keeps its local result in hand.
MakeLabel(result) == IF result \in LocalResults THEN result ELSE "settle"

Make(p) ==
    LET k == KeyOf(p) IN
    /\ pc[p] = "make"
    /\ \E result \in Results :
          /\ cell' = [cell EXCEPT ![k] = OutcomeOf(result)]
          /\ Goto(p, MakeLabel(result))
    /\ made' = [made EXCEPT ![k] = DrawOf(p)]
    /\ UNCHANGED <<store, want, memo, failures, panics>>

\* What the page does with the outcome in the cell; `kept` is whether the store keeps it.
TakeOutcome(p, kept) ==
    LET k == KeyOf(p)
        serves == IF cell[k] = "failed" THEN made[k] = DrawOf(p)
                                        ELSE Serves(k, made[k], DrawOf(p))
    IN  \/ /\ cell[k] = "image" /\ serves
           /\ Keep(p, DrawOf(p), SharedCharge(k, kept))
           /\ Withdraw(p, {k})
           /\ Goto(p, "idle")
           /\ UNCHANGED failures
        \/ /\ cell[k] = "failed" /\ serves
           /\ RememberFailure(p)
           /\ Goto(p, "idle")
           /\ UNCHANGED <<memo, offered>>
        \/ cell[k] = "absent" /\ Goto(p, "idle") /\ UNCHANGED <<memo, offered, failures>>
        \/ /\ cell[k] = "local" \/ (cell[k] \in {"image", "failed"} /\ ~serves)
           /\ Goto(p, "decode")
           /\ UNCHANGED <<memo, offered, failures>>

\* resolve after get_or_init, on a page that did not make the decode.
Take(p) ==
    /\ pc[p] = "take"
    /\ TakeOutcome(p, slot[KeyOf(p)] = "shared")
    /\ UNCHANGED <<slot, first, bytes, cells, want, panics>>

\* What settle counts: a failure costs nothing.  The alternative counts it as a decode.
CountsFailures(k) == Size[k]
OutcomeSize(k) == IF cell[k] = "image" THEN Size[k] ELSE 0

\* Whether the store keeps it.  The alternatives forget what is already held, and refund a
\* refused decode.
FitsBudgetAlone(k) == OutcomeSize(k) <= Budget
Settles(k) == OutcomeSize(k) <= Budget - bytes
BytesRefunded(k) == IF Settles(k) THEN bytes + OutcomeSize(k) ELSE bytes - OutcomeSize(k)
BytesSettled(k) == IF Settles(k) THEN bytes + OutcomeSize(k) ELSE bytes

\* ... and on the page that made it: settle and the kept test are one critical section.
Settle(p) ==
    LET k == KeyOf(p) IN
    /\ pc[p] = "settle"
    /\ bytes' = BytesSettled(k)
    /\ slot' = IF Settles(k) THEN slot ELSE [slot EXCEPT ![k] = "refused"]
    /\ TakeOutcome(p, Settles(k))
    /\ UNCHANGED <<first, cells, want, panics>>

\* ... when the decode stays with the page.
SettleLocal(p) ==
    LET k == KeyOf(p) IN
    /\ pc[p] \in LocalResults
    /\ slot' = [slot EXCEPT ![k] = "refused"]
    /\ TakeDecode(p, pc[p], FALSE)
    /\ Goto(p, "idle")
    /\ UNCHANGED <<first, bytes, cells, want, panics>>

\* The page is done, or aborted: its memo goes, and with it what it offered.
DropPage(p) ==
    /\ Goto(p, "idle")
    /\ memo' = [memo EXCEPT ![p] = [k \in Keys |-> NoEntry]]
    /\ failures' = [failures EXCEPT ![p] = {}]
    /\ Withdraw(p, Keys)
    /\ UNCHANGED <<slot, first, bytes, made, want>>

EndPage(p) ==
    /\ pc[p] = "idle"
    /\ DropPage(p)
    /\ UNCHANGED <<cell, panics>>

\* The panic leaves the cell as the page marked it.
PanicKeepsCell(p) ==
    /\ panics < MaxPanics
    /\ panics' = panics + 1
    /\ pc[p] \in {"decode", "make"}
    /\ DropPage(p)
    /\ UNCHANGED cell

\* A decode panics and the page with it; a OnceLock whose initialiser panics stays empty.
Panic(p) ==
    /\ panics < MaxPanics
    /\ panics' = panics + 1
    /\ \/ pc[p] = "decode" /\ UNCHANGED cell
       \/ pc[p] = "make" /\ cell' = [cell EXCEPT ![KeyOf(p)] = "empty"]
    /\ DropPage(p)

-----------------------------------------------------------------------------
Work(p) ==
    \/ Lookup(p) \/ DecodeOnPage(p) \/ Resolve(p) \/ Make(p)
    \/ Take(p) \/ Settle(p) \/ SettleLocal(p)

Next ==
    \E p \in Pages :
        \/ \E k \in Keys, d \in Draws : Draw(p, k, d)
        \/ Work(p) \/ EndPage(p) \/ Panic(p)

Spec == Init /\ [][Next]_vars

\* A page that has started on an image goes on; only an empty or set cell lets it through.
FairSpec == Spec /\ \A p \in Pages : WF_vars(Work(p))

-----------------------------------------------------------------------------
StoreTypes ==
    /\ slot \in [Keys -> {"none", "seen", "shared", "refused"}]
    /\ first \in [Keys -> Pages \cup {NoPage}]
    /\ offered \in [Keys -> Draws \cup {NoDraw}]
    /\ bytes \in Nat
    /\ cell \in [Keys -> {"empty", "making", "image", "failed", "absent", "local"}]
    /\ made \in [Keys -> Draws \cup {NoDraw}]

PageTypes ==
    /\ pc \in [Pages -> {"idle", "lookup", "decode", "resolve", "make", "take", "settle"}
                            \cup LocalResults]
    /\ want \in [Pages -> Keys \X Draws]
    /\ memo \in [Pages -> [Keys -> [held : BOOLEAN, made : Draws \cup {NoDraw}, charge : Nat]]]
    /\ failures \in [Pages -> SUBSET (Keys \X Draws)]
    /\ panics \in 0..MaxPanics

\* The types of the variables.
TypeOK == StoreTypes /\ PageTypes

Settling(k) == \E p \in Pages : pc[p] = "settle" /\ KeyOf(p) = k
\* The decodes the store has taken: in a shared slot, past settle.
KeptKeys == { k \in Keys : slot[k] = "shared" /\ cell[k] = "image" /\ ~Settling(k) }

\* State::bytes is the host bytes of the decodes kept: none is counted twice by the pages
\* that adopt, make and wait for it, and a refused one is not counted.
BytesMatchKept == bytes = Total(KeptKeys, Size)

\* "Kept decodes total at most the store's byte budget", whichever pages settle first; the
\* unsigned subtraction `budget - self.bytes` never underflows.
BudgetRespected == bytes <= Budget

\* A decode is made once for all later pages: none that the kept decode serves decodes again.
KeptNeverRedecoded ==
    [][\A p \in Pages :
          pc'[p] \in {"decode", "make"} /\ pc[p] \notin {"decode", "make"} =>
             ~(KeyOf(p) \in KeptKeys /\ Serves(KeyOf(p), made[KeyOf(p)], DrawOf(p)))]_vars

\* One page decodes for the cell and it is the one that settles it, even after a panic.
OneMaker ==
    \A p, q \in Pages :
        /\ pc[p] \in {"make", "settle"} \cup LocalResults
        /\ pc[q] \in {"make", "settle"} \cup LocalResults
        /\ KeyOf(p) = KeyOf(q)
        => p = q

\* No page waits for ever for another page's decode.
WaitingPageServed == \A p \in Pages : pc[p] = "resolve" ~> pc[p] # "resolve"
=============================================================================
