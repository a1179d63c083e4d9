---------------------------- MODULE PageDelivery ----------------------------
(* What the readers of rendered pages are promised (crates/pdf_raster:     *)
(* lib.rs raster_pdf, render_channel; batch.rs).  A job is one document    *)
(* rendered for one reader.  The reader gets the selected pages, as far as *)
(* the document has them, in ascending order and one item for each.  An    *)
(* item that says the render was cancelled, or that it could not go on, is *)
(* the last.  The reader sees the end only when it has every page or such  *)
(* a last item.  RenderChannel implements this module.                     *)
EXTENDS Naturals, Sequences

CONSTANTS Jobs,        \* documents being rendered
          Selection,   \* job -> ascending sequence of page numbers asked for
          Total        \* job -> number of pages of the document

VARIABLES delivered,   \* job -> items the reader has received
          finished     \* jobs whose reader has seen the end

vars == <<delivered, finished>>

PageResults == {"page", "error", "cancelled"}
Item(p, r) == [page |-> p, result |-> r]
Abort == Item(1, "abort")

\* Pages follow this item only if it is neither a cancelled one nor the abort.
GoesOn(item) == item.result \in {"page", "error"}
Over(items) == items # <<>> /\ ~GoesOn(items[Len(items)])

\* The index of the next page there is, if there is one.
MorePages(j, n) == n < Len(Selection[j]) /\ Selection[j][n + 1] <= Total[j]

Init ==
  /\ delivered = [j \in Jobs |-> <<>>]
  /\ finished = {}

Deliver(j, item) ==
  /\ j \notin finished
  /\ ~Over(delivered[j])
  /\ delivered' = [delivered EXCEPT ![j] = Append(@, item)]
  /\ UNCHANGED finished

Page(j) ==
  /\ MorePages(j, Len(delivered[j]))
  /\ \E r \in PageResults :
        Deliver(j, Item(Selection[j][Len(delivered[j]) + 1], r))

GiveUp(j) == Deliver(j, Abort)

End(j) ==
  /\ j \notin finished
  /\ Over(delivered[j]) \/ ~MorePages(j, Len(delivered[j]))
  /\ finished' = finished \cup {j}
  /\ UNCHANGED delivered

Next == \E j \in Jobs : Page(j) \/ GiveUp(j) \/ End(j)

Spec == Init /\ [][Next]_vars
=============================================================================
