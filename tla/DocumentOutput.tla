--------------------------- MODULE DocumentOutput ---------------------------
(* The page loop of the command line (crates/cli/src/main.rs, render.rs,   *)
(* print.rs, fax.rs): pool threads render the selected pages and hand each *)
(* page, or the two halves of a split spread, to a file of its own, to the *)
(* fax document or to the print job.  A fax or a print job is made whole   *)
(* or not at all.                                                          *)
EXTENDS RenderPool, Naturals, Sequences, FiniteSets, Functions

CONSTANTS NPages,   \* pages selected, numbered from 1
          Spreads,  \* pages that split in two
          NoPage    \* a thread between pages

Pages == 1..NPages

ASSUME DocumentOutputAssumption ==
  /\ Threads # {} /\ IsFiniteSet(Threads)
  /\ NPages \in Nat \ {0} /\ Spreads \subseteq Pages /\ NoPage \notin Pages

VARIABLES
  mode,     \* "files", "fax" or "print"
  stage,    \* main: "rendering", "writing", "submitting" or "done"
  status,   \* the exit status: "none", "success" or "failure"
  first,    \* first page of the window that renders
  todo,     \* pages of the window that no thread has taken
  on,       \* thread -> the page it renders
  half,     \* thread -> halves of its page handed on
  failed,   \* document_failed
  skipped,  \* pages skipped because of it
  errors,   \* pages that failed, to be reported
  held,     \* pages in the sink, in the order they were pushed
  spool,    \* pages in the print document
  file,     \* page and half -> its file: "absent", "partial" or "complete"
  sent      \* the document handed to the printer or written as a fax

loopVars == <<first, todo, on, half, failed, skipped, errors>>
vars == <<mode, stage, status, loopVars, held, spool, file, sent>>

Whole == mode # "files"
Keys == Pages \X {0, 1}
Halves(p) == IF mode # "fax" /\ p \in Spreads THEN 2 ELSE 1

\* Pages in document order, the left half of a spread before the right.
Before(k, l) == k[1] < l[1] \/ (k[1] = l[1] /\ k[2] < l[2])
AsPushed(s) == s
Sorted(s) ==
  LET order == CHOOSE p \in Bijection(DOMAIN s, DOMAIN s) :
                 \A i, j \in DOMAIN s : i < j => ~Before(s[p[j]], s[p[i]])
  IN  [i \in DOMAIN s |-> s[order[i]]]
Everything == {k \in Keys : k[2] < Halves(k[1])}

TypeOK ==
  /\ mode \in {"files", "fax", "print"}
  /\ stage \in {"rendering", "writing", "submitting", "done"}
  /\ status \in {"none", "success", "failure"}
  /\ first \in Pages
  /\ todo \subseteq Pages
  /\ on \in [Threads -> Pages \cup {NoPage}]
  /\ half \in [Threads -> {0, 1}]
  /\ failed \in BOOLEAN
  /\ skipped \subseteq Pages
  /\ errors \subseteq Pages
  /\ held \in Seq(Keys)
  /\ spool \in Seq(Keys)
  /\ file \in [Keys -> {"absent", "partial", "complete"}]
  /\ sent \in Seq(Keys)

\* A window is as many pages as the pool has threads when printing, and
\* every page otherwise.
OnePass(m, p) == Pages
Window(m, p) ==
  IF m = "print" THEN {q \in Pages : p <= q /\ q < p + Cardinality(Threads)} ELSE Pages

Init ==
  /\ mode \in {"files", "fax", "print"}
  /\ stage = "rendering" /\ status = "none"
  /\ first = 1 /\ todo = Window(mode, 1)
  /\ on = [t \in Threads |-> NoPage]
  /\ half = [t \in Threads |-> 0]
  /\ failed = FALSE /\ skipped = {} /\ errors = {}
  /\ held = <<>> /\ spool = <<>> /\ sent = <<>>
  /\ file = [k \in Keys |-> "absent"]

-----------------------------------------------------------------------------
(* render_one, on a pool thread                                            *)

\* The flag is read and written relaxed: a thread may miss it.
Skip(t) ==
  /\ stage = "rendering" /\ on[t] = NoPage
  /\ failed
  /\ \E p \in todo : todo' = todo \ {p} /\ skipped' = skipped \cup {p}
  /\ UNCHANGED <<mode, stage, status, first, on, half, failed, errors, held, spool, file, sent>>

Start(t) ==
  /\ stage = "rendering" /\ on[t] = NoPage
  /\ \E p \in todo : todo' = todo \ {p} /\ on' = [on EXCEPT ![t] = p]
  /\ half' = [half EXCEPT ![t] = 0]
  /\ UNCHANGED <<mode, stage, status, first, failed, skipped, errors, held, spool, file, sent>>

\* The error that ends a page is collected, and stops a whole document.
FailPageSilently(t) ==
  /\ failed' = TRUE
  /\ errors' = IF failed THEN errors ELSE errors \cup {on[t]}
  /\ on' = [on EXCEPT ![t] = NoPage]
  /\ UNCHANGED <<first, todo, half, skipped>>

FailPage(t) ==
  /\ failed' = Whole
  /\ errors' = errors \cup {on[t]}
  /\ on' = [on EXCEPT ![t] = NoPage]
  /\ UNCHANGED <<first, todo, half, skipped>>

\* Rendering, cleaning up or coding the page fails, or its file is not made.
PageFails(t) ==
  /\ on[t] # NoPage
  /\ file[<<on[t], half[t]>>] # "partial"
  /\ FailPage(t)
  /\ UNCHANGED <<mode, stage, status, held, spool, file, sent>>

\* One half is handed on; after the last the page is done.
HandedOn(t) ==
  /\ IF half[t] + 1 < Halves(on[t])
     THEN half' = [half EXCEPT ![t] = 1] /\ UNCHANGED on
     ELSE on' = [on EXCEPT ![t] = NoPage] /\ UNCHANGED half
  /\ UNCHANGED <<first, todo, failed, skipped, errors>>

Add(t) ==
  /\ on[t] # NoPage /\ Whole
  /\ held' = Append(held, <<on[t], half[t]>>)
  /\ HandedOn(t)
  /\ UNCHANGED <<mode, stage, status, spool, file, sent>>

CreateFile(t) ==
  /\ on[t] # NoPage /\ ~Whole
  /\ file[<<on[t], half[t]>>] = "absent"
  /\ file' = [file EXCEPT ![<<on[t], half[t]>>] = "partial"]
  /\ UNCHANGED <<mode, stage, status, loopVars, held, spool, sent>>

CompleteFile(t) ==
  /\ on[t] # NoPage
  /\ file[<<on[t], half[t]>>] = "partial"
  /\ file' = [file EXCEPT ![<<on[t], half[t]>>] = "complete"]
  /\ HandedOn(t)
  /\ UNCHANGED <<mode, stage, status, held, spool, sent>>

\* The file is removed, or is left with a warning when it cannot be.
EncodeIgnoringErrors(t) ==
  /\ on[t] # NoPage
  /\ file[<<on[t], half[t]>>] = "partial"
  /\ HandedOn(t)
  /\ UNCHANGED <<mode, stage, status, held, spool, file, sent>>

EncodeFails(t) ==
  /\ on[t] # NoPage
  /\ file[<<on[t], half[t]>>] = "partial"
  /\ \E left \in {"absent", "partial"} :
        file' = [file EXCEPT ![<<on[t], half[t]>>] = left]
  /\ FailPage(t)
  /\ UNCHANGED <<mode, stage, status, held, spool, sent>>

-----------------------------------------------------------------------------
(* main                                                                    *)

Joined == stage = "rendering" /\ todo = {} /\ \A t \in Threads : on[t] = NoPage

End(how) == stage' = "done" /\ status' = how

ReportPages ==
  /\ Joined /\ errors # {}
  /\ End("failure")
  /\ UNCHANGED <<mode, loopVars, held, spool, file, sent>>

ReportFiles ==
  /\ Joined /\ errors = {} /\ mode = "files"
  /\ End("success")
  /\ UNCHANGED <<mode, loopVars, held, spool, file, sent>>

\* write_from takes the window's pages; then the next window, or the end.
WriteWindow ==
  /\ Joined /\ errors = {} /\ mode = "print"
  /\ spool' = spool \o Sorted(held)
  /\ held' = <<>>
  /\ IF first + Cardinality(Threads) <= NPages
     THEN /\ first' = first + Cardinality(Threads)
          /\ todo' = Window(mode, first')
          /\ UNCHANGED stage
     ELSE stage' = "submitting" /\ UNCHANGED <<first, todo>>
  /\ UNCHANGED <<mode, status, on, half, failed, skipped, errors, file, sent>>

\* The spool cannot be written or finished, or lp or the fax service refuses;
\* a fax file stays.
NotDelivered ==
  /\ \/ Joined /\ errors = {} /\ mode = "print"
     \/ stage = "submitting"
  /\ End("failure")
  /\ UNCHANGED <<mode, loopVars, held, spool, file, sent>>

\* The document is completed, and lp takes it.
Submit ==
  /\ stage = "submitting" /\ mode = "print"
  /\ sent' = spool
  /\ End("success")
  /\ UNCHANGED <<mode, loopVars, held, spool, file>>

\* The fax is one file: it is written complete, or removed.
WriteFax ==
  /\ Joined /\ errors = {} /\ mode = "fax"
  /\ \/ sent' = Sorted(held) /\ held' = <<>> /\ stage' = "submitting" /\ UNCHANGED status
     \/ End("failure") /\ UNCHANGED <<held, sent>>
  /\ UNCHANGED <<mode, loopVars, spool, file>>

\* No number was given, or the fax was taken.
DispatchFax ==
  /\ stage = "submitting" /\ mode = "fax"
  /\ End("success")
  /\ UNCHANGED <<mode, loopVars, held, spool, file, sent>>

-----------------------------------------------------------------------------
Render(t) ==
  \/ Skip(t) \/ Start(t) \/ PageFails(t) \/ Add(t)
  \/ CreateFile(t) \/ CompleteFile(t) \/ EncodeFails(t)

Main ==
  \/ ReportPages \/ ReportFiles \/ WriteWindow \/ NotDelivered \/ Submit
  \/ WriteFax \/ DispatchFax

Next == Main \/ \E t \in Threads : Render(t)

Spec == Init /\ [][Next]_vars

-----------------------------------------------------------------------------
Written == {k \in Keys : file[k] = "complete"}

\* A document that is handed on holds every page once, in order, the left
\* half of a spread before the right, and no page of it failed or was
\* skipped, whatever order the threads finished in (main.rs 225-229,
\* print.rs 100-110, 193-216, render.rs 255-266).
WholeOrNothing ==
  sent # <<>> =>
    /\ errors = {} /\ skipped = {}
    /\ Len(sent) = Cardinality(Everything)
    /\ {sent[i] : i \in 1..Len(sent)} = Everything
    /\ \A i \in 1..(Len(sent) - 1) : Before(sent[i], sent[i + 1])

\* The program reports success only with all of its output made, and a page
\* that was skipped or cut short makes it fail (main.rs 297-346).
SuccessMeansEverything ==
  status = "success" =>
    /\ errors = {} /\ skipped = {}
    /\ IF Whole THEN Len(sent) = Cardinality(Everything) ELSE Written = Everything

\* Of page files, those of a page that is not reported are all there and
\* complete: a failed page stops no other page (render.rs 189-230, 280-296).
PagesAccountedFor ==
  /\ TypeOK
  /\ (stage = "done" /\ mode = "files") =>
       \A k \in Everything : k[1] \in errors \/ file[k] = "complete"

\* Printing holds the coded pages of one window at a time (print.rs 193-216).
OneWindowHeld ==
  mode = "print" => Len(held) <= 2 * Cardinality(Threads)
=============================================================================
