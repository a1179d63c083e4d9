------------------------------ MODULE RenderPool ------------------------------
(* The Rayon pool that renders the pages of a document, which main builds  *)
(* (crates/cli/src/main.rs:156): its threads read the document's objects   *)
(* (DocumentObjects) and print its pages (DocumentOutput).                 *)
CONSTANT Threads
=============================================================================
