-------------------------- MODULE MCDocumentOutput --------------------------
(* An instance of DocumentOutput for TLC: two threads and five pages, so   *)
(* that printing takes two full windows and a short one.                   *)
EXTENDS DocumentOutput
=============================================================================
