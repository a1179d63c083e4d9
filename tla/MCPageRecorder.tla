--------------------------- MODULE MCPageRecorder ---------------------------
(* An instance of PageRecorder for TLC: two threads that fill, one of them *)
(* twice, an upload and a download.                                        *)
EXTENDS PageRecorder, TLC

CONSTANTS f1, f2, up, down, upStaging, downStaging

Directions == (up :> upStaging) @@ (down :> downStaging)
Starts == (f1 :> 2) @@ (f2 :> 1) @@ (up :> 1) @@ (down :> 1)
=============================================================================
