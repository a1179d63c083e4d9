-------------------------- MODULE MCRenderChannel ---------------------------
(* An instance of RenderChannel for TLC: an iterator and a channel job     *)
(* with deskew, and a channel job without.  One thread reads all three,    *)
(* each to its end before the next, and may have called them in any order: *)
(* so a channel may fill up that nobody reads for the time being, with the *)
(* work of the job that is read beneath its producer, or behind it.        *)
EXTENDS RenderChannel, TLC

CONSTANTS c1, c2, it

Pages == (c1 :> <<1, 2>>) @@ (c2 :> <<2>>) @@ (it :> <<1, 3>>)
Lengths == (c1 :> 2) @@ (c2 :> 3) @@ (it :> 2)
Capacities == (c1 :> 0) @@ (c2 :> 1) @@ (it :> 0)
OneReader == (it :> {}) @@ (c1 :> {it}) @@ (c2 :> {it, c1})
=============================================================================
