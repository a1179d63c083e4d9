--------------------------- MODULE MCRenderSession --------------------------
(* An instance of RenderSession for TLC: the first image is met twice, the *)
(* third is no JPEG, and the cap stops the walk before the last.           *)
EXTENDS RenderSession

CONSTANTS a, b, c, d

Walk == <<a, a, c, b, d>>
=============================================================================
