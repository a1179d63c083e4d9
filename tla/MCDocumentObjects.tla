------------------------- MODULE MCDocumentObjects -------------------------
(* An instance of DocumentObjects for TLC.                                 *)
EXTENDS DocumentObjects, TLC

CONSTANTS s1, s2, s3, s4, s5

\* A chain that the limit cuts at s3, with s5 next to it; no chain too long,
\* and a cycle of two with a third stream leading to it.
MCDocuments ==
  { s1 :> s2 @@ s2 :> s3 @@ s3 :> s4 @@ s4 :> File @@ s5 :> s4,
    s1 :> s3 @@ s2 :> s3 @@ s3 :> s4 @@ s4 :> File @@ s5 :> File,
    s1 :> s2 @@ s2 :> s1 @@ s3 :> File @@ s4 :> s1 @@ s5 :> File }

\* The derived value of s1 needs that of s5.
MCUses == [s \in Streams |-> IF s = s1 THEN s5 ELSE Nothing]
MCAskedFor == {<<"derived", s1>>, <<"filter", s1>>, <<"stream", s2>>}
=============================================================================
