-------------------------- MODULE MCDocumentImages --------------------------
(* DocumentImages for TLC, on two documents: one whose pages draw two      *)
(* images of sizes 1 and 2, and one whose pages draw a JPEG 2000 image at  *)
(* two sizes.                                                              *)
EXTENDS DocumentImages, TLC

CONSTANTS p1, p2, a, b, small, large

VARIABLE drawn  \* the images, and their draw sizes, in the document

OneAndTwo == (a :> 1) @@ (b :> 2)
MCDocuments == {{<<a, small>>, <<b, small>>}, {<<b, small>>, <<b, large>>}}

MCInit == Init /\ drawn \in MCDocuments
MCNext ==
  /\ Next
  /\ \A p \in Pages : pc'[p] = "lookup" => want'[p] \in drawn
  /\ UNCHANGED drawn
MCSpec == MCInit /\ [][MCNext]_<<vars, drawn>> /\ \A p \in Pages : WF_vars(Work(p))
=============================================================================
