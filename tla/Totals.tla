------------------------------- MODULE Totals -------------------------------
(***************************************************************************)
(* The sum of a weight over a finite set, written as the cardinality of a  *)
(* set of unit cells so that the theorems about finite sets apply to it.   *)
(* Byte counters (the image cache's used_bytes, the document image store's *)
(* bytes) are compared with totals of this form.                           *)
(***************************************************************************)
EXTENDS Integers, FiniteSets

\* x owns the cells <<x, 1>> .. <<x, weight[x]>>.
Cells(S, weight) == UNION { {x} \X (1..weight[x]) : x \in S }

\* The sum of weight[x] over x in S.
Total(S, weight) == Cardinality(Cells(S, weight))
=============================================================================
