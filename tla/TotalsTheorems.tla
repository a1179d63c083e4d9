--------------------------- MODULE TotalsTheorems ---------------------------
(* What Totals!Total does when its set grows, shrinks or stays.            *)
EXTENDS Totals, FiniteSetTheorems, WellFoundedInduction, TLAPS

\* A set of natural numbers that is not empty has a least member: an induction begins
\* with the least counterexample.
LEMMA LeastNumber ==
  ASSUME NEW T, T \subseteq Nat, T # {}
  PROVE  \E x \in T : \A y \in T : x <= y
<1>1. \A x, y \in Nat : <<y, x>> \in OpToRel(<, Nat) <=> y < x
  BY DEF OpToRel
<1>2. \E R : /\ IsWellFoundedOn(R, Nat)
             /\ \A x, y \in Nat : <<y, x>> \in R <=> y < x
  BY <1>1, NatLessThanWellFounded
<1>3. PICK R : /\ IsWellFoundedOn(R, Nat)
               /\ \A x, y \in Nat : <<y, x>> \in R <=> y < x
  BY <1>2
<1>4. PICK x \in T : \A y \in T : ~ (<<y, x>> \in R)
  BY <1>3, WFMin
<1>5. \A y \in T : ~ (y < x)
  BY <1>3, <1>4
<1>6. \A y \in T : x \in Nat /\ y \in Nat
  OBVIOUS
<1> QED  BY <1>5, <1>6

\* A member of weight n has n cells.
LEMMA CellsOfOne ==
  ASSUME NEW x, NEW n \in Nat
  PROVE  IsFiniteSet({x} \X (1..n)) /\ Cardinality({x} \X (1..n)) = n
<1>1. IsFiniteSet({x}) /\ Cardinality({x}) = 1
  BY FS_Singleton
<1>2. IsFiniteSet(1..n)
  BY FS_Interval
<1>3. Cardinality(1..n) = n
  BY FS_Interval
<1>4. /\ IsFiniteSet({x} \X (1..n))
      /\ Cardinality({x} \X (1..n)) = Cardinality({x}) * Cardinality(1..n)
  BY <1>1, <1>2, FS_Product
<1>5. 1 * n = n
  OBVIOUS
<1> QED  BY <1>1, <1>3, <1>4, <1>5

\* The cells of a finite set are finite, so a total is a natural number.
LEMMA TotalType ==
  ASSUME NEW S, IsFiniteSet(S), NEW w, \A x \in S : w[x] \in Nat
  PROVE  IsFiniteSet(Cells(S, w)) /\ Total(S, w) \in Nat
<1> DEFINE cell == [x \in S |-> {x} \X (1..w[x])]
           T == { {x} \X (1..w[x]) : x \in S }
<1>1. cell \in Surjection(S, T)
  <2>1. cell \in [S -> T]
    OBVIOUS
  <2>2. ASSUME NEW c \in T  PROVE \E x \in S : cell[x] = c
    OBVIOUS
  <2> QED  BY <2>1, <2>2 DEF Surjection
<1>2. IsFiniteSet(T)
  BY <1>1, FS_Surjection
<1>3. ASSUME NEW x \in S  PROVE IsFiniteSet({x} \X (1..w[x]))
  BY CellsOfOne
<1>4. IsFiniteSet(UNION T)
  BY <1>2, <1>3, FS_UNION
<1> QED  BY <1>4, FS_CardinalityType DEF Cells, Total

\* Nothing totals nothing.
LEMMA TotalEmpty ==
  ASSUME NEW w
  PROVE  Total({}, w) = 0
<1>1. Cells({}, w) = {}
  BY DEF Cells
<1> QED  BY <1>1, FS_EmptySet DEF Total

\* A total depends on the weights of the members only.
LEMMA TotalSame ==
  ASSUME NEW S, NEW v, NEW w, \A x \in S : v[x] = w[x]
  PROVE  Total(S, v) = Total(S, w)
<1>1. Cells(S, v) = Cells(S, w)
  BY DEF Cells
<1> QED  BY <1>1 DEF Total

\* A new member adds its weight.
LEMMA TotalAdd ==
  ASSUME NEW S, IsFiniteSet(S), NEW x, x \notin S, NEW w, \A y \in S \cup {x} : w[y] \in Nat
  PROVE  Total(S \cup {x}, w) = Total(S, w) + w[x]
<1> DEFINE new == {x} \X (1..w[x])
<1>1. IsFiniteSet(new) /\ Cardinality(new) = w[x]
  BY CellsOfOne
<1>2. Cells(S \cup {x}, w) = Cells(S, w) \cup new
  BY DEF Cells
<1>3. Cells(S, w) \cap new = {}
  BY DEF Cells
<1>4. IsFiniteSet(Cells(S, w)) /\ Total(S, w) \in Nat
  BY TotalType
<1>5. Cardinality(Cells(S, w) \cup new)
        = Cardinality(Cells(S, w)) + Cardinality(new) - Cardinality(Cells(S, w) \cap new)
  BY <1>1, <1>4, FS_Union
<1>6. Cardinality(Cells(S, w) \cap new) = 0
  BY <1>3, FS_EmptySet
<1>7. w[x] \in Nat
  OBVIOUS
<1>8. Total(S \cup {x}, w) = Total(S, w) + w[x] - 0
  BY <1>1, <1>2, <1>5, <1>6 DEF Total
<1> HIDE DEF new
<1> QED  BY <1>4, <1>7, <1>8

\* A member that leaves takes its weight.
LEMMA TotalRemove ==
  ASSUME NEW S, IsFiniteSet(S), NEW x \in S, NEW w, \A y \in S : w[y] \in Nat
  PROVE  Total(S \ {x}, w) = Total(S, w) - w[x]
<1>1. IsFiniteSet(S \ {x}) /\ (S \ {x}) \cup {x} = S
  BY FS_RemoveElement
<1>2. Total((S \ {x}) \cup {x}, w) = Total(S \ {x}, w) + w[x]
  BY <1>1, TotalAdd
<1>3. Total(S \ {x}, w) \in Nat /\ w[x] \in Nat
  BY <1>1, TotalType
<1>4. Total(S, w) = Total(S \ {x}, w) + w[x]
  BY <1>1, <1>2
<1> QED  BY <1>3, <1>4

\* Adding a member that may be there already adds at most its weight.
LEMMA TotalAddAtMost ==
  ASSUME NEW S, IsFiniteSet(S), NEW x, NEW w, \A y \in S \cup {x} : w[y] \in Nat
  PROVE  Total(S \cup {x}, w) <= Total(S, w) + w[x]
<1>1. Total(S, w) \in Nat /\ w[x] \in Nat
  BY TotalType
<1>2. CASE x \in S
  <2>1. S \cup {x} = S
    BY <1>2
  <2>2. Total(S \cup {x}, w) = Total(S, w)
    BY <2>1
  <2> QED  BY <1>1, <2>2
<1>3. CASE x \notin S
  <2>1. Total(S \cup {x}, w) = Total(S, w) + w[x]
    BY <1>3, TotalAdd
  <2> QED  BY <1>1, <2>1
<1> QED  BY <1>2, <1>3

\* A total of weights that are each at most `bound`.
LEMMA TotalBound ==
  ASSUME NEW S, IsFiniteSet(S), NEW bound \in Nat, NEW w,
         \A x \in S : w[x] \in Nat /\ w[x] <= bound
  PROVE  Total(S, w) <= Cardinality(S) * bound
<1>1. IsFiniteSet(1..bound) /\ Cardinality(1..bound) = bound
  BY FS_Interval
<1>2. IsFiniteSet(S \X (1..bound)) /\ Cardinality(S \X (1..bound)) = Cardinality(S) * bound
  BY <1>1, FS_Product
<1>3. Cells(S, w) \subseteq S \X (1..bound)
  BY DEF Cells
<1> QED  BY <1>2, <1>3, FS_Subset DEF Total

\* A part weighs no more than the whole.
LEMMA TotalPart ==
  ASSUME NEW S, IsFiniteSet(S), NEW T, T \subseteq S, NEW w, \A x \in S : w[x] \in Nat
  PROVE  Total(T, w) <= Total(S, w)
<1>1. IsFiniteSet(Cells(S, w))
  BY TotalType
<1>2. Cells(T, w) \subseteq Cells(S, w)
  BY DEF Cells
<1> QED BY <1>1, <1>2, FS_Subset DEF Total

\* Parts that cover a set weigh at least what it does together.
LEMMA TotalSplit ==
  ASSUME NEW S, IsFiniteSet(S), NEW T, IsFiniteSet(T), NEW w, \A x \in S \cup T : w[x] \in Nat
  PROVE  Total(S \cup T, w) <= Total(S, w) + Total(T, w)
<1>1. /\ IsFiniteSet(Cells(S, w)) /\ Total(S, w) \in Nat
      /\ IsFiniteSet(Cells(T, w)) /\ Total(T, w) \in Nat
  BY TotalType
<1>2. Cells(S \cup T, w) = Cells(S, w) \cup Cells(T, w)
  BY DEF Cells
<1>3. /\ Total(S \cup T, w) = Total(S, w) + Total(T, w) - Cardinality(Cells(S, w) \cap Cells(T, w))
  BY <1>1, <1>2, FS_Union DEF Total
<1>4. Cardinality(Cells(S, w) \cap Cells(T, w)) \in Nat
  BY <1>1, FS_Subset, FS_CardinalityType
<1> QED  BY <1>1, <1>3, <1>4

\* The members of S that g sends to y.
Group(S, g, y) == { x \in S : g[x] = y }

\* A set sorted into groups weighs no more than bounds on the weights of the groups do: the
\* cells of each group are numbered, and the cell n of group y is sent to the cell n of y.
LEMMA TotalGrouped ==
  ASSUME NEW S, IsFiniteSet(S), NEW w, \A x \in S : w[x] \in Nat,
         NEW T, IsFiniteSet(T), NEW bound, \A y \in T : bound[y] \in Nat,
         NEW g, \A x \in S : g[x] \in T,
         \A y \in T : Total(Group(S, g, y), w) <= bound[y]
  PROVE  Total(S, w) <= Total(T, bound)
<1> DEFINE Of(y) == Cells(Group(S, g, y), w)
           Count(y) == Total(Group(S, g, y), w)
           numbering == [y \in T |-> CHOOSE b : b \in Bijection(1..Count(y), Of(y))]
           number == [c \in Cells(S, w) |->
                        CHOOSE i \in 1..Count(g[c[1]]) : numbering[g[c[1]]][i] = c]
           send == [c \in Cells(S, w) |-> <<g[c[1]], number[c]>>]
<1>1. ASSUME NEW y \in T
      PROVE  numbering[y] \in Bijection(1..Count(y), Of(y)) /\ Count(y) \in Nat
  <2>1. Group(S, g, y) \subseteq S
    BY DEF Group
  <2>2. IsFiniteSet(Group(S, g, y)) /\ \A x \in Group(S, g, y) : w[x] \in Nat
    BY <2>1, FS_Subset
  <2>3. IsFiniteSet(Of(y)) /\ Count(y) \in Nat
    BY <2>2, TotalType
  <2>4. ExistsBijection(1..Count(y), Of(y))
    BY <2>3, FS_CardinalityType DEF Total
  <2>5. \E b : b \in Bijection(1..Count(y), Of(y))
    BY <2>4 DEF ExistsBijection
  <2>6. (CHOOSE b : b \in Bijection(1..Count(y), Of(y))) \in Bijection(1..Count(y), Of(y))
    BY <2>5
  <2> QED  BY <2>3, <2>6
<1>2. ASSUME NEW c \in Cells(S, w)
      PROVE  c[1] \in S /\ g[c[1]] \in T /\ c \in Of(g[c[1]])
  BY DEF Cells, Group
<1>3. ASSUME NEW c \in Cells(S, w)
      PROVE  /\ number[c] \in 1..Count(g[c[1]])
             /\ numbering[g[c[1]]][number[c]] = c
  <2>1. g[c[1]] \in T /\ c \in Of(g[c[1]])
    BY <1>2
  <2>2. numbering[g[c[1]]] \in Surjection(1..Count(g[c[1]]), Of(g[c[1]]))
    BY <1>1, <2>1 DEF Bijection
  <2> HIDE DEF numbering
  <2>3. \E i \in 1..Count(g[c[1]]) : numbering[g[c[1]]][i] = c
    BY <2>1, <2>2 DEF Surjection
  <2> QED  BY <2>3
<1>4. ASSUME NEW c \in Cells(S, w)
      PROVE  send[c] \in Cells(T, bound)
  <2>1. g[c[1]] \in T /\ number[c] \in 1..Count(g[c[1]])
    BY <1>2, <1>3
  <2>2. Count(g[c[1]]) \in Nat /\ Count(g[c[1]]) <= bound[g[c[1]]] /\ bound[g[c[1]]] \in Nat
    BY <1>1, <2>1
  <2>3. send[c] = <<g[c[1]], number[c]>>
    OBVIOUS
  <2> HIDE DEF number, send, Count
  <2>4. number[c] \in 1..bound[g[c[1]]]
    BY <2>1, <2>2
  <2> QED  BY <2>1, <2>3, <2>4 DEF Cells
<1>5. ASSUME NEW c \in Cells(S, w), NEW d \in Cells(S, w), send[c] = send[d]
      PROVE  c = d
  <2>1. g[c[1]] = g[d[1]] /\ number[c] = number[d]
    <3> HIDE DEF number
    <3>1. <<g[c[1]], number[c]>> = <<g[d[1]], number[d]>>
      BY <1>5
    <3> QED  BY <3>1
  <2>2. numbering[g[c[1]]][number[c]] = c /\ numbering[g[d[1]]][number[d]] = d
    BY <1>3
  <2> HIDE DEF number, numbering
  <2> QED  BY <2>1, <2>2
<1>6. send \in Injection(Cells(S, w), Cells(T, bound))
  <2>1. send \in [Cells(S, w) -> Cells(T, bound)]
    <3>1. \A c \in Cells(S, w) : <<g[c[1]], number[c]>> \in Cells(T, bound)
      BY <1>4
    <3> HIDE DEF number
    <3> QED  BY <3>1
  <2>2. DOMAIN send = Cells(S, w)
    OBVIOUS
  <2> HIDE DEF send
  <2> QED  BY <1>5, <2>1, <2>2 DEF Injection, IsInjective
<1>7. IsFiniteSet(Cells(T, bound))
  BY TotalType
<1> HIDE DEF send
<1> QED  BY <1>6, <1>7, FS_Injection DEF Total
=============================================================================
