--------------------------- MODULE DocumentProofs ---------------------------
(* Theorems about a document that a pool of threads reads and prints: its  *)
(* objects are what parsing them gives whatever the order they are asked   *)
(* for in (DocumentObjects), and its pages leave as files, or as one fax   *)
(* or print job, complete or not at all (DocumentOutput).                  *)
EXTENDS DocumentObjects, DocumentOutput, TotalsTheorems, SequenceTheorems, TLAPS

-----------------------------------------------------------------------------
(* Sequences of pages and halves                                           *)

Elements(s) == {s[i] : i \in 1..Len(s)}
Distinct(s) == \A i, j \in 1..Len(s) : s[i] = s[j] => i = j
Ascending(s) == \A i, j \in 1..Len(s) : i < j => Before(s[i], s[j])

\* Nothing is in the empty sequence.
LEMMA NoElements == Elements(<<>>) = {} /\ Distinct(<<>>) /\ Ascending(<<>>)
BY DEF Elements, Distinct, Ascending

\* Appending an element.
LEMMA AppendElements ==
  ASSUME NEW S, NEW s \in Seq(S), NEW x \in S
  PROVE  /\ Append(s, x) \in Seq(S)
         /\ Len(Append(s, x)) = Len(s) + 1 /\ Len(s) \in Nat
         /\ \A i \in 1..(Len(s) + 1) : Append(s, x)[i] = IF i <= Len(s) THEN s[i] ELSE x
         /\ Elements(Append(s, x)) = Elements(s) \cup {x}
<1>1. /\ Append(s, x) \in Seq(S)
      /\ Len(Append(s, x)) = Len(s) + 1
      /\ Len(s) \in Nat
      /\ \A i \in 1..Len(s) : Append(s, x)[i] = s[i]
      /\ Append(s, x)[Len(s) + 1] = x
  BY AppendProperties, LenProperties
<1> DEFINE n == Len(s)
<1>2. \A i \in 1..(n + 1) : Append(s, x)[i] = IF i <= n THEN s[i] ELSE x
  BY <1>1
<1>3. Elements(Append(s, x)) = {Append(s, x)[i] : i \in 1..(n + 1)}
  BY <1>1 DEF Elements
<1>4. 1..(n + 1) = (1..n) \cup {n + 1}
  BY <1>1
<1>5. {Append(s, x)[i] : i \in 1..(n + 1)} = {s[i] : i \in 1..n} \cup {x}
  BY <1>1, <1>4
<1> QED  BY <1>1, <1>2, <1>3, <1>5 DEF Elements

\* A sequence without repetitions has as many elements as places.
LEMMA DistinctLength ==
  ASSUME NEW S, NEW s \in Seq(S), Distinct(s)
  PROVE  IsFiniteSet(Elements(s)) /\ Cardinality(Elements(s)) = Len(s) /\ Len(s) \in Nat
<1> DEFINE n == Len(s)
<1>1. n \in Nat /\ s \in [1..n -> S]
  BY LenProperties
<1>2. IsFiniteSet(1..n) /\ Cardinality(1..n) = n
  BY <1>1, FS_Interval
<1>3. s \in [1..n -> Elements(s)]
  BY <1>1 DEF Elements
<1>4. s \in Bijection(1..n, Elements(s))
  BY <1>3 DEF Bijection, Injection, IsInjective, Surjection, Distinct, Elements
<1>5. ExistsBijection(1..n, Elements(s))
  BY <1>4 DEF ExistsBijection
<1> QED  BY <1>1, <1>2, <1>5, FS_Bijection

-----------------------------------------------------------------------------
(* The order of the pages, and sorting                                     *)

\* The place of a page or half in document order.
Place(k) == 2 * k[1] + k[2]

\* The places follow the order, and there are finitely many.
LEMMA PlaceOrder ==
  ASSUME DocumentOutputAssumption
  PROVE  /\ \A k \in Keys : Place(k) \in Nat /\ Place(k) < 2 * NPages + 2
         /\ \A k, l \in Keys : Before(k, l) <=> Place(k) < Place(l)
         /\ \A k, l \in Keys : Place(k) = Place(l) => k = l
<1>1. NPages \in Nat
  BY DEF DocumentOutputAssumption
<1>2. \A k \in Keys : k = <<k[1], k[2]>> /\ k[1] \in 1..NPages /\ k[2] \in {0, 1}
  BY DEF Keys, Pages
<1>3. \A k \in Keys : Place(k) \in Nat /\ Place(k) < 2 * NPages + 2
  BY <1>1, <1>2 DEF Place
<1>4. \A k, l \in Keys : Before(k, l) <=> Place(k) < Place(l)
  BY <1>1, <1>2 DEF Place, Before
<1>5. \A k, l \in Keys : Place(k) = Place(l) => k[1] = l[1] /\ k[2] = l[2]
  BY <1>1, <1>2 DEF Place
<1> QED  BY <1>2, <1>3, <1>4, <1>5

\* A sequence in order repeats nothing.
LEMMA AscendingDistinct ==
  ASSUME DocumentOutputAssumption, NEW s \in Seq(Keys), Ascending(s)
  PROVE  Distinct(s)
<1>1. Len(s) \in Nat /\ \A i \in 1..Len(s) : s[i] \in Keys
  BY LenProperties, ElementOfSeq
<1> SUFFICES ASSUME NEW i \in 1..Len(s), NEW j \in 1..Len(s), s[i] = s[j], i # j  PROVE FALSE
  BY DEF Distinct
<1>2. i < j \/ j < i
  BY <1>1
<1>3. Before(s[i], s[j]) \/ Before(s[j], s[i])
  BY <1>2 DEF Ascending
<1>4. Place(s[i]) < Place(s[i]) /\ Place(s[i]) \in Nat
  BY <1>1, <1>3, PlaceOrder
<1> QED  BY <1>4

\* Every set of pages and halves can be put in order: the least bound on the places for
\* which one could not be would have a set with an element at the place below it.
LEMMA OrderExists ==
  ASSUME DocumentOutputAssumption, NEW S \in SUBSET Keys
  PROVE  \E r \in Seq(Keys) : Ascending(r) /\ Elements(r) = S
<1> DEFINE Ordered(T) == \E r \in Seq(Keys) : Ascending(r) /\ Elements(r) = T
           Below(n) == {k \in Keys : Place(k) < n}
           Bad == {n \in Nat : \E T \in SUBSET Below(n) : ~Ordered(T)}
<1>1. Bad = {}
  <2> SUFFICES ASSUME Bad # {}  PROVE FALSE
    OBVIOUS
  <2>1. PICK n \in Bad : \A m \in Bad : n <= m
    BY LeastNumber
  <2>2. PICK T \in SUBSET Below(n) : ~Ordered(T)
    OBVIOUS
  <2>3. Ordered({})
    BY NoElements, EmptySeq
  <2>4. n # 0
    <3> SUFFICES ASSUME n = 0  PROVE FALSE
      OBVIOUS
    <3>1. T = {}
      BY PlaceOrder
    <3> QED  BY <2>2, <2>3, <3>1
  <2> DEFINE m == n - 1
  <2>5. m \in Nat /\ m < n /\ n = m + 1 /\ n \in Nat
    BY <2>4
  <2>6. \A U \in SUBSET Below(m) : Ordered(U)
    <3>1. m \notin Bad
      <4> HIDE DEF m, Bad
      <4> QED  BY <2>1, <2>5
    <3> QED  BY <2>5, <3>1
  <2>7. PICK k \in T : Place(k) = m
    <3> SUFFICES ASSUME \A k \in T : Place(k) # m  PROVE FALSE
      OBVIOUS
    <3>1. \A k \in T : k \in Keys /\ Place(k) \in Nat /\ Place(k) < n
      BY PlaceOrder
    <3> HIDE DEF m
    <3>2. \A k \in T : Place(k) < m
      BY <2>5, <3>1
    <3>3. T \in SUBSET Below(m)
      BY <3>1, <3>2
    <3> QED  BY <2>2, <2>6, <3>3
  <2>8. k \in Keys /\ T \subseteq Keys
    OBVIOUS
  <2>9. T \ {k} \in SUBSET Below(m)
    <3>1. \A l \in T \ {k} : Place(l) \in Nat /\ Place(l) < n /\ Place(l) # m
      BY <2>7, <2>8, PlaceOrder
    <3> HIDE DEF m
    <3>2. \A l \in T \ {k} : Place(l) < m
      BY <2>5, <3>1
    <3> QED  BY <2>8, <3>2
  <2>10. PICK r \in Seq(Keys) : Ascending(r) /\ Elements(r) = T \ {k}
    BY <2>6, <2>9
  <2> DEFINE a == Append(r, k)
             l == Len(r)
  <2>11. /\ a \in Seq(Keys) /\ Len(a) = l + 1 /\ l \in Nat
         /\ \A i \in 1..(l + 1) : a[i] = IF i <= l THEN r[i] ELSE k
         /\ Elements(a) = (T \ {k}) \cup {k}
    BY <2>8, <2>10, AppendElements
  <2>12. \A i \in 1..l : Before(r[i], k)
    <3> SUFFICES ASSUME NEW i \in 1..l  PROVE Before(r[i], k)
      OBVIOUS
    <3>1. r[i] \in T \ {k}
      BY <2>10 DEF Elements
    <3>2. Place(r[i]) < m /\ r[i] \in Keys
      BY <2>9, <3>1
    <3> QED  BY <2>7, <2>8, <3>2, PlaceOrder
  <2>13. Ascending(a)
    <3> SUFFICES ASSUME NEW i \in 1..(l + 1), NEW j \in 1..(l + 1), i < j
                 PROVE  Before(a[i], a[j])
      BY <2>11 DEF Ascending
    <3> HIDE DEF a
    <3>1. i \in 1..l
      BY <2>11
    <3>2. CASE j \in 1..l
      BY <2>10, <2>11, <3>1, <3>2 DEF Ascending
    <3>3. CASE j = l + 1
      BY <2>11, <2>12, <3>1, <3>3
    <3> QED  BY <2>11, <3>2, <3>3
  <2>14. Elements(a) = T
    BY <2>7, <2>11
  <2> QED  BY <2>2, <2>11, <2>13, <2>14
<1> DEFINE N == 2 * NPages + 2
<1>2. N \in Nat
  BY DEF DocumentOutputAssumption
<1>3. S \in SUBSET Below(N)
  BY PlaceOrder
<1> HIDE DEF N, Below, Ordered
<1>4. Ordered(S)
  BY <1>1, <1>2, <1>3
<1> QED  BY <1>4 DEF Ordered

\* What Sorted returns: the same pages and halves, in order.
LEMMA SortedOrder ==
  ASSUME DocumentOutputAssumption, NEW s \in Seq(Keys), Distinct(s)
  PROVE  /\ Sorted(s) \in Seq(Keys)
         /\ Elements(Sorted(s)) = Elements(s)
         /\ Ascending(Sorted(s))
<1> DEFINE n == Len(s)
           InOrder(p) == \A i, j \in 1..n : i < j => ~Before(s[p[j]], s[p[i]])
           order == CHOOSE p \in Bijection(1..n, 1..n) : InOrder(p)
<1>1. n \in Nat /\ DOMAIN s = 1..n /\ s \in [1..n -> Keys]
  BY LenProperties
<1>2. PICK r \in Seq(Keys) : Ascending(r) /\ Elements(r) = Elements(s)
  <2>1. Elements(s) \in SUBSET Keys
    BY <1>1 DEF Elements
  <2> QED  BY <2>1, OrderExists
<1>3. Distinct(r)
  BY <1>2, AscendingDistinct
<1>4. Len(r) = n /\ r \in [1..n -> Keys]
  BY <1>2, <1>3, DistinctLength, LenProperties
<1> DEFINE at == [i \in 1..n |-> CHOOSE j \in 1..n : s[j] = r[i]]
<1>5. \A i \in 1..n : at[i] \in 1..n /\ s[at[i]] = r[i]
  <2> SUFFICES ASSUME NEW i \in 1..n  PROVE \E j \in 1..n : s[j] = r[i]
    OBVIOUS
  <2>1. r[i] \in Elements(s)
    BY <1>2, <1>4 DEF Elements
  <2> QED  BY <2>1 DEF Elements
<1>6. at \in [1..n -> 1..n]
  BY <1>5
<1> HIDE DEF at
<1>7. at \in Bijection(1..n, 1..n)
  <2>1. \A i, j \in 1..n : at[i] = at[j] => i = j
    BY <1>3, <1>4, <1>5 DEF Distinct
  <2>2. ASSUME NEW j \in 1..n  PROVE \E i \in 1..n : at[i] = j
    <3>1. s[j] \in Elements(r)
      BY <1>2 DEF Elements
    <3>2. PICK i \in 1..n : r[i] = s[j]
      BY <1>4, <3>1 DEF Elements
    <3>3. s[at[i]] = s[j] /\ at[i] \in 1..n
      BY <1>5, <3>2
    <3> QED  BY <3>3 DEF Distinct
  <2> QED  BY <1>6, <2>1, <2>2 DEF Bijection, Injection, IsInjective, Surjection
<1>8. InOrder(at)
  <2> SUFFICES ASSUME NEW i \in 1..n, NEW j \in 1..n, i < j, Before(r[j], r[i])  PROVE FALSE
    BY <1>5
  <2>1. Before(r[i], r[j])
    BY <1>2, <1>4 DEF Ascending
  <2>2. r[i] \in Keys /\ r[j] \in Keys
    BY <1>4
  <2>3. Place(r[i]) < Place(r[j]) /\ Place(r[j]) < Place(r[i]) /\ Place(r[i]) \in Nat /\ Place(r[j]) \in Nat
    BY <2>1, <2>2, PlaceOrder
  <2> QED  BY <2>3
<1>9. order \in Bijection(1..n, 1..n) /\ InOrder(order)
  BY <1>7, <1>8
<1>10. Sorted(s) = [i \in 1..n |-> s[order[i]]]
  BY <1>1 DEF Sorted
<1> HIDE DEF order
<1>11. /\ order \in [1..n -> 1..n]
       /\ \A i, j \in 1..n : order[i] = order[j] => i = j
       /\ \A j \in 1..n : \E i \in 1..n : order[i] = j
  BY <1>9 DEF Bijection, Injection, IsInjective, Surjection
<1> DEFINE t == Sorted(s)
<1>12. /\ t \in [1..n -> Keys] /\ t \in Seq(Keys) /\ Len(t) = n
       /\ \A i \in 1..n : t[i] = s[order[i]]
  <2> HIDE DEF n
  <2>1. t \in [1..n -> Keys] /\ \A i \in 1..n : t[i] = s[order[i]]
    BY <1>1, <1>10, <1>11
  <2>2. t \in Seq(Keys)
    BY <1>1, <2>1
  <2>3. Len(t) = n
    BY <1>1, <2>1, <2>2, LenProperties
  <2> QED  BY <2>1, <2>2, <2>3
<1> HIDE DEF t
<1>13. Elements(t) = Elements(s)
  <2>1. Elements(t) = {s[order[i]] : i \in 1..n}
    BY <1>12 DEF Elements
  <2>2. ASSUME NEW j \in 1..n  PROVE s[j] \in {s[order[i]] : i \in 1..n}
    <3>1. PICK i \in 1..n : order[i] = j
      BY <1>11
    <3> QED  BY <3>1
  <2>3. \A i \in 1..n : order[i] \in 1..n
    BY <1>11
  <2> QED  BY <2>1, <2>2, <2>3 DEF Elements
<1>14. Ascending(t)
  <2> SUFFICES ASSUME NEW i \in 1..n, NEW j \in 1..n, i < j  PROVE Before(t[i], t[j])
    BY <1>12 DEF Ascending
  <2>1. ~Before(t[j], t[i])
    BY <1>9, <1>12
  <2>2. order[i] # order[j] /\ order[i] \in 1..n /\ order[j] \in 1..n
    <3>1. i # j
      BY <1>1
    <3> QED  BY <1>11, <3>1
  <2>3. t[i] # t[j]
    BY <1>12, <2>2 DEF Distinct
  <2>4. t[i] \in Keys /\ t[j] \in Keys
    BY <1>12
  <2>5. /\ ~(Place(t[j]) < Place(t[i])) /\ Place(t[i]) # Place(t[j])
        /\ Place(t[i]) \in Nat /\ Place(t[j]) \in Nat
    BY <2>1, <2>3, <2>4, PlaceOrder
  <2>6. Place(t[i]) < Place(t[j])
    BY <2>5
  <2> QED  BY <2>4, <2>6, PlaceOrder
<1> QED  BY <1>12, <1>13, <1>14 DEF t

\* A sequence in order followed by another whose pages come later.
LEMMA ConcatAscending ==
  ASSUME NEW s \in Seq(Keys), NEW t \in Seq(Keys), Ascending(s), Ascending(t),
         \A k \in Elements(s), l \in Elements(t) : Before(k, l)
  PROVE  /\ s \o t \in Seq(Keys)
         /\ Ascending(s \o t)
         /\ Elements(s \o t) = Elements(s) \cup Elements(t)
<1> DEFINE m == Len(s)
           n == Len(t)
           c == s \o t
<1>1. m \in Nat /\ n \in Nat
  BY LenProperties
<1>2. /\ c \in Seq(Keys) /\ Len(c) = m + n
      /\ \A i \in 1..(m + n) : c[i] = IF i <= m THEN s[i] ELSE t[i - m]
  BY ConcatProperties
<1>8. /\ Elements(c) = {c[i] : i \in 1..(m + n)}
      /\ Elements(s) = {s[i] : i \in 1..m}
      /\ Elements(t) = {t[i] : i \in 1..n}
      /\ \A i, j \in 1..m : i < j => Before(s[i], s[j])
      /\ \A i, j \in 1..n : i < j => Before(t[i], t[j])
  BY <1>2 DEF Elements, Ascending
<1> HIDE DEF c, m, n
<1>3. \A i \in 1..m : i \in 1..(m + n) /\ c[i] = s[i]
  BY <1>1, <1>2
<1>4. \A i \in 1..n : i + m \in 1..(m + n) /\ c[i + m] = t[i]
  BY <1>1, <1>2
<1>5. \A i \in 1..(m + n) : i \in 1..m \/ (~(i <= m) /\ i - m \in 1..n)
  BY <1>1
<1>6. Elements(c) = Elements(s) \cup Elements(t)
  <2>1. ASSUME NEW k \in Elements(c)  PROVE k \in Elements(s) \cup Elements(t)
    <3>1. PICK i \in 1..(m + n) : k = c[i]
      BY <1>8
    <3> QED  BY <1>2, <1>5, <1>8, <3>1
  <2>2. ASSUME NEW k \in Elements(s)  PROVE k \in Elements(c)
    BY <1>3, <1>8
  <2>3. ASSUME NEW k \in Elements(t)  PROVE k \in Elements(c)
    BY <1>4, <1>8
  <2> QED  BY <2>1, <2>2, <2>3
<1>7. Ascending(c)
  <2> SUFFICES ASSUME NEW i \in 1..(m + n), NEW j \in 1..(m + n), i < j
               PROVE  Before(c[i], c[j])
    BY <1>2 DEF Ascending
  <2>1. CASE i \in 1..m /\ j \in 1..m
    BY <1>3, <1>8, <2>1
  <2>2. CASE i \in 1..m /\ ~(j <= m)
    <3>1. c[i] = s[i] /\ c[j] = t[j - m] /\ j - m \in 1..n
      BY <1>2, <1>3, <1>5, <2>2
    <3>2. c[i] \in Elements(s) /\ c[j] \in Elements(t)
      BY <1>8, <2>2, <3>1
    <3> QED  BY <3>2
  <2>3. CASE ~(i <= m) /\ ~(j <= m)
    <3>1. c[i] = t[i - m] /\ i - m \in 1..n /\ c[j] = t[j - m] /\ j - m \in 1..n
      BY <1>2, <1>5, <2>3
    <3>2. i - m < j - m
      BY <1>1
    <3> QED  BY <1>8, <3>1, <3>2
  <2> QED  BY <1>1, <2>1, <2>2, <2>3
<1> QED  BY <1>2, <1>6, <1>7 DEF c


-----------------------------------------------------------------------------
(* The inductive invariant                                                 *)

Wanted == Window(mode, first)

\* What the threads have handed on of the window's pages.
Done ==
  {k \in Everything : /\ k[1] \in Wanted \ todo
                      /\ \A t \in Threads : on[t] = k[1] => k[2] < half[t]}

\* A page of the window waits, is on one thread, or is done with.
PagesInv ==
  /\ todo \subseteq Wanted
  /\ \A t \in Threads :
        on[t] # NoPage => on[t] \in Wanted \ todo /\ half[t] < Halves(on[t])
  /\ \A t, u \in Threads : on[t] = on[u] /\ on[t] # NoPage => t = u

\* The flag is raised, and a page skipped, only after a page of a whole document failed.
FailInv ==
  /\ failed => Whole /\ errors # {}
  /\ skipped # {} => Whole /\ errors # {}

StageInv ==
  /\ stage # "rendering" => todo = {} /\ \A t \in Threads : on[t] = NoPage
  /\ stage = "submitting" => errors = {} /\ Whole
  /\ status # "none" => stage = "done"

\* The sink holds what was handed on, once; nothing is missing while no page has failed.
HeldInv ==
  /\ Distinct(held)
  /\ Elements(held) \subseteq Done
  /\ (stage = "rendering" /\ Whole /\ errors = {}) => Done \subseteq Elements(held)

SpoolInv ==
  (mode = "print" /\ errors = {}) =>
     /\ Ascending(spool)
     /\ stage = "rendering" => Elements(spool) = {k \in Everything : k[1] < first}
     /\ stage = "submitting" => Elements(spool) = Everything

FilesInv ==
  /\ \A k \in Keys : file[k] # "absent" => mode = "files" /\ k \in Everything
  /\ mode = "files" => \A k \in Done : k[1] \in errors \/ file[k] = "complete"

SentInv ==
  /\ stage = "rendering" => sent = <<>>
  /\ sent # <<>> => errors = {} /\ Ascending(sent) /\ Elements(sent) = Everything
  /\ (mode = "fax" /\ stage = "submitting") => sent # <<>>
  /\ status = "success" => errors = {} /\ (Whole => sent # <<>>)

IInv ==
  /\ TypeOK /\ PagesInv /\ FailInv /\ StageInv
  /\ HeldInv /\ SpoolInv /\ FilesInv /\ SentInv

-----------------------------------------------------------------------------
(* The operators of the model                                              *)

\* The number of threads, which is the width of a window, and the pages.
LEMMA Widths ==
  ASSUME DocumentOutputAssumption
  PROVE  /\ Cardinality(Threads) \in Nat \ {0} /\ NPages \in Nat \ {0}
         /\ 1 \in Pages /\ NoPage \notin Pages
<1>1. Cardinality(Threads) \in Nat /\ Cardinality(Threads) # 0
  BY FS_CardinalityType, FS_EmptySet DEF DocumentOutputAssumption
<1> QED  BY <1>1 DEF DocumentOutputAssumption, Pages

\* A window is made of pages; the windows of a print job follow one another.
LEMMA Windows ==
  ASSUME DocumentOutputAssumption, NEW m, NEW p \in Pages
  PROVE  /\ Window(m, p) \subseteq Pages
         /\ m # "print" => Window(m, p) = Pages
         /\ m = "print" =>
              \A q \in Pages : q < p + Cardinality(Threads) <=> q < p \/ q \in Window(m, p)
         /\ m = "print" => \A q \in Window(m, p) : p <= q /\ q < p + Cardinality(Threads)
<1>1. Cardinality(Threads) \in Nat /\ p \in Nat /\ \A q \in Pages : q \in Nat
  BY Widths DEF Pages
<1> DEFINE n == Cardinality(Threads)
<1> HIDE DEF n
<1>2. m = "print" =>
              \A q \in Pages : q < p + n <=> q < p \/ q \in Window(m, p)
  BY <1>1 DEF Window, n
<1>3. m = "print" => \A q \in Window(m, p) : p <= q /\ q < p + n
  BY <1>1 DEF Window, n
<1>4. Window(m, p) \subseteq Pages /\ (m # "print" => Window(m, p) = Pages)
  BY DEF Window
<1> QED  BY <1>2, <1>3, <1>4 DEF n

\* Every page has a first half at least, and there is a page.
LEMMA SomePage ==
  ASSUME DocumentOutputAssumption
  PROVE  /\ \A p \in Pages : Halves(p) \in {1, 2} /\ <<p, 0>> \in Everything
         /\ Everything \subseteq Keys /\ Everything # {}
<1>1. \A p \in Pages : Halves(p) \in {1, 2} /\ <<p, 0>> \in Everything
  BY DEF Halves, Everything, Keys
<1>2. Everything # {}
  BY <1>1, Widths
<1> QED  BY <1>1, <1>2 DEF Everything

\* A window all done: every page and half of it.
LEMMA JoinedDone ==
  ASSUME todo = {}, \A t \in Threads : on[t] = NoPage, DocumentOutputAssumption
  PROVE  Done = {k \in Everything : k[1] \in Wanted}
BY Widths DEF Done, Everything, Keys

\* A half that is handed on: it was not, and is the only one.
LEMMA HandedOnDone ==
  ASSUME DocumentOutputAssumption, IInv, NEW t \in Threads,
         on[t] # NoPage, HandedOn(t), mode' = mode
  PROVE  /\ <<on[t], half[t]>> \in Everything
         /\ <<on[t], half[t]>> \notin Done
         /\ Done' = Done \cup {<<on[t], half[t]>>}
<1> DEFINE p == on[t]
           h == half[t]
<1>1. p \in Pages /\ p \in Wanted \ todo /\ h \in {0, 1} /\ h < Halves(p) /\ Halves(p) \in {1, 2}
  BY SomePage DEF IInv, TypeOK, PagesInv
<1>2. <<p, h>> \in Everything /\ <<p, h>>[1] = p /\ <<p, h>>[2] = h
  BY <1>1 DEF Everything, Keys
<1>3. <<p, h>> \notin Done
  BY <1>1, <1>2 DEF Done
<1>4. Everything' = Everything /\ Wanted' = Wanted /\ todo' = todo
  BY DEF Everything, Keys, Halves, Wanted, HandedOn
<1>5. /\ on \in [Threads -> Pages \cup {NoPage}] /\ half \in [Threads -> {0, 1}]
      /\ NoPage \notin Pages
      /\ \A u \in Threads : on[u] = p => u = t
  BY Widths DEF IInv, TypeOK, PagesInv
<1>6. \A k \in Everything : k = <<k[1], k[2]>> /\ k[1] \in Pages /\ k[2] \in {0, 1} /\ k[2] < Halves(k[1])
  BY DEF Everything, Keys
<1>7. Done'
      = {k \in Everything : k[1] \in Wanted \ todo /\ \A u \in Threads : on'[u] = k[1] => k[2] < half'[u]}
  BY <1>4 DEF Done
<1>8. ASSUME NEW k \in Everything, k[1] # p
      PROVE  k \in Done' <=> k \in Done
  <2>1. \A u \in Threads : on'[u] = k[1] <=> on[u] = k[1]
    BY <1>5, <1>6, <1>8 DEF HandedOn
  <2>2. \A u \in Threads : on[u] = k[1] => half'[u] = half[u]
    BY <1>5, <1>6, <1>8 DEF HandedOn
  <2> QED  BY <1>7, <2>1, <2>2 DEF Done
<1>9. ASSUME NEW k \in Everything, k[1] = p
      PROVE  k \in Done' <=> (k \in Done \/ k = <<p, h>>)
  <2>1. k \in Done <=> k[2] < h
    BY <1>1, <1>5, <1>9 DEF Done
  <2>2. CASE h + 1 < Halves(p)
    <3>1. h = 0 /\ half' = [half EXCEPT ![t] = 1] /\ on' = on
      BY <1>1, <2>2 DEF HandedOn
    <3>2. k \in Done' <=> k[2] < 1
      BY <1>1, <1>5, <1>7, <1>9, <3>1
    <3> QED  BY <1>6, <1>9, <2>1, <3>1, <3>2
  <2>3. CASE ~(h + 1 < Halves(p))
    <3>1. h + 1 = Halves(p) /\ on' = [on EXCEPT ![t] = NoPage] /\ half' = half
      BY <1>1, <2>3 DEF HandedOn
    <3>2. \A u \in Threads : on'[u] # p
      BY <1>1, <1>5, <3>1
    <3>3. k \in Done'
      BY <1>1, <1>7, <1>9, <3>2
    <3>4. k[2] < h \/ k[2] = h
      BY <1>1, <1>6, <1>9, <3>1
    <3> QED  BY <1>6, <1>9, <2>1, <3>3, <3>4
  <2> QED  BY <2>2, <2>3
<1>10. Done' \subseteq Everything /\ Done \subseteq Everything
  BY <1>7 DEF Done
<1>11. Done' = Done \cup {<<p, h>>}
  BY <1>2, <1>8, <1>9, <1>10
<1> QED  BY <1>2, <1>3, <1>11


-----------------------------------------------------------------------------
(* The first state                                                         *)

\* All of the first window waits, and nothing is made.
LEMMA Initially ==
  ASSUME DocumentOutputAssumption, Init
  PROVE  IInv
<1>1. first \in Pages /\ Wanted \subseteq Pages /\ todo = Wanted
  BY Widths, Windows DEF Init, Wanted
<1>2. held = <<>> /\ spool = <<>> /\ sent = <<>> /\ <<>> \in Seq(Keys)
  BY EmptySeq DEF Init
<1>3. TypeOK
  BY <1>1, <1>2 DEF Init, TypeOK
<1>4. PagesInv /\ FailInv /\ StageInv
  BY <1>1 DEF Init, PagesInv, FailInv, StageInv
<1>5. Done = {}
  BY <1>1 DEF Done
<1>6. HeldInv
  BY <1>2, <1>5, NoElements DEF HeldInv
<1>7. SpoolInv
  <2>1. \A k \in Everything : ~(k[1] < first)
    BY DEF Everything, Keys, Pages, Init
  <2>2. stage = "rendering"
    BY DEF Init
  <2> QED  BY <1>2, <2>1, <2>2, NoElements DEF SpoolInv
<1>8. FilesInv
  BY <1>5 DEF Init, FilesInv
<1>9. SentInv
  BY DEF Init, SentInv
<1> QED  BY <1>3, <1>4, <1>6, <1>7, <1>8, <1>9 DEF IInv

-----------------------------------------------------------------------------
(* The threads' steps                                                      *)

\* A page is skipped: that happens to a whole document which has failed.
LEMMA SkipKeeps ==
  ASSUME DocumentOutputAssumption, IInv, NEW t \in Threads, Skip(t)
  PROVE  IInv'
<1>1. PICK p \in todo : todo' = todo \ {p} /\ skipped' = skipped \cup {p}
  BY DEF Skip
<1>2. Whole /\ errors # {} /\ mode # "files" /\ p \in Pages
  BY DEF IInv, TypeOK, FailInv, Whole, Skip
<1>3. Everything' = Everything /\ Wanted' = Wanted /\ Whole' = Whole /\ Halves(p)' = Halves(p)
  BY DEF Everything, Keys, Halves, Wanted, Whole, Skip
<1>4. TypeOK'
  BY <1>1, <1>2 DEF IInv, TypeOK, Skip
<1>5. PagesInv'
  BY <1>1, <1>3 DEF IInv, PagesInv, Skip, Halves
<1>6. FailInv' /\ StageInv'
  BY <1>1, <1>2, <1>3 DEF IInv, FailInv, StageInv, Skip
<1>7. Done \subseteq Done'
  BY <1>1, <1>3 DEF Done, Skip
<1>8. HeldInv'
  BY <1>2, <1>7 DEF IInv, HeldInv, Skip, Elements, Distinct
<1>9. SpoolInv' /\ FilesInv' /\ SentInv'
  BY <1>2, <1>3 DEF IInv, SpoolInv, FilesInv, SentInv, Skip, Keys
<1> QED  BY <1>4, <1>5, <1>6, <1>8, <1>9 DEF IInv

\* A thread takes a page that waits, and has handed on nothing of it.
LEMMA StartKeeps ==
  ASSUME DocumentOutputAssumption, IInv, NEW t \in Threads, Start(t)
  PROVE  IInv'
<1>1. PICK p \in todo : todo' = todo \ {p} /\ on' = [on EXCEPT ![t] = p]
  BY DEF Start
<1>2. /\ half' = [half EXCEPT ![t] = 0] /\ on[t] = NoPage /\ stage = "rendering"
      /\ UNCHANGED <<mode, stage, status, first, failed, skipped, errors, held, spool, file, sent>>
  BY DEF Start
<1>3. /\ on \in [Threads -> Pages \cup {NoPage}] /\ half \in [Threads -> {0, 1}]
      /\ p \in Pages /\ NoPage \notin Pages /\ p \in Wanted /\ Halves(p) \in {1, 2}
  BY Widths, SomePage DEF IInv, TypeOK, PagesInv
<1>4. Everything' = Everything /\ Wanted' = Wanted /\ Whole' = Whole /\ \A q : Halves(q)' = Halves(q)
  BY <1>2 DEF Everything, Keys, Halves, Wanted, Whole
<1>5. TypeOK'
  BY <1>1, <1>2, <1>3 DEF IInv, TypeOK
<1>6. \A u \in Threads : on[u] # p
  BY <1>3 DEF IInv, PagesInv
<1>7. PagesInv'
  BY <1>1, <1>2, <1>3, <1>4, <1>6 DEF IInv, PagesInv, Halves
<1>8. FailInv' /\ StageInv'
  BY <1>2, <1>4 DEF IInv, FailInv, StageInv
<1>9. Done' = Done
  <2>1. ASSUME NEW k \in Everything, k[1] = p  PROVE k \notin Done' /\ k \notin Done
    <3>1. k[2] \in {0, 1}
      BY DEF Everything, Keys
    <3>2. on'[t] = k[1] /\ ~(k[2] < half'[t])
      BY <1>1, <1>2, <1>3, <2>1, <3>1
    <3> QED  BY <1>1, <2>1, <3>2 DEF Done
  <2>2. ASSUME NEW k \in Everything, k[1] # p  PROVE k \in Done' <=> k \in Done
    <3>1. k[1] \in Pages
      BY DEF Everything, Keys
    <3>2. \A u \in Threads : on'[u] = k[1] <=> on[u] = k[1]
      BY <1>1, <1>2, <1>3, <2>2, <3>1
    <3>3. \A u \in Threads : on[u] = k[1] => half'[u] = half[u]
      BY <1>2, <1>3, <3>1
    <3> QED  BY <1>1, <1>4, <2>2, <3>2, <3>3 DEF Done
  <2>3. Done' \subseteq Everything /\ Done \subseteq Everything
    BY <1>4 DEF Done
  <2> QED  BY <2>1, <2>2, <2>3
<1>10. HeldInv' /\ FilesInv'
  BY <1>2, <1>4, <1>9 DEF IInv, HeldInv, FilesInv, Keys
<1>11. SpoolInv' /\ SentInv'
  BY <1>2, <1>4 DEF IInv, SpoolInv, SentInv
<1> QED  BY <1>5, <1>7, <1>8, <1>10, <1>11 DEF IInv

\* A page that fails leaves its thread and is reported; what it had handed on stays.
LEMMA FailPageKeeps ==
  ASSUME DocumentOutputAssumption, IInv, NEW t \in Threads, on[t] # NoPage, FailPage(t),
         UNCHANGED <<mode, stage, status, held, spool, sent>>,
         file' \in [Keys -> {"absent", "partial", "complete"}],
         \A k \in Keys : file'[k] # "absent" => mode = "files" /\ k \in Everything,
         \A k \in Keys : k[1] # on[t] => file'[k] = file[k]
  PROVE  IInv'
<1>1. /\ failed' = Whole /\ errors' = errors \cup {on[t]}
      /\ on' = [on EXCEPT ![t] = NoPage] /\ UNCHANGED <<first, todo, half, skipped>>
  BY DEF FailPage
<1>2. /\ on \in [Threads -> Pages \cup {NoPage}] /\ half \in [Threads -> {0, 1}]
      /\ on[t] \in Pages /\ NoPage \notin Pages
  BY Widths DEF IInv, TypeOK
<1>3. Everything' = Everything /\ Wanted' = Wanted /\ Whole' = Whole /\ \A q : Halves(q)' = Halves(q)
  BY <1>1 DEF Everything, Keys, Halves, Wanted, Whole
<1>4. stage = "rendering"
  BY DEF IInv, TypeOK, StageInv
<1>5. TypeOK'
  BY <1>1, <1>2 DEF IInv, TypeOK, Whole
<1>6. PagesInv'
  BY <1>1, <1>2, <1>3 DEF IInv, PagesInv, Halves
<1>7. FailInv'
  BY <1>1, <1>3 DEF IInv, FailInv
<1>8. StageInv'
  BY <1>1, <1>3, <1>4 DEF IInv, StageInv
<1>9. Done \subseteq Done'
  BY <1>1, <1>2, <1>3 DEF Done, Everything, Keys
<1>10. \A k \in Done' : k[1] # on[t] => k \in Done
  BY <1>1, <1>2, <1>3 DEF Done, Everything, Keys
<1>11. HeldInv'
  BY <1>1, <1>9 DEF IInv, HeldInv
<1>12. SpoolInv'
  BY <1>1 DEF SpoolInv
<1>13. FilesInv'
  <2>1. \A k \in Done' : k \in Keys
    BY <1>3 DEF Done, Everything, Keys
  <2>2. \A k \in Keys' : file'[k] # "absent" => mode' = "files" /\ k \in Everything'
    BY <1>3 DEF Keys
  <2>3. mode' = "files" => \A k \in Done' : k[1] \in errors' \/ file'[k] = "complete"
    BY <1>1, <1>10, <2>1 DEF IInv, FilesInv
  <2> QED  BY <2>2, <2>3 DEF FilesInv
<1>14. SentInv'
  BY <1>3, <1>4 DEF IInv, SentInv, StageInv
<1> QED  BY <1>5, <1>6, <1>7, <1>8, <1>11, <1>12, <1>13, <1>14 DEF IInv

\* Rendering fails: no file changes.
LEMMA PageFailsKeeps ==
  ASSUME DocumentOutputAssumption, IInv, NEW t \in Threads, PageFails(t)
  PROVE  IInv'
<1>1. file' = file /\ file \in [Keys -> {"absent", "partial", "complete"}]
  BY DEF IInv, TypeOK, PageFails
<1>2. \A k \in Keys : file'[k] # "absent" => mode = "files" /\ k \in Everything
  BY <1>1 DEF IInv, FilesInv
<1>3. \A k \in Keys : k[1] # on[t] => file'[k] = file[k]
  BY <1>1
<1> QED  BY <1>1, <1>2, <1>3, FailPageKeeps DEF PageFails

\* Coding fails: the page's own file is removed or stays cut short.
LEMMA EncodeFailsKeeps ==
  ASSUME DocumentOutputAssumption, IInv, NEW t \in Threads, EncodeFails(t)
  PROVE  IInv'
<1>1. PICK left \in {"absent", "partial"} : file' = [file EXCEPT ![<<on[t], half[t]>>] = left]
  BY DEF EncodeFails
<1>2. <<on[t], half[t]>> \in Keys /\ file \in [Keys -> {"absent", "partial", "complete"}]
  BY DEF IInv, TypeOK, EncodeFails, Keys
<1>3. file' \in [Keys -> {"absent", "partial", "complete"}]
  BY <1>1, <1>2
<1>4. \A k \in Keys : file'[k] # "absent" => mode = "files" /\ k \in Everything
  BY <1>1, <1>2 DEF IInv, FilesInv, EncodeFails
<1>5. \A k \in Keys : k[1] # on[t] => file'[k] = file[k]
  BY <1>1, <1>2
<1> QED  BY <1>3, <1>4, <1>5, FailPageKeeps DEF EncodeFails


\* Handing on a half: the pages keep their places, and the thread goes on to the other half
\* or leaves the page.
LEMMA HandedOnKeeps ==
  ASSUME DocumentOutputAssumption, IInv, NEW t \in Threads, on[t] # NoPage, HandedOn(t),
         UNCHANGED <<mode, stage, status, spool, sent>>
  PROVE  /\ stage = "rendering"
         /\ on' \in [Threads -> Pages \cup {NoPage}] /\ half' \in [Threads -> {0, 1}]
         /\ PagesInv' /\ FailInv' /\ StageInv' /\ SpoolInv' /\ SentInv'
<1>1. /\ on \in [Threads -> Pages \cup {NoPage}] /\ half \in [Threads -> {0, 1}]
      /\ on[t] \in Pages /\ NoPage \notin Pages
      /\ Halves(on[t]) \in {1, 2} /\ half[t] < Halves(on[t])
  BY Widths, SomePage DEF IInv, TypeOK, PagesInv
<1>2. UNCHANGED <<first, todo, failed, skipped, errors>>
  BY DEF HandedOn
<1>3. Everything' = Everything /\ Wanted' = Wanted /\ Whole' = Whole /\ \A q : Halves(q)' = Halves(q)
  BY <1>2 DEF Everything, Keys, Halves, Wanted, Whole
<1>4. stage = "rendering"
  BY DEF IInv, TypeOK, StageInv
<1>5. SpoolInv' /\ SentInv' /\ FailInv' /\ StageInv'
  BY <1>2, <1>3, <1>4 DEF IInv, SpoolInv, SentInv, FailInv, StageInv
<1>6. CASE half[t] + 1 < Halves(on[t])
  <2>1. half' = [half EXCEPT ![t] = 1] /\ on' = on
    BY <1>6 DEF HandedOn
  <2>2. 1 < Halves(on[t])
    BY <1>1, <1>6
  <2>3. PagesInv'
    BY <1>1, <1>2, <1>3, <2>1, <2>2 DEF IInv, PagesInv, Halves
  <2> QED  BY <1>1, <1>4, <1>5, <2>1, <2>3
<1>7. CASE ~(half[t] + 1 < Halves(on[t]))
  <2>1. on' = [on EXCEPT ![t] = NoPage] /\ half' = half
    BY <1>7 DEF HandedOn
  <2>2. PagesInv'
    BY <1>1, <1>2, <1>3, <2>1 DEF IInv, PagesInv, Halves
  <2> QED  BY <1>1, <1>4, <1>5, <2>1, <2>2
<1> QED  BY <1>6, <1>7

\* The sink gets a half it did not hold.
LEMMA AddKeeps ==
  ASSUME DocumentOutputAssumption, IInv, NEW t \in Threads, Add(t)
  PROVE  IInv'
<1> DEFINE k == <<on[t], half[t]>>
<1>1. /\ on[t] # NoPage /\ Whole /\ held' = Append(held, k) /\ HandedOn(t)
      /\ UNCHANGED <<mode, stage, status, spool, file, sent>>
  BY DEF Add
<1>2. k \in Everything /\ k \notin Done /\ Done' = Done \cup {k}
  BY <1>1, HandedOnDone
<1>3. /\ stage = "rendering"
      /\ on' \in [Threads -> Pages \cup {NoPage}] /\ half' \in [Threads -> {0, 1}]
      /\ PagesInv' /\ FailInv' /\ StageInv' /\ SpoolInv' /\ SentInv'
  BY <1>1, HandedOnKeeps
<1>4. held \in Seq(Keys) /\ k \in Keys /\ Distinct(held) /\ Elements(held) \subseteq Done
  BY <1>2 DEF Everything, IInv, TypeOK, HeldInv
<1> DEFINE n == Len(held)
<1> HIDE DEF k
<1>5. /\ held' \in Seq(Keys) /\ Len(held') = n + 1 /\ n \in Nat
      /\ \A i \in 1..(n + 1) : held'[i] = IF i <= n THEN held[i] ELSE k
      /\ Elements(held') = Elements(held) \cup {k}
  BY <1>1, <1>4, AppendElements
<1>6. \A i \in 1..n : held[i] # k
  BY <1>2, <1>4 DEF Elements
<1>7. Distinct(held)'
  <2>1. \A i, j \in 1..n : held[i] = held[j] => i = j
    BY <1>4 DEF Distinct
  <2> HIDE DEF n
  <2>2. \A i, j \in 1..(n + 1) : held'[i] = held'[j] => i = j
    BY <1>5, <1>6, <2>1
  <2> QED  BY <1>5, <2>2 DEF Distinct
<1>8. Elements(held)' = Elements(held) \cup {k}
  BY <1>5 DEF Elements
<1>9. UNCHANGED <<first, todo, failed, skipped, errors>>
  BY <1>1 DEF HandedOn
<1>10. HeldInv'
  BY <1>1, <1>2, <1>4, <1>7, <1>8, <1>9 DEF IInv, HeldInv, Whole
<1>11. FilesInv'
  BY <1>1, <1>9 DEF IInv, FilesInv, Whole, Everything, Keys, Halves
<1>12. TypeOK'
  BY <1>1, <1>3, <1>5, <1>9 DEF IInv, TypeOK, Keys
<1> QED  BY <1>3, <1>10, <1>11, <1>12 DEF IInv

\* A file is made for the half the thread is at.
LEMMA CreateFileKeeps ==
  ASSUME DocumentOutputAssumption, IInv, NEW t \in Threads, CreateFile(t)
  PROVE  IInv'
<1> DEFINE k == <<on[t], half[t]>>
<1>1. /\ on[t] # NoPage /\ ~Whole /\ file[k] = "absent" /\ file' = [file EXCEPT ![k] = "partial"]
      /\ UNCHANGED <<mode, stage, status, loopVars, held, spool, sent>>
  BY DEF CreateFile
<1>2. on[t] \in Pages /\ half[t] \in {0, 1} /\ half[t] < Halves(on[t])
  BY <1>1 DEF IInv, TypeOK, PagesInv
<1>3. k \in Everything /\ k \in Keys
  BY <1>2 DEF Everything, Keys
<1>4. k \notin Done
  BY <1>1, <1>2 DEF Done
<1> HIDE DEF k
<1>5. /\ Everything' = Everything /\ Wanted' = Wanted /\ Whole' = Whole /\ Done' = Done
      /\ Keys' = Keys /\ \A q : Halves(q)' = Halves(q)
  BY <1>1 DEF Everything, Keys, Halves, Wanted, Whole, Done, loopVars
<1>6. file \in [Keys -> {"absent", "partial", "complete"}] /\ Done \subseteq Keys
  BY DEF IInv, TypeOK, Done, Everything
<1>7. FilesInv'
  BY <1>1, <1>3, <1>4, <1>5, <1>6 DEF IInv, FilesInv, Whole, loopVars
<1>8. TypeOK'
  BY <1>1, <1>3, <1>6 DEF IInv, TypeOK, loopVars
<1>9. PagesInv' /\ FailInv' /\ StageInv'
  BY <1>1, <1>5 DEF IInv, PagesInv, FailInv, StageInv, loopVars, Halves
<1>10. HeldInv' /\ SpoolInv' /\ SentInv'
  BY <1>1, <1>5 DEF IInv, HeldInv, SpoolInv, SentInv, loopVars
<1> QED  BY <1>7, <1>8, <1>9, <1>10 DEF IInv

\* The file of a half that is handed on is complete.
LEMMA CompleteFileKeeps ==
  ASSUME DocumentOutputAssumption, IInv, NEW t \in Threads, CompleteFile(t)
  PROVE  IInv'
<1> DEFINE k == <<on[t], half[t]>>
<1>1. /\ on[t] # NoPage /\ file[k] = "partial" /\ file' = [file EXCEPT ![k] = "complete"]
      /\ HandedOn(t) /\ UNCHANGED <<mode, stage, status, held, spool, sent>>
  BY DEF CompleteFile
<1>2. k \in Everything /\ k \notin Done /\ Done' = Done \cup {k}
  BY <1>1, HandedOnDone
<1>3. /\ stage = "rendering"
      /\ on' \in [Threads -> Pages \cup {NoPage}] /\ half' \in [Threads -> {0, 1}]
      /\ PagesInv' /\ FailInv' /\ StageInv' /\ SpoolInv' /\ SentInv'
  BY <1>1, HandedOnKeeps
<1> HIDE DEF k
<1>4. UNCHANGED <<first, todo, failed, skipped, errors>>
  BY <1>1 DEF HandedOn
<1>5. /\ file \in [Keys -> {"absent", "partial", "complete"}] /\ Done \subseteq Keys /\ k \in Keys
      /\ Everything' = Everything /\ Keys' = Keys /\ Whole' = Whole
  BY <1>1, <1>2 DEF IInv, TypeOK, Done, Everything, Keys, Halves, Whole
<1>6. mode = "files"
  BY <1>1, <1>5 DEF IInv, FilesInv
<1>7. FilesInv'
  BY <1>1, <1>2, <1>4, <1>5, <1>6 DEF IInv, FilesInv
<1>8. HeldInv'
  BY <1>1, <1>2, <1>4, <1>6 DEF IInv, HeldInv, Whole
<1>9. TypeOK'
  BY <1>1, <1>3, <1>4, <1>5 DEF IInv, TypeOK
<1> QED  BY <1>3, <1>7, <1>8, <1>9 DEF IInv

-----------------------------------------------------------------------------
(* The steps of main                                                       *)

\* The end is reached with nothing running; success is reported of a fax or print job that
\* was handed on, or of files when no page failed.
LEMMA EndKeeps ==
  ASSUME IInv, todo = {}, \A t \in Threads : on[t] = NoPage,
         UNCHANGED <<mode, loopVars, held, spool, file>>,
         stage' = "done", status' \in {"success", "failure"},
         sent' = sent \/ (sent' = spool /\ mode = "print" /\ stage = "submitting"),
         sent' # <<>> => errors = {} /\ Ascending(sent') /\ Elements(sent') = Everything,
         status' = "success" => errors = {} /\ (Whole => sent' # <<>>)
  PROVE  IInv'
<1>1. /\ Everything' = Everything /\ Wanted' = Wanted /\ Whole' = Whole /\ Done' = Done
      /\ Keys' = Keys /\ \A q : Halves(q)' = Halves(q)
  BY DEF Everything, Keys, Halves, Wanted, Whole, Done, loopVars
<1>2. TypeOK'
  BY <1>1 DEF IInv, TypeOK, loopVars
<1>3. PagesInv' /\ FailInv' /\ StageInv'
  BY <1>1 DEF IInv, PagesInv, FailInv, StageInv, loopVars, Halves
<1>4. HeldInv' /\ SpoolInv' /\ FilesInv'
  BY <1>1 DEF IInv, HeldInv, SpoolInv, FilesInv, loopVars
<1>5. SentInv'
  BY <1>1 DEF SentInv, loopVars
<1> QED  BY <1>2, <1>3, <1>4, <1>5 DEF IInv

\* main stops with an error: what may have been sent stays as it is.
LEMMA ReportKeeps ==
  ASSUME IInv, ReportPages \/ ReportFiles \/ NotDelivered \/ DispatchFax
  PROVE  IInv'
<1>1. todo = {} /\ \A t \in Threads : on[t] = NoPage
  BY DEF IInv, StageInv, ReportPages, ReportFiles, NotDelivered, DispatchFax, Joined
<1>2. /\ UNCHANGED <<mode, loopVars, held, spool, file>>
      /\ stage' = "done" /\ status' \in {"success", "failure"} /\ sent' = sent
  BY DEF ReportPages, ReportFiles, NotDelivered, DispatchFax, End
<1>3. sent' # <<>> => errors = {} /\ Ascending(sent') /\ Elements(sent') = Everything
  BY <1>2 DEF IInv, SentInv
<1>4. status' = "success" => errors = {} /\ (Whole => sent' # <<>>)
  BY <1>2 DEF IInv, SentInv, StageInv, ReportPages, ReportFiles, NotDelivered, DispatchFax, End,
     Whole
<1> QED  BY <1>1, <1>2, <1>3, <1>4, EndKeeps

\* lp gets the spool, which holds every page.
LEMMA SubmitKeeps ==
  ASSUME DocumentOutputAssumption, IInv, Submit
  PROVE  IInv'
<1>1. todo = {} /\ \A t \in Threads : on[t] = NoPage
  BY DEF IInv, StageInv, Submit
<1>2. errors = {} /\ Ascending(spool) /\ Elements(spool) = Everything
  BY DEF IInv, StageInv, SpoolInv, Submit
<1>3. spool # <<>>
  BY <1>2, NoElements, SomePage
<1> QED  BY <1>1, <1>2, <1>3, EndKeeps DEF Submit, End

\* What is in the sink when all threads are done and no page failed: the window.
LEMMA SinkHoldsWindow ==
  ASSUME DocumentOutputAssumption, IInv, Joined, Whole, errors = {}
  PROVE  /\ Sorted(held) \in Seq(Keys) /\ Ascending(Sorted(held))
         /\ Elements(Sorted(held)) = {k \in Everything : k[1] \in Wanted}
<1>1. Elements(held) = Done /\ held \in Seq(Keys) /\ Distinct(held)
  BY DEF IInv, TypeOK, HeldInv, Joined
<1>2. Done = {k \in Everything : k[1] \in Wanted}
  BY JoinedDone DEF Joined
<1> QED  BY <1>1, <1>2, SortedOrder

\* The fax is the one window of all pages.
LEMMA WriteFaxKeeps ==
  ASSUME DocumentOutputAssumption, IInv, WriteFax
  PROVE  IInv'
<1>1. /\ Joined /\ errors = {} /\ mode = "fax" /\ Whole
      /\ UNCHANGED <<mode, loopVars, spool, file>>
      /\ todo = {} /\ \A t \in Threads : on[t] = NoPage
  BY DEF WriteFax, Joined, Whole
<1>2. CASE End("failure") /\ UNCHANGED <<held, sent>>
  <2>1. sent' # <<>> => errors = {} /\ Ascending(sent') /\ Elements(sent') = Everything
    BY <1>2 DEF IInv, SentInv
  <2> QED  BY <1>1, <1>2, <2>1, EndKeeps DEF End
<1>3. CASE sent' = Sorted(held) /\ held' = <<>> /\ stage' = "submitting" /\ UNCHANGED status
  <2>1. Wanted = Pages /\ \A k \in Everything : k[1] \in Pages
    BY <1>1, Windows DEF IInv, TypeOK, Wanted, Everything, Keys
  <2>2. sent' \in Seq(Keys) /\ Ascending(sent') /\ Elements(sent') = Everything
    BY <1>1, <1>3, <2>1, SinkHoldsWindow
  <2>3. sent' # <<>>
    BY <2>2, NoElements, SomePage
  <2>4. /\ Everything' = Everything /\ Wanted' = Wanted /\ Whole' = Whole /\ Done' = Done
        /\ Keys' = Keys /\ \A q : Halves(q)' = Halves(q)
    BY <1>1 DEF Everything, Keys, Halves, Wanted, Whole, Done, loopVars
  <2>5. held' \in Seq(Keys)
    BY <1>3, EmptySeq
  <2>6. TypeOK'
    BY <1>1, <1>3, <2>2, <2>5 DEF IInv, TypeOK, loopVars, Keys
  <2>7. PagesInv' /\ FailInv' /\ StageInv'
    BY <1>1, <1>3, <2>4 DEF IInv, PagesInv, FailInv, StageInv, loopVars, Halves, Joined
  <2>8. HeldInv'
    BY <1>3, NoElements DEF HeldInv
  <2>9. SpoolInv' /\ FilesInv'
    BY <1>1, <2>4 DEF IInv, SpoolInv, FilesInv, loopVars
  <2>10. SentInv'
    <3>1. status # "success"
      BY <1>1 DEF IInv, StageInv, Joined
    <3> QED  BY <1>1, <1>3, <2>2, <2>3, <2>4, <3>1 DEF SentInv, loopVars
  <2> QED  BY <2>6, <2>7, <2>8, <2>9, <2>10 DEF IInv
<1> QED  BY <1>2, <1>3 DEF WriteFax

\* A window of the print job follows the ones before it; after the last the spool is complete.
LEMMA WriteWindowKeeps ==
  ASSUME DocumentOutputAssumption, IInv, WriteWindow
  PROVE  IInv'
<1> DEFINE n == Cardinality(Threads)
<1>1. /\ Joined /\ errors = {} /\ mode = "print" /\ Whole
      /\ spool' = spool \o Sorted(held) /\ held' = <<>>
      /\ UNCHANGED <<mode, status, on, half, failed, skipped, errors, file, sent>>
      /\ todo = {} /\ stage = "rendering" /\ \A t \in Threads : on[t] = NoPage
  BY DEF WriteWindow, Joined, Whole
<1>2. n \in Nat \ {0} /\ NPages \in Nat \ {0} /\ first \in Pages /\ spool \in Seq(Keys)
  BY Widths DEF IInv, TypeOK
<1>3. /\ Sorted(held) \in Seq(Keys) /\ Ascending(Sorted(held))
      /\ Elements(Sorted(held)) = {k \in Everything : k[1] \in Wanted}
  BY <1>1, SinkHoldsWindow
<1>4. Ascending(spool) /\ Elements(spool) = {k \in Everything : k[1] < first}
  BY <1>1 DEF IInv, SpoolInv
<1>5. \A k \in Everything : k[1] \in Pages /\ k[1] \in Nat
  BY DEF Everything, Keys, Pages
<1>6. /\ \A q \in Pages : q < first + n <=> q < first \/ q \in Wanted
      /\ \A q \in Wanted : first <= q
      /\ \A q \in Pages : q \in Nat
  BY <1>1, <1>2, Windows DEF Wanted, Pages
<1>7. \A k \in Elements(spool), l \in Elements(Sorted(held)) : Before(k, l)
  BY <1>2, <1>3, <1>4, <1>5, <1>6 DEF Before
<1>8. /\ spool' \in Seq(Keys) /\ Ascending(spool')
      /\ Elements(spool') = Elements(spool) \cup Elements(Sorted(held))
  BY <1>1, <1>2, <1>3, <1>4, <1>7, ConcatAscending
<1>9. Elements(spool') = {k \in Everything : k[1] < first + n}
  BY <1>3, <1>4, <1>5, <1>6, <1>8
<1>10. /\ Everything' = Everything /\ Whole' = Whole /\ Keys' = Keys /\ \A q : Halves(q)' = Halves(q)
  BY <1>1 DEF Everything, Keys, Halves, Whole
<1>11. held' \in Seq(Keys)
  BY <1>1, EmptySeq
<1>12. FailInv' /\ SentInv'
  <2>1. sent = <<>> /\ status # "success"
    BY <1>1 DEF IInv, SentInv, StageInv
  <2> QED  BY <1>1, <1>10, <2>1 DEF IInv, FailInv, SentInv
<1>13. CASE first + n <= NPages
  <2>1. first' = first + n /\ todo' = Window(mode, first') /\ stage' = stage
    BY <1>13 DEF WriteWindow
  <2>2. first' \in Pages
    BY <1>2, <1>13, <2>1 DEF Pages
  <2>3. todo' \subseteq Pages /\ Wanted' = todo'
    BY <1>1, <2>1, <2>2, Windows DEF Wanted
  <2>4. Done' = {}
    BY <2>3 DEF Done
  <2>5. HeldInv'
    BY <1>1, <2>4, NoElements DEF HeldInv
  <2>6. TypeOK'
    BY <1>1, <1>8, <1>11, <2>1, <2>2, <2>3 DEF IInv, TypeOK, Keys
  <2>7. PagesInv' /\ StageInv'
    BY <1>1, <2>1, <2>3 DEF IInv, PagesInv, StageInv
  <2>8. SpoolInv'
    BY <1>1, <1>8, <1>9, <1>10, <2>1 DEF SpoolInv
  <2>9. FilesInv'
    BY <1>1, <1>10, <2>4 DEF IInv, FilesInv
  <2> QED  BY <1>12, <2>5, <2>6, <2>7, <2>8, <2>9 DEF IInv
<1>14. CASE ~(first + n <= NPages)
  <2>1. stage' = "submitting" /\ first' = first /\ todo' = todo
    BY <1>14 DEF WriteWindow
  <2>2. Elements(spool') = Everything
    <3>1. \A q \in Pages : q < first + n
      BY <1>2, <1>14 DEF Pages
    <3> QED  BY <1>5, <1>9, <3>1
  <2>3. HeldInv'
    BY <1>1, <2>1, NoElements DEF HeldInv
  <2>4. Wanted' = Wanted /\ TypeOK'
    BY <1>1, <1>8, <1>11, <2>1 DEF IInv, TypeOK, Keys, Wanted
  <2>5. PagesInv' /\ StageInv'
    BY <1>1, <1>10, <2>1, <2>4 DEF IInv, PagesInv, StageInv, Joined, Whole
  <2>6. SpoolInv'
    BY <1>8, <1>10, <2>1, <2>2 DEF SpoolInv
  <2>7. FilesInv'
    BY <1>1, <1>10 DEF IInv, FilesInv
  <2> QED  BY <1>12, <2>3, <2>4, <2>5, <2>6, <2>7 DEF IInv
<1> QED  BY <1>13, <1>14


-----------------------------------------------------------------------------
(* The theorems                                                            *)

\* The inductive invariant is preserved by every step.
LEMMA NextKeeps ==
  ASSUME DocumentOutputAssumption, IInv, [Next]_vars
  PROVE  IInv'
<1>1. CASE UNCHANGED vars
  <2>1. /\ Everything' = Everything /\ Wanted' = Wanted /\ Whole' = Whole /\ Done' = Done
        /\ Keys' = Keys /\ \A q : Halves(q)' = Halves(q)
    BY <1>1 DEF Everything, Keys, Halves, Wanted, Whole, Done, loopVars, vars
  <2>2. TypeOK' /\ PagesInv' /\ FailInv' /\ StageInv'
    BY <1>1, <2>1 DEF IInv, TypeOK, PagesInv, FailInv, StageInv, loopVars, vars, Halves
  <2>3. HeldInv' /\ SpoolInv' /\ FilesInv' /\ SentInv'
    BY <1>1, <2>1 DEF IInv, HeldInv, SpoolInv, FilesInv, SentInv, loopVars, vars
  <2> QED  BY <2>2, <2>3 DEF IInv
<1>2. CASE Main
  BY <1>2, ReportKeeps, WriteWindowKeeps, SubmitKeeps, WriteFaxKeeps DEF Main
<1>3. ASSUME NEW t \in Threads, Render(t)  PROVE IInv'
  BY <1>3, SkipKeeps, StartKeeps, PageFailsKeeps, AddKeeps, CreateFileKeeps, CompleteFileKeeps,
     EncodeFailsKeeps DEF Render
<1> QED  BY <1>1, <1>2, <1>3 DEF Next

\* The inductive invariant holds in every reachable state.
THEOREM OutputInvariance == ASSUME DocumentOutputAssumption PROVE Spec => []IInv
<1>1. Init => IInv
  BY Initially
<1>2. IInv /\ [Next]_vars => IInv'
  BY NextKeeps
<1> QED  BY <1>1, <1>2, PTL DEF Spec

\* For any number of pages, threads and spreads: a document handed on, to the fax service or
\* to lp, holds every page once and in order, and no page of it failed or was skipped.
THEOREM WholeOrNothingHolds == ASSUME DocumentOutputAssumption PROVE Spec => []WholeOrNothing
<1>1. IInv => WholeOrNothing
  <2> SUFFICES ASSUME IInv, sent # <<>>
               PROVE  /\ errors = {} /\ skipped = {}
                      /\ Len(sent) = Cardinality(Everything)
                      /\ {sent[i] : i \in 1..Len(sent)} = Everything
                      /\ \A i \in 1..(Len(sent) - 1) : Before(sent[i], sent[i + 1])
    BY DEF WholeOrNothing
  <2>1. errors = {} /\ Ascending(sent) /\ Elements(sent) = Everything /\ sent \in Seq(Keys)
    BY DEF IInv, TypeOK, SentInv
  <2>2. skipped = {}
    BY <2>1 DEF IInv, FailInv
  <2>3. Len(sent) = Cardinality(Everything) /\ Len(sent) \in Nat
    BY <2>1, AscendingDistinct, DistinctLength
  <2>4. ASSUME NEW i \in 1..(Len(sent) - 1)  PROVE Before(sent[i], sent[i + 1])
    <3>1. i \in 1..Len(sent) /\ i + 1 \in 1..Len(sent) /\ i < i + 1
      BY <2>3
    <3> QED  BY <2>1, <3>1 DEF Ascending
  <2> QED  BY <2>1, <2>2, <2>3, <2>4 DEF Elements
<1> QED  BY <1>1, OutputInvariance, PTL

\* For any number of pages, threads and spreads: the program reports success only with every
\* page or half made, none reported and none skipped.
THEOREM SuccessMeansEverythingHolds ==
  ASSUME DocumentOutputAssumption PROVE Spec => []SuccessMeansEverything
<1>1. IInv => SuccessMeansEverything
  <2> SUFFICES ASSUME IInv, status = "success"
               PROVE  /\ errors = {} /\ skipped = {}
                      /\ IF Whole THEN Len(sent) = Cardinality(Everything) ELSE Written = Everything
    BY DEF SuccessMeansEverything
  <2>1. errors = {} /\ (Whole => sent # <<>>) /\ stage = "done"
    BY DEF IInv, SentInv, StageInv
  <2>2. skipped = {}
    BY <2>1 DEF IInv, FailInv
  <2>3. Whole => Len(sent) = Cardinality(Everything)
    BY <2>1, AscendingDistinct, DistinctLength DEF IInv, TypeOK, SentInv
  <2>4. ASSUME ~Whole  PROVE Written = Everything
    <3>1. Done = {k \in Everything : k[1] \in Wanted}
      BY <2>1, JoinedDone DEF IInv, StageInv
    <3>2. Wanted = Pages /\ mode = "files"
      BY <2>4, Windows DEF IInv, TypeOK, Wanted, Whole
    <3>3. \A k \in Everything : k \in Done /\ k \in Keys
      BY <3>1, <3>2 DEF Everything, Keys
    <3> QED  BY <2>1, <3>2, <3>3 DEF IInv, FilesInv, Written
  <2> QED  BY <2>1, <2>2, <2>3, <2>4
<1> QED  BY <1>1, OutputInvariance, PTL

\* For any number of pages, threads and spreads: at the end of a run that writes files each
\* page is reported or has its files complete, and the variables keep their types.
THEOREM PagesAccountedForHolds ==
  ASSUME DocumentOutputAssumption PROVE Spec => []PagesAccountedFor
<1>1. IInv => PagesAccountedFor
  <2> SUFFICES ASSUME IInv, stage = "done", mode = "files", NEW k \in Everything
               PROVE  k[1] \in errors \/ file[k] = "complete"
    BY DEF IInv, PagesAccountedFor
  <2>1. Done = {l \in Everything : l[1] \in Wanted}
    BY JoinedDone DEF IInv, StageInv
  <2>2. Wanted = Pages
    BY Windows DEF IInv, TypeOK, Wanted
  <2>3. k \in Done
    BY <2>1, <2>2 DEF Everything, Keys
  <2> QED  BY <2>3 DEF IInv, FilesInv
<1> QED  BY <1>1, OutputInvariance, PTL

\* For any number of pages, threads and spreads: printing holds no more coded pages than the
\* halves of one window, pages that failed in the window included.
THEOREM OneWindowHeldHolds == ASSUME DocumentOutputAssumption PROVE Spec => []OneWindowHeld
<1>1. IInv => OneWindowHeld
  <2> SUFFICES ASSUME IInv, mode = "print"  PROVE Len(held) <= 2 * Cardinality(Threads)
    BY DEF OneWindowHeld
  <2> DEFINE n == Cardinality(Threads)
             last == first + n - 1
  <2>1. held \in Seq(Keys) /\ Distinct(held) /\ Elements(held) \subseteq Done
    BY DEF IInv, TypeOK, HeldInv
  <2>2. Cardinality(Elements(held)) = Len(held) /\ Len(held) \in Nat
    BY <2>1, DistinctLength
  <2>3. n \in Nat /\ first \in Nat
    BY Widths DEF IInv, TypeOK, Pages
  <2>4. \A p \in Wanted : p \in first..last
    <3>1. \A p \in Wanted : p \in Nat /\ first <= p /\ p < first + n
      BY Windows DEF IInv, TypeOK, Wanted, Pages
    <3> HIDE DEF n
    <3> QED  BY <2>3, <3>1
  <2>5. \A k \in Done : k \in (first..last) \X {0, 1}
    BY <2>4 DEF Done, Everything, Keys
  <2>6. Elements(held) \in SUBSET ((first..last) \X {0, 1})
    BY <2>1, <2>5
  <2>7. IsFiniteSet(first..last) /\ Cardinality(first..last) = n
    <3> HIDE DEF n
    <3>1. first \in Int /\ last \in Int
      BY <2>3
    <3>2. IsFiniteSet(first..last)
          /\ Cardinality(first..last) = IF first > last THEN 0 ELSE last - first + 1
      BY <3>1, FS_Interval
    <3> QED  BY <2>3, <3>2
  <2>8. IsFiniteSet({0, 1}) /\ Cardinality({0, 1}) = 2
    <3>1. IsFiniteSet({0}) /\ Cardinality({0}) = 1
      BY FS_Singleton
    <3>2. IsFiniteSet({0} \cup {1}) /\ Cardinality({0} \cup {1}) = 1 + 1
      BY <3>1, FS_AddElement, 1 \notin {0}
    <3> QED  BY <3>2, {0} \cup {1} = {0, 1}
  <2> HIDE DEF n, last
  <2>9. IsFiniteSet((first..last) \X {0, 1}) /\ Cardinality((first..last) \X {0, 1}) = n * 2
    BY <2>7, <2>8, FS_Product
  <2>10. Cardinality(Elements(held)) <= n * 2
    BY <2>6, <2>9, FS_Subset
  <2> QED  BY <2>2, <2>3, <2>10 DEF n
<1> QED  BY <1>1, OutputInvariance, PTL

-----------------------------------------------------------------------------
(* What a document's objects may be                                        *)

\* What an object, a filter that is read, or a derived value may be.
ValuesOf(doc, kind, s) == {v \in Values : MayBe(doc, <<kind, s>>, v)}

\* The same in full.
LEMMA ValuesAre ==
  ASSUME NEW doc, NEW kind, NEW s, NEW v
  PROVE  v \in ValuesOf(doc, kind, s) <=>
           /\ v \in Values
           /\ v = "whole" => ~Endless(doc, s)
           /\ v = "wrong" => \A C \in Within(doc, kind, s) : C \cap Parms # {}
           /\ v # "whole" => \A C \in Within(doc, kind, s) : \E x \in C : CutAt(doc, x)
<1>1. <<kind, s>>[1] = kind /\ <<kind, s>>[2] = s
  OBVIOUS
<1> QED  BY <1>1 DEF ValuesOf, MayBe

\* What an object needs is what its stream needs, and a derived value needs that too.
LEMMA WithinParts ==
  ASSUME NEW doc \in Documents, NEW kind, NEW s \in Streams,
         NEW C \in Within(doc, kind, s)
  PROVE  /\ C \in SUBSET Streams /\ s \in C /\ C \in Within(doc, "stream", s)
         /\ kind # "derived" => \A k : k # "derived" => C \in Within(doc, k, s)
         /\ doc[s] # File => C \in Within(doc, "stream", doc[s])
         /\ kind = "derived" /\ Uses[s] # Nothing => C \in Within(doc, "derived", Uses[s])
<1>1. /\ doc \in [Streams -> Streams \cup {File}] /\ Uses \in [Streams -> Streams \cup {Nothing}]
      /\ File \notin Streams /\ Nothing \notin Streams
  BY DocumentObjectsAssumption
<1>2. C \in SUBSET Streams /\ s \in C /\ Closed(doc, kind, C)
  BY DEF Within
<1>3. \A x \in C : Needs(doc, kind, x) \subseteq C
  BY <1>2 DEF Closed
<1>4. ASSUME NEW x \in C  PROVE  doc[x] # File => doc[x] \in C
  <2>1. x \in Streams /\ doc[x] \in Streams \cup {File}
    BY <1>1, <1>2
  <2>2. doc[x] # File => doc[x] \in Needs(doc, kind, x)
    BY <1>1, <2>1 DEF Needs
  <2> QED  BY <1>3, <2>2
<1>5. ASSUME NEW k, k # "derived"  PROVE  Closed(doc, k, C)
  BY <1>4, <1>5 DEF Closed, Needs
<1>6. ASSUME kind = "derived", NEW x \in C  PROVE  Uses[x] # Nothing => Uses[x] \in C
  <2>1. Uses[x] \in Streams \cup {Nothing}
    BY <1>1, <1>2
  <2>2. Uses[x] # Nothing => Uses[x] \in Needs(doc, kind, x)
    BY <1>1, <1>6, <2>1 DEF Needs
  <2> QED  BY <1>3, <2>2
<1>7. Closed(doc, "stream", C)
  BY <1>5
<1> QED  BY <1>2, <1>4, <1>5, <1>6, <1>7 DEF Within

\* An object, a filter and its reading may be the same.
LEMMA SameValues ==
  ASSUME NEW doc \in Documents, NEW s \in Streams, NEW kind, NEW k,
         kind # "derived", k # "derived", NEW v \in ValuesOf(doc, kind, s)
  PROVE  v \in ValuesOf(doc, k, s)
<1>1. \A C \in Within(doc, k, s) : C \in Within(doc, kind, s)
  BY WithinParts
<1> QED  BY <1>1, ValuesAre

\* A stream is read from the file whole.
LEMMA DirectIsWhole ==
  ASSUME NEW doc \in Documents, NEW s \in Streams, doc[s] = File
  PROVE  "whole" \in ValuesOf(doc, "read", s)
<1>1. ~Endless(doc, s)
  BY DocumentObjectsAssumption DEF Endless
<1> QED  BY <1>1, ValuesAre DEF Values

\* The limit leaves out what it cuts.
LEMMA LimitCuts ==
  ASSUME NEW doc \in Documents, NEW s \in Streams, NEW d \in 0..MaxNesting,
         d >= MaxNesting, doc[s] # File, Reached(doc, s, d)
  PROVE  "missing" \in ValuesOf(doc, "read", s)
<1>1. d = MaxNesting
  BY DocumentObjectsAssumption
<1>2. CutAt(doc, s)
  BY <1>1 DEF CutAt
<1>3. \A C \in Within(doc, "read", s) : s \in C
  BY WithinParts
<1> QED  BY <1>2, <1>3, ValuesAre DEF Values

\* A stream is what its filter is, or raw.
LEMMA InlinedIs ==
  ASSUME NEW doc \in Documents, NEW s \in Streams, NEW v \in ValuesOf(doc, "read", s),
         NEW w \in Inlined(v)
  PROVE  w \in ValuesOf(doc, "stream", s)
<1>1. v \in ValuesOf(doc, "stream", s)
  BY SameValues
<1>2. w = v \/ (w = "raw" /\ v # "whole")
  BY DEF Inlined
<1>3. "raw" \in Values
  BY DEF Values
<1> QED  BY <1>1, <1>2, <1>3, ValuesAre

\* What decoding a stream gives, it may itself be.
LEMMA DecodesIs ==
  ASSUME NEW doc \in Documents, NEW s \in Streams, NEW v \in ValuesOf(doc, "stream", s),
         NEW w \in Decodes(s, v)
  PROVE  w \in ValuesOf(doc, "stream", s) /\ w \in {"whole", "wrong", "missing"}
<1>0. v \in Values
  BY ValuesAre
<1>1. \/ w = "whole" /\ v = "whole"
      \/ w = "missing" /\ v # "whole"
      \/ w = "wrong" /\ v = "raw" /\ s \in Parms
      \/ w = "wrong" /\ v = "wrong"
  BY <1>0 DEF Decodes, Values
<1>2. \A C \in Within(doc, "stream", s) : s \in C
  BY WithinParts
<1> QED  BY <1>1, <1>2, ValuesAre DEF Values

\* So is what is found in it.
LEMMA FoundIs ==
  ASSUME NEW doc, NEW kind, NEW s, NEW v \in ValuesOf(doc, kind, s), NEW w \in Found(v)
  PROVE  w \in ValuesOf(doc, kind, s)
<1>1. w = v \/ (w = "missing" /\ v = "wrong")
  BY DEF Found
<1>2. "missing" \in Values
  BY DEF Values
<1> QED  BY <1>1, <1>2, ValuesAre

\* A filter may be what its container may be.
LEMMA ContainerIs ==
  ASSUME NEW doc \in Documents, NEW s \in Streams, doc[s] # File,
         NEW v \in ValuesOf(doc, "stream", doc[s])
  PROVE  v \in ValuesOf(doc, "read", s)
<1>1. \A C \in Within(doc, "read", s) : C \in Within(doc, "stream", doc[s])
  BY WithinParts
<1>2. Endless(doc, s) => Endless(doc, doc[s])
  BY DEF Endless
<1> QED  BY <1>1, <1>2, ValuesAre

\* A derived value may be what its stream may be.
LEMMA StreamIs ==
  ASSUME NEW doc \in Documents, NEW s \in Streams, NEW v \in ValuesOf(doc, "stream", s)
  PROVE  v \in ValuesOf(doc, "derived", s)
<1>1. \A C \in Within(doc, "derived", s) : C \in Within(doc, "stream", s)
  BY WithinParts
<1> QED  BY <1>1, ValuesAre

\* And what another value it needs is, if its stream is whole.
LEMMA UsedIs ==
  ASSUME NEW doc \in Documents, NEW s \in Streams, Uses[s] # Nothing,
         "whole" \in ValuesOf(doc, "stream", s), NEW v \in ValuesOf(doc, "derived", Uses[s])
  PROVE  v \in ValuesOf(doc, "derived", s)
<1>1. \A C \in Within(doc, "derived", s) : C \in Within(doc, "derived", Uses[s])
  BY WithinParts
<1>2. ~Endless(doc, s)
  BY ValuesAre
<1> QED  BY <1>1, <1>2, ValuesAre

\* A page starts where it is.
LEMMA ReachedAtOnce ==
  ASSUME NEW doc, NEW s \in Streams
  PROVE  Reached(doc, s, 0)
<1> DEFINE path == [i \in 0..0 |-> s]
<1>1. path \in [0..0 -> Streams] /\ path[0] = s /\ \A i \in 1..0 : path[i] = doc[path[i - 1]]
  OBVIOUS
<1> QED  BY <1>1 DEF Reached

\* And gets to the container from the filter.
LEMMA ReachedNext ==
  ASSUME NEW doc \in Documents, NEW s \in Streams, doc[s] # File, NEW d \in Nat, Reached(doc, s, d)
  PROVE  Reached(doc, doc[s], d + 1)
<1>1. doc[s] \in Streams
  BY DocumentObjectsAssumption
<1>2. PICK path \in [0..d -> Streams] :
         path[d] = s /\ \A i \in 1..d : path[i] = doc[path[i - 1]]
  BY DEF Reached
<1> DEFINE longer == [i \in 0..(d + 1) |-> IF i <= d THEN path[i] ELSE doc[s]]
<1>3. longer \in [0..(d + 1) -> Streams] /\ longer[d + 1] = doc[s]
  BY <1>1, <1>2
<1>4. ASSUME NEW i \in 1..(d + 1)  PROVE  longer[i] = doc[longer[i - 1]]
  <2>1. CASE i = d + 1
    <3>1. i - 1 = d /\ longer[i - 1] = path[d]
      BY <2>1
    <3> QED  BY <1>2, <1>3, <2>1, <3>1
  <2>2. CASE i # d + 1
    <3>1. i \in 1..d /\ i - 1 \in 0..d /\ longer[i] = path[i] /\ longer[i - 1] = path[i - 1]
      BY <2>2
    <3> QED  BY <1>2, <3>1
  <2> QED  BY <2>1, <2>2
<1> QED  BY <1>3, <1>4 DEF Reached

-----------------------------------------------------------------------------
(* The calls of a thread                                                   *)

\* The innermost call of a stack, and the others.
LEMMA StackParts ==
  ASSUME NEW S, NEW s \in Seq(S), s # <<>>
  PROVE  /\ Len(s) \in Nat \ {0}
         /\ Head(s) = s[1] /\ s[1] \in S
         /\ Tail(s) \in Seq(S) /\ Len(Tail(s)) = Len(s) - 1
         /\ \A i \in 1..(Len(s) - 1) : Tail(s)[i] = s[i + 1]
<1>1. Len(s) \in Nat \ {0} /\ Head(s) = s[1] /\ Tail(s) \in Seq(S) /\ Len(Tail(s)) = Len(s) - 1
  BY LenProperties, EmptySeq, HeadTailProperties
<1>2. s[1] \in S
  BY <1>1, ElementOfSeq
<1> QED  BY <1>1, <1>2, HeadTailProperties

\* A call made by another, which goes on to h.
LEMMA CallParts ==
  ASSUME NEW S, NEW s \in Seq(S), s # <<>>, NEW f \in S, NEW h \in S
  PROVE  LET r == <<f, h>> \o Tail(s) IN
         /\ r \in Seq(S) /\ r # <<>> /\ Head(r) = f
         /\ Tail(r) \in Seq(S) /\ Tail(r) # <<>> /\ Head(Tail(r)) = h
         /\ Tail(Tail(r)) = Tail(s)
<1> DEFINE r == <<f, h>> \o Tail(s)
           n == Len(s)
<1>1. n \in Nat \ {0} /\ Tail(s) \in Seq(S) /\ Len(Tail(s)) = n - 1
  BY StackParts
<1>2. <<f, h>> \in Seq(S) /\ Len(<<f, h>>) = 2 /\ <<f, h>>[1] = f /\ <<f, h>>[2] = h
  OBVIOUS
<1> DEFINE k == <<f, h>>
<1>3. k \in Seq(S) /\ Len(k) = 2 /\ k[1] = f /\ k[2] = h
  BY <1>2
<1> HIDE DEF k, n
<1>4. /\ k \o Tail(s) \in Seq(S) /\ Len(k \o Tail(s)) = n + 1
      /\ \A i \in 1..(n + 1) : (k \o Tail(s))[i] = IF i <= 2 THEN k[i] ELSE Tail(s)[i - 2]
  <2>1. Len(k) + Len(Tail(s)) = n + 1
    BY <1>1, <1>3
  <2>2. /\ k \o Tail(s) \in Seq(S) /\ Len(k \o Tail(s)) = Len(k) + Len(Tail(s))
        /\ \A i \in 1..(Len(k) + Len(Tail(s))) :
             (k \o Tail(s))[i] = IF i <= Len(k) THEN k[i] ELSE Tail(s)[i - Len(k)]
    BY <1>1, <1>3, ConcatProperties
  <2> QED  BY <1>3, <2>1, <2>2
<1>5. r = k \o Tail(s)
  BY DEF k
<1>6. r \in Seq(S) /\ Len(r) = n + 1 /\ r[1] = f /\ r[2] = h /\ \A i \in 1..(n - 1) : r[i + 2] = Tail(s)[i]
  <2> HIDE DEF r
  <2>1. \A i \in 1..(n - 1) : i + 2 \in 1..(n + 1) /\ ~(i + 2 <= 2) /\ (i + 2) - 2 = i
    BY <1>1
  <2> QED  BY <1>1, <1>3, <1>4, <1>5, <2>1
<1> HIDE DEF r
<1>7. r # <<>> /\ Head(r) = f /\ Tail(r) \in Seq(S) /\ Len(Tail(r)) = n
      /\ \A i \in 1..n : Tail(r)[i] = r[i + 1]
  <2>1. r # <<>>
    BY <1>1, <1>6, EmptySeq
  <2> QED  BY <1>1, <1>6, <2>1, StackParts
<1>8. /\ Tail(r) # <<>> /\ Head(Tail(r)) = h
      /\ Tail(Tail(r)) \in Seq(S) /\ Len(Tail(Tail(r))) = n - 1
      /\ \A i \in 1..(n - 1) : Tail(Tail(r))[i] = Tail(r)[i + 1]
  <2>1. Tail(r) # <<>>
    BY <1>1, <1>7, EmptySeq
  <2>2. Tail(r)[1] = h
    BY <1>1, <1>6, <1>7
  <2> QED  BY <1>1, <1>7, <2>1, <2>2, StackParts
<1>9. \A i \in 1..(n - 1) : Tail(Tail(r))[i] = Tail(s)[i]
  <2>1. \A i \in 1..(n - 1) : i + 1 \in 1..n /\ (i + 1) + 1 = i + 2
    BY <1>1
  <2> QED  BY <1>6, <1>7, <1>8, <2>1
<1>10. Tail(Tail(r)) = Tail(s)
  BY <1>1, <1>8, <1>9, SeqEqual
<1> QED  BY <1>6, <1>7, <1>8, <1>10 DEF r

-----------------------------------------------------------------------------
(* The inductive invariants                                                *)

\* What may be left to do, when a call has made another and before.
Decoded == {"whole", "wrong", "missing"}
Waiting == {"store", "open", "use"} \cup Decoded
Steps == {"enter"} \cup Waiting

\* A call that makes a derived value, and the values the calls of a stack make.
Making(f) == f.kind = "derived" /\ f.after # "enter"
Made(s) == {s[i].on : i \in {j \in 1..Len(s) : Making(s[j])}}
MakesOnce(s) ==
  \A i, j \in 1..Len(s) : Making(s[i]) /\ Making(s[j]) /\ s[i].on = s[j].on => i = j

\* The thread a cell names, and it alone, makes the value, in one call.
MakersInv ==
  \A t \in Threads :
    /\ MakesOnce(stack[t])
    /\ \A s \in Streams : s \in Made(stack[t]) <=> cell[s] = t

\* A call opens the container of a filter that has one.
Opens(doc, s) == \A i \in 1..Len(s) : s[i].after = "open" => doc[s[i].on] # File
OpensInv == \A t \in Threads : Opens(filterIn, stack[t])

\* What a call waits for, when it has made another.
Awaited(doc, f) ==
  CASE f.after = "store"      -> <<"read", f.on>>
    [] f.after = "open"       -> <<"stream", doc[f.on]>>
    [] f.after = "use"        -> <<"stream", f.on>>
    [] f.after = "enter"      -> <<"nothing", f.on>>
    [] f.after \in Decoded    -> <<"derived", Uses[f.on]>>

\* A call is as deep as the chain that leads to it is long, and has got as far as the
\* document lets it.
FrameOK(doc, f) ==
  /\ f.kind # "derived" => Reached(doc, f.on, f.depth)
  /\ f.after = "store" => f.kind \in Kinds
  /\ f.after = "open" => f.kind = "read"
  /\ f.after = "use" => f.kind = "derived"
  /\ f.after \in Decoded =>
       /\ f.kind = "derived" /\ Uses[f.on] # Nothing
       /\ f.after \in ValuesOf(doc, "stream", f.on)

\* Each call of a stack waits for the one above it.
StackOK(doc, s) ==
  /\ \A i \in 1..Len(s) : FrameOK(doc, s[i])
  /\ \A i \in 1..Len(s) : i + 1 <= Len(s) =>
       s[i + 1].after # "enter" /\ Awaited(doc, s[i + 1]) = <<s[i].kind, s[i].on>>
Bottom(s) == s[Len(s)]

\* v answers the call f, which waits.
Answers(doc, f, v) ==
  f.after # "enter" /\ v \in ValuesOf(doc, Awaited(doc, f)[1], Awaited(doc, f)[2])

\* A thread with the stack s, the last answer v and the request q.
CallsOK(doc, s, v, q) ==
  /\ StackOK(doc, s)
  /\ s # <<>> => q = <<Bottom(s).kind, Bottom(s).on>>
  /\ s # <<>> /\ v # "none" => Answers(doc, Head(s), v)
  /\ s = <<>> /\ q # Nothing => v \in ValuesOf(doc, q[1], q[2])

CacheInv == \A o \in Objects : cache[o] # "none" => cache[o] \in ValuesOf(filterIn, o[1], o[2])
OpenedInv ==
  \A s \in Streams : opened[s] # "none" => opened[s] \in ValuesOf(filterIn, "stream", s)
CellInv ==
  \A s \in Streams : cell[s] \in Values => cell[s] \in ValuesOf(filterIn, "derived", s)
MemoInv == CacheInv /\ OpenedInv /\ CellInv
CallsInv == \A t \in Threads : CallsOK(filterIn, stack[t], answer[t], asked[t])

-----------------------------------------------------------------------------
(* The invariants, from the top of a stack downwards                       *)

\* The values the calls of a stack make are those the calls below the first make, and the
\* one the first makes.
LEMMA MadeParts ==
  ASSUME NEW s \in Seq(Frame), s # <<>>
  PROVE  /\ Made(s) = Made(Tail(s)) \cup (IF Making(Head(s)) THEN {Head(s).on} ELSE {})
         /\ MakesOnce(s) <=> /\ MakesOnce(Tail(s))
                             /\ Making(Head(s)) => Head(s).on \notin Made(Tail(s))
<1> DEFINE n == Len(s)
           b == Tail(s)
<1>1. /\ n \in Nat \ {0} /\ Head(s) = s[1] /\ Len(b) = n - 1
      /\ \A i \in 1..(n - 1) : b[i] = s[i + 1]
  BY StackParts
<1>2. /\ Made(s) = {s[i].on : i \in {j \in 1..n : Making(s[j])}}
      /\ Made(b) = {b[i].on : i \in {j \in 1..(n - 1) : Making(b[j])}}
      /\ MakesOnce(s) <=> \A i, j \in 1..n :
           Making(s[i]) /\ Making(s[j]) /\ s[i].on = s[j].on => i = j
      /\ MakesOnce(b) <=> \A i, j \in 1..(n - 1) :
           Making(b[i]) /\ Making(b[j]) /\ b[i].on = b[j].on => i = j
  BY <1>1 DEF Made, MakesOnce
<1>3. \A i \in 1..n : i = 1 \/ (i - 1 \in 1..(n - 1) /\ s[i] = b[i - 1])
  <2>1. \A i \in 1..n : i = 1 \/ (i - 1 \in 1..(n - 1) /\ (i - 1) + 1 = i)
    BY <1>1
  <2> QED  BY <1>1, <2>1
<1>4. \A i \in 1..(n - 1) : i + 1 \in 1..n /\ i + 1 # 1 /\ s[i + 1] = b[i]
  BY <1>1
<1>5. 1 \in 1..n
  BY <1>1
<1> HIDE DEF n, b
<1>6. Made(s) = Made(b) \cup (IF Making(s[1]) THEN {s[1].on} ELSE {})
  <2>1. ASSUME NEW v \in Made(s)  PROVE  v \in Made(b) \/ (Making(s[1]) /\ v = s[1].on)
    <3>1. PICK i \in 1..n : Making(s[i]) /\ v = s[i].on
      BY <1>2
    <3> QED  BY <1>2, <1>3, <3>1
  <2>2. ASSUME NEW v \in Made(b)  PROVE  v \in Made(s)
    <3>1. PICK i \in 1..(n - 1) : Making(b[i]) /\ v = b[i].on
      BY <1>2
    <3> QED  BY <1>2, <1>4, <3>1
  <2>3. Making(s[1]) => s[1].on \in Made(s)
    BY <1>2, <1>5
  <2> QED  BY <2>1, <2>2, <2>3
<1>7. ASSUME MakesOnce(s)  PROVE  MakesOnce(b) /\ (Making(s[1]) => s[1].on \notin Made(b))
  <2>1. ASSUME NEW i \in 1..(n - 1), NEW j \in 1..(n - 1),
               Making(b[i]), Making(b[j]), b[i].on = b[j].on
        PROVE  i = j
    <3>1. i + 1 = j + 1
      BY <1>2, <1>4, <1>7, <2>1
    <3> QED  BY <3>1, <1>1
  <2>2. ASSUME Making(s[1]), s[1].on \in Made(b)  PROVE FALSE
    <3>1. PICK i \in 1..(n - 1) : Making(b[i]) /\ s[1].on = b[i].on
      BY <1>2, <2>2
    <3> QED  BY <1>2, <1>4, <1>5, <1>7, <2>2, <3>1
  <2> QED  BY <1>2, <2>1, <2>2
<1>8. ASSUME MakesOnce(b), Making(s[1]) => s[1].on \notin Made(b)  PROVE  MakesOnce(s)
  <2> SUFFICES ASSUME NEW i \in 1..n, NEW j \in 1..n,
                      Making(s[i]), Making(s[j]), s[i].on = s[j].on
               PROVE  i = j
    BY <1>2
  <2>1. CASE i = 1 /\ j = 1
    BY <2>1
  <2>2. CASE i = 1 /\ j # 1
    <3>1. j - 1 \in 1..(n - 1) /\ s[j] = b[j - 1]
      BY <1>3, <2>2
    <3>2. s[j].on \in Made(b)
      BY <1>2, <3>1
    <3> QED  BY <1>8, <2>2, <3>2
  <2>3. CASE i # 1 /\ j = 1
    <3>1. i - 1 \in 1..(n - 1) /\ s[i] = b[i - 1]
      BY <1>3, <2>3
    <3>2. s[i].on \in Made(b)
      BY <1>2, <3>1
    <3> QED  BY <1>8, <2>3, <3>2
  <2>4. CASE i # 1 /\ j # 1
    <3>1. i - 1 \in 1..(n - 1) /\ s[i] = b[i - 1] /\ j - 1 \in 1..(n - 1) /\ s[j] = b[j - 1]
      BY <1>3, <2>4
    <3>2. i - 1 = j - 1
      BY <1>2, <1>8, <3>1
    <3> QED  BY <3>2
  <2> QED  BY <2>1, <2>2, <2>3, <2>4
<1> QED  BY <1>1, <1>6, <1>7, <1>8 DEF b

\* If the first makes none, they are those of the others.
LEMMA MadeBelow ==
  ASSUME NEW s \in Seq(Frame), s # <<>>, ~Making(Head(s))
  PROVE  Made(s) = Made(Tail(s)) /\ (MakesOnce(s) <=> MakesOnce(Tail(s)))
<1>1. /\ Made(s) = Made(Tail(s)) \cup (IF Making(Head(s)) THEN {Head(s).on} ELSE {})
      /\ MakesOnce(s) <=> MakesOnce(Tail(s)) /\ (Making(Head(s)) => Head(s).on \notin Made(Tail(s)))
  BY MadeParts
<1> QED  BY <1>1

\* If it makes one, no other call makes it.
LEMMA MadeFirst ==
  ASSUME NEW s \in Seq(Frame), s # <<>>, Making(Head(s))
  PROVE  /\ Made(s) = Made(Tail(s)) \cup {Head(s).on}
         /\ MakesOnce(s) <=> MakesOnce(Tail(s)) /\ Head(s).on \notin Made(Tail(s))
<1>1. /\ Made(s) = Made(Tail(s)) \cup (IF Making(Head(s)) THEN {Head(s).on} ELSE {})
      /\ MakesOnce(s) <=> MakesOnce(Tail(s)) /\ (Making(Head(s)) => Head(s).on \notin Made(Tail(s)))
  BY MadeParts
<1> QED  BY <1>1

\* Each call of a stack waits for the one above it: the second for the first, and so on.
LEMMA StackOKParts ==
  ASSUME NEW doc, NEW s \in Seq(Frame), s # <<>>
  PROVE  StackOK(doc, s) <=>
           /\ FrameOK(doc, Head(s)) /\ StackOK(doc, Tail(s))
           /\ Tail(s) # <<>> => /\ Head(Tail(s)).after # "enter"
                                /\ Awaited(doc, Head(Tail(s))) = <<Head(s).kind, Head(s).on>>
<1> DEFINE n == Len(s)
           b == Tail(s)
           Waits(f, h) == f.after # "enter" /\ Awaited(doc, f) = <<h.kind, h.on>>
<1>1. /\ n \in Nat \ {0} /\ Head(s) = s[1] /\ b \in Seq(Frame) /\ Len(b) = n - 1
      /\ \A i \in 1..(n - 1) : b[i] = s[i + 1]
  BY StackParts
<1>2. b # <<>> => n - 1 # 0 /\ Head(b) = b[1]
  BY <1>1, StackParts
<1>3. b = <<>> => n - 1 = 0
  BY <1>1, EmptySeq
<1>4. /\ StackOK(doc, s) <=> /\ \A i \in 1..n : FrameOK(doc, s[i])
                             /\ \A i \in 1..n : i + 1 <= n => Waits(s[i + 1], s[i])
      /\ StackOK(doc, b) <=> /\ \A i \in 1..(n - 1) : FrameOK(doc, b[i])
                             /\ \A i \in 1..(n - 1) : i + 1 <= n - 1 => Waits(b[i + 1], b[i])
  BY <1>1 DEF StackOK
<1> SUFFICES StackOK(doc, s) <=>
               FrameOK(doc, s[1]) /\ StackOK(doc, b) /\ (b # <<>> => Waits(b[1], s[1]))
  BY <1>1, <1>2
<1> HIDE DEF n, b, Waits
<1>5. \A i \in 1..n : i = 1 \/ (i - 1 \in 1..(n - 1) /\ (i - 1) + 1 = i)
  BY <1>1
<1>6. ASSUME StackOK(doc, s)
      PROVE  FrameOK(doc, s[1]) /\ StackOK(doc, b) /\ (b # <<>> => Waits(b[1], s[1]))
  <2>1. FrameOK(doc, s[1]) /\ \A i \in 1..(n - 1) : FrameOK(doc, b[i])
    BY <1>1, <1>4, <1>6
  <2>2. ASSUME NEW i \in 1..(n - 1), i + 1 <= n - 1  PROVE  Waits(b[i + 1], b[i])
    <3>1. i + 1 \in 1..(n - 1) /\ i + 1 \in 1..n /\ (i + 1) + 1 <= n
      BY <1>1, <2>2
    <3>2. b[i + 1] = s[(i + 1) + 1] /\ b[i] = s[i + 1]
      BY <1>1, <3>1
    <3> QED  BY <1>4, <1>6, <3>1, <3>2
  <2>3. b # <<>> => Waits(b[1], s[1])
    <3> SUFFICES ASSUME b # <<>>  PROVE  Waits(b[1], s[1])
      OBVIOUS
    <3>1. 1 \in 1..(n - 1) /\ 1 \in 1..n /\ 1 + 1 <= n
      BY <1>1, <1>2
    <3> QED  BY <1>1, <1>4, <1>6, <3>1
  <2> QED  BY <1>4, <2>1, <2>2, <2>3
<1>7. ASSUME FrameOK(doc, s[1]), StackOK(doc, b), b # <<>> => Waits(b[1], s[1])
      PROVE  StackOK(doc, s)
  <2>1. ASSUME NEW i \in 1..n  PROVE  FrameOK(doc, s[i])
    BY <1>1, <1>4, <1>5, <1>7
  <2>2. ASSUME NEW i \in 1..n, i + 1 <= n  PROVE  Waits(s[i + 1], s[i])
    <3>1. i \in 1..(n - 1) /\ s[i + 1] = b[i]
      BY <1>1, <2>2
    <3>2. CASE i = 1
      BY <1>1, <1>3, <1>7, <3>1, <3>2
    <3>3. CASE i # 1
      <4>1. i - 1 \in 1..(n - 1) /\ (i - 1) + 1 = i /\ i <= n - 1
        BY <1>1, <3>1, <3>3
      <4>2. s[i] = b[i - 1]
        BY <1>1, <4>1
      <4>3. Waits(b[(i - 1) + 1], b[i - 1])
        BY <1>4, <1>7, <4>1
      <4> QED  BY <3>1, <4>1, <4>2, <4>3
    <3> QED  BY <3>2, <3>3
  <2> QED  BY <1>4, <2>1, <2>2
<1> QED  BY <1>6, <1>7

\* The calls that open containers are the first, and those below it.
LEMMA OpensParts ==
  ASSUME NEW doc, NEW s \in Seq(Frame), s # <<>>
  PROVE  Opens(doc, s) <=>
           /\ Head(s).after = "open" => doc[Head(s).on] # File
           /\ Opens(doc, Tail(s))
<1> DEFINE n == Len(s)
           b == Tail(s)
<1>1. /\ n \in Nat \ {0} /\ Head(s) = s[1] /\ Len(b) = n - 1
      /\ \A i \in 1..(n - 1) : b[i] = s[i + 1]
  BY StackParts
<1>2. /\ Opens(doc, s) <=> \A i \in 1..n : s[i].after = "open" => doc[s[i].on] # File
      /\ Opens(doc, b) <=> \A i \in 1..(n - 1) : b[i].after = "open" => doc[b[i].on] # File
  BY <1>1 DEF Opens
<1> HIDE DEF n, b
<1>3. \A i \in 1..n : i = 1 \/ (i - 1 \in 1..(n - 1) /\ s[i] = b[i - 1])
  <2>1. \A i \in 1..n : i = 1 \/ (i - 1 \in 1..(n - 1) /\ (i - 1) + 1 = i)
    BY <1>1
  <2> QED  BY <1>1, <2>1
<1>4. \A i \in 1..(n - 1) : i + 1 \in 1..n /\ s[i + 1] = b[i]
  BY <1>1
<1>5. 1 \in 1..n
  BY <1>1
<1> QED  BY <1>1, <1>2, <1>3, <1>4, <1>5 DEF b

\* The outermost call stays when another returns, and is the one that returns last.
LEMMA BottomParts ==
  ASSUME NEW s \in Seq(Frame), s # <<>>
  PROVE  Bottom(s) = IF Tail(s) = <<>> THEN Head(s) ELSE Bottom(Tail(s))
<1> DEFINE n == Len(s)
           b == Tail(s)
<1>1. /\ n \in Nat \ {0} /\ Head(s) = s[1] /\ b \in Seq(Frame) /\ Len(b) = n - 1
      /\ \A i \in 1..(n - 1) : b[i] = s[i + 1]
  BY StackParts
<1>2. CASE b = <<>>
  <2>1. Len(b) = 0
    BY <1>2, EmptySeq
  <2>2. n = 1
    <3> HIDE DEF n, b
    <3> QED  BY <1>1, <2>1
  <2> QED  BY <1>1, <1>2, <2>2 DEF Bottom
<1>3. CASE b # <<>>
  <2>1. n - 1 \in Nat \ {0}
    BY <1>1, <1>3, StackParts
  <2>2. n - 1 \in 1..(n - 1) /\ (n - 1) + 1 = n
    BY <1>1, <2>1
  <2>3. b[n - 1] = s[n]
    <3> HIDE DEF n, b
    <3> QED  BY <1>1, <2>2
  <2> QED  BY <1>1, <1>3, <2>3 DEF Bottom
<1> QED  BY <1>2, <1>3

\* Nothing is below an empty stack.
LEMMA EmptyStack ==
  /\ Made(<<>>) = {} /\ MakesOnce(<<>>)
  /\ \A doc : StackOK(doc, <<>>) /\ Opens(doc, <<>>)
<1>1. Len(<<>>) = 0 /\ \A i \in 1..0 : FALSE
  BY EmptySeq
<1> QED  BY <1>1 DEF Made, MakesOnce, StackOK, Opens

-----------------------------------------------------------------------------
(* Types                                                                   *)

\* The innermost call of a thread.
LEMMA HeadType ==
  ASSUME ObjectsTypeOK, NEW t \in Threads, stack[t] # <<>>
  PROVE  /\ stack[t] \in Seq(Frame) /\ Head(stack[t]) \in Frame
         /\ Tail(stack[t]) \in Seq(Frame)
         /\ Head(stack[t]).on \in Streams /\ Head(stack[t]).depth \in 0..MaxNesting
         /\ Head(stack[t]).kind \in Kinds \cup {"read", "derived"}
         /\ Head(stack[t]).after \in Steps
<1>1. stack[t] \in Seq(Frame)
  BY DEF ObjectsTypeOK
<1>2. Head(stack[t]) \in Frame /\ Tail(stack[t]) \in Seq(Frame)
  BY <1>1, StackParts
<1> QED  BY <1>1, <1>2 DEF Frame, Steps, Waiting, Decoded

\* A call that is made is one, and has none above it that it waits for.
LEMMA CallingType ==
  ASSUME NEW k \in Kinds \cup {"read", "derived"}, NEW s \in Streams, NEW d \in 0..MaxNesting
  PROVE  /\ Calling(k, s, d) \in Frame
         /\ Calling(k, s, d).kind = k /\ Calling(k, s, d).on = s
         /\ Calling(k, s, d).depth = d /\ Calling(k, s, d).after = "enter"
BY DEF Calling, Frame

\* A call that has made another, to go on with step.
Then(f, step) == [f EXCEPT !.after = step]

\* It is the same call.
LEMMA ThenType ==
  ASSUME NEW f \in Frame, NEW step \in Steps
  PROVE  /\ Then(f, step) \in Frame /\ Then(f, step).after = step
         /\ Then(f, step).kind = f.kind /\ Then(f, step).on = f.on /\ Then(f, step).depth = f.depth
BY DEF Frame, Then, Steps, Waiting, Decoded

\* What a call does to the calls and answers.
LEMMA CallEffect ==
  ASSUME ObjectsTypeOK, NEW t \in Threads, stack[t] # <<>>, NEW f \in Frame,
         NEW step \in Steps, Call(t, step, f)
  PROVE  /\ stack' \in [Threads -> Seq(Frame)]
         /\ answer' \in [Threads -> Values \cup {"none"}]
         /\ \A u \in Threads \ {t} : stack'[u] = stack[u] /\ answer'[u] = answer[u]
         /\ answer'[t] = "none"
         /\ stack'[t] = <<f, Then(Head(stack[t]), step)>> \o Tail(stack[t])
<1> DEFINE h == Then(Head(stack[t]), step)
           r == <<f, h>> \o Tail(stack[t])
<1>1. Head(stack[t]) \in Frame /\ stack[t] \in Seq(Frame)
  BY HeadType
<1>2. h \in Frame
  BY <1>1, ThenType
<1>3. stack' = [stack EXCEPT ![t] = r] /\ answer' = [answer EXCEPT ![t] = "none"]
  BY DEF Call, Then
<1> HIDE DEF h
<1>4. r \in Seq(Frame)
  BY <1>1, <1>2, CallParts
<1> HIDE DEF r
<1>5. stack'[t] = r /\ \A u \in Threads \ {t} : stack'[u] = stack[u]
  BY <1>3 DEF ObjectsTypeOK
<1> QED  BY <1>3, <1>4, <1>5 DEF ObjectsTypeOK, r, h

\* What a return does.
LEMMA ReturnEffect ==
  ASSUME ObjectsTypeOK, NEW t \in Threads, stack[t] # <<>>, NEW v \in Values, Return(t, v)
  PROVE  /\ stack' \in [Threads -> Seq(Frame)]
         /\ answer' \in [Threads -> Values \cup {"none"}]
         /\ \A u \in Threads \ {t} : stack'[u] = stack[u] /\ answer'[u] = answer[u]
         /\ stack'[t] = Tail(stack[t]) /\ answer'[t] = v
<1>1. Tail(stack[t]) \in Seq(Frame)
  BY HeadType
<1>2. stack' = [stack EXCEPT ![t] = Tail(stack[t])] /\ answer' = [answer EXCEPT ![t] = v]
  BY DEF Return
<1> QED  BY <1>1, <1>2 DEF ObjectsTypeOK

\* What is found in a decode, and what a stream decodes to.
LEMMA FoundType ==
  /\ \A w \in Decoded : Found(w) \subseteq Decoded /\ Found(w) # {}
  /\ \A c, v : v \in Values => Decodes(c, v) \subseteq Decoded
  /\ Decoded \subseteq Values
<1>1. \A w \in Decoded : Found(w) \subseteq Decoded /\ Found(w) # {}
  BY DEF Found, Decoded
<1>2. \A c, v : v \in Values => Decodes(c, v) \subseteq Decoded
  BY DEF Decodes, Decoded, Values
<1> QED  BY <1>1, <1>2 DEF Decoded, Values

\* A container that is opened, and what is found in it.
LEMMA OpenEffect ==
  ASSUME ObjectsTypeOK, OpensInv, NEW t \in Threads, Open(t)
  PROVE  LET c == filterIn[Head(stack[t]).on] IN
         /\ c \in Streams
         /\ \E w \in Decoded :
              /\ IF opened[c] = "none" THEN w \in Decodes(c, answer[t]) ELSE w = opened[c]
              /\ opened' = IF w = "missing" THEN opened ELSE [opened EXCEPT ![c] = w]
              /\ \E v \in Values : v \in Found(w) /\ Return(t, v)
<1> DEFINE c == filterIn[Head(stack[t]).on]
<1>1. PICK w \in IF opened[c] = "none" THEN Decodes(c, answer[t]) ELSE {opened[c]} :
        /\ opened' = IF w = "missing" THEN opened ELSE [opened EXCEPT ![c] = w]
        /\ \E v \in Found(w) : Return(t, v)
  BY DEF Open
<1>0. stack[t] # <<>> /\ Head(stack[t]).after = "open" /\ answer[t] \in Values
  BY DEF Open, At, ObjectsTypeOK
<1>a. stack[t] \in Seq(Frame) /\ Head(stack[t]).on \in Streams
  BY <1>0, HeadType
<1>b. filterIn[Head(stack[t]).on] # File
  BY <1>0, <1>a, OpensParts DEF OpensInv
<1>5. c \in Streams
  BY <1>a, <1>b, DocumentObjectsAssumption DEF ObjectsTypeOK
<1>2. opened[c] \in {"none", "whole", "wrong"}
  BY <1>5 DEF ObjectsTypeOK
<1> HIDE DEF c
<1>3. w \in Decoded
  <2>1. CASE opened[c] = "none"
    BY <1>0, <1>1, <2>1, FoundType
  <2>2. CASE opened[c] # "none"
    BY <1>1, <1>2, <2>2 DEF Decoded
  <2> QED  BY <2>1, <2>2
<1>4. \A v \in Found(w) : v \in Values
  BY <1>3, FoundType
<1> QED  BY <1>1, <1>2, <1>3, <1>4, <1>5 DEF c

\* A value that is published.
LEMMA PublishEffect ==
  ASSUME ObjectsTypeOK, NEW t \in Threads, Publish(t)
  PROVE  LET f == Head(stack[t]) IN
         /\ stack[t] # <<>> /\ f.kind = "derived" /\ f.after \in {"use"} \cup Decoded
         /\ answer[t] \in Values
         /\ \E v \in Values : /\ v \in ComesTo(f, answer[t])
                              /\ cell' = [cell EXCEPT ![f.on] = v] /\ Return(t, v)
<1> DEFINE f == Head(stack[t])
<1>1. /\ stack[t] # <<>> /\ f.kind = "derived" /\ f.after \in {"use"} \cup Decoded
      /\ answer[t] # "none"
  BY DEF Publish, At, Decoded
<1>2. answer[t] \in Values
  BY <1>1 DEF ObjectsTypeOK
<1>3. PICK v \in ComesTo(f, answer[t]) : cell' = [cell EXCEPT ![f.on] = v] /\ Return(t, v)
  BY DEF Publish
<1> HIDE DEF f
<1>4. v \in Values
  <2>1. CASE f.after = "use"
    <3>1. PICK w \in Decodes(f.on, answer[t]) : v \in Found(w)
      BY <1>3, <2>1 DEF ComesTo
    <3> QED  BY <1>2, <3>1, FoundType
  <2>2. CASE f.after = "whole"
    BY <1>2, <1>3, <2>2 DEF ComesTo
  <2>3. CASE f.after # "use" /\ f.after # "whole"
    <3>1. f.after \in Decoded
      BY <1>1, <2>3
    <3>2. v \in Found(f.after)
      BY <1>3, <2>3 DEF ComesTo
    <3> QED  BY <3>1, <3>2, FoundType
  <2> QED  BY <2>1, <2>2, <2>3
<1> QED  BY <1>1, <1>2, <1>3, <1>4 DEF f

\* What a step of a thread does: it makes a call or returns from one, and may add to what
\* is shared.
LEMMA StepForms ==
  ASSUME ObjectsTypeOK, OpensInv, NEW t \in Threads, Step(t)
  PROVE  /\ stack[t] # <<>> /\ UNCHANGED <<filterIn, asked, panics>>
         /\ \/ \E f \in Frame, step \in Waiting :
                 /\ f.after = "enter" /\ Call(t, step, f)
                 /\ step = "open" => filterIn[Head(stack[t]).on] # File
            \/ \E v \in Values : Return(t, v)
<1> DEFINE f == Head(stack[t])
<1>1. stack[t] # <<>> /\ UNCHANGED <<filterIn, asked, panics>>
  BY DEF Step, Hit, Miss, Store, ReadDirect, ReadCompressed,
     Open, Claim, Shared, Use, Publish, At
<1>2. /\ f.on \in Streams /\ f.depth \in 0..MaxNesting
      /\ f.kind \in Kinds \cup {"read", "derived"}
  BY <1>1, HeadType
<1>3. /\ filterIn \in [Streams -> Streams \cup {File}]
      /\ Uses \in [Streams -> Streams \cup {Nothing}] /\ MaxNesting \in Nat \ {0}
  BY DocumentObjectsAssumption DEF ObjectsTypeOK
<1>4. answer[t] \in Values \cup {"none"} /\ "whole" \in Values /\ "raw" \in Values
      /\ "missing" \in Values
      /\ "none" \notin Values
  BY DEF ObjectsTypeOK, Values
<1>5. CASE Hit(t)
  <2>1. ObjectOf(f) \in Objects
    BY <1>2, <1>5 DEF Hit, At, ObjectOf, Objects
  <2>2. cache[ObjectOf(f)] \in Values
    BY <1>5, <2>1 DEF Hit, ObjectsTypeOK
  <2> QED  BY <1>1, <1>5, <2>2 DEF Hit
<1>6. CASE Miss(t)
  <2>1. Call(t, "store", Calling("read", f.on, f.depth))
    BY <1>6 DEF Miss
  <2>2. Calling("read", f.on, f.depth) \in Frame
        /\ Calling("read", f.on, f.depth).after = "enter"
    BY <1>2 DEF Calling, Frame
  <2>3. "store" \in Waiting
    BY DEF Waiting
  <2> QED  BY <1>1, <2>1, <2>2, <2>3
<1>7. CASE Store(t)
  <2>1. answer[t] \in Values
    BY <1>4, <1>7 DEF Store
  <2>2. PICK v \in IF ObjectOf(f)[1] = "stream" THEN Inlined(answer[t]) ELSE {answer[t]} :
          Return(t, v)
    BY <1>7 DEF Store
  <2>3. v \in Values
    BY <2>1, <2>2 DEF Inlined, Values
  <2> QED  BY <1>1, <2>2, <2>3
<1>8. CASE ReadDirect(t)
  BY <1>1, <1>4, <1>8 DEF ReadDirect
<1>9. CASE ReadCompressed(t)
  <2>1. CASE f.depth >= MaxNesting
    BY <1>1, <1>4, <1>9, <2>1 DEF ReadCompressed
  <2>2. CASE ~(f.depth >= MaxNesting)
    <3>1. Call(t, "open", Calling("stream", filterIn[f.on], f.depth + 1)) /\ filterIn[f.on] # File
      BY <1>9, <2>2 DEF ReadCompressed
    <3>2. filterIn[f.on] \in Streams /\ f.depth + 1 \in 0..MaxNesting /\ "stream" \in Kinds
      BY <1>2, <1>3, <2>2, <3>1 DEF Kinds
    <3>3. "open" \in Waiting
      BY DEF Waiting
    <3> QED  BY <1>1, <3>1, <3>2, <3>3, CallingType
  <2> QED  BY <2>1, <2>2
<1>10. CASE Open(t)
  <2>1. \E v \in Values : Return(t, v)
    BY <1>10, OpenEffect
  <2> QED  BY <1>1, <2>1
<1>11. CASE Claim(t)
  <2>1. Call(t, "use", Calling("stream", f.on, 0)) /\ "stream" \in Kinds
        /\ 0 \in 0..MaxNesting /\ "use" \in Waiting
    BY <1>3, <1>11 DEF Claim, Kinds, Waiting
  <2> QED  BY <1>1, <1>2, <2>1, CallingType
<1>12. CASE Shared(t)
  BY <1>1, <1>12 DEF Shared
<1>13. CASE Use(t)
  <2>1. PICK w \in Decodes(f.on, answer[t]) : Call(t, w, Calling("derived", Uses[f.on], 0))
    BY <1>13 DEF Use
  <2>3. Uses[f.on] \in Streams /\ 0 \in 0..MaxNesting
    BY <1>2, <1>3, <1>13 DEF Use
  <2>4. w \in Waiting /\ w # "open"
    <3>1. answer[t] \in Values
      BY <1>4, <1>13 DEF Use
    <3> QED  BY <2>1, <3>1, FoundType DEF Waiting, Decoded
  <2>2. Calling("derived", Uses[f.on], 0) \in Frame
        /\ Calling("derived", Uses[f.on], 0).after = "enter"
    BY <1>2, <2>3 DEF Calling, Frame
  <2> QED  BY <1>1, <2>1, <2>2, <2>4
<1>14. CASE Publish(t)
  <2>1. \E v \in Values : Return(t, v)
    BY <1>14, PublishEffect
  <2> QED  BY <1>1, <2>1
<1> QED  BY <1>5, <1>6, <1>7, <1>8, <1>9, <1>10, <1>11, <1>12, <1>13, <1>14 DEF Step

\* A step keeps the types of the calls, and leaves other threads alone.
LEMMA StepLocal ==
  ASSUME ObjectsTypeOK, OpensInv, NEW t \in Threads, Step(t)
  PROVE  /\ stack' \in [Threads -> Seq(Frame)]
         /\ answer' \in [Threads -> Values \cup {"none"}]
         /\ \A u \in Threads \ {t} : stack'[u] = stack[u] /\ answer'[u] = answer[u]
<1>1. stack[t] # <<>>
  BY StepForms
<1>2. CASE \E f \in Frame, step \in Waiting : Call(t, step, f)
  <2>1. PICK f \in Frame, step \in Waiting : Call(t, step, f)
    BY <1>2
  <2>2. step \in Steps
    BY DEF Steps
  <2> QED  BY <1>1, <2>1, <2>2, CallEffect
<1>3. CASE \E v \in Values : Return(t, v)
  BY <1>1, <1>3, ReturnEffect
<1> QED  BY <1>2, <1>3, StepForms

\* What the steps add to what is shared.
LEMMA StepTypes ==
  ASSUME ObjectsTypeOK, OpensInv, NEW t \in Threads, Step(t)
  PROVE  ObjectsTypeOK'
<1> DEFINE f == Head(stack[t])
<1>1. stack[t] # <<>> /\ UNCHANGED <<filterIn, asked, panics>>
  BY StepForms
<1>2. f.on \in Streams /\ f.kind \in Kinds \cup {"read", "derived"}
  BY <1>1, HeadType
<1>3. filterIn \in [Streams -> Streams \cup {File}]
  BY DocumentObjectsAssumption DEF ObjectsTypeOK
<1>4. cache' \in [Objects -> Values \cup {"none"}]
  <2>1. CASE Store(t)
    <3>1. ObjectOf(f) \in Objects
      BY <1>2, <2>1 DEF Store, At, ObjectOf, Objects
    <3>2. cache' = cache \/ \E v \in Values : cache' = [cache EXCEPT ![ObjectOf(f)] = v]
      <4>1. answer[t] \in Values
        BY <2>1 DEF Store, ObjectsTypeOK
      <4>2. PICK v \in IF ObjectOf(f)[1] = "stream" THEN Inlined(answer[t]) ELSE {answer[t]} :
              cache' = IF v = "missing" THEN cache ELSE [cache EXCEPT ![ObjectOf(f)] = v]
        BY <2>1 DEF Store
      <4>3. v \in Values
        BY <4>1, <4>2 DEF Inlined, Values
      <4> QED  BY <4>2, <4>3
    <3> QED  BY <3>1, <3>2 DEF ObjectsTypeOK
  <2>2. CASE ~Store(t)
    <3>1. cache' = cache
      BY <2>2 DEF Step, Hit, Miss, ReadDirect, ReadCompressed,
         Open, Claim, Shared, Use, Publish
    <3> QED  BY <3>1 DEF ObjectsTypeOK
  <2> QED  BY <2>1, <2>2
<1>5. opened' \in [Streams -> {"none", "whole", "wrong"}]
  <2>1. CASE Open(t)
    <3> DEFINE c == filterIn[f.on]
    <3>1. PICK w \in Decoded :
            opened' = IF w = "missing" THEN opened ELSE [opened EXCEPT ![c] = w]
      BY <2>1, OpenEffect
    <3>2. c \in Streams /\ (w # "missing" => w \in {"none", "whole", "wrong"})
      BY <2>1, OpenEffect DEF Decoded
    <3> HIDE DEF c
    <3> QED  BY <3>1, <3>2 DEF ObjectsTypeOK
  <2>2. CASE ~Open(t)
    <3>1. opened' = opened
      BY <2>2 DEF Step, Hit, Miss, Store, ReadDirect,
         ReadCompressed, Claim, Shared, Use, Publish
    <3> QED  BY <3>1 DEF ObjectsTypeOK
  <2> QED  BY <2>1, <2>2
<1>6. cell' \in [Streams -> Values \cup {"none"} \cup Threads]
  <2>1. CASE Claim(t)
    BY <1>2, <2>1 DEF Claim, ObjectsTypeOK
  <2>2. CASE Publish(t)
    <3>1. PICK v \in Values : cell' = [cell EXCEPT ![f.on] = v]
      BY <2>2, PublishEffect
    <3> QED  BY <1>2, <3>1 DEF ObjectsTypeOK
  <2>3. CASE ~Claim(t) /\ ~Publish(t)
    <3>1. cell' = cell
      BY <2>3 DEF Step, Hit, Miss, Store, ReadDirect,
         ReadCompressed, Open, Shared, Use
    <3> QED  BY <3>1 DEF ObjectsTypeOK
  <2> QED  BY <2>1, <2>2, <2>3
<1> QED  BY <1>1, <1>4, <1>5, <1>6, StepLocal DEF ObjectsTypeOK

\* No thread has asked, nothing is cached.
LEMMA InitObjects ==
  ASSUME ObjectsInit
  PROVE  ObjectsTypeOK /\ OpensInv
<1>1. ObjectsTypeOK
  BY EmptySeq, DocumentObjectsAssumption DEF ObjectsInit, ObjectsTypeOK, Values
<1> QED  BY <1>1, EmptyStack DEF ObjectsInit, OpensInv

\* A page asks when its thread has no calls.
LEMMA RequestEffect ==
  ASSUME ObjectsTypeOK, NEW t \in Threads, Request(t)
  PROVE  /\ UNCHANGED <<filterIn, cache, opened, cell, panics>>
         /\ stack[t] = <<>>
         /\ stack' \in [Threads -> Seq(Frame)] /\ answer' \in [Threads -> Values \cup {"none"}]
         /\ asked' \in [Threads -> Requests \cup {Nothing}]
         /\ \A u \in Threads \ {t} : stack'[u] = stack[u] /\ answer'[u] = answer[u] /\ asked'[u] = asked[u]
         /\ answer'[t] = "none"
         /\ \E f \in Frame : /\ stack'[t] = <<f>> /\ f.after = "enter" /\ f.depth = 0
                             /\ asked'[t] = <<f.kind, f.on>> /\ f.kind # "read"
                             /\ <<f>> # <<>> /\ Head(<<f>>) = f /\ Tail(<<f>>) = <<>>
<1>1. PICK q \in Requests : /\ stack' = [stack EXCEPT ![t] = <<Calling(q[1], q[2], 0)>>]
                           /\ asked' = [asked EXCEPT ![t] = q]
  BY AskedForAssumption DEF Request
<1> DEFINE f == Calling(q[1], q[2], 0)
<1>2. q = <<q[1], q[2]>> /\ q[1] \in Kinds \cup {"derived"} /\ q[2] \in Streams /\ q[1] # "read"
  BY DEF Requests, Kinds
<1>3. 0 \in 0..MaxNesting
  BY DocumentObjectsAssumption
<1>4. f \in Frame /\ f.after = "enter" /\ f.depth = 0 /\ f.kind = q[1] /\ f.on = q[2]
  BY <1>2, <1>3 DEF Frame, Calling
<1> HIDE DEF f
<1>5. <<f>> \in Seq(Frame) /\ <<f>> # <<>> /\ Head(<<f>>) = f /\ Tail(<<f>>) = <<>>
  BY <1>4
<1>6. stack' = [stack EXCEPT ![t] = <<f>>]
  BY <1>1 DEF f
<1> QED  BY <1>1, <1>2, <1>4, <1>5, <1>6 DEF Request, ObjectsTypeOK

\* A panic leaves the thread without calls and without the cells it was to fill.
LEMMA PanicEffect ==
  ASSUME ObjectsTypeOK, NEW t \in Threads, Panic(t)
  PROVE  /\ UNCHANGED <<filterIn, cache, opened>> /\ panics' \in 0..MaxPanics
         /\ stack' \in [Threads -> Seq(Frame)] /\ answer' \in [Threads -> Values \cup {"none"}]
         /\ asked' \in [Threads -> Requests \cup {Nothing}]
         /\ cell' \in [Streams -> Values \cup {"none"} \cup Threads]
         /\ \A u \in Threads \ {t} : stack'[u] = stack[u] /\ answer'[u] = answer[u] /\ asked'[u] = asked[u]
         /\ stack'[t] = <<>> /\ asked'[t] = Nothing
         /\ \A s \in Streams : cell'[s] = IF cell[s] = t THEN "none" ELSE cell[s]
<1>1. MaxPanics \in Nat /\ <<>> \in Seq(Frame)
  BY EmptySeq, DocumentObjectsAssumption
<1>2. panics' \in 0..MaxPanics
  BY <1>1 DEF Panic, ObjectsTypeOK
<1> QED  BY <1>1, <1>2 DEF Panic, ObjectsTypeOK

\* The calls of one thread at a time change, by those of its innermost call.
LEMMA StepOpens ==
  ASSUME ObjectsTypeOK, OpensInv, NEW t \in Threads, Step(t)
  PROVE  OpensInv'
<1> DEFINE s == stack[t]
           f == Head(s)
<1>1. /\ s # <<>> /\ s \in Seq(Frame) /\ filterIn' = filterIn /\ f \in Frame
      /\ Opens(filterIn, s)
  BY StepForms, HeadType DEF OpensInv
<1>2. Opens(filterIn, Tail(s)) /\ (f.after = "open" => filterIn[f.on] # File)
  BY <1>1, OpensParts
<1>3. Opens(filterIn, stack'[t])
  <2>1. CASE \E g \in Frame, step \in Waiting :
                /\ g.after = "enter" /\ Call(t, step, g)
                /\ step = "open" => filterIn[f.on] # File
    <3>1. PICK g \in Frame, step \in Waiting :
                 /\ g.after = "enter" /\ Call(t, step, g)
                 /\ step = "open" => filterIn[f.on] # File
      BY <2>1
    <3>a. step \in Steps
      BY DEF Steps
    <3> DEFINE h == Then(f, step)
    <3>2. h \in Frame /\ h.on = f.on /\ h.after = step
      BY <1>1, <3>1, <3>a, ThenType
    <3> HIDE DEF h
    <3>3. h.after = "open" => filterIn[h.on] # File
      BY <3>1, <3>2
    <3> DEFINE r == <<g, h>> \o Tail(s)
    <3>4. /\ r \in Seq(Frame) /\ r # <<>> /\ Head(r) = g /\ Tail(r) \in Seq(Frame)
          /\ Tail(r) # <<>> /\ Head(Tail(r)) = h /\ Tail(Tail(r)) = Tail(s)
      <4>1. g \in Frame /\ h \in Frame /\ s \in Seq(Frame) /\ s # <<>>
        BY <1>1, <3>2
      <4> HIDE DEF s, f
      <4> QED  BY <4>1, CallParts
    <3> HIDE DEF r
    <3>5. Opens(filterIn, Tail(r))
      BY <1>2, <3>3, <3>4, OpensParts
    <3>6. Opens(filterIn, r)
      BY <3>1, <3>4, <3>5, OpensParts
    <3>7. stack'[t] = <<g, Then(Head(stack[t]), step)>> \o Tail(stack[t])
      BY <1>1, <3>1, <3>a, CallEffect
    <3> QED  BY <3>6, <3>7 DEF r, h
  <2>2. CASE \E v \in Values : Return(t, v)
    <3>1. stack'[t] = Tail(s)
      BY <1>1, <2>2, ReturnEffect
    <3> QED  BY <1>2, <3>1
  <2> QED  BY <2>1, <2>2, StepForms
<1> QED  BY <1>1, <1>3, StepLocal DEF OpensInv

\* The types, and the containers that are opened, survive every step.
LEMMA ObjectsTypes ==
  ASSUME ObjectsTypeOK, OpensInv, [ObjectsNext]_objectsVars
  PROVE  ObjectsTypeOK' /\ OpensInv'
<1>1. ASSUME NEW t \in Threads, Request(t)  PROVE ObjectsTypeOK' /\ OpensInv'
  <2>1. PICK f \in Frame : /\ stack'[t] = <<f>> /\ f.after = "enter"
                          /\ <<f>> # <<>> /\ Head(<<f>>) = f /\ Tail(<<f>>) = <<>>
    BY <1>1, RequestEffect
  <2> DEFINE r == <<f>>
  <2>2. r \in Seq(Frame) /\ r # <<>> /\ Head(r).after # "open" /\ Tail(r) = <<>>
    BY <2>1
  <2> HIDE DEF r
  <2>3. Opens(filterIn, r)
    BY <2>2, OpensParts, EmptyStack
  <2>4. Opens(filterIn, stack'[t])
    BY <2>1, <2>3 DEF r
  <2>5. ObjectsTypeOK'
    BY <1>1, RequestEffect DEF ObjectsTypeOK
  <2>6. \A u \in Threads : Opens(filterIn', stack'[u])
    BY <1>1, <2>4, RequestEffect DEF OpensInv
  <2> QED  BY <2>5, <2>6 DEF OpensInv
<1>2. ASSUME NEW t \in Threads, Panic(t)  PROVE ObjectsTypeOK' /\ OpensInv'
  <2>1. ObjectsTypeOK'
    BY <1>2, PanicEffect DEF ObjectsTypeOK
  <2>2. \A u \in Threads : Opens(filterIn', stack'[u])
    BY <1>2, PanicEffect, EmptyStack DEF OpensInv
  <2> QED  BY <2>1, <2>2 DEF OpensInv
<1>3. CASE UNCHANGED objectsVars
  BY <1>3 DEF objectsVars, ObjectsTypeOK, OpensInv
<1> QED  BY <1>1, <1>2, <1>3, StepTypes, StepOpens DEF ObjectsNext

-----------------------------------------------------------------------------
(* Derived values are made by one thread at a time                         *)

\* A stack whose first call has made another.
LEMMA CallStack ==
  ASSUME NEW s \in Seq(Frame), s # <<>>, NEW g \in Frame, NEW step \in Steps
  PROVE  LET r == <<g, Then(Head(s), step)>> \o Tail(s) IN
         /\ r \in Seq(Frame) /\ r # <<>> /\ Head(r) = g
         /\ Tail(r) \in Seq(Frame) /\ Tail(r) # <<>>
         /\ Head(Tail(r)) = Then(Head(s), step) /\ Tail(Tail(r)) = Tail(s)
         /\ Tail(s) \in Seq(Frame) /\ Head(s) \in Frame
         /\ Then(Head(s), step) \in Frame
<1> DEFINE h == Then(Head(s), step)
<1>1. Head(s) \in Frame /\ Tail(s) \in Seq(Frame)
  BY StackParts
<1>2. h \in Frame
  BY <1>1, ThenType
<1> HIDE DEF h
<1>3. LET r == <<g, h>> \o Tail(s) IN
      /\ r \in Seq(Frame) /\ r # <<>> /\ Head(r) = g
      /\ Tail(r) \in Seq(Frame) /\ Tail(r) # <<>> /\ Head(Tail(r)) = h /\ Tail(Tail(r)) = Tail(s)
  BY <1>2, CallParts
<1> QED  BY <1>1, <1>2, <1>3 DEF h

\* A thread that makes a call goes on making what it makes, and a derived value it calls for.
LEMMA CallMakes ==
  ASSUME NEW s \in Seq(Frame), s # <<>>, NEW g \in Frame, g.after = "enter",
         NEW step \in Steps, step # "enter"
  PROVE  LET r == <<g, Then(Head(s), step)>> \o Tail(s)
             Derives == Head(s).kind = "derived"
         IN  /\ Made(r) = Made(Tail(s)) \cup (IF Derives THEN {Head(s).on} ELSE {})
             /\ MakesOnce(r) <=> /\ MakesOnce(Tail(s))
                                 /\ Derives => Head(s).on \notin Made(Tail(s))
<1> DEFINE r == <<g, Then(Head(s), step)>> \o Tail(s)
           h == Then(Head(s), step)
<1>1. /\ r \in Seq(Frame) /\ r # <<>> /\ Head(r) = g
      /\ Tail(r) \in Seq(Frame) /\ Tail(r) # <<>> /\ Head(Tail(r)) = h /\ Tail(Tail(r)) = Tail(s)
      /\ Head(s) \in Frame
  BY CallStack
<1>2. h.after = step /\ h.kind = Head(s).kind /\ h.on = Head(s).on
  BY <1>1, ThenType
<1>3. Making(h) <=> Head(s).kind = "derived"
  BY <1>2 DEF Making
<1> HIDE DEF h, r
<1>4. /\ Made(Tail(r)) = Made(Tail(s)) \cup (IF Making(h) THEN {h.on} ELSE {})
      /\ MakesOnce(Tail(r)) <=> MakesOnce(Tail(s)) /\ (Making(h) => h.on \notin Made(Tail(s)))
  BY <1>1, MadeParts
<1>5. ~Making(g)
  BY DEF Making
<1>6. Made(r) = Made(Tail(r)) /\ (MakesOnce(r) <=> MakesOnce(Tail(r)))
  BY <1>1, <1>5, MadeBelow
<1> QED  BY <1>2, <1>3, <1>4, <1>6 DEF r

\* One thread's calls change, and what it makes with them.
LEMMA OneMakerAtATime ==
  ASSUME MakersInv, NEW t \in Threads,
         \A u \in Threads \ {t} : stack'[u] = stack[u],
         MakesOnce(stack'[t]),
         \A s \in Streams : s \in Made(stack'[t]) <=> cell'[s] = t,
         \A s \in Streams, u \in Threads \ {t} : cell'[s] = u <=> cell[s] = u
  PROVE  MakersInv'
<1>1. ASSUME NEW u \in Threads
      PROVE  MakesOnce(stack'[u]) /\ \A s \in Streams : s \in Made(stack'[u]) <=> cell'[s] = u
  <2>1. CASE u = t
    BY <2>1
  <2>2. CASE u # t
    BY <2>2 DEF MakersInv
  <2> QED  BY <2>1, <2>2
<1> QED  BY <1>1 DEF MakersInv

\* A step that makes a call, of a thread at a call that does not make a value or goes on to.
LEMMA CallKeepsMakers ==
  ASSUME ObjectsTypeOK, MakersInv, NEW t \in Threads, stack[t] # <<>>,
         NEW g \in Frame, g.after = "enter", NEW step \in Steps, step # "enter",
         Call(t, step, g),
         Head(stack[t]).kind = "derived" => Head(stack[t]).after # "enter",
         cell' = cell
  PROVE  MakersInv'
<1> DEFINE s == stack[t]
           f == Head(s)
           r == <<g, Then(f, step)>> \o Tail(s)
<1>1. s \in Seq(Frame) /\ s # <<>>
  BY HeadType
<1>2. stack'[t] = r /\ \A u \in Threads \ {t} : stack'[u] = stack[u]
  BY CallEffect
<1>3. Making(f) <=> f.kind = "derived"
  BY DEF Making
<1>4. /\ Made(r) = Made(Tail(s)) \cup (IF f.kind = "derived" THEN {f.on} ELSE {})
      /\ MakesOnce(r) <=> MakesOnce(Tail(s)) /\ (f.kind = "derived" => f.on \notin Made(Tail(s)))
  <2> HIDE DEF s
  <2> QED  BY <1>1, CallMakes
<1>5. /\ Made(s) = Made(Tail(s)) \cup (IF Making(f) THEN {f.on} ELSE {})
      /\ MakesOnce(s) <=> MakesOnce(Tail(s)) /\ (Making(f) => f.on \notin Made(Tail(s)))
  <2> HIDE DEF s
  <2> QED  BY <1>1, MadeParts
<1> HIDE DEF r, f
<1>6. Made(r) = Made(s) /\ (MakesOnce(r) <=> MakesOnce(s))
  BY <1>3, <1>4, <1>5
<1>7. MakesOnce(s) /\ \A x \in Streams : x \in Made(s) <=> cell[x] = t
  BY DEF MakersInv
<1>8. MakesOnce(stack'[t]) /\ \A x \in Streams : x \in Made(stack'[t]) <=> cell'[x] = t
  BY <1>2, <1>6, <1>7
<1> QED  BY <1>2, <1>8, OneMakerAtATime

\* A step that returns from a call that does not make a value.
LEMMA ReturnKeepsMakers ==
  ASSUME ObjectsTypeOK, MakersInv, NEW t \in Threads,
         stack[t] # <<>>, NEW v \in Values, Return(t, v),
         ~Making(Head(stack[t])), cell' = cell
  PROVE  MakersInv'
<1> DEFINE s == stack[t]
<1>1. s \in Seq(Frame) /\ s # <<>>
  BY HeadType
<1>2. stack'[t] = Tail(s) /\ \A u \in Threads \ {t} : stack'[u] = stack[u]
  BY ReturnEffect
<1>3. Made(s) = Made(Tail(s)) /\ (MakesOnce(s) <=> MakesOnce(Tail(s)))
  <2>1. ~Making(Head(s))
    OBVIOUS
  <2> HIDE DEF s
  <2> QED  BY <1>1, <2>1, MadeBelow
<1>4. MakesOnce(s) /\ \A x \in Streams : x \in Made(s) <=> cell[x] = t
  BY DEF MakersInv
<1>5. MakesOnce(stack'[t]) /\ \A x \in Streams : x \in Made(stack'[t]) <=> cell'[x] = t
  BY <1>2, <1>3, <1>4
<1> QED  BY <1>2, <1>5, OneMakerAtATime

\* The first to claim a cell is its maker.
LEMMA ClaimKeepsMakers ==
  ASSUME ObjectsTypeOK, MakersInv, NEW t \in Threads, Claim(t)
  PROVE  MakersInv'
<1> DEFINE s == stack[t]
           f == Head(s)
           g == Calling("stream", f.on, 0)
           r == <<g, Then(f, "use")>> \o Tail(s)
<1>1. /\ s # <<>> /\ f.kind = "derived" /\ f.after = "enter" /\ cell[f.on] = "none"
      /\ cell' = [cell EXCEPT ![f.on] = t] /\ Call(t, "use", g)
  BY DEF Claim, At
<1>2. s \in Seq(Frame) /\ f.on \in Streams
  BY <1>1, HeadType
<1>3. g \in Frame /\ g.after = "enter" /\ "use" \in Steps
  BY <1>2, DocumentObjectsAssumption DEF Calling, Frame, Kinds, Steps, Waiting
<1> HIDE DEF g
<1>4. stack'[t] = r /\ \A u \in Threads \ {t} : stack'[u] = stack[u]
  BY <1>1, <1>3, CallEffect
<1>5. /\ Made(r) = Made(Tail(s)) \cup {f.on}
      /\ MakesOnce(r) <=> MakesOnce(Tail(s)) /\ f.on \notin Made(Tail(s))
  <2>1. Head(s).kind = "derived" /\ s # <<>>
    BY <1>1
  <2> HIDE DEF s
  <2> QED  BY <1>2, <1>3, <2>1, CallMakes
<1>6. Made(s) = Made(Tail(s)) /\ (MakesOnce(s) <=> MakesOnce(Tail(s)))
  <2>1. ~Making(Head(s)) /\ s # <<>>
    BY <1>1 DEF Making
  <2> HIDE DEF s
  <2> QED  BY <1>2, <2>1, MadeBelow
<1>7. MakesOnce(s) /\ \A x \in Streams : x \in Made(s) <=> cell[x] = t
  BY DEF MakersInv
<1>8. "none" \notin Threads /\ cell \in [Streams -> Values \cup {"none"} \cup Threads]
  BY DocumentObjectsAssumption DEF ObjectsTypeOK
<1> HIDE DEF r, f, s
<1>9. MakesOnce(stack'[t]) /\ \A x \in Streams : x \in Made(stack'[t]) <=> cell'[x] = t
  BY <1>1, <1>2, <1>4, <1>5, <1>6, <1>7, <1>8
<1>10. \A x \in Streams, u \in Threads \ {t} : cell'[x] = u <=> cell[x] = u
  BY <1>1, <1>2, <1>8
<1> QED  BY <1>4, <1>9, <1>10, OneMakerAtATime

\* The maker of a value makes it no more once it is there.
LEMMA PublishKeepsMakers ==
  ASSUME ObjectsTypeOK, MakersInv, NEW t \in Threads, Publish(t)
  PROVE  MakersInv'
<1> DEFINE s == stack[t]
           f == Head(s)
<1>1. /\ s # <<>> /\ f.kind = "derived" /\ f.after # "enter"
      /\ \E v \in Values : cell' = [cell EXCEPT ![f.on] = v] /\ Return(t, v)
  BY PublishEffect DEF Decoded
<1>a. PICK v \in Values : cell' = [cell EXCEPT ![f.on] = v] /\ Return(t, v)
  BY <1>1
<1>2. s \in Seq(Frame) /\ f.on \in Streams
  BY <1>1, HeadType
<1>3. stack'[t] = Tail(s) /\ \A u \in Threads \ {t} : stack'[u] = stack[u]
  BY <1>1, <1>a, ReturnEffect
<1>4. /\ Made(s) = Made(Tail(s)) \cup {f.on}
      /\ MakesOnce(s) <=> MakesOnce(Tail(s)) /\ f.on \notin Made(Tail(s))
  <2>1. Making(Head(s)) /\ s # <<>>
    BY <1>1 DEF Making
  <2> HIDE DEF s
  <2> QED  BY <1>2, <2>1, MadeFirst
<1>5. MakesOnce(s) /\ \A x \in Streams : x \in Made(s) <=> cell[x] = t
  BY DEF MakersInv
<1>6. v \notin Threads /\ cell \in [Streams -> Values \cup {"none"} \cup Threads]
  BY DocumentObjectsAssumption DEF ObjectsTypeOK, Values
<1> HIDE DEF s, f
<1>7. cell[f.on] = t
  BY <1>2, <1>4, <1>5
<1>8. MakesOnce(stack'[t]) /\ \A x \in Streams : x \in Made(stack'[t]) <=> cell'[x] = t
  BY <1>a, <1>2, <1>3, <1>4, <1>5, <1>6
<1>9. \A x \in Streams, u \in Threads \ {t} : cell'[x] = u <=> cell[x] = u
  BY <1>a, <1>2, <1>6, <1>7
<1> QED  BY <1>3, <1>8, <1>9, OneMakerAtATime

\* A step keeps one maker for each value.
LEMMA StepMakers ==
  ASSUME ObjectsTypeOK, OpensInv, MakersInv, NEW t \in Threads, Step(t)
  PROVE  MakersInv'
<1> DEFINE f == Head(stack[t])
<1>1. stack[t] # <<>>
  BY StepForms
<1>2. CASE Claim(t) \/ Publish(t)
  BY <1>2, ClaimKeepsMakers, PublishKeepsMakers
<1>3. CASE ~Claim(t) /\ ~Publish(t)
  <2>1. cell' = cell
    BY <1>3 DEF Step, Hit, Miss, Store, ReadDirect,
       ReadCompressed, Open, Shared, Use
  <2>2. CASE Use(t)
    <3>1. f.after # "enter" /\ Uses[f.on] # Nothing
      BY <2>2 DEF Use, At
    <3>a. PICK w \in Decodes(f.on, answer[t]) : Call(t, w, Calling("derived", Uses[f.on], 0))
      BY <2>2 DEF Use
    <3>b. w \in Steps /\ w # "enter"
      <4>1. answer[t] \in Values
        BY <2>2 DEF Use, ObjectsTypeOK
      <4> QED  BY <3>a, <4>1, FoundType DEF Steps, Waiting, Decoded
    <3>2. Uses[f.on] \in Streams /\ 0 \in 0..MaxNesting
      BY <1>1, <3>1, HeadType, DocumentObjectsAssumption
    <3> DEFINE g == Calling("derived", Uses[f.on], 0)
    <3>3. g \in Frame /\ g.after = "enter"
      BY <3>2 DEF Calling, Frame
    <3> HIDE DEF g
    <3> QED  BY <1>1, <2>1, <3>1, <3>a, <3>b, <3>3, CallKeepsMakers DEF g
  <2>3. CASE Shared(t)
    <3>1. /\ f.after = "enter" /\ cell[f.on] \in Values /\ Return(t, cell[f.on])
      BY <2>3 DEF Shared, At
    <3>2. ~Making(f)
      BY <3>1 DEF Making
    <3> QED  BY <1>1, <2>1, <3>1, <3>2, ReturnKeepsMakers
  <2>4. CASE ~Use(t) /\ ~Shared(t)
    <3>1. f.kind # "derived"
      BY <1>3, <2>4 DEF Step, Hit, Miss, Store, ReadDirect,
         ReadCompressed, Open, At, Kinds
    <3>2. ~Making(f)
      BY <3>1 DEF Making
    <3>3. CASE \E g \in Frame, step \in Waiting :
                 g.after = "enter" /\ Call(t, step, g)
      <4>1. PICK g \in Frame, step \in Waiting :
                   g.after = "enter" /\ Call(t, step, g)
        BY <3>3
      <4>2. step \in Steps /\ step # "enter"
        BY DEF Steps, Waiting, Decoded
      <4> QED  BY <1>1, <2>1, <3>1, <4>1, <4>2, CallKeepsMakers
    <3>4. CASE \E v \in Values : Return(t, v)
      BY <1>1, <2>1, <3>2, <3>4, ReturnKeepsMakers
    <3> QED  BY <3>3, <3>4, StepForms
  <2> QED  BY <2>2, <2>3, <2>4
<1> QED  BY <1>2, <1>3

\* Every step of the system does.
LEMMA ObjectsMakers ==
  ASSUME ObjectsTypeOK, OpensInv, MakersInv, [ObjectsNext]_objectsVars
  PROVE  MakersInv'
<1>1. ASSUME NEW t \in Threads, Request(t)  PROVE MakersInv'
  <2>1. PICK f \in Frame : /\ stack'[t] = <<f>> /\ f.after = "enter"
                          /\ <<f>> # <<>> /\ Head(<<f>>) = f /\ Tail(<<f>>) = <<>>
    BY <1>1, RequestEffect
  <2> DEFINE r == <<f>>
  <2>2. r \in Seq(Frame) /\ r # <<>> /\ ~Making(Head(r)) /\ Tail(r) = <<>>
    BY <2>1 DEF Making
  <2> HIDE DEF r
  <2>3. Made(r) = {} /\ MakesOnce(r)
    BY <2>2, MadeBelow, EmptyStack
  <2>4. stack[t] = <<>> /\ cell' = cell /\ \A u \in Threads \ {t} : stack'[u] = stack[u]
    BY <1>1, RequestEffect
  <2>5. \A x \in Streams : cell[x] # t
    BY <2>4, EmptyStack DEF MakersInv
  <2>6. MakesOnce(stack'[t]) /\ \A x \in Streams : x \in Made(stack'[t]) <=> cell'[x] = t
    BY <2>1, <2>3, <2>4, <2>5 DEF r
  <2> QED  BY <2>4, <2>6, OneMakerAtATime
<1>2. ASSUME NEW t \in Threads, Panic(t)  PROVE MakersInv'
  <2>1. /\ stack'[t] = <<>> /\ \A u \in Threads \ {t} : stack'[u] = stack[u]
        /\ \A x \in Streams : cell'[x] = IF cell[x] = t THEN "none" ELSE cell[x]
    BY <1>2, PanicEffect
  <2>2. "none" \notin Threads
    BY DocumentObjectsAssumption
  <2>3. MakesOnce(stack'[t]) /\ \A x \in Streams : x \in Made(stack'[t]) <=> cell'[x] = t
    BY <2>1, <2>2, EmptyStack
  <2>4. \A x \in Streams, u \in Threads \ {t} : cell'[x] = u <=> cell[x] = u
    BY <2>1, <2>2
  <2> QED  BY <2>1, <2>3, <2>4, OneMakerAtATime
<1>3. CASE UNCHANGED objectsVars
  BY <1>3 DEF objectsVars, MakersInv
<1> QED  BY <1>1, <1>2, <1>3, StepMakers DEF ObjectsNext

-----------------------------------------------------------------------------
(* The damage is confined                                                  *)

\* What a call waits for, by how far it has got.
LEMMA AwaitedIs ==
  ASSUME NEW doc, NEW f
  PROVE  /\ f.after = "store" => Awaited(doc, f)[1] = "read" /\ Awaited(doc, f)[2] = f.on
         /\ f.after = "open" => Awaited(doc, f)[1] = "stream" /\ Awaited(doc, f)[2] = doc[f.on]
         /\ f.after = "use" => Awaited(doc, f)[1] = "stream" /\ Awaited(doc, f)[2] = f.on
         /\ f.after \in Decoded => Awaited(doc, f)[1] = "derived" /\ Awaited(doc, f)[2] = Uses[f.on]
BY DEF Awaited, Decoded

\* What the answer to a call may be, by how far it has got.
LEMMA AnswerIs ==
  ASSUME NEW doc, NEW f, NEW v, Answers(doc, f, v)
  PROVE  /\ f.after = "store" => v \in ValuesOf(doc, "read", f.on)
         /\ f.after = "open" => v \in ValuesOf(doc, "stream", doc[f.on])
         /\ f.after = "use" => v \in ValuesOf(doc, "stream", f.on)
         /\ f.after \in Decoded => v \in ValuesOf(doc, "derived", Uses[f.on])
BY AwaitedIs DEF Answers

\* A call returns what it should: the call below it, or the page, has its answer.
LEMMA ReturnAnswers ==
  ASSUME NEW doc, NEW s \in Seq(Frame), s # <<>>, NEW q, NEW w, NEW v,
         CallsOK(doc, s, w, q), v \in ValuesOf(doc, Head(s).kind, Head(s).on)
  PROVE  CallsOK(doc, Tail(s), v, q)
<1> DEFINE b == Tail(s)
           f == Head(s)
<1>1. StackOK(doc, s) /\ q = <<Bottom(s).kind, Bottom(s).on>>
  BY DEF CallsOK
<1>2. /\ StackOK(doc, b)
      /\ b # <<>> => Head(b).after # "enter" /\ Awaited(doc, Head(b)) = <<f.kind, f.on>>
  BY <1>1, StackOKParts
<1>3. Bottom(s) = IF b = <<>> THEN f ELSE Bottom(b)
  BY BottomParts
<1>4. ASSUME b # <<>>  PROVE  Answers(doc, Head(b), v)
  <2>1. Head(b).after # "enter" /\ Awaited(doc, Head(b)) = <<f.kind, f.on>>
    BY <1>2, <1>4
  <2> DEFINE a == Awaited(doc, Head(b))
  <2>a. a[1] = f.kind /\ a[2] = f.on
    <3>1. <<f.kind, f.on>>[1] = f.kind /\ <<f.kind, f.on>>[2] = f.on
      OBVIOUS
    <3>2. a = <<f.kind, f.on>>
      BY <2>1
    <3> QED  BY <3>1, <3>2, Zenon
  <2> HIDE DEF a
  <2>2. v \in ValuesOf(doc, a[1], a[2])
    BY <2>a
  <2> QED  BY <2>1, <2>2 DEF Answers, a
<1>5. ASSUME b = <<>>, q # Nothing  PROVE  v \in ValuesOf(doc, q[1], q[2])
  <2>1. q = <<f.kind, f.on>>
    BY <1>1, <1>3, <1>5
  <2> QED  BY <2>1
<1> HIDE DEF b, f
<1>6. b # <<>> => q = <<Bottom(b).kind, Bottom(b).on>>
  BY <1>1, <1>3
<1> QED  BY <1>2, <1>4, <1>5, <1>6 DEF CallsOK, b

\* A call makes another that it waits for.
LEMMA CallWaits ==
  ASSUME NEW doc, NEW s \in Seq(Frame), s # <<>>, NEW q, NEW w, CallsOK(doc, s, w, q),
         NEW g \in Frame, g.after = "enter", FrameOK(doc, g),
         NEW step \in Steps, step # "enter", FrameOK(doc, Then(Head(s), step)),
         Awaited(doc, Then(Head(s), step)) = <<g.kind, g.on>>
  PROVE  CallsOK(doc, <<g, Then(Head(s), step)>> \o Tail(s), "none", q)
<1> DEFINE r == <<g, Then(Head(s), step)>> \o Tail(s)
           f == Head(s)
           h == Then(Head(s), step)
           b == Tail(s)
<1>1. /\ r \in Seq(Frame) /\ r # <<>> /\ Head(r) = g
      /\ Tail(r) \in Seq(Frame) /\ Tail(r) # <<>> /\ Head(Tail(r)) = h /\ Tail(Tail(r)) = b
      /\ b \in Seq(Frame) /\ f \in Frame /\ h \in Frame
  BY CallStack
<1>2. h.after = step /\ h.kind = f.kind /\ h.on = f.on
  BY <1>1, ThenType
<1>3. FrameOK(doc, h) /\ Awaited(doc, h) = <<g.kind, g.on>>
  OBVIOUS
<1>4. StackOK(doc, s) /\ q = <<Bottom(s).kind, Bottom(s).on>>
  BY DEF CallsOK
<1>5. /\ StackOK(doc, b)
      /\ b # <<>> => Head(b).after # "enter" /\ Awaited(doc, Head(b)) = <<f.kind, f.on>>
  BY <1>4, StackOKParts
<1>6. Bottom(s) = IF b = <<>> THEN f ELSE Bottom(b)
  BY BottomParts
<1> HIDE DEF r, f, h, b
<1>7. StackOK(doc, Tail(r))
  BY <1>1, <1>2, <1>3, <1>5, StackOKParts
<1>8. StackOK(doc, r)
  BY <1>1, <1>2, <1>3, <1>7, StackOKParts
<1>9. Bottom(Tail(r)) = (IF b = <<>> THEN h ELSE Bottom(b)) /\ Bottom(r) = Bottom(Tail(r))
  BY <1>1, BottomParts
<1>10. q = <<Bottom(r).kind, Bottom(r).on>>
  BY <1>2, <1>4, <1>6, <1>9
<1> QED  BY <1>1, <1>8, <1>10 DEF CallsOK, r, h, b, f

\* The calls of one thread change.
LEMMA OneThreadCalls ==
  ASSUME CallsInv, NEW t \in Threads, filterIn' = filterIn,
         \A u \in Threads \ {t} : stack'[u] = stack[u] /\ answer'[u] = answer[u] /\ asked'[u] = asked[u],
         CallsOK(filterIn, stack'[t], answer'[t], asked'[t])
  PROVE  CallsInv'
<1>1. ASSUME NEW u \in Threads  PROVE CallsOK(filterIn', stack'[u], answer'[u], asked'[u])
  <2>1. CASE u = t
    BY <2>1
  <2>2. CASE u # t
    BY <2>2 DEF CallsInv
  <2> QED  BY <2>1, <2>2
<1> QED  BY <1>1 DEF CallsInv

\* A step that returns what it should keeps the calls as they should be.
LEMMA ReturnKeepsCalls ==
  ASSUME ObjectsTypeOK, CallsInv, NEW t \in Threads,
         stack[t] # <<>>, NEW v \in Values, Return(t, v),
         UNCHANGED <<filterIn, asked>>,
         v \in ValuesOf(filterIn, Head(stack[t]).kind, Head(stack[t]).on)
  PROVE  CallsInv'
<1> DEFINE s == stack[t]
<1>1. s \in Seq(Frame) /\ CallsOK(filterIn, s, answer[t], asked[t])
  BY DEF ObjectsTypeOK, CallsInv
<1>2. /\ stack'[t] = Tail(s) /\ answer'[t] = v
      /\ \A u \in Threads \ {t} : stack'[u] = stack[u] /\ answer'[u] = answer[u]
  BY ReturnEffect
<1>3. CallsOK(filterIn, Tail(s), v, asked[t])
  <2>1. s # <<>> /\ v \in ValuesOf(filterIn, Head(s).kind, Head(s).on)
    OBVIOUS
  <2> HIDE DEF s
  <2> QED  BY <1>1, <2>1, ReturnAnswers
<1>4. CallsOK(filterIn, stack'[t], answer'[t], asked'[t])
  BY <1>2, <1>3
<1> QED  BY <1>2, <1>4, OneThreadCalls

\* So does one that makes the call it should.
LEMMA CallKeepsCalls ==
  ASSUME ObjectsTypeOK, CallsInv, NEW t \in Threads, stack[t] # <<>>,
         NEW g \in Frame, g.after = "enter", NEW step \in Steps, step # "enter", Call(t, step, g),
         UNCHANGED <<filterIn, asked>>,
         FrameOK(filterIn, g), FrameOK(filterIn, Then(Head(stack[t]), step)),
         Awaited(filterIn, Then(Head(stack[t]), step)) = <<g.kind, g.on>>
  PROVE  CallsInv'
<1> DEFINE s == stack[t]
<1>1. s \in Seq(Frame) /\ CallsOK(filterIn, s, answer[t], asked[t])
  BY DEF ObjectsTypeOK, CallsInv
<1>2. /\ stack'[t] = <<g, Then(Head(s), step)>> \o Tail(s) /\ answer'[t] = "none"
      /\ \A u \in Threads \ {t} : stack'[u] = stack[u] /\ answer'[u] = answer[u]
  BY CallEffect
<1>3. CallsOK(filterIn, <<g, Then(Head(s), step)>> \o Tail(s), "none", asked[t])
  <2>1. s # <<>> /\ FrameOK(filterIn, Then(Head(s), step))
        /\ Awaited(filterIn, Then(Head(s), step)) = <<g.kind, g.on>>
    OBVIOUS
  <2> HIDE DEF s
  <2> QED  BY <1>1, <2>1, CallWaits
<1>4. CallsOK(filterIn, stack'[t], answer'[t], asked'[t])
  BY <1>2, <1>3
<1> QED  BY <1>2, <1>4, OneThreadCalls

\* The document, what is shared, and what a thread is at.
LEMMA AtCall ==
  ASSUME ObjectsTypeOK, CallsInv, NEW t \in Threads, stack[t] # <<>>
  PROVE  LET f == Head(stack[t]) IN
         /\ filterIn \in Documents
         /\ f \in Frame /\ f.on \in Streams /\ f.depth \in 0..MaxNesting /\ FrameOK(filterIn, f)
         /\ answer[t] # "none" => Answers(filterIn, f, answer[t])
<1>1. stack[t] \in Seq(Frame) /\ filterIn \in Documents
  BY DEF ObjectsTypeOK
<1>2. CallsOK(filterIn, stack[t], answer[t], asked[t])
  BY DEF CallsInv
<1>3. FrameOK(filterIn, Head(stack[t]))
      /\ (answer[t] # "none" => Answers(filterIn, Head(stack[t]), answer[t]))
  BY <1>1, <1>2, StackOKParts DEF CallsOK
<1> QED  BY <1>1, <1>3, HeadType

\* The object in the cache may be that.
LEMMA HitKeepsMemo ==
  ASSUME ObjectsTypeOK, MemoInv, CallsInv, NEW t \in Threads, Hit(t)
  PROVE  MemoInv' /\ CallsInv'
<1> DEFINE f == Head(stack[t])
           v == cache[ObjectOf(f)]
<1>1. /\ stack[t] # <<>> /\ f.kind \in Kinds /\ v # "none" /\ Return(t, v)
      /\ UNCHANGED <<filterIn, cache, opened, cell, asked>>
  BY DEF Hit, At
<1>2. f.on \in Streams
  BY <1>1, HeadType
<1>3. ObjectOf(f) \in Objects /\ ObjectOf(f)[1] = f.kind /\ ObjectOf(f)[2] = f.on
  BY <1>1, <1>2 DEF ObjectOf, Objects
<1>4. v \in Values /\ v \in ValuesOf(filterIn, f.kind, f.on)
  BY <1>1, <1>3 DEF ObjectsTypeOK, MemoInv, CacheInv
<1>5. MemoInv'
  BY <1>1 DEF MemoInv, CacheInv, OpenedInv, CellInv
<1> HIDE DEF v
<1> QED  BY <1>1, <1>4, <1>5, ReturnKeepsCalls

\* The filter is read at the depth of the object.
LEMMA MissKeepsMemo ==
  ASSUME ObjectsTypeOK, MemoInv, CallsInv, NEW t \in Threads, Miss(t)
  PROVE  MemoInv' /\ CallsInv'
<1> DEFINE f == Head(stack[t])
           g == Calling("read", f.on, f.depth)
           h == Then(f, "store")
<1>1. /\ stack[t] # <<>> /\ f.kind \in Kinds /\ Call(t, "store", g)
      /\ UNCHANGED <<filterIn, cache, opened, cell, asked>>
  BY DEF Miss, At
<1>2. f \in Frame /\ f.on \in Streams /\ f.depth \in 0..MaxNesting /\ FrameOK(filterIn, f)
  BY <1>1, AtCall
<1>3. /\ g \in Frame /\ g.after = "enter" /\ g.kind = "read" /\ g.on = f.on /\ g.depth = f.depth
      /\ "store" \in Steps
  BY <1>2 DEF Calling, Frame, Steps, Waiting
<1>4. h.after = "store" /\ h.kind = f.kind /\ h.on = f.on /\ h.depth = f.depth
  BY <1>2, <1>3, ThenType
<1>5. f.kind # "derived"
  BY <1>1 DEF Kinds
<1> HIDE DEF g, h
<1>6. FrameOK(filterIn, g) /\ FrameOK(filterIn, h)
  BY <1>1, <1>2, <1>3, <1>4, <1>5 DEF FrameOK, Decoded
<1>7. Awaited(filterIn, h) = <<g.kind, g.on>>
  BY <1>3, <1>4 DEF Awaited, Decoded
<1>8. MemoInv'
  BY <1>1 DEF MemoInv, CacheInv, OpenedInv, CellInv
<1> QED  BY <1>1, <1>3, <1>6, <1>7, <1>8, CallKeepsCalls DEF h

\* What is cached is what was read, or a stream with what was read inlined.
LEMMA StoreKeepsMemo ==
  ASSUME ObjectsTypeOK, MemoInv, CallsInv, NEW t \in Threads, Store(t)
  PROVE  MemoInv' /\ CallsInv'
<1> DEFINE f == Head(stack[t])
           o == ObjectOf(f)
           a == answer[t]
<1>1. /\ stack[t] # <<>> /\ f.kind \in Kinds /\ f.after = "store" /\ a # "none"
      /\ UNCHANGED <<filterIn, opened, cell, asked>>
  BY DEF Store, At
<1>2. PICK v \in IF o[1] = "stream" THEN Inlined(a) ELSE {a} :
        /\ cache' = IF v = "missing" THEN cache ELSE [cache EXCEPT ![o] = v]
        /\ Return(t, v)
  BY DEF Store
<1>3. filterIn \in Documents /\ f.on \in Streams /\ Answers(filterIn, f, a)
  BY <1>1, AtCall
<1>4. a \in ValuesOf(filterIn, "read", f.on)
  BY <1>1, <1>3, AnswerIs
<1>5. o \in Objects /\ o = <<f.kind, f.on>> /\ o[1] = f.kind /\ o[2] = f.on
  BY <1>1, <1>3 DEF ObjectOf, Objects
<1>6. f.kind = "stream" \/ f.kind = "filter"
  BY <1>1 DEF Kinds
<1> HIDE DEF f, o, a
<1>7. v \in ValuesOf(filterIn, f.kind, f.on)
  <2>1. CASE f.kind = "stream"
    <3>1. v \in Inlined(a)
      BY <1>2, <1>5, <2>1
    <3> QED  BY <1>3, <1>4, <2>1, <3>1, InlinedIs
  <2>2. CASE f.kind = "filter"
    <3>1. v = a
      BY <1>2, <1>5, <2>2
    <3>2. f.kind # "derived" /\ "read" # "derived"
      BY <2>2
    <3> QED  BY <1>3, <1>4, <3>1, <3>2, SameValues
  <2> QED  BY <1>6, <2>1, <2>2
<1>8. v \in Values
  BY <1>7, ValuesAre
<1>9. MemoInv'
  <2>1. ASSUME NEW x \in Objects, cache'[x] # "none"
        PROVE  cache'[x] \in ValuesOf(filterIn, x[1], x[2])
    <3>1. CASE x = o /\ v # "missing"
      BY <1>2, <1>5, <1>7, <3>1 DEF ObjectsTypeOK
    <3>2. CASE ~(x = o /\ v # "missing")
      <4>1. cache'[x] = cache[x]
        BY <1>2, <3>2 DEF ObjectsTypeOK
      <4> QED  BY <2>1, <4>1 DEF MemoInv, CacheInv
    <3> QED  BY <3>1, <3>2
  <2> QED  BY <1>1, <2>1 DEF MemoInv, CacheInv, OpenedInv, CellInv
<1> QED  BY <1>1, <1>2, <1>7, <1>8, <1>9, ReturnKeepsCalls DEF f

\* A filter in the file is there.
LEMMA ReadDirectKeepsMemo ==
  ASSUME ObjectsTypeOK, MemoInv, CallsInv, NEW t \in Threads, ReadDirect(t)
  PROVE  MemoInv' /\ CallsInv'
<1> DEFINE f == Head(stack[t])
<1>1. /\ stack[t] # <<>> /\ f.kind = "read" /\ filterIn[f.on] = File /\ Return(t, "whole")
      /\ UNCHANGED <<filterIn, cache, opened, cell, asked>>
  BY DEF ReadDirect, At
<1>2. filterIn \in Documents /\ f.on \in Streams
  BY <1>1, AtCall
<1>3. "whole" \in ValuesOf(filterIn, f.kind, f.on)
  BY <1>1, <1>2, DirectIsWhole
<1>4. "whole" \in Values
  BY DEF Values
<1>5. MemoInv'
  BY <1>1 DEF MemoInv, CacheInv, OpenedInv, CellInv
<1> QED  BY <1>1, <1>3, <1>4, <1>5, ReturnKeepsCalls

\* A container is entered one level deeper, as far as the limit lets it.
LEMMA ReadCompressedKeepsMemo ==
  ASSUME ObjectsTypeOK, MemoInv, CallsInv, NEW t \in Threads, ReadCompressed(t)
  PROVE  MemoInv' /\ CallsInv'
<1> DEFINE f == Head(stack[t])
           c == filterIn[f.on]
           g == Calling("stream", c, f.depth + 1)
           h == Then(f, "open")
<1>1. /\ stack[t] # <<>> /\ f.kind = "read" /\ c # File
      /\ IF f.depth >= MaxNesting THEN Return(t, "missing") ELSE Call(t, "open", g)
      /\ UNCHANGED <<filterIn, cache, opened, cell, asked>>
  BY DEF ReadCompressed, At
<1>2. /\ filterIn \in Documents /\ f \in Frame
      /\ f.on \in Streams /\ f.depth \in 0..MaxNesting /\ FrameOK(filterIn, f)
  BY <1>1, AtCall
<1>3. MemoInv'
  BY <1>1 DEF MemoInv, CacheInv, OpenedInv, CellInv
<1>4. Reached(filterIn, f.on, f.depth)
  BY <1>1, <1>2 DEF FrameOK
<1>5. c \in Streams /\ MaxNesting \in Nat /\ f.depth \in Nat
  BY <1>1, <1>2, DocumentObjectsAssumption
<1>6. CASE f.depth >= MaxNesting
  <2>1. "missing" \in ValuesOf(filterIn, f.kind, f.on)
    BY <1>1, <1>2, <1>4, <1>6, LimitCuts
  <2>2. "missing" \in Values
    BY DEF Values
  <2> QED  BY <1>1, <1>3, <1>6, <2>1, <2>2, ReturnKeepsCalls
<1>7. CASE ~(f.depth >= MaxNesting)
  <2>1. f.depth + 1 \in 0..MaxNesting /\ Call(t, "open", g)
    BY <1>1, <1>2, <1>5, <1>7
  <2>2. /\ g \in Frame /\ g.after = "enter" /\ g.kind = "stream" /\ g.on = c /\ g.depth = f.depth + 1
        /\ "open" \in Steps
    BY <1>5, <2>1 DEF Calling, Frame, Steps, Kinds, Waiting
  <2>3. h.after = "open" /\ h.kind = "read" /\ h.on = f.on /\ h.depth = f.depth
    BY <1>1, <1>2, <2>2, ThenType
  <2>4. Reached(filterIn, c, f.depth + 1)
    BY <1>1, <1>2, <1>4, <1>5, ReachedNext
  <2> HIDE DEF g, h
  <2>5. FrameOK(filterIn, g)
    BY <2>2, <2>4 DEF FrameOK, Decoded
  <2>6. FrameOK(filterIn, h)
    BY <1>4, <2>3 DEF FrameOK, Decoded
  <2>7. Awaited(filterIn, h) = <<g.kind, g.on>>
    BY <2>2, <2>3 DEF Awaited, Decoded
  <2> QED  BY <1>1, <1>3, <2>1, <2>2, <2>5, <2>6, <2>7, CallKeepsCalls DEF h
<1> QED  BY <1>6, <1>7

\* A container is decoded to what it may be, and a filter found in it may be that.
LEMMA OpenKeepsMemo ==
  ASSUME ObjectsTypeOK, OpensInv, MemoInv, CallsInv, NEW t \in Threads, Open(t)
  PROVE  MemoInv' /\ CallsInv'
<1> DEFINE f == Head(stack[t])
           c == filterIn[f.on]
<1>1. /\ stack[t] # <<>> /\ f.kind = "read" /\ f.after = "open" /\ answer[t] # "none"
      /\ UNCHANGED <<filterIn, cache, cell, asked>>
  BY DEF Open, At
<1>2. filterIn \in Documents /\ f \in Frame /\ f.on \in Streams /\ Answers(filterIn, f, answer[t])
  BY <1>1, AtCall
<1>3. c \in Streams
  BY OpenEffect
<1>4. PICK w \in Decoded :
        /\ IF opened[c] = "none" THEN w \in Decodes(c, answer[t]) ELSE w = opened[c]
        /\ opened' = IF w = "missing" THEN opened ELSE [opened EXCEPT ![c] = w]
        /\ \E v \in Values : v \in Found(w) /\ Return(t, v)
  BY OpenEffect
<1>5. PICK v \in Values : v \in Found(w) /\ Return(t, v)
  BY <1>4
<1>6. answer[t] \in ValuesOf(filterIn, "stream", c)
  BY <1>1, <1>2, AnswerIs
<1>7. c # File
  BY <1>3, DocumentObjectsAssumption
<1>8. w \in ValuesOf(filterIn, "stream", c)
  <2>1. CASE opened[c] = "none"
    <3>1. w \in Decodes(c, answer[t])
      BY <1>4, <2>1
    <3> QED  BY <1>2, <1>3, <1>6, <3>1, DecodesIs
  <2>2. CASE opened[c] # "none"
    BY <1>3, <1>4, <2>2 DEF MemoInv, OpenedInv
  <2> QED  BY <2>1, <2>2
<1>9. v \in ValuesOf(filterIn, f.kind, f.on)
  <2>1. v \in ValuesOf(filterIn, "stream", c)
    BY <1>5, <1>8, FoundIs
  <2> QED  BY <1>1, <1>2, <1>7, <2>1, ContainerIs
<1> HIDE DEF c, f
<1>10. MemoInv'
  <2>1. ASSUME NEW x \in Streams, opened'[x] # "none"
        PROVE  opened'[x] \in ValuesOf(filterIn, "stream", x)
    <3>1. CASE x = c /\ w # "missing"
      BY <1>3, <1>4, <1>8, <3>1 DEF ObjectsTypeOK
    <3>2. CASE ~(x = c /\ w # "missing")
      <4>1. opened'[x] = opened[x]
        BY <1>4, <3>2 DEF ObjectsTypeOK
      <4> QED  BY <2>1, <4>1 DEF MemoInv, OpenedInv
    <3> QED  BY <3>1, <3>2
  <2> QED  BY <1>1, <2>1 DEF MemoInv, CacheInv, OpenedInv, CellInv
<1> QED  BY <1>1, <1>5, <1>9, <1>10, ReturnKeepsCalls DEF f

\* A value is made from an object, asked for anew.
LEMMA ClaimKeepsMemo ==
  ASSUME ObjectsTypeOK, MemoInv, CallsInv, NEW t \in Threads, Claim(t)
  PROVE  MemoInv' /\ CallsInv'
<1> DEFINE f == Head(stack[t])
           g == Calling("stream", f.on, 0)
           h == Then(f, "use")
<1>1. /\ stack[t] # <<>> /\ f.kind = "derived" /\ Call(t, "use", g)
      /\ cell' = [cell EXCEPT ![f.on] = t]
      /\ UNCHANGED <<filterIn, cache, opened, asked>>
  BY DEF Claim, At
<1>2. f \in Frame /\ f.on \in Streams
  BY <1>1, AtCall
<1>3. /\ g \in Frame /\ g.after = "enter" /\ g.kind = "stream" /\ g.on = f.on /\ g.depth = 0
      /\ "use" \in Steps
  BY <1>2, DocumentObjectsAssumption DEF Calling, Frame, Steps, Kinds, Waiting
<1>4. h.after = "use" /\ h.kind = f.kind /\ h.on = f.on
  BY <1>2, <1>3, ThenType
<1>5. t \notin Values
  BY DocumentObjectsAssumption DEF Values
<1> HIDE DEF g, h
<1>6. FrameOK(filterIn, g) /\ FrameOK(filterIn, h)
  BY <1>1, <1>2, <1>3, <1>4, ReachedAtOnce DEF FrameOK, Decoded
<1>7. Awaited(filterIn, h) = <<g.kind, g.on>>
  BY <1>3, <1>4 DEF Awaited, Decoded
<1>8. \A x \in Streams : cell'[x] \in Values => cell'[x] \in ValuesOf(filterIn, "derived", x)
  BY <1>1, <1>5 DEF MemoInv, CellInv, ObjectsTypeOK
<1>9. MemoInv'
  BY <1>1, <1>8 DEF MemoInv, CacheInv, OpenedInv, CellInv
<1> QED  BY <1>1, <1>3, <1>6, <1>7, <1>9, CallKeepsCalls DEF h

\* A value that is there is shared.
LEMMA SharedKeepsMemo ==
  ASSUME ObjectsTypeOK, MemoInv, CallsInv, NEW t \in Threads, Shared(t)
  PROVE  MemoInv' /\ CallsInv'
<1> DEFINE f == Head(stack[t])
           v == cell[f.on]
<1>1. /\ stack[t] # <<>> /\ f.kind = "derived" /\ v \in Values /\ Return(t, v)
      /\ UNCHANGED <<filterIn, cache, opened, cell, asked>>
  BY DEF Shared, At
<1>2. f.on \in Streams
  BY <1>1, AtCall
<1>3. v \in ValuesOf(filterIn, f.kind, f.on)
  BY <1>1, <1>2 DEF MemoInv, CellInv
<1>4. MemoInv'
  BY <1>1 DEF MemoInv, CacheInv, OpenedInv, CellInv
<1> HIDE DEF v
<1> QED  BY <1>1, <1>3, <1>4, ReturnKeepsCalls

\* A value that needs another waits for it, with what its own object decodes to.
LEMMA UseKeepsMemo ==
  ASSUME ObjectsTypeOK, MemoInv, CallsInv, NEW t \in Threads, Use(t)
  PROVE  MemoInv' /\ CallsInv'
<1> DEFINE f == Head(stack[t])
           g == Calling("derived", Uses[f.on], 0)
<1>1. /\ stack[t] # <<>> /\ f.kind = "derived" /\ f.after = "use" /\ answer[t] # "none"
      /\ Uses[f.on] # Nothing
      /\ UNCHANGED <<filterIn, cache, opened, cell, asked>>
  BY DEF Use, At
<1>a. PICK w \in Decodes(f.on, answer[t]) : Call(t, w, g)
  BY DEF Use
<1> DEFINE h == Then(f, w)
<1>2. filterIn \in Documents /\ f \in Frame /\ f.on \in Streams /\ Answers(filterIn, f, answer[t])
  BY <1>1, AtCall
<1>3. Uses[f.on] \in Streams
  BY <1>1, <1>2, DocumentObjectsAssumption
<1>4. g \in Frame /\ g.after = "enter" /\ g.kind = "derived" /\ g.on = Uses[f.on]
  BY <1>3, DocumentObjectsAssumption DEF Calling, Frame
<1>b. w \in Decoded /\ w \in Steps /\ w # "enter"
  <2>1. answer[t] \in Values
    BY <1>1 DEF ObjectsTypeOK
  <2> QED  BY <1>a, <2>1, FoundType DEF Steps, Waiting, Decoded
<1>5. h.after = w /\ h.kind = f.kind /\ h.on = f.on
  BY <1>2, <1>b, ThenType
<1>6. w \in ValuesOf(filterIn, "stream", f.on)
  <2>1. answer[t] \in ValuesOf(filterIn, "stream", f.on)
    BY <1>1, <1>2, AnswerIs
  <2> QED  BY <1>2, <1>a, <2>1, DecodesIs
<1> HIDE DEF g, h
<1>7. FrameOK(filterIn, g)
  BY <1>4 DEF FrameOK, Decoded
<1>8. FrameOK(filterIn, h)
  BY <1>1, <1>b, <1>5, <1>6 DEF FrameOK, Decoded
<1>9. Awaited(filterIn, h) = <<g.kind, g.on>>
  BY <1>4, <1>b, <1>5 DEF Awaited, Decoded
<1>10. MemoInv'
  BY <1>1 DEF MemoInv, CacheInv, OpenedInv, CellInv
<1> QED  BY <1>1, <1>a, <1>b, <1>4, <1>7, <1>8, <1>9, <1>10, CallKeepsCalls DEF h

\* What a maker comes to.
LEMMA ComesToIs ==
  ASSUME NEW doc \in Documents, NEW f, f.on \in Streams, f.after \in {"use"} \cup Decoded,
         FrameOK(doc, f), NEW a, Answers(doc, f, a), NEW v \in ComesTo(f, a)
  PROVE  v \in ValuesOf(doc, "derived", f.on)
<1>1. CASE f.after = "use"
  <2>1. a \in ValuesOf(doc, "stream", f.on)
    BY <1>1, AnswerIs
  <2>2. PICK w \in Decodes(f.on, a) : v \in Found(w)
    BY <1>1 DEF ComesTo
  <2>3. w \in ValuesOf(doc, "stream", f.on)
    BY <2>1, <2>2, DecodesIs
  <2>4. v \in ValuesOf(doc, "stream", f.on)
    BY <2>2, <2>3, FoundIs
  <2> QED  BY <2>4, StreamIs
<1>2. CASE f.after # "use"
  <2>1. f.after \in Decoded
    BY <1>2
  <2>2. Uses[f.on] # Nothing /\ f.after \in ValuesOf(doc, "stream", f.on)
    BY <2>1 DEF FrameOK
  <2>3. CASE f.after = "whole"
    <3>1. v = a
      BY <1>2, <2>3 DEF ComesTo
    <3>2. a \in ValuesOf(doc, "derived", Uses[f.on])
      BY <2>1, AnswerIs
    <3>3. "whole" \in ValuesOf(doc, "stream", f.on)
      BY <2>2, <2>3
    <3> QED  BY <2>2, <3>1, <3>2, <3>3, UsedIs
  <2>4. CASE f.after # "whole"
    <3>1. v \in Found(f.after)
      BY <1>2, <2>4 DEF ComesTo
    <3>2. v \in ValuesOf(doc, "stream", f.on)
      BY <2>2, <3>1, FoundIs
    <3> QED  BY <3>2, StreamIs
  <2> QED  BY <2>3, <2>4
<1> QED  BY <1>1, <1>2

\* The value that is published is one it may be.
LEMMA PublishKeepsMemo ==
  ASSUME ObjectsTypeOK, MemoInv, CallsInv, NEW t \in Threads, Publish(t)
  PROVE  MemoInv' /\ CallsInv'
<1> DEFINE f == Head(stack[t])
<1>1. /\ stack[t] # <<>> /\ f.kind = "derived" /\ f.after \in {"use"} \cup Decoded
      /\ answer[t] \in Values
  BY PublishEffect
<1>a. UNCHANGED <<filterIn, cache, opened, asked>> /\ answer[t] # "none"
  BY DEF Publish
<1>2. PICK v \in Values : /\ v \in ComesTo(f, answer[t])
                          /\ cell' = [cell EXCEPT ![f.on] = v] /\ Return(t, v)
  BY PublishEffect
<1>3. /\ filterIn \in Documents /\ f.on \in Streams /\ FrameOK(filterIn, f)
      /\ Answers(filterIn, f, answer[t])
  BY <1>1, <1>a, AtCall
<1> HIDE DEF f
<1>4. v \in ValuesOf(filterIn, "derived", f.on)
  BY <1>1, <1>2, <1>3, ComesToIs
<1>5. v \in ValuesOf(filterIn, f.kind, f.on)
  BY <1>1, <1>4
<1>6. ASSUME NEW x \in Streams, cell'[x] \in Values
      PROVE  cell'[x] \in ValuesOf(filterIn, "derived", x)
  <2>1. CASE x = f.on
    BY <1>2, <1>4, <2>1 DEF ObjectsTypeOK
  <2>2. CASE x # f.on
    <3>1. cell'[x] = cell[x]
      BY <1>2, <2>2 DEF ObjectsTypeOK
    <3> QED  BY <1>6, <3>1 DEF MemoInv, CellInv
  <2> QED  BY <2>1, <2>2
<1>7. MemoInv'
  BY <1>a, <1>6 DEF MemoInv, CacheInv, OpenedInv, CellInv
<1> QED  BY <1>1, <1>a, <1>2, <1>5, <1>7, ReturnKeepsCalls DEF f

\* Every step keeps what is shared, and the calls, as they should be.
LEMMA ObjectsMemo ==
  ASSUME ObjectsTypeOK, OpensInv, MemoInv, CallsInv, [ObjectsNext]_objectsVars
  PROVE  MemoInv' /\ CallsInv'
<1>1. ASSUME NEW t \in Threads, Request(t)  PROVE MemoInv' /\ CallsInv'
  <2>1. PICK f \in Frame : /\ stack'[t] = <<f>> /\ f.after = "enter" /\ f.depth = 0
                          /\ asked'[t] = <<f.kind, f.on>> /\ f.kind # "read"
                          /\ <<f>> # <<>> /\ Head(<<f>>) = f /\ Tail(<<f>>) = <<>>
    BY <1>1, RequestEffect
  <2>2. /\ UNCHANGED <<filterIn, cache, opened, cell>> /\ answer'[t] = "none"
        /\ \A u \in Threads \ {t} : stack'[u] = stack[u] /\ answer'[u] = answer[u] /\ asked'[u] = asked[u]
    BY <1>1, RequestEffect
  <2>3. FrameOK(filterIn, f)
    <3>1. f.on \in Streams
      BY DEF Frame
    <3> QED  BY <2>1, <3>1, ReachedAtOnce DEF FrameOK, Decoded
  <2> DEFINE r == <<f>>
  <2>4. r \in Seq(Frame) /\ r # <<>> /\ Head(r) = f /\ Tail(r) = <<>>
    BY <2>1
  <2> HIDE DEF r
  <2>5. StackOK(filterIn, r)
    <3>1. StackOK(filterIn, Tail(r)) /\ FrameOK(filterIn, Head(r)) /\ ~(Tail(r) # <<>>)
      BY <2>3, <2>4, EmptyStack
    <3> QED  BY <2>4, <3>1, StackOKParts
  <2>6. Bottom(r) = f
    BY <2>4, BottomParts
  <2>7. CallsOK(filterIn, r, "none", asked'[t])
    BY <2>1, <2>4, <2>5, <2>6 DEF CallsOK
  <2>8. CallsOK(filterIn, stack'[t], answer'[t], asked'[t])
    BY <2>1, <2>2, <2>7 DEF r
  <2>9. CallsInv'
    BY <2>2, <2>8, OneThreadCalls
  <2> QED  BY <2>2, <2>9 DEF MemoInv, CacheInv, OpenedInv, CellInv
<1>2. ASSUME NEW t \in Threads, Panic(t)  PROVE MemoInv' /\ CallsInv'
  <2>1. /\ UNCHANGED <<filterIn, cache, opened>> /\ stack'[t] = <<>> /\ asked'[t] = Nothing
        /\ \A u \in Threads \ {t} : stack'[u] = stack[u] /\ answer'[u] = answer[u] /\ asked'[u] = asked[u]
        /\ \A x \in Streams : cell'[x] = IF cell[x] = t THEN "none" ELSE cell[x]
    BY <1>2, PanicEffect
  <2>2. CallsOK(filterIn, stack'[t], answer'[t], asked'[t])
    BY <2>1, EmptyStack DEF CallsOK
  <2>3. CallsInv'
    BY <2>1, <2>2, OneThreadCalls
  <2>4. \A x \in Streams : cell'[x] \in Values => cell'[x] \in ValuesOf(filterIn, "derived", x)
    BY <2>1 DEF MemoInv, CellInv, Values
  <2> QED  BY <2>1, <2>3, <2>4 DEF MemoInv, CacheInv, OpenedInv, CellInv
<1>3. CASE UNCHANGED objectsVars
  BY <1>3 DEF objectsVars, MemoInv, CacheInv, OpenedInv, CellInv, CallsInv
<1>4. ASSUME NEW t \in Threads, Step(t)  PROVE MemoInv' /\ CallsInv'
  BY <1>4, HitKeepsMemo, MissKeepsMemo, StoreKeepsMemo, ReadDirectKeepsMemo,
     ReadCompressedKeepsMemo,
     OpenKeepsMemo, ClaimKeepsMemo, SharedKeepsMemo, UseKeepsMemo, PublishKeepsMemo DEF Step
<1> QED  BY <1>1, <1>2, <1>3, <1>4 DEF ObjectsNext

-----------------------------------------------------------------------------
(* The theorems                                                            *)

\* At first no thread makes, caches or waits for anything.
LEMMA InitMemo ==
  ASSUME ObjectsInit
  PROVE  MakersInv /\ MemoInv /\ CallsInv
<1>1. "none" \notin Threads /\ "none" \notin Values
  BY DocumentObjectsAssumption DEF Values
<1>2. MakersInv
  BY <1>1, EmptyStack DEF ObjectsInit, MakersInv
<1>3. MemoInv
  BY <1>1 DEF ObjectsInit, MemoInv, CacheInv, OpenedInv, CellInv
<1>4. CallsInv
  BY EmptyStack DEF ObjectsInit, CallsInv, CallsOK
<1> QED  BY <1>2, <1>3, <1>4

\* For any document, threads and values that need one another: a value is made by one
\* thread at a time, the one its cell names, and a value that was made is not made again;
\* and the variables keep their types.
THEOREM DerivedOnceHolds == ObjectsSpec => []DerivedOnce
<1> DEFINE Inv == ObjectsTypeOK /\ OpensInv /\ MakersInv
<1>1. ObjectsInit => Inv
  BY InitObjects, InitMemo
<1>2. Inv /\ [ObjectsNext]_objectsVars => Inv'
  <2> SUFFICES ASSUME Inv, [ObjectsNext]_objectsVars  PROVE Inv'
    OBVIOUS
  <2> QED  BY ObjectsTypes, ObjectsMakers
<1>3. Inv => DerivedOnce
  <2> SUFFICES ASSUME Inv, NEW s \in Streams
               PROVE  MakersOf(s) = (IF cell[s] \in Threads THEN {cell[s]} ELSE {})
    BY DEF DerivedOnce
  <2>1. ASSUME NEW t \in Threads  PROVE t \in MakersOf(s) <=> s \in Made(stack[t])
    <3>1. stack[t] \in Seq(Frame)
      BY DEF ObjectsTypeOK
    <3>2. DOMAIN stack[t] = 1..Len(stack[t])
      BY <3>1, LenProperties
    <3> QED  BY <3>2 DEF MakersOf, Made, Making
  <2>2. \A t \in Threads : t \in MakersOf(s) <=> cell[s] = t
    BY <2>1 DEF MakersInv
  <2>3. MakersOf(s) \subseteq Threads
    BY DEF MakersOf
  <2> QED  BY <2>2, <2>3
<1> QED  BY <1>1, <1>2, <1>3, PTL DEF ObjectsSpec

\* For any documents, those whose chains of containers the nesting limit cuts or that have
\* no end among them, and any threads: whatever the order in which they ask and the nesting
\* at which an object is first met, what is cached, shared and returned is whole if all that
\* it needs is out of the limit's reach, never whole if it cannot be, and wrong only where
\* parameters that could not be read let it be.
THEOREM DamageIsConfinedHolds == ObjectsSpec => []DamageIsConfined
<1> DEFINE Inv == ObjectsTypeOK /\ OpensInv /\ MemoInv /\ CallsInv
<1>1. ObjectsInit => Inv
  BY InitObjects, InitMemo
<1>2. Inv /\ [ObjectsNext]_objectsVars => Inv'
  <2> SUFFICES ASSUME Inv, [ObjectsNext]_objectsVars  PROVE Inv'
    OBVIOUS
  <2> QED  BY ObjectsTypes, ObjectsMemo
<1>3. Inv => DamageIsConfined
  <2> SUFFICES ASSUME Inv  PROVE DamageIsConfined
    OBVIOUS
  <2>1. ASSUME NEW q \in Requests, NEW v \in ValuesOf(filterIn, q[1], q[2])
        PROVE  <<filterIn, q, v>> \in Findings
    <3>1. q = <<q[1], q[2]>>
      BY DEF Requests
    <3>2. v \in Values /\ MayBe(filterIn, q, v)
      BY <3>1 DEF ValuesOf
    <3> QED  BY <3>2 DEF Findings, ObjectsTypeOK
  <2>2. \A o \in Objects : o \in Requests
    BY DEF Objects, Requests
  <2>3. ASSUME NEW s \in Streams
        PROVE  /\ <<"derived", s>> \in Requests
               /\ <<"derived", s>>[1] = "derived" /\ <<"derived", s>>[2] = s
    BY DEF Requests
  <2>4. \A o \in Objects : cache[o] # "none" => <<filterIn, o, cache[o]>> \in Findings
    BY <2>1, <2>2 DEF MemoInv, CacheInv
  <2>5. ASSUME NEW s \in Streams, cell[s] \in Values
        PROVE  <<filterIn, <<"derived", s>>, cell[s]>> \in Findings
    <3> DEFINE q == <<"derived", s>>
    <3>1. q \in Requests /\ q[1] = "derived" /\ q[2] = s
      BY <2>3
    <3>2. cell[s] \in ValuesOf(filterIn, "derived", s)
      BY <2>5 DEF MemoInv, CellInv
    <3> HIDE DEF q
    <3>3. <<filterIn, q, cell[s]>> \in Findings
      BY <2>1, <3>1, <3>2
    <3> QED  BY <3>3 DEF q
  <2>6. ASSUME NEW t \in Threads, stack[t] = <<>>, asked[t] # Nothing
        PROVE  <<filterIn, asked[t], answer[t]>> \in Findings
    <3>1. asked[t] \in Requests
      BY <2>6 DEF ObjectsTypeOK
    <3>2. answer[t] \in ValuesOf(filterIn, asked[t][1], asked[t][2])
      BY <2>6 DEF CallsInv, CallsOK
    <3> QED  BY <2>1, <3>1, <3>2
  <2> QED  BY <2>4, <2>5, <2>6 DEF DamageIsConfined
<1> QED  BY <1>1, <1>2, <1>3, PTL DEF ObjectsSpec

=============================================================================
