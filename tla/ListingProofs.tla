--------------------------- MODULE ListingProofs ----------------------------
(***************************************************************************)
(* Proofs about Listing for any interests, numbers of followers, pages and *)
(* changes.                                                                *)
(*                                                                         *)
(* Page and NextPageData are about an order of the interests.  The proofs  *)
(* first establish that it is one, that a page is the beginning of what is *)
(* left of the list, and that what lies beyond the next cursor is what was *)
(* left without the page.  The invariant then relates the cursor to what   *)
(* was shown.  That paging advances needs less: Fitting, which says that a *)
(* list of public interests which gets to a second page stays one.         *)
(***************************************************************************)
EXTENDS Listing, FiniteSetTheorems, WellFoundedInduction, TLAPS

\* No number of followers is cut off in the callback data of public interests.
DataFits == \A n \in Counts : Digits(n) < Room

\* What is left of a list.
After(l, c) == {i \in Listed(l) : Beyond(l, c, i)}

\* An interest which others of the page precede.
IsLast(l, i, S) == i \in S /\ \A j \in S \ {i} : Precedes(l, j, i)
-----------------------------------------------------------------------------
(* The order.                                                                *)

\* What is known of the constants.
LEMMA ConstantFacts ==
    /\ NumIds \in Nat \ {0} /\ PageLimit \in Nat \ {0}
    /\ IsFiniteSet(Ids)
    /\ \A i \in Ids : i \in Nat /\ i > 0 /\ i <= NumIds
    /\ \A n \in Counts : n \in Nat /\ n <= MaxFollowers
    /\ Room \in Nat \ {0}
    /\ MaxFollowers \in Nat
<1>1. NumIds \in Nat \ {0} /\ PageLimit \in Nat \ {0}
  BY ListingAssumption
<1>2. IsFiniteSet(Ids)
  BY <1>1, FS_Interval DEF Ids
<1>3. \A i \in Ids : i \in Nat /\ i > 0 /\ i <= NumIds
  BY <1>1 DEF Ids
<1>0. MaxFollowers \in Nat
  BY DEF MaxFollowers
<1>4. \A n \in Counts : n \in Nat /\ n <= MaxFollowers
  BY <1>0, ListingAssumption
<1>5. Room \in Nat \ {0}
  BY ListingAssumption DEF Room, CmdLimit
<1> QED
  BY <1>0, <1>1, <1>2, <1>3, <1>4, <1>5

LEMMA FollowerFacts ==
    ASSUME followers \in [Ids -> Counts]
    PROVE  \A i \in Ids : followers[i] \in Nat /\ followers[i] <= MaxFollowers
BY ConstantFacts

\* A list is ordered: strictly, transitively and totally.
LEMMA Order ==
    ASSUME followers \in [Ids -> Counts], NEW l, NEW i \in Ids, NEW j \in Ids, NEW k \in Ids
    PROVE  /\ ~Precedes(l, i, i)
           /\ Precedes(l, i, j) => ~Precedes(l, j, i)
           /\ Precedes(l, i, j) /\ Precedes(l, j, k) => Precedes(l, i, k)
           /\ i # j => Precedes(l, i, j) \/ Precedes(l, j, i)
<1>1. /\ i \in Nat /\ j \in Nat /\ k \in Nat
      /\ followers[i] \in Nat /\ followers[j] \in Nat /\ followers[k] \in Nat
  BY ConstantFacts, FollowerFacts
<1> QED
  BY <1>1 DEF Precedes

\* Where a natural number belongs to every element, one has the least.
LEMMA LeastExists ==
    ASSUME NEW f, NEW S, S # {}, \A x \in S : f[x] \in Nat
    PROVE  \E m \in S : \A x \in S : f[m] <= f[x]
<1> DEFINE T == {f[x] : x \in S}
<1>1. T \subseteq Nat /\ T # {}
  OBVIOUS
<1>2. PICK n \in T : \A k \in T : ~(<<k, n>> \in OpToRel(<, Nat))
  BY <1>1, NatLessThanWellFounded, WFMin
<1>3. PICK m \in S : n = f[m]
  BY <1>2
<1>4. ASSUME NEW x \in S PROVE f[m] <= f[x]
  <2>1. ~(f[x] < f[m])
    BY <1>1, <1>2, <1>3 DEF OpToRel
  <2> QED
    BY <2>1
<1> QED
  BY <1>4

\* Some interests have a last one in the order of a list ...
LEMMA LastExists ==
    ASSUME followers \in [Ids -> Counts], NEW l, NEW S \in SUBSET Ids, S # {}
    PROVE  \E i \in S : IsLast(l, i, S)
<1>0. \A i \in S : i \in Nat /\ i <= NumIds /\ NumIds \in Nat /\ followers[i] \in Nat
  BY ConstantFacts, FollowerFacts
<1>1. CASE l = "public"
  <2>1. PICK m \in S : \A x \in S : followers[m] <= followers[x]
    BY <1>0, LeastExists
  <2> DEFINE T == {x \in S : followers[x] = followers[m]}
             f == [x \in T |-> x]
  <2>2. PICK i \in T : \A x \in T : f[i] <= f[x]
    <3>1. T # {} /\ \A x \in T : f[x] \in Nat
      BY <1>0
    <3> HIDE DEF f
    <3> QED
      BY <3>1, LeastExists
  <2>3. ASSUME NEW j \in S \ {i} PROVE Precedes(l, j, i)
    <3>1. j \in T => i <= j
      BY <2>2
    <3>2. followers[i] <= followers[j] /\ (j \in T <=> followers[j] = followers[i])
      BY <2>1, <2>2
    <3> QED
      BY <1>0, <1>1, <3>1, <3>2 DEF Precedes
  <2> QED
    BY <2>3 DEF IsLast
<1>2. CASE l # "public"
  <2> DEFINE f == [x \in S |-> NumIds - x]
  <2>1. PICK i \in S : \A x \in S : f[i] <= f[x]
    <3>1. \A x \in S : f[x] \in Nat
      BY <1>0
    <3> HIDE DEF f
    <3> QED
      BY <3>1, LeastExists
  <2>2. ASSUME NEW j \in S \ {i} PROVE Precedes(l, j, i)
    <3>1. NumIds - i <= NumIds - j
      BY <2>1
    <3> QED
      BY <1>0, <1>2, <3>1 DEF Precedes
  <2> QED
    BY <2>2 DEF IsLast
<1> QED
  BY <1>1, <1>2

\* ... and a first one.
LEMMA FirstExists ==
    ASSUME followers \in [Ids -> Counts], NEW l, NEW S \in SUBSET Ids, S # {}
    PROVE  \E i \in S : \A j \in S \ {i} : Precedes(l, i, j)
<1>0. \A i \in S : /\ i \in Nat /\ i <= NumIds /\ NumIds \in Nat
                   /\ followers[i] \in Nat /\ followers[i] <= MaxFollowers
                   /\ MaxFollowers \in Nat
  BY ConstantFacts, FollowerFacts
<1>1. CASE l = "public"
  <2> DEFINE g == [x \in S |-> MaxFollowers - followers[x]]
  <2>1. PICK m \in S : \A x \in S : g[m] <= g[x]
    <3>1. \A x \in S : g[x] \in Nat
      BY <1>0
    <3> HIDE DEF g
    <3> QED
      BY <3>1, LeastExists
  <2>2. \A x \in S : followers[x] <= followers[m]
    BY <1>0, <2>1
  <2> HIDE DEF g
  <2> DEFINE T == {x \in S : followers[x] = followers[m]}
             f == [x \in T |-> NumIds - x]
  <2>3. PICK i \in T : \A x \in T : f[i] <= f[x]
    <3>1. T # {} /\ \A x \in T : f[x] \in Nat
      BY <1>0
    <3> HIDE DEF f
    <3> QED
      BY <3>1, LeastExists
  <2>4. ASSUME NEW j \in S \ {i} PROVE Precedes(l, i, j)
    <3>1. j \in T => NumIds - i <= NumIds - j
      BY <2>3
    <3>2. followers[j] <= followers[i] /\ (j \in T <=> followers[j] = followers[i])
      BY <2>2, <2>3
    <3> QED
      BY <1>0, <1>1, <3>1, <3>2 DEF Precedes
  <2> QED
    BY <2>4
<1>2. CASE l # "public"
  <2> DEFINE f == [x \in S |-> x]
  <2>1. PICK i \in S : \A x \in S : f[i] <= f[x]
    <3>1. \A x \in S : f[x] \in Nat
      BY <1>0
    <3> HIDE DEF f
    <3> QED
      BY <3>1, LeastExists
  <2>2. ASSUME NEW j \in S \ {i} PROVE Precedes(l, i, j)
    BY <1>0, <1>2, <2>1 DEF Precedes
  <2> QED
    BY <2>2
<1> QED
  BY <1>1, <1>2
-----------------------------------------------------------------------------
(* The pages.                                                                *)

\* The interests of a list are interests.
LEMMA ListedFacts ==
    ASSUME exists \subseteq Ids, followed \subseteq Ids, NEW l \in Lists
    PROVE  Listed(l) \subseteq Ids
<1>1. Own \subseteq Ids /\ Elsewhere \subseteq Ids
  BY ListingAssumption
<1> QED
  BY <1>1 DEF Listed, Lists

\* A page is the beginning of what is left of a list, and all of it unless it is full.
LEMMA PageFacts ==
    ASSUME followers \in [Ids -> Counts], exists \subseteq Ids, followed \subseteq Ids,
           NEW l \in Lists, NEW c
    PROVE  /\ Page(l, c) \subseteq After(l, c)
           /\ Page(l, c) \subseteq Ids
           /\ \A i \in Page(l, c) : \A j \in After(l, c) : Precedes(l, j, i) => j \in Page(l, c)
           /\ Cardinality(Page(l, c)) # PageLimit => Page(l, c) = After(l, c)
<1> DEFINE A == After(l, c)
           P == Page(l, c)
           B(i) == {j \in A : Precedes(l, j, i)}
<1>1. A \subseteq Ids /\ IsFiniteSet(A)
  <2>1. A \subseteq Ids
    BY ListedFacts DEF After
  <2> QED
    BY <2>1, ConstantFacts, FS_Subset
<1>2. P = {i \in A : Cardinality(B(i)) < PageLimit}
  BY DEF Page, After
<1>3. \A i : IsFiniteSet(B(i)) /\ Cardinality(B(i)) \in Nat
  BY <1>1, FS_Subset, FS_CardinalityType
<1>4. PageLimit \in Nat \ {0}
  BY ConstantFacts
<1>5. P \subseteq A /\ P \subseteq Ids /\ IsFiniteSet(P) /\ Cardinality(P) \in Nat
  BY <1>1, <1>2, FS_Subset, FS_CardinalityType
<1>6. ASSUME NEW i \in P, NEW j \in A, Precedes(l, j, i) PROVE j \in P
  <2>1. B(j) \subseteq B(i)
    BY <1>1, <1>5, <1>6, Order
  <2>2. Cardinality(B(j)) <= Cardinality(B(i))
    BY <1>3, <2>1, FS_Subset
  <2>3. Cardinality(B(i)) < PageLimit
    BY <1>2
  <2>4. Cardinality(B(j)) < PageLimit
    BY <1>3, <1>4, <2>2, <2>3
  <2> QED
    BY <1>2, <2>4
<1>7. Cardinality(P) <= PageLimit
  <2>1. CASE P = {}
    BY <1>4, <2>1, FS_EmptySet
  <2>2. CASE P # {}
    <3>1. PICK i \in P : IsLast(l, i, P)
      BY <1>5, <2>2, LastExists
    <3>2. P \ {i} \subseteq B(i)
      BY <1>5, <3>1 DEF IsLast
    <3>3. Cardinality(P \ {i}) <= Cardinality(B(i))
      BY <1>3, <3>2, FS_Subset
    <3>4. Cardinality(P \ {i}) = Cardinality(P) - 1
      BY <1>5, FS_RemoveElement
    <3>5. Cardinality(B(i)) < PageLimit
      BY <1>2
    <3> QED
      BY <1>3, <1>4, <1>5, <3>3, <3>4, <3>5
  <2> QED
    BY <2>1, <2>2
<1>8. ASSUME P # A PROVE Cardinality(P) >= PageLimit
  <2>1. A \ P # {} /\ A \ P \in SUBSET Ids
    BY <1>1, <1>5, <1>8
  <2>2. PICK i \in A \ P : \A j \in (A \ P) \ {i} : Precedes(l, i, j)
    BY <2>1, FirstExists
  <2>3. ASSUME NEW j \in B(i) PROVE j \in P
    <3>1. j \in Ids /\ i \in Ids /\ Precedes(l, j, i)
      BY <1>1
    <3>2. ~Precedes(l, i, i) /\ ~Precedes(l, i, j)
      BY <3>1, Order
    <3> QED
      BY <2>2, <2>3, <3>1, <3>2
  <2>4. Cardinality(B(i)) <= Cardinality(P)
    BY <1>5, <2>3, FS_Subset
  <2>5. ~(Cardinality(B(i)) < PageLimit)
    BY <1>2, <2>2
  <2> QED
    BY <1>3, <1>4, <1>5, <2>4, <2>5
<1>9. Cardinality(P) # PageLimit => P = A
  BY <1>4, <1>5, <1>7, <1>8
<1> QED
  BY <1>5, <1>6, <1>9

\* A number of followers has its digits.
LEMMA DigitFacts ==
    ASSUME NEW n \in Nat, n <= MaxFollowers
    PROVE  /\ Digits(n) \in 1..8
           /\ n < Power[Digits(n)]
           /\ Digits(n) = 1 \/ n >= Power[Digits(n) - 1]
<1> DEFINE Fits(d) == n < Power[d] /\ (d = 1 \/ n >= Power[d - 1])
<1>2. \E d \in 1..8 : Fits(d)
  <2>0. /\ Power[1] = 10 /\ Power[2] = 100 /\ Power[3] = 1000 /\ Power[4] = 10000
        /\ Power[5] = 100000 /\ Power[6] = 1000000 /\ Power[7] = 10000000
        /\ Power[8] = 100000000
    BY DEF Power
  <2>1. n < 10 => Fits(1)
    BY <2>0
  <2>2. n >= 10 /\ n < 100 => Fits(2)
    BY <2>0
  <2>3. n >= 100 /\ n < 1000 => Fits(3)
    BY <2>0
  <2>4. n >= 1000 /\ n < 10000 => Fits(4)
    BY <2>0
  <2>5. n >= 10000 /\ n < 100000 => Fits(5)
    BY <2>0
  <2>6. n >= 100000 /\ n < 1000000 => Fits(6)
    BY <2>0
  <2>7. n >= 1000000 /\ n < 10000000 => Fits(7)
    BY <2>0
  <2>8. n >= 10000000 /\ n < 100000000 => Fits(8)
    BY <2>0
  <2>9. n < 100000000
    BY DEF MaxFollowers
  <2> HIDE DEF Fits
  <2> QED
    BY <2>1, <2>2, <2>3, <2>4, <2>5, <2>6, <2>7, <2>8, <2>9
<1>3. Digits(n) = CHOOSE d \in 1..8 : Fits(d)
  BY DEF Digits
<1> HIDE DEF Fits
<1>4. Digits(n) \in 1..8 /\ Fits(Digits(n))
  BY <1>2, <1>3
<1> QED
  BY <1>4 DEF Fits

\* A smaller number has no more digits.
LEMMA DigitsGrow ==
    ASSUME NEW n \in Nat, NEW m \in Nat, n <= m, m <= MaxFollowers
    PROVE  Digits(n) <= Digits(m)
<1>1. ASSUME NEW d \in 1..8, NEW e \in 1..8, d < e PROVE Power[d] <= Power[e - 1]
  <2>1. /\ Power[1] = 10 /\ Power[2] = 100 /\ Power[3] = 1000 /\ Power[4] = 10000
        /\ Power[5] = 100000 /\ Power[6] = 1000000 /\ Power[7] = 10000000
    BY DEF Power
  <2>2. d \in {1, 2, 3, 4, 5, 6, 7} /\ e - 1 \in {1, 2, 3, 4, 5, 6, 7} /\ d <= e - 1
    BY <1>1
  <2> QED
    BY <2>1, <2>2
<1>2. \A d \in 1..8 : Power[d] \in Nat
  BY DEF Power
<1>3. n <= MaxFollowers
  BY DEF MaxFollowers
<1>4. ASSUME Digits(m) < Digits(n) PROVE FALSE
  <2>1. /\ Digits(m) \in 1..8 /\ Digits(n) \in 1..8
        /\ m < Power[Digits(m)]
        /\ Digits(n) = 1 \/ n >= Power[Digits(n) - 1]
    BY <1>3, DigitFacts
  <2>2. Digits(n) # 1 /\ Digits(n) - 1 \in 1..8
    BY <1>4, <2>1
  <2>3. Power[Digits(m)] <= Power[Digits(n) - 1]
    BY <1>1, <1>4, <2>1
  <2> QED
    BY <1>2, <2>1, <2>2, <2>3
<1>5. Digits(m) \in Int /\ Digits(n) \in Int
  BY <1>3, DigitFacts
<1> QED
  BY <1>4, <1>5

\* The last interest of a page, as NextPageData finds it.
Last(l, page) == CHOOSE i \in page : \A j \in page \ {i} : Precedes(l, j, i)

LEMMA LastFacts ==
    ASSUME followers \in [Ids -> Counts], NEW l, NEW page \in SUBSET Ids, page # {}
    PROVE  IsLast(l, Last(l, page), page)
<1>1. \E i \in page : \A j \in page \ {i} : Precedes(l, j, i)
  BY LastExists DEF IsLast
<1> QED
  BY <1>1 DEF Last, IsLast

\* What the button of the next page carries.
LEMMA DataFacts ==
    ASSUME followers \in [Ids -> Counts], NEW l \in Lists, NEW page \in SUBSET Ids, page # {}
    PROVE  /\ NextPageData(l, page).list \in Lists
           /\ NextPageData(l, page).cursor \in [id : 0..NumIds, followers : Nat]
           /\ NextPageData(l, page).cursor.id = Last(l, page)
           /\ l # "public" => NextPageData(l, page).list = l
           /\ l = "public" =>
                (NextPageData(l, page).list = l <=> Digits(followers[Last(l, page)]) < Room)
           /\ l = "public" /\ NextPageData(l, page).list = l =>
                NextPageData(l, page).cursor.followers = followers[Last(l, page)]
           /\ DataFits => NextPageData(l, page).list = l
<1> DEFINE last == Last(l, page)
           n == followers[last]
           cut == Digits(n) - Room
           rest == IF cut <= 0 THEN n ELSE n \div Power[cut]
<1>1. /\ last \in Ids /\ last \in 0..NumIds
      /\ n \in Counts /\ n \in Nat /\ n <= MaxFollowers
  <2>1. last \in Ids
    BY LastFacts DEF IsLast
  <2> QED
    BY <2>1, ConstantFacts
<1>2. cut \in Int /\ cut <= 7
  BY <1>1, DigitFacts, ConstantFacts
<1>3. ASSUME cut > 0 PROVE n \div Power[cut] \in Nat
  <2>1. cut \in 1..7
    BY <1>2, <1>3
  <2>2. Power[cut] \in Nat /\ Power[cut] > 0
    BY <2>1 DEF Power
  <2> QED
    BY <1>1, <2>2
<1>4. rest \in Nat
  BY <1>1, <1>2, <1>3
<1>5. NextPageData(l, page) =
        IF l = "following"
          THEN [list |-> l, cursor |-> [id |-> last, followers |-> 0]]
          ELSE [list |-> IF l = "public" /\ cut < 0 THEN "public" ELSE "own",
                cursor |-> [id |-> last, followers |-> rest]]
  BY DEF NextPageData, Last
<1>6. (cut < 0 <=> Digits(n) < Room) /\ (cut < 0 => rest = n)
  BY <1>1, DigitFacts, ConstantFacts
<1>7. DataFits => Digits(n) < Room
  BY <1>1 DEF DataFits
<1> HIDE DEF rest, cut
<1> QED
  BY <1>1, <1>4, <1>5, <1>6, <1>7 DEF Lists

\* Turning the page, when the button stays one of the list: beyond the next cursor
\* lies what was left without the page.
LEMMA Turn ==
    ASSUME followers \in [Ids -> Counts], exists \subseteq Ids, followed \subseteq Ids,
           NEW l \in Lists, NEW c \in [id : Int, followers : Int],
           Cardinality(Page(l, c)) = PageLimit,
           NextPageData(l, Page(l, c)).list = l,
           NEW i \in Listed(l)
    PROVE  Beyond(l, NextPageData(l, Page(l, c)).cursor, i) <=>
               Beyond(l, c, i) /\ ~(i \in Page(l, c))
<1> DEFINE P == Page(l, c)
           last == Last(l, P)
           next == NextPageData(l, P).cursor
<1>1. P \subseteq Ids /\ P \subseteq After(l, c) /\ P # {}
  BY PageFacts, ConstantFacts, FS_EmptySet
<1>2. IsLast(l, last, P) /\ last \in P /\ last \in Ids /\ last \in After(l, c)
  BY <1>1, LastFacts DEF IsLast
<1>3. i \in Ids
  BY ListedFacts
<1>4. /\ i \in Nat /\ last \in Nat /\ followers[i] \in Nat /\ followers[last] \in Nat
      /\ c.id \in Int /\ c.followers \in Int
  BY <1>2, <1>3, ConstantFacts, FollowerFacts
<1>5. Beyond(l, next, i) <=> Precedes(l, last, i)
  <2>1. next.id = last /\ (l = "public" => next.followers = followers[last])
    BY <1>1, DataFacts
  <2> HIDE DEF next
  <2> QED
    BY <1>4, <2>1 DEF Beyond, Precedes
<1>6. Precedes(l, last, i) => Beyond(l, c, i)
  <2>1. Beyond(l, c, last)
    BY <1>2 DEF After
  <2> QED
    BY <1>4, <2>1 DEF Beyond, Precedes
<1>7. i \in P => ~Precedes(l, last, i)
  <2>1. ASSUME i \in P PROVE i = last \/ Precedes(l, i, last)
    BY <1>2, <2>1 DEF IsLast
  <2>2. ~Precedes(l, last, last) /\ (Precedes(l, i, last) => ~Precedes(l, last, i))
    BY <1>2, <1>3, Order
  <2> QED
    BY <2>1, <2>2
<1>8. Beyond(l, c, i) /\ ~(i \in P) => Precedes(l, last, i)
  <2>1. ASSUME Beyond(l, c, i), Precedes(l, i, last) PROVE i \in P
    <3>1. i \in After(l, c)
      BY <2>1 DEF After
    <3> QED
      BY <1>2, <2>1, <3>1, PageFacts
  <2>2. i # last => Precedes(l, i, last) \/ Precedes(l, last, i)
    BY <1>2, <1>3, Order
  <2> QED
    BY <1>2, <2>1, <2>2
<1> QED
  BY <1>5, <1>6, <1>7, <1>8
-----------------------------------------------------------------------------
(* The types.                                                                *)

\* The start of a list lies before all of it.
LEMMA FirstFacts ==
    ASSUME followers \in [Ids -> Counts], exists \subseteq Ids, followed \subseteq Ids,
           NEW l \in Lists
    PROVE  /\ First(l) \in [id : Int, followers : Int]
           /\ \A i \in Listed(l) : Beyond(l, First(l), i)
<1>1. /\ NumIds \in Nat /\ MaxFollowers \in Nat
      /\ \A i \in Listed(l) : /\ i \in Nat /\ i > 0 /\ i <= NumIds
                              /\ followers[i] \in Nat /\ followers[i] <= MaxFollowers
  BY ListedFacts, ConstantFacts, FollowerFacts
<1>2. First(l) \in [id : Int, followers : Int]
  BY <1>1 DEF First
<1>3. ASSUME NEW i \in Listed(l) PROVE Beyond(l, First(l), i)
  <2>1. /\ l = "public" => First(l).id = NumIds + 1 /\ First(l).followers = MaxFollowers
        /\ l # "public" => First(l).id = 0
    BY DEF First
  <2>2. /\ i \in Nat /\ i > 0 /\ i <= NumIds
        /\ followers[i] \in Nat /\ followers[i] <= MaxFollowers
    BY <1>1
  <2> QED
    BY <1>1, <2>1, <2>2 DEF Beyond
<1> QED
  BY <1>2, <1>3

\* A page shown has the types, whether it is the first or another one.
LEMMA ShowType ==
    ASSUME TypeOK, NEW l \in Lists, NEW c, Show(l, c)
    PROVE  /\ shown' \subseteq Ids
           /\ repeated' \in BOOLEAN
           /\ list' \in Lists \cup {"end", "failed"}
           /\ cursor' \in [id : 0..NumIds, followers : Nat]
<1>0. /\ followers \in [Ids -> Counts] /\ exists \subseteq Ids /\ followed \subseteq Ids
      /\ shown \subseteq Ids /\ cursor \in [id : 0..NumIds, followers : Nat]
  BY DEF TypeOK
<1> DEFINE P == Page(l, c)
<1>1. P \subseteq Ids
  BY <1>0, PageFacts
<1>2. CASE ShowError(l)
  BY <1>0, <1>2 DEF ShowError, TypeOK
<1>3. ASSUME ShowPage(l, c)
       PROVE  /\ shown' = shown \cup P
              /\ repeated' = (repeated \/ P \cap shown \cap steady # {})
              /\ IF Cardinality(P) = PageLimit
                   THEN list' = NextPageData(l, P).list /\ cursor' = NextPageData(l, P).cursor
                   ELSE list' = "end" /\ cursor' = cursor
  BY <1>3 DEF ShowPage
<1>4. Cardinality(P) = PageLimit => P # {}
  BY ConstantFacts, FS_EmptySet
<1>5. P # {} => /\ NextPageData(l, P).list \in Lists
                /\ NextPageData(l, P).cursor \in [id : 0..NumIds, followers : Nat]
  BY <1>0, <1>1, DataFacts
<1>6. CASE ShowPage(l, c)
  <2>1. repeated' \in BOOLEAN
    BY <1>3, <1>6 DEF TypeOK
  <2> HIDE DEF P
  <2> QED
    BY <1>0, <1>1, <1>3, <1>4, <1>5, <1>6, <2>1
<1> QED
  BY <1>2, <1>6 DEF Show

LEMMA NextType ==
    ASSUME TypeOK, [Next]_vars
    PROVE  TypeOK'
<1>1. ASSUME NEW l \in Lists, Open(l) PROVE TypeOK'
  <2>1. Show(l, First(l)) /\ opened' = l /\ steady' = Listed(l)
        /\ UNCHANGED <<exists, followers, followed, changes>>
    BY <1>1 DEF Open, services
  <2>2. steady' \subseteq Ids
    BY <2>1, ListedFacts DEF TypeOK
  <2> QED
    BY <2>1, <2>2, ShowType DEF TypeOK
<1>2. CASE PageNext
  <2>1. list \in Lists /\ Show(list, cursor)
        /\ UNCHANGED <<exists, followers, followed, opened, steady, changes>>
    BY <1>2 DEF PageNext, services, TypeOK
  <2> QED
    BY <2>1, ShowType DEF TypeOK
<1>3. CASE Leave
  <2>1. cursor' \in [id : 0..NumIds, followers : Nat]
    BY <1>3, ConstantFacts DEF Leave
  <2> QED
    BY <1>3, <2>1 DEF Leave, services, TypeOK
<1>4. ASSUME NEW i \in Ids, CreateOrDelete(i) \/ Count(i) \/ FollowOrStop(i) PROVE TypeOK'
  <2>1. /\ changes' \in 0..MaxChanges /\ steady' \subseteq Ids
        /\ UNCHANGED <<opened, list, cursor, shown, repeated>>
    BY <1>4, ListingAssumption DEF CreateOrDelete, Count, FollowOrStop, Change, screen, TypeOK
  <2>2. /\ exists' \subseteq Ids /\ followed' \subseteq Ids
        /\ followers' \in [Ids -> Counts]
    BY <1>4 DEF CreateOrDelete, Count, FollowOrStop, TypeOK
  <2> QED
    BY <2>1, <2>2 DEF TypeOK
<1>5. CASE UNCHANGED vars
  BY <1>5 DEF vars, services, screen, history, TypeOK
<1> QED
  BY <1>1, <1>2, <1>3, <1>4, <1>5 DEF Next

LEMMA InitType == Init => TypeOK
<1> SUFFICES ASSUME Init PROVE TypeOK
  OBVIOUS
<1>1. 0 \in 0..NumIds /\ 0 \in 0..MaxChanges /\ 0 \in Nat
  BY ListingAssumption
<1>2. cursor \in [id : 0..NumIds, followers : Nat]
  BY <1>1 DEF Init
<1> QED
  BY <1>1, <1>2 DEF Init, TypeOK, Lists

\* The variables have their types in every instance: the callback data brings back
\* an interest there was, however many digits are cut off (list.go:52-71).
THEOREM TypeCorrect == Spec => []TypeOK
BY InitType, NextType, PTL DEF Spec
-----------------------------------------------------------------------------
(* Nothing is skipped and nothing is repeated.                               *)

\* The cursor of the opened list comes back unharmed.
Unharmed == opened = "public" => DataFits

\* The steady interests of the list which were shown are the ones the cursor is past.
Past ==
    \A i \in steady : i \in Listed(opened) /\ (i \in shown <=> ~Beyond(opened, cursor, i))

\* While there is a next page, it is one of the list the user opened and begins
\* after what was shown; when there is none, all was shown, unless an error of the
\* service was shown as the last page.
Tracked ==
    /\ shown = {} => ~repeated
    /\ Unharmed =>
        /\ ~repeated
        /\ list \in Lists => list = opened /\ Past
        /\ list = "end" /\ shown # {} => steady \subseteq shown

LEMMA OpenTracked ==
    ASSUME TypeOK, Tracked, NEW l \in Lists, Open(l)
    PROVE  Tracked'
<1> DEFINE c == First(l)
           P == Page(l, c)
<1>0. followers \in [Ids -> Counts] /\ exists \subseteq Ids /\ followed \subseteq Ids
  BY DEF TypeOK
<1>1. shown = {} /\ ~repeated
  BY DEF Open, Tracked
<1>2. /\ opened' = l /\ steady' = Listed(l) /\ UNCHANGED <<exists, followers, followed>>
      /\ ShowPage(l, c) \/ ShowError(l)
  BY DEF Open, Show, services
<1> SUFFICES ASSUME ShowPage(l, c) PROVE Tracked'
  BY <1>1, <1>2 DEF ShowError, Tracked, Lists
<1>3. /\ c \in [id : Int, followers : Int]
      /\ \A i \in Listed(l) : Beyond(l, c, i)
  BY <1>0, FirstFacts
<1>4. shown' = P /\ ~repeated'
  BY <1>1 DEF ShowPage
<1>5. Listed(l)' = Listed(l)
  BY <1>2 DEF Listed
<1>6. CASE Cardinality(P) = PageLimit
  <2>1. list' = NextPageData(l, P).list /\ cursor' = NextPageData(l, P).cursor
    BY <1>6 DEF ShowPage
  <2>2. P \subseteq Ids /\ P # {}
    BY <1>0, <1>6, PageFacts, ConstantFacts, FS_EmptySet
  <2>3. ASSUME l = "public" => DataFits PROVE list' = l /\ Past'
    <3>1. list' = l
      BY <1>0, <2>1, <2>2, <2>3, DataFacts
    <3>2. ASSUME NEW i \in Listed(l)
          PROVE  Beyond(l, NextPageData(l, P).cursor, i) <=> ~(i \in P)
      BY <1>0, <1>3, <1>6, <2>1, <3>1, Turn
    <3>3. \A i : Beyond(l, cursor, i)' <=> Beyond(l, NextPageData(l, P).cursor, i)
      BY <1>2, <2>1 DEF Beyond
    <3> HIDE DEF P
    <3> QED
      BY <1>2, <1>4, <1>5, <3>1, <3>2, <3>3 DEF Past
  <2>4. list' # "end"
    BY <1>0, <2>1, <2>2, DataFacts DEF Lists
  <2> QED
    BY <1>2, <1>4, <2>3, <2>4 DEF Tracked, Unharmed
<1>7. CASE Cardinality(P) # PageLimit
  <2>1. P = After(l, c)
    BY <1>0, <1>7, PageFacts
  <2>2. steady' \subseteq shown'
    BY <1>2, <1>3, <1>4, <2>1 DEF After
  <2>3. list' = "end"
    BY <1>7 DEF ShowPage
  <2> QED
    BY <1>4, <2>2, <2>3 DEF Tracked, Lists
<1> QED
  BY <1>6, <1>7

LEMMA PageNextTracked ==
    ASSUME TypeOK, Tracked, PageNext
    PROVE  Tracked'
<1> DEFINE P == Page(list, cursor)
<1>0. followers \in [Ids -> Counts] /\ exists \subseteq Ids /\ followed \subseteq Ids
  BY DEF TypeOK
<1> SUFFICES ASSUME ShowPage(list, cursor) PROVE Tracked'
  <2> SUFFICES ASSUME ShowError(list) PROVE Tracked'
    BY DEF PageNext, Show
  <2> QED
    BY DEF PageNext, ShowError, Tracked, Unharmed, Lists
<1>1. /\ list \in Lists
      /\ UNCHANGED <<opened, steady, exists, followers, followed>>
      /\ shown' = shown \cup P
      /\ repeated' = (repeated \/ P \cap shown \cap steady # {})
  BY DEF PageNext, ShowPage, services
<1>2. ASSUME shown' = {} PROVE ~repeated'
  <2>1. shown = {} /\ P = {}
    BY <1>1, <1>2
  <2> HIDE DEF P
  <2> QED
    BY <1>1, <2>1 DEF Tracked
<1>3. ASSUME Unharmed
      PROVE  /\ ~repeated'
             /\ list' \in Lists => list' = opened /\ Past'
             /\ list' = "end" => steady \subseteq shown'
  <2>1. ~repeated /\ list = opened /\ Past
    BY <1>1, <1>3 DEF Tracked
  <2>2. P \subseteq After(opened, cursor) /\ P \subseteq Ids
    BY <1>0, <1>1, <2>1, PageFacts
  <2>3. ~repeated'
    <3>1. ASSUME NEW i \in P \cap shown \cap steady PROVE FALSE
      <4>1. Beyond(opened, cursor, i)
        BY <2>2 DEF After
      <4> QED
        BY <2>1, <4>1 DEF Past
    <3> QED
      BY <1>1, <2>1, <3>1
  <2>4. CASE Cardinality(P) = PageLimit
    <3>1. list' = NextPageData(opened, P).list /\ cursor' = NextPageData(opened, P).cursor
      BY <2>1, <2>4 DEF ShowPage
    <3>2. P # {} /\ opened \in Lists /\ (opened = "public" => DataFits)
      BY <1>1, <1>3, <2>1, <2>4, ConstantFacts, FS_EmptySet DEF Unharmed
    <3>3. list' = opened
      BY <1>0, <2>2, <3>1, <3>2, DataFacts
    <3>4. cursor \in [id : Int, followers : Int]
      BY ConstantFacts DEF TypeOK
    <3>5. ASSUME NEW i \in Listed(opened)
          PROVE  Beyond(opened, NextPageData(opened, P).cursor, i) <=>
                     Beyond(opened, cursor, i) /\ ~(i \in P)
      BY <1>0, <2>1, <2>4, <3>1, <3>2, <3>3, <3>4, Turn
    <3>6. \A i : Beyond(opened, cursor, i)' <=> Beyond(opened, NextPageData(opened, P).cursor, i)
      BY <1>1, <3>1 DEF Beyond
    <3>7. Listed(opened)' = Listed(opened)
      BY <1>1 DEF Listed
    <3> HIDE DEF P
    <3>8. Past'
      BY <1>1, <2>1, <3>5, <3>6, <3>7 DEF Past
    <3> QED
      BY <1>1, <2>3, <3>3, <3>8 DEF TypeOK, Lists
  <2>5. CASE Cardinality(P) # PageLimit
    <3>1. P = After(opened, cursor)
      BY <1>0, <1>1, <2>1, <2>5, PageFacts
    <3>2. steady \subseteq shown'
      BY <1>1, <2>1, <3>1 DEF Past, After
    <3>3. list' = "end"
      BY <2>5 DEF ShowPage
    <3> QED
      BY <2>3, <3>2, <3>3 DEF Lists
  <2> QED
    BY <2>4, <2>5
<1> QED
  BY <1>1, <1>2, <1>3 DEF Tracked, Unharmed

\* A change of one interest leaves the others where they are in the list.
LEMMA ChangeTracked ==
    ASSUME TypeOK, Tracked, NEW i \in Ids, CreateOrDelete(i) \/ Count(i) \/ FollowOrStop(i)
    PROVE  Tracked'
<1>1. steady' = steady \ {i} /\ UNCHANGED <<opened, list, cursor, shown, repeated>>
  BY DEF CreateOrDelete, Count, FollowOrStop, Change, screen
<1>2. ASSUME NEW j \in Ids \ {i}
      PROVE  /\ j \in Listed(opened)' <=> j \in Listed(opened)
             /\ Beyond(opened, cursor, j)' <=> Beyond(opened, cursor, j)
  <2>1. /\ j \in exists' <=> j \in exists
        /\ j \in followed' <=> j \in followed
        /\ followers'[j] = followers[j]
    BY DEF CreateOrDelete, Count, FollowOrStop, TypeOK
  <2>2. j \in Listed(opened)' <=> j \in Listed(opened)
    BY <1>1, <2>1 DEF Listed, TypeOK, Lists
  <2>3. Beyond(opened, cursor, j)' <=> Beyond(opened, cursor, j)
    BY <1>1, <2>1 DEF Beyond
  <2> QED
    BY <2>2, <2>3
<1>3. Past => Past'
  BY <1>1, <1>2 DEF Past, TypeOK
<1> QED
  BY <1>1, <1>3 DEF Tracked, Unharmed

LEMMA NextTracked ==
    ASSUME TypeOK, Tracked, [Next]_vars
    PROVE  Tracked'
<1>1. CASE Leave
  BY <1>1 DEF Leave, Tracked, Lists
<1>2. CASE UNCHANGED vars
  BY <1>2 DEF vars, services, screen, history, Tracked, Unharmed, Past, Listed, Beyond
<1> QED
  BY <1>1, <1>2, OpenTracked, PageNextTracked, ChangeTracked DEF Next

LEMMA Invariance == Spec => [](TypeOK /\ Tracked)
<1>1. Init => Tracked
  BY DEF Init, Tracked, Lists
<1> QED
  BY <1>1, InitType, NextType, NextTracked, PTL DEF Spec

\* When no number of followers is cut off in the callback data, who has paged to the
\* end of a list has seen every interest which was there all the time, unless the end
\* was an error of the service which Search took for an answer without interests
\* (list.go:73-158, 190-240) ...
THEOREM AllIsShown ==
    ASSUME DataFits
    PROVE  Spec => []NothingSkipped
<1>1. Tracked => NothingSkipped
  BY DEF Tracked, Unharmed, NothingSkipped, Seen
<1> QED
  BY <1>1, Invariance, PTL

\* ... and none of them twice.
THEOREM ShownOnce ==
    ASSUME DataFits
    PROVE  Spec => []NothingRepeated
<1>1. Tracked => NothingRepeated
  BY DEF Tracked, Unharmed, NothingRepeated
<1> QED
  BY <1>1, Invariance, PTL

\* The user's own interests and those followed in the chat need no such condition:
\* their cursor is the id alone.  The end of the own ones may be an error of the
\* service all the same.
THEOREM OwnIsShown == Spec => [](opened # "public" => NothingSkipped /\ NothingRepeated)
<1>1. Tracked => (opened # "public" => NothingSkipped /\ NothingRepeated)
  BY DEF Tracked, Unharmed, NothingSkipped, NothingRepeated, Seen
<1> QED
  BY <1>1, Invariance, PTL
-----------------------------------------------------------------------------
(* Who pages gets on.                                                        *)

\* A button of public interests was made from a number which is not cut off.
Fitting ==
    list = "public" => cursor.followers <= MaxFollowers /\ Digits(cursor.followers) < Room

\* A button of public interests, on whichever page it is, makes a cursor which fits.
LEMMA ShowFitting ==
    ASSUME TypeOK, NEW l \in Lists, NEW c, Show(l, c)
    PROVE  Fitting'
<1>0. followers \in [Ids -> Counts] /\ exists \subseteq Ids /\ followed \subseteq Ids
  BY DEF TypeOK
<1> DEFINE P == Page(l, c)
<1>1. SUFFICES ASSUME list' = "public"
               PROVE  cursor'.followers <= MaxFollowers /\ Digits(cursor'.followers) < Room
  BY DEF Fitting
<1>2. /\ Cardinality(P) = PageLimit
      /\ list' = NextPageData(l, P).list /\ cursor' = NextPageData(l, P).cursor
  BY <1>1 DEF Show, ShowPage, ShowError
<1>3. P \subseteq Ids /\ P # {}
  BY <1>0, <1>2, PageFacts, ConstantFacts, FS_EmptySet
<1>4. l = "public"
  BY <1>0, <1>1, <1>2, <1>3, DataFacts
<1>5. Last(l, P) \in Ids
  BY <1>0, <1>3, LastFacts DEF IsLast
<1>6. cursor'.followers = followers[Last(l, P)] /\ Digits(followers[Last(l, P)]) < Room
  BY <1>0, <1>1, <1>2, <1>3, <1>4, DataFacts
<1> QED
  BY <1>0, <1>5, <1>6, FollowerFacts

LEMMA NextFitting ==
    ASSUME TypeOK, Fitting, [Next]_vars
    PROVE  Fitting'
<1>1. ASSUME NEW l \in Lists, Open(l) PROVE Fitting'
  BY <1>1, ShowFitting DEF Open
<1>2. CASE PageNext
  BY <1>2, ShowFitting DEF PageNext, TypeOK
<1>3. CASE Leave
  BY <1>3 DEF Leave, Fitting
<1>4. ASSUME NEW i \in Ids, CreateOrDelete(i) \/ Count(i) \/ FollowOrStop(i) PROVE Fitting'
  BY <1>4 DEF CreateOrDelete, Count, FollowOrStop, Change, screen, Fitting
<1>5. CASE UNCHANGED vars
  BY <1>5 DEF vars, screen, Fitting
<1> QED
  BY <1>1, <1>2, <1>3, <1>4, <1>5 DEF Next

\* What a step to the next page does: it is the last one, or its button is one of the
\* same list and leaves a page less of it to show.
Advances ==
    PageNext =>
        \/ list' \notin Lists
        \/ /\ list' = list
           /\ After(list, cursor)' = After(list, cursor) \ Page(list, cursor)
           /\ Cardinality(After(list, cursor)') = Cardinality(After(list, cursor)) - PageLimit

LEMMA PageNextAdvances ==
    ASSUME TypeOK, Fitting
    PROVE  Advances
<1> SUFFICES ASSUME PageNext, list' \in Lists
             PROVE  /\ list' = list
                    /\ After(list, cursor)' = After(list, cursor) \ Page(list, cursor)
                    /\ Cardinality(After(list, cursor)') =
                          Cardinality(After(list, cursor)) - PageLimit
  BY DEF Advances
<1> DEFINE A == After(list, cursor)
           P == Page(list, cursor)
<1>0. /\ followers \in [Ids -> Counts] /\ exists \subseteq Ids /\ followed \subseteq Ids
      /\ list \in Lists
      /\ cursor \in [id : Int, followers : Int] /\ cursor.followers \in Nat
  BY ConstantFacts DEF TypeOK, PageNext
<1>1. /\ Cardinality(P) = PageLimit
      /\ list' = NextPageData(list, P).list /\ cursor' = NextPageData(list, P).cursor
      /\ UNCHANGED <<exists, followers, followed>>
  BY DEF PageNext, Show, ShowPage, ShowError, services, Lists
<1>2. P \subseteq Ids /\ P # {} /\ P \subseteq A
  BY <1>0, <1>1, PageFacts, ConstantFacts, FS_EmptySet
<1>3. list' = list
  <2>1. CASE list # "public"
    BY <1>0, <1>1, <1>2, <2>1, DataFacts
  <2>2. CASE list = "public"
    <3> DEFINE n == followers[Last(list, P)]
    <3>1. Last(list, P) \in P
      BY <1>0, <1>2, LastFacts DEF IsLast
    <3>2. n \in Nat /\ n <= MaxFollowers
      BY <1>0, <1>2, <3>1, FollowerFacts
    <3>3. n <= cursor.followers
      BY <1>0, <1>2, <2>2, <3>1, <3>2 DEF After, Beyond
    <3>4. cursor.followers <= MaxFollowers /\ Digits(cursor.followers) < Room
      BY <2>2 DEF Fitting
    <3>5. Digits(n) <= Digits(cursor.followers)
      BY <1>0, <3>2, <3>3, <3>4, DigitsGrow
    <3>6. Digits(n) \in Int /\ Digits(cursor.followers) \in Int
      BY <1>0, <3>2, <3>4, DigitFacts
    <3>7. Digits(n) < Room
      BY <3>4, <3>5, <3>6, ConstantFacts
    <3> QED
      BY <1>0, <1>1, <1>2, <2>2, <3>7, DataFacts
  <2> QED
    BY <2>1, <2>2
<1>4. After(list, cursor)' = A \ P
  <2>1. Listed(list)' = Listed(list)
    BY <1>1, <1>3 DEF Listed
  <2>2. \A i : Beyond(list, cursor, i)' <=> Beyond(list, NextPageData(list, P).cursor, i)
    BY <1>1, <1>3 DEF Beyond
  <2>3. ASSUME NEW i \in Listed(list)
        PROVE  Beyond(list, NextPageData(list, P).cursor, i) <=>
                   Beyond(list, cursor, i) /\ ~(i \in P)
    BY <1>0, <1>1, <1>3, Turn
  <2> HIDE DEF P
  <2> QED
    BY <2>1, <2>2, <2>3 DEF After
<1>5. Cardinality(A \ P) = Cardinality(A) - PageLimit
  <2>1. IsFiniteSet(A)
    <3>1. A \subseteq Ids
      BY <1>0, ListedFacts DEF After
    <3> QED
      BY <3>1, ConstantFacts, FS_Subset
  <2>2. Cardinality(A \ P) = Cardinality(A) - Cardinality(A \cap P)
    BY <2>1, FS_Difference
  <2>3. A \cap P = P
    BY <1>2
  <2> QED
    BY <1>1, <2>2, <2>3
<1> QED
  BY <1>3, <1>4, <1>5

\* Every step to the next page is the last one or leaves a page less to show, of the
\* same list: whether the callback data of public interests is cut off is decided
\* on their first page.  This is why paging ends (list.go:52-71, 142, 227).
THEOREM PagesAdvance == Spec => [][Advances]_vars
<1>1. Init => Fitting
  BY DEF Init, Fitting
<1>2. TypeOK /\ Fitting => Advances
  BY PageNextAdvances
<1> QED
  BY <1>1, <1>2, TypeCorrect, NextFitting, PTL DEF Spec
-----------------------------------------------------------------------------
(* What the lists promise, where they do.                                    *)

\* The list of all available interests is one when no number of followers is cut
\* off in the callback data, unless it ends with an error of the service which Search
\* took for an answer without interests (list.go:140-151).
THEOREM AvailableAreListed ==
    ASSUME DataFits
    PROVE  Spec => []AllAvailableListed
<1>1. Tracked => AllAvailableListed
  BY DEF Tracked, Unharmed, AllAvailableListed, Seen
<1> QED
  BY <1>1, Invariance, PTL

\* The list of the interests followed in the chat has only those when no other chat
\* with interests has an id which begins with the id of this one (list.go:199).
THEOREM FollowedAreListed ==
    ASSUME Elsewhere = {}
    PROVE  Spec => []OnlyThisChat
<1> DEFINE Ours == opened = "following" => steady \subseteq followed
<1>1. Init => Ours
  BY DEF Init
<1>2. TypeOK /\ Ours /\ [Next]_vars => Ours'
  <2> SUFFICES ASSUME TypeOK, Ours, [Next]_vars PROVE Ours'
    OBVIOUS
  <2>1. ASSUME NEW l \in Lists, Open(l) PROVE Ours'
    BY <2>1 DEF Open, services, Listed
  <2>2. CASE PageNext \/ Leave \/ UNCHANGED vars
    BY <2>2 DEF PageNext, Leave, services, vars, screen, history
  <2>3. ASSUME NEW i \in Ids, CreateOrDelete(i) \/ Count(i) \/ FollowOrStop(i) PROVE Ours'
    <3>1. steady' = steady \ {i} /\ opened' = opened
      BY <2>3 DEF CreateOrDelete, Count, FollowOrStop, Change, screen
    <3>2. followed \ {i} \subseteq followed'
      BY <2>3 DEF CreateOrDelete, Count, FollowOrStop
    <3> QED
      BY <3>1, <3>2
  <2> QED
    BY <2>1, <2>2, <2>3 DEF Next
<1>3. Ours => OnlyThisChat
  BY DEF OnlyThisChat
<1> QED
  BY <1>1, <1>2, <1>3, TypeCorrect, PTL DEF Spec
=============================================================================
