-------------------------- MODULE ItemCacheProofs --------------------------
(***************************************************************************)
(* The order of items is strict and total for any items, so that the cache  *)
(* takes only equal items for the same one; and items survive the way       *)
(* through the cache, the document and the reader for any objects, answers  *)
(* and filters.  What a probe lists once and keeps changes no answer, for    *)
(* any objects and systems; a call that fails leaves an error in the item,  *)
(* for any probe and answers; and nothing that is there is said not to      *)
(* exist, for any probe, object and system.                                *)
(***************************************************************************)
EXTENDS ItemCache, Probing, FiniteSetTheorems, WellFoundedInduction, TLAPS

-----------------------------------------------------------------------------
\* The order of items.

\* A sequence is before another one if it is at the first place they differ.
Precedes(R, a, b) ==
  \E i \in DOMAIN a :
    <<a[i], b[i]>> \in R /\ \A j \in 1 .. i - 1 : a[j] = b[j]

StrictOrder(R, S) ==
  /\ \A x \in S : <<x, x>> \notin R
  /\ \A x, y \in S : <<x, y>> \in R \/ <<y, x>> \in R \/ x = y
  /\ \A x, y, z \in S : <<x, y>> \in R /\ <<y, z>> \in R => <<x, z>> \in R

\* Of some numbers one is the least.
LEMMA LeastNumber ==
  ASSUME NEW T, T \subseteq Nat, T # {}
  PROVE  \E m \in T : \A n \in T : m <= n
<1>1. PICK m \in T : \A n \in T : ~ (<<n, m>> \in OpToRel(<, Nat))
  BY NatLessThanWellFounded, WFMin
<1>2. \A n \in T : ~ (n < m)
  BY <1>1 DEF OpToRel
<1> QED
  BY <1>2

\* Two sequences of one length differ at a first place.
LEMMA FirstDifference ==
  ASSUME NEW S, NEW a \in Seq(S), NEW b \in Seq(S), Len(a) = Len(b), a # b
  PROVE  \E i \in 1 .. Len(a) : a[i] # b[i] /\ \A j \in 1 .. i - 1 : a[j] = b[j]
<1> DEFINE T == {i \in 1 .. Len(a) : a[i] # b[i]}
<1>1. T \subseteq Nat
  OBVIOUS
<1>2. T # {}
  OBVIOUS
<1>3. PICK m \in T : \A n \in T : m <= n
  <2> HIDE DEF T
  <2> QED
    BY <1>1, <1>2, LeastNumber
<1>4. \A j \in 1 .. m - 1 : a[j] = b[j]
  <2> TAKE j \in 1 .. m - 1
  <2>1. j \in 1 .. Len(a) /\ ~ (m <= j)
    BY <1>3
  <2> QED
    BY <1>3, <2>1
<1> QED
  BY <1>3, <1>4

\* The loops over values and over elements (Item.cpp:166-177, 222-233) keep what
\* the order of the single ones is: irreflexive, total on sequences of one length,
\* transitive.
LEMMA BeforeIsStrict ==
  ASSUME NEW S, NEW R, StrictOrder(R, S), NEW a \in Seq(S)
  PROVE  ~ Precedes(R, a, a)
<1> SUFFICES ASSUME NEW i \in DOMAIN a, <<a[i], a[i]>> \in R PROVE FALSE
  BY DEF Precedes
<1>1. a[i] \in S
  OBVIOUS
<1> QED
  BY <1>1 DEF StrictOrder

LEMMA BeforeIsTotal ==
  ASSUME NEW S, NEW R, StrictOrder(R, S),
         NEW a \in Seq(S), NEW b \in Seq(S), Len(a) = Len(b)
  PROVE  Precedes(R, a, b) \/ Precedes(R, b, a) \/ a = b
<1> SUFFICES ASSUME a # b PROVE Precedes(R, a, b) \/ Precedes(R, b, a)
  OBVIOUS
<1>1. PICK i \in 1 .. Len(a) : a[i] # b[i] /\ \A j \in 1 .. i - 1 : a[j] = b[j]
  BY FirstDifference
<1>2. a[i] \in S /\ b[i] \in S /\ i \in DOMAIN a /\ i \in DOMAIN b
  OBVIOUS
<1> QED
  BY <1>1, <1>2 DEF Precedes, StrictOrder

LEMMA BeforeIsTransitive ==
  ASSUME NEW S, NEW R, StrictOrder(R, S),
         NEW a \in Seq(S), NEW b \in Seq(S), NEW c \in Seq(S),
         Len(a) = Len(b), Len(b) = Len(c), Precedes(R, a, b), Precedes(R, b, c)
  PROVE  Precedes(R, a, c)
<1>0. DOMAIN a = 1 .. Len(a) /\ DOMAIN b = 1 .. Len(a)
  OBVIOUS
<1>1. PICK i \in 1 .. Len(a) :
        <<a[i], b[i]>> \in R /\ \A j \in 1 .. i - 1 : a[j] = b[j]
  BY <1>0, Zenon DEF Precedes
<1>2. PICK k \in 1 .. Len(a) :
        <<b[k], c[k]>> \in R /\ \A j \in 1 .. k - 1 : b[j] = c[j]
  BY <1>0, Zenon DEF Precedes
<1>3. /\ a[i] \in S /\ b[i] \in S /\ c[i] \in S
      /\ a[k] \in S /\ b[k] \in S /\ c[k] \in S
      /\ i \in DOMAIN a /\ k \in DOMAIN a
  OBVIOUS
<1>4. CASE i < k
  <2>1. c[i] = b[i] /\ \A j \in 1 .. i - 1 : a[j] = c[j]
    BY <1>1, <1>2, <1>4
  <2> QED
    BY <1>1, <1>3, <2>1 DEF Precedes
<1>5. CASE k < i
  <2>1. a[k] = b[k] /\ \A j \in 1 .. k - 1 : a[j] = c[j]
    BY <1>1, <1>2, <1>5
  <2> QED
    BY <1>2, <1>3, <2>1 DEF Precedes
<1>6. CASE i = k
  <2>1. <<a[i], c[i]>> \in R /\ \A j \in 1 .. i - 1 : a[j] = c[j]
    BY <1>1, <1>2, <1>3, <1>6 DEF StrictOrder
  <2> QED
    BY <1>3, <2>1 DEF Precedes
<1> QED
  BY <1>4, <1>5, <1>6

-----------------------------------------------------------------------------
\* Numbers, and what is made of them.

NumberOrder == {p \in Int \X Int : p[1] < p[2]}

\* Numbers are in a strict order, and heads and values compare like them.
LEMMA NumbersAreOrdered == StrictOrder(NumberOrder, Int)
BY DEF StrictOrder, NumberOrder

LEMMA LexIsBefore ==
  ASSUME NEW a \in Seq(Int), NEW b \in Seq(Int), Len(a) = Len(b)
  PROVE  LexLess(a, b) <=> Precedes(NumberOrder, a, b)
<1>0. DOMAIN a = 1 .. Len(a) /\ DOMAIN b = 1 .. Len(a)
  OBVIOUS
<1>1. DOMAIN a \cap DOMAIN b = DOMAIN a
  BY <1>0
<1>2. \A i \in DOMAIN a : a[i] \in Int /\ b[i] \in Int
  OBVIOUS
<1> QED
  BY <1>1, <1>2 DEF LexLess, Precedes, NumberOrder

Values(n) == {v \in Seq(Int) : Len(v) = n}

\* Heads of one kind, and values of one kind, are in a strict order.
LEMMA HeadsAreOrdered ==
  ASSUME NEW n \in Nat
  PROVE  /\ \A a \in Values(n) : ~ LexLess(a, a)
         /\ \A a, b \in Values(n) : LexLess(a, b) \/ LexLess(b, a) \/ a = b
         /\ \A a, b, c \in Values(n) :
              LexLess(a, b) /\ LexLess(b, c) => LexLess(a, c)
<1> DEFINE V == Values(n)
<1>0. \A a \in V : a \in Seq(Int) /\ Len(a) = n
  BY DEF Values
<1> HIDE DEF V
<1>1. \A a, b \in V : LexLess(a, b) <=> Precedes(NumberOrder, a, b)
  BY <1>0, LexIsBefore
<1>2. \A a \in V : ~ LexLess(a, a)
  BY <1>0, <1>1, BeforeIsStrict, NumbersAreOrdered
<1>3. \A a, b \in V : LexLess(a, b) \/ LexLess(b, a) \/ a = b
  <2> TAKE a, b \in V
  <2>1. a \in Seq(Int) /\ b \in Seq(Int) /\ Len(a) = Len(b)
    BY <1>0
  <2>2. Precedes(NumberOrder, a, b) \/ Precedes(NumberOrder, b, a) \/ a = b
    BY <2>1, BeforeIsTotal, NumbersAreOrdered
  <2> QED
    BY <1>1, <2>2
<1>4. \A a, b, c \in V : LexLess(a, b) /\ LexLess(b, c) => LexLess(a, c)
  <2> TAKE a, b, c \in V
  <2> HAVE LexLess(a, b) /\ LexLess(b, c)
  <2>1. Precedes(NumberOrder, a, b) /\ Precedes(NumberOrder, b, c)
    BY <1>1
  <2>3. /\ a \in Seq(Int) /\ b \in Seq(Int) /\ c \in Seq(Int)
        /\ Len(a) = Len(b) /\ Len(b) = Len(c)
    BY <1>0
  <2>2. Precedes(NumberOrder, a, c)
    BY <2>1, <2>3, BeforeIsTransitive, NumbersAreOrdered
  <2> QED
    BY <1>1, <2>2
<1> QED
  BY <1>2, <1>3, <1>4 DEF V

\* One of four things and its number.
IsRanked(a, b, c, d, x, n) ==
  \/ x = a /\ n = 0
  \/ x = b /\ n = 1
  \/ x = c /\ n = 2
  \/ x = d /\ n = 3

\* A number says which of the four it is.
LEMMA RanksAreUnique ==
  ASSUME NEW a, NEW b, NEW c, NEW d, NEW x, NEW y, NEW n,
         IsRanked(a, b, c, d, x, n), IsRanked(a, b, c, d, y, n)
  PROVE  n \in Int /\ x = y
BY DEF IsRanked

\* Different statuses have different places in the enumeration.
LEMMA RanksTellStatuses ==
  ASSUME NEW s \in Statuses, NEW t \in Statuses
  PROVE  StatusRank(s) \in Int /\ (StatusRank(s) = StatusRank(t) => s = t)
<1> DEFINE Ranked(x, n) ==
      IsRanked("error", "exists", "does not exist", "not collected", x, n)
<1>1. StatusRank("error") = 0
  BY Zenon DEF StatusRank
<1>2. StatusRank("exists") = 1
  BY Zenon DEF StatusRank
<1>3. StatusRank("does not exist") = 2
  BY Zenon DEF StatusRank
<1>4. StatusRank("not collected") = 3
  BY Zenon DEF StatusRank
<1>5. \A x \in Statuses : Ranked(x, StatusRank(x))
  <2> TAKE x \in Statuses
  <2>1. CASE x = "error"
    BY <2>1, <1>1, Zenon DEF IsRanked
  <2>2. CASE x = "exists"
    BY <2>2, <1>2, Zenon DEF IsRanked
  <2>3. CASE x = "does not exist"
    BY <2>3, <1>3, Zenon DEF IsRanked
  <2>4. CASE x = "not collected"
    BY <2>4, <1>4, Zenon DEF IsRanked
  <2> QED
    BY <2>1, <2>2, <2>3, <2>4, Zenon DEF Statuses
<1>6. StatusRank(s) \in Int
  BY <1>5, RanksAreUnique, Zenon
<1>7. ASSUME StatusRank(s) = StatusRank(t) PROVE s = t
  BY <1>5, <1>7, RanksAreUnique, Zenon
<1> QED
  BY <1>6, <1>7

ValueOrder(n) == {p \in Values(n) \X Values(n) : LexLess(p[1], p[2])}

\* The order of values of one width, as a set of pairs.
LEMMA ValuesAreStrict ==
  ASSUME NEW n \in Nat PROVE StrictOrder(ValueOrder(n), Values(n))
<1>1. /\ \A a \in Values(n) : ~ LexLess(a, a)
      /\ \A a, b \in Values(n) : LexLess(a, b) \/ LexLess(b, a) \/ a = b
      /\ \A a, b, c \in Values(n) : LexLess(a, b) /\ LexLess(b, c) => LexLess(a, c)
  BY HeadsAreOrdered
<1>2. \A a, b \in Values(n) : <<a, b>> \in ValueOrder(n) <=> LexLess(a, b)
  BY DEF ValueOrder
<1> QED
  BY <1>1, <1>2, Zenon DEF StrictOrder

\* The head of an element is five numbers, its values are of one width.
LEMMA EntityShape ==
  ASSUME NEW e \in ItemEntity
  PROVE  /\ EntityHead(e) \in Values(5)
         /\ Width(e) \in Nat
         /\ e.values \in Seq(Values(Width(e)))
<1>1. /\ e.datatype \in Int /\ e.nil \in Int /\ e.name \in Int
      /\ e.values \in Seq(Seq(Int)) /\ e.status \in Statuses
      /\ \A i \in DOMAIN e.values : Len(e.values[i]) = Width(e)
  BY DEF ItemEntity
<1>2. StatusRank(e.status) \in Int /\ Len(e.values) \in Int
  BY <1>1, RanksTellStatuses
<1>3. EntityHead(e) \in Values(5)
  BY <1>1, <1>2 DEF EntityHead, Values
<1>4. Width(e) \in Nat
  BY DEF Width
<1>5. e.values \in Seq(Values(Width(e)))
  BY <1>1 DEF Values
<1> QED
  BY <1>3, <1>4, <1>5

\* Elements with one head have values of one width and number, so that the loop
\* over them compares like with like; only their values can tell them apart.
LEMMA SameHeadOfEntities ==
  ASSUME NEW e \in ItemEntity, NEW f \in ItemEntity,
         EntityHead(e) = EntityHead(f)
  PROVE  /\ Len(e.values) = Len(f.values) /\ Width(e) = Width(f)
         /\ e.values = f.values => e = f
<1>1. /\ Len(e.values) = Len(f.values) /\ e.datatype = f.datatype
      /\ StatusRank(e.status) = StatusRank(f.status)
      /\ e.nil = f.nil /\ e.name = f.name
  BY DEF EntityHead
<1>2. e.status = f.status
  BY <1>1, RanksTellStatuses DEF ItemEntity
<1>3. Width(e) = Width(f)
  BY <1>1, <1>2 DEF Width
<1>4. e.values = f.values => e = f
  BY <1>1, <1>2 DEF ItemEntity
<1> QED
  BY <1>1, <1>3, <1>4

\* EntityLess is the head, then the values.
LEMMA EntityLessMeans ==
  ASSUME NEW e \in ItemEntity, NEW f \in ItemEntity
  PROVE  EntityLess(e, f) <=>
           \/ LexLess(EntityHead(e), EntityHead(f))
           \/ /\ EntityHead(e) = EntityHead(f)
              /\ Precedes(ValueOrder(Width(e)), e.values, f.values)
<1>1. ASSUME EntityHead(e) = EntityHead(f), NEW i \in DOMAIN e.values
      PROVE  <<e.values[i], f.values[i]>> \in ValueOrder(Width(e))
               <=> LexLess(e.values[i], f.values[i])
  <2>1. /\ Len(e.values) = Len(f.values) /\ Width(e) = Width(f)
    BY <1>1, SameHeadOfEntities
  <2>2. e.values[i] \in Values(Width(e)) /\ f.values[i] \in Values(Width(e))
    <3>1. e.values \in Seq(Values(Width(e))) /\ f.values \in Seq(Values(Width(e)))
      BY <2>1, EntityShape
    <3> QED
      BY <1>1, <2>1, <3>1
  <2> QED
    BY <2>2 DEF ValueOrder
<1>2. CASE EntityHead(e) # EntityHead(f)
  BY <1>2 DEF EntityLess
<1>3. CASE EntityHead(e) = EntityHead(f)
  BY <1>1, <1>3 DEF EntityLess, Precedes
<1> QED
  BY <1>2, <1>3

EntityOrder == {p \in ItemEntity \X ItemEntity : EntityLess(p[1], p[2])}

\* Elements are in a strict order (itemEntityLessThan).
LEMMA EntitiesAreOrdered == StrictOrder(EntityOrder, ItemEntity)
<1>0. \A e, f \in ItemEntity : <<e, f>> \in EntityOrder <=> EntityLess(e, f)
  BY DEF EntityOrder
<1>1. ASSUME NEW e \in ItemEntity PROVE ~ EntityLess(e, e)
  <2>1. ~ LexLess(EntityHead(e), EntityHead(e))
    BY EntityShape, HeadsAreOrdered
  <2>2. ~ Precedes(ValueOrder(Width(e)), e.values, e.values)
    BY EntityShape, ValuesAreStrict, BeforeIsStrict
  <2> QED
    BY <2>1, <2>2, EntityLessMeans
<1>2. ASSUME NEW e \in ItemEntity, NEW f \in ItemEntity
      PROVE  EntityLess(e, f) \/ EntityLess(f, e) \/ e = f
  <2>1. CASE EntityHead(e) # EntityHead(f)
    <3>1. EntityHead(e) \in Values(5) /\ EntityHead(f) \in Values(5)
      BY EntityShape
    <3>2. \/ LexLess(EntityHead(e), EntityHead(f))
          \/ LexLess(EntityHead(f), EntityHead(e))
      BY <2>1, <3>1, HeadsAreOrdered
    <3> QED
      BY <3>2, EntityLessMeans
  <2>2. CASE EntityHead(e) = EntityHead(f)
    <3>1. /\ Len(e.values) = Len(f.values) /\ Width(e) = Width(f)
          /\ e.values = f.values => e = f
      BY <2>2, SameHeadOfEntities
    <3>2. /\ e.values \in Seq(Values(Width(e))) /\ f.values \in Seq(Values(Width(e)))
          /\ Width(e) \in Nat
      BY <3>1, EntityShape
    <3>3. \/ Precedes(ValueOrder(Width(e)), e.values, f.values)
          \/ Precedes(ValueOrder(Width(e)), f.values, e.values)
          \/ e.values = f.values
      BY <3>1, <3>2, ValuesAreStrict, BeforeIsTotal
    <3> QED
      BY <2>2, <3>1, <3>3, EntityLessMeans
  <2> QED
    BY <2>1, <2>2
<1>3. ASSUME NEW e \in ItemEntity, NEW f \in ItemEntity, NEW g \in ItemEntity,
             EntityLess(e, f), EntityLess(f, g)
      PROVE  EntityLess(e, g)
  <2>1. /\ EntityHead(e) \in Values(5) /\ EntityHead(f) \in Values(5)
        /\ EntityHead(g) \in Values(5)
    BY EntityShape
  <2>2. CASE ~ (EntityHead(e) = EntityHead(f) /\ EntityHead(f) = EntityHead(g))
    <3>1. /\ LexLess(EntityHead(e), EntityHead(f)) \/ EntityHead(e) = EntityHead(f)
          /\ LexLess(EntityHead(f), EntityHead(g)) \/ EntityHead(f) = EntityHead(g)
      BY <1>3, EntityLessMeans
    <3>2. LexLess(EntityHead(e), EntityHead(g))
      BY <2>1, <2>2, <3>1, HeadsAreOrdered
    <3> QED
      BY <3>2, EntityLessMeans
  <2>3. CASE EntityHead(e) = EntityHead(f) /\ EntityHead(f) = EntityHead(g)
    <3>1. /\ Len(e.values) = Len(f.values) /\ Width(e) = Width(f)
          /\ Len(f.values) = Len(g.values) /\ Width(f) = Width(g)
      BY <2>3, SameHeadOfEntities
    <3>2. /\ e.values \in Seq(Values(Width(e))) /\ f.values \in Seq(Values(Width(e)))
          /\ g.values \in Seq(Values(Width(e))) /\ Width(e) \in Nat
      BY <3>1, EntityShape
    <3>3. /\ ~ LexLess(EntityHead(e), EntityHead(f))
          /\ ~ LexLess(EntityHead(f), EntityHead(g))
      BY <2>1, <2>3, HeadsAreOrdered
    <3>4. /\ Precedes(ValueOrder(Width(e)), e.values, f.values)
          /\ Precedes(ValueOrder(Width(e)), f.values, g.values)
      BY <1>3, <3>1, <3>3, EntityLessMeans
    <3>5. Precedes(ValueOrder(Width(e)), e.values, g.values)
      BY <3>1, <3>2, <3>4, ValuesAreStrict, BeforeIsTransitive
    <3> QED
      BY <2>3, <3>5, EntityLessMeans
  <2> QED
    BY <2>2, <2>3
<1> QED
  BY <1>0, <1>1, <1>2, <1>3, Zenon DEF StrictOrder

\* The head of an item is four numbers.
LEMMA ItemShape ==
  ASSUME NEW x \in ItemContent
  PROVE  ItemHead(x) \in Values(4) /\ x.elements \in Seq(ItemEntity)
<1>1. /\ x.name \in Int /\ x.xmlns \in Int /\ x.status \in Statuses
      /\ x.elements \in Seq(ItemEntity)
  BY DEF ItemContent
<1>2. StatusRank(x.status) \in Int /\ Len(x.elements) \in Int
  BY <1>1, RanksTellStatuses
<1> QED
  BY <1>1, <1>2 DEF ItemHead, Values

\* Items with one head have as many elements, which alone can tell them apart.
LEMMA SameHeadOfItems ==
  ASSUME NEW x \in ItemContent, NEW y \in ItemContent, ItemHead(x) = ItemHead(y)
  PROVE  Len(x.elements) = Len(y.elements) /\ (x.elements = y.elements => x = y)
<1>1. /\ Len(x.elements) = Len(y.elements)
      /\ StatusRank(x.status) = StatusRank(y.status)
      /\ x.name = y.name /\ x.xmlns = y.xmlns
  BY DEF ItemHead
<1>2. x.status = y.status
  BY <1>1, RanksTellStatuses DEF ItemContent
<1> QED
  BY <1>1, <1>2 DEF ItemContent

\* ItemLess is the head, then the elements: neither less is equal.
LEMMA ItemLessMeans ==
  ASSUME NEW x \in ItemContent, NEW y \in ItemContent
  PROVE  ItemLess(x, y) <=>
           \/ LexLess(ItemHead(x), ItemHead(y))
           \/ /\ ItemHead(x) = ItemHead(y)
              /\ Precedes(EntityOrder, x.elements, y.elements)
<1>1. CASE ItemHead(x) # ItemHead(y)
  BY <1>1 DEF ItemLess
<1>2. CASE ItemHead(x) = ItemHead(y)
  <2>1. \A i \in DOMAIN x.elements :
          x.elements[i] \in ItemEntity /\ y.elements[i] \in ItemEntity
    BY <1>2, ItemShape, SameHeadOfItems
  <2>2. \A i \in DOMAIN x.elements :
          /\ <<x.elements[i], y.elements[i]>> \in EntityOrder
               <=> EntityLess(x.elements[i], y.elements[i])
          /\ x.elements[i] = y.elements[i]
               <=> /\ ~ EntityLess(x.elements[i], y.elements[i])
                   /\ ~ EntityLess(y.elements[i], x.elements[i])
    BY <2>1, EntitiesAreOrdered DEF StrictOrder, EntityOrder
  <2>3. \A i \in DOMAIN x.elements : \A j \in 1 .. i - 1 : j \in DOMAIN x.elements
    BY ItemShape
  <2> QED
    BY <1>2, <2>2, <2>3, Zenon DEF ItemLess, Precedes
<1> QED
  BY <1>1, <1>2

ItemOrder == {p \in ItemContent \X ItemContent : ItemLess(p[1], p[2])}

\* Items are in a strict order (std::less<const Item*>).
LEMMA ItemsAreStrict == StrictOrder(ItemOrder, ItemContent)
<1>0. \A x, y \in ItemContent : <<x, y>> \in ItemOrder <=> ItemLess(x, y)
  BY DEF ItemOrder
<1>1. ASSUME NEW x \in ItemContent PROVE ~ ItemLess(x, x)
  <2>1. ~ LexLess(ItemHead(x), ItemHead(x))
    BY ItemShape, HeadsAreOrdered
  <2>2. ~ Precedes(EntityOrder, x.elements, x.elements)
    BY ItemShape, EntitiesAreOrdered, BeforeIsStrict
  <2> QED
    BY <2>1, <2>2, ItemLessMeans
<1>2. ASSUME NEW x \in ItemContent, NEW y \in ItemContent
      PROVE  ItemLess(x, y) \/ ItemLess(y, x) \/ x = y
  <2>1. CASE ItemHead(x) # ItemHead(y)
    <3>1. ItemHead(x) \in Values(4) /\ ItemHead(y) \in Values(4)
      BY ItemShape
    <3>2. LexLess(ItemHead(x), ItemHead(y)) \/ LexLess(ItemHead(y), ItemHead(x))
      BY <2>1, <3>1, HeadsAreOrdered
    <3> QED
      BY <3>2, ItemLessMeans
  <2>2. CASE ItemHead(x) = ItemHead(y)
    <3>1. /\ Len(x.elements) = Len(y.elements)
          /\ x.elements = y.elements => x = y
      BY <2>2, SameHeadOfItems
    <3>2. x.elements \in Seq(ItemEntity) /\ y.elements \in Seq(ItemEntity)
      BY ItemShape
    <3>3. \/ Precedes(EntityOrder, x.elements, y.elements)
          \/ Precedes(EntityOrder, y.elements, x.elements)
          \/ x.elements = y.elements
      BY <3>1, <3>2, EntitiesAreOrdered, BeforeIsTotal
    <3> QED
      BY <2>2, <3>1, <3>3, ItemLessMeans
  <2> QED
    BY <2>1, <2>2
<1>3. ASSUME NEW x \in ItemContent, NEW y \in ItemContent, NEW z \in ItemContent,
             ItemLess(x, y), ItemLess(y, z)
      PROVE  ItemLess(x, z)
  <2>1. /\ ItemHead(x) \in Values(4) /\ ItemHead(y) \in Values(4)
        /\ ItemHead(z) \in Values(4)
    BY ItemShape
  <2>2. CASE ~ (ItemHead(x) = ItemHead(y) /\ ItemHead(y) = ItemHead(z))
    <3>1. /\ LexLess(ItemHead(x), ItemHead(y)) \/ ItemHead(x) = ItemHead(y)
          /\ LexLess(ItemHead(y), ItemHead(z)) \/ ItemHead(y) = ItemHead(z)
      BY <1>3, ItemLessMeans
    <3>2. LexLess(ItemHead(x), ItemHead(z))
      BY <2>1, <2>2, <3>1, HeadsAreOrdered
    <3> QED
      BY <3>2, ItemLessMeans
  <2>3. CASE ItemHead(x) = ItemHead(y) /\ ItemHead(y) = ItemHead(z)
    <3>1. Len(x.elements) = Len(y.elements) /\ Len(y.elements) = Len(z.elements)
      BY <2>3, SameHeadOfItems
    <3>2. /\ x.elements \in Seq(ItemEntity) /\ y.elements \in Seq(ItemEntity)
          /\ z.elements \in Seq(ItemEntity)
      BY ItemShape
    <3>3. ~ LexLess(ItemHead(x), ItemHead(y)) /\ ~ LexLess(ItemHead(y), ItemHead(z))
      BY <2>1, <2>3, HeadsAreOrdered
    <3>4. /\ Precedes(EntityOrder, x.elements, y.elements)
          /\ Precedes(EntityOrder, y.elements, z.elements)
      BY <1>3, <3>3, ItemLessMeans
    <3>5. Precedes(EntityOrder, x.elements, z.elements)
      BY <3>1, <3>2, <3>4, EntitiesAreOrdered, BeforeIsTransitive
    <3> QED
      BY <2>3, <3>5, ItemLessMeans
  <2> QED
    BY <2>2, <2>3
<1> QED
  BY <1>0, <1>1, <1>2, <1>3, Zenon DEF StrictOrder

\* What the cache relies on: only equal items are the same to the set.
LEMMA OrderIsTotal ==
  /\ \A x, y \in Contents : Same(x, y) <=> x = y
  /\ \A x, y, z \in Contents : ItemLess(x, y) /\ ItemLess(y, z) => ItemLess(x, z)
<1>1. \A x, y \in ItemContent : <<x, y>> \in ItemOrder <=> ItemLess(x, y)
  BY DEF ItemOrder
<1> QED
  BY <1>1, ItemsAreStrict, ContentsAssumption DEF StrictOrder, Same

-----------------------------------------------------------------------------
\* The inductive invariant.

ContentsIn(items) == {x.content : x \in items}
ElementsWith(ids) == {x \in Elements(systemData) : x.id \in ids}
Written(o)        == ContentsIn(ElementsWith(Elements(itemRefs[o])))

\* The global cache is a numbering of what it holds.
CacheIsNumbering ==
  \A x \in globalItemCache :
    /\ x.id < idCounter
    /\ \A y \in globalItemCache : x.id = y.id \/ x.content = y.content => x = y

\* Whatever is handed on comes from the cache, until the cache is cleared.
HandedOn ==
  phase # "reading" =>
    /\ \A o \in Objects : Elements(references[o]) \subseteq globalItemCache
    /\ Elements(cachedItems) \subseteq globalItemCache
    /\ Elements(systemData) \subseteq globalItemCache
    /\ SetRuns \/ phase = "writing" => Elements(todo) \subseteq globalItemCache

\* Only the object in work has something half done.
BetweenObjects ==
  /\ object = Nobody => todo = <<>> /\ cachedItems = <<>>
  /\ phase = "writing" => cachedItems = <<>>
  /\ phase = "collecting" /\ object # Nobody => object \notin collected
  /\ phase = "writing" /\ object # Nobody => object \in collected
  /\ phase = "reading" /\ object # Nobody => object \in input.readable \ reread
  /\ phase = "reading" => collected = {}
  /\ phase # "reading" => reread = {}

\* What has been collected and what is still to come make the meaning.
CollectedMeaning ==
  /\ \A o \in collected : ContentsIn(Elements(references[o])) = Store!Meaning(o)
  /\ ProbeRuns => ContentsIn(Elements(cachedItems))
                    \cup (Elements(todo) \ input.rejects[object])
                    = Store!Meaning(object)
  /\ SetRuns => ContentsIn(Elements(cachedItems))
                  \cup (ContentsIn(Elements(todo)) \ input.rejects[object])
                  = Store!Meaning(object)

\* So do what has been written and what is still to come.
WrittenMeaning ==
  /\ phase = "collecting" => \A o \in Objects : itemRefs[o] = <<>>
  /\ phase # "collecting" =>
       \A o \in Objects \ {object} :
         IF o \in collected THEN itemRefs[o] = <<>>
         ELSE Written(o) = Store!Meaning(o)
  /\ phase = "writing" /\ object # Nobody =>
       Written(object) \cup ContentsIn(Elements(todo)) = Store!Meaning(object)
  /\ phase = "reading" /\ object # Nobody => Written(object) = Store!Meaning(object)

\* And what has been read and what is still to come.
ReadMeaning ==
  phase = "reading" =>
    /\ processedItems \subseteq Elements(systemData)
    /\ object # Nobody =>
         /\ \A id \in Elements(todo) :
              \E x \in Elements(systemData) : x.id = id
         /\ ContentsIn(Elements(cachedItems))
              \cup ContentsIn(ElementsWith(Elements(todo)))
              = Store!Meaning(object)

IInv ==
  /\ TypeOK
  /\ CacheIsNumbering
  /\ HandedOn
  /\ BetweenObjects
  /\ ReferencesResolve
  /\ CollectedMeaning
  /\ WrittenMeaning
  /\ ReadMeaning

-----------------------------------------------------------------------------
\* Sequences as the sets of their elements.

LEMMA ElementsOfEmpty == Elements(<<>>) = {}
BY DEF Elements

LEMMA ElementsOfSeq ==
  ASSUME NEW S, NEW s \in Seq(S)
  PROVE  Elements(s) \subseteq S
BY DEF Elements

LEMMA ElementsOfAppend ==
  ASSUME NEW S, NEW s \in Seq(S), NEW x \in S
  PROVE  Elements(Append(s, x)) = Elements(s) \cup {x}
<1>1. /\ Len(Append(s, x)) = Len(s) + 1
      /\ Append(s, x)[Len(s) + 1] = x
      /\ \A i \in 1..Len(s) : Append(s, x)[i] = s[i]
  OBVIOUS
<1>2. DOMAIN s = 1..Len(s) /\ DOMAIN Append(s, x) = 1..(Len(s) + 1)
  OBVIOUS
<1>3. ASSUME NEW y \in Elements(Append(s, x)) PROVE y \in Elements(s) \cup {x}
  BY <1>1, <1>2, <1>3 DEF Elements
<1>4. ASSUME NEW y \in Elements(s) \cup {x} PROVE y \in Elements(Append(s, x))
  BY <1>1, <1>2, <1>4 DEF Elements
<1> QED
  BY <1>3, <1>4

LEMMA ElementsOfTail ==
  ASSUME NEW S, NEW s \in Seq(S), s # <<>>
  PROVE  /\ Head(s) \in S
         /\ Tail(s) \in Seq(S)
         /\ Elements(s) = {Head(s)} \cup Elements(Tail(s))
<1>1. /\ Tail(s) \in Seq(S)
      /\ Len(s) \in Nat /\ Len(s) > 0
      /\ Len(Tail(s)) = Len(s) - 1
      /\ Head(s) = s[1] /\ s[1] \in S
      /\ \A i \in 1..(Len(s) - 1) : Tail(s)[i] = s[i + 1]
  OBVIOUS
<1>2. DOMAIN s = 1..Len(s) /\ DOMAIN Tail(s) = 1..(Len(s) - 1)
  BY <1>1
<1>3. ASSUME NEW y \in Elements(s) PROVE y \in {Head(s)} \cup Elements(Tail(s))
  <2>1. PICK i \in 1..Len(s) : y = s[i]
    BY <1>2 DEF Elements
  <2>2. CASE i = 1
    BY <2>1, <2>2, <1>1
  <2>3. CASE i # 1
    <3>1. i - 1 \in 1..(Len(s) - 1) /\ Tail(s)[i - 1] = y
      BY <2>1, <2>3, <1>1
    <3> QED
      BY <3>1, <1>2 DEF Elements
  <2> QED
    BY <2>2, <2>3
<1>4. ASSUME NEW y \in {Head(s)} \cup Elements(Tail(s)) PROVE y \in Elements(s)
  <2>1. CASE y = Head(s)
    BY <2>1, <1>1, <1>2 DEF Elements
  <2>2. CASE y \in Elements(Tail(s))
    <3>1. PICK i \in 1..(Len(s) - 1) : y = Tail(s)[i]
      BY <2>2, <1>2 DEF Elements
    <3>2. i + 1 \in 1..Len(s) /\ s[i + 1] = y
      BY <3>1, <1>1
    <3> QED
      BY <3>2, <1>2 DEF Elements
  <2> QED
    BY <1>4, <2>1, <2>2
<1> QED
  BY <1>1, <1>3, <1>4

-----------------------------------------------------------------------------
\* Type correctness.

LEMMA AppendIsSeq ==
  ASSUME NEW S, NEW s \in Seq(S), NEW x \in S PROVE Append(s, x) \in Seq(S)
OBVIOUS

LEMMA InputFacts ==
  ASSUME input \in Inputs, NEW o \in Objects
  PROVE  /\ input.answer[o] \in Seq(Contents)
         /\ input.from[o] \in Objects
         /\ input.from[input.from[o]] = input.from[o]
BY InputsAssumption DEF Input

LEMMA InitType == Init => TypeOK
<1>1. <<>> \in Seq(Contents) /\ <<>> \in Seq(StoredItem) /\ <<>> \in Seq(Nat)
  OBVIOUS
<1> QED
  BY <1>1 DEF Init, TypeOK, ProbeRuns, SetRuns, Nobody

LEMMA ItemOfType ==
  ASSUME TypeOK, NEW c \in Contents PROVE ItemOf(idCounter, c) \in StoredItem
BY DEF TypeOK, StoredItem, ItemOf

\* Item::GetItemById finds an element with the id it was called with.
LEMMA GetItemByIdFinds ==
  ASSUME TypeOK, ReadMeaning, ReferencesResolve, GetItemById
  PROVE  \E item \in Elements(systemData) :
           /\ item \in StoredItem
           /\ item.id = Head(todo)
           /\ processedItems' = processedItems \cup {item}
           /\ cachedItems' = Append(cachedItems, item)
<1> DEFINE cached == {x \in processedItems : x.id = Head(todo)}
           at     == {i \in DOMAIN systemData : systemData[i].id = Head(todo)}
           first  == CHOOSE i \in at : \A j \in at : i <= j
           item   == IF cached # {} THEN CHOOSE x \in cached : TRUE
                     ELSE ItemElement(Head(todo))
<1>1. Elements(systemData) \subseteq StoredItem
  BY ElementsOfSeq DEF TypeOK
<1>2. Head(todo) \in Elements(todo)
  BY ElementsOfTail DEF GetItemById, TypeOK
<1>3. PICK x \in Elements(systemData) : x.id = Head(todo)
  BY <1>2 DEF ReadMeaning, GetItemById
<1>4. CASE cached # {}
  <2>1. item \in cached
    BY <1>4
  <2> QED
    BY <1>1, <1>4, <2>1 DEF ReadMeaning, GetItemById
<1>5. CASE cached = {}
  <2>1. PICK i \in DOMAIN systemData : systemData[i] = x
    BY DEF Elements
  <2>2. i \in at /\ \A j \in at : j = i
    BY <1>3, <2>1 DEF ReferencesResolve
  <2>3. i \in Nat
    BY <2>1 DEF TypeOK
  <2>4. \A j \in at : i <= j
    BY <2>2, <2>3
  <2>5. first \in at
    BY <2>2, <2>4
  <2>6. ItemElement(Head(todo)) = systemData[first]
    BY DEF ItemElement
  <2>7. item = systemData[first] /\ item.id = Head(todo)
    BY <1>5, <2>5, <2>6
  <2> HIDE DEF first
  <2> QED
    BY <1>1, <1>5, <2>5, <2>7 DEF GetItemById, Elements
<1> QED
  BY <1>4, <1>5

\* AbsProbe::CacheAllItems hands on a known item or a new one.
LEMMA CacheItemCases ==
  ASSUME TypeOK, CacheItem
  PROVE  /\ object \in Objects
         /\ Head(todo) \in Contents
         /\ Tail(todo) \in Seq(Contents)
         /\ Elements(todo) = {Head(todo)} \cup Elements(Tail(todo))
         /\ cachedItems' \in Seq(StoredItem)
         /\ globalItemCache' \subseteq StoredItem
         /\ idCounter' \in Nat
         /\ \/ \E x \in globalItemCache :
                 /\ Same(x.content, Head(todo))
                 /\ cachedItems' = Append(cachedItems, x)
                 /\ globalItemCache' = globalItemCache
                 /\ idCounter' = idCounter
            \/ LET new == ItemOf(idCounter, Head(todo)) IN
                 /\ \A x \in globalItemCache : ~ Same(x.content, Head(todo))
                 /\ new \in StoredItem
                 /\ cachedItems' = Append(cachedItems, new)
                 /\ globalItemCache' = globalItemCache \cup {new}
                 /\ idCounter' = idCounter + 1
<1>1. /\ Head(todo) \in Contents
      /\ Tail(todo) \in Seq(Contents)
      /\ Elements(todo) = {Head(todo)} \cup Elements(Tail(todo))
  BY ElementsOfTail DEF CacheItem, TypeOK
<1>2. object \in Objects
  BY DEF CacheItem, TypeOK, ProbeRuns
<1>3. ItemOf(idCounter, Head(todo)) \in StoredItem
  BY <1>1, ItemOfType
<1> DEFINE known == {x \in globalItemCache : Same(x.content, Head(todo))}
<1>4. CASE known = {}
  <2>1. /\ cachedItems' = Append(cachedItems, ItemOf(idCounter, Head(todo)))
        /\ globalItemCache' = globalItemCache \cup {ItemOf(idCounter, Head(todo))}
        /\ idCounter' = idCounter + 1
    BY <1>4 DEF CacheItem
  <2>2. /\ cachedItems' \in Seq(StoredItem)
        /\ globalItemCache' \subseteq StoredItem
        /\ idCounter' \in Nat
    BY <1>3, <2>1, AppendIsSeq DEF TypeOK
  <2> QED
    BY <1>1, <1>2, <1>3, <1>4, <2>1, <2>2
<1>5. CASE known # {}
  <2>1. PICK x \in globalItemCache : /\ Same(x.content, Head(todo))
                                    /\ cachedItems' = Append(cachedItems, x)
    BY <1>5 DEF CacheItem
  <2>2. globalItemCache' = globalItemCache /\ idCounter' = idCounter
    BY <1>5 DEF CacheItem
  <2>3. /\ cachedItems' \in Seq(StoredItem)
        /\ globalItemCache' \subseteq StoredItem
        /\ idCounter' \in Nat
    BY <2>1, <2>2, AppendIsSeq DEF TypeOK
  <2> QED
    BY <1>1, <1>2, <2>1, <2>2, <2>3
<1> QED
  BY <1>4, <1>5

\* CollectedObject::Write adds a reference or finds it below the object.
LEMMA WriteReferenceCases ==
  ASSUME TypeOK, WriteReference
  PROVE  /\ object \in Objects
         /\ Head(todo) \in StoredItem
         /\ Tail(todo) \in Seq(StoredItem)
         /\ Elements(todo) = {Head(todo)} \cup Elements(Tail(todo))
         /\ systemData' \in Seq(StoredItem)
         /\ \/ /\ Head(todo).id \in Elements(itemRefs[object])
               /\ itemRefs' = itemRefs /\ systemData' = systemData
            \/ /\ Head(todo).id \notin Elements(itemRefs[object])
               /\ itemRefs' = [itemRefs EXCEPT ![object] =
                                 Append(itemRefs[object], Head(todo).id)]
               /\ itemRefs' \in [Objects -> Seq(Nat)]
               /\ \/ /\ Head(todo) \in Elements(systemData)
                     /\ systemData' = systemData
                  \/ /\ Head(todo) \notin Elements(systemData)
                     /\ systemData' = Append(systemData, Head(todo))
<1>1. /\ Head(todo) \in StoredItem
      /\ Tail(todo) \in Seq(StoredItem)
      /\ Elements(todo) = {Head(todo)} \cup Elements(Tail(todo))
  BY ElementsOfTail DEF WriteReference, TypeOK
<1>2. object \in Objects
  BY DEF WriteReference, TypeOK
<1>3. Append(itemRefs[object], Head(todo).id) \in Seq(Nat)
  BY <1>1, <1>2, AppendIsSeq DEF TypeOK, StoredItem
<1>4. CASE Head(todo).id \in Elements(itemRefs[object])
  BY <1>1, <1>2, <1>4 DEF WriteReference, document, TypeOK
<1>5. CASE Head(todo).id \notin Elements(itemRefs[object])
  <2>1. itemRefs' = [itemRefs EXCEPT ![object] =
                       Append(itemRefs[object], Head(todo).id)]
    BY <1>5 DEF WriteReference
  <2>2. itemRefs' \in [Objects -> Seq(Nat)]
    BY <1>2, <1>3, <2>1 DEF TypeOK
  <2>3. systemData' = IF Head(todo) \in Elements(systemData) THEN systemData
                      ELSE Append(systemData, Head(todo))
    BY <1>5 DEF WriteReference
  <2>4. systemData' \in Seq(StoredItem)
    BY <1>1, <2>3, AppendIsSeq DEF TypeOK
  <2> QED
    BY <1>1, <1>2, <1>5, <2>1, <2>2, <2>3, <2>4
<1> QED
  BY <1>4, <1>5

LEMMA NextType ==
  ASSUME TypeOK, BetweenObjects, ReadMeaning, ReferencesResolve, Next PROVE TypeOK'
<1> USE DEF Nobody
<1>0. <<>> \in Seq(Contents) /\ <<>> \in Seq(StoredItem) /\ <<>> \in Seq(Nat)
  OBVIOUS
<1> USE DEF document, reader
<1>1. ASSUME NEW o \in Objects, RunProbe(o) PROVE TypeOK'
  BY <1>0, <1>1, InputFacts DEF RunProbe, Begin, TypeOK, ProbeRuns, SetRuns
<1>2. ASSUME NEW o \in Objects, CollectSet(o) PROVE TypeOK'
  BY <1>0, <1>2, InputFacts DEF CollectSet, Begin, TypeOK, ProbeRuns, SetRuns
<1>3. CASE CacheItem
  <2>1. /\ Tail(todo) \in Seq(Contents)
        /\ cachedItems' \in Seq(StoredItem)
        /\ globalItemCache' \subseteq StoredItem
        /\ idCounter' \in Nat
    BY <1>3, CacheItemCases
  <2> QED
    BY <1>3, <2>1 DEF CacheItem, TypeOK, ProbeRuns, SetRuns
<1>4. CASE DropItem
  <2>1. Tail(todo) \in Seq(Contents)
    BY <1>4, ElementsOfTail DEF DropItem, TypeOK
  <2> QED
    BY <1>4, <2>1 DEF DropItem, TypeOK, ProbeRuns, SetRuns
<1>5. CASE FilterReference
  <2>1. Head(todo) \in StoredItem /\ Tail(todo) \in Seq(StoredItem)
    BY <1>5, ElementsOfTail DEF FilterReference, TypeOK
  <2>2. cachedItems' \in Seq(StoredItem)
    BY <1>5, <2>1, AppendIsSeq DEF FilterReference, TypeOK
  <2> QED
    BY <1>5, <2>1, <2>2 DEF FilterReference, TypeOK, ProbeRuns, SetRuns
<1>6. CASE AppendReferences
  BY <1>0, <1>6 DEF AppendReferences, End, TypeOK, ProbeRuns, SetRuns
<1>7. CASE StartWriting
  BY <1>0, <1>7 DEF StartWriting, TypeOK, ProbeRuns, SetRuns, BetweenObjects
<1>8. CASE ClearGlobalCache
  BY <1>0, <1>8 DEF ClearGlobalCache, TypeOK, ProbeRuns, SetRuns, BetweenObjects
<1>9. ASSUME NEW o \in Objects, WriteObject(o) PROVE TypeOK'
  BY <1>0, <1>9 DEF WriteObject, Begin, TypeOK, ProbeRuns, SetRuns
<1>10. CASE WriteReference
  <2>1. /\ Tail(todo) \in Seq(StoredItem)
        /\ itemRefs' \in [Objects -> Seq(Nat)]
        /\ systemData' \in Seq(StoredItem)
    BY <1>10, WriteReferenceCases DEF TypeOK
  <2> QED
    BY <1>10, <2>1 DEF WriteReference, TypeOK, ProbeRuns, SetRuns
<1>11. CASE ObjectWritten
  BY <1>0, <1>11 DEF ObjectWritten, End, TypeOK, ProbeRuns, SetRuns
<1>12. ASSUME NEW o \in Objects, GetItemsForObject(o) PROVE TypeOK'
  BY <1>0, <1>12 DEF GetItemsForObject, Begin, TypeOK, ProbeRuns, SetRuns
<1>13. CASE GetItemById
  <2>1. Head(todo) \in Nat /\ Tail(todo) \in Seq(Nat)
    BY <1>13, ElementsOfTail DEF GetItemById, TypeOK
  <2>2. PICK item : /\ processedItems' = processedItems \cup {item}
                    /\ cachedItems' = Append(cachedItems, item)
                    /\ item \in StoredItem
    BY <1>13, GetItemByIdFinds DEF GetItemById, TypeOK
  <2> QED
    BY <1>13, <2>1, <2>2, AppendIsSeq
    DEF GetItemById, TypeOK, ProbeRuns, SetRuns
<1>14. CASE ItemsRead
  <2>1. \A i \in DOMAIN cachedItems : cachedItems[i] \in StoredItem
    BY DEF TypeOK
  <2>2. {ReadBack[cachedItems[i].content] : i \in DOMAIN cachedItems}
          \subseteq {ReadBack[x] : x \in Contents}
    BY <2>1 DEF StoredItem
  <2> QED
    BY <1>0, <1>14, <2>2 DEF ItemsRead, End, TypeOK, ProbeRuns, SetRuns
<1> QED
  BY <1>1, <1>2, <1>3, <1>4, <1>5, <1>6, <1>7, <1>8, <1>9, <1>10, <1>11, <1>12,
     <1>13, <1>14 DEF Next, Collecting, Writing, Reading

-----------------------------------------------------------------------------
\* The inductive invariant is kept, one part after the other.

LEMMA NextNumbering ==
  ASSUME TypeOK, CacheIsNumbering, Next
  PROVE  CacheIsNumbering'
<1>1. CASE CacheItem
  <2>1. CASE globalItemCache' = globalItemCache /\ idCounter' = idCounter
    BY <2>1 DEF CacheIsNumbering
  <2>2. CASE LET new == ItemOf(idCounter, Head(todo)) IN
               /\ \A x \in globalItemCache : ~ Same(x.content, Head(todo))
               /\ new \in StoredItem
               /\ globalItemCache' = globalItemCache \cup {new}
               /\ idCounter' = idCounter + 1
    <3> DEFINE new == ItemOf(idCounter, Head(todo))
    <3>1. new.id = idCounter /\ new.content = Head(todo)
      BY DEF ItemOf
    <3>2. \A x \in globalItemCache : x.id \in Nat /\ x.content \in Contents
      BY DEF TypeOK, StoredItem
    <3>3. Head(todo) \in Contents
      BY <1>1, CacheItemCases
    <3>4. \A x \in globalItemCache : x.id # new.id /\ x.content # new.content
      BY <2>2, <3>1, <3>2, <3>3, OrderIsTotal DEF CacheIsNumbering, TypeOK
    <3>5. \A x \in globalItemCache : x.id < idCounter + 1
      BY <3>2 DEF CacheIsNumbering, TypeOK
    <3>6. new.id < idCounter + 1
      BY <3>1 DEF TypeOK
    <3> HIDE DEF new
    <3>7. globalItemCache' = globalItemCache \cup {new}
      BY <2>2 DEF new
    <3> QED
      BY <2>2, <3>4, <3>5, <3>6, <3>7 DEF CacheIsNumbering
  <2> QED
    BY <1>1, <2>1, <2>2, CacheItemCases
<1>2. CASE ClearGlobalCache
  BY <1>2 DEF ClearGlobalCache, CacheIsNumbering
<1>3. CASE UNCHANGED <<globalItemCache, idCounter>>
  BY <1>3 DEF CacheIsNumbering
<1> QED
  BY <1>1, <1>2, <1>3
  DEF Next, Collecting, Writing, Reading, RunProbe, CollectSet, DropItem,
      FilterReference, AppendReferences, StartWriting, WriteObject,
      WriteReference, ObjectWritten, GetItemsForObject, GetItemById, ItemsRead

LEMMA NextBetween ==
  ASSUME TypeOK, BetweenObjects, Next PROVE BetweenObjects'
<1> USE DEF BetweenObjects, TypeOK
<1>1. ASSUME NEW o \in Objects, RunProbe(o) \/ CollectSet(o)
      PROVE  BetweenObjects'
  BY <1>1, NobodyAssumption DEF RunProbe, CollectSet, Begin, reader
<1>2. CASE CacheItem \/ DropItem \/ FilterReference
  BY <1>2 DEF CacheItem, DropItem, FilterReference, ProbeRuns, SetRuns, reader
<1>3. CASE AppendReferences
  BY <1>3 DEF AppendReferences, End, reader
<1>4. CASE StartWriting \/ ClearGlobalCache
  BY <1>4 DEF StartWriting, ClearGlobalCache, reader
<1>5. ASSUME NEW o \in Objects, WriteObject(o) PROVE BetweenObjects'
  BY <1>5, NobodyAssumption DEF WriteObject, Begin, reader
<1>6. CASE WriteReference
  BY <1>6 DEF WriteReference, reader
<1>7. CASE ObjectWritten
  BY <1>7 DEF ObjectWritten, End, reader
<1>8. ASSUME NEW o \in Objects, GetItemsForObject(o) PROVE BetweenObjects'
  BY <1>8, NobodyAssumption DEF GetItemsForObject, Begin, reader
<1>9. CASE GetItemById
  BY <1>9 DEF GetItemById
<1>10. CASE ItemsRead
  BY <1>10 DEF ItemsRead, End
<1> QED
  BY <1>1, <1>2, <1>3, <1>4, <1>5, <1>6, <1>7, <1>8, <1>9, <1>10
  DEF Next, Collecting, Writing, Reading

\* One write adds at most the item in question to the document's items.
LEMMA WriteReferenceElements ==
  ASSUME TypeOK, WriteReference
  PROVE  /\ Elements(systemData') \subseteq Elements(systemData) \cup {Head(todo)}
         /\ Elements(systemData) \subseteq Elements(systemData')
         /\ Head(todo).id \notin Elements(itemRefs[object])
              => Head(todo) \in Elements(systemData')
<1>1. systemData \in Seq(StoredItem) /\ Head(todo) \in StoredItem
  BY WriteReferenceCases DEF TypeOK
<1>2. Elements(Append(systemData, Head(todo)))
        = Elements(systemData) \cup {Head(todo)}
  BY <1>1, ElementsOfAppend
<1>3. \/ systemData' = Append(systemData, Head(todo))
      \/ /\ systemData' = systemData
         /\ Head(todo).id \notin Elements(itemRefs[object])
              => Head(todo) \in Elements(systemData)
  BY WriteReferenceCases
<1> QED
  BY <1>2, <1>3

LEMMA NextHandedOn ==
  ASSUME TypeOK, HandedOn, BetweenObjects, Next PROVE HandedOn'
<1> SUFFICES ASSUME phase' # "reading" PROVE HandedOn'
  BY DEF HandedOn
<1>0. phase # "reading"
  BY DEF Next, Collecting, Writing, Reading, RunProbe, CollectSet, CacheItem,
         DropItem, FilterReference, AppendReferences, StartWriting,
         ClearGlobalCache, WriteObject, WriteReference, ObjectWritten,
         GetItemsForObject, GetItemById, ItemsRead, ProbeRuns, SetRuns
<1>00. /\ \A o \in Objects : Elements(references[o]) \subseteq globalItemCache
       /\ Elements(cachedItems) \subseteq globalItemCache
       /\ Elements(systemData) \subseteq globalItemCache
       /\ SetRuns \/ phase = "writing" => Elements(todo) \subseteq globalItemCache
  BY <1>0 DEF HandedOn
<1>1. ASSUME NEW o \in Objects, RunProbe(o) PROVE HandedOn'
  BY <1>1, <1>00, ElementsOfEmpty DEF RunProbe, Begin, HandedOn, SetRuns, document
<1>2. ASSUME NEW o \in Objects, CollectSet(o) PROVE HandedOn'
  <2>1. Elements(references[input.from[o]]) \subseteq globalItemCache
    BY <1>00, InputFacts DEF TypeOK
  <2> QED
    BY <1>2, <1>00, <2>1, ElementsOfEmpty
    DEF CollectSet, Begin, HandedOn, document
<1>3. CASE CacheItem
  <2>1. /\ globalItemCache \subseteq globalItemCache'
        /\ \E x \in globalItemCache' :
             x \in StoredItem /\ cachedItems' = Append(cachedItems, x)
    BY <1>3, CacheItemCases DEF TypeOK
  <2>2. Elements(cachedItems') \subseteq globalItemCache'
    BY <1>00, <2>1, ElementsOfAppend DEF TypeOK
  <2>3. ~ SetRuns' /\ phase' # "writing"
    BY <1>3 DEF CacheItem, ProbeRuns, SetRuns
  <2>4. references' = references /\ systemData' = systemData
    BY <1>3 DEF CacheItem, document
  <2> QED
    BY <1>00, <2>1, <2>2, <2>3, <2>4 DEF HandedOn
<1>4. CASE DropItem
  BY <1>4, <1>00 DEF DropItem, ProbeRuns, SetRuns, HandedOn, document
<1>5. CASE FilterReference
  <2>1. /\ Head(todo) \in StoredItem
        /\ Elements(todo) = {Head(todo)} \cup Elements(Tail(todo))
    BY <1>5, ElementsOfTail DEF FilterReference, TypeOK
  <2>2. Elements(cachedItems') \subseteq globalItemCache
    BY <1>5, <1>00, <2>1, ElementsOfAppend DEF FilterReference, TypeOK
  <2>3. Elements(todo') \subseteq globalItemCache
    BY <1>5, <1>00, <2>1 DEF FilterReference
  <2> QED
    BY <1>5, <1>00, <2>2, <2>3 DEF FilterReference, HandedOn, document
<1>6. CASE AppendReferences
  BY <1>6, <1>00, ElementsOfEmpty
  DEF AppendReferences, End, HandedOn, document, TypeOK
<1>7. CASE StartWriting
  BY <1>7, <1>00, ElementsOfEmpty
  DEF StartWriting, HandedOn, BetweenObjects, document
<1>8. CASE ClearGlobalCache
  BY <1>8 DEF ClearGlobalCache
<1>9. ASSUME NEW o \in Objects, WriteObject(o) PROVE HandedOn'
  BY <1>9, <1>00, ElementsOfEmpty DEF WriteObject, Begin, HandedOn, document
<1>10. CASE WriteReference
  <2>1. Elements(todo') \subseteq globalItemCache /\ Head(todo) \in globalItemCache
    BY <1>10, <1>00, WriteReferenceCases DEF WriteReference
  <2>2. Elements(systemData') \subseteq globalItemCache
    BY <1>10, <1>00, <2>1, WriteReferenceElements
  <2> QED
    BY <1>10, <1>00, <2>1, <2>2 DEF WriteReference, HandedOn
<1>11. CASE ObjectWritten
  BY <1>11, <1>00, ElementsOfEmpty DEF ObjectWritten, End, HandedOn, document, TypeOK
<1>12. ~ Reading
  BY <1>0 DEF Reading, GetItemsForObject, GetItemById, ItemsRead
<1> QED
  BY <1>1, <1>2, <1>3, <1>4, <1>5, <1>6, <1>7, <1>8, <1>9, <1>10, <1>11, <1>12
  DEF Next, Collecting, Writing

\* The document's items are named once, by ids and by what they say.
LEMMA NextResolves ==
  ASSUME TypeOK, CacheIsNumbering, HandedOn, ReferencesResolve, Next
  PROVE  ReferencesResolve'
<1>1. CASE UNCHANGED document
  BY <1>1 DEF document, ReferencesResolve
<1>2. CASE WriteReference
  <2> DEFINE item == Head(todo)
  <2>0. /\ item \in StoredItem /\ item.id \in Nat
        /\ object \in Objects
        /\ item \in globalItemCache
        /\ Elements(systemData) \subseteq globalItemCache
    BY <1>2, WriteReferenceCases DEF StoredItem, HandedOn, WriteReference
  <2> HIDE DEF item
  <2>1. /\ systemData \in Seq(StoredItem)
        /\ itemRefs \in [Objects -> Seq(Nat)]
    BY DEF TypeOK
  <2>2. CASE itemRefs' = itemRefs /\ systemData' = systemData
    BY <2>2 DEF ReferencesResolve
  <2>3. CASE /\ item.id \notin Elements(itemRefs[object])
             /\ itemRefs' = [itemRefs EXCEPT ![object] =
                               Append(itemRefs[object], item.id)]
             /\ \/ item \in Elements(systemData) /\ systemData' = systemData
                \/ /\ item \notin Elements(systemData)
                   /\ systemData' = Append(systemData, item)
    <3>1. /\ \A i \in DOMAIN systemData :
               i \in DOMAIN systemData' /\ systemData'[i] = systemData[i]
          /\ \E i \in DOMAIN systemData' : systemData'[i] = item
      <4>1. CASE item \in Elements(systemData) /\ systemData' = systemData
        BY <4>1 DEF Elements
      <4>2. CASE systemData' = Append(systemData, item)
        BY <2>0, <2>1, <4>2
      <4> QED
        BY <2>3, <4>1, <4>2
    <3>2. \A i, j \in DOMAIN systemData' :
            \/ systemData'[i].id = systemData'[j].id
            \/ systemData'[i].content = systemData'[j].content
            => i = j
      <4>1. CASE systemData' = systemData
        BY <4>1 DEF ReferencesResolve
      <4>2. CASE /\ item \notin Elements(systemData)
                 /\ systemData' = Append(systemData, item)
        <5>1. \A i \in DOMAIN systemData :
                /\ systemData[i].id # item.id
                /\ systemData[i].content # item.content
          BY <2>0, <4>2 DEF Elements, CacheIsNumbering
        <5>2. \A i \in DOMAIN systemData' :
                \/ i \in DOMAIN systemData /\ systemData'[i] = systemData[i]
                \/ i = Len(systemData) + 1 /\ systemData'[i] = item
          BY <2>0, <2>1, <4>2
        <5> QED
          BY <5>1, <5>2 DEF ReferencesResolve
      <4> QED
        BY <2>3, <4>1, <4>2
    <3> DEFINE refs == Append(itemRefs[object], item.id)
    <3>3. /\ itemRefs'[object] = refs
          /\ \A o \in Objects \ {object} : itemRefs'[o] = itemRefs[o]
      BY <2>0, <2>1, <2>3
    <3>4. \A n \in DOMAIN refs :
            \/ n \in DOMAIN itemRefs[object] /\ refs[n] = itemRefs[object][n]
            \/ n = Len(itemRefs[object]) + 1 /\ refs[n] = item.id
      BY <2>0, <2>1
    <3> HIDE DEF refs
    <3>5. \A n \in DOMAIN refs :
            \E i \in DOMAIN systemData' : systemData'[i].id = refs[n]
      BY <2>0, <3>1, <3>4 DEF ReferencesResolve
    <3>6. \A m, n \in DOMAIN refs : refs[m] = refs[n] => m = n
      BY <2>0, <2>3, <3>4 DEF ReferencesResolve, Elements
    <3>7. \A o \in Objects \ {object} : \A n \in DOMAIN itemRefs[o] :
            \E i \in DOMAIN systemData' : systemData'[i].id = itemRefs[o][n]
      BY <3>1 DEF ReferencesResolve
    <3>8. \A o \in Objects :
            /\ \A n \in DOMAIN itemRefs'[o] :
                 \E i \in DOMAIN systemData' : systemData'[i].id = itemRefs'[o][n]
            /\ \A m, n \in DOMAIN itemRefs'[o] :
                 itemRefs'[o][m] = itemRefs'[o][n] => m = n
      BY <3>3, <3>5, <3>6, <3>7 DEF ReferencesResolve
    <3> QED
      BY <3>2, <3>8 DEF ReferencesResolve
  <2> QED
    BY <1>2, <2>2, <2>3, WriteReferenceCases DEF item
<1> QED
  BY <1>1, <1>2
  DEF Next, Collecting, Writing, Reading, RunProbe, CollectSet, CacheItem,
      DropItem, FilterReference, AppendReferences, StartWriting,
      ClearGlobalCache, WriteObject, ObjectWritten, GetItemsForObject,
      GetItemById, ItemsRead

-----------------------------------------------------------------------------
\* What an object stands for: ItemStore.

LEMMA MeaningFacts ==
  ASSUME input \in Inputs, NEW o \in Objects
  PROVE  /\ input.from[o] = o
              => Store!Meaning(o) = Elements(input.answer[o]) \ input.rejects[o]
         /\ input.from[o] # o
              => Store!Meaning(o) = Store!Meaning(input.from[o]) \ input.rejects[o]
BY InputFacts DEF Store!Meaning, Store!Reported, Elements

LEMMA MeaningKept ==
  ASSUME input' = input
  PROVE  \A o : (Store!Meaning(o))' = Store!Meaning(o)
BY DEF Store!Meaning, Store!Reported

LEMMA ContentsOfEmpty == ContentsIn({}) = {}
BY DEF ContentsIn

LEMMA ContentsOfUnion ==
  ASSUME NEW A, NEW x PROVE ContentsIn(A \cup {x}) = ContentsIn(A) \cup {x.content}
BY DEF ContentsIn

LEMMA ContentsOfAppend ==
  ASSUME NEW s \in Seq(StoredItem), NEW x \in StoredItem
  PROVE  ContentsIn(Elements(Append(s, x)))
           = ContentsIn(Elements(s)) \cup {x.content}
<1>1. Elements(Append(s, x)) = Elements(s) \cup {x}
  BY ElementsOfAppend
<1> QED
  BY <1>1, ContentsOfUnion

LEMMA NextCollectedMeaning ==
  ASSUME TypeOK, BetweenObjects, CollectedMeaning, Next
  PROVE  CollectedMeaning'
<1>0. input' = input /\ input \in Inputs
  BY DEF Next, Collecting, Writing, Reading, RunProbe, CollectSet, CacheItem,
         DropItem, FilterReference, AppendReferences, StartWriting,
         ClearGlobalCache, WriteObject, WriteReference, ObjectWritten,
         GetItemsForObject, GetItemById, ItemsRead, TypeOK
<1>00. \A o : (Store!Meaning(o))' = Store!Meaning(o)
  BY <1>0, MeaningKept
<1> DEFINE M(o) == Store!Meaning(o)
<1>01. /\ \A o \in collected : ContentsIn(Elements(references[o])) = M(o)
       /\ ProbeRuns => ContentsIn(Elements(cachedItems))
                         \cup (Elements(todo) \ input.rejects[object]) = M(object)
       /\ SetRuns => ContentsIn(Elements(cachedItems))
                       \cup (ContentsIn(Elements(todo)) \ input.rejects[object])
                       = M(object)
  BY DEF CollectedMeaning
<1>02. ASSUME /\ \A o \in collected' : ContentsIn(Elements(references'[o])) = M(o)
              /\ ProbeRuns' => ContentsIn(Elements(cachedItems'))
                                \cup (Elements(todo') \ input.rejects[object'])
                                = M(object')
              /\ SetRuns' => ContentsIn(Elements(cachedItems'))
                              \cup (ContentsIn(Elements(todo'))
                                      \ input.rejects[object'])
                              = M(object')
       PROVE  CollectedMeaning'
  <2>1. \A o : (Store!Meaning(o))' = M(o)
    BY <1>00
  <2> HIDE DEF M
  <2> QED
    BY <1>0, <1>02, <2>1 DEF CollectedMeaning, ContentsIn, Elements
<1>03. \A o \in Objects :
         /\ input.from[o] \in Objects
         /\ input.from[o] = o
              => M(o) = Elements(input.answer[o]) \ input.rejects[o]
         /\ input.from[o] # o => M(o) = M(input.from[o]) \ input.rejects[o]
  BY <1>0, MeaningFacts, InputFacts
<1> HIDE DEF M
<1>1. ASSUME NEW o \in Objects, RunProbe(o) PROVE CollectedMeaning'
  BY <1>1, <1>0, <1>01, <1>02, <1>03, ElementsOfEmpty, ContentsOfEmpty
  DEF RunProbe, Begin, SetRuns
<1>2. ASSUME NEW o \in Objects, CollectSet(o) PROVE CollectedMeaning'
  <2>1. M(o) = ContentsIn(Elements(references[input.from[o]])) \ input.rejects[o]
    BY <1>2, <1>01, <1>03 DEF CollectSet
  <2> QED
    BY <1>2, <1>0, <1>01, <1>02, <2>1, ElementsOfEmpty, ContentsOfEmpty
    DEF CollectSet, Begin, ProbeRuns
<1>3. CASE CacheItem
  <2>1. PICK x \in StoredItem : /\ x.content = Head(todo)
                          /\ cachedItems' = Append(cachedItems, x)
    <3>1. \A x \in globalItemCache : x \in StoredItem /\ x.content \in Contents
      BY DEF TypeOK, StoredItem
    <3>2. ItemOf(idCounter, Head(todo)).content = Head(todo)
      BY DEF ItemOf
    <3> QED
      BY <1>3, <3>1, <3>2, CacheItemCases, OrderIsTotal
  <2>2. ContentsIn(Elements(cachedItems'))
          = ContentsIn(Elements(cachedItems)) \cup {Head(todo)}
    BY <2>1, ContentsOfAppend DEF TypeOK
  <2>3. /\ Elements(todo) = {Head(todo)} \cup Elements(Tail(todo))
        /\ ProbeRuns /\ todo' = Tail(todo) /\ object' = object /\ phase' = phase
        /\ references' = references /\ collected' = collected
        /\ Head(todo) \notin input.rejects[object]
    BY <1>3, CacheItemCases DEF CacheItem
  <2>4. ~ SetRuns'
    BY <1>0, <2>3 DEF SetRuns, ProbeRuns
  <2>5. ContentsIn(Elements(cachedItems'))
          \cup (Elements(todo') \ input.rejects[object']) = M(object')
    BY <1>01, <2>2, <2>3
  <2> QED
    BY <1>01, <1>02, <2>3, <2>4, <2>5
<1>4. CASE DropItem
  <2>1. Elements(todo) = {Head(todo)} \cup Elements(Tail(todo))
    BY <1>4, ElementsOfTail DEF DropItem, TypeOK
  <2> QED
    BY <1>4, <1>0, <1>01, <1>02, <2>1 DEF DropItem, ProbeRuns, SetRuns
<1>5. CASE FilterReference
  <2> DEFINE item == Head(todo)
  <2>1. item \in StoredItem /\ Elements(todo) = Elements(Tail(todo)) \cup {item}
    BY <1>5, ElementsOfTail DEF FilterReference, TypeOK
  <2>2. ContentsIn(Elements(todo))
          = ContentsIn(Elements(Tail(todo))) \cup {item.content}
    BY <2>1, ContentsOfUnion
  <2>3. ContentsIn(Elements(Append(cachedItems, item)))
          = ContentsIn(Elements(cachedItems)) \cup {item.content}
    BY <2>1, ContentsOfAppend DEF TypeOK
  <2>4. /\ SetRuns /\ todo' = Tail(todo) /\ object' = object /\ phase' = phase
        /\ references' = references /\ collected' = collected
        /\ cachedItems' = IF item.content \in input.rejects[object]
                          THEN cachedItems ELSE Append(cachedItems, item)
    BY <1>5 DEF FilterReference
  <2> HIDE DEF item
  <2>5. ~ ProbeRuns'
    BY <1>0, <2>4 DEF SetRuns, ProbeRuns
  <2>6. ContentsIn(Elements(cachedItems'))
          \cup (ContentsIn(Elements(todo')) \ input.rejects[object']) = M(object')
    BY <1>01, <2>2, <2>3, <2>4
  <2> QED
    BY <1>01, <1>02, <2>4, <2>5, <2>6
<1>6. CASE AppendReferences
  <2>1. object \in Objects /\ ~ ProbeRuns' /\ ~ SetRuns'
    BY <1>6 DEF AppendReferences, End, TypeOK, ProbeRuns, SetRuns
  <2>2. ContentsIn(Elements(cachedItems)) = M(object)
    BY <1>6, <1>01, ElementsOfEmpty, ContentsOfEmpty
    DEF AppendReferences, ProbeRuns, SetRuns
  <2> QED
    BY <1>6, <1>01, <1>02, <2>1, <2>2 DEF AppendReferences, TypeOK
<1>7. CASE ObjectWritten
  BY <1>7, <1>01, <1>02
  DEF ObjectWritten, End, ProbeRuns, SetRuns, TypeOK
<1>8. ASSUME NEW o \in Objects, WriteObject(o) PROVE CollectedMeaning'
  BY <1>8, <1>01, <1>02 DEF WriteObject, ProbeRuns, SetRuns
<1>9. CASE StartWriting \/ ClearGlobalCache \/ WriteReference
  BY <1>9, <1>01, <1>02
  DEF StartWriting, ClearGlobalCache, WriteReference, ProbeRuns, SetRuns
<1>10. ASSUME NEW o \in Objects, GetItemsForObject(o) PROVE CollectedMeaning'
  BY <1>10, <1>01, <1>02 DEF GetItemsForObject, ProbeRuns, SetRuns
<1>11. CASE GetItemById \/ ItemsRead
  BY <1>11, <1>01, <1>02 DEF GetItemById, ItemsRead, ProbeRuns, SetRuns
<1> QED
  BY <1>1, <1>2, <1>3, <1>4, <1>5, <1>6, <1>7, <1>8, <1>9, <1>10, <1>11
  DEF Next, Collecting, Writing, Reading

-----------------------------------------------------------------------------
\* What is below an object in the document.

\* One write adds what the reference says below its object and nothing elsewhere.
LEMMA WriteReferenceWrites ==
  ASSUME TypeOK, CacheIsNumbering, HandedOn, ReferencesResolve, WriteReference
  PROVE  /\ Written(object)' = Written(object) \cup {Head(todo).content}
         /\ \A o \in Objects \ {object} : Written(o)' = Written(o)
<1> DEFINE item == Head(todo)
<1>1. /\ object \in Objects /\ object' = object
      /\ item \in globalItemCache
      /\ Elements(systemData) \subseteq globalItemCache
      /\ Elements(systemData') \subseteq Elements(systemData) \cup {item}
      /\ Elements(systemData) \subseteq Elements(systemData')
  BY WriteReferenceCases, WriteReferenceElements DEF WriteReference, HandedOn
<1>2. \A o \in Objects : \A id \in Elements(itemRefs[o]) :
        \E x \in Elements(systemData) : x.id = id
  BY DEF ReferencesResolve, Elements
<1>3. \A o \in Objects : item.id \in Elements(itemRefs[o])
        => item \in Elements(systemData)
  BY <1>1, <1>2 DEF CacheIsNumbering
<1>4. \/ /\ item.id \in Elements(itemRefs[object])
         /\ itemRefs' = itemRefs /\ systemData' = systemData
      \/ /\ item \in Elements(systemData')
         /\ itemRefs' = [itemRefs EXCEPT ![object] =
                           Append(itemRefs[object], item.id)]
  BY WriteReferenceCases, WriteReferenceElements
<1>5. itemRefs \in [Objects -> Seq(Nat)] /\ item.id \in Nat
  BY WriteReferenceCases DEF TypeOK, StoredItem
<1> HIDE DEF item
<1>6. Elements(Append(itemRefs[object], item.id))
        = Elements(itemRefs[object]) \cup {item.id}
  BY <1>1, <1>5, ElementsOfAppend
<1>7. \A x \in Elements(systemData') : x.id = item.id => x = item
  BY <1>1 DEF CacheIsNumbering
<1> DEFINE named(o)  == {x \in Elements(systemData) : x.id \in Elements(itemRefs[o])}
           named2(o) == {x \in Elements(systemData') : x.id \in Elements(itemRefs'[o])}
<1>8. named2(object) = named(object) \cup {item}
  <2>1. CASE /\ item.id \in Elements(itemRefs[object])
             /\ itemRefs' = itemRefs /\ systemData' = systemData
    BY <1>1, <1>3, <2>1
  <2>2. CASE /\ item \in Elements(systemData')
             /\ itemRefs' = [itemRefs EXCEPT ![object] =
                               Append(itemRefs[object], item.id)]
    <3>1. Elements(itemRefs'[object]) = Elements(itemRefs[object]) \cup {item.id}
      BY <1>1, <1>5, <1>6, <2>2
    <3> QED
      BY <1>1, <1>3, <1>7, <2>2, <3>1
  <2> QED
    BY <1>4, <2>1, <2>2
<1>9. ASSUME NEW o \in Objects \ {object} PROVE named2(o) = named(o)
  <2>1. itemRefs'[o] = itemRefs[o]
    BY <1>1, <1>4, <1>5
  <2> QED
    BY <1>1, <1>3, <1>7, <2>1
<1>10. \A o : /\ Written(o) = ContentsIn(named(o))
              /\ ContentsIn(named2(o)) = {x.content : x \in named2(o)}
  BY DEF Written, ElementsWith, ContentsIn
<1>11. Written(object)' = {x.content : x \in named2(object)}
  BY <1>1 DEF Written, ElementsWith, ContentsIn, Elements
<1>12. \A o \in Objects \ {object} : Written(o)' = {x.content : x \in named2(o)}
  BY DEF Written, ElementsWith, ContentsIn, Elements
<1> HIDE DEF named, named2
<1> QED
  BY <1>8, <1>9, <1>10, <1>11, <1>12, ContentsOfUnion DEF item

LEMMA NextWrittenMeaning ==
  ASSUME TypeOK, CacheIsNumbering, HandedOn, BetweenObjects, ReferencesResolve,
         CollectedMeaning, WrittenMeaning, Next
  PROVE  WrittenMeaning'
<1> DEFINE M(o) == Store!Meaning(o)
           W(o) == Written(o)
           V(o) == ContentsIn({x \in Elements(systemData') :
                                  x.id \in Elements(itemRefs'[o])})
<1>0. input' = input
  BY DEF Next, Collecting, Writing, Reading, RunProbe, CollectSet, CacheItem,
         DropItem, FilterReference, AppendReferences, StartWriting,
         ClearGlobalCache, WriteObject, WriteReference, ObjectWritten,
         GetItemsForObject, GetItemById, ItemsRead
<1>00. \A o : (Store!Meaning(o))' = M(o)
  BY <1>0, MeaningKept
<1>01. /\ phase = "collecting" => \A o \in Objects : itemRefs[o] = <<>>
       /\ phase # "collecting" =>
            \A o \in Objects \ {object} :
              IF o \in collected THEN itemRefs[o] = <<>> ELSE W(o) = M(o)
       /\ phase = "writing" /\ object # Nobody =>
            W(object) \cup ContentsIn(Elements(todo)) = M(object)
       /\ phase = "reading" /\ object # Nobody => W(object) = M(object)
  BY DEF WrittenMeaning
<1>02. ASSUME
         /\ phase' = "collecting" => \A o \in Objects : itemRefs'[o] = <<>>
         /\ phase' # "collecting" =>
              \A o \in Objects \ {object'} :
                IF o \in collected' THEN itemRefs'[o] = <<>> ELSE V(o) = M(o)
         /\ phase' = "writing" /\ object' # Nobody =>
              V(object') \cup ContentsIn(Elements(todo')) = M(object')
         /\ phase' = "reading" /\ object' # Nobody => V(object') = M(object')
       PROVE WrittenMeaning'
  <2>1. \A o : Written(o)' = V(o)
    BY DEF Written, ElementsWith, ContentsIn, Elements
  <2>2. Written(object)' = V(object')
    BY DEF Written, ElementsWith, ContentsIn, Elements
  <2>3. Store!Meaning(object)' = M(object')
    BY <1>0 DEF Store!Meaning, Store!Reported
  <2>4. ContentsIn(Elements(todo')) = (ContentsIn(Elements(todo)))'
    BY DEF ContentsIn, Elements
  <2>5. \A o : (Store!Meaning(o))' = M(o)
    BY <1>00
  <2> HIDE DEF M, V
  <2> QED
    BY <1>02, <2>1, <2>2, <2>3, <2>4, <2>5 DEF WrittenMeaning
<1>03. UNCHANGED <<systemData, itemRefs>> => \A o : V(o) = W(o)
  BY DEF Written, ElementsWith, ContentsIn, Elements
<1>04. \A o \in Objects : itemRefs[o] = <<>> => W(o) = {}
  BY ElementsOfEmpty DEF Written, ElementsWith, ContentsIn
<1>05. \A o \in collected : ContentsIn(Elements(references[o])) = M(o)
  BY DEF CollectedMeaning
<1>06. WriteReference => /\ V(object) = W(object) \cup {Head(todo).content}
                         /\ \A o \in Objects \ {object} : V(o) = W(o)
  <2>1. WriteReference => object' = object
    BY DEF WriteReference
  <2> QED
    BY <2>1, WriteReferenceWrites DEF Written, ElementsWith, ContentsIn, Elements
<1> HIDE DEF M, W, V
<1>1. ASSUME NEW o \in Objects, RunProbe(o) \/ CollectSet(o)
      PROVE  WrittenMeaning'
  BY <1>1, <1>01, <1>02 DEF RunProbe, CollectSet, document
<1>2. CASE CacheItem \/ DropItem \/ FilterReference
  BY <1>2, <1>01, <1>02
  DEF CacheItem, DropItem, FilterReference, ProbeRuns, SetRuns, document
<1>3. CASE AppendReferences
  BY <1>3, <1>01, <1>02 DEF AppendReferences, document
<1>4. CASE StartWriting
  BY <1>4, <1>01, <1>02 DEF StartWriting, document
<1>5. ASSUME NEW o \in Objects, WriteObject(o) PROVE WrittenMeaning'
  <2>1. V(o) \cup ContentsIn(Elements(todo')) = M(o)
    BY <1>5, <1>01, <1>03, <1>04, <1>05, NobodyAssumption
    DEF WriteObject, Begin, document
  <2> QED
    BY <1>5, <1>01, <1>02, <1>03, <2>1, NobodyAssumption
    DEF WriteObject, Begin, document
<1>6. CASE WriteReference
  <2>1. /\ object \in Objects /\ Head(todo) \in StoredItem
        /\ Elements(todo) = Elements(Tail(todo)) \cup {Head(todo)}
    BY <1>6, WriteReferenceCases
  <2>2. ContentsIn(Elements(todo))
          = ContentsIn(Elements(Tail(todo))) \cup {Head(todo).content}
    BY <2>1, ContentsOfUnion
  <2>3. /\ phase = "writing" /\ phase' = phase /\ object # Nobody
        /\ object' = object /\ todo' = Tail(todo) /\ collected' = collected
        /\ \A o \in Objects \ {object} : itemRefs'[o] = itemRefs[o]
    BY <1>6, WriteReferenceCases DEF WriteReference, TypeOK
  <2> QED
    BY <1>6, <1>01, <1>02, <1>06, <2>2, <2>3
<1>7. CASE ObjectWritten
  <2>1. W(object) = M(object)
    BY <1>7, <1>01, ElementsOfEmpty, ContentsOfEmpty DEF ObjectWritten
  <2> QED
    BY <1>7, <1>01, <1>02, <1>03, <2>1 DEF ObjectWritten, End, document
<1>8. CASE ClearGlobalCache
  BY <1>8, <1>01, <1>02, <1>03 DEF ClearGlobalCache, document
<1>9. ASSUME NEW o \in Objects, GetItemsForObject(o) PROVE WrittenMeaning'
  BY <1>9, <1>01, <1>02, <1>03, NobodyAssumption
  DEF GetItemsForObject, Begin, document, BetweenObjects
<1>10. CASE GetItemById \/ ItemsRead
  BY <1>10, <1>01, <1>02, <1>03
  DEF GetItemById, ItemsRead, End, document, BetweenObjects
<1> QED
  BY <1>1, <1>2, <1>3, <1>4, <1>5, <1>6, <1>7, <1>8, <1>9, <1>10
  DEF Next, Collecting, Writing, Reading

-----------------------------------------------------------------------------
\* What the reader makes of it.

LEMMA NextReadMeaning ==
  ASSUME TypeOK, BetweenObjects, ReferencesResolve, WrittenMeaning, ReadMeaning,
         Next
  PROVE  ReadMeaning'
<1> DEFINE M(o) == Store!Meaning(o)
           named(ids) == {x \in Elements(systemData) : x.id \in ids}
<1>0. CASE phase' # "reading"
  BY <1>0 DEF ReadMeaning
<1>1. CASE ClearGlobalCache
  BY <1>1 DEF ClearGlobalCache, ReadMeaning
<1>2. ASSUME Reading PROVE ReadMeaning'
  <2>1. /\ phase = "reading" /\ input' = input /\ systemData' = systemData
        /\ collected = {}
    BY <1>2 DEF Reading, GetItemsForObject, GetItemById, ItemsRead, document,
                BetweenObjects
  <2>2. /\ processedItems \subseteq Elements(systemData)
        /\ object # Nobody =>
             /\ \A id \in Elements(todo) :
                  \E x \in Elements(systemData) : x.id = id
             /\ ContentsIn(Elements(cachedItems))
                  \cup ContentsIn(named(Elements(todo))) = M(object)
    BY <2>1 DEF ReadMeaning, ElementsWith
  <2>3. ASSUME /\ processedItems' \subseteq Elements(systemData)
               /\ object' # Nobody =>
                    /\ \A id \in Elements(todo') :
                         \E x \in Elements(systemData) : x.id = id
                    /\ ContentsIn(Elements(cachedItems'))
                         \cup ContentsIn(named(Elements(todo'))) = M(object')
        PROVE ReadMeaning'
    <3>1. (Store!Meaning(object))' = M(object')
      BY <2>1 DEF Store!Meaning, Store!Reported
    <3>2. /\ (Elements(systemData))' = Elements(systemData)
          /\ (ElementsWith(Elements(todo)))' = named(Elements(todo'))
      BY <2>1 DEF ElementsWith, Elements
    <3> HIDE DEF M, named
    <3>3. (ContentsIn(ElementsWith(Elements(todo))))'
            = ContentsIn(named(Elements(todo')))
      BY <3>2 DEF ContentsIn
    <3> QED
      BY <2>3, <3>1, <3>2, <3>3 DEF ReadMeaning, ContentsIn, Elements
  <2>4. ASSUME NEW o \in Objects, GetItemsForObject(o) PROVE ReadMeaning'
    <3>1. /\ object' = o /\ todo' = itemRefs[o] /\ cachedItems' = <<>>
          /\ processedItems' = processedItems /\ object = Nobody
      BY <2>4 DEF GetItemsForObject, Begin, reader
    <3>2. \A id \in Elements(itemRefs[o]) :
            \E x \in Elements(systemData) : x.id = id
      BY DEF ReferencesResolve, Elements
    <3>3. Written(o) = M(o)
      BY <2>1, <3>1, NobodyAssumption DEF WrittenMeaning
    <3>4. ContentsIn(named(Elements(itemRefs[o]))) = M(o)
      BY <3>3 DEF Written, ElementsWith
    <3> HIDE DEF M, named
    <3> QED
      BY <2>2, <2>3, <3>1, <3>2, <3>4, ElementsOfEmpty, ContentsOfEmpty
  <2>5. CASE GetItemById
    <3>1. PICK item \in Elements(systemData) :
            /\ item \in StoredItem
            /\ item.id = Head(todo)
            /\ processedItems' = processedItems \cup {item}
            /\ cachedItems' = Append(cachedItems, item)
      BY <2>5, GetItemByIdFinds
    <3>2. Elements(todo) = {Head(todo)} \cup Elements(Tail(todo))
      BY <2>5, ElementsOfTail DEF GetItemById, TypeOK
    <3>3. \A x \in Elements(systemData) : x.id = item.id => x = item
      BY DEF ReferencesResolve, Elements
    <3>4. named(Elements(todo)) = named(Elements(Tail(todo))) \cup {item}
      BY <3>1, <3>2, <3>3
    <3>5. ContentsIn(Elements(cachedItems'))
            = ContentsIn(Elements(cachedItems)) \cup {item.content}
      BY <3>1, ContentsOfAppend DEF TypeOK
    <3>6. /\ todo' = Tail(todo) /\ object' = object /\ object # Nobody
      BY <2>5 DEF GetItemById
    <3> HIDE DEF M, named
    <3>7. ContentsIn(named(Elements(todo)))
            = ContentsIn(named(Elements(Tail(todo)))) \cup {item.content}
      BY <3>4, ContentsOfUnion
    <3> QED
      BY <2>2, <2>3, <3>1, <3>2, <3>5, <3>6, <3>7
  <2>6. CASE ItemsRead
    BY <2>2, <2>3, <2>6 DEF ItemsRead, End
  <2> QED
    BY <1>2, <2>4, <2>5, <2>6 DEF Reading
<1>3. CASE (Collecting \/ Writing) /\ ~ ClearGlobalCache
  BY <1>0, <1>3 DEF Collecting, Writing, RunProbe, CollectSet, CacheItem, DropItem,
     FilterReference, AppendReferences, StartWriting, WriteObject, WriteReference,
     ObjectWritten, ProbeRuns, SetRuns
<1> QED
  BY <1>1, <1>2, <1>3 DEF Next

-----------------------------------------------------------------------------
LEMMA InitIInv == Init => IInv
<1> SUFFICES ASSUME Init PROVE IInv
  OBVIOUS
<1>1. TypeOK
  BY InitType
<1>2. CacheIsNumbering /\ BetweenObjects /\ ReferencesResolve
  BY DEF Init, CacheIsNumbering, BetweenObjects, ReferencesResolve, Nobody
<1>3. HandedOn
  BY ElementsOfEmpty DEF Init, HandedOn, SetRuns
<1>4. CollectedMeaning /\ WrittenMeaning /\ ReadMeaning
  BY DEF Init, CollectedMeaning, WrittenMeaning, ReadMeaning, ProbeRuns, SetRuns
<1> QED
  BY <1>1, <1>2, <1>3, <1>4 DEF IInv

LEMMA NextIInv ==
  ASSUME IInv, [Next]_vars PROVE IInv'
<1>1. CASE Next
  BY <1>1, NextType, NextNumbering, NextBetween, NextHandedOn, NextResolves,
     NextCollectedMeaning, NextWrittenMeaning, NextReadMeaning DEF IInv
<1>2. CASE UNCHANGED vars
  <2>1. TypeOK' /\ BetweenObjects' /\ CacheIsNumbering'
    BY <1>2 DEF vars, IInv, TypeOK, BetweenObjects, CacheIsNumbering,
                ProbeRuns, SetRuns
  <2>2. HandedOn' /\ ReferencesResolve'
    BY <1>2 DEF vars, IInv, HandedOn, ReferencesResolve, Elements, SetRuns
  <2>3. \A o : (Store!Meaning(o))' = Store!Meaning(o)
    BY <1>2, MeaningKept DEF vars
  <2>4. (Store!Meaning(object))' = Store!Meaning(object)
    BY <1>2 DEF vars, Store!Meaning, Store!Reported
  <2>5. CollectedMeaning'
    BY <1>2, <2>3, <2>4
    DEF vars, IInv, CollectedMeaning, ContentsIn, Elements, ProbeRuns, SetRuns
  <2>6. WrittenMeaning'
    BY <1>2, <2>3, <2>4
    DEF vars, IInv, WrittenMeaning, Written, ElementsWith, ContentsIn, Elements
  <2>7. ReadMeaning'
    BY <1>2, <2>4 DEF vars, IInv, ReadMeaning, ElementsWith, ContentsIn, Elements
  <2> QED
    BY <2>1, <2>2, <2>5, <2>6, <2>7 DEF IInv
<1> QED
  BY <1>1, <1>2

LEMMA IInvHolds == Spec => []IInv
<1>1. IInv /\ [Next]_vars => IInv'
  BY NextIInv
<1> QED
  BY <1>1, InitIInv, PTL DEF Spec

\* The state stays well typed: what is in work is a thing, an item or an id as
\* the phase says (AbsDataCollector::Run, ObjectReader::GetItemsForObject).
THEOREM TypeCorrect == Spec => []TypeOK
<1>1. IInv => TypeOK
  BY DEF IInv
<1> QED
  BY <1>1, IInvHolds, PTL

\* Every reference of every object names exactly one item element, for any
\* objects, answers and filters (CollectedObject::Write, Item::Write).
THEOREM ReferencesAlwaysResolve == Spec => []ReferencesResolve
<1>1. IInv => ReferencesResolve
  BY DEF IInv
<1> QED
  BY <1>1, IInvHolds, PTL

\* The items of the cache and those still to come are in a strict order in which
\* only equal ones are the same, whatever the probes report (std::less<const
\* Item*>, which the std::set of AbsProbe::CacheAllItems relies on).
THEOREM ItemsStayOrdered == Spec => []ItemsAreOrdered
<1>1. IInv => ItemsAreOrdered
  <2> SUFFICES ASSUME IInv PROVE ItemsAreOrdered
    OBVIOUS
  <2>1. Things \subseteq Contents
    BY DEF Things, IInv, TypeOK, StoredItem, Elements
  <2> QED
    BY <2>1, OrderIsTotal, Zenon DEF ItemsAreOrdered
<1> QED
  BY <1>1, IInvHolds, PTL

-----------------------------------------------------------------------------
\* ItemCache implements ItemStore.

LEMMA InitStore == Init => Store!StoreInit
BY DEF Init, Store!StoreInit

LEMMA StepStore ==
  ASSUME IInv, [Next]_vars PROVE [Store!StoreNext]_(Store!storeVars)
<1> USE DEF Store!storeVars
<1>0. TypeOK /\ BetweenObjects
  BY DEF IInv
<1>1. CASE AppendReferences
  <2>1. object \in Objects /\ object \notin collected /\ reread = {}
    BY <1>0, <1>1 DEF AppendReferences, TypeOK, BetweenObjects
  <2>2. Store!Collect(object)
    BY <1>1, <2>1 DEF AppendReferences, Store!Collect, reader
  <2> QED
    BY <2>1, <2>2 DEF Store!StoreNext
<1>2. ASSUME NEW o \in Objects, GetItemsForObject(o)
      PROVE  [Store!StoreNext]_(Store!storeVars)
  BY <1>2 DEF GetItemsForObject, reader
<1>3. CASE ItemsRead
  <2>1. object \in Objects /\ object \in input.readable \ reread
    BY <1>0, <1>3 DEF ItemsRead, TypeOK, BetweenObjects
  <2>2. ContentsIn(Elements(cachedItems)) = Store!Meaning(object)
    <3>1. ElementsWith(Elements(<<>>)) = {}
      BY ElementsOfEmpty DEF ElementsWith
    <3> QED
      BY <1>3, <3>1, ContentsOfEmpty DEF ItemsRead, IInv, ReadMeaning
  <2>3. {ReadBack[cachedItems[i].content] : i \in DOMAIN cachedItems}
          = {ReadBack[x] : x \in ContentsIn(Elements(cachedItems))}
    BY DEF ContentsIn, Elements
  <2>4. Store!Reread(object)
    BY <1>3, <2>1, <2>2, <2>3 DEF ItemsRead, Store!Reread
  <2> QED
    BY <2>1, <2>4 DEF Store!StoreNext
<1>4. CASE StartWriting \/ ClearGlobalCache
  BY <1>4 DEF StartWriting, ClearGlobalCache, reader
<1>5. CASE CacheItem \/ DropItem \/ FilterReference
  BY <1>5 DEF CacheItem, DropItem, FilterReference, reader
<1>6. ASSUME NEW o \in Objects, RunProbe(o) \/ CollectSet(o) \/ WriteObject(o)
      PROVE  UNCHANGED Store!storeVars
  BY <1>6 DEF RunProbe, CollectSet, WriteObject, reader
<1>7. CASE WriteReference \/ ObjectWritten
  BY <1>7 DEF WriteReference, ObjectWritten, reader
<1>8. CASE GetItemById
  BY <1>8 DEF GetItemById
<1>9. CASE UNCHANGED vars
  BY <1>9 DEF vars
<1> QED
  BY <1>1, <1>2, <1>3, <1>4, <1>5, <1>6, <1>7, <1>8, <1>9
  DEF Next, Collecting, Writing, Reading

\* The items read for an object are the things its probe reported and its filters
\* left, read back from the document, whatever went through the cache, the
\* document and the reader before (AbsProbe::Run to ObjectReader::GetItemsForObject).
THEOREM ImplementsStore == Spec => StoresItems
<1>1. IInv /\ [Next]_vars => [Store!StoreNext]_(Store!storeVars)
  BY StepStore
<1> QED
  BY <1>1, InitStore, IInvHolds, PTL DEF Spec, StoresItems, Store!StoreSpec

-----------------------------------------------------------------------------
\* The lists that probes keep.

LEMMA KindsDiffer ==
  /\ Listing \cap (OneItem \cup Finder \cup Algorithm) = {}
  /\ KeepsNames \cap (Listing \cup {"activedirectory"}) = {}
  /\ "activedirectory" \notin Listing
BY DEF Listing, AtConstruction, AtFirstUse, KeepsPart, KeepsNames, OneItem, Finder, Algorithm,
       OfGroups, OfNames, OfLines, OfRows, OfNumbers

LEMMA OutcomesOfOthers ==
  ASSUME NEW p, p \notin KeepsNames \cup {"activedirectory"}, NEW o, NEW s, NEW b, NEW c
  PROVE  Outcomes(p, o, s, b) = Outcomes(p, o, s, c)
<1>1. p # "accountinfo" /\ p # "pwpolicy59"
  BY DEF KeepsNames
<1>2. OfPolicy(p, o, s, b) = OfPolicy(p, o, s, c)
  BY DEF OfPolicy
<1> QED
  BY <1>1, <1>2 DEF Outcomes

\* The names that are kept are those that would be listed.
LEMMA OutcomesOfNames ==
  ASSUME NEW p \in KeepsNames, NEW o, NEW s, s.list = "ok"
  PROVE  Outcomes(p, o, s, Firsts(s.there)) = Outcomes(p, o, s, {})
<1>1. GetResponse(s.list, Firsts(s.there)) = [thrown |-> FALSE, lines |-> Firsts(s.there)]
  BY DEF GetResponse
<1>2. AccountInfo(o, s, Firsts(s.there)) = AccountInfo(o, s, {})
  BY <1>1 DEF AccountInfo
<1>3. PwPolicy59(o, s, Firsts(s.there)) = PwPolicy59(o, s, {})
  BY <1>1 DEF PwPolicy59
<1> QED
  BY <1>2, <1>3, KindsDiffer DEF Outcomes, KeepsNames

-----------------------------------------------------------------------------
\* What is kept is what the system had that it was listed on.
NamesAreKept ==
  probe \in KeepsNames => kept = {} \/ (taken.list = "ok" /\ kept = Firsts(taken.there))
ListIsKept ==
  probe \in Listing /\ (kept # NotListed \/ (asked # NothingAsked /\ ~ outcome.thrown)) =>
    kept = taken.there \/ (probe \in KeepsTheFailure /\ taken.list # "ok")
\* And the answer is the one that is given when nothing is kept.
AnswerIsFresh ==
  /\ probe \notin Listing \cup Finder \cup Algorithm \cup {"activedirectory"}
  /\ asked # NothingAsked
  /\ taken = system
  => outcome \in Outcomes(probe, asked, system, NothingKept(probe))
KeptInv == NamesAreKept /\ ListIsKept /\ AnswerIsFresh

LEMMA InitKept == ProbingInit => KeptInv
<1> SUFFICES ASSUME ProbingInit PROVE KeptInv
  OBVIOUS
<1>1. asked = NothingAsked /\ kept = NothingKept(probe)
  BY DEF ProbingInit
<1>2. probe \in KeepsNames => kept = {}
  BY <1>1 DEF NothingKept
<1>3. probe \in Listing => kept = NotListed
  BY <1>1, KindsDiffer DEF NothingKept
<1> QED
  BY <1>1, <1>2, <1>3 DEF KeptInv, NamesAreKept, ListIsKept, AnswerIsFresh

LEMMA CollectListedKeeps ==
  ASSUME KeptInv, NEW o, CollectListed(o)
  PROVE  KeptInv'
<1>1. PICK snapshot \in Snapshots(probe, kept, system) :
        /\ kept' = snapshot.items
        /\ outcome' = IF snapshot.thrown THEN Throws
                      ELSE OnSnapshot(probe, o, snapshot.items)
  BY DEF CollectListed
<1>2. /\ probe \in Listing /\ probe' = probe /\ system' = system
      /\ taken' = IF kept = NotListed THEN system ELSE taken
  BY DEF CollectListed
<1>3. NamesAreKept' /\ AnswerIsFresh'
  BY <1>2, KindsDiffer DEF NamesAreKept, AnswerIsFresh
<1>4. ListIsKept'
  <2> SUFFICES ASSUME kept' # NotListed \/ ~ outcome'.thrown
      PROVE  kept' = taken'.there \/ (probe \in KeepsTheFailure /\ taken'.list # "ok")
    BY <1>2 DEF ListIsKept
  <2>1. CASE kept # NotListed
    <3>1. kept' = kept /\ taken' = taken
      BY <1>1, <1>2, <2>1 DEF Snapshots, Collects
    <3> QED
      BY <1>2, <2>1, <3>1 DEF KeptInv, ListIsKept
  <2>2. CASE kept = NotListed /\ system.list = "ok"
    BY <1>1, <1>2, <2>2 DEF Snapshots, Collects
  <2>3. CASE kept = NotListed /\ system.list # "ok"
    <3>1. taken' = system /\ (probe \notin KeepsTheFailure => probe # "runlevel" /\ probe \notin KeepsPart)
      BY <1>2, <2>3 DEF KeepsTheFailure
    <3>2. CASE probe \in KeepsTheFailure
      BY <2>3, <3>1, <3>2
    <3>3. CASE probe \notin KeepsTheFailure
      <4>1. snapshot = [Throws EXCEPT !.items = NotListed]
        BY <1>1, <2>3, <3>1, <3>3 DEF Snapshots
      <4>2. snapshot.thrown /\ snapshot.items = NotListed
        BY <4>1 DEF Throws
      <4> QED
        BY <1>1, <4>2 DEF Throws
    <3> QED
      BY <3>2, <3>3
  <2> QED
    BY <2>1, <2>2, <2>3
<1> QED
  BY <1>3, <1>4 DEF KeptInv

LEMMA CollectKeeps ==
  ASSUME KeptInv, NEW o, Collect(o)
  PROVE  KeptInv'
<1>1. /\ probe \notin Listing /\ probe' = probe /\ system' = system /\ asked' = o
      /\ outcome' \in Outcomes(probe, o, system, kept)
      /\ kept' = KeptAfter(probe, o, system, kept, outcome')
      /\ taken' = IF kept = NothingKept(probe) THEN system ELSE taken
  BY DEF Collect
<1>2. ListIsKept'
  BY <1>1 DEF ListIsKept
<1>3. NamesAreKept'
  <2> SUFFICES ASSUME probe \in KeepsNames
      PROVE  kept' = {} \/ (taken'.list = "ok" /\ kept' = Firsts(taken'.there))
    BY <1>1 DEF NamesAreKept
  <2>1. NothingKept(probe) = {}
    BY DEF NothingKept
  <2>2. kept' = kept \/ kept' = NamesKept(kept, system)
    BY <1>1, KindsDiffer DEF KeptAfter
  <2>3. CASE kept = {}
    BY <1>1, <2>1, <2>2, <2>3 DEF NamesKept
  <2>4. CASE kept # {}
    BY <1>1, <2>1, <2>2, <2>4 DEF NamesKept, KeptInv, NamesAreKept
  <2> QED
    BY <2>3, <2>4
<1>4. AnswerIsFresh'
  <2> SUFFICES ASSUME probe # "activedirectory", taken' = system
      PROVE  outcome' \in Outcomes(probe, o, system, NothingKept(probe))
    BY <1>1 DEF AnswerIsFresh
  <2>1. CASE probe \notin KeepsNames
    BY <1>1, <2>1, OutcomesOfOthers
  <2>2. CASE probe \in KeepsNames /\ kept = {}
    BY <1>1, <2>2 DEF NothingKept
  <2>3. CASE probe \in KeepsNames /\ kept # {}
    <3>1. NothingKept(probe) = {} /\ taken = system
      BY <1>1, <2>3 DEF NothingKept
    <3>2. system.list = "ok" /\ kept = Firsts(system.there)
      BY <2>3, <3>1 DEF KeptInv, NamesAreKept
    <3> QED
      BY <1>1, <2>3, <3>1, <3>2, OutcomesOfNames
  <2> QED
    BY <2>1, <2>2, <2>3
<1> QED
  BY <1>2, <1>3, <1>4 DEF KeptInv

LEMMA NextKept == KeptInv /\ [ProbingNext]_probingVars => KeptInv'
<1> SUFFICES ASSUME KeptInv, [ProbingNext]_probingVars PROVE KeptInv'
  OBVIOUS
<1>1. ASSUME NEW o \in ObjectsOf(probe), CollectListed(o) \/ Collect(o)
      PROVE  KeptInv'
  BY <1>1, CollectListedKeeps, CollectKeeps
<1>2. ASSUME NEW q \in SearchesOf(probe), Search(q) \/ Work(q)
      PROVE  KeptInv'
  <2>1. probe \in Finder \cup Algorithm /\ UNCHANGED <<probe, kept, taken>>
    BY <1>2 DEF Search, Work
  <2> QED
    BY <2>1, KindsDiffer DEF KeptInv, NamesAreKept, ListIsKept, AnswerIsFresh
<1>3. ASSUME NEW a, Fill(a)
      PROVE  KeptInv'
  <2>1. UNCHANGED <<probe, system, kept, taken, asked, outcome>>
    BY <1>3 DEF Fill
  <2> QED
    BY <2>1 DEF KeptInv, NamesAreKept, ListIsKept, AnswerIsFresh
<1>4. ASSUME Continue \/ Change
      PROVE  KeptInv'
  <2>1. asked' = NothingAsked /\ UNCHANGED <<probe, kept, taken>>
    BY <1>4 DEF Continue, Change
  <2> QED
    BY <2>1 DEF KeptInv, NamesAreKept, ListIsKept, AnswerIsFresh
<1>5. ASSUME UNCHANGED probingVars
      PROVE  KeptInv'
  BY <1>5 DEF probingVars, KeptInv, NamesAreKept, ListIsKept, AnswerIsFresh
<1> QED
  BY <1>1, <1>2, <1>3, <1>4, <1>5 DEF ProbingNext

\* What a probe keeps between two objects does not change the answer to the second
\* (CollectItems and the constructors of the probes that keep a list).
THEOREM KeptListsAreCurrent == ProbingSpec => []AnswersForgetTheOthers
<1>1. KeptInv => AnswersForgetTheOthers
  BY KindsDiffer DEF KeptInv, ListIsKept, AnswerIsFresh, AnswersForgetTheOthers, Looked
<1> QED
  BY <1>1, InitKept, NextKept, PTL DEF ProbingSpec

-----------------------------------------------------------------------------
\* Some calls are not made, for what is otherwise so (NotMade, said of the answers).
Skipped(p, c, os) ==
  \/ p = "file" /\ c = "acl" /\ os.linux # "ok"
  \/ p = "winfile" /\ c \in {"version", "checksum"} /\ os.directory
  \/ p = "passwordpolicy" /\ c = "export" /\ os.wmi # <<>>
  \/ p = "auditsubcategories" /\ c # "policy" /\ ~ os.auditing

\* One call fails and the others are well, and it is none that is passed over.
OnlyFails(p, os, c) ==
  /\ c \in CallsOf(p) /\ os[c] = "fails"
  /\ \A d \in CallsOf(p) \ {c} : os[d] = "ok"
  /\ <<p, c>> \notin PassedOver \cup LeftOut
  /\ ~ Skipped(p, c, os)

\* One lemma for each item that is filled from calls: that failure is in the item or is
\* an exception.
LEMMA FileItemTells ==
  ASSUME NEW os, NEW c, OnlyFails("file", os, c)
  PROVE  Told(FileItem(os))
<1>1. CallsOf("file") = {"lstat", "acl"}
  BY DEF CallsOf
<1>2. CASE c = "lstat"
  BY <1>1, <1>2 DEF OnlyFails, Told, ItemThrows, FileItem
<1>3. CASE c = "acl"
  <2>1. os.linux = "ok" /\ os.lstat = "ok" /\ os.acl = "fails"
    BY <1>1, <1>3 DEF OnlyFails, Skipped
  <2>2. Element(os.acl, ByAnswer("exists", "does not exist", "error")) = "error"
    BY <2>1 DEF Element, ByAnswer
  <2> QED
    BY <2>1, <2>2 DEF Told, Item, FileItem
<1> QED
  BY <1>1, <1>2, <1>3 DEF OnlyFails

LEMMA EvaluateXpathTells ==
  ASSUME NEW os, NEW c, OnlyFails("xmlfilecontent", os, c)
  PROVE  Told(EvaluateXpath(os))
<1>1. CallsOf("xmlfilecontent") = {"parse", "evaluate"}
  BY DEF CallsOf
<1> QED
  BY <1>1 DEF OnlyFails, Told, ItemThrows, Item, EvaluateXpath

LEMMA UnameItemTells ==
  ASSUME NEW os, NEW c, OnlyFails("uname", os, c)
  PROVE  Told(UnameItem(os))
<1>1. CallsOf("uname") = {"uname", "sysinfo"}
  BY DEF CallsOf
<1> QED
  BY <1>1 DEF OnlyFails, Told, ItemThrows, Item, UnameItem

LEMMA ProcessItemTells ==
  ASSUME NEW os, NEW c, OnlyFails("process", os, c)
  PROVE  Told(ProcessItem(os))
<1>1. CallsOf("process") = {"uptime", "cmdline", "directory", "stat", "status", "policy"}
  BY DEF CallsOf
<1>2. c \in {"uptime", "cmdline", "policy"}
  BY <1>1 DEF OnlyFails, PassedOver, LeftOut
<1> QED
  BY <1>2, <1>1 DEF OnlyFails, Told, ItemThrows, Item, ProcessItem

LEMMA Process58ItemTells ==
  ASSUME NEW os, NEW c, OnlyFails("process58", os, c)
  PROVE  Told(Process58Item(os))
<1>1. CallsOf("process58") = {"uptime", "directory", "stat", "status", "uid", "caps",
                              "loginuid", "selinux", "policy"}
  BY DEF CallsOf
<1>2. c \in {"uptime", "stat", "status", "uid", "caps", "loginuid", "selinux", "policy"}
  BY <1>1 DEF OnlyFails, PassedOver, LeftOut
<1> QED
  BY <1>2, <1>1 DEF OnlyFails, Told, ItemThrows, Item, Element, ByAnswer,
                    Process58Item, ErrorIfAny

LEMMA SolarisProcessItemTells ==
  ASSUME NEW os, NEW c, OnlyFails("solarisprocess", os, c)
  PROVE  Told(SolarisProcessItem(os))
<1>1. CallsOf("solarisprocess") = {"psinfo", "device"}
  BY DEF CallsOf
<1>2. c \in {"psinfo"}
  BY <1>1 DEF OnlyFails, PassedOver, LeftOut
<1> QED
  BY <1>2, <1>1 DEF OnlyFails, Told, ItemThrows, Item, SolarisProcessItem

LEMMA SolarisProcess58ItemTells ==
  ASSUME NEW os, NEW c, OnlyFails("solarisprocess58", os, c)
  PROVE  Told(SolarisProcess58Item(os))
<1>1. CallsOf("solarisprocess58") = {"psinfo", "device"}
  BY DEF CallsOf
<1>2. c \in {"psinfo"}
  BY <1>1 DEF OnlyFails, PassedOver, LeftOut
<1> QED
  BY <1>2, <1>1 DEF OnlyFails, Told, ItemThrows, Item, SolarisProcess58Item,
                    SolarisProcessItem

LEMMA MacProcessItemTells ==
  ASSUME NEW os, NEW c, OnlyFails("macprocess", os, c)
  PROVE  Told(MacProcessItem(os))
<1>1. CallsOf("macprocess") = {"sysctl", "device"}
  BY DEF CallsOf
<1>2. c \in {"sysctl"}
  BY <1>1 DEF OnlyFails, PassedOver, LeftOut
<1> QED
  BY <1>2, <1>1 DEF OnlyFails, Told, ItemThrows, Item, MacProcessItem

LEMMA MacProcess58ItemTells ==
  ASSUME NEW os, NEW c, OnlyFails("macprocess58", os, c)
  PROVE  Told(MacProcess58Item(os))
<1>1. CallsOf("macprocess58") = {"sysctl", "device"}
  BY DEF CallsOf
<1>2. c \in {"sysctl"}
  BY <1>1 DEF OnlyFails, PassedOver, LeftOut
<1> QED
  BY <1>2, <1>1 DEF OnlyFails, Told, ItemThrows, Item, MacProcess58Item, MacProcessItem

LEMMA DPKGItemTells ==
  ASSUME NEW os, NEW c, OnlyFails("dpkginfo", os, c)
  PROVE  Told(DPKGItem(os))
<1>1. CallsOf("dpkginfo") = {"database", "installed"}
  BY DEF CallsOf
<1>2. c \in {"database"}
  BY <1>1 DEF OnlyFails, PassedOver, LeftOut
<1> QED
  BY <1>2, <1>1 DEF OnlyFails, Told, ItemThrows, Item, DPKGItem

LEMMA RPMInfoItemTells ==
  ASSUME NEW os, NEW c, OnlyFails("rpminfo", os, c)
  PROVE  Told(RPMInfoItem(os))
<1>1. CallsOf("rpminfo") = {"database", "signature", "version", "release"}
  BY DEF CallsOf
<1>2. c \in {"database", "signature"}
  BY <1>1 DEF OnlyFails, PassedOver, LeftOut
<1> QED
  BY <1>2, <1>1 DEF OnlyFails, Told, ItemThrows, Item, Element, ByAnswer, RPMInfoItem

LEMMA RPMVerifyItemTells ==
  ASSUME NEW os, NEW c, OnlyFails("rpmverify", os, c)
  PROVE  Told(RPMVerifyItem(os))
<1>1. CallsOf("rpmverify") = {"header", "lstat"}
  BY DEF CallsOf
<1>2. c \in {"header"}
  BY <1>1 DEF OnlyFails, PassedOver, LeftOut
<1> QED
  BY <1>2, <1>1 DEF OnlyFails, Told, ItemThrows, Item, RPMVerifyItem

LEMMA RPMVerifyFileItemTells ==
  ASSUME NEW os, NEW c, OnlyFails("rpmverifyfile", os, c)
  PROVE  Told(RPMVerifyFileItem(os))
<1>1. CallsOf("rpmverifyfile") = {"header", "lstat", "version", "release"}
  BY DEF CallsOf
<1>2. c \in {"header"}
  BY <1>1 DEF OnlyFails, PassedOver, LeftOut
<1> QED
  BY <1>2, <1>1 DEF OnlyFails, Told, ItemThrows, Item, Element, ByAnswer,
                    RPMVerifyFileItem, RPMVerifyItem

LEMMA RPMVerifyPackageItemTells ==
  ASSUME NEW os, NEW c, OnlyFails("rpmverifypackage", os, c)
  PROVE  Told(RPMVerifyPackageItem(os))
<1>1. CallsOf("rpmverifypackage") = {"header"}
  BY DEF CallsOf
<1> QED
  BY <1>1 DEF OnlyFails, Told, ItemThrows, Item, RPMVerifyPackageItem

LEMMA PacketListenerTells ==
  ASSUME NEW os, NEW c, OnlyFails("iflisteners", os, c)
  PROVE  Told(PacketListener(os))
<1>1. CallsOf("iflisteners") = {"line", "interface", "exe", "protocol", "address"}
  BY DEF CallsOf
<1> QED
  BY <1>1 DEF OnlyFails, Told, ItemThrows, Item, PacketListener

LEMMA PartitionItemTells ==
  ASSUME NEW os, NEW c, OnlyFails("partition", os, c)
  PROVE  Told(PartitionItem(os))
<1>1. CallsOf("partition") = {"mountpoint", "statfs", "blkid", "uuid"}
  BY DEF CallsOf
<1>2. c \in {"mountpoint", "statfs", "blkid"}
  BY <1>1 DEF OnlyFails, PassedOver, LeftOut
<1> QED
  BY <1>2, <1>1 DEF OnlyFails, Told, ItemThrows, Item, Element, ByAnswer, PartitionItem

LEMMA InetListeningServerItemTells ==
  ASSUME NEW os, NEW c, OnlyFails("inetlisteningservers", os, c)
  PROVE  Told(InetListeningServerItem(os))
<1>1. CallsOf("inetlisteningservers") = {"format", "program"}
  BY DEF CallsOf
<1> QED
  BY <1>1 DEF OnlyFails, Told, ItemThrows, Item, InetListeningServerItem

LEMMA SelinuxContextItemTells ==
  ASSUME NEW os, NEW c, OnlyFails("selinuxcontext of pids", os, c)
  PROVE  Told(SelinuxContextItem(os))
<1>1. CallsOf("selinuxcontext of pids") = {"context", "rawContext"}
  BY DEF CallsOf
<1> QED
  BY <1>1 DEF OnlyFails, Told, Item, SelinuxContextItem

LEMMA SelinuxBooleanItemTells ==
  ASSUME NEW os, NEW c, OnlyFails("selinuxboolean", os, c)
  PROVE  Told(SelinuxBooleanItem(os))
<1>1. CallsOf("selinuxboolean") = {"active", "pending"}
  BY DEF CallsOf
<1>2. FALSE
  BY <1>1 DEF OnlyFails, PassedOver, LeftOut
<1> QED
  BY <1>2

LEMMA AccountInfoItemTells ==
  ASSUME NEW os, NEW c, OnlyFails("accountinfo", os, c)
  PROVE  Told(AccountInfoItem(os))
<1>1. CallsOf("accountinfo") = {"dscl"}
  BY DEF CallsOf
<1> QED
  BY <1>1 DEF OnlyFails, Told, ItemThrows, Item, AccountInfoItem

LEMMA PwPolicy59ItemTells ==
  ASSUME NEW os, NEW c, OnlyFails("pwpolicy59", os, c)
  PROVE  Told(PwPolicy59Item(os))
<1>1. CallsOf("pwpolicy59") = {"pwpolicy", "integer", "boolean"}
  BY DEF CallsOf
<1>2. CASE c = "pwpolicy"
  BY <1>1, <1>2 DEF OnlyFails, Told, ItemThrows, Item, PwPolicy59Item
<1>3. CASE c = "integer"
  <2>1. /\ PwPolicy59Item(os).kind = "item"
        /\ "minChars" \in DOMAIN PwPolicy59Item(os).elements
        /\ PwPolicy59Item(os).elements["minChars"] =
             Element(os.integer, ByAnswer("exists", "does not exist", "error"))
    BY <1>3, <1>1 DEF OnlyFails, Item, PwPolicy59Item
  <2>2. os.integer = "fails"
    BY <1>3 DEF OnlyFails
  <2>3. Element(os.integer, ByAnswer("exists", "does not exist", "error")) = "error"
    BY <2>2 DEF Element, ByAnswer
  <2> QED
    BY <2>1, <2>3 DEF Told
<1>4. CASE c = "boolean"
  <2>1. /\ PwPolicy59Item(os).kind = "item"
        /\ "requiresAlpha" \in DOMAIN PwPolicy59Item(os).elements
        /\ PwPolicy59Item(os).elements["requiresAlpha"] =
             Element(os.boolean, ByAnswer("exists", "does not exist", "error"))
    BY <1>4, <1>1 DEF OnlyFails, Item, PwPolicy59Item
  <2>2. os.boolean = "fails"
    BY <1>4 DEF OnlyFails
  <2>3. Element(os.boolean, ByAnswer("exists", "does not exist", "error")) = "error"
    BY <2>2 DEF Element, ByAnswer
  <2> QED
    BY <2>1, <2>3 DEF Told
<1> QED
  BY <1>2, <1>3, <1>4, <1>1 DEF OnlyFails

LEMMA IsainfoItemTells ==
  ASSUME NEW os, NEW c, OnlyFails("isainfo", os, c)
  PROVE  Told(IsainfoItem(os))
<1>1. CallsOf("isainfo") = {"application", "kernel"}
  BY DEF CallsOf
<1> QED
  BY <1>1 DEF OnlyFails, Told, Item, IsainfoItem

LEMMA PatchPackageTells ==
  ASSUME NEW os, NEW c, OnlyFails("patch54", os, c)
  PROVE  Told(PatchPackage(os))
<1>1. CallsOf("patch54") = {"stat", "pkginfo", "read"}
  BY DEF CallsOf
<1> QED
  BY <1>1 DEF OnlyFails, Told, ItemThrows, Item, PatchPackage

LEMMA WinProcessItemTells ==
  ASSUME NEW os, NEW c, OnlyFails("winprocess", os, c)
  PROVE  Told(WinProcessItem(os))
<1>1. CallsOf("winprocess") = {"open", "close", "image", "line", "directory"}
  BY DEF CallsOf
<1>2. c \in {"close"}
  BY <1>1 DEF OnlyFails, PassedOver, LeftOut
<1> QED
  BY <1>2, <1>1 DEF OnlyFails, Told, ItemThrows, Item, WinProcessItem

LEMMA WinProcess58ItemTells ==
  ASSUME NEW os, NEW c, OnlyFails("winprocess58", os, c)
  PROVE  Told(WinProcess58Item(os))
<1>1. CallsOf("winprocess58") = {"open", "close", "image", "line", "directory",
                                 "times", "window", "dep"}
  BY DEF CallsOf
<1>2. c \in {"close", "times", "dep"}
  BY <1>1 DEF OnlyFails, PassedOver, LeftOut
<1>3. CASE c = "close"
  <2>1. WinProcessItem(os).kind = "throws"
    BY <1>1, <1>3 DEF OnlyFails, WinProcessItem, ItemThrows
  <2> QED
    BY <2>1 DEF WinProcess58Item, Told
<1>4. CASE c = "times"
  <2>1. /\ WinProcess58Item(os).kind = "item"
        /\ "creation_time" \in DOMAIN WinProcess58Item(os).elements
        /\ WinProcess58Item(os).elements["creation_time"] = "error"
    BY <1>4, <1>1 DEF OnlyFails, Item, WinProcess58Item, WinProcessItem, Joined
  <2> QED
    BY <2>1 DEF Told
<1>5. CASE c = "dep"
  <2>1. /\ WinProcess58Item(os).kind = "item"
        /\ "dep_enabled" \in DOMAIN WinProcess58Item(os).elements
        /\ WinProcess58Item(os).elements["dep_enabled"] =
             Element(os.dep, ByAnswer("exists", "not collected", "error"))
    BY <1>5, <1>1 DEF OnlyFails, Item, WinProcess58Item, WinProcessItem, Joined
  <2>2. os.dep = "fails"
    BY <1>5 DEF OnlyFails
  <2>3. Element(os.dep, ByAnswer("exists", "not collected", "error")) = "error"
    BY <2>2 DEF Element, ByAnswer
  <2> QED
    BY <2>1, <2>3 DEF Told
<1> QED
  BY <1>3, <1>4, <1>5, <1>2

LEMMA DNSCacheItemTells ==
  ASSUME NEW os, NEW c, OnlyFails("dnscache", os, c)
  PROVE  Told(DNSCacheItem(os))
<1>1. CallsOf("dnscache") = {"query", "address"}
  BY DEF CallsOf
<1> QED
  BY <1>1 DEF OnlyFails, Told, ItemThrows, Item, DNSCacheItem

LEMMA GroupItemTells ==
  ASSUME NEW os, NEW c, OnlyFails("group", os, c)
  PROVE  Told(GroupItem(os))
<1>1. CallsOf("group") = {"group"}
  BY DEF CallsOf
<1> QED
  BY <1>1 DEF OnlyFails, Told, ItemThrows, Item, GroupItem

LEMMA UserItemTells ==
  ASSUME NEW os, NEW c, OnlyFails("user", os, c)
  PROVE  Told(UserItem(os))
<1>1. CallsOf("user") = {"account", "global", "local"}
  BY DEF CallsOf
<1> QED
  BY <1>1 DEF OnlyFails, Told, Item, UserItem, GetGroupsForUser

LEMMA UserSidItemTells ==
  ASSUME NEW os, NEW c, OnlyFails("usersid", os, c)
  PROVE  Told(UserSidItem(os))
<1>1. CallsOf("usersid") = {"sid", "account", "global", "local"}
  BY DEF CallsOf
<1> QED
  BY <1>1 DEF OnlyFails, Told, ItemThrows, Item, UserSidItem, UserItem, GetGroupsForUser

LEMMA RightsItemTells ==
  ASSUME NEW os, NEW c, OnlyFails("serviceeffectiverights", os, c)
  PROVE  Told(RightsItem(os))
<1>1. CallsOf("serviceeffectiverights") = {"sid", "rights"}
  BY DEF CallsOf
<1>2. c \in {"rights"}
  BY <1>1 DEF OnlyFails, PassedOver, LeftOut
<1> QED
  BY <1>2, <1>1 DEF OnlyFails, Told, Item, RightsItem

LEMMA AuditAuditItemTells ==
  ASSUME NEW os, NEW c, OnlyFails("fileauditedpermissions", os, c)
  PROVE  Told(AuditItem(os))
<1>1. CallsOf("fileauditedpermissions") = {"sid", "rights"}
  BY DEF CallsOf
<1>2. c \in {"rights"}
  BY <1>1 DEF OnlyFails, PassedOver, LeftOut
<1> QED
  BY <1>2, <1>1 DEF OnlyFails, Told, Item, AuditItem, RightsItem

LEMMA AccessTokenItemTells ==
  ASSUME NEW os, NEW c, OnlyFails("accesstoken", os, c)
  PROVE  Told(AccessTokenItem(os))
<1>1. CallsOf("accesstoken") = {"enumerate"}
  BY DEF CallsOf
<1>2. FALSE
  BY <1>1 DEF OnlyFails, PassedOver, LeftOut
<1> QED
  BY <1>2

LEMMA WMIItemTells ==
  ASSUME NEW os, NEW c, OnlyFails("wmi", os, c)
  PROVE  Told(WMIItem(os))
<1>1. CallsOf("wmi") = {"query"}
  BY DEF CallsOf
<1> QED
  BY <1>1 DEF OnlyFails, Told, ItemThrows, WMIItem

LEMMA WMI57ItemTells ==
  ASSUME NEW os, NEW c, OnlyFails("wmi57", os, c)
  PROVE  Told(WMI57Item(os))
<1>1. CallsOf("wmi57") = {"query"}
  BY DEF CallsOf
<1> QED
  BY <1>1 DEF OnlyFails, Told, ItemThrows, WMI57Item

LEMMA ActiveDirectoryItemTells ==
  ASSUME NEW os, NEW c, OnlyFails("activedirectory", os, c)
  PROVE  Told(ActiveDirectoryItem(os))
<1>1. CallsOf("activedirectory") = {"kind"}
  BY DEF CallsOf
<1> QED
  BY <1>1 DEF OnlyFails, Told, Item, ActiveDirectoryItem, AttributeItem, Supported

LEMMA LockoutPolicyItemTells ==
  ASSUME NEW os, NEW c, OnlyFails("lockoutpolicy", os, c)
  PROVE  Told(LockoutPolicyItem(os))
<1>1. CallsOf("lockoutpolicy") = {"force", "lockout"}
  BY DEF CallsOf
<1>2. FALSE
  BY <1>1 DEF OnlyFails, PassedOver, LeftOut
<1> QED
  BY <1>2

LEMMA PasswordPolicyItemTells ==
  ASSUME NEW os, NEW c, OnlyFails("passwordpolicy", os, c)
  PROVE  Told(PasswordPolicyItem(os))
<1>1. CallsOf("passwordpolicy") = {"modals", "export"}
  BY DEF CallsOf
<1>2. c \in {"export"}
  BY <1>1 DEF OnlyFails, PassedOver, LeftOut
<1>3. c = "export" => os.wmi = <<>>
  BY DEF OnlyFails, Skipped
<1> QED
  BY <1>2, <1>1, <1>3 DEF OnlyFails, Told, ItemThrows, Item, PasswordPolicyItem

LEMMA AuditEventPolicyItemTells ==
  ASSUME NEW os, NEW c, OnlyFails("auditeventpolicy", os, c)
  PROVE  Told(AuditEventPolicyItem(os, os.elements))
<1>1. CallsOf("auditeventpolicy") = {"policy"}
  BY DEF CallsOf
<1> QED
  BY <1>1 DEF OnlyFails, Told, ItemThrows, Item, AuditEventPolicyItem

LEMMA AuditSubcategoriesTells ==
  ASSUME NEW os, NEW c, OnlyFails("auditsubcategories", os, c)
  PROVE  Told(AuditSubcategories(os, os.elements))
<1>1. CallsOf("auditsubcategories") = {"policy", "categories", "subcategories", "query"}
  BY DEF CallsOf
<1>2. c # "policy" => os.auditing
  BY DEF OnlyFails, Skipped
<1> QED
  BY <1>1, <1>2 DEF OnlyFails, Told, ItemThrows, Item, AuditSubcategories

LEMMA ServiceItemTells ==
  ASSUME NEW os, NEW c, OnlyFails("services", os, c)
  PROVE  Told(ServiceItem(os))
<1>1. CallsOf("services") = {"open", "config", "description", "status"}
  BY DEF CallsOf
<1>2. CASE c \in {"open", "status"}
  BY <1>1, <1>2 DEF OnlyFails, Told, Item, ServiceItem
<1>3. CASE c = "config"
  <2>1. /\ ServiceItem(os).kind = "item"
        /\ "display_name" \in DOMAIN ServiceItem(os).elements
        /\ ServiceItem(os).elements["display_name"] =
             Element(os.config, ByAnswer("exists", "does not exist", "error"))
    BY <1>3, <1>1 DEF OnlyFails, Item, ServiceItem
  <2>2. os.config = "fails"
    BY <1>3 DEF OnlyFails
  <2>3. Element(os.config, ByAnswer("exists", "does not exist", "error")) = "error"
    BY <2>2 DEF Element, ByAnswer
  <2> QED
    BY <2>1, <2>3 DEF Told
<1>4. CASE c = "description"
  <2>1. /\ ServiceItem(os).kind = "item"
        /\ "description" \in DOMAIN ServiceItem(os).elements
        /\ ServiceItem(os).elements["description"] =
             Element(os.description, ByAnswer("exists", "does not exist", "error"))
    BY <1>4, <1>1 DEF OnlyFails, Item, ServiceItem
  <2>2. os.description = "fails"
    BY <1>4 DEF OnlyFails
  <2>3. Element(os.description, ByAnswer("exists", "does not exist", "error")) = "error"
    BY <2>2 DEF Element, ByAnswer
  <2> QED
    BY <2>1, <2>3 DEF Told
<1> QED
  BY <1>2, <1>3, <1>4, <1>1 DEF OnlyFails

LEMMA RegistryItemTells ==
  ASSUME NEW os, NEW c, OnlyFails("registry", os, c)
  PROVE  Told(RegistryItem(os))
<1>1. CallsOf("registry") = {"key", "name", "time"}
  BY DEF CallsOf
<1> QED
  BY <1>1 DEF OnlyFails, Told, Item, RegistryItem

LEMMA WinFileItemTells ==
  ASSUME NEW os, NEW c, OnlyFails("winfile", os, c)
  PROVE  Told(WinFileItem(os))
<1>1. CallsOf("winfile") = {"open", "owner", "attributes", "type", "checksum", "version"}
  BY DEF CallsOf
<1>2. c \in {"version", "checksum"} => ~ os.directory
  BY DEF OnlyFails, Skipped
<1>3. CASE c \in {"open", "attributes", "type", "checksum"}
  BY <1>1, <1>3, <1>2 DEF OnlyFails, Told, ItemThrows, Item, WinFileItem
<1>4. CASE c = "owner"
  <2>1. /\ WinFileItem(os).kind = "item"
        /\ "owner" \in DOMAIN WinFileItem(os).elements
        /\ WinFileItem(os).elements["owner"] =
             Element(os.owner, ByAnswer("exists", "error", "error"))
    BY <1>4, <1>1, <1>2 DEF OnlyFails, Item, WinFileItem
  <2>2. os.owner = "fails"
    BY <1>4 DEF OnlyFails
  <2>3. Element(os.owner, ByAnswer("exists", "error", "error")) = "error"
    BY <2>2 DEF Element, ByAnswer
  <2> QED
    BY <2>1, <2>3 DEF Told
<1>5. CASE c = "version"
  <2>1. /\ WinFileItem(os).kind = "item"
        /\ "version" \in DOMAIN WinFileItem(os).elements
        /\ WinFileItem(os).elements["version"] =
             Element(os.version, ByAnswer("exists", "does not exist", "error"))
    BY <1>5, <1>1, <1>2 DEF OnlyFails, Item, WinFileItem
  <2>2. os.version = "fails"
    BY <1>5 DEF OnlyFails
  <2>3. Element(os.version, ByAnswer("exists", "does not exist", "error")) = "error"
    BY <2>2 DEF Element, ByAnswer
  <2> QED
    BY <2>1, <2>3 DEF Told
<1> QED
  BY <1>3, <1>4, <1>5, <1>1 DEF OnlyFails

\* So it is for every probe; those whose items are read from one list make no call.
LEMMA UnixItemTells ==
  ASSUME NEW p \in UnixItems, NEW os, NEW c, OnlyFails(p, os, c)
  PROVE  Told(UnixItem(p, os))
<1>1. CASE p = "file"
  <2>1. Told(FileItem(os))
    BY <1>1, FileItemTells
  <2> QED
    BY <2>1, <1>1 DEF UnixItem
<1>2. CASE p = "xmlfilecontent"
  <2>1. Told(EvaluateXpath(os))
    BY <1>2, EvaluateXpathTells
  <2> QED
    BY <2>1, <1>2 DEF UnixItem
<1>3. CASE p = "uname"
  <2>1. Told(UnameItem(os))
    BY <1>3, UnameItemTells
  <2> QED
    BY <2>1, <1>3 DEF UnixItem
<1>4. CASE p = "process"
  <2>1. Told(ProcessItem(os))
    BY <1>4, ProcessItemTells
  <2> QED
    BY <2>1, <1>4 DEF UnixItem
<1>5. CASE p = "process58"
  <2>1. Told(Process58Item(os))
    BY <1>5, Process58ItemTells
  <2> QED
    BY <2>1, <1>5 DEF UnixItem
<1>6. CASE p = "solarisprocess"
  <2>1. Told(SolarisProcessItem(os))
    BY <1>6, SolarisProcessItemTells
  <2> QED
    BY <2>1, <1>6 DEF UnixItem
<1>7. CASE p = "solarisprocess58"
  <2>1. Told(SolarisProcess58Item(os))
    BY <1>7, SolarisProcess58ItemTells
  <2> QED
    BY <2>1, <1>7 DEF UnixItem
<1>8. CASE p = "macprocess"
  <2>1. Told(MacProcessItem(os))
    BY <1>8, MacProcessItemTells
  <2> QED
    BY <2>1, <1>8 DEF UnixItem
<1>9. CASE p = "macprocess58"
  <2>1. Told(MacProcess58Item(os))
    BY <1>9, MacProcess58ItemTells
  <2> QED
    BY <2>1, <1>9 DEF UnixItem
<1>10. p \notin {"shadow", "interface", "inetd"}
  <2>1. SUFFICES ASSUME p \in {"shadow", "interface", "inetd"} PROVE FALSE
    OBVIOUS
  <2>2. CallsOf(p) = {}
    BY <2>1 DEF CallsOf
  <2> QED
    BY <2>2 DEF OnlyFails
<1> QED
  BY <1>1, <1>2, <1>3, <1>4, <1>5, <1>6, <1>7, <1>8, <1>9, <1>10 DEF UnixItems

LEMMA LinuxItemTells ==
  ASSUME NEW p \in LinuxItems, NEW os, NEW c, OnlyFails(p, os, c)
  PROVE  Told(LinuxItem(p, os))
<1>1. CASE p = "dpkginfo"
  <2>1. Told(DPKGItem(os))
    BY <1>1, DPKGItemTells
  <2> QED
    BY <2>1, <1>1 DEF LinuxItem
<1>2. CASE p = "rpminfo"
  <2>1. Told(RPMInfoItem(os))
    BY <1>2, RPMInfoItemTells
  <2> QED
    BY <2>1, <1>2 DEF LinuxItem
<1>3. CASE p = "rpmverify"
  <2>1. Told(RPMVerifyItem(os))
    BY <1>3, RPMVerifyItemTells
  <2> QED
    BY <2>1, <1>3 DEF LinuxItem
<1>4. CASE p = "rpmverifyfile"
  <2>1. Told(RPMVerifyFileItem(os))
    BY <1>4, RPMVerifyFileItemTells
  <2> QED
    BY <2>1, <1>4 DEF LinuxItem
<1>5. CASE p = "rpmverifypackage"
  <2>1. Told(RPMVerifyPackageItem(os))
    BY <1>5, RPMVerifyPackageItemTells
  <2> QED
    BY <2>1, <1>5 DEF LinuxItem
<1>6. CASE p = "iflisteners"
  <2>1. Told(PacketListener(os))
    BY <1>6, PacketListenerTells
  <2> QED
    BY <2>1, <1>6 DEF LinuxItem
<1>7. CASE p = "partition"
  <2>1. Told(PartitionItem(os))
    BY <1>7, PartitionItemTells
  <2> QED
    BY <2>1, <1>7 DEF LinuxItem
<1>8. CASE p = "inetlisteningservers"
  <2>1. Told(InetListeningServerItem(os))
    BY <1>8, InetListeningServerItemTells
  <2> QED
    BY <2>1, <1>8 DEF LinuxItem
<1>9. CASE p = "selinuxcontext of pids"
  <2>1. Told(SelinuxContextItem(os))
    BY <1>9, SelinuxContextItemTells
  <2> QED
    BY <2>1, <1>9 DEF LinuxItem
<1>10. CASE p = "selinuxboolean"
  <2>1. Told(SelinuxBooleanItem(os))
    BY <1>10, SelinuxBooleanItemTells
  <2> QED
    BY <2>1, <1>10 DEF LinuxItem
<1>11. CASE p = "accountinfo"
  <2>1. Told(AccountInfoItem(os))
    BY <1>11, AccountInfoItemTells
  <2> QED
    BY <2>1, <1>11 DEF LinuxItem
<1>12. CASE p = "pwpolicy59"
  <2>1. Told(PwPolicy59Item(os))
    BY <1>12, PwPolicy59ItemTells
  <2> QED
    BY <2>1, <1>12 DEF LinuxItem
<1>13. CASE p = "isainfo"
  <2>1. Told(IsainfoItem(os))
    BY <1>13, IsainfoItemTells
  <2> QED
    BY <2>1, <1>13 DEF LinuxItem
<1>14. CASE p = "patch54"
  <2>1. Told(PatchPackage(os))
    BY <1>14, PatchPackageTells
  <2> QED
    BY <2>1, <1>14 DEF LinuxItem
<1>15. p \notin {"inetlisteningserver510", "nvram"}
  <2>1. SUFFICES ASSUME p \in {"inetlisteningserver510", "nvram"} PROVE FALSE
    OBVIOUS
  <2>2. CallsOf(p) = {}
    BY <2>1 DEF CallsOf
  <2> QED
    BY <2>2 DEF OnlyFails
<1> QED
  BY <1>1, <1>2, <1>3, <1>4, <1>5, <1>6, <1>7, <1>8, <1>9, <1>10, <1>11, <1>12, <1>13, <1>14, <1>15 DEF
                                                                                                        LinuxItems

LEMMA WindowsItemTells ==
  ASSUME NEW p \in WindowsItems, NEW os, NEW c, OnlyFails(p, os, c)
  PROVE  Told(WindowsItem(p, os))
<1>1. CASE p = "winprocess"
  <2>1. Told(WinProcessItem(os))
    BY <1>1, WinProcessItemTells
  <2> QED
    BY <2>1, <1>1 DEF WindowsItem
<1>2. CASE p = "winprocess58"
  <2>1. Told(WinProcess58Item(os))
    BY <1>2, WinProcess58ItemTells
  <2> QED
    BY <2>1, <1>2 DEF WindowsItem
<1>3. CASE p = "dnscache"
  <2>1. Told(DNSCacheItem(os))
    BY <1>3, DNSCacheItemTells
  <2> QED
    BY <2>1, <1>3 DEF WindowsItem
<1>4. CASE p = "group"
  <2>1. Told(GroupItem(os))
    BY <1>4, GroupItemTells
  <2> QED
    BY <2>1, <1>4 DEF WindowsItem
<1>5. CASE p = "user"
  <2>1. Told(UserItem(os))
    BY <1>5, UserItemTells
  <2> QED
    BY <2>1, <1>5 DEF WindowsItem
<1>6. CASE p = "usersid"
  <2>1. Told(UserSidItem(os))
    BY <1>6, UserSidItemTells
  <2> QED
    BY <2>1, <1>6 DEF WindowsItem
<1>7. CASE p = "serviceeffectiverights"
  <2>1. Told(RightsItem(os))
    BY <1>7, RightsItemTells
  <2> QED
    BY <2>1, <1>7 DEF WindowsItem
<1>8. CASE p = "fileauditedpermissions"
  <2>1. Told(AuditItem(os))
    BY <1>8, AuditAuditItemTells
  <2> QED
    BY <2>1, <1>8 DEF WindowsItem
<1>9. CASE p = "accesstoken"
  <2>1. Told(AccessTokenItem(os))
    BY <1>9, AccessTokenItemTells
  <2> QED
    BY <2>1, <1>9 DEF WindowsItem
<1>10. CASE p = "wmi"
  <2>1. Told(WMIItem(os))
    BY <1>10, WMIItemTells
  <2> QED
    BY <2>1, <1>10 DEF WindowsItem
<1>11. CASE p = "wmi57"
  <2>1. Told(WMI57Item(os))
    BY <1>11, WMI57ItemTells
  <2> QED
    BY <2>1, <1>11 DEF WindowsItem
<1>12. CASE p = "activedirectory"
  <2>1. Told(ActiveDirectoryItem(os))
    BY <1>12, ActiveDirectoryItemTells
  <2> QED
    BY <2>1, <1>12 DEF WindowsItem
<1>13. CASE p = "lockoutpolicy"
  <2>1. Told(LockoutPolicyItem(os))
    BY <1>13, LockoutPolicyItemTells
  <2> QED
    BY <2>1, <1>13 DEF WindowsItem
<1>14. CASE p = "passwordpolicy"
  <2>1. Told(PasswordPolicyItem(os))
    BY <1>14, PasswordPolicyItemTells
  <2> QED
    BY <2>1, <1>14 DEF WindowsItem
<1>15. CASE p = "auditeventpolicy"
  <2>1. Told(AuditEventPolicyItem(os, os.elements))
    BY <1>15, AuditEventPolicyItemTells
  <2> QED
    BY <2>1, <1>15 DEF WindowsItem
<1>16. CASE p = "auditsubcategories"
  <2>1. Told(AuditSubcategories(os, os.elements))
    BY <1>16, AuditSubcategoriesTells
  <2> QED
    BY <2>1, <1>16 DEF WindowsItem
<1>17. CASE p = "services"
  <2>1. Told(ServiceItem(os))
    BY <1>17, ServiceItemTells
  <2> QED
    BY <2>1, <1>17 DEF WindowsItem
<1>18. CASE p = "registry"
  <2>1. Told(RegistryItem(os))
    BY <1>18, RegistryItemTells
  <2> QED
    BY <2>1, <1>18 DEF WindowsItem
<1>19. CASE p = "winfile"
  <2>1. Told(WinFileItem(os))
    BY <1>19, WinFileItemTells
  <2> QED
    BY <2>1, <1>19 DEF WindowsItem
<1>20. p \notin {"wininterface", "sharedresource"}
  <2>1. SUFFICES ASSUME p \in {"wininterface", "sharedresource"} PROVE FALSE
    OBVIOUS
  <2>2. CallsOf(p) = {}
    BY <2>1 DEF CallsOf
  <2> QED
    BY <2>2 DEF OnlyFails
<1> QED
  BY <1>1, <1>2, <1>3, <1>4, <1>5, <1>6, <1>7, <1>8, <1>9, <1>10, <1>11, <1>12, <1>13, <1>14, <1>15, <1>16, <1>17, <1>18, <1>19, <1>20 DEF
                                                                                                                                           WindowsItems

LEMMA FilledItemTells ==
  ASSUME NEW p \in UnixItems \cup LinuxItems \cup WindowsItems, NEW os, NEW c,
         OnlyFails(p, os, c)
  PROVE  Told(FilledItem(p, os))
<1>1. CASE p \in UnixItems
  <2>1. p \notin LinuxItems \cup WindowsItems
    BY <1>1 DEF UnixItems, LinuxItems, WindowsItems
  <2>2. FilledItem(p, os) = UnixItem(p, os)
    BY <1>1, <2>1 DEF FilledItem
  <2> QED
    BY <1>1, <2>2, UnixItemTells
<1>2. CASE p \in LinuxItems
  <2>1. p \notin UnixItems \cup WindowsItems
    BY <1>2 DEF UnixItems, LinuxItems, WindowsItems
  <2>2. FilledItem(p, os) = LinuxItem(p, os)
    BY <1>2, <2>1 DEF FilledItem
  <2> QED
    BY <1>2, <2>2, LinuxItemTells
<1>3. CASE p \in WindowsItems
  <2>1. p \notin UnixItems \cup LinuxItems
    BY <1>3 DEF UnixItems, LinuxItems, WindowsItems
  <2>2. FilledItem(p, os) = WindowsItem(p, os)
    BY <1>3, <2>1 DEF FilledItem
  <2> QED
    BY <1>3, <2>2, WindowsItemTells
<1> QED
  BY <1>1, <1>2, <1>3

-----------------------------------------------------------------------------
\* An item that is filled is filled from answers that its probe may get.
FilledInv ==
  /\ probe \in Probes
  /\ calls # NoCalls =>
       /\ probe \in UnixItems \cup LinuxItems \cup WindowsItems \cup {"runlevel"}
       /\ calls \in AnswersOf(probe)
       /\ built \in FilledItems(probe, calls)

LEMMA InitFilled == ProbingInit => FilledInv
  BY DEF ProbingInit, FilledInv

LEMMA NextFilled == FilledInv /\ [ProbingNext]_probingVars => FilledInv'
<1> SUFFICES ASSUME FilledInv, [ProbingNext]_probingVars PROVE FilledInv'
  OBVIOUS
<1>1. ASSUME UNCHANGED <<probe, calls, built>> PROVE FilledInv'
  BY <1>1 DEF FilledInv
<1>2. ASSUME NEW a \in AnswersOf(probe), Fill(a) PROVE FilledInv'
  BY <1>2 DEF Fill, FilledInv
<1>3. ASSUME NEW o \in ObjectsOf(probe), CollectListed(o) PROVE FilledInv'
  BY <1>1, <1>3 DEF CollectListed
<1>4. ASSUME NEW o \in ObjectsOf(probe), Collect(o) PROVE FilledInv'
  BY <1>1, <1>4 DEF Collect
<1>5. ASSUME NEW q \in SearchesOf(probe), Search(q) PROVE FilledInv'
  BY <1>1, <1>5 DEF Search
<1>6. ASSUME NEW q \in SearchesOf(probe), Work(q) PROVE FilledInv'
  BY <1>1, <1>6 DEF Work
<1>7. ASSUME Continue PROVE FilledInv'
  BY <1>1, <1>7 DEF Continue
<1>8. ASSUME Change PROVE FilledInv'
  BY <1>1, <1>8 DEF Change
<1>9. ASSUME UNCHANGED probingVars PROVE FilledInv'
  BY <1>1, <1>9 DEF probingVars
<1> QED
  BY <1>2, <1>3, <1>4, <1>5, <1>6, <1>7, <1>8, <1>9 DEF ProbingNext

\* The item sees each answer, and what is otherwise so where no call has its name.
LEMMA JoinedIsBoth ==
  ASSUME NEW first, NEW more
  PROVE  /\ \A x \in DOMAIN first : Joined(first, more)[x] = first[x]
         /\ \A x \in DOMAIN more \ DOMAIN first : Joined(first, more)[x] = more[x]
  BY DEF Joined

LEMMA OneFailure ==
  ASSUME NEW p \in Probes, NEW a \in AnswersOf(p), NEW c \in DOMAIN a.answers,
         a.answers[c] = "fails", <<p, c>> \notin PassedOver \cup LeftOut,
         ~ Skipped(p, c, a.rest),
         \A d \in DOMAIN a.answers \ {c} : a.answers[d] = "ok"
  PROVE  OnlyFails(p, Joined(a.answers, a.rest), c)
<1> DEFINE os == Joined(a.answers, a.rest)
<1>1. DOMAIN a.answers = CallsOf(p) /\ DecidedBy(p) \subseteq DOMAIN a.rest
  BY AnswersAssumption
<1>2. \A x \in CallsOf(p) : os[x] = a.answers[x]
  BY <1>1, JoinedIsBoth
<1>3. \A x \in DecidedBy(p) \ CallsOf(p) : os[x] = a.rest[x]
  BY <1>1, JoinedIsBoth
<1>4. ~ Skipped(p, c, os)
  <2>1. p = "file" => os.linux = a.rest.linux
    <3>1. p = "file" => "linux" \in DecidedBy(p) \ CallsOf(p)
      BY DEF DecidedBy, CallsOf
    <3> QED
      BY <3>1, <1>3
  <2>2. p = "winfile" => os.directory = a.rest.directory
    <3>1. p = "winfile" => "directory" \in DecidedBy(p) \ CallsOf(p)
      BY DEF DecidedBy, CallsOf
    <3> QED
      BY <3>1, <1>3
  <2>3. p = "passwordpolicy" => os.wmi = a.rest.wmi
    <3>1. p = "passwordpolicy" => "wmi" \in DecidedBy(p) \ CallsOf(p)
      BY DEF DecidedBy, CallsOf
    <3> QED
      BY <3>1, <1>3
  <2>4. p = "auditsubcategories" => os.auditing = a.rest.auditing
    <3>1. p = "auditsubcategories" => "auditing" \in DecidedBy(p) \ CallsOf(p)
      BY DEF DecidedBy, CallsOf
    <3> QED
      BY <3>1, <1>3
  <2> QED
    BY <2>1, <2>2, <2>3, <2>4 DEF Skipped
<1> QED
  BY <1>1, <1>2, <1>4 DEF OnlyFails

LEMMA FilledIsTold == FilledInv => FailureIsTold
<1> SUFFICES ASSUME FilledInv, NEW c \in DOMAIN calls.answers,
                    calls.answers[c] = "fails", <<probe, c>> \notin PassedOver \cup LeftOut,
                    ~ NotMade(c),
                    \A d \in DOMAIN calls.answers \ {c} : calls.answers[d] = "ok"
             PROVE  Told(built)
  BY DEF FailureIsTold
<1> DEFINE os == Joined(calls.answers, calls.rest)
<1>1. calls # NoCalls
  BY DEF NoCalls
<1>2. /\ probe \in Probes /\ calls \in AnswersOf(probe)
      /\ probe \in UnixItems \cup LinuxItems \cup WindowsItems \cup {"runlevel"}
      /\ built \in FilledItems(probe, calls)
  BY <1>1 DEF FilledInv
<1>3. ~ Skipped(probe, c, calls.rest)
  BY DEF NotMade, Skipped
<1>4. OnlyFails(probe, os, c)
  BY <1>2, <1>3, OneFailure
<1>5. probe # "runlevel"
  <2>1. probe = "runlevel" => c = "stat"
    BY <1>4 DEF OnlyFails, CallsOf
  <2>2. <<"runlevel", "stat">> \in PassedOver
    BY DEF PassedOver
  <2> QED
    BY <2>1, <2>2
<1>6. built = FilledItem(probe, os)
  BY <1>2, <1>5 DEF FilledItems
<1> QED
  BY <1>2, <1>4, <1>5, <1>6, FilledItemTells

\* A call that fails, the others being well, leaves an error in the item or is an
\* exception, but for the failures that are named (the code after each call of the probes).
THEOREM FailuresAreTold == ProbingSpec => []FailureIsTold
<1>1. ProbingInit => FilledInv
  BY InitFilled
<1>2. FilledInv /\ [ProbingNext]_probingVars => FilledInv'
  BY NextFilled
<1>3. FilledInv => FailureIsTold
  BY FilledIsTold
<1> QED
  BY <1>1, <1>2, <1>3, PTL DEF ProbingSpec

-----------------------------------------------------------------------------
\* An absence is real: no item says of something that is there that it does not exist.

\* AbsenceIsReal, said of any answer to an object.
ReallyAbsent(p, o, s, things, t) ==
  \/ \E i \in DOMAIN o \cap DOMAIN t :
       \/ \E v \in o[i].matches \cup Sought(o[i]) : s.read[v] = "absent"
       \/ \E v \in Sought(o[i]) : \A u \in Alike(p, o, things) :
            u[i] # v \/ \E j \in 1 .. i - 1 : t[j] \notin {Nothing, u[j]}
  \/ Checks(o)
IsAbsence(x) == x.status = "does not exist"
AbsencesAreReal(p, o, s, things, result) ==
  \A x \in result.items : IsAbsence(x) => ReallyAbsent(p, o, s, things, x.thing)
NoAbsences(result) == \A x \in result.items : ~ IsAbsence(x)

\* Outcomes that say of nothing that it does not exist.
LEMMA ThrowsNothing == Throws.items = {} /\ NoAbsences(Throws)
  BY DEF Throws, NoAbsences, IsAbsence

\* Items that are made with one status have that status.
LEMMA AllHaveTheStatus ==
  ASSUME NEW status, NEW things
  PROVE  /\ \A x \in All(status, things) : x.status = status /\ x.thing \in things
         /\ Collects(All(status, things)).items = All(status, things)
  BY DEF All, Collects

LEMMA OnlyWhatExists ==
  \A things : NoAbsences(Collects(All("exists", things)))
  BY AllHaveTheStatus DEF NoAbsences, IsAbsence

\* Variables and the environment of a process are reported as they are.
LEMMA NoneOfIndependent ==
  ASSUME NEW o, NEW s
  PROVE  /\ NoAbsences(Variable(o, s)) /\ NoAbsences(EnvironmentVariable58(o, s))
         /\ NoAbsences(OwnEnvironment(o, s))
<1>1. NoAbsences(Variable(o, s))
  BY ThrowsNothing, OnlyWhatExists DEF Variable
<1>2. NoAbsences(EnvironmentVariable58(o, s))
  <2> DEFINE pids == IF o[1].op = "equals" THEN o[1].values \cap o[1].matches
                      ELSE Chosen(o[1], Firsts(s.there))
             OfPid(pid) ==
               IF s.read[pid] = "fails" THEN {Failed(<<pid, Nothing>>)}
               ELSE IF s.read[pid] = "absent" \/ pid \notin Firsts(s.there) THEN {}
               ELSE All("exists", {<<pid, n>> : n \in
                           Seconds(s.there, pid) \cap o[2].matches})
  <2>1. ASSUME NEW pid, NEW x \in OfPid(pid) PROVE ~ IsAbsence(x)
    <3>1. CASE s.read[pid] = "fails"
      <4>1. OfPid(pid) = {Failed(<<pid, Nothing>>)}
        BY <3>1
      <4>2. x = Failed(<<pid, Nothing>>)
        BY <2>1, <4>1
      <4> QED
        BY <4>2 DEF Failed, IsAbsence
    <3>2. CASE s.read[pid] # "fails"
      BY <2>1, <3>2, AllHaveTheStatus DEF IsAbsence
    <3> QED
      BY <3>1, <3>2
  <2>2. NoAbsences(Collects(UNION {OfPid(pid) : pid \in pids}))
    BY <2>1 DEF NoAbsences, IsAbsence, Collects
  <2> QED
    BY <2>2, ThrowsNothing DEF EnvironmentVariable58
<1>3. NoAbsences(OwnEnvironment(o, s))
  BY OnlyWhatExists DEF OwnEnvironment
<1> QED
  BY <1>1, <1>2, <1>3

\* A scan reports what there is and what failed.
LEMMA NoneOfScan ==
  ASSUME NEW o, NEW s
  PROVE  NoAbsences(Scan(o, s)) /\ NoAbsences(Inetd(o, s))
  BY ThrowsNothing, OnlyWhatExists DEF Inetd, Scan

\* Verified packages are reported as they are.
LEMMA NoneOfPackages ==
  ASSUME NEW o, NEW s, NEW skipped
  PROVE  NoAbsences(RPMVerify(o, skipped, s)) /\ NoAbsences(RPMVerifyPackage(o, s))
<1>1. NoAbsences(RPMVerify(o, skipped, s))
  <2>1. \A names : NoAbsences(PackagesByName(names, s))
    BY ThrowsNothing, OnlyWhatExists DEF PackagesByName
  <2> DEFINE considered ==
        IF o[1].op = "equals" THEN PackagesByName(o[1].values, s)
        ELSE IF o[2].op = "equals"
        THEN PackagesByName(GetPackagesForFilepaths(o[2].values, s), s)
        ELSE Collects(All("exists", s.there))
  <2>2. NoAbsences(considered)
    BY <2>1, OnlyWhatExists
  <2>3. NoAbsences(Collects({i \in considered.items :
                               i.thing \notin skipped /\ Analyze(o, i.thing)}))
    BY <2>2 DEF NoAbsences, IsAbsence, Collects
  <2> QED
    BY <2>3, ThrowsNothing DEF RPMVerify
<1>2. NoAbsences(RPMVerifyPackage(o, s))
  BY ThrowsNothing, OnlyWhatExists DEF RPMVerifyPackage
<1> QED
  BY <1>1, <1>2

\* Booleans of the policy are reported as they are.
LEMMA NoneOfBooleans ==
  ASSUME NEW o, NEW s, NEW result \in SelinuxBoolean(o, s)
  PROVE  NoAbsences(result)
<1>1. result = Throws \/ \E names : result = Collects(All("exists", Single(names)))
  BY DEF SelinuxBoolean
<1> QED
  BY <1>1, ThrowsNothing, OnlyWhatExists

\* Lists of sockets, partitions and patches are filtered, and what is left exists.
LEMMA NoneOnSnapshots ==
  ASSUME NEW o, NEW things, NEW b
  PROVE  /\ NoAbsences(Interface(o, things)) /\ NoAbsences(RunLevel(o, things))
         /\ NoAbsences(IfListeners(o, things)) /\ NoAbsences(Partition(o, things))
         /\ NoAbsences(Patch54(o, b, things, {}, {}, FALSE))
         /\ NoAbsences(InetListeningServer510(o, things)) /\ NoAbsences(Nvram(o, things))
         /\ NoAbsences(WinProcess58(o, things))
<1>1. NoAbsences(Interface(o, things)) /\ NoAbsences(RunLevel(o, things))
  BY ThrowsNothing, OnlyWhatExists DEF Interface, RunLevel
<1>2. NoAbsences(IfListeners(o, things)) /\ NoAbsences(Partition(o, things))
  BY ThrowsNothing, OnlyWhatExists DEF IfListeners, Partition
<1>3. NoAbsences(Patch54(o, b, things, {}, {}, FALSE))
  BY ThrowsNothing, OnlyWhatExists DEF Patch54
<1>4. NoAbsences(InetListeningServer510(o, things)) /\ NoAbsences(Nvram(o, things))
  BY ThrowsNothing, OnlyWhatExists DEF InetListeningServer510, Nvram
<1>5. NoAbsences(WinProcess58(o, things))
  BY ThrowsNothing, OnlyWhatExists DEF WinProcess58
<1> QED
  BY <1>1, <1>2, <1>3, <1>4, <1>5

\* Each of some names is asked for, and only one that is gone has no item or is an error.
LEMMA AnswersAreAnswers ==
  ASSUME NEW s, s.read \in [Names -> Answers], NEW n \in Names, NEW names
  PROVE  AnswerFor(n, names, s) \in Answers
  BY DEF AnswerFor, Answers

\* Only for what is gone an answer is that it does not exist.
IsItem(x) == x = [status |-> x.status, thing |-> x.thing]
OnlyForAbsent(result) == result["ok"] # "does not exist" /\ result["fails"] # "does not exist"
TellsAbsence(result) == result["absent"] = "does not exist"
Gone(n, names, s) == n \notin names \/ s.read[n] = "absent"
LEMMA CommonAnswers ==
  /\ OnlyForAbsent(ByAnswer("exists", "does not exist", "error"))
  /\ OnlyForAbsent(ByAnswer("exists", "does not exist", "throws"))
  /\ OnlyForAbsent(ByAnswer("exists", "error", "error"))
  /\ OnlyForAbsent(ByAnswer("exists", "none", "throws"))
  /\ OnlyForAbsent(ByAnswer("exists", "exists", "throws"))
  /\ ~ TellsAbsence(ByAnswer("exists", "error", "error"))
  /\ ~ TellsAbsence(ByAnswer("exists", "none", "throws"))
  /\ ~ TellsAbsence(ByAnswer("exists", "exists", "throws"))
  BY DEF OnlyForAbsent, TellsAbsence, ByAnswer

\* Reading each of some things by its first name, by the answer.
ReadByName(things, names, s, result) ==
  ReadEach(things, LAMBDA t : AnswerFor(t[1], names, s), result)

\* A reading is an absence only if the name was gone when it was read.
LEMMA ReadingByName ==
  ASSUME NEW s, NEW names, NEW things, NEW result, NEW x,
         s.read \in [Names -> Answers], \A t \in things : t[1] \in Names,
         OnlyForAbsent(result),
         x \in ReadByName(things, names, s, result).items
  PROVE  /\ x.thing \in things /\ IsItem(x)
         /\ IsAbsence(x) => TellsAbsence(result) /\ Gone(x.thing[1], names, s)
<1> DEFINE A(t) == AnswerFor(t[1], names, s)
<1>3. ASSUME NEW t \in things
      PROVE  /\ A(t) \in {"ok", "absent", "fails"}
             /\ A(t) = "absent" => t[1] \notin names \/ s.read[t[1]] = "absent"
  <2>1. t[1] \in Names
    BY <1>3
  <2>2. s.read[t[1]] \in {"ok", "absent", "fails"}
    BY <2>1 DEF Answers
  <2> QED
    BY <2>2 DEF AnswerFor
<1> HIDE DEF A
<1>4. x \in (IF \E t \in things : result[A(t)] = "throws" THEN Throws
            ELSE Collects({[status |-> result[A(t)], thing |-> t] :
                             t \in {u \in things : result[A(u)] # "none"}})).items
  BY DEF ReadByName, ReadEach, A
<1>5. PICK t \in things : x = [status |-> result[A(t)], thing |-> t]
  BY <1>4 DEF Throws, Collects
<1>6. x.thing = t /\ x.status = result[A(t)]
  BY <1>5
<1> QED
  BY <1>3, <1>5, <1>6 DEF OnlyForAbsent, IsAbsence, TellsAbsence, Gone, IsItem

\* The objects of a probe and the things on a system.
LEMMA EntityFacts ==
  ASSUME NEW p, NEW o, IsObject(p, o), NEW i \in DOMAIN o
  PROVE  /\ o[i].matches \subseteq Names /\ o[i].values \subseteq Names
         /\ o[i].nil => i \in MayBeNil(p) /\ o[i].values = {}
         /\ ~ o[i].nil => o[i].var \/ o[i].values # {}
         /\ Sought(o[i]) \subseteq o[i].values
         /\ o[i].op = "equals" => Sought(o[i]) = o[i].values
         /\ ~ Checks(o) /\ o[i].op = "equals" => o[i].nil \/ o[i].matches = o[i].values
         /\ DOMAIN o = 1 .. Len(o) /\ Len(o) \in Nat
<1>1. o \in Seq(Entity)
  BY DEF IsObject
<1>2. o[i] \in Entity
  BY <1>1
<1>3. DOMAIN o = 1 .. Len(o) /\ Len(o) \in Nat
  BY <1>1
<1>4. IF o[i].nil THEN i \in MayBeNil(p) /\ o[i].values = {}
      ELSE o[i].var \/ o[i].values # {}
  BY DEF IsObject
<1>5. o[i].matches \subseteq Names /\ o[i].values \subseteq Names
  BY <1>2 DEF Entity
<1> QED
  BY <1>3, <1>4, <1>5 DEF Sought, Checks

Larger == OfFile \cup OnFiles \cup {"filehash58"} \cup TwoEntities \cup ThreeEntities
\* A probe that is not among those of more entities has one, and it is not nil.
LEMMA OneEntity ==
  ASSUME NEW p, p \notin Larger, NEW o, IsObject(p, o)
  PROVE  Len(o) = 1 /\ DOMAIN o = {1} /\ ~ o[1].nil
<1>1. ObjectLengths(p) = {1}
  BY DEF Larger, ObjectLengths
<1>2. Len(o) = 1 /\ o \in Seq(Entity)
  BY <1>1 DEF IsObject
<1>3. DOMAIN o = {1}
  BY <1>2
<1>4. MayBeNil(p) = {}
  BY DEF MayBeNil, Larger, TwoEntities, ThreeEntities
<1> QED
  BY <1>2, <1>3, <1>4 DEF IsObject

\* But for files, an absence is compared with all the things.
LEMMA AlikeThings ==
  ASSUME NEW p, p \notin OfFile \cup OnFiles \cup {"filehash58"}, NEW o, NEW things
  PROVE  Alike(p, o, things) = things
  BY DEF Alike

\* A name that is looked up and is not there, in the first place.
LEMMA AbsentFirst ==
  ASSUME NEW p, p \notin OfFile \cup OnFiles \cup {"filehash58"}, NEW o, NEW s, NEW things,
         NEW t, 1 \in DOMAIN o \cap DOMAIN t, NEW v \in Sought(o[1]),
         v \notin Firsts(things) \/ s.read[v] = "absent"
  PROVE  ReallyAbsent(p, o, s, things, t)
<1>1. CASE s.read[v] = "absent"
  BY <1>1 DEF ReallyAbsent
<1>2. CASE v \notin Firsts(things)
  <2>1. \A u \in Alike(p, o, things) : u[1] # v
    BY <1>2, AlikeThings DEF Firsts
  <2> QED
    BY <2>1 DEF ReallyAbsent
<1> QED
  BY <1>1, <1>2

\* A name that was asked for at one level and is gone makes an absence real.
LEMMA GoneAt ==
  ASSUME NEW p, NEW o, NEW s, NEW things, NEW t, NEW i \in DOMAIN o \cap DOMAIN t,
         NEW v \in o[i].matches \cup Sought(o[i]), s.read[v] = "absent"
  PROVE  ReallyAbsent(p, o, s, things, t)
  BY DEF ReallyAbsent

\* Each of some names is read, those that are looked up or those of a list.
LEMMA NamesRead ==
  ASSUME NEW p, NEW o, NEW s, NEW wanted, NEW result, NEW x,
         p \notin Larger, IsObject(p, o), IsSystem(p, s),
         \/ o[1].op = "equals" /\ wanted \subseteq o[1].values
         \/ wanted \subseteq Firsts(s.there) \cap o[1].matches,
         OnlyForAbsent(result),
         x \in ReadByName(Single(wanted), Firsts(s.there), s, result).items
  PROVE  /\ IsAbsence(x) =>
              \A t : 1 \in DOMAIN t => ReallyAbsent(p, o, s, s.there, t)
         /\ 1 \in DOMAIN x.thing /\ IsItem(x)
         /\ IsAbsence(x) => TellsAbsence(result)
<1>1. DOMAIN o = {1} /\ p \notin OfFile \cup OnFiles \cup {"filehash58"}
  BY OneEntity DEF Larger
<1>2. wanted \subseteq Names
  BY <1>1, EntityFacts
<1>3. \A t \in Single(wanted) : t[1] \in Names /\ t[1] \in wanted /\ 1 \in DOMAIN t
  <2>1. ASSUME NEW t \in Single(wanted) PROVE t[1] \in Names /\ t[1] \in wanted /\ 1 \in DOMAIN t
    <3>1. PICK n \in wanted : t = <<n>>
      BY <2>1 DEF Single
    <3> QED
      BY <3>1, <1>2 DEF Single
  <2> QED
    BY <2>1
<1>4. s.read \in [Names -> Answers]
  BY DEF IsSystem
<1>5. /\ x.thing \in Single(wanted) /\ IsItem(x)
      /\ IsAbsence(x) => TellsAbsence(result) /\ Gone(x.thing[1], Firsts(s.there), s)
  <2>1. \A t \in Single(wanted) : t[1] \in Names
    BY <1>3
  <2>2. x \in ReadByName(Single(wanted), Firsts(s.there), s, result).items
    OBVIOUS
  <2> QED
    BY <2>1, <2>2, <1>4, ReadingByName
<1>7. o[1].op = "equals" => Sought(o[1]) = o[1].values
  BY <1>1, EntityFacts
<1>6. ASSUME IsAbsence(x), NEW t, 1 \in DOMAIN t
      PROVE  ReallyAbsent(p, o, s, s.there, t)
  <2> DEFINE n == x.thing[1]
  <2>1. n \in wanted /\ (n \notin Firsts(s.there) \/ s.read[n] = "absent")
    BY <1>3, <1>5, <1>6 DEF Gone
  <2>2. CASE o[1].op = "equals" /\ wanted \subseteq o[1].values
    <3>1. n \in Sought(o[1])
      BY <2>1, <2>2, <1>7
    <3> QED
      BY <3>1, <2>1, <1>1, <1>6, AbsentFirst
  <2>3. CASE wanted \subseteq Firsts(s.there) \cap o[1].matches
    <3>1. s.read[n] = "absent" /\ n \in o[1].matches
      BY <2>1, <2>3
    <3> QED
      BY <3>1, <1>1, <1>6, GoneAt
  <2> QED
    BY <2>2, <2>3
<1> QED
  BY <1>3, <1>5, <1>6

\* Where nothing is an absence every absence is real.
LEMMA NoneAreReal ==
  ASSUME NEW p, NEW o, NEW s, NEW things, NEW result, NoAbsences(result)
  PROVE  AbsencesAreReal(p, o, s, things, result)
  BY DEF NoAbsences, AbsencesAreReal

\* Users of /etc/passwd.
LEMMA AbsencesOfPassword ==
  ASSUME NEW p \in {"password", "shadow"}, NEW o, IsObject(p, o), NEW s, IsSystem(p, s)
  PROVE  AbsencesAreReal(p, o, s, s.there, Password(o, s))
<1>1. p \notin Larger
  BY DEF Larger, OfFile, OnFiles, TwoEntities, ThreeEntities, OnNames, OnKeys, WithNil
<1>2. ASSUME NEW x \in Password(o, s).items, IsAbsence(x)
      PROVE  ReallyAbsent(p, o, s, s.there, x.thing)
  <2>1. CASE o[1].op = "equals"
    <3>1. Password(o, s) = ReadByName(Single(o[1].values), Firsts(s.there), s,
                                      ByAnswer("exists", "does not exist", "error"))
      BY <2>1 DEF Password, ReadByName
    <3> QED
      BY <3>1, <2>1, <1>1, <1>2, NamesRead, CommonAnswers
  <2>2. CASE o[1].op # "equals"
    <3>1. Password(o, s) \in {Throws, Scan(o, s)}
      BY <2>2 DEF Password
    <3> QED
      BY <3>1, <1>2, NoneOfScan, ThrowsNothing DEF NoAbsences
  <2> QED
    BY <2>1, <2>2
<1> QED
  BY <1>2 DEF AbsencesAreReal

\* Names that were asked for, or that a list has and that match.
LEMMA AbsencesOfNames ==
  ASSUME NEW p, NEW o, NEW s, NEW wanted, NEW result,
         p \notin Larger, IsObject(p, o), IsSystem(p, s), OnlyForAbsent(result),
         \/ o[1].op = "equals" /\ wanted \subseteq o[1].values
         \/ wanted \subseteq Firsts(s.there) \cap o[1].matches
  PROVE  AbsencesAreReal(p, o, s, s.there,
                         ReadByName(Single(wanted), Firsts(s.there), s, result))
  BY NamesRead DEF AbsencesAreReal

\* A variable of the environment that is looked up by name.
LEMMA AbsencesOfVariables ==
  ASSUME NEW p, NEW o, NEW s, p \notin Larger, IsObject(p, o), IsSystem(p, s)
  PROVE  AbsencesAreReal(p, o, s, s.there, EnvironmentVariable(o, s))
<1>1. AbsencesAreReal(p, o, s, s.there, Scan(o, [s EXCEPT !.list = "ok"]))
  BY NoneOfScan, NoneAreReal
<1>2. CASE o[1].op = "equals"
  <2>1. ASSUME NEW x \in LookUp(o[1], s).items, IsAbsence(x)
        PROVE  ReallyAbsent(p, o, s, s.there, x.thing)
    <3>1. \/ x \in All("exists", Single(o[1].values \cap Firsts(s.there)))
          \/ x \in All("does not exist", Single(o[1].values \ Firsts(s.there)))
      BY <2>1 DEF LookUp, Collects
    <3>6. x.thing \in Single(o[1].values \ Firsts(s.there))
      BY <3>1, <2>1, AllHaveTheStatus DEF IsAbsence
    <3>2. PICK n \in o[1].values \ Firsts(s.there) : x.thing = <<n>>
      BY <3>6 DEF Single
    <3>3. n \in Sought(o[1]) /\ n \notin Firsts(s.there)
      BY <3>2, <1>2 DEF Sought
    <3>4. 1 \in DOMAIN o /\ 1 \in DOMAIN x.thing
      BY <3>2, OneEntity
    <3>5. p \notin OfFile \cup OnFiles \cup {"filehash58"}
      BY DEF Larger
    <3> QED
      BY <3>3, <3>4, <3>5, AbsentFirst
  <2>2. AbsencesAreReal(p, o, s, s.there, LookUp(o[1], s))
    BY <2>1 DEF AbsencesAreReal
  <2> QED
    BY <2>2, <1>1, ThrowsNothing, NoneAreReal DEF EnvironmentVariable
<1>3. CASE o[1].op # "equals"
  BY <1>3, <1>1, ThrowsNothing, NoneAreReal DEF EnvironmentVariable
<1> QED
  BY <1>2, <1>3

\* Windows replaces the name by one that is empty.
LEMMA AbsencesOfEach ==
  ASSUME NEW p, NEW o, NEW s, NEW e, NEW result,
         p \notin Larger, IsObject(p, o), IsSystem(p, s), OnlyForAbsent(result),
         e.op = o[1].op, e.matches = o[1].matches, e.values \subseteq o[1].values
  PROVE  AbsencesAreReal(p, o, s, s.there, AskEach(e, s, result))
<1> DEFINE all == ReadByName(Single(NamesAsked(e, s)), Firsts(s.there), s, result)
           Shown(i) == IF i.status = "exists" THEN i ELSE [i EXCEPT !.thing = <<Nothing>>]
<1>1. \/ o[1].op = "equals" /\ NamesAsked(e, s) \subseteq o[1].values
      \/ NamesAsked(e, s) \subseteq Firsts(s.there) \cap o[1].matches
  BY DEF NamesAsked
<1>2. ASSUME NEW i \in all.items, IsAbsence(Shown(i))
      PROVE  ReallyAbsent(p, o, s, s.there, Shown(i).thing)
  <2>1. IsAbsence(i) /\ Shown(i).thing \in {i.thing, <<Nothing>>}
    <3>1. IsItem(i)
      BY <1>1, <1>2, NamesRead
    <3> QED
      BY <3>1, <1>2 DEF IsItem, IsAbsence
  <2>2. /\ \A t : 1 \in DOMAIN t => ReallyAbsent(p, o, s, s.there, t)
        /\ 1 \in DOMAIN i.thing
    BY <2>1, <1>1, <1>2, NamesRead
  <2>3. 1 \in DOMAIN Shown(i).thing
    BY <2>1, <2>2
  <2> QED
    BY <2>2, <2>3
<1>3. AskEach(e, s, result) \in {Throws, Collects({Shown(i) : i \in all.items})}
  BY DEF AskEach, ReadByName
<1>4. AbsencesAreReal(p, o, s, s.there, Collects({Shown(i) : i \in all.items}))
  BY <1>2 DEF AbsencesAreReal, Collects
<1> QED
  BY <1>3, <1>4, ThrowsNothing, NoneAreReal

\* A root path with no volume in it.
LEMMA AbsencesOfVolume ==
  ASSUME NEW p, NEW o, NEW s, p \notin Larger, IsObject(p, o), IsSystem(p, s)
  PROVE  AbsencesAreReal(p, o, s, s.there, Volume(o, s))
<1> DEFINE wanted == IF o[1].op = "equals" THEN o[1].values
                     ELSE {n \in Firsts(s.there) : n \in o[1].matches}
           all == ReadByName(Single(wanted), Firsts(s.there), s, VolumeAnswer)
           Shown(i) == IF i.status = "does not exist" THEN [i EXCEPT !.thing = <<Nothing>>] ELSE i
<1>1. \/ o[1].op = "equals" /\ wanted \subseteq o[1].values
      \/ wanted \subseteq Firsts(s.there) \cap o[1].matches
  OBVIOUS
<1>2. OnlyForAbsent(VolumeAnswer)
  BY CommonAnswers DEF VolumeAnswer
<1>3. ASSUME NEW i \in all.items, IsAbsence(Shown(i))
      PROVE  ReallyAbsent(p, o, s, s.there, Shown(i).thing)
  <2>1. IsItem(i)
    BY <1>1, <1>2, <1>3, NamesRead
  <2>2. IsAbsence(i)
    BY <2>1, <1>3 DEF IsItem, IsAbsence
  <2>3. \A t : 1 \in DOMAIN t => ReallyAbsent(p, o, s, s.there, t)
    BY <1>1, <1>2, <1>3, <2>2, NamesRead
  <2>4. Shown(i).thing = <<Nothing>>
    BY <2>1, <2>2 DEF IsItem, IsAbsence
  <2>5. 1 \in DOMAIN <<Nothing>>
    OBVIOUS
  <2>6. ReallyAbsent(p, o, s, s.there, <<Nothing>>)
    BY <2>3, <2>5
  <2> HIDE DEF Shown
  <2> QED
    BY <2>4, <2>6
<1>4. Volume(o, s) \in {Throws, Collects({Shown(i) : i \in all.items})}
  BY DEF Volume, ReadByName
<1>5. AbsencesAreReal(p, o, s, s.there, Collects({Shown(i) : i \in all.items}))
  BY <1>3 DEF AbsencesAreReal, Collects
<1> QED
  BY <1>4, <1>5, ThrowsNothing, NoneAreReal

\* Searches for updates, one for each criterion.
LEMMA AbsencesOfUpdates ==
  ASSUME NEW p, NEW o, NEW s, p \notin Larger, IsObject(p, o), IsSystem(p, s)
  PROVE  AbsencesAreReal(p, o, s, s.there, WUAUpdateSearcher(o, s))
<1>1. CASE o[1].op = "equals"
  <2>1. WUAUpdateSearcher(o, s) \in
          {Throws, ReadByName(Single(o[1].values), Firsts(s.there), s,
                              ByAnswer("exists", "does not exist", "throws"))}
    BY DEF WUAUpdateSearcher, ReadByName
  <2> QED
    BY <2>1, <1>1, AbsencesOfNames, CommonAnswers, ThrowsNothing, NoneAreReal
<1>2. CASE o[1].op # "equals"
  BY <1>2, ThrowsNothing, NoneAreReal DEF WUAUpdateSearcher, Accepts
<1> QED
  BY <1>1, <1>2

\* Probes that say of each value that it does not exist when none does.
LEMMA AbsencesOfFoundOrNone ==
  ASSUME NEW p, NEW o, NEW s, NEW names, p \notin Larger, IsObject(p, o), IsSystem(p, s),
         o[1].op = "equals" => names = Chosen(o[1], Firsts(s.there))
  PROVE  AbsencesAreReal(p, o, s, s.there, FoundOrNone(names, o[1]))
<1>1. DOMAIN o = {1} /\ ~ o[1].nil /\ p \notin OfFile \cup OnFiles \cup {"filehash58"}
  BY OneEntity DEF Larger
<1>2. CASE o[1].op = "equals" /\ names = {}
  <2>1. FoundOrNone(names, o[1]).items =
          All("does not exist", {Append(<<>>, v) : v \in o[1].values})
    BY <1>2 DEF FoundOrNone, NoneOf, Collects
  <2>2. ASSUME NEW v \in o[1].values
        PROVE  ReallyAbsent(p, o, s, s.there, Append(<<>>, v))
    <3>1. v \in Sought(o[1]) /\ 1 \in DOMAIN Append(<<>>, v)
      BY <1>2 DEF Sought
    <3>2. CASE Checks(o)
      BY <3>2 DEF ReallyAbsent
    <3>3. CASE ~ Checks(o)
      <4>1. v \in o[1].matches
        BY <3>3, <1>1, <1>2, EntityFacts
      <4>2. v \notin Firsts(s.there)
        BY <4>1, <1>2 DEF Chosen, Candidates
      <4> QED
        BY <4>2, <3>1, <1>1, AbsentFirst
    <3> QED
      BY <3>2, <3>3
  <2>3. ASSUME NEW x \in FoundOrNone(names, o[1]).items
        PROVE  ReallyAbsent(p, o, s, s.there, x.thing)
    <3>1. x.thing \in {Append(<<>>, v) : v \in o[1].values}
      BY <2>1, <2>3, AllHaveTheStatus
    <3> QED
      BY <3>1, <2>2
  <2> QED
    BY <2>3 DEF AbsencesAreReal
<1>3. CASE o[1].op # "equals" \/ names # {}
  <2>1. FoundOrNone(names, o[1]) \in {Collects({}), Collects(All("exists", Single(names)))}
    BY <1>3 DEF FoundOrNone, NoneOf
  <2>2. NoAbsences(Collects({}))
    BY DEF NoAbsences, Collects
  <2> QED
    BY <2>1, <2>2, OnlyWhatExists, NoneAreReal
<1> QED
  BY <1>2, <1>3

\* Packages that are installed are listed, others are asked for by name.
LEMMA AbsencesOfPackages ==
  ASSUME NEW p, NEW o, NEW s, p \notin Larger, IsObject(p, o), IsSystem(p, s)
  PROVE  /\ AbsencesAreReal(p, o, s, s.there, DPKGInfo(o, s))
         /\ AbsencesAreReal(p, o, s, s.there, RPMInfo(o, s))
<1>1. DPKGInfo(o, s) \in {Throws, FoundOrNone(NamesFound(o[1], Firsts(s.there)), o[1])}
  BY DEF DPKGInfo
<1>2. o[1].op = "equals" =>
        NamesFound(o[1], Firsts(s.there)) = Chosen(o[1], Firsts(s.there))
  BY DEF NamesFound, Dropped
<1>3. RPMInfo(o, s) \in {Throws, FoundOrNone(Chosen(o[1], Firsts(s.there)), o[1])}
  BY DEF RPMInfo
<1>4. AbsencesAreReal(p, o, s, s.there, Throws)
  BY ThrowsNothing, NoneAreReal
<1>5. AbsencesAreReal(p, o, s, s.there, FoundOrNone(NamesFound(o[1], Firsts(s.there)), o[1]))
  BY <1>2, AbsencesOfFoundOrNone
<1>6. AbsencesAreReal(p, o, s, s.there, FoundOrNone(Chosen(o[1], Firsts(s.there)), o[1]))
  BY AbsencesOfFoundOrNone
<1> QED
  BY <1>1, <1>3, <1>4, <1>5, <1>6

\* One item for one value that is not there.
LEMMA OneAbsence ==
  ASSUME NEW p, NEW o, NEW s, NEW things, NEW t, ReallyAbsent(p, o, s, things, t)
  PROVE  AbsencesAreReal(p, o, s, things, Collects({DoesNotExist(t)}))
<1>1. Collects({DoesNotExist(t)}).items = {DoesNotExist(t)} /\ DoesNotExist(t).thing = t
  BY DEF Collects, DoesNotExist
<1> QED
  BY <1>1 DEF AbsencesAreReal

\* What is looked up in a list that is kept.
LEMMA AbsencesOfCached ==
  ASSUME NEW p, NEW o, NEW s, NEW things, p \notin Larger, IsObject(p, o)
  PROVE  AbsencesAreReal(p, o, s, things, CachedByName(o[1], things))
<1> DEFINE found == {t \in things : t[1] \in o[1].values}
<1>1. DOMAIN o = {1} /\ ~ o[1].nil /\ p \notin OfFile \cup OnFiles \cup {"filehash58"}
  BY OneEntity DEF Larger
<1>2. CASE o[1].op = "equals" /\ ~ o[1].var /\ found = {}
  <2>1. CachedByName(o[1], things) = Collects({DoesNotExist(<<Nothing>>)})
    BY <1>2 DEF CachedByName
  <2>2. PICK v : v \in o[1].values
    BY <1>1, <1>2, EntityFacts
  <2>3. v \in Sought(o[1]) /\ v \notin Firsts(things)
    BY <2>2, <1>2 DEF Sought, Firsts
  <2>4. 1 \in DOMAIN <<Nothing>>
    OBVIOUS
  <2>5. ReallyAbsent(p, o, s, things, <<Nothing>>)
    BY <2>3, <2>4, <1>1, AbsentFirst
  <2> QED
    BY <2>1, <2>5, OneAbsence
<1>3. CASE ~ (o[1].op = "equals" /\ ~ o[1].var /\ found = {})
  <2>1. \E chosen : CachedByName(o[1], things) = Collects(All("exists", chosen))
    <3>1. CASE o[1].op = "equals" /\ ~ o[1].var
      BY <3>1, <1>3 DEF CachedByName
    <3>2. CASE ~ (o[1].op = "equals" /\ ~ o[1].var)
      BY <3>2 DEF CachedByName
    <3> QED
      BY <3>1, <3>2
  <2> QED
    BY <2>1, OnlyWhatExists, NoneAreReal
<1> QED
  BY <1>2, <1>3

\* Interfaces, shared resources and processes of Windows, from their lists.
LEMMA AbsencesOfTables ==
  ASSUME NEW p, NEW o, NEW s, NEW things, p \notin Larger, IsObject(p, o)
  PROVE  /\ AbsencesAreReal(p, o, s, things, WinInterface(o, things))
         /\ AbsencesAreReal(p, o, s, things, SharedResource(o, things))
         /\ AbsencesAreReal(p, o, s, things, WinProcess(o, things))
<1>1. /\ AbsencesAreReal(p, o, s, things, Throws)
      /\ AbsencesAreReal(p, o, s, things, CachedByName(o[1], things))
  BY ThrowsNothing, NoneAreReal, AbsencesOfCached
<1> QED
  BY <1>1 DEF WinInterface, SharedResource, ByNameOfString, WinProcess

\* The trustees of access lists are known accounts.
LEMMA KnownTrustees ==
  ASSUME NEW p, NEW s, IsSystem(p, s),
         p \in OnNames \cup OnFiles \cup OnKeys \cup {"accesstoken", "sidsid", "sid"}
  PROVE  \A t \in s.there : t[Len(t)] \in s.known \cup {Nothing}
<1>1. /\ p \notin IndependentFamily /\ p \notin UnixFamily /\ p \notin LinuxFamily
      /\ p \notin KeepsNames /\ p \notin AccountFamily /\ p \notin PolicyFamily
  BY DEF OnNames, OnFiles, OnKeys, IndependentFamily, UnixFamily, LinuxFamily, KeepsNames,
         AccountFamily, PolicyFamily
<1>2. FamilyOf(p) = "rights"
  BY <1>1 DEF FamilyOf, RightsFamily
<1> QED
  BY <1>2 DEF IsSystem

\* Things of one name.
LEMMA OneName ==
  ASSUME NEW p, NEW things, AreThings(p, things),
         p \notin Larger \cup {"process", "macprocess"}
  PROVE  \A t \in things : Len(t) = 1
<1>1. ThingLengths(p) = {1}
  BY DEF Larger, ThingLengths, ObjectLengths
<1> QED
  BY <1>1 DEF AreThings

\* Tokens and numbers of accounts that are looked up.
LEMMA AbsencesOfAccount ==
  ASSUME NEW p \in {"accesstoken", "sidsid"}, NEW o, NEW s, IsObject(p, o), IsSystem(p, s)
  PROVE  AbsencesAreReal(p, o, s, s.there, OfAccount(o, s))
<1> DEFINE names == IF o[1].op = "equals" /\ ~ o[1].var THEN o[1].values
                    ELSE Firsts(s.there) \cap o[1].matches
           Shown(n) == IF n \in s.known THEN Exists(<<n>>) ELSE DoesNotExist(<<Nothing>>)
<1>1. p \notin Larger \cup {"process", "macprocess"}
  BY DEF Larger, OfFile, OnFiles, TwoEntities, ThreeEntities, OnNames, OnKeys, WithNil
<1>2. DOMAIN o = {1} /\ p \notin OfFile \cup OnFiles \cup {"filehash58"}
  BY <1>1, OneEntity DEF Larger
<1>3. \A n \in Firsts(s.there) : n \in s.known \cup {Nothing}
  BY <1>1, OneName, KnownTrustees DEF IsSystem, Firsts
<1>4. ASSUME NEW n \in names, n \notin s.known
      PROVE  ReallyAbsent(p, o, s, s.there, <<Nothing>>)
  <2>1. n \in Names
    BY <1>2, <1>4, EntityFacts
  <2>2. n \notin Firsts(s.there)
    BY <2>1, <1>3, <1>4, NamesAssumption
  <2>3. n \in Sought(o[1])
    BY <2>2, <1>4 DEF Sought
  <2>4. 1 \in DOMAIN <<Nothing>>
    OBVIOUS
  <2> QED
    BY <2>2, <2>3, <2>4, <1>2, AbsentFirst
<1>5. AbsencesAreReal(p, o, s, s.there, Collects({Shown(n) : n \in names}))
  <2>1. ASSUME NEW n \in names, IsAbsence(Shown(n))
        PROVE  ReallyAbsent(p, o, s, s.there, Shown(n).thing)
    <3>1. n \notin s.known
      BY <2>1 DEF IsAbsence, Exists
    <3>2. Shown(n).thing = <<Nothing>>
      BY <3>1 DEF DoesNotExist
    <3> QED
      BY <3>1, <3>2, <2>1, <1>4
  <2> QED
    BY <2>1 DEF AbsencesAreReal, Collects
<1>6. OfAccount(o, s) \in {Throws, Collects({Shown(n) : n \in names})}
  BY DEF OfAccount
<1> QED
  BY <1>5, <1>6, ThrowsNothing, NoneAreReal

\* Names of accounts that are looked up.
LEMMA AbsencesOfSid ==
  ASSUME NEW p, p = "sid", NEW o, NEW s, IsObject(p, o), IsSystem(p, s)
  PROVE  AbsencesAreReal(p, o, s, s.there, Sid(o, s))
<1> DEFINE looked == o[1].op \in {"equals", "case insensitive equals"}
           missing == IF looked THEN o[1].values \ s.known ELSE {}
<1>1. p \notin Larger \cup {"process", "macprocess"}
  BY DEF Larger, OfFile, OnFiles, TwoEntities, ThreeEntities, OnNames, OnKeys, WithNil
<1>2. DOMAIN o = {1} /\ p \notin OfFile \cup OnFiles \cup {"filehash58"}
  BY <1>1, OneEntity DEF Larger
<1>3. \A n \in Firsts(s.there) : n \in s.known \cup {Nothing}
  BY <1>1, OneName, KnownTrustees DEF IsSystem, Firsts
<1>4. ASSUME missing # {}
      PROVE  ReallyAbsent(p, o, s, s.there, <<Nothing>>)
  <2>1. PICK n \in o[1].values : n \notin s.known /\ looked
    BY <1>4
  <2>2. n \in Names
    BY <1>2, <2>1, EntityFacts
  <2>3. n \notin Firsts(s.there)
    BY <2>1, <2>2, <1>3, NamesAssumption
  <2>4. n \in Sought(o[1])
    BY <2>1 DEF Sought
  <2>5. 1 \in DOMAIN <<Nothing>>
    OBVIOUS
  <2> QED
    BY <2>3, <2>4, <2>5, <1>2, AbsentFirst
<1>5. \/ Sid(o, s) = Throws
      \/ \E chosen : Sid(o, s) = Collects(All("exists", chosen) \cup
                       (IF missing = {} THEN {} ELSE {DoesNotExist(<<Nothing>>)}))
  BY DEF Sid
<1>6. ASSUME NEW chosen,
             NEW x \in All("exists", chosen) \cup
                       (IF missing = {} THEN {} ELSE {DoesNotExist(<<Nothing>>)}),
             IsAbsence(x)
      PROVE  ReallyAbsent(p, o, s, s.there, x.thing)
  <2>1. x \notin All("exists", chosen)
    BY <1>6, AllHaveTheStatus DEF IsAbsence
  <2>2. missing # {} /\ x = DoesNotExist(<<Nothing>>)
    BY <1>6, <2>1
  <2>3. x.thing = <<Nothing>>
    BY <2>2 DEF DoesNotExist
  <2> QED
    BY <2>2, <2>3, <1>4
<1>7. AbsencesAreReal(p, o, s, s.there, Throws)
  BY ThrowsNothing, NoneAreReal
<1> HIDE DEF missing
<1> QED
  BY <1>5, <1>6, <1>7 DEF AbsencesAreReal, Collects

\* A call that has no answer for what is gone.
LEMMA NoneOfNames ==
  ASSUME NEW s, NEW wanted, NEW names, NEW result, s.read \in [Names -> Answers],
         wanted \subseteq Names, OnlyForAbsent(result), ~ TellsAbsence(result)
  PROVE  NoAbsences(ReadByName(Single(wanted), names, s, result))
<1>1. \A t \in Single(wanted) : t[1] \in Names
  BY DEF Single
<1> QED
  BY <1>1, ReadingByName DEF NoAbsences

\* Probes that never say that something does not exist.
LEMMA NoneOfCommands ==
  ASSUME NEW p, NEW o, NEW s, NEW before, p \notin Larger, IsObject(p, o), IsSystem(p, s)
  PROVE  /\ NoAbsences(AccountInfo(o, s, before)) /\ NoAbsences(PwPolicy59(o, s, before))
         /\ NoAbsences(WindowsServices(o, s.there, s))
         /\ NoAbsences(SelinuxContextOfPids(o, s)) /\ NoAbsences(Sysctl(o, s))
<1> DEFINE listed == GetResponse(s.list, Firsts(s.there))
           names  == IF before # {} THEN before ELSE listed.lines
           pids   == (IF o[1].op = "equals" THEN o[1].values ELSE Firsts(s.there))
                       \cap o[1].matches
           Read(wanted, result) == ReadByName(Single(wanted), Firsts(s.there), s, result)
<1>1. o[1].matches \subseteq Names /\ o[1].values \subseteq Names /\ s.read \in [Names -> Answers]
  BY OneEntity, EntityFacts DEF IsSystem
<1>2. names \cap o[1].matches \subseteq Names /\ pids \subseteq Names
  BY <1>1
<1>3. Services(o[1], Firsts(s.there)) \subseteq Names
  BY <1>1 DEF Services
<1>4. NoAbsences(AccountInfo(o, s, before))
  <2>1. AccountInfo(o, s, before) \in
          {Throws, Read(names \cap o[1].matches, ByAnswer("exists", "none", "throws"))}
    BY DEF AccountInfo, ReadByName
  <2>2. NoAbsences(Read(names \cap o[1].matches, ByAnswer("exists", "none", "throws")))
    BY <1>1, <1>2, NoneOfNames, CommonAnswers
  <2> HIDE DEF Read
  <2> QED
    BY <2>1, <2>2, ThrowsNothing
<1>5. NoAbsences(PwPolicy59(o, s, before))
  <2>1. PwPolicy59(o, s, before) \in
          {Throws, Read(names \cap o[1].matches, ByAnswer("exists", "exists", "throws"))}
    BY DEF PwPolicy59, ReadByName
  <2>2. NoAbsences(Read(names \cap o[1].matches, ByAnswer("exists", "exists", "throws")))
    BY <1>1, <1>2, NoneOfNames, CommonAnswers
  <2> HIDE DEF Read
  <2> QED
    BY <2>1, <2>2, ThrowsNothing
<1>6. NoAbsences(WindowsServices(o, s.there, s))
  <2>1. WindowsServices(o, s.there, s) \in
          {Throws, Read(Services(o[1], Firsts(s.there)), ByAnswer("exists", "error", "error"))}
    BY DEF WindowsServices, ReadByName
  <2>2. NoAbsences(Read(Services(o[1], Firsts(s.there)), ByAnswer("exists", "error", "error")))
    BY <1>1, <1>3, NoneOfNames, CommonAnswers
  <2> HIDE DEF Read
  <2> QED
    BY <2>1, <2>2, ThrowsNothing
<1>7. NoAbsences(SelinuxContextOfPids(o, s))
  <2>1. SelinuxContextOfPids(o, s) \in {Throws, Read(pids, ByAnswer("exists", "error", "error"))}
    BY DEF SelinuxContextOfPids, ReadByName
  <2>2. NoAbsences(Read(pids, ByAnswer("exists", "error", "error")))
    BY <1>1, <1>2, NoneOfNames, CommonAnswers
  <2> HIDE DEF Read
  <2> QED
    BY <2>1, <2>2, ThrowsNothing
<1>8. NoAbsences(Sysctl(o, s))
  <2> DEFINE All2(things) == ReadByName(things, Firsts(s.there), s, ByAnswer("exists", "error", "error"))
  <2>1. Sysctl(o, s) \in {Throws, All2(Single(o[1].values)), All2(Matching(o, s.there))}
    BY DEF Sysctl, ReadByName
  <2>2. NoAbsences(All2(Single(o[1].values)))
    BY <1>1, NoneOfNames, CommonAnswers
  <2>3. \A t \in Matching(o, s.there) : t[1] \in Names
    BY <1>1, OneEntity DEF Matching, Analyze
  <2>4. NoAbsences(All2(Matching(o, s.there)))
    BY <2>3, <1>1, ReadingByName, CommonAnswers DEF NoAbsences
  <2> QED
    BY <2>1, <2>2, <2>4, ThrowsNothing
<1> QED
  BY <1>4, <1>5, <1>6, <1>7, <1>8

\* What a walk through a finite set visits.
LEMMA WalkVisits ==
  ASSUME NEW S, IsFiniteSet(S)
  PROVE  /\ DOMAIN SetToSeq(S) = 1 .. Cardinality(S) /\ Cardinality(S) \in Nat
         /\ \A x \in S : \E i \in DOMAIN SetToSeq(S) : SetToSeq(S)[i] = x
<1> DEFINE n == Cardinality(S)
<1>1. n \in Nat /\ ExistsBijection(1 .. n, S)
  BY FS_CardinalityType
<1>2. PICK f \in [1 .. n -> S] : f \in Injection(1 .. n, S)
  BY <1>1 DEF ExistsBijection, Bijection, Injection
<1>3. \E g \in [1 .. n -> S] : IsInjective(g)
  BY <1>2 DEF Injection
<1>4. SetToSeq(S) \in [1 .. n -> S] /\ IsInjective(SetToSeq(S))
  BY <1>3 DEF SetToSeq
<1>5. SetToSeq(S) \in Injection(1 .. n, S)
  BY <1>4 DEF Injection
<1>6. Cardinality(1 .. n) = n
  BY <1>1, FS_Interval
<1>7. SetToSeq(S) \in Surjection(1 .. n, S)
  BY <1>5, <1>6, FS_Injection
<1> QED
  BY <1>1, <1>4, <1>7 DEF Surjection

\* The hits of a walk, and the last of them.
LEMMA HitsOfWalk ==
  ASSUME NEW p \in {"process", "macprocess"}, NEW s, IsSystem(p, s), NEW v \in Firsts(s.there)
  PROVE  LET hits == {i \in DOMAIN Walk(s) : <<v, Walk(s)[i]>> \in s.there}
         IN  /\ hits # {} /\ \E j \in hits : \A k \in hits : k <= j
             /\ \E j \in hits : \A k \in hits : j <= k
<1> DEFINE hits == {i \in DOMAIN Walk(s) : <<v, Walk(s)[i]>> \in s.there}
<1>1. /\ p \notin OfFile \cup OnFiles \cup {"filehash58"}
      /\ p \notin TwoEntities \cup ThreeEntities
  BY DEF OfFile, OnFiles, TwoEntities, ThreeEntities, OnNames, OnKeys, WithNil
<1>2. ThingLengths(p) = {2}
  BY DEF ThingLengths
<1>3. IsFiniteSet(Pids(s))
  <2> DEFINE f == [t \in s.there |-> t[2]]
  <2>1. IsFiniteSet(s.there)
    BY DEF IsSystem
  <2>2. f \in Surjection(s.there, Pids(s))
    BY DEF Pids, Surjection
  <2> QED
    BY <2>1, <2>2, FS_Surjection
<1>4. PICK u \in s.there : u[1] = v
  BY DEF Firsts
<1>5. u \in Seq(Names \cup {Nothing}) /\ Len(u) = 2
  BY <1>2, <1>4 DEF IsSystem, AreThings
<1>6. u = <<v, u[2]>> /\ u[2] \in Pids(s)
  BY <1>4, <1>5 DEF Pids
<1>7. PICK i \in DOMAIN Walk(s) : Walk(s)[i] = u[2]
  BY <1>3, <1>6, WalkVisits DEF Walk
<1>8. i \in hits
  BY <1>6, <1>7
<1>9. DOMAIN Walk(s) = 1 .. Cardinality(Pids(s)) /\ Cardinality(Pids(s)) \in Nat
  BY <1>3, WalkVisits DEF Walk
<1>10. \E j \in hits : \A k \in hits : j <= k
  <2>1. hits \subseteq Nat /\ hits # {}
    BY <1>8, <1>9
  <2> QED
    BY <2>1, LeastNumber
<1>11. \E j \in hits : \A k \in hits : k <= j
  <2> DEFINE c == Cardinality(Pids(s))
             T == {c - j : j \in hits}
  <2>5. \A j \in hits : j \in 1 .. c
    BY <1>9
  <2> HIDE DEF hits, c
  <2>6. c \in Nat
    BY <1>9 DEF c
  <2>1. T \subseteq Nat /\ T # {}
    BY <1>8, <2>5, <2>6
  <2>2. PICK m \in T : \A n \in T : m <= n
    BY <2>1, LeastNumber
  <2>3. PICK j \in hits : m = c - j
    BY <2>2
  <2>4. \A k \in hits : c - j <= c - k
    BY <2>2, <2>3
  <2>7. \A k \in hits : k <= j
    BY <2>4, <2>5, <2>6, <2>3
  <2> QED
    BY <2>3, <2>7
<1> QED
  BY <1>8, <1>10, <1>11

\* Both probes look a value up by walking; what is found is compared, and nothing left of
\* it means that none of the values was there.
LEMMA AbsencesOfProcesses ==
  ASSUME NEW p \in {"process", "macprocess"}, NEW o, NEW s, IsObject(p, o), IsSystem(p, s),
         NEW Kept,
         o[1].op = "equals" => \A v \in o[1].values \cap Firsts(s.there) :
           v \in o[1].matches => Kept # {}
  PROVE  AbsencesAreReal(p, o, s, s.there, ProcessItems(Kept, o[1]))
<1>1. p \notin Larger
  BY DEF Larger, OfFile, OnFiles, TwoEntities, ThreeEntities, OnNames, OnKeys, WithNil
<1>2. DOMAIN o = {1} /\ ~ o[1].nil /\ p \notin OfFile \cup OnFiles \cup {"filehash58"}
  BY <1>1, OneEntity DEF Larger
<1>3. CASE Kept = {} /\ o[1].op = "equals"
  <2>1. ProcessItems(Kept, o[1]).items = All("does not exist", Single(o[1].values))
    BY <1>3 DEF ProcessItems, NoProcess, Collects
  <2>2. ASSUME NEW x \in ProcessItems(Kept, o[1]).items
        PROVE  ReallyAbsent(p, o, s, s.there, x.thing)
    <3>1. x.thing \in Single(o[1].values)
      BY <2>1, <2>2, AllHaveTheStatus
    <3>2. PICK v \in o[1].values : x.thing = <<v>>
      BY <3>1 DEF Single
    <3>3. CASE Checks(o)
      BY <3>3 DEF ReallyAbsent
    <3>4. CASE ~ Checks(o)
      <4>1. v \in o[1].matches
        BY <3>2, <3>4, <1>2, <1>3, EntityFacts
      <4>2. v \notin Firsts(s.there)
        BY <4>1, <3>2, <1>3
      <4>3. v \in Sought(o[1]) /\ 1 \in DOMAIN x.thing
        BY <3>2, <1>3 DEF Sought
      <4> QED
        BY <4>2, <4>3, <1>2, AbsentFirst
    <3> QED
      BY <3>3, <3>4
  <2> QED
    BY <2>2 DEF AbsencesAreReal
<1>4. CASE Kept # {} \/ o[1].op # "equals"
  <2>1. ProcessItems(Kept, o[1]) \in {Collects({}), Collects(All("exists", Kept))}
    BY <1>4 DEF ProcessItems, NoProcess
  <2>2. NoAbsences(Collects({}))
    BY DEF NoAbsences, Collects
  <2> QED
    BY <2>1, <2>2, OnlyWhatExists, NoneAreReal
<1> QED
  BY <1>3, <1>4

\* A process by its command.
LEMMA AbsencesOfProcess ==
  ASSUME NEW p, p = "process", NEW o, NEW s, IsObject(p, o), IsSystem(p, s)
  PROVE  AbsencesAreReal(p, o, s, s.there, Process(o, s))
<1> DEFINE firsts == {FirstProcess(v, s) : v \in o[1].values}
           found  == UNION {f.found : f \in firsts}
           Kept   == {t \in found : t[1] \in o[1].matches \/ ~ o[1].var}
           Others == {t \in s.there : t[1] \in o[1].matches}
<1>1. AbsencesAreReal(p, o, s, s.there, Throws)
  BY ThrowsNothing, NoneAreReal
<1>2. CASE o[1].op = "equals"
  <2>1. ASSUME NEW v \in o[1].values \cap Firsts(s.there), v \in o[1].matches
        PROVE  Kept # {}
    <3> DEFINE hits == {i \in DOMAIN Walk(s) : <<v, Walk(s)[i]>> \in s.there}
    <3>1. hits # {}
      BY <2>1, HitsOfWalk
    <3>2. \E q : FirstProcess(v, s).found = {<<v, q>>}
      BY <3>1 DEF FirstProcess
    <3>3. PICK q : FirstProcess(v, s).found = {<<v, q>>}
      BY <3>2
    <3>4. FirstProcess(v, s) \in firsts
      BY <2>1
    <3> HIDE DEF firsts
    <3>5. <<v, q>> \in found /\ <<v, q>>[1] = v
      BY <3>3, <3>4
    <3>6. <<v, q>> \in Kept
      BY <3>5, <2>1
    <3> QED
      BY <3>6
  <2>2. AbsencesAreReal(p, o, s, s.there, ProcessItems(Kept, o[1]))
    <3> HIDE DEF Kept
    <3> QED
      BY <2>1, AbsencesOfProcesses
  <2>3. Process(o, s) \in {Throws, ProcessItems(Kept, o[1])}
    BY <1>2 DEF Process
  <2> QED
    BY <2>2, <2>3, <1>1
<1>3. CASE o[1].op # "equals"
  <2>1. AbsencesAreReal(p, o, s, s.there, ProcessItems(Others, o[1]))
    BY <1>3, AbsencesOfProcesses
  <2>2. Process(o, s) \in {Throws, ProcessItems(Others, o[1])}
    BY <1>3 DEF Process
  <2> QED
    BY <2>1, <2>2, <1>1
<1> QED
  BY <1>2, <1>3

\* A process by its command, on Mac OS.
LEMMA AbsencesOfMacProcess ==
  ASSUME NEW p, p = "macprocess", NEW o, NEW s, IsObject(p, o), IsSystem(p, s)
  PROVE  AbsencesAreReal(p, o, s, s.there, MacProcess(o, s))
<1> DEFINE found == IF o[1].op = "equals" THEN UNION {LastProcess(v, s) : v \in o[1].values}
                    ELSE s.there
           Kept  == {t \in found : \/ t[1] \in o[1].matches
                                   \/ o[1].op = "equals" /\ ~ o[1].var}
<1>1. ASSUME o[1].op = "equals", NEW v \in o[1].values \cap Firsts(s.there), v \in o[1].matches
      PROVE  Kept # {}
  <2> DEFINE hits == {i \in DOMAIN Walk(s) : <<v, Walk(s)[i]>> \in s.there}
  <2>1. PICK j \in hits : \A k \in hits : k <= j
    BY <1>1, HitsOfWalk
  <2>2. <<v, Walk(s)[j]>> \in LastProcess(v, s)
    BY <2>1 DEF LastProcess
  <2>3. <<v, Walk(s)[j]>> \in found
    BY <2>2, <1>1
  <2>4. <<v, Walk(s)[j]>>[1] = v
    OBVIOUS
  <2> HIDE DEF found
  <2>5. <<v, Walk(s)[j]>> \in Kept
    BY <2>3, <2>4, <1>1
  <2> QED
    BY <2>5
<1>2. AbsencesAreReal(p, o, s, s.there, ProcessItems(Kept, o[1]))
  <2> HIDE DEF Kept
  <2> QED
    BY <1>1, AbsencesOfProcesses
<1>3. MacProcess(o, s) \in {Throws, ProcessItems(Kept, o[1])}
  BY DEF MacProcess
<1> QED
  BY <1>2, <1>3, ThrowsNothing, NoneAreReal

-----------------------------------------------------------------------------
\* Probes of several levels.
LEMMA AbsentBelow ==
  ASSUME NEW p, NEW o, NEW s, NEW things, NEW t, NEW i, NEW v,
         p \notin OfFile \cup OnFiles \cup {"filehash58"}, i \in DOMAIN o \cap DOMAIN t,
         v \in Sought(o[i]),
         \A u \in things : u[i] = v => \E j \in 1 .. i - 1 : t[j] \notin {Nothing, u[j]}
  PROVE  ReallyAbsent(p, o, s, things, t)
  BY AlikeThings DEF ReallyAbsent

\* A thing of three names.
LEMMA ThreeNames ==
  ASSUME NEW p, p \in ThreeEntities, NEW o, IsObject(p, o), NEW things, AreThings(p, things)
  PROVE  /\ DOMAIN o = 1 .. 3 /\ Len(o) = 3
         /\ \A u \in things : Len(u) = 3 /\ u \in Seq(Names \cup {Nothing})
         /\ p \notin OfFile \cup OnFiles \cup {"filehash58"}
<1>1. /\ p \notin OfFile /\ p \notin OnFiles \cup {"filehash58"} /\ p \notin TwoEntities
      /\ p \notin {"process", "macprocess"}
  BY DEF OfFile, OnFiles, TwoEntities, ThreeEntities, OnNames, OnKeys, WithNil
<1>2. ObjectLengths(p) = {3} /\ ThingLengths(p) = {3}
  BY <1>1 DEF ObjectLengths, ThingLengths
<1> QED
  BY <1>1, <1>2 DEF IsObject, AreThings

\* Listening servers: the protocol, the address and the port in turn.
LEMMA AbsencesOfServers ==
  ASSUME NEW p, p = "inetlisteningservers", NEW o, NEW s, NEW things, IsObject(p, o),
         AreThings(p, things)
  PROVE  AbsencesAreReal(p, o, s, things, InetListeningServers(o, things))
<1> DEFINE Addresses(q) == NamesFound(o[2], Seconds(things, q))
           Ports(q, a)  == {t[3] : t \in {u \in things : u[1] = q /\ u[2] = a}} \cap o[3].matches
           protocols == NamesFound(o[1], Firsts(things))
           Servers(q, a) ==
             IF Ports(q, a) = {} THEN NoneOf(o[3], <<q, a>>)
             ELSE All("exists", {<<q, a, port>> : port \in Ports(q, a)})
           OfProtocol(q) ==
             IF Addresses(q) = {} THEN NoneOf(o[2], <<q>>)
             ELSE UNION {Servers(q, a) : a \in Addresses(q)}
           Good(x) == IsAbsence(x) => ReallyAbsent(p, o, s, things, x.thing)
<1>1. /\ DOMAIN o = 1 .. 3 /\ Len(o) = 3
      /\ \A u \in things : Len(u) = 3 /\ u \in Seq(Names \cup {Nothing})
      /\ p \notin OfFile \cup OnFiles \cup {"filehash58"}
  BY ThreeNames DEF ThreeEntities
<1>2. MayBeNil(p) = {}
  BY DEF MayBeNil, OfFile, OnFiles, WithNil
<1>3. \A i \in 1 .. 3 : o[i].op = "equals" /\ ~ Checks(o) => o[i].matches = o[i].values
  BY <1>1, <1>2, EntityFacts
<1>4. \A i \in 1 .. 3 : o[i].matches \subseteq Names
  BY <1>1, EntityFacts
<1>5. ASSUME NEW e, NEW prefix, NEW x \in NoneOf(e, prefix)
      PROVE  e.op = "equals" /\ \E v \in e.values : x.thing = Append(prefix, v)
  <2>1. CASE e.op = "equals"
    <3>1. x.thing \in {Append(prefix, v) : v \in e.values}
      BY <1>5, <2>1, AllHaveTheStatus DEF NoneOf
    <3> QED
      BY <2>1, <3>1
  <2>2. CASE e.op # "equals"
    BY <1>5, <2>2 DEF NoneOf
  <2> QED
    BY <2>1, <2>2
<1>6. ASSUME Checks(o), NEW x PROVE Good(x)
  BY <1>6 DEF ReallyAbsent
<1>7. ASSUME protocols = {}, NEW x \in NoneOf(o[1], <<>>) PROVE Good(x)
  <2>1. PICK v \in o[1].values : x.thing = Append(<<>>, v) /\ o[1].op = "equals"
    BY <1>5, <1>7
  <2>2. v \in Sought(o[1]) /\ 1 \in DOMAIN x.thing
    BY <2>1 DEF Sought
  <2>3. CASE ~ Checks(o)
    <3>1. protocols = {n \in o[1].values : n \in o[1].matches /\ n \in Firsts(things)}
      BY <2>1 DEF NamesFound, Dropped, Chosen, Candidates
    <3>2. v \notin Firsts(things)
      BY <3>1, <2>1, <2>3, <1>1, <1>3, <1>7
    <3> QED
      BY <3>2, <2>2, <1>1, AbsentFirst
  <2> QED
    BY <2>3, <1>6
<1>8. ASSUME NEW q \in protocols, Addresses(q) = {}, NEW x \in NoneOf(o[2], <<q>>)
      PROVE  Good(x)
  <2>1. PICK v \in o[2].values : x.thing = Append(<<q>>, v) /\ o[2].op = "equals"
    BY <1>5, <1>8
  <2>2. v \in Sought(o[2]) /\ 2 \in DOMAIN x.thing /\ x.thing[1] = q
    BY <2>1 DEF Sought
  <2>3. q \in Names
    BY <1>8, <1>4 DEF NamesFound, Chosen
  <2>4. CASE ~ Checks(o)
    <3>1. Addresses(q) = {n \in o[2].values : n \in o[2].matches /\ n \in Seconds(things, q)}
      BY <2>1 DEF NamesFound, Dropped, Chosen, Candidates
    <3>2. v \notin Seconds(things, q)
      BY <3>1, <2>1, <2>4, <1>1, <1>3, <1>8
    <3>3. \A u \in things : u[2] = v => u[1] # q
      BY <3>2, <1>1 DEF Seconds
    <3>4. \A u \in things : u[2] = v => x.thing[1] \notin {Nothing, u[1]}
      BY <3>3, <2>2, <2>3, NamesAssumption
    <3>5. \A u \in things : u[2] = v => \E j \in 1 .. 2 - 1 : x.thing[j] \notin {Nothing, u[j]}
      BY <3>4
    <3> QED
      BY <3>5, <2>2, <1>1, AbsentBelow
  <2> QED
    BY <2>4, <1>6
<1>9. ASSUME NEW q \in protocols, NEW a \in Addresses(q), NEW x \in Servers(q, a)
      PROVE  Good(x)
  <2>1. CASE Ports(q, a) = {}
    <3>1. PICK v \in o[3].values : x.thing = Append(<<q, a>>, v) /\ o[3].op = "equals"
      BY <1>5, <1>9, <2>1
    <3>2. v \in Sought(o[3]) /\ 3 \in DOMAIN x.thing /\ x.thing[1] = q /\ x.thing[2] = a
      BY <3>1 DEF Sought
    <3>3. q \in Names /\ a \in Names
      BY <1>9, <1>4 DEF NamesFound, Chosen
    <3>4. CASE ~ Checks(o)
      <4>1. v \in o[3].matches
        BY <3>1, <3>4, <1>1, <1>3
      <4>2. \A u \in things : u[3] = v => u[1] # q \/ u[2] # a
        BY <4>1, <2>1
      <4>3. \A u \in things : u[3] = v =>
              x.thing[1] \notin {Nothing, u[1]} \/ x.thing[2] \notin {Nothing, u[2]}
        BY <4>2, <3>2, <3>3, NamesAssumption
      <4>4. \A u \in things : u[3] = v => \E j \in 1 .. 3 - 1 : x.thing[j] \notin {Nothing, u[j]}
        BY <4>3
      <4> QED
        BY <4>4, <3>2, <1>1, AbsentBelow
    <3> QED
      BY <3>4, <1>6
  <2>2. CASE Ports(q, a) # {}
    <3>1. x \in All("exists", {<<q, a, port>> : port \in Ports(q, a)})
      BY <1>9, <2>2
    <3> QED
      BY <3>1, AllHaveTheStatus DEF IsAbsence
  <2> QED
    BY <2>1, <2>2
<1>10. ASSUME NEW q \in protocols, NEW x \in OfProtocol(q) PROVE Good(x)
  <2>1. CASE Addresses(q) = {}
    <3>1. x \in NoneOf(o[2], <<q>>)
      BY <2>1, <1>10
    <3> QED
      BY <3>1, <2>1, <1>8
  <2>2. CASE Addresses(q) # {}
    <3>1. PICK a \in Addresses(q) : x \in Servers(q, a)
      BY <2>2, <1>10
    <3> QED
      BY <3>1, <1>9
  <2> QED
    BY <2>1, <2>2
<1>11. InetListeningServers(o, things) \in
         {Throws, Collects(IF protocols = {} THEN NoneOf(o[1], <<>>)
                           ELSE UNION {OfProtocol(q) : q \in protocols})}
  BY DEF InetListeningServers
<1> HIDE DEF Good, OfProtocol, protocols
<1>12. \A x \in (IF protocols = {} THEN NoneOf(o[1], <<>>)
                 ELSE UNION {OfProtocol(q) : q \in protocols}) : Good(x)
  BY <1>7, <1>10
<1>13. AbsencesAreReal(p, o, s, things,
         Collects(IF protocols = {} THEN NoneOf(o[1], <<>>)
                  ELSE UNION {OfProtocol(q) : q \in protocols}))
  BY <1>12 DEF AbsencesAreReal, Collects, Good
<1> QED
  BY <1>11, <1>13, ThrowsNothing, NoneAreReal

\* A level of the ports: those that go on are names, and what is not found below is not
\* there.
LEMMA Continued ==
  ASSUME NEW S, NEW a \in Seq(S), NEW b \in Seq(S)
  PROVE  /\ a \o b \in Seq(S) /\ Len(a \o b) = Len(a) + Len(b)
         /\ \A j \in 1 .. Len(a) : (a \o b)[j] = a[j]
  OBVIOUS

LEMMA LevelOfPorts ==
  ASSUME NEW p, NEW o, NEW things, NEW prefix, NEW k, k \in 0 .. 2, p = "port", IsObject(p, o),
         AreThings(p, things), prefix \in Seq(Names), Len(prefix) = k
  PROVE  /\ \A t \in PortsOf(o, prefix, things).found : t \in Seq(Names) /\ Len(t) = k + 1
         /\ \A s : \A x \in PortsOf(o, prefix, things).items :
              ReallyAbsent(p, o, s, things, x.thing)
<1> DEFINE i == k + 1
           found == {n \in Candidates(o[i], Below(prefix, things)) :
                       n \in o[i].matches /\ n \in Below(prefix, things)}
           t == prefix \o [m \in 1 .. Len(o) - i + 1 |-> Nothing]
<1>1. /\ DOMAIN o = 1 .. 3 /\ Len(o) = 3
      /\ \A u \in things : Len(u) = 3 /\ u \in Seq(Names \cup {Nothing})
      /\ p \notin OfFile \cup OnFiles \cup {"filehash58"}
  BY ThreeNames DEF ThreeEntities
<1>2. Len(prefix) + 1 = i /\ i \in 1 .. 3
  OBVIOUS
<1>3. MayBeNil(p) = {}
  BY DEF MayBeNil, OfFile, OnFiles, WithNil
<1>4. o[i].matches \subseteq Names
  BY <1>1, <1>2, EntityFacts
<1>5. PortsOf(o, prefix, things).found = {prefix \o <<n>> : n \in found}
  BY <1>2 DEF PortsOf
<1>6. PortsOf(o, prefix, things).items \in {{}, {DoesNotExist(t)}}
  BY <1>2 DEF PortsOf
<1>7. PortsOf(o, prefix, things).items # {} =>
        found = {} /\ o[i].op = "equals" /\ o[i].values # {}
  BY <1>2 DEF PortsOf
<1>8. ASSUME NEW n \in found PROVE prefix \o <<n>> \in Seq(Names) /\ Len(prefix \o <<n>>) = k + 1
  BY <1>4, <1>8
<1>9. t \in Seq(Names \cup {Nothing}) /\ Len(t) = 3 /\ \A j \in 1 .. k : t[j] = prefix[j]
  <2>1. [m \in 1 .. Len(o) - i + 1 |-> Nothing] \in Seq(Names \cup {Nothing})
    BY <1>1, <1>2
  <2>2. Len([m \in 1 .. Len(o) - i + 1 |-> Nothing]) = 3 - k
    BY <1>1, <1>2
  <2>3. prefix \in Seq(Names \cup {Nothing})
    OBVIOUS
  <2> DEFINE pad == [m \in 1 .. Len(o) - i + 1 |-> Nothing]
  <2> HIDE DEF pad
  <2>4. t = prefix \o pad
    BY DEF pad
  <2>5. pad \in Seq(Names \cup {Nothing}) /\ Len(pad) = 3 - k
    BY <2>1, <2>2 DEF pad
  <2> HIDE DEF t
  <2> QED
    BY <2>3, <2>4, <2>5, Continued
<1>10. ASSUME NEW s, found = {}, o[i].op = "equals", o[i].values # {}
       PROVE  ReallyAbsent(p, o, s, things, t)
  <2>1. PICK v : v \in o[i].values
    BY <1>10
  <2>2. CASE Checks(o)
    BY <2>2 DEF ReallyAbsent
  <2>3. CASE ~ Checks(o)
    <3>1. v \in o[i].matches
      BY <2>1, <2>3, <1>1, <1>2, <1>3, <1>10, EntityFacts
    <3>2. v \notin Below(prefix, things)
      BY <3>1, <2>1, <1>10 DEF Candidates
    <3>3. ASSUME NEW u \in things, u[i] = v
          PROVE  \E j \in 1 .. i - 1 : t[j] \notin {Nothing, u[j]}
      <4>1. SubSeq(u, 1, k) # prefix
        BY <3>2, <3>3, <1>2 DEF Below
      <4>2. SubSeq(u, 1, k) \in Seq(Names \cup {Nothing}) /\ Len(SubSeq(u, 1, k)) = k
        BY <1>1
      <4>3. \A j \in 1 .. k : SubSeq(u, 1, k)[j] = u[j]
        BY <1>1
      <4>4. ~ \A j \in 1 .. k : u[j] = prefix[j]
        BY <4>1, <4>2, <4>3
      <4>5. PICK j \in 1 .. k : u[j] # prefix[j]
        BY <4>4
      <4>6. prefix[j] \in Names
        OBVIOUS
      <4> QED
        BY <4>5, <4>6, <1>9, <1>2, NamesAssumption
    <3>4. v \in Sought(o[i]) /\ i \in DOMAIN o /\ i \in DOMAIN t
      BY <2>1, <1>1, <1>2, <1>9, <1>10 DEF Sought
    <3>5. \A u \in things : u[i] = v => \E j \in 1 .. i - 1 : t[j] \notin {Nothing, u[j]}
      BY <3>3
    <3> HIDE DEF i, t
    <3> QED
      BY <3>5, <3>4, <1>1, AbsentBelow
  <2> QED
    BY <2>2, <2>3
<1>11. ASSUME NEW s, NEW x \in PortsOf(o, prefix, things).items
       PROVE  ReallyAbsent(p, o, s, things, x.thing)
  <2>1. x = DoesNotExist(t)
    BY <1>6, <1>11
  <2>2. x.thing = t
    BY <2>1 DEF DoesNotExist
  <2>3. ReallyAbsent(p, o, s, things, t)
    BY <1>7, <1>10, <1>11
  <2> QED
    BY <2>2, <2>3
<1> QED
  BY <1>5, <1>8, <1>11

\* All the levels of the ports, one below the other.
LEMMA AbsencesOfPorts ==
  ASSUME NEW p, p = "port", NEW o, NEW s, NEW things, IsObject(p, o), AreThings(p, things)
  PROVE  AbsencesAreReal(p, o, s, things, Port(o, things))
<1> DEFINE one   == PortLevel(o, {<<>>}, things)
           two   == PortLevel(o, one.found, things)
           three == PortLevel(o, two.found, things)
           Good(level) == \A x \in level.items : ReallyAbsent(p, o, s, things, x.thing)
<1>1. ASSUME NEW k \in 0 .. 2, NEW prefixes, \A t \in prefixes : t \in Seq(Names) /\ Len(t) = k
      PROVE  /\ \A t \in PortLevel(o, prefixes, things).found : t \in Seq(Names) /\ Len(t) = k + 1
             /\ Good(PortLevel(o, prefixes, things))
  <2>1. ASSUME NEW t \in PortLevel(o, prefixes, things).found
        PROVE  t \in Seq(Names) /\ Len(t) = k + 1
    <3>1. PICK prefix \in prefixes : t \in PortsOf(o, prefix, things).found
      BY <2>1 DEF PortLevel
    <3> QED
      BY <3>1, <1>1, LevelOfPorts
  <2>2. ASSUME NEW x \in PortLevel(o, prefixes, things).items
        PROVE  ReallyAbsent(p, o, s, things, x.thing)
    <3>1. PICK prefix \in prefixes : x \in PortsOf(o, prefix, things).items
      BY <2>2 DEF PortLevel
    <3> QED
      BY <3>1, <1>1, LevelOfPorts
  <2> QED
    BY <2>1, <2>2
<1> HIDE DEF Good
<1>2. (\A t \in one.found : t \in Seq(Names) /\ Len(t) = 1) /\ Good(one)
  <2>1. \A t \in {<<>>} : t \in Seq(Names) /\ Len(t) = 0
    OBVIOUS
  <2>2. 0 \in 0 .. 2
    OBVIOUS
  <2> DEFINE start == {<<>>}
  <2>3. one = PortLevel(o, start, things)
    OBVIOUS
  <2> HIDE DEF start, one
  <2>4. \A t \in start : t \in Seq(Names) /\ Len(t) = 0
    BY <2>1 DEF start
  <2>5. (\A t \in PortLevel(o, start, things).found : t \in Seq(Names) /\ Len(t) = 0 + 1) /\ Good(one)
    BY <2>2, <2>3, <2>4, <1>1
  <2> QED
    BY <2>3, <2>5
<1>3. (\A t \in two.found : t \in Seq(Names) /\ Len(t) = 2) /\ Good(two)
  <2> HIDE DEF one
  <2> QED
    BY <1>2, <1>1
<1>4. Good(three)
  <2> HIDE DEF two
  <2> QED
    BY <1>3, <1>1
<1>5. Port(o, things) \in {Throws, Collects(one.items \cup two.items \cup three.items \cup
                                           All("exists", three.found))}
  BY DEF Port
<1> HIDE DEF one, two, three
<1>6. AbsencesAreReal(p, o, s, things, Collects(one.items \cup two.items \cup three.items \cup
                                           All("exists", three.found)))
  <2>1. ASSUME NEW x \in one.items \cup two.items \cup three.items \cup All("exists", three.found),
               IsAbsence(x)
        PROVE  ReallyAbsent(p, o, s, things, x.thing)
    <3>1. x \notin All("exists", three.found)
      BY <2>1, AllHaveTheStatus DEF IsAbsence
    <3> QED
      BY <3>1, <2>1, <1>2, <1>3, <1>4 DEF Good
  <2> QED
    BY <2>1 DEF AbsencesAreReal, Collects
<1> QED
  BY <1>5, <1>6, ThrowsNothing, NoneAreReal

-----------------------------------------------------------------------------
\* What the probes of files report when the finder has found nothing.
LEMMA DoesNotExistIsAnItem ==
  \A t : DoesNotExist(t).thing = t /\ IsItem(DoesNotExist(t)) /\ IsAbsence(DoesNotExist(t))
<1>1. ASSUME NEW t PROVE /\ DoesNotExist(t).thing = t
                         /\ DoesNotExist(t).status = "does not exist"
  BY DEF DoesNotExist
<1> QED
  BY <1>1 DEF DoesNotExist, IsItem, IsAbsence

FirstIsAbsent(p, o, s) == \A t : 1 \in DOMAIN t => ReallyAbsent(p, o, s, s.there, t)
HasThePaths(p, o, s, inner, files) ==
  \A u \in Alike(p, o, s.there) : \E w \in files.there : Len(w) = Len(inner) /\ w[1] = u[1]
\* What the finder reports as missing was looked up by name and not found.
LEMMA ReportedAbsences ==
  ASSUME NEW p, NEW o, NEW s, NEW inner, NEW files, NEW x \in ReportMissing(inner, files),
         1 \in DOMAIN o, o[1] = inner[1], Len(inner) \in {1, 2},
         HasThePaths(p, o, s, inner, files)
  PROVE  /\ FirstIsAbsent(p, o, s)
         /\ 1 \in DOMAIN x.thing /\ Len(x.thing) = Len(inner) /\ IsItem(x)
<1> DEFINE ones == {t[1] : t \in {u \in files.there : Len(u) = 1}}
<1>1. /\ \E v : v \in Unfound(inner[1], IF Len(inner) = 1 THEN ones ELSE Paths(files))
      /\ 1 \in DOMAIN x.thing /\ Len(x.thing) = Len(inner) /\ IsItem(x)
  <2>1. CASE Len(inner) = 1
    <3>1. x \in All("does not exist", Single(Unfound(inner[1], ones)))
      BY <2>1 DEF ReportMissing
    <3>2. PICK v \in Unfound(inner[1], ones) : x = [status |-> "does not exist", thing |-> <<v>>]
      BY <3>1 DEF All, Single
    <3>3. IsItem(x)
      BY <3>2, DoesNotExistIsAnItem DEF DoesNotExist
    <3>4. x.thing = <<v>> /\ v \in Unfound(inner[1], ones)
      BY <3>2
    <3>5. 1 \in DOMAIN x.thing /\ Len(x.thing) = 1
      BY <3>4
    <3>6. v \in Unfound(inner[1], IF Len(inner) = 1 THEN ones ELSE Paths(files))
      BY <2>1
    <3> QED
      BY <3>3, <3>5, <3>6, <2>1
  <2>2. CASE Len(inner) = 2
    <3>1. x = DoesNotExist(<<Nothing, Nothing>>) /\ Unfound(inner[1], Paths(files)) # {}
      BY <2>2 DEF ReportMissing
    <3>2. x.thing = <<Nothing, Nothing>> /\ IsItem(x)
      BY <3>1, DoesNotExistIsAnItem
    <3> QED
      BY <3>1, <3>2, <2>2
  <2> QED
    BY <2>1, <2>2
<1>2. PICK v : v \in Unfound(inner[1], IF Len(inner) = 1 THEN ones ELSE Paths(files))
  BY <1>1
<1>3. v \in Sought(o[1])
  BY <1>2 DEF Unfound, Sought
<1>4. v \notin (IF Len(inner) = 1 THEN ones ELSE Paths(files))
  BY <1>2 DEF Unfound
<1>5. \A w \in files.there : Len(w) = Len(inner) => w[1] # v
  BY <1>4 DEF Paths
<1>6. \A u \in Alike(p, o, s.there) : u[1] # v
  BY <1>5 DEF HasThePaths
<1> QED
  BY <1>1, <1>3, <1>6 DEF ReallyAbsent, FirstIsAbsent

\* A probe whose readings never say that something does not exist.
NeverAbsent(result) == \A a \in Answers : result[a] # "does not exist"
LEMMA NeverTheAnswer ==
  /\ NeverAbsent(Always("exists")) /\ NeverAbsent(Always("error"))
  /\ NeverAbsent(Always("none"))
  /\ NeverAbsent(ByAnswer("exists", "error", "error"))
  /\ NeverAbsent(ByAnswer("exists", "none", "none"))
  /\ NeverAbsent(ByAnswer("exists", "throws", "throws"))
  /\ NeverAbsent(ByAnswer("exists", "none", "throws"))
  /\ NeverAbsent(ByAnswer("exists", "none", "error"))
  BY DEF NeverAbsent, Always, ByAnswer, Answers

\* Then only the report of the finder says that something does not exist.
LEMMA NoOtherAbsence ==
  ASSUME NEW inner, NEW s, NEW directory, NEW file,
         NEW x \in CollectFiles(inner, s, directory, file).items, IsAbsence(x),
         inner \in Seq(Entity), Len(inner) \in {1, 2}, s.read \in [Names -> Answers],
         NeverAbsent(directory), NeverAbsent(file)
  PROVE  x \in ReportMissing(inner, s)
<1> DEFINE found == SearchFiles(inner, s)
           IsDirectory(t) == Len(t) = 2 /\ t[2] = Nothing
           directories == {t \in found : IsDirectory(t)}
           A(t) == s.read[IF IsDirectory(t) THEN t[1] ELSE t[Len(t)]]
           Read(things, result) ==
             (IF \E t \in things : result[A(t)] = "throws" THEN Throws
              ELSE Collects({[status |-> result[A(t)], thing |-> t] :
                               t \in {u \in things : result[A(u)] # "none"}})).items
<1>1. \A i \in DOMAIN inner : inner[i].matches \subseteq Names
  <2>1. \A i \in DOMAIN inner : inner[i] \in Entity
    OBVIOUS
  <2> QED
    BY <2>1 DEF Entity
<1>2. ASSUME NEW t \in found PROVE A(t) \in Answers
  <2>1. CASE Len(inner) = 1
    <3>1. PICK n \in inner[1].matches : t = <<n>>
      BY <2>1, <1>2 DEF SearchFiles, Single, Chosen
    <3>2. n \in Names /\ A(t) = s.read[n]
      BY <3>1, <2>1, <1>1
    <3> QED
      BY <3>2
  <2>2. CASE Len(inner) = 2
    <3>1. PICK path \in Chosen(inner[1], Paths(s)) :
            t \in (IF inner[2].nil THEN {<<path, Nothing>>}
                   ELSE {<<path, f>> : f \in Chosen(inner[2], Seconds(s.there, path) \ {Nothing})})
      BY <2>2, <1>2 DEF SearchFiles
    <3>2. path \in Names
      BY <3>1, <2>2, <1>1 DEF Chosen
    <3>3. CASE inner[2].nil
      <4>1. t = <<path, Nothing>>
        BY <3>1, <3>3
      <4>2. A(t) = s.read[path]
        BY <4>1
      <4> QED
        BY <4>2, <3>2
    <3>4. CASE ~ inner[2].nil
      <4>1. PICK f \in Chosen(inner[2], Seconds(s.there, path) \ {Nothing}) : t = <<path, f>>
        BY <3>1, <3>4
      <4>2. f \in Names /\ f # Nothing
        BY <4>1, <2>2, <1>1 DEF Chosen
      <4>3. A(t) = s.read[f]
        BY <4>1, <4>2
      <4> QED
        BY <4>2, <4>3
    <3> QED
      BY <3>3, <3>4
  <2> QED
    BY <2>1, <2>2
<1>3. ASSUME NEW things, things \subseteq found, NEW result, NeverAbsent(result),
             NEW y \in Read(things, result)
      PROVE  ~ IsAbsence(y)
  <2>1. PICK t \in things : y = [status |-> result[A(t)], thing |-> t]
    BY <1>3 DEF Throws, Collects
  <2>2. A(t) \in Answers
    BY <1>2, <1>3
  <2>3. y.status = result[A(t)]
    BY <2>1
  <2> QED
    BY <2>2, <2>3, <1>3 DEF NeverAbsent, IsAbsence
<1>4. \/ x \in Throws.items
      \/ x \in Collects(ReportMissing(inner, s)).items
      \/ x \in Read(directories, directory) \cup Read(found \ directories, file)
  BY DEF CollectFiles, Both, ReadEach, Throws, Collects
<1> HIDE DEF Read, A, found, directories
<1>5. directories \subseteq found
  BY DEF directories
<1>6. x \notin Read(directories, directory) \cup Read(found \ directories, file)
  BY <1>3, <1>5
<1> QED
  BY <1>4, <1>6 DEF Throws, Collects

\* A probe of files is asked for a path and a filename or for a filepath.
LEMMA FileObjects ==
  ASSUME NEW p \in OfFile, NEW o, IsObject(p, o), NEW s, IsSystem(p, s)
  PROVE  /\ o \in Seq(Entity) /\ Len(o) \in {1, 2} /\ s.read \in [Names -> Answers]
         /\ \A u \in Alike(p, o, s.there) : Len(u) = Len(o)
<1>1. p \notin OnFiles \cup {"filehash58"} \cup TwoEntities \cup ThreeEntities
  BY DEF OfFile, OnFiles, TwoEntities, ThreeEntities, OnNames, OnKeys, WithNil
<1>2. ObjectLengths(p) = {1, 2}
  BY <1>1 DEF ObjectLengths
<1> QED
  BY <1>2 DEF IsObject, IsSystem, Alike

\* The items of files, found or reported as missing.
LEMMA AbsencesOfFiles ==
  ASSUME NEW p \in OfFile, NEW o, IsObject(p, o), NEW s, IsSystem(p, s),
         NEW directory, NEW file, NeverAbsent(directory), NeverAbsent(file)
  PROVE  AbsencesAreReal(p, o, s, s.there, CollectFiles(o, s, directory, file))
<1>1. /\ o \in Seq(Entity) /\ Len(o) \in {1, 2} /\ s.read \in [Names -> Answers]
      /\ \A u \in Alike(p, o, s.there) : Len(u) = Len(o)
  BY FileObjects
<1>2. 1 \in DOMAIN o
  BY <1>1
<1>3. HasThePaths(p, o, s, o, s)
  BY <1>1 DEF HasThePaths, Alike
<1>4. ASSUME NEW x \in CollectFiles(o, s, directory, file).items, IsAbsence(x)
      PROVE  ReallyAbsent(p, o, s, s.there, x.thing)
  <2>1. x \in ReportMissing(o, s)
    BY <1>1, <1>4, NoOtherAbsence
  <2> QED
    BY <2>1, <1>1, <1>2, <1>3, ReportedAbsences DEF FirstIsAbsent
<1> QED
  BY <1>4 DEF AbsencesAreReal

\* The same for each probe of files.
LEMMA AbsencesOfFileProbes ==
  ASSUME NEW p \in OfFile, NEW o, IsObject(p, o), NEW s, IsSystem(p, s), NEW line
  PROVE  /\ AbsencesAreReal(p, o, s, s.there, FileHash(o, s))
         /\ AbsencesAreReal(p, o, s, s.there, FileMd5(o, s))
         /\ AbsencesAreReal(p, o, s, s.there, TextFileContent(o, line, s))
         /\ AbsencesAreReal(p, o, s, s.there, TextFileContent54(o, s))
         /\ AbsencesAreReal(p, o, s, s.there, XmlFileContent(o, s))
         /\ AbsencesAreReal(p, o, s, s.there, File(o, s))
         /\ AbsencesAreReal(p, o, s, s.there, WinFile(o, s))
         /\ AbsencesAreReal(p, o, s, s.there, SelinuxContextOfFiles(o, s))
<1>1. AbsencesAreReal(p, o, s, s.there, Throws)
  BY ThrowsNothing, NoneAreReal
<1>2. /\ AbsencesAreReal(p, o, s, s.there, FileHash(o, s))
      /\ AbsencesAreReal(p, o, s, s.there, FileMd5(o, s))
      /\ AbsencesAreReal(p, o, s, s.there, TextFileContent(o, line, s))
  BY <1>1, AbsencesOfFiles, NeverTheAnswer DEF FileHash, FileMd5, TextFileContent
<1>3. /\ AbsencesAreReal(p, o, s, s.there, TextFileContent54(o, s))
      /\ AbsencesAreReal(p, o, s, s.there, XmlFileContent(o, s))
  BY AbsencesOfFiles, NeverTheAnswer DEF TextFileContent54, XmlFileContent
<1>4. /\ AbsencesAreReal(p, o, s, s.there, File(o, s))
      /\ AbsencesAreReal(p, o, s, s.there, WinFile(o, s))
      /\ AbsencesAreReal(p, o, s, s.there, SelinuxContextOfFiles(o, s))
  BY AbsencesOfFiles, NeverTheAnswer DEF File, WinFile, SelinuxContextOfFiles
<1> QED
  BY <1>2, <1>3, <1>4

\* What the probes of files collect are items.
LEMMA FileItems ==
  ASSUME NEW inner, NEW s, NEW directory, NEW file, Len(inner) \in {1, 2},
         NEW x \in CollectFiles(inner, s, directory, file).items
  PROVE  IsItem(x)
<1> DEFINE found == SearchFiles(inner, s)
           IsDirectory(t) == Len(t) = 2 /\ t[2] = Nothing
           directories == {t \in found : IsDirectory(t)}
           A(t) == s.read[IF IsDirectory(t) THEN t[1] ELSE t[Len(t)]]
           Read(things, result) ==
             (IF \E t \in things : result[A(t)] = "throws" THEN Throws
              ELSE Collects({[status |-> result[A(t)], thing |-> t] :
                               t \in {u \in things : result[A(u)] # "none"}})).items
<1>1. \/ x \in Throws.items
      \/ x \in Collects(ReportMissing(inner, s)).items
      \/ x \in Read(directories, directory) \cup Read(found \ directories, file)
  BY DEF CollectFiles, Both, ReadEach, Throws, Collects
<1>2. ASSUME NEW things, NEW result, x \in Read(things, result) PROVE IsItem(x)
  <2>1. PICK t \in things : x = [status |-> result[A(t)], thing |-> t]
    BY <1>2 DEF Throws, Collects
  <2>2. x.status = result[A(t)] /\ x.thing = t
    BY <2>1
  <2> HIDE DEF A
  <2> QED
    BY <2>1, <2>2 DEF IsItem
<1>3. ASSUME x \in ReportMissing(inner, s) PROVE IsItem(x)
  <2>1. \E t : x = DoesNotExist(t)
    BY <1>3 DEF ReportMissing, All, DoesNotExist
  <2> QED
    BY <2>1, DoesNotExistIsAnItem
<1> HIDE DEF Read, found, directories
<1> QED
  BY <1>1, <1>2, <1>3 DEF Throws, Collects

\* Digests of a file for each algorithm asked for.
LEMMA AbsencesOfDigests ==
  ASSUME NEW p, p = "filehash58", NEW o, IsObject(p, o), NEW s, IsSystem(p, s)
  PROVE  AbsencesAreReal(p, o, s, s.there, FileHash58(o, s))
<1> DEFINE inner == SubSeq(o, 1, Len(o) - 1)
           directory == Always("error")
           file == ByAnswer("exists", "error", "error")
           found == CollectFiles(inner, s, directory, file)
           NoFile(i) == \/ i.status = "does not exist"
                        \/ Len(i.thing) = 2 /\ i.thing[2] = Nothing
           files == {i \in found.items : NoFile(i)}
           others == {j \in found.items : ~ NoFile(j)}
           Digested(i, digest) == [i EXCEPT !.thing = Append(@, digest)]
           digests == {Digested(i, digest) : i \in others, digest \in o[Len(o)].matches}
<1>1. o \in Seq(Entity) /\ Len(o) \in {2, 3}
  <2>1. p \notin OfFile
    BY DEF OfFile
  <2>2. ObjectLengths(p) = {2, 3}
    <3>1. p \notin TwoEntities \cup ThreeEntities
      BY DEF TwoEntities, ThreeEntities, OnNames, OnKeys, WithNil
    <3> QED
      BY <2>1, <3>1 DEF ObjectLengths
  <2> QED
    BY <2>2 DEF IsObject
<1>2. inner \in Seq(Entity) /\ Len(inner) = Len(o) - 1 /\ inner[1] = o[1] /\ 1 \in DOMAIN o
  BY <1>1
<1>3. s.read \in [Names -> Answers]
  BY DEF IsSystem
<1>4. HasThePaths(p, o, s, inner, s)
  BY <1>2 DEF HasThePaths, Alike
<1> HIDE DEF inner
<1>5. Len(inner) \in {1, 2}
  BY <1>1, <1>2
<1>10. NeverAbsent(directory) /\ NeverAbsent(file)
  BY NeverTheAnswer
<1> HIDE DEF directory, file
<1>11. \A i \in found.items : IsItem(i)
  BY <1>5, FileItems
<1>6. ASSUME NEW x \in files, IsAbsence(x) PROVE ReallyAbsent(p, o, s, s.there, x.thing)
  <2>1. x \in ReportMissing(inner, s)
    BY <1>2, <1>3, <1>5, <1>6, <1>10, NoOtherAbsence
  <2> QED
    BY <2>1, <1>2, <1>4, <1>5, ReportedAbsences DEF FirstIsAbsent
<1>12. \A i \in others : i \in found.items /\ ~ IsAbsence(i)
  BY Zenon DEF IsAbsence
<1>13. ASSUME NEW i, IsItem(i), NEW digest PROVE Digested(i, digest).status = i.status
  BY <1>13 DEF IsItem
<1> HIDE DEF found, others, Digested
<1>7. ASSUME NEW x \in digests PROVE ~ IsAbsence(x)
  <2>2. PICK i \in others, digest \in o[Len(o)].matches : x = Digested(i, digest)
    BY <1>7
  <2>4. x.status = i.status
    BY <2>2, <1>11, <1>12, <1>13
  <2>5. ~ IsAbsence(i)
    BY <2>2, <1>12
  <2> HIDE DEF digests
  <2> QED
    BY <2>4, <2>5 DEF IsAbsence
<1>8. FileHash58(o, s) \in {Throws, Collects(files \cup digests)}
  BY DEF FileHash58, inner, directory, file, found, others, Digested
<1> HIDE DEF files, digests
<1>9. AbsencesAreReal(p, o, s, s.there, Collects(files \cup digests))
  BY <1>6, <1>7 DEF AbsencesAreReal, Collects
<1> QED
  BY <1>8, <1>9, ThrowsNothing, NoneAreReal

\* The cache of DNS, groups and users.
LEMMA AbsencesOfAccounts ==
  ASSUME NEW p, NEW o, NEW s, p \notin Larger, IsObject(p, o), IsSystem(p, s)
  PROVE  /\ AbsencesAreReal(p, o, s, s.there, DNSCache(o, s))
         /\ AbsencesAreReal(p, o, s, s.there, Group(o, s))
         /\ AbsencesAreReal(p, o, s, s.there, User(o, s))
<1>1. DOMAIN o = {1} /\ o \in Seq(Entity)
  BY OneEntity DEF IsObject
<1>2. o[1] \in Entity
  BY <1>1
<1>3. AbsencesAreReal(p, o, s, s.there, DNSCache(o, s))
  BY CommonAnswers, AbsencesOfEach DEF DNSCache
<1>4. AbsencesAreReal(p, o, s, s.there, Group(o, s))
  BY CommonAnswers, AbsencesOfEach DEF Group
<1>5. AbsencesAreReal(p, o, s, s.there, User(o, s))
  <2> DEFINE e == o[1]
             checked == [e EXCEPT !.values = IF e.var THEN @ \cap e.matches ELSE @]
             result == ByAnswer("exists", IF e.op = "equals" THEN "does not exist" ELSE "none",
                                "exists")
  <2>1. /\ checked.op = o[1].op /\ checked.matches = o[1].matches
        /\ checked.values \subseteq o[1].values
    BY <1>2 DEF Entity
  <2>2. OnlyForAbsent(result)
    BY DEF OnlyForAbsent, ByAnswer
  <2>3. User(o, s) = AskEach(checked, s, result)
    BY DEF User
  <2> HIDE DEF checked, result
  <2> QED
    BY <2>1, <2>2, <2>3, AbsencesOfEach
<1> QED
  BY <1>3, <1>4, <1>5

-----------------------------------------------------------------------------
\* The probes of access lists: the names of a thing, the trustee last.
LEMMA RightsObjects ==
  ASSUME NEW p, p \in OnNames \cup OnFiles \cup OnKeys, NEW o, IsObject(p, o),
         NEW s, IsSystem(p, s)
  PROVE  /\ o \in Seq(Entity) /\ Len(o) \in {2, 3} /\ DOMAIN o = 1 .. Len(o)
         /\ p \in OnNames => Len(o) = 2
         /\ p \in OnKeys => Len(o) = 3
         /\ \A u \in s.there : u \in Seq(Names \cup {Nothing})
         /\ \A u \in Alike(p, o, s.there) : u \in s.there /\ Len(u) = Len(o)
         /\ s.read \in [Names -> Answers]
         /\ p \notin OfFile \cup {"filehash58"}
         /\ p \in OnNames \cup OnKeys => p \notin OnFiles
<1>1. /\ p \notin OfFile /\ p # "filehash58" /\ p \notin {"process", "macprocess"}
      /\ p \in OnNames => p \notin OnFiles
      /\ p \in OnKeys => p \notin OnFiles \cup TwoEntities
      /\ p \in OnFiles => p \notin TwoEntities \cup ThreeEntities
      /\ p \in OnNames => p \in TwoEntities /\ p \notin ThreeEntities
      /\ p \in OnKeys => p \in ThreeEntities
  BY DEF OfFile, OnFiles, TwoEntities, ThreeEntities, OnNames, OnKeys, WithNil
<1>2. /\ p \in OnNames => ObjectLengths(p) = {2} /\ ThingLengths(p) = {2}
      /\ p \in OnKeys => ObjectLengths(p) = {3} /\ ThingLengths(p) = {3}
      /\ p \in OnFiles => ObjectLengths(p) = {2, 3}
  BY <1>1 DEF ObjectLengths, ThingLengths
<1>3. o \in Seq(Entity) /\ Len(o) \in ObjectLengths(p)
  BY DEF IsObject
<1>4. /\ s.read \in [Names -> Answers]
      /\ \A u \in s.there : u \in Seq(Names \cup {Nothing}) /\ Len(u) \in ThingLengths(p)
  BY DEF IsSystem, AreThings
<1>7. Len(o) \in {2, 3}
  BY <1>2, <1>3
<1>8. DOMAIN o = 1 .. Len(o)
  BY <1>3
<1>5. Len(o) \in {2, 3} /\ DOMAIN o = 1 .. Len(o)
  BY <1>7, <1>8
<1>6. ASSUME NEW u \in Alike(p, o, s.there) PROVE u \in s.there /\ Len(u) = Len(o)
  BY <1>2, <1>3, <1>4, <1>6 DEF Alike
<1> QED
  BY <1>1, <1>2, <1>3, <1>4, <1>5, <1>6

\* A trustee that does not exist is no account, and stands in no list.
AreContainers(o, containers) ==
  \A c \in containers : c \in Seq(Names \cup {Nothing}) /\ Len(c) = Len(o) - 1
RightsAreReal(p, o, s, items) ==
  \A x \in items : /\ IsItem(x) /\ Len(x.thing) = Len(o)
                   /\ IsAbsence(x) => ReallyAbsent(p, o, s, s.there, x.thing)
\* Trustees that are looked up for each container.
LEMMA AbsentTrustees ==
  ASSUME NEW p, NEW o, NEW s, NEW report, NEW containers,
         p \in OnNames \cup OnFiles \cup OnKeys, IsObject(p, o), IsSystem(p, s),
         AreContainers(o, containers)
  PROVE  RightsAreReal(p, o, s, RightsOn(containers, o[Len(o)], s, report))
<1> SUFFICES ASSUME NEW x \in RightsOn(containers, o[Len(o)], s, report)
             PROVE  /\ IsItem(x) /\ Len(x.thing) = Len(o)
                    /\ IsAbsence(x) => ReallyAbsent(p, o, s, s.there, x.thing)
  BY DEF RightsAreReal
<1> DEFINE n == Len(o)
           e == o[n]
<1>1. /\ o \in Seq(Entity) /\ n \in {2, 3} /\ n \in DOMAIN o
      /\ \A u \in Alike(p, o, s.there) : u \in s.there /\ Len(u) = n
  BY RightsObjects
<1>2. PICK c \in containers :
        LET found == Trustees(e, AccessList(c, s.there), s.known)
        IN  \/ x \in {Exists(c \o <<t>>) : t \in found}
            \/ x = DoesNotExist(c \o <<Nothing>>) /\ ReportTrusteeDoesNotExist(e, s.known)
  BY DEF RightsOn
<1>6. c \in Seq(Names \cup {Nothing}) /\ Len(c) = n - 1
  BY DEF AreContainers
<1>3. \A t \in Names \cup {Nothing} : Len(c \o <<t>>) = n
  BY <1>1, <1>6
<1>4. CASE x \in {Exists(c \o <<t>>) : t \in Trustees(e, AccessList(c, s.there), s.known)}
  <2>1. PICK t : x = Exists(c \o <<t>>)
    BY <1>4
  <2>2. x.thing = c \o <<t>> /\ IsItem(x) /\ ~ IsAbsence(x)
    <3>1. x \in All("exists", {c \o <<t>>})
      BY <2>1 DEF Exists, All
    <3>2. x.thing = c \o <<t>> /\ x.status = "exists"
      BY <3>1, AllHaveTheStatus
    <3>3. x.thing = c \o <<t>> /\ IsItem(x)
      BY <2>1, <3>2 DEF Exists, IsItem
    <3> QED
      BY <3>2, <3>3, Zenon DEF IsAbsence
  <2>3. c \in Seq(Names \cup {Nothing, t}) /\ Len(c) = n - 1
    BY <1>6
  <2>4. Len(c \o <<t>>) = n
    BY <2>3, <1>1
  <2> QED
    BY <2>2, <2>4
<1>5. CASE x = DoesNotExist(c \o <<Nothing>>) /\ ReportTrusteeDoesNotExist(e, s.known)
  <2>1. x.thing = c \o <<Nothing>> /\ IsItem(x)
    BY <1>5, DoesNotExistIsAnItem
  <2>2. PICK v \in e.values : v \notin s.known /\ e.op = "equals"
    BY <1>5 DEF ReportTrusteeDoesNotExist
  <2>3. v \in Sought(e) /\ v \in Names
    BY <2>2, <1>1, EntityFacts, NamesAssumption DEF Sought
  <2>4. \A u \in Alike(p, o, s.there) : u[n] # v
    <3>1. \A u \in s.there : u[Len(u)] \in s.known \cup {Nothing}
      BY KnownTrustees
    <3> QED
      BY <3>1, <2>2, <2>3, <1>1, NamesAssumption
  <2>5. Len(x.thing) = n /\ n \in DOMAIN x.thing
    <3>1. c \o <<Nothing>> \in Seq(Names \cup {Nothing})
      BY <1>6
    <3> QED
      BY <3>1, <2>1, <1>3, <1>1
  <2> HIDE DEF n
  <2>6. ReallyAbsent(p, o, s, s.there, x.thing)
    BY <2>3, <2>4, <2>5, <1>1 DEF ReallyAbsent
  <2> QED
    BY <2>1, <2>5, <2>6 DEF n
<1> QED
  BY <1>2, <1>4, <1>5

\* Access lists of services and printers.
LEMMA AbsencesOfNamed ==
  ASSUME NEW p, p \in OnNames, NEW o, IsObject(p, o), NEW s, IsSystem(p, s), NEW report
  PROVE  AbsencesAreReal(p, o, s, s.there, Named(o, s, report))
<1> DEFINE names == {c[1] : c \in Containers(s.there)}
           containers == Single(Chosen(o[1], names))
<1>1. o \in Seq(Entity) /\ Len(o) = 2 /\ 1 \in DOMAIN o
  BY RightsObjects
<1>2. AreContainers(o, containers)
  <2>1. o[1].matches \subseteq Names
    BY <1>1, EntityFacts
  <2>2. ASSUME NEW c \in containers
        PROVE  c \in Seq(Names \cup {Nothing}) /\ Len(c) = Len(o) - 1
    <3>1. PICK n \in o[1].matches : c = <<n>>
      BY <2>2 DEF Single, Chosen
    <3> QED
      BY <3>1, <2>1, <1>1
  <2> QED
    BY <2>2 DEF AreContainers
<1> HIDE DEF containers
<1>3. AbsencesAreReal(p, o, s, s.there, Collects(RightsOn(containers, o[Len(o)], s, report)))
  BY <1>2, AbsentTrustees DEF AbsencesAreReal, Collects, RightsAreReal
<1>4. Named(o, s, report) \in {Throws, Collects(RightsOn(containers, o[Len(o)], s, report))}
  BY <1>1 DEF Named, containers
<1> QED
  BY <1>3, <1>4, ThrowsNothing, NoneAreReal

\* Access lists of keys: the hive, the key and the trustee in turn.
LEMMA AbsencesOfKeys ==
  ASSUME NEW p, p \in OnKeys, NEW o, IsObject(p, o), NEW s, IsSystem(p, s)
  PROVE  AbsencesAreReal(p, o, s, s.there, OfKeys(o, s))
<1> DEFINE containers == Containers(s.there)
           there == {c[1] : c \in containers}
           found == UNION {{<<h, k>> : k \in Chosen(o[2], Seconds(containers, h))} :
                             h \in Chosen(o[1], there)}
<1>1. /\ o \in Seq(Entity) /\ Len(o) = 3 /\ DOMAIN o = 1 .. 3
      /\ \A u \in s.there : u \in Seq(Names \cup {Nothing}) /\ Len(u) = 3
      /\ p \notin OfFile \cup OnFiles \cup {"filehash58"}
  <2>1. p \notin OfFile \cup OnFiles \cup {"filehash58"}
    BY RightsObjects
  <2>2. Alike(p, o, s.there) = s.there
    BY <2>1, AlikeThings
  <2> QED
    BY <2>1, <2>2, RightsObjects
<1>2. \A i \in 1 .. 3 : o[i].matches \subseteq Names
  BY <1>1, EntityFacts
<1>3. \A u \in s.there : /\ Container(u) \in containers /\ Len(Container(u)) = 2
                         /\ Container(u)[1] = u[1] /\ Container(u)[2] = u[2]
  <2>1. ASSUME NEW u \in s.there
        PROVE  /\ Container(u) \in containers /\ Len(Container(u)) = 2
               /\ Container(u)[1] = u[1] /\ Container(u)[2] = u[2]
    <3>1. u \in Seq(Names \cup {Nothing}) /\ Len(u) = 3
      BY <2>1, <1>1
    <3>2. Container(u) = SubSeq(u, 1, 2)
      BY <3>1 DEF Container
    <3>3. Container(u) \in containers
      BY <2>1 DEF Containers
    <3> QED
      BY <3>1, <3>2, <3>3
  <2> QED
    BY <2>1
<1>4. AreContainers(o, found)
  <2>1. ASSUME NEW c \in found PROVE c \in Seq(Names \cup {Nothing}) /\ Len(c) = 2
    <3>1. PICK h \in o[1].matches, k \in o[2].matches : c = <<h, k>>
      BY <2>1 DEF Chosen
    <3> QED
      BY <3>1, <1>2
  <2> HIDE DEF found
  <2> QED
    BY <2>1, <1>1 DEF AreContainers
<1>5. AbsencesAreReal(p, o, s, s.there, Collects(RightsOn(found, o[3], s, TRUE)))
  <2> HIDE DEF found
  <2>1. \A x \in RightsOn(found, o[Len(o)], s, TRUE) :
          IsAbsence(x) => ReallyAbsent(p, o, s, s.there, x.thing)
    BY <1>4, AbsentTrustees DEF RightsAreReal
  <2> QED
    BY <2>1, <1>1 DEF AbsencesAreReal, Collects
<1>6. ASSUME NEW x \in MissingKeys(o[1], o[2], containers)
      PROVE  ReallyAbsent(p, o, s, s.there, x.thing)
  <2>1. CASE Missing(o[1], there) # {}
    <3>1. x.thing = <<Nothing, Nothing, Nothing>>
      BY <1>6, <2>1, DoesNotExistIsAnItem DEF MissingKeys
    <3>2. PICK v : v \in Missing(o[1], there)
      BY <2>1
    <3>3. v \in Sought(o[1]) /\ v \notin there
      BY <3>2 DEF Missing, Sought
    <3>4. v \notin Firsts(s.there)
      BY <3>3, <1>3 DEF Firsts
    <3>5. 1 \in DOMAIN o \cap DOMAIN x.thing
      BY <3>1, <1>1
    <3> QED
      BY <3>3, <3>4, <3>5, <1>1, AbsentFirst
  <2>2. CASE Missing(o[1], there) = {}
    <3>1. PICK h \in Chosen(o[1], there) :
            x = DoesNotExist(<<h, Nothing, Nothing>>) /\ Missing(o[2], Seconds(containers, h)) # {}
      BY <1>6, <2>2 DEF MissingKeys
    <3>2. x.thing = <<h, Nothing, Nothing>>
      BY <3>1, DoesNotExistIsAnItem
    <3>3. PICK v : v \in Missing(o[2], Seconds(containers, h))
      BY <3>1
    <3>4. v \in Sought(o[2]) /\ v \notin Seconds(containers, h)
      BY <3>3 DEF Missing, Sought
    <3>5. h \in Names
      BY <3>1, <1>1, <1>2 DEF Chosen
    <3>6. \A u \in s.there : u[2] = v => u[1] # h
      BY <3>4, <1>3 DEF Seconds
    <3>7. \A u \in s.there : u[2] = v => \E j \in 1 .. 2 - 1 : x.thing[j] \notin {Nothing, u[j]}
      BY <3>2, <3>5, <3>6, NamesAssumption
    <3>8. 2 \in DOMAIN o \cap DOMAIN x.thing
      BY <3>2, <1>1
    <3> QED
      BY <3>4, <3>7, <3>8, <1>1, AbsentBelow
  <2> QED
    BY <2>1, <2>2
<1>7. AbsencesAreReal(p, o, s, s.there, Collects(MissingKeys(o[1], o[2], containers)))
  <2> HIDE DEF containers
  <2> QED
    BY <1>6 DEF AbsencesAreReal, Collects
<1>8. OfKeys(o, s) \in {Throws, Collects(MissingKeys(o[1], o[2], containers)),
                        Collects(RightsOn(found, o[3], s, TRUE))}
  BY DEF OfKeys
<1> HIDE DEF found, containers
<1> QED
  BY <1>5, <1>7, <1>8, ThrowsNothing, NoneAreReal

\* Access lists of files that the finder has found or reported.
LEMMA AbsencesOfOfFiles ==
  ASSUME NEW p, p \in OnFiles, NEW o, IsObject(p, o), NEW s, IsSystem(p, s)
  PROVE  AbsencesAreReal(p, o, s, s.there, OfFiles(o, s))
<1> DEFINE files == FileThings(s)
           inner == Container(o)
           found == SearchFiles(inner, files)
           rights == RightsOn(found, Final(o), s, TRUE)
           missing == ReportMissing(inner, files)
           Shown(i) == IF Len(i.thing) = Len(o) THEN i ELSE [i EXCEPT !.thing = @ \o <<Nothing>>]
           Good(x) == IsAbsence(x) => ReallyAbsent(p, o, s, s.there, x.thing)
<1>1. /\ o \in Seq(Entity) /\ Len(o) \in {2, 3} /\ DOMAIN o = 1 .. Len(o)
      /\ \A u \in s.there : u \in Seq(Names \cup {Nothing})
      /\ \A u \in Alike(p, o, s.there) : u \in s.there /\ Len(u) = Len(o)
  BY RightsObjects
<1>2. /\ inner \in Seq(Entity) /\ Len(inner) = Len(o) - 1 /\ 1 \in DOMAIN o
      /\ inner[1] = o[1]
      /\ Len(o) = 3 => inner[2] = o[2]
  BY <1>1 DEF Container
<1>3. files.there = Containers(s.there)
  BY DEF FileThings
<1>4. \A i \in DOMAIN o : o[i].matches \subseteq Names
  BY EntityFacts
<1> HIDE DEF inner, files
<1>5. Len(inner) \in {1, 2}
  BY <1>1, <1>2
<1>6. HasThePaths(p, o, s, inner, files)
  <2>1. ASSUME NEW u \in Alike(p, o, s.there)
        PROVE  \E w \in files.there : Len(w) = Len(inner) /\ w[1] = u[1]
    <3>1. u \in s.there /\ u \in Seq(Names \cup {Nothing}) /\ Len(u) = Len(o)
      BY <2>1, <1>1
    <3>2. Len(Container(u)) = Len(inner) /\ Container(u)[1] = u[1]
      BY <3>1, <1>1, <1>2 DEF Container
    <3>3. Container(u) \in files.there
      BY <3>1, <1>3 DEF Containers
    <3> QED
      BY <3>2, <3>3
  <2> QED
    BY <2>1 DEF HasThePaths
<1>7. AreContainers(o, found)
  <2>1. ASSUME NEW c \in found
        PROVE  c \in Seq(Names \cup {Nothing}) /\ Len(c) = Len(inner)
    <3>1. CASE Len(inner) = 1
      <4>1. PICK n \in inner[1].matches : c = <<n>>
        BY <2>1, <3>1 DEF SearchFiles, Single, Chosen
      <4>2. n \in Names
        BY <4>1, <1>2, <1>4
      <4> QED
        BY <4>1, <4>2, <3>1
    <3>2. CASE Len(inner) = 2
      <4>1. PICK path \in Chosen(inner[1], Paths(files)) :
              c \in (IF inner[2].nil THEN {<<path, Nothing>>}
                     ELSE {<<path, f>> : f \in Chosen(inner[2],
                                               Seconds(files.there, path) \ {Nothing})})
        BY <2>1, <3>2 DEF SearchFiles
      <4>2. PICK f \in inner[2].matches \cup {Nothing} : c = <<path, f>>
        BY <4>1 DEF Chosen
      <4>3. inner[2] = o[2] /\ 2 \in DOMAIN o
        BY <3>2, <1>1, <1>2
      <4>4. path \in Names /\ f \in Names \cup {Nothing}
        BY <4>1, <4>2, <4>3, <1>2, <1>4 DEF Chosen
      <4> QED
        BY <4>2, <4>4, <3>2
    <3> QED
      BY <3>1, <3>2, <1>5
  <2> HIDE DEF found
  <2> QED
    BY <2>1, <1>2 DEF AreContainers
<1> HIDE DEF found
<1>13. p \in OnNames \cup OnFiles \cup OnKeys
  OBVIOUS
<1>8. ASSUME NEW x \in rights PROVE Good(Shown(x))
  <2>1. /\ Len(x.thing) = Len(o)
        /\ IsAbsence(x) => ReallyAbsent(p, o, s, s.there, x.thing)
    <3>1. x \in RightsOn(found, o[Len(o)], s, TRUE)
      BY <1>8 DEF Final
    <3>2. RightsAreReal(p, o, s, RightsOn(found, o[Len(o)], s, TRUE))
      BY <1>7, <1>13, AbsentTrustees
    <3> HIDE DEF rights
    <3> QED
      BY <3>1, <3>2 DEF RightsAreReal
  <2>2. Shown(x) = x
    BY <2>1
  <2> QED
    BY <2>1, <2>2
<1>9. ASSUME NEW x \in missing PROVE Good(Shown(x))
  <2>1. /\ FirstIsAbsent(p, o, s)
        /\ 1 \in DOMAIN x.thing /\ IsItem(x) /\ Len(x.thing) = Len(inner)
    <3>1. 1 \in DOMAIN o /\ o[1] = inner[1]
      BY <1>2
    <3>2. x \in ReportMissing(inner, files)
      BY <1>9
    <3> HIDE DEF missing, Shown, Good
    <3> QED
      BY <3>1, <3>2, <1>5, <1>6, ReportedAbsences
  <2>2. 1 \in DOMAIN (x.thing \o <<Nothing>>)
    <3>1. CASE Len(inner) = 1
      <4> DEFINE absent == Unfound(inner[1], {t[1] : t \in {u \in files.there : Len(u) = 1}})
      <4>1. x \in All("does not exist", Single(absent))
        BY <1>9, <3>1 DEF ReportMissing
      <4>2. x.thing \in Single(absent)
        BY <4>1, AllHaveTheStatus
      <4>3. PICK v \in absent : x.thing = <<v>>
        BY <4>2 DEF Single
      <4> QED
        BY <4>3
    <3>2. CASE Len(inner) = 2
      <4>1. x = DoesNotExist(<<Nothing, Nothing>>)
        BY <1>9, <3>2 DEF ReportMissing
      <4>2. x.thing = <<Nothing, Nothing>>
        BY <4>1, DoesNotExistIsAnItem
      <4> QED
        BY <4>2
    <3> QED
      BY <3>1, <3>2, <1>5
  <2>3. Shown(x).thing \in {x.thing, x.thing \o <<Nothing>>}
    BY <2>1 DEF IsItem
  <2>4. 1 \in DOMAIN Shown(x).thing
    BY <2>1, <2>2, <2>3
  <2> HIDE DEF Shown
  <2> QED
    BY <2>1, <2>4 DEF FirstIsAbsent
<1>10. OfFiles(o, s) \in {Throws, Collects({Shown(i) : i \in missing}),
                          Collects({Shown(i) : i \in rights})}
  BY DEF OfFiles, found, files, inner
<1> HIDE DEF Shown, missing, rights
<1>11. AbsencesAreReal(p, o, s, s.there, Collects({Shown(i) : i \in missing}))
  BY <1>9 DEF AbsencesAreReal, Collects
<1>12. AbsencesAreReal(p, o, s, s.there, Collects({Shown(i) : i \in rights}))
  BY <1>8 DEF AbsencesAreReal, Collects
<1> QED
  BY <1>10, <1>11, <1>12, ThrowsNothing, NoneAreReal

\* All the probes of access lists.
LEMMA AbsencesOfAccessLists ==
  ASSUME NEW p, p \in OnNames \cup OnFiles \cup OnKeys, NEW o, IsObject(p, o),
         NEW s, IsSystem(p, s)
  PROVE  /\ p \in OnNames => /\ AbsencesAreReal(p, o, s, s.there, ServiceEffectiveRights(o, s))
                             /\ AbsencesAreReal(p, o, s, s.there, PrinterEffectiveRights(o, s))
         /\ p \in OnFiles =>
              /\ AbsencesAreReal(p, o, s, s.there, FileEffectiveRights(o, s))
              /\ AbsencesAreReal(p, o, s, s.there, FileEffectiveRights53(o, s))
              /\ AbsencesAreReal(p, o, s, s.there, FileAuditedPermissions(o, s))
              /\ AbsencesAreReal(p, o, s, s.there, FileAuditedPermissions53(o, s))
         /\ p \in OnKeys =>
              /\ AbsencesAreReal(p, o, s, s.there, RegKeyEffectiveRights(o, s))
              /\ AbsencesAreReal(p, o, s, s.there, RegKeyEffectiveRights53(o, s))
              /\ AbsencesAreReal(p, o, s, s.there, RegKeyAuditedPermissions(o, s))
              /\ AbsencesAreReal(p, o, s, s.there, RegKeyAuditedPermissions53(o, s))
<1>1. ASSUME p \in OnNames
      PROVE  /\ AbsencesAreReal(p, o, s, s.there, ServiceEffectiveRights(o, s))
             /\ AbsencesAreReal(p, o, s, s.there, PrinterEffectiveRights(o, s))
  BY <1>1, AbsencesOfNamed DEF ServiceEffectiveRights, PrinterEffectiveRights
<1>2. ASSUME p \in OnFiles
      PROVE  /\ AbsencesAreReal(p, o, s, s.there, FileEffectiveRights(o, s))
             /\ AbsencesAreReal(p, o, s, s.there, FileEffectiveRights53(o, s))
             /\ AbsencesAreReal(p, o, s, s.there, FileAuditedPermissions(o, s))
             /\ AbsencesAreReal(p, o, s, s.there, FileAuditedPermissions53(o, s))
  BY <1>2, AbsencesOfOfFiles, ThrowsNothing, NoneAreReal
     DEF FileEffectiveRights, FileEffectiveRights53, FileAuditedPermissions,
         FileAuditedPermissions53
<1>3. ASSUME p \in OnKeys
      PROVE  /\ AbsencesAreReal(p, o, s, s.there, RegKeyEffectiveRights(o, s))
             /\ AbsencesAreReal(p, o, s, s.there, RegKeyEffectiveRights53(o, s))
             /\ AbsencesAreReal(p, o, s, s.there, RegKeyAuditedPermissions(o, s))
             /\ AbsencesAreReal(p, o, s, s.there, RegKeyAuditedPermissions53(o, s))
  BY <1>3, AbsencesOfKeys DEF RegKeyEffectiveRights, RegKeyEffectiveRights53,
     RegKeyAuditedPermissions, RegKeyAuditedPermissions53
<1> QED
  BY <1>1, <1>2, <1>3

\* Users of /etc/shadow.
LEMMA AbsencesOfShadow ==
  ASSUME NEW p, p = "shadow", NEW o, IsObject(p, o), NEW s, IsSystem(p, s)
  PROVE  AbsencesAreReal(p, o, s, s.there, Shadow(o, s))
<1>1. AbsencesAreReal(p, o, s, s.there, Password(o, s))
  BY AbsencesOfPassword
<1> QED
  BY <1>1, ThrowsNothing, NoneAreReal DEF Shadow

\* An answer that makes an absence is the answer for a name that is gone.
LEMMA OnlyWhatIsGone ==
  ASSUME NEW result, OnlyForAbsent(result), NEW x, IsAbsence(x),
         NEW a, a \in {"ok", "absent", "fails"}, x.status = result[a]
  PROVE  a = "absent"
<1>1. CASE a = "ok"
  <2>1. x.status = result["ok"]
    BY <1>1
  <2> QED
    BY <2>1 DEF OnlyForAbsent, IsAbsence
<1>2. CASE a = "fails"
  <2>1. x.status = result["fails"]
    BY <1>2
  <2> QED
    BY <2>1 DEF OnlyForAbsent, IsAbsence
<1> QED
  BY <1>1, <1>2

\* Queries of WMI, for each namespace.
LEMMA AbsencesOfQueries ==
  ASSUME NEW p, p \in {"wmi", "wmi57"}, NEW o, IsObject(p, o), NEW s, IsSystem(p, s)
  PROVE  AbsencesAreReal(p, o, s, s.there, WMI(o, s))
<1> DEFINE pairs == {<<n, q>> : n \in o[1].values, q \in o[2].values}
           A(t) == AnswerFor(t[2], Seconds(s.there, t[1]), s)
           result == ByAnswer("exists", "does not exist", "throws")
           read == (IF \E t \in pairs : result[A(t)] = "throws" THEN Throws
                    ELSE Collects({[status |-> result[A(t)], thing |-> t] :
                                     t \in {u \in pairs : result[A(u)] # "none"}}))
<1>1. /\ o \in Seq(Entity) /\ Len(o) = 2 /\ DOMAIN o = 1 .. 2
      /\ \A u \in s.there : u \in Seq(Names \cup {Nothing}) /\ Len(u) = 2
      /\ p \notin OfFile \cup OnFiles \cup {"filehash58"}
      /\ s.read \in [Names -> Answers]
  <2>1. /\ p \notin OfFile /\ p \notin OnFiles \cup {"filehash58"} /\ p \in TwoEntities
        /\ p \notin ThreeEntities /\ p \notin {"process", "macprocess"}
    BY DEF OfFile, OnFiles, TwoEntities, ThreeEntities, OnNames, OnKeys, WithNil
  <2>2. ObjectLengths(p) = {2} /\ ThingLengths(p) = {2}
    BY <2>1 DEF ObjectLengths, ThingLengths
  <2> QED
    BY <2>1, <2>2 DEF IsObject, IsSystem, AreThings
<1>2. \A i \in 1 .. 2 : o[i].values \subseteq Names
  BY <1>1, EntityFacts
<1>3. /\ WMI(o, s) \in {Throws, read}
      /\ WMI(o, s) # Throws => o[1].op = "equals" /\ o[2].op = "equals"
  <2> DEFINE refused == \E i \in 1 .. 2 : ~ Accepts(o[i], {"equals"})
  <2>1. WMI(o, s) = IF refused THEN Throws ELSE read
    BY DEF WMI, ReadEach
  <2>2. ~ refused => o[1].op = "equals" /\ o[2].op = "equals"
    BY DEF Accepts
  <2> HIDE DEF refused, read
  <2> QED
    BY <2>1, <2>2
<1>4. OnlyForAbsent(result)
  BY CommonAnswers
<1> HIDE DEF result
<1>5. ASSUME o[1].op = "equals" /\ o[2].op = "equals", NEW x \in read.items, IsAbsence(x)
      PROVE  ReallyAbsent(p, o, s, s.there, x.thing)
  <2>1. \E t \in pairs : x = [status |-> result[A(t)], thing |-> t]
    BY <1>5 DEF Throws, Collects
  <2>2. PICK n \in o[1].values, q \in o[2].values :
          x = [status |-> result[A(<<n, q>>)], thing |-> <<n, q>>]
    BY <2>1
  <2>3. x.thing = <<n, q>> /\ x.status = result[A(<<n, q>>)]
    BY <2>2
  <2>4. n \in Names /\ q \in Names
    BY <1>2
  <2>5. s.read[q] \in {"ok", "absent", "fails"}
    BY <2>4, <1>1 DEF Answers
  <2>6. A(<<n, q>>) = AnswerFor(q, Seconds(s.there, n), s)
    OBVIOUS
  <2> HIDE DEF A
  <2>12. A(<<n, q>>) \in {"ok", "absent", "fails"}
    BY <2>5, <2>6 DEF AnswerFor
  <2>7. A(<<n, q>>) = "absent"
    <3> DEFINE a == A(<<n, q>>)
    <3> HIDE DEF a
    <3>1. IsAbsence(x) /\ x.status = result[a] /\ a \in {"ok", "absent", "fails"}
      BY <2>3, <2>12, <1>5 DEF a
    <3>2. a = "absent"
      BY <3>1, <1>4, OnlyWhatIsGone
    <3> QED
      BY <3>2 DEF a
  <2>8. q \notin Seconds(s.there, n) \/ s.read[q] = "absent"
    BY <2>5, <2>6, <2>7 DEF AnswerFor
  <2>9. q \in Sought(o[2]) /\ 2 \in DOMAIN o \cap DOMAIN x.thing
    BY <2>3, <1>5, <1>1 DEF Sought
  <2>10. CASE s.read[q] = "absent"
    BY <2>9, <2>10, GoneAt
  <2>11. CASE q \notin Seconds(s.there, n)
    <3>1. \A u \in s.there : u[2] = q => u[1] # n
      BY <2>11, <1>1 DEF Seconds
    <3>2. \A u \in s.there : u[2] = q => \E j \in 1 .. 2 - 1 : x.thing[j] \notin {Nothing, u[j]}
      BY <3>1, <2>3, <2>4, NamesAssumption
    <3> QED
      BY <3>2, <2>9, <1>1, AbsentBelow
  <2> QED
    BY <2>8, <2>10, <2>11
<1> HIDE DEF read
<1>6. ASSUME o[1].op = "equals" /\ o[2].op = "equals"
      PROVE  AbsencesAreReal(p, o, s, s.there, read)
  BY <1>5, <1>6 DEF AbsencesAreReal
<1> QED
  BY <1>3, <1>6, ThrowsNothing, NoneAreReal

\* The hive, the key and the name of a registry object in turn.
LEMMA AbsencesOfRegistry ==
  ASSUME NEW p, p = "registry", NEW o, IsObject(p, o), NEW s, IsSystem(p, s)
  PROVE  AbsencesAreReal(p, o, s, s.there, Registry(o, s))
<1> DEFINE hives == Chosen(o[1], Firsts(s.there))
           Keys(h) == IF o[2].nil THEN {Nothing}
                      ELSE Chosen(o[2], Seconds(s.there, h) \ {Nothing})
           NamesOf(h, k) == {t[3] : t \in {u \in s.there : u[1] = h /\ u[2] = k}} \ {Nothing}
           Found(h, k) == IF o[3].nil THEN {Nothing} ELSE Chosen(o[3], NamesOf(h, k))
           found == {t \in UNION {{<<h, k, n>> : n \in Found(h, k)} :
                                    h \in hives, k \in UNION {Keys(x) : x \in hives}} :
                       t[2] \in Keys(t[1])}
           missingKeys == {h \in hives : Missing(o[2], Seconds(s.there, h)) # {}}
           missingNames == {<<h, k>> : h \in hives \ missingKeys,
                                       k \in UNION {Keys(x) : x \in hives}}
           A(t) == s.read[IF t[3] # Nothing THEN t[3] ELSE IF t[2] # Nothing THEN t[2] ELSE t[1]]
           result == ByAnswer("exists", "none", "error")
           read == (IF \E t \in found : result[A(t)] = "throws" THEN Throws
                    ELSE Collects({[status |-> result[A(t)], thing |-> t] :
                                     t \in {u \in found : result[A(u)] # "none"}}))
           noHive == {DoesNotExist(<<Nothing, Nothing, Nothing>>)}
           noKeys == {DoesNotExist(<<h, Nothing, Nothing>>) : h \in missingKeys}
           noNames == {DoesNotExist(<<c[1], c[2], Nothing>>) :
                         c \in {q \in missingNames : /\ q[2] \in Keys(q[1])
                                     /\ Missing(o[3], NamesOf(q[1], q[2])) # {}}}
<1>1. /\ DOMAIN o = 1 .. 3 /\ Len(o) = 3
      /\ \A u \in s.there : Len(u) = 3 /\ u \in Seq(Names \cup {Nothing})
      /\ p \notin OfFile \cup OnFiles \cup {"filehash58"}
      /\ s.read \in [Names -> Answers]
  BY ThreeNames DEF ThreeEntities, WithNil, IsSystem
<1>2. \A i \in 1 .. 3 : o[i].matches \subseteq Names /\ o[i].values \subseteq Names
  BY <1>1, EntityFacts
<1>3. o[2].nil => o[3].nil
  BY DEF IsObject, WithNil
<1>4. \A h \in hives : h \in Names
  BY <1>1, <1>2 DEF Chosen
<1>5. ASSUME NEW t \in found PROVE A(t) \in Answers
  <2>1. PICK h, k, n : h \in hives /\ n \in Found(h, k) /\ t = <<h, k, n>> /\ k \in Keys(h)
    <3> HIDE DEF hives, Found, Keys
    <3>1. PICK h \in hives, k \in UNION {Keys(x) : x \in hives} :
            t \in {<<h, k, n>> : n \in Found(h, k)} /\ t[2] \in Keys(t[1])
      BY <1>5
    <3> QED
      BY <3>1
  <2>2. k \in Names \cup {Nothing} /\ n \in Names \cup {Nothing} /\ h \in Names
    BY <2>1, <1>1, <1>2, <1>4 DEF Chosen
  <2>3. (IF t[3] # Nothing THEN t[3] ELSE IF t[2] # Nothing THEN t[2] ELSE t[1]) \in Names
    BY <2>1, <2>2
  <2> QED
    BY <2>3, <1>1
<1>6. NeverAbsent(result)
  BY NeverTheAnswer
<1> HIDE DEF result
<1>7. NoAbsences(read)
  <2> HIDE DEF A, found
  <2>1. ASSUME NEW x \in read.items PROVE ~ IsAbsence(x)
    <3>1. PICK t \in found : x = [status |-> result[A(t)], thing |-> t]
      BY <2>1 DEF Throws, Collects
    <3>2. x.status = result[A(t)] /\ A(t) \in Answers
      BY <3>1, <1>5
    <3> QED
      BY <3>2, <1>6 DEF NeverAbsent, IsAbsence
  <2> QED
    BY <2>1 DEF NoAbsences
<1>8. ASSUME Missing(o[1], Firsts(s.there)) # {}
      PROVE  AbsencesAreReal(p, o, s, s.there, Collects(noHive))
  <2>1. PICK v : v \in Missing(o[1], Firsts(s.there))
    BY <1>8
  <2>2. v \in Sought(o[1]) /\ v \notin Firsts(s.there)
    BY <2>1 DEF Missing, Sought
  <2>3. 1 \in DOMAIN o \cap DOMAIN <<Nothing, Nothing, Nothing>>
    BY <1>1
  <2> QED
    BY <2>2, <2>3, <1>1, AbsentFirst, OneAbsence
<1>9. ASSUME NEW x \in noKeys PROVE ReallyAbsent(p, o, s, s.there, x.thing)
  <2>1. PICK h \in missingKeys : x = DoesNotExist(<<h, Nothing, Nothing>>)
    BY <1>9
  <2>2. x.thing = <<h, Nothing, Nothing>> /\ h \in Names
    BY <2>1, <1>4, DoesNotExistIsAnItem
  <2>3. PICK v : v \in Missing(o[2], Seconds(s.there, h))
    BY <2>1
  <2>4. v \in Sought(o[2]) /\ v \notin Seconds(s.there, h)
    BY <2>3 DEF Missing, Sought
  <2>5. \A u \in s.there : u[2] = v => u[1] # h
    BY <2>4, <1>1 DEF Seconds
  <2>6. \A u \in s.there : u[2] = v => \E j \in 1 .. 2 - 1 : x.thing[j] \notin {Nothing, u[j]}
    BY <2>2, <2>5, NamesAssumption
  <2>7. 2 \in DOMAIN o \cap DOMAIN x.thing
    BY <2>2, <1>1
  <2> QED
    BY <2>4, <2>6, <2>7, <1>1, AbsentBelow
<1>10. ASSUME NEW x \in noNames PROVE ReallyAbsent(p, o, s, s.there, x.thing)
  <2> HIDE DEF missingNames, Keys, NamesOf
  <2>1. PICK c \in missingNames : /\ x = DoesNotExist(<<c[1], c[2], Nothing>>)
                                  /\ c[2] \in Keys(c[1])
                                  /\ Missing(o[3], NamesOf(c[1], c[2])) # {}
    BY <1>10
  <2>2. x.thing = <<c[1], c[2], Nothing>> /\ c[1] \in hives
    BY <2>1, DoesNotExistIsAnItem DEF missingNames
  <2>3. PICK v : v \in Missing(o[3], NamesOf(c[1], c[2]))
    BY <2>1
  <2>4. v \in Sought(o[3]) /\ v \in o[3].values /\ v \notin NamesOf(c[1], c[2]) /\ ~ o[3].nil
    <3> DEFINE below == NamesOf(c[1], c[2])
    <3> HIDE DEF below
    <3>1. v \in Missing(o[3], below)
      BY <2>3 DEF below
    <3>2. o[3].op = "equals" /\ ~ o[3].nil /\ v \in o[3].values \ below
      BY <3>1 DEF Missing
    <3>3. v \in Sought(o[3])
      BY <3>2 DEF Sought
    <3> QED
      BY <3>2, <3>3 DEF below
  <2>5. c[1] \in Names /\ c[2] \in Names
    BY <2>1, <2>2, <2>4, <1>1, <1>2, <1>3, <1>4 DEF Chosen, Keys
  <2>6. v # Nothing
    BY <2>4, <1>2, NamesAssumption
  <2>7. \A u \in s.there : u[3] = v => u[1] # c[1] \/ u[2] # c[2]
    BY <2>4, <2>6 DEF NamesOf
  <2>8. \A u \in s.there : u[3] = v =>
          x.thing[1] \notin {Nothing, u[1]} \/ x.thing[2] \notin {Nothing, u[2]}
    BY <2>2, <2>5, <2>7, NamesAssumption
  <2>9. \A u \in s.there : u[3] = v => \E j \in 1 .. 3 - 1 : x.thing[j] \notin {Nothing, u[j]}
    BY <2>8
  <2>10. 3 \in DOMAIN o \cap DOMAIN x.thing
    BY <2>2, <1>1
  <2> QED
    BY <2>4, <2>9, <2>10, <1>1, AbsentBelow
<1>11. \/ Registry(o, s) \in {Throws, read, Collects(noKeys \cup noNames)}
       \/ Missing(o[1], Firsts(s.there)) # {} /\ Registry(o, s) = Collects(noHive)
  <2> DEFINE refused == \E i \in DOMAIN o : ~ Accepts(o[i], ThreeOperations)
  <2>1. Registry(o, s) =
          IF refused THEN Throws
          ELSE IF found # {} THEN read
          ELSE Collects(IF Missing(o[1], Firsts(s.there)) # {} THEN noHive
                        ELSE noKeys \cup noNames)
    BY DEF Registry, ReadEach, result
  <2> HIDE DEF refused, found, read, noHive, noKeys, noNames
  <2> QED
    BY <2>1
<1> HIDE DEF read, noKeys, noNames, noHive
<1>12. AbsencesAreReal(p, o, s, s.there, Collects(noKeys \cup noNames))
  BY <1>9, <1>10 DEF AbsencesAreReal, Collects
<1> QED
  BY <1>7, <1>8, <1>11, <1>12, ThrowsNothing, NoneAreReal

-----------------------------------------------------------------------------

\* One probe of a family after the other.
LEMMA AbsencesOfIndependent ==
  ASSUME NEW p \in IndependentFamily \ {"ldap"}, NEW o, IsObject(p, o), NEW s, IsSystem(p, s)
  PROVE  AbsencesAreReal(p, o, s, s.there, Independent(p, o, s))
<1>1. CASE p = "environmentvariable"
  <2>1. p \notin Larger
    BY <1>1 DEF Larger, OfFile, OnFiles, TwoEntities, ThreeEntities, OnNames, OnKeys, WithNil
  <2>2. AbsencesAreReal(p, o, s, s.there, EnvironmentVariable(o, s))
    BY <2>1, AbsencesOfVariables
  <2> QED
    BY <2>2, <1>1 DEF Independent
<1>2. CASE p = "variable"
  <2>2. AbsencesAreReal(p, o, s, s.there, Variable(o, s))
    BY NoneOfIndependent, NoneAreReal
  <2> QED
    BY <2>2, <1>2 DEF Independent
<1>3. CASE p = "environmentvariable58"
  <2>2. AbsencesAreReal(p, o, s, s.there, EnvironmentVariable58(o, s))
    BY NoneOfIndependent, NoneAreReal
  <2> QED
    BY <2>2, <1>3 DEF Independent
<1>4. CASE p = "own environment"
  <2>2. AbsencesAreReal(p, o, s, s.there, OwnEnvironment(o, s))
    BY NoneOfIndependent, NoneAreReal
  <2> QED
    BY <2>2, <1>4 DEF Independent
<1>5. CASE p = "filehash"
  <2>1. p \in OfFile
    BY <1>5 DEF OfFile
  <2>2. AbsencesAreReal(p, o, s, s.there, FileHash(o, s))
    BY <2>1, AbsencesOfFileProbes
  <2> QED
    BY <2>2, <1>5 DEF Independent
<1>6. CASE p = "filehash58"
  <2>2. AbsencesAreReal(p, o, s, s.there, FileHash58(o, s))
    BY <1>6, AbsencesOfDigests
  <2> QED
    BY <2>2, <1>6 DEF Independent
<1>7. CASE p = "filemd5"
  <2>1. p \in OfFile
    BY <1>7 DEF OfFile
  <2>2. AbsencesAreReal(p, o, s, s.there, FileMd5(o, s))
    BY <2>1, AbsencesOfFileProbes
  <2> QED
    BY <2>2, <1>7 DEF Independent
<1>8. CASE p = "textfilecontent"
  <2>1. p \in OfFile
    BY <1>8 DEF OfFile
  <2>2. AbsencesAreReal(p, o, s, s.there, TextFileContent(o, [o[1] EXCEPT !.op = "pattern match", !.typed = TRUE], s))
    BY <2>1, AbsencesOfFileProbes
  <2> QED
    BY <2>2, <1>8 DEF Independent
<1>9. CASE p = "textfilecontent54"
  <2>1. p \in OfFile
    BY <1>9 DEF OfFile
  <2>2. AbsencesAreReal(p, o, s, s.there, TextFileContent54(o, s))
    BY <2>1, AbsencesOfFileProbes
  <2> QED
    BY <2>2, <1>9 DEF Independent
<1>10. CASE p = "xmlfilecontent"
  <2>1. p \in OfFile
    BY <1>10 DEF OfFile
  <2>2. AbsencesAreReal(p, o, s, s.there, XmlFileContent(o, s))
    BY <2>1, AbsencesOfFileProbes
  <2> QED
    BY <2>2, <1>10 DEF Independent
<1> QED
  BY <1>1, <1>2, <1>3, <1>4, <1>5, <1>6, <1>7, <1>8, <1>9, <1>10 DEF IndependentFamily

\* The probes of src/probes/unix.
LEMMA AbsencesOnUnix ==
  ASSUME NEW p \in UnixFamily \ {"process58"}, NEW o, IsObject(p, o), NEW s, IsSystem(p, s)
  PROVE  AbsencesAreReal(p, o, s, s.there, OnUnix(p, o, s))
<1>1. CASE p = "file"
  <2>1. p \in OfFile
    BY <1>1 DEF OfFile
  <2>2. AbsencesAreReal(p, o, s, s.there, File(o, s))
    BY <2>1, AbsencesOfFileProbes
  <2> QED
    BY <2>2, <1>1 DEF OnUnix
<1>2. CASE p = "password"
  <2>2. AbsencesAreReal(p, o, s, s.there, Password(o, s))
    BY <1>2, AbsencesOfPassword
  <2> QED
    BY <2>2, <1>2 DEF OnUnix
<1>3. CASE p = "shadow"
  <2>2. AbsencesAreReal(p, o, s, s.there, Shadow(o, s))
    BY <1>3, AbsencesOfShadow
  <2> QED
    BY <2>2, <1>3 DEF OnUnix
<1>4. CASE p = "inetd"
  <2>2. AbsencesAreReal(p, o, s, s.there, Inetd(o, s))
    BY NoneOfScan, NoneAreReal
  <2> QED
    BY <2>2, <1>4 DEF OnUnix
<1>5. CASE p = "process"
  <2>2. AbsencesAreReal(p, o, s, s.there, Process(o, s))
    BY <1>5, AbsencesOfProcess
  <2> QED
    BY <2>2, <1>5 DEF OnUnix
<1>6. CASE p = "macprocess"
  <2>2. AbsencesAreReal(p, o, s, s.there, MacProcess(o, s))
    BY <1>6, AbsencesOfMacProcess
  <2> QED
    BY <2>2, <1>6 DEF OnUnix
<1> QED
  BY <1>1, <1>2, <1>3, <1>4, <1>5, <1>6 DEF UnixFamily

\* The probes of src/probes/linux.
LEMMA AbsencesOnLinux ==
  ASSUME NEW p \in LinuxFamily, NEW o, IsObject(p, o), NEW s, IsSystem(p, s),
         NEW result \in OnLinux(p, o, s)
  PROVE  AbsencesAreReal(p, o, s, s.there, result)
<1>1. CASE p = "dpkginfo"
  <2>1. p \notin Larger
    BY <1>1 DEF Larger, OfFile, OnFiles, TwoEntities, ThreeEntities, OnNames, OnKeys, WithNil
  <2>2. AbsencesAreReal(p, o, s, s.there, DPKGInfo(o, s))
    BY <2>1, AbsencesOfPackages
  <2>3. result = DPKGInfo(o, s)
    BY <1>1 DEF OnLinux
  <2> QED
    BY <2>2, <2>3
<1>2. CASE p = "rpminfo"
  <2>1. p \notin Larger
    BY <1>2 DEF Larger, OfFile, OnFiles, TwoEntities, ThreeEntities, OnNames, OnKeys, WithNil
  <2>2. AbsencesAreReal(p, o, s, s.there, RPMInfo(o, s))
    BY <2>1, AbsencesOfPackages
  <2>3. result = RPMInfo(o, s)
    BY <1>2 DEF OnLinux
  <2> QED
    BY <2>2, <2>3
<1>3. CASE p = "rpmverify"
  <2>2. AbsencesAreReal(p, o, s, s.there, RPMVerify(o, {}, s))
    BY NoneOfPackages, NoneAreReal
  <2>3. result = RPMVerify(o, {}, s)
    BY <1>3 DEF OnLinux
  <2> QED
    BY <2>2, <2>3
<1>4. CASE p = "rpmverifyfile"
  <2>2. AbsencesAreReal(p, o, s, s.there, RPMVerifyFile(o, {}, s))
    BY NoneOfPackages, NoneAreReal DEF RPMVerifyFile
  <2>3. result = RPMVerifyFile(o, {}, s)
    BY <1>4 DEF OnLinux
  <2> QED
    BY <2>2, <2>3
<1>5. CASE p = "rpmverifypackage"
  <2>2. AbsencesAreReal(p, o, s, s.there, RPMVerifyPackage(o, s))
    BY NoneOfPackages, NoneAreReal
  <2>3. result = RPMVerifyPackage(o, s)
    BY <1>5 DEF OnLinux
  <2> QED
    BY <2>2, <2>3
<1>6. CASE p = "selinuxboolean"
  <2>1. result \in SelinuxBoolean(o, s)
    BY <1>6 DEF OnLinux
  <2> QED
    BY <2>1, NoneOfBooleans, NoneAreReal
<1>7. CASE p = "sysctl"
  <2>1. p \notin Larger
    BY <1>7 DEF Larger, OfFile, OnFiles, TwoEntities, ThreeEntities, OnNames, OnKeys, WithNil
  <2>2. AbsencesAreReal(p, o, s, s.there, Sysctl(o, s))
    BY <2>1, NoneOfCommands, NoneAreReal
  <2>3. result = Sysctl(o, s)
    BY <1>7 DEF OnLinux
  <2> QED
    BY <2>2, <2>3
<1>8. CASE p = "selinuxcontext of pids"
  <2>1. p \notin Larger
    BY <1>8 DEF Larger, OfFile, OnFiles, TwoEntities, ThreeEntities, OnNames, OnKeys, WithNil
  <2>2. AbsencesAreReal(p, o, s, s.there, SelinuxContextOfPids(o, s))
    BY <2>1, NoneOfCommands, NoneAreReal
  <2>3. result = SelinuxContextOfPids(o, s)
    BY <1>8 DEF OnLinux
  <2> QED
    BY <2>2, <2>3
<1>9. CASE p = "selinuxcontext of files"
  <2>1. p \in OfFile
    BY <1>9 DEF OfFile
  <2>2. AbsencesAreReal(p, o, s, s.there, SelinuxContextOfFiles(o, s))
    BY <2>1, AbsencesOfFileProbes
  <2>3. result = SelinuxContextOfFiles(o, s)
    BY <1>9 DEF OnLinux
  <2> QED
    BY <2>2, <2>3
<1> QED
  BY <1>1, <1>2, <1>3, <1>4, <1>5, <1>6, <1>7, <1>8, <1>9 DEF LinuxFamily

\* The probes of users, groups and the cache of DNS.
LEMMA AbsencesAboutAccounts ==
  ASSUME NEW p \in AccountFamily, NEW o, IsObject(p, o), NEW s, IsSystem(p, s)
  PROVE  AbsencesAreReal(p, o, s, s.there, OfAccounts(p, o, s))
<1>1. CASE p = "dnscache"
  <2>1. p \notin Larger
    BY <1>1 DEF Larger, OfFile, OnFiles, TwoEntities, ThreeEntities, OnNames, OnKeys, WithNil
  <2>2. AbsencesAreReal(p, o, s, s.there, DNSCache(o, s))
    BY <2>1, AbsencesOfAccounts
  <2> QED
    BY <2>2, <1>1 DEF OfAccounts
<1>2. CASE p = "group"
  <2>1. p \notin Larger
    BY <1>2 DEF Larger, OfFile, OnFiles, TwoEntities, ThreeEntities, OnNames, OnKeys, WithNil
  <2>2. AbsencesAreReal(p, o, s, s.there, Group(o, s))
    BY <2>1, AbsencesOfAccounts
  <2> QED
    BY <2>2, <1>2 DEF OfAccounts
<1>3. CASE p = "groupsid"
  <2>1. p \notin Larger
    BY <1>3 DEF Larger, OfFile, OnFiles, TwoEntities, ThreeEntities, OnNames, OnKeys, WithNil
  <2>2. AbsencesAreReal(p, o, s, s.there, GroupSid(o, s))
    BY <2>1, AbsencesOfAccounts DEF GroupSid
  <2> QED
    BY <2>2, <1>3 DEF OfAccounts
<1>4. CASE p = "user"
  <2>1. p \notin Larger
    BY <1>4 DEF Larger, OfFile, OnFiles, TwoEntities, ThreeEntities, OnNames, OnKeys, WithNil
  <2>2. AbsencesAreReal(p, o, s, s.there, User(o, s))
    BY <2>1, AbsencesOfAccounts
  <2> QED
    BY <2>2, <1>4 DEF OfAccounts
<1>5. CASE p = "usersid"
  <2>1. p \notin Larger
    BY <1>5 DEF Larger, OfFile, OnFiles, TwoEntities, ThreeEntities, OnNames, OnKeys, WithNil
  <2>2. AbsencesAreReal(p, o, s, s.there, UserSid(o, s))
    BY <2>1, AbsencesOfAccounts DEF UserSid
  <2> QED
    BY <2>2, <1>5 DEF OfAccounts
<1>6. CASE p = "usersid55"
  <2>1. p \notin Larger
    BY <1>6 DEF Larger, OfFile, OnFiles, TwoEntities, ThreeEntities, OnNames, OnKeys, WithNil
  <2>2. AbsencesAreReal(p, o, s, s.there, UserSid55(o, s))
    BY <2>1, AbsencesOfAccounts DEF UserSid55
  <2> QED
    BY <2>2, <1>6 DEF OfAccounts
<1> QED
  BY <1>1, <1>2, <1>3, <1>4, <1>5, <1>6 DEF AccountFamily

\* The probes of access lists and trustees.
LEMMA AbsencesOfRights ==
  ASSUME NEW p \in RightsFamily, NEW o, IsObject(p, o), NEW s, IsSystem(p, s)
  PROVE  AbsencesAreReal(p, o, s, s.there, OfRights(p, o, s))
<1>1. CASE p = "serviceeffectiverights"
  <2>1. p \in OnNames
    BY <1>1 DEF OnNames
  <2>2. AbsencesAreReal(p, o, s, s.there, ServiceEffectiveRights(o, s))
    BY <2>1, AbsencesOfAccessLists
  <2> QED
    BY <2>2, <1>1 DEF OfRights
<1>2. CASE p = "printereffectiverights"
  <2>1. p \in OnNames
    BY <1>2 DEF OnNames
  <2>2. AbsencesAreReal(p, o, s, s.there, PrinterEffectiveRights(o, s))
    BY <2>1, AbsencesOfAccessLists
  <2> QED
    BY <2>2, <1>2 DEF OfRights
<1>3. CASE p = "fileeffectiverights"
  <2>1. p \in OnFiles
    BY <1>3 DEF OnFiles
  <2>2. AbsencesAreReal(p, o, s, s.there, FileEffectiveRights(o, s))
    BY <2>1, AbsencesOfAccessLists
  <2> QED
    BY <2>2, <1>3 DEF OfRights
<1>4. CASE p = "fileeffectiverights53"
  <2>1. p \in OnFiles
    BY <1>4 DEF OnFiles
  <2>2. AbsencesAreReal(p, o, s, s.there, FileEffectiveRights53(o, s))
    BY <2>1, AbsencesOfAccessLists
  <2> QED
    BY <2>2, <1>4 DEF OfRights
<1>5. CASE p = "fileauditedpermissions"
  <2>1. p \in OnFiles
    BY <1>5 DEF OnFiles
  <2>2. AbsencesAreReal(p, o, s, s.there, FileAuditedPermissions(o, s))
    BY <2>1, AbsencesOfAccessLists
  <2> QED
    BY <2>2, <1>5 DEF OfRights
<1>6. CASE p = "fileauditedpermissions53"
  <2>1. p \in OnFiles
    BY <1>6 DEF OnFiles
  <2>2. AbsencesAreReal(p, o, s, s.there, FileAuditedPermissions53(o, s))
    BY <2>1, AbsencesOfAccessLists
  <2> QED
    BY <2>2, <1>6 DEF OfRights
<1>7. CASE p = "regkeyeffectiverights"
  <2>1. p \in OnKeys
    BY <1>7 DEF OnKeys
  <2>2. AbsencesAreReal(p, o, s, s.there, RegKeyEffectiveRights(o, s))
    BY <2>1, AbsencesOfAccessLists
  <2> QED
    BY <2>2, <1>7 DEF OfRights
<1>8. CASE p = "regkeyeffectiverights53"
  <2>1. p \in OnKeys
    BY <1>8 DEF OnKeys
  <2>2. AbsencesAreReal(p, o, s, s.there, RegKeyEffectiveRights53(o, s))
    BY <2>1, AbsencesOfAccessLists
  <2> QED
    BY <2>2, <1>8 DEF OfRights
<1>9. CASE p = "regkeyauditedpermissions"
  <2>1. p \in OnKeys
    BY <1>9 DEF OnKeys
  <2>2. AbsencesAreReal(p, o, s, s.there, RegKeyAuditedPermissions(o, s))
    BY <2>1, AbsencesOfAccessLists
  <2> QED
    BY <2>2, <1>9 DEF OfRights
<1>10. CASE p = "regkeyauditedpermissions53"
  <2>1. p \in OnKeys
    BY <1>10 DEF OnKeys
  <2>2. AbsencesAreReal(p, o, s, s.there, RegKeyAuditedPermissions53(o, s))
    BY <2>1, AbsencesOfAccessLists
  <2> QED
    BY <2>2, <1>10 DEF OfRights
<1>11. CASE p = "accesstoken"
  <2>2. AbsencesAreReal(p, o, s, s.there, AccessToken(o, s))
    BY <1>11, AbsencesOfAccount DEF AccessToken
  <2> QED
    BY <2>2, <1>11 DEF OfRights
<1>12. CASE p = "sidsid"
  <2>2. AbsencesAreReal(p, o, s, s.there, SidSid(o, s))
    BY <1>12, AbsencesOfAccount DEF SidSid
  <2> QED
    BY <2>2, <1>12 DEF OfRights
<1>13. CASE p = "sid"
  <2>2. AbsencesAreReal(p, o, s, s.there, Sid(o, s))
    BY <1>13, AbsencesOfSid
  <2> QED
    BY <2>2, <1>13 DEF OfRights
<1> QED
  BY <1>1, <1>2, <1>3, <1>4, <1>5, <1>6, <1>7, <1>8, <1>9, <1>10, <1>11, <1>12, <1>13 DEF
     RightsFamily, OnNames, OnFiles, OnKeys

\* The probes of queries, volumes, files and the registry of Windows.
LEMMA AbsencesOfPolicy ==
  ASSUME NEW p \in PolicyFamily \ {"metabase", "activedirectory"}, NEW o, IsObject(p, o), NEW s, IsSystem(p, s), NEW before
  PROVE  AbsencesAreReal(p, o, s, s.there, OfPolicy(p, o, s, before))
<1>1. CASE p = "volume"
  <2>1. p \notin Larger
    BY <1>1 DEF Larger, OfFile, OnFiles, TwoEntities, ThreeEntities, OnNames, OnKeys, WithNil
  <2>2. AbsencesAreReal(p, o, s, s.there, Volume(o, s))
    BY <2>1, AbsencesOfVolume
  <2> QED
    BY <2>2, <1>1 DEF OfPolicy
<1>2. CASE p = "wuaupdatesearcher"
  <2>1. p \notin Larger
    BY <1>2 DEF Larger, OfFile, OnFiles, TwoEntities, ThreeEntities, OnNames, OnKeys, WithNil
  <2>2. AbsencesAreReal(p, o, s, s.there, WUAUpdateSearcher(o, s))
    BY <2>1, AbsencesOfUpdates
  <2> QED
    BY <2>2, <1>2 DEF OfPolicy
<1>3. CASE p = "wmi"
  <2>2. AbsencesAreReal(p, o, s, s.there, WMI(o, s))
    BY <1>3, AbsencesOfQueries
  <2> QED
    BY <2>2, <1>3 DEF OfPolicy
<1>4. CASE p = "wmi57"
  <2>2. AbsencesAreReal(p, o, s, s.there, WMI57(o, s))
    BY <1>4, AbsencesOfQueries DEF WMI57
  <2> QED
    BY <2>2, <1>4 DEF OfPolicy
<1>5. CASE p = "services"
  <2>1. p \notin Larger
    BY <1>5 DEF Larger, OfFile, OnFiles, TwoEntities, ThreeEntities, OnNames, OnKeys, WithNil
  <2>2. AbsencesAreReal(p, o, s, s.there, WindowsServices(o, s.there, s))
    BY <2>1, NoneOfCommands, NoneAreReal
  <2> QED
    BY <2>2, <1>5 DEF OfPolicy
<1>6. CASE p = "registry"
  <2>2. AbsencesAreReal(p, o, s, s.there, Registry(o, s))
    BY <1>6, AbsencesOfRegistry
  <2> QED
    BY <2>2, <1>6 DEF OfPolicy
<1>7. CASE p = "winfile"
  <2>1. p \in OfFile
    BY <1>7 DEF OfFile
  <2>2. AbsencesAreReal(p, o, s, s.there, WinFile(o, s))
    BY <2>1, AbsencesOfFileProbes
  <2> QED
    BY <2>2, <1>7 DEF OfPolicy
<1> QED
  BY <1>1, <1>2, <1>3, <1>4, <1>5, <1>6, <1>7 DEF PolicyFamily

\* The probes that choose from a list they keep.
LEMMA AbsencesOnSnapshots ==
  ASSUME NEW p \in Listing, NEW o, IsObject(p, o), NEW s, NEW things, AreThings(p, things)
  PROVE  AbsencesAreReal(p, o, s, things, OnSnapshot(p, o, things))
<1>1. CASE p = "interface"
  <2>2. AbsencesAreReal(p, o, s, things, Interface(o, things))
    BY NoneOnSnapshots, NoneAreReal
  <2> QED
    BY <2>2, <1>1 DEF OnSnapshot
<1>2. CASE p = "runlevel"
  <2>2. AbsencesAreReal(p, o, s, things, RunLevel(o, things))
    BY NoneOnSnapshots, NoneAreReal
  <2> QED
    BY <2>2, <1>2 DEF OnSnapshot
<1>3. CASE p = "iflisteners"
  <2>2. AbsencesAreReal(p, o, s, things, IfListeners(o, things))
    BY NoneOnSnapshots, NoneAreReal
  <2> QED
    BY <2>2, <1>3 DEF OnSnapshot
<1>4. CASE p = "partition"
  <2>2. AbsencesAreReal(p, o, s, things, Partition(o, things))
    BY NoneOnSnapshots, NoneAreReal
  <2> QED
    BY <2>2, <1>4 DEF OnSnapshot
<1>5. CASE p = "patch54"
  <2>2. AbsencesAreReal(p, o, s, things, Patch54(o, SetToSeq(o[1].values), things, {}, {}, FALSE))
    BY NoneOnSnapshots, NoneAreReal
  <2> QED
    BY <2>2, <1>5 DEF OnSnapshot
<1>6. CASE p = "inetlisteningserver510"
  <2>2. AbsencesAreReal(p, o, s, things, InetListeningServer510(o, things))
    BY NoneOnSnapshots, NoneAreReal
  <2> QED
    BY <2>2, <1>6 DEF OnSnapshot
<1>7. CASE p = "inetlisteningservers"
  <2>2. AbsencesAreReal(p, o, s, things, InetListeningServers(o, things))
    BY <1>7, AbsencesOfServers
  <2> QED
    BY <2>2, <1>7 DEF OnSnapshot
<1>8. CASE p = "nvram"
  <2>2. AbsencesAreReal(p, o, s, things, Nvram(o, things))
    BY NoneOnSnapshots, NoneAreReal
  <2> QED
    BY <2>2, <1>8 DEF OnSnapshot
<1>9. CASE p = "wininterface"
  <2>1. p \notin Larger
    BY <1>9 DEF Larger, OfFile, OnFiles, TwoEntities, ThreeEntities, OnNames, OnKeys, WithNil
  <2>2. AbsencesAreReal(p, o, s, things, WinInterface(o, things))
    BY <2>1, AbsencesOfTables
  <2> QED
    BY <2>2, <1>9 DEF OnSnapshot
<1>10. CASE p = "sharedresource"
  <2>1. p \notin Larger
    BY <1>10 DEF Larger, OfFile, OnFiles, TwoEntities, ThreeEntities, OnNames, OnKeys, WithNil
  <2>2. AbsencesAreReal(p, o, s, things, SharedResource(o, things))
    BY <2>1, AbsencesOfTables
  <2> QED
    BY <2>2, <1>10 DEF OnSnapshot
<1>11. CASE p = "winprocess"
  <2>1. p \notin Larger
    BY <1>11 DEF Larger, OfFile, OnFiles, TwoEntities, ThreeEntities, OnNames, OnKeys, WithNil
  <2>2. AbsencesAreReal(p, o, s, things, WinProcess(o, things))
    BY <2>1, AbsencesOfTables
  <2> QED
    BY <2>2, <1>11 DEF OnSnapshot
<1>12. CASE p = "winprocess58"
  <2>2. AbsencesAreReal(p, o, s, things, WinProcess58(o, things))
    BY NoneOnSnapshots, NoneAreReal
  <2> QED
    BY <2>2, <1>12 DEF OnSnapshot
<1>13. CASE p = "port"
  <2>2. AbsencesAreReal(p, o, s, things, Port(o, things))
    BY <1>13, AbsencesOfPorts
  <2> QED
    BY <2>2, <1>13 DEF OnSnapshot
<1> QED
  BY <1>1, <1>2, <1>3, <1>4, <1>5, <1>6, <1>7, <1>8, <1>9, <1>10, <1>11, <1>12, <1>13 DEF
     Listing, AtConstruction, AtFirstUse, KeepsPart

\* Every probe and every outcome of an answer.
LEMMA AbsencesOfOutcomes ==
  ASSUME NEW p \in Collectors \ (Listing \cup LooksAbsent), NEW o, IsObject(p, o),
         NEW s, IsSystem(p, s), NEW before, NEW result \in Outcomes(p, o, s, before)
  PROVE  AbsencesAreReal(p, o, s, s.there, result)
<1>1. CASE p \in IndependentFamily
  <2>1. p # "ldap"
    BY DEF LooksAbsent
  <2>2. FamilyOf(p) = "independent"
    <3>1. /\ p \notin UnixFamily /\ p \notin LinuxFamily /\ p \notin KeepsNames
          /\ p \notin AccountFamily /\ p \notin RightsFamily /\ p \notin PolicyFamily
      BY <1>1 DEF IndependentFamily, UnixFamily, LinuxFamily, KeepsNames, AccountFamily,
         RightsFamily, OnNames, OnFiles, OnKeys, PolicyFamily
    <3> QED
      BY <1>1, <3>1 DEF FamilyOf
  <2>3. p \notin KeepsNames
    BY <1>1 DEF IndependentFamily, KeepsNames
  <2>4. result = Independent(p, o, s)
    BY <2>2, <2>3 DEF Outcomes, KeepsNames
  <2> QED
    BY <1>1, <2>1, <2>4, AbsencesOfIndependent
<1>2. CASE p \in UnixFamily
  <2>1. p # "process58"
    BY DEF LooksAbsent
  <2>2. FamilyOf(p) = "unix"
    <3>1. /\ p \notin IndependentFamily /\ p \notin LinuxFamily /\ p \notin KeepsNames
          /\ p \notin AccountFamily /\ p \notin RightsFamily /\ p \notin PolicyFamily
      BY <1>2 DEF IndependentFamily, UnixFamily, LinuxFamily, KeepsNames, AccountFamily,
         RightsFamily, OnNames, OnFiles, OnKeys, PolicyFamily
    <3> QED
      BY <1>2, <3>1 DEF FamilyOf
  <2>3. p \notin KeepsNames
    BY <1>2 DEF UnixFamily, KeepsNames
  <2>4. result = OnUnix(p, o, s)
    BY <2>2, <2>3 DEF Outcomes, KeepsNames
  <2> QED
    BY <1>2, <2>1, <2>4, AbsencesOnUnix
<1>3. CASE p \in LinuxFamily
  <2>2. FamilyOf(p) = "linux"
    <3>1. /\ p \notin IndependentFamily /\ p \notin UnixFamily /\ p \notin KeepsNames
          /\ p \notin AccountFamily /\ p \notin RightsFamily /\ p \notin PolicyFamily
      BY <1>3 DEF IndependentFamily, UnixFamily, LinuxFamily, KeepsNames, AccountFamily,
         RightsFamily, OnNames, OnFiles, OnKeys, PolicyFamily
    <3> QED
      BY <1>3, <3>1 DEF FamilyOf
  <2>3. p \notin KeepsNames
    BY <1>3 DEF LinuxFamily, KeepsNames
  <2>4. result \in OnLinux(p, o, s)
    BY <2>2, <2>3 DEF Outcomes, KeepsNames
  <2> QED
    BY <1>3, <2>4, AbsencesOnLinux
<1>4. CASE p \in KeepsNames
  <2>1. p \notin Larger
    BY <1>4 DEF KeepsNames, Larger, OfFile, OnFiles, TwoEntities, ThreeEntities, OnNames,
                OnKeys, WithNil
  <2>2. FamilyOf(p) = "mac"
    <3>1. /\ p \notin IndependentFamily /\ p \notin UnixFamily /\ p \notin LinuxFamily
          /\ p \notin AccountFamily /\ p \notin RightsFamily /\ p \notin PolicyFamily
      BY <1>4 DEF IndependentFamily, UnixFamily, LinuxFamily, KeepsNames, AccountFamily,
         RightsFamily, OnNames, OnFiles, OnKeys, PolicyFamily
    <3> QED
      BY <1>4, <3>1 DEF FamilyOf
  <2>3. result = AccountInfo(o, s, before) \/ result = PwPolicy59(o, s, before)
    BY <1>4, <2>2 DEF Outcomes, KeepsNames
  <2> QED
    BY <2>1, <2>3, NoneOfCommands, NoneAreReal
<1>5. CASE p \in AccountFamily
  <2>2. FamilyOf(p) = "accounts"
    <3>1. /\ p \notin IndependentFamily /\ p \notin UnixFamily /\ p \notin LinuxFamily
          /\ p \notin KeepsNames /\ p \notin RightsFamily /\ p \notin PolicyFamily
      BY <1>5 DEF IndependentFamily, UnixFamily, LinuxFamily, KeepsNames, AccountFamily,
         RightsFamily, OnNames, OnFiles, OnKeys, PolicyFamily
    <3> QED
      BY <1>5, <3>1 DEF FamilyOf
  <2>3. p \notin KeepsNames
    BY <1>5 DEF AccountFamily, KeepsNames
  <2>4. result = OfAccounts(p, o, s)
    BY <2>2, <2>3 DEF Outcomes, KeepsNames
  <2> QED
    BY <1>5, <2>4, AbsencesAboutAccounts
<1>6. CASE p \in RightsFamily
  <2>2. FamilyOf(p) = "rights"
    <3>1. /\ p \notin IndependentFamily /\ p \notin UnixFamily /\ p \notin LinuxFamily
          /\ p \notin KeepsNames /\ p \notin AccountFamily /\ p \notin PolicyFamily
      BY <1>6 DEF IndependentFamily, UnixFamily, LinuxFamily, KeepsNames, AccountFamily,
         RightsFamily, OnNames, OnFiles, OnKeys, PolicyFamily
    <3> QED
      BY <1>6, <3>1 DEF FamilyOf
  <2>3. p \notin KeepsNames
    BY <1>6 DEF RightsFamily, OnNames, OnFiles, OnKeys, KeepsNames
  <2>4. result = OfRights(p, o, s)
    BY <2>2, <2>3 DEF Outcomes, KeepsNames
  <2> QED
    BY <1>6, <2>4, AbsencesOfRights
<1>7. CASE p \in PolicyFamily
  <2>1. p \notin {"metabase", "activedirectory"}
    BY DEF LooksAbsent
  <2>2. FamilyOf(p) = "policy"
    <3>1. /\ p \notin IndependentFamily /\ p \notin UnixFamily /\ p \notin LinuxFamily
          /\ p \notin KeepsNames /\ p \notin AccountFamily /\ p \notin RightsFamily
      BY <1>7 DEF IndependentFamily, UnixFamily, LinuxFamily, KeepsNames, AccountFamily,
         RightsFamily, OnNames, OnFiles, OnKeys, PolicyFamily
    <3> QED
      BY <1>7, <3>1 DEF FamilyOf
  <2>3. p \notin KeepsNames
    BY <1>7 DEF PolicyFamily, KeepsNames
  <2>4. result = OfPolicy(p, o, s, before)
    BY <2>2, <2>3 DEF Outcomes, KeepsNames
  <2> QED
    BY <1>7, <2>1, <2>4, AbsencesOfPolicy
<1> QED
  BY <1>1, <1>2, <1>3, <1>4, <1>5, <1>6, <1>7 DEF Collectors

-----------------------------------------------------------------------------
\* What a probe has answered is what its CollectItems makes of the object, of the
\* system as it is or of a list that was made of it before.
ListedOf(p, things) == \E s \in SystemsOf(p) : things \subseteq s.there
AnsweredInv ==
  /\ probe \in Probes /\ system \in SystemsOf(probe) \cup {Unobserved}
  /\ probe \in Listing => kept = NotListed \/ ListedOf(probe, kept)
  /\ asked # NothingAsked /\ probe \notin Finder \cup Algorithm =>
       /\ asked \in ObjectsOf(probe) /\ system \in SystemsOf(probe)
       /\ probe \in Listing /\ ~ outcome.thrown =>
            ListedOf(probe, kept) /\ outcome = OnSnapshot(probe, asked, kept)
       /\ probe \notin Listing =>
            /\ probe \in Collectors
            /\ \E before : outcome \in Outcomes(probe, asked, system, before)

\* Nothing has been asked at first.
LEMMA InitAnswered == ProbingInit => AnsweredInv
<1> SUFFICES ASSUME ProbingInit PROVE AnsweredInv
  OBVIOUS
<1>1. probe \in Listing => kept = NotListed
  BY DEF ProbingInit, NothingKept, KeepsNames, Listing, AtConstruction, AtFirstUse, KeepsPart
<1> QED
  BY <1>1 DEF ProbingInit, AnsweredInv

\* A list that is kept was made of a system that had these things.
LEMMA ListedIsThere ==
  ASSUME NEW p, NEW before, NEW s \in SystemsOf(p), NEW snapshot \in Snapshots(p, before, s),
         before = NotListed \/ ListedOf(p, before)
  PROVE  /\ snapshot.items = NotListed \/ ListedOf(p, snapshot.items)
         /\ ~ snapshot.thrown => ListedOf(p, snapshot.items)
<1>1. CASE before # NotListed
  <2>1. snapshot.items = before
    BY <1>1 DEF Snapshots, Collects
  <2> QED
    BY <1>1, <2>1
<1>2. CASE before = NotListed /\ s.list = "ok"
  <2>1. snapshot.items = s.there
    BY <1>2 DEF Snapshots, Collects
  <2> QED
    BY <2>1 DEF ListedOf
<1>3. CASE before = NotListed /\ s.list # "ok" /\ p = "runlevel"
  <2>1. snapshot.items = {}
    BY <1>3 DEF Snapshots, Collects
  <2> QED
    BY <2>1 DEF ListedOf
<1>4. CASE before = NotListed /\ s.list # "ok" /\ p # "runlevel" /\ p \in KeepsPart
  <2>1. snapshot \in {[Throws EXCEPT !.items = part] : part \in SUBSET s.there}
    BY <1>4 DEF Snapshots
  <2>2. snapshot.thrown /\ snapshot.items \subseteq s.there
    BY <2>1 DEF Throws
  <2> QED
    BY <2>2 DEF ListedOf
<1>5. CASE before = NotListed /\ s.list # "ok" /\ p # "runlevel" /\ p \notin KeepsPart
  <2>1. snapshot = [Throws EXCEPT !.items = NotListed]
    BY <1>5 DEF Snapshots
  <2>2. snapshot.thrown /\ snapshot.items = NotListed
    BY <2>1 DEF Throws
  <2> QED
    BY <2>2
<1> QED
  BY <1>1, <1>2, <1>3, <1>4, <1>5

\* Each action answers, changes the system or forgets what was answered.
LEMMA NextAnswered == AnsweredInv /\ [ProbingNext]_probingVars => AnsweredInv'
<1> SUFFICES ASSUME AnsweredInv, [ProbingNext]_probingVars PROVE AnsweredInv'
  OBVIOUS
<1>1. ASSUME UNCHANGED <<probe, system, kept, asked, outcome>> PROVE AnsweredInv'
  BY <1>1 DEF AnsweredInv
<1>2. ASSUME NEW o \in ObjectsOf(probe), CollectListed(o) PROVE AnsweredInv'
  <2>1. probe \in Listing /\ system \in SystemsOf(probe)
    BY <1>2 DEF CollectListed, AnsweredInv
  <2>2. PICK snapshot \in Snapshots(probe, kept, system) :
          /\ kept' = snapshot.items
          /\ outcome' = IF snapshot.thrown THEN Throws ELSE OnSnapshot(probe, o, snapshot.items)
    BY <1>2 DEF CollectListed
  <2>3. /\ kept' = NotListed \/ ListedOf(probe, kept')
        /\ ~ snapshot.thrown => ListedOf(probe, kept')
    BY <2>1, <2>2, ListedIsThere DEF AnsweredInv
  <2>4. ~ outcome'.thrown => ListedOf(probe, kept') /\ outcome' = OnSnapshot(probe, o, kept')
    BY <2>2, <2>3 DEF Throws
  <2> QED
    BY <1>2, <2>1, <2>3, <2>4 DEF CollectListed, AnsweredInv
<1>3. ASSUME NEW o \in ObjectsOf(probe), Collect(o) PROVE AnsweredInv'
  <2>1. probe \in Collectors /\ probe \notin Listing
    BY <1>3, ProbesAssumption DEF Collect, AnsweredInv
  <2> QED
    BY <1>3, <2>1 DEF Collect, AnsweredInv
<1>4. ASSUME NEW q \in SearchesOf(probe), Search(q) PROVE AnsweredInv'
  BY <1>4 DEF Search, AnsweredInv
<1>5. ASSUME NEW q \in SearchesOf(probe), Work(q) PROVE AnsweredInv'
  BY <1>5 DEF Work, AnsweredInv
<1>6. ASSUME NEW a \in AnswersOf(probe), Fill(a) PROVE AnsweredInv'
  BY <1>1, <1>6 DEF Fill
<1>7. ASSUME Continue PROVE AnsweredInv'
  BY <1>7 DEF Continue, AnsweredInv
<1>8. ASSUME Change PROVE AnsweredInv'
  BY <1>8 DEF Change, AnsweredInv
<1>9. ASSUME UNCHANGED probingVars PROVE AnsweredInv'
  BY <1>1, <1>9 DEF probingVars
<1> QED
  BY <1>2, <1>3, <1>4, <1>5, <1>6, <1>7, <1>8, <1>9 DEF ProbingNext

\* The absences of such an answer are real, so the invariant is enough.
LEMMA AnsweredIsReal == AnsweredInv => AbsenceIsReal
<1> SUFFICES ASSUME AnsweredInv, Looked, probe \notin LooksAbsent,
                    NEW t \in WithStatus("does not exist")
             PROVE  ReallyAbsent(probe, asked, system, Holds, t)
  BY DEF AbsenceIsReal, ReallyAbsent
<1>1. PICK x \in outcome.items : IsAbsence(x) /\ x.thing = t
  BY DEF WithStatus, IsAbsence
<1>2. /\ probe \in Probes \ (Finder \cup Algorithm) /\ asked # NothingAsked /\ ~ outcome.thrown
      /\ asked \in ObjectsOf(probe) /\ system \in SystemsOf(probe)
  BY DEF Looked, AnsweredInv
<1>3. IsObject(probe, asked)
  BY <1>2, ObjectsAssumption
<1>4. \A s \in SystemsOf(probe) : IsSystem(probe, s)
  BY <1>2, SystemsAssumption
<1>5. CASE probe \in Listing
  <2>1. ListedOf(probe, kept) /\ outcome = OnSnapshot(probe, asked, kept)
    BY <1>2, <1>5 DEF AnsweredInv
  <2>2. AreThings(probe, kept)
    BY <2>1, <1>4 DEF ListedOf, IsSystem, AreThings
  <2>3. AbsencesAreReal(probe, asked, system, kept, outcome)
    BY <1>3, <1>5, <2>1, <2>2, AbsencesOnSnapshots
  <2> QED
    BY <1>1, <1>5, <2>3 DEF AbsencesAreReal, Holds
<1>6. CASE probe \notin Listing
  <2>1. PICK before : outcome \in Outcomes(probe, asked, system, before)
    BY <1>2, <1>6 DEF AnsweredInv
  <2>2. probe \in Collectors \ (Listing \cup LooksAbsent)
    BY <1>2, <1>6 DEF AnsweredInv
  <2>3. AbsencesAreReal(probe, asked, system, system.there, outcome)
    BY <1>2, <1>3, <1>4, <2>1, <2>2, AbsencesOfOutcomes
  <2> QED
    BY <1>1, <1>6, <2>3 DEF AbsencesAreReal, Holds
<1> QED
  BY <1>5, <1>6

\* An item that says a thing does not exist stands for a value that is looked up by its
\* name and is not there, or for a name that was asked for and was gone when it was read:
\* whatever the names, the object, the system and what was listed before, but for the
\* probes and the checks of variables that are named (CollectItems of each probe).
THEOREM AbsencesAreAbsent == ProbingSpec => []AbsenceIsReal
<1>1. ProbingInit => AnsweredInv
  BY InitAnswered
<1>2. AnsweredInv /\ [ProbingNext]_probingVars => AnsweredInv'
  BY NextAnswered
<1>3. AnsweredInv => AbsenceIsReal
  BY AnsweredIsReal
<1> QED
  BY <1>1, <1>2, <1>3, PTL DEF ProbingSpec
=============================================================================
