------------------------ MODULE CustomerSearchProofs ------------------------
(***************************************************************************)
(* First the statement of the search, proved to find the best there is for *)
(* every catalogue and every request.  The number of variants before a     *)
(* variant is its rank; the ranks are all different, so by counting there  *)
(* is one variant of each rank, and the CHOOSE of Ranked picks it.  Then   *)
(* the requests of a call and the way it ends, for any number of retries   *)
(* and any answers of the providers.  The invariant says, for each place   *)
(* of the call, what has been answered on the way to it.                   *)
(***************************************************************************)
EXTENDS CustomerSearch, FiniteSetTheorems, TLAPS

USE CustomerSearchAssumption, InputsAssumption

----------------------------------------------------------------------------
(* The statement.                                                          *)

IsComparable(p) == p \in Nat /\ DistanceOf(p) \in Nat \cup {NaN}

Rank(v) == Cardinality({w \in FirstVariants : Before(ProductOf[w], ProductOf[v])})

\* Before is a strict total order of what can be compared.
LEMMA BeforeIsOrder ==
    ASSUME NEW p, NEW q, NEW r, IsComparable(p), IsComparable(q), IsComparable(r)
    PROVE  /\ ~Before(p, p)
           /\ ~(Before(p, q) /\ Before(q, p))
           /\ Before(p, q) /\ Before(q, r) => Before(p, r)
           /\ p = q \/ Before(p, q) \/ Before(q, p)
<1> DEFINE a == DistanceOf(p)
           b == DistanceOf(q)
           c == DistanceOf(r)
<1>1. /\ p \in Nat /\ q \in Nat /\ r \in Nat
      /\ a \in Nat \cup {NaN} /\ b \in Nat \cup {NaN} /\ c \in Nat \cup {NaN}
    BY DEF IsComparable
<1> HIDE DEF a, b, c
<1>2. NaN \notin Nat
    OBVIOUS
<1> QED
    BY ONLY <1>1, <1>2 DEF Before, a, b, c

LEMMA FirstVariantsFacts ==
    ASSUME catalog \in Catalog
    PROVE  /\ FirstVariants \subseteq Variant /\ IsFiniteSet(FirstVariants)
           /\ Cardinality(FirstVariants) \in Nat
           /\ \A v \in FirstVariants : Matches(v) /\ IsComparable(ProductOf[v])
           /\ \A v, w \in FirstVariants : ProductOf[v] = ProductOf[w] => v = w
<1>1. FirstVariants \subseteq Variant
    BY DEF FirstVariants
<1>2. IsFiniteSet(FirstVariants) /\ Cardinality(FirstVariants) \in Nat
    BY <1>1, FS_Subset, FS_CardinalityType
<1>3. ASSUME NEW v \in FirstVariants PROVE Matches(v) /\ IsComparable(ProductOf[v])
    <2>1. Matches(v) /\ v \in Variant
        BY DEF FirstVariants
    <2>2. ProductOf[v] \in Product
        BY <2>1
    <2>3. catalog.product[ProductOf[v]].distance \in Distance \cup {NaN, None}
        BY <2>2 DEF Catalog
    <2>4. catalog.product[ProductOf[v]].distance # None
        BY <2>1 DEF Matches, Of
    <2> QED
        BY <2>1, <2>2, <2>3, <2>4 DEF IsComparable, DistanceOf
<1>4. ASSUME NEW v \in FirstVariants, NEW w \in FirstVariants, ProductOf[v] = ProductOf[w]
      PROVE  v = w
    <2>1. v >= w /\ w >= v /\ v \in Nat /\ w \in Nat
        BY <1>4 DEF FirstVariants
    <2> QED
        BY <2>1
<1> QED
    BY <1>1, <1>2, <1>3, <1>4

\* A first variant of every product that has a variant that matches.
LEMMA FirstVariantExists ==
    ASSUME NEW v \in Variant, Matches(v)
    PROVE  \E w \in FirstVariants : ProductOf[w] = ProductOf[v]
<1> DEFINE same == {w \in Variant : ProductOf[w] = ProductOf[v] /\ Matches(w)}
<1>1. same \subseteq Nat /\ v \in same
    OBVIOUS
<1>2. PICK w \in same : \A u \in same : ~(<<u, w>> \in OpToRel(<, Nat))
    BY <1>1, NatLessThanWellFounded, WFMin
<1>3. \A u \in same : u >= w
    <2> SUFFICES ASSUME NEW u \in same PROVE u >= w
        OBVIOUS
    <2>1. u \in Nat /\ w \in Nat
        BY <1>1, <1>2
    <2>2. <<u, w>> \notin OpToRel(<, Nat)
        BY <1>2
    <2>3. ~(u < w)
        BY <2>1, <2>2 DEF OpToRel
    <2> QED
        BY <2>1, <2>3
<1> QED
    BY <1>2, <1>3 DEF FirstVariants

LEMMA RankIsStrict ==
    ASSUME catalog \in Catalog
    PROVE  /\ \A v \in FirstVariants : Rank(v) \in 0..(Cardinality(FirstVariants) - 1)
           /\ \A v, w \in FirstVariants :
                 Before(ProductOf[v], ProductOf[w]) => Rank(v) < Rank(w)
<1> DEFINE before(v) == {u \in FirstVariants : Before(ProductOf[u], ProductOf[v])}
<1>0. IsFiniteSet(FirstVariants) /\ Cardinality(FirstVariants) \in Nat
    BY FirstVariantsFacts
<1>1. ASSUME NEW v \in FirstVariants
      PROVE  IsFiniteSet(before(v)) /\ Cardinality(before(v)) \in Nat
    BY <1>0, FS_Subset, FS_CardinalityType
<1>2. ASSUME NEW v \in FirstVariants
      PROVE  Rank(v) \in 0..(Cardinality(FirstVariants) - 1)
    <2>1. before(v) \subseteq FirstVariants /\ v \notin before(v) /\ v \in FirstVariants
        BY FirstVariantsFacts, BeforeIsOrder
    <2>2. Cardinality(before(v)) <= Cardinality(FirstVariants)
          /\ Cardinality(before(v)) # Cardinality(FirstVariants)
        BY <1>0, <2>1, FS_Subset
    <2> QED
        BY <1>0, <1>1, <2>2 DEF Rank
<1>3. ASSUME NEW v \in FirstVariants, NEW w \in FirstVariants,
             Before(ProductOf[v], ProductOf[w])
      PROVE  Rank(v) < Rank(w)
    <2>1. before(v) \subseteq before(w) /\ v \in before(w) /\ v \notin before(v)
        BY <1>3, FirstVariantsFacts, BeforeIsOrder
    <2>2. Cardinality(before(v)) <= Cardinality(before(w))
          /\ Cardinality(before(v)) # Cardinality(before(w))
        BY <1>1, <2>1, FS_Subset
    <2> QED
        BY <1>1, <2>2 DEF Rank
<1> QED
    BY <1>2, <1>3

LEMMA RankedFacts ==
    ASSUME catalog \in Catalog
    PROVE  /\ DOMAIN Ranked = 1..Cardinality(FirstVariants)
           /\ \A i \in DOMAIN Ranked : Ranked[i] \in FirstVariants
           /\ \A i, j \in DOMAIN Ranked :
                 j < i => Before(ProductOf[Ranked[j]], ProductOf[Ranked[i]])
           /\ \A i \in DOMAIN Ranked : Rank(Ranked[i]) = i - 1
           /\ \A v \in FirstVariants : \E i \in DOMAIN Ranked : Ranked[i] = v
<1> DEFINE n == Cardinality(FirstVariants)
           rank == [v \in FirstVariants |-> Rank(v)]
<1>0. n \in Nat /\ IsFiniteSet(FirstVariants)
    BY FirstVariantsFacts
<1>1. \A v, w \in FirstVariants : Rank(v) = Rank(w) => v = w
    <2> SUFFICES ASSUME NEW v \in FirstVariants, NEW w \in FirstVariants, Rank(v) = Rank(w)
                 PROVE  v = w
        OBVIOUS
    <2>1. Rank(v) \in Nat /\ Rank(w) \in Nat
        BY <1>0, RankIsStrict
    <2>2. ~Before(ProductOf[v], ProductOf[w]) /\ ~Before(ProductOf[w], ProductOf[v])
        BY <2>1, RankIsStrict
    <2> QED
        BY <2>2, FirstVariantsFacts, BeforeIsOrder
<1>2. \A i \in 1..n : \E v \in FirstVariants : Rank(v) = i - 1
    <2>1. rank \in Injection(FirstVariants, 0..(n - 1))
        BY <1>1, RankIsStrict DEF Injection, IsInjective
    <2>2. IsFiniteSet(0..(n - 1)) /\ Cardinality(0..(n - 1)) = n
        <3>1. 0 \in Int /\ n - 1 \in Int /\ (0 > n - 1 <=> n = 0) /\ (n - 1) - 0 + 1 = n
            BY <1>0
        <3> QED
            BY <3>1, FS_Interval
    <2>3. rank \in Surjection(FirstVariants, 0..(n - 1))
        BY <2>1, <2>2, FS_Injection
    <2>4. \A k \in 0..(n - 1) : \E v \in FirstVariants : rank[v] = k
        BY <2>3 DEF Surjection
    <2> QED
        BY <1>0, <2>4
<1>3. DOMAIN Ranked = 1..n
    BY DEF Ranked
<1>4. ASSUME NEW i \in 1..n
      PROVE  Ranked[i] \in FirstVariants /\ Rank(Ranked[i]) = i - 1
    <2>1. Ranked[i] = CHOOSE v \in FirstVariants : Rank(v) = i - 1
        BY <1>4 DEF Ranked, Rank
    <2> QED
        BY <1>2, <2>1
<1>5. ASSUME NEW i \in 1..n, NEW j \in 1..n, j < i
      PROVE  Before(ProductOf[Ranked[j]], ProductOf[Ranked[i]])
    <2>1. Rank(Ranked[j]) < Rank(Ranked[i]) /\ Rank(Ranked[i]) \in Nat /\ Rank(Ranked[j]) \in Nat
        BY <1>0, <1>4, <1>5
    <2>2. ~Before(ProductOf[Ranked[i]], ProductOf[Ranked[j]])
          /\ ProductOf[Ranked[i]] # ProductOf[Ranked[j]]
        BY <1>4, <2>1, RankIsStrict, FirstVariantsFacts
    <2> QED
        BY <1>4, <2>2, FirstVariantsFacts, BeforeIsOrder
<1>6. ASSUME NEW v \in FirstVariants
      PROVE  \E i \in 1..n : Ranked[i] = v
    <2>1. Rank(v) + 1 \in 1..n /\ (Rank(v) + 1) - 1 = Rank(v)
        BY <1>0, RankIsStrict
    <2> QED
        BY <1>1, <1>4, <2>1
<1> QED
    BY <1>3, <1>4, <1>5, <1>6

----------------------------------------------------------------------------
(* From the ranking to the results.                                        *)

\* What the conditions of the statement select is what suits and compares.
LEMMA MatchesAreSuitable ==
    ASSUME catalog \in Catalog, request \in Requests, NEW v \in Variant
    PROVE  Matches(v) <=> Suits(v) /\ Of(v).distance # None
<1>1. /\ Row(v).price \in Nat /\ Row(v).stock \in Nat \cup {None}
      /\ Of(v).category \in Category /\ Of(v).active \in BOOLEAN /\ Row(v).active \in BOOLEAN
    BY DEF Catalog, Row, Of
<1>2. /\ request.budget \in Nat \cup {None} /\ request.quantity \in Nat \cup {None}
      /\ request.category \in Category \cup {None}
    BY DEF Request
<1>3. None \notin Nat
    OBVIOUS
<1> DEFINE grants(wish) ==
            CASE wish[2] = None -> TRUE
              [] wish[2] # None /\ wish[1] = "budget" -> ~(Row(v).price > wish[2])
              [] OTHER -> ~(Row(v).stock < wish[2])
<1>4. grants(<<"budget", request.budget>>)
      <=> (request.budget # None => Row(v).price <= request.budget)
    <2>1. CASE request.budget = None
        BY <2>1
    <2>2. CASE request.budget # None
        <3>1. grants(<<"budget", request.budget>>) <=> ~(Row(v).price > request.budget)
            BY <2>2
        <3> HIDE DEF grants
        <3> QED
            BY <1>1, <1>2, <2>2, <3>1
    <2> QED
        BY <2>1, <2>2
<1>5. ASSUME Row(v).stock # None
      PROVE  grants(<<"quantity", request.quantity>>)
             <=> (request.quantity # None => Row(v).stock >= request.quantity)
    <2>1. CASE request.quantity = None
        BY <2>1
    <2>2. CASE request.quantity # None
        <3>1. grants(<<"quantity", request.quantity>>) <=> ~(Row(v).stock < request.quantity)
            BY <2>2
        <3> HIDE DEF grants
        <3> QED
            BY <1>1, <1>2, <1>5, <2>2, <3>1
    <2> QED
        BY <2>1, <2>2
<1>6. request.category \in {None} \cup {c \in Category : Lower[c] = Lower[Of(v).category]}
      <=> (request.category # None => Lower[Of(v).category] = Lower[request.category])
    BY <1>2
<1>7. Row(v).stock \notin {None, 0} <=> Row(v).stock # None /\ Row(v).stock > 0
    BY <1>1, <1>3
<1> HIDE DEF grants
<1>8. Suits(v) <=> /\ Row(v).active /\ Of(v).active /\ Row(v).stock \notin {None, 0}
                   /\ grants(<<"budget", request.budget>>)
                   /\ grants(<<"quantity", request.quantity>>)
                   /\ request.category
                         \in {None} \cup {c \in Category : Lower[c] = Lower[Of(v).category]}
    BY DEF Suits, grants
<1> QED
    BY <1>4, <1>5, <1>6, <1>7, <1>8 DEF Matches

LEMMA FoundIsTyped ==
    ASSUME catalog \in Catalog
    PROVE  /\ Found \in Seq([product : Product, variant : Variant, price : Price, stock : Stock])
           /\ DOMAIN Found = 1..Len(Found) /\ Len(Found) <= Limit
           /\ Len(Found) = Cardinality(FirstVariants) \/ Len(Found) = Limit
           /\ DOMAIN Found \subseteq DOMAIN Ranked
           /\ \A i \in DOMAIN Found : Found[i] = Shown(Ranked[i])
<1> DEFINE n == Cardinality(FirstVariants)
           m == IF n <= Limit THEN n ELSE Limit
           R == [product : Product, variant : Variant, price : Price, stock : Stock]
<1>1. n \in Nat /\ Limit \in Nat /\ m \in Nat
    BY FirstVariantsFacts
<1>2. DOMAIN Ranked = 1..n
    BY RankedFacts
<1>3. (1..n) \cap (1..Limit) = 1..m
    <2> HIDE DEF n
    <2> QED
        BY <1>1
<1>4. DOMAIN Found = 1..m
    BY <1>2, <1>3 DEF Found
<1>5. \A i \in 1..m : Found[i] = Shown(Ranked[i]) /\ i \in DOMAIN Ranked
    BY <1>2, <1>3 DEF Found
<1>6. ASSUME NEW v \in FirstVariants PROVE Shown(v) \in R
    <2>1. v \in Variant /\ Matches(v) /\ ProductOf[v] \in Product
        BY FirstVariantsFacts
    <2>2. Row(v).price \in Price /\ Row(v).stock \in Stock
        BY <2>1 DEF Catalog, Row, Matches
    <2> QED
        BY <2>1, <2>2 DEF Shown
<1>7. \A i \in 1..m : Found[i] \in R
    BY <1>5, <1>6, RankedFacts
<1>8. Found = [i \in 1..m |-> Found[i]]
    BY <1>4 DEF Found
<1>9. Found \in Seq(R) /\ Len(Found) = m
    <2> HIDE DEF m, R
    <2>1. [i \in 1..m |-> Found[i]] \in Seq(R)
        BY <1>1, <1>7
    <2>2. Len([i \in 1..m |-> Found[i]]) = m
        BY <1>1
    <2> QED
        BY <1>8, <2>1, <2>2
<1>10. m <= Limit /\ (m = n \/ m = Limit)
    <2> HIDE DEF n
    <2> QED
        BY <1>1
<1> QED
    BY <1>4, <1>5, <1>9, <1>10

LEMMA FoundIsBest ==
    ASSUME catalog \in Catalog, request \in Requests
    PROVE  IsBest(Found)
<1> DEFINE n == Cardinality(FirstVariants)
           m == Len(Found)
           listed == {Found[i].product : i \in 1..m}
<1>0. /\ DOMAIN Found = 1..m /\ DOMAIN Ranked = 1..n /\ m \in Nat /\ n \in Nat
      /\ m <= Limit /\ (m = n \/ m = Limit) /\ 1..m \subseteq 1..n
      /\ \A i \in 1..m : Found[i] = Shown(Ranked[i])
    <2> DEFINE R == [product : Product, variant : Variant, price : Price, stock : Stock]
    <2>0. Found \in Seq(R)
        BY FoundIsTyped
    <2> HIDE DEF R
    <2>1. Len(Found) \in Nat
        BY <2>0
    <2> QED
        BY <2>1, FoundIsTyped, RankedFacts, FirstVariantsFacts
<1> HIDE DEF n, m
<1>1. ASSUME NEW i \in 1..m
      PROVE  /\ Found[i].variant = Ranked[i] /\ Found[i].product = ProductOf[Ranked[i]]
             /\ Found[i] = Shown(Ranked[i])
             /\ Ranked[i] \in FirstVariants /\ i \in 1..n
    BY <1>0, RankedFacts DEF Shown
<1>2. ASSUME NEW i \in 1..m, NEW j \in 1..m, j < i
      PROVE  Before(Found[j].product, Found[i].product)
    <2>1. i \in DOMAIN Ranked /\ j \in DOMAIN Ranked
        BY <1>0, <1>1
    <2>2. Before(ProductOf[Ranked[j]], ProductOf[Ranked[i]])
        BY <1>2, <2>1, RankedFacts
    <2> QED
        BY <1>1, <2>2
<1>3. ASSUME NEW i \in 1..m
      PROVE  /\ Found[i] = Shown(Found[i].variant) /\ Suits(Found[i].variant)
             /\ \A w \in Variant :
                   ProductOf[w] = Found[i].product /\ Suits(w) => w >= Found[i].variant
             /\ \A j \in 1..(i - 1) : Before(Found[j].product, Found[i].product)
    <2>1. Ranked[i] \in Variant /\ Matches(Ranked[i])
        BY <1>1, FirstVariantsFacts
    <2>2. ASSUME NEW w \in Variant, ProductOf[w] = ProductOf[Ranked[i]], Suits(w)
          PROVE  w >= Ranked[i]
        <3>1. Of(w).distance # None
            BY <2>1, <2>2 DEF Matches, Of
        <3>2. Matches(w)
            BY <2>2, <3>1, MatchesAreSuitable
        <3> QED
            BY <1>1, <2>2, <3>2 DEF FirstVariants
    <2>3. \A j \in 1..(i - 1) : j \in 1..m /\ j < i
        BY <1>0
    <2> QED
        BY <1>1, <1>2, <2>1, <2>2, <2>3, MatchesAreSuitable
<1>4. Cardinality(listed) = m
    <2> DEFINE f == [i \in 1..m |-> Found[i].product]
    <2>1. ASSUME NEW i \in 1..m, NEW j \in 1..m, f[i] = f[j] PROVE i = j
        <3>1. \A k \in 1..m : IsComparable(Found[k].product)
            BY <1>1, FirstVariantsFacts
        <3>2. ~(i < j) /\ ~(j < i)
            BY <1>2, <2>1, <3>1, BeforeIsOrder
        <3> QED
            BY <1>0, <3>2
    <2>2. f \in Bijection(1..m, listed)
        BY <2>1 DEF Bijection, Injection, IsInjective, Surjection
    <2>3. IsFiniteSet(1..m) /\ Cardinality(1..m) = m
        <3>1. 1 \in Int /\ m \in Int /\ (1 > m <=> m = 0) /\ m - 1 + 1 = m
            BY <1>0
        <3> QED
            BY <3>1, FS_Interval
    <2> QED
        BY <2>2, <2>3, FS_Bijection DEF ExistsBijection
<1>5. ASSUME NEW p \in Eligible, p \notin listed
      PROVE  m = Limit /\ \A q \in listed : Before(q, p)
    <2>1. PICK v \in Variant : Suits(v) /\ Of(v).distance # None /\ p = ProductOf[v]
        BY <1>5 DEF Eligible
    <2>2. PICK w \in FirstVariants : ProductOf[w] = p
        BY <2>1, MatchesAreSuitable, FirstVariantExists
    <2>3. PICK k \in 1..n : Ranked[k] = w
        BY <1>0, RankedFacts
    <2>4. k \notin 1..m
        BY <1>1, <1>5, <2>2, <2>3
    <2>5. m = Limit /\ \A i \in 1..m : i < k
        BY <1>0, <2>4
    <2>6. ASSUME NEW i \in 1..m PROVE Before(Found[i].product, p)
        BY <1>0, <1>1, <2>2, <2>3, <2>5, RankedFacts
    <2> QED
        BY <2>5, <2>6
<1> QED
    BY <1>0, <1>3, <1>4, <1>5 DEF m, IsBest

\* The products before the one found at a place are fewer than the place: each
\* has its first variant before the one of that product.
LEMMA FoundSpoils ==
    ASSUME catalog \in Catalog, request \in Requests,
           NEW i \in DOMAIN Found, DistanceOf(Found[i].product) = NaN
    PROVE  IsSpoiled
<1> DEFINE v == Ranked[i]
           p == ProductOf[v]
           first == {w \in FirstVariants : Before(ProductOf[w], p)}
           before == {q \in Eligible : Before(q, p)}
           image == {ProductOf[w] : w \in first}
<1>1. /\ i \in 1..Limit /\ i \in DOMAIN Ranked /\ v \in FirstVariants /\ Found[i].product = p
    BY FoundIsTyped, RankedFacts DEF Found, Shown
<1>2. v \in Variant /\ Matches(v)
    BY <1>1, FirstVariantsFacts
<1>3. p \in Eligible
    BY <1>2, MatchesAreSuitable DEF Eligible
<1>4. IsFiniteSet(first) /\ Cardinality(first) \in Nat /\ Cardinality(first) = Rank(v)
    BY FirstVariantsFacts, FS_Subset, FS_CardinalityType DEF Rank
<1>5. Rank(v) = i - 1
    BY <1>1, RankedFacts
<1>6. before \subseteq image
    <2> SUFFICES ASSUME NEW q \in Eligible, Before(q, p) PROVE q \in image
        OBVIOUS
    <2>1. PICK u \in Variant : Suits(u) /\ Of(u).distance # None /\ q = ProductOf[u]
        BY DEF Eligible
    <2>2. PICK w \in FirstVariants : ProductOf[w] = q
        BY <2>1, MatchesAreSuitable, FirstVariantExists
    <2> QED
        BY <2>2
<1>7. IsFiniteSet(image) /\ Cardinality(image) <= Cardinality(first)
    <2> DEFINE f == [w \in first |-> ProductOf[w]]
    <2>1. f \in Surjection(first, image)
        BY DEF Surjection
    <2> HIDE DEF f, first, image
    <2> QED
        BY <1>4, <2>1, FS_Surjection
<1>8. Cardinality(before) <= Cardinality(image)
    BY <1>6, <1>7, FS_Subset
<1>9. Cardinality(before) \in Nat /\ Cardinality(image) \in Nat
    BY <1>6, <1>7, FS_Subset, FS_CardinalityType
<1> HIDE DEF v, p, first, before, image
<1>10. Cardinality(before) < Limit
    BY <1>1, <1>4, <1>5, <1>7, <1>8, <1>9
<1> QED
    BY <1>1, <1>3, <1>10 DEF IsSpoiled, before

----------------------------------------------------------------------------
(* The call.                                                               *)

\* The extraction has succeeded, by the first answer or by the repair.
Extracted ==
    /\ keys.chat /\ client.chat = "closed"
    /\ request \in Requests
    /\ Len(said) \in 1..2 /\ Last(said) = "request"
    /\ Len(said) = 2 => said[1] = "invalid"

AllTransient == \A i \in DOMAIN embedded : embedded[i] \in Transient

\* The client for Jina is open since the first request, and n requests were
\* followed by a sleep.
Connected(n) ==
    /\ Extracted /\ IsSearch
    /\ keys.jina /\ client.jina = IF embedded = <<>> THEN "none" ELSE "open"
    /\ n \in 0..MaxRetries
    /\ waited <= n * MaxDelay

NotConnected == embedded = <<>> /\ waited = 0 /\ client.jina = "none"

Progress ==
    /\ pc = "begin" => NotConnected /\ said = <<>> /\ request = None /\ client.chat = "none"
    /\ pc = "extract" =>
          NotConnected /\ keys.chat /\ said = <<>> /\ request = None /\ client.chat = "open"
    /\ pc = "repair" =>
          NotConnected /\ keys.chat /\ Len(said) = 1 /\ said[1] = "invalid"
          /\ request = None /\ client.chat = "open"
    /\ pc = "respond" => NotConnected /\ Extracted
    /\ pc = "connect" => NotConnected /\ Extracted /\ IsSearch
    /\ pc = "embed" => Connected(Len(embedded)) /\ AllTransient
    /\ pc = "sleep" =>
          Connected(Len(embedded) - 1) /\ AllTransient /\ Len(embedded) \in 1..MaxRetries
    /\ pc = "query" => Connected(Len(embedded) - 1) /\ Last(embedded) \in Vectors
    /\ pc # "done" => queried = "none" /\ outcome = "none"

Inv ==
    /\ TypeOK
    /\ Progress
    /\ RequestsAreJustified
    /\ FailuresAreJustified
    /\ ClientsAreClosed

----------------------------------------------------------------------------
(* Lemmas.                                                                 *)

USE CustomerSearchAssumption, InputsAssumption

LEMMA Products ==
    ASSUME NEW a \in Nat, NEW b \in Nat, NEW d \in Nat, a <= b
    PROVE  /\ a * d \in Nat
           /\ a * d <= b * d
           /\ (a + 1) * d = a * d + d
OBVIOUS

\* What an answer adds to a sequence of answers.
LEMMA Answered ==
    ASSUME NEW S, NEW s \in Seq(S), NEW x \in S
    PROVE  /\ Append(s, x) \in Seq(S)
           /\ Len(Append(s, x)) = Len(s) + 1
           /\ Append(s, x) # <<>>
           /\ Last(Append(s, x)) = x
           /\ \A i \in DOMAIN s : Append(s, x)[i] = s[i]
BY DEF Last

LEMMA ExtractedFacts ==
    ASSUME Extracted
    PROVE  said # <<>> /\ Last(said) = "request" /\ ~(Len(said) = 2 /\ said[2] = "invalid")
<1>1. Len(said) \in 1..2 /\ Last(said) = "request"
    BY DEF Extracted
<1> QED
    BY <1>1 DEF Last

LEMMA InitInv == Init => Inv
<1> SUFFICES ASSUME Init PROVE Inv
    OBVIOUS
<1>1. TypeOK
    BY DEF Init, TypeOK, Places, Outcomes
<1>2. Progress
    BY DEF Init, Progress, NotConnected
<1>3. RequestsAreJustified /\ FailuresAreJustified /\ ClientsAreClosed
    BY DEF Init, RequestsAreJustified, FailuresAreJustified, ClientsAreClosed
<1> QED
    BY <1>1, <1>2, <1>3 DEF Inv

\* The call is not aware of the catalogue, except in its query.
LEMMA ChangeInv ==
    ASSUME Inv, NEW c \in Catalog, Change(c)
    PROVE  Inv'
<1> USE DEF Change, callVars
<1>1. TypeOK'
    BY DEF Inv, TypeOK
<1>2. Progress'
    BY DEF Inv, Progress, NotConnected, Extracted, Connected, AllTransient, IsSearch
<1>3. RequestsAreJustified'
    BY DEF Inv, RequestsAreJustified, IsSearch
<1>4. FailuresAreJustified' /\ ClientsAreClosed'
    BY DEF Inv, FailuresAreJustified, ClientsAreClosed, IsSearch, IsExhausted
<1> QED
    BY <1>1, <1>2, <1>3, <1>4 DEF Inv

\* A row of a table gets a value; the catalogue remains one.
ProductRow == [active : BOOLEAN, category : Category, distance : Distance \cup {NaN, None}]
VariantRow == [active : BOOLEAN, price : Price, stock : Stock \cup {None}]

LEMMA RowsChange ==
    ASSUME NEW c \in Catalog
    PROVE  /\ \A m \in Merchant, b \in BOOLEAN : [c EXCEPT !.merchant[m] = b] \in Catalog
           /\ \A p \in Product, r \in ProductRow : [c EXCEPT !.product[p] = r] \in Catalog
           /\ \A v \in Variant, r \in VariantRow : [c EXCEPT !.variant[v] = r] \in Catalog
<1>1. /\ c.merchant \in [Merchant -> BOOLEAN]
      /\ c.product \in [Product -> ProductRow]
      /\ c.variant \in [Variant -> VariantRow]
    BY DEF Catalog, ProductRow, VariantRow
<1>2. ASSUME NEW m \in Merchant, NEW b \in BOOLEAN
      PROVE  [c EXCEPT !.merchant[m] = b] \in Catalog
    <2>1. [c.merchant EXCEPT ![m] = b] \in [Merchant -> BOOLEAN]
        BY <1>1
    <2> QED
        BY <2>1 DEF Catalog
<1>3. ASSUME NEW p \in Product, NEW r \in ProductRow
      PROVE  [c EXCEPT !.product[p] = r] \in Catalog
    <2>1. [c.product EXCEPT ![p] = r] \in [Product -> ProductRow]
        BY <1>1
    <2> QED
        BY <2>1 DEF Catalog, ProductRow
<1>4. ASSUME NEW v \in Variant, NEW r \in VariantRow
      PROVE  [c EXCEPT !.variant[v] = r] \in Catalog
    <2>1. [c.variant EXCEPT ![v] = r] \in [Variant -> VariantRow]
        BY <1>1
    <2> QED
        BY <2>1 DEF Catalog, VariantRow
<1> QED
    BY <1>2, <1>3, <1>4

LEMMA CatalogInv ==
    ASSUME Inv, (\E m \in Merchant : SetMerchant(m)) \/ (\E p \in Product : SetProduct(p))
                \/ (\E v \in Variant : SetVariant(v))
    PROVE  Inv'
<1>0. /\ catalog \in Catalog
      /\ catalog.merchant \in [Merchant -> BOOLEAN]
      /\ catalog.product \in [Product -> ProductRow]
      /\ catalog.variant \in [Variant -> VariantRow]
    BY DEF Inv, TypeOK, Catalog, ProductRow, VariantRow
<1>1. ASSUME NEW m \in Merchant, SetMerchant(m) PROVE Inv'
    <2>1. [catalog EXCEPT !.merchant[m] = ~@] \in Catalog
        BY <1>0, RowsChange
    <2> QED
        BY <1>1, <2>1, ChangeInv DEF SetMerchant
<1>2. ASSUME NEW p \in Product, SetProduct(p) PROVE Inv'
    <2>1. CASE Change([catalog EXCEPT !.product[p].active = ~@])
        <3>1. [catalog.product[p] EXCEPT !.active = ~@] \in ProductRow
            BY <1>0 DEF ProductRow
        <3>2. [catalog EXCEPT !.product[p].active = ~@] \in Catalog
            BY <1>0, <3>1, RowsChange
        <3> QED
            BY <2>1, <3>2, ChangeInv
    <2>2. ASSUME NEW c \in Category, Change([catalog EXCEPT !.product[p].category = c])
          PROVE  Inv'
        <3>1. [catalog.product[p] EXCEPT !.category = c] \in ProductRow
            BY <1>0 DEF ProductRow
        <3>2. [catalog EXCEPT !.product[p].category = c] \in Catalog
            BY <1>0, <3>1, RowsChange
        <3> QED
            BY <2>2, <3>2, ChangeInv
    <2>3. ASSUME NEW d \in Distance \cup {NaN, None},
                 Change([catalog EXCEPT !.product[p].distance = d])
          PROVE  Inv'
        <3>1. [catalog.product[p] EXCEPT !.distance = d] \in ProductRow
            BY <1>0 DEF ProductRow
        <3>2. [catalog EXCEPT !.product[p].distance = d] \in Catalog
            BY <1>0, <3>1, RowsChange
        <3> QED
            BY <2>3, <3>2, ChangeInv
    <2> QED
        BY <1>2, <2>1, <2>2, <2>3 DEF SetProduct
<1>3. ASSUME NEW v \in Variant, SetVariant(v) PROVE Inv'
    <2>1. CASE Change([catalog EXCEPT !.variant[v].active = ~@])
        <3>1. [catalog.variant[v] EXCEPT !.active = ~@] \in VariantRow
            BY <1>0 DEF VariantRow
        <3>2. [catalog EXCEPT !.variant[v].active = ~@] \in Catalog
            BY <1>0, <3>1, RowsChange
        <3> QED
            BY <2>1, <3>2, ChangeInv
    <2>2. ASSUME NEW n \in Price, Change([catalog EXCEPT !.variant[v].price = n])
          PROVE  Inv'
        <3>1. [catalog.variant[v] EXCEPT !.price = n] \in VariantRow
            BY <1>0 DEF VariantRow
        <3>2. [catalog EXCEPT !.variant[v].price = n] \in Catalog
            BY <1>0, <3>1, RowsChange
        <3> QED
            BY <2>2, <3>2, ChangeInv
    <2>3. ASSUME NEW n \in Stock, Change([catalog EXCEPT !.variant[v].stock = n])
          PROVE  Inv'
        <3>1. [catalog.variant[v] EXCEPT !.stock = n] \in VariantRow
            BY <1>0 DEF VariantRow
        <3>2. [catalog EXCEPT !.variant[v].stock = n] \in Catalog
            BY <1>0, <3>1, RowsChange
        <3> QED
            BY <2>3, <3>2, ChangeInv
    <2> QED
        BY <1>3, <2>1, <2>2, <2>3 DEF SetVariant
<1> QED
    BY <1>1, <1>2, <1>3

----------------------------------------------------------------------------
(* The steps of the call.                                                  *)

LEMMA BeginInv ==
    ASSUME Inv, BeginExtraction
    PROVE  Inv'
<1> USE DEF Inv, BeginExtraction
<1>1. NotConnected /\ said = <<>> /\ request = None /\ client.chat = "none"
      /\ queried = "none" /\ outcome = "none"
    BY DEF Progress
<1>2. TypeOK'
    BY DEF TypeOK, Places, Outcomes
<1>3. Progress'
    BY <1>1 DEF Progress, NotConnected, TypeOK
<1>4. RequestsAreJustified'
    BY <1>1 DEF RequestsAreJustified, NotConnected
<1>5. FailuresAreJustified' /\ ClientsAreClosed'
    BY <1>1 DEF FailuresAreJustified, ClientsAreClosed, NotConnected, TypeOK
<1> QED
    BY <1>2, <1>3, <1>4, <1>5

LEMMA AskInv ==
    ASSUME Inv, AskModel
    PROVE  Inv'
<1> USE DEF Inv
<1>1. /\ pc \in {"extract", "repair"}
      /\ NotConnected /\ keys.chat /\ request = None /\ client.chat = "open"
      /\ queried = "none" /\ outcome = "none"
      /\ pc = "extract" => said = <<>>
      /\ pc = "repair" => Len(said) = 1 /\ said[1] = "invalid"
    BY DEF AskModel, Progress
<1>2. UNCHANGED <<catalog, changes, keys, embedded, waited, queried, results>>
    BY DEF AskModel
<1>a. ASSUME NEW x \in ChatFailures \cup {"request"}, said' = Append(said, x)
      PROVE  /\ said' \in Seq(ChatFailures \cup {"request"})
             /\ said' # <<>> /\ Last(said') = x /\ said'[Len(said')] = x
             /\ Len(said') = IF pc = "extract" THEN 1 ELSE 2
             /\ Len(said') = 2 => said'[1] = "invalid"
    <2>1. said \in Seq(ChatFailures \cup {"request"})
        BY DEF TypeOK
    <2> QED
        BY <1>a, <1>1, <2>1, Answered DEF Last
<1>3. CASE /\ request' \in Requests /\ said' = Append(said, "request")
           /\ EndExtraction("respond", "none")
    <2> USE <1>3 DEF EndExtraction
    <2>0. /\ said' \in Seq(ChatFailures \cup {"request"})
          /\ said' # <<>> /\ Last(said') = "request" /\ Len(said') \in 1..2
          /\ Len(said') = 2 => said'[1] = "invalid"
        BY <1>a
    <2>1. TypeOK'
        BY <1>1, <1>2, <2>0 DEF TypeOK, Places, Outcomes
    <2>2. Progress'
        BY <1>1, <1>2, <2>0 DEF Progress, NotConnected, Extracted, TypeOK
    <2>3. RequestsAreJustified' /\ FailuresAreJustified' /\ ClientsAreClosed'
        BY <1>1, <1>2, <2>0
        DEF RequestsAreJustified, FailuresAreJustified, ClientsAreClosed, NotConnected
    <2> QED
        BY <2>1, <2>2, <2>3
<1>4. CASE /\ pc = "extract" /\ said' = Append(said, "invalid") /\ pc' = "repair"
           /\ UNCHANGED <<request, client, outcome>>
    <2> USE <1>4
    <2>0. /\ said' \in Seq(ChatFailures \cup {"request"})
          /\ Len(said') = 1 /\ said'[1] = "invalid"
        BY <1>a DEF ChatFailures
    <2>1. TypeOK'
        BY <1>1, <1>2, <2>0 DEF TypeOK, Places, Outcomes
    <2>2. Progress'
        BY <1>1, <1>2, <2>0 DEF Progress, NotConnected
    <2>3. RequestsAreJustified' /\ FailuresAreJustified' /\ ClientsAreClosed'
        BY <1>1, <1>2, <2>0
        DEF RequestsAreJustified, FailuresAreJustified, ClientsAreClosed, NotConnected
    <2> QED
        BY <2>1, <2>2, <2>3
<1>5. ASSUME NEW answer \in ChatFailures, answer = "invalid" => pc = "repair",
             said' = Append(said, answer), UNCHANGED request,
             EndExtraction("done", IF answer = "rejected"
                                   THEN "CustomerRequestConfigurationError"
                                   ELSE "CustomerRequestExtractionError")
      PROVE  Inv'
    <2> USE <1>5 DEF EndExtraction
    <2>0. /\ said' \in Seq(ChatFailures \cup {"request"})
          /\ said' # <<>> /\ Last(said') = answer /\ said'[Len(said')] = answer
          /\ Len(said') = IF pc = "extract" THEN 1 ELSE 2
          /\ Len(said') = 2 => said'[1] = "invalid"
        BY <1>a
    <2>1. TypeOK'
        BY <1>1, <1>2, <2>0 DEF TypeOK, Places, Outcomes
    <2>2. Progress'
        BY DEF Progress
    <2>3. RequestsAreJustified'
        BY <1>1, <1>2, <2>0 DEF RequestsAreJustified, NotConnected
    <2>4. FailuresAreJustified'
        <3>1. Len(said') = 2 /\ said'[2] = "invalid" <=> answer = "invalid"
            BY <1>1, <2>0
        <3> QED
            BY <1>1, <1>2, <2>0, <3>1 DEF FailuresAreJustified, IsSearch, ChatFailures, NotConnected
    <2>5. ClientsAreClosed'
        BY <1>1, <1>2 DEF ClientsAreClosed, NotConnected, TypeOK
    <2> QED
        BY <2>1, <2>2, <2>3, <2>4, <2>5
<1> QED
    BY <1>3, <1>4, <1>5 DEF AskModel

LEMMA RespondInv ==
    ASSUME Inv, Respond
    PROVE  Inv'
<1> USE DEF Inv, Respond
<1>1. NotConnected /\ Extracted /\ queried = "none" /\ outcome = "none"
    BY DEF Progress
<1>2. request # None /\ said # <<>> /\ Last(said) = "request"
      /\ ~(Len(said) = 2 /\ said[2] = "invalid")
    BY <1>1, ExtractedFacts DEF Extracted
<1>3. TypeOK'
    BY DEF TypeOK, Places, Outcomes
<1>4. Progress'
    BY <1>1, <1>2 DEF Progress, NotConnected, Extracted, IsSearch
<1>5. RequestsAreJustified'
    BY <1>1 DEF RequestsAreJustified, NotConnected
<1>6. FailuresAreJustified' /\ ClientsAreClosed'
    BY <1>1, <1>2
    DEF FailuresAreJustified, ClientsAreClosed, NotConnected, Extracted, IsSearch
<1> QED
    BY <1>3, <1>4, <1>5, <1>6

LEMMA ConnectInv ==
    ASSUME Inv, Connect
    PROVE  Inv'
<1> USE DEF Inv, Connect
<1>1. NotConnected /\ Extracted /\ IsSearch /\ queried = "none" /\ outcome = "none"
    BY DEF Progress
<1>a. said # <<>> /\ Last(said) = "request" /\ ~(Len(said) = 2 /\ said[2] = "invalid")
    BY <1>1, ExtractedFacts DEF Extracted
<1>2. TypeOK'
    BY DEF TypeOK, Places, Outcomes, Give
<1>3. Progress'
    BY <1>1 DEF Progress, NotConnected, Extracted, IsSearch, Connected, AllTransient, TypeOK, Give
<1>4. RequestsAreJustified'
    BY <1>1 DEF RequestsAreJustified, NotConnected
<1>5. FailuresAreJustified' /\ ClientsAreClosed'
    BY <1>1, <1>a
    DEF FailuresAreJustified, ClientsAreClosed, NotConnected, Extracted, IsSearch, TypeOK, Give
<1> QED
    BY <1>2, <1>3, <1>4, <1>5

LEMMA EmbedInv ==
    ASSUME Inv, Embed
    PROVE  Inv'
<1> USE DEF Inv
<1>1. /\ Connected(Len(embedded)) /\ AllTransient /\ queried = "none" /\ outcome = "none"
      /\ pc = "embed"
    BY DEF Embed, Progress
<1>2. /\ UNCHANGED <<catalog, changes, keys, said, request, queried, results, waited>>
      /\ client' = [client EXCEPT !.jina = "open"]
      /\ pc' \in {"query", "sleep", "done"}
    BY DEF Embed, Give
<1>3. PICK answer \in EmbedAnswers :
        /\ embedded' = Append(embedded, answer)
        /\ \/ answer \in Vectors /\ pc' = "query" /\ outcome' = "none"
           \/ answer \in Transient /\ pc' = "sleep" /\ outcome' = "none"
              /\ RetriesLeft(Len(embedded'))
           \/ answer \in Transient /\ pc' = "done" /\ ~RetriesLeft(Len(embedded'))
              /\ outcome' = "ProductSearchExecutionError"
           \/ answer \in Permanent /\ pc' = "done"
              /\ outcome' = "ProductSearchExecutionError"
           \/ answer \in Unforeseen /\ pc' = "done" /\ outcome' = "raised"
    BY <1>1 DEF Embed, Give
<1>4. /\ embedded \in Seq(EmbedAnswers) /\ embedded' \in Seq(EmbedAnswers)
      /\ Len(embedded') = Len(embedded) + 1 /\ embedded' # <<>>
      /\ Last(embedded') = answer /\ embedded'[Len(embedded')] = answer
      /\ \A i \in 1..Len(embedded) : embedded'[i] \in Transient
      /\ Len(embedded) \in 0..MaxRetries
    <2>1. embedded \in Seq(EmbedAnswers)
        BY DEF TypeOK
    <2>2. \A i \in 1..Len(embedded) : embedded[i] \in Transient
        BY <1>1, <2>1 DEF AllTransient
    <2> QED
        BY <1>1, <1>3, <2>1, <2>2, Answered DEF Connected, Last
<1>5. said # <<>> /\ Last(said) = "request" /\ ~(Len(said) = 2 /\ said[2] = "invalid")
      /\ keys.chat /\ keys.jina /\ IsSearch /\ request # None
      /\ client'.chat = "closed" /\ client'.jina = "open"
    BY <1>1, <1>2, ExtractedFacts DEF Connected, Extracted, TypeOK
<1>6. TypeOK'
    BY <1>2, <1>3, <1>4 DEF TypeOK, Places, Outcomes
<1>7. Progress'
    <2>1. pc' = "sleep" => AllTransient'
        <3>1. DOMAIN embedded' = 1..(Len(embedded) + 1) /\ Len(embedded) \in Nat
            BY <1>4
        <3>2. pc' = "sleep" => answer \in Transient
            BY <1>3
        <3> QED
            BY <1>4, <3>1, <3>2 DEF AllTransient
    <2>2. Extracted' /\ IsSearch'
        BY <1>1, <1>2, <1>5 DEF Connected, Extracted, IsSearch
    <2>3. Len(embedded') - 1 = Len(embedded)
        BY <1>4
    <2>4. Connected(Len(embedded) - 1)'
        BY <1>1, <1>2, <1>4, <1>5, <2>2, <2>3 DEF Connected
    <2> QED
        BY <1>1, <1>2, <1>3, <1>4, <2>1, <2>4 DEF Progress, RetriesLeft
<1>8. RequestsAreJustified'
    <2>1. \A i \in 1..(Len(embedded') - 1) : embedded'[i] \in Transient
        BY <1>4
    <2> QED
        BY <1>1, <1>2, <1>4, <1>5, <2>1 DEF RequestsAreJustified, IsSearch
<1>9. FailuresAreJustified'
    <2>1. IsSearch'
        BY <1>2, <1>5 DEF IsSearch
    <2>2. answer \in Transient /\ ~RetriesLeft(Len(embedded')) => IsExhausted'
        BY <1>4 DEF RetriesLeft, IsExhausted
    <2>3. Last(said)' = Last(said) /\ Last(embedded)' = answer
        BY <1>2, <1>4 DEF Last
    <2>4. CASE pc' # "done"
        BY <2>4 DEF FailuresAreJustified
    <2>5. CASE pc' = "done"
        <3>1. \/ outcome' = "raised" /\ answer \in Unforeseen
              \/ /\ outcome' = "ProductSearchExecutionError"
                 /\ answer \in Permanent \/ IsExhausted'
            BY <1>3, <2>2, <2>5
        <3> QED
            BY <1>1, <1>2, <1>4, <1>5, <2>1, <2>3, <3>1 DEF FailuresAreJustified, Unforeseen
    <2> QED
        BY <2>4, <2>5
<1>10. ClientsAreClosed'
    BY <1>1, <1>2, <1>4, <1>5 DEF ClientsAreClosed
<1> QED
    BY <1>6, <1>7, <1>8, <1>9, <1>10

LEMMA SleepInv ==
    ASSUME Inv, Sleep
    PROVE  Inv'
<1> USE DEF Inv
<1>1. /\ Connected(Len(embedded) - 1) /\ AllTransient /\ Len(embedded) \in 1..MaxRetries
      /\ queried = "none" /\ outcome = "none" /\ pc = "sleep"
    BY DEF Sleep, Progress
<1>2. UNCHANGED <<catalog, changes, keys, said, request, embedded, queried, results, client>>
    BY DEF Sleep, Give
<1>3. said # <<>> /\ Last(said) = "request" /\ ~(Len(said) = 2 /\ said[2] = "invalid")
      /\ keys.chat /\ keys.jina /\ IsSearch /\ request # None
      /\ client.chat = "closed" /\ client.jina = "open" /\ embedded # <<>>
    BY <1>1, ExtractedFacts DEF Connected, Extracted
<1>4. CASE pc' = "embed" /\ outcome' = outcome /\ \E d \in Delays : waited' = waited + d
    <2>1. PICK d \in 0..MaxDelay : waited' = waited + d
        <3>1. Last(embedded) \in Transient
            BY <1>1 DEF AllTransient, Last, TypeOK
        <3>2. {DefaultDelay} \subseteq 0..MaxDelay /\ {MaxDelay} \subseteq 0..MaxDelay
              /\ {0} \subseteq 0..MaxDelay
            OBVIOUS
        <3>3. Delays \in {{DefaultDelay}, 0..MaxDelay, {MaxDelay}, {0}}
            BY <3>1 DEF Delays, Transient
        <3>4. Delays \subseteq 0..MaxDelay
            BY <3>2, <3>3
        <3> QED
            BY <1>4, <3>4
    <2>2. /\ waited \in Nat /\ waited' \in Nat
          /\ waited' <= Len(embedded) * MaxDelay
          /\ Len(embedded) * MaxDelay <= MaxRetries * MaxDelay
          /\ Len(embedded) * MaxDelay \in Nat /\ MaxRetries * MaxDelay \in Nat
        <3>1. /\ waited \in 0..(MaxRetries * MaxDelay)
              /\ waited <= (Len(embedded) - 1) * MaxDelay
              /\ MaxRetries * MaxDelay \in Nat
            BY <1>1, Products DEF TypeOK, Connected
        <3>2. /\ Len(embedded) - 1 \in Nat /\ Len(embedded) \in Nat
              /\ Len(embedded) <= MaxRetries
              /\ (Len(embedded) - 1) + 1 = Len(embedded)
            BY <1>1
        <3>3. /\ Len(embedded) * MaxDelay = (Len(embedded) - 1) * MaxDelay + MaxDelay
              /\ (Len(embedded) - 1) * MaxDelay \in Nat
            BY <3>2, Products
        <3>4. Len(embedded) * MaxDelay <= MaxRetries * MaxDelay
              /\ Len(embedded) * MaxDelay \in Nat
            BY <3>2, Products
        <3> HIDE DEF Inv
        <3> QED
            BY <2>1, <3>1, <3>3, <3>4
    <2>3. TypeOK'
        <3>1. waited' \in 0..(MaxRetries * MaxDelay)
            <4> HIDE DEF Inv
            <4> QED
                BY <2>2
        <3> QED
            BY <1>2, <1>4, <3>1 DEF TypeOK, Places
    <2>4. Connected(Len(embedded))'
        <3>1. Extracted' /\ IsSearch'
            BY <1>1, <1>2 DEF Connected, Extracted, IsSearch
        <3> QED
            BY <1>1, <1>2, <1>3, <2>2, <3>1 DEF Connected
    <2>5. Progress'
        BY <1>1, <1>2, <1>4, <2>4 DEF Progress, AllTransient
    <2>6. RequestsAreJustified' /\ FailuresAreJustified' /\ ClientsAreClosed'
        BY <1>2, <1>4
        DEF RequestsAreJustified, FailuresAreJustified, ClientsAreClosed, IsSearch
    <2> QED
        BY <2>3, <2>5, <2>6
<1>5. CASE Last(embedded) = "not a number" /\ Give("raised") /\ UNCHANGED waited
    <2> USE <1>5 DEF Give
    <2>1. TypeOK'
        BY <1>2 DEF TypeOK, Places, Outcomes
    <2>2. Progress'
        BY DEF Progress
    <2>3. RequestsAreJustified'
        BY <1>2 DEF RequestsAreJustified, IsSearch
    <2>4. FailuresAreJustified'
        <3>1. IsSearch' /\ Last(said)' = Last(said) /\ Last(embedded)' = "not a number"
            BY <1>2, <1>3 DEF IsSearch, Last
        <3> QED
            BY <1>1, <1>2, <1>3, <3>1 DEF FailuresAreJustified
    <2>5. ClientsAreClosed'
        BY <1>1, <1>2, <1>3 DEF ClientsAreClosed
    <2> QED
        BY <2>1, <2>2, <2>3, <2>4, <2>5
<1> QED
    BY <1>4, <1>5 DEF Sleep

\* The CHOOSE of the query is left to the lemmas about it.
LEMMA QueryInv ==
    ASSUME Inv, Query
    PROVE  Inv'
<1> USE DEF Inv
<1>1. /\ Connected(Len(embedded) - 1) /\ Last(embedded) \in Vectors
      /\ outcome = "none" /\ pc = "query" /\ pc' = "done"
    BY DEF Query, Progress
<1>2. /\ UNCHANGED <<catalog, changes, keys, said, request, embedded, waited>>
      /\ client' = [client EXCEPT !.jina = "closed"]
      /\ queried' \in {"rows", "error"}
      /\ \/ outcome' = "ProductSearchExecutionError" /\ results' = results
         \/ outcome' = "results" /\ results' = Found /\ queried' = "rows"
    BY DEF Query, CloseClient
<1>3. said # <<>> /\ Last(said) = "request" /\ ~(Len(said) = 2 /\ said[2] = "invalid")
      /\ keys.chat /\ keys.jina /\ IsSearch /\ request # None
      /\ client.chat = "closed" /\ Len(embedded) - 1 \in Nat
    BY <1>1, ExtractedFacts DEF Connected, Extracted
<1>4. embedded # <<>>
    BY <1>3
<1>5. TypeOK'
    <2>1. results' \in Seq([product : Product, variant : Variant, price : Price, stock : Stock])
        BY <1>2, FoundIsTyped DEF TypeOK
    <2> QED
        BY <1>1, <1>2, <2>1 DEF TypeOK, Places, Outcomes
<1>6. Progress'
    BY <1>1 DEF Progress
<1>7. RequestsAreJustified'
    BY <1>1, <1>2, <1>4 DEF RequestsAreJustified, IsSearch, Last
<1>8. FailuresAreJustified'
    <2>1. IsSearch' /\ Last(said)' = Last(said)
        BY <1>2, <1>3 DEF IsSearch, Last
    <2> QED
        BY <1>1, <1>2, <1>3, <2>1 DEF FailuresAreJustified
<1>9. ClientsAreClosed'
    BY <1>1, <1>2, <1>3 DEF ClientsAreClosed, TypeOK
<1> QED
    BY <1>5, <1>6, <1>7, <1>8, <1>9

LEMMA StutterInv ==
    ASSUME Inv, UNCHANGED vars
    PROVE  Inv'
<1> USE DEF vars, callVars
<1>1. TypeOK'
    BY DEF Inv, TypeOK
<1>2. Progress'
    BY DEF Inv, Progress, NotConnected, Extracted, Connected, AllTransient, IsSearch
<1>3. RequestsAreJustified'
    BY DEF Inv, RequestsAreJustified, IsSearch
<1>4. FailuresAreJustified' /\ ClientsAreClosed'
    BY DEF Inv, FailuresAreJustified, ClientsAreClosed, IsSearch, IsExhausted
<1> QED
    BY <1>1, <1>2, <1>3, <1>4 DEF Inv

LEMMA NextInv ==
    ASSUME Inv, [Next]_vars
    PROVE  Inv'
BY CatalogInv, BeginInv, AskInv, RespondInv, ConnectInv, EmbedInv, SleepInv, QueryInv,
   StutterInv
DEF Next

\* Only the query reads rows; its results are what the statement found, unless
\* a product found cannot be compared.
LEMMA RowsAreFound ==
    ASSUME Inv, [Next]_vars, queried = "none", queried' = "rows"
    PROVE  /\ request \in Requests /\ catalog \in Catalog
           /\ outcome' = "results" => results' = Found
           /\ outcome' # "results" => \E i \in DOMAIN Found : DistanceOf(Found[i].product) = NaN
<1>1. Query
    BY DEF Next, vars, callVars, SetMerchant, SetProduct, SetVariant, Change,
           BeginExtraction, AskModel, EndExtraction, Respond, Connect, Embed, Sleep, Give
<1>2. /\ pc = "query"
      /\ \/ /\ outcome' # "results"
            /\ \E i \in DOMAIN Found : DistanceOf(Found[i].product) = NaN
         \/ outcome' = "results" /\ results' = Found
    BY <1>1 DEF Query
<1>3. request \in Requests
    BY <1>2 DEF Inv, Progress, Connected, Extracted
<1> QED
    BY <1>2, <1>3 DEF Inv, TypeOK

LEMMA Invariance == Spec => []Inv
<1>1. Init => Inv
    BY InitInv
<1>2. Inv /\ [Next]_vars => Inv'
    BY NextInv
<1> QED
    BY <1>1, <1>2, PTL DEF Spec

----------------------------------------------------------------------------
(* Theorems.                                                               *)

\* The state of the call is well typed; it has slept for at most MaxRetries
\* capped delays (jina.py:120, :185).
THEOREM CallTypeCorrect == Spec => []TypeOK
<1>1. Inv => TypeOK
    BY DEF Inv
<1> QED
    BY <1>1, Invariance, PTL

\* For any answers of the providers and any number of retries, an invalid
\* answer is repaired once, a transient failure retried at most MaxRetries
\* times, and the database asked only with a vector (customer_request.py:212,
\* jina.py:120, products.py:55).
THEOREM RequestsJustified == Spec => []RequestsAreJustified
<1>1. Inv => RequestsAreJustified
    BY DEF Inv
<1> QED
    BY <1>1, Invariance, PTL

\* How a call ends follows from the answers it was given: no failure while a
\* retry or a repair was left, no failure hidden (customer_request.py:224,
\* jina.py:136, products.py:173).
THEOREM FailuresJustified == Spec => []FailuresAreJustified
<1>1. Inv => FailuresAreJustified
    BY DEF Inv
<1> QED
    BY <1>1, Invariance, PTL

\* The client for DeepSeek is closed however a call ends, the client for Jina
\* whenever the database was asked (customer_request.py:240, products.py:186).
THEOREM ClientsClosed == Spec => []ClientsAreClosed
<1>1. Inv => ClientsAreClosed
    BY DEF Inv
<1> QED
    BY <1>1, Invariance, PTL

\* For any catalogue, changed in any way during the call, and any request, the
\* results are the nearest products of the moment of the query, each by its
\* first variant that suits, and only a product that belongs to them fails the
\* search (products.py:75, :104, :117, :142).
THEOREM ResultsBest == Spec => ResultsAreBest
<1>1. Inv /\ [Next]_vars =>
         [queried = "none" /\ queried' = "rows" =>
             IF outcome' = "results" THEN IsBest(results') ELSE IsSpoiled]_vars
    BY RowsAreFound, FoundIsBest, FoundSpoils
<1> QED
    BY <1>1, Invariance, PTL DEF Spec, ResultsAreBest
=============================================================================
