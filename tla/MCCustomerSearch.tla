--------------------------- MODULE MCCustomerSearch ---------------------------
(* Instances of CustomerSearch for TLC: three products, the first with two  *)
(* variants, and every kind of request.                                     *)
EXTENDS CustomerSearch

Products == 1..3
Variants == 1..4
ProductsOf == <<1, 1, 2, 3>>
Merchants == {"north", "south"}
MerchantsOf == <<"north", "south", "south">>
Categories == {"shoes", "Shoes", "bags"}
Lowered == [c \in Categories |-> IF c = "Shoes" THEN "shoes" ELSE c]

\* Products that are equally near, that have no embedding or none of use, that
\* are sold out or switched off; one column changes during the call.
Stored(distances) ==
    [merchant |-> [m \in Merchants |-> TRUE],
     product |-> [p \in Products |->
         [active |-> TRUE, category |-> IF p = 1 THEN "Shoes" ELSE "shoes",
          distance |-> distances[p]]],
     variant |-> [v \in Variants |->
         [active |-> TRUE, price |-> IF v = 1 THEN 2 ELSE 1, stock |-> IF v = 3 THEN 1 ELSE 2]]]

SomeCatalogs ==
    {Stored(<<0, 0, 1>>), Stored(<<1, None, 0>>), Stored(<<1, 1, NaN>>),
     [Stored(<<0, 1, 1>>) EXCEPT !.variant[1].stock = 0],
     [Stored(<<0, 0, 0>>) EXCEPT !.variant[2].active = FALSE, !.product[2].active = FALSE]}

Search(category, budget, quantity) ==
    [intent |-> "product_search", missing_field |-> FALSE, category |-> category,
     budget |-> budget, quantity |-> quantity]

SearchRequests ==
    {Search(c, b, q) : c \in {None, "shoes"}, b \in {None, 1}, q \in {None, 2}}

OtherRequests ==
    {[Search(None, None, None) EXCEPT !.missing_field = TRUE],
     [Search(None, None, None) EXCEPT !.intent = "handoff"],
     [Search(None, None, None) EXCEPT !.intent = "unknown"]}

AllRequests == SearchRequests \cup OtherRequests
=============================================================================
