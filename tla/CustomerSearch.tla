---------------------------- MODULE CustomerSearch ----------------------------
(***************************************************************************)
(* What the worker does for one customer text: extract a request from it   *)
(* (talap/ai/customer_request.py), embed the request with retries          *)
(* (talap/embeddings/jina.py), and search the catalogue for it             *)
(* (talap/search/products.py), while the catalogue changes.                *)
(*                                                                         *)
(* A vector is known by its distances: every product has one from the      *)
(* vector of the request.  A vector of zeros is at no distance of any.     *)
(***************************************************************************)
EXTENDS Naturals, Sequences, FiniteSets

CONSTANTS
    Product,        \* ids of products, ordered as numbers
    Variant,        \* ids of variants, ordered as numbers
    ProductOf,      \* Variant -> Product
    Merchant,
    MerchantOf,     \* Product -> Merchant
    Category,       \* categories as they are written
    Lower,          \* Category -> Category: lower()
    Distance,       \* cosine distances, on a scale of natural numbers
    Price, Stock,   \* values of the columns
    Catalogs,       \* the catalogues to begin with
    Requests,       \* what the model may extract from a text
    None,           \* an absent optional value, a missing row
    NaN,            \* not a number
    Limit,          \* RECOMMENDATION_LIMIT
    MaxRetries,     \* jina_max_retries
    DefaultDelay,   \* _DEFAULT_RETRY_DELAY_SECONDS
    MaxDelay,       \* _MAX_RETRY_AFTER_SECONDS
    MaxChanges      \* bound: changes of the catalogue during the call

ASSUME CustomerSearchAssumption ==
    /\ Product \subseteq Nat /\ IsFiniteSet(Product)
    /\ Variant \subseteq Nat /\ IsFiniteSet(Variant) /\ ProductOf \in [Variant -> Product]
    /\ MerchantOf \in [Product -> Merchant]
    /\ Lower \in [Category -> Category]
    /\ Distance \subseteq Nat /\ Price \subseteq Nat /\ Stock \subseteq Nat
    /\ None \notin Nat \cup {NaN} /\ NaN \notin Nat
    /\ Limit \in 1..10
    /\ MaxRetries \in Nat /\ MaxChanges \in Nat
    /\ MaxDelay \in Nat /\ DefaultDelay \in 0..MaxDelay

\* What DeepSeek answers: a request, or an invalid one, a malformed envelope,
\* a status from 400 on, an error of the connection.
ChatFailures == {"invalid", "malformed", "rejected", "error"}

\* What Jina answers: a vector; a status or an error that is retried, without
\* a delay, with a short one, one too long, one that is not a number; another
\* status from 400 on; a body that is no vector; an httpx error of another kind,
\* and a vector with an integer that no float holds.
Vectors == {"vector", "zeros"}
Transient == {"transient", "short delay", "too long", "not a number"}
Permanent == {"refused", "unusable"}
Unforeseen == {"undecodable", "overflow"}
EmbedAnswers == Vectors \cup Transient \cup Permanent \cup Unforeseen

Request == [intent : {"product_search", "handoff", "unknown"}, missing_field : BOOLEAN,
            category : Category \cup {None}, budget : Nat \cup {None},
            quantity : Nat \cup {None}]

Catalog == [merchant : [Merchant -> BOOLEAN],
            product : [Product -> [active : BOOLEAN, category : Category,
                                   distance : Distance \cup {NaN, None}]],
            variant : [Variant -> [active : BOOLEAN, price : Price,
                                   stock : Stock \cup {None}]]]

ASSUME InputsAssumption ==
    Catalogs \subseteq Catalog /\ Requests \subseteq Request /\ None \notin Requests

VARIABLES
    catalog,    \* the rows a search reads
    changes,    \* how often the catalogue changed
    keys,       \* which API keys are configured
    pc,         \* where the call stands
    said,       \* the answers of DeepSeek
    request,    \* the CustomerRequest, once there is one
    embedded,   \* the answers of Jina; the loop's attempt is their number
    waited,     \* seconds slept
    client,     \* the call's own HTTP clients: none, open or closed
    queried,    \* what the database answered: nothing yet, rows or an error
    outcome,    \* how the call ended
    results     \* the products recommended

callVars == <<keys, pc, said, request, embedded, waited, client, queried, outcome, results>>
vars == <<catalog, changes, callVars>>

Places == {"begin", "extract", "repair", "respond", "connect", "embed", "sleep", "query",
           "done"}
Outcomes == {"none", "answered", "results", "CustomerRequestConfigurationError",
             "CustomerRequestExtractionError", "ProductSearchExecutionError", "raised"}

TypeOK ==
    /\ catalog \in Catalog
    /\ changes \in 0..MaxChanges
    /\ keys \in [chat : BOOLEAN, jina : BOOLEAN]
    /\ pc \in Places
    /\ said \in Seq(ChatFailures \cup {"request"})
    /\ request \in Request \cup {None}
    /\ embedded \in Seq(EmbedAnswers)
    /\ waited \in 0..(MaxRetries * MaxDelay)
    /\ client \in [chat : {"none", "open", "closed"}, jina : {"none", "open", "closed"}]
    /\ queried \in {"none", "rows", "error"}
    /\ outcome \in Outcomes
    /\ results \in Seq([product : Product, variant : Variant, price : Price, stock : Stock])

Init ==
    /\ catalog \in Catalogs
    /\ changes = 0
    /\ keys \in [chat : BOOLEAN, jina : BOOLEAN]
    /\ pc = "begin"
    /\ said = <<>> /\ request = None
    /\ embedded = <<>> /\ waited = 0
    /\ client = [chat |-> "none", jina |-> "none"]
    /\ queried = "none" /\ outcome = "none" /\ results = <<>>

Last(s) == s[Len(s)]

----------------------------------------------------------------------------
(* The catalogue.  Operators, imports and the indexing workers change one  *)
(* column of one row at a time as far as a search can tell.                *)

Change(c) ==
    /\ changes < MaxChanges
    /\ changes' = changes + 1
    /\ catalog' = c
    /\ UNCHANGED callVars

SetMerchant(m) == Change([catalog EXCEPT !.merchant[m] = ~@])

SetProduct(p) ==
    \/ Change([catalog EXCEPT !.product[p].active = ~@])
    \/ \E c \in Category : Change([catalog EXCEPT !.product[p].category = c])
    \/ \E d \in Distance \cup {NaN, None} : Change([catalog EXCEPT !.product[p].distance = d])

SetVariant(v) ==
    \/ Change([catalog EXCEPT !.variant[v].active = ~@])
    \/ \E n \in Price : Change([catalog EXCEPT !.variant[v].price = n])
    \/ \E n \in Stock : Change([catalog EXCEPT !.variant[v].stock = n])

----------------------------------------------------------------------------
(* extract_customer_request.                                               *)

\* The finally clause of the extraction closes its client.
EndExtraction(place, how) ==
    /\ pc' = place
    /\ outcome' = how
    /\ client' = [client EXCEPT !.chat = "closed"]

BeginExtraction ==
    /\ pc = "begin"
    /\ IF keys.chat
       THEN /\ pc' = "extract" /\ client' = [client EXCEPT !.chat = "open"]
            /\ UNCHANGED outcome
       ELSE /\ pc' = "done" /\ outcome' = "CustomerRequestConfigurationError"
            /\ UNCHANGED client
    /\ UNCHANGED <<catalog, changes, keys, said, request, embedded, waited, queried, results>>

\* Mutant: an answer is repaired until it is valid.
RepairUntilValid ==
    /\ pc \in {"extract", "repair"}
    /\ \/ /\ request' \in Requests
          /\ said' = Append(said, "request")
          /\ EndExtraction("respond", "none")
       \/ /\ said' = Append(said, "invalid")
          /\ pc' = "repair"
          /\ UNCHANGED <<request, client, outcome>>
    /\ UNCHANGED <<catalog, changes, keys, embedded, waited, queried, results>>

\* _fetch_content and _parse_and_validate; an answer may be repaired once.
AskModel ==
    /\ pc \in {"extract", "repair"}
    /\ \/ /\ request' \in Requests
          /\ said' = Append(said, "request")
          /\ EndExtraction("respond", "none")
       \/ /\ pc = "extract"
          /\ said' = Append(said, "invalid")
          /\ pc' = "repair"
          /\ UNCHANGED <<request, client, outcome>>
       \/ \E answer \in ChatFailures :
          /\ answer = "invalid" => pc = "repair"
          /\ said' = Append(said, answer)
          /\ EndExtraction("done", IF answer = "rejected"
                                   THEN "CustomerRequestConfigurationError"
                                   ELSE "CustomerRequestExtractionError")
          /\ UNCHANGED request
    /\ UNCHANGED <<catalog, changes, keys, embedded, waited, queried, results>>

\* A request that is not a search, or lacks a field, is answered by a text.
Respond ==
    /\ pc = "respond"
    /\ IF request.intent = "product_search" /\ ~request.missing_field
       THEN pc' = "connect" /\ UNCHANGED outcome
       ELSE pc' = "done" /\ outcome' = "answered"
    /\ UNCHANGED <<catalog, changes, keys, said, request, embedded, waited, client, queried,
                   results>>

----------------------------------------------------------------------------
(* search_products, with JinaEmbeddingClient.embed_query.                  *)

\* The embedding has failed: nothing closes the client.
Give(how) == pc' = "done" /\ outcome' = how

\* _embedding_client_from_settings, whose client has no connections yet.
Connect ==
    /\ pc = "connect"
    /\ IF keys.jina THEN pc' = "embed" /\ UNCHANGED outcome
       ELSE Give("ProductSearchExecutionError")
    /\ UNCHANGED <<catalog, changes, keys, said, request, embedded, waited, client, queried,
                   results>>

\* Mutant: max_retries is taken for the number of requests.
RetriesLeftOnceLess(n) == n < MaxRetries

\* attempt < self.max_retries, after n requests.
RetriesLeft(n) == n <= MaxRetries

\* One request of the loop in _embed; the first one opens the client.
Embed ==
    /\ pc = "embed"
    /\ client' = [client EXCEPT !.jina = "open"]
    /\ \E answer \in EmbedAnswers :
       /\ embedded' = Append(embedded, answer)
       /\ \/ answer \in Vectors /\ pc' = "query" /\ UNCHANGED outcome
          \/ /\ answer \in Transient /\ RetriesLeft(Len(embedded'))
             /\ pc' = "sleep" /\ UNCHANGED outcome
          \/ /\ answer \in Transient /\ ~RetriesLeft(Len(embedded'))
             /\ Give("ProductSearchExecutionError")
          \/ /\ answer \in Permanent
             /\ Give("ProductSearchExecutionError")
          \/ /\ answer \in Unforeseen
             /\ Give("raised")
    /\ UNCHANGED <<catalog, changes, keys, said, request, waited, queried, results>>

\* Mutant: the delay of a Retry-After header is not capped.
DelaysUncapped ==
    CASE Last(embedded) = "transient" -> {DefaultDelay}
      [] Last(embedded) = "short delay" -> 0..MaxDelay
      [] Last(embedded) = "too long" -> {10 * MaxDelay}
      [] OTHER -> {0}

\* How long the loop may sleep after its last request; a delay that is not a
\* number is no delay, if it does not raise.
Delays ==
    CASE Last(embedded) = "transient" -> {DefaultDelay}
      [] Last(embedded) = "short delay" -> 0..MaxDelay
      [] Last(embedded) = "too long" -> {MaxDelay}
      [] OTHER -> {0}

Sleep ==
    /\ pc = "sleep"
    /\ \/ /\ pc' = "embed"
          /\ \E seconds \in Delays : waited' = waited + seconds
          /\ UNCHANGED outcome
       \/ /\ Last(embedded) = "not a number"
          /\ Give("raised")
          /\ UNCHANGED waited
    /\ UNCHANGED <<catalog, changes, keys, said, request, embedded, client, queried, results>>

----------------------------------------------------------------------------
(* The statement of _search_rows.                                          *)

Row(v) == catalog.variant[v]
Of(v) == catalog.product[ProductOf[v]]

\* The conditions.  None of them is about the merchant.
Matches(v) ==
    /\ Of(v).active /\ Row(v).active
    /\ Row(v).stock # None /\ Row(v).stock > 0
    /\ Of(v).distance # None
    /\ request.budget # None => Row(v).price <= request.budget
    /\ request.quantity # None => Row(v).stock >= request.quantity
    /\ request.category # None => Lower[Of(v).category] = Lower[request.category]

DistanceOf(p) == IF Last(embedded) = "zeros" THEN NaN ELSE catalog.product[p].distance

\* By distance, what is not a number last, and by id.
Before(p, q) ==
    \/ DistanceOf(p) # NaN /\ DistanceOf(q) = NaN
    \/ DistanceOf(p) = DistanceOf(q) /\ p < q
    \/ DistanceOf(p) # NaN /\ DistanceOf(q) # NaN /\ DistanceOf(p) < DistanceOf(q)

\* Mutant: variants are ranked before they are filtered.
FirstOfAllVariants ==
    {v \in Variant : Matches(v) /\ \A w \in Variant : ProductOf[w] = ProductOf[v] => w >= v}

\* The variant of rank 1 of each product, all at the distance of the product.
FirstVariants ==
    {v \in Variant :
        Matches(v) /\ \A w \in Variant : ProductOf[w] = ProductOf[v] /\ Matches(w) => w >= v}

Ranked ==
    [i \in 1..Cardinality(FirstVariants) |->
        CHOOSE v \in FirstVariants :
            Cardinality({w \in FirstVariants : Before(ProductOf[w], ProductOf[v])}) = i - 1]

Shown(v) ==
    [product |-> ProductOf[v], variant |-> v, price |-> Row(v).price, stock |-> Row(v).stock]

Found == [i \in DOMAIN Ranked \cap (1..Limit) |-> Shown(Ranked[i])]

\* Mutant: the client is closed when the rows have been read.
CloseAfterRows == client' = IF queried' = "rows" THEN [client EXCEPT !.jina = "closed"] ELSE client

\* The finally clause of the query.
CloseClient == client' = [client EXCEPT !.jina = "closed"]

\* A similarity that is not a number spoils the results.
Query ==
    /\ pc = "query"
    /\ pc' = "done"
    /\ \/ /\ queried' = "error"
          /\ outcome' = "ProductSearchExecutionError"
          /\ UNCHANGED results
       \/ /\ queried' = "rows"
          /\ \E i \in DOMAIN Found : DistanceOf(Found[i].product) = NaN
          /\ outcome' = "ProductSearchExecutionError"
          /\ UNCHANGED results
       \/ /\ queried' = "rows"
          /\ \A i \in DOMAIN Found : DistanceOf(Found[i].product) # NaN
          /\ outcome' = "results"
          /\ results' = Found
    /\ CloseClient
    /\ UNCHANGED <<catalog, changes, keys, said, request, embedded, waited>>

----------------------------------------------------------------------------
Next ==
    \/ \E m \in Merchant : SetMerchant(m)
    \/ \E p \in Product : SetProduct(p)
    \/ \E v \in Variant : SetVariant(v)
    \/ BeginExtraction
    \/ AskModel
    \/ Respond
    \/ Connect
    \/ Embed
    \/ Sleep
    \/ Query

Spec == Init /\ [][Next]_vars

----------------------------------------------------------------------------
(* Properties.                                                             *)

IsSearch == request # None /\ request.intent = "product_search" /\ ~request.missing_field

\* What is asked of whom, whatever they answer.  DeepSeek is asked again once,
\* and only about an invalid answer; Jina is asked for a search only, again
\* after transient failures only, at most MaxRetries times; the database is
\* asked when there is a vector.
RequestsAreJustified ==
    /\ Len(said) <= 2 /\ (Len(said) = 2 => said[1] = "invalid")
    /\ embedded # <<>> => keys.jina /\ said # <<>> /\ Last(said) = "request" /\ IsSearch
    /\ Len(embedded) <= MaxRetries + 1
    /\ \A i \in 1..(Len(embedded) - 1) : embedded[i] \in Transient
    /\ queried # "none" => embedded # <<>> /\ Last(embedded) \in Vectors

IsExhausted == Len(embedded) = MaxRetries + 1 /\ Last(embedded) \in Transient

\* How a call ends follows from what was answered: no error is reported while
\* a retry or a repair was left, and none is hidden.  Only an httpx error of
\* another kind, an integer no float holds and a delay that is not a number
\* leave it untyped.
FailuresAreJustified ==
    pc = "done" =>
        /\ outcome = "CustomerRequestConfigurationError" <=>
              ~keys.chat \/ (said # <<>> /\ Last(said) = "rejected")
        /\ outcome = "CustomerRequestExtractionError" <=>
              said # <<>> /\ (Last(said) \in {"malformed", "error"}
                               \/ (Len(said) = 2 /\ said[2] = "invalid"))
        /\ outcome = "answered" <=> request # None /\ ~IsSearch
        /\ outcome = "raised" =>
              Last(embedded) \in Unforeseen \cup {"not a number"} /\ queried = "none"
        /\ outcome = "ProductSearchExecutionError" =>
              \/ ~keys.jina
              \/ embedded # <<>> /\ (Last(embedded) \in Permanent \/ IsExhausted)
              \/ queried # "none"
        /\ outcome = "results" <=> queried = "rows" /\ outcome # "ProductSearchExecutionError"

\* However a call ends, its client for DeepSeek is closed; its client for Jina
\* is closed once the database was asked, and was never opened before Jina was.
ClientsAreClosed ==
    pc = "done" =>
        /\ client.chat = IF keys.chat THEN "closed" ELSE "none"
        /\ client.jina = "open" => queried = "none" /\ embedded # <<>>
        /\ queried # "none" => client.jina = "closed"

\* A variant that is on sale and grants every wish of the request.
Suits(v) ==
    LET wishes == {<<"budget", request.budget>>, <<"quantity", request.quantity>>}
        grants(wish) ==
            CASE wish[2] = None -> TRUE
              [] wish[2] # None /\ wish[1] = "budget" -> ~(Row(v).price > wish[2])
              [] OTHER -> ~(Row(v).stock < wish[2])
    IN  /\ Row(v).active /\ Of(v).active /\ Row(v).stock \notin {None, 0}
        /\ \A wish \in wishes : grants(wish)
        /\ request.category \in {None} \cup {c \in Category : Lower[c] = Lower[Of(v).category]}

\* The products that have a variant that suits, and can be compared.
Eligible == {ProductOf[v] : v \in {w \in Variant : Suits(w) /\ Of(w).distance # None}}

\* Each product once, by the first variant that suits, at its price of the
\* moment; nearer products first; and no product left out that is nearer than
\* one listed, or for which there was room.
IsBest(found) ==
    LET listed == {found[i].product : i \in DOMAIN found} IN
    /\ \A i \in DOMAIN found :
          LET r == found[i] IN
          /\ r = Shown(r.variant) /\ Suits(r.variant)
          /\ \A w \in Variant : ProductOf[w] = r.product /\ Suits(w) => w >= r.variant
          /\ \A j \in 1..(i - 1) : Before(found[j].product, r.product)
    /\ Len(found) <= Limit /\ Cardinality(listed) = Len(found)
    /\ \A p \in Eligible \ listed :
          Len(found) = Limit /\ \A q \in listed : Before(q, p)

\* A product that is among the first of those eligible, and has no similarity.
IsSpoiled ==
    \E p \in Eligible :
        DistanceOf(p) = NaN /\ Cardinality({q \in Eligible : Before(q, p)}) < Limit

\* What is recommended is the best there is when the database is asked,
\* however the catalogue changed since the text was read; a search whose rows
\* were read fails for a product only that would have to be recommended.
ResultsAreBest ==
    [][queried = "none" /\ queried' = "rows" =>
        IF outcome' = "results" THEN IsBest(results') ELSE IsSpoiled]_vars

\* docs/DOMAIN_MODEL.md:138: a disabled merchant is excluded from customer
\* search.  The statement does not look at merchants.
DisabledMerchantsAreExcluded ==
    [][outcome' = "results" /\ outcome # "results" =>
        \A i \in DOMAIN results' : catalog.merchant[MerchantOf[results'[i].product]]]_vars
=============================================================================
