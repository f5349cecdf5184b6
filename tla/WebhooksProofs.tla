--------------------------- MODULE WebhooksProofs ---------------------------
(***************************************************************************)
(* Refusals and acknowledgements, the types of what is stored, what the    *)
(* normalizers make of the providers' formats, and what is stored of what  *)
(* was sent, proved for any bodies, any number of handlers and of failures.*)
(***************************************************************************)
EXTENDS Webhooks, FiniteSetTheorems, WellFoundedInduction, TLAPS

----------------------------------------------------------------------------
(* Sequences.  What a recursive function computes is shown by its least    *)
(* counterexample.                                                         *)

\* A set of numbers that is not empty has a least one.
LEMMA NatMin ==
    ASSUME NEW T, T \subseteq Nat, T # {}
    PROVE  \E n \in T : \A m \in T : n <= m
<1> DEFINE I == {1..n : n \in T}
<1>1. I \subseteq FiniteSubsetsOf(Nat)
    <2>1. \A n \in T : 1..n \in SUBSET Nat /\ IsFiniteSet(1..n)
        BY FS_Interval
    <2> QED
        BY <2>1 DEF FiniteSubsetsOf
<1>2. I # {}
    OBVIOUS
<1> HIDE DEF I
<1>3. PICK x \in I : \A y \in I : <<y, x>> \notin StrictSubsetOrdering(Nat)
    BY <1>1, <1>2, WFMin, FS_StrictSubsetOrderingWellFounded
<1>4. PICK n \in T : x = 1..n
    BY DEF I
<1>5. ASSUME NEW m \in T, m < n PROVE FALSE
    <2>1. 1..m \in I /\ 1..m \in SUBSET Nat /\ 1..n \in SUBSET Nat
        BY DEF I
    <2>2. n \in 1..n /\ n \notin 1..m
        BY <1>5
    <2>3. 1..m \subseteq 1..n
        BY <1>5
    <2> QED
        BY <1>3, <1>4, <2>1, <2>2, <2>3 DEF StrictSubsetOrdering
<1> QED
    BY <1>5

LEMMA ConcatFacts ==
    ASSUME NEW S, NEW s \in Seq(S), NEW t \in Seq(S)
    PROVE  s \o t \in Seq(S) /\ ToSet(s \o t) = ToSet(s) \cup ToSet(t)
<1>1. /\ s \o t \in Seq(S) /\ Len(s \o t) = Len(s) + Len(t)
      /\ Len(s) \in Nat /\ Len(t) \in Nat
      /\ \A i \in 1..(Len(s) + Len(t)) :
            (s \o t)[i] = IF i <= Len(s) THEN s[i] ELSE t[i - Len(s)]
      /\ DOMAIN s = 1..Len(s) /\ DOMAIN t = 1..Len(t)
      /\ DOMAIN (s \o t) = 1..(Len(s) + Len(t))
    OBVIOUS
<1>2. ASSUME NEW i \in 1..Len(t) PROVE t[i] \in ToSet(s \o t)
    <2>1. Len(s) + i \in 1..(Len(s) + Len(t)) /\ (s \o t)[Len(s) + i] = t[i]
        BY <1>1
    <2> QED
        BY <1>1, <2>1 DEF ToSet
<1>3. ASSUME NEW i \in 1..Len(s) PROVE s[i] \in ToSet(s \o t)
    <2>1. i \in 1..(Len(s) + Len(t)) /\ (s \o t)[i] = s[i]
        BY <1>1
    <2> QED
        BY <1>1, <2>1 DEF ToSet
<1>4. ASSUME NEW i \in 1..(Len(s) + Len(t)) PROVE (s \o t)[i] \in ToSet(s) \cup ToSet(t)
    <2>1. CASE i <= Len(s)
        BY <1>1, <2>1 DEF ToSet
    <2>2. CASE ~(i <= Len(s))
        <3>1. i - Len(s) \in 1..Len(t)
            BY <1>1, <2>2
        <3> QED
            BY <1>1, <2>2, <3>1 DEF ToSet
    <2> QED
        BY <2>1, <2>2
<1>5. ToSet(s \o t) \subseteq ToSet(s) \cup ToSet(t)
    BY <1>1, <1>4 DEF ToSet
<1>6. ToSet(s) \subseteq ToSet(s \o t) /\ ToSet(t) \subseteq ToSet(s \o t)
    BY <1>1, <1>2, <1>3 DEF ToSet
<1> QED
    BY <1>1, <1>5, <1>6

\* Flattening is the last of the concatenations of the first sequences.
Flattens(seqs, n, f) ==
    f = [i \in 1..n |-> IF i = 1 THEN seqs[i] ELSE f[i - 1] \o seqs[i]]

LEMMA FlattenExists ==
    ASSUME NEW seqs, NEW n \in Nat
    PROVE  \E f : Flattens(seqs, n, f)
<1> DEFINE T == {k \in Nat : ~\E f : Flattens(seqs, k, f)}
<1>1. SUFFICES ASSUME T # {} PROVE FALSE
    OBVIOUS
<1>2. PICK k \in T : \A l \in T : k <= l
    BY <1>1, NatMin
<1>3. k # 0
    <2>1. Flattens(seqs, 0, [i \in 1..0 |-> seqs[i]])
        BY DEF Flattens
    <2> QED
        BY <2>1
<1>4. PICK f : Flattens(seqs, k - 1, f)
    BY <1>2, <1>3
<1> DEFINE g == [i \in 1..k |-> IF i < k THEN f[i]
                                ELSE IF i = 1 THEN seqs[i] ELSE f[i - 1] \o seqs[i]]
<1>5. ASSUME NEW i \in 1..k
      PROVE  g[i] = IF i = 1 THEN seqs[i] ELSE g[i - 1] \o seqs[i]
    <2>1. CASE i = k
        BY <1>3, <2>1
    <2>2. CASE i < k
        <3>1. i \in 1..(k - 1)
            BY <1>2, <2>2
        <3>2. f[i] = IF i = 1 THEN seqs[i] ELSE f[i - 1] \o seqs[i]
            BY <1>4, <3>1 DEF Flattens
        <3>3. i # 1 => i - 1 \in 1..k /\ i - 1 < k
            BY <1>2, <2>2
        <3>4. g[i] = f[i] /\ (i # 1 => g[i - 1] = f[i - 1])
            BY <2>2, <3>3
        <3> QED
            BY <3>2, <3>4
    <2> QED
        BY <1>2, <2>1, <2>2
<1>6. Flattens(seqs, k, g)
    <2> HIDE DEF g
    <2>1. g = [i \in 1..k |-> g[i]]
        BY DEF g
    <2> QED
        BY <1>5, <2>1 DEF Flattens
<1> QED
    BY <1>2, <1>6

\* Nothing is lost and nothing is added.
LEMMA FlattenFacts ==
    ASSUME NEW S, NEW seqs \in Seq(Seq(S))
    PROVE  /\ FlattenSeq(seqs) \in Seq(S)
           /\ ToSet(FlattenSeq(seqs)) = UNION {ToSet(seqs[i]) : i \in DOMAIN seqs}
<1> DEFINE n == Len(seqs)
<1>1. n \in Nat /\ DOMAIN seqs = 1..n /\ \A i \in 1..n : seqs[i] \in Seq(S)
    OBVIOUS
<1>2. CASE n = 0
    BY <1>1, <1>2 DEF FlattenSeq, ToSet
<1>3. CASE n # 0
    <2>1. PICK f : Flattens(seqs, n, f) /\ FlattenSeq(seqs) = f[n]
        <3>1. FlattenSeq(seqs) = (CHOOSE f : Flattens(seqs, n, f))[n]
            BY <1>3 DEF FlattenSeq, Flattens
        <3> QED
            BY <1>1, <3>1, FlattenExists
    <2> DEFINE Whole(k) == f[k] \in Seq(S)
                           /\ ToSet(f[k]) = UNION {ToSet(seqs[i]) : i \in 1..k}
               T == {k \in 1..n : ~Whole(k)}
    <2>2. ASSUME T # {} PROVE FALSE
        <3>1. PICK k \in T : \A l \in T : k <= l
            <4>1. T \subseteq Nat
                BY <1>1
            <4> HIDE DEF T
            <4> QED
                BY <2>2, <4>1, NatMin
        <3>2. f[k] = IF k = 1 THEN seqs[k] ELSE f[k - 1] \o seqs[k]
            BY <2>1 DEF Flattens
        <3>3. CASE k = 1
            <4>1. 1..k = {1}
                BY <3>3
            <4> QED
                BY <1>1, <3>2, <3>3, <4>1
        <3>4. CASE k # 1
            <4>1. k - 1 \in 1..n /\ ~(k <= k - 1) /\ 1..k = 1..(k - 1) \cup {k}
                BY <1>1, <3>4
            <4>2. Whole(k - 1)
                BY <3>1, <4>1
            <4>3. /\ f[k] \in Seq(S) /\ ToSet(f[k]) = ToSet(f[k - 1]) \cup ToSet(seqs[k])
                <5>1. f[k] = f[k - 1] \o seqs[k]
                    BY <3>2, <3>4
                <5>2. f[k - 1] \in Seq(S) /\ seqs[k] \in Seq(S)
                    BY <1>1, <4>2
                <5> QED
                    BY ONLY <5>1, <5>2, ConcatFacts
            <4>4. UNION {ToSet(seqs[i]) : i \in 1..k}
                      = (UNION {ToSet(seqs[i]) : i \in 1..(k - 1)}) \cup ToSet(seqs[k])
                BY <4>1
            <4> QED
                BY <4>2, <4>3, <4>4
        <3> QED
            BY <3>3, <3>4
    <2>3. Whole(n)
        <3>1. n \in 1..n
            BY <1>1, <1>3
        <3>2. T = {}
            BY Zenon, <2>2
        <3> HIDE DEF Whole, n
        <3> QED
            BY Zenon, <3>1, <3>2
    <2> QED
        BY <1>1, <2>1, <2>3
<1> QED
    BY <1>2, <1>3

----------------------------------------------------------------------------
(* What the normalizers accept and what they make of it.                   *)

LEMMA GetFacts ==
    ASSUME NEW o \in Json, IsObj(o), NEW key
    PROVE  Get(o, key) \in Json
BY PayloadsAssumption DEF Get, Has, IsClosed

LEMMA StripFacts ==
    ASSUME NEW v \in Json, IsStr(v)
    PROVE  Strip(v.str) \in STRING
BY PayloadsAssumption DEF Strip, IsClosed

\* The items of a list are objects.
LEMMA ObjectsFacts ==
    ASSUME NEW v \in Json, IsObjects(v)
    PROVE  v.list \in Seq(Json) /\ \A i \in DOMAIN v.list : v.list[i] \in Json /\ IsObj(v.list[i])
<1>1. v.list \in Seq(Json)
    BY PayloadsAssumption DEF IsObjects, IsClosed
<1> QED
    BY <1>1 DEF IsObjects

LEMMA ItemsFacts ==
    ASSUME NEW v \in Json, IsOptionalObjects(v)
    PROVE  /\ Items(v) \in Seq(Json)
           /\ \A i \in DOMAIN Items(v) : Items(v)[i] \in Json /\ IsObj(Items(v)[i])
BY ObjectsFacts DEF IsOptionalObjects, Items

\* What a change, an entry and a payload carry is what its parts carry.
LEMMA FromChangeFacts ==
    ASSUME NEW c \in Json, IsObj(c), IsChange(c), NEW key \in {"messages", "statuses"}
    PROVE  /\ FromChange(c, key) \in Seq(Json)
           /\ \A x \in ToSet(FromChange(c, key)) :
                 /\ x \in Json /\ IsObj(x)
                 /\ key = "messages" => IsCustomerMessage(x)
                 /\ key = "statuses" => IsStatus(x)
<1> DEFINE value == Get(c, "value")
           items == Get(value, key)
<1>1. CASE Get(c, "field") = Str("messages")
    <2>1. IsObj(value) /\ IsOptionalObjects(items) /\ value \in Json
        BY <1>1, GetFacts DEF IsChange
    <2>2. items \in Json
        BY <2>1, GetFacts
    <2>3. /\ Items(items) \in Seq(Json)
          /\ \A i \in DOMAIN Items(items) : Items(items)[i] \in Json /\ IsObj(Items(items)[i])
        BY <2>1, <2>2, ItemsFacts
    <2>4. ASSUME NEW i \in DOMAIN Items(items)
          PROVE  /\ key = "messages" => IsCustomerMessage(Items(items)[i])
                 /\ key = "statuses" => IsStatus(Items(items)[i])
        <3>1. Items(items)[i] = items.list[i]
            BY <2>4 DEF Items
        <3> QED
            BY <1>1, <3>1 DEF IsChange
    <2>5. FromChange(c, key) = Items(items)
        BY <1>1 DEF FromChange
    <2> HIDE DEF value, items
    <2> QED
        BY <2>3, <2>4, <2>5 DEF ToSet
<1>2. CASE Get(c, "field") # Str("messages")
    BY <1>2 DEF FromChange, ToSet
<1> QED
    BY <1>1, <1>2

LEMMA FromEntryFacts ==
    ASSUME NEW e \in Json, IsObj(e), IsEntry(e), NEW key \in {"messages", "statuses"}
    PROVE  /\ FromEntry(e, key) \in Seq(Json)
           /\ \A x \in ToSet(FromEntry(e, key)) :
                 /\ x \in Json /\ IsObj(x)
                 /\ key = "messages" => IsCustomerMessage(x)
                 /\ key = "statuses" => IsStatus(x)
<1> DEFINE changes == Get(e, "changes").list
           seqs == [i \in DOMAIN changes |-> FromChange(changes[i], key)]
<1>1. /\ changes \in Seq(Json)
      /\ \A i \in DOMAIN changes : changes[i] \in Json /\ IsObj(changes[i])
    BY GetFacts, ObjectsFacts DEF IsEntry
<1>2. \A i \in DOMAIN changes : IsChange(changes[i])
    BY DEF IsEntry
<1> HIDE DEF changes
<1>3. DOMAIN seqs = DOMAIN changes /\ \A i \in DOMAIN changes : seqs[i] = FromChange(changes[i], key)
    OBVIOUS
<1>4. seqs \in Seq(Seq(Json))
    <2>1. DOMAIN changes = 1..Len(changes) /\ Len(changes) \in Nat
        BY <1>1
    <2>2. \A i \in DOMAIN changes : FromChange(changes[i], key) \in Seq(Json)
        BY <1>1, <1>2, FromChangeFacts
    <2> QED
        BY <2>1, <2>2
<1>5. FromEntry(e, key) = FlattenSeq(seqs)
    BY DEF FromEntry, changes
<1>6. /\ FlattenSeq(seqs) \in Seq(Json)
      /\ ToSet(FlattenSeq(seqs)) = UNION {ToSet(seqs[i]) : i \in DOMAIN seqs}
    BY <1>4, FlattenFacts
<1>7. ASSUME NEW x \in ToSet(FromEntry(e, key))
      PROVE  \E i \in DOMAIN changes : x \in ToSet(FromChange(changes[i], key))
    <2> HIDE DEF seqs
    <2> QED
        BY <1>3, <1>5, <1>6, <1>7
<1> QED
    BY <1>1, <1>2, <1>5, <1>6, <1>7, FromChangeFacts

LEMMA CollectFacts ==
    ASSUME NEW p \in Json, IsObj(p), IsWhatsAppWebhook(p), NEW key \in {"messages", "statuses"}
    PROVE  /\ Collect(p, key) \in Seq(Json)
           /\ \A x \in ToSet(Collect(p, key)) :
                 /\ x \in Json /\ IsObj(x)
                 /\ key = "messages" => IsCustomerMessage(x)
                 /\ key = "statuses" => IsStatus(x)
<1> DEFINE entries == Get(p, "entry").list
           seqs == [i \in DOMAIN entries |-> FromEntry(entries[i], key)]
<1>1. /\ entries \in Seq(Json)
      /\ \A i \in DOMAIN entries : entries[i] \in Json /\ IsObj(entries[i])
    BY GetFacts, ObjectsFacts DEF IsWhatsAppWebhook
<1>2. \A i \in DOMAIN entries : IsEntry(entries[i])
    BY DEF IsWhatsAppWebhook
<1> HIDE DEF entries
<1>3. DOMAIN seqs = DOMAIN entries /\ \A i \in DOMAIN entries : seqs[i] = FromEntry(entries[i], key)
    OBVIOUS
<1>4. seqs \in Seq(Seq(Json))
    <2>1. DOMAIN entries = 1..Len(entries) /\ Len(entries) \in Nat
        BY <1>1
    <2>2. \A i \in DOMAIN entries : FromEntry(entries[i], key) \in Seq(Json)
        BY <1>1, <1>2, FromEntryFacts
    <2> QED
        BY <2>1, <2>2
<1>5. Collect(p, key) = FlattenSeq(seqs)
    BY DEF Collect, entries
<1>6. /\ FlattenSeq(seqs) \in Seq(Json)
      /\ ToSet(FlattenSeq(seqs)) = UNION {ToSet(seqs[i]) : i \in DOMAIN seqs}
    BY <1>4, FlattenFacts
<1>7. ASSUME NEW x \in ToSet(Collect(p, key))
      PROVE  \E i \in DOMAIN entries : x \in ToSet(FromEntry(entries[i], key))
    <2> HIDE DEF seqs
    <2> QED
        BY <1>3, <1>5, <1>6, <1>7
<1> QED
    BY <1>1, <1>2, <1>5, <1>6, <1>7, FromEntryFacts

\* The items of the changes of an entry.
ItemsOf(e, key) == UNION {ToSet(FromChange(c, key)) : c \in ToSet(Get(e, "changes").list)}

LEMMA FromEntryItems ==
    ASSUME NEW e \in Json, IsObj(e), IsEntry(e), NEW key \in {"messages", "statuses"}
    PROVE  ToSet(FromEntry(e, key)) = ItemsOf(e, key)
<1> DEFINE changes == Get(e, "changes").list
           seqs == [i \in DOMAIN changes |-> FromChange(changes[i], key)]
<1>1. changes \in Seq(Json) /\ \A i \in DOMAIN changes : changes[i] \in Json /\ IsObj(changes[i])
    BY GetFacts, ObjectsFacts DEF IsEntry
<1>2. \A i \in DOMAIN changes : FromChange(changes[i], key) \in Seq(Json)
    BY <1>1, FromChangeFacts DEF IsEntry
<1> HIDE DEF changes
<1>3. seqs \in Seq(Seq(Json)) /\ DOMAIN seqs = DOMAIN changes
    BY <1>1, <1>2
<1>4. \A i \in DOMAIN changes : seqs[i] = FromChange(changes[i], key)
    OBVIOUS
<1>5. FromEntry(e, key) = FlattenSeq(seqs)
    BY DEF FromEntry, changes
<1> HIDE DEF seqs
<1>6. ToSet(FromEntry(e, key)) = UNION {ToSet(seqs[i]) : i \in DOMAIN seqs}
    BY <1>3, <1>5, FlattenFacts
<1>7. ItemsOf(e, key) = UNION {ToSet(FromChange(c, key)) : c \in ToSet(changes)}
    BY DEF ItemsOf, changes
<1>8. ToSet(changes) = {changes[i] : i \in DOMAIN changes}
    BY DEF ToSet
<1> QED
    BY <1>3, <1>4, <1>6, <1>7, <1>8

LEMMA ObjectsAre ==
    ASSUME NEW v \in Json, IsOptionalObjects(v)
    PROVE  Objects(v) = ToSet(Items(v))
<1>1. CASE IsNull(v)
    BY <1>1 DEF Objects, Items, ToSet, IsNull, IsList
<1>2. CASE ~IsNull(v)
    <2>1. /\ IsList(v) /\ Items(v) = v.list
          /\ \A x \in ToSet(v.list) : IsObj(x)
        BY <1>2 DEF IsOptionalObjects, IsObjects, Items, ToSet
    <2> QED
        BY <2>1 DEF Objects
<1> QED
    BY <1>1, <1>2

LEMMA FieldIs ==
    ASSUME NEW o, IsObj(o), NEW key
    PROVE  Field(o, key) = Get(o, key)
BY DEF Field

LEMMA ChangeItems ==
    ASSUME NEW c \in Json, IsObj(c), IsChange(c), NEW key \in {"messages", "statuses"}
    PROVE  ToSet(FromChange(c, key))
               = IF IsOfMessages(c) THEN Objects(Field(Field(c, "value"), key)) ELSE {}
<1>1. CASE IsOfMessages(c)
    <2> DEFINE value == Get(c, "value")
    <2>1. /\ IsObj(value) /\ value \in Json
          /\ IsOptionalObjects(Get(value, key)) /\ Get(c, "field") = Str("messages")
        BY <1>1, GetFacts DEF IsChange, IsOfMessages, Field
    <2>2. Get(value, key) \in Json
        BY <2>1, GetFacts
    <2>3. Field(Field(c, "value"), key) = Get(value, key)
        BY <2>1, FieldIs
    <2>4. FromChange(c, key) = Items(Get(value, key))
        BY <2>1 DEF FromChange
    <2> HIDE DEF value
    <2> QED
        BY <1>1, <2>1, <2>2, <2>3, <2>4, ObjectsAre
<1>2. CASE ~IsOfMessages(c)
    <2>1. FromChange(c, key) = <<>>
        BY <1>2 DEF FromChange, IsOfMessages, Field
    <2> QED
        BY <1>2, <2>1 DEF ToSet
<1> QED
    BY <1>1, <1>2

\* Nothing an entry or a change carries is skipped, and nothing comes from
\* anywhere else.
LEMMA MetaItemsAre ==
    ASSUME NEW p \in Json, IsObj(p), IsWhatsAppWebhook(p), NEW key \in {"messages", "statuses"}
    PROVE  MetaItems(p, key) = UNION {ItemsOf(e, key) : e \in ToSet(Get(p, "entry").list)}
<1> DEFINE entries == ToSet(Get(p, "entry").list)
           changes(e) == ToSet(Get(e, "changes").list)
           carried(c) == Objects(Field(Field(c, "value"), key))
<1>1. /\ Objects(Field(p, "entry")) = entries
      /\ \A e \in entries : e \in Json /\ IsObj(e) /\ IsEntry(e)
    <2>1. Get(p, "entry") \in Json /\ IsObjects(Get(p, "entry")) /\ Field(p, "entry") = Get(p, "entry")
        BY GetFacts, FieldIs DEF IsWhatsAppWebhook
    <2>2. Items(Get(p, "entry")) = Get(p, "entry").list /\ IsOptionalObjects(Get(p, "entry"))
        BY <2>1 DEF Items, IsObjects, IsOptionalObjects, IsNull, IsList
    <2> QED
        BY <2>1, <2>2, ObjectsAre, ObjectsFacts DEF IsWhatsAppWebhook, ToSet
<1>2. ASSUME NEW e \in entries
      PROVE  /\ Objects(Field(e, "changes")) = changes(e)
             /\ \A c \in changes(e) : c \in Json /\ IsObj(c) /\ IsChange(c)
    <2>1. Get(e, "changes") \in Json /\ IsObjects(Get(e, "changes"))
          /\ Field(e, "changes") = Get(e, "changes")
        BY <1>1, <1>2, GetFacts, FieldIs DEF IsEntry
    <2>2. Items(Get(e, "changes")) = Get(e, "changes").list /\ IsOptionalObjects(Get(e, "changes"))
        BY <2>1 DEF Items, IsObjects, IsOptionalObjects, IsNull, IsList
    <2> QED
        BY <1>1, <1>2, <2>1, <2>2, ObjectsAre, ObjectsFacts DEF IsEntry, ToSet
<1>3. ASSUME NEW e \in entries, NEW c \in changes(e)
      PROVE  ToSet(FromChange(c, key)) = IF IsOfMessages(c) THEN carried(c) ELSE {}
    BY <1>2, <1>3, ChangeItems
<1>4. MetaItems(p, key)
          = UNION {carried(c) : c \in {c \in UNION {changes(e) : e \in entries} : IsOfMessages(c)}}
    BY <1>1, <1>2 DEF MetaItems, MetaChanges
<1>5. \A e \in entries : ItemsOf(e, key) = UNION {ToSet(FromChange(c, key)) : c \in changes(e)}
    BY DEF ItemsOf
<1> HIDE DEF entries, changes, carried
<1>6. ASSUME NEW x
      PROVE  x \in MetaItems(p, key) <=>
                 \E e \in entries : \E c \in changes(e) : IsOfMessages(c) /\ x \in carried(c)
    BY <1>4
<1>7. ASSUME NEW x, NEW e \in entries
      PROVE  x \in ItemsOf(e, key) <=>
                 \E c \in changes(e) : IsOfMessages(c) /\ x \in carried(c)
    BY <1>3, <1>5
<1> QED
    BY <1>6, <1>7 DEF entries

LEMMA CollectItems ==
    ASSUME NEW p \in Json, IsObj(p), IsWhatsAppWebhook(p), NEW key \in {"messages", "statuses"}
    PROVE  ToSet(Collect(p, key)) = MetaItems(p, key)
<1> DEFINE entries == Get(p, "entry").list
           seqs == [i \in DOMAIN entries |-> FromEntry(entries[i], key)]
<1>1. /\ entries \in Seq(Json)
      /\ \A i \in DOMAIN entries : entries[i] \in Json /\ IsObj(entries[i]) /\ IsEntry(entries[i])
    BY GetFacts, ObjectsFacts DEF IsWhatsAppWebhook
<1>2. \A i \in DOMAIN entries : FromEntry(entries[i], key) \in Seq(Json)
    BY <1>1, FromEntryFacts
<1> HIDE DEF entries
<1>3. seqs \in Seq(Seq(Json)) /\ DOMAIN seqs = DOMAIN entries
    BY <1>1, <1>2
<1>4. \A i \in DOMAIN entries : ToSet(seqs[i]) = ItemsOf(entries[i], key)
    BY <1>1, FromEntryItems
<1>5. Collect(p, key) = FlattenSeq(seqs)
    BY DEF Collect, entries
<1> HIDE DEF seqs
<1>6. ToSet(Collect(p, key)) = UNION {ToSet(seqs[i]) : i \in DOMAIN seqs}
    BY <1>3, <1>5, FlattenFacts
<1>7. ToSet(entries) = {entries[i] : i \in DOMAIN entries}
    BY DEF ToSet
<1>8. MetaItems(p, key) = UNION {ItemsOf(e, key) : e \in ToSet(entries)}
    BY MetaItemsAre DEF entries
<1> QED
    BY <1>3, <1>4, <1>6, <1>7, <1>8

\* Whatever a WhatsApp payload looks like, the messages and statuses it is
\* normalized to are those of the items of all its entries and changes
\* (normalizer.py:426, :434), each normalized by itself.
THEOREM NothingSkipped ==
    ASSUME NEW p \in Json, IsObj(p), IsWhatsAppWebhook(p), NEW t \in Moment
    PROVE  /\ ToSet(WhatsAppMessages(p, t))
                  = {CustomerMessage(x, t) : x \in MetaItems(p, "messages")}
           /\ ToSet(WhatsAppStatuses(p, t))
                  = {DeliveryStatus(x, t) : x \in MetaItems(p, "statuses")}
<1>1. /\ Collect(p, "messages") \in Seq(Json)
      /\ Collect(p, "statuses") \in Seq(Json)
    BY CollectFacts
<1>2. ToSet(WhatsAppMessages(p, t)) = {CustomerMessage(x, t) : x \in ToSet(Collect(p, "messages"))}
    BY <1>1 DEF WhatsAppMessages, ToSet
<1>3. ToSet(WhatsAppStatuses(p, t)) = {DeliveryStatus(x, t) : x \in ToSet(Collect(p, "statuses"))}
    BY <1>1 DEF WhatsAppStatuses, ToSet
<1> QED
    BY <1>2, <1>3, CollectItems

\* The strings of a payload end up in columns of strings.
LEMMA TextContentFacts ==
    ASSUME NEW v \in Json, NonBlank(v)
    PROVE  HasContent(TextContent(v.str))
<1>1. Strip(v.str) \in STRING \ {""}
    BY StripFacts DEF NonBlank
<1> QED
    BY <1>1 DEF HasContent, TextContent

LEMMA UnsupportedFacts == HasContent(Unsupported)
BY DEF HasContent, Unsupported

LEMMA OptionalTextFacts ==
    ASSUME NEW v \in Json, OptionalString(v)
    PROVE  OptionalText(v) \in STRING \cup {None}
<1>1. CASE IsNull(v)
    BY <1>1 DEF OptionalText
<1>2. CASE ~IsNull(v)
    BY <1>2, StripFacts DEF OptionalText, OptionalString
<1> QED
    BY <1>1, <1>2

LEMMA OptionalNumberFacts ==
    ASSUME NEW v \in Json, IsOptionalSize(v)
    PROVE  OptionalNumber(v) \in Nat \cup {None}
<1>1. CASE IsNull(v)
    BY <1>1 DEF OptionalNumber
<1>2. CASE ~IsNull(v)
    <2>1. v.int \in Int /\ v.int >= 0
        BY <1>2, PayloadsAssumption DEF IsOptionalSize, IsClosed
    <2> QED
        BY <1>2, <2>1 DEF OptionalNumber
<1> QED
    BY <1>1, <1>2

LEMMA OptionalChecksumFacts ==
    ASSUME NEW v \in Json, IsOptionalChecksum(v)
    PROVE  OptionalChecksum(v) \in STRING \cup {None}
BY PayloadsAssumption DEF OptionalChecksum, IsOptionalChecksum

LEMMA VoiceContentFacts ==
    ASSUME NEW media \in MediaReference
    PROVE  HasContent(VoiceContent(media))
BY DEF HasContent, VoiceContent

LEMMA AudioFacts ==
    ASSUME NEW a \in Json, IsAudio(a)
    PROVE  HasContent(Audio(a))
<1>1. /\ Get(a, "id") \in Json /\ Get(a, "mime_type") \in Json /\ Get(a, "sha256") \in Json
    BY GetFacts DEF IsAudio
<1>2. /\ Strip(Get(a, "id").str) \in STRING
      /\ OptionalText(Get(a, "mime_type")) \in STRING \cup {None}
      /\ OptionalChecksum(Get(a, "sha256")) \in STRING \cup {None}
    BY <1>1, StripFacts, OptionalTextFacts, OptionalChecksumFacts DEF IsAudio, NonBlank
<1> QED
    BY <1>2, VoiceContentFacts DEF Audio, MediaReference

LEMMA VoiceFacts ==
    ASSUME NEW v \in Json, IsVoice(v)
    PROVE  HasContent(Voice(v))
<1>1. /\ Get(v, "file_id") \in Json /\ Get(v, "mime_type") \in Json
      /\ Get(v, "file_size") \in Json /\ Get(v, "duration") \in Json
    BY GetFacts DEF IsVoice
<1>2. /\ Strip(Get(v, "file_id").str) \in STRING
      /\ OptionalText(Get(v, "mime_type")) \in STRING \cup {None}
      /\ OptionalNumber(Get(v, "file_size")) \in Nat \cup {None}
      /\ OptionalNumber(Get(v, "duration")) \in Nat \cup {None}
    BY <1>1, StripFacts, OptionalTextFacts, OptionalNumberFacts DEF IsVoice, NonBlank
<1> QED
    BY <1>2, VoiceContentFacts DEF Voice, MediaReference

LEMMA InteractiveFacts ==
    ASSUME NEW i \in Json, IsInteractive(i)
    PROVE  HasContent(Interactive(i))
<1> DEFINE reply == Get(i, Get(i, "type").str)
<1>1. CASE Get(i, "type").str \in Replies
    <2>1. IsObj(reply) /\ reply \in Json
        BY <1>1, GetFacts DEF IsInteractive
    <2>2. Get(reply, "id") \in Json /\ Get(reply, "title") \in Json
        BY <2>1, GetFacts
    <2>3. HasContent(Reply(reply))
        BY <2>2, TextContentFacts, UnsupportedFacts DEF Reply
    <2> QED
        BY <1>1, <2>3 DEF Interactive
<1>2. CASE Get(i, "type").str \notin Replies
    BY <1>2, UnsupportedFacts DEF Interactive
<1> QED
    BY <1>1, <1>2

LEMMA ContentFacts ==
    ASSUME NEW m \in Json, IsObj(m), IsContent(m)
    PROVE  HasContent(Content(m))
<1> DEFINE type == Strip(Get(m, "type").str)
<1>1. CASE type = "text"
    <2>1. /\ Get(m, "text") \in Json /\ IsObj(Get(m, "text"))
          /\ NonBlank(Get(Get(m, "text"), "body"))
        BY <1>1, GetFacts DEF IsContent
    <2>2. Get(Get(m, "text"), "body") \in Json
        BY <2>1, GetFacts
    <2>3. Content(m) = TextContent(Get(Get(m, "text"), "body").str)
        BY <1>1 DEF Content
    <2> QED
        BY <2>1, <2>2, <2>3, TextContentFacts
<1>2. CASE type = "audio"
    <2>1. IsAudio(Get(m, "audio")) /\ Get(m, "audio") \in Json
        BY <1>2, GetFacts DEF IsContent
    <2>2. Content(m) = Audio(Get(m, "audio"))
        BY <1>2 DEF Content
    <2> QED
        BY <2>1, <2>2, AudioFacts
<1>3. CASE type = "interactive"
    <2>1. IsInteractive(Get(m, "interactive")) /\ Get(m, "interactive") \in Json
        BY <1>3, GetFacts DEF IsContent
    <2>2. Content(m) = Interactive(Get(m, "interactive"))
        BY <1>3 DEF Content
    <2> QED
        BY <2>1, <2>2, InteractiveFacts
<1>4. CASE type \notin {"text", "audio", "interactive"}
    BY <1>4, UnsupportedFacts DEF Content
<1> QED
    BY <1>1, <1>2, <1>3, <1>4

\* The columns of a message are those of its identity and its content.
LEMMA MessageFacts ==
    ASSUME NEW channel, NEW chat, NEW user, NEW id, NEW content, NEW t \in Nat,
           IsIdentifier(chat), IsIdentifier(user), IsIdentifier(id), HasContent(content)
    PROVE  /\ Message(channel, chat, user, id, content, t).channel = channel
           /\ IsInbound(Message(channel, chat, user, id, content, t))
BY DEF Message, IsInbound, HasContent

LEMMA TimeFacts ==
    ASSUME NEW o, IsTimed(o), NEW t \in Nat
    PROVE  TimeOf(o, t) \in Nat
BY PayloadsAssumption DEF IsTimed, TimeOf

LEMMA CustomerMessageFacts ==
    ASSUME NEW m \in Json, IsObj(m), IsCustomerMessage(m), NEW t \in Nat
    PROVE  /\ CustomerMessage(m, t).channel = "whatsapp"
           /\ IsInbound(CustomerMessage(m, t))
<1>1. HasContent(Content(m)) /\ TimeOf(m, t) \in Nat
    BY ContentFacts, TimeFacts DEF IsCustomerMessage
<1> QED
    BY <1>1, MessageFacts DEF CustomerMessage, IsCustomerMessage

LEMMA TelegramMessageFacts ==
    ASSUME NEW m \in Json, IsObj(m), IsTelegramMessage(m), NEW t \in Nat
    PROVE  /\ TelegramMessage(m, t).channel = "telegram"
           /\ IsInbound(TelegramMessage(m, t))
<1>1. Get(m, "text") \in Json /\ Get(m, "voice") \in Json
    BY GetFacts
<1>2. CASE NonBlank(Get(m, "text"))
    <2>1. HasContent(TextContent(Get(m, "text").str))
        BY <1>1, <1>2, TextContentFacts
    <2> QED
        BY <1>2, <2>1, MessageFacts DEF TelegramMessage, IsTelegramMessage, IsParty
<1>3. CASE ~NonBlank(Get(m, "text")) /\ ~IsNull(Get(m, "voice"))
    <2>1. HasContent(Voice(Get(m, "voice")))
        BY <1>1, <1>3, VoiceFacts DEF IsTelegramMessage
    <2> QED
        BY <1>3, <2>1, MessageFacts DEF TelegramMessage, IsTelegramMessage, IsParty
<1>4. CASE ~NonBlank(Get(m, "text")) /\ IsNull(Get(m, "voice"))
    BY <1>4, UnsupportedFacts, MessageFacts DEF TelegramMessage, IsTelegramMessage, IsParty
<1> QED
    BY <1>2, <1>3, <1>4

LEMMA CallbackFacts ==
    ASSUME NEW q \in Json, IsObj(q), IsCallback(q), NEW t \in Nat
    PROVE  Callback(q, t).channel = "telegram" /\ IsInbound(Callback(q, t))
<1>1. Get(q, "data") \in Json
    BY GetFacts
<1>2. HasContent(IF NonBlank(Get(q, "data")) THEN TextContent(Get(q, "data").str)
                 ELSE Unsupported)
    BY <1>1, TextContentFacts, UnsupportedFacts
<1> QED
    BY <1>2, MessageFacts DEF Callback, IsCallback, IsParty

----------------------------------------------------------------------------
(* What the normalizers make of a value is what its provider meant by it.  *)

LEMMA FieldOf ==
    ASSUME NEW v, NEW key, ~IsNull(Field(v, key))
    PROVE  IsObj(v) /\ Has(v, key) /\ Field(v, key) = Get(v, key)
BY DEF Field, Get, Null, IsNull

LEMMA NullIs == IsNull(Null) /\ ~IsStr(Null) /\ ~IsInt(Null) /\ ~IsObj(Null) /\ ~IsList(Null)
BY DEF Null, IsNull, IsStr, IsInt, IsObj, IsList

LEMMA ReadsFacts ==
    ASSUME NEW v, NEW s, Reads(v, s)
    PROVE  NonBlank(v) /\ IsStr(v) /\ ~IsNull(v) /\ Strip(v.str) = s /\ s # ""
BY DEF Reads, NonBlank, IsStr, IsNull

LEMMA MayReadFacts ==
    ASSUME NEW v, NEW s, MayRead(v, s)
    PROVE  OptionalString(v) /\ OptionalText(v) = s
<1>1. CASE s = None
    BY <1>1 DEF MayRead, OptionalString, OptionalText
<1>2. CASE s # None
    BY <1>2, ReadsFacts DEF MayRead, OptionalString, OptionalText
<1> QED
    BY <1>1, <1>2

LEMMA MayCountFacts ==
    ASSUME NEW v, NEW n \in Nat \cup {None}, MayCount(v, n)
    PROVE  IsOptionalSize(v) /\ OptionalNumber(v) = n
BY DEF MayCount, IsOptionalSize, OptionalNumber, IsInt, IsNull

LEMMA SaysChecksumFacts ==
    ASSUME NEW v, NEW checksum, SaysChecksum(v, checksum)
    PROVE  IsOptionalChecksum(v) /\ OptionalChecksum(v) = checksum
BY DEF SaysChecksum, IsOptionalChecksum, OptionalChecksum, IsStr, IsNull

LEMMA SaysTimeFacts ==
    ASSUME NEW x, IsObj(x), NEW time, SaysTime(x, time), NEW t
    PROVE  /\ IsTimed(x)
           /\ TimeOf(x, t) = IF time = None THEN t ELSE time
<1>1. CASE time = None
    BY <1>1 DEF SaysTime, IsTimed, TimeOf
<1>2. CASE time # None
    <2> DEFINE v == Field(x, "timestamp")
    <2>1. IsStr(v) /\ Strip(v.str) \in DOMAIN Seconds /\ Seconds[Strip(v.str)] = time
        BY <1>2 DEF SaysTime
    <2>2. Has(x, "timestamp") /\ v = x.obj["timestamp"]
        BY <2>1, NullIs DEF Field, Get
    <2> QED
        BY <1>2, <2>1, <2>2 DEF IsTimed, TimeOf
<1> QED
    BY <1>1, <1>2

LEMMA TextMeans ==
    ASSUME NEW v, NEW content, Reads(v, content.text), content = Means("text", content.text, NoMedia)
    PROVE  TextContent(v.str) = content
BY ReadsFacts DEF TextContent, Means

LEMMA AudioMeans ==
    ASSUME NEW a, NEW content,
           content = Means("voice", None, content.media), content.media \in MediaReference,
           Reads(Field(a, "id"), content.media.id),
           MayRead(Field(a, "mime_type"), content.media.mime),
           SaysChecksum(Field(a, "sha256"), content.media.checksum),
           content.media.size = None, content.media.duration = None
    PROVE  IsAudio(a) /\ Audio(a) = content
<1>1. IsObj(a) /\ NonBlank(Get(a, "id")) /\ Strip(Get(a, "id").str) = content.media.id
    BY ReadsFacts, FieldOf
<1>2. OptionalString(Get(a, "mime_type")) /\ OptionalText(Get(a, "mime_type")) = content.media.mime
    BY <1>1, MayReadFacts, FieldIs
<1>3. /\ IsOptionalChecksum(Get(a, "sha256"))
      /\ OptionalChecksum(Get(a, "sha256")) = content.media.checksum
    BY <1>1, SaysChecksumFacts, FieldIs
<1>4. content.media = [id |-> content.media.id, mime |-> content.media.mime,
                       size |-> None, duration |-> None, checksum |-> content.media.checksum]
    BY DEF MediaReference
<1> QED
    BY <1>1, <1>2, <1>3, <1>4 DEF IsAudio, Audio, VoiceContent, Means, NoMedia

LEMMA ReplyMeans ==
    ASSUME NEW i, NEW kind \in Replies, NEW content,
           Field(i, "type") = Str(kind),
           Reads(Field(Field(i, kind), "id"), content.text),
           IsStr(Field(Field(i, kind), "title")),
           content = Means("text", content.text, NoMedia)
    PROVE  IsInteractive(i) /\ Interactive(i) = content
<1> DEFINE reply == Get(i, kind)
<1>1. IsStr(Str(kind)) /\ ~IsNull(Str(kind)) /\ Str(kind).str = kind
    BY DEF Str, IsStr, IsNull
<1>2. IsObj(i) /\ Get(i, "type") = Str(kind) /\ Field(i, kind) = reply
    BY <1>1, FieldOf, FieldIs
<1>3. IsObj(reply) /\ Field(reply, "id") = Get(reply, "id") /\ NonBlank(Get(reply, "id"))
    BY <1>2, ReadsFacts, FieldOf
<1>4. IsStr(Get(reply, "id")) /\ IsStr(Get(reply, "title"))
    BY <1>2, <1>3, ReadsFacts, FieldIs
<1>5. TextContent(Get(reply, "id").str) = content
    BY <1>2, <1>3, TextMeans
<1> QED
    BY <1>1, <1>2, <1>3, <1>4, <1>5 DEF IsInteractive, Interactive, Reply, OptionalString

LEMMA MetaContentMeans ==
    ASSUME NEW x, IsObj(x), NEW content, SaysMetaContent(x, content)
    PROVE  NonBlank(Get(x, "type")) /\ IsContent(x) /\ Content(x) = content
<1> DEFINE type == Get(x, "type")
<1>1. \A key : Field(x, key) = Get(x, key)
    BY FieldIs
<1>2. CASE /\ Reads(type, "text")
           /\ Reads(Field(Get(x, "text"), "body"), content.text)
           /\ content = Means("text", content.text, NoMedia)
    <2>1. NonBlank(type) /\ Strip(type.str) = "text"
        BY <1>2, ReadsFacts
    <2>2. /\ IsObj(Get(x, "text")) /\ NonBlank(Get(Get(x, "text"), "body"))
          /\ TextContent(Get(Get(x, "text"), "body").str) = content
        BY <1>2, ReadsFacts, FieldOf, TextMeans
    <2> QED
        BY <2>1, <2>2 DEF IsContent, Content
<1>3. CASE /\ Reads(type, "audio")
           /\ content = Means("voice", None, content.media)
           /\ content.media \in MediaReference
           /\ Reads(Field(Get(x, "audio"), "id"), content.media.id)
           /\ MayRead(Field(Get(x, "audio"), "mime_type"), content.media.mime)
           /\ SaysChecksum(Field(Get(x, "audio"), "sha256"), content.media.checksum)
           /\ content.media.size = None /\ content.media.duration = None
    <2>1. NonBlank(type) /\ Strip(type.str) = "audio"
        BY <1>3, ReadsFacts
    <2>2. IsAudio(Get(x, "audio")) /\ Audio(Get(x, "audio")) = content
        BY <1>3, AudioMeans
    <2> QED
        BY <2>1, <2>2 DEF IsContent, Content
<1>4. CASE /\ Reads(type, "interactive")
           /\ \E kind \in Replies :
                 /\ Field(Get(x, "interactive"), "type") = Str(kind)
                 /\ Reads(Field(Field(Get(x, "interactive"), kind), "id"), content.text)
                 /\ IsStr(Field(Field(Get(x, "interactive"), kind), "title"))
           /\ content = Means("text", content.text, NoMedia)
    <2>1. NonBlank(type) /\ Strip(type.str) = "interactive"
        BY <1>4, ReadsFacts
    <2>2. IsInteractive(Get(x, "interactive")) /\ Interactive(Get(x, "interactive")) = content
        BY <1>4, ReplyMeans
    <2> QED
        BY <2>1, <2>2 DEF IsContent, Content
<1>5. CASE /\ IsStr(type) /\ Strip(type.str) \notin {"", "text", "audio", "interactive"}
           /\ content = Means("unsupported", None, NoMedia)
    BY <1>5 DEF NonBlank, IsContent, Content, Unsupported, Means
<1> QED
    BY <1>1, <1>2, <1>3, <1>4, <1>5 DEF SaysMetaContent, Replies

\* A message that says what a customer meant is accepted unless it was damaged,
\* and what it is normalized to means the same.
LEMMA CustomerMessageMeans ==
    ASSUME NEW x, IsObj(x), NEW e, SaysMetaMessage(x, e), NEW t
    PROVE  /\ ~e.damaged => IsCustomerMessage(x)
           /\ IsCustomerMessage(x) => SameMessage(CustomerMessage(x, t), e)
<1> DEFINE id == Get(x, "id")
           from == Get(x, "from")
           m == CustomerMessage(x, t)
<1>1. Field(x, "id") = id /\ Field(x, "from") = from
    BY FieldIs
<1>2. m.id = Strip(id.str) /\ m.user = Strip(from.str) /\ m.chat = Strip(from.str)
      /\ m.received_at = TimeOf(x, t)
      /\ [type |-> m.type, text |-> m.text, media |-> m.media]
            = [type |-> Content(x).type, text |-> Content(x).text, media |-> Content(x).media]
    BY DEF CustomerMessage, Message
<1> HIDE DEF id, from, m
<1>3. CASE e.damaged
    <2>1. ReadsOrLost(id, e.id) /\ ReadsOrLost(from, e.user)
        BY <1>1, <1>3 DEF SaysMetaMessage
    <2>2. IsCustomerMessage(x) => NonBlank(id) /\ NonBlank(from)
        BY DEF IsCustomerMessage, id, from
    <2>3. IsCustomerMessage(x) => Strip(id.str) = e.id /\ Strip(from.str) = e.user
        BY <2>1, <2>2, ReadsFacts DEF ReadsOrLost
    <2> QED
        BY <1>2, <1>3, <2>3 DEF SameMessage, m
<1>4. CASE ~e.damaged
    <2>1. /\ Reads(id, e.id) /\ Reads(from, e.user)
          /\ Identifies(e.id) /\ Identifies(e.user) /\ e.chat = e.user
          /\ SaysTime(x, e.time) /\ SaysMetaContent(x, e.content)
        BY <1>1, <1>4 DEF SaysMetaMessage
    <2>2. /\ NonBlank(id) /\ Strip(id.str) = e.id
          /\ NonBlank(from) /\ Strip(from.str) = e.user
        BY <2>1, ReadsFacts
    <2>3. IsTimed(x) /\ (e.time # None => m.received_at = e.time)
        BY <1>2, <2>1, SaysTimeFacts
    <2>4. NonBlank(Get(x, "type")) /\ IsContent(x) /\ Content(x) = e.content
        BY <2>1, MetaContentMeans
    <2>5. IsCustomerMessage(x)
        BY <2>1, <2>2, <2>3, <2>4 DEF IsCustomerMessage, IsIdentifier, Identifies, id, from
    <2>6. [type |-> m.type, text |-> m.text, media |-> m.media] = e.content
        <3>1. e.content = Means(e.content.type, e.content.text, e.content.media)
            BY <2>1 DEF SaysMetaContent, Means
        <3> QED
            BY <1>2, <2>4, <3>1 DEF Means
    <2>7. SameMessage(m, e)
        BY <1>2, <2>1, <2>2, <2>3, <2>6 DEF SameMessage
    <2> QED
        BY <2>5, <2>7 DEF m
<1> QED
    BY <1>3, <1>4

\* The codes of a status, and of no errors at all.
LEMMA CodesMean ==
    ASSUME NEW errors, NEW codes, SaysCodes(errors, codes)
    PROVE  /\ IsOptionalObjects(errors)
           /\ \A i \in DOMAIN Items(errors) : IsError(errors.list[i])
           /\ [i \in DOMAIN Items(errors) |-> Get(Items(errors)[i], "code").int] = codes
<1>1. CASE IsNull(errors)
    <2>1. codes = <<>> /\ Items(errors) = <<>>
        BY <1>1 DEF SaysCodes, Items
    <2> QED
        BY <1>1, <2>1 DEF IsOptionalObjects
<1>2. CASE ~IsNull(errors)
    <2>1. /\ IsObjects(errors) /\ Items(errors) = errors.list
          /\ \A i \in DOMAIN errors.list : IsInt(Get(errors.list[i], "code"))
          /\ codes = [i \in DOMAIN errors.list |-> Get(errors.list[i], "code").int]
        BY <1>2 DEF SaysCodes, Items
    <2> QED
        BY <2>1 DEF IsOptionalObjects, IsError
<1> QED
    BY <1>1, <1>2

\* A status that says what Meta meant is accepted unless it was damaged, what
\* it is normalized to means the same, and without a time of its own it has the
\* time of the request.
LEMMA DeliveryStatusMeans ==
    ASSUME NEW x, IsObj(x), NEW e, SaysMetaStatus(x, e), NEW t
    PROVE  /\ ~e.damaged => IsStatus(x)
           /\ IsStatus(x) => SameStatus(DeliveryStatus(x, t), e) /\ IsOfStatus(x, e)
           /\ ~e.damaged /\ e.time = None => DeliveryStatus(x, t).occurred_at = t
<1> DEFINE id == Get(x, "id")
           recipient == Get(x, "recipient_id")
           status == Get(x, "status")
           errors == Get(x, "errors")
           s == DeliveryStatus(x, t)
<1>1. /\ Field(x, "id") = id /\ Field(x, "recipient_id") = recipient
      /\ Field(x, "status") = status /\ Field(x, "errors") = errors
    BY FieldIs
<1>2. /\ s.id = Strip(id.str) /\ s.recipient = Strip(recipient.str)
      /\ s.status = IF Strip(status.str) \in KnownStatuses THEN Strip(status.str) ELSE "unknown"
      /\ s.occurred_at = TimeOf(x, t)
      /\ s.codes = [i \in DOMAIN Items(errors) |-> Get(Items(errors)[i], "code").int]
    BY DEF DeliveryStatus
<1>3. IsStatus(x) <=>
          /\ NonBlank(id) /\ NonBlank(recipient) /\ NonBlank(status) /\ IsTimed(x)
          /\ IsOptionalObjects(errors)
          /\ \A i \in DOMAIN Items(errors) : IsError(errors.list[i])
    BY DEF IsStatus
<1> HIDE DEF id, recipient, status, errors, s
<1>4. CASE e.damaged
    <2>1. ReadsOrLost(id, e.id) /\ ReadsOrLost(recipient, e.recipient)
        BY <1>1, <1>4 DEF SaysMetaStatus
    <2>2. IsStatus(x) => Reads(id, e.id) /\ Reads(recipient, e.recipient)
        BY <1>3, <2>1 DEF ReadsOrLost
    <2>3. IsStatus(x) => IsOfStatus(x, e) /\ s.id = e.id /\ s.recipient = e.recipient
        BY <1>1, <1>2, <2>2, ReadsFacts DEF IsOfStatus
    <2> QED
        BY <1>4, <2>3 DEF SameStatus, s
<1>5. CASE ~e.damaged
    <2>1. /\ IsOfStatus(x, e)
          /\ \/ e.status \in KnownStatuses /\ Reads(status, e.status)
             \/ e.status = "unknown" /\ NonBlank(status) /\ Strip(status.str) \notin KnownStatuses
          /\ SaysTime(x, e.time) /\ SaysCodes(errors, e.codes)
        BY <1>1, <1>5 DEF SaysMetaStatus, KnownStatuses
    <2>2. /\ NonBlank(id) /\ s.id = e.id
          /\ NonBlank(recipient) /\ s.recipient = e.recipient
        BY <1>1, <1>2, <2>1, ReadsFacts DEF IsOfStatus
    <2>3. NonBlank(status) /\ s.status = e.status
        BY <1>2, <2>1, ReadsFacts
    <2>4. /\ IsTimed(x) /\ (e.time # None => s.occurred_at = e.time)
          /\ (e.time = None => s.occurred_at = t)
        BY <1>2, <2>1, SaysTimeFacts
    <2>5. /\ s.codes = e.codes /\ IsOptionalObjects(errors)
          /\ \A i \in DOMAIN Items(errors) : IsError(errors.list[i])
        BY <1>2, <2>1, CodesMean
    <2>6. IsStatus(x)
        BY <1>3, <2>2, <2>3, <2>4, <2>5
    <2>7. SameStatus(s, e)
        BY <2>2, <2>3, <2>4, <2>5 DEF SameStatus
    <2> QED
        BY <1>5, <2>1, <2>4, <2>6, <2>7 DEF s
<1> QED
    BY <1>4, <1>5

----------------------------------------------------------------------------
(* Telegram's numbers and contents.                                        *)

LEMMA NamesFacts ==
    ASSUME NEW v, NEW s, Names(v, s)
    PROVE  IsInt(v) /\ ~IsNull(v) /\ ~IsStr(v) /\ Text(v) = s /\ Written(v) = s
BY DEF Names, Text, Written, IsInt, IsNull, IsStr

\* A chat or a user that is accepted is the one that was named.
LEMMA PartyMeans ==
    ASSUME NEW v, NEW s, NamesOrLost(Field(v, "id"), s), IsParty(v)
    PROVE  Text(Get(v, "id")) = s /\ Written(Get(v, "id")) = s
<1> DEFINE id == Get(v, "id")
<1>1. Field(v, "id") = id /\ ~IsNull(id) /\ IsIdentifier(Text(id))
    BY FieldIs DEF IsParty, HasId
<1>2. CASE Names(id, s)
    BY <1>2, NamesFacts
<1>3. CASE IsStr(id) /\ Strip(id.str) \in {""} \cup Long
    <2>1. Text(id) = Strip(id.str)
        BY <1>3 DEF Text, IsInt, IsStr
    <2> QED
        BY <1>1, <1>3, <2>1 DEF IsIdentifier
<1> QED
    BY <1>1, <1>2, <1>3 DEF NamesOrLost

LEMMA PartyNamed ==
    ASSUME NEW v, NEW s, Names(Field(v, "id"), s), Identifies(s)
    PROVE  IsParty(v) /\ HasId(v) /\ Text(Get(v, "id")) = s /\ Written(Get(v, "id")) = s
<1>1. IsObj(v) /\ Field(v, "id") = Get(v, "id") /\ ~IsNull(Get(v, "id"))
    BY NamesFacts, FieldOf
<1> QED
    BY <1>1, NamesFacts DEF IsParty, HasId, IsIdentifier, Identifies

LEMMA VoiceMeans ==
    ASSUME NEW v, IsObj(v), NEW content,
           content = Means("voice", None, content.media), content.media \in MediaReference,
           Reads(Field(v, "file_id"), content.media.id),
           MayRead(Field(v, "mime_type"), content.media.mime),
           MayCount(Field(v, "file_size"), content.media.size),
           MayCount(Field(v, "duration"), content.media.duration),
           content.media.checksum = None
    PROVE  IsVoice(v) /\ Voice(v) = content
<1>1. \A key : Field(v, key) = Get(v, key)
    BY FieldIs
<1>2. NonBlank(Get(v, "file_id")) /\ Strip(Get(v, "file_id").str) = content.media.id
    BY <1>1, ReadsFacts
<1>3. OptionalString(Get(v, "mime_type")) /\ OptionalText(Get(v, "mime_type")) = content.media.mime
    BY <1>1, MayReadFacts
<1>4. content.media.size \in Nat \cup {None} /\ content.media.duration \in Nat \cup {None}
    BY DEF MediaReference
<1>5. /\ IsOptionalSize(Get(v, "file_size"))
      /\ OptionalNumber(Get(v, "file_size")) = content.media.size
      /\ IsOptionalSize(Get(v, "duration"))
      /\ OptionalNumber(Get(v, "duration")) = content.media.duration
    BY <1>1, <1>4, MayCountFacts
<1>6. content.media = [id |-> content.media.id, mime |-> content.media.mime,
                       size |-> content.media.size, duration |-> content.media.duration,
                       checksum |-> None]
    BY DEF MediaReference
<1> QED
    BY <1>2, <1>3, <1>5, <1>6 DEF IsVoice, Voice, VoiceContent, Means, NoMedia

\* The content of a message: its text, else its voice, else nothing of use.
BotContent(x) ==
    CASE NonBlank(Get(x, "text")) -> TextContent(Get(x, "text").str)
      [] ~NonBlank(Get(x, "text")) /\ ~IsNull(Get(x, "voice")) -> Voice(Get(x, "voice"))
      [] OTHER -> Unsupported

LEMMA BotContentMeans ==
    ASSUME NEW x, IsObj(x), NEW content, SaysBotContent(x, content)
    PROVE  /\ NonBlank(Get(x, "text")) \/ IsNull(Get(x, "voice")) \/ IsVoice(Get(x, "voice"))
           /\ BotContent(x) = content
<1> DEFINE text == Get(x, "text")
           voice == Get(x, "voice")
<1>1. Field(x, "text") = text /\ Field(x, "voice") = voice
    BY FieldIs
<1>2. CASE Reads(text, content.text) /\ content = Means("text", content.text, NoMedia)
    BY <1>2, ReadsFacts, TextMeans DEF BotContent
<1>3. CASE /\ IsNull(text) /\ IsObj(voice)
           /\ content = Means("voice", None, content.media)
           /\ content.media \in MediaReference
           /\ Reads(Field(voice, "file_id"), content.media.id)
           /\ MayRead(Field(voice, "mime_type"), content.media.mime)
           /\ MayCount(Field(voice, "file_size"), content.media.size)
           /\ MayCount(Field(voice, "duration"), content.media.duration)
           /\ content.media.checksum = None
    <2>1. IsVoice(voice) /\ Voice(voice) = content
        BY <1>3, VoiceMeans
    <2>2. ~NonBlank(text) /\ ~IsNull(voice)
        BY <1>3 DEF NonBlank, IsNull, IsStr, IsObj
    <2> QED
        BY <2>1, <2>2 DEF BotContent
<1>4. CASE IsNull(text) /\ IsNull(voice) /\ content = Means("unsupported", None, NoMedia)
    <2>1. ~NonBlank(text)
        BY <1>4 DEF NonBlank, IsNull, IsStr
    <2> QED
        BY <1>4, <2>1 DEF BotContent, Unsupported, Means
<1> QED
    BY <1>1, <1>2, <1>3, <1>4 DEF SaysBotContent

LEMMA MessageFields ==
    ASSUME NEW channel, NEW chat, NEW user, NEW id, NEW content, NEW t, NEW e
    PROVE  LET m == Message(channel, chat, user, id, content, t) IN
           /\ m.id = id /\ m.user = user /\ m.chat = chat /\ m.received_at = t
           /\ content = Means(content.type, content.text, content.media) =>
                 [type |-> m.type, text |-> m.text, media |-> m.media] = content
BY DEF Message, Means

LEMMA TelegramMessageIs ==
    ASSUME NEW x, NEW t
    PROVE  TelegramMessage(x, t)
               = Message("telegram", Text(Get(Get(x, "chat"), "id")),
                         Text(Get(Get(x, "from"), "id")), MessageIdentity(x), BotContent(x), t)
BY DEF TelegramMessage, BotContent

\* As with WhatsApp, a message is accepted unless it was damaged, and what it is
\* normalized to means the same.
LEMMA TelegramMessageMeans ==
    ASSUME NEW x, IsObj(x), NEW e, SaysBotMessage(x, e), NEW t
    PROVE  /\ ~e.damaged => IsTelegramMessage(x)
           /\ IsTelegramMessage(x) => SameMessage(TelegramMessage(x, t), e)
<1> DEFINE id == Get(x, "message_id")
           chat == Get(x, "chat")
           user == Get(x, "from")
           prefix == "message:" \o e.chat \o ":"
           m == TelegramMessage(x, t)
<1>1. Field(x, "message_id") = id /\ Field(x, "chat") = chat /\ Field(x, "from") = user
    BY FieldIs
<1>2. /\ m.id = MessageIdentity(x) /\ m.user = Text(Get(user, "id"))
      /\ m.chat = Text(Get(chat, "id"))
      /\ BotContent(x) = Means(BotContent(x).type, BotContent(x).text, BotContent(x).media) =>
            [type |-> m.type, text |-> m.text, media |-> m.media] = BotContent(x)
    BY TelegramMessageIs, MessageFields
<1>3. ASSUME Written(Get(chat, "id")) = e.chat
      PROVE  MessageIdentity(x) = Strip(prefix \o Written(id))
    BY <1>3 DEF MessageIdentity
<1>4. IsTelegramMessage(x) =>
          IsId(id) /\ IsParty(chat) /\ IsParty(user) /\ IsIdentifier(MessageIdentity(x))
    BY DEF IsTelegramMessage
<1>5. CASE e.damaged
    <2> SUFFICES ASSUME IsTelegramMessage(x) PROVE SameMessage(m, e)
        BY <1>5
    <2>1. /\ (IsInt(id) /\ e.id = Strip(prefix \o ToString(id.int))) \/ Lost(id, prefix)
          /\ NamesOrLost(Field(chat, "id"), e.chat) /\ NamesOrLost(Field(user, "id"), e.user)
        BY <1>1, <1>5 DEF SaysBotMessage
    <2>2. /\ Text(Get(chat, "id")) = e.chat /\ Written(Get(chat, "id")) = e.chat
          /\ Text(Get(user, "id")) = e.user
        BY <1>4, <2>1, PartyMeans
    <2>3. IsId(id) /\ IsIdentifier(Strip(prefix \o Written(id)))
        BY <1>3, <1>4, <2>2
    <2> HIDE DEF id, chat, user, prefix, m
    <2>4. ~Lost(id, prefix)
        <3>1. ASSUME IsStr(id) PROVE Written(id) = id.str
            BY <3>1 DEF Written, IsInt, IsStr
        <3> QED
            BY <2>3, <3>1 DEF Lost, IsId, IsIdentifier, NonBlank
    <2>5. Strip(prefix \o Written(id)) = e.id
        BY <2>1, <2>4 DEF Written
    <2> QED
        BY <1>2, <1>3, <1>5, <2>2, <2>5 DEF SameMessage
<1>6. CASE ~e.damaged
    <2>1. /\ IsInt(id) /\ e.id = Strip(prefix \o ToString(id.int))
          /\ Names(Field(chat, "id"), e.chat) /\ Names(Field(user, "id"), e.user)
          /\ Identifies(e.id) /\ Identifies(e.chat) /\ Identifies(e.user)
          /\ SaysBotContent(x, e.content) /\ e.time = None
        BY <1>1, <1>6 DEF SaysBotMessage
    <2>2. /\ IsParty(chat)
          /\ Text(Get(chat, "id")) = e.chat /\ Written(Get(chat, "id")) = e.chat
          /\ IsParty(user) /\ Text(Get(user, "id")) = e.user
        BY <2>1, PartyNamed
    <2>3. MessageIdentity(x) = e.id
        BY <1>3, <2>1, <2>2 DEF Written
    <2>4. /\ NonBlank(Get(x, "text")) \/ IsNull(Get(x, "voice")) \/ IsVoice(Get(x, "voice"))
          /\ BotContent(x) = e.content
        BY <2>1, BotContentMeans
    <2>5. e.content = Means(e.content.type, e.content.text, e.content.media)
        BY <2>1 DEF SaysBotContent, Means
    <2>6. IsId(id)
        BY <2>1 DEF IsId, IsInt, IsNull, IsStr
    <2>7. IsTelegramMessage(x)
        BY <2>1, <2>2, <2>3, <2>4, <2>6 DEF IsTelegramMessage, IsIdentifier, Identifies
    <2> HIDE DEF id, chat, user, prefix, m
    <2>8. [type |-> m.type, text |-> m.text, media |-> m.media] = e.content
        BY <1>2, <2>4, <2>5
    <2>9. SameMessage(m, e)
        BY <1>2, <2>1, <2>2, <2>3, <2>8 DEF SameMessage
    <2> QED
        BY <2>7, <2>9 DEF m
<1> QED
    BY <1>5, <1>6

LEMMA CallbackMeans ==
    ASSUME NEW x, IsObj(x), NEW e, SaysBotCallback(x, e), NEW t
    PROVE  /\ ~e.damaged => IsCallback(x)
           /\ IsCallback(x) => SameMessage(Callback(x, t), e)
<1> DEFINE id == Get(x, "id")
           user == Get(x, "from")
           message == Get(x, "message")
           data == Get(x, "data")
           content == IF NonBlank(data) THEN TextContent(data.str) ELSE Unsupported
           m == Callback(x, t)
<1>1. /\ Field(x, "id") = id /\ Field(x, "from") = user /\ Field(x, "message") = message
      /\ Field(x, "data") = data /\ Field(x, "chat_instance") = Get(x, "chat_instance")
    BY FieldIs
<1>2. /\ m.id = CallbackIdentity(x) /\ m.user = Text(Get(user, "id"))
      /\ m.chat = CallbackChat(x)
      /\ content = Means(content.type, content.text, content.media) =>
            [type |-> m.type, text |-> m.text, media |-> m.media] = content
    <2> HIDE DEF content
    <2>1. m = Message("telegram", CallbackChat(x), Text(Get(user, "id")), CallbackIdentity(x),
                      content, t)
        BY DEF Callback, content
    <2> QED
        BY <2>1, MessageFields
<1>3. IsCallback(x) <=>
          /\ IsId(id) /\ IsIdentifier(CallbackIdentity(x)) /\ IsParty(user)
          /\ IsIdentifier(CallbackChat(x))
    BY DEF IsCallback
<1>4. CallbackIdentity(x) = Strip("callback:" \o Written(id))
    BY DEF CallbackIdentity
<1>5. ASSUME IsStr(id) PROVE Written(id) = id.str
    BY <1>5 DEF Written, IsInt, IsStr
<1>6. CASE e.damaged
    <2> SUFFICES ASSUME IsCallback(x) PROVE SameMessage(m, e)
        BY <1>6
    <2>1. /\ (IsStr(id) /\ e.id = Strip("callback:" \o id.str)) \/ Lost(id, "callback:")
          /\ NamesOrLost(Field(user, "id"), e.user)
        BY <1>1, <1>6 DEF SaysBotCallback
    <2>2. Text(Get(user, "id")) = e.user
        BY <1>3, <2>1, PartyMeans
    <2> HIDE DEF id, user, message, data, content, m
    <2>3. ~Lost(id, "callback:")
        BY <1>3, <1>4, <1>5 DEF Lost, IsId, IsIdentifier, NonBlank
    <2>4. CallbackIdentity(x) = e.id
        BY <1>4, <1>5, <2>1, <2>3
    <2> QED
        BY <1>2, <1>6, <2>2, <2>4 DEF SameMessage
<1>7. CASE ~e.damaged
    <2>1. /\ NonBlank(id) /\ e.id = Strip("callback:" \o id.str)
          /\ Names(Field(user, "id"), e.user)
          /\ Identifies(e.id) /\ Identifies(e.chat) /\ Identifies(e.user)
          /\ \/ IsNull(message) /\ Reads(Get(x, "chat_instance"), e.chat)
             \/ IsObj(message) /\ Names(Field(Field(message, "chat"), "id"), e.chat)
          /\ \/ /\ Reads(data, e.content.text)
                /\ e.content = Means("text", e.content.text, NoMedia)
             \/ IsNull(data) /\ e.content = Means("unsupported", None, NoMedia)
          /\ e.time = None
        BY <1>1, <1>7 DEF SaysBotCallback
    <2>2. IsParty(user) /\ Text(Get(user, "id")) = e.user
        BY <2>1, PartyNamed
    <2>3. IsId(id) /\ CallbackIdentity(x) = e.id
        BY <1>4, <1>5, <2>1 DEF IsId, NonBlank, IsNull, IsStr
    <2>4. CallbackChat(x) = e.chat
        <3>1. CASE IsNull(message) /\ Reads(Get(x, "chat_instance"), e.chat)
            <4>1. NonBlank(Get(x, "chat_instance")) /\ Strip(Get(x, "chat_instance").str) = e.chat
                BY <3>1, ReadsFacts
            <4>2. ~IsObj(message)
                BY <3>1 DEF IsNull, IsObj
            <4> QED
                BY <4>1, <4>2 DEF CallbackChat
        <3>2. CASE IsObj(message) /\ Names(Field(Field(message, "chat"), "id"), e.chat)
            <4>1. Field(message, "chat") = Get(message, "chat")
                BY <3>2, FieldIs
            <4>2. HasId(Get(message, "chat")) /\ Text(Get(Get(message, "chat"), "id")) = e.chat
                BY <2>1, <3>2, <4>1, PartyNamed
            <4> QED
                BY <3>2, <4>2 DEF CallbackChat
        <3> QED
            BY <2>1, <3>1, <3>2
    <2>5. content = e.content /\ e.content = Means(e.content.type, e.content.text, e.content.media)
        <3>1. CASE Reads(data, e.content.text) /\ e.content = Means("text", e.content.text, NoMedia)
            <4>1. NonBlank(data) /\ TextContent(data.str) = e.content
                BY <3>1, ReadsFacts, TextMeans
            <4> QED
                BY <3>1, <4>1 DEF Means
        <3>2. CASE IsNull(data) /\ e.content = Means("unsupported", None, NoMedia)
            <4>1. ~NonBlank(data)
                BY <3>2 DEF NonBlank, IsNull, IsStr
            <4> QED
                BY <3>2, <4>1 DEF Unsupported, Means
        <3> QED
            BY <2>1, <3>1, <3>2
    <2> HIDE DEF id, user, message, data, content, m
    <2>6. IsCallback(x)
        BY <1>3, <2>1, <2>2, <2>3, <2>4 DEF IsIdentifier, Identifies
    <2>7. SameMessage(m, e)
        BY <1>2, <2>1, <2>2, <2>3, <2>4, <2>5 DEF SameMessage
    <2> QED
        BY <2>6, <2>7 DEF m
<1> QED
    BY <1>6, <1>7

----------------------------------------------------------------------------
(* Verdicts.                                                               *)

\* A request gets past the normalizer only with a body that is accepted, and
\* only such bodies are ingested or refused accordingly.
Verdicts ==
    /\ pc \in [Handler -> {"idle", "parse", "ingest"}]
    /\ body \in [Handler -> Bodies \cup {NoBody}]
    /\ \A h \in Handler : pc[h] = "ingest" => Accepts(body[h])
    /\ \A b \in events : Accepts(b)
    /\ acked \subseteq events
    /\ \A b \in refused : ~Accepts(b)

\* The outbox is what it was: so is the verdict on each body.
LEMMA VerdictsStand ==
    ASSUME UNCHANGED outbox
    PROVE  Bodies' = Bodies /\ \A b : Accepts(b)' = Accepts(b)
BY DEF Bodies, Accepts, Channel, ConnectionOf, PayloadOf

LEMMA AnswerFacts ==
    ASSUME Verdicts, NEW h \in Handler, Answer(h)
    PROVE  /\ pc' \in [Handler -> {"idle", "parse", "ingest"}]
           /\ body' \in [Handler -> Bodies \cup {NoBody}]
           /\ \A g \in Handler : pc'[g] = "ingest" => pc[g] = "ingest" /\ body'[g] = body[g]
BY DEF Verdicts, Answer

LEMMA InitVerdicts == Init => Verdicts
BY DEF Init, Verdicts

LEMMA ReceiveVerdicts ==
    ASSUME Verdicts, NEW h \in Handler, NEW b \in Bodies, Receive(h, b)
    PROVE  Verdicts'
<1>1. Bodies' = Bodies /\ \A c : Accepts(c)' = Accepts(c)
    BY VerdictsStand DEF Receive
<1>2. /\ pc' \in [Handler -> {"idle", "parse", "ingest"}]
      /\ body' \in [Handler -> Bodies \cup {NoBody}]
      /\ \A g \in Handler : pc'[g] = "ingest" => pc[g] = "ingest" /\ body'[g] = body[g]
    BY DEF Verdicts, Receive
<1> QED
    BY <1>1, <1>2 DEF Verdicts, Receive, dbVars

\* The normalizer's verdict is the step's.
LEMMA ParseVerdicts ==
    ASSUME Verdicts, NEW h \in Handler, Parse(h)
    PROVE  Verdicts'
<1>1. Bodies' = Bodies /\ \A b : Accepts(b)' = Accepts(b)
    BY VerdictsStand DEF Parse
<1>2. CASE Accepts(body[h])
    <2>1. /\ pc' = [pc EXCEPT ![h] = "ingest"] /\ UNCHANGED <<body, refused, events, acked>>
        BY <1>2 DEF Parse, dbVars
    <2> QED
        BY <1>1, <1>2, <2>1 DEF Verdicts
<1>3. CASE ~Accepts(body[h])
    <2>1. refused' = refused \cup {body[h]} /\ Answer(h) /\ UNCHANGED <<events, acked>>
        BY <1>3 DEF Parse, dbVars
    <2> QED
        BY <1>1, <1>3, <2>1, AnswerFacts DEF Verdicts
<1> QED
    BY <1>2, <1>3

\* A request is answered; at most its body is added to the events and acked.
LEMMA AnswerVerdicts ==
    ASSUME Verdicts, NEW h \in Handler, Answer(h), UNCHANGED <<outbox, refused>>,
           events' \in {events, events \cup {body[h]}}, acked' \in {acked, acked \cup {body[h]}},
           acked' # acked => body[h] \in events',
           events' # events => pc[h] = "ingest"
    PROVE  Verdicts'
<1>1. Bodies' = Bodies /\ \A b : Accepts(b)' = Accepts(b)
    BY VerdictsStand
<1>2. \A b \in events' : Accepts(b)
    BY DEF Verdicts
<1>3. acked' \subseteq events'
    BY DEF Verdicts
<1> QED
    BY <1>1, <1>2, <1>3, AnswerFacts DEF Verdicts

LEMMA HandleVerdicts ==
    ASSUME Verdicts, NEW h \in Handler, Handle(h) \/ Fail(h)
    PROVE  Verdicts'
<1>1. CASE Parse(h)
    BY <1>1, ParseVerdicts
<1>2. CASE FindInactive(h) \/ RollBack(h) \/ Fail(h)
    BY <1>2, AnswerVerdicts DEF FindInactive, RollBack, Fail, dbVars
<1>3. CASE FindDuplicate(h)
    BY <1>3, AnswerVerdicts DEF FindDuplicate, Acknowledge, dbVars
<1>4. CASE Ingest(h)
    BY <1>4, AnswerVerdicts DEF Ingest, Acknowledge
<1> QED
    BY <1>1, <1>2, <1>3, <1>4 DEF Handle

LEMMA OtherVerdicts ==
    ASSUME Verdicts, (\E c \in Connection : SetActive(c)) \/ ClockPasses \/ UNCHANGED vars
    PROVE  Verdicts'
<1>1. UNCHANGED <<outbox, body, pc, events, acked, refused>>
    BY DEF SetActive, ClockPasses, vars, requestVars, dbVars
<1>2. Bodies' = Bodies /\ \A b : Accepts(b)' = Accepts(b)
    BY <1>1, VerdictsStand
<1> QED
    BY <1>1, <1>2 DEF Verdicts

\* The inductive invariant.
THEOREM VerdictsInvariant == Spec => []Verdicts
<1>1. Init => Verdicts
    BY InitVerdicts
<1>2. Verdicts /\ [Next]_vars => Verdicts'
    BY ReceiveVerdicts, HandleVerdicts, OtherVerdicts DEF Next
<1> QED
    BY <1>1, <1>2, PTL DEF Spec

\* For any bodies and any circumstances, a body that was answered 400 is
\* neither stored nor acknowledged, before or after, and what is acknowledged
\* is stored (whatsapp_webhook.py:86, telegram_webhook.py:121).
THEOREM RefusedForGood == Spec => []RefusalsAreFinal
<1>1. Verdicts => RefusalsAreFinal
    BY DEF Verdicts, RefusalsAreFinal
<1> QED
    BY <1>1, VerdictsInvariant, PTL

----------------------------------------------------------------------------
(* Rows.                                                                   *)

USE WebhooksAssumption

MessageColumns ==
    {"channel", "chat", "user", "id", "type", "text", "media", "received_at"}
StatusColumns == {"id", "recipient", "status", "occurred_at", "codes"}

LEMMA RowFacts ==
    ASSUME NEW b, NEW r
    PROVE  /\ Row(b, r).connection = ConnectionOf(b) /\ Row(b, r).body = b
           /\ \A x \in DOMAIN r \ {"connection", "body"} : Row(b, r)[x] = r[x]
BY DEF Row

LEMMA MessageRowFacts ==
    ASSUME NEW b, NEW m, DOMAIN m = MessageColumns
    PROVE  LET row == Row(b, m) IN
           /\ row.connection = ConnectionOf(b) /\ row.body = b
           /\ row.channel = m.channel /\ row.chat = m.chat /\ row.user = m.user
           /\ row.id = m.id /\ row.type = m.type /\ row.text = m.text
           /\ row.media = m.media /\ row.received_at = m.received_at
BY RowFacts DEF MessageColumns

LEMMA StatusRowFacts ==
    ASSUME NEW b, NEW s, DOMAIN s = StatusColumns
    PROVE  LET row == Row(b, s) IN
           /\ row.connection = ConnectionOf(b) /\ row.body = b
           /\ row.id = s.id /\ row.recipient = s.recipient /\ row.status = s.status
           /\ row.occurred_at = s.occurred_at /\ row.codes = s.codes
BY RowFacts DEF StatusColumns

\* What is ingested for a body that is accepted.
LEMMA BodyFacts ==
    ASSUME outbox \in Mailings, NEW b \in Bodies
    PROVE  /\ ConnectionOf(b) \in Connection /\ PayloadOf(b) \in Json
           /\ Channel(b) = ChannelOf[ConnectionOf(b)] /\ Channel(b) \in {"whatsapp", "telegram"}
<1>1. ConnectionOf(b) \in Connection
    BY DEF Bodies, ConnectionOf
<1>2. PayloadOf(b) \in Json
    BY DEF Bodies, PayloadOf
<1> QED
    BY <1>1, <1>2 DEF Channel

LEMMA MessagesOfFacts ==
    ASSUME outbox \in Mailings, NEW b \in Bodies, Accepts(b), NEW t \in Moment
    PROVE  /\ \E n \in Nat : DOMAIN MessagesOf(b, t) = 1..n
           /\ \A i \in DOMAIN MessagesOf(b, t) :
                 LET m == MessagesOf(b, t)[i] IN
                 DOMAIN m = MessageColumns /\ m.channel = Channel(b) /\ IsInbound(m)
<1> DEFINE payload == PayloadOf(b)
<1>1. payload \in Json /\ IsObj(payload) /\ t \in Nat
    BY BodyFacts DEF Accepts, Moment
<1>2. CASE Channel(b) = "whatsapp"
    <2> DEFINE raw == Collect(payload, "messages")
    <2>1. /\ raw \in Seq(Json)
          /\ \A x \in ToSet(raw) : x \in Json /\ IsObj(x) /\ IsCustomerMessage(x)
        BY <1>1, <1>2, CollectFacts DEF Accepts
    <2>2. MessagesOf(b, t) = [i \in DOMAIN raw |-> CustomerMessage(raw[i], t)]
        BY <1>2 DEF MessagesOf, WhatsAppMessages
    <2> HIDE DEF raw
    <2>3. DOMAIN raw = 1..Len(raw) /\ Len(raw) \in Nat
        BY <2>1
    <2>4. ASSUME NEW i \in DOMAIN raw
          PROVE  LET m == CustomerMessage(raw[i], t) IN
                 DOMAIN m = MessageColumns /\ m.channel = "whatsapp" /\ IsInbound(m)
        <3>1. raw[i] \in Json /\ IsObj(raw[i]) /\ IsCustomerMessage(raw[i])
            BY <2>1, <2>4 DEF ToSet
        <3>2. DOMAIN CustomerMessage(raw[i], t) = MessageColumns
            BY DEF CustomerMessage, Message, MessageColumns
        <3> QED
            BY <1>1, <3>1, <3>2, CustomerMessageFacts
    <2> QED
        BY <1>2, <2>2, <2>3, <2>4
<1>3. CASE Channel(b) = "telegram"
    <2> DEFINE m == TelegramUpdate(payload, t)
    <2>1. DOMAIN m = MessageColumns /\ m.channel = "telegram" /\ IsInbound(m)
        <3>1. CASE Has(payload, "message")
            <4>1. /\ Get(payload, "message") \in Json /\ IsObj(Get(payload, "message"))
                  /\ IsTelegramMessage(Get(payload, "message"))
                  /\ m = TelegramMessage(Get(payload, "message"), t)
                BY <1>1, <1>3, <3>1, GetFacts DEF Accepts, IsTelegramUpdate, TelegramUpdate
            <4>2. DOMAIN m = MessageColumns
                BY <4>1 DEF TelegramMessage, Message, MessageColumns
            <4> HIDE DEF m
            <4> QED
                BY <1>1, <4>1, <4>2, TelegramMessageFacts
        <3>2. CASE ~Has(payload, "message")
            <4>1. /\ Get(payload, "callback_query") \in Json /\ IsObj(Get(payload, "callback_query"))
                  /\ IsCallback(Get(payload, "callback_query"))
                  /\ m = Callback(Get(payload, "callback_query"), t)
                BY <1>1, <1>3, <3>2, GetFacts DEF Accepts, IsTelegramUpdate, TelegramUpdate
            <4>2. DOMAIN m = MessageColumns
                BY <4>1 DEF Callback, Message, MessageColumns
            <4> HIDE DEF m
            <4> QED
                BY <1>1, <4>1, <4>2, CallbackFacts
        <3> QED
            BY <3>1, <3>2
    <2>2. MessagesOf(b, t) = <<m>>
        BY <1>3 DEF MessagesOf
    <2> HIDE DEF m
    <2>3. DOMAIN <<m>> = 1..1 /\ \A i \in 1..1 : <<m>>[i] = m
        OBVIOUS
    <2> QED
        BY <1>3, <2>1, <2>2, <2>3
<1> QED
    BY <1>2, <1>3, BodyFacts

LEMMA StatusesOfFacts ==
    ASSUME outbox \in Mailings, NEW b \in Bodies, Accepts(b), NEW t \in Moment
    PROVE  /\ \E n \in Nat : DOMAIN StatusesOf(b, t) = 1..n
           /\ \A i \in DOMAIN StatusesOf(b, t) :
                 LET s == StatusesOf(b, t)[i] IN
                 DOMAIN s = StatusColumns /\ s.status \in KnownStatuses \cup {"unknown"}
<1>1. CASE Channel(b) = "whatsapp"
    <2> DEFINE raw == Collect(PayloadOf(b), "statuses")
    <2>1. raw \in Seq(Json)
        BY <1>1, BodyFacts, CollectFacts DEF Accepts
    <2>2. StatusesOf(b, t) = [i \in DOMAIN raw |-> DeliveryStatus(raw[i], t)]
        BY <1>1 DEF StatusesOf, WhatsAppStatuses
    <2>3. \A x : LET s == DeliveryStatus(x, t) IN
                 DOMAIN s = StatusColumns /\ s.status \in KnownStatuses \cup {"unknown"}
        BY DEF DeliveryStatus, StatusColumns
    <2> HIDE DEF raw
    <2>4. DOMAIN raw = 1..Len(raw) /\ Len(raw) \in Nat
        BY <2>1
    <2> QED
        BY <2>2, <2>3, <2>4
<1>2. CASE Channel(b) = "telegram"
    <2>1. StatusesOf(b, t) = <<>>
        BY <1>2 DEF StatusesOf
    <2>2. DOMAIN StatusesOf(b, t) = 1..0 /\ 0 \in Nat
        BY <2>1
    <2>3. \A i \in 1..0 : FALSE
        OBVIOUS
    <2> QED
        BY ONLY <2>2, <2>3
<1> QED
    BY <1>1, <1>2, BodyFacts

----------------------------------------------------------------------------
(* Types.                                                                  *)

\* A request has a body, and once it was normalized the time of that.
Requests ==
    \A h \in Handler :
        /\ pc[h] # "idle" => body[h] \in Bodies
        /\ pc[h] = "ingest" => received[h] \in Moment

Typed == TypeOK /\ Verdicts /\ Requests

LEMMA AnswerTyped ==
    ASSUME Typed, NEW h \in Handler, Answer(h), UNCHANGED outbox
    PROVE  /\ Bodies' = Bodies
           /\ body' \in [Handler -> Bodies \cup {NoBody}]
           /\ pc' \in [Handler -> {"idle", "parse", "ingest"}]
           /\ received' \in [Handler -> Moment \cup {None}]
           /\ Requests'
<1>1. Bodies' = Bodies
    BY DEF Bodies
<1>2. /\ body' \in [Handler -> Bodies \cup {NoBody}]
      /\ pc' \in [Handler -> {"idle", "parse", "ingest"}]
      /\ received' \in [Handler -> Moment \cup {None}]
    BY DEF Answer, Typed, TypeOK
<1>3. \A g \in Handler : pc'[g] # "idle" =>
          pc'[g] = pc[g] /\ body'[g] = body[g] /\ received'[g] = received[g]
    BY DEF Answer, Typed, TypeOK
<1> QED
    BY <1>1, <1>2, <1>3 DEF Requests, Typed

\* A row of messages, whatever events there are.
IsWellFormed(m) ==
    m.connection \in Connection /\ m.channel = ChannelOf[m.connection] /\ IsInbound(m)

\* Rows that were well formed still are.
LEMMA OldRows ==
    ASSUME Typed, events \subseteq events'
    PROVE  /\ \A m \in messages : IsWellFormed(m) /\ m.body \in events'
           /\ \A s \in statuses : s.body \in events'
                                  /\ s.status \in KnownStatuses \cup {"unknown"}
BY DEF Typed, TypeOK, IsMessageRow, IsWellFormed

\* What is new is among what the body says.
LEMMA NewRows ==
    ASSUME Typed, NEW h \in Handler, Ingest(h)
    PROVE  LET b == body[h]
               t == received[h]
           IN  /\ b \in Bodies /\ t \in Moment /\ Accepts(b) /\ b \notin events
               /\ events' = events \cup {b}
               /\ \A m \in messages' : m \in messages \/
                     \E i \in DOMAIN MessagesOf(b, t) : m = Row(b, MessagesOf(b, t)[i])
               /\ \A s \in statuses' : s \in statuses \/
                     \E i \in DOMAIN StatusesOf(b, t) : s = Row(b, StatusesOf(b, t)[i])
<1> DEFINE b == body[h]
           t == received[h]
           c == ConnectionOf(b)
<1>1. b \in Bodies /\ t \in Moment /\ Accepts(b)
    BY DEF Ingest, Typed, Requests, Verdicts
<1>2. /\ events' = events \cup {b} /\ b \notin events
      /\ messages' = messages \cup {Row(b, m) : m \in NewMessages(c, MessagesOf(b, t))}
      /\ statuses' = statuses \cup {Row(b, s) : s \in NewStatuses(c, StatusesOf(b, t))}
    BY DEF Ingest
<1>3. \A m \in NewMessages(c, MessagesOf(b, t)) :
          \E i \in DOMAIN MessagesOf(b, t) : m = MessagesOf(b, t)[i]
    BY DEF NewMessages, FirstOfEach
<1>4. \A s \in NewStatuses(c, StatusesOf(b, t)) :
          \E i \in DOMAIN StatusesOf(b, t) : s = StatusesOf(b, t)[i]
    BY DEF NewStatuses
<1> HIDE DEF b, t, c
<1>5. /\ \A m \in messages' : m \in messages \/
            \E i \in DOMAIN MessagesOf(b, t) : m = Row(b, MessagesOf(b, t)[i])
      /\ \A s \in statuses' : s \in statuses \/
            \E i \in DOMAIN StatusesOf(b, t) : s = Row(b, StatusesOf(b, t)[i])
    BY <1>2, <1>3, <1>4
<1> QED
    BY <1>1, <1>2, <1>5 DEF b, t

LEMMA IngestTyped ==
    ASSUME Typed, NEW h \in Handler, Ingest(h)
    PROVE  TypeOK' /\ Requests'
<1> DEFINE b == body[h]
           t == received[h]
<1>1. /\ b \in Bodies /\ t \in Moment /\ Accepts(b)
      /\ events' = events \cup {b}
      /\ \A m \in messages' : m \in messages \/
            \E i \in DOMAIN MessagesOf(b, t) : m = Row(b, MessagesOf(b, t)[i])
      /\ \A s \in statuses' : s \in statuses \/
            \E i \in DOMAIN StatusesOf(b, t) : s = Row(b, StatusesOf(b, t)[i])
    BY NewRows
<1>2. /\ Answer(h) /\ Acknowledge(h) /\ UNCHANGED <<active, now, outbox, refused>>
    BY DEF Ingest
<1> HIDE DEF b, t
<1>3. outbox \in Mailings /\ b \in events' /\ b \in Bodies
    BY <1>1 DEF Typed, TypeOK
<1>4. ASSUME NEW i \in DOMAIN MessagesOf(b, t)
      PROVE  LET m == Row(b, MessagesOf(b, t)[i]) IN IsWellFormed(m) /\ m.body = b
    <2> DEFINE m == MessagesOf(b, t)[i]
               r == Row(b, m)
    <2>1. DOMAIN m = MessageColumns /\ m.channel = Channel(b) /\ IsInbound(m)
        BY <1>1, <1>3, <1>4, MessagesOfFacts
    <2>2. /\ ConnectionOf(b) \in Connection /\ Channel(b) = ChannelOf[ConnectionOf(b)]
        BY <1>3, BodyFacts
    <2> HIDE DEF m
    <2>3. /\ r.connection = ConnectionOf(b) /\ r.body = b
          /\ r.channel = m.channel /\ r.chat = m.chat /\ r.user = m.user
          /\ r.id = m.id /\ r.type = m.type /\ r.text = m.text
          /\ r.media = m.media /\ r.received_at = m.received_at
        BY <2>1, MessageRowFacts
    <2> HIDE DEF r
    <2>4. IsInbound(r)
        BY <2>1, <2>3 DEF IsInbound, HasContent
    <2>5. IsWellFormed(r) /\ r.body = b
        BY <2>1, <2>2, <2>3, <2>4 DEF IsWellFormed
    <2> QED
        BY <2>5 DEF r, m
<1>5. \A m \in messages' : IsWellFormed(m) /\ m.body \in events'
    BY <1>1, <1>3, <1>4, OldRows
<1>6. \A s \in statuses' : s.body \in events' /\ s.status \in KnownStatuses \cup {"unknown"}
    BY <1>1, <1>3, OldRows, StatusesOfFacts, StatusRowFacts
<1>7. events' \subseteq Bodies /\ acked' \subseteq Bodies /\ failures' \in 0..MaxFailures
    BY <1>1, <1>2 DEF Acknowledge, Typed, TypeOK, b
<1> QED
    BY <1>2, <1>5, <1>6, <1>7, AnswerTyped DEF Typed, TypeOK, IsMessageRow, IsWellFormed

\* Requests that end without an effect on the rows.
LEMMA AnsweredTyped ==
    ASSUME Typed, NEW h \in Handler, Answer(h), pc[h] # "idle",
           UNCHANGED <<active, now, outbox, dbVars>>,
           acked' \in {acked, acked \cup {body[h]}},
           refused' \in {refused, refused \cup {body[h]}},
           failures' \in {failures} \cup {n \in {failures + 1} : failures < MaxFailures}
    PROVE  TypeOK' /\ Requests'
<1>1. body[h] \in Bodies /\ failures' \in 0..MaxFailures
    BY DEF Typed, TypeOK, Requests
<1> QED
    BY <1>1, AnswerTyped DEF Typed, TypeOK, dbVars, IsMessageRow

LEMMA HandleTyped ==
    ASSUME Typed, NEW h \in Handler, Handle(h) \/ Fail(h)
    PROVE  TypeOK' /\ Requests'
<1>1. CASE Parse(h) /\ Accepts(body[h])
    <2>1. /\ pc[h] = "parse" /\ pc' = [pc EXCEPT ![h] = "ingest"]
          /\ received' = [received EXCEPT ![h] = now]
          /\ UNCHANGED <<active, now, outbox, body, dbVars, acked, refused, failures>>
        BY <1>1 DEF Parse
    <2>2. Requests'
        BY <2>1 DEF Typed, TypeOK, Requests, Bodies
    <2> QED
        BY <2>1, <2>2 DEF Typed, TypeOK, dbVars, IsMessageRow, Bodies
<1>2. CASE Parse(h) /\ ~Accepts(body[h])
    BY <1>2, AnsweredTyped DEF Parse
<1>3. CASE FindInactive(h) \/ RollBack(h)
    BY <1>3, AnsweredTyped DEF FindInactive, RollBack
<1>4. CASE FindDuplicate(h)
    BY <1>4, AnsweredTyped DEF FindDuplicate, Acknowledge
<1>5. CASE Ingest(h)
    BY <1>5, IngestTyped
<1>6. CASE Fail(h)
    BY <1>6, AnsweredTyped DEF Fail
<1> QED
    BY <1>1, <1>2, <1>3, <1>4, <1>5, <1>6 DEF Handle

LEMMA ReceiveTyped ==
    ASSUME Typed, NEW h \in Handler, NEW b \in Bodies, Receive(h, b)
    PROVE  TypeOK' /\ Requests'
<1>1. /\ pc' = [pc EXCEPT ![h] = "parse"] /\ body' = [body EXCEPT ![h] = b]
      /\ pc[h] = "idle"
      /\ UNCHANGED <<active, now, outbox, received, dbVars, acked, refused, failures>>
    BY DEF Receive
<1>2. Requests'
    BY <1>1 DEF Typed, TypeOK, Requests, Bodies
<1> QED
    BY <1>1, <1>2 DEF Typed, TypeOK, dbVars, IsMessageRow, Bodies

LEMMA OtherTyped ==
    ASSUME Typed, (\E c \in Connection : SetActive(c)) \/ ClockPasses \/ UNCHANGED vars
    PROVE  TypeOK' /\ Requests'
<1>1. /\ active' \in [Connection -> BOOLEAN] /\ now' \in Moment
      /\ UNCHANGED <<outbox, requestVars, dbVars, acked, refused, failures>>
    <2>1. active \in [Connection -> BOOLEAN] /\ now \in Moment
        BY DEF Typed, TypeOK
    <2>2. CASE \E c \in Connection : SetActive(c)
        BY <2>1, <2>2 DEF SetActive
    <2>3. CASE ClockPasses
        BY <2>1, <2>3 DEF ClockPasses, Moment
    <2>4. CASE UNCHANGED vars
        BY <2>1, <2>4 DEF vars
    <2> QED
        BY <2>2, <2>3, <2>4
<1>2. Requests'
    BY <1>1 DEF Typed, Requests, requestVars, Bodies
<1> QED
    BY <1>1, <1>2 DEF Typed, TypeOK, requestVars, dbVars, IsMessageRow, Bodies

LEMMA TypedStep ==
    ASSUME Typed, [Next]_vars
    PROVE  Typed'
<1>1. Verdicts'
    BY ReceiveVerdicts, HandleVerdicts, OtherVerdicts DEF Next, Typed
<1>2. TypeOK' /\ Requests'
    BY ReceiveTyped, HandleTyped, OtherTyped DEF Next
<1> QED
    BY <1>1, <1>2 DEF Typed

LEMMA InitTyped == Init => Typed
<1>1. Init => TypeOK /\ Requests
    BY DEF Init, TypeOK, Requests, Moment, Bodies
<1> QED
    BY <1>1, InitVerdicts DEF Typed

LEMMA TypedInvariant == Spec => []Typed
BY InitTyped, TypedStep, PTL DEF Spec

\* Whatever JSON is posted, what is stored satisfies the contract of a
\* normalized message (inbound.py:66) and comes from the channel of its
\* connection; requests, events and answers are about bodies.
THEOREM WebhooksTypeCorrect == Spec => []TypeOK
<1>1. Typed => TypeOK
    BY DEF Typed
<1> QED
    BY <1>1, TypedInvariant, PTL

----------------------------------------------------------------------------
(* The rows and the bodies.                                                *)

OneRowEach ==
    /\ \A m, n \in messages : m.connection = n.connection /\ m.id = n.id => m = n
    /\ \A r, s \in statuses :
          r.connection = s.connection /\ Fingerprint(r) = Fingerprint(s) => r = s

\* Body b was ingested by a request of moment t: its rows are of its messages
\* and statuses, and each of these has a row, its own or an earlier one.
Brought(b, t) ==
    /\ \A m \in messages : m.body = b =>
          \E i \in DOMAIN MessagesOf(b, t) : m = Row(b, MessagesOf(b, t)[i])
    /\ \A s \in statuses : s.body = b =>
          \E i \in DOMAIN StatusesOf(b, t) : s = Row(b, StatusesOf(b, t)[i])
    /\ \A i \in DOMAIN MessagesOf(b, t) : \E m \in messages :
          m.connection = ConnectionOf(b) /\ m.id = MessagesOf(b, t)[i].id
    /\ \A i \in DOMAIN StatusesOf(b, t) : \E s \in statuses :
          s.connection = ConnectionOf(b) /\ Fingerprint(s) = Fingerprint(StatusesOf(b, t)[i])

Ingested == OneRowEach /\ \A b \in events : \E t \in Moment : Brought(b, t)

\* The first of each identity is new, unless the connection has it.
AddsMessages(new, c, raw, n) ==
    /\ \A x \in new : \E i \in 1..n : x = raw[i]
    /\ \A x, y \in new : x.id = y.id => x = y
    /\ \A x \in new : \A m \in messages : m.connection = c => m.id # x.id
    /\ \A i \in 1..n :
          \/ \E m \in messages : m.connection = c /\ m.id = raw[i].id
          \/ \E x \in new : x.id = raw[i].id

AddsStatuses(new, c, raw, n) ==
    /\ \A x \in new : \E i \in 1..n : x = raw[i]
    /\ \A x, y \in new : Fingerprint(x) = Fingerprint(y) => x = y
    /\ \A x \in new : \A s \in statuses : s.connection = c => Fingerprint(s) # Fingerprint(x)
    /\ \A i \in 1..n :
          \/ \E s \in statuses : s.connection = c /\ Fingerprint(s) = Fingerprint(raw[i])
          \/ \E x \in new : Fingerprint(x) = Fingerprint(raw[i])

LEMMA NewMessagesFacts ==
    ASSUME NEW c, NEW n \in Nat, NEW raw, DOMAIN raw = 1..n
    PROVE  AddsMessages(NewMessages(c, raw), c, raw, n)
<1>0. PICK new : new = NewMessages(c, raw)
    OBVIOUS
<1> DEFINE IsNew(k) ==
               /\ \A j \in 1..(k - 1) : raw[j].id # raw[k].id
               /\ \A m \in messages : m.connection = c => m.id # raw[k].id
<1>1. \A x : x \in new <=> \E k \in 1..n : x = raw[k] /\ IsNew(k)
    BY <1>0 DEF NewMessages, FirstOfEach
<1>2. ASSUME NEW x \in new, NEW y \in new, x.id = y.id PROVE x = y
    <2>1. PICK k \in 1..n : x = raw[k] /\ IsNew(k)
        BY <1>1
    <2>2. PICK l \in 1..n : y = raw[l] /\ IsNew(l)
        BY <1>1
    <2>3. ~(k < l) /\ ~(l < k)
        BY <1>2, <2>1, <2>2
    <2> QED
        BY <2>1, <2>2, <2>3
<1>3. ASSUME NEW i \in 1..n, \A m \in messages : m.connection = c => m.id # raw[i].id
      PROVE  \E x \in new : x.id = raw[i].id
    <2> DEFINE T == {j \in 1..n : raw[j].id = raw[i].id}
    <2>1. T \subseteq Nat /\ i \in T
        OBVIOUS
    <2>2. PICK k \in T : \A j \in T : k <= j
        <3> HIDE DEF T
        <3> QED
            BY <2>1, NatMin
    <2>3. k \in 1..n /\ raw[k].id = raw[i].id
        OBVIOUS
    <2>4. \A j \in 1..(k - 1) : raw[j].id # raw[k].id
        BY <2>2, <2>3
    <2>5. IsNew(k)
        BY <1>3, <2>3, <2>4
    <2> HIDE DEF IsNew
    <2> QED
        BY <1>1, <2>3, <2>5
<1>4. \A x \in new : \E i \in 1..n : x = raw[i]
    BY <1>1
<1>5. \A x \in new : \A m \in messages : m.connection = c => m.id # x.id
    BY <1>1
<1> QED
    BY <1>0, <1>2, <1>3, <1>4, <1>5 DEF AddsMessages

LEMMA NewStatusesFacts ==
    ASSUME NEW c, NEW n \in Nat, NEW raw, DOMAIN raw = 1..n
    PROVE  AddsStatuses(NewStatuses(c, raw), c, raw, n)
<1>0. PICK new : new = NewStatuses(c, raw)
    OBVIOUS
<1> DEFINE IsNew(k) ==
               /\ \A j \in 1..(k - 1) : Fingerprint(raw[j]) # Fingerprint(raw[k])
               /\ \A s \in statuses :
                     s.connection = c => Fingerprint(s) # Fingerprint(raw[k])
<1>1. \A x : x \in new <=> \E k \in 1..n : x = raw[k] /\ IsNew(k)
    BY <1>0 DEF NewStatuses
<1>2. ASSUME NEW x \in new, NEW y \in new, Fingerprint(x) = Fingerprint(y) PROVE x = y
    <2>1. PICK k \in 1..n : x = raw[k] /\ IsNew(k)
        BY <1>1
    <2>2. PICK l \in 1..n : y = raw[l] /\ IsNew(l)
        BY <1>1
    <2>3. ~(k < l) /\ ~(l < k)
        BY <1>2, <2>1, <2>2
    <2> QED
        BY <2>1, <2>2, <2>3
<1>3. ASSUME NEW i \in 1..n,
             \A s \in statuses : s.connection = c => Fingerprint(s) # Fingerprint(raw[i])
      PROVE  \E x \in new : Fingerprint(x) = Fingerprint(raw[i])
    <2> DEFINE T == {j \in 1..n : Fingerprint(raw[j]) = Fingerprint(raw[i])}
    <2>1. T \subseteq Nat /\ i \in T
        OBVIOUS
    <2>2. PICK k \in T : \A j \in T : k <= j
        <3> HIDE DEF T
        <3> QED
            BY <2>1, NatMin
    <2>3. k \in 1..n /\ Fingerprint(raw[k]) = Fingerprint(raw[i])
        OBVIOUS
    <2>4. \A j \in 1..(k - 1) : Fingerprint(raw[j]) # Fingerprint(raw[k])
        BY <2>2, <2>3
    <2>5. IsNew(k)
        BY <1>3, <2>3, <2>4
    <2> HIDE DEF IsNew
    <2> QED
        BY <1>1, <2>3, <2>5
<1>4. \A x \in new : \E i \in 1..n : x = raw[i]
    BY <1>1
<1>5. \A x \in new : \A s \in statuses : s.connection = c => Fingerprint(s) # Fingerprint(x)
    BY <1>1
<1> QED
    BY <1>0, <1>2, <1>3, <1>4, <1>5 DEF AddsStatuses

\* What a body says does not change.
LEMMA BodiesStand ==
    ASSUME UNCHANGED outbox
    PROVE  /\ \A b, t : MessagesOf(b, t)' = MessagesOf(b, t) /\ StatusesOf(b, t)' = StatusesOf(b, t)
           /\ \A b, r : Row(b, r)' = Row(b, r)
           /\ \A b : ConnectionOf(b)' = ConnectionOf(b)
BY DEF MessagesOf, StatusesOf, Row, Channel, PayloadOf, ConnectionOf

\* What the transaction commits.
LEMMA Committed ==
    ASSUME Typed, NEW h \in Handler, Ingest(h)
    PROVE  \E b \in Bodies, t \in Moment :
               /\ Accepts(b) /\ b \notin events /\ events' = events \cup {b}
               /\ messages' = messages
                     \cup {Row(b, m) : m \in NewMessages(ConnectionOf(b), MessagesOf(b, t))}
               /\ statuses' = statuses
                     \cup {Row(b, s) : s \in NewStatuses(ConnectionOf(b), StatusesOf(b, t))}
               /\ UNCHANGED outbox
<1>1. body[h] \in Bodies /\ received[h] \in Moment /\ Accepts(body[h])
    BY DEF Ingest, Typed, Requests, Verdicts
<1> QED
    BY <1>1 DEF Ingest

LEMMA MessagesCommitted ==
    ASSUME Typed, Ingested, NEW b \in Bodies, NEW t \in Moment, Accepts(b), b \notin events,
           NEW new, new = NewMessages(ConnectionOf(b), MessagesOf(b, t)),
           messages' = messages \cup {Row(b, m) : m \in new}
    PROVE  /\ \A m, n \in messages' : m.connection = n.connection /\ m.id = n.id => m = n
           /\ \A m \in messages' : m \in messages \/ m.body = b
           /\ \A m \in messages' : m.body = b =>
                 \E i \in DOMAIN MessagesOf(b, t) : m = Row(b, MessagesOf(b, t)[i])
           /\ \A i \in DOMAIN MessagesOf(b, t) : \E m \in messages' :
                 m.connection = ConnectionOf(b) /\ m.id = MessagesOf(b, t)[i].id
<1>0. PICK raw, c : raw = MessagesOf(b, t) /\ c = ConnectionOf(b)
    OBVIOUS
<1>1. PICK n \in Nat : DOMAIN raw = 1..n
    BY <1>0, MessagesOfFacts DEF Typed, TypeOK
<1>2. \A i \in 1..n : DOMAIN raw[i] = MessageColumns
    BY <1>0, <1>1, MessagesOfFacts DEF Typed, TypeOK
<1>3. /\ \A x \in new : \E i \in 1..n : x = raw[i]
      /\ \A x, y \in new : x.id = y.id => x = y
      /\ \A x \in new : \A m \in messages : m.connection = c => m.id # x.id
      /\ \A i \in 1..n :
            \/ \E m \in messages : m.connection = c /\ m.id = raw[i].id
            \/ \E x \in new : x.id = raw[i].id
    <2>1. AddsMessages(new, c, raw, n)
        BY <1>0, <1>1, NewMessagesFacts
    <2> QED
        BY <2>1 DEF AddsMessages
<1>4. \A x \in new :
          Row(b, x).connection = c /\ Row(b, x).body = b /\ Row(b, x).id = x.id
    BY <1>0, <1>2, <1>3, MessageRowFacts
<1>5. \A m \in messages : m.body # b
    BY DEF Typed, TypeOK, IsMessageRow
<1>6. \A m \in messages' : m \in messages \/ \E x \in new : m = Row(b, x)
    OBVIOUS
<1>7. ASSUME NEW m \in messages', NEW k \in messages', m.connection = k.connection, m.id = k.id
      PROVE  m = k
    <2>1. CASE m \in messages /\ k \in messages
        BY <1>7, <2>1 DEF Ingested, OneRowEach
    <2>2. ASSUME NEW x \in new, m = Row(b, x) PROVE m = k
        <3>1. k \notin messages
            BY <1>3, <1>4, <1>7, <2>2
        <3>2. PICK y \in new : k = Row(b, y)
            BY <1>6, <3>1
        <3> QED
            BY <1>3, <1>4, <1>7, <2>2, <3>2
    <2>3. ASSUME NEW x \in new, k = Row(b, x) PROVE m = k
        <3>1. m \notin messages
            BY <1>3, <1>4, <1>7, <2>3
        <3>2. PICK y \in new : m = Row(b, y)
            BY <1>6, <3>1
        <3> QED
            BY <1>3, <1>4, <1>7, <2>3, <3>2
    <2> QED
        BY <1>6, <2>1, <2>2, <2>3
<1>8. ASSUME NEW i \in 1..n PROVE \E m \in messages' : m.connection = c /\ m.id = raw[i].id
    BY <1>3, <1>4
<1>9. \A m \in messages' : m \in messages \/ m.body = b
    BY <1>4, <1>6
<1>10. \A m \in messages' : m.body = b => \E i \in 1..n : m = Row(b, raw[i])
    BY <1>3, <1>5, <1>6
<1> QED
    BY <1>0, <1>1, <1>7, <1>8, <1>9, <1>10

LEMMA StatusesCommitted ==
    ASSUME Typed, Ingested, NEW b \in Bodies, NEW t \in Moment, Accepts(b), b \notin events,
           NEW new, new = NewStatuses(ConnectionOf(b), StatusesOf(b, t)),
           statuses' = statuses \cup {Row(b, s) : s \in new}
    PROVE  /\ \A r, s \in statuses' :
                 r.connection = s.connection /\ Fingerprint(r) = Fingerprint(s) => r = s
           /\ \A s \in statuses' : s \in statuses \/ s.body = b
           /\ \A s \in statuses' : s.body = b =>
                 \E i \in DOMAIN StatusesOf(b, t) : s = Row(b, StatusesOf(b, t)[i])
           /\ \A i \in DOMAIN StatusesOf(b, t) : \E s \in statuses' :
                 s.connection = ConnectionOf(b) /\ Fingerprint(s) = Fingerprint(StatusesOf(b, t)[i])
<1>0. PICK raw, c : raw = StatusesOf(b, t) /\ c = ConnectionOf(b)
    OBVIOUS
<1>1. PICK n \in Nat : DOMAIN raw = 1..n
    BY <1>0, StatusesOfFacts DEF Typed, TypeOK
<1>2. \A i \in 1..n : DOMAIN raw[i] = StatusColumns
    BY <1>0, <1>1, StatusesOfFacts DEF Typed, TypeOK
<1>3. /\ \A x \in new : \E i \in 1..n : x = raw[i]
      /\ \A x, y \in new : Fingerprint(x) = Fingerprint(y) => x = y
      /\ \A x \in new : \A s \in statuses : s.connection = c => Fingerprint(s) # Fingerprint(x)
      /\ \A i \in 1..n :
            \/ \E s \in statuses : s.connection = c /\ Fingerprint(s) = Fingerprint(raw[i])
            \/ \E x \in new : Fingerprint(x) = Fingerprint(raw[i])
    <2>1. AddsStatuses(new, c, raw, n)
        BY <1>0, <1>1, NewStatusesFacts
    <2> QED
        BY <2>1 DEF AddsStatuses
<1>4. \A x \in new :
          /\ Row(b, x).connection = c /\ Row(b, x).body = b
          /\ Fingerprint(Row(b, x)) = Fingerprint(x)
    BY <1>0, <1>2, <1>3, StatusRowFacts DEF Fingerprint
<1>5. \A s \in statuses : s.body # b
    BY DEF Typed, TypeOK
<1>6. \A s \in statuses' : s \in statuses \/ \E x \in new : s = Row(b, x)
    OBVIOUS
<1>7. ASSUME NEW s \in statuses', NEW k \in statuses', s.connection = k.connection,
             Fingerprint(s) = Fingerprint(k)
      PROVE  s = k
    <2>1. CASE s \in statuses /\ k \in statuses
        BY <1>7, <2>1 DEF Ingested, OneRowEach
    <2>2. ASSUME NEW x \in new, s = Row(b, x) PROVE s = k
        <3>1. k \notin statuses
            BY <1>3, <1>4, <1>7, <2>2
        <3>2. PICK y \in new : k = Row(b, y)
            BY <1>6, <3>1
        <3> QED
            BY <1>3, <1>4, <1>7, <2>2, <3>2
    <2>3. ASSUME NEW x \in new, k = Row(b, x) PROVE s = k
        <3>1. s \notin statuses
            BY <1>3, <1>4, <1>7, <2>3
        <3>2. PICK y \in new : s = Row(b, y)
            BY <1>6, <3>1
        <3> QED
            BY <1>3, <1>4, <1>7, <2>3, <3>2
    <2> QED
        BY <1>6, <2>1, <2>2, <2>3
<1>8. ASSUME NEW i \in 1..n
      PROVE  \E s \in statuses' : s.connection = c /\ Fingerprint(s) = Fingerprint(raw[i])
    BY <1>3, <1>4
<1>9. \A s \in statuses' : s \in statuses \/ s.body = b
    BY <1>4, <1>6
<1>10. \A s \in statuses' : s.body = b => \E i \in 1..n : s = Row(b, raw[i])
    BY <1>3, <1>5, <1>6
<1> QED
    BY <1>0, <1>1, <1>7, <1>8, <1>9, <1>10

LEMMA IngestIngested ==
    ASSUME Typed, Ingested, NEW h \in Handler, Ingest(h)
    PROVE  Ingested'
<1>1. PICK b \in Bodies, t \in Moment :
          /\ Accepts(b) /\ b \notin events /\ events' = events \cup {b}
          /\ messages' = messages
                \cup {Row(b, m) : m \in NewMessages(ConnectionOf(b), MessagesOf(b, t))}
          /\ statuses' = statuses
                \cup {Row(b, s) : s \in NewStatuses(ConnectionOf(b), StatusesOf(b, t))}
          /\ UNCHANGED outbox
    BY Committed
<1>2. /\ \A m, n \in messages' : m.connection = n.connection /\ m.id = n.id => m = n
      /\ \A m \in messages' : m \in messages \/ m.body = b
      /\ \A m \in messages' : m.body = b =>
            \E i \in DOMAIN MessagesOf(b, t) : m = Row(b, MessagesOf(b, t)[i])
      /\ \A i \in DOMAIN MessagesOf(b, t) : \E m \in messages' :
            m.connection = ConnectionOf(b) /\ m.id = MessagesOf(b, t)[i].id
    BY <1>1, MessagesCommitted
<1>3. /\ \A r, s \in statuses' :
            r.connection = s.connection /\ Fingerprint(r) = Fingerprint(s) => r = s
      /\ \A s \in statuses' : s \in statuses \/ s.body = b
      /\ \A s \in statuses' : s.body = b =>
            \E i \in DOMAIN StatusesOf(b, t) : s = Row(b, StatusesOf(b, t)[i])
      /\ \A i \in DOMAIN StatusesOf(b, t) : \E s \in statuses' :
            s.connection = ConnectionOf(b) /\ Fingerprint(s) = Fingerprint(StatusesOf(b, t)[i])
    BY <1>1, StatusesCommitted
<1>4. OneRowEach'
    BY <1>2, <1>3 DEF OneRowEach, Fingerprint
<1>5. Brought(b, t)'
    BY <1>1, <1>2, <1>3, BodiesStand DEF Brought, Fingerprint
<1>6. ASSUME NEW c \in events PROVE \E u \in Moment : Brought(c, u)'
    <2>1. PICK u \in Moment : Brought(c, u)
        BY DEF Ingested
    <2>2. c # b /\ messages \subseteq messages' /\ statuses \subseteq statuses'
        BY <1>1
    <2>3. Brought(c, u)'
        BY <1>1, <1>2, <1>3, <2>1, <2>2, BodiesStand DEF Brought, Fingerprint
    <2> QED
        BY <2>3
<1> QED
    BY <1>1, <1>4, <1>5, <1>6 DEF Ingested

LEMMA OtherIngested ==
    ASSUME Ingested, UNCHANGED <<outbox, dbVars>>
    PROVE  Ingested'
<1>1. OneRowEach'
    BY DEF Ingested, OneRowEach, dbVars, Fingerprint
<1>2. ASSUME NEW b, NEW t, Brought(b, t)
      PROVE  Brought(b, t)'
    BY <1>2, BodiesStand DEF Brought, dbVars, Fingerprint
<1> QED
    BY <1>1, <1>2 DEF Ingested, dbVars

LEMMA IngestedStep ==
    ASSUME Typed, Ingested, [Next]_vars
    PROVE  Ingested'
<1>1. CASE \E h \in Handler : Ingest(h)
    BY <1>1, IngestIngested
<1>2. CASE UNCHANGED <<outbox, dbVars>>
    BY <1>2, OtherIngested
<1>3. ASSUME NEW h \in Handler, Handle(h) \/ Fail(h)
      PROVE  Ingest(h) \/ UNCHANGED <<outbox, dbVars>>
    BY <1>3 DEF Handle, Parse, FindInactive, FindDuplicate, RollBack, Fail
<1>4. ASSUME NEW h \in Handler, NEW b \in Bodies, Receive(h, b)
      PROVE  UNCHANGED <<outbox, dbVars>>
    BY <1>4 DEF Receive
<1>5. ASSUME (\E c \in Connection : SetActive(c)) \/ ClockPasses \/ UNCHANGED vars
      PROVE  UNCHANGED <<outbox, dbVars>>
    BY <1>5 DEF SetActive, ClockPasses, vars
<1> QED
    BY <1>1, <1>2, <1>3, <1>4, <1>5 DEF Next

----------------------------------------------------------------------------
(* What a body is normalized to is what it says.                           *)

LEMMA BodySays ==
    ASSUME outbox \in Mailings, NEW b \in Bodies
    PROVE  /\ Channel(b) = "whatsapp" =>
                 MetaSends(PayloadOf(b), MessageElements(b), StatusElements(b))
           /\ Channel(b) # "whatsapp" =>
                 BotSends(PayloadOf(b), MessageElements(b), StatusElements(b))
<1>1. outbox[b] \in ToSet(outbox)
    BY DEF Bodies, ToSet
<1> QED
    BY <1>1, FormatsAssumption
    DEF Channel, ConnectionOf, PayloadOf, MessageElements, StatusElements

LEMMA ProvidersRepeat ==
    ASSUME outbox \in Mailings, NEW b \in Bodies, NEW c \in Bodies,
           ConnectionOf(b) = ConnectionOf(c)
    PROVE  /\ \A e \in MessageElements(b), f \in MessageElements(c) : e.id = f.id => e = f
           /\ \A e \in StatusElements(b), f \in StatusElements(c) :
                 e.id = f.id /\ e.recipient = f.recipient =>
                    /\ e.damaged => e = f /\ b = c
                    /\ e.status = f.status /\ e.codes = f.codes =>
                          (e.time = None <=> f.time = None)
           /\ \A e \in StatusElements(b) : e.damaged =>
                 \A x, y \in MetaItems(PayloadOf(b), "statuses") :
                     IsOfStatus(x, e) /\ IsOfStatus(y, e) => x = y
BY ProvidersAssumption
DEF MessageElements, StatusElements, ConnectionOf, PayloadOf, Bodies

\* An envelope with nothing in it that is refused is accepted.
LEMMA EnvelopeAccepted ==
    ASSUME NEW p, IsMetaEnvelope(p),
           \A x \in MetaItems(p, "messages") : IsCustomerMessage(x),
           \A x \in MetaItems(p, "statuses") : IsStatus(x)
    PROVE  IsObj(p) /\ IsWhatsAppWebhook(p)
<1> DEFINE entry == Get(p, "entry")
<1>1. /\ IsObj(p) /\ Get(p, "object") = Str("whatsapp_business_account")
      /\ IsObjects(entry) /\ Field(p, "entry") = entry
    BY FieldIs DEF IsMetaEnvelope
<1>2. \A i \in DOMAIN entry.list : entry.list[i] \in Objects(Field(p, "entry"))
    BY <1>1 DEF Objects, IsObjects, ToSet
<1>3. ASSUME NEW e \in Objects(Field(p, "entry"))
      PROVE  IsEntry(e)
    <2> DEFINE changes == Get(e, "changes")
    <2>1. IsObj(e) /\ IsObjects(changes) /\ Field(e, "changes") = changes
        BY <1>3, FieldIs DEF IsMetaEnvelope, Objects
    <2>2. \A j \in DOMAIN changes.list :
              IsObj(changes.list[j]) /\ changes.list[j] \in MetaChanges(p)
        BY <1>3, <2>1 DEF Objects, IsObjects, ToSet, MetaChanges
    <2>3. ASSUME NEW c \in MetaChanges(p), IsObj(c), IsOfMessages(c), NEW key \in {"messages", "statuses"}
          PROVE  LET v == Get(Get(c, "value"), key) IN
                 /\ IsObj(Get(c, "value")) /\ IsOptionalObjects(v)
                 /\ \A i \in DOMAIN Items(v) : v.list[i] \in MetaItems(p, key)
        <3> DEFINE value == Get(c, "value")
                   v == Get(value, key)
        <3>1. Field(c, "value") = value /\ IsObj(value) /\ IsOptionalObjects(Field(value, key))
            BY <2>3, FieldIs DEF IsMetaEnvelope
        <3>2. Field(value, key) = v
            BY <3>1, FieldIs
        <3>3. Objects(v) \subseteq MetaItems(p, key)
            BY <2>3, <3>1, <3>2 DEF MetaItems
        <3> HIDE DEF value, v
        <3>4. ASSUME NEW i \in DOMAIN Items(v) PROVE v.list[i] \in Objects(v)
            <4>1. ~IsNull(v)
                BY <3>4 DEF Items
            <4> QED
                BY <3>1, <3>2, <3>4, <4>1 DEF IsOptionalObjects, IsObjects, Items, Objects, ToSet
        <3> QED
            BY <3>1, <3>2, <3>3, <3>4 DEF value, v
    <2>4. ASSUME NEW c \in MetaChanges(p), IsObj(c) PROVE IsChange(c)
        <3> SUFFICES ASSUME Get(c, "field") = Str("messages") PROVE IsChange(c)
            BY DEF IsChange
        <3>1. IsOfMessages(c)
            BY <2>4, FieldIs DEF IsOfMessages
        <3>2. /\ IsObj(Get(c, "value"))
              /\ IsOptionalObjects(Get(Get(c, "value"), "messages"))
              /\ \A i \in DOMAIN Items(Get(Get(c, "value"), "messages")) :
                    IsCustomerMessage(Get(Get(c, "value"), "messages").list[i])
            BY <2>3, <2>4, <3>1
        <3>3. /\ IsOptionalObjects(Get(Get(c, "value"), "statuses"))
              /\ \A i \in DOMAIN Items(Get(Get(c, "value"), "statuses")) :
                    IsStatus(Get(Get(c, "value"), "statuses").list[i])
            BY <2>3, <2>4, <3>1
        <3> QED
            BY <3>2, <3>3 DEF IsChange
    <2> QED
        BY <2>1, <2>2, <2>4 DEF IsEntry
<1> QED
    BY <1>1, <1>2, <1>3 DEF IsWhatsAppWebhook

LEMMA MetaItemsAreObjects ==
    ASSUME NEW p, NEW key, NEW x \in MetaItems(p, key)
    PROVE  IsObj(x)
BY DEF MetaItems, Objects

LEMMA SoundMetaAccepted ==
    ASSUME NEW p, NEW mess, NEW stat, MetaSends(p, mess, stat), mess \cup stat # {},
           \A e \in mess \cup stat : ~e.damaged
    PROVE  IsObj(p) /\ IsWhatsAppWebhook(p)
<1>1. \A x \in MetaItems(p, "messages") : IsCustomerMessage(x)
    BY MetaItemsAreObjects, CustomerMessageMeans DEF MetaSends
<1>2. \A x \in MetaItems(p, "statuses") : IsStatus(x)
    BY MetaItemsAreObjects, DeliveryStatusMeans DEF MetaSends
<1> QED
    BY <1>1, <1>2, EnvelopeAccepted DEF MetaSends

LEMMA SoundBotAccepted ==
    ASSUME NEW p, NEW mess, NEW stat, BotSends(p, mess, stat), mess \cup stat # {},
           \A e \in mess \cup stat : ~e.damaged
    PROVE  IsObj(p) /\ IsTelegramUpdate(p)
<1> DEFINE message == Field(p, "message")
           query == Field(p, "callback_query")
<1>1. CASE IsObj(message)
    <2>1. \E e \in mess : SaysBotMessage(message, e)
        BY <1>1 DEF BotSends
    <2>2. IsTelegramMessage(message)
        BY <1>1, <2>1, TelegramMessageMeans
    <2>3. IsObj(p) /\ Has(p, "message") /\ message = Get(p, "message")
        BY <1>1, FieldOf DEF IsObj, IsNull
    <2> QED
        BY <1>1, <2>2, <2>3 DEF IsTelegramUpdate
<1>2. CASE ~IsObj(message)
    <2>1. IsObj(query) /\ ~Has(p, "message") /\ \E e \in mess : SaysBotCallback(query, e)
        BY <1>2 DEF BotSends
    <2>2. IsCallback(query)
        BY <2>1, CallbackMeans
    <2>3. IsObj(p) /\ Has(p, "callback_query") /\ query = Get(p, "callback_query")
        BY <2>1, FieldOf DEF IsObj, IsNull
    <2> QED
        BY <2>1, <2>2, <2>3 DEF IsTelegramUpdate
<1> QED
    BY <1>1, <1>2

LEMMA SoundAccepted ==
    ASSUME outbox \in Mailings, NEW b \in Bodies,
           ArrivesAsSent(b)
    PROVE  Accepts(b)
BY BodySays, SoundMetaAccepted, SoundBotAccepted DEF Accepts, ArrivesAsSent

\* Between the messages of a body and its elements.
LEMMA MessagesFaithful ==
    ASSUME outbox \in Mailings, NEW b \in Bodies, Accepts(b), NEW t \in Moment
    PROVE  /\ \A m \in ToSet(MessagesOf(b, t)) : \E e \in MessageElements(b) : SameMessage(m, e)
           /\ \A e \in MessageElements(b) : \E m \in ToSet(MessagesOf(b, t)) : m.id = e.id
<1> DEFINE p == PayloadOf(b)
           mess == MessageElements(b)
<1>1. p \in Json /\ IsObj(p)
    BY BodyFacts DEF Accepts
<1>2. CASE Channel(b) = "whatsapp"
    <2>1. IsWhatsAppWebhook(p)
        BY <1>2 DEF Accepts
    <2>2. ToSet(MessagesOf(b, t)) = {CustomerMessage(x, t) : x \in MetaItems(p, "messages")}
        BY <1>1, <1>2, <2>1, NothingSkipped DEF MessagesOf
    <2>3. \A x \in MetaItems(p, "messages") : IsObj(x) /\ IsCustomerMessage(x)
        BY <1>1, <2>1, CollectFacts, CollectItems
    <2>4. MetaSends(p, mess, StatusElements(b))
        BY <1>2, BodySays
    <2>5. /\ \A x \in MetaItems(p, "messages") : \E e \in mess : SaysMetaMessage(x, e)
          /\ \A e \in mess : \E x \in MetaItems(p, "messages") : SaysMetaMessage(x, e)
        BY <2>4 DEF MetaSends
    <2>6. \A x \in MetaItems(p, "messages"), e \in mess :
              SaysMetaMessage(x, e) => SameMessage(CustomerMessage(x, t), e)
        BY <2>3, CustomerMessageMeans
    <2>7. ASSUME NEW m \in ToSet(MessagesOf(b, t)) PROVE \E e \in mess : SameMessage(m, e)
        BY <2>2, <2>5, <2>6, <2>7
    <2>8. ASSUME NEW e \in mess PROVE \E m \in ToSet(MessagesOf(b, t)) : SameMessage(m, e)
        BY <2>2, <2>5, <2>6, <2>8
    <2> QED
        BY <2>7, <2>8 DEF SameMessage
<1>3. CASE Channel(b) # "whatsapp"
    <2> DEFINE m == TelegramUpdate(p, t)
    <2>1. IsTelegramUpdate(p) /\ MessagesOf(b, t) = <<m>> /\ BotSends(p, mess, StatusElements(b))
        BY <1>3, BodySays DEF Accepts, MessagesOf
    <2>2. \E e \in mess : mess = {e} /\ SameMessage(m, e)
        <3>1. CASE Has(p, "message")
            <4>1. /\ Field(p, "message") = Get(p, "message") /\ IsObj(Get(p, "message"))
                  /\ IsTelegramMessage(Get(p, "message"))
                  /\ m = TelegramMessage(Get(p, "message"), t)
                BY <1>1, <2>1, <3>1, FieldIs DEF IsTelegramUpdate, TelegramUpdate
            <4>2. \E e \in mess : mess = {e} /\ SaysBotMessage(Get(p, "message"), e)
                BY <2>1, <4>1 DEF BotSends
            <4> QED
                BY <4>1, <4>2, TelegramMessageMeans
        <3>2. CASE ~Has(p, "message")
            <4>1. /\ Field(p, "callback_query") = Get(p, "callback_query")
                  /\ IsObj(Get(p, "callback_query")) /\ IsCallback(Get(p, "callback_query"))
                  /\ m = Callback(Get(p, "callback_query"), t)
                BY <1>1, <2>1, <3>2, FieldIs DEF IsTelegramUpdate, TelegramUpdate
            <4>2. ~IsObj(Field(p, "message"))
                BY <1>1, <3>2, NullIs DEF Field, Get
            <4>3. \E e \in mess : mess = {e} /\ SaysBotCallback(Get(p, "callback_query"), e)
                BY <2>1, <3>2, <4>1, <4>2 DEF BotSends
            <4> QED
                BY <4>1, <4>3, CallbackMeans
        <3> QED
            BY <3>1, <3>2
    <2> HIDE DEF m
    <2>3. ToSet(<<m>>) = {m}
        BY DEF ToSet
    <2> QED
        BY <2>1, <2>2, <2>3 DEF SameMessage
<1> QED
    BY <1>2, <1>3

\* Between its statuses and its elements.
LEMMA StatusesFaithful ==
    ASSUME outbox \in Mailings, NEW b \in Bodies, Accepts(b), NEW t \in Moment
    PROVE  /\ \A s \in ToSet(StatusesOf(b, t)) : \E e \in StatusElements(b) : SameStatus(s, e)
           /\ \A e \in StatusElements(b) : \E s \in ToSet(StatusesOf(b, t)) :
                 \A r \in ToSet(StatusesOf(b, t)) : SameStatus(r, e) <=> r = s
<1> DEFINE p == PayloadOf(b)
           stat == StatusElements(b)
           items == MetaItems(p, "statuses")
<1>1. p \in Json /\ IsObj(p)
    BY BodyFacts DEF Accepts
<1>2. CASE Channel(b) # "whatsapp"
    <2>1. StatusesOf(b, t) = <<>> /\ stat = {}
        BY <1>2, BodySays DEF StatusesOf, BotSends
    <2> QED
        BY <2>1 DEF ToSet
<1>3. CASE Channel(b) = "whatsapp"
    <2>1. IsWhatsAppWebhook(p)
        BY <1>3 DEF Accepts
    <2>2. ToSet(StatusesOf(b, t)) = {DeliveryStatus(x, t) : x \in items}
        BY <1>1, <1>3, <2>1, NothingSkipped DEF StatusesOf
    <2>3. \A x \in items : IsObj(x) /\ IsStatus(x)
        BY <1>1, <2>1, CollectFacts, CollectItems
    <2>4. MetaSends(p, MessageElements(b), stat)
        BY <1>3, BodySays
    <2>5. /\ \A x \in items : \E e \in stat : SaysMetaStatus(x, e)
          /\ \A e \in stat : \E x \in items : SaysMetaStatus(x, e)
        BY <2>4 DEF MetaSends
    <2>6. ASSUME NEW x \in items, NEW e \in stat, SaysMetaStatus(x, e)
          PROVE  /\ SameStatus(DeliveryStatus(x, t), e) /\ IsOfStatus(x, e)
                 /\ ~e.damaged /\ e.time = None => DeliveryStatus(x, t).occurred_at = t
        BY <2>3, <2>6, DeliveryStatusMeans
    <2>7. ASSUME NEW e \in stat, NEW x \in items, SaysMetaStatus(x, e),
                 NEW y \in items, SameStatus(DeliveryStatus(y, t), e)
          PROVE  DeliveryStatus(y, t) = DeliveryStatus(x, t)
        <3> DEFINE r == DeliveryStatus(y, t)
                   s == DeliveryStatus(x, t)
        <3>1. PICK f \in stat : SaysMetaStatus(y, f)
            BY <2>5
        <3>2. SameStatus(r, f) /\ IsOfStatus(y, f) /\ SameStatus(s, e) /\ IsOfStatus(x, e)
            BY <2>6, <2>7, <3>1
        <3>3. e.id = f.id /\ e.recipient = f.recipient
            BY <2>7, <3>2 DEF SameStatus
        <3>4. CASE e.damaged \/ f.damaged
            <4>1. e = f /\ e.damaged
                BY <3>3, <3>4, ProvidersRepeat
            <4>2. x = y
                BY <3>2, <4>1, ProvidersRepeat
            <4> QED
                BY <4>2
        <3>5. CASE ~e.damaged /\ ~f.damaged
            <4>1. /\ r.id = s.id /\ r.recipient = s.recipient /\ r.status = s.status
                  /\ r.codes = s.codes /\ (e.time # None => r.occurred_at = s.occurred_at)
                BY <2>7, <3>2, <3>5 DEF SameStatus
            <4>2. e.time = None <=> f.time = None
                <5>1. e.status = f.status /\ e.codes = f.codes
                    BY <2>7, <3>2, <3>5 DEF SameStatus
                <5> QED
                    BY <3>3, <5>1, ProvidersRepeat
            <4>3. e.time = None => r.occurred_at = t /\ s.occurred_at = t
                BY <2>6, <2>7, <3>1, <3>5, <4>2
            <4> QED
                BY <4>1, <4>3 DEF DeliveryStatus
        <3> QED
            BY <3>4, <3>5
    <2>8. ASSUME NEW s \in ToSet(StatusesOf(b, t))
          PROVE  \E e \in stat : SameStatus(s, e)
        BY <2>2, <2>5, <2>6, <2>8
    <2>9. ASSUME NEW e \in stat
          PROVE  \E s \in ToSet(StatusesOf(b, t)) :
                     \A r \in ToSet(StatusesOf(b, t)) : SameStatus(r, e) <=> r = s
        <3>1. PICK x \in items : SaysMetaStatus(x, e)
            BY <2>5
        <3>2. DeliveryStatus(x, t) \in ToSet(StatusesOf(b, t)) /\ SameStatus(DeliveryStatus(x, t), e)
            BY <2>2, <2>6, <3>1
        <3>3. ASSUME NEW r \in ToSet(StatusesOf(b, t)), SameStatus(r, e)
              PROVE  r = DeliveryStatus(x, t)
            <4>1. PICK y \in items : r = DeliveryStatus(y, t)
                BY <2>2
            <4> QED
                BY <2>7, <3>1, <3>3, <4>1
        <3> QED
            BY <3>2, <3>3
    <2> QED
        BY <2>8, <2>9
<1> QED
    BY <1>2, <1>3

LEMMA Faithful ==
    ASSUME outbox \in Mailings
    PROVE  NormalizersAreFaithful
BY SoundAccepted, MessagesFaithful, StatusesFaithful DEF NormalizersAreFaithful

\* Whatever payloads Meta and Telegram make of whatever messages and statuses,
\* in entries and changes of any number, with fields of any values besides: what
\* is sound is accepted, and what is accepted is normalized to what was meant,
\* each element to its row and nothing besides (whatsapp/normalizer.py:426,
\* telegram/normalizer.py:196).
THEOREM NormalizersFaithful == Spec => []NormalizersAreFaithful
<1>1. TypeOK => NormalizersAreFaithful
    BY Faithful DEF TypeOK
<1> QED
    BY <1>1, WebhooksTypeCorrect, PTL

----------------------------------------------------------------------------
(* The time of a request.                                                  *)

\* What a body is normalized to at two times differs in nothing but times.
LEMMA OnlyTimesDiffer ==
    ASSUME outbox \in Mailings, NEW b \in Bodies, Accepts(b), NEW t \in Moment, NEW u \in Moment
    PROVE  /\ DOMAIN MessagesOf(b, t) = DOMAIN MessagesOf(b, u)
           /\ \A i \in DOMAIN MessagesOf(b, t) :
                 LET m == MessagesOf(b, t)[i]
                     n == MessagesOf(b, u)[i]
                 IN  m.id = n.id /\ m.media = n.media
           /\ DOMAIN StatusesOf(b, t) = DOMAIN StatusesOf(b, u)
           /\ \A i \in DOMAIN StatusesOf(b, t) :
                 LET r == StatusesOf(b, t)[i]
                     s == StatusesOf(b, u)[i]
                 IN  /\ r.id = s.id /\ r.recipient = s.recipient
                     /\ r.status = s.status /\ r.codes = s.codes
<1> DEFINE p == PayloadOf(b)
<1>1. CASE Channel(b) = "whatsapp"
    <2> DEFINE mess == Collect(p, "messages")
               stat == Collect(p, "statuses")
    <2>1. \A v : /\ MessagesOf(b, v) = [i \in DOMAIN mess |-> CustomerMessage(mess[i], v)]
                 /\ StatusesOf(b, v) = [i \in DOMAIN stat |-> DeliveryStatus(stat[i], v)]
        BY <1>1 DEF MessagesOf, StatusesOf, WhatsAppMessages, WhatsAppStatuses
    <2>2. \A x : CustomerMessage(x, t).id = CustomerMessage(x, u).id
                 /\ CustomerMessage(x, t).media = CustomerMessage(x, u).media
        BY DEF CustomerMessage, Message
    <2>3. \A x : LET r == DeliveryStatus(x, t)
                     s == DeliveryStatus(x, u)
                 IN  /\ r.id = s.id /\ r.recipient = s.recipient
                     /\ r.status = s.status /\ r.codes = s.codes
        BY DEF DeliveryStatus
    <2> HIDE DEF mess, stat
    <2> QED
        BY <2>1, <2>2, <2>3
<1>2. CASE Channel(b) # "whatsapp"
    <2>1. \A v : MessagesOf(b, v) = <<TelegramUpdate(p, v)>> /\ StatusesOf(b, v) = <<>>
        BY <1>2 DEF MessagesOf, StatusesOf
    <2>2. \A x : TelegramMessage(x, t).id = TelegramMessage(x, u).id
                 /\ TelegramMessage(x, t).media = TelegramMessage(x, u).media
        BY TelegramMessageIs DEF Message
    <2>3. \A x : Callback(x, t).id = Callback(x, u).id /\ Callback(x, t).media = Callback(x, u).media
        BY DEF Callback, Message
    <2>4. TelegramUpdate(p, t).id = TelegramUpdate(p, u).id
          /\ TelegramUpdate(p, t).media = TelegramUpdate(p, u).media
        BY <2>2, <2>3 DEF TelegramUpdate
    <2>5. DOMAIN <<TelegramUpdate(p, t)>> = {1} /\ DOMAIN <<TelegramUpdate(p, u)>> = {1}
          /\ <<TelegramUpdate(p, t)>>[1] = TelegramUpdate(p, t)
          /\ <<TelegramUpdate(p, u)>>[1] = TelegramUpdate(p, u)
        OBVIOUS
    <2> QED
        BY <2>1, <2>4, <2>5
<1> QED
    BY <1>1, <1>2

\* A body fits the columns at any time or at none.
LEMMA StorableAnytime ==
    ASSUME outbox \in Mailings, NEW b \in Bodies, Accepts(b), IsStorable(b, 0), NEW t \in Moment
    PROVE  IsStorable(b, t)
<1>1. 0 \in Moment
    BY DEF Moment
<1>2. ASSUME NEW m \in FirstOfEach(MessagesOf(b, t))
      PROVE  \E n \in FirstOfEach(MessagesOf(b, 0)) : m.media = n.media
    <2> DEFINE later == MessagesOf(b, t)
               raw == MessagesOf(b, 0)
    <2>1. PICK n \in Nat : DOMAIN later = 1..n
        BY MessagesOfFacts
    <2>2. /\ DOMAIN raw = 1..n
          /\ \A i \in 1..n : later[i].id = raw[i].id /\ later[i].media = raw[i].media
        BY <1>1, <2>1, OnlyTimesDiffer
    <2>3. PICK k \in 1..n : m = later[k] /\ \A j \in 1..(k - 1) : later[j].id # later[k].id
        BY <1>2, <2>1 DEF FirstOfEach
    <2> HIDE DEF later, raw
    <2>4. \A j \in 1..(k - 1) : j \in 1..n
        BY <2>1, <2>3
    <2>5. \A j \in 1..(k - 1) : raw[j].id # raw[k].id
        BY <2>2, <2>3, <2>4
    <2>6. raw[k] \in FirstOfEach(raw) /\ m.media = raw[k].media
        BY <2>2, <2>3, <2>5 DEF FirstOfEach
    <2> QED
        BY <2>6 DEF raw
<1>3. ASSUME NEW r \in ToSet(StatusesOf(b, t))
      PROVE  \E s \in ToSet(StatusesOf(b, 0)) :
                 r.id = s.id /\ r.recipient = s.recipient /\ r.codes = s.codes
    <2>1. PICK i \in DOMAIN StatusesOf(b, t) : r = StatusesOf(b, t)[i]
        BY <1>3 DEF ToSet
    <2>2. /\ i \in DOMAIN StatusesOf(b, 0)
          /\ r.id = StatusesOf(b, 0)[i].id
          /\ r.recipient = StatusesOf(b, 0)[i].recipient
          /\ r.codes = StatusesOf(b, 0)[i].codes
        BY <1>1, <2>1, OnlyTimesDiffer
    <2> QED
        BY <2>2 DEF ToSet
<1> QED
    BY <1>2, <1>3 DEF IsStorable

\* A request with a body whose elements all arrived as they were sent, and fit
\* the columns, ends with the body ingested unless the connection is not active
\* or the request fails: neither what the body says, nor what is stored already,
\* nor another request stands in its way (whatsapp_webhook.py:72, service.py:182).
SoundBodiesPass ==
    [][\A h \in Handler :
          pc[h] # "idle" /\ IsSound(body[h]) /\ pc'[h] = "idle" =>
             \/ body[h] \in events'
             \/ ~active[ConnectionOf(body[h])]
             \/ failures' > failures]_vars

LEMMA SoundStep ==
    ASSUME Typed, [Next]_vars, NEW h \in Handler,
           pc[h] # "idle", IsSound(body[h]), pc'[h] = "idle"
    PROVE  body[h] \in events' \/ ~active[ConnectionOf(body[h])] \/ failures' > failures
<1> DEFINE b == body[h]
<1>1. /\ b \in Bodies /\ outbox \in Mailings /\ failures \in Nat
      /\ pc[h] = "ingest" => received[h] \in Moment
    BY DEF Typed, TypeOK, Requests
<1>2. Accepts(b) /\ \A t \in Moment : IsStorable(b, t)
    BY <1>1, Faithful, StorableAnytime DEF IsSound, NormalizersAreFaithful
<1>3. CASE Parse(h)
    BY <1>2, <1>3 DEF Parse, Typed, TypeOK
<1>4. CASE FindInactive(h) \/ FindDuplicate(h) \/ Ingest(h)
    BY <1>4 DEF FindInactive, FindDuplicate, Ingest, dbVars
<1>5. CASE RollBack(h)
    BY <1>1, <1>2, <1>5 DEF RollBack
<1>6. CASE Fail(h)
    BY <1>1, <1>6 DEF Fail
<1>7. ASSUME NEW g \in Handler \ {h}, Handle(g) \/ Fail(g)
      PROVE  pc'[h] = pc[h]
    BY <1>7 DEF Handle, Parse, FindInactive, FindDuplicate, Ingest, RollBack, Fail, Answer,
                Typed, TypeOK
<1>8. ASSUME NEW g \in Handler, NEW c \in Bodies, Receive(g, c)
      PROVE  pc'[h] # "idle"
    BY <1>8 DEF Receive, Typed, TypeOK
<1>9. ASSUME (\E c \in Connection : SetActive(c)) \/ ClockPasses \/ UNCHANGED vars
      PROVE  pc'[h] = pc[h]
    BY <1>9 DEF SetActive, ClockPasses, vars, requestVars
<1> QED
    BY <1>3, <1>4, <1>5, <1>6, <1>7, <1>8, <1>9 DEF Next, Handle

\* Whatever bodies there are, the sound ones pass.
THEOREM SoundBodiesGoThrough == Spec => SoundBodiesPass
<1>1. Typed /\ [Next]_vars =>
          [\A h \in Handler :
              pc[h] # "idle" /\ IsSound(body[h]) /\ pc'[h] = "idle" =>
                 \/ body[h] \in events'
                 \/ ~active[ConnectionOf(body[h])]
                 \/ failures' > failures]_vars
    BY SoundStep
<1> QED
    BY <1>1, TypedInvariant, PTL DEF Spec, SoundBodiesPass

----------------------------------------------------------------------------
(* What the rows mean.                                                     *)

\* A row means what it was made of means.
LEMMA RowsMean ==
    ASSUME outbox \in Mailings, NEW b \in Bodies, Accepts(b), NEW t \in Moment
    PROVE  /\ \A i \in DOMAIN MessagesOf(b, t) : \A e :
                 LET m == MessagesOf(b, t)[i] IN
                 SameMessage(Row(b, m), e) <=> SameMessage(m, e)
           /\ \A i \in DOMAIN StatusesOf(b, t) : \A e :
                 LET s == StatusesOf(b, t)[i] IN
                 /\ SameStatus(Row(b, s), e) <=> SameStatus(s, e)
                 /\ Fingerprint(Row(b, s)) = Fingerprint(s)
<1>1. ASSUME NEW m, DOMAIN m = MessageColumns, NEW e
      PROVE  SameMessage(Row(b, m), e) <=> SameMessage(m, e)
    BY <1>1, MessageRowFacts DEF SameMessage
<1>2. ASSUME NEW s, DOMAIN s = StatusColumns, NEW e
      PROVE  /\ SameStatus(Row(b, s), e) <=> SameStatus(s, e)
             /\ Fingerprint(Row(b, s)) = Fingerprint(s)
    BY <1>2, StatusRowFacts DEF SameStatus, Fingerprint
<1>3. \A i \in DOMAIN MessagesOf(b, t) : DOMAIN MessagesOf(b, t)[i] = MessageColumns
    BY MessagesOfFacts
<1>4. \A i \in DOMAIN StatusesOf(b, t) : DOMAIN StatusesOf(b, t)[i] = StatusColumns
    BY StatusesOfFacts
<1>5. ASSUME NEW i \in DOMAIN MessagesOf(b, t), NEW e
      PROVE  LET m == MessagesOf(b, t)[i] IN
             SameMessage(Row(b, m), e) <=> SameMessage(m, e)
    BY ONLY <1>1, <1>3, <1>5
<1>6. ASSUME NEW i \in DOMAIN StatusesOf(b, t), NEW e
      PROVE  LET s == StatusesOf(b, t)[i] IN
             /\ SameStatus(Row(b, s), e) <=> SameStatus(s, e)
             /\ Fingerprint(Row(b, s)) = Fingerprint(s)
    BY ONLY <1>2, <1>4, <1>6
<1> QED
    BY ONLY <1>5, <1>6

\* Each row is of an event, and of an element of its body.
LEMMA MessageMeans ==
    ASSUME Typed, Ingested, NEW m \in messages
    PROVE  /\ m.body \in events /\ m.body \in Bodies /\ m.connection = ConnectionOf(m.body)
           /\ \E e \in MessageElements(m.body) : SameMessage(m, e)
<1> DEFINE b == m.body
<1>1. b \in events /\ b \in Bodies /\ Accepts(b) /\ outbox \in Mailings
    BY DEF Typed, TypeOK, IsMessageRow, Verdicts
<1> HIDE DEF b
<1>2. PICK t \in Moment : \E i \in DOMAIN MessagesOf(b, t) : m = Row(b, MessagesOf(b, t)[i])
    BY <1>1 DEF Ingested, Brought, b
<1>3. PICK i \in DOMAIN MessagesOf(b, t) : m = Row(b, MessagesOf(b, t)[i])
    BY <1>2
<1>4. MessagesOf(b, t)[i] \in ToSet(MessagesOf(b, t))
    BY DEF ToSet
<1>5. PICK e \in MessageElements(b) : SameMessage(MessagesOf(b, t)[i], e)
    BY <1>1, <1>4, Faithful DEF NormalizersAreFaithful
<1>6. SameMessage(m, e)
    BY <1>1, <1>2, <1>3, <1>5, RowsMean
<1>7. m.connection = ConnectionOf(b)
    BY <1>3, RowFacts
<1> QED
    BY <1>1, <1>6, <1>7 DEF b

LEMMA StatusMeans ==
    ASSUME Typed, Ingested, NEW s \in statuses
    PROVE  /\ s.body \in events /\ s.body \in Bodies /\ s.connection = ConnectionOf(s.body)
           /\ \E e \in StatusElements(s.body) : SameStatus(s, e)
<1> DEFINE b == s.body
<1>1. b \in events /\ b \in Bodies /\ Accepts(b) /\ outbox \in Mailings
    BY DEF Typed, TypeOK, Verdicts
<1> HIDE DEF b
<1>2. PICK t \in Moment : \E i \in DOMAIN StatusesOf(b, t) : s = Row(b, StatusesOf(b, t)[i])
    BY <1>1 DEF Ingested, Brought, b
<1>3. PICK i \in DOMAIN StatusesOf(b, t) : s = Row(b, StatusesOf(b, t)[i])
    BY <1>2
<1>4. StatusesOf(b, t)[i] \in ToSet(StatusesOf(b, t))
    BY DEF ToSet
<1>5. PICK e \in StatusElements(b) : SameStatus(StatusesOf(b, t)[i], e)
    BY <1>1, <1>4, Faithful DEF NormalizersAreFaithful
<1>6. SameStatus(s, e)
    BY <1>1, <1>2, <1>3, <1>5, RowsMean
<1>7. s.connection = ConnectionOf(b)
    BY <1>3, RowFacts
<1> QED
    BY <1>1, <1>6, <1>7 DEF b

LEMMA AckedMessages ==
    ASSUME Typed, Ingested, NEW b \in acked, NEW e \in MessageElements(b)
    PROVE  LET rows == {m \in messages : m.connection = ConnectionOf(b) /\ m.id = e.id} IN
           Cardinality(rows) = 1 /\ \A m \in rows : SameMessage(m, e)
<1> DEFINE rows == {m \in messages : m.connection = ConnectionOf(b) /\ m.id = e.id}
<1>1. b \in events /\ b \in Bodies /\ Accepts(b) /\ outbox \in Mailings
    BY DEF Typed, TypeOK, Verdicts
<1>2. PICK t \in Moment : Brought(b, t)
    BY <1>1 DEF Ingested
<1>3. PICK i \in DOMAIN MessagesOf(b, t) : MessagesOf(b, t)[i].id = e.id
    BY <1>1, Faithful DEF NormalizersAreFaithful, ToSet
<1>4. PICK m \in messages : m.connection = ConnectionOf(b) /\ m.id = e.id
    BY <1>2, <1>3 DEF Brought
<1>5. rows = {m}
    BY <1>4 DEF Ingested, OneRowEach
<1>6. PICK f \in MessageElements(m.body) : SameMessage(m, f)
    BY MessageMeans
<1>7. e.id = f.id
    BY <1>4, <1>6 DEF SameMessage
<1>8. m.body \in Bodies /\ ConnectionOf(b) = ConnectionOf(m.body)
    BY <1>4, MessageMeans
<1>9. e = f
    BY <1>1, <1>7, <1>8, ProvidersRepeat
<1> QED
    BY <1>5, <1>6, <1>9, FS_Singleton

LEMMA AckedStatuses ==
    ASSUME Typed, Ingested, NEW b \in acked, NEW e \in StatusElements(b)
    PROVE  LET rows == {s \in statuses : s.connection = ConnectionOf(b) /\ SameStatus(s, e)} IN
           rows # {} /\ (e.time # None => Cardinality(rows) = 1)
<1> DEFINE rows == {s \in statuses : s.connection = ConnectionOf(b) /\ SameStatus(s, e)}
<1>1. b \in events /\ b \in Bodies /\ Accepts(b) /\ outbox \in Mailings
    BY DEF Typed, TypeOK, Verdicts
<1>2. PICK t \in Moment : Brought(b, t)
    BY <1>1 DEF Ingested
<1>3. PICK x \in ToSet(StatusesOf(b, t)) :
          \A r \in ToSet(StatusesOf(b, t)) : SameStatus(r, e) <=> r = x
    BY <1>1, Faithful DEF NormalizersAreFaithful
<1>4. PICK i \in DOMAIN StatusesOf(b, t) : StatusesOf(b, t)[i] = x
    BY DEF ToSet
<1>5. PICK s \in statuses : s.connection = ConnectionOf(b) /\ Fingerprint(s) = Fingerprint(x)
    BY <1>2, <1>4 DEF Brought
<1>6. SameStatus(s, e)
    BY <1>3, <1>5 DEF SameStatus, Fingerprint
<1>7. ASSUME e.time # None, NEW r \in rows PROVE r = s
    <2>1. CASE ~e.damaged
        <3>1. Fingerprint(r) = Fingerprint(s)
            BY <1>6, <1>7, <2>1 DEF SameStatus, Fingerprint
        <3> QED
            BY <1>5, <3>1 DEF Ingested, OneRowEach
    <2>2. CASE e.damaged
        <3>1. ASSUME NEW q \in statuses, q.connection = ConnectionOf(b), SameStatus(q, e)
              PROVE  q = Row(b, x)
            <4>1. PICK f \in StatusElements(q.body) : SameStatus(q, f)
                BY StatusMeans
            <4>2. q.body \in Bodies /\ ConnectionOf(b) = ConnectionOf(q.body)
                BY <3>1, StatusMeans
            <4>3. e.id = f.id /\ e.recipient = f.recipient
                BY <3>1, <4>1 DEF SameStatus
            <4>4. q.body = b
                BY <1>1, <2>2, <4>2, <4>3, ProvidersRepeat
            <4>5. PICK k \in DOMAIN StatusesOf(b, t) : q = Row(b, StatusesOf(b, t)[k])
                BY <1>2, <4>4 DEF Brought
            <4>6. SameStatus(StatusesOf(b, t)[k], e)
                BY <1>1, <3>1, <4>5, RowsMean
            <4>7. StatusesOf(b, t)[k] = x
                BY <1>3, <4>6 DEF ToSet
            <4> QED
                BY <4>5, <4>7
        <3> QED
            BY <1>5, <1>6, <3>1
    <2> QED
        BY <2>1, <2>2
<1>8. s \in rows
    BY <1>5, <1>6
<1>9. e.time # None => rows = {s}
    BY <1>7, <1>8
<1> QED
    BY <1>8, <1>9, FS_Singleton

LEMMA RowsAreExact ==
    ASSUME Typed, Ingested
    PROVE  InboxIsExact
<1>1. AckedElementsAreStored
    BY AckedMessages, AckedStatuses DEF AckedElementsAreStored
<1>2. StoredElementsWereSent
    BY MessageMeans, StatusMeans DEF StoredElementsWereSent
<1> QED
    BY <1>1, <1>2 DEF InboxIsExact

\* The rows are exact, whatever bodies of any number are delivered, how often and
\* in what order, by however many requests at a time, with whatever failures: a
\* body that was answered 200 is stored whole, a message or timed status once,
\* and nothing else is (service.py:182, normalizer.py:451).
THEOREM InboxExact == Spec => []InboxIsExact
<1>1. Init => Ingested
    BY DEF Init, Ingested, OneRowEach
<1>2. Typed /\ Ingested /\ [Next]_vars => Ingested'
    BY IngestedStep
<1>3. Typed /\ Ingested => InboxIsExact
    BY RowsAreExact
<1> QED
    BY <1>1, <1>2, <1>3, TypedInvariant, PTL DEF Spec

----------------------------------------------------------------------------
(* The inbox.                                                              *)

\* Ingestion in one step implements what ingestion promises, as module Ingestion
\* does with a step per INSERT.  A body is named by its mailing and its place in
\* it; the rows it stands for are those of what its provider said.
SentBody == UNION {{<<mailing, b>> : b \in DOMAIN mailing} : mailing \in Mailings}

MessageKey(c, id) == [table |-> "message", key |-> <<c, id>>]
StatusKey(c, id, recipient) == [table |-> "status", key |-> <<c, id, recipient>>]

RowsOf(sent) ==
    LET b == sent[1][sent[2]] IN
    {[table |-> "event", key |-> sent]}
    \cup {MessageKey(b.connection, e.id) : e \in Said(b, "message")}
    \cup {StatusKey(b.connection, e.id, e.recipient) : e \in Said(b, "status")}

\* The rows that are committed, by their keys.
Committing ==
    {[table |-> "event", key |-> <<outbox, b>>] : b \in events}
    \cup {MessageKey(m.connection, m.id) : m \in messages}
    \cup {StatusKey(s.connection, s.id, s.recipient) : s \in statuses}

Inbox == INSTANCE WebhookInbox WITH Body <- SentBody, db <- Committing

\* What a transaction adds for a body are the rows of what the body says, whole
\* and in one step, next to what was there.
LEMMA IngestsSaid ==
    ASSUME Typed, Ingested, NEW h \in Handler, Ingest(h)
    PROVE  \E sent \in SentBody : Inbox!Ingest(sent)
<1>1. PICK b \in Bodies, t \in Moment :
          /\ Accepts(b) /\ b \notin events /\ events' = events \cup {b}
          /\ messages' = messages
                \cup {Row(b, m) : m \in NewMessages(ConnectionOf(b), MessagesOf(b, t))}
          /\ statuses' = statuses
                \cup {Row(b, s) : s \in NewStatuses(ConnectionOf(b), StatusesOf(b, t))}
          /\ UNCHANGED outbox
    BY Committed
<1> DEFINE c == ConnectionOf(b)
           sent == <<outbox, b>>
           Ids == {MessageKey(m.connection, m.id) : m \in messages}
           Keys == {StatusKey(s.connection, s.id, s.recipient) : s \in statuses}
<1>2. outbox \in Mailings /\ sent \in SentBody
    BY DEF Typed, TypeOK, Bodies, SentBody
<1>3. Ids' = Ids \cup {MessageKey(c, e.id) : e \in MessageElements(b)}
    <2>1. /\ \A m \in messages' : m \in messages \/ m.body = b
          /\ \A m \in messages' : m.body = b =>
                \E i \in DOMAIN MessagesOf(b, t) : m = Row(b, MessagesOf(b, t)[i])
          /\ \A i \in DOMAIN MessagesOf(b, t) : \E m \in messages' :
                m.connection = c /\ m.id = MessagesOf(b, t)[i].id
        BY <1>1, MessagesCommitted
    <2>2. messages \subseteq messages'
        BY <1>1
    <2>3. \A i \in DOMAIN MessagesOf(b, t) :
              LET m == MessagesOf(b, t)[i] IN
              Row(b, m).connection = c /\ Row(b, m).id = m.id
        BY <1>1, <1>2, MessagesOfFacts, MessageRowFacts
    <2>4. /\ \A i \in DOMAIN MessagesOf(b, t) : \E e \in MessageElements(b) :
                MessagesOf(b, t)[i].id = e.id
          /\ \A e \in MessageElements(b) : \E i \in DOMAIN MessagesOf(b, t) :
                MessagesOf(b, t)[i].id = e.id
        <3>1. /\ \A m \in ToSet(MessagesOf(b, t)) : \E e \in MessageElements(b) : SameMessage(m, e)
              /\ \A e \in MessageElements(b) : \E m \in ToSet(MessagesOf(b, t)) : m.id = e.id
            BY <1>1, <1>2, MessagesFaithful
        <3>2. \A m, e : SameMessage(m, e) => m.id = e.id
            BY DEF SameMessage
        <3>3. \A m \in ToSet(MessagesOf(b, t)) : \E e \in MessageElements(b) : m.id = e.id
            BY <3>1, <3>2
        <3> QED
            BY <3>1, <3>3 DEF ToSet
    <2>5. ASSUME NEW m \in messages'
          PROVE  \/ m \in messages
                 \/ \E e \in MessageElements(b) : m.connection = c /\ m.id = e.id
        BY <2>1, <2>3, <2>4, <2>5
    <2>6. ASSUME NEW e \in MessageElements(b)
          PROVE  \E m \in messages' : m.connection = c /\ m.id = e.id
        BY <2>1, <2>4, <2>6
    <2>7. Ids' = {MessageKey(m.connection, m.id) : m \in messages'}
        BY DEF MessageKey
    <2> HIDE DEF c
    <2> QED
        BY <2>2, <2>5, <2>6, <2>7
<1>4. Keys' = Keys \cup {StatusKey(c, e.id, e.recipient) : e \in StatusElements(b)}
    <2>1. /\ \A s \in statuses' : s \in statuses \/ s.body = b
          /\ \A s \in statuses' : s.body = b =>
                \E i \in DOMAIN StatusesOf(b, t) : s = Row(b, StatusesOf(b, t)[i])
          /\ \A i \in DOMAIN StatusesOf(b, t) : \E s \in statuses' :
                s.connection = c /\ Fingerprint(s) = Fingerprint(StatusesOf(b, t)[i])
        BY <1>1, StatusesCommitted
    <2>2. statuses \subseteq statuses'
        BY <1>1
    <2>3. \A i \in DOMAIN StatusesOf(b, t) :
              LET s == StatusesOf(b, t)[i] IN
              Row(b, s).connection = c /\ Row(b, s).id = s.id /\ Row(b, s).recipient = s.recipient
        BY <1>1, <1>2, StatusesOfFacts, StatusRowFacts
    <2>4. /\ \A i \in DOMAIN StatusesOf(b, t) : \E e \in StatusElements(b) :
                StatusesOf(b, t)[i].id = e.id /\ StatusesOf(b, t)[i].recipient = e.recipient
          /\ \A e \in StatusElements(b) : \E i \in DOMAIN StatusesOf(b, t) :
                StatusesOf(b, t)[i].id = e.id /\ StatusesOf(b, t)[i].recipient = e.recipient
        BY <1>1, <1>2, StatusesFaithful DEF SameStatus, ToSet
    <2>5. \A r, s : Fingerprint(r) = Fingerprint(s) => r.id = s.id /\ r.recipient = s.recipient
        BY DEF Fingerprint
    <2>6. ASSUME NEW s \in statuses'
          PROVE  \/ s \in statuses
                 \/ \E e \in StatusElements(b) :
                       s.connection = c /\ s.id = e.id /\ s.recipient = e.recipient
        BY <2>1, <2>3, <2>4, <2>6
    <2>7. ASSUME NEW e \in StatusElements(b)
          PROVE  \E s \in statuses' : s.connection = c /\ s.id = e.id /\ s.recipient = e.recipient
        BY <2>1, <2>4, <2>5, <2>7
    <2>8. Keys' = {StatusKey(s.connection, s.id, s.recipient) : s \in statuses'}
        BY DEF StatusKey
    <2> HIDE DEF c
    <2> QED
        BY <2>2, <2>6, <2>7, <2>8
<1>5. RowsOf(sent) = {[table |-> "event", key |-> sent]}
                         \cup {MessageKey(c, e.id) : e \in MessageElements(b)}
                         \cup {StatusKey(c, e.id, e.recipient) : e \in StatusElements(b)}
    BY DEF RowsOf, ConnectionOf, MessageElements, StatusElements
<1>6. /\ Committing = {[table |-> "event", key |-> <<outbox, a>>] : a \in events} \cup Ids \cup Keys
      /\ Committing' = {[table |-> "event", key |-> <<outbox, a>>] : a \in events'}
                           \cup Ids' \cup Keys'
    BY <1>1 DEF Committing, MessageKey, StatusKey
<1>7. [table |-> "event", key |-> sent] \notin Committing
    BY <1>1 DEF Committing, MessageKey, StatusKey
<1> HIDE DEF c, Ids, Keys
<1>8. Committing' = Committing \cup RowsOf(sent)
    <2>1. {[table |-> "event", key |-> <<outbox, a>>] : a \in events'}
              = {[table |-> "event", key |-> <<outbox, a>>] : a \in events}
                    \cup {[table |-> "event", key |-> sent]}
        BY <1>1
    <2> QED
        BY <1>3, <1>4, <1>5, <1>6, <2>1
<1> QED
    BY <1>2, <1>7, <1>8 DEF Inbox!Ingest

\* The endpoints implement the inbox, whoever calls them: the event of a body
\* and a row of each message and of each reported delivery in it appear in one
\* step, once, and nothing is ever taken away ("All writes commit in one
\* transaction or roll back together", service.py:373).
THEOREM InboxImplemented == Spec => Inbox!InboxSpec
<1>1. Init => Inbox!InboxInit
    BY DEF Init, Committing, Inbox!InboxInit
<1>2. Init => Ingested
    BY DEF Init, Ingested, OneRowEach
<1>3. Typed /\ Ingested /\ [Next]_vars => Ingested'
    BY IngestedStep
<1>4. Typed /\ Ingested /\ [Next]_vars => [Inbox!InboxNext]_Committing
    <2> SUFFICES ASSUME Typed, Ingested, [Next]_vars
                 PROVE  [Inbox!InboxNext]_Committing
        OBVIOUS
    <2>1. CASE \E h \in Handler : Ingest(h)
        BY <2>1, IngestsSaid DEF Inbox!InboxNext
    <2>2. CASE ~\E h \in Handler : Ingest(h)
        <3>1. UNCHANGED <<outbox, events, messages, statuses>>
            BY <2>2 DEF Next, Handle, Parse, FindInactive, FindDuplicate, RollBack, Fail, Receive,
                        SetActive, ClockPasses, vars, dbVars
        <3> QED
            BY <3>1 DEF Committing, MessageKey, StatusKey
    <2> QED
        BY <2>1, <2>2
<1> QED
    BY <1>1, <1>2, <1>3, <1>4, TypedInvariant, PTL DEF Spec, Inbox!InboxSpec
=============================================================================
