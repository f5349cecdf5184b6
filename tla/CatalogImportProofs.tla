------------------------- MODULE CatalogImportProofs -------------------------
(***************************************************************************)
(* Proofs about CatalogImport, for any number of imports, products, files  *)
(* and failures.  What an import has read of a product is what the product *)
(* is, unless it was overtaken; and what it has upserted is locked, hence  *)
(* is changed by its own commit only.                                      *)
(***************************************************************************)
EXTENDS CatalogImport, FiniteSetTheorems, TLAPS

USE ImportAssumption

Phase == {"start", "begin", "validate", "reject", "readKeys", "readProducts", "readVariants",
          "upsert", "recover", "done", "lost"}

\* An import whose call has not ended has a file; what is neither locked nor
\* waiting to be upserted is not of the file.
Progress(i) ==
    /\ pc[i] \notin {"start", "done", "lost"} => file[i] \in File
    /\ pc[i] # "upsert" => held[i] = {}
    /\ pc[i] = "upsert" => held[i] \cup {r.key : r \in ToSet(todo[i])} = KeysOf(i)
    /\ \A p \in held[i] : p \in fresh[i] <=> ~Created(p)

\* What was read and not overtaken is current.
Reads(i) ==
    \A p \in Product :
        file[i] \in File /\ p \in KeysOf(i) /\ <<i, p>> \notin overtaken =>
            /\ pc[i] \in {"readProducts", "readVariants", "upsert"} =>
                  (p \in existing[i] <=> Created(p))
            /\ pc[i] \in {"readVariants", "upsert"} /\ Created(p) =>
                  names[i][p] = doc[p].product
            /\ pc[i] = "upsert" /\ Created(p) => materials[i][p] = doc[p].material

Inv == TypeOK /\ \A i \in Import : Progress(i) /\ Reads(i)

----------------------------------------------------------------------------
(* Lemmas.                                                                 *)

LEMMA HeadAndTail ==
    ASSUME NEW S, NEW s \in Seq(S), s # <<>>
    PROVE  /\ Tail(s) \in Seq(S) /\ Head(s) \in S
           /\ ToSet(s) = {Head(s)} \cup ToSet(Tail(s))
<1>1. /\ Len(s) \in Nat \ {0} /\ DOMAIN s = 1..Len(s) /\ Head(s) = s[1] /\ Head(s) \in S
      /\ Tail(s) \in Seq(S) /\ DOMAIN Tail(s) = 1..(Len(s) - 1)
      /\ \A i \in 1..(Len(s) - 1) : Tail(s)[i] = s[i + 1]
    OBVIOUS
<1>2. ASSUME NEW i \in 1..Len(s) PROVE s[i] \in {Head(s)} \cup ToSet(Tail(s))
    <2>1. CASE i = 1
        BY <1>1, <2>1
    <2>2. CASE i # 1
        <3>1. i - 1 \in DOMAIN Tail(s) /\ Tail(s)[i - 1] = s[i]
            BY <1>1, <2>2
        <3> QED
            BY <3>1 DEF ToSet
    <2> QED
        BY <2>1, <2>2
<1>3. \A i \in DOMAIN Tail(s) : Tail(s)[i] \in ToSet(s)
    <2>1. \A i \in 1..(Len(s) - 1) : i + 1 \in DOMAIN s
        BY <1>1
    <2> QED
        BY <1>1, <2>1 DEF ToSet
<1>4. Head(s) \in ToSet(s)
    <2>1. 1 \in DOMAIN s
        BY <1>1
    <2> QED
        BY <1>1, <2>1 DEF ToSet
<1>5. ToSet(Tail(s)) \subseteq ToSet(s)
    BY <1>3 DEF ToSet
<1>6. ToSet(s) \subseteq {Head(s)} \cup ToSet(Tail(s))
    BY <1>1, <1>2 DEF ToSet
<1> QED
    BY <1>1, <1>4, <1>5, <1>6

\* The rows of a file are rows, and their keys products.
LEMMA FileFacts ==
    ASSUME NEW f \in File
    PROVE  /\ Csv[f] \in Seq(Row)
           /\ \A r \in ToSet(Csv[f]) : r \in Row /\ r.key \in Product /\ r.document \in Document
           /\ {r.key : r \in ToSet(Csv[f])} \subseteq Product
<1>1. Csv[f] \in Seq(Row)
    OBVIOUS
<1>2. \A r \in ToSet(Csv[f]) : r \in Row
    BY <1>1 DEF ToSet
<1> QED
    BY <1>1, <1>2 DEF Row

LEMMA Markers == NoDocument \notin Document
OBVIOUS

\* An import that does nothing keeps its part of the invariant while the
\* products it holds stay, and it is told of the others that change.
LEMMA OthersKeep ==
    ASSUME NEW i \in Import, Progress(i), Reads(i),
           pc'[i] = pc[i], file'[i] = file[i], held'[i] = held[i], fresh'[i] = fresh[i],
           todo'[i] = todo[i], existing'[i] = existing[i], names'[i] = names[i],
           materials'[i] = materials[i], overtaken \subseteq overtaken',
           \A p \in Product : doc'[p] # doc[p] =>
               p \notin held[i] /\ (i \in ReadBefore(p) => <<i, p>> \in overtaken'),
           held[i] \subseteq Product
    PROVE  Progress(i)' /\ Reads(i)'
<1>1. KeysOf(i)' = KeysOf(i)
    BY DEF KeysOf, RowsOf
<1>2. Progress(i)'
    BY <1>1 DEF Progress, Created
<1>3. Reads(i)'
    <2> SUFFICES ASSUME NEW p \in Product, file[i] \in File, p \in KeysOf(i),
                        <<i, p>> \notin overtaken'
                 PROVE  /\ pc[i] \in {"readProducts", "readVariants", "upsert"} =>
                              (p \in existing[i] <=> Created(p)')
                        /\ pc[i] \in {"readVariants", "upsert"} /\ Created(p)' =>
                              names[i][p] = doc'[p].product
                        /\ pc[i] = "upsert" /\ Created(p)' => materials[i][p] = doc'[p].material
        BY <1>1 DEF Reads
    <2>1. pc[i] \in {"readProducts", "readVariants", "upsert"} => doc'[p] = doc[p]
        BY DEF ReadBefore
    <2>2. <<i, p>> \notin overtaken
        OBVIOUS
    <2> QED
        BY <2>1, <2>2 DEF Reads, Created
<1> QED
    BY <1>2, <1>3

\* A step of one import that leaves the catalogue alone.
LEMMA ImportStep ==
    ASSUME Inv, NEW i \in Import, UNCHANGED catalogVars, TypeOK', Progress(i)', Reads(i)',
           \A j \in Import \ {i} :
               /\ pc'[j] = pc[j] /\ file'[j] = file[j] /\ held'[j] = held[j]
               /\ fresh'[j] = fresh[j] /\ todo'[j] = todo[j] /\ existing'[j] = existing[j]
               /\ names'[j] = names[j] /\ materials'[j] = materials[j]
    PROVE  Inv'
<1>1. ASSUME NEW j \in Import \ {i} PROVE Progress(j)' /\ Reads(j)'
    BY OthersKeep DEF Inv, TypeOK, catalogVars
<1> QED
    BY <1>1 DEF Inv

LEMMA InitInv == Init => Inv
<1> SUFFICES ASSUME Init PROVE Inv
    OBVIOUS
<1>1. TypeOK
    <2>1. <<>> \in Seq(Row) /\ 0 \in 0..MaxFailures
        OBVIOUS
    <2>2. Cardinality(Product) \in Nat /\ 0 \in 0..Cardinality(Product)
        BY FS_CardinalityType
    <2> QED
        BY <2>1, <2>2 DEF Init, TypeOK, Nothing
<1>2. ASSUME NEW i \in Import PROVE Progress(i) /\ Reads(i)
    BY DEF Init, Progress, Reads
<1> QED
    BY <1>1, <1>2 DEF Inv

----------------------------------------------------------------------------
(* Steps of an import that leave the catalogue alone.                      *)

\* What the locals of the others are after a step of i.
OthersStay(i) ==
    \A j \in Import \ {i} :
        /\ pc'[j] = pc[j] /\ file'[j] = file[j] /\ held'[j] = held[j]
        /\ fresh'[j] = fresh[j] /\ todo'[j] = todo[j] /\ existing'[j] = existing[j]
        /\ names'[j] = names[j] /\ materials'[j] = materials[j]

\* An import outside its transaction's reads and writes has nothing to keep.
LEMMA OutsideStep ==
    ASSUME Inv, NEW i \in Import, UNCHANGED catalogVars, TypeOK', OthersStay(i),
           pc'[i] \notin {"readProducts", "readVariants", "upsert"}, held'[i] = {},
           pc'[i] \notin {"start", "done", "lost"} => file'[i] \in File
    PROVE  Inv'
<1>1. Progress(i)' /\ Reads(i)'
    BY DEF Progress, Reads
<1> QED
    BY <1>1, ImportStep DEF OthersStay

LEMMA EndFacts ==
    ASSUME Inv, NEW i \in Import, EndTransaction(i)
    PROVE  /\ existing' \in [Import -> SUBSET Product]
           /\ names' \in [Import -> [Product -> ProductPart \cup {NoDocument}]]
           /\ materials' \in [Import -> [Product -> Material \cup {NoDocument}]]
           /\ todo' \in [Import -> Seq(Row)]
           /\ held' \in [Import -> SUBSET Product] /\ held'[i] = {}
           /\ fresh' \in [Import -> SUBSET Product] /\ fresh'[i] = {}
           /\ \A j, k \in Import : j # k => held'[j] \cap held'[k] = {}
           /\ \A j \in Import : fresh'[j] \subseteq held'[j]
           /\ \A j \in Import \ {i} :
                 /\ held'[j] = held[j] /\ fresh'[j] = fresh[j] /\ todo'[j] = todo[j]
                 /\ existing'[j] = existing[j] /\ names'[j] = names[j]
                 /\ materials'[j] = materials[j]
<1>1. <<>> \in Seq(Row)
    OBVIOUS
<1>2. /\ Nothing \in [Product -> ProductPart \cup {NoDocument}]
      /\ Nothing \in [Product -> Material \cup {NoDocument}]
    BY DEF Nothing
<1>3. /\ existing' \in [Import -> SUBSET Product]
      /\ names' \in [Import -> [Product -> ProductPart \cup {NoDocument}]]
      /\ materials' \in [Import -> [Product -> Material \cup {NoDocument}]]
    BY <1>2 DEF EndTransaction, Inv, TypeOK
<1>4. /\ todo' \in [Import -> Seq(Row)]
      /\ held' \in [Import -> SUBSET Product] /\ held'[i] = {}
      /\ fresh' \in [Import -> SUBSET Product] /\ fresh'[i] = {}
    BY <1>1 DEF EndTransaction, Inv, TypeOK
<1>5. \A j \in Import \ {i} :
          /\ held'[j] = held[j] /\ fresh'[j] = fresh[j] /\ todo'[j] = todo[j]
          /\ existing'[j] = existing[j] /\ names'[j] = names[j] /\ materials'[j] = materials[j]
    BY DEF EndTransaction, Inv, TypeOK
<1>6. /\ \A j, k \in Import : j # k => held'[j] \cap held'[k] = {}
      /\ \A j \in Import : fresh'[j] \subseteq held'[j]
    <2>1. \A j \in Import : held'[j] \subseteq held[j]
        BY <1>4, <1>5
    <2>2. \A j, k \in Import : j # k => held[j] \cap held[k] = {}
        BY DEF Inv, TypeOK
    <2>3. \A j \in Import : fresh[j] \subseteq held[j]
        BY DEF Inv, TypeOK
    <2>4. \A j, k \in Import : j # k => held'[j] \cap held'[k] = {}
        BY <2>1, <2>2
    <2>5. ASSUME NEW j \in Import PROVE fresh'[j] \subseteq held'[j]
        <3>1. CASE j = i
            BY <1>4, <3>1
        <3>2. CASE j # i
            BY <1>5, <2>3, <3>2
        <3> QED
            BY <3>1, <3>2
    <2> QED
        BY <2>4, <2>5
<1> QED
    BY <1>3, <1>4, <1>5, <1>6

LEMMA RecordStep ==
    ASSUME Inv, NEW i \in Import,
           (\E f \in File : Start(i, f)) \/ BeginValidation(i) \/ Validate(i) \/ MarkFailed(i)
    PROVE  Inv'
<1>1. /\ UNCHANGED <<catalogVars, readVars, writeVars, created>>
      /\ pc[i] \in {"start", "begin", "validate", "reject", "recover"}
    BY DEF Start, BeginValidation, Validate, MarkFailed, recordVars
<1>2. /\ pc' \in [Import -> Phase] /\ pc'[i] \notin {"readProducts", "readVariants", "upsert"}
      /\ \A j \in Import \ {i} : pc'[j] = pc[j]
    BY DEF Start, BeginValidation, Validate, MarkFailed, GoTo, Phase, Inv, TypeOK
<1>3. /\ file' \in [Import -> File \cup {NoFile}]
      /\ pc'[i] \notin {"start", "done", "lost"} => file'[i] \in File
      /\ \A j \in Import \ {i} : file'[j] = file[j]
    <2>1. CASE \E f \in File : Start(i, f)
        BY <2>1 DEF Start, Inv, TypeOK
    <2>2. CASE BeginValidation(i) \/ Validate(i)
        <3>1. file' = file /\ pc[i] \in {"begin", "validate"}
            BY <2>2 DEF BeginValidation, Validate, recordVars
        <3> QED
            BY <3>1 DEF Inv, TypeOK, Progress
    <2>3. CASE MarkFailed(i)
        <3>1. pc'[i] \in {"done", "lost"}
            BY <2>3 DEF MarkFailed, GoTo, Inv, TypeOK
        <3>2. file' = [file EXCEPT ![i] = NoFile]
            BY <2>3 DEF MarkFailed
        <3> QED
            BY <3>1, <3>2 DEF Inv, TypeOK
    <2> QED
        BY <2>1, <2>2, <2>3
<1>4. status' \in [Import -> {"absent", "pending", "validating", "completed", "failed"}]
    <2>1. \/ status' = status
          \/ status' = [status EXCEPT ![i] = "pending"]
          \/ status' = [status EXCEPT ![i] = "validating"]
          \/ status' = [status EXCEPT ![i] = "failed"]
        BY DEF Start, BeginValidation, Validate, MarkFailed, recordVars
    <2>2. status \in [Import -> {"absent", "pending", "validating", "completed", "failed"}]
        BY DEF Inv, TypeOK
    <2> QED
        BY <2>1, <2>2
<1>5. failures' \in 0..MaxFailures
    BY DEF Start, BeginValidation, Validate, MarkFailed, Failing, Inv, TypeOK
<1>6. TypeOK'
    BY <1>1, <1>2, <1>3, <1>4, <1>5
       DEF Inv, TypeOK, Phase, catalogVars, readVars, writeVars
<1>7. held'[i] = {}
    BY <1>1 DEF Inv, Progress, writeVars
<1> QED
    BY <1>1, <1>2, <1>3, <1>6, <1>7, OutsideStep DEF OthersStay, readVars, writeVars

\* Rollbacks, and the end of the process.
LEMMA RollbackStep ==
    ASSUME Inv, NEW i \in Import, Abort(i) \/ AbortDeadlocked(i) \/ Crash(i)
    PROVE  Inv'
<1>1. UNCHANGED <<catalogVars, status, created>> /\ EndTransaction(i)
    BY DEF Abort, AbortDeadlocked, Crash, recordVars
<1>2. /\ pc' \in [Import -> Phase] /\ pc'[i] \in {"recover", "lost"}
      /\ \A j \in Import \ {i} : pc'[j] = pc[j]
    <2>1. pc' = [pc EXCEPT ![i] = "recover"] \/ pc' = [pc EXCEPT ![i] = "lost"]
        BY DEF Abort, AbortDeadlocked, Crash, GoTo
    <2>2. pc \in [Import -> Phase]
        BY DEF Phase, Inv, TypeOK
    <2> QED
        BY <2>1, <2>2 DEF Phase
<1>3. pc'[i] = "recover" => file' = file /\ file[i] \in File
    <2>1. CASE Abort(i)
        BY <2>1 DEF Abort, Mutating, Inv, Progress, recordVars
    <2>2. CASE AbortDeadlocked(i)
        <3>1. pc[i] = "upsert"
            BY <2>2 DEF AbortDeadlocked, Deadlocked, WaitsFor
        <3> QED
            BY <2>2, <3>1 DEF AbortDeadlocked, Inv, Progress, recordVars
    <2>3. CASE Crash(i)
        <3>1. pc'[i] = "lost"
            BY <2>3 DEF Crash, GoTo, Inv, TypeOK
        <3> QED
            BY <3>1
    <2> QED
        BY <2>1, <2>2, <2>3
<1>4. file' \in [Import -> File \cup {NoFile}] /\ \A j \in Import \ {i} : file'[j] = file[j]
    <2>1. file' = file \/ file' = [file EXCEPT ![i] = NoFile]
        BY DEF Abort, AbortDeadlocked, Crash, recordVars
    <2>2. file \in [Import -> File \cup {NoFile}]
        BY DEF Inv, TypeOK
    <2> QED
        BY <2>1, <2>2
<1>5. failures' \in 0..MaxFailures
    BY DEF Abort, AbortDeadlocked, Crash, Failing, Inv, TypeOK
<1>6. TypeOK'
    BY <1>1, <1>2, <1>4, <1>5, EndFacts DEF Inv, TypeOK, Phase, catalogVars
<1>7. OthersStay(i) /\ held'[i] = {}
    BY <1>1, <1>2, <1>4, EndFacts DEF OthersStay
<1> QED
    BY <1>1, <1>2, <1>3, <1>6, <1>7, OutsideStep

----------------------------------------------------------------------------
(* The reads and the upsert.                                               *)

LEMMA ReadKeysStep ==
    ASSUME Inv, NEW i \in Import, ReadKeys(i)
    PROVE  Inv'
<1>1. /\ UNCHANGED <<catalogVars, recordVars, names, materials, writeVars, failures>>
      /\ pc[i] = "readKeys" /\ pc' = [pc EXCEPT ![i] = "readProducts"]
      /\ existing' = [existing EXCEPT ![i] = {p \in Product : Created(p)}]
    BY DEF ReadKeys, GoTo
<1>2. TypeOK'
    BY <1>1 DEF Inv, TypeOK, catalogVars, recordVars, writeVars
<1>3. /\ pc'[i] = "readProducts" /\ existing'[i] = {p \in Product : Created(p)}
      /\ \A j \in Import \ {i} : pc'[j] = pc[j] /\ existing'[j] = existing[j]
    BY <1>1 DEF Inv, TypeOK
<1>4. Progress(i)'
    BY <1>1, <1>3 DEF Inv, Progress, recordVars, writeVars
<1>5. Reads(i)'
    BY <1>1, <1>3 DEF Reads, Created, catalogVars
<1> QED
    BY <1>1, <1>2, <1>3, <1>4, <1>5, ImportStep DEF recordVars, writeVars

LEMMA ReadProductsStep ==
    ASSUME Inv, NEW i \in Import, ReadProducts(i)
    PROVE  Inv'
<1> DEFINE read == [p \in Product |-> IF Created(p) THEN doc[p].product ELSE NoDocument]
<1>1. /\ UNCHANGED <<catalogVars, recordVars, existing, materials, writeVars, failures>>
      /\ pc[i] = "readProducts" /\ pc' = [pc EXCEPT ![i] = "readVariants"]
      /\ names' = [names EXCEPT ![i] = read]
    BY DEF ReadProducts, GoTo
<1>2. \A p \in Product : Created(p) => doc[p] \in Document /\ doc[p].product \in ProductPart
    BY DEF Inv, TypeOK, Created, Document
<1>3. read \in [Product -> ProductPart \cup {NoDocument}]
    BY <1>2
<1>4. \A p \in Product : Created(p) => read[p] = doc[p].product
    OBVIOUS
<1> HIDE DEF read
<1>5. TypeOK'
    BY <1>1, <1>3 DEF Inv, TypeOK, catalogVars, recordVars, writeVars
<1>6. /\ pc'[i] = "readVariants" /\ names'[i] = read
      /\ \A j \in Import \ {i} : pc'[j] = pc[j] /\ names'[j] = names[j]
    BY <1>1 DEF Inv, TypeOK
<1>7. Progress(i)'
    BY <1>1, <1>6 DEF Inv, Progress, recordVars, writeVars
<1>8. KeysOf(i)' = KeysOf(i) /\ doc' = doc /\ overtaken' = overtaken /\ file' = file
    BY <1>1 DEF KeysOf, RowsOf, recordVars, catalogVars
<1>9. Reads(i)'
    BY <1>1, <1>4, <1>6, <1>8 DEF Inv, Reads, Created
<1> QED
    BY <1>1, <1>5, <1>6, <1>7, <1>9, ImportStep DEF recordVars, writeVars

LEMMA ReadVariantsStep ==
    ASSUME Inv, NEW i \in Import, ReadVariants(i)
    PROVE  Inv'
<1> DEFINE read == [p \in Product |-> IF Created(p) THEN doc[p].material ELSE NoDocument]
<1>1. /\ UNCHANGED <<catalogVars, recordVars, existing, names, held, fresh, failures>>
      /\ pc[i] = "readVariants" /\ pc' = [pc EXCEPT ![i] = "upsert"]
      /\ materials' = [materials EXCEPT ![i] = read]
      /\ todo' = [todo EXCEPT ![i] = RowsOf(i)]
    BY DEF ReadVariants, GoTo
<1>2. \A p \in Product : Created(p) => doc[p] \in Document /\ doc[p].material \in Material
    BY DEF Inv, TypeOK, Created, Document
<1>3. read \in [Product -> Material \cup {NoDocument}]
    BY <1>2
<1>4. \A p \in Product : Created(p) => read[p] = doc[p].material
    OBVIOUS
<1> HIDE DEF read
<1>5. file[i] \in File /\ RowsOf(i) \in Seq(Row) /\ held[i] = {}
    BY <1>1, FileFacts DEF Inv, Progress, RowsOf
<1>6. TypeOK'
    BY <1>1, <1>3, <1>5 DEF Inv, TypeOK, catalogVars, recordVars
<1>7. /\ pc'[i] = "upsert" /\ materials'[i] = read /\ todo'[i] = RowsOf(i)
      /\ \A j \in Import \ {i} :
            pc'[j] = pc[j] /\ materials'[j] = materials[j] /\ todo'[j] = todo[j]
    BY <1>1 DEF Inv, TypeOK
<1>8. KeysOf(i)' = KeysOf(i) /\ doc' = doc /\ overtaken' = overtaken /\ file' = file
      /\ held' = held /\ fresh' = fresh
    BY <1>1 DEF KeysOf, RowsOf, recordVars, catalogVars
<1>9. Progress(i)'
    BY <1>5, <1>7, <1>8 DEF Progress, KeysOf
<1>10. Reads(i)'
    BY <1>1, <1>4, <1>7, <1>8 DEF Inv, Reads, Created
<1> QED
    BY <1>1, <1>6, <1>7, <1>9, <1>10, ImportStep DEF recordVars

\* The row lock: nobody else has the product (importer.py:309).
LEMMA UpsertStep ==
    ASSUME Inv, NEW i \in Import, UpsertProduct(i)
    PROVE  Inv'
<1>1. PICK s \in Seq(Row) : s = todo[i] /\ s # <<>>
    BY DEF Inv, TypeOK, UpsertProduct
<1>2. PICK p : p = Head(s).key
    OBVIOUS
<1>3. /\ Tail(s) \in Seq(Row) /\ Head(s) \in Row
      /\ ToSet(s) = {Head(s)} \cup ToSet(Tail(s))
    BY <1>1, HeadAndTail
<1>4. p \in Product
    BY <1>2, <1>3 DEF Row
<1>5. \A j \in Import \ {i} : p \notin held[j]
    BY <1>1, <1>2 DEF UpsertProduct, WaitsFor
<1>6. /\ UNCHANGED <<catalogVars, recordVars, pc, readVars, failures>>
      /\ pc[i] = "upsert"
      /\ held' = [held EXCEPT ![i] = @ \cup {p}]
      /\ fresh' = [fresh EXCEPT ![i] = IF Created(p) THEN @ ELSE @ \cup {p}]
      /\ todo' = [todo EXCEPT ![i] = Tail(s)]
    BY <1>1, <1>2 DEF UpsertProduct
<1>7. /\ held' \in [Import -> SUBSET Product] /\ held'[i] = held[i] \cup {p}
      /\ fresh' \in [Import -> SUBSET Product]
      /\ fresh'[i] = IF Created(p) THEN fresh[i] ELSE fresh[i] \cup {p}
      /\ todo' \in [Import -> Seq(Row)] /\ todo'[i] = Tail(s)
      /\ \A j \in Import \ {i} : held'[j] = held[j] /\ fresh'[j] = fresh[j] /\ todo'[j] = todo[j]
    BY <1>3, <1>4, <1>6 DEF Inv, TypeOK
<1>8. TypeOK'
    <2>1. \A j, k \in Import : j # k => held[j] \cap held[k] = {}
        BY DEF Inv, TypeOK
    <2>2. \A j \in Import : fresh[j] \subseteq held[j]
        BY DEF Inv, TypeOK
    <2>3. ASSUME NEW j \in Import, NEW k \in Import, j # k
          PROVE  held'[j] \cap held'[k] = {}
        <3>1. CASE j # i /\ k # i
            BY <1>7, <2>1, <2>3, <3>1
        <3>2. CASE j = i
            <4>1. held'[k] = held[k] /\ p \notin held[k] /\ held[i] \cap held[k] = {}
                BY <1>5, <1>7, <2>1, <2>3, <3>2
            <4> QED
                BY <1>7, <3>2, <4>1
        <3>3. CASE k = i
            <4>1. held'[j] = held[j] /\ p \notin held[j] /\ held[i] \cap held[j] = {}
                BY <1>5, <1>7, <2>1, <2>3, <3>3
            <4> QED
                BY <1>7, <3>3, <4>1
        <3> QED
            BY <3>1, <3>2, <3>3
    <2>4. \A j \in Import : fresh'[j] \subseteq held'[j]
        BY <1>7, <2>2
    <2> QED
        BY <1>6, <1>7, <2>3, <2>4 DEF Inv, TypeOK, catalogVars, recordVars, readVars
<1>9. KeysOf(i)' = KeysOf(i) /\ doc' = doc /\ overtaken' = overtaken /\ file' = file /\ pc' = pc
    BY <1>6 DEF KeysOf, RowsOf, recordVars, catalogVars
<1>10. Progress(i)'
    <2>1. held'[i] \cup {r.key : r \in ToSet(todo'[i])} = KeysOf(i)
        <3>1. {r.key : r \in ToSet(s)} = {p} \cup {r.key : r \in ToSet(Tail(s))}
            BY <1>2, <1>3
        <3>2. held[i] \cup {r.key : r \in ToSet(s)} = KeysOf(i)
            BY <1>1, <1>6 DEF Inv, Progress
        <3> QED
            BY <1>7, <3>1, <3>2
    <2>2. \A q \in held'[i] : q \in fresh'[i] <=> ~Created(q)
        BY <1>7 DEF Inv, Progress, TypeOK
    <2>3. file[i] \in File
        BY <1>6 DEF Inv, Progress
    <2> QED
        BY <1>6, <1>9, <2>1, <2>2, <2>3 DEF Progress, Created
<1>11. Reads(i)'
    BY <1>6, <1>9 DEF Inv, Reads, Created, readVars
<1> QED
    BY <1>6, <1>7, <1>8, <1>10, <1>11, ImportStep DEF recordVars, readVars

----------------------------------------------------------------------------
(* Steps that change the catalogue.                                        *)

\* The marker of overtaken products grows by pairs of an import and a product.
LEMMA OvertakeFacts ==
    ASSUME Inv, NEW S \in SUBSET Product, Overtake(S)
    PROVE  /\ overtaken \subseteq overtaken' /\ overtaken' \subseteq Import \X Product
           /\ \A i \in Import, p \in S : i \in ReadBefore(p) => <<i, p>> \in overtaken'
<1>1. \A p \in S : ReadBefore(p) \X {p} \subseteq Import \X Product
    BY DEF ReadBefore
<1> QED
    BY <1>1 DEF Overtake, Inv, TypeOK

\* The API: the product is free, and one task is scheduled with the change.
LEMMA ApiFacts ==
    ASSUME Inv, NEW p \in Product, NEW d \in Document, CreateProduct(p, d) \/ PatchProduct(p, d)
    PROVE  /\ doc' \in [Product -> Document \cup {NoDocument}]
           /\ scheduled' \in [Product -> Nat] /\ scheduled'[p] = scheduled[p] + 1
           /\ \A q \in Product \ {p} : doc'[q] = doc[q]
           /\ \A i \in Import : p \notin held[i]
           /\ Overtake({p})
           /\ UNCHANGED <<recordVars, pc, readVars, writeVars, failures>>
<1>1. /\ doc' = [doc EXCEPT ![p] = d] /\ scheduled' = [scheduled EXCEPT ![p] = @ + 1]
      /\ Free(p) /\ Overtake({p})
      /\ UNCHANGED <<recordVars, pc, readVars, writeVars, failures>>
    BY DEF CreateProduct, PatchProduct
<1>2. doc \in [Product -> Document \cup {NoDocument}] /\ scheduled \in [Product -> Nat]
    BY DEF Inv, TypeOK
<1> QED
    BY <1>1, <1>2 DEF Free

LEMMA ApiStep ==
    ASSUME Inv, NEW p \in Product, NEW d \in Document, CreateProduct(p, d) \/ PatchProduct(p, d)
    PROVE  Inv'
<1>1. /\ overtaken \subseteq overtaken' /\ overtaken' \subseteq Import \X Product
      /\ \A i \in Import : i \in ReadBefore(p) => <<i, p>> \in overtaken'
    BY ApiFacts, OvertakeFacts
<1>2. TypeOK'
    <2>1. /\ doc' \in [Product -> Document \cup {NoDocument}]
          /\ scheduled' \in [Product -> Nat]
          /\ UNCHANGED <<recordVars, pc, readVars, writeVars, failures>>
        BY ApiFacts
    <2> QED
        BY <1>1, <2>1 DEF Inv, TypeOK, recordVars, readVars, writeVars
<1>3. ASSUME NEW i \in Import PROVE Progress(i)' /\ Reads(i)'
    <2>1. \A q \in Product : doc'[q] # doc[q] =>
              q \notin held[i] /\ (i \in ReadBefore(q) => <<i, q>> \in overtaken')
        BY <1>1, ApiFacts
    <2>2. held[i] \subseteq Product /\ Progress(i) /\ Reads(i)
        BY DEF Inv, TypeOK
    <2>3. UNCHANGED <<recordVars, pc, readVars, writeVars, failures>>
        BY ApiFacts
    <2> QED
        BY <1>1, <2>1, <2>2, <2>3, OthersKeep DEF recordVars, readVars, writeVars
<1> QED
    BY <1>2, <1>3 DEF Inv

\* The commit of an import: the file, the tasks and the statistics.  All its
\* products are locked by it.
LEMMA CommitFacts ==
    ASSUME Inv, NEW i \in Import, Commit(i)
    PROVE  /\ file[i] \in File /\ pc[i] = "upsert"
           /\ held[i] = KeysOf(i) /\ KeysOf(i) \subseteq Product
           /\ doc' = Applied(i) /\ doc' \in [Product -> Document \cup {NoDocument}]
           /\ \A p \in Product \ KeysOf(i) : doc'[p] = doc[p]
           /\ \A p \in KeysOf(i) : \E r \in ToSet(RowsOf(i)) :
                 r.key = p /\ r \in Row /\ doc'[p] = r.document
<1>1. file[i] \in File /\ pc[i] = "upsert" /\ todo[i] = <<>> /\ doc' = Applied(i)
    BY DEF Commit, Inv, Progress
<1>2. {r.key : r \in ToSet(todo[i])} = {}
    BY <1>1 DEF ToSet
<1>3. held[i] = KeysOf(i) /\ KeysOf(i) \subseteq Product
    BY <1>1, <1>2, FileFacts DEF Inv, Progress, KeysOf, RowsOf
<1>4. ASSUME NEW p \in KeysOf(i)
      PROVE  \E r \in ToSet(RowsOf(i)) : r.key = p /\ r \in Row /\ Applied(i)[p] = r.document
    <2>1. \E r \in ToSet(RowsOf(i)) : r.key = p
        BY DEF KeysOf
    <2>2. PICK r : r = CHOOSE row \in ToSet(RowsOf(i)) : row.key = p
        OBVIOUS
    <2>3. r \in ToSet(RowsOf(i)) /\ r.key = p
        BY <2>1, <2>2
    <2>4. r \in Row
        BY <1>1, <2>3, FileFacts DEF RowsOf
    <2>5. Applied(i)[p] = r.document
        BY <1>3, <2>2 DEF Applied
    <2> QED
        BY <2>3, <2>4, <2>5
<1>5. \A p \in Product \ KeysOf(i) : Applied(i)[p] = doc[p]
    BY DEF Applied
<1>6. Applied(i) \in [Product -> Document \cup {NoDocument}]
    <2>1. ASSUME NEW p \in Product PROVE Applied(i)[p] \in Document \cup {NoDocument}
        <3>1. CASE p \in KeysOf(i)
            BY <1>4, <3>1 DEF Row
        <3>2. CASE p \notin KeysOf(i)
            BY <1>5, <3>2 DEF Inv, TypeOK
        <3> QED
            BY <3>1, <3>2
    <2>2. Applied(i) = [p \in Product |-> Applied(i)[p]]
        BY DEF Applied
    <2> QED
        BY <2>1, <2>2
<1> QED
    BY <1>1, <1>3, <1>4, <1>5, <1>6

LEMMA CommitStep ==
    ASSUME Inv, NEW i \in Import, Commit(i)
    PROVE  Inv'
<1> DEFINE changed == {r.key : r \in {r \in ToSet(RowsOf(i)) : Changed(i, r)}}
           moved == {p \in Product : Applied(i)[p] # doc[p]}
<1>1. EndTransaction(i) /\ UNCHANGED failures /\ Overtake(moved)
    BY DEF Commit
<1>2. /\ overtaken \subseteq overtaken' /\ overtaken' \subseteq Import \X Product
      /\ \A j \in Import, p \in moved : j \in ReadBefore(p) => <<j, p>> \in overtaken'
    <2>1. moved \in SUBSET Product
        OBVIOUS
    <2> HIDE DEF moved
    <2> QED
        BY <1>1, <2>1, OvertakeFacts
<1>3. scheduled' \in [Product -> Nat]
    <2>1. scheduled' = [p \in Product |-> scheduled[p] + IF p \in changed THEN 1 ELSE 0]
        BY DEF Commit
    <2> HIDE DEF changed
    <2>2. \A p \in Product : scheduled[p] \in Nat
        BY DEF Inv, TypeOK
    <2>3. \A p \in Product : scheduled[p] + (IF p \in changed THEN 1 ELSE 0) \in Nat
        BY <2>2
    <2> QED
        BY <2>1, <2>3
<1>4. created' \in [Import -> 0..Cardinality(Product)]
    <2>1. KeysOf(i) \ existing[i] \subseteq Product
        BY CommitFacts
    <2>2. /\ CountCreated(i) \in Nat /\ CountCreated(i) <= Cardinality(Product)
          /\ Cardinality(Product) \in Nat
        BY <2>1, FS_Subset, FS_CardinalityType DEF CountCreated
    <2>3. CountCreated(i) \in 0..Cardinality(Product)
        BY <2>2
    <2> QED
        BY <2>3 DEF Commit, Inv, TypeOK
<1>5. /\ pc' \in [Import -> Phase] /\ pc'[i] = "done"
      /\ file' \in [Import -> File \cup {NoFile}]
      /\ status' \in [Import -> {"absent", "pending", "validating", "completed", "failed"}]
      /\ \A j \in Import \ {i} : pc'[j] = pc[j] /\ file'[j] = file[j]
    BY DEF Commit, GoTo, Phase, Inv, TypeOK
<1>6. TypeOK'
    BY <1>1, <1>2, <1>3, <1>4, <1>5, CommitFacts, EndFacts DEF Inv, TypeOK, Phase
<1>7. Progress(i)' /\ Reads(i)'
    BY <1>1, <1>5, EndFacts DEF Progress, Reads
<1>8. ASSUME NEW j \in Import \ {i} PROVE Progress(j)' /\ Reads(j)'
    <2>1. ASSUME NEW p \in Product, doc'[p] # doc[p]
          PROVE  p \notin held[j] /\ (j \in ReadBefore(p) => <<j, p>> \in overtaken')
        <3>1. p \in held[i] /\ p \in moved
            BY <2>1, CommitFacts
        <3> QED
            BY <1>2, <3>1 DEF Inv, TypeOK
    <2>2. held[j] \subseteq Product /\ Progress(j) /\ Reads(j)
        BY DEF Inv, TypeOK
    <2>3. /\ held'[j] = held[j] /\ fresh'[j] = fresh[j] /\ todo'[j] = todo[j]
          /\ existing'[j] = existing[j] /\ names'[j] = names[j]
          /\ materials'[j] = materials[j] /\ pc'[j] = pc[j] /\ file'[j] = file[j]
        BY <1>1, <1>5, EndFacts
    <2>4. overtaken \subseteq overtaken'
        BY <1>2
    <2> QED
        BY <2>1, <2>2, <2>3, <2>4, OthersKeep
<1> QED
    BY <1>6, <1>7, <1>8 DEF Inv

LEMMA StutterStep ==
    ASSUME Inv, UNCHANGED vars
    PROVE  Inv'
<1>1. TypeOK'
    BY DEF Inv, TypeOK, vars, catalogVars, recordVars, readVars, writeVars
<1>2. ASSUME NEW j \in Import PROVE Progress(j)' /\ Reads(j)'
    <2>1. held[j] \subseteq Product /\ Progress(j) /\ Reads(j)
        BY DEF Inv, TypeOK
    <2> QED
        BY <2>1, OthersKeep DEF vars, catalogVars, recordVars, readVars, writeVars
<1> QED
    BY <1>1, <1>2 DEF Inv

LEMMA NextInv == Inv /\ [Next]_vars => Inv'
<1> SUFFICES ASSUME Inv, [Next]_vars PROVE Inv'
    OBVIOUS
<1>1. CASE UNCHANGED vars
    BY <1>1, StutterStep
<1>2. CASE \E p \in Product, d \in Document : CreateProduct(p, d) \/ PatchProduct(p, d)
    BY <1>2, ApiStep
<1>3. CASE \E i \in Import, f \in File : Start(i, f)
    BY <1>3, RecordStep
<1>4. CASE \E i \in Import : Run(i) \/ Abort(i) \/ Crash(i)
    BY <1>4, RecordStep, ReadKeysStep, ReadProductsStep, ReadVariantsStep, UpsertStep, CommitStep,
       RollbackStep DEF Run
<1> QED
    BY <1>1, <1>2, <1>3, <1>4 DEF Next

LEMMA Invariance == Spec => []Inv
BY InitInv, NextInv, PTL DEF Spec

\* Types are kept, and no product is locked by two imports (importer.py:309).
THEOREM ImportTypeCorrect == Spec => []TypeOK
<1>1. Inv => TypeOK
    BY DEF Inv
<1> QED
    BY <1>1, Invariance, PTL

\* The catalogue changes by the API, one product with one task, or by a commit.
LEMMA CatalogChanges ==
    ASSUME Inv, [Next]_vars
    PROVE  \/ doc' = doc /\ UNCHANGED status
           \/ doc' = doc /\ \A i \in Import : status'[i] = "completed" => status[i] = "completed"
           \/ \E p \in Product, d \in Document : CreateProduct(p, d) \/ PatchProduct(p, d)
           \/ \E i \in Import : Commit(i)
<1>1. CASE \E i \in Import : UpsertProduct(i) \/ ReadKeys(i) \/ ReadProducts(i) \/ ReadVariants(i)
    BY <1>1 DEF UpsertProduct, ReadKeys, ReadProducts, ReadVariants, catalogVars, recordVars
<1>2. CASE \E i \in Import : AbortDeadlocked(i) \/ Abort(i) \/ Crash(i)
    BY <1>2 DEF AbortDeadlocked, Abort, Crash, catalogVars, recordVars
<1>3. CASE \E i \in Import : Validate(i)
    BY <1>3 DEF Validate, catalogVars, recordVars
<1>4. ASSUME NEW i \in Import, (\E f \in File : Start(i, f)) \/ BeginValidation(i) \/ MarkFailed(i)
      PROVE  doc' = doc /\ \A j \in Import : status'[j] = "completed" => status[j] = "completed"
    <2>1. \/ status' = status
          \/ status' = [status EXCEPT ![i] = "pending"]
          \/ status' = [status EXCEPT ![i] = "validating"]
          \/ status' = [status EXCEPT ![i] = "failed"]
        BY <1>4 DEF Start, BeginValidation, MarkFailed
    <2>2. status \in [Import -> {"absent", "pending", "validating", "completed", "failed"}]
        BY DEF Inv, TypeOK
    <2>3. doc' = doc
        BY <1>4 DEF Start, BeginValidation, MarkFailed, catalogVars
    <2> QED
        BY <2>1, <2>2, <2>3
<1>5. CASE UNCHANGED vars
    BY <1>5 DEF vars, catalogVars, recordVars
<1> QED
    BY <1>1, <1>2, <1>3, <1>4, <1>5 DEF Next, Run

\* What an import has upserted changes with its commit only, which applies the
\* file (importer.py:309).
LEMMA HeldChangesByCommit ==
    ASSUME Inv, [Next]_vars, NEW i \in Import, NEW p \in held[i] \cup held'[i], doc'[p] # doc[p]
    PROVE  status'[i] = "completed" /\ doc' = Applied(i)
<1>1. ASSUME NEW q \in Product, NEW d \in Document, CreateProduct(q, d) \/ PatchProduct(q, d)
      PROVE  FALSE
    <2>1. UNCHANGED writeVars /\ q \notin held[i] /\ \A r \in Product \ {q} : doc'[r] = doc[r]
        BY <1>1, ApiFacts
    <2>2. p \in held[i] /\ p \in Product
        BY <2>1 DEF writeVars, Inv, TypeOK
    <2> QED
        BY <2>1, <2>2
<1>2. ASSUME NEW j \in Import, Commit(j)
      PROVE  status'[i] = "completed" /\ doc' = Applied(i)
    <2>1. EndTransaction(j)
        BY <1>2 DEF Commit
    <2>2. held'[i] \subseteq held[i]
        BY <2>1, EndFacts
    <2>3. p \in held[j]
        BY <1>2, <2>2, CommitFacts DEF Inv, TypeOK
    <2>4. i = j
        BY <2>2, <2>3 DEF Inv, TypeOK
    <2>5. status'[j] = "completed"
        BY <1>2 DEF Commit, Inv, TypeOK
    <2> QED
        BY <1>2, <2>4, <2>5, CommitFacts
<1> QED
    BY <1>1, <1>2, CatalogChanges

\* Files are applied whole, under locks (importer.py:309).
THEOREM WholeImports == Spec => ImportsAreWhole
<1>1. Inv /\ [Next]_vars =>
          [\A i \in Import :
              (\E p \in held[i] \cup held'[i] : doc'[p] # doc[p]) =>
                  status'[i] = "completed" /\ doc' = Applied(i)]_vars
    BY HeldChangesByCommit
<1> QED
    BY <1>1, Invariance, PTL DEF Spec, ImportsAreWhole

\* The row of a product the commit changes counts as changed, if what was read
\* of the product is what it was.
LEMMA CommitSchedules ==
    ASSUME Inv, NEW i \in Import, Commit(i), NEW p \in Product, doc'[p] # doc[p],
           <<i, p>> \notin overtaken
    PROVE  scheduled'[p] > scheduled[p]
<1> DEFINE changed == {r.key : r \in {r \in ToSet(RowsOf(i)) : Changed(i, r)}}
<1>1. p \in KeysOf(i) /\ file[i] \in File /\ pc[i] = "upsert"
    BY CommitFacts
<1>2. PICK r \in ToSet(RowsOf(i)) : r.key = p /\ r \in Row /\ doc'[p] = r.document
    BY <1>1, CommitFacts
<1>3. /\ p \in existing[i] <=> Created(p)
      /\ Created(p) => names[i][p] = doc[p].product /\ materials[i][p] = doc[p].material
    BY <1>1 DEF Inv, Reads
<1>4. Changed(i, r)
    <2>1. CASE ~Created(p)
        BY <1>2, <1>3, <2>1 DEF Changed
    <2>2. CASE Created(p)
        <3>1. doc[p] \in Document /\ r.document \in Document /\ doc[p] # r.document
            BY <1>2, <2>2 DEF Inv, TypeOK, Created, Row
        <3>2. doc[p].product # r.document.product \/ doc[p].material # r.document.material
            BY <3>1 DEF Document
        <3> QED
            BY <1>2, <1>3, <2>2, <3>2 DEF Changed
    <2> QED
        BY <2>1, <2>2
<1>5. p \in changed
    BY <1>2, <1>4
<1>6. scheduled' = [q \in Product |-> scheduled[q] + IF q \in changed THEN 1 ELSE 0]
    BY DEF Commit
<1> HIDE DEF changed
<1>7. scheduled[p] \in Nat
    BY DEF Inv, TypeOK
<1> QED
    BY <1>5, <1>6, <1>7

\* Whatever changes the text of a product schedules a task for it, except for
\* imports that were overtaken (importer.py:307).
THEOREM ChangesScheduled == Spec => ChangesAreScheduled
<1>1. ASSUME Inv, [Next]_vars, NEW p \in Product, doc'[p] # doc[p]
      PROVE  scheduled'[p] > scheduled[p] \/ \E i \in Import : <<i, p>> \in overtaken
    <2>1. ASSUME NEW q \in Product, NEW d \in Document, CreateProduct(q, d) \/ PatchProduct(q, d)
          PROVE  scheduled'[p] > scheduled[p]
        <3>1. q = p /\ scheduled'[q] = scheduled[q] + 1
            BY <1>1, <2>1, ApiFacts
        <3>2. scheduled[p] \in Nat
            BY <1>1 DEF Inv, TypeOK
        <3> QED
            BY <3>1, <3>2
    <2> QED
        BY <1>1, <2>1, CatalogChanges, CommitSchedules
<1>2. Inv /\ [Next]_vars =>
          [\A p \in Product :
              doc'[p] # doc[p] =>
                  \/ scheduled'[p] > scheduled[p]
                  \/ \E i \in Import : <<i, p>> \in overtaken]_vars
    BY <1>1
<1> QED
    BY <1>2, Invariance, PTL DEF Spec, ChangesAreScheduled

\* The keys that were not there when they were read are those the upsert
\* inserted (importer.py:336).
LEMMA CommitCounts ==
    ASSUME Inv, NEW i \in Import, Commit(i), \A p \in Product : <<i, p>> \notin overtaken
    PROVE  created'[i] = Cardinality(fresh[i])
<1>1. /\ file[i] \in File /\ pc[i] = "upsert" /\ held[i] = KeysOf(i)
      /\ KeysOf(i) \subseteq Product
    BY CommitFacts
<1>2. \A p \in KeysOf(i) : p \in fresh[i] <=> ~Created(p)
    BY <1>1 DEF Inv, Progress
<1>3. \A p \in KeysOf(i) : p \in existing[i] <=> Created(p)
    BY <1>1 DEF Inv, Reads
<1>4. fresh[i] \subseteq KeysOf(i)
    BY <1>1 DEF Inv, TypeOK
<1>5. KeysOf(i) \ existing[i] = fresh[i]
    BY <1>2, <1>3, <1>4
<1>6. CountCreated(i) = Cardinality(fresh[i])
    BY <1>5 DEF CountCreated
<1>7. /\ created' = [created EXCEPT ![i] = CountCreated(i)]
      /\ i \in DOMAIN created
    BY DEF Commit, Inv, TypeOK
<1> QED
    BY <1>6, <1>7

\* An import reports as many created products as it inserted, unless it was
\* overtaken (importer.py:336).
THEOREM StatisticsExact == Spec => StatisticsAreExact
<1>1. ASSUME Inv, [Next]_vars, NEW i \in Import, status[i] # "completed", status'[i] = "completed"
      PROVE  created'[i] = Cardinality(fresh[i]) \/ \E p \in Product : <<i, p>> \in overtaken
    <2>1. ASSUME NEW q \in Product, NEW d \in Document, CreateProduct(q, d) \/ PatchProduct(q, d)
          PROVE  FALSE
        BY <1>1, <2>1, ApiFacts DEF recordVars
    <2>2. ASSUME NEW j \in Import, Commit(j)
          PROVE  j = i
        <3>1. \A k \in Import \ {j} : status'[k] = status[k]
            BY <1>1, <2>2 DEF Commit, Inv, TypeOK
        <3> QED
            BY <1>1, <3>1
    <2> QED
        BY <1>1, <2>1, <2>2, CatalogChanges, CommitCounts
<1>2. Inv /\ [Next]_vars =>
          [\A i \in Import :
              status[i] # "completed" /\ status'[i] = "completed" =>
                  \/ created'[i] = Cardinality(fresh[i])
                  \/ \E p \in Product : <<i, p>> \in overtaken]_vars
    BY <1>1
<1> QED
    BY <1>2, Invariance, PTL DEF Spec, StatisticsAreExact
=============================================================================
