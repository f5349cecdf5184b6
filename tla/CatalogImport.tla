--------------------------- MODULE CatalogImport ---------------------------
(***************************************************************************)
(* The catalogue import (talap/catalog/importer.py) beside the catalogue   *)
(* API (apps/api/services/catalog.py) and other imports of one merchant.   *)
(*                                                                         *)
(* An import commits its record, then its validation, then mutates the     *)
(* catalogue in one transaction: three SELECTs at READ COMMITTED, an       *)
(* upsert that locks the products row by row in file order, and a commit   *)
(* that shows the rows, their indexing tasks and COMPLETED together.  The  *)
(* status IMPORTING is set inside that transaction and never visible.      *)
(* Variants and inventory are upserted under the locks of their products,  *)
(* which every writer takes first, so they never wait.                     *)
(***************************************************************************)
EXTENDS Naturals, FiniteSets, SequencesExt

CONSTANTS
    Import,         \* imports, each one call of import_catalog_csv
    Product,        \* products, named by merchant_product_key = merchant_sku
    ProductPart,    \* values of the semantic fields of a products row
    Material,       \* values of the semantic field of a variants row
    File,           \* CSV files
    Csv,            \* File -> its rows, in the order of the file
    Malformed,      \* files parse_catalog_csv finds errors in
    NoFile,         \* the import has not been called
    NoDocument,     \* the product has not been created
    MaxTasks,       \* bound: tasks the API schedules per product
    MaxFailures     \* bound: failed transactions and dead processes

Document == [product : ProductPart, material : Material]

\* A row of a file; own tells whether its slug is the target merchant's.
Row == [key : Product, own : BOOLEAN, document : Document]

ASSUME ImportAssumption ==
    /\ IsFiniteSet(Product)
    /\ Csv \in [File -> Seq(Row)]
    /\ Malformed \subseteq File
    /\ \A f \in File \ Malformed : Csv[f] # <<>>
    /\ NoFile \notin File
    /\ NoDocument \notin Document \cup ProductPart \cup Material
    /\ MaxTasks \in Nat
    /\ MaxFailures \in Nat

VARIABLES
    doc,            \* Product -> the semantic fields, committed
    scheduled,      \* Product -> indexing tasks scheduled
    status,         \* Import -> status of its record, as committed
    created,        \* Import -> created_products of its record
    file,           \* Import -> the file
    pc,             \* Import -> where import_catalog_csv stands
    existing,       \* Import -> existing_product_keys
    names,          \* Import -> product part of semantic_by_key
    materials,      \* Import -> variant part of semantic_by_key
    todo,           \* Import -> rows not upserted yet
    held,           \* Import -> products its open transaction has upserted
    fresh,          \* Import -> those of them the upsert has inserted
    overtaken,      \* pairs of an import and a product changed by others
                    \* after the import read it, before it locked it
    failures        \* failures so far

catalogVars == <<doc, scheduled, overtaken>>
recordVars == <<status, created, file>>
readVars == <<existing, names, materials>>
writeVars == <<todo, held, fresh>>
vars == <<catalogVars, recordVars, pc, readVars, writeVars, failures>>

Nothing == [p \in Product |-> NoDocument]

TypeOK ==
    /\ doc \in [Product -> Document \cup {NoDocument}]
    /\ scheduled \in [Product -> Nat]
    /\ status \in [Import -> {"absent", "pending", "validating", "completed", "failed"}]
    /\ created \in [Import -> 0..Cardinality(Product)]
    /\ file \in [Import -> File \cup {NoFile}]
    /\ pc \in [Import -> {"start", "begin", "validate", "reject", "readKeys",
                          "readProducts", "readVariants", "upsert", "recover",
                          "done", "lost"}]
    /\ existing \in [Import -> SUBSET Product]
    /\ names \in [Import -> [Product -> ProductPart \cup {NoDocument}]]
    /\ materials \in [Import -> [Product -> Material \cup {NoDocument}]]
    /\ todo \in [Import -> Seq(Row)]
    /\ held \in [Import -> SUBSET Product]
    /\ \A i, j \in Import : i # j => held[i] \cap held[j] = {}
    /\ fresh \in [Import -> SUBSET Product]
    /\ \A i \in Import : fresh[i] \subseteq held[i]
    /\ overtaken \subseteq Import \X Product
    /\ failures \in 0..MaxFailures

Init ==
    /\ doc \in [Product -> {NoDocument} \cup Document]
    /\ scheduled = [p \in Product |-> 0]
    /\ status = [i \in Import |-> "absent"]
    /\ created = [i \in Import |-> 0]
    /\ file = [i \in Import |-> NoFile]
    /\ pc = [i \in Import |-> "start"]
    /\ existing = [i \in Import |-> {}]
    /\ names = [i \in Import |-> Nothing]
    /\ materials = [i \in Import |-> Nothing]
    /\ todo = [i \in Import |-> <<>>]
    /\ held = [i \in Import |-> {}]
    /\ fresh = [i \in Import |-> {}]
    /\ overtaken = {}
    /\ failures = 0

RowsOf(i) == Csv[file[i]]
KeysOf(i) == {r.key : r \in ToSet(RowsOf(i))}
Created(p) == doc[p] # NoDocument

\* _validate_rows: rows of another merchant, and keys that occur twice.
Invalid(rows) ==
    \/ \E n \in DOMAIN rows : ~rows[n].own
    \/ \E m, n \in DOMAIN rows : m # n /\ rows[m].key = rows[n].key

GoTo(i, phase) == pc' = [pc EXCEPT ![i] = phase]

\* Commit or rollback: the row locks, and what was read, are gone.
EndTransaction(i) ==
    /\ existing' = [existing EXCEPT ![i] = {}]
    /\ names' = [names EXCEPT ![i] = Nothing]
    /\ materials' = [materials EXCEPT ![i] = Nothing]
    /\ todo' = [todo EXCEPT ![i] = <<>>]
    /\ held' = [held EXCEPT ![i] = {}]
    /\ fresh' = [fresh EXCEPT ![i] = {}]

\* A budget for what may fail.
Failing == failures < MaxFailures /\ failures' = failures + 1

\* Who has read p, and not locked it, when somebody else changes it.
ReadBefore(p) ==
    {i \in Import : /\ pc[i] \in {"readProducts", "readVariants", "upsert"}
                    /\ p \in KeysOf(i) \ held[i]}

Overtake(S) == overtaken' = overtaken \cup UNION {ReadBefore(p) \X {p} : p \in S}

----------------------------------------------------------------------------
(* The catalogue API.                                                      *)

\* create_product waits for the key, and patch_product for the row, that an open
\* import has upserted, before they have done anything else.
Free(p) == \A i \in Import : p \notin held[i]

CreateProduct(p, d) ==
    /\ ~Created(p)
    /\ Free(p)
    /\ scheduled[p] < MaxTasks
    /\ doc' = [doc EXCEPT ![p] = d]
    /\ scheduled' = [scheduled EXCEPT ![p] = @ + 1]
    /\ Overtake({p})
    /\ UNCHANGED <<recordVars, pc, readVars, writeVars, failures>>

\* A patch of the semantic fields; other patches change nothing seen here.
PatchProduct(p, d) ==
    /\ Created(p)
    /\ d # doc[p]
    /\ Free(p)
    /\ scheduled[p] < MaxTasks
    /\ doc' = [doc EXCEPT ![p] = d]
    /\ scheduled' = [scheduled EXCEPT ![p] = @ + 1]
    /\ Overtake({p})
    /\ UNCHANGED <<recordVars, pc, readVars, writeVars, failures>>

----------------------------------------------------------------------------
(* Records.                                                                *)

\* Phase 1, for a merchant that is active: the PENDING record.
Start(i, f) ==
    /\ pc[i] = "start"
    /\ status' = [status EXCEPT ![i] = "pending"]
    /\ file' = [file EXCEPT ![i] = f]
    /\ GoTo(i, "begin")
    /\ UNCHANGED <<catalogVars, created, readVars, writeVars, failures>>

\* Phase 2: VALIDATING.
BeginValidation(i) ==
    /\ pc[i] = "begin"
    /\ status' = [status EXCEPT ![i] = "validating"]
    /\ GoTo(i, "validate")
    /\ UNCHANGED <<catalogVars, created, file, readVars, writeVars, failures>>

\* The parser, which may also raise, and the importer's own checks.
Validate(i) ==
    /\ pc[i] = "validate"
    /\ \/ /\ GoTo(i, IF file[i] \in Malformed \/ Invalid(RowsOf(i))
                     THEN "reject" ELSE "readKeys")
          /\ UNCHANGED failures
       \/ GoTo(i, "recover") /\ Failing
    /\ UNCHANGED <<catalogVars, recordVars, readVars, writeVars>>

\* Mutant: the recovery transaction is not committed.
RecoverWithoutCommit(i) ==
    /\ pc[i] \in {"reject", "recover"}
    /\ GoTo(i, "done")
    /\ UNCHANGED <<catalogVars, recordVars, readVars, writeVars, failures>>

\* _mark_failed and _mark_failed_with_safe_error.  When that transaction fails
\* too the record stays as it is, and nothing comes back to it.
MarkFailed(i) ==
    /\ pc[i] \in {"reject", "recover"}
    /\ \/ /\ status' = [status EXCEPT ![i] = "failed"]
          /\ GoTo(i, "done")
          /\ UNCHANGED failures
       \/ /\ GoTo(i, "lost")
          /\ Failing
          /\ UNCHANGED status
    /\ file' = [file EXCEPT ![i] = NoFile]
    /\ UNCHANGED <<catalogVars, created, readVars, writeVars>>

----------------------------------------------------------------------------
(* Phase 3.                                                                *)

ReadKeys(i) ==
    /\ pc[i] = "readKeys"
    /\ existing' = [existing EXCEPT ![i] = {p \in Product : Created(p)}]
    /\ GoTo(i, "readProducts")
    /\ UNCHANGED <<catalogVars, recordVars, names, materials, writeVars, failures>>

\* _load_semantic_values, first SELECT.
ReadProducts(i) ==
    /\ pc[i] = "readProducts"
    /\ names' = [names EXCEPT ![i] =
          [p \in Product |-> IF Created(p) THEN doc[p].product ELSE NoDocument]]
    /\ GoTo(i, "readVariants")
    /\ UNCHANGED <<catalogVars, recordVars, existing, materials, writeVars, failures>>

\* _load_semantic_values, second SELECT.
ReadVariants(i) ==
    /\ pc[i] = "readVariants"
    /\ materials' = [materials EXCEPT ![i] =
          [p \in Product |-> IF Created(p) THEN doc[p].material ELSE NoDocument]]
    /\ todo' = [todo EXCEPT ![i] = RowsOf(i)]
    /\ GoTo(i, "upsert")
    /\ UNCHANGED <<catalogVars, recordVars, existing, names, held, fresh, failures>>

WaitsFor(i, j) ==
    /\ i # j
    /\ pc[i] = "upsert"
    /\ todo[i] # <<>>
    /\ Head(todo[i]).key \in held[j]

\* Mutant: every row is committed by itself.
UpsertAndCommit(i) ==
    /\ pc[i] = "upsert"
    /\ todo[i] # <<>>
    /\ \A j \in Import : ~WaitsFor(i, j)
    /\ doc' = [doc EXCEPT ![Head(todo[i]).key] = Head(todo[i]).document]
    /\ held' = [held EXCEPT ![i] = @ \cup {Head(todo[i]).key}]
    /\ todo' = [todo EXCEPT ![i] = Tail(@)]
    /\ UNCHANGED <<scheduled, overtaken, recordVars, pc, readVars, fresh, failures>>

\* Mutant: a row another import has upserted is not waited for.
UpsertUnlocked(i) ==
    /\ pc[i] = "upsert"
    /\ todo[i] # <<>>
    /\ held' = [held EXCEPT ![i] = @ \cup {Head(todo[i]).key}]
    /\ todo' = [todo EXCEPT ![i] = Tail(@)]
    /\ UNCHANGED <<catalogVars, recordVars, pc, readVars, fresh, failures>>

\* _upsert_products, one row: INSERT ... ON CONFLICT DO UPDATE locks it.
UpsertProduct(i) ==
    /\ pc[i] = "upsert"
    /\ todo[i] # <<>>
    /\ \A j \in Import : ~WaitsFor(i, j)
    /\ LET p == Head(todo[i]).key IN
       /\ held' = [held EXCEPT ![i] = @ \cup {p}]
       /\ fresh' = [fresh EXCEPT ![i] = IF Created(p) THEN @ ELSE @ \cup {p}]
    /\ todo' = [todo EXCEPT ![i] = Tail(@)]
    /\ UNCHANGED <<catalogVars, recordVars, pc, readVars, failures>>

\* Mutant: the material is not compared.
ChangedProduct(i, r) == r.key \notin existing[i] \/ names[i][r.key] # r.document.product

\* _schedule_indexing_tasks: a key that was not there, or a field that differs
\* from what was read before the upsert.
Changed(i, r) ==
    \/ r.key \notin existing[i]
    \/ names[i][r.key] # r.document.product
    \/ materials[i][r.key] # r.document.material

\* What the file makes of the catalogue.
Applied(i) ==
    [p \in Product |->
        IF p \in KeysOf(i)
        THEN (CHOOSE r \in ToSet(RowsOf(i)) : r.key = p).document
        ELSE doc[p]]

\* Mutant: every row counts as created.
CountAll(i) == Len(RowsOf(i))

CountCreated(i) == Cardinality(KeysOf(i) \ existing[i])

\* Variants, inventory, tasks, statistics, COMPLETED, and the commit.
Commit(i) ==
    /\ pc[i] = "upsert"
    /\ todo[i] = <<>>
    /\ doc' = Applied(i)
    /\ LET changed == {r.key : r \in {r \in ToSet(RowsOf(i)) : Changed(i, r)}} IN
       scheduled' = [p \in Product |-> scheduled[p] + IF p \in changed THEN 1 ELSE 0]
    /\ Overtake({p \in Product : Applied(i)[p] # doc[p]})
    /\ status' = [status EXCEPT ![i] = "completed"]
    /\ created' = [created EXCEPT ![i] = CountCreated(i)]
    /\ GoTo(i, "done")
    /\ EndTransaction(i)
    /\ file' = [file EXCEPT ![i] = NoFile]
    /\ UNCHANGED failures

Mutating(i) == pc[i] \in {"readKeys", "readProducts", "readVariants", "upsert"}

\* An exception of phase 3: rollback, then the recovery transaction.
Abort(i) ==
    /\ Mutating(i)
    /\ Failing
    /\ GoTo(i, "recover")
    /\ EndTransaction(i)
    /\ UNCHANGED <<catalogVars, recordVars>>

Deadlocked(S) ==
    \A i \in S : (\E j \in S : WaitsFor(i, j)) /\ (\E j \in S : WaitsFor(j, i))

\* PostgreSQL aborts a transaction of the cycle.
AbortDeadlocked(i) ==
    /\ \E S \in SUBSET Import : i \in S /\ Deadlocked(S)
    /\ GoTo(i, "recover")
    /\ EndTransaction(i)
    /\ UNCHANGED <<catalogVars, recordVars, failures>>

\* The process dies; its open transaction is rolled back.
Crash(i) ==
    /\ pc[i] \notin {"start", "done", "lost"}
    /\ Failing
    /\ GoTo(i, "lost")
    /\ EndTransaction(i)
    /\ file' = [file EXCEPT ![i] = NoFile]
    /\ UNCHANGED <<catalogVars, status, created>>

----------------------------------------------------------------------------
Run(i) ==
    \/ BeginValidation(i)
    \/ Validate(i)
    \/ MarkFailed(i)
    \/ ReadKeys(i)
    \/ ReadProducts(i)
    \/ ReadVariants(i)
    \/ UpsertProduct(i)
    \/ Commit(i)
    \/ AbortDeadlocked(i)

Next ==
    \/ \E p \in Product, d \in Document : CreateProduct(p, d) \/ PatchProduct(p, d)
    \/ \E i \in Import, f \in File : Start(i, f)
    \/ \E i \in Import : Run(i) \/ Abort(i) \/ Crash(i)

Spec == Init /\ [][Next]_vars

\* A call that was made goes on until it returns or its process dies.
FairSpec == Spec /\ \A i \in Import : WF_vars(Run(i))

----------------------------------------------------------------------------
(* Properties.                                                             *)

\* "All-or-nothing catalog mutation", isolated: what an import has upserted
\* changes for others when it is COMPLETED, with the rest of the file, and
\* nobody changes it in between.
ImportsAreWhole ==
    [][\A i \in Import :
          (\E p \in held[i] \cup held'[i] : doc'[p] # doc[p]) =>
              status'[i] = "completed" /\ doc' = Applied(i)]_vars

\* _schedule_indexing_tasks: "Create one indexing task per row whose semantic
\* values changed".
EveryChangeIsScheduled ==
    [][\A p \in Product :
          doc'[p] # doc[p] => scheduled'[p] > scheduled[p]]_vars

\* The same, for products no one changed between an import's SELECTs and its
\* upsert; torn reads of other products do no harm.
ChangesAreScheduled ==
    [][\A p \in Product :
          doc'[p] # doc[p] =>
              \/ scheduled'[p] > scheduled[p]
              \/ \E i \in Import : <<i, p>> \in overtaken]_vars

\* "Import statistics describe the result of this import attempt": the products
\* counted as created are those its upsert inserted, unless it was overtaken.
StatisticsAreExact ==
    [][\A i \in Import :
          status[i] # "completed" /\ status'[i] = "completed" =>
              \/ created'[i] = Cardinality(fresh[i])
              \/ \E p \in Product : <<i, p>> \in overtaken]_vars

\* Every import that was recorded ends COMPLETED or FAILED, although imports of
\* the same products wait for each other and deadlock, unless its process died
\* or could not record the failure.
ImportsEnd ==
    \A i \in Import :
        status[i] = "pending" ~> status[i] \in {"completed", "failed"} \/ pc[i] = "lost"
=============================================================================
