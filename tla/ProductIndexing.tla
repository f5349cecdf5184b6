-------------------------- MODULE ProductIndexing --------------------------
(***************************************************************************)
(* Product indexing: the catalogue transactions that schedule tasks        *)
(* (apps/api/services/catalog.py) and the workers that turn a claimed task *)
(* into the product's one embedding (talap/indexing/processor.py).         *)
(*                                                                         *)
(* PostgreSQL runs at READ COMMITTED, so every SELECT of the processor is  *)
(* a step of its own that sees what was committed before it.  A catalogue  *)
(* transaction locks the product row before it reads and shows its writes  *)
(* at its commit: it is one step.  The writing transaction of the          *)
(* processor holds the task's row lock from "verifyProduct" to its commit, *)
(* and shows its writes at the commit.                                     *)
(*                                                                         *)
(* Products are never deleted (docs/DOMAIN_MODEL.md), and a product is     *)
(* created together with its variant, so the branches for a missing task,  *)
(* product or variant cannot be reached.                                   *)
(***************************************************************************)
EXTENDS IndexingQueue

CONSTANTS
    Worker,         \* indexing workers
    ProductPart,    \* values of the semantic fields of a products row
    Material,       \* values of the semantic field of a variants row
    Canonical,      \* what build_product_index_text makes of each of them
    NoDocument,     \* the product has not been created
    NoText,         \* there is no embedding row; nothing has been read
    NoClaim,        \* the worker is not processing a claim
    MaxCrashes      \* bound: crashes of workers

Document == [product : ProductPart, material : Material]

\* build_product_index_text strips every field and rewrites its newlines, so
\* two different documents may have one text.  The sha256 stands for the text.
IndexText(product, material) == <<Canonical[product], Canonical[material]>>
TextOf(d) == IndexText(d.product, d.material)
Text == {IndexText(x, m) : x \in ProductPart, m \in Material}

ASSUME IndexingAssumption ==
    /\ NoDocument \notin Document
    /\ NoText \notin Text \cup ProductPart
    /\ NoClaim \notin Claim
    /\ MaxCrashes \in Nat

VARIABLES
    doc,            \* Product -> the semantic fields, committed
    embedding,      \* Product -> the text its embedding row was computed from
    pc,             \* Worker -> where process_claimed_indexing_task stands
    hand,           \* Worker -> claims of its batch it has not begun
    current,        \* Worker -> the claim being processed
    partial,        \* Worker -> product fields read, variant not read yet
    expected,       \* Worker -> the text of phase B, embedded in phase C
    reports,        \* the results process_claimed_indexing_task has returned
    crashes,        \* crashes so far
    overtaken       \* history: products changed inside a writing transaction

workerVars == <<pc, hand, current, partial, expected>>
vars == <<queueVars, doc, embedding, workerVars, reports, crashes, overtaken>>

Phase == {"idle", "readVariant", "readEmbedding", "skip", "embed", "recordFailure",
          "lock", "verifyProduct", "verifyVariant", "findRow", "insert", "update"}

Outcome == {"embedded", "skipped", "retry", "dead", "stale", "raised"}

TypeOK ==
    /\ QueueTypeOK
    /\ doc \in [Product -> Document \cup {NoDocument}]
    /\ embedding \in [Product -> Text \cup {NoText}]
    /\ pc \in [Worker -> Phase]
    /\ hand \in [Worker -> SUBSET Claim]
    /\ current \in [Worker -> Claim \cup {NoClaim}]
    /\ partial \in [Worker -> ProductPart \cup {NoText}]
    /\ expected \in [Worker -> Text \cup {NoText}]
    /\ reports \subseteq [claim : Claim, outcome : Outcome]
    /\ crashes \in Nat
    /\ overtaken \subseteq Product

Init ==
    /\ QueueInit
    /\ doc = [p \in Product |-> NoDocument]
    /\ embedding = [p \in Product |-> NoText]
    /\ pc = [w \in Worker |-> "idle"]
    /\ hand = [w \in Worker |-> {}]
    /\ current = [w \in Worker |-> NoClaim]
    /\ partial = [w \in Worker |-> NoText]
    /\ expected = [w \in Worker |-> NoText]
    /\ reports = {}
    /\ crashes = 0
    /\ overtaken = {}

TaskOf(w) == current[w].task
ProductOf(w) == TaskOf(w)[1]

\* The writing transaction, between its row lock and its commit.
WriteWindow == {"verifyProduct", "verifyVariant", "findRow", "insert", "update"}

\* Mutant: the claim and the transitions do not lock rows.
NothingLocked == {}

Locked == {TaskOf(w) : w \in {v \in Worker : pc[v] \in WriteWindow}}

----------------------------------------------------------------------------
(* Catalogue transactions.                                                 *)

\* create_product: product, variant, inventory and task in one commit.
CreateProduct(p, d) ==
    /\ doc[p] = NoDocument
    /\ doc' = [doc EXCEPT ![p] = d]
    /\ ScheduleProductIndexing(p)
    /\ UNCHANGED <<embedding, workerVars, reports, crashes, overtaken>>

\* Mutant: the variant's field is not in SEMANTIC_FIELDS.
SemanticProductChange(before, after) == before.product # after.product

\* Mutant: the product's fields are not in SEMANTIC_FIELDS.
SemanticVariantChange(before, after) == before.material # after.material

\* semantic_changed_fields compares the stored values, not their texts.
SemanticChange(before, after) == before # after

\* Some worker is between the reads and the commit of a write of p.
BeingWritten(p) == \E w \in Worker : pc[w] \in WriteWindow /\ ProductOf(w) = p

\* patch_product: a task is scheduled in the transaction that changes a field
\* the text is made of; a patch of other fields changes nothing seen here.
\* Nothing keeps a patch out of a writing transaction; history records it.
PatchProduct(p, d) ==
    /\ doc[p] # NoDocument
    /\ doc' = [doc EXCEPT ![p] = d]
    /\ IF SemanticChange(doc[p], d)
       THEN ScheduleProductIndexing(p)
       ELSE UNCHANGED queueVars
    /\ overtaken' =
          IF d # doc[p] /\ BeingWritten(p) THEN overtaken \cup {p} ELSE overtaken
    /\ UNCHANGED <<embedding, workerVars, reports, crashes>>

----------------------------------------------------------------------------
(* Workers.                                                                *)

\* claim_indexing_batch: the claim is committed, snapshots are returned.
ClaimBatch(w) ==
    /\ pc[w] = "idle"
    /\ hand[w] = {}
    /\ \E S \in (SUBSET Eligible) \ {{}} :
          /\ ClaimIndexingTasks(S, Locked)
          /\ hand' = [hand EXCEPT ![w] = {ClaimedIndexingTask(t) : t \in S}]
    /\ UNCHANGED <<doc, embedding, pc, current, partial, expected, reports, crashes,
                   overtaken>>

GoTo(w, phase) == pc' = [pc EXCEPT ![w] = phase]

\* The call returns, or raises, and its locals are gone.
Finish(w, outcome) ==
    /\ reports' = reports \cup {[claim |-> current[w], outcome |-> outcome]}
    /\ GoTo(w, "idle")
    /\ current' = [current EXCEPT ![w] = NoClaim]
    /\ partial' = [partial EXCEPT ![w] = NoText]
    /\ expected' = [expected EXCEPT ![w] = NoText]
    /\ UNCHANGED <<hand, doc, crashes, overtaken>>

\* Phase B, first SELECT: the product of a claim of the batch.
ReadProduct(w) ==
    /\ pc[w] = "idle"
    /\ \E c \in hand[w] :
          /\ current' = [current EXCEPT ![w] = c]
          /\ hand' = [hand EXCEPT ![w] = @ \ {c}]
          /\ partial' = [partial EXCEPT ![w] = doc[c.task[1]].product]
    /\ GoTo(w, "readVariant")
    /\ UNCHANGED <<queueVars, doc, embedding, expected, reports, crashes, overtaken>>

\* Phase B, second SELECT: the text may mix two versions of the product.
ReadVariant(w) ==
    /\ pc[w] = "readVariant"
    /\ expected' = [expected EXCEPT
                      ![w] = IndexText(partial[w], doc[ProductOf(w)].material)]
    /\ partial' = [partial EXCEPT ![w] = NoText]
    /\ GoTo(w, "readEmbedding")
    /\ UNCHANGED <<queueVars, doc, embedding, hand, current, reports, crashes,
                   overtaken>>

\* Phase B, third SELECT, and _embedding_identical.
ReadEmbedding(w) ==
    /\ pc[w] = "readEmbedding"
    /\ GoTo(w, IF embedding[ProductOf(w)] = expected[w] THEN "skip" ELSE "embed")
    /\ UNCHANGED <<queueVars, doc, embedding, hand, current, partial, expected,
                   reports, crashes, overtaken>>

\* A transition of a task whose claim is lost: a stale claim is returned as a
\* result, an invalid transition is raised, and the row stays as it is.
LoseClaim(w) ==
    /\ \/ StaleClaim(current[w]) /\ Finish(w, "stale")
       \/ InvalidTransition(current[w]) /\ Finish(w, "raised")
    /\ UNCHANGED <<queueVars, embedding>>

\* mark_indexing_task_completed for a product whose embedding is current.
SkipUnchanged(w) ==
    /\ pc[w] = "skip"
    /\ TaskOf(w) \notin Locked
    /\ \/ /\ OwnsClaim(current[w])
          /\ MarkCompleted(TaskOf(w))
          /\ Finish(w, "skipped")
          /\ UNCHANGED embedding
       \/ LoseClaim(w)

\* Phase C: the provider answers with a vector, or fails in one of many ways.
EmbedDocument(w) ==
    /\ pc[w] = "embed"
    /\ \/ GoTo(w, "lock")
       \/ GoTo(w, "recordFailure")
    /\ UNCHANGED <<queueVars, doc, embedding, hand, current, partial, expected,
                   reports, crashes, overtaken>>

FailureResult(t) == IF FailureOutcome(t) = "pending" THEN "retry" ELSE "dead"

FailTask(w) ==
    /\ MarkFailed(TaskOf(w))
    /\ Finish(w, FailureResult(TaskOf(w)))
    /\ UNCHANGED embedding

\* mark_indexing_task_failed, after phase C failed.
RecordFailure(w) ==
    /\ pc[w] = "recordFailure"
    /\ TaskOf(w) \notin Locked
    /\ \/ OwnsClaim(current[w]) /\ FailTask(w)
       \/ LoseClaim(w)

\* Phase D: lock the task's row and check the claim.
LockTask(w) ==
    /\ pc[w] = "lock"
    /\ TaskOf(w) \notin Locked
    /\ \/ /\ OwnsClaim(current[w])
          /\ GoTo(w, "verifyProduct")
          /\ UNCHANGED <<queueVars, doc, embedding, hand, current, partial, expected,
                         reports, crashes, overtaken>>
       \/ LoseClaim(w)

\* The product row is read again, but not locked.
VerifyProduct(w) ==
    /\ pc[w] = "verifyProduct"
    /\ partial' = [partial EXCEPT ![w] = doc[ProductOf(w)].product]
    /\ GoTo(w, "verifyVariant")
    /\ UNCHANGED <<queueVars, doc, embedding, hand, current, expected, reports, crashes,
                   overtaken>>

\* Mutant: the text is not built again before the row is written.
VerifyNothing(w) ==
    /\ pc[w] = "verifyVariant"
    /\ partial' = [partial EXCEPT ![w] = NoText]
    /\ GoTo(w, "findRow")
    /\ UNCHANGED <<queueVars, doc, embedding, hand, current, expected, reports, crashes,
                   overtaken>>

\* The variant is read again; a changed text fails the task in this
\* transaction, which then commits.
VerifyVariant(w) ==
    /\ pc[w] = "verifyVariant"
    /\ IF IndexText(partial[w], doc[ProductOf(w)].material) = expected[w]
       THEN /\ partial' = [partial EXCEPT ![w] = NoText]
            /\ GoTo(w, "findRow")
            /\ UNCHANGED <<queueVars, doc, embedding, hand, current, expected,
                           reports, crashes, overtaken>>
       ELSE FailTask(w)

\* Is there an embedding row to update?
FindRow(w) ==
    /\ pc[w] = "findRow"
    /\ GoTo(w, IF embedding[ProductOf(w)] = NoText THEN "insert" ELSE "update")
    /\ UNCHANGED <<queueVars, doc, embedding, hand, current, partial, expected,
                   reports, crashes, overtaken>>

\* Embedding and COMPLETED in one commit.  An INSERT that finds another
\* transaction's row violates the unique product_id, and the error is raised.
CommitEmbedding(w) ==
    /\ pc[w] \in {"insert", "update"}
    /\ IF pc[w] = "insert" /\ embedding[ProductOf(w)] # NoText
       THEN /\ Finish(w, "raised")
            /\ UNCHANGED <<queueVars, embedding>>
       ELSE /\ embedding' = [embedding EXCEPT ![ProductOf(w)] = expected[w]]
            /\ MarkCompleted(TaskOf(w))
            /\ Finish(w, "embedded")

\* The worker process dies; its open transaction is rolled back.
Crash(w) ==
    /\ crashes < MaxCrashes
    /\ pc[w] # "idle" \/ hand[w] # {}
    /\ crashes' = crashes + 1
    /\ hand' = [hand EXCEPT ![w] = {}]
    /\ GoTo(w, "idle")
    /\ current' = [current EXCEPT ![w] = NoClaim]
    /\ partial' = [partial EXCEPT ![w] = NoText]
    /\ expected' = [expected EXCEPT ![w] = NoText]
    /\ UNCHANGED <<queueVars, doc, embedding, reports, overtaken>>

ClockPasses(t) ==
    /\ Ripen(t)
    /\ UNCHANGED <<doc, embedding, workerVars, reports, crashes, overtaken>>

----------------------------------------------------------------------------
Process(w) ==
    \/ ReadProduct(w)
    \/ ReadVariant(w)
    \/ ReadEmbedding(w)
    \/ SkipUnchanged(w)
    \/ EmbedDocument(w)
    \/ RecordFailure(w)
    \/ LockTask(w)
    \/ VerifyProduct(w)
    \/ VerifyVariant(w)
    \/ FindRow(w)
    \/ CommitEmbedding(w)

Next ==
    \/ \E p \in Product, d \in Document : CreateProduct(p, d) \/ PatchProduct(p, d)
    \/ \E w \in Worker : ClaimBatch(w) \/ Process(w) \/ Crash(w)
    \/ \E t \in Task : ClockPasses(t)

Spec == Init /\ [][Next]_vars

----------------------------------------------------------------------------
(* Assumptions some properties need.                                       *)

Claims(w) == hand[w] \cup (IF current[w] = NoClaim THEN {} ELSE {current[w]})

\* Leases expire only when the worker they were granted to is gone: every
\* worker is done with its batch within stale_after.
Timely ==
    \A t \in Task : status[t] = "processing" /\ ~ripe[t] /\ ripe'[t] =>
        \A w \in Worker : [task |-> t, attempt |-> attempts[t]] \notin Claims(w)

\* Workers are run again and again, and time passes.
Fairness ==
    /\ \A w \in Worker : WF_vars(ClaimBatch(w)) /\ WF_vars(Process(w))
    /\ \A t \in Task : WF_vars(ClockPasses(t) /\ Timely)

TimelyFairSpec == Init /\ [][Next /\ Timely]_vars /\ Fairness

----------------------------------------------------------------------------
(* Properties.                                                             *)

\* No two workers ever hold the same claim, and a worker that is processing
\* one does not have it in its batch any more: the fencing token names one
\* holder (claim_indexing_tasks commits the increment before it returns).
ClaimsAreUnique ==
    /\ \A v, w \in Worker : v # w => Claims(v) \cap Claims(w) = {}
    /\ \A w \in Worker : current[w] \notin hand[w]

\* Once a call reported success the task is COMPLETED for good, by that
\* claim: a slow worker can neither repeat nor undo the work of the worker
\* that took its task over.
SuccessIsFinal ==
    \A r \in reports : r.outcome \in {"embedded", "skipped"} =>
        /\ status[r.claim.task] = "completed"
        /\ attempts[r.claim.task] = r.claim.attempt

\* The claim checked at the start of the writing transaction is still the
\* task's claim when it commits: SKIP LOCKED keeps a claim from overtaking it.
WriterOwnsTask ==
    \A w \in Worker : pc[w] \in WriteWindow => OwnsClaim(current[w])

\* A task waits for a retry only while attempts are left, and is given up
\* only when none is, however many of its attempts ended in a crash.
RetryBudget ==
    \A t \in Task :
        /\ status[t] = "pending" => attempts[t] < MaxAttempts
        /\ status[t] = "failed" => attempts[t] >= MaxAttempts

\* The task table is a leased queue: calls that lost their claim change
\* nothing, and a task is settled by the last claim granted on it.
Successes(t) ==
    {r \in reports : r.claim.task = t /\ r.outcome \in {"embedded", "skipped"}}

QueuePhase ==
    [t \in Task |->
        CASE status[t] = "pending" -> "ready"
          [] status[t] = "processing" -> "leased"
          [] status[t] = "completed" -> "settled"
          [] status[t] = "failed" -> "buried"
          [] OTHER -> "absent"]

AnyOf(S) == CHOOSE r \in S : TRUE

SettledBy ==
    [t \in Task |->
        IF Successes(t) = {} THEN 0
        ELSE AnyOf(Successes(t)).claim.attempt]

Queue == INSTANCE LeasedQueue WITH
    Job <- Task, phase <- QueuePhase, generation <- attempts, settledBy <- SettledBy

ImplementsLeasedQueue == Queue!AbstractSpec

\* The embedding a product is left with when its latest task is COMPLETED is
\* that of its current text, torn reads of phase B and late writers of earlier
\* tasks included, unless a change overtook a writing transaction.
CompletedMeansIndexed ==
    \A p \in Product : doc[p] # NoDocument /\ status[LatestTask(p)] = "completed" =>
        embedding[p] = TextOf(doc[p]) \/ p \in overtaken

\* What phase D protects from: a change committed before its checks, however
\* long the provider took, is never followed by a write of the older text.
WritesAreVerified ==
    [][\A p \in Product :
          embedding'[p] # embedding[p] =>
              embedding'[p] = TextOf(doc[p]) \/ p \in overtaken]_vars

\* processor.py: "If the product document changed between B and D, the stale
\* embedding is never written".
NeverWritesStaleEmbedding ==
    [][\A p \in Product :
          embedding'[p] # embedding[p] => embedding'[p] = TextOf(doc[p])]_vars

\* Every scheduled task is eventually completed or given up.
TasksSettle ==
    \A t \in Task : status[t] = "pending" ~> status[t] \in {"completed", "failed"}

\* Every product is eventually searchable by its current text, unless its
\* latest task is given up or a change overtook a writing transaction.
EventuallyIndexed ==
    \A p \in Product : (doc[p] # NoDocument) ~>
        /\ doc[p] # NoDocument
        /\ \/ embedding[p] = TextOf(doc[p])
           \/ status[LatestTask(p)] = "failed"
           \/ p \in overtaken
=============================================================================
