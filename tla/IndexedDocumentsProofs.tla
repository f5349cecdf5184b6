----------------------- MODULE IndexedDocumentsProofs -----------------------
(***************************************************************************)
(* What a COMPLETED task says about the embedding, proved for any number   *)
(* of products, workers and tasks.  The invariant rests on two facts: the  *)
(* document of a product has not changed since its latest task was         *)
(* scheduled, and a change inside a writing transaction is recorded in     *)
(* overtaken.                                                              *)
(***************************************************************************)
EXTENDS ProductIndexingProofs

CurrentText(p) == TextOf(doc[p])
IsCurrent(text, p) == text = CurrentText(p) \/ p \in overtaken

\* Where the text of phase B is complete.
Expecting == Phase \ {"idle", "readVariant"}

\* What w has read of its product: all of it is current while the task is the
\* latest, and what the writing transaction read is current in any case.
Fresh(w) ==
    LET p == ProductOf(w) IN
    /\ TaskOf(w) = LatestTask(p) =>
          /\ pc[w] = "readVariant" => partial[w] = doc[p].product
          /\ pc[w] \in Expecting => expected[w] = CurrentText(p)
          /\ pc[w] = "skip" => IsCurrent(embedding[p], p)
    /\ pc[w] = "verifyVariant" => partial[w] = doc[p].product \/ p \in overtaken
    /\ pc[w] \in {"findRow", "insert", "update"} => IsCurrent(expected[w], p)

FreshReads == \A w \in Worker : pc[w] # "idle" => Fresh(w)

\* Every product has a task: the one create_product scheduled.
Scheduled == \A p \in Product : doc[p] # NoDocument => LatestTask(p) \in Task

Indexed ==
    /\ Fencing
    /\ Scheduled
    /\ FreshReads
    /\ CompletedMeansIndexed
----------------------------------------------------------------------------
(* Lemmas.                                                                 *)

\* An embedding is left alone or replaced by a current one.
WritesCurrent ==
    \A p \in Product : embedding'[p] = embedding[p] \/ IsCurrent(embedding'[p], p)

\* A step of w leaves the locals of the others alone.
OthersStay(w) ==
    \A v \in Worker \ {w} :
        /\ pc'[v] = pc[v]
        /\ current'[v] = current[v]
        /\ partial'[v] = partial[v]
        /\ expected'[v] = expected[v]

LEMMA WorkerMove ==
    ASSUME Indexed, NEW w \in Worker, OthersStay(w), WritesCurrent,
           UNCHANGED <<scheduled, doc, overtaken>>,
           pc'[w] # "idle" => Fresh(w)'
    PROVE  FreshReads'
<1> SUFFICES ASSUME NEW v \in Worker \ {w}, pc'[v] # "idle"
             PROVE  Fresh(v)'
    BY DEF FreshReads
<1>1. pc'[v] = pc[v] /\ TaskOf(v)' = TaskOf(v) /\ ProductOf(v)' = ProductOf(v)
    BY DEF OthersStay, TaskOf, ProductOf
<1>2. ProductOf(v) \in Product
    BY <1>1, BusyWorker DEF Indexed, Fencing
<1>3. Fresh(v)
    BY <1>1 DEF Indexed, FreshReads
<1>4. IsCurrent(embedding[ProductOf(v)], ProductOf(v)) =>
          IsCurrent(embedding'[ProductOf(v)], ProductOf(v))
    BY <1>2 DEF WritesCurrent
<1> QED
    BY <1>1, <1>3, <1>4
    DEF Fresh, OthersStay, LatestTask, CurrentText, IsCurrent, TextOf

LEMMA CompletedStays ==
    ASSUME Indexed, WritesCurrent, UNCHANGED <<scheduled, doc, overtaken>>,
           \A p \in Product : LatestTask(p) \in Task =>
              (status'[LatestTask(p)] = "completed" =>
                  \/ status[LatestTask(p)] = "completed"
                  \/ IsCurrent(embedding'[p], p))
    PROVE  CompletedMeansIndexed'
<1> SUFFICES ASSUME NEW p \in Product, doc[p] # NoDocument,
                    status'[LatestTask(p)] = "completed"
             PROVE  IsCurrent(embedding'[p], p)
    BY DEF CompletedMeansIndexed, IsCurrent, CurrentText, LatestTask, TextOf
<1>1. LatestTask(p) \in Task
    BY DEF Indexed, Scheduled
<1>2. CASE status[LatestTask(p)] = "completed"
    BY <1>2 DEF Indexed, CompletedMeansIndexed, WritesCurrent, IsCurrent, CurrentText
<1> QED
    BY <1>1, <1>2

\* A step that neither settles a task nor writes an embedding.
LEMMA QuietMove ==
    ASSUME Indexed, Fencing', NEW w \in Worker, OthersStay(w),
           UNCHANGED <<scheduled, doc, embedding, overtaken>>,
           \A t \in Task : status'[t] = "completed" => status[t] = "completed",
           pc'[w] # "idle" => Fresh(w)'
    PROVE  Indexed'
<1>1. WritesCurrent
    BY DEF WritesCurrent
<1>2. Scheduled'
    BY DEF Indexed, Scheduled, LatestTask
<1>3. FreshReads'
    BY <1>1, WorkerMove
<1>4. CompletedMeansIndexed'
    BY <1>1, CompletedStays
<1> QED
    BY <1>2, <1>3, <1>4 DEF Indexed

\* The end of a call, as the others see it.
LEMMA FinishStays ==
    ASSUME Indexed, NEW w \in Worker, NEW o, Finish(w, o)
    PROVE  /\ OthersStay(w)
           /\ pc'[w] = "idle"
           /\ UNCHANGED <<doc, overtaken>>
BY DEF Indexed, Fencing, TypeOK, Finish, GoTo, OthersStay

\* The owner of a claim completes its task beside a current embedding.
LEMMA CompleteCurrent ==
    ASSUME Indexed, Fencing', NEW w \in Worker, pc[w] # "idle", NEW o, Finish(w, o),
           MarkCompleted(TaskOf(w)), WritesCurrent,
           TaskOf(w) = LatestTask(ProductOf(w)) =>
              IsCurrent(embedding'[ProductOf(w)], ProductOf(w))
    PROVE  Indexed'
<1>1. OthersStay(w) /\ pc'[w] = "idle" /\ UNCHANGED <<scheduled, doc, overtaken>>
    BY FinishStays DEF MarkCompleted
<1>2. Scheduled'
    BY <1>1 DEF Indexed, Scheduled, LatestTask
<1>3. FreshReads'
    BY <1>1, WorkerMove
<1>4. TaskOf(w) \in Task
    BY BusyWorker DEF Indexed, Fencing
<1>5. \A t \in Task : status'[t] = IF t = TaskOf(w) THEN "completed" ELSE status[t]
    BY <1>4 DEF MarkCompleted, Indexed, Fencing, TypeOK, QueueTypeOK
<1>6. \A p \in Product : LatestTask(p) = TaskOf(w) => p = ProductOf(w)
    BY DEF LatestTask, ProductOf
<1>7. CompletedMeansIndexed'
    <2>1. \A p \in Product : LatestTask(p) \in Task =>
              (status'[LatestTask(p)] = "completed" =>
                  \/ status[LatestTask(p)] = "completed"
                  \/ IsCurrent(embedding'[p], p))
        BY <1>5, <1>6
    <2> QED
        BY <1>1, <2>1, CompletedStays
<1> QED
    BY <1>2, <1>3, <1>7 DEF Indexed

----------------------------------------------------------------------------
(* Steps of the catalogue and of the queue.                                *)

\* A task is scheduled with a change: nothing read so far is of the latest
\* task any more, and writing transactions of the product are overtaken.
LEMMA ScheduleIndexed ==
    ASSUME Indexed, Fencing', NEW p \in Product, NEW d \in Document,
           ScheduleProductIndexing(p), doc' = [doc EXCEPT ![p] = d],
           UNCHANGED <<embedding, workerVars>>,
           overtaken \subseteq overtaken',
           BeingWritten(p) => p \in overtaken'
    PROVE  Indexed'
<1> USE DEF Indexed, Fencing
<1> DEFINE new == <<p, scheduled[p] + 1>>
<1>1. new \in Task /\ status[new] = "absent"
    BY QueueAssumption DEF ScheduleProductIndexing, Task, TypeOK, QueueTypeOK, Rows
<1>2. /\ \A t \in Task : status'[t] = IF t = new THEN "pending" ELSE status[t]
      /\ \A q \in Product \ {p} : LatestTask(q)' = LatestTask(q) /\ doc'[q] = doc[q]
      /\ LatestTask(p)' = new
    BY <1>1 DEF ScheduleProductIndexing, TypeOK, QueueTypeOK, LatestTask
<1> HIDE DEF new
<1>3. Scheduled'
    BY <1>1, <1>2 DEF Scheduled
<1>4. CompletedMeansIndexed'
    <2> SUFFICES ASSUME NEW q \in Product, doc'[q] # NoDocument,
                        status'[LatestTask(q)'] = "completed"
                 PROVE  embedding'[q] = TextOf(doc'[q]) \/ q \in overtaken'
        BY DEF CompletedMeansIndexed
    <2>1. q # p /\ LatestTask(q)' = LatestTask(q) /\ doc'[q] = doc[q]
        BY <1>1, <1>2
    <2>2. LatestTask(q) \in Task /\ LatestTask(q) # new
        BY <1>2, <2>1 DEF Scheduled, LatestTask, new
    <2>3. status[LatestTask(q)] = "completed"
        BY <1>2, <2>1, <2>2
    <2> QED
        BY <2>1, <2>3 DEF CompletedMeansIndexed
<1>5. FreshReads'
    <2> SUFFICES ASSUME NEW v \in Worker, pc[v] # "idle"
                 PROVE  Fresh(v)'
        BY DEF FreshReads, workerVars
    <2>1. TaskOf(v) \in Task /\ ProductOf(v) \in Product /\ TaskOf(v) # new
        BY <1>1, BusyWorker
    <2>2. TaskOf(v)' = TaskOf(v) /\ ProductOf(v)' = ProductOf(v)
        BY DEF workerVars, TaskOf, ProductOf
    <2>3. Fresh(v)
        BY DEF FreshReads
    <2>4. CASE ProductOf(v) = p
        <3>1. TaskOf(v)' # LatestTask(ProductOf(v))'
            BY <1>2, <2>1, <2>2, <2>4
        <3>2. pc[v] \in WriteWindow => p \in overtaken'
            BY <2>4 DEF BeingWritten
        <3> QED
            BY <2>2, <2>4, <3>1, <3>2 DEF Fresh, IsCurrent, WriteWindow, workerVars
    <2>5. CASE ProductOf(v) # p
        BY <1>2, <2>1, <2>2, <2>3, <2>5
        DEF Fresh, IsCurrent, CurrentText, TextOf, workerVars
    <2> QED
        BY <2>4, <2>5
<1> QED
    BY <1>3, <1>4, <1>5
LEMMA CreateProductIndexed ==
    ASSUME Indexed, Fencing', NEW p \in Product, NEW d \in Document, CreateProduct(p, d)
    PROVE  Indexed'
<1>1. ~BeingWritten(p)
    <2> SUFFICES ASSUME NEW v \in Worker, pc[v] \in WriteWindow
                 PROVE  ProductOf(v) # p
        BY DEF BeingWritten
    <2>1. doc[ProductOf(v)] \in Document
        BY BusyWorker DEF Indexed, Fencing, WriteWindow
    <2> QED
        BY <2>1, IndexingAssumption DEF CreateProduct
<1> QED
    BY <1>1, ScheduleIndexed DEF CreateProduct

LEMMA PatchProductIndexed ==
    ASSUME Indexed, Fencing', NEW p \in Product, NEW d \in Document, PatchProduct(p, d)
    PROVE  Indexed'
<1>1. CASE SemanticChange(doc[p], d)
    <2>1. BeingWritten(p) => p \in overtaken'
        BY <1>1 DEF PatchProduct, SemanticChange
    <2>2. overtaken \subseteq overtaken'
        BY DEF PatchProduct
    <2> QED
        BY <1>1, <2>1, <2>2, ScheduleIndexed DEF PatchProduct
<1>2. CASE ~SemanticChange(doc[p], d)
    <2>1. UNCHANGED <<queueVars, doc, embedding, workerVars, overtaken>>
        BY <1>2 DEF PatchProduct, SemanticChange, Indexed, Fencing, TypeOK
    <2>2. Scheduled' /\ CompletedMeansIndexed'
        BY <2>1 DEF Indexed, Scheduled, CompletedMeansIndexed, queueVars, LatestTask
    <2>3. FreshReads'
        BY <2>1 DEF Indexed, FreshReads, Fresh, IsCurrent, CurrentText, TaskOf,
                    ProductOf, LatestTask, queueVars, workerVars
    <2> QED
        BY <2>2, <2>3 DEF Indexed
<1> QED
    BY <1>1, <1>2

\* Claims and the clock: no task is settled, and no worker reads.
LEMMA QueueOnlyIndexed ==
    ASSUME Indexed, Fencing',
           UNCHANGED <<scheduled, doc, embedding, pc, current, partial, expected, overtaken>>,
           \A t \in Task : status'[t] = "completed" => status[t] = "completed"
    PROVE  Indexed'
<1>1. Scheduled'
    BY DEF Indexed, Scheduled, LatestTask
<1>2. FreshReads'
    BY DEF Indexed, FreshReads, Fresh, IsCurrent, CurrentText, TaskOf, ProductOf,
           LatestTask
<1>3. CompletedMeansIndexed'
    BY CompletedStays DEF WritesCurrent
<1> QED
    BY <1>1, <1>2, <1>3 DEF Indexed

----------------------------------------------------------------------------
(* Steps of a worker.                                                      *)

LEMMA ReadProductIndexed ==
    ASSUME Indexed, Fencing', NEW w \in Worker, ReadProduct(w)
    PROVE  Indexed'
<1> USE DEF Indexed, Fencing
<1>1. PICK c \in hand[w] :
          /\ current' = [current EXCEPT ![w] = c]
          /\ partial' = [partial EXCEPT ![w] = doc[c.task[1]].product]
    BY DEF ReadProduct
<1>2. /\ pc'[w] = "readVariant"
      /\ current'[w] = c
      /\ partial'[w] = doc[c.task[1]].product
    BY <1>1 DEF ReadProduct, GoTo, TypeOK
<1>3. OthersStay(w)
    BY <1>1 DEF ReadProduct, GoTo, TypeOK, OthersStay
<1>4. Fresh(w)'
    BY <1>2 DEF ReadProduct, Fresh, ProductOf, TaskOf, Expecting
<1> QED
    BY <1>3, <1>4, QuietMove DEF ReadProduct, queueVars

LEMMA ReadVariantIndexed ==
    ASSUME Indexed, Fencing', NEW w \in Worker, ReadVariant(w)
    PROVE  Indexed'
<1> USE DEF Indexed, Fencing
<1>1. /\ pc'[w] = "readEmbedding"
      /\ expected'[w] = IndexText(partial[w], doc[ProductOf(w)].material)
      /\ ProductOf(w)' = ProductOf(w) /\ TaskOf(w)' = TaskOf(w)
    BY DEF ReadVariant, GoTo, TypeOK, ProductOf, TaskOf
<1>2. OthersStay(w)
    BY DEF ReadVariant, GoTo, TypeOK, OthersStay
<1>3. TaskOf(w) = LatestTask(ProductOf(w)) => partial[w] = doc[ProductOf(w)].product
    BY DEF ReadVariant, FreshReads, Fresh
<1>4. Fresh(w)'
    BY <1>1, <1>3
    DEF ReadVariant, Fresh, CurrentText, TextOf, LatestTask, queueVars
<1> QED
    BY <1>2, <1>4, QuietMove DEF ReadVariant, queueVars

LEMMA ReadEmbeddingIndexed ==
    ASSUME Indexed, Fencing', NEW w \in Worker, ReadEmbedding(w)
    PROVE  Indexed'
<1> USE DEF Indexed, Fencing
<1>1. /\ pc'[w] \in {"skip", "embed"}
      /\ pc'[w] = "skip" => embedding[ProductOf(w)] = expected[w]
      /\ ProductOf(w)' = ProductOf(w) /\ TaskOf(w)' = TaskOf(w)
    BY DEF ReadEmbedding, GoTo, TypeOK, ProductOf, TaskOf
<1>2. OthersStay(w)
    BY DEF ReadEmbedding, GoTo, TypeOK, OthersStay
<1>3. TaskOf(w) = LatestTask(ProductOf(w)) => expected[w] = CurrentText(ProductOf(w))
    BY DEF ReadEmbedding, FreshReads, Fresh, Expecting, Phase
<1>4. Fresh(w)'
    BY <1>1, <1>3
    DEF ReadEmbedding, Fresh, IsCurrent, CurrentText, LatestTask, queueVars
<1> QED
    BY <1>2, <1>4, QuietMove DEF ReadEmbedding, queueVars

\* A step on the way to the writing transaction, or to recording a failure.
LEMMA KeepExpecting ==
    ASSUME Indexed, Fencing', NEW w \in Worker,
           pc[w] \in Expecting,
           pc'[w] \in {"embed", "recordFailure", "lock", "verifyProduct"},
           OthersStay(w), current'[w] = current[w], expected'[w] = expected[w],
           UNCHANGED <<queueVars, doc, embedding, overtaken>>
    PROVE  Indexed'
<1>1. ProductOf(w)' = ProductOf(w) /\ TaskOf(w)' = TaskOf(w)
    BY DEF ProductOf, TaskOf
<1>2. TaskOf(w) = LatestTask(ProductOf(w)) => expected[w] = CurrentText(ProductOf(w))
    BY DEF Indexed, FreshReads, Fresh, Expecting
<1>3. Fresh(w)'
    BY <1>1, <1>2 DEF Fresh, CurrentText, LatestTask, queueVars
<1> QED
    BY <1>3, QuietMove DEF queueVars

\* A call that ends without success leaves everything as it is, or puts its
\* task back.
LEMMA EndIndexed ==
    ASSUME Indexed, Fencing', NEW w \in Worker, NEW o, Finish(w, o),
           UNCHANGED <<scheduled, embedding>>,
           \A t \in Task : status'[t] = "completed" => status[t] = "completed"
    PROVE  Indexed'
<1>1. OthersStay(w) /\ pc'[w] = "idle" /\ UNCHANGED <<doc, overtaken>>
    BY FinishStays
<1> QED
    BY <1>1, QuietMove

LEMMA LoseClaimIndexed ==
    ASSUME Indexed, Fencing', NEW w \in Worker, LoseClaim(w)
    PROVE  Indexed'
BY EndIndexed DEF LoseClaim, queueVars

LEMMA FailTaskIndexed ==
    ASSUME Indexed, Fencing', NEW w \in Worker, pc[w] # "idle", FailTask(w)
    PROVE  Indexed'
<1>1. \A t \in Task : status'[t] = "completed" => status[t] = "completed"
    BY DEF FailTask, MarkFailed, FailureOutcome, Indexed, Fencing, TypeOK, QueueTypeOK
<1> QED
    BY <1>1, EndIndexed DEF FailTask, MarkFailed

LEMMA SkipUnchangedIndexed ==
    ASSUME Indexed, Fencing', NEW w \in Worker, SkipUnchanged(w)
    PROVE  Indexed'
<1>1. TaskOf(w) = LatestTask(ProductOf(w)) =>
          IsCurrent(embedding[ProductOf(w)], ProductOf(w))
    BY DEF SkipUnchanged, Indexed, FreshReads, Fresh
<1>2. CASE MarkCompleted(TaskOf(w)) /\ Finish(w, "skipped") /\ UNCHANGED embedding
    <2>1. WritesCurrent
        BY <1>2 DEF WritesCurrent
    <2> QED
        BY <1>1, <1>2, <2>1, CompleteCurrent DEF SkipUnchanged
<1> QED
    BY <1>2, LoseClaimIndexed DEF SkipUnchanged

LEMMA EmbedDocumentIndexed ==
    ASSUME Indexed, Fencing', NEW w \in Worker, EmbedDocument(w)
    PROVE  Indexed'
<1>1. pc[w] \in Expecting
    BY DEF EmbedDocument, Expecting, Phase
<1>2. /\ pc'[w] \in {"embed", "recordFailure", "lock", "verifyProduct"}
      /\ OthersStay(w)
    BY DEF EmbedDocument, GoTo, Indexed, Fencing, TypeOK, OthersStay
<1> QED
    BY <1>1, <1>2, KeepExpecting DEF EmbedDocument

LEMMA RecordFailureIndexed ==
    ASSUME Indexed, Fencing', NEW w \in Worker, RecordFailure(w)
    PROVE  Indexed'
BY LoseClaimIndexed, FailTaskIndexed DEF RecordFailure

LEMMA LockTaskIndexed ==
    ASSUME Indexed, Fencing', NEW w \in Worker, LockTask(w)
    PROVE  Indexed'
<1>1. CASE /\ GoTo(w, "verifyProduct")
           /\ UNCHANGED <<queueVars, doc, embedding, hand, current, partial, expected,
                          reports, crashes, overtaken>>
    <2>1. pc[w] \in Expecting
        BY DEF LockTask, Expecting, Phase
    <2>2. /\ pc'[w] \in {"embed", "recordFailure", "lock", "verifyProduct"}
          /\ OthersStay(w)
        BY <1>1 DEF GoTo, Indexed, Fencing, TypeOK, OthersStay
    <2> QED
        BY <1>1, <2>1, <2>2, KeepExpecting
<1> QED
    BY <1>1, LoseClaimIndexed DEF LockTask

LEMMA VerifyProductIndexed ==
    ASSUME Indexed, Fencing', NEW w \in Worker, VerifyProduct(w)
    PROVE  Indexed'
<1> USE DEF Indexed, Fencing
<1>1. /\ pc'[w] = "verifyVariant"
      /\ partial'[w] = doc[ProductOf(w)].product
      /\ ProductOf(w)' = ProductOf(w) /\ TaskOf(w)' = TaskOf(w)
    BY DEF VerifyProduct, GoTo, TypeOK, ProductOf, TaskOf
<1>2. OthersStay(w)
    BY DEF VerifyProduct, GoTo, TypeOK, OthersStay
<1>3. TaskOf(w) = LatestTask(ProductOf(w)) => expected[w] = CurrentText(ProductOf(w))
    BY DEF VerifyProduct, FreshReads, Fresh, Expecting, Phase
<1>4. Fresh(w)'
    BY <1>1, <1>3 DEF VerifyProduct, Fresh, CurrentText, LatestTask, queueVars
<1> QED
    BY <1>2, <1>4, QuietMove DEF VerifyProduct, queueVars

LEMMA VerifyVariantIndexed ==
    ASSUME Indexed, Fencing', NEW w \in Worker, VerifyVariant(w)
    PROVE  Indexed'
<1> USE DEF Indexed, Fencing
<1>1. CASE FailTask(w)
    BY <1>1, FailTaskIndexed DEF VerifyVariant
<1>2. CASE ~FailTask(w)
    <2>1. /\ IndexText(partial[w], doc[ProductOf(w)].material) = expected[w]
          /\ pc'[w] = "findRow"
          /\ expected'[w] = expected[w]
          /\ ProductOf(w)' = ProductOf(w) /\ TaskOf(w)' = TaskOf(w)
          /\ UNCHANGED <<queueVars, doc, embedding, overtaken>>
        BY <1>2 DEF VerifyVariant, GoTo, TypeOK, ProductOf, TaskOf
    <2>2. OthersStay(w)
        BY <1>2 DEF VerifyVariant, GoTo, TypeOK, OthersStay
    <2>3. IsCurrent(expected[w], ProductOf(w))
        BY <2>1 DEF VerifyVariant, FreshReads, Fresh, IsCurrent, CurrentText, TextOf
    <2>4. TaskOf(w) = LatestTask(ProductOf(w)) => expected[w] = CurrentText(ProductOf(w))
        BY DEF VerifyVariant, FreshReads, Fresh, Expecting, Phase
    <2>5. Fresh(w)'
        BY <2>1, <2>3, <2>4 DEF Fresh, IsCurrent, CurrentText, LatestTask, queueVars
    <2> QED
        BY <2>1, <2>2, <2>5, QuietMove DEF queueVars
<1> QED
    BY <1>1, <1>2

LEMMA FindRowIndexed ==
    ASSUME Indexed, Fencing', NEW w \in Worker, FindRow(w)
    PROVE  Indexed'
<1> USE DEF Indexed, Fencing
<1>1. /\ pc'[w] \in {"insert", "update"}
      /\ expected'[w] = expected[w]
      /\ ProductOf(w)' = ProductOf(w) /\ TaskOf(w)' = TaskOf(w)
    BY DEF FindRow, GoTo, TypeOK, ProductOf, TaskOf
<1>2. OthersStay(w)
    BY DEF FindRow, GoTo, TypeOK, OthersStay
<1>3. IsCurrent(expected[w], ProductOf(w))
    BY DEF FindRow, FreshReads, Fresh
<1>4. TaskOf(w) = LatestTask(ProductOf(w)) => expected[w] = CurrentText(ProductOf(w))
    BY DEF FindRow, FreshReads, Fresh, Expecting, Phase
<1>5. Fresh(w)'
    BY <1>1, <1>3, <1>4
    DEF FindRow, Fresh, IsCurrent, CurrentText, LatestTask, queueVars
<1> QED
    BY <1>2, <1>5, QuietMove DEF FindRow, queueVars

\* The text written was verified in the same transaction.
LEMMA CommitVerified ==
    ASSUME Indexed, NEW w \in Worker, CommitEmbedding(w)
    PROVE  /\ IsCurrent(expected[w], ProductOf(w))
           /\ WritesCurrent
<1> USE DEF Indexed, Fencing
<1>1. ProductOf(w) \in Product
    BY BusyWorker DEF CommitEmbedding
<1>2. IsCurrent(expected[w], ProductOf(w))
    BY DEF CommitEmbedding, FreshReads, Fresh
<1>3. \/ embedding' = embedding
      \/ embedding' = [embedding EXCEPT ![ProductOf(w)] = expected[w]]
    BY DEF CommitEmbedding
<1> QED
    BY <1>1, <1>2, <1>3 DEF WritesCurrent, TypeOK

LEMMA CommitEmbeddingIndexed ==
    ASSUME Indexed, Fencing', NEW w \in Worker, CommitEmbedding(w)
    PROVE  Indexed'
<1>1. IsCurrent(expected[w], ProductOf(w)) /\ WritesCurrent /\ pc[w] # "idle"
    BY CommitVerified DEF CommitEmbedding
<1>2. CASE Finish(w, "raised") /\ UNCHANGED <<queueVars, embedding>>
    BY <1>2, EndIndexed DEF queueVars
<1>3. CASE /\ embedding' = [embedding EXCEPT ![ProductOf(w)] = expected[w]]
           /\ MarkCompleted(TaskOf(w))
           /\ Finish(w, "embedded")
    <2>1. ProductOf(w) \in Product
        BY <1>1, BusyWorker DEF Indexed, Fencing
    <2>2. embedding'[ProductOf(w)] = expected[w]
        BY <1>3, <2>1 DEF Indexed, Fencing, TypeOK
    <2> QED
        BY <1>1, <1>3, <2>2, CompleteCurrent
<1> QED
    BY <1>2, <1>3 DEF CommitEmbedding

LEMMA CrashIndexed ==
    ASSUME Indexed, Fencing', NEW w \in Worker, Crash(w)
    PROVE  Indexed'
<1>1. OthersStay(w) /\ pc'[w] = "idle"
    BY DEF Crash, GoTo, Indexed, Fencing, TypeOK, OthersStay
<1> QED
    BY <1>1, QuietMove DEF Crash, queueVars

----------------------------------------------------------------------------
(* Theorems.                                                               *)

LEMMA IndexedInit ==
    ASSUME Init
    PROVE  Indexed
BY FencingInit DEF Init, Indexed, Scheduled, FreshReads, CompletedMeansIndexed

LEMMA IndexedStep ==
    ASSUME Indexed, [Next]_vars
    PROVE  Indexed'
<1> USE DEF Indexed
<1>1. Fencing'
    BY FencingStep
<1>2. CASE UNCHANGED vars
    BY <1>1, <1>2, QueueOnlyIndexed DEF vars, queueVars, workerVars
<1>3. ASSUME NEW p \in Product, NEW d \in Document,
             CreateProduct(p, d) \/ PatchProduct(p, d)
      PROVE  Indexed'
    BY <1>1, <1>3, CreateProductIndexed, PatchProductIndexed
<1>4. ASSUME NEW w \in Worker, ClaimBatch(w)
      PROVE  Indexed'
    <2>1. \A t \in Task : status'[t] = "completed" => status[t] = "completed"
        BY <1>4 DEF ClaimBatch, ClaimIndexingTasks
    <2> QED
        BY <1>1, <1>4, <2>1, QueueOnlyIndexed DEF ClaimBatch, ClaimIndexingTasks
<1>5. ASSUME NEW t \in Task, ClockPasses(t)
      PROVE  Indexed'
    BY <1>1, <1>5, QueueOnlyIndexed DEF ClockPasses, Ripen, workerVars
<1>6. ASSUME NEW w \in Worker, Process(w)
      PROVE  Indexed'
    BY <1>1, <1>6, ReadProductIndexed, ReadVariantIndexed, ReadEmbeddingIndexed,
       SkipUnchangedIndexed, EmbedDocumentIndexed, RecordFailureIndexed,
       LockTaskIndexed, VerifyProductIndexed, VerifyVariantIndexed, FindRowIndexed,
       CommitEmbeddingIndexed
    DEF Process
<1>7. ASSUME NEW w \in Worker, Crash(w)
      PROVE  Indexed'
    BY <1>1, <1>7, CrashIndexed
<1> QED
    BY <1>2, <1>3, <1>4, <1>5, <1>6, <1>7 DEF Next

THEOREM IndexedInvariant == Spec => []Indexed
<1>1. Init => Indexed
    BY IndexedInit
<1>2. Indexed /\ [Next]_vars => Indexed'
    BY IndexedStep
<1> QED
    BY <1>1, <1>2, PTL DEF Spec

\* A product whose latest task is COMPLETED is indexed by its current text,
\* although the text was read in pieces and older tasks may finish later,
\* unless a change overtook a writing transaction (process_claimed_indexing_task).
THEOREM CompletedIsIndexed == Spec => []CompletedMeansIndexed
<1>1. Indexed => CompletedMeansIndexed
    BY DEF Indexed
<1> QED
    BY <1>1, IndexedInvariant, PTL

\* The check of phase D keeps every text out that was replaced before it
\* (_write_embedding_atomically).
THEOREM VerifiedWrites == Spec => WritesAreVerified
<1>1. Indexed /\ [Next]_vars =>
          [\A p \in Product :
              embedding'[p] # embedding[p] =>
                  embedding'[p] = TextOf(doc[p]) \/ p \in overtaken]_vars
    <2> SUFFICES ASSUME Indexed, Next
                 PROVE  WritesCurrent
        BY DEF WritesCurrent, IsCurrent, CurrentText
    <2>1. ASSUME NEW w \in Worker, Process(w)
          PROVE  WritesCurrent
        <3>1. CASE CommitEmbedding(w)
            BY <3>1, CommitVerified
        <3>2. CASE UNCHANGED embedding
            BY <3>2 DEF WritesCurrent
        <3> QED
            BY <2>1, <3>1, <3>2
            DEF Process, ReadProduct, ReadVariant, ReadEmbedding, SkipUnchanged,
                EmbedDocument, RecordFailure, LockTask, VerifyProduct, VerifyVariant,
                FindRow, LoseClaim, FailTask
    <2>2. CASE UNCHANGED embedding
        BY <2>2 DEF WritesCurrent
    <2> QED
        BY <2>1, <2>2
        DEF Next, CreateProduct, PatchProduct, ClaimBatch, Crash, ClockPasses
<1> QED
    BY <1>1, IndexedInvariant, PTL DEF Spec, WritesAreVerified
=============================================================================
