----------------------- MODULE ProductIndexingProofs -----------------------
(***************************************************************************)
(* Proofs about ProductIndexing, for any number of products, workers and   *)
(* tasks.  The inductive invariant relates the claims workers hold to the  *)
(* rows of the queue: a claim names a row by the value its attempts column *)
(* had, and the column only grows.                                         *)
(***************************************************************************)
EXTENDS ProductIndexing, TLAPS

\* Rows exist up to the number of tasks scheduled, for products that exist.
Rows ==
    \A t \in Task :
        /\ status[t] = "absent" <=> t[2] > scheduled[t[1]]
        /\ status[t] = "absent" => attempts[t] = 0
        /\ status[t] # "absent" => doc[t[1]] \in Document

\* What a worker's locals hold where it stands.
Locals ==
    \A w \in Worker :
        /\ pc[w] = "idle" <=> current[w] = NoClaim
        /\ pc[w] \in {"readVariant", "verifyVariant"} => partial[w] \in ProductPart

\* A claim names a row that exists, and a value its attempts column has had.
GrantedClaims ==
    \A w \in Worker : \A c \in Claims(w) :
        /\ c \in Claim
        /\ status[c.task] # "absent"
        /\ c.attempt <= attempts[c.task]

Fencing ==
    /\ TypeOK
    /\ Rows
    /\ Locals
    /\ GrantedClaims
    /\ ClaimsAreUnique
    /\ WriterOwnsTask
    /\ SuccessIsFinal
    /\ RetryBudget

----------------------------------------------------------------------------
(* Lemmas.                                                                 *)

LEMMA TaskParts ==
    ASSUME NEW t \in Task
    PROVE  /\ t[1] \in Product
           /\ t[2] \in 1..MaxTasks
           /\ t = <<t[1], t[2]>>
BY DEF Task

\* A worker that is not idle works on a claim of a row that exists.
LEMMA BusyWorker ==
    ASSUME TypeOK, Rows, Locals, GrantedClaims, NEW w \in Worker, pc[w] # "idle"
    PROVE  /\ current[w] \in Claim
           /\ current[w] # NoClaim
           /\ TaskOf(w) \in Task
           /\ ProductOf(w) \in Product
           /\ status[TaskOf(w)] # "absent"
           /\ doc[ProductOf(w)] \in Document
<1>1. current[w] \in Claim /\ current[w] # NoClaim
    BY DEF TypeOK, Locals
<1>2. TaskOf(w) \in Task
    BY <1>1 DEF Claim, TaskOf
<1>3. status[TaskOf(w)] # "absent"
    BY <1>1 DEF GrantedClaims, Claims, TaskOf
<1>4. ProductOf(w) \in Product
    BY <1>2, TaskParts DEF ProductOf
<1>5. doc[ProductOf(w)] \in Document
    BY <1>2, <1>3 DEF Rows, ProductOf
<1> QED
    BY <1>1, <1>2, <1>3, <1>4, <1>5

\* Two workers inside the writing transaction work on different tasks.
LEMMA WritersDiffer ==
    ASSUME Fencing, NEW v \in Worker, NEW w \in Worker, v # w,
           pc[v] \in WriteWindow, pc[w] \in WriteWindow
    PROVE  TaskOf(v) # TaskOf(w)
<1>1. current[v] \in Claim /\ current[w] \in Claim
    BY BusyWorker DEF Fencing, WriteWindow
<1>2. current[v] # NoClaim /\ current[w] # NoClaim
    BY BusyWorker DEF Fencing, WriteWindow
<1>3. OwnsClaim(current[v]) /\ OwnsClaim(current[w])
    BY DEF Fencing, WriterOwnsTask
<1>4. current[v] # current[w]
    BY <1>2 DEF Fencing, ClaimsAreUnique, Claims
<1> QED
    BY <1>1, <1>3, <1>4 DEF OwnsClaim, TaskOf, Claim

----------------------------------------------------------------------------
(* Steps of one worker.                                                    *)

\* A step that moves a worker and lets no one into the writing transaction
\* without owning his claim.
LEMMA LocalMove ==
    ASSUME Fencing, TypeOK', Locals',
           UNCHANGED <<queueVars, doc, hand, current, reports>>,
           \A w \in Worker : pc'[w] \in WriteWindow => OwnsClaim(current[w])
    PROVE  Fencing'
<1> USE DEF Fencing, queueVars
<1>1. Rows'
    BY DEF Rows
<1>2. GrantedClaims' /\ ClaimsAreUnique'
    BY DEF GrantedClaims, ClaimsAreUnique, Claims
<1>3. WriterOwnsTask'
    BY DEF WriterOwnsTask, OwnsClaim
<1>4. SuccessIsFinal' /\ RetryBudget'
    BY DEF SuccessIsFinal, RetryBudget
<1> QED
    BY <1>1, <1>2, <1>3, <1>4

\* A call that ends drops its claim and keeps the worker's batch.
LEMMA FinishDrops ==
    ASSUME Fencing, NEW w \in Worker, NEW o \in Outcome, pc[w] # "idle", Finish(w, o)
    PROVE  /\ Locals'
           /\ ClaimsAreUnique'
           /\ \A v \in Worker : Claims(v)' \subseteq Claims(v)
           /\ \A v \in Worker : pc'[v] # "idle" =>
                 v # w /\ pc[v] = pc'[v] /\ current'[v] = current[v]
           /\ pc' \in [Worker -> Phase]
           /\ hand' \in [Worker -> SUBSET Claim]
           /\ current' \in [Worker -> Claim \cup {NoClaim}]
           /\ partial' \in [Worker -> ProductPart \cup {NoText}]
           /\ expected' \in [Worker -> Text \cup {NoText}]
           /\ reports' \subseteq [claim : Claim, outcome : Outcome]
           /\ reports' = reports \cup {[claim |-> current[w], outcome |-> o]}
           /\ UNCHANGED <<doc, crashes, overtaken>>
<1> USE DEF Fencing
<1>1. current[w] \in Claim
    BY BusyWorker
<1>2. /\ pc' \in [Worker -> Phase]
      /\ hand' \in [Worker -> SUBSET Claim]
      /\ current' \in [Worker -> Claim \cup {NoClaim}]
      /\ partial' \in [Worker -> ProductPart \cup {NoText}]
      /\ expected' \in [Worker -> Text \cup {NoText}]
      /\ UNCHANGED <<doc, crashes, hand, overtaken>>
    BY DEF Finish, GoTo, TypeOK, Phase
<1>3. /\ reports' = reports \cup {[claim |-> current[w], outcome |-> o]}
      /\ reports' \subseteq [claim : Claim, outcome : Outcome]
    BY <1>1 DEF Finish, TypeOK
<1>4. \A v \in Worker :
          /\ pc'[v] = IF v = w THEN "idle" ELSE pc[v]
          /\ current'[v] = IF v = w THEN NoClaim ELSE current[v]
          /\ v # w => partial'[v] = partial[v]
    BY DEF Finish, GoTo, TypeOK
<1>5. Locals'
    BY <1>4 DEF Locals
<1>6. \A v \in Worker : Claims(v)' \subseteq Claims(v)
    BY <1>2, <1>4 DEF Claims
<1>7. NoClaim \notin hand[w]
    BY IndexingAssumption DEF TypeOK
<1>8. ClaimsAreUnique'
    BY <1>2, <1>4, <1>6, <1>7 DEF ClaimsAreUnique
<1> QED
    BY <1>2, <1>3, <1>4, <1>5, <1>6, <1>8

\* A call that changes no row and does not report success.
LEMMA LeaveRow ==
    ASSUME Fencing, NEW w \in Worker, NEW o \in Outcome \ {"embedded", "skipped"},
           pc[w] # "idle", Finish(w, o), UNCHANGED <<queueVars, embedding>>
    PROVE  Fencing'
<1> USE DEF Fencing, queueVars
<1>1. TypeOK'
    BY FinishDrops DEF TypeOK, QueueTypeOK
<1>2. Rows' /\ RetryBudget'
    BY FinishDrops DEF Rows, RetryBudget
<1>3. GrantedClaims'
    BY FinishDrops DEF GrantedClaims
<1>4. WriterOwnsTask'
    BY FinishDrops DEF WriterOwnsTask, OwnsClaim, WriteWindow
<1>5. SuccessIsFinal'
    BY FinishDrops DEF SuccessIsFinal
<1> QED
    BY <1>1, <1>2, <1>3, <1>4, <1>5, FinishDrops

\* No other worker is inside the writing transaction of w's task.
Alone(w) ==
    \A v \in Worker \ {w} : pc[v] \in WriteWindow => TaskOf(v) # TaskOf(w)

\* The owner of a claim completes its task.
LEMMA CompleteRow ==
    ASSUME Fencing, NEW w \in Worker, NEW o \in {"embedded", "skipped"},
           pc[w] # "idle", OwnsClaim(current[w]), Alone(w),
           MarkCompleted(TaskOf(w)), Finish(w, o),
           embedding' \in [Product -> Text \cup {NoText}]
    PROVE  Fencing'
<1> USE DEF Fencing
<1>1. TaskOf(w) \in Task /\ current[w] \in Claim
    BY BusyWorker
<1>2. /\ status[TaskOf(w)] = "processing"
      /\ attempts[TaskOf(w)] = current[w].attempt
    BY DEF OwnsClaim, TaskOf
<1>3. /\ \A t \in Task : status'[t] = IF t = TaskOf(w) THEN "completed" ELSE status[t]
      /\ UNCHANGED <<scheduled, attempts, ripe>>
    BY <1>1 DEF MarkCompleted, TypeOK, QueueTypeOK
<1>4. o \in Outcome
    BY DEF Outcome
<1>5. TypeOK'
    BY <1>4, FinishDrops DEF TypeOK, QueueTypeOK, MarkCompleted
<1>6. Rows'
    BY <1>2, <1>3, <1>4, FinishDrops DEF Rows
<1>7. RetryBudget'
    BY <1>2, <1>3 DEF RetryBudget
<1>8. GrantedClaims'
    <2>1. \A v \in Worker : \A c \in Claims(v)' : c \in Claim /\ c.task \in Task
        BY <1>4, FinishDrops DEF GrantedClaims, Claim
    <2> QED
        BY <1>3, <1>4, <2>1, FinishDrops DEF GrantedClaims
<1>9. WriterOwnsTask'
    <2> SUFFICES ASSUME NEW v \in Worker, pc'[v] \in WriteWindow
                 PROVE  OwnsClaim(current[v])'
        BY DEF WriterOwnsTask
    <2>1. pc[v] \in WriteWindow /\ current'[v] = current[v] /\ v # w
        BY <1>4, FinishDrops DEF WriteWindow
    <2>2. TaskOf(v) \in Task /\ TaskOf(v) # TaskOf(w)
        BY <2>1, BusyWorker DEF Alone, WriteWindow
    <2> QED
        BY <1>3, <2>1, <2>2 DEF WriterOwnsTask, OwnsClaim, TaskOf
<1>10. SuccessIsFinal'
    <2> SUFFICES ASSUME NEW r \in reports', r.outcome \in {"embedded", "skipped"}
                 PROVE  /\ status'[r.claim.task] = "completed"
                        /\ attempts'[r.claim.task] = r.claim.attempt
        BY DEF SuccessIsFinal
    <2>1. CASE r \in reports
        BY <1>2, <1>3, <2>1 DEF SuccessIsFinal, TypeOK, Claim
    <2>2. CASE r = [claim |-> current[w], outcome |-> o]
        BY <1>1, <1>2, <1>3, <2>2 DEF TaskOf
    <2> QED
        BY <1>4, <2>1, <2>2, FinishDrops
<1> QED
    BY <1>4, <1>5, <1>6, <1>7, <1>8, <1>9, <1>10, FinishDrops

\* The owner of a claim fails its task.
LEMMA FailRow ==
    ASSUME Fencing, NEW w \in Worker,
           pc[w] # "idle", OwnsClaim(current[w]), Alone(w), FailTask(w)
    PROVE  Fencing'
<1> USE DEF Fencing
<1> DEFINE o == FailureResult(TaskOf(w))
<1>1. TaskOf(w) \in Task /\ current[w] \in Claim
    BY BusyWorker
<1>2. status[TaskOf(w)] = "processing"
    BY DEF OwnsClaim, TaskOf
<1>3. /\ \A t \in Task :
            status'[t] = IF t = TaskOf(w) THEN FailureOutcome(t) ELSE status[t]
      /\ UNCHANGED <<scheduled, attempts>>
    BY <1>1 DEF FailTask, MarkFailed, TypeOK, QueueTypeOK
<1>4. o \in Outcome \ {"embedded", "skipped"} /\ Finish(w, o)
    BY DEF FailureResult, Outcome, FailTask
<1> HIDE DEF o
<1>5. TypeOK'
    BY <1>4, FinishDrops
    DEF TypeOK, QueueTypeOK, FailTask, MarkFailed, FailureOutcome
<1>6. Rows'
    BY <1>2, <1>3, <1>4, FinishDrops DEF Rows, FailureOutcome
<1>7. RetryBudget'
    BY <1>3, QueueAssumption DEF RetryBudget, FailureOutcome, TypeOK, QueueTypeOK
<1>8. GrantedClaims'
    <2>1. \A v \in Worker : \A c \in Claims(v)' : c \in Claim /\ c.task \in Task
        BY <1>4, FinishDrops DEF GrantedClaims, Claim
    <2> QED
        BY <1>3, <1>4, <2>1, FinishDrops DEF GrantedClaims, FailureOutcome
<1>9. WriterOwnsTask'
    <2> SUFFICES ASSUME NEW v \in Worker, pc'[v] \in WriteWindow
                 PROVE  OwnsClaim(current[v])'
        BY DEF WriterOwnsTask
    <2>1. pc[v] \in WriteWindow /\ current'[v] = current[v] /\ v # w
        BY <1>4, FinishDrops DEF WriteWindow
    <2>2. TaskOf(v) \in Task /\ TaskOf(v) # TaskOf(w)
        BY <2>1, BusyWorker DEF Alone, WriteWindow
    <2> QED
        BY <1>3, <2>1, <2>2 DEF WriterOwnsTask, OwnsClaim, TaskOf
<1>10. SuccessIsFinal'
    <2>1. \A r \in reports' : r.outcome \in {"embedded", "skipped"} => r \in reports
        BY <1>4, FinishDrops
    <2> QED
        BY <1>2, <1>3, <2>1 DEF SuccessIsFinal, TypeOK, Claim
<1> QED
    BY <1>4, <1>5, <1>6, <1>7, <1>8, <1>9, <1>10, FinishDrops

----------------------------------------------------------------------------
(* The steps that change the queue without a worker's call ending.         *)

\* schedule_product_indexing beside a write of the product's fields.
LEMMA ScheduleRow ==
    ASSUME Fencing, NEW p \in Product, NEW d \in Document,
           ScheduleProductIndexing(p), doc' = [doc EXCEPT ![p] = d],
           UNCHANGED <<embedding, workerVars, reports, crashes>>,
           overtaken' \subseteq Product
    PROVE  Fencing'
<1> USE DEF Fencing, workerVars
<1> DEFINE new == <<p, scheduled[p] + 1>>
<1>1. new \in Task /\ new[1] = p /\ new[2] = scheduled[p] + 1
    BY QueueAssumption DEF ScheduleProductIndexing, Task, TypeOK, QueueTypeOK
<1>2. status[new] = "absent" /\ attempts[new] = 0
    BY <1>1 DEF Rows, TypeOK, QueueTypeOK
<1>3. /\ \A t \in Task : status'[t] = IF t = new THEN "pending" ELSE status[t]
      /\ \A q \in Product :
            scheduled'[q] = IF q = p THEN scheduled[p] + 1 ELSE scheduled[q]
      /\ \A q \in Product : doc'[q] = IF q = p THEN d ELSE doc[q]
      /\ UNCHANGED attempts
    BY <1>1 DEF ScheduleProductIndexing, TypeOK, QueueTypeOK
<1>4. TypeOK'
    BY <1>1, QueueAssumption DEF TypeOK, QueueTypeOK, ScheduleProductIndexing
<1> HIDE DEF new
<1>5. Rows'
    <2> SUFFICES ASSUME NEW t \in Task
                 PROVE  /\ status'[t] = "absent" <=> t[2] > scheduled'[t[1]]
                        /\ status'[t] = "absent" => attempts'[t] = 0
                        /\ status'[t] # "absent" => doc'[t[1]] \in Document
        BY DEF Rows
    <2>1. t[1] \in Product /\ t[2] \in Nat /\ t = <<t[1], t[2]>>
        BY TaskParts
    <2>2. CASE t = new
        BY <1>1, <1>3, <2>1, <2>2 DEF TypeOK, QueueTypeOK
    <2>3. CASE t # new /\ t[1] = p
        <3>1. t[2] # scheduled[p] + 1
            BY <2>1, <2>3 DEF new
        <3>2. /\ status'[t] = status[t] /\ attempts'[t] = attempts[t]
              /\ scheduled'[t[1]] = scheduled[p] + 1 /\ doc'[t[1]] = d
            BY <1>3, <2>1, <2>3
        <3>3. scheduled[p] \in Nat
            BY DEF TypeOK, QueueTypeOK
        <3>4. /\ status[t] = "absent" <=> t[2] > scheduled[p]
              /\ status[t] = "absent" => attempts[t] = 0
            BY <2>3 DEF Rows
        <3> HIDE DEF Fencing
        <3>5. t[2] > scheduled[p] <=> t[2] > scheduled[p] + 1
            BY <2>1, <3>1, <3>3
        <3> QED
            BY <3>2, <3>4, <3>5
    <2>4. CASE t[1] # p
        BY <1>1, <1>3, <2>1, <2>4 DEF Rows
    <2> QED
        BY <2>2, <2>3, <2>4
<1>6. Locals' /\ ClaimsAreUnique'
    BY DEF Locals, ClaimsAreUnique, Claims
<1>7. GrantedClaims'
    <2>1. \A v \in Worker : \A c \in Claims(v)' : c \in Claims(v) /\ c.task \in Task
        BY DEF GrantedClaims, Claims, Claim
    <2> QED
        BY <1>3, <2>1 DEF GrantedClaims
<1>8. WriterOwnsTask'
    <2> SUFFICES ASSUME NEW v \in Worker, pc[v] \in WriteWindow
                 PROVE  OwnsClaim(current[v])'
        BY DEF WriterOwnsTask
    <2>1. TaskOf(v) \in Task /\ TaskOf(v) # new
        BY <1>2, BusyWorker DEF WriteWindow
    <2> QED
        BY <1>3, <2>1 DEF WriterOwnsTask, OwnsClaim, TaskOf
<1>9. SuccessIsFinal'
    BY <1>2, <1>3 DEF SuccessIsFinal, TypeOK, Claim
<1>10. RetryBudget'
    BY <1>2, <1>3, QueueAssumption DEF RetryBudget
<1> QED
    BY <1>4, <1>5, <1>6, <1>7, <1>8, <1>9, <1>10

\* A committed claim: its token is larger than that of any claim on the row.
LEMMA ClaimRows ==
    ASSUME Fencing, NEW w \in Worker, ClaimBatch(w)
    PROVE  Fencing'
<1> USE DEF Fencing
<1>1. PICK S \in (SUBSET Eligible) \ {{}} :
          /\ ClaimIndexingTasks(S, Locked)
          /\ hand' = [hand EXCEPT ![w] = {ClaimedIndexingTask(t) : t \in S}]
    BY DEF ClaimBatch
<1>2. S \subseteq Task /\ (\A t \in S : status[t] \in {"pending", "processing"})
    BY DEF Eligible
<1>3. /\ \A t \in Task : status'[t] = IF t \in S THEN "processing" ELSE status[t]
      /\ \A t \in Task : attempts'[t] = IF t \in S THEN attempts[t] + 1 ELSE attempts[t]
      /\ UNCHANGED <<scheduled, doc, embedding, pc, current, partial, expected,
                     reports, crashes, overtaken>>
    BY <1>1 DEF ClaimBatch, ClaimIndexingTasks
<1>4. TypeOK'
    <2>1. hand' \in [Worker -> SUBSET Claim]
        BY <1>1, <1>2 DEF TypeOK, QueueTypeOK, ClaimedIndexingTask, Claim
    <2>2. ripe' \in [Task -> BOOLEAN]
        <3>1. ripe \in [Task -> BOOLEAN]
            BY DEF TypeOK, QueueTypeOK
        <3>2. ripe' = [t \in Task |-> IF t \in S THEN FALSE ELSE ripe[t]]
            BY <1>1 DEF ClaimIndexingTasks
        <3> QED
            BY <3>1, <3>2, Zenon
    <2>3. /\ scheduled' \in [Product -> 0..MaxTasks]
          /\ status' \in [Task -> {"absent", "pending", "processing", "completed",
                                   "failed"}]
          /\ attempts' \in [Task -> Nat]
        BY <1>1 DEF TypeOK, QueueTypeOK, ClaimIndexingTasks
    <2> QED
        BY <1>3, <2>1, <2>2, <2>3 DEF TypeOK, QueueTypeOK
<1>5. Rows' /\ Locals'
    BY <1>2, <1>3 DEF Rows, Locals
<1>6. /\ \A v \in Worker \ {w} : hand'[v] = hand[v]
      /\ hand'[w] = {ClaimedIndexingTask(t) : t \in S}
      /\ current'[w] = NoClaim
    BY <1>1, <1>3 DEF TypeOK, ClaimBatch, Locals
<1>7. /\ \A v \in Worker \ {w} : Claims(v)' = Claims(v)
      /\ \A c \in Claims(w)' : c.task \in S /\ c.attempt = attempts[c.task] + 1
      /\ Claims(w)' \subseteq Claim
    <2>1. \A v \in Worker \ {w} : Claims(v)' = Claims(v)
        BY <1>3, <1>6 DEF Claims
    <2>2. Claims(w)' = hand'[w]
        BY <1>6 DEF Claims
    <2>3. \A c \in hand'[w] : c.task \in S /\ c.attempt = attempts[c.task] + 1
        BY <1>6 DEF ClaimedIndexingTask
    <2> QED
        BY <1>4, <2>1, <2>2, <2>3 DEF TypeOK
<1>8. \A v \in Worker : \A c \in Claims(v) : c.task \in Task /\ c.attempt \in Nat
    BY DEF GrantedClaims, Claim
<1>9. GrantedClaims'
    <2>1. \A v \in Worker : \A c \in Claims(v)' :
             c.task \in Task /\ c.attempt <= attempts'[c.task]
        BY <1>2, <1>3, <1>7, <1>8 DEF GrantedClaims, TypeOK, QueueTypeOK
    <2>2. \A v \in Worker : \A c \in Claims(v)' : c \in Claim /\ status'[c.task] # "absent"
        BY <1>2, <1>3, <1>7, <1>8 DEF GrantedClaims
    <2> QED
        BY <2>1, <2>2 DEF GrantedClaims
<1>10. ClaimsAreUnique'
    <2>1. \A v \in Worker \ {w} : Claims(v)' \cap Claims(w)' = {}
        BY <1>2, <1>7, <1>8 DEF GrantedClaims, TypeOK, QueueTypeOK
    <2>2. \A u, v \in Worker : u # v => Claims(u)' \cap Claims(v)' = {}
        BY <1>7, <2>1 DEF ClaimsAreUnique
    <2>3. \A v \in Worker : current'[v] \notin hand'[v]
        BY <1>3, <1>4, <1>6, IndexingAssumption DEF ClaimsAreUnique, TypeOK
    <2> QED
        BY <2>2, <2>3 DEF ClaimsAreUnique
<1>11. WriterOwnsTask'
    <2> SUFFICES ASSUME NEW v \in Worker, pc[v] \in WriteWindow
                 PROVE  OwnsClaim(current[v])'
        BY <1>3 DEF WriterOwnsTask
    <2>1. TaskOf(v) \in Task /\ TaskOf(v) \notin S
        BY <1>1, BusyWorker DEF ClaimIndexingTasks, Locked, WriteWindow
    <2> QED
        BY <1>3, <2>1 DEF WriterOwnsTask, OwnsClaim, TaskOf
<1>12. SuccessIsFinal'
    BY <1>2, <1>3 DEF SuccessIsFinal, TypeOK, Claim
<1>13. RetryBudget'
    BY <1>2, <1>3 DEF RetryBudget
<1> QED
    BY <1>4, <1>5, <1>9, <1>10, <1>11, <1>12, <1>13

LEMMA CreateProductStep ==
    ASSUME Fencing, NEW p \in Product, NEW d \in Document, CreateProduct(p, d)
    PROVE  Fencing'
<1>1. overtaken' \subseteq Product
    BY DEF CreateProduct, Fencing, TypeOK
<1> QED
    BY <1>1, ScheduleRow DEF CreateProduct

LEMMA PatchProductStep ==
    ASSUME Fencing, NEW p \in Product, NEW d \in Document, PatchProduct(p, d)
    PROVE  Fencing'
<1>0. overtaken' \subseteq Product
    BY DEF PatchProduct, Fencing, TypeOK
<1>1. CASE SemanticChange(doc[p], d)
    BY <1>0, <1>1, ScheduleRow DEF PatchProduct
<1>2. CASE ~SemanticChange(doc[p], d)
    <2>1. doc' = doc
        BY <1>2 DEF PatchProduct, SemanticChange, Fencing, TypeOK
    <2> QED
        BY <1>0, <1>2, <2>1 DEF PatchProduct, Fencing, TypeOK, QueueTypeOK, queueVars,
                          workerVars, Rows, Locals, GrantedClaims, ClaimsAreUnique,
                          Claims, WriterOwnsTask, OwnsClaim, TaskOf, SuccessIsFinal,
                          RetryBudget
<1> QED
    BY <1>1, <1>2

LEMMA ClockPassesStep ==
    ASSUME Fencing, NEW t \in Task, ClockPasses(t)
    PROVE  Fencing'
<1>1. ripe' \in [Task -> BOOLEAN]
    BY DEF ClockPasses, Ripen, Fencing, TypeOK, QueueTypeOK
<1> QED
    BY <1>1 DEF ClockPasses, Ripen, Fencing, TypeOK, QueueTypeOK, workerVars, Rows,
                Locals, GrantedClaims, ClaimsAreUnique, Claims, WriterOwnsTask,
                OwnsClaim, TaskOf, SuccessIsFinal, RetryBudget

----------------------------------------------------------------------------
(* The steps of a worker.                                                  *)

\* The claim moves from the batch to the worker's hand.
LEMMA ReadProductStep ==
    ASSUME Fencing, NEW w \in Worker, ReadProduct(w)
    PROVE  Fencing'
<1> USE DEF Fencing
<1>1. PICK c \in hand[w] :
          /\ current' = [current EXCEPT ![w] = c]
          /\ hand' = [hand EXCEPT ![w] = @ \ {c}]
          /\ partial' = [partial EXCEPT ![w] = doc[c.task[1]].product]
    BY DEF ReadProduct
<1>2. c \in Claim /\ c # NoClaim
    BY IndexingAssumption DEF TypeOK
<1>3. status[c.task] # "absent"
    BY DEF GrantedClaims, Claims
<1>4. doc[c.task[1]] \in Document
    BY <1>2, <1>3 DEF Rows, Claim
<1>5. partial' \in [Worker -> ProductPart \cup {NoText}] /\ partial'[w] \in ProductPart
    BY <1>1, <1>4 DEF TypeOK, Document
<1>6. TypeOK'
    BY <1>1, <1>2, <1>5 DEF TypeOK, QueueTypeOK, ReadProduct, queueVars, GoTo, Phase
<1>7. /\ \A v \in Worker : pc'[v] = IF v = w THEN "readVariant" ELSE pc[v]
      /\ \A v \in Worker : current'[v] = IF v = w THEN c ELSE current[v]
      /\ \A v \in Worker : hand'[v] = IF v = w THEN hand[w] \ {c} ELSE hand[v]
      /\ \A v \in Worker \ {w} : partial'[v] = partial[v]
      /\ UNCHANGED <<queueVars, doc, embedding, expected, reports, crashes, overtaken>>
    BY <1>1 DEF TypeOK, ReadProduct, GoTo
<1>8. Locals'
    BY <1>2, <1>5, <1>7 DEF Locals
<1>9. \A v \in Worker : Claims(v)' \subseteq Claims(v)
    BY <1>7 DEF Claims
<1>10. GrantedClaims'
    BY <1>7, <1>9 DEF GrantedClaims, queueVars
<1>11. ClaimsAreUnique'
    BY <1>7, <1>9 DEF ClaimsAreUnique
<1>12. Rows' /\ SuccessIsFinal' /\ RetryBudget'
    BY <1>7 DEF Rows, SuccessIsFinal, RetryBudget, queueVars
<1>13. WriterOwnsTask'
    BY <1>7 DEF WriterOwnsTask, OwnsClaim, WriteWindow, queueVars
<1> QED
    BY <1>6, <1>8, <1>10, <1>11, <1>12, <1>13

LEMMA ReadVariantStep ==
    ASSUME Fencing, NEW w \in Worker, ReadVariant(w)
    PROVE  Fencing'
<1> USE DEF Fencing
<1>1. partial[w] \in ProductPart /\ doc[ProductOf(w)] \in Document
    BY BusyWorker DEF ReadVariant, Locals
<1>2. IndexText(partial[w], doc[ProductOf(w)].material) \in Text
    BY <1>1 DEF Text, Document
<1>3. TypeOK'
    BY <1>2 DEF ReadVariant, TypeOK, QueueTypeOK, queueVars, GoTo, Phase
<1>4. Locals'
    BY DEF ReadVariant, Locals, TypeOK, GoTo
<1>5. \A v \in Worker : pc'[v] \in WriteWindow => OwnsClaim(current[v])
    BY DEF ReadVariant, GoTo, TypeOK, WriterOwnsTask, WriteWindow
<1> QED
    BY <1>3, <1>4, <1>5, LocalMove DEF ReadVariant

LEMMA ReadEmbeddingStep ==
    ASSUME Fencing, NEW w \in Worker, ReadEmbedding(w)
    PROVE  Fencing'
<1> USE DEF Fencing
<1>1. TypeOK'
    BY DEF ReadEmbedding, TypeOK, QueueTypeOK, queueVars, GoTo, Phase
<1>2. Locals'
    BY DEF ReadEmbedding, Locals, TypeOK, GoTo
<1>3. \A v \in Worker : pc'[v] \in WriteWindow => OwnsClaim(current[v])
    BY DEF ReadEmbedding, GoTo, TypeOK, WriterOwnsTask, WriteWindow
<1> QED
    BY <1>1, <1>2, <1>3, LocalMove DEF ReadEmbedding

LEMMA EmbedDocumentStep ==
    ASSUME Fencing, NEW w \in Worker, EmbedDocument(w)
    PROVE  Fencing'
<1> USE DEF Fencing
<1>1. TypeOK'
    BY DEF EmbedDocument, TypeOK, QueueTypeOK, queueVars, GoTo, Phase
<1>2. Locals'
    BY DEF EmbedDocument, Locals, TypeOK, GoTo
<1>3. \A v \in Worker : pc'[v] \in WriteWindow => OwnsClaim(current[v])
    BY DEF EmbedDocument, GoTo, TypeOK, WriterOwnsTask, WriteWindow
<1> QED
    BY <1>1, <1>2, <1>3, LocalMove DEF EmbedDocument

LEMMA LoseClaimStep ==
    ASSUME Fencing, NEW w \in Worker, pc[w] # "idle", LoseClaim(w)
    PROVE  Fencing'
<1>1. "stale" \in Outcome \ {"embedded", "skipped"}
    BY DEF Outcome
<1>2. "raised" \in Outcome \ {"embedded", "skipped"}
    BY DEF Outcome
<1> QED
    BY <1>1, <1>2, LeaveRow DEF LoseClaim

\* The row lock keeps every other worker out of the writing transaction.
LEMMA LockExcludes ==
    ASSUME NEW w \in Worker, TaskOf(w) \notin Locked
    PROVE  Alone(w)
BY DEF Alone, Locked

\* So does the claim of a worker that is inside it.
LEMMA WriterAlone ==
    ASSUME Fencing, NEW w \in Worker, pc[w] \in WriteWindow
    PROVE  OwnsClaim(current[w]) /\ Alone(w)
BY WritersDiffer DEF Alone, Fencing, WriterOwnsTask

LEMMA SkipUnchangedStep ==
    ASSUME Fencing, NEW w \in Worker, SkipUnchanged(w)
    PROVE  Fencing'
<1>1. Alone(w) /\ pc[w] # "idle"
    BY LockExcludes DEF SkipUnchanged
<1>2. CASE LoseClaim(w)
    BY <1>1, <1>2, LoseClaimStep
<1>3. CASE /\ OwnsClaim(current[w])
           /\ MarkCompleted(TaskOf(w))
           /\ Finish(w, "skipped")
           /\ UNCHANGED embedding
    BY <1>1, <1>3, CompleteRow DEF Fencing, TypeOK
<1> QED
    BY <1>2, <1>3 DEF SkipUnchanged

LEMMA RecordFailureStep ==
    ASSUME Fencing, NEW w \in Worker, RecordFailure(w)
    PROVE  Fencing'
<1>1. Alone(w) /\ pc[w] # "idle"
    BY LockExcludes DEF RecordFailure
<1> QED
    BY <1>1, LoseClaimStep, FailRow DEF RecordFailure

LEMMA LockTaskStep ==
    ASSUME Fencing, NEW w \in Worker, LockTask(w)
    PROVE  Fencing'
<1> USE DEF Fencing
<1>1. CASE LoseClaim(w)
    BY <1>1, LoseClaimStep DEF LockTask
<1>2. CASE /\ OwnsClaim(current[w])
           /\ GoTo(w, "verifyProduct")
           /\ UNCHANGED <<queueVars, doc, embedding, hand, current, partial, expected,
                          reports, crashes, overtaken>>
    <2>1. TypeOK'
        BY <1>2 DEF TypeOK, QueueTypeOK, queueVars, GoTo, Phase
    <2>2. Locals'
        BY <1>2 DEF LockTask, Locals, TypeOK, GoTo
    <2>3. \A v \in Worker : pc'[v] \in WriteWindow => OwnsClaim(current[v])
        BY <1>2 DEF GoTo, TypeOK, WriterOwnsTask
    <2> QED
        BY <1>2, <2>1, <2>2, <2>3, LocalMove
<1> QED
    BY <1>1, <1>2 DEF LockTask

LEMMA VerifyProductStep ==
    ASSUME Fencing, NEW w \in Worker, VerifyProduct(w)
    PROVE  Fencing'
<1> USE DEF Fencing
<1>1. doc[ProductOf(w)].product \in ProductPart
    BY BusyWorker DEF VerifyProduct, Document
<1>2. TypeOK'
    BY <1>1 DEF VerifyProduct, TypeOK, QueueTypeOK, queueVars, GoTo, Phase
<1>3. Locals'
    BY <1>1 DEF VerifyProduct, Locals, TypeOK, GoTo
<1>4. \A v \in Worker : pc'[v] \in WriteWindow => OwnsClaim(current[v])
    BY DEF VerifyProduct, GoTo, TypeOK, WriterOwnsTask, WriteWindow
<1> QED
    BY <1>2, <1>3, <1>4, LocalMove DEF VerifyProduct

LEMMA VerifyVariantStep ==
    ASSUME Fencing, NEW w \in Worker, VerifyVariant(w)
    PROVE  Fencing'
<1> USE DEF Fencing
<1>1. OwnsClaim(current[w]) /\ Alone(w)
    BY WriterAlone DEF VerifyVariant, WriteWindow
<1>2. CASE FailTask(w)
    BY <1>1, <1>2, FailRow DEF VerifyVariant
<1>3. CASE /\ partial' = [partial EXCEPT ![w] = NoText]
           /\ GoTo(w, "findRow")
           /\ UNCHANGED <<queueVars, doc, embedding, hand, current, expected,
                          reports, crashes, overtaken>>
    <2>1. TypeOK'
        BY <1>3 DEF TypeOK, QueueTypeOK, queueVars, GoTo, Phase
    <2>2. Locals'
        BY <1>3 DEF VerifyVariant, Locals, TypeOK, GoTo
    <2>3. \A v \in Worker : pc'[v] \in WriteWindow => OwnsClaim(current[v])
        BY <1>1, <1>3 DEF GoTo, TypeOK, WriterOwnsTask
    <2> QED
        BY <1>3, <2>1, <2>2, <2>3, LocalMove
<1> QED
    BY <1>2, <1>3 DEF VerifyVariant

LEMMA FindRowStep ==
    ASSUME Fencing, NEW w \in Worker, FindRow(w)
    PROVE  Fencing'
<1> USE DEF Fencing
<1>1. OwnsClaim(current[w])
    BY WriterAlone DEF FindRow, WriteWindow
<1>2. TypeOK'
    BY DEF FindRow, TypeOK, QueueTypeOK, queueVars, GoTo, Phase
<1>3. Locals'
    BY DEF FindRow, Locals, TypeOK, GoTo
<1>4. \A v \in Worker : pc'[v] \in WriteWindow => OwnsClaim(current[v])
    BY <1>1 DEF FindRow, GoTo, TypeOK, WriterOwnsTask
<1> QED
    BY <1>2, <1>3, <1>4, LocalMove DEF FindRow

LEMMA CommitEmbeddingStep ==
    ASSUME Fencing, NEW w \in Worker, CommitEmbedding(w)
    PROVE  Fencing'
<1>1. OwnsClaim(current[w]) /\ Alone(w) /\ pc[w] # "idle"
    BY WriterAlone DEF CommitEmbedding, WriteWindow
<1>2. CASE Finish(w, "raised") /\ UNCHANGED <<queueVars, embedding>>
    <2>1. "raised" \in Outcome \ {"embedded", "skipped"}
        BY DEF Outcome
    <2> QED
        BY <1>1, <1>2, <2>1, LeaveRow
<1>3. CASE /\ embedding' = [embedding EXCEPT ![ProductOf(w)] = expected[w]]
           /\ MarkCompleted(TaskOf(w))
           /\ Finish(w, "embedded")
    <2>1. embedding' \in [Product -> Text \cup {NoText}]
        BY <1>3 DEF Fencing, TypeOK
    <2> QED
        BY <1>1, <1>3, <2>1, CompleteRow
<1> QED
    BY <1>2, <1>3 DEF CommitEmbedding

\* A crash forgets the claims of one worker.
LEMMA CrashStep ==
    ASSUME Fencing, NEW w \in Worker, Crash(w)
    PROVE  Fencing'
<1> USE DEF Fencing
<1>1. TypeOK'
    BY DEF Crash, TypeOK, QueueTypeOK, queueVars, GoTo, Phase
<1>2. /\ \A v \in Worker : pc'[v] = IF v = w THEN "idle" ELSE pc[v]
      /\ \A v \in Worker : current'[v] = IF v = w THEN NoClaim ELSE current[v]
      /\ \A v \in Worker : hand'[v] = IF v = w THEN {} ELSE hand[v]
      /\ \A v \in Worker \ {w} : partial'[v] = partial[v]
      /\ UNCHANGED <<queueVars, doc, reports>>
    BY DEF Crash, TypeOK, GoTo
<1>3. Locals'
    BY <1>2 DEF Locals
<1>4. \A v \in Worker : Claims(v)' \subseteq Claims(v)
    BY <1>2 DEF Claims
<1>5. GrantedClaims' /\ ClaimsAreUnique'
    BY <1>2, <1>4 DEF GrantedClaims, ClaimsAreUnique, queueVars
<1>6. Rows' /\ SuccessIsFinal' /\ RetryBudget'
    BY <1>2 DEF Rows, SuccessIsFinal, RetryBudget, queueVars
<1>7. WriterOwnsTask'
    BY <1>2 DEF WriterOwnsTask, OwnsClaim, WriteWindow, queueVars
<1> QED
    BY <1>1, <1>3, <1>5, <1>6, <1>7

----------------------------------------------------------------------------
(* Theorems.                                                               *)

LEMMA FencingInit ==
    ASSUME Init
    PROVE  Fencing
<1>1. TypeOK
    BY QueueAssumption, IndexingAssumption
    DEF Init, QueueInit, TypeOK, QueueTypeOK, Phase
<1>2. Rows
    BY TaskParts DEF Init, QueueInit, Rows
<1>3. Locals
    BY DEF Init, Locals
<1>4. \A w \in Worker : Claims(w) = {}
    BY DEF Init, Claims
<1>5. GrantedClaims /\ ClaimsAreUnique
    BY <1>4 DEF GrantedClaims, ClaimsAreUnique, Init
<1>6. WriterOwnsTask /\ SuccessIsFinal /\ RetryBudget
    BY DEF Init, QueueInit, WriterOwnsTask, WriteWindow, SuccessIsFinal, RetryBudget
<1> QED
    BY <1>1, <1>2, <1>3, <1>5, <1>6 DEF Fencing

LEMMA FencingStep ==
    ASSUME Fencing, [Next]_vars
    PROVE  Fencing'
<1>1. CASE UNCHANGED vars
    BY <1>1 DEF vars, queueVars, workerVars, Fencing, TypeOK, QueueTypeOK, Rows, Locals,
                GrantedClaims, ClaimsAreUnique, Claims, WriterOwnsTask, OwnsClaim,
                SuccessIsFinal, RetryBudget
<1>2. ASSUME NEW p \in Product, NEW d \in Document,
             CreateProduct(p, d) \/ PatchProduct(p, d)
      PROVE  Fencing'
    BY <1>2, CreateProductStep, PatchProductStep
<1>3. ASSUME NEW w \in Worker, Process(w)
      PROVE  Fencing'
    BY <1>3, ReadProductStep, ReadVariantStep, ReadEmbeddingStep, SkipUnchangedStep,
       EmbedDocumentStep, RecordFailureStep, LockTaskStep, VerifyProductStep,
       VerifyVariantStep, FindRowStep, CommitEmbeddingStep
    DEF Process
<1>4. ASSUME NEW w \in Worker, ClaimBatch(w) \/ Crash(w)
      PROVE  Fencing'
    BY <1>4, ClaimRows, CrashStep
<1>5. ASSUME NEW t \in Task, ClockPasses(t)
      PROVE  Fencing'
    BY <1>5, ClockPassesStep
<1> QED
    BY <1>1, <1>2, <1>3, <1>4, <1>5 DEF Next

\* The invariant that makes the fencing token work.
THEOREM FencingInvariant == Spec => []Fencing
<1>1. Init => Fencing
    BY FencingInit
<1>2. Fencing /\ [Next]_vars => Fencing'
    BY FencingStep
<1> QED
    BY <1>1, <1>2, PTL DEF Spec

\* The variables keep their types: a document read or embedded is one of the
\* catalogue's, and a claim always names a task.
THEOREM TypeCorrect == Spec => []TypeOK
<1>1. Fencing => TypeOK
    BY DEF Fencing
<1> QED
    BY <1>1, FencingInvariant, PTL

\* No claim is held twice, however many workers claim batches and whenever
\* leases expire (claim_indexing_tasks).
THEOREM UniqueClaims == Spec => []ClaimsAreUnique
<1>1. Fencing => ClaimsAreUnique
    BY DEF Fencing
<1> QED
    BY <1>1, FencingInvariant, PTL

\* A task whose processing was reported successful stays COMPLETED, by the
\* attempt that was reported (mark_indexing_task_completed).
THEOREM SuccessStays == Spec => []SuccessIsFinal
<1>1. Fencing => SuccessIsFinal
    BY DEF Fencing
<1> QED
    BY <1>1, FencingInvariant, PTL

\* A worker inside _write_embedding_atomically owns its task up to the commit.
THEOREM WriterKeepsTask == Spec => []WriterOwnsTask
<1>1. Fencing => WriterOwnsTask
    BY DEF Fencing
<1> QED
    BY <1>1, FencingInvariant, PTL

\* A task waits only while attempts are left, and is given up only when none
\* is (decide_failure_outcome).
THEOREM RetryBudgetHolds == Spec => []RetryBudget
<1>1. Fencing => RetryBudget
    BY DEF Fencing
<1> QED
    BY <1>1, FencingInvariant, PTL

----------------------------------------------------------------------------
(* The task table implements LeasedQueue.                                  *)

\* Results that agree on the attempt are settled by that attempt.
LEMMA AgreedAttempt ==
    ASSUME NEW R, NEW n, R # {}, \A r \in R : r.claim.attempt = n
    PROVE  AnyOf(R).claim.attempt = n
BY DEF AnyOf

\* Steps that leave status, attempts and the set of successes alone.
LEMMA QueueStutters ==
    ASSUME UNCHANGED <<status, attempts>>,
           \A t \in Task : Successes(t)' = Successes(t)
    PROVE  UNCHANGED Queue!abstractVars
BY DEF QueuePhase, SettledBy, Queue!abstractVars

LEMMA PublishStep ==
    ASSUME Fencing, NEW p \in Product, ScheduleProductIndexing(p), UNCHANGED reports
    PROVE  Queue!Publish
<1> DEFINE new == <<p, scheduled[p] + 1>>
<1>1. new \in Task /\ status[new] = "absent"
    BY QueueAssumption
    DEF ScheduleProductIndexing, Task, Fencing, TypeOK, QueueTypeOK, Rows
<1>2. \A t \in Task : status'[t] = IF t = new THEN "pending" ELSE status[t]
    BY <1>1 DEF ScheduleProductIndexing, Fencing, TypeOK, QueueTypeOK
<1>3. QueuePhase' = [t \in Task |-> IF t \in {new} THEN "ready" ELSE QueuePhase[t]]
    BY <1>2 DEF QueuePhase
<1>4. {new} \in SUBSET {t \in Task : QueuePhase[t] = "absent"}
    BY <1>1 DEF QueuePhase
<1>5. UNCHANGED <<attempts, SettledBy>>
    BY DEF ScheduleProductIndexing, SettledBy, Successes
<1> QED
    BY <1>3, <1>4, <1>5 DEF Queue!Publish

LEMMA LeaseStep ==
    ASSUME Fencing, NEW w \in Worker, ClaimBatch(w)
    PROVE  Queue!Lease
<1>1. PICK S \in (SUBSET Eligible) \ {{}} : ClaimIndexingTasks(S, Locked)
    BY DEF ClaimBatch
<1>2. S \subseteq Task /\ (\A t \in S : status[t] \in {"pending", "processing"})
    BY DEF Eligible
<1>3. QueuePhase' = [t \in Task |-> IF t \in S THEN "leased" ELSE QueuePhase[t]]
    BY <1>1 DEF ClaimIndexingTasks, QueuePhase
<1>4. S \in SUBSET {t \in Task : QueuePhase[t] \in {"ready", "leased"}}
    BY <1>2 DEF QueuePhase
<1>5. attempts' = [t \in Task |-> attempts[t] + IF t \in S THEN 1 ELSE 0]
    BY <1>1 DEF ClaimIndexingTasks, Fencing, TypeOK, QueueTypeOK
<1>6. UNCHANGED SettledBy
    BY DEF ClaimBatch, SettledBy, Successes
<1> QED
    BY <1>3, <1>4, <1>5, <1>6 DEF Queue!Lease

LEMMA SettleStep ==
    ASSUME Fencing, Fencing', NEW w \in Worker, NEW o \in {"embedded", "skipped"},
           pc[w] # "idle", OwnsClaim(current[w]), MarkCompleted(TaskOf(w)), Finish(w, o)
    PROVE  Queue!Settle(TaskOf(w))
<1> USE DEF Fencing
<1>0. PICK t \in Task : t = TaskOf(w)
    BY BusyWorker
<1>1. status[t] = "processing" /\ current[w].task = t
    BY <1>0 DEF OwnsClaim, TaskOf
<1>2. /\ \A u \in Task : status'[u] = IF u = t THEN "completed" ELSE status[u]
      /\ UNCHANGED attempts
    BY <1>0 DEF MarkCompleted, TypeOK, QueueTypeOK
<1>3. QueuePhase[t] = "leased" /\ QueuePhase' = [QueuePhase EXCEPT ![t] = "settled"]
    BY <1>1, <1>2 DEF QueuePhase
<1>4. reports' = reports \cup {[claim |-> current[w], outcome |-> o]}
    BY DEF Finish
<1>5. \A u \in Task \ {t} : Successes(u)' = Successes(u)
    BY <1>1, <1>4 DEF Successes
<1>6. Successes(t)' # {}
    <2>1. [claim |-> current[w], outcome |-> o] \in reports'
        BY <1>4
    <2> QED
        BY <1>1, <2>1 DEF Successes
<1>7. SettledBy'[t] = attempts[t]
    <2>1. \A r \in Successes(t)' : r.claim.attempt = attempts[t]
        <3>1. \A r \in reports' : r.outcome \in {"embedded", "skipped"} =>
                 r.claim.attempt = attempts'[r.claim.task]
            BY DEF SuccessIsFinal
        <3> QED
            BY <1>2, <3>1 DEF Successes
    <2>2. AnyOf(Successes(t)').claim.attempt = attempts[t]
        BY <1>6, <2>1, AgreedAttempt
    <2> QED
        BY <1>1, <1>6, <2>2 DEF SettledBy
<1>8. \A u \in Task \ {t} : SettledBy'[u] = SettledBy[u]
    BY <1>5 DEF SettledBy
<1>9. SettledBy' = [SettledBy EXCEPT ![t] = attempts[t]]
    BY <1>1, <1>7, <1>8 DEF SettledBy
<1> QED
    BY <1>0, <1>2, <1>3, <1>9 DEF Queue!Settle

LEMMA FailureStep ==
    ASSUME Fencing, NEW w \in Worker, pc[w] # "idle", OwnsClaim(current[w]), FailTask(w)
    PROVE  Queue!Bury(TaskOf(w)) \/ Queue!PutBack(TaskOf(w))
<1> DEFINE t == TaskOf(w)
<1> USE DEF Fencing
<1>1. t \in Task /\ status[t] = "processing"
    BY BusyWorker DEF OwnsClaim, TaskOf
<1>2. /\ \A u \in Task : status'[u] = IF u = t THEN FailureOutcome(t) ELSE status[u]
      /\ UNCHANGED attempts
    BY <1>1 DEF FailTask, MarkFailed, TypeOK, QueueTypeOK
<1>3. QueuePhase[t] = "leased"
    BY <1>1 DEF QueuePhase
<1>4. reports' = reports \cup
                    {[claim |-> current[w], outcome |-> FailureResult(t)]}
    BY DEF FailTask, Finish
<1>5. \A u \in Task : Successes(u)' = Successes(u)
    BY <1>4 DEF Successes, FailureResult
<1>6. UNCHANGED SettledBy
    BY <1>5 DEF SettledBy
<1>7. CASE FailureOutcome(t) = "pending"
    <2>1. QueuePhase' = [QueuePhase EXCEPT ![t] = "ready"]
        BY <1>1, <1>2, <1>7 DEF QueuePhase
    <2> QED
        BY <1>2, <1>3, <1>6, <2>1 DEF Queue!PutBack
<1>8. CASE FailureOutcome(t) = "failed"
    <2>1. QueuePhase' = [QueuePhase EXCEPT ![t] = "buried"]
        BY <1>1, <1>2, <1>8 DEF QueuePhase
    <2> QED
        BY <1>2, <1>3, <1>6, <2>1 DEF Queue!Bury
<1> QED
    BY <1>7, <1>8 DEF FailureOutcome

\* A call that changes no row and reports no success.
LEMMA LeaveRowStutters ==
    ASSUME NEW w \in Worker, NEW o \in Outcome \ {"embedded", "skipped"},
           Finish(w, o), UNCHANGED queueVars
    PROVE  UNCHANGED Queue!abstractVars
<1>1. \A t \in Task : Successes(t)' = Successes(t)
    BY DEF Finish, Successes
<1> QED
    BY <1>1, QueueStutters DEF queueVars

LEMMA LoseClaimStutters ==
    ASSUME NEW w \in Worker, LoseClaim(w)
    PROVE  UNCHANGED Queue!abstractVars
<1>1. "stale" \in Outcome \ {"embedded", "skipped"}
    BY DEF Outcome
<1>2. "raised" \in Outcome \ {"embedded", "skipped"}
    BY DEF Outcome
<1> QED
    BY <1>1, <1>2, LeaveRowStutters DEF LoseClaim

\* A transition of the queue by a worker's call, or none.
LEMMA ProcessStep ==
    ASSUME Fencing, Fencing', NEW w \in Worker, Process(w)
    PROVE  Queue!AbstractNext \/ UNCHANGED Queue!abstractVars
<1>1. CASE UNCHANGED <<queueVars, reports>>
    BY <1>1, QueueStutters DEF queueVars, Successes
<1>2. CASE SkipUnchanged(w)
    <2>1. TaskOf(w) \in Task
        BY <1>2, BusyWorker DEF SkipUnchanged, Fencing
    <2> QED
        BY <1>2, <2>1, SettleStep, LoseClaimStutters DEF SkipUnchanged, Queue!AbstractNext
<1>3. CASE RecordFailure(w)
    <2>1. TaskOf(w) \in Task
        BY <1>3, BusyWorker DEF RecordFailure, Fencing
    <2> QED
        BY <1>3, <2>1, FailureStep, LoseClaimStutters DEF RecordFailure, Queue!AbstractNext
<1>4. CASE LockTask(w)
    BY <1>1, <1>4, LoseClaimStutters DEF LockTask
<1>5. CASE VerifyVariant(w)
    <2>1. OwnsClaim(current[w]) /\ TaskOf(w) \in Task
        BY <1>5, WriterAlone, BusyWorker DEF VerifyVariant, WriteWindow, Fencing
    <2> QED
        BY <1>1, <1>5, <2>1, FailureStep DEF VerifyVariant, Queue!AbstractNext
<1>6. CASE CommitEmbedding(w)
    <2>1. OwnsClaim(current[w]) /\ TaskOf(w) \in Task /\ pc[w] # "idle"
        BY <1>6, WriterAlone, BusyWorker DEF CommitEmbedding, WriteWindow, Fencing
    <2>2. "raised" \in Outcome \ {"embedded", "skipped"}
        BY DEF Outcome
    <2> QED
        BY <1>6, <2>1, <2>2, SettleStep, LeaveRowStutters
        DEF CommitEmbedding, Queue!AbstractNext
<1>7. CASE \/ ReadProduct(w) \/ ReadVariant(w) \/ ReadEmbedding(w)
           \/ EmbedDocument(w) \/ VerifyProduct(w) \/ FindRow(w)
    BY <1>1, <1>7
    DEF ReadProduct, ReadVariant, ReadEmbedding, EmbedDocument, VerifyProduct, FindRow
<1> QED
    BY <1>2, <1>3, <1>4, <1>5, <1>6, <1>7 DEF Process

LEMMA QueueStep ==
    ASSUME Fencing, Fencing', [Next]_vars
    PROVE  [Queue!AbstractNext]_(Queue!abstractVars)
<1>1. CASE UNCHANGED vars
    BY <1>1, QueueStutters DEF vars, queueVars, Successes
<1>2. ASSUME NEW p \in Product, NEW d \in Document,
             CreateProduct(p, d) \/ PatchProduct(p, d)
      PROVE  Queue!AbstractNext \/ UNCHANGED Queue!abstractVars
    <2>1. UNCHANGED reports
        BY <1>2 DEF CreateProduct, PatchProduct
    <2>2. CASE ScheduleProductIndexing(p)
        BY <2>1, <2>2, PublishStep DEF Queue!AbstractNext
    <2>3. CASE UNCHANGED queueVars
        BY <2>1, <2>3, QueueStutters DEF queueVars, Successes
    <2> QED
        BY <1>2, <2>2, <2>3 DEF CreateProduct, PatchProduct
<1>3. ASSUME NEW w \in Worker, ClaimBatch(w)
      PROVE  Queue!AbstractNext
    BY <1>3, LeaseStep DEF Queue!AbstractNext
<1>4. ASSUME NEW w \in Worker, Crash(w)
      PROVE  UNCHANGED Queue!abstractVars
    BY <1>4, QueueStutters DEF Crash, queueVars, Successes
<1>5. ASSUME NEW t \in Task, ClockPasses(t)
      PROVE  UNCHANGED Queue!abstractVars
    BY <1>5, QueueStutters DEF ClockPasses, Ripen, Successes
<1> QED
    BY <1>1, <1>2, <1>3, <1>4, <1>5, ProcessStep DEF Next

\* The task table, with the workers' calls on it, implements the leased queue:
\* a call that lost its claim has no effect on any task.
THEOREM QueueRefinement == Spec => ImplementsLeasedQueue
<1>1. Init => Queue!AbstractInit
    <2> SUFFICES ASSUME Init PROVE Queue!AbstractInit
        OBVIOUS
    <2>1. \A t \in Task : Successes(t) = {}
        BY DEF Init, Successes
    <2> QED
        BY <2>1 DEF Init, QueueInit, QueuePhase, SettledBy, Queue!AbstractInit
<1>2. Fencing /\ Fencing' /\ [Next]_vars => [Queue!AbstractNext]_(Queue!abstractVars)
    BY QueueStep
<1> QED
    BY <1>1, <1>2, FencingInvariant, PTL
    DEF Spec, ImplementsLeasedQueue, Queue!AbstractSpec
=============================================================================
