--------------------------- MODULE IndexingQueue ---------------------------
(***************************************************************************)
(* The product_indexing_tasks table and the transactions on it: scheduling *)
(* (talap/indexing/scheduler.py), claiming, completing and failing a task  *)
(* (talap/indexing/worker.py).  Every operator below is the effect of one  *)
(* committed transaction, or of the part of it that touches this table;    *)
(* the modules that EXTEND this one say who runs it and when.              *)
(*                                                                         *)
(* Time.  The code only ever compares a row's timestamp with the clock:    *)
(* available_at <= now for a PENDING row, started_at <= now - stale_after  *)
(* for a PROCESSING one.  ripe[t] is the outcome of that comparison; it    *)
(* turns FALSE when the row is given a timestamp in the future (a retry    *)
(* delay) or in the present (a new lease), and Ripen lets the clock catch  *)
(* up at any moment, so a lease may expire under a slow worker.            *)
(***************************************************************************)
EXTENDS Naturals, FiniteSets

CONSTANTS
    Product,        \* products
    MaxTasks,       \* bound: tasks ever scheduled per product
    MaxClaims,      \* bound: claims ever granted per task
    MaxAttempts,    \* max_attempts of the failure transition
    ClaimLimit      \* limit of one claim statement

ASSUME QueueAssumption ==
    /\ MaxTasks \in Nat
    /\ MaxClaims \in Nat
    /\ MaxAttempts \in Nat \ {0}     \* validate_failure_inputs
    /\ ClaimLimit \in Nat \ {0}      \* validate_claim_limit

\* <<p, n>> is the n-th task scheduled for product p.
Task == Product \X (1..MaxTasks)

\* A worker's snapshot of its claim; attempt is the fencing token.
Claim == [task : Task, attempt : Nat]

VARIABLES
    scheduled,      \* Product -> number of tasks scheduled so far
    status,         \* Task -> status column, "absent" before the INSERT
    attempts,       \* Task -> attempts column
    ripe            \* Task -> has the row's timestamp been reached

queueVars == <<scheduled, status, attempts, ripe>>

QueueTypeOK ==
    /\ scheduled \in [Product -> 0..MaxTasks]
    /\ status \in [Task -> {"absent", "pending", "processing", "completed", "failed"}]
    /\ attempts \in [Task -> Nat]
    /\ ripe \in [Task -> BOOLEAN]

QueueInit ==
    /\ scheduled = [p \in Product |-> 0]
    /\ status = [t \in Task |-> "absent"]
    /\ attempts = [t \in Task |-> 0]
    /\ ripe = [t \in Task |-> FALSE]

\* The task scheduled by the last semantic change of p.
LatestTask(p) == <<p, scheduled[p]>>

(***************************************************************************)
(* schedule_product_indexing with at least one semantic field: one PENDING *)
(* row with attempts 0 that is available at once.                          *)
(***************************************************************************)
ScheduleProductIndexing(p) ==
    /\ scheduled[p] < MaxTasks
    /\ scheduled' = [scheduled EXCEPT ![p] = @ + 1]
    /\ status' = [status EXCEPT ![<<p, scheduled[p] + 1>>] = "pending"]
    /\ ripe' = [ripe EXCEPT ![<<p, scheduled[p] + 1>>] = TRUE]
    /\ UNCHANGED attempts

\* Mutant: the WHERE clause forgets to leave COMPLETED rows out.
EligibleCompleted ==
    {t \in Task : status[t] # "absent" /\ ripe[t] /\ attempts[t] < MaxClaims}

\* Mutant: PROCESSING rows with an expired lease are not taken over.
EligiblePending ==
    {t \in Task : status[t] = "pending" /\ ripe[t] /\ attempts[t] < MaxClaims}

\* The WHERE clause of claim_indexing_tasks (within the bound MaxClaims).
Eligible ==
    {t \in Task : /\ status[t] \in {"pending", "processing"}
                  /\ ripe[t]
                  /\ attempts[t] < MaxClaims}

\* Mutant: a claim does not count as an attempt.
ClaimWithoutAttempt(S, locked) ==
    /\ S \subseteq Eligible \ locked
    /\ Cardinality(S) <= ClaimLimit
    /\ S = Eligible \ locked \/ Cardinality(S) = ClaimLimit
    /\ status' = [t \in Task |-> IF t \in S THEN "processing" ELSE status[t]]
    /\ ripe' = [t \in Task |-> IF t \in S THEN FALSE ELSE ripe[t]]
    /\ UNCHANGED <<scheduled, attempts>>

(***************************************************************************)
(* claim_indexing_tasks takes S: every eligible row that no transaction    *)
(* has locked (SKIP LOCKED), or ClaimLimit of them.  Which rows come first *)
(* in the ORDER BY depends on timestamps and is left open.                 *)
(***************************************************************************)
ClaimIndexingTasks(S, locked) ==
    /\ S \subseteq Eligible \ locked
    /\ Cardinality(S) <= ClaimLimit
    /\ S = Eligible \ locked \/ Cardinality(S) = ClaimLimit
    /\ status' = [t \in Task |-> IF t \in S THEN "processing" ELSE status[t]]
    /\ attempts' = [t \in Task |-> IF t \in S THEN attempts[t] + 1 ELSE attempts[t]]
    /\ ripe' = [t \in Task |-> IF t \in S THEN FALSE ELSE ripe[t]]
    /\ UNCHANGED scheduled

ClaimedIndexingTask(t) == [task |-> t, attempt |-> attempts[t] + 1]

(***************************************************************************)
(* What a transition finds once it has locked the row: the status check    *)
(* comes first, then the fencing token.                                    *)
(***************************************************************************)
InvalidTransition(c) == status[c.task] # "processing"
StaleClaim(c) == status[c.task] = "processing" /\ attempts[c.task] # c.attempt

\* Mutant: the fencing token is not compared.
OwnsAnyClaim(c) == status[c.task] = "processing"

OwnsClaim(c) == status[c.task] = "processing" /\ attempts[c.task] = c.attempt

MarkCompleted(t) ==
    /\ status' = [status EXCEPT ![t] = "completed"]
    /\ UNCHANGED <<scheduled, attempts, ripe>>

\* Mutant: one attempt too many.
FailureOutcomeOffByOne(t) == IF attempts[t] <= MaxAttempts THEN "pending" ELSE "failed"

\* Mutant: the label of the outcome is stored instead of the status.
FailureOutcomeLabel(t) == IF attempts[t] < MaxAttempts THEN "pending" ELSE "dead"

\* decide_failure_outcome: retry while attempts are left, else give up.
FailureOutcome(t) == IF attempts[t] < MaxAttempts THEN "pending" ELSE "failed"

MarkFailed(t) ==
    /\ status' = [status EXCEPT ![t] = FailureOutcome(t)]
    /\ ripe' = [ripe EXCEPT ![t] = FALSE]
    /\ UNCHANGED <<scheduled, attempts>>

\* The clock passes available_at, or started_at + stale_after.
Ripen(t) ==
    /\ status[t] \in {"pending", "processing"}
    /\ ~ripe[t]
    /\ attempts[t] < MaxClaims     \* bound: it matters to claims only
    /\ ripe' = [ripe EXCEPT ![t] = TRUE]
    /\ UNCHANGED <<scheduled, status, attempts>>
=============================================================================
