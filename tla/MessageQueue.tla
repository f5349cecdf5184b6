---------------------------- MODULE MessageQueue ----------------------------
(***************************************************************************)
(* The message_processing_jobs table and the transactions on it            *)
(* (talap/ingestion/jobs.py): one job per inbound message, inserted by     *)
(* ingestion, claimed one at a time, then completed, released or failed.   *)
(*                                                                         *)
(* As in IndexingQueue, ripe[m] is the outcome of comparing the row's      *)
(* available_at, or started_at + stale_after, with the clock.  earlier[m]  *)
(* is the ORDER BY of the claim: all rows take their available_at from one *)
(* clock, and a claim is one step, from the lock of its row to its commit. *)
(***************************************************************************)
EXTENDS Naturals

CONSTANTS
    Message,        \* inbound messages; each has at most one job
    MaxClaims,      \* bound: claims ever granted per job
    MaxAttempts     \* max_attempts of the failure transition

ASSUME JobAssumption ==
    /\ MaxClaims \in Nat
    /\ MaxAttempts \in Nat \ {0}

\* A worker's snapshot of its claim; attempt is the fencing token.
Claim == [message : Message, attempt : Nat]

VARIABLES
    status,         \* Message -> status of its job, "absent" before ingestion
    attempts,       \* Message -> attempts of its job
    ripe,           \* Message -> has the row's timestamp been reached
    earlier,        \* Message -> the jobs ordered before its own
    overtook        \* history: Message -> jobs claimed from PENDING while its own waited

jobVars == <<status, attempts, ripe, earlier, overtook>>

JobTypeOK ==
    /\ status \in [Message -> {"absent", "pending", "processing", "completed", "failed"}]
    /\ attempts \in [Message -> Nat]
    /\ ripe \in [Message -> BOOLEAN]
    /\ earlier \in [Message -> SUBSET Message]
    /\ overtook \in [Message -> SUBSET Message]

JobInit ==
    /\ status = [m \in Message |-> "absent"]
    /\ attempts = [m \in Message |-> 0]
    /\ ripe = [m \in Message |-> FALSE]
    /\ earlier = [m \in Message |-> {}]
    /\ overtook = [m \in Message |-> {}]

\* Mutant: ordered by created_at alone.
KeepThePlace(m) ==
    earlier' = IF status[m] # "absent" THEN earlier
               ELSE [n \in Message |-> IF n = m THEN Message \ {m} ELSE earlier[n] \ {m}]

\* available_at is the time it is now: no job is ordered behind this one.
JoinTheEnd(m) ==
    earlier' = [n \in Message |-> IF n = m THEN Message \ {m} ELSE earlier[n] \ {m}]

\* _insert_processing_jobs, for a message that is new.
InsertJob(m) ==
    /\ status[m] = "absent"
    /\ status' = [status EXCEPT ![m] = "pending"]
    /\ ripe' = [ripe EXCEPT ![m] = TRUE]
    /\ JoinTheEnd(m)
    /\ UNCHANGED <<attempts, overtook>>

\* Mutant: a PROCESSING job with an expired lease is not taken over.
DuePending(m) == status[m] = "pending" /\ ripe[m] /\ attempts[m] < MaxClaims

\* The WHERE of the claim; the last conjunct is the bound.
Due(m) ==
    /\ status[m] \in {"pending", "processing"}
    /\ ripe[m]
    /\ attempts[m] < MaxClaims

Waits(m) == status[m] = "pending" /\ Due(m)

\* claim_one_message_processing_job returns m, the first of the due jobs.  Whose
\* lease expired keeps the place it had; the jobs it passes are not counted.
ClaimOneJob(m) ==
    /\ Due(m)
    /\ \A n \in earlier[m] : ~Due(n)
    /\ status' = [status EXCEPT ![m] = "processing"]
    /\ attempts' = [attempts EXCEPT ![m] = @ + 1]
    /\ ripe' = [ripe EXCEPT ![m] = FALSE]
    /\ overtook' = [n \in Message |->
          IF n = m THEN {}
          ELSE IF Waits(m) /\ Waits(n) THEN overtook[n] \cup {m}
          ELSE overtook[n]]
    /\ UNCHANGED earlier

ClaimedJob(m) == [message |-> m, attempt |-> attempts[m] + 1]

\* Mutant: the fencing token is not compared.
OwnsAnyClaim(c) == status[c.message] = "processing"

\* _load_claimed_job returns the row; otherwise it raises.
OwnsClaim(c) == status[c.message] = "processing" /\ attempts[c.message] = c.attempt

CompleteJob(m) ==
    /\ status' = [status EXCEPT ![m] = "completed"]
    /\ UNCHANGED <<attempts, ripe, earlier, overtook>>

\* The job is claimable again at once, behind the others; the attempt it took
\* stays counted.
ReleaseJob(m) ==
    /\ status' = [status EXCEPT ![m] = "pending"]
    /\ ripe' = [ripe EXCEPT ![m] = TRUE]
    /\ JoinTheEnd(m)
    /\ UNCHANGED <<attempts, overtook>>

\* Mutant: the label of the outcome is stored instead of the status.
FailureOutcomeLabel(m) == IF attempts[m] < MaxAttempts THEN "pending" ELSE "dead"

\* Mutant: failed jobs are retried without end.
AlwaysRetry(m) == "pending"

\* decide_failure_outcome: retry while attempts are left, else give up.
FailureOutcome(m) == IF attempts[m] < MaxAttempts THEN "pending" ELSE "failed"

FailJob(m) ==
    /\ status' = [status EXCEPT ![m] = FailureOutcome(m)]
    /\ ripe' = [ripe EXCEPT ![m] = FALSE]
    /\ UNCHANGED <<attempts, earlier, overtook>>

\* The clock passes available_at, which makes it the last one of the due, or
\* started_at + stale_after.
Ripen(m) ==
    /\ status[m] \in {"pending", "processing"}
    /\ ~ripe[m]
    /\ attempts[m] < MaxClaims     \* bound: it matters to claims only
    /\ ripe' = [ripe EXCEPT ![m] = TRUE]
    /\ IF status[m] = "pending" THEN JoinTheEnd(m) ELSE UNCHANGED earlier
    /\ UNCHANGED <<status, attempts, overtook>>
=============================================================================
