--------------------------- MODULE WhatsAppWorker ---------------------------
(***************************************************************************)
(* The WhatsApp worker (apps/worker/jobs/whatsapp_echo.py) answering one   *)
(* customer, with the recommendation state it keeps about him              *)
(* (talap/recommendations/service.py) and the job queue.                   *)
(*                                                                         *)
(* Each database call of the worker is a transaction of its own, and the   *)
(* extractor, the search and the send happen between transactions: each is *)
(* a step.  Only transitions of the job are fenced by the claim; a worker  *)
(* that lost its claim still stores sets, selects and sends.               *)
(***************************************************************************)
EXTENDS MessageQueue, FiniteSets

CONSTANTS
    Worker,         \* processes running run_whatsapp_echo_once
    Kinds,          \* kinds of message the customer sends
    NoClaim,        \* the worker is idle
    NoSet,          \* no recommendation set
    MaxLosses       \* bound: calls that break off

(***************************************************************************)
(* "request"     text that is not a number                                 *)
(* "choice"      a number every displayed set has an item for              *)
(* "outOfRange"  a number no displayed set has an item for                 *)
(* "superscript" digits int() does not accept                              *)
(* "voice"       voice, image or unsupported                               *)
(* "telegram"    a message of the other channel, in the same table         *)
(***************************************************************************)
Kind == {"request", "choice", "outOfRange", "superscript", "voice", "telegram"}

ASSUME WorkerAssumption ==
    /\ IsFiniteSet(Worker)
    /\ Kinds \subseteq Kind
    /\ NoClaim \notin Claim
    /\ NoSet \notin Claim
    /\ MaxLosses \in Nat

\* A claim stores at most one recommendation set, which is named after it.
SetId == [message : Message, attempt : 1..MaxClaims]

VARIABLES
    kind,           \* Message -> its kind, once sent
    replyTo,        \* Message -> the set a choice answers
    recommendation, \* SetId -> status of the set, "absent" until stored
    selection,      \* SetId -> the claim whose choice its selected_index holds
    chosen,         \* Message -> the set its choice was resolved to
    demand,         \* messages with an unmet_demand row
    sent,           \* Message -> times an answer to it was delivered
    shown,          \* the set delivered last, until he answers it
    pc,             \* Worker -> where process_one_whatsapp_echo_job stands
    current,        \* Worker -> the claim being processed
    target,         \* Worker -> the set being selected or superseded
    reply,          \* Worker -> the answer: "none", "set" or "text"
    reports,        \* the results of the calls that returned
    losses          \* calls that broke off so far

customerVars == <<kind, replyTo, shown, sent>>
stateVars == <<recommendation, selection, chosen, demand>>
workerVars == <<pc, current, target, reply>>
vars == <<jobVars, customerVars, stateVars, workerVars, reports, losses>>

Phase == {"idle", "dispatch", "lookup", "mark", "extract", "search", "supersede",
          "blocked", "insert", "unmet", "send", "complete", "release", "fail"}

Outcome == {"completed", "released", "retry", "dead"}

TypeOK ==
    /\ JobTypeOK
    /\ kind \in [Message -> Kinds \cup {"none"}]
    /\ replyTo \in [Message -> SetId \cup {NoSet}]
    /\ recommendation \in [SetId -> {"absent", "active", "selected", "superseded"}]
    /\ selection \in [SetId -> Claim \cup {NoClaim}]
    /\ chosen \in [Message -> SetId \cup {NoSet}]
    /\ demand \subseteq Message
    /\ sent \in [Message -> Nat]
    /\ shown \in SetId \cup {NoSet}
    /\ pc \in [Worker -> Phase]
    /\ current \in [Worker -> Claim \cup {NoClaim}]
    /\ target \in [Worker -> SetId \cup {NoSet}]
    /\ reply \in [Worker -> {"none", "set", "text"}]
    /\ reports \subseteq [claim : Claim, outcome : Outcome]
    /\ losses \in Nat

Init ==
    /\ JobInit
    /\ kind = [m \in Message |-> "none"]
    /\ replyTo = [m \in Message |-> NoSet]
    /\ recommendation = [s \in SetId |-> "absent"]
    /\ selection = [s \in SetId |-> NoClaim]
    /\ chosen = [m \in Message |-> NoSet]
    /\ demand = {}
    /\ sent = [m \in Message |-> 0]
    /\ shown = NoSet
    /\ pc = [w \in Worker |-> "idle"]
    /\ current = [w \in Worker |-> NoClaim]
    /\ target = [w \in Worker |-> NoSet]
    /\ reply = [w \in Worker |-> "none"]
    /\ reports = {}
    /\ losses = 0

MessageOf(w) == current[w].message
Active == {s \in SetId : recommendation[s] = "active"}

\* Rows an open storing transaction has locked by its UPDATE.
LockedSets == {target[w] : w \in {v \in Worker : pc[v] = "insert"}} \ {NoSet}

GoTo(w, phase) == pc' = [pc EXCEPT ![w] = phase]

\* The call is over.
Leave(w) ==
    /\ GoTo(w, "idle")
    /\ current' = [current EXCEPT ![w] = NoClaim]
    /\ target' = [target EXCEPT ![w] = NoSet]
    /\ reply' = [reply EXCEPT ![w] = "none"]

Finish(w, outcome) ==
    /\ Leave(w)
    /\ reports' = reports \cup {[claim |-> current[w], outcome |-> outcome]}
    /\ UNCHANGED losses

\* An exception leaves the call, and the job stays PROCESSING.
Raise(w) ==
    /\ Leave(w)
    /\ UNCHANGED <<jobVars, customerVars, stateVars, reports>>

\* The process dies, or an exception no except clause names leaves the call; an
\* open storing transaction is rolled back.
BreakOff(w) ==
    /\ pc[w] # "idle"
    /\ losses < MaxLosses
    /\ losses' = losses + 1
    /\ Raise(w)

\* Steps that only move the worker on.
Step(w, from, to) ==
    /\ pc[w] = from
    /\ GoTo(w, to)
    /\ UNCHANGED <<jobVars, customerVars, stateVars, current, target, reply,
                   reports, losses>>

----------------------------------------------------------------------------
\* The customer writes, and ingestion stores the message with its job.  A
\* choice answers the set he was shown last, and he answers a set once.
Receive(m, k) ==
    /\ InsertJob(m)
    /\ kind' = [kind EXCEPT ![m] = k]
    /\ IF k = "choice"
       THEN replyTo' = [replyTo EXCEPT ![m] = shown] /\ shown' = NoSet
       ELSE UNCHANGED <<replyTo, shown>>
    /\ UNCHANGED <<sent, stateVars, workerVars, reports, losses>>

ClaimJob(w, m) ==
    /\ pc[w] = "idle"
    /\ ClaimOneJob(m)
    /\ current' = [current EXCEPT ![w] = ClaimedJob(m)]
    /\ GoTo(w, "dispatch")
    /\ UNCHANGED <<customerVars, stateVars, target, reply, reports, losses>>

\* Load the message; look at its channel, its type and whether it is a number.
Dispatch(w) ==
    /\ pc[w] = "dispatch"
    /\ LET k == kind[MessageOf(w)] IN
       \/ k = "telegram" /\ Step(w, "dispatch", "release")
       \/ k = "voice" /\ Step(w, "dispatch", "complete")
       \/ k = "request" /\ Step(w, "dispatch", "extract")
       \/ k \in {"choice", "outOfRange"} /\ Step(w, "dispatch", "lookup")
       \/ /\ k = "superscript"   \* str.isdigit is true, int() raises ValueError
          /\ Raise(w)
          /\ UNCHANGED losses

\* Mutant: the lookup does not ask for the active set.
LookupAnySet(w) ==
    /\ pc[w] = "lookup"
    /\ \E s \in {r \in SetId : recommendation[r] # "absent"} :
          target' = [target EXCEPT ![w] = s]
    /\ GoTo(w, "mark")
    /\ UNCHANGED <<jobVars, customerVars, stateVars, current, reply, reports, losses>>

\* load_active_recommendation and the range check.
Lookup(w) ==
    \/ Active = {} /\ Step(w, "lookup", "extract")
    \/ /\ pc[w] = "lookup"
       /\ \E s \in Active :
             IF kind[MessageOf(w)] = "choice"
             THEN /\ target' = [target EXCEPT ![w] = s]
                  /\ GoTo(w, "mark")
                  /\ UNCHANGED reply
             ELSE /\ reply' = [reply EXCEPT ![w] = "text"]
                  /\ GoTo(w, "send")
                  /\ UNCHANGED target
       /\ UNCHANGED <<jobVars, customerVars, stateVars, current, reports, losses>>
    \/ Step(w, "lookup", "fail")

\* mark_recommendation_selected: by id, whatever became of the set meanwhile; a
\* superseded set is selected, and a selection overwritten.
MarkSelected(w) ==
    \/ /\ pc[w] = "mark"
       /\ target[w] \notin LockedSets
       /\ recommendation' = [recommendation EXCEPT ![target[w]] = "selected"]
       /\ selection' = [selection EXCEPT ![target[w]] = current[w]]
       /\ chosen' = [chosen EXCEPT ![MessageOf(w)] = target[w]]
       /\ target' = [target EXCEPT ![w] = NoSet]
       /\ reply' = [reply EXCEPT ![w] = "text"]
       /\ GoTo(w, "send")
       /\ UNCHANGED <<jobVars, customerVars, demand, current, reports, losses>>
    \/ Step(w, "mark", "fail")

\* The extractor answers with an intent, fails with an error of its own, or with
\* another one, which is not caught.
Extract(w) ==
    \/ pc[w] = "extract" /\ BreakOff(w)
    \/ Step(w, "extract", "search")
    \/ /\ pc[w] = "extract"      \* handoff, unknown, or a missing field
       /\ reply' = [reply EXCEPT ![w] = "text"]
       /\ GoTo(w, "send")
       /\ UNCHANGED <<jobVars, customerVars, stateVars, current, target, reports, losses>>
    \/ Step(w, "extract", "fail")

\* Products, no product, a failed search, or an error that is not the search's own.
Search(w) ==
    \/ pc[w] = "search" /\ BreakOff(w)
    \/ Step(w, "search", "supersede")
    \/ Step(w, "search", "unmet")
    \/ Step(w, "search", "fail")

\* Mutant: the UPDATE supersedes a set that was selected from, too.
SupersedeSelected(w) ==
    /\ pc[w] = "supersede"
    /\ \E s \in {r \in SetId : recommendation[r] \in {"active", "selected"}} \cup {NoSet} :
          /\ target' = [target EXCEPT ![w] = s]
          /\ GoTo(w, IF s \in LockedSets THEN "blocked" ELSE "insert")
    /\ UNCHANGED <<jobVars, customerVars, stateVars, current, reply, reports, losses>>

(***************************************************************************)
(* store_recommendation_set.  Its UPDATE sees the active row of its        *)
(* snapshot and locks it; if another transaction has it locked, it waits,  *)
(* and takes the row only if it is still active then.                      *)
(***************************************************************************)
Supersede(w) ==
    /\ pc[w] = "supersede"
    /\ \E s \in IF Active = {} THEN {NoSet} ELSE Active :
          /\ target' = [target EXCEPT ![w] = s]
          /\ GoTo(w, IF s \in LockedSets THEN "blocked" ELSE "insert")
    /\ UNCHANGED <<jobVars, customerVars, stateVars, current, reply, reports, losses>>

Resume(w) ==
    /\ pc[w] = "blocked"
    /\ target[w] \notin LockedSets
    /\ target' = [target EXCEPT ![w] = IF @ \in Active THEN @ ELSE NoSet]
    /\ GoTo(w, "insert")
    /\ UNCHANGED <<jobVars, customerVars, stateVars, current, reply, reports, losses>>

\* The unique index on the customer's active row.
ViolatesUniqueActive(w) == Active \ {target[w]} # {}

\* Mutant: the UPDATE runs after the INSERT and supersedes the new row.
InsertThenSupersede(w) ==
    /\ pc[w] = "insert"
    /\ ~ViolatesUniqueActive(w)
    /\ recommendation' = [s \in SetId |->
          IF s \in {target[w], current[w]} THEN "superseded" ELSE recommendation[s]]
    /\ target' = [target EXCEPT ![w] = NoSet]
    /\ reply' = [reply EXCEPT ![w] = "set"]
    /\ GoTo(w, "send")
    /\ UNCHANGED <<jobVars, customerVars, selection, chosen, demand, current, reports, losses>>

\* The INSERT and the commit.
InsertSet(w) ==
    /\ \/ /\ pc[w] = "insert"
          /\ ~ViolatesUniqueActive(w)
          /\ recommendation' = [s \in SetId |->
                IF s = target[w] THEN "superseded"
                ELSE IF s = current[w] THEN "active"
                ELSE recommendation[s]]
          /\ target' = [target EXCEPT ![w] = NoSet]
          /\ reply' = [reply EXCEPT ![w] = "set"]
          /\ GoTo(w, "send")
       \/ /\ pc[w] = "insert"    \* the violation, or a lost connection
          /\ target' = [target EXCEPT ![w] = NoSet]
          /\ GoTo(w, "fail")
          /\ UNCHANGED <<recommendation, reply>>
    /\ UNCHANGED <<jobVars, customerVars, selection, chosen, demand, current, reports, losses>>

\* persist_unmet_demand: one row per message, a second one is ignored.
PersistUnmetDemand(w) ==
    \/ /\ pc[w] = "unmet"
       /\ demand' = demand \cup {MessageOf(w)}
       /\ reply' = [reply EXCEPT ![w] = "text"]
       /\ GoTo(w, "send")
       /\ UNCHANGED <<jobVars, customerVars, recommendation, selection, chosen, current,
                      target, reports, losses>>
    \/ Step(w, "unmet", "fail")

Deliver(w) ==
    /\ sent' = [sent EXCEPT ![MessageOf(w)] = @ + 1]
    /\ shown' = IF reply[w] = "set" THEN current[w] ELSE shown
    /\ UNCHANGED <<kind, replyTo>>

\* Mutant: an error of the send is swallowed.
SendIgnoringErrors(w) ==
    \/ /\ pc[w] = "send"
       /\ Deliver(w)
       /\ GoTo(w, "complete")
       /\ UNCHANGED <<jobVars, stateVars, current, target, reply, reports, losses>>
    \/ Step(w, "send", "complete")

\* send_text.  An error is raised although the message may have got through.
Send(w) ==
    \/ /\ pc[w] = "send"
       /\ Deliver(w)
       /\ GoTo(w, "complete") \/ GoTo(w, "fail")
       /\ UNCHANGED <<jobVars, stateVars, current, target, reply, reports, losses>>
    \/ Step(w, "send", "fail")

\* A transition that finds the claim lost raises out of the call.
Complete(w) ==
    /\ pc[w] = "complete"
    /\ IF OwnsClaim(current[w])
       THEN /\ CompleteJob(MessageOf(w))
            /\ Finish(w, "completed")
            /\ UNCHANGED <<customerVars, stateVars>>
       ELSE Raise(w) /\ UNCHANGED losses

Release(w) ==
    /\ pc[w] = "release"
    /\ IF OwnsClaim(current[w])
       THEN /\ ReleaseJob(MessageOf(w))
            /\ Finish(w, "released")
            /\ UNCHANGED <<customerVars, stateVars>>
       ELSE Raise(w) /\ UNCHANGED losses

FailureResult(m) == IF FailureOutcome(m) = "pending" THEN "retry" ELSE "dead"

\* _fail_job
Fail(w) ==
    /\ pc[w] = "fail"
    /\ IF OwnsClaim(current[w])
       THEN /\ FailJob(MessageOf(w))
            /\ Finish(w, FailureResult(MessageOf(w)))
            /\ UNCHANGED <<customerVars, stateVars>>
       ELSE Raise(w) /\ UNCHANGED losses

ClockPasses(m) ==
    /\ Ripen(m)
    /\ UNCHANGED <<customerVars, stateVars, workerVars, reports, losses>>

----------------------------------------------------------------------------
Process(w) ==
    \/ Dispatch(w)
    \/ Lookup(w)
    \/ MarkSelected(w)
    \/ Extract(w)
    \/ Search(w)
    \/ Supersede(w)
    \/ Resume(w)
    \/ InsertSet(w)
    \/ PersistUnmetDemand(w)
    \/ Send(w)
    \/ Complete(w)
    \/ Release(w)
    \/ Fail(w)

Next ==
    \/ \E m \in Message, k \in Kinds : Receive(m, k)
    \/ \E w \in Worker, m \in Message : ClaimJob(w, m)
    \/ \E w \in Worker : Process(w) \/ BreakOff(w)
    \/ \E m \in Message : ClockPasses(m)

Spec == Init /\ [][Next]_vars

----------------------------------------------------------------------------
(* Assumptions some properties need.                                       *)

Ended(m) == status[m] \in {"completed", "failed"}

\* The customer writes only when every earlier message of his was dealt with.
Patient ==
    \A m \in Message : status[m] = "absent" /\ status'[m] # "absent" =>
        \/ kind'[m] = "telegram"
        \/ \A n \in Message : status[n] = "absent" \/ Ended(n) \/ kind[n] = "telegram"

\* Sends succeed, and are known to.
ReliableSends == \A w \in Worker : pc[w] = "send" => pc'[w] # "fail"

\* No call breaks off once it has its answer and before its job is completed.
Uninterrupted ==
    losses' # losses => \A w \in Worker : pc[w] \in {"send", "complete"} => pc'[w] = pc[w]

\* A lease expires only when the worker it was granted to is gone: every
\* worker is done with its job within stale_after.
Timely ==
    \A m \in Message :
        status[m] = "processing" /\ ~ripe[m] /\ status'[m] = "processing" /\ ripe'[m] =>
            \A w \in Worker : current[w] # [message |-> m, attempt |-> attempts[m]]

CalmSpec == Init /\ [][Next /\ Patient /\ ReliableSends /\ Uninterrupted /\ Timely]_vars

\* Workers are run again and again, each takes the first of the due jobs, and
\* time passes.
Fairness ==
    /\ \A w \in Worker :
          /\ WF_vars(\E m \in Message : ClaimJob(w, m))
          /\ WF_vars(Process(w))
    /\ \A m \in Message : WF_vars(ClockPasses(m))

FairSpec == Spec /\ Fairness

----------------------------------------------------------------------------
(* Properties.                                                             *)

\* At-least-once delivery: a text whose job is COMPLETED was answered, and no
\* claim of the job answers twice.
CompletedMeansAnswered ==
    \A m \in Message :
        /\ status[m] = "completed" /\ kind[m] # "voice" => sent[m] >= 1
        /\ sent[m] <= attempts[m]

\* The claims about to mark s, having looked it up.
Marking(s) == {current[w] : w \in {v \in Worker : pc[v] = "mark" /\ target[v] = s}}

\* A set the customer selected from stays selected, whatever sets are stored at
\* the same time.  What he selected is overwritten only by calls that had looked
\* the set up when it was selected, by each of them once: no later number finds it.
SelectionIsKept ==
    [][\A s \in SetId : recommendation[s] = "selected" =>
          /\ recommendation'[s] = "selected"
          /\ Marking(s)' \subseteq Marking(s)
          /\ selection'[s] # selection[s] =>
                selection'[s] \in Marking(s) \ Marking(s)']_vars

\* While a job waits, due and PENDING, no other is claimed from PENDING twice:
\* releases and retries, as often as they come, do not starve it.  A job whose
\* lease expired is claimed before it each time.
WaitingJobsAreNotOvertaken ==
    [][\A m, n \in Message :
          /\ Waits(m) /\ Waits(n) /\ m # n
          /\ attempts'[m] # attempts[m]
          => m \notin overtook[n]]_vars

\* The job table is a leased queue: a worker that lost its claim cannot
\* complete, fail or release the job.
Completions(m) ==
    {r \in reports : r.claim.message = m /\ r.outcome = "completed"}

QueuePhase ==
    [m \in Message |->
        CASE status[m] = "pending" -> "ready"
          [] status[m] = "processing" -> "leased"
          [] status[m] = "completed" -> "settled"
          [] status[m] = "failed" -> "buried"
          [] OTHER -> "absent"]

AnyOf(S) == CHOOSE r \in S : TRUE

SettledBy ==
    [m \in Message |->
        IF Completions(m) = {} THEN 0
        ELSE AnyOf(Completions(m)).claim.attempt]

Queue == INSTANCE LeasedQueue WITH
    Job <- Message, phase <- QueuePhase, generation <- attempts, settledBy <- SettledBy

ImplementsLeasedQueue == Queue!AbstractSpec

\* README.md: a number "resolves the displayed product": the set the customer
\* was shown last before he answered.
ChoicesResolveTheirSet ==
    \A m \in Message : replyTo[m] # NoSet => chosen[m] \in {NoSet, replyTo[m]}

\* README.md: "without calling DeepSeek or product search again".
ChoicesAreNotExtracted ==
    \A w \in Worker : pc[w] \in {"extract", "search"} =>
        kind[MessageOf(w)] # "choice" \/ replyTo[MessageOf(w)] = NoSet

\* Claims whose call left the job PROCESSING, or found its claim lost.
LostClaims(m) ==
    (1..attempts[m]) \
        ({r.claim.attempt : r \in {q \in reports : q.claim.message = m}}
         \cup {current[w].attempt : w \in {v \in Worker : pc[v] # "idle" /\ MessageOf(v) = m}})

\* A WhatsApp message is answered or given up in the end, beside messages of the
\* other channel in the same table, when steps fail, calls raise and workers die;
\* unless so many of its claims are lost that none of those granted is left to
\* end it.  A message whose calls always raise is claimed for ever.
MessagesAreDealtWith ==
    \A m \in Message :
        status[m] = "pending" /\ kind[m] # "telegram" ~>
            Ended(m) \/ Cardinality(LostClaims(m)) > MaxClaims - MaxAttempts
=============================================================================
