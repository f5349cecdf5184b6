------------------------------ MODULE Ingestion ------------------------------
(***************************************************************************)
(* Ingestion of verified webhooks (talap/ingestion/service.py), as the     *)
(* webhook routes call it.  Every handler runs one transaction that        *)
(* inserts the event, its messages, a job for each message that was new,   *)
(* and its delivery statuses, each by an INSERT ... ON CONFLICT DO NOTHING *)
(* on a unique key.                                                        *)
(*                                                                         *)
(* Such an INSERT waits for the end of any other transaction that has      *)
(* inserted the key but not committed: handlers of overlapping bodies wait *)
(* for each other, and PostgreSQL ends a cycle by aborting one of them.    *)
(* The provider delivers a body until it has seen the 200, and it may      *)
(* deliver it once more after that.                                        *)
(***************************************************************************)
EXTENDS Naturals, Sequences, FiniteSets, SequencesExt

CONSTANTS
    Handler,        \* concurrent requests the API serves
    Body,           \* raw webhook bodies, told apart by payload_sha256
    ExternalId,     \* external message ids, as in the normalized messages
    Fingerprint,    \* fingerprints of delivery statuses
    MessagesOf,     \* Body -> messages, in the order of the payload
    StatusesOf,     \* Body -> statuses, in the order of the payload
    NoBody,         \* the handler is idle
    MaxFailures     \* bound: failed transactions and lost responses

ASSUME IngestionAssumption ==
    /\ IsFiniteSet(Handler)
    /\ MessagesOf \in [Body -> Seq(ExternalId)]
    /\ StatusesOf \in [Body -> Seq(Fingerprint)]
    /\ NoBody \notin Body
    /\ MaxFailures \in Nat

Event(b) == [table |-> "event", key |-> b]
Message(m) == [table |-> "message", key |-> m]
Job(m) == [table |-> "job", key |-> m]
Status(f) == [table |-> "status", key |-> f]

RowsOf(b) ==
    {Event(b)}
    \cup {Message(m) : m \in ToSet(MessagesOf[b])}
    \cup {Job(m) : m \in ToSet(MessagesOf[b])}
    \cup {Status(f) : f \in ToSet(StatusesOf[b])}

Row == UNION {RowsOf(b) : b \in Body}

VARIABLES
    active,         \* the active column of the channel connection
    db,             \* the committed rows
    body,           \* Handler -> the body being ingested
    pc,             \* Handler -> where its transaction stands
    todo,           \* Handler -> keys the current loop has not inserted yet
    staged,         \* Handler -> rows inserted and not committed
    acked,          \* bodies the provider has seen the 200 for
    failures        \* failures so far

txVars == <<body, pc, todo, staged>>
vars == <<active, db, txVars, acked, failures>>

TypeOK ==
    /\ active \in BOOLEAN
    /\ db \subseteq Row
    /\ body \in [Handler -> Body \cup {NoBody}]
    /\ pc \in [Handler -> {"idle", "connection", "event", "messages", "jobs",
                           "statuses", "commit"}]
    /\ todo \in [Handler -> Seq(ExternalId \cup Fingerprint)]
    /\ staged \in [Handler -> SUBSET Row]
    /\ acked \subseteq Body
    /\ failures \in 0..MaxFailures

Init ==
    /\ active \in BOOLEAN
    /\ db = {}
    /\ body = [h \in Handler |-> NoBody]
    /\ pc = [h \in Handler |-> "idle"]
    /\ todo = [h \in Handler |-> <<>>]
    /\ staged = [h \in Handler |-> {}]
    /\ acked = {}
    /\ failures = 0

\* What a loop keeps of s: its elements at the positions I, in their order.
Kept(s, I) ==
    [n \in 1..Cardinality(I) |-> s[CHOOSE i \in I : Cardinality({j \in I : j <= i}) = n]]

First(s) == {i \in DOMAIN s : \A j \in 1..(i - 1) : s[j] # s[i]}

\* _deduplicate_messages, _deduplicate_statuses: the first of each identity.
FirstOccurrences(s) == Kept(s, First(s))

----------------------------------------------------------------------------
(* Transactions.                                                           *)

GoTo(h, phase) == pc' = [pc EXCEPT ![h] = phase]

\* Commit or rollback: the transaction's locks are gone.
EndTransaction(h) ==
    /\ body' = [body EXCEPT ![h] = NoBody]
    /\ GoTo(h, "idle")
    /\ todo' = [todo EXCEPT ![h] = <<>>]
    /\ staged' = [staged EXCEPT ![h] = {}]

\* The row h inserts next, if it is at an INSERT.
NextRow(h) ==
    CASE pc[h] = "event" -> {Event(body[h])}
      [] pc[h] = "messages" /\ todo[h] # <<>> -> {Message(Head(todo[h]))}
      [] pc[h] = "jobs" /\ todo[h] # <<>> -> {Job(Head(todo[h]))}
      [] pc[h] = "statuses" /\ todo[h] # <<>> -> {Status(Head(todo[h]))}
      [] OTHER -> {}

WaitsFor(h, g) == g # h /\ NextRow(h) \cap staged[g] # {}
Waits(h) == \E g \in Handler : WaitsFor(h, g)

\* ON CONFLICT DO NOTHING: a committed row is left alone.
InsertNext(h) == staged' = [staged EXCEPT ![h] = @ \cup (NextRow(h) \ db)]

\* The provider posts a body whose signature and payload are valid.
Deliver(h, b) ==
    /\ pc[h] = "idle"
    /\ body' = [body EXCEPT ![h] = b]
    /\ GoTo(h, "connection")
    /\ UNCHANGED <<active, db, todo, staged, acked, failures>>

\* No connection, an inactive one, or one of the other channel: 503.
CheckConnection(h) ==
    /\ pc[h] = "connection"
    /\ IF active
       THEN GoTo(h, "event") /\ UNCHANGED <<body, todo, staged>>
       ELSE EndTransaction(h)
    /\ UNCHANGED <<active, db, acked, failures>>

\* Mutant: the duplicate does not wait for the first delivery to commit.
InsertEventDirty(h) ==
    /\ pc[h] = "event"
    /\ InsertNext(h)
    /\ IF Event(body[h]) \in db \cup UNION {staged[g] : g \in Handler}
       THEN GoTo(h, "commit") /\ UNCHANGED todo
       ELSE /\ GoTo(h, "messages")
            /\ todo' = [todo EXCEPT ![h] = FirstOccurrences(MessagesOf[body[h]])]
    /\ UNCHANGED <<active, db, body, acked, failures>>

\* Mutant: the event is committed before the messages are inserted.
CommitEventFirst(h) ==
    /\ pc[h] = "event"
    /\ ~Waits(h)
    /\ IF Event(body[h]) \in db
       THEN GoTo(h, "commit") /\ UNCHANGED todo
       ELSE /\ GoTo(h, "messages")
            /\ todo' = [todo EXCEPT ![h] = FirstOccurrences(MessagesOf[body[h]])]
    /\ db' = db \cup NextRow(h)
    /\ UNCHANGED <<active, body, staged, acked, failures>>

\* A duplicate body ends here; its rows were committed with its event.
InsertEvent(h) ==
    /\ pc[h] = "event"
    /\ ~Waits(h)
    /\ InsertNext(h)
    /\ IF Event(body[h]) \in db
       THEN GoTo(h, "commit") /\ UNCHANGED todo
       ELSE /\ GoTo(h, "messages")
            /\ todo' = [todo EXCEPT ![h] = FirstOccurrences(MessagesOf[body[h]])]
    /\ UNCHANGED <<active, db, body, acked, failures>>

\* One turn of the loops of _insert_messages, _insert_processing_jobs and
\* _insert_statuses.
InsertRow(h) ==
    /\ pc[h] \in {"messages", "jobs", "statuses"}
    /\ todo[h] # <<>>
    /\ ~Waits(h)
    /\ InsertNext(h)
    /\ todo' = [todo EXCEPT ![h] = Tail(@)]
    /\ UNCHANGED <<active, db, body, pc, acked, failures>>

\* Mutant: a job for every item of the payload.
EndMessagesWithStatuses(h) ==
    /\ pc[h] = "messages"
    /\ todo[h] = <<>>
    /\ GoTo(h, "jobs")
    /\ todo' = [todo EXCEPT ![h] =
                  FirstOccurrences(MessagesOf[body[h]] \o StatusesOf[body[h]])]
    /\ UNCHANGED <<active, db, body, staged, acked, failures>>

\* Jobs are inserted for the messages this transaction inserted.
EndMessages(h) ==
    /\ pc[h] = "messages"
    /\ todo[h] = <<>>
    /\ GoTo(h, "jobs")
    /\ LET s == MessagesOf[body[h]]
           new == {i \in First(s) : Message(s[i]) \in staged[h]}
       IN  todo' = [todo EXCEPT ![h] = Kept(s, new)]
    /\ UNCHANGED <<active, db, body, staged, acked, failures>>

EndJobs(h) ==
    /\ pc[h] = "jobs"
    /\ todo[h] = <<>>
    /\ GoTo(h, "statuses")
    /\ todo' = [todo EXCEPT ![h] = FirstOccurrences(StatusesOf[body[h]])]
    /\ UNCHANGED <<active, db, body, staged, acked, failures>>

EndStatuses(h) ==
    /\ pc[h] = "statuses"
    /\ todo[h] = <<>>
    /\ GoTo(h, "commit")
    /\ UNCHANGED <<active, db, body, todo, staged, acked, failures>>

\* Mutant: a duplicate delivery is answered with an error.
CommitRefusingDuplicates(h) ==
    /\ pc[h] = "commit"
    /\ db' = db \cup staged[h]
    /\ \/ /\ acked' = IF Event(body[h]) \in db THEN acked ELSE acked \cup {body[h]}
          /\ UNCHANGED failures
       \/ failures < MaxFailures /\ failures' = failures + 1 /\ UNCHANGED acked
    /\ EndTransaction(h)
    /\ UNCHANGED active

\* The commit, and the 200; the provider may not receive it.
Commit(h) ==
    /\ pc[h] = "commit"
    /\ db' = db \cup staged[h]
    /\ \/ acked' = acked \cup {body[h]} /\ UNCHANGED failures
       \/ failures < MaxFailures /\ failures' = failures + 1 /\ UNCHANGED acked
    /\ EndTransaction(h)
    /\ UNCHANGED active

\* Any other exception, or the end of the process: rollback, no 200.
Abort(h) ==
    /\ pc[h] # "idle"
    /\ failures < MaxFailures
    /\ failures' = failures + 1
    /\ EndTransaction(h)
    /\ UNCHANGED <<active, db, acked>>

\* Handlers each of which waits for one of them and is waited for by one.
Deadlocked(S) ==
    \A h \in S : (\E g \in S : WaitsFor(h, g)) /\ (\E g \in S : WaitsFor(g, h))

\* PostgreSQL aborts a transaction of the cycle; the handler answers 503.
AbortDeadlocked(h) ==
    /\ \E S \in SUBSET Handler : h \in S /\ Deadlocked(S)
    /\ EndTransaction(h)
    /\ UNCHANGED <<active, db, acked, failures>>

\* An operator switches the connection on or off.
SetActive ==
    /\ active' = ~active
    /\ UNCHANGED <<db, txVars, acked, failures>>

----------------------------------------------------------------------------
Handle(h) ==
    \/ CheckConnection(h)
    \/ InsertEvent(h)
    \/ InsertRow(h)
    \/ EndMessages(h)
    \/ EndJobs(h)
    \/ EndStatuses(h)
    \/ Commit(h)
    \/ AbortDeadlocked(h)

Next ==
    \/ \E h \in Handler, b \in Body : Deliver(h, b)
    \/ \E h \in Handler : Handle(h) \/ Abort(h)
    \/ SetActive

Spec == Init /\ [][Next]_vars

\* A transaction that waits for a key is woken when the holder ends, and a
\* request that comes later does not take the key from it for ever.
NotOvertaken(b, m) ==
    \E h \in Handler :
        /\ body[h] = b
        /\ todo[h] # <<>> /\ Head(todo[h]) = m
        /\ InsertRow(h)

\* Handlers run; the provider repeats a body until it is acknowledged; the
\* connection is switched on and stays on.
FairSpec ==
    /\ Spec
    /\ \A h \in Handler : WF_vars(Handle(h))
    /\ \A b \in Body, m \in ExternalId : SF_vars(NotOvertaken(b, m))
    /\ \A b \in Body : SF_vars(b \notin acked /\ \E h \in Handler : Deliver(h, b))
    /\ <>[]active

----------------------------------------------------------------------------
(* Properties.                                                             *)

\* The provider gets a 200 only for a body all of whose rows are committed:
\* a concurrent duplicate waits for the first delivery to commit.
AckedMeansIngested == \A b \in acked : RowsOf(b) \subseteq db

\* Bodies with messages in common are ingested one after the other: a message
\* has one job, from the transaction that inserted it, whatever overlaps.
Inbox == INSTANCE WebhookInbox
IngestsWholeBodies == Inbox!InboxSpec

\* Every body the provider keeps delivering is ingested, although handlers
\* wait for each other, fail, and are aborted to end a deadlock.
BodiesAreIngested == \A b \in Body : <>(b \in acked)
=============================================================================
