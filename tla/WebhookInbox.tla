---------------------------- MODULE WebhookInbox ----------------------------
(***************************************************************************)
(* What ingest_normalized_webhook promises: "All writes commit in one      *)
(* transaction or roll back together", and a body is ingested once.        *)
(* Ingesting a body makes its event, its messages with one job each, and   *)
(* its statuses present, in one step, next to what is there already.       *)
(***************************************************************************)
CONSTANTS
    Body,           \* raw webhook bodies
    RowsOf(_)       \* the rows a body stands for, its event among them

VARIABLE db         \* the committed rows

InboxInit == db = {}

Ingest(b) ==
    /\ [table |-> "event", key |-> b] \notin db
    /\ db' = db \cup RowsOf(b)

InboxNext == \E b \in Body : Ingest(b)

InboxSpec == InboxInit /\ [][InboxNext]_db
=============================================================================
