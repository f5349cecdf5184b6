------------------------------ MODULE Webhooks ------------------------------
(***************************************************************************)
(* The webhook endpoints (apps/api/routes/whatsapp_webhook.py and          *)
(* telegram_webhook.py): verify a request, normalize its payload, ingest   *)
(* what it says, answer.  Providers deliver every body until it has been   *)
(* answered 200, in any order and more than once.                          *)
(*                                                                         *)
(* A body is a record: the connection it is posted to, its payload (the    *)
(* JSON value, Null if it has none) and its elements, the messages and     *)
(* statuses the provider made it of.  The normalizers read the payload,    *)
(* the properties compare the rows with the elements.  Ingestion is one    *)
(* step: module Ingestion takes it apart.                                  *)
(***************************************************************************)
EXTENDS ProviderFormats, FiniteSets

CONSTANTS
    Handler,        \* concurrent requests the API serves
    Connection,     \* channel connections, set up with their secrets
    ChannelOf,      \* Connection -> "whatsapp" or "telegram"
    Mailings,       \* sequences of bodies, one of which the providers deliver
    MaxBodies,      \* bound: bodies in a mailing
    NoBody,         \* the handler is idle
    Unstorable,     \* payloads that JSONB refuses: with a NUL character, a lone
                    \* surrogate or a number that is none
    MaxInteger,     \* the largest value of an INTEGER column
    MaxBigInteger,  \* the largest value of a BIGINT column
    MaxClock,       \* bound: the clock
    MaxFailures     \* bound: failed transactions and lost answers

ASSUME WebhooksAssumption ==
    /\ \A mailing \in Mailings :
          /\ Len(mailing) \in 1..MaxBodies
          /\ \A b \in DOMAIN mailing : mailing[b].connection \in Connection
    /\ UNION {{mailing[b].payload : b \in DOMAIN mailing} : mailing \in Mailings} \subseteq Json
    /\ ChannelOf \in [Connection -> {"whatsapp", "telegram"}]
    /\ NoBody \notin 1..MaxBodies
    /\ MaxClock \in Nat /\ MaxFailures \in Nat

\* The messages or the statuses a body was made of.
Said(b, sort) == {e \in ToSet(b.elements) : e.sort = sort}

\* A payload says what its provider meant, in the format of its channel.
ASSUME FormatsAssumption ==
    \A mailing \in Mailings : \A b \in ToSet(mailing) :
        IF ChannelOf[b.connection] = "whatsapp"
        THEN MetaSends(b.payload, Said(b, "message"), Said(b, "status"))
        ELSE BotSends(b.payload, Said(b, "message"), Said(b, "status"))

\* A provider repeats a message as it was; what is damaged on its way is damaged
\* once; one status has a time each time it is reported, or never.
ASSUME ProvidersAssumption ==
    \A mailing \in Mailings :
        \A b, c \in DOMAIN mailing : mailing[b].connection = mailing[c].connection =>
            /\ \A e \in Said(mailing[b], "message"), f \in Said(mailing[c], "message") :
                  e.id = f.id => e = f
            /\ \A e \in Said(mailing[b], "status"), f \in Said(mailing[c], "status") :
                  e.id = f.id /\ e.recipient = f.recipient =>
                     /\ e.damaged => e = f /\ b = c
                     /\ e.status = f.status /\ e.codes = f.codes =>
                           (e.time = None <=> f.time = None)
            /\ \A e \in Said(mailing[b], "status") : e.damaged =>
                  \A x, y \in MetaItems(mailing[b].payload, "statuses") :
                      IsOfStatus(x, e) /\ IsOfStatus(y, e) => x = y

Moment == 0..MaxClock

VARIABLES
    active,         \* Connection -> its column active
    now,            \* the clock
    outbox,         \* the bodies the providers deliver, by their payload_sha256
    body,           \* Handler -> the body of its request
    pc,             \* Handler -> where the request stands
    received,       \* Handler -> received_at, once the body was parsed
    events,         \* inbound_events: the bodies ingested
    messages,       \* inbound_messages
    statuses,       \* whatsapp_delivery_statuses
    acked,          \* bodies the provider has seen a 200 for
    refused,        \* bodies answered 400
    failures        \* failures so far

requestVars == <<body, pc, received>>
dbVars == <<events, messages, statuses>>
Bodies == DOMAIN outbox
ConnectionOf(b) == outbox[b].connection
PayloadOf(b) == outbox[b].payload

vars == <<active, now, outbox, requestVars, dbVars, acked, refused, failures>>

\* Columns that every row of messages and statuses has.
IsMessageRow(m) ==
    /\ m.connection \in Connection /\ m.body \in events
    /\ m.channel = ChannelOf[m.connection]
    /\ IsInbound(m)

TypeOK ==
    /\ active \in [Connection -> BOOLEAN]
    /\ now \in Moment
    /\ outbox \in Mailings
    /\ body \in [Handler -> Bodies \cup {NoBody}]
    /\ pc \in [Handler -> {"idle", "parse", "ingest"}]
    /\ received \in [Handler -> Moment \cup {None}]
    /\ events \subseteq Bodies
    /\ \A m \in messages : IsMessageRow(m)
    /\ \A s \in statuses : s.body \in events /\ s.status \in KnownStatuses \cup {"unknown"}
    /\ acked \subseteq Bodies /\ refused \subseteq Bodies
    /\ failures \in 0..MaxFailures

Init ==
    /\ active = [c \in Connection |-> TRUE]
    /\ now = 0
    /\ outbox \in Mailings
    /\ body = [h \in Handler |-> NoBody]
    /\ pc = [h \in Handler |-> "idle"]
    /\ received = [h \in Handler |-> None]
    /\ events = {} /\ messages = {} /\ statuses = {}
    /\ acked = {} /\ refused = {}
    /\ failures = 0

----------------------------------------------------------------------------
(* What a body says, as far as the routes can tell.                        *)

Channel(b) == ChannelOf[ConnectionOf(b)]

\* Empty bodies, other JSON than objects and what the normalizer raises on
\* are answered 400.
Accepts(b) ==
    /\ IsObj(PayloadOf(b))
    /\ IF Channel(b) = "whatsapp" THEN IsWhatsAppWebhook(PayloadOf(b))
       ELSE IsTelegramUpdate(PayloadOf(b))

MessagesOf(b, t) ==
    IF Channel(b) = "whatsapp" THEN WhatsAppMessages(PayloadOf(b), t)
    ELSE <<TelegramUpdate(PayloadOf(b), t)>>

StatusesOf(b, t) ==
    IF Channel(b) = "whatsapp" THEN WhatsAppStatuses(PayloadOf(b), t) ELSE <<>>

\* The first message of each identity.
FirstOfEach(raw) ==
    {raw[i] : i \in {k \in DOMAIN raw : \A j \in 1..(k - 1) : raw[j].id # raw[k].id}}

\* Columns are narrower than the contract: VARCHAR(512) and (255), BIGINT and
\* INTEGER, JSONB; the fingerprint of a status raises on a negative code.
IsStorable(b, t) ==
    /\ PayloadOf(b) \notin Unstorable
    /\ \A m \in FirstOfEach(MessagesOf(b, t)) :
          m.media # NoMedia =>
             /\ m.media.id \notin Long /\ m.media.mime \notin Wide
             /\ m.media.size # None => m.media.size <= MaxBigInteger
             /\ m.media.duration # None => m.media.duration <= MaxInteger
    /\ \A s \in ToSet(StatusesOf(b, t)) :
          /\ s.id \notin Long /\ s.recipient \notin Long
          /\ \A i \in DOMAIN s.codes : s.codes[i] >= 0

----------------------------------------------------------------------------
(* Requests.                                                               *)

Answer(h) ==
    /\ body' = [body EXCEPT ![h] = NoBody]
    /\ pc' = [pc EXCEPT ![h] = "idle"]
    /\ received' = [received EXCEPT ![h] = None]

\* The signature is checked without a session; with Telegram the connection
\* is read, and must be active, in a session that ends before the body is
\* read.  A request that fails verification changes nothing.
Receive(h, b) ==
    /\ pc[h] = "idle" /\ b \in Bodies
    /\ Channel(b) = "telegram" => active[ConnectionOf(b)]
    /\ body' = [body EXCEPT ![h] = b]
    /\ pc' = [pc EXCEPT ![h] = "parse"]
    /\ UNCHANGED <<active, now, outbox, received, dbVars, acked, refused, failures>>

\* The body is parsed and normalized, with the time of the request.
Parse(h) ==
    /\ pc[h] = "parse"
    /\ IF Accepts(body[h])
       THEN /\ received' = [received EXCEPT ![h] = now]
            /\ pc' = [pc EXCEPT ![h] = "ingest"]
            /\ UNCHANGED <<body, refused>>
       ELSE /\ refused' = refused \cup {body[h]}
            /\ Answer(h)
    /\ UNCHANGED <<active, now, outbox, dbVars, acked, failures>>

\* The 200 reaches the provider, or is lost.
Acknowledge(h) ==
    \/ acked' = acked \cup {body[h]} /\ UNCHANGED failures
    \/ /\ failures < MaxFailures
       /\ failures' = failures + 1
       /\ UNCHANGED acked

\* Mutant: the route answers 400 when the ingestion finds no active connection.
RefuseInactive(h) ==
    /\ pc[h] = "ingest"
    /\ ~active[ConnectionOf(body[h])]
    /\ refused' = refused \cup {body[h]}
    /\ Answer(h)
    /\ UNCHANGED <<active, now, outbox, dbVars, acked, failures>>

\* ChannelConnectionInactiveError: 503, with Telegram 401.
FindInactive(h) ==
    /\ pc[h] = "ingest"
    /\ ~active[ConnectionOf(body[h])]
    /\ Answer(h)
    /\ UNCHANGED <<active, now, outbox, dbVars, acked, refused, failures>>

\* The event exists: 200, and nothing is written.
FindDuplicate(h) ==
    /\ pc[h] = "ingest"
    /\ active[ConnectionOf(body[h])]
    /\ body[h] \in events
    /\ Acknowledge(h)
    /\ Answer(h)
    /\ UNCHANGED <<active, now, outbox, dbVars, refused>>

\* Those of them the connection does not have yet.
NewMessages(c, raw) ==
    {x \in FirstOfEach(raw) : \A m \in messages : m.connection = c => m.id # x.id}

\* Mutant: the status a message is in is not part of the fingerprint.
FingerprintOfMessage(s) == <<s.id, s.recipient>>

\* whatsapp_status_fingerprint: every field, the moment among them.
Fingerprint(s) == <<s.id, s.recipient, s.status, s.occurred_at, s.codes>>

NewStatuses(c, raw) ==
    {raw[i] : i \in
        {k \in DOMAIN raw :
            /\ \A j \in 1..(k - 1) : Fingerprint(raw[j]) # Fingerprint(raw[k])
            /\ \A s \in statuses :
                  s.connection = c => Fingerprint(s) # Fingerprint(raw[k])}}

\* A row has the columns of what it stands for, and those of where it came from.
Row(b, r) ==
    [column \in DOMAIN r \cup {"connection", "body"} |->
        CASE column = "connection" -> ConnectionOf(b)
          [] column = "body" -> b
          [] OTHER -> r[column]]

\* Mutant: a message the connection has already fails the transaction.
IngestOnce(h) ==
    LET b == body[h]
        c == ConnectionOf(b)
        raw == MessagesOf(b, received[h])
    IN
    /\ pc[h] = "ingest"
    /\ active[c] /\ b \notin events
    /\ IsStorable(b, received[h])
    /\ IF NewMessages(c, raw) = ToSet(raw)
       THEN /\ events' = events \cup {b}
            /\ messages' = messages \cup {Row(b, m) : m \in ToSet(raw)}
            /\ statuses' =
                  statuses \cup {Row(b, s) : s \in NewStatuses(c, StatusesOf(b, received[h]))}
            /\ Acknowledge(h)
       ELSE UNCHANGED <<dbVars, acked, failures>>
    /\ Answer(h)
    /\ UNCHANGED <<active, now, outbox, refused>>

\* The transaction commits: the event, what is new in it, and the 200.
Ingest(h) ==
    LET b == body[h]
        c == ConnectionOf(b)
    IN
    /\ pc[h] = "ingest"
    /\ active[c] /\ b \notin events
    /\ IsStorable(b, received[h])
    /\ events' = events \cup {b}
    /\ messages' =
          messages \cup {Row(b, m) : m \in NewMessages(c, MessagesOf(b, received[h]))}
    /\ statuses' =
          statuses \cup {Row(b, s) : s \in NewStatuses(c, StatusesOf(b, received[h]))}
    /\ Acknowledge(h)
    /\ Answer(h)
    /\ UNCHANGED <<active, now, outbox, refused>>

\* Mutant: statuses are committed before the rest fails.
RollBackMessages(h) ==
    /\ pc[h] = "ingest"
    /\ active[ConnectionOf(body[h])] /\ body[h] \notin events
    /\ ~IsStorable(body[h], received[h])
    /\ statuses' = statuses \cup {Row(body[h], s) : s \in ToSet(StatusesOf(body[h], received[h]))}
    /\ Answer(h)
    /\ UNCHANGED <<active, now, outbox, events, messages, acked, refused, failures>>

\* What does not fit is rolled back and answered 503, each time.
RollBack(h) ==
    /\ pc[h] = "ingest"
    /\ active[ConnectionOf(body[h])] /\ body[h] \notin events
    /\ ~IsStorable(body[h], received[h])
    /\ Answer(h)
    /\ UNCHANGED <<active, now, outbox, dbVars, acked, refused, failures>>

\* A failing database answers 503, a process that ends answers nothing.
Fail(h) ==
    /\ pc[h] # "idle"
    /\ failures < MaxFailures
    /\ failures' = failures + 1
    /\ Answer(h)
    /\ UNCHANGED <<active, now, outbox, dbVars, acked, refused>>

\* An operator switches a connection on or off; what nobody uses is left alone.
SetActive(c) ==
    /\ \E b \in Bodies : ConnectionOf(b) = c
    /\ active' = [active EXCEPT ![c] = ~@]
    /\ UNCHANGED <<now, outbox, requestVars, dbVars, acked, refused, failures>>

ClockPasses ==
    /\ now < MaxClock
    /\ now' = now + 1
    /\ UNCHANGED <<active, outbox, requestVars, dbVars, acked, refused, failures>>

----------------------------------------------------------------------------
Handle(h) ==
    \/ Parse(h)
    \/ FindInactive(h)
    \/ FindDuplicate(h)
    \/ Ingest(h)
    \/ RollBack(h)

Next ==
    \/ \E h \in Handler : Handle(h) \/ Fail(h) \/ \E b \in Bodies : Receive(h, b)
    \/ \E c \in Connection : SetActive(c)
    \/ ClockPasses

Spec == Init /\ [][Next]_vars

\* A request leaves the place where it is; one of the alternatives of Handle
\* always lets it.
Leave(h) ==
    /\ pc[h] # "idle"
    /\ \E p \in {"idle", "parse", "ingest"} \ {pc[h]} : pc' = [pc EXCEPT ![h] = p]

\* Handlers run; a provider repeats a body until it has seen a 200 for it;
\* connections are switched on and stay on.
FairSpec ==
    /\ Spec
    /\ \A h \in Handler : WF_pc(Leave(h))
    /\ \A b \in 1..MaxBodies : SF_vars(\E h \in Handler : b \notin acked /\ Receive(h, b))
    /\ <>[](\A c \in Connection : active[c])

----------------------------------------------------------------------------
(* Properties.                                                             *)

MessageElements(b) == Said(outbox[b], "message")
StatusElements(b) == Said(outbox[b], "status")

\* A damaged element keeps its identity or is refused; one that arrives as it
\* was sent is stored as it was meant.
SameMessage(m, e) ==
    /\ m.id = e.id /\ m.user = e.user
    /\ ~e.damaged =>
          /\ m.chat = e.chat
          /\ [type |-> m.type, text |-> m.text, media |-> m.media] = e.content
          /\ e.time # None => m.received_at = e.time

SameStatus(s, e) ==
    /\ s.id = e.id /\ s.recipient = e.recipient
    /\ ~e.damaged =>
          /\ s.status = e.status /\ s.codes = e.codes
          /\ e.time # None => s.occurred_at = e.time

\* A body has elements, and all of them arrive as they were sent.
ArrivesAsSent(b) ==
    LET said == MessageElements(b) \cup StatusElements(b) IN
    said # {} /\ \A e \in said : ~e.damaged

\* A body whose elements all arrive as they were sent is accepted, and the rows
\* a body is normalized to, and what it says, are the same: nothing an entry or
\* a change carries is skipped, mixed up or made up.
NormalizersAreFaithful ==
    \A b \in Bodies :
        /\ ArrivesAsSent(b) => Accepts(b)
        /\ Accepts(b) => \A t \in Moment :
            /\ \A m \in ToSet(MessagesOf(b, t)) : \E e \in MessageElements(b) : SameMessage(m, e)
            /\ \A e \in MessageElements(b) : \E m \in ToSet(MessagesOf(b, t)) : m.id = e.id
            /\ \A s \in ToSet(StatusesOf(b, t)) : \E e \in StatusElements(b) : SameStatus(s, e)
            /\ \A e \in StatusElements(b) :
                  \E s \in ToSet(StatusesOf(b, t)) :
                      \A r \in ToSet(StatusesOf(b, t)) : SameStatus(r, e) <=> r = s

\* A 200 means that the whole body is stored: every message that any of its
\* entries and changes carried, once and with its own sender, content and time,
\* and every status, once if the provider gave its time.  A message that came
\* in another body before is the message of that body.
AckedElementsAreStored ==
    \A b \in acked :
        LET mine(r) == r.connection = ConnectionOf(b) IN
        /\ \A e \in MessageElements(b) :
              LET rows == {m \in messages : mine(m) /\ m.id = e.id} IN
              Cardinality(rows) = 1 /\ \A m \in rows : SameMessage(m, e)
        /\ \A e \in StatusElements(b) :
              LET rows == {s \in statuses : mine(s) /\ SameStatus(s, e)} IN
              rows # {} /\ (e.time # None => Cardinality(rows) = 1)

\* Nothing is stored that no provider said: a row is one of the elements of
\* the body it came from, and it came with an event.
StoredElementsWereSent ==
    /\ \A m \in messages : m.body \in events /\
          \E e \in MessageElements(m.body) : SameMessage(m, e)
    /\ \A s \in statuses : s.body \in events /\
          \E e \in StatusElements(s.body) : SameStatus(s, e)

\* What the endpoints promise of their rows.
InboxIsExact == AckedElementsAreStored /\ StoredElementsWereSent

\* A 400 is about the body: whenever and under whatever circumstances it comes
\* again, it is not ingested, before or after.
RefusalsAreFinal == refused \cap (events \cup acked) = {}

\* A body whose elements all arrive as they were sent, and fit the columns, is
\* acknowledged in the end, whatever came before it, if transactions and answers
\* do not fail for ever: MaxFailures of them do.
IsSound(b) == ArrivesAsSent(b) /\ (Accepts(b) => IsStorable(b, 0))

SoundBodiesAreAcked == <>(\A b \in Bodies : IsSound(b) => b \in acked)
=============================================================================
