----------------------------- MODULE Normalizers -----------------------------
(***************************************************************************)
(* The normalizers of webhook payloads (talap/channels/whatsapp and        *)
(* telegram/normalizer.py) and the contract of what they produce           *)
(* (talap/channels/inbound.py).  Each is a predicate, which payloads it    *)
(* accepts, and a function of the payload and the time of the request.     *)
(* One malformed element makes a normalizer raise for the whole payload.   *)
(***************************************************************************)
EXTENDS SequencesExt, Payloads

----------------------------------------------------------------------------
(* The contract: NormalizedInboundMessage and MediaReference.              *)

NoMedia == None

MediaReference ==
    [id : STRING, mime : STRING \cup {None}, size : Nat \cup {None},
     duration : Nat \cup {None}, checksum : STRING \cup {None}]

Message(channel, chat, user, id, content, received_at) ==
    [channel |-> channel, chat |-> chat, user |-> user, id |-> id,
     type |-> content.type, text |-> content.text, media |-> content.media,
     received_at |-> received_at]

\* Text is stripped; a blank one is None, which a text message may not have.
TextContent(s) == [type |-> "text", text |-> Strip(s), media |-> NoMedia]
VoiceContent(media) == [type |-> "voice", text |-> None, media |-> media]
Unsupported == [type |-> "unsupported", text |-> None, media |-> NoMedia]

\* Identifiers have 1 to 512 characters.
IsIdentifier(s) == s # "" /\ s \notin Long

\* What the validators of the contract leave of a message.
HasContent(m) ==
    /\ m.type \in {"text", "voice", "unsupported"}
    /\ IF m.type = "text" THEN m.text \in STRING \ {""} ELSE m.text = None
    /\ IF m.type = "voice" THEN m.media \in MediaReference ELSE m.media = NoMedia

IsInbound(m) ==
    /\ IsIdentifier(m.chat) /\ IsIdentifier(m.user) /\ IsIdentifier(m.id)
    /\ HasContent(m)
    /\ m.received_at \in Nat

OptionalText(v) ==
    IF IsNull(v) \/ Strip(v.str) = "" THEN None ELSE Strip(v.str)
OptionalNumber(v) == IF IsNull(v) THEN None ELSE v.int
OptionalChecksum(v) == IF IsNull(v) THEN None ELSE Checksum[Strip(v.str)]

IsOptionalSize(v) == IsNull(v) \/ (IsInt(v) /\ v.int >= 0)
IsOptionalChecksum(v) == IsNull(v) \/ (IsStr(v) /\ Strip(v.str) \in DOMAIN Checksum)

----------------------------------------------------------------------------
(* WhatsApp: messages and statuses of all entries and changes, in order.   *)

KnownStatuses == {"sent", "delivered", "read", "failed", "deleted"}

\* An absent timestamp stands for the time of the request, a null does not.
IsTimed(o) ==
    Has(o, "timestamp") =>
        IsStr(o.obj["timestamp"]) /\ Strip(o.obj["timestamp"].str) \in DOMAIN Seconds
TimeOf(o, now) ==
    IF Has(o, "timestamp") THEN Seconds[Strip(o.obj["timestamp"].str)] ELSE now

\* Mutant: what the customer read on the button, not what it stands for.
ReplyTitle(reply) ==
    IF NonBlank(Get(reply, "title")) THEN TextContent(Get(reply, "title").str)
    ELSE IF NonBlank(Get(reply, "id")) THEN TextContent(Get(reply, "id").str)
    ELSE Unsupported

\* The reply's id, else its title, else nothing that can be used.
Reply(reply) ==
    IF NonBlank(Get(reply, "id")) THEN TextContent(Get(reply, "id").str)
    ELSE IF NonBlank(Get(reply, "title")) THEN TextContent(Get(reply, "title").str)
    ELSE Unsupported

Replies == {"button_reply", "list_reply"}

IsInteractive(i) ==
    /\ IsObj(i) /\ IsStr(Get(i, "type"))
    /\ Get(i, "type").str \in Replies =>
          LET reply == Get(i, Get(i, "type").str) IN
          /\ IsObj(reply)
          /\ OptionalString(Get(reply, "id"))
          /\ OptionalString(Get(reply, "title"))

Interactive(i) ==
    IF Get(i, "type").str \in Replies THEN Reply(Get(i, Get(i, "type").str))
    ELSE Unsupported

IsAudio(a) ==
    /\ IsObj(a) /\ NonBlank(Get(a, "id"))
    /\ OptionalString(Get(a, "mime_type"))
    /\ IsOptionalChecksum(Get(a, "sha256"))

Audio(a) ==
    VoiceContent([id |-> Strip(Get(a, "id").str),
                  mime |-> OptionalText(Get(a, "mime_type")),
                  size |-> None, duration |-> None,
                  checksum |-> OptionalChecksum(Get(a, "sha256"))])

IsContent(m) ==
    LET type == Strip(Get(m, "type").str) IN
    /\ type = "text" => IsObj(Get(m, "text")) /\ NonBlank(Get(Get(m, "text"), "body"))
    /\ type = "audio" => IsAudio(Get(m, "audio"))
    /\ type = "interactive" => IsInteractive(Get(m, "interactive"))

Content(m) ==
    LET type == Strip(Get(m, "type").str) IN
    CASE type = "text" -> TextContent(Get(Get(m, "text"), "body").str)
      [] type = "audio" -> Audio(Get(m, "audio"))
      [] type = "interactive" -> Interactive(Get(m, "interactive"))
      [] OTHER -> Unsupported

IsCustomerMessage(m) ==
    /\ NonBlank(Get(m, "id")) /\ IsIdentifier(Strip(Get(m, "id").str))
    /\ NonBlank(Get(m, "from")) /\ IsIdentifier(Strip(Get(m, "from").str))
    /\ IsTimed(m)
    /\ NonBlank(Get(m, "type"))
    /\ IsContent(m)

\* The sender is the chat as well as the user.
CustomerMessage(m, now) ==
    LET sender == Strip(Get(m, "from").str) IN
    Message("whatsapp", sender, sender, Strip(Get(m, "id").str), Content(m),
            TimeOf(m, now))

IsError(e) == IsInt(Get(e, "code"))

\* Nothing bounds the identifiers of a status, or the sign of its codes.
IsStatus(s) ==
    /\ NonBlank(Get(s, "id"))
    /\ NonBlank(Get(s, "recipient_id"))
    /\ NonBlank(Get(s, "status"))
    /\ IsTimed(s)
    /\ IsOptionalObjects(Get(s, "errors"))
    /\ \A i \in DOMAIN Items(Get(s, "errors")) : IsError(Get(s, "errors").list[i])

DeliveryStatus(s, now) ==
    [id |-> Strip(Get(s, "id").str),
     recipient |-> Strip(Get(s, "recipient_id").str),
     status |-> LET status == Strip(Get(s, "status").str) IN
                IF status \in KnownStatuses THEN status ELSE "unknown",
     occurred_at |-> TimeOf(s, now),
     codes |-> LET errors == Items(Get(s, "errors")) IN
               [i \in DOMAIN errors |-> Get(errors[i], "code").int]]

\* A change of another field is skipped, whatever its value.
IsChange(c) ==
    Get(c, "field") = Str("messages") =>
        LET value == Get(c, "value") IN
        /\ IsObj(value)
        /\ IsOptionalObjects(Get(value, "messages"))
        /\ \A i \in DOMAIN Items(Get(value, "messages")) :
              IsCustomerMessage(Get(value, "messages").list[i])
        /\ IsOptionalObjects(Get(value, "statuses"))
        /\ \A i \in DOMAIN Items(Get(value, "statuses")) :
              IsStatus(Get(value, "statuses").list[i])

IsEntry(e) ==
    LET changes == Get(e, "changes") IN
    IsObjects(changes) /\ \A i \in DOMAIN changes.list : IsChange(changes.list[i])

IsWhatsAppWebhook(payload) ==
    /\ Get(payload, "object") = Str("whatsapp_business_account")
    /\ IsObjects(Get(payload, "entry"))
    /\ \A i \in DOMAIN Get(payload, "entry").list : IsEntry(Get(payload, "entry").list[i])

\* The items of every change of the field "messages", entry by entry.
FromChange(c, key) ==
    IF Get(c, "field") = Str("messages") THEN Items(Get(Get(c, "value"), key)) ELSE <<>>

FromEntry(e, key) ==
    LET changes == Get(e, "changes").list IN
    FlattenSeq([i \in DOMAIN changes |-> FromChange(changes[i], key)])

Collect(payload, key) ==
    LET entries == Get(payload, "entry").list IN
    FlattenSeq([i \in DOMAIN entries |-> FromEntry(entries[i], key)])

WhatsAppMessages(payload, now) ==
    LET raw == Collect(payload, "messages") IN
    [i \in DOMAIN raw |-> CustomerMessage(raw[i], now)]

WhatsAppStatuses(payload, now) ==
    LET raw == Collect(payload, "statuses") IN
    [i \in DOMAIN raw |-> DeliveryStatus(raw[i], now)]

----------------------------------------------------------------------------
(* Telegram: one message or one callback query per update.                 *)

\* Present, and not a blank string.
IsId(v) == ~IsNull(v) /\ (IsStr(v) => NonBlank(v))
HasId(v) == IsObj(v) /\ ~IsNull(Get(v, "id"))
IsParty(v) == HasId(v) /\ IsIdentifier(Text(Get(v, "id")))

IsVoice(v) ==
    /\ IsObj(v) /\ NonBlank(Get(v, "file_id"))
    /\ OptionalString(Get(v, "mime_type"))
    /\ IsOptionalSize(Get(v, "file_size"))
    /\ IsOptionalSize(Get(v, "duration"))

Voice(v) ==
    VoiceContent([id |-> Strip(Get(v, "file_id").str),
                  mime |-> OptionalText(Get(v, "mime_type")),
                  size |-> OptionalNumber(Get(v, "file_size")),
                  duration |-> OptionalNumber(Get(v, "duration")),
                  checksum |-> None])

\* A message id is unique within its chat only.  The parts are put together as
\* they are written; the contract strips the whole.
MessageIdentity(m) ==
    Strip("message:" \o Written(Get(Get(m, "chat"), "id")) \o ":"
          \o Written(Get(m, "message_id")))

IsTelegramMessage(m) ==
    /\ IsId(Get(m, "message_id"))
    /\ IsParty(Get(m, "chat"))
    /\ IsParty(Get(m, "from"))
    /\ IsIdentifier(MessageIdentity(m))
    /\ NonBlank(Get(m, "text")) \/ IsNull(Get(m, "voice")) \/ IsVoice(Get(m, "voice"))

TelegramMessage(m, now) ==
    Message("telegram", Text(Get(Get(m, "chat"), "id")), Text(Get(Get(m, "from"), "id")),
            MessageIdentity(m),
            CASE NonBlank(Get(m, "text")) -> TextContent(Get(m, "text").str)
              [] ~NonBlank(Get(m, "text")) /\ ~IsNull(Get(m, "voice")) ->
                    Voice(Get(m, "voice"))
              [] OTHER -> Unsupported,
            now)

\* message.chat.id, else chat_instance if it is a string.
CallbackChat(q) ==
    LET m == Get(q, "message") IN
    IF IsObj(m) /\ HasId(Get(m, "chat")) THEN Text(Get(Get(m, "chat"), "id"))
    ELSE IF NonBlank(Get(q, "chat_instance")) THEN Strip(Get(q, "chat_instance").str)
    ELSE ""

CallbackIdentity(q) == Strip("callback:" \o Written(Get(q, "id")))

IsCallback(q) ==
    /\ IsId(Get(q, "id"))
    /\ IsIdentifier(CallbackIdentity(q))
    /\ IsParty(Get(q, "from"))
    /\ IsIdentifier(CallbackChat(q))

Callback(q, now) ==
    Message("telegram", CallbackChat(q), Text(Get(Get(q, "from"), "id")),
            CallbackIdentity(q),
            IF NonBlank(Get(q, "data")) THEN TextContent(Get(q, "data").str)
            ELSE Unsupported,
            now)

\* The key "message" is looked at first, and alone if it is there.
IsTelegramUpdate(payload) ==
    IF Has(payload, "message")
    THEN IsObj(Get(payload, "message")) /\ IsTelegramMessage(Get(payload, "message"))
    ELSE /\ Has(payload, "callback_query")
         /\ IsObj(Get(payload, "callback_query"))
         /\ IsCallback(Get(payload, "callback_query"))

TelegramUpdate(payload, now) ==
    IF Has(payload, "message") THEN TelegramMessage(Get(payload, "message"), now)
    ELSE Callback(Get(payload, "callback_query"), now)
=============================================================================
