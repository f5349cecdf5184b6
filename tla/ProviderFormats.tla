--------------------------- MODULE ProviderFormats ---------------------------
(***************************************************************************)
(* The formats of Meta's and Telegram's webhooks, as far as this system    *)
(* uses them: when a JSON value says what a provider meant.  Fields that   *)
(* are not named may be there or not.  An element of a body is a record of *)
(* what was meant; if it was damaged on its way, the fields that identify  *)
(* it are as they were or lost, and the others are anything.               *)
(***************************************************************************)
EXTENDS Normalizers

Means(type, text, media) == [type |-> type, text |-> text, media |-> media]

\* The value at a key and the objects of a list, if there is such a thing.
Field(v, key) == IF IsObj(v) THEN Get(v, key) ELSE Null
Objects(v) == IF IsList(v) THEN {x \in ToSet(v.list) : IsObj(x)} ELSE {}

\* A string that is s, with white space around it or not; a number.
Reads(v, s) == IsStr(v) /\ Strip(v.str) = s /\ s # ""
MayRead(v, s) == IF s = None THEN IsNull(v) ELSE Reads(v, s)
MayCount(v, n) == IF n = None THEN IsNull(v) ELSE IsInt(v) /\ v.int = n
Names(v, s) == IsInt(v) /\ ToString(v.int) = s

\* What is lost is no string, or one that is blank or far too long.
ReadsOrLost(v, s) == Reads(v, s) \/ ~NonBlank(v)
Lost(v, prefix) ==
    IsNull(v) \/ (IsStr(v) /\ (Strip(v.str) = "" \/ Strip(prefix \o v.str) \in Long))
NamesOrLost(v, s) ==
    Names(v, s) \/ IsNull(v) \/ (IsStr(v) /\ Strip(v.str) \in {""} \cup Long)

Identifies(s) == s \notin {""} \cup Long

----------------------------------------------------------------------------
(* Meta: entries with changes with messages and statuses.                  *)

MetaChanges(p) == UNION {Objects(Field(e, "changes")) : e \in Objects(Field(p, "entry"))}
IsOfMessages(c) == Field(c, "field") = Str("messages")

MetaItems(p, key) ==
    UNION {Objects(Field(Field(c, "value"), key)) : c \in {c \in MetaChanges(p) : IsOfMessages(c)}}

IsMetaEnvelope(p) ==
    /\ IsObj(p)
    /\ Field(p, "object") = Str("whatsapp_business_account")
    /\ IsObjects(Field(p, "entry"))
    /\ \A e \in Objects(Field(p, "entry")) : IsObjects(Field(e, "changes"))
    /\ \A c \in MetaChanges(p) : IsOfMessages(c) =>
          /\ IsObj(Field(c, "value"))
          /\ \A key \in {"messages", "statuses"} : IsOptionalObjects(Field(Field(c, "value"), key))

SaysTime(x, time) ==
    LET v == Field(x, "timestamp") IN
    IF time = None THEN ~Has(x, "timestamp")
    ELSE IsStr(v) /\ Strip(v.str) \in DOMAIN Seconds /\ Seconds[Strip(v.str)] = time

SaysChecksum(v, checksum) ==
    IF checksum = None THEN IsNull(v)
    ELSE IsStr(v) /\ Strip(v.str) \in DOMAIN Checksum /\ Checksum[Strip(v.str)] = checksum

\* A message has the content its type names; a tap on a button or a row means
\* the id that was given to it.
SaysMetaContent(x, content) ==
    LET type == Field(x, "type")
        audio == Field(x, "audio")
        interactive == Field(x, "interactive")
    IN
    \/ /\ Reads(type, "text")
       /\ Reads(Field(Field(x, "text"), "body"), content.text)
       /\ content = Means("text", content.text, NoMedia)
    \/ /\ Reads(type, "audio")
       /\ content = Means("voice", None, content.media)
       /\ content.media \in MediaReference
       /\ Reads(Field(audio, "id"), content.media.id)
       /\ MayRead(Field(audio, "mime_type"), content.media.mime)
       /\ SaysChecksum(Field(audio, "sha256"), content.media.checksum)
       /\ content.media.size = None /\ content.media.duration = None
    \/ /\ Reads(type, "interactive")
       /\ \E kind \in {"button_reply", "list_reply"} :
             /\ Field(interactive, "type") = Str(kind)
             /\ Reads(Field(Field(interactive, kind), "id"), content.text)
             /\ IsStr(Field(Field(interactive, kind), "title"))
       /\ content = Means("text", content.text, NoMedia)
    \/ /\ IsStr(type) /\ Strip(type.str) \notin {"", "text", "audio", "interactive"}
       /\ content = Means("unsupported", None, NoMedia)

SaysMetaMessage(x, e) ==
    IF e.damaged THEN ReadsOrLost(Field(x, "id"), e.id) /\ ReadsOrLost(Field(x, "from"), e.user)
    ELSE /\ Reads(Field(x, "id"), e.id) /\ Reads(Field(x, "from"), e.user)
         /\ Identifies(e.id) /\ Identifies(e.user) /\ e.chat = e.user
         /\ SaysTime(x, e.time)
         /\ SaysMetaContent(x, e.content)

SaysCodes(errors, codes) ==
    IF IsNull(errors) THEN codes = <<>>
    ELSE /\ IsObjects(errors)
         /\ \A i \in DOMAIN errors.list : IsInt(Get(errors.list[i], "code"))
         /\ codes = [i \in DOMAIN errors.list |-> Get(errors.list[i], "code").int]

IsOfStatus(x, e) == Reads(Field(x, "id"), e.id) /\ Reads(Field(x, "recipient_id"), e.recipient)

SaysMetaStatus(x, e) ==
    IF e.damaged
    THEN ReadsOrLost(Field(x, "id"), e.id) /\ ReadsOrLost(Field(x, "recipient_id"), e.recipient)
    ELSE /\ IsOfStatus(x, e)
         /\ \/ e.status \in {"sent", "delivered", "read", "failed", "deleted"}
               /\ Reads(Field(x, "status"), e.status)
            \/ e.status = "unknown" /\ NonBlank(Field(x, "status"))
               /\ Strip(Field(x, "status").str)
                      \notin {"sent", "delivered", "read", "failed", "deleted"}
         /\ SaysTime(x, e.time)
         /\ SaysCodes(Field(x, "errors"), e.codes)

----------------------------------------------------------------------------
(* Telegram: a message or a callback query.                                *)

SaysBotContent(x, content) ==
    LET voice == Field(x, "voice") IN
    \/ /\ Reads(Field(x, "text"), content.text)
       /\ content = Means("text", content.text, NoMedia)
    \/ /\ IsNull(Field(x, "text")) /\ IsObj(voice)
       /\ content = Means("voice", None, content.media)
       /\ content.media \in MediaReference
       /\ Reads(Field(voice, "file_id"), content.media.id)
       /\ MayRead(Field(voice, "mime_type"), content.media.mime)
       /\ MayCount(Field(voice, "file_size"), content.media.size)
       /\ MayCount(Field(voice, "duration"), content.media.duration)
       /\ content.media.checksum = None
    \/ /\ IsNull(Field(x, "text")) /\ IsNull(voice)
       /\ content = Means("unsupported", None, NoMedia)

\* Numbers identify messages, in a chat, as well as chats and users.
SaysBotMessage(x, e) ==
    LET id == Field(x, "message_id")
        chat == Field(Field(x, "chat"), "id")
        user == Field(Field(x, "from"), "id")
        prefix == "message:" \o e.chat \o ":"
    IN
    IF e.damaged
    THEN /\ (IsInt(id) /\ e.id = Strip(prefix \o ToString(id.int))) \/ Lost(id, prefix)
         /\ NamesOrLost(chat, e.chat) /\ NamesOrLost(user, e.user)
    ELSE /\ IsInt(id) /\ e.id = Strip(prefix \o ToString(id.int))
         /\ Names(chat, e.chat) /\ Names(user, e.user)
         /\ Identifies(e.id) /\ Identifies(e.chat) /\ Identifies(e.user)
         /\ SaysBotContent(x, e.content)
         /\ e.time = None

\* A button is below a message of a chat, or below an inline message.
SaysBotCallback(x, e) ==
    LET id == Field(x, "id")
        user == Field(Field(x, "from"), "id")
        message == Field(x, "message")
        data == Field(x, "data")
    IN
    IF e.damaged
    THEN /\ (IsStr(id) /\ e.id = Strip("callback:" \o id.str)) \/ Lost(id, "callback:")
         /\ NamesOrLost(user, e.user)
    ELSE /\ NonBlank(id) /\ e.id = Strip("callback:" \o id.str)
         /\ Names(user, e.user)
         /\ Identifies(e.id) /\ Identifies(e.chat) /\ Identifies(e.user)
         /\ \/ IsNull(message) /\ Reads(Field(x, "chat_instance"), e.chat)
            \/ IsObj(message) /\ Names(Field(Field(message, "chat"), "id"), e.chat)
         /\ \/ Reads(data, e.content.text) /\ e.content = Means("text", e.content.text, NoMedia)
            \/ IsNull(data) /\ e.content = Means("unsupported", None, NoMedia)
         /\ e.time = None

----------------------------------------------------------------------------
(* A payload says what a provider meant by it: each item is an element and *)
(* each element an item.                                                   *)

MetaSends(p, messages, statuses) ==
    /\ messages \cup statuses # {} => IsMetaEnvelope(p)
    /\ \A x \in MetaItems(p, "messages") : \E e \in messages : SaysMetaMessage(x, e)
    /\ \A e \in messages : \E x \in MetaItems(p, "messages") : SaysMetaMessage(x, e)
    /\ \A x \in MetaItems(p, "statuses") : \E e \in statuses : SaysMetaStatus(x, e)
    /\ \A e \in statuses : \E x \in MetaItems(p, "statuses") : SaysMetaStatus(x, e)

BotSends(p, messages, statuses) ==
    LET message == Field(p, "message")
        query == Field(p, "callback_query")
    IN
    /\ statuses = {}
    /\ IF IsObj(message)
       THEN \E e \in messages : messages = {e} /\ SaysBotMessage(message, e)
       ELSE IF IsObj(query) /\ ~Has(p, "message")
       THEN \E e \in messages : messages = {e} /\ SaysBotCallback(query, e)
       ELSE messages = {}
=============================================================================
