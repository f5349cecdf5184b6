--------------------------- MODULE ProviderPayloads ---------------------------
(***************************************************************************)
(* What Meta and Telegram send (as in the fixtures below tests/unit/channels): the *)
(* JSON that stands for a message or status, beside what it means, and     *)
(* what becomes of it when one of its fields is missing or malformed.      *)
(* An item is [raw |-> its JSON, means |-> the element a provider meant].  *)
(***************************************************************************)
EXTENDS ProviderFormats

Optional(key, v) == IF v = Null THEN <<>> ELSE key :> v

MessageElement(id, user, chat, content, time) ==
    [sort |-> "message", id |-> id, user |-> user, chat |-> chat,
     content |-> content, time |-> time, damaged |-> FALSE]

Stamp(time) == IF time = None THEN Null ELSE Str(ToString(time))

----------------------------------------------------------------------------
(* Meta.                                                                   *)

\* A message whose type names the field its content is in.
MetaMessage(id, from, time, type, part, content) ==
    [raw |-> Obj(("id" :> Str(id)) @@ ("from" :> Str(from))
                 @@ ("type" :> Str(type)) @@ (type :> part)
                 @@ Optional("timestamp", Stamp(time))),
     means |-> MessageElement(id, from, from, content, time)]

MetaText(id, from, time, text, stripped) ==
    MetaMessage(id, from, time, "text", Obj([body |-> Str(text)]),
                Means("text", stripped, NoMedia))

MetaAudio(id, from, time, media, mime, sha, checksum) ==
    MetaMessage(id, from, time, "audio",
                Obj([id |-> Str(media), mime_type |-> Str(mime), sha256 |-> Str(sha)]),
                Means("voice", None,
                      [id |-> media, mime |-> mime, size |-> None, duration |-> None,
                       checksum |-> checksum]))

\* A tap on a button or a row: its id is what the customer chose.
MetaReply(id, from, time, kind, choice, title) ==
    MetaMessage(id, from, time, "interactive",
                Obj(("type" :> Str(kind))
                    @@ (kind :> Obj([id |-> Str(choice), title |-> Str(title)]))),
                Means("text", choice, NoMedia))

MetaImage(id, from, time) ==
    MetaMessage(id, from, time, "image", Obj([id |-> Str("media")]),
                Means("unsupported", None, NoMedia))

MetaStatus(id, recipient, status, time, codes) ==
    [raw |-> Obj([id |-> Str(id), recipient_id |-> Str(recipient),
                  status |-> Str(status),
                  errors |-> List(([i \in DOMAIN codes |->
                                            Obj([code |-> Num(codes[i])])]))]
                 @@ Optional("timestamp", Stamp(time))),
     means |-> [sort |-> "status", id |-> id, recipient |-> recipient,
                status |-> IF status = "warning" THEN "unknown" ELSE status,
                codes |-> codes, time |-> time, damaged |-> FALSE]]

\* Entries are sequences of changes, a change is [messages, statuses], two
\* sequences of items.
Raws(items) == List(([i \in DOMAIN items |-> items[i].raw]))
Meanings(items) == [i \in DOMAIN items |-> items[i].means]

MetaChange(change) ==
    Obj([field |-> Str("messages"),
         value |-> Obj([messages |-> Raws(change.messages),
                        statuses |-> Raws(change.statuses)])])

MetaPayload(entries) ==
    Obj([object |-> Str("whatsapp_business_account"),
         entry |-> List(([i \in DOMAIN entries |->
             Obj([changes |-> List(([j \in DOMAIN entries[i] |->
                 MetaChange(entries[i][j])]))])]))])

MetaElements(entries) ==
    LET changes == FlattenSeq(entries) IN
    (FlattenSeq([i \in DOMAIN changes |->
        Meanings(changes[i].messages \o changes[i].statuses)]))

----------------------------------------------------------------------------
(* Telegram.  Numbers identify messages, chats and users.                  *)

BotMessage(id, chat, user, content, part) ==
    [raw |-> Obj([message_id |-> Num(id), chat |-> Obj([id |-> Num(chat)]),
                  from |-> Obj([id |-> Num(user)])] @@ part),
     means |-> MessageElement("message:" \o ToString(chat) \o ":" \o ToString(id),
                              ToString(user), ToString(chat), content, None)]

BotText(id, chat, user, text) ==
    BotMessage(id, chat, user, Means("text", text, NoMedia), "text" :> Str(text))

BotVoice(id, chat, user, file, mime, size, duration) ==
    BotMessage(id, chat, user,
               Means("voice", None, [id |-> file, mime |-> mime, size |-> size,
                                     duration |-> duration, checksum |-> None]),
               "voice" :> Obj([file_id |-> Str(file), mime_type |-> Str(mime),
                               file_size |-> Num(size), duration |-> Num(duration)]))

BotSticker(id, chat, user) ==
    BotMessage(id, chat, user, Means("unsupported", None, NoMedia), "sticker" :> Obj(<<>>))

\* A button below a message of the bot, in a chat, or below an inline one.
BotCallback(id, user, instance, data, part, chat) ==
    [raw |-> Obj([id |-> Str(id), from |-> Obj([id |-> Num(user)]),
                  chat_instance |-> Str(instance), data |-> Str(data)] @@ part),
     means |-> MessageElement(Strip("callback:" \o id), ToString(user), chat,
                              Means("text", data, NoMedia), None)]

BotButton(id, user, instance, data, chat, message) ==
    BotCallback(id, user, instance, data,
                "message" :> Obj([message_id |-> Num(message),
                                  from |-> Obj([id |-> Num(1)]),
                                  chat |-> Obj([id |-> Num(chat)])]),
                ToString(chat))

BotInline(id, user, instance, data) ==
    BotCallback(id, user, instance, data, <<>>, instance)

----------------------------------------------------------------------------
(* Damage.  A field is named by the keys that lead to it, at most three.    *)

Keys(v) == IF IsObj(v) THEN DOMAIN v.obj ELSE {}

Fields(v) ==
    {<<k>> : k \in Keys(v)}
    \cup UNION {{<<k, l>> : l \in Keys(v.obj[k])} : k \in Keys(v)}
    \cup UNION {UNION {{<<k, l, m>> : m \in Keys(v.obj[k].obj[l])} : l \in Keys(v.obj[k])} :
                    k \in Keys(v)}

\* A field is left out, or has another value.
Missing == [is |-> "missing"]

Put(v, key, by) ==
    IF by = Missing THEN Obj(([k \in DOMAIN v.obj \ {key} |-> v.obj[k]]))
    ELSE Obj([v.obj EXCEPT ![key] = by])

Damage(v, field, by) ==
    CASE Len(field) = 1 -> Put(v, field[1], by)
      [] Len(field) = 2 -> Put(v, field[1], Put(v.obj[field[1]], field[2], by))
      [] Len(field) = 3 ->
            Put(v, field[1],
                Put(v.obj[field[1]], field[2],
                    Put(v.obj[field[1]].obj[field[2]], field[3], by)))
=============================================================================
