----------------------------- MODULE MCWebhooks -----------------------------
(* Instances of Webhooks for TLC: bodies as the providers make them, and    *)
(* every message and status with one of its fields damaged.                 *)
EXTENDS Webhooks, ProviderPayloads

CONSTANTS h1, h2

TwoHandlers == {h1, h2}
Connections == {"cloud", "bot", "shop"}
Channels == [c \in Connections |-> IF c = "cloud" THEN "whatsapp" ELSE "telegram"]

PaddedStrings ==
    (" blue " :> "blue") @@ ("  " :> "") @@ ("callback: blue " :> "callback: blue")
LongStrings == {"long", "message:70:long", "callback:long"}
WideStrings == LongStrings \cup {"wide"}
Times == ("5" :> 5) @@ ("6" :> 6)
Checksums == ("ABCD" :> "abcd") @@ ("abcd" :> "abcd")

----------------------------------------------------------------------------
(* Items.                                                                  *)

hello == MetaText("m1", "ann", 5, "hello", "hello")
blue == MetaText("m2", "bob", None, " blue ", "blue")
note == MetaAudio("m3", "ann", 5, "media", "ogg", "ABCD", "abcd")
nul == MetaText("m8", "ann", 5, "nul", "nul")
button == MetaReply("m4", "ann", 5, "button_reply", "sku-1", "Sneakers")
row == MetaReply("m5", "ann", 5, "list_reply", "sku-2", "Sandals")
image == MetaImage("m6", "ann", 5)
wideMime == MetaAudio("m7", "ann", 5, "media", "wide", "abcd", "abcd")

sent == MetaStatus("m0", "ann", "sent", 5, <<>>)
delivered == MetaStatus("m0", "ann", "delivered", 5, <<>>)
failed == MetaStatus("m0", "bob", "failed", 6, <<131047, 470>>)
warning == MetaStatus("m0", "ann", "warning", None, <<>>)
negative == MetaStatus("m0", "ann", "failed", 5, <<-1>>)

hi == BotText(7, 70, 70, "hi")
elsewhere == BotText(7, -80, 81, "hi")
memo == BotVoice(8, 70, 70, "file", "ogg", 9, 3)
lasting == BotVoice(10, 70, 70, "file", "ogg", 9, 101)
huge == BotVoice(11, 70, 70, "file", "ogg", 10001, 3)
sticker == BotSticker(9, 70, 70)
press == BotButton("7", 70, "chat", "sku-1", 70, 7)
inline == BotInline("9", 81, "chat", "sku-2")
padded == BotButton(" blue ", 70, "chat", "sku-1", 70, 7)

CloudMessages == {hello, blue, note, button, row, image}
CloudStatuses == {sent, failed, warning}
BotMessages == {hi, memo, sticker}
BotCallbacks == {press, inline}

\* What a damaged field is instead; an identifier of Telegram has no type.
MetaDamage == {Missing, Null, Str("  "), Num(0), List(<<>>)}
BotDamage == {Missing, Null, Str("  "), Str("long")}

DamagedItems(items, values) ==
    UNION {{[raw |-> Damage(item.raw, field, v),
             means |-> [item.means EXCEPT !.damaged = TRUE]] :
                field \in Fields(item.raw), v \in values} : item \in items}

----------------------------------------------------------------------------
(* Bodies.                                                                 *)

Change(mess, stat) == [messages |-> mess, statuses |-> stat]

Body(connection, payload, elements) ==
    [connection |-> connection, payload |-> payload, elements |-> elements]
Cloud(entries) == Body("cloud", MetaPayload(entries), MetaElements(entries))
Bot(bot, key, item) == Body(bot, Obj(key :> item.raw), <<item.means>>)

\* Bodies of one change of one entry.
CloudMessage(item) == Cloud(<<<<Change(<<item>>, <<>>)>>>>)
CloudStatus(item) == Cloud(<<<<Change(<<>>, <<item>>)>>>>)

WholeBodies ==
    {CloudMessage(item) : item \in CloudMessages}
    \cup {CloudStatus(item) : item \in CloudStatuses}
    \cup {Bot("bot", "message", item) : item \in BotMessages}
    \cup {Bot("bot", "callback_query", item) : item \in BotCallbacks}

\* A damaged message or status comes beside a sound message.
DamagedBodies ==
    {Cloud(<<<<Change(<<hello>>, <<>>)>>, <<Change(<<item>>, <<>>)>>>>) :
        item \in DamagedItems({note, button, row, image}, MetaDamage)}
    \cup {Cloud(<<<<Change(<<blue>>, <<item>>)>>>>) :
        item \in DamagedItems({failed}, MetaDamage)}
    \cup {Bot("bot", "message", item) : item \in DamagedItems(BotMessages, BotDamage)}
    \cup {Bot("bot", "callback_query", item) :
        item \in DamagedItems(BotCallbacks, BotDamage)}

Entries(s) == Obj([object |-> Str("whatsapp_business_account"), entry |-> List(s)])
Changes(s) == Entries(<<Obj([changes |-> List(s)])>>)

\* Payloads without messages and statuses; most of them are refused.
OtherCloudPayloads ==
    {Null, List(<<>>), Obj(<<>>), Obj([object |-> Str("page"), entry |-> List(<<>>)]),
     Entries(<<>>), Changes(<<>>), Changes(<<Num(0)>>),
     Changes(<<Obj([field |-> Str("security"), value |-> Num(0)])>>),
     Changes(<<Obj([field |-> Str("messages")])>>),
     Changes(<<Obj([field |-> Str("messages"), value |-> Obj(<<>>)])>>)}

OtherBotPayloads ==
    {Obj([edited_message |-> hi.raw]), Obj([message |-> Null]),
     Obj([callback_query |-> Num(0)])}

\* What JSONB refuses.
UnstorablePayloads == {CloudMessage(nul).payload}

OtherBodies ==
    {Body("cloud", payload, <<>>) : payload \in OtherCloudPayloads}
    \cup {Body("bot", payload, <<>>) : payload \in OtherBotPayloads}

\* Bodies that share messages, statuses, identifiers or chats.
SharedMailings ==
    { \* delivered one by one, and together again
      <<CloudMessage(hello), Cloud(<<<<Change(<<blue, hello>>, <<>>)>>>>)>>,
      <<Cloud(<<<<Change(<<hello>>, <<sent>>)>>, <<Change(<<>>, <<delivered, sent>>)>>>>),
        Cloud(<<<<Change(<<>>, <<delivered, failed>>), Change(<<hello, hello>>, <<>>)>>>>)>>,
      <<CloudStatus(warning), Cloud(<<<<Change(<<>>, <<warning, sent>>)>>>>)>>,
      \* every kind at once, over entries and changes
      <<Cloud(<<<<Change(<<note, button>>, <<>>), Change(<<>>, <<sent>>)>>,
                <<Change(<<row>>, <<>>), Change(<<image, blue>>, <<>>)>>>>)>>,
      \* one message id in two chats of a bot, in two bots, and of a callback
      <<Bot("bot", "message", hi), Bot("bot", "message", elsewhere)>>,
      <<Bot("bot", "message", hi), Bot("shop", "message", hi)>>,
      <<Bot("bot", "message", hi), Bot("bot", "callback_query", press)>>,
      \* what does not fit the columns or the fingerprint
      <<Cloud(<<<<Change(<<hello>>, <<negative>>)>>>>), CloudMessage(hello)>>,
      <<CloudMessage(wideMime)>>,
      <<CloudMessage(nul), CloudMessage(hello)>>,
      <<Bot("bot", "message", huge)>>,
      <<Bot("bot", "callback_query", padded)>>,
      <<Bot("bot", "message", lasting)>> }

AllMailings ==
    {<<b>> : b \in WholeBodies \cup DamagedBodies \cup OtherBodies} \cup SharedMailings

----------------------------------------------------------------------------
(* The values the payloads consist of.                                     *)

\* Payloads are at most MaxDepth deep.
MaxDepth == 12

Parts(v) ==
    CASE IsObj(v) -> {v.obj[key] : key \in DOMAIN v.obj}
      [] IsList(v) -> ToSet(v.list)
      [] OTHER -> {}

JsonValues ==
    LET Depth[n \in 0..MaxDepth] ==
            IF n = 0
            THEN UNION {{mailing[b].payload : b \in DOMAIN mailing} : mailing \in AllMailings}
            ELSE UNION {Parts(v) : v \in Depth[n - 1]}
    IN  {Null} \cup UNION {Depth[n] : n \in 0..MaxDepth}
=============================================================================
