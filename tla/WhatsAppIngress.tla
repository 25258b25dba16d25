--------------------------- MODULE WhatsAppIngress ---------------------------
(***************************************************************************)
(* How a message gets to the bot: WuzAPI posts it to the webhook, which    *)
(* publishes it over socket.io; WhatsAppClientV2, in the same process, is  *)
(* the subscriber, and sends through the same socket.  The socket delivers *)
(* in order, what is published while it is down is lost, and it does not   *)
(* come back.  Nobody listens for rejections: a listener that rejects      *)
(* ends the process.                                                       *)
(***************************************************************************)
EXTENDS MessageParsers

CONSTANTS
    Payloads,       \* what WuzAPI posts
    MaxMessages     \* bound: messages that are accepted

ASSUME MaxMessagesAssumption == MaxMessages \in Nat

VARIABLES
    link,       \* the client's socket: "connecting", "up", "down"
    client,     \* whether the client is started, how many listeners it has
    accepted,   \* history: the payloads of the messages the webhook published
    wire,       \* published and not yet delivered
    heardBy,    \* listeners that were called with the head of the wire
    pinging,    \* deliveries of "/ping" messages whose answer is not sent yet
    crashed     \* a listener rejected

ingressVars == <<link, client, accepted, wire, heardBy, pinging, crashed>>

\* start: once started it does nothing.
StartedUnguarded(c) ==          \* mutant: started is not looked at
    [started |-> TRUE, listeners |-> c.listeners + 1]

Started(c) ==
    IF c.started THEN c
    ELSE [started |-> TRUE, listeners |-> c.listeners + 1]

\* registerConsumers starts the client, and so does BifastConsumer.
IngressInit ==
    /\ link = "connecting"
    /\ client = Started(Started([started |-> FALSE, listeners |-> 0]))
    /\ accepted = <<>>
    /\ wire = <<>>
    /\ heardBy = 0
    /\ pinging = {}
    /\ crashed = FALSE

\* WhatsAppEventPayload, and normalize: the text is in one of two places.
PayloadOf(type, chat, conversation, extended) ==
    [type |-> type, chat |-> chat, conversation |-> conversation,
     extended |-> extended]

BodyInConversation(p) ==        \* mutant: an extended text is not looked at
    p.conversation

Body(p) == IF p.conversation # Blank THEN p.conversation ELSE p.extended

Normalize(p, id, now) ==
    [id |-> id, chat |-> p.chat, text |-> Body(p), sent |-> now]

\* handleWuzApiWebhook and publish.  A post that is no message is answered, one
\* without data is not, and a message without a subscriber is answered and
\* lost: none of them is a step.
Webhook(p, now) ==
    /\ Len(accepted) < MaxMessages
    /\ p.type = "Message"
    /\ link = "up"
    /\ accepted' = Append(accepted, p)
    /\ wire' = Append(wire, Normalize(p, Len(accepted) + 1, now))
    /\ UNCHANGED <<link, client, heardBy, pinging, crashed>>

Connects ==
    /\ link = "connecting"
    /\ link' = "up"
    /\ UNCHANGED <<client, accepted, wire, heardBy, pinging, crashed>>

\* With what was on its way.  `reconnection' is off.
Disconnects ==
    /\ link = "up"
    /\ link' = "down"
    /\ wire' = <<>>
    /\ heardBy' = 0
    /\ UNCHANGED <<client, accepted, pinging, crashed>>

\* One listener is called with the next message; after the last the message
\* has been delivered.
Deliver ==
    /\ wire # <<>>
    /\ IF heardBy + 1 < client.listeners
       THEN heardBy' = heardBy + 1 /\ UNCHANGED wire
       ELSE heardBy' = 0 /\ wire' = Tail(wire)
    /\ UNCHANGED <<link, client, accepted, crashed>>

PingAnything(t) == TRUE         \* mutant: every message is answered first
IsPing(t) == Includes(t, "/ping")

Delivery == [msg |-> Head(wire), by |-> heardBy]

\* The listener answers a ping, and awaits that it is sent, before it goes on.
DeliverPing ==
    /\ Deliver
    /\ IsPing(Head(wire).text)
    /\ pinging' = pinging \cup {Delivery}

DeliverOther ==
    /\ Deliver
    /\ ~IsPing(Head(wire).text)
    /\ UNCHANGED pinging

\* "pong!" went out.  A send over a socket that is down is not acknowledged.
PingSent(d) ==
    /\ link = "up"
    /\ d \in pinging
    /\ pinging' = pinging \ {d}
    /\ UNCHANGED <<link, client, accepted, wire, heardBy, crashed>>

\* It did not: the promise is rejected, and with it the listener.
PingFails(d) ==
    /\ link = "up"
    /\ d \in pinging
    /\ crashed' = TRUE
    /\ UNCHANGED <<link, client, accepted, wire, heardBy, pinging>>

\* The words of the text, of whatever chat, rewrite the page.
PageAfter(page, t, now) ==
    LET opened == IF Includes(t, "open") THEN WithPageRow(page, "OPEN", now)
                  ELSE page
    IN  IF Includes(t, "close") THEN WithPageRow(opened, "CLOSE", now)
        ELSE opened

=============================================================================
