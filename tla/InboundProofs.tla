----------------------------- MODULE InboundProofs -----------------------------
(***************************************************************************)
(* Theorems about Inbound, for any payloads, chats, meanings and bounds:   *)
(* a message is handled at most once, and those that are handled as they   *)
(* are delivered are handled in the order they were accepted.              *)
(***************************************************************************)
EXTENDS Inbound, SequenceTheorems, TLAPS

\* The variables that the way of a message takes, and all that happens to them.
traffic == <<client, accepted, wire, heardBy, pinging, handled>>

Messages ==
    [id : Nat, chat : {p.chat : p \in Payloads}, text : {Body(p) : p \in Payloads},
     sent : Nat]

-----------------------------------------------------------------------------
\* The inductive invariant.

OneListener ==
    /\ client = [started |-> TRUE, listeners |-> 1]
    /\ heardBy = 0

TrafficTypeOK ==
    /\ clock \in Nat
    /\ accepted \in Seq(Payloads)
    /\ wire \in Seq(Messages)
    /\ pinging \subseteq [msg : Messages, by : {0}]
    /\ handled \in Seq(DOMAIN accepted)

\* Messages are numbered as their payloads are accepted.
Numbered(m) ==
    /\ m.id \in DOMAIN accepted
    /\ m.text = Body(accepted[m.id])
    /\ m.chat = accepted[m.id].chat

AllNumbered ==
    /\ \A i \in DOMAIN wire : Numbered(wire[i])
    /\ \A d \in pinging : Numbered(d.msg)

\* What is on the wire is in order and later than all that was delivered.
WireInOrder ==
    \A i, j \in DOMAIN wire : i < j => wire[i].id < wire[j].id

WireIsLater ==
    \A j \in DOMAIN wire :
        /\ \A i \in DOMAIN handled : handled[i] < wire[j].id
        /\ \A d \in pinging : d.msg.id < wire[j].id

\* A listener that awaits its answer has a ping of its own, not handled yet.
PingsWait ==
    \A d \in pinging :
        /\ ~Direct(d.msg.id)
        /\ \A i \in DOMAIN handled : handled[i] # d.msg.id
        /\ \A c \in pinging : c.msg.id = d.msg.id => c = d

TrafficInv ==
    /\ OneListener
    /\ TrafficTypeOK
    /\ AllNumbered
    /\ WireInOrder
    /\ WireIsLater
    /\ PingsWait
    /\ HandledOnce
    /\ HandledInOrder

LEMMA TrafficInit == Init => TrafficInv
<1>. SUFFICES ASSUME Init PROVE TrafficInv
  OBVIOUS
<1>1. OneListener
  BY DEF Init, IngressInit, OneListener, Started
<1>2. TrafficTypeOK
  BY DEF Init, IngressInit, TrafficTypeOK
<1>3. AllNumbered /\ WireInOrder /\ WireIsLater /\ PingsWait
  BY DEF Init, IngressInit, AllNumbered, WireInOrder, WireIsLater, PingsWait
<1>4. HandledOnce /\ HandledInOrder
  BY DEF Init, IngressInit, HandledOnce, HandledInOrder, IsInjective
<1>. QED  BY <1>1, <1>2, <1>3, <1>4 DEF TrafficInv

\* Steps of the handlers, the jobs and the clock.
LEMMA TrafficStays ==
    ASSUME TrafficInv, UNCHANGED traffic, clock' \in Nat
    PROVE  TrafficInv'
<1>1. UNCHANGED <<client, accepted, wire, heardBy, pinging, handled>>
  BY DEF traffic
<1>2. OneListener' /\ TrafficTypeOK'
  BY <1>1 DEF TrafficInv, OneListener, TrafficTypeOK
<1>3. AllNumbered' /\ WireInOrder' /\ WireIsLater'
  BY <1>1 DEF TrafficInv, AllNumbered, Numbered, WireInOrder, WireIsLater
<1>4. PingsWait'
  BY <1>1 DEF TrafficInv, PingsWait, Direct
<1>5. HandledOnce' /\ HandledInOrder'
  BY <1>1 DEF TrafficInv, HandledOnce, HandledInOrder, Direct
<1>. QED  BY <1>2, <1>3, <1>4, <1>5 DEF TrafficInv

\* A message that is accepted gets the next number and goes to the end of the wire.
LEMMA TrafficWebhook ==
    ASSUME TrafficInv, NEW p \in Payloads, Webhook(p, clock),
           UNCHANGED <<clock, handled>>
    PROVE  TrafficInv'
<1>. DEFINE m == Normalize(p, Len(accepted) + 1, clock)
<1>1. /\ accepted' = Append(accepted, p)
      /\ wire' = Append(wire, m)
      /\ UNCHANGED <<client, heardBy, pinging, clock, handled>>
  BY DEF Webhook
<1>2. Len(accepted) \in Nat /\ m \in Messages /\ m.id = Len(accepted) + 1
      /\ m.text = Body(p) /\ m.chat = p.chat
  <2>1. Len(accepted) \in Nat /\ clock \in Nat
    BY LenProperties DEF TrafficInv, TrafficTypeOK
  <2>2. \A id, now \in Nat : Normalize(p, id, now) \in Messages
    BY DEF Messages, Normalize
  <2>3. m.id = Len(accepted) + 1 /\ m.text = Body(p) /\ m.chat = p.chat
    BY DEF Normalize
  <2>4. Len(accepted) + 1 \in Nat
    BY <2>1
  <2>. QED  BY <2>1, <2>2, <2>3, <2>4
<1>. HIDE DEF m
<1>3. /\ accepted' \in Seq(Payloads)
      /\ DOMAIN accepted = 1 .. Len(accepted)
      /\ DOMAIN accepted' = 1 .. Len(accepted) + 1
      /\ \A i \in DOMAIN accepted : accepted'[i] = accepted[i]
      /\ accepted'[Len(accepted) + 1] = p
  BY <1>1, <1>2, AppendProperties DEF TrafficInv, TrafficTypeOK
<1>4. /\ wire' \in Seq(Messages)
      /\ Len(wire) \in Nat
      /\ DOMAIN wire = 1 .. Len(wire)
      /\ DOMAIN wire' = 1 .. Len(wire) + 1
      /\ \A i \in DOMAIN wire : wire'[i] = wire[i]
      /\ wire'[Len(wire) + 1] = m
  BY <1>1, <1>2, AppendProperties DEF TrafficInv, TrafficTypeOK
<1>5. OneListener'
  BY <1>1 DEF TrafficInv, OneListener
<1>6. TrafficTypeOK'
  <2>1. handled' \in Seq(DOMAIN accepted')
    BY <1>1, <1>2, <1>3 DEF TrafficInv, TrafficTypeOK
  <2>. QED  BY <1>1, <1>3, <1>4, <2>1 DEF TrafficInv, TrafficTypeOK
<1>7. AllNumbered'
  BY <1>1, <1>2, <1>3, <1>4 DEF TrafficInv, AllNumbered, Numbered
<1>8. WireInOrder'
  BY <1>2, <1>3, <1>4 DEF TrafficInv, AllNumbered, Numbered, WireInOrder
<1>9. WireIsLater'
  <2>1. \A i \in DOMAIN handled : handled[i] \in 1 .. Len(accepted)
    BY <1>3 DEF TrafficInv, TrafficTypeOK
  <2>. QED  BY <1>1, <1>2, <1>3, <1>4, <2>1
         DEF TrafficInv, AllNumbered, Numbered, WireIsLater
<1>10. PingsWait'
  BY <1>1, <1>2, <1>3 DEF TrafficInv, AllNumbered, Numbered, PingsWait, Direct
<1>11. HandledOnce'
  BY <1>1 DEF TrafficInv, HandledOnce
<1>12. HandledInOrder'
  <2>1. \A i \in DOMAIN handled : handled[i] \in DOMAIN accepted
    BY DEF TrafficInv, TrafficTypeOK
  <2>. QED  BY <1>1, <1>2, <1>3, <2>1 DEF TrafficInv, HandledInOrder, Direct
<1>. QED  BY <1>5, <1>6, <1>7, <1>8, <1>9, <1>10, <1>11, <1>12 DEF TrafficInv

\* What is on its way when the socket goes down is lost.
LEMMA TrafficDisconnects ==
    ASSUME TrafficInv, Disconnects, UNCHANGED <<clock, handled>>
    PROVE  TrafficInv'
<1>1. wire' = <<>> /\ heardBy' = 0
      /\ UNCHANGED <<client, accepted, pinging, clock, handled>>
  BY DEF Disconnects
<1>2. OneListener' /\ TrafficTypeOK'
  BY <1>1 DEF TrafficInv, OneListener, TrafficTypeOK
<1>3. AllNumbered' /\ WireInOrder' /\ WireIsLater'
  BY <1>1 DEF TrafficInv, AllNumbered, Numbered, WireInOrder, WireIsLater
<1>4. PingsWait'
  BY <1>1 DEF TrafficInv, PingsWait, Direct
<1>5. HandledOnce' /\ HandledInOrder'
  BY <1>1 DEF TrafficInv, HandledOnce, HandledInOrder, Direct
<1>. QED  BY <1>2, <1>3, <1>4, <1>5 DEF TrafficInv

\* With one listener a delivery takes the first message off the wire.
LEMMA Delivered ==
    ASSUME TrafficInv, Deliver
    PROVE  /\ Delivery = [msg |-> Head(wire), by |-> 0]
           /\ Head(wire) \in Messages
           /\ Numbered(Head(wire))
           /\ Len(wire) \in Nat \ {0}
           /\ heardBy' = 0
           /\ wire' \in Seq(Messages)
           /\ DOMAIN wire = 1 .. Len(wire)
           /\ DOMAIN wire' = 1 .. Len(wire) - 1
           /\ \A i \in DOMAIN wire' : wire'[i] = wire[i + 1]
           /\ \A i \in DOMAIN wire' : Head(wire).id < wire'[i].id
           /\ \A i \in DOMAIN handled : handled[i] < Head(wire).id
           /\ \A d \in pinging : d.msg.id < Head(wire).id
           /\ UNCHANGED <<client, accepted>>
<1>1. heardBy = 0 /\ client.listeners = 1 /\ wire \in Seq(Messages) /\ wire # <<>>
  BY DEF TrafficInv, OneListener, TrafficTypeOK, Deliver
<1>2. heardBy' = 0 /\ wire' = Tail(wire) /\ UNCHANGED <<client, accepted>>
  BY <1>1 DEF Deliver
<1>3. /\ Head(wire) = wire[1]
      /\ Head(wire) \in Messages
      /\ Len(wire) \in Nat \ {0}
      /\ DOMAIN wire = 1 .. Len(wire)
      /\ Tail(wire) \in Seq(Messages)
      /\ DOMAIN Tail(wire) = 1 .. Len(wire) - 1
      /\ \A i \in 1 .. Len(wire) - 1 : Tail(wire)[i] = wire[i + 1]
  BY <1>1, HeadTailProperties, EmptySeq, LenProperties
<1>4. 1 \in DOMAIN wire /\ \A i \in 1 .. Len(wire) - 1 : i + 1 \in DOMAIN wire /\ 1 < i + 1
  BY <1>3
<1>5. Numbered(Head(wire))
  BY <1>3, <1>4 DEF TrafficInv, AllNumbered
<1>6. \A i \in DOMAIN wire' : Head(wire).id < wire'[i].id
  BY <1>2, <1>3, <1>4 DEF TrafficInv, WireInOrder
<1>7. /\ \A i \in DOMAIN handled : handled[i] < Head(wire).id
      /\ \A d \in pinging : d.msg.id < Head(wire).id
  BY <1>3, <1>4 DEF TrafficInv, WireIsLater
<1>8. Delivery = [msg |-> Head(wire), by |-> 0]
  BY <1>1 DEF Delivery
<1>. QED  BY <1>2, <1>3, <1>5, <1>6, <1>7, <1>8

\* What is left on the wire stays numbered, in order and later than the rest.
LEMMA WireAfterDelivery ==
    ASSUME TrafficInv, Deliver
    PROVE  WireInOrder' /\ \A i \in DOMAIN wire' : Numbered(wire[i + 1])
<1>1. /\ Len(wire) \in Nat
      /\ DOMAIN wire = 1 .. Len(wire)
      /\ DOMAIN wire' = 1 .. Len(wire) - 1
      /\ \A i \in DOMAIN wire' : wire'[i] = wire[i + 1]
  BY Delivered
<1>2. \A i \in DOMAIN wire' : i + 1 \in DOMAIN wire
  BY <1>1
<1>3. \A i, j \in DOMAIN wire' : i < j => i + 1 < j + 1
  BY <1>1
<1>. QED  BY <1>1, <1>2, <1>3 DEF TrafficInv, WireInOrder, AllNumbered

\* A message that is no ping is handled as it is delivered.
LEMMA TrafficReceiveOther ==
    ASSUME TrafficInv, ReceiveOther
    PROVE  TrafficInv'
<1>. DEFINE n == Head(wire).id
<1>1. /\ handled' = Append(handled, n)
      /\ UNCHANGED <<clock, pinging>>
      /\ Deliver
  BY Delivered DEF ReceiveOther, DeliverOther, Emit, complaintVars
<1>2. n \in DOMAIN accepted /\ handled \in Seq(DOMAIN accepted)
  BY <1>1, Delivered DEF Numbered, TrafficInv, TrafficTypeOK
<1>. HIDE DEF n
<1>3. /\ Len(handled) \in Nat
      /\ handled' \in Seq(DOMAIN accepted)
      /\ DOMAIN handled = 1 .. Len(handled)
      /\ DOMAIN handled' = 1 .. Len(handled) + 1
      /\ \A i \in DOMAIN handled : handled'[i] = handled[i]
      /\ handled'[Len(handled) + 1] = n
  BY <1>1, <1>2, AppendProperties, LenProperties
<1>4. /\ \A i \in DOMAIN handled : handled[i] < n
      /\ \A d \in pinging : d.msg.id < n
      /\ \A i \in DOMAIN wire' : n < wire'[i].id
      /\ UNCHANGED <<client, accepted>>
  BY <1>1, Delivered DEF n
<1>5. accepted \in Seq(Payloads)
  BY DEF TrafficInv, TrafficTypeOK
<1>6. DOMAIN accepted = 1 .. Len(accepted) /\ Len(accepted) \in Nat
  BY <1>5, LenProperties
<1>7. OneListener' /\ TrafficTypeOK'
  BY <1>1, <1>3, <1>4, Delivered DEF TrafficInv, OneListener, TrafficTypeOK
<1>8. AllNumbered'
  BY <1>1, <1>4, Delivered, WireAfterDelivery
     DEF TrafficInv, AllNumbered, Numbered
<1>9. WireIsLater'
  <2>1. \A i \in DOMAIN wire' : \A d \in pinging : d.msg.id < wire'[i].id
    <3>. SUFFICES ASSUME NEW i \in DOMAIN wire', NEW d \in pinging
                  PROVE  d.msg.id < wire'[i].id
      OBVIOUS
    <3>1. i + 1 \in DOMAIN wire /\ wire'[i] = wire[i + 1]
      BY <1>1, Delivered
    <3>. QED  BY <3>1 DEF TrafficInv, WireIsLater
  <2>2. \A i \in DOMAIN wire', j \in DOMAIN handled : handled[j] < wire'[i].id
    <3>. SUFFICES ASSUME NEW i \in DOMAIN wire', NEW j \in DOMAIN handled
                  PROVE  handled[j] < wire'[i].id
      OBVIOUS
    <3>1. i + 1 \in DOMAIN wire /\ wire'[i] = wire[i + 1]
      BY <1>1, Delivered
    <3>. QED  BY <3>1 DEF TrafficInv, WireIsLater
  <2>. QED  BY <1>1, <1>3, <1>4, <2>1, <2>2 DEF WireIsLater
<1>10. PingsWait'
  <2>1. \A d \in pinging : d.msg.id # n
    BY <1>2, <1>4, <1>6 DEF TrafficInv, AllNumbered, Numbered
  <2>. QED  BY <1>1, <1>3, <1>4, <2>1 DEF TrafficInv, PingsWait, Direct
<1>11. HandledOnce'
  <2>1. \A i \in DOMAIN handled : handled[i] # n
    BY <1>2, <1>4, <1>6
  <2>. QED  BY <1>3, <2>1 DEF TrafficInv, HandledOnce, IsInjective
<1>12. HandledInOrder'
  <2>1. \A i \in DOMAIN handled : handled[i] <= n
    BY <1>2, <1>4, <1>6
  <2>. QED  BY <1>3, <1>4, <2>1 DEF TrafficInv, HandledInOrder, Direct
<1>. QED  BY <1>7, <1>8, WireAfterDelivery, <1>1, <1>9, <1>10, <1>11, <1>12
       DEF TrafficInv

\* A ping waits for its answer first.
LEMMA TrafficReceivePing ==
    ASSUME TrafficInv, ReceivePing
    PROVE  TrafficInv'
<1>. DEFINE n == Head(wire).id
            e == [msg |-> Head(wire), by |-> 0]
<1>1. /\ pinging' = pinging \cup {e}
      /\ UNCHANGED <<clock, handled>>
      /\ Deliver
      /\ IsPing(Head(wire).text)
  BY Delivered DEF ReceivePing, DeliverPing, complaintVars, progress
<1>2. /\ e \in [msg : Messages, by : {0}]
      /\ e.msg = Head(wire)
      /\ Numbered(Head(wire))
      /\ UNCHANGED <<client, accepted>>
  BY <1>1, Delivered
<1>3. ~Direct(n)
  BY <1>1, <1>2 DEF Direct, IsPing, Numbered
<1>4. OneListener' /\ TrafficTypeOK'
  BY <1>1, <1>2, Delivered DEF TrafficInv, OneListener, TrafficTypeOK
<1>5. AllNumbered'
  BY <1>1, <1>2, Delivered, WireAfterDelivery
     DEF TrafficInv, AllNumbered, Numbered
<1>6. WireIsLater'
  <2>. SUFFICES ASSUME NEW i \in DOMAIN wire'
                PROVE  /\ \A j \in DOMAIN handled : handled[j] < wire'[i].id
                       /\ \A d \in pinging \cup {e} : d.msg.id < wire'[i].id
    BY <1>1 DEF WireIsLater
  <2>1. i + 1 \in DOMAIN wire /\ wire'[i] = wire[i + 1] /\ n < wire'[i].id
    BY <1>1, Delivered
  <2>. QED  BY <2>1, <1>2 DEF TrafficInv, WireIsLater
<1>7. PingsWait'
  <2>1. \A i \in DOMAIN handled : handled[i] # n
    <3>1. \A i \in DOMAIN handled : handled[i] < n /\ handled[i] \in DOMAIN accepted
      BY <1>1, Delivered DEF TrafficInv, TrafficTypeOK
    <3>2. n \in DOMAIN accepted /\ DOMAIN accepted = 1 .. Len(accepted)
      BY <1>2, LenProperties DEF Numbered, TrafficInv, TrafficTypeOK
    <3>. QED  BY <3>1, <3>2
  <2>2. e.msg.id = n
    OBVIOUS
  <2>3. \A d \in pinging : d.msg.id # n
    <3>1. \A d \in pinging : d.msg.id < n /\ d.msg.id \in DOMAIN accepted
      BY <1>1, Delivered DEF TrafficInv, AllNumbered, Numbered
    <3>2. n \in DOMAIN accepted /\ DOMAIN accepted = 1 .. Len(accepted)
      BY <1>2, LenProperties DEF Numbered, TrafficInv, TrafficTypeOK
    <3>. QED  BY <3>1, <3>2
  <2>. HIDE DEF e, n
  <2>. QED  BY <1>1, <1>2, <1>3, <2>1, <2>2, <2>3
         DEF TrafficInv, PingsWait, Direct
<1>8. HandledOnce' /\ HandledInOrder'
  BY <1>1, <1>2 DEF TrafficInv, HandledOnce, HandledInOrder, Direct
<1>. QED  BY <1>1, <1>4, <1>5, <1>6, <1>7, <1>8, WireAfterDelivery DEF TrafficInv

\* And is handled when the answer is out, whatever was handled meanwhile.
LEMMA TrafficPingSent ==
    ASSUME TrafficInv, NEW d \in pinging, ReceivePingSent(d)
    PROVE  TrafficInv'
<1>. DEFINE n == d.msg.id
<1>1. /\ handled' = Append(handled, n)
      /\ pinging' = pinging \ {d}
      /\ UNCHANGED <<client, accepted, wire, heardBy, clock>>
  BY DEF ReceivePingSent, PingSent, Emit, complaintVars
<1>2. /\ n \in DOMAIN accepted
      /\ handled \in Seq(DOMAIN accepted)
      /\ ~Direct(n)
      /\ \A i \in DOMAIN handled : handled[i] # n
      /\ \A i \in DOMAIN wire : n < wire[i].id
  BY DEF TrafficInv, TrafficTypeOK, AllNumbered, Numbered, PingsWait, WireIsLater
<1>3. \A c \in pinging \ {d} : c.msg.id # n
  BY DEF TrafficInv, PingsWait
<1>. HIDE DEF n
<1>4. /\ Len(handled) \in Nat
      /\ handled' \in Seq(DOMAIN accepted)
      /\ DOMAIN handled = 1 .. Len(handled)
      /\ DOMAIN handled' = 1 .. Len(handled) + 1
      /\ \A i \in DOMAIN handled : handled'[i] = handled[i]
      /\ handled'[Len(handled) + 1] = n
  BY <1>1, <1>2, AppendProperties, LenProperties
<1>5. OneListener' /\ TrafficTypeOK'
  BY <1>1, <1>4 DEF TrafficInv, OneListener, TrafficTypeOK
<1>6. AllNumbered' /\ WireInOrder'
  BY <1>1 DEF TrafficInv, AllNumbered, Numbered, WireInOrder
<1>7. WireIsLater'
  BY <1>1, <1>2, <1>4 DEF TrafficInv, WireIsLater
<1>8. PingsWait'
  BY <1>1, <1>3, <1>4 DEF TrafficInv, PingsWait, Direct
<1>9. HandledOnce'
  BY <1>2, <1>4 DEF TrafficInv, HandledOnce, IsInjective
<1>10. HandledInOrder'
  BY <1>1, <1>2, <1>4 DEF TrafficInv, HandledInOrder, Direct
<1>. QED  BY <1>5, <1>6, <1>7, <1>8, <1>9, <1>10 DEF TrafficInv

-----------------------------------------------------------------------------

\* Steps that take no part in the traffic leave its variables as they are.
LEMMA OtherSteps ==
    ASSUME TrafficInv,
           \/ \E h \in handling : Replied(h) \/ Proceeds(h)
           \/ \E b \in BankNames : RecoveryTick(b) \/ VerificationEnds(b)
           \/ \E b \in BankNames, decision \in Decisions :
                  VerificationTick(b, decision)
           \/ MinutePasses
           \/ UNCHANGED vars
    PROVE  UNCHANGED traffic /\ clock' \in Nat
<1>0. clock \in Nat
  BY DEF TrafficInv, TrafficTypeOK
<1>. USE DEF traffic, ingressVars, complaintVars, jobState, progress
<1>1. ASSUME NEW h \in handling, Replied(h)
      PROVE  UNCHANGED <<traffic, clock>>
  BY <1>1 DEF Replied
<1>2. ASSUME NEW h \in handling, ComplaintRead(h)
      PROVE  UNCHANGED <<traffic, clock>>
  BY <1>2 DEF ComplaintRead
<1>3. ASSUME NEW h \in handling, ClosedRead(h)
      PROVE  UNCHANGED <<traffic, clock>>
  BY <1>3 DEF ClosedRead
<1>4. ASSUME NEW h \in handling, Executed(h)
      PROVE  UNCHANGED <<traffic, clock>>
  BY <1>4 DEF Executed
<1>5. ASSUME NEW b \in BankNames, RecoveryTick(b)
      PROVE  UNCHANGED <<traffic, clock>>
  BY <1>5 DEF RecoveryTick
<1>6. ASSUME NEW b \in BankNames, VerificationEnds(b)
      PROVE  UNCHANGED <<traffic, clock>>
  BY <1>6 DEF VerificationEnds
<1>7. ASSUME NEW b \in BankNames, NEW decision \in Decisions,
             VerificationTick(b, decision)
      PROVE  UNCHANGED <<traffic, clock>>
  BY <1>7 DEF VerificationTick
<1>8. ASSUME MinutePasses PROVE UNCHANGED traffic /\ clock' \in Nat
  BY <1>8, <1>0 DEF MinutePasses
<1>9. ASSUME UNCHANGED vars PROVE UNCHANGED <<traffic, clock>>
  BY <1>9 DEF vars
<1>10. ASSUME NEW h \in handling, RowRead(h)
       PROVE  UNCHANGED <<traffic, clock>>
  BY <1>10 DEF RowRead
<1>. QED  BY <1>0, <1>1, <1>2, <1>3, <1>4, <1>5, <1>6, <1>7, <1>8, <1>9, <1>10
         DEF Proceeds

LEMMA TrafficNext ==
    ASSUME TrafficInv, [Next]_vars
    PROVE  TrafficInv'
<1>1. ASSUME World, UNCHANGED <<complaintVars, jobState, progress>>
      PROVE  TrafficInv'
  <2>0. clock \in Nat /\ UNCHANGED <<clock, handled>>
    BY <1>1 DEF complaintVars, progress, TrafficInv, TrafficTypeOK
  <2>1. ASSUME NEW p \in Payloads, Webhook(p, clock) PROVE TrafficInv'
    BY <2>0, <2>1, TrafficWebhook
  <2>2. CASE Connects
    BY <2>0, <2>2, TrafficStays DEF Connects, traffic
  <2>3. CASE Disconnects
    BY <2>0, <2>3, TrafficDisconnects
  <2>4. ASSUME NEW d \in pinging, PingFails(d) PROVE TrafficInv'
    BY <2>0, <2>4, TrafficStays DEF PingFails, traffic
  <2>. QED  BY <1>1, <2>1, <2>2, <2>3, <2>4 DEF World
<1>2. CASE ReceiveOther
  BY <1>2, TrafficReceiveOther
<1>3. CASE ReceivePing
  BY <1>3, TrafficReceivePing
<1>4. ASSUME NEW d \in pinging, ReceivePingSent(d) PROVE TrafficInv'
  BY <1>4, TrafficPingSent
<1>5. ASSUME UNCHANGED traffic, clock' \in Nat PROVE TrafficInv'
  BY <1>5, TrafficStays
<1>. QED  BY <1>1, <1>2, <1>3, <1>4, <1>5, OtherSteps DEF Next

(***************************************************************************)
(* A message is handled once: it has one listener, for the client starts   *)
(* once however often it is asked to, and it is taken off the wire, and    *)
(* off the pings, as it is handled (WhatsappClientv2.ts:33-62).            *)
(***************************************************************************)
THEOREM MessagesHandledOnce == Spec => []HandledOnce
<1>1. TrafficInv => HandledOnce
  BY DEF TrafficInv
<1>. QED  BY TrafficInit, TrafficNext, <1>1, PTL DEF Spec

(***************************************************************************)
(* Messages that are no pings are handled in the order they were accepted, *)
(* however long the handlers, the jobs and the answers to pings take       *)
(* (WhatsappClientv2.ts:40-62).                                            *)
(***************************************************************************)
THEOREM MessagesHandledInOrder == Spec => []HandledInOrder
<1>1. TrafficInv => HandledInOrder
  BY DEF TrafficInv
<1>. QED  BY TrafficInit, TrafficNext, <1>1, PTL DEF Spec

=============================================================================
