-------------------------------- MODULE Inbound --------------------------------
(***************************************************************************)
(* From the webhook to the stores: WhatsAppIngress delivers, BifastConsumer*)
(* filters, BifastMessageHandler.handle reads a message with the three     *)
(* parsers and changes the timelines, the complaints, the two jobs and,    *)
(* through execute, the bank's row.  OpenIncidentBot has execute, the jobs *)
(* and failing calls in full: here an execution is one step that sets the  *)
(* row, and the jobs act on the timelines.                                 *)
(***************************************************************************)
EXTENDS WhatsAppIngress, IncidentTimeline, WagComplaints

CONSTANTS
    Listened,       \* the four chats BifastConsumer listens to
    ComplaintChats, \* three of them, where complaints are looked for
    Meaning,        \* of each payload, what a reader takes it to say: a set
    Horizon,        \* bound: the last unit of time
    MaxTicks        \* bound: verification ticks

ASSUME ChatsAssumption == ComplaintChats \subseteq Listened
ASSUME BoundsAssumption == Horizon \in Nat /\ MaxTicks \in Nat

VARIABLES
    handling,   \* handlers in progress: the delivery, what it awaits, and the
                \* status of the row it asked for
    recovering, \* when each bank closed that CloseRecoveryScheduler watches
    verifying,  \* banks with a timer of BifastVerificationJob
    page,       \* resultAxiosRequest
    timelines,  \* the two stores of the state machine
    handled,    \* history: ids in the order the messages were emitted
    executed,   \* history: ids of the messages executed
    life,       \* history: every state of each bank's timeline
    ticks       \* history: how many verification ticks there were

jobState == <<recovering, verifying, page, timelines, life, ticks>>
progress == <<handling, handled, executed>>
vars == <<ingressVars, complaintVars, jobState, progress>>

NotClosed == -1
Unread == "unread"      \* of a row: the database has not looked it up yet

\* Each text is read once.
Texts == UNION {{p.conversation, p.extended} : p \in Payloads}
ReportIn == [t \in Texts |-> parseBifastMessage(t)]
CommandIn == [t \in Texts |-> parseStateCommand(t)]
ComplaintIn == [t \in Texts |-> ComplaintBy(t)]
AbbreviationIn == [b \in BankNames |-> findBiFastAbbreviationByBankName(b)]

InboundTypeOK ==
    /\ link \in {"connecting", "up", "down"}
    /\ client \in [started : {TRUE}, listeners : Nat]
    /\ heardBy \in Nat
    /\ crashed \in BOOLEAN
    /\ \A h \in handling :
           /\ h.at \in {"reply", "complaint", "closed", "execute"}
           /\ h.row \in {Unread, "none", "OPEN", "CLOSED"}
    /\ recovering \in [BankNames -> {NotClosed} \cup Nat]
    /\ verifying \subseteq BankNames
    /\ \A b \in BankNames : timelines[b].state \in TimelineStates
    /\ lastStatus \in [BankNames -> {"OPEN", "CLOSED"}]
    /\ Cardinality({page[i].abbr : i \in DOMAIN page}) = Len(page)

Init ==
    /\ IngressInit
    /\ clock = 1
    /\ lastStatus = [b \in BankNames |-> "OPEN"]
    /\ complaints = NoComplaints
    /\ handling = {}
    /\ recovering = [b \in BankNames |-> NotClosed]
    /\ verifying = {}
    /\ page = resultAxiosRequest
    /\ timelines = NoTimelines
    /\ handled = <<>>
    /\ executed = {}
    /\ life = [b \in BankNames |-> <<>>]
    /\ ticks = 0

-----------------------------------------------------------------------------
\* BifastMessageHandler.handle.  Each of its three parts runs up to the next
\* await, on to the next part if it awaits nothing.  `others' are the handlers
\* in progress but this one.

Ends(others) == handling' = others

Awaiting(d, at, row) == [msg |-> d.msg, by |-> d.by, at |-> at, row |-> row]

Awaits(d, at, others) == handling' = others \cup {Awaiting(d, at, Unread)}

\* The state of a bank.  Of a closing the previous state is asked first; an
\* opening stops both jobs.
HandleReport(d, others) ==
    LET report == ReportIn[d.msg.text]
    IN  \/ report = NoReport /\ Ends(others) /\ UNCHANGED <<recovering, verifying>>
        \/ /\ report.status = "CLOSED"
           /\ Awaits(d, "closed", others)
           /\ UNCHANGED <<recovering, verifying>>
        \/ /\ report.status = "OPEN"
           /\ recovering' = [recovering EXCEPT ![report.entity] = NotClosed]
           /\ verifying' = verifying \ {report.entity}
           /\ Awaits(d, "execute", others)

\* A complaint, in three of the chats.
HandleComplaint(d, others) ==
    IF d.msg.chat \in ComplaintChats /\ ComplaintIn[d.msg.text] # None
    THEN Awaits(d, "complaint", others) /\ UNCHANGED <<recovering, verifying>>
    ELSE HandleReport(d, others)

\* "/state": what is no command after all ends the handler.
HandleCommand(d, others) ==
    IF ~Includes(d.msg.text, "/state") THEN HandleComplaint(d, others)
    ELSE IF CommandIn[d.msg.text] = None
         THEN Ends(others) /\ UNCHANGED <<recovering, verifying>>
         ELSE Awaits(d, "reply", others) /\ UNCHANGED <<recovering, verifying>>

\* The client emits the message; the consumer lets four chats through.
Emit(d) ==
    /\ handled' = Append(handled, d.msg.id)
    /\ page' = PageAfter(page, d.msg.text, clock)
    /\ IF d.msg.chat \in Listened THEN HandleCommand(d, handling)
       ELSE Ends(handling) /\ UNCHANGED <<recovering, verifying>>
    /\ UNCHANGED <<complaintVars, timelines, executed, life, ticks>>

ReceiveOther == DeliverOther /\ Emit(Delivery)

ReceivePing == DeliverPing
    /\ UNCHANGED <<complaintVars, jobState, progress>>

ReceivePingSent(d) == PingSent(d) /\ Emit(d)

-----------------------------------------------------------------------------
\* The awaits of the handler come back.

\* The timeline was sent or it was not: the gateway swallows the error.
Replied(h) ==
    /\ h.at = "reply"
    /\ link = "up"
    /\ HandleComplaint(h, handling \ {h})
    /\ UNCHANGED <<ingressVars, complaintVars, page, timelines, handled,
                   executed, life, ticks>>

\* stateStore.get: the database looks up the row of the complaining bank, or of
\* the one that is reported closed.  Its answer is yet to arrive.
AskedFor(h) ==
    IF h.at = "complaint"
    THEN findBifastBankNameByAbbreviation(ComplaintIn[h.msg.text])
    ELSE ReportIn[h.msg.text].entity

RowRead(h) ==
    /\ h.at \in {"complaint", "closed"}
    /\ h.row = Unread
    /\ LET b == AskedFor(h)
           row == IF b \in BankNames THEN lastStatus[b] ELSE "none"
       IN  handling' = (handling \ {h}) \cup {Awaiting(h, h.at, row)}
    /\ UNCHANGED <<ingressVars, complaintVars, jobState, handled, executed>>

\* The row arrives: a complaint about a bank that was closed is recorded.
ComplaintRead(h) ==
    /\ h.at = "complaint"
    /\ h.row # Unread
    /\ \/ h.row = "CLOSED" /\ Record(UpperCase[ComplaintIn[h.msg.text]])
       \/ h.row # "CLOSED" /\ UNCHANGED complaints
    /\ HandleReport(h, handling \ {h})
    /\ UNCHANGED <<ingressVars, clock, lastStatus, page, timelines, handled,
                   executed, life, ticks>>

\* A transition of the timelines with its trace in the history.
StateAfter(lived) == IF lived = <<>> THEN "NORMAL" ELSE Last(lived).state

LivedOn(lived, next, now) ==
    IF Allowed(StateAfter(lived), next)
    THEN Append(lived, [state |-> next, at |-> now]) ELSE lived

Lived(lived, nexts, now) ==
    FoldLeft(LAMBDA l, next : LivedOn(l, next, now), lived, nexts)

Tracks(b, nexts) == life' = [life EXCEPT ![b] = Lived(@, nexts, clock)]

\* The state before a closing arrives: a bank that was not closed gets its jobs.
ClosedRead(h) ==
    /\ h.at = "closed"
    /\ h.row # Unread
    /\ LET b == ReportIn[h.msg.text].entity
       IN  IF h.row = "CLOSED"
           THEN UNCHANGED <<recovering, verifying, timelines, life>>
           ELSE /\ timelines' = WithTransition(timelines, b, "CLOSE", clock)
                /\ Tracks(b, <<"CLOSE">>)
                /\ recovering' = [recovering EXCEPT ![b] =
                                      IF @ = NotClosed THEN h.msg.sent ELSE @]
                /\ verifying' = verifying \cup {b}
    /\ Awaits(h, "execute", handling \ {h})
    /\ UNCHANGED <<ingressVars, complaintVars, page, handled, executed, ticks>>

Executed(h) ==
    /\ h.at = "execute"
    /\ LET report == ReportIn[h.msg.text]
       IN  lastStatus' = [lastStatus EXCEPT ![report.entity] = report.status]
    /\ executed' = executed \cup {h.msg.id}
    /\ Ends(handling \ {h})
    /\ UNCHANGED <<ingressVars, clock, complaints, jobState, handled>>

Proceeds(h) == RowRead(h) \/ ComplaintRead(h) \/ ClosedRead(h) \/ Executed(h)

-----------------------------------------------------------------------------
\* The two jobs, under the abbreviation of the bank, and the clock.

RecoveryTick(b) ==
    /\ recovering[b] # NotClosed
    /\ ShownOpenSince(page, b, recovering[b])
    /\ lastStatus' = [lastStatus EXCEPT ![b] = "OPEN"]
    /\ recovering' = [recovering EXCEPT ![b] = NotClosed]
    /\ timelines' = WithTransition(timelines,
                        AbbreviationIn[b], "NORMAL", clock)
    /\ Tracks(b, <<"NORMAL">>)
    /\ UNCHANGED <<ingressVars, clock, complaints, verifying, page, ticks,
                   progress>>

VerificationEnds(b) ==
    /\ b \in verifying
    /\ ShownOpen(page, b)
    /\ verifying' = verifying \ {b}
    /\ UNCHANGED <<ingressVars, complaintVars, recovering, page, timelines,
                   life, ticks, progress>>

VerificationTick(b, decision) ==
    /\ b \in verifying
    /\ ~ShownOpen(page, b)
    /\ ticks < MaxTicks
    /\ ticks' = ticks + 1
    /\ LET abbr == AbbreviationIn[b]
       IN  timelines' = WithDecision(timelines, abbr, decision, clock)
    /\ Tracks(b, Requests(timelines[b].state, decision))
    /\ verifying' = IF decision = "WAIT" THEN verifying ELSE verifying \ {b}
    /\ UNCHANGED <<ingressVars, complaintVars, recovering, page, progress>>

MinutePasses ==
    /\ clock < Horizon
    /\ clock' = clock + 1
    /\ UNCHANGED <<ingressVars, lastStatus, complaints, jobState, progress>>

World ==
    \/ (\E p \in Payloads : Webhook(p, clock)) \/ Connects \/ Disconnects
    \/ \E d \in pinging : PingFails(d)

Next ==
    /\ ~crashed
    /\ \/ World /\ UNCHANGED <<complaintVars, jobState, progress>>
       \/ ReceiveOther \/ ReceivePing
       \/ \E d \in pinging : ReceivePingSent(d)
       \/ \E h \in handling : Replied(h) \/ Proceeds(h)
       \/ \E b \in BankNames : RecoveryTick(b) \/ VerificationEnds(b)
       \/ \E b \in BankNames, decision \in Decisions :
              VerificationTick(b, decision)
       \/ MinutePasses

Spec == Init /\ [][Next]_vars

\* The event loop delivers what arrived, and the database answers.
Fairness ==
    /\ WF_<<wire, heardBy>>(~crashed /\ Deliver)
    /\ WF_handling(~crashed /\ \E h \in handling : Proceeds(h))

FairSpec == Spec /\ Fairness

-----------------------------------------------------------------------------

(***************************************************************************)
(* A message is handled once, although the client is started twice         *)
(* (WhatsappClientv2.ts:33, index.ts:76, BifastConsumer.ts:34).            *)
(***************************************************************************)
HandledOnce == IsInjective(handled)

(***************************************************************************)
(* Messages are handled in the order they were accepted, but those the     *)
(* client answers itself before it passes them on                          *)
(* (WhatsappClientv2.ts:40-62).                                            *)
(***************************************************************************)
Direct(i) == ~Includes(Body(accepted[i]), "/ping")

HandledInOrder ==
    \A i, j \in DOMAIN handled :
        i < j /\ Direct(handled[i]) /\ Direct(handled[j])
            => handled[i] <= handled[j]

(***************************************************************************)
(* A bank's row changes because somebody in a chat that is listened to     *)
(* said so of that bank, or because the page showed the bank open          *)
(* (BifastConsumer.ts:17-29, MessageParser.ts:177-197).                    *)
(***************************************************************************)
Said(b, status, chats) ==
    \E i \in ToSet(handled) :
        /\ accepted[i].chat \in chats
        /\ [bank |-> b, says |-> status] \in Meaning[accepted[i]]

RowsFollowReports ==
    [][\A b \in BankNames : lastStatus'[b] # lastStatus[b] =>
           \/ Said(b, lastStatus'[b], Listened)
           \/ lastStatus'[b] = "OPEN" /\ recovering'[b] # recovering[b]]_vars

(***************************************************************************)
(* A complaint is filed for the bank whose complaint it is, said in one of *)
(* the three chats, and only of a bank that was reported closed: the row   *)
(* it is filed on may be another by then, but is never one nobody spoke of *)
(* (BiFastMessageHandler.ts:48-68, MessageComplaintParser.ts:112-120).     *)
(***************************************************************************)
ComplaintsOfTheirBank ==
    [][complaints' # complaints => \A b \in BankNames :
           complaints'[WriterKey(b)] # complaints[WriterKey(b)] =>
               /\ Said(b, "complaint", ComplaintChats)
               /\ Said(b, "CLOSED", Listened)]_vars

(***************************************************************************)
(* "/state" shows, under every spelling of a bank, all that became of it   *)
(* in the last hour (InMemoryIncidentStateMachine.ts:50-62, 81-112).       *)
(***************************************************************************)
HourIsShown ==
    \A b \in BankNames :
        \A spelling \in {b, AbbreviationIn[b]} :
            IsSuffix(Recent(life[b], clock), getTimeline(timelines, spelling))

(***************************************************************************)
(* What "/state" shows is a history the machine allows, in order of time:  *)
(* each state is not earlier than the one above it and was allowed after   *)
(* it, so that a confirmed incident comes after a WAIT, and the last is    *)
(* the bank's state (InMemoryIncidentStateMachine.ts:50-73, 92-130).       *)
(***************************************************************************)
TimelineIsARun ==
    \A b \in BankNames :
        LET shown == timelines[b].events
        IN  /\ \A i \in 2 .. Len(shown) :
                   /\ Allowed(shown[i - 1].state, shown[i].state)
                   /\ shown[i - 1].at <= shown[i].at
            /\ shown # <<>> => Last(shown).state = timelines[b].state

(***************************************************************************)
(* While the socket stays up and no listener rejects, the bot catches up:  *)
(* again and again every report that was published has been executed       *)
(* (WhatsappClientv2.ts:28, BiFastMessageHandler.ts:70-100).               *)
(***************************************************************************)
Reports ==
    {i \in DOMAIN accepted :
        /\ accepted[i].chat \in Listened
        /\ \E m \in Meaning[accepted[i]] : m.says \in {"OPEN", "CLOSED"}}

ReportsAreExecuted == []<>(Reports \subseteq executed \/ link # "up" \/ crashed)

=============================================================================
