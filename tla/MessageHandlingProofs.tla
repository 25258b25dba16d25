------------------------- MODULE MessageHandlingProofs -------------------------
(***************************************************************************)
(* Theorems about what Inbound does with the messages it hears: rows and   *)
(* complaints change for the bank that was spoken of, in a chat where it   *)
(* may be, however many handlers are in progress and however their awaits, *)
(* the jobs and the socket interleave.  For any payloads, chats, meanings  *)
(* and bounds; what the parsers make of one text is a hypothesis.          *)
(***************************************************************************)
EXTENDS InboundProofs

\* What is said of a bank.
Statement(b, says) == [bank |-> b, says |-> says]

\* The parsers find in a text the report that is meant, and the complaint.
ReportsAreMeant ==
    \A p \in Payloads :
        LET report == ReportIn[Body(p)]
        IN  report.status \in {"OPEN", "CLOSED"}
                => Statement(report.entity, report.status) \in Meaning[p]

ComplaintsAreMeant ==
    \A p \in Payloads :
        LET name == findBifastBankNameByAbbreviation(ComplaintIn[Body(p)])
        IN  name \in BankNames => Statement(name, "complaint") \in Meaning[p]

\* No two banks file under the same key: a bank's key is that of what was read
\* only if what was read is the abbreviation of the bank.
OwnKeys ==
    \A b \in BankNames, p \in Payloads :
        LET by == ComplaintIn[Body(p)]
            name == findBifastBankNameByAbbreviation(by)
        IN  name \in BankNames /\ WriterKey(b) = UpperCase[by] => b = name

-----------------------------------------------------------------------------
\* The inductive invariant.

\* A message that the consumer let through.
Heard(m) ==
    /\ m \in Messages
    /\ Numbered(m)
    /\ m.id \in ToSet(handled)
    /\ m.chat \in Listened

\* What it is awaited for, it gave reason to.
Due(m, at) ==
    /\ at = "complaint" => m.chat \in ComplaintChats
    /\ at = "closed" => ReportIn[m.text].status = "CLOSED"
    /\ at = "execute" => ReportIn[m.text].status \in {"OPEN", "CLOSED"}

HandlersHaveReason == \A h \in handling : Heard(h.msg) /\ Due(h.msg, h.at)

\* An await that a part of the handler begins: the row is not looked up yet.
Begun(h, m) == h.msg = m /\ h.row = Unread /\ Due(h.msg, h.at)

StoresTypeOK ==
    /\ lastStatus \in [BankNames -> {"OPEN", "CLOSED"}]
    /\ recovering \in [BankNames -> {NotClosed} \cup Nat]
    /\ complaints = [k \in Spellings |-> complaints[k]]

HandlingInv == TrafficInv /\ StoresTypeOK /\ HandlersHaveReason

LEMMA HandlingInit == Init => HandlingInv
<1>. SUFFICES ASSUME Init PROVE HandlingInv
  OBVIOUS
<1>1. StoresTypeOK
  BY DEF Init, StoresTypeOK, NoComplaints
<1>2. HandlersHaveReason
  BY DEF Init, HandlersHaveReason
<1>. QED  BY TrafficInit, <1>1, <1>2 DEF HandlingInv

-----------------------------------------------------------------------------
\* The parts of the handler, one after the other.

\* What a part starts is for the message of the handler, and with reason.
LEMMA ReportHasReason ==
    ASSUME NEW d, NEW others, HandleReport(d, others)
    PROVE  \A h \in handling' : h \in others \/ Begun(h, d.msg)
<1>1. CASE ReportIn[d.msg.text] = NoReport /\ Ends(others)
  BY <1>1 DEF Ends
<1>2. CASE ReportIn[d.msg.text].status = "CLOSED" /\ Awaits(d, "closed", others)
  BY <1>2 DEF Awaits, Awaiting, Begun, Due
<1>3. CASE ReportIn[d.msg.text].status = "OPEN" /\ Awaits(d, "execute", others)
  BY <1>3 DEF Awaits, Awaiting, Begun, Due
<1>. QED  BY <1>1, <1>2, <1>3 DEF HandleReport

LEMMA ComplaintHasReason ==
    ASSUME NEW d, NEW others, HandleComplaint(d, others)
    PROVE  \A h \in handling' : h \in others \/ Begun(h, d.msg)
<1>1. CASE d.msg.chat \in ComplaintChats /\ Awaits(d, "complaint", others)
  BY <1>1 DEF Awaits, Awaiting, Begun, Due
<1>2. CASE HandleReport(d, others)
  BY <1>2, ReportHasReason
<1>. QED  BY <1>1, <1>2 DEF HandleComplaint

LEMMA CommandHasReason ==
    ASSUME NEW d, NEW others, HandleCommand(d, others)
    PROVE  \A h \in handling' : h \in others \/ Begun(h, d.msg)
<1>1. CASE Awaits(d, "reply", others)
  BY <1>1 DEF Awaits, Awaiting, Begun, Due
<1>2. CASE Ends(others)
  BY <1>2 DEF Ends
<1>3. CASE HandleComplaint(d, others)
  BY <1>3, ComplaintHasReason
<1>. QED  BY <1>1, <1>2, <1>3 DEF HandleCommand

\* Of the stores they touch one: an opening stops the recovery job of the bank.
LEMMA RecoveringStays ==
    ASSUME NEW d, NEW others, StoresTypeOK,
           \/ HandleCommand(d, others)
           \/ HandleComplaint(d, others)
           \/ HandleReport(d, others)
    PROVE  recovering' \in [BankNames -> {NotClosed} \cup Nat]
BY DEF HandleCommand, HandleComplaint, HandleReport, StoresTypeOK

-----------------------------------------------------------------------------
\* What was accepted and handled stays so.

LEMMA Appended ==
    ASSUME NEW S, NEW s \in Seq(S), NEW x \in S
    PROVE  /\ ToSet(s) \subseteq ToSet(Append(s, x))
           /\ x \in ToSet(Append(s, x))
           /\ \A i \in DOMAIN s : i \in DOMAIN Append(s, x) /\ Append(s, x)[i] = s[i]
<1>1. /\ DOMAIN s = 1 .. Len(s) /\ Len(s) \in Nat
      /\ DOMAIN Append(s, x) = 1 .. Len(s) + 1
      /\ \A i \in DOMAIN s : Append(s, x)[i] = s[i]
      /\ Append(s, x)[Len(s) + 1] = x
  BY AppendProperties, LenProperties
<1>2. \A i \in DOMAIN s : i \in DOMAIN Append(s, x)
  BY <1>1
<1>3. Len(s) + 1 \in DOMAIN Append(s, x)
  BY <1>1
<1>. QED  BY <1>1, <1>2, <1>3 DEF ToSet

LEMMA AcceptedStays ==
    ASSUME TrafficInv, [Next]_vars
    PROVE  /\ ToSet(handled) \subseteq ToSet(handled')
           /\ \A i \in DOMAIN accepted : i \in DOMAIN accepted'
                                         /\ accepted'[i] = accepted[i]
<1>0. accepted \in Seq(Payloads) /\ handled \in Seq(DOMAIN accepted)
  BY DEF TrafficInv, TrafficTypeOK
<1>1. CASE UNCHANGED <<accepted, handled>>
  BY <1>1
<1>2. ASSUME NEW p \in Payloads, Webhook(p, clock), UNCHANGED handled
      PROVE  /\ UNCHANGED handled
             /\ \A i \in DOMAIN accepted : i \in DOMAIN accepted'
                                           /\ accepted'[i] = accepted[i]
  <2>1. accepted' = Append(accepted, p)
    BY <1>2 DEF Webhook
  <2>. QED  BY <1>2, <1>0, <2>1, Appended
<1>3. ASSUME NEW m, Numbered(m), handled' = Append(handled, m.id),
             UNCHANGED accepted
      PROVE  /\ ToSet(handled) \subseteq ToSet(handled')
             /\ UNCHANGED accepted
  BY <1>3, <1>0, Appended DEF Numbered
<1>4. CASE World /\ UNCHANGED <<complaintVars, jobState, progress>>
  <2>1. UNCHANGED handled
    BY <1>4 DEF progress
  <2>2. UNCHANGED accepted \/ \E p \in Payloads : Webhook(p, clock)
    BY <1>4 DEF World, Connects, Disconnects, PingFails
  <2>. QED  BY <1>1, <1>2, <2>1, <2>2
<1>5. CASE ReceiveOther
  <2>1. handled' = Append(handled, Head(wire).id) /\ Deliver
    BY <1>5, Delivered DEF ReceiveOther, DeliverOther, Emit
  <2>. QED  BY <2>1, <1>3, Delivered
<1>6. CASE ReceivePing
  BY <1>6, <1>1, Delivered DEF ReceivePing, DeliverPing, progress
<1>7. ASSUME NEW d \in pinging, ReceivePingSent(d)
      PROVE  /\ ToSet(handled) \subseteq ToSet(handled')
             /\ UNCHANGED accepted
  <2>1. handled' = Append(handled, d.msg.id) /\ UNCHANGED accepted
    BY <1>7 DEF ReceivePingSent, PingSent, Emit
  <2>. QED  BY <2>1, <1>3 DEF TrafficInv, AllNumbered
<1>8. CASE UNCHANGED traffic
  BY <1>8, <1>1 DEF traffic
<1>. QED  BY <1>4, <1>5, <1>6, <1>7, <1>8, OtherSteps DEF Next

\* Nor does what a handler knows of its message change.
LEMMA KnowledgeStays ==
    ASSUME TrafficInv, [Next]_vars, NEW m, Heard(m)
    PROVE  Heard(m)'
BY AcceptedStays DEF Heard, Numbered

-----------------------------------------------------------------------------
\* Each step keeps the invariant.

LEMMA HandlersContinue ==
    ASSUME HandlingInv, [Next]_vars,
           NEW m, Heard(m)',
           \A h \in handling' :
               h \in handling \/ (h.msg = m /\ Due(h.msg, h.at))
    PROVE  HandlersHaveReason'
<1>1. \A h \in handling : Heard(h.msg)' /\ Due(h.msg, h.at)
  BY KnowledgeStays DEF HandlingInv, HandlersHaveReason
<1>. QED  BY <1>1 DEF HandlersHaveReason, Due

\* A message is emitted, and let through if its chat is listened to.
LEMMA HandlingEmit ==
    ASSUME HandlingInv, [Next]_vars, NEW d, Emit(d),
           d.msg \in Messages, Numbered(d.msg), UNCHANGED <<accepted>>
    PROVE  HandlersHaveReason' /\ StoresTypeOK'
<1>1. handled' = Append(handled, d.msg.id)
  BY DEF Emit
<1>2. CASE d.msg.chat \in Listened /\ HandleCommand(d, handling)
  <2>1. d.msg.id \in ToSet(handled')
    BY <1>1, Appended DEF HandlingInv, TrafficInv, TrafficTypeOK, Numbered
  <2>2. Heard(d.msg)'
    BY <1>2, <2>1 DEF Heard, Numbered
  <2>3. HandlersHaveReason'
    BY <1>2, <2>2, CommandHasReason, HandlersContinue DEF Begun
  <2>4. StoresTypeOK'
    BY <1>2, RecoveringStays DEF HandlingInv, StoresTypeOK, Emit, complaintVars
  <2>. QED  BY <2>3, <2>4
<1>3. CASE Ends(handling) /\ UNCHANGED recovering
  <2>1. HandlersHaveReason'
    BY <1>3, KnowledgeStays
       DEF HandlingInv, HandlersHaveReason, Ends, Due
  <2>2. StoresTypeOK'
    BY <1>3 DEF HandlingInv, StoresTypeOK, Emit, complaintVars
  <2>. QED  BY <2>1, <2>2
<1>. QED  BY <1>2, <1>3 DEF Emit

\* A handler goes on with the message it has, one await further.
LEMMA HandlingContinues ==
    ASSUME HandlingInv, [Next]_vars, NEW h \in handling, Replied(h) \/ Proceeds(h)
    PROVE  HandlersHaveReason' /\ StoresTypeOK'
<1>0. Heard(h.msg) /\ Heard(h.msg)' /\ Due(h.msg, h.at)
  BY KnowledgeStays DEF HandlingInv, HandlersHaveReason
<1>. DEFINE others == handling \ {h}
<1>1. CASE Replied(h)
  <2>1. HandlersHaveReason'
    BY <1>0, <1>1, ComplaintHasReason, HandlersContinue DEF Replied, Begun
  <2>2. StoresTypeOK'
    BY <1>1, RecoveringStays DEF HandlingInv, StoresTypeOK, Replied, complaintVars
  <2>. QED  BY <2>1, <2>2
<1>2. CASE ComplaintRead(h)
  <2>1. HandlersHaveReason'
    BY <1>0, <1>2, ReportHasReason, HandlersContinue DEF ComplaintRead, Begun
  <2>2. complaints' = [k \in Spellings |-> complaints'[k]]
    BY <1>2 DEF HandlingInv, StoresTypeOK, ComplaintRead, Record
  <2>3. StoresTypeOK'
    BY <1>2, <2>2, RecoveringStays DEF HandlingInv, StoresTypeOK, ComplaintRead
  <2>. QED  BY <2>1, <2>3
<1>3. CASE ClosedRead(h)
  <2>1. \A c \in handling' :
           c \in handling \/ (c.msg = h.msg /\ Due(h.msg, c.at))
    BY <1>0, <1>3 DEF ClosedRead, Awaits, Awaiting, Due
  <2>2. HandlersHaveReason'
    BY <1>0, <2>1, HandlersContinue
  <2>3. h.msg.sent \in Nat
    BY <1>0 DEF Heard, Messages
  <2>4. recovering' \in [BankNames -> {NotClosed} \cup Nat]
    BY <1>3, <2>3 DEF HandlingInv, StoresTypeOK, ClosedRead
  <2>5. StoresTypeOK'
    BY <1>3, <2>4 DEF HandlingInv, StoresTypeOK, ClosedRead, complaintVars
  <2>. QED  BY <2>2, <2>5
<1>4. CASE Executed(h)
  <2>1. HandlersHaveReason'
    BY <1>0, <1>4, HandlersContinue DEF Executed, Ends
  <2>2. ReportIn[h.msg.text].status \in {"OPEN", "CLOSED"}
    BY <1>0, <1>4 DEF Due, Executed
  <2>3. lastStatus' \in [BankNames -> {"OPEN", "CLOSED"}]
    BY <1>4, <2>2 DEF HandlingInv, StoresTypeOK, Executed
  <2>4. StoresTypeOK'
    BY <1>4, <2>3 DEF HandlingInv, StoresTypeOK, Executed, jobState
  <2>. QED  BY <2>1, <2>4
<1>5. CASE RowRead(h)
  <2>1. \A c \in handling' :
           c \in handling \/ (c.msg = h.msg /\ Due(h.msg, c.at))
    BY <1>0, <1>5 DEF RowRead, Awaiting
  <2>2. HandlersHaveReason'
    BY <1>0, <2>1, HandlersContinue
  <2>3. StoresTypeOK'
    BY <1>5 DEF HandlingInv, StoresTypeOK, RowRead, complaintVars, jobState
  <2>. QED  BY <2>2, <2>3
<1>. QED  BY <1>1, <1>2, <1>3, <1>4, <1>5 DEF Proceeds

\* Steps that start no handler and end none.
LEMMA HandlingElsewhere ==
    ASSUME HandlingInv, [Next]_vars, UNCHANGED handling
    PROVE  HandlersHaveReason'
BY KnowledgeStays DEF HandlingInv, HandlersHaveReason, Due

LEMMA HandlingNext ==
    ASSUME HandlingInv, [Next]_vars
    PROVE  HandlingInv'
<1>0. TrafficInv'
  BY TrafficNext DEF HandlingInv
<1>. SUFFICES HandlersHaveReason' /\ StoresTypeOK'
  BY <1>0 DEF HandlingInv
<1>1. CASE UNCHANGED <<complaintVars, jobState, progress>>
  BY <1>1, HandlingElsewhere
     DEF progress, HandlingInv, StoresTypeOK, complaintVars, jobState
<1>2. CASE ReceiveOther
  <2>1. /\ Delivery.msg \in Messages
        /\ Numbered(Delivery.msg)
        /\ UNCHANGED <<accepted>>
    BY <1>2, Delivered DEF ReceiveOther, DeliverOther, HandlingInv
  <2>. QED  BY <1>2, <2>1, HandlingEmit DEF ReceiveOther
<1>3. CASE ReceivePing
  BY <1>1, <1>3 DEF ReceivePing
<1>4. ASSUME NEW d \in pinging, ReceivePingSent(d)
      PROVE  HandlersHaveReason' /\ StoresTypeOK'
  <2>1. d.msg \in Messages /\ Numbered(d.msg) /\ UNCHANGED <<accepted>>
    BY <1>4 DEF HandlingInv, TrafficInv, TrafficTypeOK, AllNumbered,
                ReceivePingSent, PingSent
  <2>. QED  BY <1>4, <2>1, HandlingEmit DEF ReceivePingSent
<1>5. ASSUME NEW h \in handling, Replied(h) \/ Proceeds(h)
      PROVE  HandlersHaveReason' /\ StoresTypeOK'
  BY <1>5, HandlingContinues
<1>6. ASSUME NEW b \in BankNames, RecoveryTick(b)
      PROVE  HandlersHaveReason' /\ StoresTypeOK'
  <2>1. /\ lastStatus' \in [BankNames -> {"OPEN", "CLOSED"}]
        /\ recovering' \in [BankNames -> {NotClosed} \cup Nat]
    BY <1>6 DEF RecoveryTick, HandlingInv, StoresTypeOK
  <2>. QED  BY <1>6, <2>1, HandlingElsewhere
         DEF RecoveryTick, HandlingInv, StoresTypeOK, progress
<1>7. ASSUME NEW b \in BankNames, VerificationEnds(b)
      PROVE  HandlersHaveReason' /\ StoresTypeOK'
  BY <1>7, HandlingElsewhere
     DEF VerificationEnds, progress, HandlingInv, StoresTypeOK, complaintVars
<1>8. ASSUME NEW b \in BankNames, NEW decision \in Decisions,
             VerificationTick(b, decision)
      PROVE  HandlersHaveReason' /\ StoresTypeOK'
  BY <1>8, HandlingElsewhere
     DEF VerificationTick, progress, HandlingInv, StoresTypeOK, complaintVars
<1>9. CASE MinutePasses
  BY <1>9, HandlingElsewhere
     DEF MinutePasses, progress, HandlingInv, StoresTypeOK, jobState
<1>10. CASE UNCHANGED vars
  BY <1>1, <1>10 DEF vars
<1>. QED  BY <1>1, <1>2, <1>3, <1>4, <1>5, <1>6, <1>7, <1>8, <1>9, <1>10 DEF Next

-----------------------------------------------------------------------------

\* Three actions write the two stores.
LEMMA Writers ==
    ASSUME [Next]_vars
    PROVE  /\ \/ UNCHANGED lastStatus
              \/ \E h \in handling : Executed(h)
              \/ \E b \in BankNames : RecoveryTick(b)
           /\ \/ UNCHANGED complaints
              \/ \E h \in handling : ComplaintRead(h)
<1>. USE DEF complaintVars, jobState
<1>1. CASE UNCHANGED <<complaintVars, jobState, progress>> \/ UNCHANGED vars
  BY <1>1 DEF vars
<1>2. CASE ReceiveOther
  BY <1>2 DEF ReceiveOther, Emit
<1>3. CASE ReceivePing
  BY <1>3 DEF ReceivePing
<1>4. CASE \E d \in pinging : ReceivePingSent(d)
  BY <1>4 DEF ReceivePingSent, Emit
<1>5. CASE \E h \in handling : Replied(h) \/ Proceeds(h)
  BY <1>5 DEF Replied, Proceeds, RowRead, ClosedRead, ComplaintRead, Executed
<1>6. CASE \E b \in BankNames : RecoveryTick(b) \/ VerificationEnds(b)
  BY <1>6 DEF RecoveryTick, VerificationEnds
<1>7. CASE \E b \in BankNames, decision \in Decisions : VerificationTick(b, decision)
  BY <1>7 DEF VerificationTick
<1>8. CASE MinutePasses
  BY <1>8 DEF MinutePasses
<1>. QED  BY <1>1, <1>2, <1>3, <1>4, <1>5, <1>6, <1>7, <1>8 DEF Next

\* What a handler reads was said in a chat that is listened to.
LEMMA ReadIsSaid ==
    ASSUME HandlingInv, NEW m, Heard(m), NEW b, NEW says, NEW chats,
           m.chat \in chats,
           \A p \in Payloads : Body(p) = m.text => Statement(b, says) \in Meaning[p]
    PROVE  Said(b, says, chats)
<1>1. m.id \in ToSet(handled) /\ m.id \in DOMAIN accepted
      /\ accepted[m.id].chat = m.chat /\ Body(accepted[m.id]) = m.text
  BY DEF Heard, Numbered
<1>2. accepted[m.id] \in Payloads
  BY <1>1 DEF HandlingInv, TrafficInv, TrafficTypeOK
<1>. QED  BY <1>1, <1>2 DEF Said, Statement

\* The row of a bank changes by a report of the bank, or by its recovery.
LEMMA RowsFollow ==
    ASSUME ReportsAreMeant, HandlingInv, [Next]_vars,
           NEW b \in BankNames, lastStatus'[b] # lastStatus[b]
    PROVE  \/ Said(b, lastStatus'[b], Listened)
           \/ lastStatus'[b] = "OPEN" /\ recovering'[b] # recovering[b]
<1>0. /\ lastStatus \in [BankNames -> {"OPEN", "CLOSED"}]
      /\ recovering \in [BankNames -> {NotClosed} \cup Nat]
  BY DEF HandlingInv, StoresTypeOK
<1>1. ASSUME NEW h \in handling, Executed(h)
      PROVE  Said(b, lastStatus'[b], Listened)
  <2>. DEFINE report == ReportIn[h.msg.text]
  <2>1. report.entity = b /\ lastStatus'[b] = report.status
    BY <1>0, <1>1 DEF Executed
  <2>2. Heard(h.msg) /\ report.status \in {"OPEN", "CLOSED"}
    BY <1>1 DEF HandlingInv, HandlersHaveReason, Due, Executed
  <2>3. \A p \in Payloads : Body(p) = h.msg.text =>
            Statement(b, report.status) \in Meaning[p]
    BY <2>1, <2>2 DEF ReportsAreMeant
  <2>4. h.msg.chat \in Listened
    BY <2>2 DEF Heard
  <2>. QED  BY <2>1, <2>2, <2>3, <2>4, ReadIsSaid
<1>2. ASSUME NEW c \in BankNames, RecoveryTick(c)
      PROVE  lastStatus'[b] = "OPEN" /\ recovering'[b] # recovering[b]
  BY <1>0, <1>2 DEF RecoveryTick
<1>. QED  BY <1>1, <1>2, Writers

(***************************************************************************)
(* A bank's row changes because somebody in a chat that is listened to     *)
(* said so of that bank, or because the page showed the bank open: no      *)
(* handler, of however many that wait on the database, writes what another *)
(* has read, nor for another bank (BifastConsumer.ts:17-29,                *)
(* BiFastMessageHandler.ts:70-100).                                        *)
(***************************************************************************)
THEOREM RowsChangeAsReported ==
    ASSUME ReportsAreMeant
    PROVE  Spec => RowsFollowReports
<1>. DEFINE Follows ==
              \A b \in BankNames : lastStatus'[b] # lastStatus[b] =>
                  \/ Said(b, lastStatus'[b], Listened)
                  \/ lastStatus'[b] = "OPEN" /\ recovering'[b] # recovering[b]
<1>1. ASSUME HandlingInv, [Next]_vars PROVE [Follows]_vars
  BY <1>1, RowsFollow
<1>2. Spec => []HandlingInv
  BY HandlingInit, HandlingNext, PTL DEF Spec
<1>. QED  BY <1>1, <1>2, PTL DEF Spec, RowsFollowReports

-----------------------------------------------------------------------------
\* A closed row was reported closed, and so was one that a handler was given.

ClosedRowsWereSaid ==
    \A b \in BankNames : lastStatus[b] = "CLOSED" => Said(b, "CLOSED", Listened)

ClosedAnswersWereSaid ==
    \A h \in handling : h.row = "CLOSED" =>
        AskedFor(h) \in BankNames /\ Said(AskedFor(h), "CLOSED", Listened)

SaidInv == HandlingInv /\ ClosedRowsWereSaid /\ ClosedAnswersWereSaid

\* What was said stays said.
LEMMA SaidStays ==
    ASSUME TrafficInv, [Next]_vars, NEW b, NEW says, NEW chats,
           Said(b, says, chats)
    PROVE  Said(b, says, chats)'
<1>1. PICK i \in ToSet(handled) :
          /\ accepted[i].chat \in chats
          /\ [bank |-> b, says |-> says] \in Meaning[accepted[i]]
  BY DEF Said
<1>2. i \in DOMAIN accepted
  BY DEF TrafficInv, TrafficTypeOK, ToSet
<1>3. i \in ToSet(handled') /\ accepted'[i] = accepted[i]
  BY <1>2, AcceptedStays
<1>. QED  BY <1>1, <1>3 DEF Said

\* A handler has its row from the database, where it asked for it.
LEMMA AnswersComeFromRows ==
    ASSUME [Next]_vars, NEW h \in handling'
    PROVE  \/ h \in handling
           \/ h.row = Unread
           \/ /\ AskedFor(h) \in BankNames
              /\ h.row = lastStatus[AskedFor(h)]
           \/ h.row = "none"
<1>. DEFINE Goal == \/ h \in handling
                    \/ h.row = Unread
                    \/ AskedFor(h) \in BankNames /\ h.row = lastStatus[AskedFor(h)]
                    \/ h.row = "none"
<1>1. CASE UNCHANGED handling
  BY <1>1
<1>2. ASSUME NEW d, Emit(d) PROVE Goal
  BY <1>2, CommandHasReason DEF Emit, Ends, Begun
<1>3. ASSUME NEW c \in handling, Replied(c) PROVE Goal
  BY <1>3, ComplaintHasReason DEF Replied, Begun
<1>4. ASSUME NEW c \in handling, RowRead(c) PROVE Goal
  <2>. DEFINE row == IF AskedFor(c) \in BankNames THEN lastStatus[AskedFor(c)] ELSE "none"
  <2>1. handling' = (handling \ {c}) \cup {Awaiting(c, c.at, row)}
    BY <1>4 DEF RowRead
  <2>2. CASE h = Awaiting(c, c.at, row)
    <3>1. AskedFor(h) = AskedFor(c) /\ h.row = row
      BY <2>2 DEF AskedFor, Awaiting
    <3>. QED  BY <3>1
  <2>. QED  BY <2>1, <2>2
<1>5. ASSUME NEW c \in handling, ComplaintRead(c) PROVE Goal
  BY <1>5, ReportHasReason DEF ComplaintRead, Begun
<1>6. ASSUME NEW c \in handling, ClosedRead(c) PROVE Goal
  BY <1>6 DEF ClosedRead, Awaits, Awaiting
<1>7. ASSUME NEW c \in handling, Executed(c) PROVE Goal
  BY <1>7 DEF Executed, Ends
<1>8. CASE \E b \in BankNames : RecoveryTick(b) \/ VerificationEnds(b)
  BY <1>1, <1>8 DEF RecoveryTick, VerificationEnds, progress
<1>9. CASE \E b \in BankNames, decision \in Decisions : VerificationTick(b, decision)
  BY <1>1, <1>9 DEF VerificationTick, progress
<1>. QED  BY <1>1, <1>2, <1>3, <1>4, <1>5, <1>6, <1>7, <1>8, <1>9
       DEF Next, Proceeds, ReceiveOther, ReceivePing, ReceivePingSent,
           MinutePasses, progress, vars

LEMMA SaidNext ==
    ASSUME ReportsAreMeant, SaidInv, [Next]_vars
    PROVE  SaidInv'
<1>0. HandlingInv' /\ TrafficInv
  BY HandlingNext DEF SaidInv, HandlingInv
<1>1. ClosedRowsWereSaid'
  <2>. SUFFICES ASSUME NEW b \in BankNames, lastStatus'[b] = "CLOSED"
                PROVE  Said(b, "CLOSED", Listened)'
    BY DEF ClosedRowsWereSaid
  <2>1. Said(b, "CLOSED", Listened)
    BY RowsFollow DEF SaidInv, ClosedRowsWereSaid
  <2>. QED  BY <1>0, <2>1, SaidStays
<1>2. ClosedAnswersWereSaid'
  <2>. SUFFICES ASSUME NEW h \in handling', h.row = "CLOSED"
                PROVE  AskedFor(h) \in BankNames /\ Said(AskedFor(h), "CLOSED", Listened)'
    BY DEF ClosedAnswersWereSaid
  <2>1. \/ h \in handling
        \/ AskedFor(h) \in BankNames /\ lastStatus[AskedFor(h)] = "CLOSED"
    BY AnswersComeFromRows DEF Unread
  <2>2. AskedFor(h) \in BankNames /\ Said(AskedFor(h), "CLOSED", Listened)
    BY <2>1 DEF SaidInv, ClosedRowsWereSaid, ClosedAnswersWereSaid
  <2>. QED  BY <1>0, <2>2, SaidStays
<1>. QED  BY <1>0, <1>1, <1>2 DEF SaidInv

(***************************************************************************)
(* A complaint is filed for the bank whose complaint it is, said in one of *)
(* the three chats, and only of a bank that was reported closed, whatever  *)
(* the other handlers and the recovery job do between the look at the row  *)
(* and the record                                                          *)
(* (BiFastMessageHandler.ts:48-68, MessageComplaintParser.ts:112-120).     *)
(***************************************************************************)
THEOREM ComplaintsAreFiledRight ==
    ASSUME ComplaintsAreMeant, ReportsAreMeant, OwnKeys, BankNames \subseteq Banks
    PROVE  Spec => ComplaintsOfTheirBank
<1>. DEFINE Filed ==
              complaints' # complaints => \A b \in BankNames :
                  complaints'[WriterKey(b)] # complaints[WriterKey(b)] =>
                      /\ Said(b, "complaint", ComplaintChats)
                      /\ Said(b, "CLOSED", Listened)
<1>1. ASSUME SaidInv, [Next]_vars PROVE [Filed]_vars
  <2>. SUFFICES ASSUME NEW b \in BankNames,
                       complaints'[WriterKey(b)] # complaints[WriterKey(b)]
                PROVE  /\ Said(b, "complaint", ComplaintChats)
                       /\ Said(b, "CLOSED", Listened)
    OBVIOUS
  <2>0. HandlingInv
    BY <1>1 DEF SaidInv
  <2>1. PICK h \in handling : ComplaintRead(h)
    BY <1>1, Writers
  <2>. DEFINE by == ComplaintIn[h.msg.text]
              name == findBifastBankNameByAbbreviation(by)
  <2>2. h.row = "CLOSED" /\ Record(UpperCase[by])
    BY <2>1 DEF ComplaintRead
  <2>3. name \in BankNames /\ Said(name, "CLOSED", Listened)
    BY <1>1, <2>1, <2>2 DEF SaidInv, ClosedAnswersWereSaid, AskedFor, ComplaintRead
  <2>4. WriterKey(b) = UpperCase[by]
    <3>1. complaints = [k \in Spellings |-> complaints[k]]
      BY <2>0 DEF HandlingInv, StoresTypeOK
    <3>2. WriterKey(b) \in Spellings
      BY BankNames \subseteq Banks DEF WriterKey, Spellings
    <3>. HIDE DEF by
    <3>. QED  BY <2>2, <3>1, <3>2 DEF Record
  <2>5. Heard(h.msg) /\ h.msg.chat \in ComplaintChats
    BY <2>0, <2>1 DEF HandlingInv, HandlersHaveReason, Due, ComplaintRead
  <2>6. PICK p \in Payloads : Body(p) = h.msg.text
    BY <2>5 DEF Heard, Messages
  <2>7. b = name
    BY <2>3, <2>4, <2>6 DEF OwnKeys
  <2>8. \A q \in Payloads : Body(q) = h.msg.text =>
            Statement(name, "complaint") \in Meaning[q]
    BY <2>3 DEF ComplaintsAreMeant
  <2>. HIDE DEF name
  <2>. QED  BY <2>0, <2>3, <2>5, <2>7, <2>8, ReadIsSaid
<1>2. Spec => []SaidInv
  <2>1. Init => SaidInv
    <3>. SUFFICES ASSUME Init PROVE SaidInv
      OBVIOUS
    <3>1. ClosedRowsWereSaid /\ ClosedAnswersWereSaid
      BY DEF Init, ClosedRowsWereSaid, ClosedAnswersWereSaid
    <3>. QED  BY <3>1, HandlingInit DEF SaidInv
  <2>2. SaidInv /\ [Next]_vars => SaidInv'
    BY SaidNext
  <2>. QED  BY <2>1, <2>2, PTL DEF Spec
<1>. QED  BY <1>1, <1>2, PTL DEF Spec, ComplaintsOfTheirBank

=============================================================================
