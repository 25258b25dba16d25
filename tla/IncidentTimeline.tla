--------------------------- MODULE IncidentTimeline ---------------------------
(***************************************************************************)
(* The timelines that "/state" shows: the state of each bank and the list  *)
(* of its states of the last hour, under the bank's normalised name.       *)
(* IncidentStateMachine says which transitions there are; here is what     *)
(* each leaves in the two stores.                                          *)
(***************************************************************************)
EXTENDS Integers, BankList, IncidentStateMachine

CONSTANT TimelineWindow     \* windowMs of the event store, an hour

ASSUME TimelineWindowAssumption == TimelineWindow \in Nat

NoTimeline == [state |-> "NORMAL", events |-> <<>>]
NoTimelines == [b \in BankNames |-> NoTimeline]

\* The key of each spelling, looked up once.
Spelt == UNION {{bifastList[i].nama_bank, bifastList[i].abbreviation} :
                i \in DOMAIN bifastList}
KeyOf == [entity \in Spelt |-> normalizeBankEntity(entity)]

\* push: what is older than an hour goes when something new comes.
Recent(events, now) ==
    Filter(events, {e \in ToSet(events) : now - e.at <= TimelineWindow})

Push(events, state, now) ==
    Recent(Append(events, [state |-> state, at |-> now]), now)

Allowed(current, next) ==
    next \in {"RESOLVED", "NORMAL"} \cup allowedTransitions[current]

AppliedAnyway(timeline, next, now) ==   \* mutant: every request is applied
    [state |-> next, events |-> Push(timeline.events, next, now)]

Applied(timeline, next, now) ==
    IF Allowed(timeline.state, next)
    THEN [state |-> next, events |-> Push(timeline.events, next, now)]
    ELSE timeline

\* transition, under any spelling of the bank.
WithTransition(timelines, entity, next, now) ==
    [timelines EXCEPT ![KeyOf[entity]] = Applied(@, next, now)]

\* What setTransition asks for, one after the other: a confirmation asks for
\* WAIT first, and once more when the bank waits already.
Requests(current, decision) ==
    IF decision # "CONFIRMED_INCIDENT"
    THEN IF current = decision /\ decision # "WAIT" THEN <<>> ELSE <<decision>>
    ELSE CASE current = decision -> <<"WAIT">>
           [] current = "WAIT" -> <<"WAIT", "WAIT", decision>>
           [] OTHER -> <<"WAIT", decision>>

AppliedAll(timeline, requests, now) ==
    FoldLeft(LAMBDA t, next : Applied(t, next, now), timeline, requests)

WithDecision(timelines, entity, decision, now) ==
    [timelines EXCEPT ![KeyOf[entity]] =
        AppliedAll(@, Requests(@.state, decision), now)]

\* getTimeline: what is listed is not looked at for its age again.
getTimeline(timelines, entity) ==
    IF KeyOf[entity] \in BankNames THEN timelines[KeyOf[entity]].events
    ELSE <<>>

=============================================================================
