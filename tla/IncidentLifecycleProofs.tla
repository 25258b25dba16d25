----------------------- MODULE IncidentLifecycleProofs -----------------------
(***************************************************************************)
(* Theorems about IncidentLifecycle, for any banks, messages, slots, runs  *)
(* and periods that satisfy the assumptions of its modules, with or        *)
(* without overlap and faults.                                             *)
(***************************************************************************)
EXTENDS IncidentLifecycle, FiniteSetTheorems, TLAPS

-----------------------------------------------------------------------------
\* Type correctness.

LEMMA OlderType ==
    ASSUME NEW a \in Ages
    PROVE  Older(a) \in Ages
BY PeriodsAssumption DEF Ages, Older

LEMMA AgedEventsType ==
    ASSUME TablesTypeOK
    PROVE  AgedEvents \in [EventIds -> Rows \cup {NoRow}]
<1>1. ASSUME NEW i \in EventIds, Stored(i)
      PROVE  [monitoringEvents[i] EXCEPT !.age = Older(@)] \in Rows
  <2>1. monitoringEvents[i] \in Rows
    BY <1>1 DEF TablesTypeOK, Stored
  <2>2. Older(monitoringEvents[i].age) \in Ages
    BY <2>1, OlderType DEF Rows
  <2>. QED  BY <2>1, <2>2 DEF Rows
<1>. QED  BY <1>1 DEF AgedEvents

\* An execution that is somewhere holds an event.
LEMMA BusyEvent ==
    ASSUME ProcessTypeOK, NEW s \in Slots, pc[s] # "idle"
    PROVE  event[s] \in Events /\ event[s].entity \in Entities
BY BanksAssumption DEF ProcessTypeOK, Events

\* The two ways an execution moves on.
LEMMA GotoType ==
    ASSUME ProcessTypeOK, NEW s \in Slots, pc[s] # "idle",
           NEW l \in Locations \ {"idle"}, Goto(s, l)
    PROVE  ProcessTypeOK'
BY DEF ProcessTypeOK, Goto

LEMMA ReturnType ==
    ASSUME ProcessTypeOK, NEW s \in Slots, Return(s)
    PROVE  ProcessTypeOK'
BY DEF ProcessTypeOK, Return, Locations

LEMMA InitType == Init => TypeOK
BY DEF Init, TypeOK, TablesTypeOK, ProcessTypeOK, ResolveTypeOK, ProcessInit,
       ResolveInit, SeededState, NoStates, NoEvents, NoIncidents, Statuses,
       Locations

LEMMA ProceedType ==
    ASSUME TypeOK, NEW s \in Slots, Proceed(s)
    PROVE  TypeOK'
<1>. USE DEF TypeOK
<1>0. pc[s] # "idle"
  BY DEF Proceed, Step, GetState, SetState, Append, Evaluate, HasOpen,
         Create, Notify
<1>1. event[s] \in Events /\ event[s].entity \in Entities
  BY <1>0, BusyEvent
<1>2. ResolveTypeOK'
  BY DEF Proceed, ResolveTypeOK, resolveVars
<1>3. CASE GetState(s)
  BY <1>0, <1>2, <1>3, GotoType, ReturnType
     DEF GetState, TablesTypeOK, tables, Locations
<1>4. CASE SetState(s)
  BY <1>0, <1>1, <1>2, <1>4, GotoType, ReturnType
     DEF SetState, WithState, TablesTypeOK, Events, Statuses, MapToIncidentStatus, Locations
<1>5. CASE Append(s)
  <2>1. monitoringEvents' \in [EventIds -> Rows \cup {NoRow}]
    BY <1>1, <1>5 DEF Append, WithRow, TablesTypeOK, Events, Rows
  <2>2. ProcessTypeOK'
    BY <1>0, <1>5, GotoType, ReturnType DEF Append, Locations, Counted
  <2>. QED  BY <1>2, <1>5, <2>1, <2>2 DEF Append, TablesTypeOK
<1>6. CASE Evaluate(s)
  BY <1>0, <1>2, <1>6, GotoType, ReturnType
     DEF Evaluate, TablesTypeOK, tables, Locations, Counted
<1>7. CASE HasOpen(s)
  BY <1>0, <1>2, <1>7, GotoType, ReturnType
     DEF HasOpen, TablesTypeOK, tables, Locations, Counted
<1>8. CASE Create(s)
  BY <1>0, <1>1, <1>2, <1>8, GotoType
     DEF Create, WithOpen, TablesTypeOK, Locations, Counted, Events
<1>9. CASE Notify(s)
  BY <1>0, <1>2, <1>9, ReturnType DEF Notify, TablesTypeOK, tables
<1>. QED  BY <1>3, <1>4, <1>5, <1>6, <1>7, <1>8, <1>9 DEF Proceed, Step

LEMMA TickType ==
    ASSUME TypeOK, Tick
    PROVE  TypeOK'
<1>. USE DEF TypeOK
<1>1. TablesTypeOK'
  BY AgedEventsType DEF Tick, TablesTypeOK
<1>2. ASSUME NEW s \in Slots, event[s] # NoEvent
      PROVE  [event[s] EXCEPT !.age = Older(@)] \in Events
  <2>1. event[s] \in Events
    BY <1>2 DEF ProcessTypeOK
  <2>2. Older(event[s].age) \in Ages
    BY <2>1, OlderType DEF Events
  <2>. QED  BY <2>1, <2>2 DEF Events
<1>3. event' \in [Slots -> Events \cup {NoEvent}]
  BY <1>2 DEF Tick
<1>4. \A s \in Slots : event'[s] = NoEvent <=> event[s] = NoEvent
  BY <1>2, NoEventAssumption DEF Tick, ProcessTypeOK
<1>5. ProcessTypeOK'
  BY <1>3, <1>4 DEF Tick, ProcessTypeOK
<1>6. ResolveTypeOK'
  BY DEF Tick, ResolveTypeOK, resolveVars
<1>. QED  BY <1>1, <1>5, <1>6

LEMMA NextType == TypeOK /\ [Next]_vars => TypeOK'
<1>. SUFFICES ASSUME TypeOK, [Next]_vars
              PROVE  TypeOK'
  OBVIOUS
<1>. USE DEF TypeOK
<1>1. ASSUME NEW s \in Slots, NEW i \in EventIds, NEW e \in Banks,
             NEW status \in Statuses, Arrive(s, i, e, status)
      PROVE  TypeOK'
  <2>1. [id |-> i, entity |-> e, status |-> status, age |-> 0] \in Events
    BY PeriodsAssumption DEF Events, Ages
  <2>2. ProcessTypeOK'
    BY <1>1, <2>1, NoEventAssumption DEF Arrive, Execute, ProcessTypeOK, Locations
  <2>. QED  BY <1>1, <2>2
            DEF Arrive, Execute, TablesTypeOK, ResolveTypeOK, tables, resolveVars
<1>2. ASSUME NEW s \in Slots, Proceed(s)
      PROVE  TypeOK'
  BY <1>2, ProceedType
<1>3. ASSUME NEW s \in Slots, ExecutionFails(s)
      PROVE  TypeOK'
  BY <1>3, ReturnType
     DEF ExecutionFails, Fail, TablesTypeOK, ResolveTypeOK, tables, resolveVars
<1>4. ASSUME NEW r \in Runs, ResolveStarts(r)
      PROVE  TypeOK'
  BY <1>4 DEF ResolveStarts, ResolveList, ListOpenIncidents, TablesTypeOK,
              ProcessTypeOK, ResolveTypeOK, tables, processVars
<1>5. ASSUME NEW r \in Runs, ResolveSave(r), UNCHANGED processVars
      PROVE  TypeOK'
  BY <1>5 DEF ResolveSave, WithResolved, TablesTypeOK, ProcessTypeOK,
              ResolveTypeOK, processVars
<1>6. ASSUME NEW r \in Runs, NEW e \in Entities, ResolveCount(r, e),
             UNCHANGED processVars
      PROVE  TypeOK'
  BY <1>6 DEF ResolveCount, TablesTypeOK, ProcessTypeOK, ResolveTypeOK, tables,
              processVars
<1>7. ASSUME NEW r \in Runs, ResolveFails(r)
      PROVE  TypeOK'
  BY <1>7 DEF ResolveFails, ResolveFail, TablesTypeOK, ProcessTypeOK,
              ResolveTypeOK, tables, processVars
<1>8. CASE CleanupRuns
  BY <1>8 DEF CleanupRuns, Cleanup, WithoutOlderThan, TablesTypeOK,
              ProcessTypeOK, ResolveTypeOK, processVars, resolveVars
<1>9. CASE Tick
  BY <1>9, TickType
<1>10. ASSUME NEW steps \in 0 .. 4, Restart(steps)
       PROVE  TypeOK'
  <2>1. TablesTypeOK'
    BY <1>10 DEF Restart, TablesTypeOK, SeededState, NoStates, NoEvents,
                 NoIncidents, Statuses
  <2>2. ProcessTypeOK' /\ ResolveTypeOK'
    BY <1>10 DEF Restart, ProcessTypeOK, ResolveTypeOK, Locations
  <2>. QED  BY <2>1, <2>2
<1>11. CASE UNCHANGED vars
  BY <1>11 DEF vars, tables, processVars, resolveVars, TablesTypeOK,
               ProcessTypeOK, ResolveTypeOK
<1>. QED  BY <1>1, <1>2, <1>3, <1>4, <1>5, <1>6, <1>7, <1>8, <1>9, <1>10, <1>11
          DEF Next, ResolveProceeds, ResolveStep

(***************************************************************************)
(* The tables, the executions and the runs of the jobs always have their   *)
(* types: in particular only OPEN and CLOSED are ever stored as a state.   *)
(***************************************************************************)
THEOREM TypeCorrect == Spec => []TypeOK
BY InitType, NextType, PTL DEF Spec

-----------------------------------------------------------------------------
\* A counted closure is stored.

\* The only steps that write monitoring_events, and what each leaves in it.
LEMMA EventsWriters ==
    ASSUME TypeOK, Next
    PROVE  \/ UNCHANGED monitoringEvents
           \/ \E s \in Slots : Append(s)
           \/ Cleanup /\ UNCHANGED processVars
           \/ Tick
           \/ \E steps \in 0 .. 4 : Restart(steps)
BY DEF Next, Arrive, Execute, Proceed, Step, GetState, SetState, Evaluate, HasOpen,
       Create, Notify, ExecutionFails, Fail, ResolveStarts, ResolveList,
       ResolveProceeds, ResolveStep, ResolveCount, ResolveSave, ResolveFails,
       ResolveFail, CleanupRuns, tables

\* An execution is among the counted only by its own append, or stays there.
LEMMA CountedWriters ==
    ASSUME TypeOK, Next, NEW s \in Slots, pc'[s] \in Counted, ~Tick
    PROVE  \/ pc[s] = "append" /\ Append(s)
           \/ pc[s] \in Counted /\ event'[s] = event[s]
<1>1. ASSUME NEW t \in Slots, NEW i \in EventIds, NEW e \in Banks,
             NEW status \in Statuses, Arrive(t, i, e, status)
      PROVE  pc[s] \in Counted /\ event'[s] = event[s]
  BY <1>1 DEF Arrive, Execute, TypeOK, ProcessTypeOK, Counted
<1>2. ASSUME NEW t \in Slots, Return(t)
      PROVE  pc[s] \in Counted /\ event'[s] = event[s]
  BY <1>2 DEF Return, TypeOK, ProcessTypeOK, Counted
<1>3. ASSUME NEW t \in Slots, NEW l \in Locations, Goto(t, l),
             l \in Counted => pc[t] \in Counted
      PROVE  pc[s] \in Counted /\ event'[s] = event[s]
  BY <1>3 DEF Goto, TypeOK, ProcessTypeOK, Counted
<1>4. ASSUME NEW t \in Slots, Proceed(t)
      PROVE  \/ pc[s] = "append" /\ Append(s)
             \/ pc[s] \in Counted /\ event'[s] = event[s]
  <2>1. CASE GetState(t)
    BY <1>2, <1>3, <2>1 DEF GetState, Locations, Counted
  <2>2. CASE SetState(t)
    BY <1>2, <1>3, <2>2 DEF SetState, Locations, Counted
  <2>3. CASE Append(t) /\ t # s
    BY <2>3 DEF Append, Goto, Return, TypeOK, ProcessTypeOK
  <2>4. CASE Append(t) /\ t = s
    BY <2>4 DEF Append
  <2>5. CASE Evaluate(t) \/ HasOpen(t)
    BY <1>2, <1>3, <2>5 DEF Evaluate, HasOpen, Locations, Counted
  <2>6. CASE Create(t) \/ Notify(t)
    BY <1>2, <1>3, <2>6 DEF Create, Notify, Locations, Counted
  <2>. QED  BY <1>4, <2>1, <2>2, <2>3, <2>4, <2>5, <2>6 DEF Proceed, Step
<1>5. ASSUME NEW t \in Slots, ExecutionFails(t)
      PROVE  pc[s] \in Counted /\ event'[s] = event[s]
  BY <1>2, <1>5 DEF ExecutionFails, Fail
<1>6. ASSUME UNCHANGED processVars
      PROVE  pc[s] \in Counted /\ event'[s] = event[s]
  BY <1>6 DEF processVars
<1>7. ASSUME NEW steps \in 0 .. 4, Restart(steps)
      PROVE  FALSE
  BY <1>7 DEF Restart, Counted
<1>. QED  BY <1>1, <1>4, <1>5, <1>6, <1>7
          DEF Next, ResolveStarts, ResolveProceeds, ResolveFails, CleanupRuns

LEMMA CountedEventStoredStep ==
    ASSUME TypeOK, TypeOK', CountedEventStored, [Next]_vars
    PROVE  CountedEventStored'
<1>1. CASE UNCHANGED vars
  BY <1>1 DEF vars, tables, processVars, CountedEventStored
<1>2. CASE Tick
  <2>1. SUFFICES ASSUME NEW s \in Slots, pc'[s] \in Counted
                 PROVE  \/ event'[s].age > Retention
                        \/ monitoringEvents'[event'[s].id] =
                             [entity |-> event'[s].entity, age |-> event'[s].age]
    BY DEF CountedEventStored
  <2>2. pc[s] \in Counted
    BY <1>2, <2>1 DEF Tick
  <2>3. /\ event[s] \in Events
        /\ event[s].entity \in Entities
        /\ event[s] # NoEvent
    BY <2>2, BusyEvent, NoEventAssumption DEF TypeOK, Counted
  <2>4. /\ event'[s] = [event[s] EXCEPT !.age = Older(@)]
        /\ event'[s].id = event[s].id
        /\ event'[s].entity = event[s].entity
        /\ event'[s].age = Older(event[s].age)
    BY <1>2, <2>3 DEF Tick, Events
  <2>5. CASE event[s].age > Retention
    BY <2>3, <2>4, <2>5 DEF Older
  <2>6. CASE monitoringEvents[event[s].id] =
               [entity |-> event[s].entity, age |-> event[s].age]
    <3>1. event[s].id \in EventIds /\ event[s].entity \in Entities
      BY <2>3 DEF Events
    <3>2. Stored(event[s].id)
      BY <2>6, <3>1, NoEntityAssumption DEF Stored, NoRow
    <3>3. monitoringEvents'[event[s].id] =
            [entity |-> event[s].entity, age |-> Older(event[s].age)]
      BY <1>2, <2>6, <3>1, <3>2 DEF Tick, AgedEvents
    <3>. QED  BY <2>4, <3>3
  <2>. QED  BY <2>2, <2>5, <2>6 DEF CountedEventStored
<1>3. CASE Next /\ ~Tick
  <2>1. SUFFICES ASSUME NEW s \in Slots, pc'[s] \in Counted
                 PROVE  \/ event'[s].age > Retention
                        \/ monitoringEvents'[event'[s].id] =
                             [entity |-> event'[s].entity, age |-> event'[s].age]
    BY DEF CountedEventStored
  <2>2. CASE pc[s] = "append" /\ Append(s)
    <3>1. event[s] \in Events
      BY <2>2, BusyEvent DEF TypeOK
    <3>2. ~Return(s)
      BY <2>1 DEF Return, Counted, TypeOK, ProcessTypeOK
    <3>3. /\ event'[s] = event[s]
          /\ monitoringEvents' =
               WithRow(event[s].id, event[s].entity, event[s].age)
      BY <2>2, <3>2 DEF Append, Goto
    <3>. QED  BY <3>1, <3>3 DEF WithRow, Events, TypeOK, TablesTypeOK
  <2>3. CASE pc[s] \in Counted /\ event'[s] = event[s]
    <3>1. event[s] \in Events /\ event[s].entity \in Entities
      BY <2>3, BusyEvent DEF TypeOK, Counted
    <3>2. SUFFICES ASSUME event[s].age <= Retention
                   PROVE  monitoringEvents'[event[s].id] =
                            monitoringEvents[event[s].id]
      BY <2>3, <3>1, PeriodsAssumption DEF CountedEventStored, Events, Ages
    <3>3. /\ event[s].id \in EventIds
          /\ event[s].entity \in Entities
          /\ event[s].age \in Ages
          /\ monitoringEvents[event[s].id] =
               [entity |-> event[s].entity, age |-> event[s].age]
      BY <2>3, <3>1, <3>2, PeriodsAssumption DEF CountedEventStored, Events, Ages
    <3>4. Stored(event[s].id)
      BY <3>3, NoEntityAssumption DEF Stored, NoRow
    <3>5. ASSUME NEW t \in Slots, Append(t)
          PROVE  monitoringEvents'[event[s].id] = monitoringEvents[event[s].id]
      BY <3>3, <3>4, <3>5 DEF Append, WithRow, TypeOK, TablesTypeOK
    <3>6. CASE Cleanup
      BY <3>2, <3>3, <3>6, PeriodsAssumption DEF Cleanup, WithoutOlderThan, Ages
    <3>7. ASSUME NEW steps \in 0 .. 4, Restart(steps)
          PROVE  FALSE
      BY <2>1, <3>7 DEF Restart, Counted
    <3>. QED  BY <1>3, <3>5, <3>6, <3>7, EventsWriters
  <2>. QED  BY <1>3, <2>1, <2>2, <2>3, CountedWriters
<1>. QED  BY <1>1, <1>2, <1>3

(***************************************************************************)
(* Whatever executions, jobs, duplicates, failures and restarts come       *)
(* between its awaits, an execution that counted a closure finds it in the *)
(* table, with the time at which it happened.                              *)
(***************************************************************************)
THEOREM CountedEventsAreStored == Spec => []CountedEventStored
<1>1. Init => CountedEventStored
  BY DEF Init, ProcessInit, CountedEventStored, Counted
<1>2. TypeOK /\ TypeOK' /\ CountedEventStored /\ [Next]_vars => CountedEventStored'
  BY CountedEventStoredStep
<1>. QED  BY <1>1, <1>2, TypeCorrect, PTL DEF Spec

-----------------------------------------------------------------------------
\* What the jobs may and may not do.

LEMMA CountableEventKept ==
    ASSUME TypeOK, Next, ~Tick, \A steps \in 0 .. 4 : ~Restart(steps),
           NEW e \in Entities, NEW i \in RecentIds(e, StableOpen)
    PROVE  i \in RecentIds(e, StableOpen)'
<1>1. /\ i \in EventIds
      /\ monitoringEvents[i] \in Rows
      /\ monitoringEvents[i].age <= StableOpen
      /\ Stored(i)
  BY NoEntityAssumption DEF RecentIds, TypeOK, TablesTypeOK, Stored, NoRow
<1>2. monitoringEvents[i].age <= Retention
  BY <1>1, PeriodsAssumption, RetentionAssumption DEF Rows, Ages
<1>3. ASSUME NEW s \in Slots, Append(s)
      PROVE  monitoringEvents'[i] = monitoringEvents[i]
  BY <1>1, <1>3 DEF Append, WithRow, Stored, TypeOK, TablesTypeOK
<1>4. CASE Cleanup
  BY <1>1, <1>2, <1>4, PeriodsAssumption
     DEF Cleanup, WithoutOlderThan, RecentIds, Rows, Ages
<1>. QED  BY <1>3, <1>4, EventsWriters DEF RecentIds

(***************************************************************************)
(* No append, cleanup, failure or job takes a closure out of the count the *)
(* resolve job relies on; only time and a restart do.                      *)
(***************************************************************************)
THEOREM CountableEventsAreKept == Spec => NoCountableEventLost
<1>1. ASSUME TypeOK, [Next]_vars
      PROVE  [\/ Tick
              \/ \E steps \in 0 .. 4 : Restart(steps)
              \/ \A e \in Entities :
                     RecentIds(e, StableOpen) \subseteq RecentIds(e, StableOpen)']_vars
  BY <1>1, CountableEventKept
<1>. QED  BY <1>1, TypeCorrect, PTL DEF Spec, NoCountableEventLost

\* A count of nothing is a count that found nothing.
LEMMA NothingCounted ==
    ASSUME NEW e, NEW w, CountInWindow(e, w) = 0
    PROVE  RecentIds(e, w) = {}
<1>1. IsFiniteSet(RecentIds(e, w))
  BY EventIdsAssumption, FS_Subset DEF RecentIds
<1>. QED  BY <1>1, FS_EmptySet DEF CountInWindow

\* A run that takes a decision has just counted nothing for that bank.
LEMMA DecisionCounts ==
    ASSUME TypeOK, Next, NEW r \in Runs, saving[r] = NoEntity, saving'[r] # NoEntity
    PROVE  /\ saving'[r] \in Entities
           /\ CountInWindow(saving'[r], StableOpen) = 0
<1>1. ASSUME NEW q \in Runs, NEW e \in Entities, ResolveCount(q, e)
      PROVE  saving'[r] = e /\ CountInWindow(e, StableOpen) = 0
  BY <1>1 DEF ResolveCount, TypeOK, ResolveTypeOK
<1>2. ASSUME NEW q \in Runs, ResolveSave(q) \/ ResolveFail(q)
      PROVE  FALSE
  BY <1>2 DEF ResolveSave, ResolveFail, TypeOK, ResolveTypeOK
<1>3. ASSUME NEW steps \in 0 .. 4, Restart(steps)
      PROVE  FALSE
  BY <1>3 DEF Restart
<1>4. saving' = saving => FALSE
  OBVIOUS
<1>. QED  BY <1>1, <1>2, <1>3, <1>4
          DEF Next, Arrive, Proceed, ExecutionFails, ResolveStarts, ResolveList,
              ResolveProceeds, ResolveStep, ResolveFails, CleanupRuns, Cleanup,
              Tick, resolveVars

LEMMA DecisionSeesRaise ==
    ASSUME TypeOK, CountedEventStored, Next, NEW r \in Runs, NEW s \in Slots,
           saving[r] = NoEntity, saving'[r] # NoEntity,
           pc[s] \in Counted, event[s].age <= StableOpen
    PROVE  event[s].entity # saving'[r]
<1>1. event[s] \in Events
  BY BusyEvent DEF TypeOK, Counted
<1>2. ~(event[s].age > Retention)
  BY <1>1, PeriodsAssumption, RetentionAssumption DEF Events, Ages
<1>3. monitoringEvents[event[s].id] =
         [entity |-> event[s].entity, age |-> event[s].age]
  BY <1>2 DEF CountedEventStored
<1>4. /\ event[s].id \in EventIds
      /\ monitoringEvents[event[s].id].entity = event[s].entity
      /\ monitoringEvents[event[s].id].age = event[s].age
  BY <1>1, <1>3 DEF Events
<1>5. event[s].id \in RecentIds(event[s].entity, StableOpen)
  BY <1>4 DEF RecentIds
<1>. QED  BY <1>5, DecisionCounts, NothingCounted

(***************************************************************************)
(* The resolve job never decides against a closure that is being raised.   *)
(***************************************************************************)
THEOREM DecisionsSeeRaises == Spec => NoResolveDecisionDuringRaise
<1>1. ASSUME TypeOK, CountedEventStored, [Next]_vars
      PROVE  [\A r \in Runs, s \in Slots :
                (/\ saving[r] = NoEntity
                 /\ saving'[r] # NoEntity
                 /\ pc[s] \in Counted
                 /\ event[s].age <= StableOpen)
                => event[s].entity # saving'[r]]_vars
  BY <1>1, DecisionSeesRaise
<1>. QED  BY <1>1, TypeCorrect, CountedEventsAreStored, PTL
          DEF Spec, NoResolveDecisionDuringRaise

LEMMA ResolveTargetsStep ==
    ASSUME TypeOK, ResolveTargetsExist, [Next]_vars
    PROVE  ResolveTargetsExist'
<1>1. ASSUME NEW s \in Slots, Create(s)
      PROVE  \A e \in Entities : incidents'[e] = "none" => incidents[e] = "none"
  BY <1>1 DEF Create, WithOpen, TypeOK, TablesTypeOK
<1>2. ASSUME NEW r \in Runs, ResolveSave(r)
      PROVE  \A e \in Entities : incidents'[e] = "none" => incidents[e] = "none"
  BY <1>2 DEF ResolveSave, WithResolved, TypeOK, TablesTypeOK
<1>3. ASSUME NEW s \in Slots, Proceed(s)
      PROVE  ResolveTargetsExist'
  <2>1. pending' = pending /\ saving' = saving
    BY <1>3 DEF Proceed, resolveVars
  <2>2. CASE Create(s)
    BY <1>1, <2>1, <2>2 DEF ResolveTargetsExist, TypeOK, ResolveTypeOK
  <2>3. CASE ~Create(s)
    BY <1>3, <2>1, <2>3
       DEF Proceed, Step, GetState, SetState, Append, Evaluate, HasOpen, Notify,
           tables, ResolveTargetsExist
  <2>. QED  BY <2>2, <2>3
<1>4. ASSUME NEW r \in Runs, ResolveStarts(r)
      PROVE  ResolveTargetsExist'
  BY <1>4 DEF ResolveStarts, ResolveList, ListOpenIncidents, tables,
              ResolveTargetsExist, TypeOK, ResolveTypeOK
<1>5. ASSUME NEW r \in Runs, ResolveProceeds(r)
      PROVE  ResolveTargetsExist'
  <2>1. CASE ResolveSave(r)
    BY <1>2, <2>1 DEF ResolveSave, ResolveTargetsExist, TypeOK, ResolveTypeOK
  <2>2. ASSUME NEW e \in Entities, ResolveCount(r, e)
        PROVE  ResolveTargetsExist'
    BY <2>2 DEF ResolveCount, tables, ResolveTargetsExist, TypeOK, ResolveTypeOK
  <2>. QED  BY <1>5, <2>1, <2>2 DEF ResolveProceeds, ResolveStep
<1>6. ASSUME NEW r \in Runs, ResolveFails(r)
      PROVE  ResolveTargetsExist'
  BY <1>6 DEF ResolveFails, ResolveFail, tables, ResolveTargetsExist, TypeOK,
              ResolveTypeOK
<1>7. ASSUME NEW steps \in 0 .. 4, Restart(steps)
      PROVE  ResolveTargetsExist'
  BY <1>7 DEF Restart, ResolveTargetsExist
<1>8. ASSUME UNCHANGED <<incidents, resolveVars>>
      PROVE  ResolveTargetsExist'
  BY <1>8 DEF resolveVars, ResolveTargetsExist
<1>. QED  BY <1>3, <1>4, <1>5, <1>6, <1>7, <1>8
          DEF Next, Arrive, Execute, ExecutionFails, Fail, CleanupRuns, Cleanup,
              Tick, vars, tables

(***************************************************************************)
(* The resolve job never saves an incident whose row is gone.              *)
(***************************************************************************)
THEOREM ResolveTargetsAlwaysExist == Spec => []ResolveTargetsExist
<1>1. Init => ResolveTargetsExist
  BY DEF Init, ResolveInit, ResolveTargetsExist
<1>2. TypeOK /\ ResolveTargetsExist /\ [Next]_vars => ResolveTargetsExist'
  BY ResolveTargetsStep
<1>. QED  BY <1>1, <1>2, TypeCorrect, PTL DEF Spec

=============================================================================
