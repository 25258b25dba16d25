------------------------ MODULE ProcessMonitoringEvent ------------------------
(***************************************************************************)
(* ProcessMonitoringEvent.execute.  Node runs one thread, so what happens  *)
(* between two awaits is one step; every await on the database gives the   *)
(* other executions, the resolve job and the cleanup job a turn.  A slot   *)
(* is an execution in flight; pc names the statement it is waiting for.    *)
(***************************************************************************)
EXTENDS IncidentTables

CONSTANTS
    Slots,      \* executions that may be in flight together
    NoEvent     \* what an idle slot holds

VARIABLES
    pc,         \* the await each execution is at, "idle" when there is none
    event       \* the MonitoringEvent it was called with; age is its occurredAt

processVars == <<pc, event>>

Events == [id : EventIds, entity : Banks, status : Statuses, age : Ages]

ASSUME NoEventAssumption == NoEvent \notin Events

\* Past the append the transition is counted; before it, it is not yet.
Counted == {"evaluate", "hasOpen", "create", "notify"}
Locations == {"idle", "get", "setOnly", "setCounted", "append"} \cup Counted

ProcessTypeOK ==
    /\ pc \in [Slots -> Locations]
    /\ event \in [Slots -> Events \cup {NoEvent}]
    /\ \A s \in Slots : pc[s] = "idle" <=> event[s] = NoEvent

ProcessInit ==
    /\ pc = [s \in Slots |-> "idle"]
    /\ event = [s \in Slots |-> NoEvent]

-----------------------------------------------------------------------------

\* IncidentPolicy.isCountableTransition and canCreateIncident, for BIFAST.
IsCountableTransition(prev, current) == prev = "OPEN" /\ current = "CLOSED"
CanCreateIncidentAlways(hasOpenIncident) == TRUE     \* mutant: no check
CanCreateIncident(hasOpenIncident) == ~hasOpenIncident

\* mapToIncidentStatus; what it does not know is stored as the string "null".
MapOnlyClosed(status) ==         \* mutant: only the closing words are known
    IF status = "CLOSED" THEN "CLOSED" ELSE "null"
MapOnlyOpen(status) ==           \* mutant: both words are mapped to OPEN
    IF status \in {"CLOSED", "OPEN"} THEN "OPEN" ELSE "null"

MapToIncidentStatus(status) ==
    IF status = "CLOSED" THEN "CLOSED"
    ELSE IF status = "OPEN" THEN "OPEN" ELSE "null"

\* DedupLockDb.acquire: every caller gets the lock.
AcquireIncidentLock == TRUE

\* The statement execution s awaits next; returning frees the slot.
Goto(s, location) ==
    /\ pc' = [pc EXCEPT ![s] = location]
    /\ UNCHANGED event

Return(s) ==
    /\ pc' = [pc EXCEPT ![s] = "idle"]
    /\ event' = [event EXCEPT ![s] = NoEvent]

\* execute(dto) is called: the event is stamped with Date.now().
Execute(s, i, e, status) ==
    /\ pc[s] = "idle"
    /\ pc' = [pc EXCEPT ![s] = "get"]
    /\ event' = [event EXCEPT ![s] =
                    [id |-> i, entity |-> e, status |-> status, age |-> 0]]
    /\ UNCHANGED tables

\* 1-4: load the previous state and decide, on what it was then, what to do.
GetState(s) ==
    /\ pc[s] = "get"
    /\ LET prev == StateOf(event[s].entity)
           status == event[s].status
       IN  \/ prev = status /\ Return(s)
           \/ IsCountableTransition(prev, status) /\ Goto(s, "setCounted")
           \/ /\ prev # status
              /\ ~IsCountableTransition(prev, status)
              /\ Goto(s, "setOnly")
    /\ UNCHANGED tables

\* "Always update latest state"; an uncountable transition stops here.
SetState(s) ==
    /\ \/ pc[s] = "setOnly" /\ Return(s)
       \/ pc[s] = "setCounted" /\ Goto(s, "append")
    /\ monitoringState' =
           WithState(event[s].entity, MapToIncidentStatus(event[s].status))
    /\ UNCHANGED <<monitoringEvents, incidents>>

\* 5: append the transition.  A second row with one id is refused by the
\* primary key, and the exception ends the execution.
Append(s) ==
    /\ pc[s] = "append"
    /\ \/ /\ Stored(event[s].id)
          /\ Return(s)
          /\ UNCHANGED monitoringEvents
       \/ /\ ~Stored(event[s].id)
          /\ monitoringEvents' =
                 WithRow(event[s].id, event[s].entity, event[s].age)
          /\ Goto(s, "evaluate")
    /\ UNCHANGED <<monitoringState, incidents>>

\* 6: count the transitions in the sliding window.  The second count, over an
\* hour, is only logged.
Evaluate(s) ==
    /\ pc[s] = "evaluate"
    /\ IF IsThresholdExceeded(event[s].entity)
       THEN Goto(s, "hasOpen")
       ELSE Return(s)
    /\ UNCHANGED tables

\* 7-8: no second incident for a bank that has one; then the lock.
HasOpen(s) ==
    /\ pc[s] = "hasOpen"
    /\ IF /\ CanCreateIncident(HasOpenIncident(event[s].entity))
          /\ AcquireIncidentLock
       THEN Goto(s, "create")
       ELSE Return(s)
    /\ UNCHANGED tables

\* 9: the upsert opens a row, or opens again the row that is there.
Create(s) ==
    /\ pc[s] = "create"
    /\ incidents' = WithOpen(event[s].entity)
    /\ Goto(s, "notify")
    /\ UNCHANGED <<monitoringState, monitoringEvents>>

\* 10: the incident is posted to Naura; its client swallows every error.
Notify(s) ==
    /\ pc[s] = "notify"
    /\ Return(s)
    /\ UNCHANGED tables

\* A database call fails: BifastConsumer, or execute itself, logs it and the
\* execution is over.  One that failed after it was committed is the action
\* above followed by this one.
Fail(s) ==
    /\ pc[s] # "idle"
    /\ Return(s)
    /\ UNCHANGED tables

Step(s) ==
    \/ GetState(s) \/ SetState(s) \/ Append(s) \/ Evaluate(s)
    \/ HasOpen(s) \/ Create(s) \/ Notify(s)

=============================================================================
