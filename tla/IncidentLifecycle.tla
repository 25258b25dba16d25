-------------------------- MODULE IncidentLifecycle --------------------------
(***************************************************************************)
(* The life of a bank's incident: messages are executed, the resolve job   *)
(* and the cleanup job run on their intervals, the process may restart,    *)
(* and all of them meet in the tables.                                     *)
(***************************************************************************)
EXTENDS ProcessMonitoringEvent, ResolveIncident

CONSTANTS
    Overlap,    \* TRUE: as the code is; FALSE: an execution or a run of a job
                \* ends before the next begins, which the code does not ensure
    Faults      \* TRUE: database calls fail and the process restarts

ASSUME ModesAssumption == Overlap \in BOOLEAN /\ Faults \in BOOLEAN

vars == <<tables, processVars, resolveVars>>

TypeOK == TablesTypeOK /\ ProcessTypeOK /\ ResolveTypeOK

Quiet == /\ \A s \in Slots : pc[s] = "idle"
         /\ \A r \in Runs : Idle(r)

MayStart == Overlap \/ Quiet

(***************************************************************************)
(* main.ts, bootstrap: `steps' of its four statements succeed.  A failure  *)
(* is logged and the service starts all the same, on what it finds.        *)
(***************************************************************************)
Init ==
    /\ monitoringState = SeededState \/ (Faults /\ monitoringState = NoStates)
    /\ monitoringEvents = NoEvents
    /\ incidents = NoIncidents
    /\ ProcessInit
    /\ ResolveInit

Restart(steps) ==
    /\ Faults
    /\ incidents' = IF steps >= 1 THEN NoIncidents ELSE incidents
    /\ monitoringState' = CASE steps = 4 -> SeededState
                            [] steps \in {2, 3} -> NoStates
                            [] OTHER -> monitoringState
    /\ monitoringEvents' = IF steps >= 3 THEN NoEvents ELSE monitoringEvents
    /\ pc' = [s \in Slots |-> "idle"]
    /\ event' = [s \in Slots |-> NoEvent]
    /\ pending' = [r \in Runs |-> {}]
    /\ saving' = [r \in Runs |-> NoEntity]

-----------------------------------------------------------------------------

\* A message id names one message, and a message is about one bank.
SameMessage(i, e) ==
    /\ Stored(i) => monitoringEvents[i].entity = e
    /\ \A s \in Slots :
           event[s] # NoEvent /\ event[s].id = i => event[s].entity = e

\* BifastMessageHandler.handle or the recovery job calls execute.  The same
\* message may come twice: it is posted in four groups, and is redelivered.
Arrive(s, i, e, status) ==
    /\ MayStart
    /\ SameMessage(i, e)
    /\ Execute(s, i, e, status)
    /\ UNCHANGED resolveVars

Proceed(s) == Step(s) /\ UNCHANGED resolveVars

ExecutionFails(s) == Faults /\ Fail(s) /\ UNCHANGED resolveVars

ResolveStarts(r) == MayStart /\ ResolveList(r) /\ UNCHANGED processVars

ResolveProceeds(r) == ResolveStep(r) /\ UNCHANGED processVars

ResolveFails(r) == Faults /\ ResolveFail(r) /\ UNCHANGED processVars

CleanupRuns == MayStart /\ Cleanup /\ UNCHANGED processVars

\* A unit of time passes, for the stored rows and the events in flight.  The
\* code does not hold the clock: with Overlap = FALSE it stands still inside an
\* execution or a run, which takes milliseconds where the periods are minutes.
Tick ==
    /\ MayStart
    /\ monitoringEvents' = AgedEvents
    /\ event' = [s \in Slots |-> IF event[s] = NoEvent THEN NoEvent
                                 ELSE [event[s] EXCEPT !.age = Older(@)]]
    /\ UNCHANGED <<monitoringState, incidents, pc, resolveVars>>

Next ==
    \/ \E s \in Slots, i \in EventIds, e \in Banks, status \in Statuses :
           Arrive(s, i, e, status)
    \/ \E s \in Slots : Proceed(s) \/ ExecutionFails(s)
    \/ \E r \in Runs : ResolveStarts(r) \/ ResolveProceeds(r) \/ ResolveFails(r)
    \/ CleanupRuns
    \/ Tick
    \/ \E steps \in 0 .. 4 : Restart(steps)

Spec == Init /\ [][Next]_vars

(***************************************************************************)
(* Fairness.  A promise the event loop was given is settled and its        *)
(* continuation runs; setInterval starts the resolve job for ever; time    *)
(* passes.  Messages, the cleanup and faults owe nothing.                  *)
(***************************************************************************)
Fairness ==
    /\ \A s \in Slots : WF_vars(Proceed(s))
    /\ \A r \in Runs : WF_vars(ResolveStarts(r)) /\ WF_vars(ResolveProceeds(r))
    /\ WF_vars(Tick)

FairSpec == Spec /\ Fairness

-----------------------------------------------------------------------------

(***************************************************************************)
(* A closure that an execution has counted is in the table, under its own  *)
(* id and with its own time, for as long as anything looks for it: what    *)
(* another execution, the cleanup or the primary key does in between the   *)
(* awaits of execute (ProcessMonitoringEvent.ts:110-118) never takes it.   *)
(***************************************************************************)
CountedEventStored ==
    \A s \in Slots : pc[s] \in Counted =>
        \/ event[s].age > Retention
        \/ monitoringEvents[event[s].id] =
               [entity |-> event[s].entity, age |-> event[s].age]

(***************************************************************************)
(* An incident the resolve job has on its list still has its row when the  *)
(* job comes to save it, so the update by id (IncidentPrismaRepository.ts: *)
(* 64) does not throw and drop the rest of the list, though runs overlap.  *)
(***************************************************************************)
ResolveTargetsExist ==
    \A r \in Runs : /\ \A e \in pending[r] : incidents[e] # "none"
                    /\ saving[r] # NoEntity => incidents[saving[r]] # "none"

(***************************************************************************)
(* Until time passes or the service restarts, the closures the resolve job *)
(* counts only grow in number: no cleanup, append or failure takes one     *)
(* away (EventStorePrisma.ts:12-34).                                       *)
(***************************************************************************)
NoCountableEventLost ==
    [][\/ Tick
       \/ \E steps \in 0 .. 4 : Restart(steps)
       \/ \A e \in Entities :
              RecentIds(e, StableOpen) \subseteq RecentIds(e, StableOpen)']_vars

(***************************************************************************)
(* The resolve job never decides to resolve the incident of a bank while   *)
(* an execution is on its way to raise it on a closure of the last         *)
(* STABLE_OPEN_MS: it has counted that closure (ResolveIncident.ts:15-16). *)
(* What it decided earlier it may still save.                              *)
(***************************************************************************)
NoResolveDecisionDuringRaise ==
    [][\A r \in Runs, s \in Slots :
          (/\ saving[r] = NoEntity
           /\ saving'[r] # NoEntity
           /\ pc[s] \in Counted
           /\ event[s].age <= StableOpen)
          => event[s].entity # saving'[r]]_vars

(***************************************************************************)
(* An incident of a bank that is no longer heard of does not stay open:    *)
(* its closures age out of the count and a run of the resolve job gets to  *)
(* it (IncidentResolveJob.ts:4-12), whatever the other banks do.           *)
(***************************************************************************)
Heard(e) == \E s \in Slots : event[s] # NoEvent /\ event[s].entity = e

QuietIncidentsResolve ==
    \A e \in Entities : <>[](~Heard(e)) => <>[](incidents[e] # "OPEN")

=============================================================================
