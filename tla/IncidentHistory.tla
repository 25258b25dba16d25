---------------------------- MODULE IncidentHistory ----------------------------
(***************************************************************************)
(* The life of an incident with what its observers saw of it: history      *)
(* variables, which no step reads, and the promises stated with them.      *)
(***************************************************************************)
EXTENDS IncidentLifecycle

VARIABLES
    lastEvent,  \* what the last message about each bank said
    closures,   \* closures counted since the bank's row last became OPEN
    posts       \* posts to Naura since the bank's incident was last opened

history == <<lastEvent, closures, posts>>
hvars == <<vars, history>>

Most == 2       \* closures and posts are told apart up to "more than one"
OneMore(n) == IF n = Most THEN n ELSE n + 1

HInit ==
    /\ Init
    /\ lastEvent = monitoringState
    /\ closures = [e \in Entities |-> 0]
    /\ posts = [e \in Entities |-> 0]

HArrive(s, i, e, status) ==
    /\ Arrive(s, i, e, status)
    /\ lastEvent' = [lastEvent EXCEPT ![e] = status]
    /\ UNCHANGED <<closures, posts>>

HSetState(s) ==
    /\ SetState(s)
    /\ closures' = [closures EXCEPT ![event[s].entity] =
                        IF event[s].status = "OPEN" THEN 0
                        ELSE IF pc[s] = "setCounted" THEN OneMore(@) ELSE @]
    /\ UNCHANGED <<resolveVars, lastEvent, posts>>

HCreate(s) ==
    /\ Create(s)
    /\ posts' = [posts EXCEPT ![event[s].entity] =
                     IF HasOpenIncident(event[s].entity) THEN @ ELSE 0]
    /\ UNCHANGED <<resolveVars, lastEvent, closures>>

HNotify(s) ==
    /\ Notify(s)
    /\ posts' = [posts EXCEPT ![event[s].entity] = OneMore(@)]
    /\ UNCHANGED <<resolveVars, lastEvent, closures>>

HOther(s) ==
    /\ GetState(s) \/ Append(s) \/ Evaluate(s) \/ HasOpen(s)
    /\ UNCHANGED <<resolveVars, history>>

HNext ==
    \/ \E s \in Slots, i \in EventIds, e \in Banks, status \in Statuses :
           HArrive(s, i, e, status)
    \/ \E s \in Slots : HSetState(s) \/ HCreate(s) \/ HNotify(s) \/ HOther(s)
    \/ /\ \/ \E r \in Runs : ResolveStarts(r) \/ ResolveProceeds(r)
          \/ CleanupRuns
          \/ Tick
       /\ UNCHANGED history

\* Without faults: the promises below say nothing of a service that lost a
\* database call or its memory.
HSpec == HInit /\ [][HNext]_hvars

-----------------------------------------------------------------------------

(***************************************************************************)
(* An incident is announced to Naura once: when nothing is in progress an  *)
(* open one has been posted, and none is ever posted twice                 *)
(* (ProcessMonitoringEvent.ts:150-167, 245-246).                           *)
(***************************************************************************)
AnnouncedAtMostOnce == \A e \in Entities : posts[e] <= 1

Announced ==
    /\ AnnouncedAtMostOnce
    /\ Quiet => \A e \in Entities : HasOpenIncident(e) => posts[e] = 1

(***************************************************************************)
(* "Ignore duplicate status (anti-spam) CLOSED -> CLOSED": a bank that     *)
(* closes once is counted once (ProcessMonitoringEvent.ts:68-77), when     *)
(* executions do not overlap.                                              *)
(***************************************************************************)
AntiSpam == \A e \in Entities : closures[e] <= 1

(***************************************************************************)
(* "Always update latest state": when nothing is in progress a bank's row  *)
(* says what the last message said (ProcessMonitoringEvent.ts:91-98), if   *)
(* executions did not overlap.                                             *)
(***************************************************************************)
StateIsLatest == Quiet => monitoringState = lastEvent

(***************************************************************************)
(* "Recovery signal: if the service is OPEN again and there is still an    *)
(* open incident, resolve it now" (ProcessMonitoringEvent.ts:136-148).     *)
(***************************************************************************)
RecoveredAtOnce ==
    Quiet => \A e \in Entities :
        lastEvent[e] = "OPEN" => ~HasOpenIncident(e)

\* The closures FlapDetector remembers: those in the table and, with the state
\* it has written, the one an execution is about to append.
Flap(i, e, age) == [id |-> i, entity |-> e, age |-> age]

StoredFlaps ==
    {Flap(i, monitoringEvents[i].entity, monitoringEvents[i].age) :
        i \in {j \in EventIds : Stored(j)}}

Noticed == {s \in Slots : pc[s] = "append" /\ ~Stored(event[s].id)}

Flaps ==
    StoredFlaps
    \cup {Flap(event[s].id, event[s].entity, event[s].age) : s \in Noticed}

Detector == INSTANCE FlapDetector WITH
    status <- monitoringState,
    flaps <- Flaps,
    open <- ListOpenIncidents

(***************************************************************************)
(* The pipeline implements FlapDetector: seen through its tables it does   *)
(* nothing a detector without awaits, jobs or duplicates would not do      *)
(* (ProcessMonitoringEvent.ts:50-167, ResolveIncident.ts:12-21).           *)
(***************************************************************************)
DetectorSpec == Detector!Spec

=============================================================================
