------------------------ MODULE IncidentHistoryProofs ------------------------
(***************************************************************************)
(* Theorems about IncidentHistory, for any banks, messages, slots, runs    *)
(* and periods: what the pipeline promises as long as an execution or a    *)
(* run of a job ends before the next begins (Overlap = FALSE), which is    *)
(* how its comments read.  That the code does not wait is what the runs    *)
(* which expect a violation are about.                                     *)
(***************************************************************************)
EXTENDS IncidentHistory, IncidentLifecycleProofs, FunctionTheorems

-----------------------------------------------------------------------------
\* The inductive invariant, one named part for each thing the code relies on.

Busy(s) == pc[s] # "idle"

HistoryTypeOK ==
    /\ lastEvent \in [Entities -> Statuses \cup {"none"}]
    /\ closures \in [Entities -> 0 .. 1]
    /\ posts \in [Entities -> 0 .. 1]

\* At most one execution, or one run of the resolve job, is in progress.
OneAtATime ==
    /\ \A s, t \in Slots : Busy(s) /\ Busy(t) => s = t
    /\ \A q, r \in Runs : Idle(q) \/ Idle(r) \/ q = r
    /\ \A s \in Slots, r \in Runs : Busy(s) => Idle(r)

\* Where the message in hand has yet to reach the bank's row.
Unwritten == {"get", "setOnly", "setCounted"}

\* What an execution decided on is still so when it comes to act on it.
UpToDate(s, e) ==
    /\ event[s].age = 0
    /\ pc[s] \in Unwritten => lastEvent[e] = event[s].status
    /\ pc[s] = "setOnly" =>
           ~IsCountableTransition(monitoringState[e], event[s].status)
    /\ pc[s] = "setCounted" =>
           IsCountableTransition(monitoringState[e], event[s].status)
    /\ pc[s] \in Unwritten \ {"get"} => monitoringState[e] # event[s].status
    /\ pc[s] \in {"append"} \cup Counted => monitoringState[e] = "CLOSED"
    /\ pc[s] \in {"hasOpen", "create"} => IsThresholdExceeded(e)
    /\ pc[s] = "create" => ~HasOpenIncident(e)
    /\ pc[s] = "notify" => HasOpenIncident(e) /\ posts[e] = 0

ExecutionUpToDate == \A s \in Slots : Busy(s) => UpToDate(s, event[s].entity)

\* The same of a run of the resolve job.
DecisionUpToDate ==
    \A r \in Runs :
        /\ \A e \in pending[r] : HasOpenIncident(e)
        /\ saving[r] # NoEntity =>
               /\ HasOpenIncident(saving[r])
               /\ saving[r] \notin pending[r]
               /\ RecentIds(saving[r], StableOpen) = {}

\* What the observers saw, against the tables.
StateFollows ==
    \A e \in Entities :
        \/ lastEvent[e] = monitoringState[e]
        \/ \E s \in Slots : pc[s] \in Unwritten /\ event[s].entity = e

ClosuresFollow ==
    \A e \in Entities : monitoringState[e] = "OPEN" => closures[e] = 0

PostsFollow ==
    \A e \in Entities : HasOpenIncident(e) =>
        \/ posts[e] = 1
        \/ \E s \in Slots : pc[s] = "notify" /\ event[s].entity = e

HInv ==
    /\ TypeOK
    /\ HistoryTypeOK
    /\ OneAtATime
    /\ ExecutionUpToDate
    /\ DecisionUpToDate
    /\ StateFollows
    /\ ClosuresFollow
    /\ PostsFollow

-----------------------------------------------------------------------------
\* The observers only watch.

LEMMA HistoryStepIsStep == HNext => Next
BY DEF HNext, Next, HArrive, HSetState, HCreate, HNotify, HOther, Proceed, Step

(***************************************************************************)
(* The history variables only watch: with them the service does nothing    *)
(* it would not do without, so what is proved of Spec holds of HSpec.      *)
(***************************************************************************)
THEOREM HistoryOnlyWatches == HSpec => Spec
<1>1. HInit => Init
  BY DEF HInit
<1>2. [HNext]_hvars => [Next]_vars
  BY HistoryStepIsStep DEF hvars
<1>. QED  BY <1>1, <1>2, PTL DEF HSpec, Spec

LEMMA HInitInv == HInit => HInv
<1>. SUFFICES ASSUME HInit
              PROVE  HInv
  OBVIOUS
<1>1. TypeOK
  BY InitType DEF HInit
<1>2. HistoryTypeOK
  BY <1>1 DEF HInit, HistoryTypeOK, TypeOK, TablesTypeOK
<1>3. OneAtATime /\ ExecutionUpToDate /\ DecisionUpToDate
  BY DEF HInit, Init, ProcessInit, ResolveInit, OneAtATime, Busy, Idle,
         ExecutionUpToDate, DecisionUpToDate
<1>4. StateFollows /\ ClosuresFollow /\ PostsFollow
  BY DEF HInit, Init, NoIncidents, StateFollows, ClosuresFollow, PostsFollow,
         HasOpenIncident
<1>. QED  BY <1>1, <1>2, <1>3, <1>4 DEF HInv

-----------------------------------------------------------------------------
\* Steps of an execution, which is alone.

LEMMA Alone ==
    ASSUME OneAtATime, NEW s \in Slots, Busy(s)
    PROVE  /\ \A t \in Slots : t # s => pc[t] = "idle"
           /\ \A r \in Runs : pending[r] = {} /\ saving[r] = NoEntity
BY DEF OneAtATime, Busy, Idle

\* Nothing a lone execution does puts a run of the jobs or another execution
\* out of date: there is none.
LEMMA AloneStep ==
    ASSUME TypeOK, OneAtATime, NEW s \in Slots, Busy(s), UNCHANGED resolveVars,
           Return(s) \/ \E l \in Locations : Goto(s, l)
    PROVE  /\ OneAtATime' /\ DecisionUpToDate'
           /\ \A t \in Slots : t # s => ~Busy(t)'
<1>1. \A t \in Slots : t # s => pc'[t] = "idle"
  BY Alone DEF Return, Goto, TypeOK, ProcessTypeOK
<1>2. \A r \in Runs : pending'[r] = {} /\ saving'[r] = NoEntity
  BY Alone DEF resolveVars
<1>. QED  BY <1>1, <1>2 DEF OneAtATime, Busy, Idle, DecisionUpToDate

\* After a return nobody is busy.
LEMMA ReturnInv ==
    ASSUME HInv, NEW s \in Slots, Busy(s), Return(s), UNCHANGED resolveVars
    PROVE  /\ ExecutionUpToDate'
           /\ \A t \in Slots : ~Busy(t)'
BY Alone DEF Return, ExecutionUpToDate, Busy, HInv, TypeOK, ProcessTypeOK

\* After another move only s is, with the event it had.
LEMMA GotoInv ==
    ASSUME HInv, NEW s \in Slots, Busy(s), NEW l \in Locations \ {"idle"}, Goto(s, l),
           UNCHANGED resolveVars
    PROVE  /\ event' = event /\ pc'[s] = l
           /\ UpToDate(s, event[s].entity)' => ExecutionUpToDate'
           /\ \A t \in Slots : t # s => ~Busy(t)'
           /\ \A t \in Slots : t # s => ~Busy(t)
BY Alone DEF Goto, ExecutionUpToDate, Busy, HInv, TypeOK, ProcessTypeOK

\* What the observers have, seen from an execution in progress or from none.
LEMMA ObserversOfOne ==
    ASSUME HInv, NEW s \in Slots, \A t \in Slots : t # s => ~Busy(t)
    PROVE  /\ \A e \in Entities : pc[s] \notin Unwritten \/ event[s].entity # e =>
                  lastEvent[e] = monitoringState[e]
           /\ \A e \in Entities : pc[s] # "notify" \/ event[s].entity # e =>
                  (HasOpenIncident(e) => posts[e] = 1)
BY DEF HInv, StateFollows, PostsFollow, Busy, Unwritten

LEMMA GetStateInv ==
    ASSUME HInv, NEW s \in Slots, GetState(s), UNCHANGED <<resolveVars, history>>
    PROVE  HInv'
<1>. DEFINE e == event[s].entity
<1>1. Busy(s) /\ pc[s] = "get" /\ UpToDate(s, e)
  BY DEF GetState, Busy, HInv, ExecutionUpToDate
<1>2. event[s] \in Events /\ e \in Entities
  BY <1>1, BusyEvent DEF Busy, HInv, TypeOK
<1>3. TypeOK'
  BY ProceedType DEF HInv, Proceed, Step
<1>4. HistoryTypeOK' /\ ClosuresFollow'
  BY DEF HInv, history, HistoryTypeOK, GetState, tables, ClosuresFollow
<1>5. OneAtATime' /\ DecisionUpToDate'
  BY <1>1, AloneStep DEF HInv, GetState, Locations
<1>6. \A t \in Slots : t # s => ~Busy(t)
  BY <1>1, Alone DEF HInv, Busy
<1>7. PostsFollow'
  BY <1>1, <1>6, ObserversOfOne
     DEF GetState, tables, history, PostsFollow, HasOpenIncident
<1>8. CASE Return(s)
  <2>1. lastEvent[e] = monitoringState[e]
    BY <1>1, <1>8
       DEF GetState, StateOf, Return, Goto, UpToDate, Unwritten, HInv, TypeOK, ProcessTypeOK
  <2>2. StateFollows'
    BY <1>6, <2>1, ObserversOfOne DEF GetState, tables, history, StateFollows
  <2>. QED  BY <1>1, <1>3, <1>4, <1>5, <1>7, <1>8, <2>2, ReturnInv DEF HInv
<1>9. ASSUME NEW l \in {"setOnly", "setCounted"}, Goto(s, l),
             e = event[s].entity, monitoringState[e] # event[s].status,
             IsCountableTransition(monitoringState[e], event[s].status)
                 <=> l = "setCounted"
      PROVE  HInv'
  <2>1. event' = event /\ pc'[s] = l
    BY <1>1, <1>9, GotoInv DEF Locations
  <2>2. UpToDate(s, event[s].entity)'
    BY <1>1, <1>9, <2>1
       DEF UpToDate, GetState, tables, history, Unwritten, Counted,
           IsCountableTransition
  <2>3. ExecutionUpToDate'
    BY <1>1, <1>9, <2>2, GotoInv DEF Locations
  <2>4. StateFollows'
    BY <1>6, <1>9, <2>1, ObserversOfOne
       DEF GetState, tables, history, StateFollows, Unwritten
  <2>. QED  BY <1>3, <1>4, <1>5, <1>7, <2>3, <2>4 DEF HInv
<1>. QED  BY <1>1, <1>8, <1>9 DEF GetState, StateOf, IsCountableTransition

LEMMA SetStateInv ==
    ASSUME HInv, NEW s \in Slots, HSetState(s)
    PROVE  HInv'
<1>. DEFINE e == event[s].entity
<1>1. Busy(s) /\ pc[s] \in {"setOnly", "setCounted"} /\ UpToDate(s, e)
  BY DEF HSetState, SetState, Busy, HInv, ExecutionUpToDate
<1>2. event[s] \in Events /\ e \in Entities /\ event[s].status \in Statuses
  BY <1>1, BusyEvent DEF Busy, HInv, TypeOK, Events
<1>3. TypeOK'
  BY ProceedType DEF HInv, HSetState, Proceed, Step
<1>4. monitoringState' = [monitoringState EXCEPT ![e] = event[s].status]
  BY <1>2 DEF HSetState, SetState, WithState, MapToIncidentStatus, Statuses
<1>5. HistoryTypeOK' /\ ClosuresFollow'
  <2>1. pc[s] = "setCounted" => closures[e] = 0
    BY <1>1, <1>2 DEF UpToDate, IsCountableTransition, HInv, ClosuresFollow
  <2>2. closures[e] \in 0 .. 1
    BY <1>2 DEF HInv, HistoryTypeOK
  <2>. DEFINE n == IF event[s].status = "OPEN" THEN 0
                   ELSE IF pc[s] = "setCounted" THEN 1 ELSE closures[e]
  <2>3. /\ closures' = [closures EXCEPT ![e] = n]
        /\ n \in 0 .. 1
        /\ event[s].status = "OPEN" => n = 0
    <3>1. CASE event[s].status = "OPEN"
      BY <3>1 DEF HSetState
    <3>2. CASE event[s].status # "OPEN" /\ pc[s] = "setCounted"
      <4>1. OneMore(closures[e]) = 1
        BY <2>1, <3>2 DEF OneMore, Most
      <4>. QED  BY <3>2, <4>1 DEF HSetState
    <3>3. CASE event[s].status # "OPEN" /\ pc[s] # "setCounted"
      BY <2>2, <3>3 DEF HSetState
    <3>. QED  BY <3>1, <3>2, <3>3
  <2>. HIDE DEF n
  <2>4. HistoryTypeOK'
    BY <1>2, <2>3 DEF HInv, HistoryTypeOK, HSetState
  <2>5. ClosuresFollow'
    BY <1>2, <1>4, <2>3
       DEF HInv, ClosuresFollow, HistoryTypeOK, TypeOK, TablesTypeOK
  <2>. QED  BY <2>4, <2>5
<1>6. OneAtATime' /\ DecisionUpToDate'
  BY <1>1, AloneStep DEF HInv, HSetState, SetState, Locations
<1>7. \A t \in Slots : t # s => ~Busy(t)
  BY <1>1, Alone DEF HInv, Busy
<1>8. PostsFollow'
  BY <1>1, <1>7, ObserversOfOne DEF HSetState, SetState, PostsFollow, HasOpenIncident
<1>9. StateFollows'
  BY <1>1, <1>2, <1>4, <1>7, ObserversOfOne
     DEF HSetState, UpToDate, Unwritten, StateFollows, HInv, TypeOK, TablesTypeOK
<1>10. ExecutionUpToDate'
  <2>1. CASE Return(s)
    BY <1>1, <2>1, ReturnInv DEF HSetState
  <2>2. CASE pc[s] = "setCounted" /\ Goto(s, "append")
    <3>1. event' = event /\ pc'[s] = "append"
      BY <1>1, <2>2, GotoInv DEF HSetState, Locations
    <3>2. UpToDate(s, event[s].entity)'
      BY <1>1, <1>2, <1>4, <2>2, <3>1
         DEF UpToDate, IsCountableTransition, Unwritten, Counted, HInv, TypeOK,
             TablesTypeOK
    <3>. QED  BY <1>1, <2>2, <3>2, GotoInv DEF HSetState, Locations
  <2>. QED  BY <2>1, <2>2 DEF HSetState, SetState
<1>. QED  BY <1>3, <1>5, <1>6, <1>8, <1>9, <1>10 DEF HInv

\* The three awaits between the append and the incident only read the state of
\* the bank and look at its closures and its incident.
LEMMA ReaderInv ==
    ASSUME HInv, NEW s \in Slots, Append(s) \/ Evaluate(s) \/ HasOpen(s),
           UNCHANGED <<resolveVars, history>>
    PROVE  HInv'
<1>. DEFINE e == event[s].entity
<1>1. /\ Busy(s) /\ UpToDate(s, e)
      /\ pc[s] \in {"append", "evaluate", "hasOpen"}
  BY DEF Append, Evaluate, HasOpen, Busy, HInv, ExecutionUpToDate
<1>2. /\ Return(s) \/ \E l \in {"evaluate", "hasOpen", "create"} : Goto(s, l)
      /\ UNCHANGED <<monitoringState, incidents>>
  BY DEF Append, Evaluate, HasOpen, tables
<1>3. TypeOK'
  BY ProceedType DEF HInv, Proceed, Step
<1>4. HistoryTypeOK' /\ ClosuresFollow'
  BY <1>2 DEF HInv, history, HistoryTypeOK, ClosuresFollow
<1>5. OneAtATime' /\ DecisionUpToDate'
  BY <1>1, <1>2, AloneStep DEF HInv, Locations, Counted
<1>6. \A t \in Slots : t # s => ~Busy(t)
  BY <1>1, Alone DEF HInv, Busy
<1>7. PostsFollow' /\ StateFollows'
  BY <1>1, <1>2, <1>6, ObserversOfOne
     DEF history, PostsFollow, StateFollows, HasOpenIncident, Unwritten
<1>8. ExecutionUpToDate'
  <2>1. CASE Return(s)
    BY <1>1, <2>1, ReturnInv
  <2>2. ASSUME NEW l \in {"evaluate", "hasOpen", "create"}, Goto(s, l), ~Return(s)
        PROVE  ExecutionUpToDate'
    <3>1. event' = event /\ pc'[s] = l
      BY <1>1, <2>2, GotoInv DEF Locations, Counted
    <3>2. l \in {"hasOpen", "create"} => IsThresholdExceeded(e)'
      BY <1>1, <2>2, <3>1
         DEF Append, Evaluate, HasOpen, UpToDate, tables, IsThresholdExceeded,
             CountInWindow, RecentIds, Goto, HInv, TypeOK, ProcessTypeOK
    <3>3. l = "create" => ~HasOpenIncident(e)
      BY <1>1, <2>2, <3>1
         DEF Append, Evaluate, HasOpen, CanCreateIncident, Goto, HInv, TypeOK,
             ProcessTypeOK
    <3>4. UpToDate(s, event[s].entity)'
      BY <1>1, <1>2, <2>2, <3>1, <3>2, <3>3
         DEF UpToDate, Unwritten, Counted, HasOpenIncident
    <3>. QED  BY <1>1, <2>2, <3>4, GotoInv DEF Locations, Counted
  <2>. QED  BY <1>2, <2>1, <2>2
<1>. QED  BY <1>3, <1>4, <1>5, <1>7, <1>8 DEF HInv

LEMMA CreateInv ==
    ASSUME HInv, NEW s \in Slots, HCreate(s)
    PROVE  HInv'
<1>. DEFINE e == event[s].entity
<1>1. Busy(s) /\ pc[s] = "create" /\ UpToDate(s, e)
  BY DEF HCreate, Create, Busy, HInv, ExecutionUpToDate
<1>2. event[s] \in Events /\ e \in Entities
  BY <1>1, BusyEvent DEF Busy, HInv, TypeOK
<1>3. TypeOK'
  BY ProceedType DEF HInv, HCreate, Proceed, Step
<1>4. /\ incidents' = [incidents EXCEPT ![e] = "OPEN"]
      /\ posts' = [posts EXCEPT ![e] = 0]
      /\ Goto(s, "notify")
  BY <1>1 DEF HCreate, Create, WithOpen, UpToDate
<1>5. HistoryTypeOK' /\ ClosuresFollow'
  BY <1>2, <1>4 DEF HInv, HistoryTypeOK, ClosuresFollow, HCreate, Create
<1>6. OneAtATime' /\ DecisionUpToDate'
  BY <1>1, <1>4, AloneStep DEF HInv, HCreate, Locations, Counted
<1>7. \A t \in Slots : t # s => ~Busy(t)
  BY <1>1, Alone DEF HInv, Busy
<1>8. event' = event /\ pc'[s] = "notify"
  BY <1>1, <1>4, GotoInv DEF HCreate, Locations, Counted
<1>9. StateFollows'
  BY <1>1, <1>7, ObserversOfOne DEF HCreate, Create, StateFollows, Unwritten
<1>10. PostsFollow'
  <2>1. \A x \in Entities : x # e => incidents'[x] = incidents[x] /\ posts'[x] = posts[x]
    BY <1>4 DEF HInv, TypeOK, TablesTypeOK, HistoryTypeOK
  <2>. QED  BY <1>1, <1>7, <1>8, <2>1, ObserversOfOne DEF PostsFollow, HasOpenIncident
<1>11. UpToDate(s, event[s].entity)'
  BY <1>1, <1>2, <1>4, <1>8
     DEF UpToDate, Unwritten, Counted, HasOpenIncident, HCreate, Create, HInv,
         TypeOK, TablesTypeOK, HistoryTypeOK
<1>12. ExecutionUpToDate'
  BY <1>1, <1>4, <1>11, GotoInv DEF HCreate, Locations, Counted
<1>. QED  BY <1>3, <1>5, <1>6, <1>9, <1>10, <1>12 DEF HInv

LEMMA NotifyInv ==
    ASSUME HInv, NEW s \in Slots, HNotify(s)
    PROVE  HInv'
<1>. DEFINE e == event[s].entity
<1>1. Busy(s) /\ pc[s] = "notify" /\ UpToDate(s, e) /\ Return(s)
  BY DEF HNotify, Notify, Busy, HInv, ExecutionUpToDate
<1>2. e \in Entities
  BY <1>1, BusyEvent DEF Busy, HInv, TypeOK
<1>3. TypeOK'
  BY ProceedType DEF HInv, HNotify, Proceed, Step
<1>4. posts' = [posts EXCEPT ![e] = 1]
  <2>1. posts[e] = 0
    BY <1>1 DEF UpToDate
  <2>. QED  BY <2>1 DEF HNotify, OneMore, Most
<1>5. HistoryTypeOK' /\ ClosuresFollow'
  BY <1>2, <1>4 DEF HInv, HistoryTypeOK, ClosuresFollow, HNotify, Notify, tables
<1>6. OneAtATime' /\ DecisionUpToDate'
  BY <1>1, AloneStep DEF HInv, HNotify
<1>7. \A t \in Slots : t # s => ~Busy(t)
  BY <1>1, Alone DEF HInv, Busy
<1>8. StateFollows'
  BY <1>1, <1>7, ObserversOfOne
     DEF HNotify, Notify, tables, StateFollows, Unwritten
<1>9. PostsFollow'
  BY <1>2, <1>4, <1>7, ObserversOfOne
     DEF HNotify, Notify, tables, PostsFollow, HasOpenIncident, HInv, HistoryTypeOK
<1>10. ExecutionUpToDate'
  BY <1>1, ReturnInv DEF HNotify
<1>. QED  BY <1>3, <1>5, <1>6, <1>8, <1>9, <1>10 DEF HInv

-----------------------------------------------------------------------------
\* Steps that begin, when all is quiet, and steps of a run, which is alone.

LEMMA ArriveInv ==
    ASSUME ~Overlap, HInv, NEW s \in Slots, NEW i \in EventIds, NEW e \in Banks,
           NEW status \in Statuses, HArrive(s, i, e, status)
    PROVE  HInv'
<1>1. Quiet /\ e \in Entities
  BY BanksAssumption DEF HArrive, Arrive, MayStart
<1>2. TypeOK'
  BY NextType DEF HInv, HArrive, Next
<1>3. /\ pc' = [pc EXCEPT ![s] = "get"]
      /\ event'[s] = [id |-> i, entity |-> e, status |-> status, age |-> 0]
      /\ UNCHANGED <<tables, resolveVars, closures, posts>>
      /\ lastEvent' = [lastEvent EXCEPT ![e] = status]
  BY DEF HArrive, Arrive, Execute, HInv, TypeOK, ProcessTypeOK
<1>4. /\ pc'[s] = "get"
      /\ \A t \in Slots : t # s => pc'[t] = "idle"
  BY <1>1, <1>3 DEF Quiet, HInv, TypeOK, ProcessTypeOK
<1>5. \A r \in Runs : pending'[r] = {} /\ saving'[r] = NoEntity
  BY <1>1, <1>3 DEF Quiet, Idle, resolveVars
<1>6. OneAtATime' /\ DecisionUpToDate'
  BY <1>4, <1>5 DEF OneAtATime, Busy, Idle, DecisionUpToDate
<1>7. HistoryTypeOK' /\ ClosuresFollow'
  BY <1>3 DEF HInv, HistoryTypeOK, ClosuresFollow, tables
<1>8. StateFollows' /\ PostsFollow'
  BY <1>1, <1>3, <1>4
     DEF HInv, HistoryTypeOK, StateFollows, PostsFollow, Quiet, tables, Unwritten,
         HasOpenIncident
<1>9. ExecutionUpToDate'
  BY <1>1, <1>3, <1>4
     DEF ExecutionUpToDate, UpToDate, Busy, Unwritten, Counted, HInv, HistoryTypeOK
<1>. QED  BY <1>2, <1>6, <1>7, <1>8, <1>9 DEF HInv

\* When no execution is in progress the observers are up with the tables.
LEMMA ObserversOfNone ==
    ASSUME HInv, \A s \in Slots : ~Busy(s)
    PROVE  /\ \A e \in Entities : lastEvent[e] = monitoringState[e]
           /\ \A e \in Entities : HasOpenIncident(e) => posts[e] = 1
BY DEF HInv, StateFollows, PostsFollow, Busy, Unwritten

\* A step of the jobs leaves the executions, none of which is in progress, and
\* the observers as they are; an incident it touches it resolves.
LEMMA JobStepInv ==
    ASSUME HInv, \A s \in Slots : ~Busy(s), TypeOK', UNCHANGED <<pc, history>>,
           UNCHANGED monitoringState,
           \A e \in Entities : HasOpenIncident(e)' => HasOpenIncident(e)
    PROVE  /\ HistoryTypeOK' /\ ExecutionUpToDate' /\ StateFollows'
           /\ ClosuresFollow' /\ PostsFollow'
<1>1. HistoryTypeOK' /\ ClosuresFollow'
  BY DEF HInv, history, HistoryTypeOK, ClosuresFollow
<1>2. \A s \in Slots : ~Busy(s)'
  BY DEF Busy
<1>3. ExecutionUpToDate'
  BY <1>2 DEF ExecutionUpToDate
<1>4. StateFollows' /\ PostsFollow'
  BY ObserversOfNone DEF history, StateFollows, PostsFollow
<1>. QED  BY <1>1, <1>3, <1>4

LEMMA ResolveListInv ==
    ASSUME ~Overlap, HInv, NEW r \in Runs, ResolveStarts(r), UNCHANGED history
    PROVE  HInv'
<1>1. Quiet
  BY DEF ResolveStarts, MayStart
<1>2. TypeOK'
  BY NextType DEF HInv, Next
<1>3. /\ pending' = [pending EXCEPT ![r] = ListOpenIncidents]
      /\ UNCHANGED <<tables, pc, saving>>
  BY DEF ResolveStarts, ResolveList, processVars
<1>4. OneAtATime'
  BY <1>1, <1>3 DEF Quiet, OneAtATime, Busy, Idle, HInv, TypeOK, ResolveTypeOK
<1>5. DecisionUpToDate'
  BY <1>1, <1>3
     DEF Quiet, Idle, DecisionUpToDate, ListOpenIncidents, HasOpenIncident, tables,
         HInv, TypeOK, ResolveTypeOK
<1>6. /\ \A s \in Slots : ~Busy(s)
      /\ UNCHANGED <<pc, monitoringState, incidents>>
  BY <1>1, <1>3 DEF Quiet, Busy, tables
<1>. QED  BY <1>2, <1>4, <1>5, <1>6, JobStepInv DEF HInv, HasOpenIncident

\* A run that has something to do is alone.
LEMMA RunAlone ==
    ASSUME HInv, NEW r \in Runs, ~Idle(r)
    PROVE  /\ \A s \in Slots : ~Busy(s)
           /\ \A q \in Runs : q # r => pending[q] = {} /\ saving[q] = NoEntity
BY DEF HInv, OneAtATime, Idle

LEMMA ResolveStepInv ==
    ASSUME HInv, NEW r \in Runs, ResolveProceeds(r), UNCHANGED history
    PROVE  HInv'
<1>1. ~Idle(r)
  BY DEF ResolveProceeds, ResolveStep, ResolveSave, ResolveCount, Idle
<1>2. TypeOK'
  BY NextType DEF HInv, Next
<1>3. /\ \A q \in Runs : q # r => pending'[q] = {} /\ saving'[q] = NoEntity
      /\ UNCHANGED <<processVars, monitoringState, monitoringEvents>>
  BY <1>1, RunAlone
     DEF ResolveProceeds, ResolveStep, ResolveSave, ResolveCount, tables, HInv,
         TypeOK, ResolveTypeOK
<1>4. OneAtATime'
  BY <1>1, <1>3, RunAlone DEF OneAtATime, Busy, Idle, processVars
<1>5. ASSUME NEW e \in Entities, ResolveCount(r, e)
      PROVE  /\ DecisionUpToDate'
             /\ \A x \in Entities : HasOpenIncident(x)' => HasOpenIncident(x)
  <2>1. /\ HasOpenIncident(e)
        /\ \A x \in pending[r] : HasOpenIncident(x)
        /\ pending'[r] = pending[r] \ {e}
        /\ UNCHANGED tables
    BY <1>5 DEF ResolveCount, HInv, DecisionUpToDate, TypeOK, ResolveTypeOK
  <2>2. \/ saving'[r] = NoEntity
        \/ saving'[r] = e /\ CountInWindow(e, StableOpen) = 0
    BY <1>5 DEF ResolveCount, HInv, TypeOK, ResolveTypeOK
  <2>3. saving'[r] # NoEntity => saving'[r] = e /\ RecentIds(e, StableOpen) = {}
    BY <2>2, NothingCounted
  <2>. QED  BY <1>3, <2>1, <2>3
            DEF DecisionUpToDate, HasOpenIncident, RecentIds, tables
<1>6. ASSUME ResolveSave(r)
      PROVE  /\ DecisionUpToDate'
             /\ \A x \in Entities : HasOpenIncident(x)' => HasOpenIncident(x)
  <2>1. /\ incidents' = [incidents EXCEPT ![saving[r]] = "RESOLVED"]
        /\ pending' = pending
        /\ saving'[r] = NoEntity
        /\ saving[r] \notin pending[r]
    BY <1>6 DEF ResolveSave, WithResolved, HInv, DecisionUpToDate, TypeOK, ResolveTypeOK
  <2>2. \A x \in Entities : x # saving[r] => incidents'[x] = incidents[x]
    BY <2>1 DEF HInv, TypeOK, TablesTypeOK
  <2>3. \A x \in Entities : HasOpenIncident(x)' => HasOpenIncident(x)
    BY <2>1, <2>2 DEF HasOpenIncident, HInv, TypeOK, TablesTypeOK
  <2>4. DecisionUpToDate'
    BY <1>3, <2>1, <2>2
       DEF HInv, DecisionUpToDate, HasOpenIncident, TypeOK, ResolveTypeOK
  <2>. QED  BY <2>3, <2>4
<1>7. /\ DecisionUpToDate'
      /\ \A x \in Entities : HasOpenIncident(x)' => HasOpenIncident(x)
  BY <1>5, <1>6 DEF ResolveProceeds, ResolveStep
<1>. QED  BY <1>1, <1>2, <1>3, <1>4, <1>7, RunAlone, JobStepInv DEF HInv, processVars

\* The cleanup and the clock touch closures, when nothing is in progress.
LEMMA QuietStepInv ==
    ASSUME ~Overlap, HInv, CleanupRuns \/ Tick, UNCHANGED history
    PROVE  HInv'
<1>1. Quiet
  BY DEF CleanupRuns, Tick, MayStart
<1>2. TypeOK'
  BY NextType DEF HInv, Next
<1>3. UNCHANGED <<monitoringState, incidents, pc, pending, saving>>
  BY DEF CleanupRuns, Cleanup, Tick, processVars, resolveVars
<1>4. OneAtATime' /\ DecisionUpToDate'
  BY <1>1, <1>3 DEF Quiet, Idle, Busy, OneAtATime, DecisionUpToDate
<1>5. \A s \in Slots : ~Busy(s)
  BY <1>1 DEF Quiet, Busy
<1>. QED  BY <1>2, <1>3, <1>4, <1>5, JobStepInv DEF HInv, HasOpenIncident

LEMMA HNextInv ==
    ASSUME ~Overlap
    PROVE  HInv /\ [HNext]_hvars => HInv'
<1>. SUFFICES ASSUME HInv, [HNext]_hvars
              PROVE  HInv'
  OBVIOUS
<1>1. ASSUME NEW s \in Slots, HOther(s)
      PROVE  HInv'
  BY <1>1, GetStateInv, ReaderInv DEF HOther
<1>2. CASE UNCHANGED hvars
  <2>1. UNCHANGED <<tables, processVars, resolveVars, history>> /\ UNCHANGED vars
    BY <1>2 DEF hvars, vars
  <2>2. TypeOK'
    BY <2>1, NextType DEF HInv
  <2>. QED  BY <2>1, <2>2
            DEF HInv, tables, processVars, resolveVars, history, HistoryTypeOK,
                OneAtATime, Busy, Idle, ExecutionUpToDate, UpToDate,
                HasOpenIncident, IsThresholdExceeded, CountInWindow, RecentIds,
                DecisionUpToDate, StateFollows, ClosuresFollow, PostsFollow
<1>. QED  BY <1>1, <1>2, ArriveInv, SetStateInv, CreateInv, NotifyInv, ResolveListInv,
             ResolveStepInv, QuietStepInv
          DEF HNext

LEMMA HistoryInvariant ==
    ASSUME ~Overlap
    PROVE  HSpec => []HInv
<1>1. HInit => HInv
  BY HInitInv
<1>2. HInv /\ [HNext]_hvars => HInv'
  BY HNextInv
<1>. QED  BY <1>1, <1>2, PTL DEF HSpec

-----------------------------------------------------------------------------
\* The promises.

(***************************************************************************)
(* When nothing is in progress a bank's row says what the last message     *)
(* about it said.                                                          *)
(***************************************************************************)
THEOREM StateAlwaysLatest ==
    ASSUME ~Overlap
    PROVE  HSpec => []StateIsLatest
<1>1. HInv => StateIsLatest
  <2>. SUFFICES ASSUME HInv, Quiet
                PROVE  monitoringState = lastEvent
    BY DEF StateIsLatest
  <2>1. \A e \in Entities : lastEvent[e] = monitoringState[e]
    BY ObserversOfNone DEF Quiet, Busy
  <2>. QED  BY <2>1 DEF HInv, HistoryTypeOK, TypeOK, TablesTypeOK
<1>. QED  BY <1>1, HistoryInvariant, PTL

(***************************************************************************)
(* A bank that closes once is counted once.                                *)
(***************************************************************************)
THEOREM ClosedOnceCountedOnce ==
    ASSUME ~Overlap
    PROVE  HSpec => []AntiSpam
<1>1. HInv => AntiSpam
  BY DEF HInv, HistoryTypeOK, AntiSpam
<1>. QED  BY <1>1, HistoryInvariant, PTL

(***************************************************************************)
(* An incident is posted to Naura once, and an open one has been when      *)
(* nothing is in progress.                                                 *)
(***************************************************************************)
THEOREM AnnouncedOnce ==
    ASSUME ~Overlap
    PROVE  HSpec => []Announced
<1>1. HInv => AnnouncedAtMostOnce
  BY DEF HInv, HistoryTypeOK, AnnouncedAtMostOnce
<1>2. HInv /\ Quiet => \A e \in Entities : HasOpenIncident(e) => posts[e] = 1
  BY ObserversOfNone DEF Quiet, Busy
<1>3. HInv => Announced
  BY <1>1, <1>2 DEF Announced
<1>. QED  BY <1>3, HistoryInvariant, PTL

-----------------------------------------------------------------------------
(***************************************************************************)
(* The pipeline implements FlapDetector, when nothing overlaps: the proof  *)
(* of the refinement that IncidentHistory states.  Each step is mapped in  *)
(* turn: the write of a bank's row is the observation, the upsert raises,  *)
(* the save resolves, and every other await is a stutter.                  *)
(***************************************************************************)

Stutter == UNCHANGED <<monitoringState, Flaps, ListOpenIncidents>>

-----------------------------------------------------------------------------
\* The closures the detector remembers.

\* Between the write of a row and the append there is a closure that is in no
\* table; when no execution is there, the table has them all.
LEMMA SettledFlaps ==
    ASSUME \A s \in Slots : pc[s] # "append"
    PROVE  Flaps = StoredFlaps
BY DEF Flaps, Noticed

LEMMA StoredFlap ==
    ASSUME TypeOK, NEW i \in EventIds, Stored(i)
    PROVE  /\ monitoringEvents[i] \in Rows
           /\ Flap(i, monitoringEvents[i].entity, monitoringEvents[i].age)
                  \in StoredFlaps
BY DEF TypeOK, TablesTypeOK, Stored, StoredFlaps

\* The count of rows is the count of closures: a row is one closure, under
\* its own id.
LEMMA CountsAgree ==
    ASSUME TypeOK, Flaps = StoredFlaps, NEW e \in Entities, NEW w
    PROVE  /\ Cardinality(Detector!Recent(e, w)) = CountInWindow(e, w)
           /\ Detector!Recent(e, w) = {} <=> RecentIds(e, w) = {}
<1>. DEFINE S == RecentIds(e, w)
            T == Detector!Recent(e, w)
            f == [i \in S |-> Flap(i, e, monitoringEvents[i].age)]
<1>1. T = {x \in StoredFlaps : x.entity = e /\ x.age <= w}
  BY DEF Detector!Recent
<1>2. \A i \in S : i \in EventIds /\ Stored(i) /\ monitoringEvents[i].entity = e
  BY NoEntityAssumption DEF RecentIds, Stored, NoRow
<1>3. ASSUME NEW i \in S
      PROVE  f[i] \in T
  BY <1>1, <1>2, <1>3, StoredFlap DEF RecentIds, Flap
<1>4. \A i, j \in S : f[i] = f[j] => i = j
  BY DEF Flap
<1>5. ASSUME NEW x \in T
      PROVE  \E i \in S : f[i] = x
  <2>1. PICK i \in EventIds :
            /\ Stored(i)
            /\ x = Flap(i, monitoringEvents[i].entity, monitoringEvents[i].age)
    BY <1>1, <1>5 DEF StoredFlaps
  <2>2. i \in S
    BY <1>1, <1>5, <2>1 DEF RecentIds, Flap
  <2>. QED  BY <1>2, <2>1, <2>2
<1>6. f \in Bijection(S, T)
  <2>1. f \in [S -> T]
    BY <1>3
  <2>. QED  BY <1>4, <1>5, <2>1, Fun_IsBij
<1>7. IsFiniteSet(S)
  BY EventIdsAssumption, FS_Subset DEF RecentIds
<1>8. Cardinality(T) = Cardinality(S)
  BY <1>6, <1>7, FS_Bijection DEF ExistsBijection
<1>9. T = {} <=> S = {}
  BY <1>3, <1>5
<1>. QED  BY <1>8, <1>9 DEF CountInWindow

\* The detector counts as the repository does.
LEMMA SameCardinality ==
    ASSUME NEW S
    PROVE  Detector!Cardinality(S) = Cardinality(S)
BY DEF Detector!Cardinality, Cardinality

\* A step that leaves the tables, and the executions that are about to append,
\* as they are is none of the detector's.
LEMMA StutterStep ==
    ASSUME UNCHANGED tables,
           \A s \in Slots : pc[s] # "append" /\ pc'[s] # "append"
    PROVE  Stutter
BY SettledFlaps DEF Stutter, tables, Flaps, Noticed, StoredFlaps, Stored,
                    ListOpenIncidents

-----------------------------------------------------------------------------
\* What each step is to the detector.

LEMMA InitMaps == HInit => Detector!Init
<1>. SUFFICES ASSUME HInit
              PROVE  Detector!Init
  OBVIOUS
<1>1. monitoringState \in [Entities -> {"OPEN", "none"}]
  BY DEF HInit, Init, SeededState, NoStates
<1>2. Flaps = {}
  BY DEF HInit, Init, ProcessInit, NoEvents, Flaps, Noticed, StoredFlaps, Stored
<1>3. ListOpenIncidents = {}
  BY DEF HInit, Init, NoIncidents, ListOpenIncidents
<1>. QED  BY <1>1, <1>2, <1>3 DEF Detector!Init

\* Two of an execution's steps, at its beginning, and three at its end.
LEMMA ReaderMaps ==
    ASSUME HInv, NEW s \in Slots,
           GetState(s) \/ Evaluate(s) \/ HasOpen(s) \/ Notify(s)
    PROVE  Stutter
<1>1. Busy(s) /\ pc[s] # "append"
  BY DEF GetState, Evaluate, HasOpen, Notify, Busy
<1>2. \A t \in Slots : pc[t] # "append" /\ pc'[t] # "append"
  BY <1>1, Alone
     DEF HInv, GetState, Evaluate, HasOpen, Notify, Goto, Return, TypeOK, ProcessTypeOK
<1>3. UNCHANGED tables
  BY DEF GetState, Evaluate, HasOpen, Notify
<1>. QED  BY <1>2, <1>3, StutterStep

LEMMA SetStateMaps ==
    ASSUME HInv, NEW s \in Slots, HSetState(s)
    PROVE  \E i \in EventIds, e \in Entities, st \in {"OPEN", "CLOSED"} :
               Detector!Observe(i, e, st)
<1>. DEFINE i == event[s].id
            e == event[s].entity
            st == event[s].status
<1>1. Busy(s) /\ pc[s] \in {"setOnly", "setCounted"} /\ UpToDate(s, e)
  BY DEF HSetState, SetState, Busy, HInv, ExecutionUpToDate
<1>2. /\ i \in EventIds /\ e \in Entities /\ st \in {"OPEN", "CLOSED"}
      /\ event[s] \in Events
  BY <1>1, BusyEvent DEF Busy, HInv, TypeOK, Events, Statuses
<1>3. monitoringState' = [monitoringState EXCEPT ![e] = st]
  BY <1>2 DEF HSetState, SetState, WithState, MapToIncidentStatus
<1>4. monitoringState[e] # st
  BY <1>1 DEF UpToDate, Unwritten
<1>5. /\ \A t \in Slots : pc[t] # "append"
      /\ \A t \in Slots : t # s => pc'[t] # "append"
  BY <1>1, Alone
     DEF HInv, HSetState, SetState, Goto, Return, TypeOK, ProcessTypeOK
<1>6. Flaps = StoredFlaps /\ StoredFlaps' = StoredFlaps
  BY <1>5, SettledFlaps DEF HSetState, SetState, StoredFlaps, Stored
<1>7. ListOpenIncidents' = ListOpenIncidents
  BY DEF HSetState, SetState, ListOpenIncidents
<1>8. (\A f \in Flaps : f.id # i) <=> ~Stored(i)
  <2>1. ASSUME Stored(i)
        PROVE  \E f \in Flaps : f.id = i
    <3>1. Flap(i, monitoringEvents[i].entity, monitoringEvents[i].age) \in Flaps
      BY <1>2, <1>6, <2>1, StoredFlap DEF HInv
    <3>. QED  BY <3>1 DEF Flap
  <2>2. \A f \in Flaps : Stored(f.id)
    BY <1>6 DEF StoredFlaps, Flap
  <2>. QED  BY <2>1, <2>2
<1>9. CASE pc[s] = "setOnly"
  <2>1. ~(monitoringState[e] = "OPEN" /\ st = "CLOSED")
    BY <1>1, <1>9 DEF UpToDate, IsCountableTransition
  <2>2. \A t \in Slots : pc'[t] # "append"
    BY <1>5, <1>9 DEF HSetState, SetState, Return, HInv, TypeOK, ProcessTypeOK
  <2>3. Flaps' = Flaps
    BY <1>6, <2>2 DEF Flaps, Noticed
  <2>. QED  BY <1>2, <1>3, <1>4, <1>7, <2>1, <2>3 DEF Detector!Observe
<1>10. CASE pc[s] = "setCounted"
  <2>1. monitoringState[e] = "OPEN" /\ st = "CLOSED" /\ event[s].age = 0
    BY <1>1, <1>10 DEF UpToDate, IsCountableTransition
  <2>2. pc'[s] = "append" /\ event' = event
    BY <1>1, <1>10 DEF HSetState, SetState, Goto, HInv, TypeOK, ProcessTypeOK
  <2>3. Noticed' = IF Stored(i) THEN {} ELSE {s}
    BY <1>5, <2>2 DEF Noticed, HSetState, SetState, Stored
  <2>4. Flaps' = IF Stored(i) THEN Flaps ELSE Flaps \cup {Flap(i, e, 0)}
    BY <1>6, <2>1, <2>2, <2>3 DEF Flaps
  <2>. QED  BY <1>2, <1>3, <1>4, <1>7, <1>8, <2>1, <2>4 DEF Detector!Observe, Flap
<1>. QED  BY <1>1, <1>9, <1>10

\* The append gives the closure its row: the detector has it already.
LEMMA AppendMaps ==
    ASSUME HInv, NEW s \in Slots, Append(s)
    PROVE  Stutter
<1>. DEFINE i == event[s].id
            e == event[s].entity
<1>1. Busy(s) /\ pc[s] = "append" /\ UpToDate(s, e)
  BY DEF Append, Busy, HInv, ExecutionUpToDate
<1>2. i \in EventIds /\ e \in Entities /\ event[s] \in Events
  BY <1>1, BusyEvent DEF Busy, HInv, TypeOK, Events
<1>3. /\ \A t \in Slots : t # s => pc[t] # "append"
      /\ \A t \in Slots : pc'[t] # "append"
  BY <1>1, Alone DEF HInv, Append, Goto, Return, TypeOK, ProcessTypeOK
<1>4. /\ UNCHANGED <<monitoringState, ListOpenIncidents>>
      /\ Flaps' = StoredFlaps'
  <2>1. Flaps' = StoredFlaps'
    BY <1>3, SettledFlaps DEF Flaps, Noticed
  <2>. QED  BY <2>1 DEF Append, ListOpenIncidents
<1>5. CASE Stored(i)
  <2>1. Noticed = {}
    BY <1>3, <1>5 DEF Noticed
  <2>2. UNCHANGED monitoringEvents
    BY <1>1, <1>2, <1>5 DEF Append
  <2>. QED  BY <1>4, <2>1, <2>2 DEF Stutter, Flaps, StoredFlaps, Stored
<1>6. CASE ~Stored(i)
  <2>1. Noticed = {s}
    BY <1>1, <1>3, <1>6 DEF Noticed
  <2>2. Flaps = StoredFlaps \cup {Flap(i, e, 0)}
    BY <1>1, <2>1 DEF Flaps, UpToDate
  <2>3. monitoringEvents' = [monitoringEvents EXCEPT ![i] = [entity |-> e, age |-> 0]]
    BY <1>1, <1>6 DEF Append, WithRow, UpToDate
  <2>4. \A j \in EventIds : j # i =>
            monitoringEvents'[j] = monitoringEvents[j] /\ (Stored(j)' <=> Stored(j))
    BY <2>3 DEF HInv, TypeOK, TablesTypeOK, Stored
  <2>5. /\ monitoringEvents'[i] = [entity |-> e, age |-> 0]
        /\ monitoringEvents'[i] # NoRow
    <3>1. monitoringEvents'[i] = [entity |-> e, age |-> 0]
      BY <1>2, <2>3 DEF HInv, TypeOK, TablesTypeOK
    <3>2. monitoringEvents'[i].entity # NoEntity
      BY <1>2, <3>1, NoEntityAssumption
    <3>. QED  BY <3>1, <3>2 DEF NoRow
  <2>6. ASSUME NEW f \in StoredFlaps'
        PROVE  f \in StoredFlaps \cup {Flap(i, e, 0)}
    <3>1. PICK j \in EventIds :
              /\ Stored(j)'
              /\ f = Flap(j, monitoringEvents'[j].entity, monitoringEvents'[j].age)
      BY <2>6 DEF StoredFlaps
    <3>2. CASE j = i
      BY <2>5, <3>1, <3>2
    <3>3. CASE j # i
      BY <2>4, <3>1, <3>3 DEF StoredFlaps
    <3>. QED  BY <3>2, <3>3
  <2>7. ASSUME NEW f \in StoredFlaps \cup {Flap(i, e, 0)}
        PROVE  f \in StoredFlaps'
    <3>1. CASE f = Flap(i, e, 0)
      BY <1>2, <2>5, <3>1 DEF StoredFlaps, Stored
    <3>2. CASE f \in StoredFlaps
      <4>1. PICK j \in EventIds :
                /\ Stored(j)
                /\ f = Flap(j, monitoringEvents[j].entity, monitoringEvents[j].age)
        BY <3>2 DEF StoredFlaps
      <4>. QED  BY <1>6, <2>4, <4>1 DEF StoredFlaps
    <3>. QED  BY <2>7, <3>1, <3>2
  <2>. QED  BY <1>4, <2>2, <2>6, <2>7 DEF Stutter
<1>. QED  BY <1>5, <1>6

LEMMA CreateMaps ==
    ASSUME HInv, NEW s \in Slots, HCreate(s)
    PROVE  \E e \in Entities : Detector!Raise(e)
<1>. DEFINE e == event[s].entity
<1>1. Busy(s) /\ pc[s] = "create" /\ UpToDate(s, e)
  BY DEF HCreate, Create, Busy, HInv, ExecutionUpToDate
<1>2. e \in Entities
  BY <1>1, BusyEvent DEF Busy, HInv, TypeOK
<1>3. \A t \in Slots : pc[t] # "append" /\ pc'[t] # "append"
  BY <1>1, Alone DEF HInv, HCreate, Create, Goto, TypeOK, ProcessTypeOK
<1>4. UNCHANGED <<monitoringState, Flaps>>
  BY <1>3, SettledFlaps
     DEF HCreate, Create, Flaps, Noticed, StoredFlaps, Stored
<1>5. monitoringState[e] = "CLOSED" /\ e \notin ListOpenIncidents
  BY <1>1 DEF UpToDate, Counted, ListOpenIncidents, HasOpenIncident
<1>6. Cardinality(Detector!Recent(e, SlidingWindow)) >= Threshold
  BY <1>1, <1>2, <1>3, CountsAgree, SettledFlaps DEF UpToDate, IsThresholdExceeded, HInv
<1>7. ListOpenIncidents' = ListOpenIncidents \cup {e}
  BY <1>2 DEF HCreate, Create, WithOpen, ListOpenIncidents, HInv, TypeOK, TablesTypeOK
<1>8. Detector!Raise(e)
  BY <1>4, <1>5, <1>6, <1>7, SameCardinality DEF Detector!Raise
<1>. QED  BY <1>2, <1>8

LEMMA ResolveMaps ==
    ASSUME HInv, NEW r \in Runs, ResolveProceeds(r)
    PROVE  \/ Stutter
           \/ \E e \in Entities : Detector!Resolve(e)
<1>1. ~Idle(r)
  BY DEF ResolveProceeds, ResolveStep, ResolveSave, ResolveCount, Idle
<1>2. \A t \in Slots : pc[t] # "append" /\ pc'[t] # "append"
  BY <1>1, RunAlone DEF ResolveProceeds, processVars, Busy
<1>3. ASSUME NEW e \in Entities, ResolveCount(r, e)
      PROVE  Stutter
  BY <1>2, <1>3, StutterStep DEF ResolveCount
<1>4. ASSUME ResolveSave(r)
      PROVE  \E e \in Entities : Detector!Resolve(e)
  <2>. DEFINE e == saving[r]
  <2>1. /\ e \in Entities
        /\ HasOpenIncident(e)
        /\ RecentIds(e, StableOpen) = {}
    BY <1>4 DEF ResolveSave, HInv, TypeOK, ResolveTypeOK, DecisionUpToDate
  <2>2. UNCHANGED <<monitoringState, Flaps>>
    BY <1>2, <1>4, SettledFlaps
       DEF ResolveSave, Flaps, Noticed, StoredFlaps, Stored
  <2>3. Detector!Recent(e, StableOpen) = {}
    BY <1>2, <2>1, CountsAgree, SettledFlaps DEF HInv
  <2>4. e \in ListOpenIncidents /\ ListOpenIncidents' = ListOpenIncidents \ {e}
    BY <1>4, <2>1
       DEF ResolveSave, WithResolved, ListOpenIncidents, HasOpenIncident, HInv,
           TypeOK, TablesTypeOK
  <2>. QED  BY <2>1, <2>2, <2>3, <2>4 DEF Detector!Resolve
<1>. QED  BY <1>3, <1>4 DEF ResolveProceeds, ResolveStep

\* Cleanup and clock, when nothing is in progress.
LEMMA CleanupMaps ==
    ASSUME ~Overlap, HInv, CleanupRuns
    PROVE  Detector!Forget
<1>1. \A t \in Slots : pc[t] # "append" /\ pc'[t] # "append"
  BY DEF CleanupRuns, MayStart, Quiet, processVars
<1>2. Flaps = StoredFlaps /\ Flaps' = StoredFlaps'
  BY <1>1, SettledFlaps DEF Flaps, Noticed
<1>3. \A i \in EventIds :
          monitoringEvents'[i] = IF monitoringEvents[i].age > Retention THEN NoRow
                                 ELSE monitoringEvents[i]
  BY DEF CleanupRuns, Cleanup, WithoutOlderThan
<1>4. \A i \in EventIds : Stored(i) => monitoringEvents[i].age \in Nat
  BY StoredFlap, PeriodsAssumption DEF HInv, Rows, Ages
<1>5. \A i \in EventIds : Stored(i)' <=> Stored(i) /\ monitoringEvents[i].age <= Retention
  BY <1>3, <1>4, PeriodsAssumption DEF Stored, NoRow
<1>6. \A i \in EventIds : Stored(i)' => monitoringEvents'[i] = monitoringEvents[i]
  BY <1>3 DEF Stored
<1>7. \A f : f \in StoredFlaps' <=> f \in {x \in StoredFlaps : x.age <= Retention}
  BY <1>5, <1>6 DEF StoredFlaps, Flap
<1>. QED  BY <1>2, <1>7 DEF Detector!Forget, CleanupRuns, Cleanup, ListOpenIncidents

LEMMA TickMaps ==
    ASSUME ~Overlap, HInv, Tick
    PROVE  Detector!Tick
<1>1. \A t \in Slots : pc[t] # "append" /\ pc'[t] # "append"
  BY DEF Tick, MayStart, Quiet
<1>2. Flaps = StoredFlaps /\ Flaps' = StoredFlaps'
  BY <1>1, SettledFlaps DEF Flaps, Noticed
<1>3. ASSUME NEW i \in EventIds, Stored(i)
      PROVE  /\ Stored(i)'
             /\ Flap(i, monitoringEvents'[i].entity, monitoringEvents'[i].age) =
                [Flap(i, monitoringEvents[i].entity, monitoringEvents[i].age)
                     EXCEPT !.age = Detector!Older(@)]
  <2>1. monitoringEvents[i] \in Rows
    BY <1>3, StoredFlap DEF HInv
  <2>2. /\ monitoringEvents'[i].entity = monitoringEvents[i].entity
        /\ monitoringEvents'[i].age = Detector!Older(monitoringEvents[i].age)
    BY <1>3, <2>1 DEF Tick, AgedEvents, Older, Detector!Older, Rows
  <2>3. Stored(i)'
    BY <2>1, <2>2, NoEntityAssumption DEF Stored, NoRow, Rows
  <2>. QED  BY <2>2, <2>3 DEF Flap
<1>4. \A i \in EventIds : Stored(i)' => Stored(i)
  BY DEF Tick, AgedEvents, Stored
<1>5. ASSUME NEW g \in StoredFlaps'
      PROVE  \E f \in StoredFlaps : g = [f EXCEPT !.age = Detector!Older(@)]
  <2>1. PICK i \in EventIds :
            /\ Stored(i)'
            /\ g = Flap(i, monitoringEvents'[i].entity, monitoringEvents'[i].age)
    BY <1>5 DEF StoredFlaps
  <2>. QED  BY <1>3, <1>4, <2>1 DEF StoredFlaps
<1>6. ASSUME NEW f \in StoredFlaps
      PROVE  [f EXCEPT !.age = Detector!Older(@)] \in StoredFlaps'
  <2>1. PICK i \in EventIds :
            /\ Stored(i)
            /\ f = Flap(i, monitoringEvents[i].entity, monitoringEvents[i].age)
    BY <1>6 DEF StoredFlaps
  <2>. QED  BY <1>3, <2>1 DEF StoredFlaps
<1>7. StoredFlaps' = {[f EXCEPT !.age = Detector!Older(@)] : f \in StoredFlaps}
  BY <1>5, <1>6
<1>. QED  BY <1>2, <1>7 DEF Detector!Tick, Tick, ListOpenIncidents

-----------------------------------------------------------------------------

(***************************************************************************)
(* The pipeline, its resolve job and its cleanup implement FlapDetector:   *)
(* no incident is opened or resolved, and no closure counted or forgotten, *)
(* that the abstract detector would not.                                   *)
(***************************************************************************)
THEOREM PipelineImplementsDetector ==
    ASSUME ~Overlap
    PROVE  HSpec => DetectorSpec
<1>1. HInit => Detector!Init
  BY InitMaps
<1>2. HInv /\ [HNext]_hvars => [Detector!Next]_(Detector!vars)
  <2>. SUFFICES ASSUME HInv, [HNext]_hvars
                PROVE  Detector!Next \/ Stutter
    BY DEF Stutter, Detector!vars
  <2>1. ASSUME NEW s \in Slots, NEW i \in EventIds, NEW e \in Banks,
               NEW status \in Statuses, HArrive(s, i, e, status)
        PROVE  Stutter
    <3>1. \A t \in Slots : pc[t] # "append" /\ pc'[t] # "append"
      BY <2>1 DEF HArrive, Arrive, MayStart, Quiet, Execute, HInv, TypeOK, ProcessTypeOK
    <3>. QED  BY <2>1, <3>1, StutterStep DEF HArrive, Arrive, Execute
  <2>2. ASSUME NEW s \in Slots, HSetState(s)
        PROVE  Detector!Next
    BY <2>2, SetStateMaps DEF Detector!Next
  <2>3. ASSUME NEW s \in Slots, HCreate(s)
        PROVE  Detector!Next
    BY <2>3, CreateMaps DEF Detector!Next
  <2>4. ASSUME NEW s \in Slots, HNotify(s) \/ HOther(s)
        PROVE  Stutter
    BY <2>4, ReaderMaps, AppendMaps DEF HNotify, HOther
  <2>5. ASSUME NEW r \in Runs, ResolveStarts(r)
        PROVE  Stutter
    <3>1. \A t \in Slots : pc[t] # "append" /\ pc'[t] # "append"
      BY <2>5 DEF ResolveStarts, MayStart, Quiet, processVars
    <3>. QED  BY <2>5, <3>1, StutterStep DEF ResolveStarts, ResolveList
  <2>6. ASSUME NEW r \in Runs, ResolveProceeds(r)
        PROVE  Detector!Next \/ Stutter
    BY <2>6, ResolveMaps DEF Detector!Next
  <2>7. CASE CleanupRuns
    BY <2>7, CleanupMaps DEF Detector!Next
  <2>8. CASE Tick
    BY <2>8, TickMaps DEF Detector!Next
  <2>9. CASE UNCHANGED hvars
    BY <2>9 DEF hvars, vars, tables, processVars, Stutter, Flaps, Noticed, StoredFlaps,
                Stored, ListOpenIncidents
  <2>. QED  BY <2>1, <2>2, <2>3, <2>4, <2>5, <2>6, <2>7, <2>8, <2>9 DEF HNext
<1>. QED  BY <1>1, <1>2, HistoryInvariant, PTL DEF HSpec, DetectorSpec, Detector!Spec

=============================================================================
