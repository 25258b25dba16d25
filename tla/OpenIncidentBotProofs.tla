------------------------ MODULE OpenIncidentBotProofs ------------------------
(***************************************************************************)
(* Theorems about OpenIncidentBot, the whole bot.  What IncidentLifecycle  *)
(* promises is proved again for it, with overlap and faults: here the      *)
(* handler and the recovery job start executions, and the verification job *)
(* writes incidents of its own.  Then what the jobs promise.               *)
(***************************************************************************)
EXTENDS OpenIncidentBot, IncidentLifecycleProofs

-----------------------------------------------------------------------------
\* What the bot does to the pipeline, besides what IncidentLifecycle does.

\* An execution is started, whatever else is in progress.
Starts ==
    /\ \E s \in Slots, i \in EventIds, e \in Banks, status \in Statuses :
           Execute(s, i, e, status)
    /\ UNCHANGED resolveVars

\* A verification tick writes an incident.
Files ==
    /\ \E e \in Entities : incidents' = WithOpen(e)
    /\ UNCHANGED <<monitoringState, monitoringEvents, processVars, resolveVars>>

PipelineStep == Next \/ Starts \/ Files \/ UNCHANGED vars

LEMMA CheckRecord ==
    ASSUME JobsTypeOK, NEW c \in Checks, check[c] # NoCheck
    PROVE  check[c] \in CheckRecords /\ check[c].bank \in Banks
BY DEF JobsTypeOK, CheckRecords

LEMMA BotStepIsPipelineStep ==
    ASSUME BotTypeOK, [BotNext]_allVars
    PROVE  PipelineStep
<1>1. ASSUME NEW s \in Slots, ClosedLoaded(s)
      PROVE  Starts
  <2>1. closing[s].id \in EventIds /\ closing[s].bank \in Banks
    BY <1>1 DEF ClosedLoaded, BotTypeOK, Messages
  <2>. QED  BY <1>1, <2>1 DEF ClosedLoaded, Starts, Statuses
<1>2. ASSUME NEW s \in Slots, NEW i \in EventIds, NEW b \in Banks,
             HandleClosed(s, i, b) \/ HandleOpen(s, i, b) \/ Recover(s, i, b)
      PROVE  PipelineStep
  BY <1>2 DEF HandleClosed, HandleOpen, Recover, RecoveryTick, PipelineStep, Starts,
              Statuses
<1>3. ASSUME NEW s \in Slots,
             HandlerFails(s) \/ ExecutionProceeds(s) \/ AwaitedFails(s)
      PROVE  PipelineStep
  BY <1>3 DEF HandlerFails, ExecutionProceeds, AwaitedFails, PipelineStep, Next
<1>4. ASSUME NEW c \in Checks, NEW b \in Banks, Verify(c, b)
      PROVE  PipelineStep
  BY <1>4 DEF Verify, VerificationTick, PipelineStep, vars
<1>5. ASSUME NEW c \in Checks, VerifyProceeds(c) \/ VerifyFails(c)
      PROVE  PipelineStep
  <2>1. ASSUME CheckCreates(c), UNCHANGED resolveVars
        PROVE  Files
    <3>1. FiledUnder(check[c].bank) \in Entities
      BY <2>1, CheckRecord, AbbreviationAssumption
         DEF CheckCreates, FiledUnder, BotTypeOK
    <3>. QED  BY <2>1, <3>1 DEF CheckCreates, Files
  <2>. QED  BY <1>5, <2>1
            DEF VerifyProceeds, CheckProceeds, CheckDecides, CheckNotifies,
                VerifyFails, CheckFails, PipelineStep, vars
<1>6. ASSUME NEW r \in Runs,
             BotResolveStarts(r) \/ BotResolveProceeds(r) \/ BotResolveFails(r)
      PROVE  PipelineStep
  BY <1>6 DEF BotResolveStarts, BotResolveProceeds, BotResolveFails, PipelineStep, Next
<1>7. CASE BotCleanup \/ BotTick
  BY <1>7 DEF BotCleanup, BotTick, PipelineStep, Next
<1>8. ASSUME NEW b \in Banks, NEW st \in {"OPEN", "CLOSE"}, PageChanges(b, st)
      PROVE  PipelineStep
  BY <1>8 DEF PageChanges, PipelineStep
<1>9. ASSUME NEW steps \in 0 .. 4, BotRestart(steps)
      PROVE  PipelineStep
  BY <1>9 DEF BotRestart, PipelineStep, Next
<1>10. CASE UNCHANGED allVars
  BY <1>10 DEF allVars, PipelineStep
<1>. QED  BY <1>1, <1>2, <1>3, <1>4, <1>5, <1>6, <1>7, <1>8, <1>9, <1>10
          DEF BotNext, PipelineStep

LEMMA PipelineStepType ==
    ASSUME TypeOK, PipelineStep
    PROVE  TypeOK'
<1>. USE DEF TypeOK
<1>1. ASSUME NEW s \in Slots, NEW i \in EventIds, NEW e \in Banks,
             NEW status \in Statuses, Execute(s, i, e, status), UNCHANGED resolveVars
      PROVE  TypeOK'
  <2>1. [id |-> i, entity |-> e, status |-> status, age |-> 0] \in Events
    BY PeriodsAssumption DEF Events, Ages
  <2>2. ProcessTypeOK'
    BY <1>1, <2>1, NoEventAssumption DEF Execute, ProcessTypeOK, Locations
  <2>. QED  BY <1>1, <2>2
            DEF Execute, TablesTypeOK, ResolveTypeOK, tables, resolveVars
<1>2. CASE Files
  BY <1>2 DEF Files, WithOpen, TablesTypeOK, ProcessTypeOK, ResolveTypeOK,
              processVars, resolveVars
<1>. QED  BY <1>1, <1>2, NextType DEF PipelineStep, Starts

-----------------------------------------------------------------------------
\* Type correctness of the rest.

LEMMA TransitionType ==
    ASSUME NEW current \in TimelineStates, NEW next \in TimelineStates
    PROVE  Transition(current, next) \in TimelineStates
BY DEF Transition

LEMMA TrackType ==
    ASSUME NEW current \in TimelineStates, NEW decision \in Decisions
    PROVE  Track(current, decision) \in TimelineStates
<1>1. decision \in TimelineStates /\ "WAIT" \in TimelineStates
  BY DEF TimelineStates, Decisions
<1>. QED  BY <1>1, TransitionType DEF Track

\* A step of a verification tick.
LEMMA CheckStepType ==
    ASSUME JobsTypeOK, NEW c \in Checks, CheckProceeds(c) \/ CheckFails(c)
    PROVE  JobsTypeOK'
<1>1. check[c] \in CheckRecords /\ check[c].bank \in Banks
  BY CheckRecord
     DEF CheckProceeds, CheckDecides, CheckCreates, CheckNotifies, CheckFails
<1>2. \A at \in {"decide", "create", "notify"} :
          [check[c] EXCEPT !.at = at] \in CheckRecords
  BY <1>1 DEF CheckRecords
<1>3. ASSUME NEW level, NEW hasComplaint, NEW errorsIncreasing,
             CheckDecides(c, level, hasComplaint, errorsIncreasing)
      PROVE  JobsTypeOK'
  <2>. DEFINE b == check[c].bank
              decision == Decide(level, hasComplaint,
                                 HasOpenIncident(FiledUnder(b)), errorsIncreasing)
  <2>1. decision \in Decisions
    BY DEF Decide, Decisions
  <2>2. Track(timeline[b], decision) \in TimelineStates
    BY <1>1, <2>1, TrackType DEF JobsTypeOK
  <2>. HIDE DEF decision
  <2>3. timeline' = [timeline EXCEPT ![b] = Track(@, decision)]
    BY <1>3 DEF CheckDecides, decision
  <2>4. timeline' \in [Banks -> TimelineStates]
    BY <1>1, <2>2, <2>3 DEF JobsTypeOK
  <2>. QED  BY <1>2, <1>3, <2>4 DEF CheckDecides, Conclude, EndCheck, JobsTypeOK
<1>4. CASE CheckCreates(c)
  BY <1>2, <1>4 DEF CheckCreates, JobsTypeOK
<1>5. CASE CheckNotifies(c)
  BY <1>5 DEF CheckNotifies, Conclude, EndCheck, JobsTypeOK
<1>6. CASE CheckFails(c)
  BY <1>6 DEF CheckFails, EndCheck, JobsTypeOK
<1>. QED  BY <1>3, <1>4, <1>5, <1>6 DEF CheckProceeds

LEMMA BotInitType == BotInit => BotTypeOK
<1>. SUFFICES ASSUME BotInit
              PROVE  BotTypeOK
  OBVIOUS
<1>1. TypeOK
  BY InitType DEF BotInit
<1>2. JobsTypeOK
  BY DEF BotInit, JobsInit, JobsTypeOK, TimelineStates, PageRows
<1>. QED  BY <1>1, <1>2 DEF BotInit, BotTypeOK

LEMMA StartJobsType ==
    ASSUME JobsTypeOK, NEW b \in Banks, StartJobs(b)
    PROVE  /\ recovering' \subseteq Banks /\ verifying' \subseteq Banks
           /\ page' \in [Banks -> PageRows]
<1>1. \A fresh \in BOOLEAN : [page[b] EXCEPT !.fresh = fresh] \in PageRows
  BY DEF JobsTypeOK, PageRows
<1>2. page' \in [Banks -> PageRows]
  <2>1. CASE UNCHANGED page
    BY <2>1 DEF JobsTypeOK
  <2>2. CASE \E fresh \in BOOLEAN : page' = [page EXCEPT ![b].fresh = fresh]
    BY <1>1, <2>2 DEF JobsTypeOK
  <2>. QED  BY <2>1, <2>2 DEF StartJobs
<1>. QED  BY <1>2 DEF StartJobs, JobsTypeOK

LEMMA ClosedLoadedType ==
    ASSUME BotTypeOK, NEW s \in Slots, ClosedLoaded(s)
    PROVE  JobsTypeOK' /\ closing' \in [Slots -> Messages \cup {NoMessage}]
<1>. DEFINE b == closing[s].bank
<1>1. b \in Banks
  BY DEF ClosedLoaded, BotTypeOK, Messages
<1>2. Transition(timeline[b], "CLOSE") \in TimelineStates
  BY <1>1, TransitionType DEF BotTypeOK, JobsTypeOK, TimelineStates
<1>3. /\ recovering' \subseteq Banks /\ verifying' \subseteq Banks
      /\ page' \in [Banks -> PageRows]
      /\ timeline' \in [Banks -> TimelineStates]
  <2>1. CASE /\ timeline' = [timeline EXCEPT ![b] = Transition(@, "CLOSE")]
             /\ StartJobs(b)
    BY <1>1, <1>2, <2>1, StartJobsType DEF BotTypeOK, JobsTypeOK
  <2>2. CASE UNCHANGED <<timeline, recovering, verifying, page>>
    BY <2>2 DEF BotTypeOK, JobsTypeOK
  <2>. QED  BY <2>1, <2>2 DEF ClosedLoaded
<1>. QED  BY <1>3 DEF ClosedLoaded, BotTypeOK, JobsTypeOK

LEMMA BotNextType == BotTypeOK /\ [BotNext]_allVars => BotTypeOK'
<1>. SUFFICES ASSUME BotTypeOK, [BotNext]_allVars
              PROVE  JobsTypeOK' /\ closing' \in [Slots -> Messages \cup {NoMessage}]
  BY BotStepIsPipelineStep, PipelineStepType DEF BotTypeOK
<1>. USE DEF BotTypeOK
<1>1. ASSUME NEW s \in Slots, NEW i \in EventIds, NEW b \in Banks,
             HandleClosed(s, i, b)
      PROVE  JobsTypeOK' /\ closing' \in [Slots -> Messages \cup {NoMessage}]
  BY <1>1 DEF HandleClosed, Messages, JobsTypeOK, jobVars
<1>2. ASSUME NEW s \in Slots, NEW i \in EventIds, NEW b \in Banks,
             HandleOpen(s, i, b)
      PROVE  JobsTypeOK' /\ closing' \in [Slots -> Messages \cup {NoMessage}]
  BY <1>2 DEF HandleOpen, StopJobs, JobsTypeOK
<1>3. ASSUME NEW s \in Slots, NEW i \in EventIds, NEW b \in Banks, Recover(s, i, b)
      PROVE  JobsTypeOK' /\ closing' \in [Slots -> Messages \cup {NoMessage}]
  <2>1. TrackOpen(timeline[b]) \in TimelineStates
    BY TransitionType DEF TrackOpen, JobsTypeOK, TimelineStates
  <2>. QED  BY <1>3, <2>1 DEF Recover, RecoveryTick, JobsTypeOK
<1>4. ASSUME NEW s \in Slots, HandlerFails(s)
      PROVE  JobsTypeOK' /\ closing' \in [Slots -> Messages \cup {NoMessage}]
  BY <1>4 DEF HandlerFails, JobsTypeOK, jobVars
<1>5. ASSUME NEW c \in Checks, NEW b \in Banks, Verify(c, b)
      PROVE  JobsTypeOK' /\ closing' \in [Slots -> Messages \cup {NoMessage}]
  BY <1>5 DEF Verify, VerificationTick, JobsTypeOK, CheckRecords
<1>6. ASSUME NEW c \in Checks, VerifyProceeds(c) \/ VerifyFails(c)
      PROVE  JobsTypeOK' /\ closing' \in [Slots -> Messages \cup {NoMessage}]
  BY <1>6, CheckStepType DEF VerifyProceeds, VerifyFails
<1>7. ASSUME NEW b \in Banks, NEW st \in {"OPEN", "CLOSE"}, PageChanges(b, st)
      PROVE  JobsTypeOK' /\ closing' \in [Slots -> Messages \cup {NoMessage}]
  BY <1>7 DEF PageChanges, JobsTypeOK, PageRows
<1>8. ASSUME NEW steps \in 0 .. 4, BotRestart(steps)
      PROVE  JobsTypeOK' /\ closing' \in [Slots -> Messages \cup {NoMessage}]
  BY <1>8 DEF BotRestart, JobsLost, JobsTypeOK, TimelineStates
<1>9. CASE UNCHANGED botVars
  BY <1>9 DEF botVars, jobVars, JobsTypeOK
<1>. QED  BY <1>1, <1>2, <1>3, <1>4, <1>5, <1>6, <1>7, <1>8, <1>9, ClosedLoadedType
          DEF BotNext, ExecutionProceeds, AwaitedFails, BotResolveStarts,
              BotResolveProceeds, BotResolveFails, BotCleanup, BotTick, allVars

(***************************************************************************)
(* The whole bot keeps its types, whatever overlaps and fails: its tables, *)
(* its timers, the ticks in progress and the timelines.                    *)
(***************************************************************************)
THEOREM BotTypeCorrect == BotSpec => []BotTypeOK
BY BotInitType, BotNextType, PTL DEF BotSpec

-----------------------------------------------------------------------------
\* The promises of the pipeline, in the whole bot.

LEMMA CountedInBot ==
    ASSUME TypeOK, TypeOK', CountedEventStored, PipelineStep
    PROVE  CountedEventStored'
<1>1. ASSUME NEW s \in Slots, NEW i \in EventIds, NEW e \in Banks,
             NEW status \in Statuses, Execute(s, i, e, status)
      PROVE  CountedEventStored'
  <2>1. ASSUME NEW t \in Slots, pc'[t] \in Counted
        PROVE  pc[t] \in Counted /\ event'[t] = event[t]
    BY <1>1, <2>1 DEF Execute, Counted, TypeOK, ProcessTypeOK
  <2>. QED  BY <1>1, <2>1 DEF Execute, tables, CountedEventStored
<1>2. CASE Files
  BY <1>2 DEF Files, processVars, CountedEventStored
<1>. QED  BY <1>1, <1>2, CountedEventStoredStep DEF PipelineStep, Starts

LEMMA ResolveTargetsInBot ==
    ASSUME TypeOK, ResolveTargetsExist, PipelineStep
    PROVE  ResolveTargetsExist'
<1>1. CASE Starts
  BY <1>1 DEF Starts, Execute, tables, resolveVars, ResolveTargetsExist
<1>2. CASE Files
  <2>1. \A e \in Entities : incidents[e] # "none" => incidents'[e] # "none"
    BY <1>2 DEF Files, WithOpen, TypeOK, TablesTypeOK
  <2>. QED  BY <1>2, <2>1
            DEF Files, resolveVars, ResolveTargetsExist, TypeOK, ResolveTypeOK
<1>. QED  BY <1>1, <1>2, ResolveTargetsStep DEF PipelineStep

(***************************************************************************)
(* In the whole bot too an execution that counted a closure finds it       *)
(* stored with its own time, although the handler and the recovery job     *)
(* start executions as they please.                                        *)
(***************************************************************************)
THEOREM BotCountsStoredEvents == BotSpec => []CountedEventStored
<1>1. BotInit => CountedEventStored
  BY DEF BotInit, Init, ProcessInit, CountedEventStored, Counted
<1>2. BotTypeOK /\ BotTypeOK' /\ CountedEventStored /\ [BotNext]_allVars
          => CountedEventStored'
  BY BotStepIsPipelineStep, CountedInBot DEF BotTypeOK
<1>. QED  BY <1>1, <1>2, BotTypeCorrect, PTL DEF BotSpec

(***************************************************************************)
(* In the whole bot too the resolve job never saves an incident whose row  *)
(* is gone: the incidents the verification job opens stay as well.         *)
(***************************************************************************)
THEOREM BotResolveTargetsExist == BotSpec => []ResolveTargetsExist
<1>1. BotInit => ResolveTargetsExist
  BY DEF BotInit, Init, ResolveInit, ResolveTargetsExist
<1>2. BotTypeOK /\ ResolveTargetsExist /\ [BotNext]_allVars => ResolveTargetsExist'
  BY BotStepIsPipelineStep, ResolveTargetsInBot DEF BotTypeOK
<1>. QED  BY <1>1, <1>2, BotTypeCorrect, PTL DEF BotSpec

(***************************************************************************)
(* In the whole bot too only time and a restart take a closure out of the  *)
(* resolve job's count.                                                    *)
(***************************************************************************)
THEOREM BotKeepsCountableEvents == BotSpec => NoCountableEventLost
<1>1. ASSUME BotTypeOK, [BotNext]_allVars
      PROVE  [\/ Tick
              \/ \E steps \in 0 .. 4 : Restart(steps)
              \/ \A e \in Entities :
                     RecentIds(e, StableOpen) \subseteq RecentIds(e, StableOpen)']_vars
  <2>1. CASE Starts \/ Files
    BY <2>1 DEF Starts, Execute, Files, tables, RecentIds
  <2>2. CASE Next
    BY <1>1, <2>2, CountableEventKept DEF BotTypeOK
  <2>. QED  BY <1>1, <2>1, <2>2, BotStepIsPipelineStep DEF PipelineStep
<1>. QED  BY <1>1, BotTypeCorrect, PTL DEF BotSpec, NoCountableEventLost

(***************************************************************************)
(* In the whole bot too the resolve job never decides against a closure    *)
(* that an execution is raising an incident on.                            *)
(***************************************************************************)
THEOREM BotDecisionsSeeRaises == BotSpec => NoResolveDecisionDuringRaise
<1>1. ASSUME BotTypeOK, CountedEventStored, [BotNext]_allVars
      PROVE  [\A r \in Runs, s \in Slots :
                (/\ saving[r] = NoEntity
                 /\ saving'[r] # NoEntity
                 /\ pc[s] \in Counted
                 /\ event[s].age <= StableOpen)
                => event[s].entity # saving'[r]]_vars
  <2>1. CASE Starts \/ Files
    BY <2>1 DEF Starts, Files, resolveVars
  <2>2. CASE Next
    BY <1>1, <2>2, DecisionSeesRaise DEF BotTypeOK
  <2>. QED  BY <1>1, <2>1, <2>2, BotStepIsPipelineStep DEF PipelineStep
<1>. QED  BY <1>1, BotTypeCorrect, BotCountsStoredEvents, PTL
          DEF BotSpec, NoResolveDecisionDuringRaise

-----------------------------------------------------------------------------
\* A confirmed bank has an incident.

Creating(b) ==
    \E c \in Checks : /\ check[c] # NoCheck
                      /\ check[c].bank = b
                      /\ check[c].at = "create"

\* Only a confirmation leads to the state of that name.
LEMMA TrackConfirms ==
    ASSUME NEW current, NEW decision \in Decisions,
           Track(current, decision) = "CONFIRMED_INCIDENT"
    PROVE  current = "CONFIRMED_INCIDENT" \/ decision = "CONFIRMED_INCIDENT"
BY DEF Track, Transition, Decisions

\* Without a restart an incident's row is there for good.
LEMMA IncidentStays ==
    ASSUME ~Faults, TypeOK, PipelineStep, NEW e \in Entities, incidents[e] # "none"
    PROVE  incidents'[e] # "none"
<1>1. ASSUME NEW s \in Slots, Proceed(s)
      PROVE  incidents'[e] # "none"
  BY <1>1 DEF Proceed, Step, GetState, SetState, Append, Evaluate, HasOpen, Create,
              Notify, tables, WithOpen, TypeOK, TablesTypeOK
<1>2. ASSUME NEW r \in Runs, ResolveProceeds(r)
      PROVE  incidents'[e] # "none"
  BY <1>2 DEF ResolveProceeds, ResolveStep, ResolveCount, ResolveSave, tables,
              WithResolved, TypeOK, TablesTypeOK
<1>3. CASE Next
  BY <1>1, <1>2, <1>3
     DEF Next, Arrive, Execute, ExecutionFails, ResolveStarts, ResolveList,
         ResolveFails, CleanupRuns, Cleanup, Tick, Restart, tables
<1>4. CASE Starts \/ Files \/ UNCHANGED vars
  BY <1>4 DEF Starts, Execute, Files, WithOpen, vars, tables, TypeOK, TablesTypeOK
<1>. QED  BY <1>3, <1>4 DEF PipelineStep

LEMMA ConfirmedStep ==
    ASSUME ~Faults, BotTypeOK, ConfirmedHasIncident, [BotNext]_allVars
    PROVE  ConfirmedHasIncident'
<1>. SUFFICES ASSUME NEW b \in Banks, timeline'[b] = "CONFIRMED_INCIDENT"
              PROVE  incidents'[Abbreviation[b]] # "none" \/ Creating(b)'
  BY DEF ConfirmedHasIncident, Creating
<1>0. /\ Abbreviation[b] \in Entities
      /\ incidents[Abbreviation[b]] # "none" => incidents'[Abbreviation[b]] # "none"
  BY AbbreviationAssumption, BotStepIsPipelineStep, IncidentStays DEF BotTypeOK
<1>1. timeline[b] = "CONFIRMED_INCIDENT"
          => incidents'[Abbreviation[b]] # "none" \/ Creating(b)
  BY <1>0 DEF ConfirmedHasIncident, Creating
<1>2. ASSUME UNCHANGED check, timeline[b] = "CONFIRMED_INCIDENT"
      PROVE  incidents'[Abbreviation[b]] # "none" \/ Creating(b)'
  BY <1>1, <1>2 DEF Creating
<1>3. ASSUME NEW c \in Checks, CheckProceeds(c)
      PROVE  incidents'[Abbreviation[b]] # "none" \/ Creating(b)'
  <2>1. ASSUME NEW level, NEW hasComplaint, NEW errorsIncreasing,
               CheckDecides(c, level, hasComplaint, errorsIncreasing)
        PROVE  incidents'[Abbreviation[b]] # "none" \/ Creating(b)'
    <3>. DEFINE a == check[c].bank
                decision == Decide(level, hasComplaint,
                                   HasOpenIncident(FiledUnder(a)), errorsIncreasing)
    <3>1. /\ check[c] \in CheckRecords /\ check[c].at = "decide"
          /\ a \in Banks /\ decision \in Decisions
      BY <2>1, CheckRecord DEF CheckDecides, BotTypeOK, Decide, Decisions
    <3>. HIDE DEF decision
    <3>2. /\ timeline' = [timeline EXCEPT ![a] = Track(@, decision)]
          /\ decision = "CONFIRMED_INCIDENT" =>
                 check' = [check EXCEPT ![c].at = "create"]
          /\ \A d \in Checks : d # c => check'[d] = check[d]
      BY <2>1 DEF CheckDecides, Conclude, EndCheck, BotTypeOK, JobsTypeOK, decision
    <3>3. CASE timeline[b] = "CONFIRMED_INCIDENT"
      <4>1. ASSUME NEW d \in Checks, check[d] # NoCheck, check[d].bank = b,
                   check[d].at = "create"
            PROVE  check'[d] = check[d]
        BY <3>1, <3>2, <4>1
      <4>. QED  BY <1>1, <3>3, <4>1 DEF Creating
    <3>4. CASE timeline[b] # "CONFIRMED_INCIDENT"
      <4>1. a = b /\ decision = "CONFIRMED_INCIDENT"
        BY <3>1, <3>2, <3>4, TrackConfirms DEF BotTypeOK, JobsTypeOK
      <4>2. check'[c] = [check[c] EXCEPT !.at = "create"]
        BY <3>2, <4>1 DEF BotTypeOK, JobsTypeOK
      <4>3. /\ check'[c] # NoCheck
            /\ check'[c].bank = b
            /\ check'[c].at = "create"
        BY <3>1, <4>1, <4>2, NoCheckAssumption DEF CheckRecords
      <4>. QED  BY <4>3 DEF Creating
    <3>. QED  BY <3>3, <3>4
  <2>2. CASE CheckCreates(c) /\ check[c].bank = b
    BY <1>0, <2>2
       DEF CheckCreates, FiledUnder, WithOpen, BotTypeOK, TypeOK, TablesTypeOK
  <2>3. CASE CheckCreates(c) /\ check[c].bank # b
    BY <1>1, <2>3 DEF CheckCreates, Creating, BotTypeOK, JobsTypeOK
  <2>4. CASE CheckNotifies(c)
    BY <1>1, <2>4 DEF CheckNotifies, Conclude, EndCheck, Creating, BotTypeOK, JobsTypeOK
  <2>. QED  BY <1>3, <2>1, <2>2, <2>3, <2>4 DEF CheckProceeds
<1>4. ASSUME NEW s \in Slots, ClosedLoaded(s)
      PROVE  UNCHANGED check /\ timeline[b] = "CONFIRMED_INCIDENT"
  BY <1>4 DEF ClosedLoaded, Transition, BotTypeOK, JobsTypeOK
<1>5. ASSUME NEW s \in Slots, NEW i \in EventIds, NEW a \in Banks, Recover(s, i, a)
      PROVE  UNCHANGED check /\ timeline[b] = "CONFIRMED_INCIDENT"
  BY <1>5 DEF Recover, RecoveryTick, TrackOpen, Transition, BotTypeOK, JobsTypeOK
<1>6. ASSUME NEW c \in Checks, NEW a \in Banks, Verify(c, a)
      PROVE  incidents'[Abbreviation[b]] # "none" \/ Creating(b)'
  <2>1. \A d \in Checks : check[d] # NoCheck => check'[d] = check[d]
    BY <1>6 DEF Verify, VerificationTick, BotTypeOK, JobsTypeOK
  <2>. QED  BY <1>1, <1>6, <2>1 DEF Verify, VerificationTick, Creating
<1>7. ASSUME NEW s \in Slots, NEW i \in EventIds, NEW a \in Banks,
             HandleClosed(s, i, a) \/ HandleOpen(s, i, a)
      PROVE  UNCHANGED check /\ timeline[b] = "CONFIRMED_INCIDENT"
  BY <1>7 DEF HandleClosed, HandleOpen, jobVars
<1>8. ASSUME NEW a \in Banks, NEW st \in {"OPEN", "CLOSE"}, PageChanges(a, st)
      PROVE  UNCHANGED check /\ timeline[b] = "CONFIRMED_INCIDENT"
  BY <1>8 DEF PageChanges
<1>9. CASE UNCHANGED botVars
  BY <1>2, <1>9 DEF botVars, jobVars
<1>. QED  BY <1>2, <1>3, <1>4, <1>5, <1>6, <1>7, <1>8, <1>9
          DEF BotNext, HandlerFails, ExecutionProceeds, AwaitedFails, VerifyProceeds,
              VerifyFails, BotResolveStarts, BotResolveProceeds, BotResolveFails,
              BotCleanup, BotTick, BotRestart, Restart, ResolveFails, allVars

(***************************************************************************)
(* A bank whose timeline says CONFIRMED_INCIDENT has an incident or is     *)
(* about to get it, however messages, jobs and ticks overlap, as long as   *)
(* no database call fails: the call that fails is the one that would have  *)
(* created it.                                                             *)
(***************************************************************************)
THEOREM ConfirmedBanksHaveIncidents ==
    ASSUME ~Faults
    PROVE  BotSpec => []ConfirmedHasIncident
<1>1. BotInit => ConfirmedHasIncident
  BY DEF BotInit, JobsInit, ConfirmedHasIncident
<1>2. BotTypeOK /\ ConfirmedHasIncident /\ [BotNext]_allVars => ConfirmedHasIncident'
  BY ConfirmedStep
<1>. QED  BY <1>1, <1>2, BotTypeCorrect, PTL DEF BotSpec

-----------------------------------------------------------------------------
\* A closed bank is watched and shown, when messages do not overlap.

Working(s) == pc[s] # "idle" \/ closing[s] # NoMessage

OneMessageAtATime ==
    /\ \A s, t \in Slots : Working(s) /\ Working(t) => s = t
    /\ \A s \in Slots : pc[s] = "idle" \/ closing[s] = NoMessage

\* The execution of a message that has yet to reach the bank's row.
InHand(s, b) ==
    pc[s] \in {"get", "setOnly", "setCounted"} /\ event[s].entity = b

\* The bank's row says CLOSED, or will when the message in hand has reached it.
Closing(b) ==
    \/ \E s \in Slots : InHand(s, b) /\ event[s].status = "CLOSED"
    \/ monitoringState[b] = "CLOSED" /\ \A s \in Slots : ~InHand(s, b)

\* What is closed in this sense, and no other bank, is watched from the moment
\* the handler starts or stops the jobs; and it is not shown as NORMAL.
WatchInv ==
    /\ OneMessageAtATime
    /\ \A b \in Banks : b \in recovering <=> Closing(b)
    /\ \A b \in Banks : Closing(b) => timeline[b] # "NORMAL"

LEMMA NothingInHand ==
    ASSUME \A s \in Slots : pc[s] = "idle", NEW b
    PROVE  Closing(b) <=> monitoringState[b] = "CLOSED"
BY DEF Closing, InHand

LEMMA OneInHand ==
    ASSUME NEW s \in Slots, pc[s] \in {"get", "setOnly", "setCounted"},
           \A t \in Slots : t # s => pc[t] = "idle", NEW b
    PROVE  Closing(b) <=> \/ event[s].entity = b /\ event[s].status = "CLOSED"
                          \/ event[s].entity # b /\ monitoringState[b] = "CLOSED"
BY DEF Closing, InHand

LEMMA NoneInHandAnyMore ==
    ASSUME NEW s \in Slots, pc[s] \notin {"get", "setOnly", "setCounted"},
           \A t \in Slots : t # s => pc[t] = "idle", NEW b
    PROVE  Closing(b) <=> monitoringState[b] = "CLOSED"
BY DEF Closing, InHand

\* A message is given to execute when no other is in progress: from there on
\* its word is the bank's.
LEMMA ExecuteWatched ==
    ASSUME BotTypeOK, NEW s \in Slots, NEW i \in EventIds, NEW b \in Banks,
           NEW status \in Statuses, Execute(s, i, b, status),
           \A t \in Slots : t # s => ~Working(t),
           closing'[s] = NoMessage, \A t \in Slots : t # s => closing'[t] = closing[t]
    PROVE  /\ OneMessageAtATime'
           /\ \A x \in Banks :
                  Closing(x)' <=> \/ x = b /\ status = "CLOSED"
                                  \/ x # b /\ Closing(x)
<1>1. /\ pc[s] = "idle" /\ pc'[s] = "get"
      /\ \A t \in Slots : t # s => pc'[t] = "idle" /\ pc[t] = "idle"
      /\ monitoringState' = monitoringState
      /\ event'[s] = [id |-> i, entity |-> b, status |-> status, age |-> 0]
  BY DEF Execute, Working, tables, BotTypeOK, TypeOK, ProcessTypeOK
<1>2. OneMessageAtATime'
  BY <1>1 DEF OneMessageAtATime, Working
<1>3. \A x \in Banks : Closing(x) <=> monitoringState[x] = "CLOSED"
  BY <1>1 DEF Closing, InHand
<1>4. \A x \in Banks :
          Closing(x)' <=> \/ x = b /\ status = "CLOSED"
                          \/ x # b /\ monitoringState[x] = "CLOSED"
  BY <1>1 DEF Closing, InHand
<1>. QED  BY <1>2, <1>3, <1>4

LEMMA ClosedLoadedWatched ==
    ASSUME BotTypeOK, WatchInv, NEW s \in Slots, ClosedLoaded(s)
    PROVE  WatchInv'
<1>. DEFINE b == closing[s].bank
<1>1. closing[s] # NoMessage /\ closing[s].id \in EventIds /\ b \in Banks
  BY DEF ClosedLoaded, BotTypeOK, Messages
<1>2. \A t \in Slots : pc[t] = "idle"
  BY <1>1 DEF WatchInv, OneMessageAtATime, Working
<1>3. /\ OneMessageAtATime'
      /\ \A x \in Banks : Closing(x)' <=> x = b \/ Closing(x)
  <2>1. /\ closing'[s] = NoMessage
        /\ \A t \in Slots : t # s => closing'[t] = closing[t] /\ ~Working(t)
    BY <1>1 DEF ClosedLoaded, WatchInv, OneMessageAtATime, Working, BotTypeOK
  <2>2. Execute(s, closing[s].id, b, "CLOSED")
    BY DEF ClosedLoaded
  <2>. QED  BY <1>1, <2>1, <2>2, ExecuteWatched DEF Statuses
<1>4. Closing(b) <=> monitoringState[b] = "CLOSED"
  BY <1>2, NothingInHand
<1>5. CASE /\ NeedsJobs(monitoringState[b])
           /\ timeline' = [timeline EXCEPT ![b] = Transition(@, "CLOSE")]
           /\ StartJobs(b)
  <2>1. Transition(timeline[b], "CLOSE") # "NORMAL"
    BY <1>1 DEF Transition, allowedTransitions, BotTypeOK, JobsTypeOK
  <2>2. \A x \in Banks : /\ x # b => timeline'[x] = timeline[x]
                         /\ x \in recovering' <=> x = b \/ x \in recovering
    BY <1>5 DEF StartJobs, BotTypeOK, JobsTypeOK
  <2>3. timeline'[b] # "NORMAL"
    BY <1>1, <1>5, <2>1 DEF BotTypeOK, JobsTypeOK
  <2>. QED  BY <1>3, <2>2, <2>3 DEF WatchInv
<1>6. CASE /\ ~NeedsJobs(monitoringState[b])
           /\ UNCHANGED <<timeline, recovering, verifying, page>>
  BY <1>1, <1>3, <1>4, <1>6 DEF NeedsJobs, WatchInv
<1>. QED  BY <1>5, <1>6 DEF ClosedLoaded, StateOf

LEMMA OpenedWatched ==
    ASSUME ~Overlap, BotTypeOK, WatchInv, NEW s \in Slots, NEW i \in EventIds,
           NEW b \in Banks, HandleOpen(s, i, b) \/ Recover(s, i, b)
    PROVE  WatchInv'
<1>1. /\ Execute(s, i, b, "OPEN")
      /\ UNCHANGED closing
      /\ \A t \in Slots : closing[t] = NoMessage /\ pc[t] = "idle"
  BY DEF HandleOpen, Recover, RecoveryTick, MayBegin, BotQuiet, Quiet
<1>2. /\ OneMessageAtATime'
      /\ \A x \in Banks : Closing(x)' <=> x # b /\ Closing(x)
  <2>1. \A t \in Slots : ~Working(t)
    BY <1>1 DEF Working
  <2>. QED  BY <1>1, <2>1, ExecuteWatched DEF Statuses
<1>3. \A x \in Banks : /\ x # b => timeline'[x] = timeline[x]
                       /\ x \in recovering' <=> x # b /\ x \in recovering
  BY DEF HandleOpen, StopJobs, Recover, RecoveryTick, BotTypeOK, JobsTypeOK
<1>. QED  BY <1>2, <1>3 DEF WatchInv

LEMMA ProceedWatched ==
    ASSUME BotTypeOK, WatchInv, NEW s \in Slots, ExecutionProceeds(s)
    PROVE  WatchInv'
<1>. DEFINE e == event[s].entity
<1>1. pc[s] # "idle" /\ Step(s) /\ UNCHANGED botVars
  BY DEF ExecutionProceeds, Proceed, Step, GetState, SetState, Append, Evaluate,
         HasOpen, Create, Notify
<1>2. event[s] \in Events /\ e \in Entities
  BY <1>1, BusyEvent DEF BotTypeOK, TypeOK
<1>3. \A t \in Slots : t # s => pc[t] = "idle" /\ closing[t] = NoMessage
  BY <1>1 DEF WatchInv, OneMessageAtATime, Working
<1>4. closing[s] = NoMessage
  BY <1>1 DEF WatchInv, OneMessageAtATime
<1>5. Return(s) \/ \E l \in Locations : Goto(s, l)
  BY <1>1 DEF Step, GetState, SetState, Append, Evaluate, HasOpen, Create, Notify,
              Locations, Counted
<1>6. \A t \in Slots : t # s => pc'[t] = "idle"
  BY <1>3, <1>5 DEF Return, Goto, BotTypeOK, TypeOK, ProcessTypeOK
<1>7. OneMessageAtATime'
  BY <1>1, <1>3, <1>4, <1>6 DEF OneMessageAtATime, Working, botVars
<1>8. \A b \in Banks : Closing(b)' <=> Closing(b)
  <2>1. CASE GetState(s)
    <3>1. CASE Return(s)
      <4>1. monitoringState[e] = event[s].status
        BY <2>1, <3>1 DEF GetState, StateOf, Return, Goto, BotTypeOK, TypeOK, ProcessTypeOK
      <4>2. /\ \A t \in Slots : pc'[t] = "idle"
            /\ monitoringState' = monitoringState
        BY <1>6, <2>1, <3>1
           DEF GetState, Return, tables, BotTypeOK, TypeOK, ProcessTypeOK
      <4>3. \A b \in Banks : Closing(b)' <=> monitoringState[b] = "CLOSED"
        BY <4>2 DEF Closing, InHand
      <4>. QED  BY <1>3, <2>1, <4>1, <4>3, OneInHand DEF GetState
    <3>2. CASE Goto(s, "setOnly") \/ Goto(s, "setCounted")
      <4>1. /\ pc'[s] \in {"setOnly", "setCounted"}
            /\ UNCHANGED <<event, monitoringState>>
        BY <2>1, <3>2 DEF GetState, Goto, tables, BotTypeOK, TypeOK, ProcessTypeOK
      <4>2. pc[s] = "get"
        BY <2>1 DEF GetState
      <4>. QED  BY <1>3, <1>6, <4>1, <4>2 DEF Closing, InHand
    <3>. QED  BY <2>1, <3>1, <3>2 DEF GetState
  <2>2. CASE SetState(s)
    <3>1. monitoringState' = [monitoringState EXCEPT ![e] = event[s].status]
      BY <1>2, <2>2 DEF SetState, WithState, MapToIncidentStatus, Events, Statuses
    <3>2. pc[s] \in {"setOnly", "setCounted"} /\ pc'[s] \in {"idle", "append"}
      BY <2>2 DEF SetState, Return, Goto, BotTypeOK, TypeOK, ProcessTypeOK
    <3>3. \A b \in Banks : Closing(b)' <=> monitoringState'[b] = "CLOSED"
      BY <1>6, <3>2 DEF Closing, InHand
    <3>4. \A b \in Banks :
              monitoringState'[b] = "CLOSED" <=>
                  \/ e = b /\ event[s].status = "CLOSED"
                  \/ e # b /\ monitoringState[b] = "CLOSED"
      BY <3>1, BanksAssumption DEF BotTypeOK, TypeOK, TablesTypeOK
    <3>. QED  BY <1>3, <3>2, <3>3, <3>4, OneInHand
  <2>3. CASE Append(s) \/ Evaluate(s) \/ HasOpen(s) \/ Create(s) \/ Notify(s)
    <3>1. /\ pc[s] \notin {"get", "setOnly", "setCounted"}
          /\ pc'[s] \notin {"get", "setOnly", "setCounted"}
          /\ monitoringState' = monitoringState
      BY <2>3 DEF Append, Evaluate, HasOpen, Create, Notify, Return, Goto, tables,
                  BotTypeOK, TypeOK, ProcessTypeOK
    <3>. QED  BY <1>3, <1>6, <3>1 DEF Closing, InHand
  <2>. QED  BY <1>1, <2>1, <2>2, <2>3 DEF Step
<1>. QED  BY <1>1, <1>7, <1>8 DEF WatchInv, botVars, jobVars

\* The steps of everything else leave messages, rows and timers alone.
LEMMA OthersWatched ==
    ASSUME WatchInv, OneMessageAtATime', UNCHANGED <<monitoringState, recovering>>,
           \/ UNCHANGED <<pc, event>>
           \/ \A s \in Slots : pc[s] = "idle" /\ pc'[s] = "idle",
           \A b \in Banks : timeline'[b] = "NORMAL" => timeline[b] = "NORMAL"
    PROVE  WatchInv'
<1>1. \A b \in Banks : Closing(b)' <=> Closing(b)
  BY DEF Closing, InHand
<1>. QED  BY <1>1 DEF WatchInv

LEMMA WatchStep ==
    ASSUME ~Overlap, ~Faults, BotTypeOK, WatchInv, [BotNext]_allVars
    PROVE  WatchInv'
<1>1. ASSUME NEW s \in Slots, NEW i \in EventIds, NEW b \in Banks,
             HandleClosed(s, i, b)
      PROVE  WatchInv'
  <2>1. OneMessageAtATime'
    BY <1>1 DEF HandleClosed, MayBegin, BotQuiet, Quiet, OneMessageAtATime, Working,
                vars, processVars, BotTypeOK
  <2>. QED  BY <1>1, <2>1, OthersWatched
            DEF HandleClosed, vars, tables, processVars, jobVars
<1>2. ASSUME NEW c \in Checks, VerifyProceeds(c)
      PROVE  WatchInv'
  <2>1. UNCHANGED <<processVars, monitoringState, recovering, closing>>
    BY <1>2 DEF VerifyProceeds, CheckProceeds, CheckDecides, CheckCreates,
                CheckNotifies, tables
  <2>2. ASSUME NEW level, NEW hasComplaint, NEW errorsIncreasing,
               CheckDecides(c, level, hasComplaint, errorsIncreasing)
        PROVE  \A b \in Banks : timeline'[b] = "NORMAL" => timeline[b] = "NORMAL"
    <3>1. \A current, decision :
              decision \in Decisions /\ Track(current, decision) = "NORMAL"
                  => current = "NORMAL"
      BY DEF Track, Transition, Decisions
    <3>. DEFINE a == check[c].bank
                decision == Decide(level, hasComplaint,
                                   HasOpenIncident(FiledUnder(a)), errorsIncreasing)
    <3>2. decision \in Decisions
      BY DEF Decide, Decisions
    <3>. HIDE DEF decision
    <3>3. timeline' = [timeline EXCEPT ![a] = Track(@, decision)]
      BY <2>2 DEF CheckDecides, decision
    <3>. QED  BY <3>1, <3>2, <3>3 DEF BotTypeOK, JobsTypeOK
  <2>3. \A b \in Banks : timeline'[b] = "NORMAL" => timeline[b] = "NORMAL"
    BY <1>2, <2>2 DEF VerifyProceeds, CheckProceeds, CheckCreates, CheckNotifies
  <2>4. OneMessageAtATime'
    BY <2>1 DEF WatchInv, OneMessageAtATime, Working, processVars
  <2>. QED  BY <2>1, <2>3, <2>4, OthersWatched DEF processVars
<1>3. ASSUME UNCHANGED <<processVars, monitoringState, recovering, timeline, closing>>
      PROVE  WatchInv'
  <2>1. OneMessageAtATime'
    BY <1>3 DEF WatchInv, OneMessageAtATime, Working, processVars
  <2>. QED  BY <1>3, <2>1, OthersWatched DEF processVars
<1>4. CASE BotTick
  <2>1. \A s \in Slots : pc[s] = "idle" /\ pc'[s] = "idle"
    BY <1>4 DEF BotTick, Tick, MayBegin, BotQuiet, Quiet
  <2>2. OneMessageAtATime'
    BY <1>4, <2>1
       DEF BotTick, botVars, WatchInv, OneMessageAtATime, Working
  <2>. QED  BY <1>4, <2>1, <2>2, OthersWatched DEF BotTick, Tick, botVars, jobVars
<1>5. ASSUME NEW c \in Checks, NEW b \in Banks, Verify(c, b)
      PROVE  WatchInv'
  BY <1>3, <1>5 DEF Verify, VerificationTick, tables
<1>6. ASSUME NEW r \in Runs, BotResolveStarts(r) \/ BotResolveProceeds(r)
      PROVE  WatchInv'
  BY <1>3, <1>6
     DEF BotResolveStarts, BotResolveProceeds, ResolveStarts, ResolveList,
         ResolveProceeds, ResolveStep, ResolveCount, ResolveSave, tables, botVars,
         jobVars
<1>7. CASE BotCleanup
  BY <1>3, <1>7 DEF BotCleanup, CleanupRuns, Cleanup, botVars, jobVars
<1>8. ASSUME NEW b \in Banks, NEW st \in {"OPEN", "CLOSE"}, PageChanges(b, st)
      PROVE  WatchInv'
  BY <1>3, <1>8 DEF PageChanges, vars, tables
<1>9. CASE UNCHANGED allVars
  BY <1>3, <1>9 DEF allVars, vars, tables, botVars, jobVars
<1>. QED  BY <1>1, <1>2, <1>4, <1>5, <1>6, <1>7, <1>8, <1>9, ClosedLoadedWatched,
             OpenedWatched, ProceedWatched
          DEF BotNext, HandlerFails, AwaitedFails, ExecutionFails, VerifyFails,
              BotResolveFails, ResolveFails, BotRestart, Restart

LEMMA WatchInvariant ==
    ASSUME ~Overlap, ~Faults
    PROVE  BotSpec => []WatchInv
<1>1. BotInit => WatchInv
  <2>. SUFFICES ASSUME BotInit
                PROVE  WatchInv
    OBVIOUS
  <2>1. OneMessageAtATime /\ \A s \in Slots : pc[s] = "idle"
    BY DEF BotInit, Init, ProcessInit, OneMessageAtATime, Working
  <2>2. \A b \in Banks : monitoringState[b] = "OPEN" /\ b \notin recovering
    BY BanksAssumption DEF BotInit, Init, SeededState, JobsInit
  <2>. QED  BY <2>1, <2>2, NothingInHand DEF WatchInv
<1>2. BotTypeOK /\ WatchInv /\ [BotNext]_allVars => WatchInv'
  BY WatchStep
<1>. QED  BY <1>1, <1>2, BotTypeCorrect, PTL DEF BotSpec

(***************************************************************************)
(* One message or tick at a time and no failing call: a bank is watched    *)
(* for its reopening exactly while its row says CLOSED.                    *)
(***************************************************************************)
THEOREM ClosedBanksAreWatched ==
    ASSUME ~Overlap, ~Faults
    PROVE  BotSpec => []WatchFollowsState
<1>1. BotTypeOK /\ WatchInv => WatchFollowsState
  BY NothingInHand DEF WatchInv, WatchFollowsState, BotQuiet, Quiet, BotTypeOK, JobsTypeOK
<1>. QED  BY <1>1, BotTypeCorrect, WatchInvariant, PTL

(***************************************************************************)
(* Under the same conditions a bank whose row says CLOSED is not shown as  *)
(* NORMAL, whatever the verification has decided about it.                 *)
(***************************************************************************)
THEOREM ClosedBanksAreShown ==
    ASSUME ~Overlap, ~Faults
    PROVE  BotSpec => []ClosedIsShown
<1>1. WatchInv => ClosedIsShown
  BY NothingInHand DEF WatchInv, ClosedIsShown, BotQuiet, Quiet
<1>. QED  BY <1>1, WatchInvariant, PTL

=============================================================================
