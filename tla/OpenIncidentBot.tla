---------------------------- MODULE OpenIncidentBot ----------------------------
(***************************************************************************)
(* The whole bot: messages reach BifastMessageHandler, which starts and    *)
(* stops the two jobs of a bank and hands the message to execute; the      *)
(* incident pipeline, the two jobs, the resolve job and the cleanup job    *)
(* share the tables.                                                       *)
(***************************************************************************)
EXTENDS IncidentLifecycle, BifastJobs

CONSTANT NoMessage  \* what a slot without a message to look at holds

VARIABLE closing    \* the CLOSED message a slot awaits the previous state for

botVars == <<jobVars, closing>>
allVars == <<vars, botVars>>

Messages == [id : EventIds, bank : Banks]

ASSUME NoMessageAssumption == NoMessage \notin Messages

BotTypeOK ==
    /\ TypeOK
    /\ JobsTypeOK
    /\ closing \in [Slots -> Messages \cup {NoMessage}]

BotInit ==
    /\ Init
    /\ JobsInit
    /\ closing = [s \in Slots |-> NoMessage]

BotQuiet == /\ Quiet
            /\ \A s \in Slots : closing[s] = NoMessage
            /\ \A c \in Checks : check[c] = NoCheck

MayBegin == Overlap \/ BotQuiet

-----------------------------------------------------------------------------
\* BifastMessageHandler.handle, for the messages that parse as a state.

\* A CLOSED message: the handler asks for the bank's state first.
HandleClosed(s, i, b) ==
    /\ MayBegin
    /\ pc[s] = "idle" /\ closing[s] = NoMessage
    /\ SameMessage(i, b)
    /\ closing' = [closing EXCEPT ![s] = [id |-> i, bank |-> b]]
    /\ UNCHANGED <<vars, jobVars>>

NeedsJobsUnlessOpen(prev) == prev = "none"  \* mutant: only for an unknown bank
NeedsJobs(prev) == prev # "CLOSED"

\* The state it asked for arrives.  If the bank was not closed the two jobs
\* are started; in the same step the message is executed.
ClosedLoaded(s) ==
    /\ closing[s] # NoMessage
    /\ LET b == closing[s].bank
       IN  /\ \/ /\ NeedsJobs(StateOf(b))
                 /\ timeline' = [timeline EXCEPT ![b] = Transition(@, "CLOSE")]
                 /\ StartJobs(b)
              \/ /\ ~NeedsJobs(StateOf(b))
                 /\ UNCHANGED <<timeline, recovering, verifying, page>>
           /\ Execute(s, closing[s].id, b, "CLOSED")
    /\ closing' = [closing EXCEPT ![s] = NoMessage]
    /\ detached' = detached \ {s}
    /\ UNCHANGED <<resolveVars, check>>

HandlerFails(s) ==
    /\ Faults
    /\ closing[s] # NoMessage
    /\ closing' = [closing EXCEPT ![s] = NoMessage]
    /\ UNCHANGED <<vars, jobVars>>

\* An OPEN message stops both jobs and is executed, with nothing in between.
HandleOpen(s, i, b) ==
    /\ MayBegin
    /\ closing[s] = NoMessage
    /\ SameMessage(i, b)
    /\ StopJobs(b)
    /\ Execute(s, i, b, "OPEN")
    /\ detached' = detached \ {s}
    /\ UNCHANGED <<resolveVars, closing, check, timeline, page>>

-----------------------------------------------------------------------------
\* The jobs, the rest of the process, and the world.

Recover(s, i, b) ==
    /\ MayBegin
    /\ closing[s] = NoMessage
    /\ SameMessage(i, b)
    /\ RecoveryTick(s, i, b)
    /\ UNCHANGED <<resolveVars, closing>>

Verify(c, b) ==
    MayBegin /\ VerificationTick(c, b) /\ UNCHANGED <<resolveVars, closing>>

VerifyProceeds(c) == CheckProceeds(c) /\ UNCHANGED <<resolveVars, closing>>

VerifyFails(c) == Faults /\ CheckFails(c) /\ UNCHANGED <<resolveVars, closing>>

\* The page changes, with a new UPDATED TIME.
PageChanges(b, st) ==
    /\ MayBegin
    /\ page' = [page EXCEPT ![b] = [status |-> st, fresh |-> TRUE]]
    /\ UNCHANGED <<vars, detached, recovering, verifying, check, timeline,
                   closing>>

\* An execution nobody awaits does not fail alone: its rejection ends the
\* process, which is BotRestart.
AwaitedFails(s) == s \notin detached /\ ExecutionFails(s) /\ UNCHANGED botVars

ExecutionProceeds(s) == Proceed(s) /\ UNCHANGED botVars

BotResolveStarts(r) == MayBegin /\ ResolveStarts(r) /\ UNCHANGED botVars

BotResolveProceeds(r) == ResolveProceeds(r) /\ UNCHANGED botVars

BotResolveFails(r) == ResolveFails(r) /\ UNCHANGED botVars

BotCleanup == MayBegin /\ CleanupRuns /\ UNCHANGED botVars

\* With Overlap = FALSE the clock stands still inside whatever is in progress.
BotTick == MayBegin /\ Tick /\ UNCHANGED botVars

BotRestart(steps) ==
    /\ Restart(steps)
    /\ JobsLost
    /\ closing' = [s \in Slots |-> NoMessage]

BotNext ==
    \/ \E s \in Slots, i \in EventIds, b \in Banks :
           HandleClosed(s, i, b) \/ HandleOpen(s, i, b) \/ Recover(s, i, b)
    \/ \E s \in Slots :
           \/ ClosedLoaded(s) \/ HandlerFails(s)
           \/ ExecutionProceeds(s) \/ AwaitedFails(s)
    \/ \E c \in Checks, b \in Banks : Verify(c, b)
    \/ \E c \in Checks : VerifyProceeds(c) \/ VerifyFails(c)
    \/ \E r \in Runs :
           BotResolveStarts(r) \/ BotResolveProceeds(r) \/ BotResolveFails(r)
    \/ BotCleanup
    \/ BotTick
    \/ \E b \in Banks, st \in {"OPEN", "CLOSE"} : PageChanges(b, st)
    \/ \E steps \in 0 .. 4 : BotRestart(steps)

BotSpec == BotInit /\ [][BotNext]_allVars

(***************************************************************************)
(* Fairness: what was begun goes on, and intervals fire.  Strong for what  *)
(* begins, since with Overlap = FALSE other work may be in progress, again *)
(* and again, at the very moment; the event loop runs a timer that is due  *)
(* all the same.                                                           *)
(***************************************************************************)
BotFairness ==
    /\ \A s \in Slots : WF_allVars(ExecutionProceeds(s) \/ ClosedLoaded(s))
    /\ \A r \in Runs : WF_allVars(BotResolveProceeds(r))
    /\ \A c \in Checks : WF_allVars(VerifyProceeds(c))
    /\ \A b \in Banks :
        /\ SF_allVars(\E s \in Slots, i \in EventIds : Recover(s, i, b))
        /\ SF_allVars(\E c \in Checks : Verify(c, b))

FairBotSpec == BotSpec /\ BotFairness

-----------------------------------------------------------------------------

(***************************************************************************)
(* A bank has a recovery timer exactly while its row says CLOSED, when     *)
(* nothing is in progress: a closed bank is watched, an open one is not    *)
(* (BiFastMessageHandler.ts:82-99, CloseRecoveryBiFastScheduler.ts:30-36). *)
(* With overlap or faults the code does not ensure it.                     *)
(***************************************************************************)
WatchFollowsState ==
    BotQuiet => recovering = {b \in Banks : monitoringState[b] = "CLOSED"}

(***************************************************************************)
(* A bank whose row says CLOSED is not shown as NORMAL by "/state", when   *)
(* nothing is in progress: an OPEN message leaves the timeline as it is,   *)
(* and a FALSE_POSITIVE, which a closure does not replace, is at least not *)
(* NORMAL (BiFastMessageHandler.ts:84-88, InMemoryIncidentStateMachine.ts: *)
(* 65-73, CloseRecoveryBiFastScheduler.ts:34-40).                          *)
(***************************************************************************)
ClosedIsShown ==
    BotQuiet => \A b \in Banks :
        monitoringState[b] = "CLOSED" => timeline[b] # "NORMAL"

(***************************************************************************)
(* A bank whose state in the timeline is CONFIRMED_INCIDENT has an         *)
(* incident, open or resolved, or a verification tick is about to create   *)
(* it: the tracker runs before the row is written                          *)
(* (AdvancedBifastVerifier.ts:34, VerifyBifastIncidentUseCase.ts:54).      *)
(***************************************************************************)
ConfirmedHasIncident ==
    \A b \in Banks : timeline[b] = "CONFIRMED_INCIDENT" =>
        \/ incidents[Abbreviation[b]] # "none"
        \/ \E c \in Checks : /\ check[c] # NoCheck
                             /\ check[c].bank = b
                             /\ check[c].at = "create"

(***************************************************************************)
(* "Prevent duplicate open incident": a bank has one open incident         *)
(* (ProcessMonitoringEvent.ts:150-158).                                    *)
(***************************************************************************)
OneOpenIncidentPerBank ==
    \A b \in Banks :
        HasOpenIncident(b) /\ HasOpenIncident(Abbreviation[b])
            => Abbreviation[b] = b

ClosingHeard(b) ==
    \/ \E s \in Slots : closing[s] # NoMessage /\ closing[s].bank = b
    \/ \E s \in Slots : /\ event[s] # NoEvent
                        /\ event[s].entity = b
                        /\ event[s].status = "CLOSED"

(***************************************************************************)
(* A closed bank that the page shows open since, and that no message says  *)
(* is closed, is opened again (CloseRecoveryBiFastScheduler.ts:25-41).     *)
(***************************************************************************)
RecoveredByPage ==
    \A b \in Banks :
        <>[](page[b] = [status |-> "OPEN", fresh |-> TRUE] /\ ~ClosingHeard(b))
            => <>[](monitoringState[b] = "OPEN")

(***************************************************************************)
(* The verification job of a bank that the page shows open stops, however  *)
(* the bank was opened (README.md, TODO; BifastVerificationJob.ts:41-46).  *)
(***************************************************************************)
VerificationStops ==
    \A b \in Banks :
        <>[](page[b].status = "OPEN" /\ ~ClosingHeard(b))
            => <>[](b \notin verifying)

=============================================================================
