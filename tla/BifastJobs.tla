------------------------------ MODULE BifastJobs ------------------------------
(***************************************************************************)
(* The two jobs a closed bank has: CloseRecoveryScheduler watches a page   *)
(* for its reopening, BifastVerificationJob decides once a minute whether  *)
(* the closure is an incident of its own.  A tick of either runs, in one   *)
(* step, up to its first await on the database: the page and the metrics   *)
(* are read from memory.  The jobs' timers are kept in maps by bank, and a *)
(* timer is in the map exactly while it is alive, so a set of banks stands *)
(* for each map (for the sessions too: they are set and deleted with it).  *)
(***************************************************************************)
EXTENDS ProcessMonitoringEvent, IncidentStateMachine, AdvancedBifastPolicy

CONSTANTS
    Abbreviation,   \* of each bank, a value of the column entity
    Checks,         \* verification ticks that may be in progress together
    NoCheck         \* what a verification tick that is not in progress holds

\* In bifastlist a bank's abbreviation is its name or nobody's name.
ASSUME AbbreviationAssumption ==
    /\ Abbreviation \in [Banks -> Entities]
    /\ \A a, b \in Banks : Abbreviation[a] = Abbreviation[b] => a = b
    /\ \A b \in Banks : Abbreviation[b] \in Banks => Abbreviation[b] = b

VARIABLES
    detached,   \* slots whose execution nobody awaits
    recovering, \* banks with a timer of CloseRecoveryScheduler
    verifying,  \* banks with a timer, and a session, of BifastVerificationJob
    check,      \* the verification ticks in progress
    timeline,   \* each bank's state in the incident state machine
    page        \* what the monitoring page says of each bank

jobVars == <<detached, recovering, verifying, check, timeline, page>>

CheckRecords == [bank : Banks, at : {"decide", "create", "notify"}]

\* fresh: UPDATED TIME is not before the closure being watched.
PageRows == [status : {"OPEN", "CLOSE"}, fresh : BOOLEAN]

ASSUME NoCheckAssumption == NoCheck \notin CheckRecords

JobsTypeOK ==
    /\ detached \subseteq Slots
    /\ recovering \subseteq Banks
    /\ verifying \subseteq Banks
    /\ check \in [Checks -> CheckRecords \cup {NoCheck}]
    /\ timeline \in [Banks -> TimelineStates]
    /\ page \in [Banks -> PageRows]

JobsInit ==
    /\ detached = {}
    /\ recovering = {}
    /\ verifying = {}
    /\ check = [c \in Checks |-> NoCheck]
    /\ timeline = [b \in Banks |-> "NORMAL"]
    /\ page \in [Banks -> [status : {"OPEN", "CLOSE"}, fresh : {FALSE}]]

\* The process ends, and what lived in its memory with it.
JobsLost ==
    /\ detached' = {}
    /\ recovering' = {}
    /\ verifying' = {}
    /\ check' = [c \in Checks |-> NoCheck]
    /\ timeline' = [b \in Banks |-> "NORMAL"]
    /\ UNCHANGED page

-----------------------------------------------------------------------------

\* start, of both jobs.  A timer that is there already is left alone; a new one
\* takes note of the time of the closing message, which may have been sent
\* before or after the page's last update.
StartJobs(b) ==
    /\ recovering' = recovering \cup {b}
    /\ verifying' = verifying \cup {b}
    /\ IF b \in recovering
       THEN UNCHANGED page
       ELSE \E fresh \in BOOLEAN : page' = [page EXCEPT ![b].fresh = fresh]

\* stop, of both jobs.  A tick in progress goes on.
StopVerificationOnly(b) ==      \* mutant: one of the two is forgotten
    /\ recovering' = recovering
    /\ verifying' = verifying \ {b}

StopJobs(b) ==
    /\ recovering' = recovering \ {b}
    /\ verifying' = verifying \ {b}

IsServiceOpen(b) == page[b].status = "OPEN" /\ page[b].fresh
IsServiceOpenSince(b) == IsServiceOpen(b)   \* mutant: the first check's test
IsServiceOpenV2(b) == page[b].status = "OPEN"

\* A tick that finds the bank open executes an OPEN event without awaiting it,
\* and stops its own timer only.  A tick that does not is no step.
RecoveryTick(s, i, b) ==
    /\ b \in recovering
    /\ IsServiceOpen(b)
    /\ Execute(s, i, b, "OPEN")
    /\ detached' = detached \cup {s}
    /\ recovering' = recovering \ {b}
    /\ timeline' = [timeline EXCEPT ![b] = TrackOpen(@)]
    /\ UNCHANGED <<verifying, check, page>>

-----------------------------------------------------------------------------
\* BifastVerificationJob, VerifyBifastIncidentUseCase, AdvancedBifastVerifier

\* The job verifies a bank under its abbreviation, and files its incident so.
FiledUnderName(b) == b          \* mutant: the name is passed on as it is
FiledUnder(b) == Abbreviation[b]

\* A tick reads the page; a closed bank is looked into.
VerificationTick(c, b) ==
    /\ b \in verifying
    /\ check[c] = NoCheck
    /\ \/ IsServiceOpenV2(b) /\ verifying' = verifying \ {b} /\ UNCHANGED check
       \/ /\ ~IsServiceOpenV2(b)
          /\ check' = [check EXCEPT ![c] = [bank |-> b, at |-> "decide"]]
          /\ UNCHANGED verifying
    /\ UNCHANGED <<tables, processVars, detached, recovering, timeline, page>>

\* The tick is over.  A final decision stops the job the bank has by now.
EndCheck(c) == check' = [check EXCEPT ![c] = NoCheck]

Conclude(c, decision) ==
    /\ EndCheck(c)
    /\ IF decision \in {"CONFIRMED_INCIDENT", "FALSE_POSITIVE"}
       THEN verifying' = verifying \ {check[c].bank}
       ELSE UNCHANGED verifying

\* The incident lookup, under the abbreviation, returns: decide, track, act.
CheckDecides(c, level, hasComplaint, errorsIncreasing) ==
    /\ check[c] # NoCheck
    /\ check[c].at = "decide"
    /\ LET b == check[c].bank
           decision == Decide(level, hasComplaint,
                              HasOpenIncident(FiledUnder(b)), errorsIncreasing)
       IN  /\ timeline' = [timeline EXCEPT ![b] = Track(@, decision)]
           /\ \/ /\ decision = "CONFIRMED_INCIDENT"
                 /\ check' = [check EXCEPT ![c].at = "create"]
                 /\ UNCHANGED verifying
              \/ decision # "CONFIRMED_INCIDENT" /\ Conclude(c, decision)
    /\ UNCHANGED <<tables, processVars, detached, recovering, page>>

CheckCreates(c) ==
    /\ check[c] # NoCheck
    /\ check[c].at = "create"
    /\ incidents' = WithOpen(FiledUnder(check[c].bank))
    /\ check' = [check EXCEPT ![c].at = "notify"]
    /\ UNCHANGED <<monitoringState, monitoringEvents, processVars,
                   detached, recovering, verifying, timeline, page>>

CheckNotifies(c) ==
    /\ check[c] # NoCheck
    /\ check[c].at = "notify"
    /\ Conclude(c, "CONFIRMED_INCIDENT")
    /\ UNCHANGED <<tables, processVars, detached, recovering, timeline, page>>

CheckFails(c) ==
    /\ check[c] # NoCheck
    /\ EndCheck(c)
    /\ UNCHANGED <<tables, processVars,
                   detached, recovering, verifying, timeline, page>>

CheckProceeds(c) ==
    \/ \E level \in {"NORMAL", "WARNING", "CRITICAL"},
          hasComplaint \in BOOLEAN, errorsIncreasing \in BOOLEAN :
           CheckDecides(c, level, hasComplaint, errorsIncreasing)
    \/ CheckCreates(c)
    \/ CheckNotifies(c)

=============================================================================
