---------------------------- MODULE BifastEvidence ----------------------------
(***************************************************************************)
(* What a verification decides on: BifastJobs leaves the level, the trend  *)
(* and the complaint open; here they come from the fetched tables and from *)
(* the helpdesk group, and the closures, the jobs and the incidents are    *)
(* the environment.  A tick is one step: between its lookup of the open    *)
(* incident and its end BifastJobs interleaves everything.                 *)
(***************************************************************************)
EXTENDS WagComplaints, BifastMetrics, AdvancedBifastPolicy

CONSTANTS
    Dashboards,     \* the dashboards a fetch may find
    LabelOf,        \* of each bank, its name there
    Horizon,        \* bound: the last minute
    MaxComplaints,  \* bound: complaints about a bank
    MaxTicks        \* bound: verification ticks

ASSUME BoundsAssumption ==
    Horizon \in Nat /\ MaxComplaints \in Nat /\ MaxTicks \in Nat

VARIABLES
    verifying,      \* banks whose verification job runs
    samples,        \* of each bank, the samples kept under each title
    openIncident,   \* banks with an open incident under their abbreviation
    voiced,         \* history: when each bank was complained of while closed
    ticks           \* history: how many ticks there were

evidence == <<verifying, samples, openIncident>>
vars == <<complaintVars, evidence, voiced, ticks>>

Titles == UNION {{d[i].title : i \in DOMAIN d} : d \in Dashboards}

Init ==
    /\ clock = 0
    /\ lastStatus = [b \in Banks |-> "OPEN"]
    /\ complaints = NoComplaints
    /\ verifying = {}
    /\ samples = [b \in Banks |-> [title \in Titles |-> <<>>]]
    /\ openIncident = {}
    /\ voiced = [b \in Banks |-> <<>>]
    /\ ticks = 0

-----------------------------------------------------------------------------

\* A row of response times shows the time of day, `ago' minutes before.
AsShown(dashboard) ==
    LET Row(r) == [filter |-> r.filter, value |-> r.value,
                   minute |-> (clock - r.ago) % DayLength]
    IN  [i \in DOMAIN dashboard |->
            [dashboard[i] EXCEPT !.rows =
                [k \in DOMAIN @ |-> Row(@[k])]]]

Closes(b) ==
    /\ lastStatus[b] = "OPEN"
    /\ lastStatus' = [lastStatus EXCEPT ![b] = "CLOSED"]
    /\ verifying' = verifying \cup {b}
    /\ UNCHANGED <<clock, complaints, samples, openIncident, voiced,
                   ticks>>

Opens(b) ==
    /\ lastStatus[b] = "CLOSED"
    /\ lastStatus' = [lastStatus EXCEPT ![b] = "OPEN"]
    /\ verifying' = verifying \ {b}
    /\ UNCHANGED <<clock, complaints, samples, openIncident, voiced,
                   ticks>>

ComplaintArrives(b) ==
    /\ Len(voiced[b]) < MaxComplaints
    /\ Complain(b)
    /\ voiced' = [voiced EXCEPT ![b] = Append(@, clock)]
    /\ UNCHANGED <<evidence, ticks>>

\* A tick that finds the page open stops the job.
PageOpens(b) ==
    /\ b \in verifying
    /\ verifying' = verifying \ {b}
    /\ UNCHANGED <<complaintVars, samples, openIncident, voiced, ticks>>

\* A tick that does not fetches the tables, asks for complaints and decides.
Verifies(b, dashboard) ==
    /\ b \in verifying
    /\ ticks < MaxTicks
    /\ ticks' = ticks + 1
    /\ LET fetched == Fetch(samples[b], AsShown(dashboard), LabelOf[b], clock)
           critical == {s \in fetched.signals : s.trend.level = "CRITICAL"}
           decision == Decide(OverallLevel({s.trend.level : s \in fetched.signals}),
                              HasRecent(ReaderKey(b)),
                              b \in openIncident,
                              \E s \in critical :
                                  /\ s.title.kind = "Error Transfer"
                                  /\ s.trend.trend = "increasing")
       IN  /\ samples' = [samples EXCEPT ![b] = fetched.samples]
           /\ verifying' = IF decision = "WAIT" THEN verifying
                           ELSE verifying \ {b}
           /\ openIncident' = IF decision = "CONFIRMED_INCIDENT"
                              THEN openIncident \cup {b} ELSE openIncident
    /\ UNCHANGED <<complaintVars, voiced>>

IncidentResolves(b) ==
    /\ b \in openIncident
    /\ openIncident' = openIncident \ {b}
    /\ UNCHANGED <<complaintVars, verifying, samples, voiced, ticks>>

MinutePasses ==
    /\ clock < Horizon
    /\ clock' = clock + 1
    /\ UNCHANGED <<lastStatus, complaints, evidence, voiced, ticks>>

Next ==
    \/ \E b \in Banks :
        \/ Closes(b) \/ Opens(b) \/ ComplaintArrives(b) \/ PageOpens(b)
        \/ \E dashboard \in Dashboards : Verifies(b, dashboard)
        \/ IncidentResolves(b)
    \/ MinutePasses

Spec == Init /\ [][Next]_vars

-----------------------------------------------------------------------------

TwiceComplained(b) == Len(InWindow(voiced[b])) >= 2

(***************************************************************************)
(* The store answers the verification of a bank whose abbreviation is in   *)
(* capitals with what the group said of it while it was closed: two        *)
(* complaints in the window, whatever was cleaned away and however often   *)
(* it opened and closed (InMemoryWagComplaint.ts:11-39).                   *)
(***************************************************************************)
HeardAsVoiced ==
    \A b \in Banks : WriterKey(b) = ReaderKey(b) =>
        (HasRecent(ReaderKey(b)) <=> TwiceComplained(b))

(***************************************************************************)
(* "Check the helpdesk group, whether there is a complaint" (README.md,    *)
(* TODO): complaints of a closed bank are there when its verification asks.*)
(***************************************************************************)
ComplaintsAreHeard ==
    \A b \in Banks : TwiceComplained(b) => HasRecent(ReaderKey(b))

\* Later readings against earlier ones, two by two and weighed by distance.
Rising(y) ==
    MapThenSumSet(LAMBDA p : (p[2] - p[1]) * (y[p[2]] - y[p[1]]),
                  {p \in (DOMAIN y) \X (DOMAIN y) : p[1] < p[2]}) > 0

(***************************************************************************)
(* An incident is confirmed on evidence: the bank was complained of twice  *)
(* in five minutes while closed, and in the last quarter of an hour one of *)
(* its error codes was read at least twice, at more than 2.5 percent on    *)
(* average and rising; never on what was read or said before               *)
(* (AdvancedBifastVerifier.ts:20-33, MetricConfig.ts:223-302).             *)
(***************************************************************************)
Transfers(b) == [kind |-> "Error Transfer", of |-> LabelOf[b]]

Supported(b) ==
    /\ TwiceComplained(b)
    /\ LET read == samples'[b][Transfers(b)]
       IN  \E code \in {read[i].code : i \in DOMAIN read} :
              LET y == ValuesOf(Within(OfCode(read, code), clock))
              IN  /\ Len(y) >= 2
                  /\ 2 * SumFunction(y) > 5 * Len(y)
                  /\ Rising(y)

ConfirmedIsSupported ==
    [][\A b \in Banks : b \in openIncident' \ openIncident => Supported(b)]_vars

(***************************************************************************)
(* What a fetch keeps of the response times of a bank are its own, one for *)
(* each minute on the page, the slowest, whatever other banks' rows are    *)
(* among them (ElasticMetricClient.ts:126-150, MetricConfig.ts:331-359).   *)
(***************************************************************************)
TimesOf(b, dashboard, title) ==
    LET rows == UNION {ToSet(dashboard[i].rows) :
                       i \in {j \in DOMAIN dashboard : dashboard[j].title = title}}
        own == {r \in rows : r.filter = LabelOf[b]}
    IN  {[code |-> "", at |-> parseMinute(r.minute, clock), value |-> r.value] :
            r \in {r \in own : \A q \in own :
                       q.minute = r.minute => q.value <= r.value}}

SlowestAreKept ==
    [][\A b \in Banks : samples'[b] # samples[b] =>
          \E dashboard \in Dashboards :
              \A title \in {t \in Titles : ~IsErrorTable(t)} :
                  LET taken == SubSeq(samples'[b][title],
                                      Len(samples[b][title]) + 1,
                                      Len(samples'[b][title]))
                  IN  /\ ToSet(taken) = TimesOf(b, AsShown(dashboard), title)
                      /\ IsInjective(taken)]_vars

=============================================================================
