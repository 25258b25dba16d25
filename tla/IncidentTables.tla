--------------------------- MODULE IncidentTables ---------------------------
(***************************************************************************)
(* The three MariaDB tables the bot keeps (prisma/schema.prisma) and the   *)
(* repository methods over them, for source BIFAST, the only source that   *)
(* is wired to a consumer.  A column that no decision reads (reason,       *)
(* timestamps of an incident, its id) is left out.                         *)
(*                                                                         *)
(* Time is the age of a row: occurred_at >= Date.now() - w is age <= w.    *)
(* One unit of time is whatever a clock step stands for; ages stop growing *)
(* one unit past the longest period the code compares them with.           *)
(***************************************************************************)
EXTENDS Naturals, FiniteSets

CONSTANTS
    Entities,       \* values of the column entity: a bank's name, and the
                    \* abbreviation its verification files incidents under
    Banks,          \* the names in bifastlist, which messages are about
    EventIds,       \* WhatsApp message ids, the key of monitoring_events
    NoEntity,       \* "no bank", not a member of Entities
    Threshold,      \* FLAP_THRESHOLD, 2 unless the environment says otherwise
    SlidingWindow,  \* SLIDING_WINDOW_MS, in units of time
    StableOpen,     \* STABLE_OPEN_MS, in units of time
    Retention       \* the age past which the cleanup job deletes, in units

ASSUME BanksAssumption == Banks \subseteq Entities
ASSUME NoEntityAssumption == NoEntity \notin Entities
ASSUME EventIdsAssumption == IsFiniteSet(EventIds)
ASSUME PeriodsAssumption ==
    /\ Threshold \in Nat \ {0}
    /\ SlidingWindow \in Nat
    /\ StableOpen \in Nat
    /\ Retention \in Nat

\* The shipped configuration: 15 and 40 minutes against 2.4 hours.
ASSUME RetentionAssumption ==
    /\ SlidingWindow <= Retention
    /\ StableOpen <= Retention

VARIABLES
    monitoringState,    \* last_status of each entity, "none" without a row
    monitoringEvents,   \* the row with each id, NoRow without one
    incidents           \* status of each entity's incident, or "none"

tables == <<monitoringState, monitoringEvents, incidents>>

Statuses == {"OPEN", "CLOSED"}
Ages == 0 .. Retention + 1
Rows == [entity : Entities, age : Ages]
NoRow == [entity |-> NoEntity, age |-> 0]

TablesTypeOK ==
    /\ monitoringState \in [Entities -> Statuses \cup {"none"}]
    /\ monitoringEvents \in [EventIds -> Rows \cup {NoRow}]
    /\ incidents \in [Entities -> {"none", "OPEN", "RESOLVED"}]

(***************************************************************************)
(* main.ts, bootstrap: the tables are emptied and every bank of the list   *)
(* is seeded OPEN.                                                         *)
(***************************************************************************)
SeededState == [e \in Entities |-> IF e \in Banks THEN "OPEN" ELSE "none"]
NoStates == [e \in Entities |-> "none"]
NoEvents == [i \in EventIds |-> NoRow]
NoIncidents == [e \in Entities |-> "none"]

-----------------------------------------------------------------------------
\* Repository methods, as the predicates and new table contents they compute.

\* get and set of monitoring_state; set inserts the row or updates it.
StateOf(e) == monitoringState[e]
WithState(e, status) == [monitoringState EXCEPT ![e] = status]

Stored(i) == monitoringEvents[i] # NoRow

RecentIdsAfter(e, w) ==      \* mutant: gt instead of gte
    {i \in EventIds : /\ monitoringEvents[i].entity = e
                      /\ monitoringEvents[i].age < w}

RecentIdsEver(e, w) ==       \* mutant: the window is not looked at
    {i \in EventIds : monitoringEvents[i].entity = e}

RecentIds(e, w) ==
    {i \in EventIds : /\ monitoringEvents[i].entity = e
                      /\ monitoringEvents[i].age <= w}

CountInWindow(e, w) == Cardinality(RecentIds(e, w))

IsThresholdExceededLong(e) ==    \* mutant: the other of the two periods
    CountInWindow(e, StableOpen) >= Threshold

IsThresholdExceeded(e) == CountInWindow(e, SlidingWindow) >= Threshold

WithRowStampedNow(i, e, age) ==  \* mutant: stamped by the INSERT
    [monitoringEvents EXCEPT ![i] = [entity |-> e, age |-> 0]]

WithRow(i, e, age) ==
    [monitoringEvents EXCEPT ![i] = [entity |-> e, age |-> age]]

WithoutOlderThanWindow(period) ==    \* mutant: the sliding window is the cutoff
    [i \in EventIds |->
        IF monitoringEvents[i].age > SlidingWindow THEN NoRow
        ELSE monitoringEvents[i]]

WithoutOlderThan(period) ==
    [i \in EventIds |->
        IF monitoringEvents[i].age > period THEN NoRow ELSE monitoringEvents[i]]

HasOpenIncident(e) == incidents[e] = "OPEN"

ListOpenIncidents == {e \in Entities : incidents[e] = "OPEN"}

\* `create' opens a row or opens again the row that is there; `save' of a
\* resolved incident updates the row it was read from.
WithOpen(e) == [incidents EXCEPT ![e] = "OPEN"]

WithoutResolved(e) ==            \* mutant: delete(incident) instead of save
    [incidents EXCEPT ![e] = "none"]

WithResolved(e) == [incidents EXCEPT ![e] = "RESOLVED"]

\* One unit of time later.  Past Retention + 1 every comparison is settled.
Older(age) == IF age > Retention THEN age ELSE age + 1

AgedEvents ==
    [i \in EventIds |->
        IF Stored(i) THEN [monitoringEvents[i] EXCEPT !.age = Older(@)]
        ELSE NoRow]

=============================================================================
