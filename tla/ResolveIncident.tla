--------------------------- MODULE ResolveIncident ---------------------------
(***************************************************************************)
(* The two jobs on the incident tables: ResolveIncident.run, started every *)
(* minute whether or not the last run has ended, and the cleanup of old    *)
(* monitoring events.                                                      *)
(***************************************************************************)
EXTENDS IncidentTables

CONSTANT Runs   \* runs of the resolve job that may be in progress together

VARIABLES
    pending,    \* incidents of a run's list that it has yet to look at
    saving      \* the incident a run has resolved in memory and not yet saved

resolveVars == <<pending, saving>>

ResolveTypeOK ==
    /\ pending \in [Runs -> SUBSET Entities]
    /\ saving \in [Runs -> Entities \cup {NoEntity}]

ResolveInit ==
    /\ pending = [r \in Runs |-> {}]
    /\ saving = [r \in Runs |-> NoEntity]

Idle(r) == pending[r] = {} /\ saving[r] = NoEntity

\* A tick of the job's interval: list the open incidents.
ResolveList(r) ==
    /\ Idle(r)
    /\ pending' = [pending EXCEPT ![r] = ListOpenIncidents]
    /\ UNCHANGED <<tables, saving>>

\* Count the closures of the last STABLE_OPEN_MS and decide.
ResolveCount(r, e) ==
    /\ saving[r] = NoEntity
    /\ e \in pending[r]
    /\ pending' = [pending EXCEPT ![r] = @ \ {e}]
    /\ \/ CountInWindow(e, StableOpen) = 0 /\ saving' = [saving EXCEPT ![r] = e]
       \/ CountInWindow(e, StableOpen) # 0 /\ UNCHANGED saving
    /\ UNCHANGED tables

\* Save the decision.  The row is found by its id, which an upsert keeps, and
\* the update looks at nothing else: the decision may be out of date.
ResolveSave(r) ==
    /\ saving[r] # NoEntity
    /\ incidents[saving[r]] # "none"
    /\ incidents' = WithResolved(saving[r])
    /\ saving' = [saving EXCEPT ![r] = NoEntity]
    /\ UNCHANGED <<monitoringState, monitoringEvents, pending>>

\* A database call fails: the job logs it and the rest of the list is dropped.
ResolveFail(r) ==
    /\ ~Idle(r)
    /\ pending' = [pending EXCEPT ![r] = {}]
    /\ saving' = [saving EXCEPT ![r] = NoEntity]
    /\ UNCHANGED tables

ResolveStep(r) == ResolveSave(r) \/ \E e \in Entities : ResolveCount(r, e)

\* CleanupMonitoringJob.execute: one DELETE of the rows past the retention.
Cleanup ==
    /\ monitoringEvents' = WithoutOlderThan(Retention)
    /\ UNCHANGED <<monitoringState, incidents, resolveVars>>

=============================================================================
