----------------------------- MODULE FlapDetector -----------------------------
(***************************************************************************)
(* What the incident pipeline promises, with no database, no awaits and no *)
(* jobs: a bank's closures are remembered; an incident is opened for a     *)
(* closed bank with enough recent closures, and resolved when the bank has *)
(* had none for long enough.                                               *)
(***************************************************************************)
EXTENDS Naturals, FiniteSets

CONSTANTS Entities, EventIds, Threshold, SlidingWindow, StableOpen, Retention

VARIABLES
    status,     \* what the last message about each bank said
    flaps,      \* the closures that count, each with its message, bank and age
    open        \* the banks with an open incident

vars == <<status, flaps, open>>

TypeOK ==
    /\ status \in [Entities -> {"OPEN", "CLOSED", "none"}]
    /\ flaps \subseteq
           [id : EventIds, entity : Entities, age : 0 .. Retention + 1]
    /\ open \subseteq Entities

Init ==
    /\ status \in [Entities -> {"OPEN", "none"}]
    /\ flaps = {}
    /\ open = {}

Recent(e, w) == {f \in flaps : f.entity = e /\ f.age <= w}

\* A message i says that bank e is open or closed.  Only the closing of a bank
\* that was open counts, and a message counts once however often it arrives.
Observe(i, e, st) ==
    /\ status[e] # st
    /\ status' = [status EXCEPT ![e] = st]
    /\ IF status[e] = "OPEN" /\ st = "CLOSED" /\ \A f \in flaps : f.id # i
       THEN flaps' = flaps \cup {[id |-> i, entity |-> e, age |-> 0]}
       ELSE flaps' = flaps
    /\ UNCHANGED open

\* A closed bank that flapped enough, and has no incident, gets one.
Raise(e) ==
    /\ e \notin open
    /\ status[e] = "CLOSED"
    /\ Cardinality(Recent(e, SlidingWindow)) >= Threshold
    /\ open' = open \cup {e}
    /\ UNCHANGED <<status, flaps>>

\* A bank without a recent closure, open or closed, loses its incident.
Resolve(e) ==
    /\ e \in open
    /\ Recent(e, StableOpen) = {}
    /\ open' = open \ {e}
    /\ UNCHANGED <<status, flaps>>

\* Closures too old to matter are forgotten.
Forget ==
    /\ flaps' = {f \in flaps : f.age <= Retention}
    /\ UNCHANGED <<status, open>>

Older(age) == IF age > Retention THEN age ELSE age + 1

Tick ==
    /\ flaps' = {[f EXCEPT !.age = Older(@)] : f \in flaps}
    /\ UNCHANGED <<status, open>>

Next ==
    \/ \E i \in EventIds, e \in Entities, st \in {"OPEN", "CLOSED"} :
           Observe(i, e, st)
    \/ \E e \in Entities : Raise(e) \/ Resolve(e)
    \/ Forget
    \/ Tick

Spec == Init /\ [][Next]_vars

=============================================================================
