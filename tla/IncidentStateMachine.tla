------------------------- MODULE IncidentStateMachine -------------------------
(***************************************************************************)
(* InMemoryIncidentStateMachine and StateTrackerUseCase: the state that    *)
(* "/state" reports for a bank, its timeline.  Both spellings of a bank,   *)
(* its name and its abbreviation, are normalised to one key, so here it is *)
(* the bank.  The list of past states is kept for display only and is left *)
(* out; it grows by the new state whenever the state is set.               *)
(***************************************************************************)

Decisions == {"WAIT", "FALSE_POSITIVE", "CONFIRMED_INCIDENT"}
TimelineStates ==
    Decisions \cup {"CLOSE", "NORMAL", "OPEN_INCIDENT", "RESOLVED"}

allowedTransitions ==
    [CLOSE              |-> {"FALSE_POSITIVE", "NORMAL", "WAIT"},
     NORMAL             |-> {"WAIT", "FALSE_POSITIVE", "CLOSE"},
     FALSE_POSITIVE     |-> {"NORMAL"},
     WAIT               |-> {"CONFIRMED_INCIDENT", "NORMAL", "WAIT"},
     CONFIRMED_INCIDENT |-> {"OPEN_INCIDENT", "RESOLVED"},
     OPEN_INCIDENT      |-> {"RESOLVED"},
     RESOLVED           |-> {"NORMAL"}]

\* transition: the state after a request, which may be refused.
Transition(current, next) ==
    IF next \in {"RESOLVED", "NORMAL"} \cup allowedTransitions[current]
    THEN next ELSE current

\* StateTrackerUseCase.setTransition: a confirmation passes through WAIT, so
\* that a bank just closed gets there in one decision.
TrackDirectly(current, decision) ==     \* mutant: no step through WAIT
    IF current = decision THEN current ELSE Transition(current, decision)

Track(current, decision) ==
    LET passed == IF decision = "CONFIRMED_INCIDENT"
                  THEN Transition(current, "WAIT") ELSE current
    IN  IF current = decision /\ decision # "WAIT" THEN passed
        ELSE Transition(passed, decision)

\* setOpenTransition
TrackOpen(current) == Transition(current, "NORMAL")

=============================================================================
