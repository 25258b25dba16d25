----------------------------- MODULE WagComplaints -----------------------------
(***************************************************************************)
(* The complaints of the helpdesk group: the branch of BifastMessageHandler*)
(* that records one about a closed bank, and the store in memory that the  *)
(* verification asks.  As elsewhere a row is read when its await comes     *)
(* back, so reading the bank's state and recording are one step.           *)
(***************************************************************************)
EXTENDS Naturals, Sequences, Filtering

CONSTANTS
    Banks,              \* the names in bifastlist
    Abbreviation,       \* of each bank, as bifastlist spells it
    UpperCase,          \* of each abbreviation, toUpperCase()
    ComplaintWindow     \* windowMs, five minutes

Spellings == {Abbreviation[b] : b \in Banks}
             \cup {UpperCase[Abbreviation[b]] : b \in Banks}

ASSUME ComplaintWindowAssumption == ComplaintWindow \in Nat

VARIABLES
    clock,          \* Date.now(), in minutes since the bot started
    lastStatus,     \* the row of monitoring_state of each bank
    complaints      \* the times of the records under each key, oldest first

complaintVars == <<clock, lastStatus, complaints>>

NoComplaints == [k \in Spellings |-> <<>>]

\* detectGangguan finds a bank by any of its spellings; the name of its row is
\* looked up by abbreviation, and the record filed under what was looked up.
WriterKey(b) == UpperCase[Abbreviation[b]]

\* The verification asks with the abbreviation as it is spelt in the list.
ReaderKey(b) == Abbreviation[b]

InWindow(times) ==
    Filter(times, {t \in ToSet(times) : clock - t <= ComplaintWindow})

\* The record is pushed and the array cleaned of what is older than the window.
RecordOnlyLatest(k) ==      \* mutant: the array is set, not pushed to
    complaints' = [complaints EXCEPT ![k] = InWindow(<<clock>>)]

Record(k) ==
    complaints' = [complaints EXCEPT ![k] = InWindow(Append(@, clock))]

\* One complaint is none.
HasRecent(k) == Len(InWindow(complaints[k])) > 1

\* A complaint about a bank that is not closed changes nothing.
Complain(b) ==
    /\ lastStatus[b] = "CLOSED"
    /\ Record(WriterKey(b))
    /\ UNCHANGED <<clock, lastStatus>>

=============================================================================
