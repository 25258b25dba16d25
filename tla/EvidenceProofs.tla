---------------------------- MODULE EvidenceProofs ----------------------------
(***************************************************************************)
(* Theorems about BifastEvidence, for any banks, dashboards, windows and   *)
(* bounds: what the store of complaints answers a verification is what the *)
(* group said, although the store forgets and never looks at its age       *)
(* again.  The banks file under keys of their own, as the 110 do.          *)
(***************************************************************************)
EXTENDS BifastEvidence, SequenceLemmas

OwnWriterKeys == \A a, b \in Banks : WriterKey(a) = WriterKey(b) => a = b

-----------------------------------------------------------------------------
\* What is in a window, and what was dropped before it.

InOrder(times) ==
    /\ times \in Seq(Nat)
    /\ \A i \in 1 .. Len(times) : times[i] <= clock
    /\ \A i, j \in 1 .. Len(times) : i < j => times[i] <= times[j]

\* The store keeps what was voiced but for a beginning older than the window.
Keeps(kept, times) ==
    \E k \in 0 .. Len(times) :
        /\ kept = Dropped(times, k)
        /\ \A i \in 1 .. k : clock - times[i] > ComplaintWindow

LEMMA WindowDrops ==
    ASSUME clock \in Nat, NEW times \in Seq(Nat),
           \A i, j \in 1 .. Len(times) : i < j => times[i] <= times[j]
    PROVE  \E k \in 0 .. Len(times) :
               /\ InWindow(times) = Dropped(times, k)
               /\ \A i \in 1 .. Len(times) :
                      clock - times[i] <= ComplaintWindow <=> i > k
<1>. DEFINE S == {t \in ToSet(times) : clock - t <= ComplaintWindow}
<1>0. /\ DOMAIN times = 1 .. Len(times)
      /\ \A i \in 1 .. Len(times) : times[i] \in Nat
  BY LenProperties
<1>1. \A i \in 1 .. Len(times) : times[i] \in S <=> clock - times[i] <= ComplaintWindow
  BY <1>0 DEF ToSet
<1>2. \A i, j \in 1 .. Len(times) : i < j /\ times[i] \in S => times[j] \in S
  <2>. SUFFICES ASSUME NEW i \in 1 .. Len(times), NEW j \in 1 .. Len(times),
                       i < j, clock - times[i] <= ComplaintWindow
                PROVE  clock - times[j] <= ComplaintWindow
    BY <1>1
  <2>1. times[i] <= times[j]
    OBVIOUS
  <2>. QED  BY <1>0, <2>1, ComplaintWindowAssumption
<1>3. InWindow(times) = Filter(times, S)
  BY DEF InWindow
<1>. HIDE DEF S
<1>4. PICK k \in 0 .. Len(times) :
          /\ Filter(times, S) = Dropped(times, k)
          /\ \A i \in 1 .. Len(times) : times[i] \in S <=> i > k
  BY <1>2, FilterDrops
<1>. QED  BY <1>1, <1>3, <1>4

\* So the window of what is kept is the window of what was voiced.
LEMMA WindowOfKept ==
    ASSUME clock \in Nat, NEW times, NEW kept, InOrder(times), Keeps(kept, times)
    PROVE  InWindow(kept) = InWindow(times)
<1>. DEFINE n == Len(times)
<1>0. times \in Seq(Nat) /\ n \in Nat /\ \A i \in 1 .. n : times[i] \in Nat
  BY LenProperties DEF InOrder
<1>1. PICK k \in 0 .. n :
          /\ kept = Dropped(times, k)
          /\ \A i \in 1 .. k : clock - times[i] > ComplaintWindow
  BY DEF Keeps
<1>2. /\ kept \in Seq(Nat) /\ Len(kept) = n - k
      /\ \A j \in 1 .. n - k : kept[j] = times[j + k]
  BY <1>0, <1>1, DroppedIsSeq
<1>3. \A i, j \in 1 .. Len(kept) : i < j => kept[i] <= kept[j]
  <2>. SUFFICES ASSUME NEW i \in 1 .. n - k, NEW j \in 1 .. n - k, i < j
                PROVE  times[i + k] <= times[j + k]
    BY <1>2
  <2>1. i + k \in 1 .. n /\ j + k \in 1 .. n /\ i + k < j + k
    BY <1>0, <1>1
  <2>. QED  BY <2>1 DEF InOrder
<1>4. PICK m \in 0 .. n :
          /\ InWindow(times) = Dropped(times, m)
          /\ \A i \in 1 .. n : clock - times[i] <= ComplaintWindow <=> i > m
  BY <1>0, WindowDrops DEF InOrder
<1>5. PICK h \in 0 .. n - k :
          /\ InWindow(kept) = Dropped(kept, h)
          /\ \A i \in 1 .. n - k : clock - kept[i] <= ComplaintWindow <=> i > h
  BY <1>2, <1>3, WindowDrops
<1>6. k <= m
  <2>1. SUFFICES ASSUME m < k PROVE FALSE
    BY <1>0
  <2>2. k \in 1 .. n /\ k \in 1 .. k
    BY <1>0, <2>1
  <2>3. clock - times[k] > ComplaintWindow /\ clock - times[k] <= ComplaintWindow
    BY <1>1, <1>4, <2>1, <2>2
  <2>. QED  BY <1>0, <2>2, <2>3, ComplaintWindowAssumption
<1>7. \A i \in 1 .. n - k : i > h <=> i + k > m
  <2>. SUFFICES ASSUME NEW i \in 1 .. n - k PROVE i > h <=> i + k > m
    OBVIOUS
  <2>1. i + k \in 1 .. n
    BY <1>0
  <2>2. kept[i] = times[i + k]
    BY <1>2
  <2>. QED  BY <1>4, <1>5, <2>1, <2>2
<1>8. m = k + h
  <2>1. CASE m - k < h
    <3>1. h \in 1 .. n - k
      BY <1>0, <1>6, <2>1
    <3>. QED  BY <1>0, <1>7, <2>1, <3>1
  <2>2. CASE m - k > h
    <3>1. m - k \in 1 .. n - k /\ (m - k) + k = m
      BY <1>0, <1>6, <2>2
    <3>. QED  BY <1>0, <1>7, <2>2, <3>1
  <2>. QED  BY <1>0, <2>1, <2>2
<1>. QED  BY <1>0, <1>1, <1>4, <1>5, <1>8, DroppedTwice

-----------------------------------------------------------------------------
\* The inductive invariant.

EvidenceInv ==
    /\ clock \in Nat
    /\ voiced \in [Banks -> Seq(Nat)]
    /\ complaints = [key \in Spellings |-> complaints[key]]
    /\ \A b \in Banks : /\ InOrder(voiced[b])
                        /\ Keeps(complaints[WriterKey(b)], voiced[b])

LEMMA KeyIsSpelling ==
    ASSUME NEW b \in Banks
    PROVE  WriterKey(b) \in Spellings
BY DEF WriterKey, Spellings

LEMMA EvidenceInit == Init => EvidenceInv
<1>. SUFFICES ASSUME Init PROVE EvidenceInv
  OBVIOUS
<1>1. /\ clock = 0 /\ voiced = [b \in Banks |-> <<>>]
      /\ complaints = [key \in Spellings |-> <<>>]
  BY DEF Init, NoComplaints
<1>2. <<>> \in Seq(Nat) /\ Len(<<>>) = 0 /\ Dropped(<<>>, 0) = <<>>
  BY DEF Dropped
<1>3. InOrder(<<>>) /\ Keeps(<<>>, <<>>)
  BY <1>2 DEF InOrder, Keeps
<1>4. \A b \in Banks : InOrder(voiced[b]) /\ Keeps(complaints[WriterKey(b)], voiced[b])
  BY <1>1, <1>3, KeyIsSpelling
<1>. QED  BY <1>1, <1>2, <1>4 DEF EvidenceInv

\* A complaint is pushed and the array cleaned.
LEMMA RecordKeeps ==
    ASSUME clock \in Nat, NEW times, NEW kept, InOrder(times), Keeps(kept, times)
    PROVE  /\ InOrder(Append(times, clock))
           /\ Keeps(InWindow(Append(kept, clock)), Append(times, clock))
<1>. DEFINE n == Len(times)
            longer == Append(times, clock)
<1>0. times \in Seq(Nat) /\ n \in Nat /\ \A i \in 1 .. n : times[i] \in Nat
  BY LenProperties DEF InOrder
<1>1. /\ longer \in Seq(Nat) /\ Len(longer) = n + 1
      /\ \A i \in 1 .. n : longer[i] = times[i]
      /\ longer[n + 1] = clock
  BY <1>0, AppendProperties
<1>2. PICK k \in 0 .. n :
          /\ kept = Dropped(times, k)
          /\ \A i \in 1 .. k : clock - times[i] > ComplaintWindow
  BY DEF Keeps
<1>3. k \in 0 .. Len(longer) /\ Append(kept, clock) = Dropped(longer, k)
  BY <1>0, <1>2, DroppedAppend
<1>. HIDE DEF longer
<1>4. InOrder(longer)
  <2>1. ASSUME NEW i \in 1 .. n + 1 PROVE longer[i] <= clock
    <3>1. CASE i = n + 1
      BY <1>1, <3>1
    <3>2. CASE i \in 1 .. n
      BY <1>1, <3>2 DEF InOrder
    <3>. QED  BY <1>0, <3>1, <3>2
  <2>2. ASSUME NEW i \in 1 .. n + 1, NEW j \in 1 .. n + 1, i < j
        PROVE  longer[i] <= longer[j]
    <3>1. i \in 1 .. n
      BY <1>0, <2>2
    <3>2. CASE j = n + 1
      BY <1>1, <3>1, <3>2 DEF InOrder
    <3>3. CASE j \in 1 .. n
      BY <1>1, <2>2, <3>1, <3>3 DEF InOrder
    <3>4. j = n + 1 \/ j \in 1 .. n
      BY <1>0
    <3>. QED  BY <3>2, <3>3, <3>4
  <2>. QED  BY <1>1, <2>1, <2>2 DEF InOrder
<1>5. \A i \in 1 .. k : i \in 1 .. n /\ longer[i] = times[i]
  BY <1>0, <1>1, <1>2
<1>6. Keeps(Append(kept, clock), longer)
  BY <1>2, <1>3, <1>5 DEF Keeps
<1>7. InWindow(Append(kept, clock)) = InWindow(longer)
  BY <1>4, <1>6, WindowOfKept
<1>8. PICK m \in 0 .. Len(longer) :
          /\ InWindow(longer) = Dropped(longer, m)
          /\ \A i \in 1 .. Len(longer) : clock - longer[i] <= ComplaintWindow <=> i > m
  BY <1>1, <1>4, WindowDrops DEF InOrder
<1>9. ASSUME NEW i \in 1 .. m PROVE clock - longer[i] > ComplaintWindow
  <2>1. i \in 1 .. Len(longer) /\ ~(i > m) /\ longer[i] \in Nat
    BY <1>1, <1>8, LenProperties
  <2>. QED  BY <1>8, <2>1, ComplaintWindowAssumption
<1>10. Keeps(InWindow(longer), longer)
  BY <1>8, <1>9 DEF Keeps
<1>. QED  BY <1>4, <1>7, <1>10 DEF longer

\* With the minutes what is old gets older.
LEMMA TimePasses ==
    ASSUME EvidenceInv, clock' = clock + 1, UNCHANGED <<complaints, voiced>>
    PROVE  EvidenceInv'
<1>1. ASSUME NEW b \in Banks
      PROVE  InOrder(voiced[b])' /\ Keeps(complaints[WriterKey(b)], voiced[b])'
  <2>. DEFINE times == voiced[b]
  <2>1. /\ InOrder(times) /\ Keeps(complaints[WriterKey(b)], times)
        /\ clock \in Nat /\ times' = times
        /\ complaints'[WriterKey(b)] = complaints[WriterKey(b)]
    BY DEF EvidenceInv
  <2>2. times \in Seq(Nat) /\ \A i \in 1 .. Len(times) : times[i] \in Nat
    BY <2>1, LenProperties DEF InOrder
  <2>3. PICK k \in 0 .. Len(times) :
            /\ complaints[WriterKey(b)] = Dropped(times, k)
            /\ \A i \in 1 .. k : clock - times[i] > ComplaintWindow
    BY <2>1 DEF Keeps
  <2>4. \A i \in 1 .. k : i \in 1 .. Len(times)
    BY <2>2, LenProperties
  <2>5. \A i \in 1 .. k : (clock + 1) - times[i] > ComplaintWindow
    BY <2>1, <2>2, <2>3, <2>4, ComplaintWindowAssumption
  <2>6. \A i \in 1 .. Len(times) : times[i] <= clock + 1
    BY <2>1, <2>2 DEF InOrder
  <2>. HIDE DEF times
  <2>7. InOrder(times)'
    BY <2>1, <2>6 DEF InOrder
  <2>8. Keeps(complaints[WriterKey(b)], times)'
    BY <2>1, <2>3, <2>5 DEF Keeps, WriterKey
  <2>. QED  BY <2>7, <2>8 DEF times
<1>2. clock' \in Nat /\ voiced' = voiced /\ complaints' = complaints
  BY DEF EvidenceInv
<1>3. /\ voiced' \in [Banks -> Seq(Nat)]
      /\ complaints' = [key \in Spellings |-> complaints'[key]]
  BY <1>2 DEF EvidenceInv
<1>. QED  BY <1>1, <1>2, <1>3 DEF EvidenceInv

LEMMA EvidenceNext ==
    ASSUME OwnWriterKeys, EvidenceInv, [Next]_vars
    PROVE  EvidenceInv'
<1>1. CASE UNCHANGED <<clock, complaints, voiced>>
  BY <1>1 DEF EvidenceInv, InOrder, Keeps, WriterKey
<1>2. ASSUME NEW b \in Banks, ComplaintArrives(b) PROVE EvidenceInv'
  <2>1. /\ UNCHANGED clock
        /\ voiced' = [voiced EXCEPT ![b] = Append(voiced[b], clock)]
        /\ complaints' = [complaints EXCEPT ![WriterKey(b)] =
                             InWindow(Append(complaints[WriterKey(b)], clock))]
    BY <1>2 DEF ComplaintArrives, Complain, Record
  <2>2. /\ InOrder(Append(voiced[b], clock))
        /\ Keeps(InWindow(Append(complaints[WriterKey(b)], clock)), Append(voiced[b], clock))
    BY RecordKeeps DEF EvidenceInv
  <2>3. ASSUME NEW c \in Banks
        PROVE  InOrder(voiced'[c]) /\ Keeps(complaints'[WriterKey(c)], voiced'[c])
    <3>1. CASE c = b
      <4>1. /\ voiced'[b] = Append(voiced[b], clock)
            /\ complaints'[WriterKey(b)] =
                   InWindow(Append(complaints[WriterKey(b)], clock))
        BY <2>1, KeyIsSpelling DEF EvidenceInv
      <4>. QED  BY <2>2, <3>1, <4>1
    <3>2. CASE c # b
      <4>1. WriterKey(c) # WriterKey(b)
        BY <3>2 DEF OwnWriterKeys
      <4>2. voiced'[c] = voiced[c] /\ complaints'[WriterKey(c)] = complaints[WriterKey(c)]
        BY <2>1, <3>2, <4>1, KeyIsSpelling DEF EvidenceInv
      <4>. QED  BY <4>2 DEF EvidenceInv
    <3>. QED  BY <3>1, <3>2
  <2>4. voiced' \in [Banks -> Seq(Nat)]
    BY <2>1, <2>2 DEF EvidenceInv, InOrder
  <2>5. complaints' = [key \in Spellings |-> complaints'[key]]
    BY <2>1 DEF EvidenceInv
  <2>. QED  BY <2>1, <2>3, <2>4, <2>5 DEF EvidenceInv, InOrder, Keeps, WriterKey
<1>3. CASE MinutePasses
  BY <1>3, TimePasses DEF MinutePasses
<1>4. ASSUME NEW b \in Banks,
             \/ Closes(b) \/ Opens(b) \/ PageOpens(b) \/ IncidentResolves(b)
             \/ \E dashboard \in Dashboards : Verifies(b, dashboard)
      PROVE  UNCHANGED <<clock, complaints, voiced>>
  BY <1>4 DEF Closes, Opens, PageOpens, IncidentResolves, Verifies, complaintVars
<1>5. CASE UNCHANGED vars
  BY <1>1, <1>5 DEF vars, complaintVars
<1>. QED  BY <1>1, <1>2, <1>3, <1>4, <1>5 DEF Next

-----------------------------------------------------------------------------

\* In such a state the store answers what the group said.
LEMMA AnswersTheGroup ==
    ASSUME EvidenceInv, NEW b \in Banks, WriterKey(b) = ReaderKey(b)
    PROVE  HasRecent(ReaderKey(b)) <=> TwiceComplained(b)
<1>1. InWindow(complaints[WriterKey(b)]) = InWindow(voiced[b])
  BY WindowOfKept DEF EvidenceInv
<1>2. Len(InWindow(voiced[b])) \in Nat
  <2>1. PICK k \in 0 .. Len(voiced[b]) : InWindow(voiced[b]) = Dropped(voiced[b], k)
    BY WindowDrops DEF EvidenceInv, InOrder
  <2>2. voiced[b] \in Seq(Nat)
    BY DEF EvidenceInv
  <2>. QED  BY <2>1, <2>2, DroppedIsSeq, LenProperties
<1>. QED  BY <1>1, <1>2 DEF HasRecent, TwiceComplained

(***************************************************************************)
(* The store answers the verification of a bank whose abbreviation is in   *)
(* capitals with what the group said of it while it was closed: it is      *)
(* cleaned only when it grows, and what it was cleaned of would never be   *)
(* asked for again (InMemoryWagComplaint.ts:11-39).                        *)
(***************************************************************************)
THEOREM StoreAnswersTheGroup ==
    ASSUME OwnWriterKeys
    PROVE  Spec => []HeardAsVoiced
<1>1. EvidenceInv => HeardAsVoiced
  BY AnswersTheGroup DEF HeardAsVoiced
<1>2. Spec => []EvidenceInv
  BY EvidenceInit, EvidenceNext, PTL DEF Spec
<1>. QED  BY <1>1, <1>2, PTL

-----------------------------------------------------------------------------
\* What is asked for under another key than the writer's was never written.

CapitalsStay == \A b \in Banks : UpperCase[WriterKey(b)] = WriterKey(b)

NothingElseWritten ==
    \A key \in Spellings :
        (\A b \in Banks : WriterKey(b) # key) => complaints[key] = <<>>

LEMMA WrittenStep ==
    ASSUME EvidenceInv, NothingElseWritten, [Next]_vars
    PROVE  NothingElseWritten'
<1>1. ASSUME UNCHANGED complaints PROVE NothingElseWritten'
  BY <1>1 DEF NothingElseWritten, WriterKey, Spellings
<1>2. ASSUME NEW b \in Banks, ComplaintArrives(b) PROVE NothingElseWritten'
  <2>1. \A key \in Spellings : key # WriterKey(b) => complaints'[key] = complaints[key]
    BY <1>2 DEF ComplaintArrives, Complain, Record, EvidenceInv
  <2>. QED  BY <2>1 DEF NothingElseWritten, WriterKey, Spellings
<1>3. ASSUME NEW b \in Banks,
             \/ Closes(b) \/ Opens(b) \/ PageOpens(b) \/ IncidentResolves(b)
             \/ \E dashboard \in Dashboards : Verifies(b, dashboard)
      PROVE  UNCHANGED complaints
  BY <1>3 DEF Closes, Opens, PageOpens, IncidentResolves, Verifies, complaintVars
<1>4. CASE MinutePasses
  BY <1>1, <1>4 DEF MinutePasses
<1>5. CASE UNCHANGED vars
  BY <1>1, <1>5 DEF vars, complaintVars
<1>. QED  BY <1>1, <1>2, <1>3, <1>4, <1>5 DEF Next

\* So the store never makes more of a bank than the group did.
LEMMA NothingIsInvented ==
    ASSUME OwnWriterKeys, CapitalsStay, EvidenceInv, NothingElseWritten,
           NEW b \in Banks, HasRecent(ReaderKey(b))
    PROVE  TwiceComplained(b)
<1>1. CASE WriterKey(b) = ReaderKey(b)
  BY <1>1, AnswersTheGroup
<1>2. CASE WriterKey(b) # ReaderKey(b)
  <2>1. ASSUME NEW a \in Banks, WriterKey(a) = ReaderKey(b) PROVE FALSE
    <3>1. WriterKey(b) = WriterKey(a)
      BY <2>1 DEF CapitalsStay, WriterKey, ReaderKey
    <3>. QED  BY <1>2, <2>1, <3>1
  <2>2. complaints[ReaderKey(b)] = <<>>
    BY <2>1 DEF NothingElseWritten, ReaderKey, Spellings
  <2>3. PICK none : none = <<>> /\ none \in Seq(Nat) /\ Len(none) = 0
    <3>1. <<>> \in Seq(Nat) /\ Len(<<>>) = 0
      OBVIOUS
    <3>. QED  BY <3>1
  <2>4. \A i, j \in 1 .. Len(none) : i < j => none[i] <= none[j]
    BY <2>3
  <2>5. PICK k \in 0 .. Len(none) : InWindow(none) = Dropped(none, k)
    BY <2>3, <2>4, WindowDrops DEF EvidenceInv
  <2>6. Len(Dropped(none, k)) = 0
    <3>1. Len(Dropped(none, k)) = Len(none) - k
      BY <2>3, DroppedIsSeq
    <3>2. k = 0
      BY <2>3
    <3>. QED  BY <2>3, <3>1, <3>2
  <2>. QED  BY <2>2, <2>3, <2>5, <2>6 DEF HasRecent
<1>. QED  BY <1>1, <1>2

(***************************************************************************)
(* No incident is confirmed of a bank that was not complained of twice in  *)
(* the window while it was closed: whatever the tables show, however       *)
(* closures, complaints and ticks follow each other, and although the      *)
(* verification may ask under a key nothing is filed under (the part of    *)
(* ConfirmedIsSupported that is about complaints;                          *)
(* AdvancedBifastPolicy.ts:11-29, InMemoryWagComplaint.ts:11-39).          *)
(***************************************************************************)
THEOREM OnlyComplaintsConfirm ==
    ASSUME OwnWriterKeys, CapitalsStay
    PROVE  Spec => [][\A b \in Banks :
                        b \in openIncident' \ openIncident => TwiceComplained(b)]_vars
<1>. DEFINE Confirms ==
              \A b \in Banks :
                  b \in openIncident' \ openIncident => TwiceComplained(b)
<1>1. ASSUME EvidenceInv, NothingElseWritten, [Next]_vars PROVE [Confirms]_vars
  <2>. SUFFICES ASSUME NEW b \in Banks, b \in openIncident' \ openIncident
                PROVE  TwiceComplained(b)
    OBVIOUS
  <2>1. PICK dashboard \in Dashboards : Verifies(b, dashboard)
    <3>1. ASSUME NEW c \in Banks, NEW dashboard \in Dashboards, Verifies(c, dashboard)
          PROVE  b = c
      BY <3>1, Zenon DEF Verifies
    <3>2. ASSUME NEW c \in Banks,
                 \/ Closes(c) \/ Opens(c) \/ ComplaintArrives(c) \/ PageOpens(c)
                 \/ IncidentResolves(c)
          PROVE  openIncident' \subseteq openIncident
      BY <3>2 DEF Closes, Opens, ComplaintArrives, PageOpens, IncidentResolves, evidence
    <3>3. CASE MinutePasses \/ UNCHANGED vars
      BY <3>3 DEF MinutePasses, vars, evidence
    <3>. QED  BY <1>1, <3>1, <3>2, <3>3, Zenon DEF Next
  <2>2. HasRecent(ReaderKey(b))
    <3>. DEFINE fetched == Fetch(samples[b], AsShown(dashboard), LabelOf[b], clock)
                level == OverallLevel({s.trend.level : s \in fetched.signals})
                critical == {s \in fetched.signals : s.trend.level = "CRITICAL"}
                errors == \E s \in critical : /\ s.title.kind = "Error Transfer"
                                              /\ s.trend.trend = "increasing"
                decision == Decide(level, HasRecent(ReaderKey(b)),
                                   b \in openIncident, errors)
    <3>1. openIncident' = IF decision = "CONFIRMED_INCIDENT"
                          THEN openIncident \cup {b} ELSE openIncident
      BY <2>1, Zenon DEF Verifies
    <3>. HIDE DEF level, errors
    <3>2. decision = "CONFIRMED_INCIDENT"
      <4>. HIDE DEF decision
      <4>. QED  BY <3>1
    <3>. QED  BY <3>2, Zenon DEF Decide
  <2>. QED  BY <1>1, <2>2, NothingIsInvented
<1>2. Init => EvidenceInv /\ NothingElseWritten
  BY EvidenceInit DEF Init, NothingElseWritten, NoComplaints
<1>3. EvidenceInv /\ NothingElseWritten /\ [Next]_vars
        => (EvidenceInv /\ NothingElseWritten)'
  BY EvidenceNext, WrittenStep
<1>. QED  BY <1>1, <1>2, <1>3, PTL DEF Spec

=============================================================================
