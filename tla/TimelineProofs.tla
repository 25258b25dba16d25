---------------------------- MODULE TimelineProofs ----------------------------
(***************************************************************************)
(* Theorems about what "/state" shows.                                     *)
(***************************************************************************)
EXTENDS MessageHandlingProofs, SequenceLemmas, FiniteSetTheorems, FunctionTheorems

-----------------------------------------------------------------------------
\* Names, abbreviations and the key of a timeline.

LEMMA TheList ==
    /\ Len(bifastList) = 5
    /\ bifastList[1] = Bank("bniaidja", "bank cimb niaga", "bankcimbniaga", "cimb niaga", "cimb")
    /\ bifastList[2] = Bank("bniaidja", "bank cimb niaga uus", "bankcimbniagauus",
                            "cimb niaga uus", "cimb uus")
    /\ bifastList[3] = Bank("bsmdidja", "bank syariah indonesia",
                            "banksyariahindonesia", "syariah indonesia", "bsi")
    /\ bifastList[4] = Bank("bmriidja", "bank mandiri", "bankmandiri", "mandiri", "mandiri")
    /\ bifastList[5] = Bank("danaidj1", "dana", "dana", "dana", "dana")
    /\ DOMAIN bifastList = 1 .. 5
BY DEF bifastList

\* Of each row its names.  (The SMT backend fails on a string with a space.)
LEMMA TheNames ==
    /\ bifastList[1].nama_bank = "bank cimb niaga"
    /\ bifastList[2].nama_bank = "bank cimb niaga uus"
    /\ bifastList[3].nama_bank = "bank syariah indonesia"
    /\ bifastList[4].nama_bank = "bank mandiri"
    /\ bifastList[5].nama_bank = "dana"
<1>1. Bank("bniaidja", "bank cimb niaga", "bankcimbniaga", "cimb niaga", "cimb").nama_bank
         = "bank cimb niaga"
  BY Zenon DEF Bank
<1>2. Bank("bniaidja", "bank cimb niaga uus", "bankcimbniagauus", "cimb niaga uus",
          "cimb uus").nama_bank
         = "bank cimb niaga uus"
  BY Zenon DEF Bank
<1>3. Bank("bsmdidja", "bank syariah indonesia", "banksyariahindonesia",
          "syariah indonesia", "bsi").nama_bank
         = "bank syariah indonesia"
  BY Zenon DEF Bank
<1>4. Bank("bmriidja", "bank mandiri", "bankmandiri", "mandiri", "mandiri").nama_bank
         = "bank mandiri"
  BY Zenon DEF Bank
<1>5. Bank("danaidj1", "dana", "dana", "dana", "dana").nama_bank
         = "dana"
  BY Zenon DEF Bank
<1>. QED  BY <1>1, <1>2, <1>3, <1>4, <1>5, TheList, Zenon

LEMMA TheAbbreviations ==
    /\ bifastList[1].abbreviation = "cimb"
    /\ bifastList[2].abbreviation = "cimb uus"
    /\ bifastList[3].abbreviation = "bsi"
    /\ bifastList[4].abbreviation = "mandiri"
    /\ bifastList[5].abbreviation = "dana"
<1>1. Bank("bniaidja", "bank cimb niaga", "bankcimbniaga", "cimb niaga", "cimb").abbreviation
         = "cimb"
  BY Zenon DEF Bank
<1>2. Bank("bniaidja", "bank cimb niaga uus", "bankcimbniagauus", "cimb niaga uus",
          "cimb uus").abbreviation
         = "cimb uus"
  BY Zenon DEF Bank
<1>3. Bank("bsmdidja", "bank syariah indonesia", "banksyariahindonesia",
          "syariah indonesia", "bsi").abbreviation
         = "bsi"
  BY Zenon DEF Bank
<1>4. Bank("bmriidja", "bank mandiri", "bankmandiri", "mandiri", "mandiri").abbreviation
         = "mandiri"
  BY Zenon DEF Bank
<1>5. Bank("danaidj1", "dana", "dana", "dana", "dana").abbreviation
         = "dana"
  BY Zenon DEF Bank
<1>. QED  BY <1>1, <1>2, <1>3, <1>4, <1>5, TheList, Zenon

LEMMA TheJoinedNames ==
    /\ bifastList[1].joined = "bankcimbniaga"
    /\ bifastList[2].joined = "bankcimbniagauus"
    /\ bifastList[3].joined = "banksyariahindonesia"
    /\ bifastList[4].joined = "bankmandiri"
    /\ bifastList[5].joined = "dana"
<1>1. Bank("bniaidja", "bank cimb niaga", "bankcimbniaga", "cimb niaga", "cimb").joined
         = "bankcimbniaga"
  BY Zenon DEF Bank
<1>2. Bank("bniaidja", "bank cimb niaga uus", "bankcimbniagauus", "cimb niaga uus",
          "cimb uus").joined
         = "bankcimbniagauus"
  BY Zenon DEF Bank
<1>3. Bank("bsmdidja", "bank syariah indonesia", "banksyariahindonesia",
          "syariah indonesia", "bsi").joined
         = "banksyariahindonesia"
  BY Zenon DEF Bank
<1>4. Bank("bmriidja", "bank mandiri", "bankmandiri", "mandiri", "mandiri").joined
         = "bankmandiri"
  BY Zenon DEF Bank
<1>5. Bank("danaidj1", "dana", "dana", "dana", "dana").joined
         = "dana"
  BY Zenon DEF Bank
<1>. QED  BY <1>1, <1>2, <1>3, <1>4, <1>5, TheList, Zenon

LEMMA FirstBankFound ==
    ASSUME NEW matching, NEW i \in 1 .. 5, bifastList[i] \in matching,
           \A j \in 1 .. 5 : j < i => bifastList[j] \notin matching
    PROVE  FirstBank(matching) = bifastList[i]
<1>. DEFINE I == {j \in 1 .. 5 : bifastList[j] \in matching}
<1>1. Min(I) = i
  <2>1. i \in I /\ \A j \in I : i <= j
    OBVIOUS
  <2>2. I \subseteq Int
    OBVIOUS
  <2>3. \A x \in I : (\A y \in I : x <= y) => x = i
    BY <2>1, <2>2
  <2>. HIDE DEF I
  <2>. QED  BY <2>1, <2>3 DEF Min
<1>2. SelectInSeq(bifastList, LAMBDA b : b \in matching) = Min(I)
  BY TheList DEF SelectInSeq
<1>. QED  BY <1>1, <1>2 DEF FirstBank

LEMMA FirstBankNone ==
    ASSUME NEW matching, \A j \in 1 .. 5 : bifastList[j] \notin matching
    PROVE  FirstBank(matching) = NoBank
<1>2. SelectInSeq(bifastList, LAMBDA b : b \in matching) = 0
  BY TheList DEF SelectInSeq
<1>. QED  BY <1>2 DEF FirstBank

LEMMA ListedBanks ==
    /\ BankNames = {bifastList[i].nama_bank : i \in 1 .. 5}
    /\ Listed = {bifastList[i] : i \in 1 .. 5}
BY TheList DEF BankNames, Listed, ToSet

LEMMA ByAbbreviation ==
    /\ \A i \in 1 .. 5 : findBifastBankNameByAbbreviation(bifastList[i].abbreviation)
                             = bifastList[i].nama_bank
    /\ \A name \in BankNames \ {"dana"} : findBifastBankNameByAbbreviation(name) = ""
<1>. DEFINE matching(t) == {b \in Listed : b.abbreviation = t}
<1>1. \A t : \A i \in 1 .. 5 : bifastList[i] \in matching(t)
                                  <=> bifastList[i].abbreviation = t
  BY ListedBanks
<1>2. \A t : findBifastBankNameByAbbreviation(t) = FirstBank(matching(t)).nama_bank
  BY DEF findBifastBankNameByAbbreviation
<1>. HIDE DEF matching
<1>3. ASSUME NEW i \in 1 .. 5, NEW j \in 1 .. 5, j < i
      PROVE  bifastList[j].abbreviation # bifastList[i].abbreviation
  <2>1. CASE i = 2 /\ j = 1
    BY <2>1, TheAbbreviations, Zenon
  <2>2. CASE i = 3 /\ (j = 1 \/ j = 2)
    BY <2>2, TheAbbreviations, Zenon
  <2>3. CASE i = 4 /\ (j = 1 \/ j = 2 \/ j = 3)
    BY <2>3, TheAbbreviations, Zenon
  <2>4. CASE i = 5 /\ (j = 1 \/ j = 2 \/ j = 3 \/ j = 4)
    BY <2>4, TheAbbreviations, Zenon
  <2>. QED  BY <1>3, <2>1, <2>2, <2>3, <2>4
<1>4. ASSUME NEW i \in 1 .. 5
      PROVE  FirstBank(matching(bifastList[i].abbreviation)) = bifastList[i]
  <2>1. \A j \in 1 .. 5 : j < i => bifastList[j] \notin matching(bifastList[i].abbreviation)
    BY <1>1, <1>3
  <2>2. bifastList[i] \in matching(bifastList[i].abbreviation)
    BY <1>1
  <2>. QED  BY <2>1, <2>2, FirstBankFound
<1>8. ASSUME NEW name \in BankNames \ {"dana"}
      PROVE  FirstBank(matching(name)) = NoBank
  <2>1. name \in {"bank cimb niaga", "bank cimb niaga uus",
                  "bank syariah indonesia", "bank mandiri"}
    <3>1. PICK i \in 1 .. 5 : name = bifastList[i].nama_bank
      BY ListedBanks
    <3>2. i = 1 \/ i = 2 \/ i = 3 \/ i = 4 \/ i = 5
      OBVIOUS
    <3>. QED  BY <3>1, <3>2, TheNames, TheAbbreviations
  <2>2. \A i \in 1 .. 5 : bifastList[i] \notin matching(name)
    <3>1. SUFFICES ASSUME NEW i \in 1 .. 5 PROVE bifastList[i].abbreviation # name
      BY <1>1
    <3>2. i = 1 \/ i = 2 \/ i = 3 \/ i = 4 \/ i = 5
      OBVIOUS
    <3>. QED  BY <2>1, <3>2, TheNames, TheAbbreviations
  <2>. QED  BY <2>2, FirstBankNone
<1>9. NoBank.nama_bank = ""
  BY DEF Bank, NoBank
<1>. QED  BY <1>2, <1>4, <1>8, <1>9

LEMMA ByName ==
    \A i \in 1 .. 5 :
        /\ BankNamed(bifastList[i].nama_bank) = bifastList[i]
        /\ findBiFastAbbreviationByBankName(bifastList[i].nama_bank)
               = bifastList[i].abbreviation
<1>. SUFFICES ASSUME NEW i \in 1 .. 5
              PROVE  /\ BankNamed(bifastList[i].nama_bank) = bifastList[i]
                     /\ findBiFastAbbreviationByBankName(bifastList[i].nama_bank)
                            = bifastList[i].abbreviation
  OBVIOUS
<1>. DEFINE name == bifastList[i].nama_bank
            called == {b \in Listed : name \in {b.nama_bank, b.joined}}
            named == {b \in Listed : b.nama_bank = name}
<1>1. \A j \in 1 .. 5 : name \in {bifastList[j].nama_bank, bifastList[j].joined}
                            => j = i
  <2>1. SUFFICES ASSUME NEW j \in 1 .. 5,
                        \/ bifastList[i].nama_bank = bifastList[j].nama_bank
                        \/ bifastList[i].nama_bank = bifastList[j].joined
                 PROVE  j = i
    OBVIOUS
  <2>2. j = 1 \/ j = 2 \/ j = 3 \/ j = 4 \/ j = 5
    OBVIOUS
  <2>3. i = 1 \/ i = 2 \/ i = 3 \/ i = 4 \/ i = 5
    OBVIOUS
  <2>4. CASE i = 1
    BY <2>1, <2>2, <2>4, TheNames, TheAbbreviations, TheJoinedNames
  <2>5. CASE i = 2
    BY <2>1, <2>2, <2>5, TheNames, TheAbbreviations, TheJoinedNames
  <2>6. CASE i = 3
    BY <2>1, <2>2, <2>6, TheNames, TheAbbreviations, TheJoinedNames
  <2>7. CASE i = 4
    BY <2>1, <2>2, <2>7, TheNames, TheAbbreviations, TheJoinedNames
  <2>8. CASE i = 5
    BY <2>1, <2>2, <2>8, TheNames, TheAbbreviations, TheJoinedNames
  <2>. QED  BY <2>3, <2>4, <2>5, <2>6, <2>7, <2>8
<1>2. bifastList[i] \in called /\ \A j \in 1 .. 5 : j < i => bifastList[j] \notin called
  BY <1>1, ListedBanks
<1>3. bifastList[i] \in named /\ \A j \in 1 .. 5 : j < i => bifastList[j] \notin named
  BY <1>1, ListedBanks
<1>4. BankNamed(name) = FirstBank(called)
  BY DEF BankNamed
<1>5. findBiFastAbbreviationByBankName(name) = FirstBank(named).abbreviation
  BY DEF findBiFastAbbreviationByBankName
<1>. HIDE DEF called, named
<1>. QED  BY <1>2, <1>3, <1>4, <1>5, FirstBankFound

\* Every spelling of a bank has the bank's key.
LEMMA KeyOfSpelling ==
    ASSUME NEW b \in BankNames
    PROVE  /\ KeyOf[b] = b
           /\ AbbreviationIn[b] \in Spelt
           /\ KeyOf[AbbreviationIn[b]] = b
<1>1. PICK i \in 1 .. 5 : b = bifastList[i].nama_bank
  BY ListedBanks
<1>0. i = 1 \/ i = 2 \/ i = 3 \/ i = 4 \/ i = 5
  BY <1>1
<1>2. AbbreviationIn[b] = bifastList[i].abbreviation
  BY <1>1, ByName DEF AbbreviationIn
<1>3. b \in Spelt /\ bifastList[i].abbreviation \in Spelt
  <2>1. i \in DOMAIN bifastList
    BY TheList
  <2>. QED  BY <1>1, <2>1 DEF Spelt
<1>4. KeyOf[b] = normalizeBankEntity(b)
  BY <1>3 DEF KeyOf
<1>5. KeyOf[AbbreviationIn[b]] = normalizeBankEntity(bifastList[i].abbreviation)
  BY <1>2, <1>3 DEF KeyOf
<1>6. normalizeBankEntity(b) = b
  <2>1. b # "" /\ BankNamed(b) = bifastList[i] /\ BankNamed(b) # NoBank
    <3>1. b # ""
      BY <1>0, <1>1, TheNames, TheAbbreviations
    <3>2. NoBank.nama_bank = ""
      BY DEF Bank, NoBank
    <3>3. bifastList[i] # NoBank
      BY <1>1, <3>1, <3>2
    <3>. QED  BY <1>1, <3>1, <3>3, ByName
  <2>2. CASE b = "dana"
    <3>1. bifastList[5].abbreviation = b /\ bifastList[5].nama_bank = b
      BY <2>2, TheNames, TheAbbreviations, Zenon
    <3>2. findBifastBankNameByAbbreviation(b) = b
      <4>1. 5 \in 1 .. 5
        OBVIOUS
      <4>. QED  BY <3>1, <4>1, ByAbbreviation, Zenon
    <3>. QED  BY <2>1, <3>2 DEF normalizeBankEntity
  <2>3. CASE b # "dana"
    BY <1>1, <2>1, <2>3, ByAbbreviation DEF normalizeBankEntity
  <2>. QED  BY <2>2, <2>3
<1>7. normalizeBankEntity(bifastList[i].abbreviation) = b
  <2>1. /\ bifastList[i].abbreviation # ""
        /\ findBifastBankNameByAbbreviation(bifastList[i].abbreviation) = b
        /\ b # ""
    BY <1>0, <1>1, ByAbbreviation, TheNames, TheAbbreviations
  <2>. QED  BY <2>1 DEF normalizeBankEntity
<1>. QED  BY <1>2, <1>3, <1>4, <1>5, <1>6, <1>7

-----------------------------------------------------------------------------
\* A timeline and its history, request by request.

Entries == [state : TimelineStates, at : Nat]
Timelines == [state : TimelineStates, events : Seq(Entries)]

\* All that became of a bank, in its order and as the machine allows.
Lives(lived, now) ==
    /\ lived \in Seq(Entries)
    /\ \A i \in 1 .. Len(lived) : lived[i].at <= now
    /\ \A i, j \in 1 .. Len(lived) : i < j => lived[i].at <= lived[j].at
    /\ \A i \in 2 .. Len(lived) : Allowed(lived[i - 1].state, lived[i].state)

\* The timeline tells the history but for a beginning older than the window.
Tells(timeline, lived, now) ==
    /\ timeline \in Timelines
    /\ timeline.state = StateAfter(lived)
    /\ \E k \in 0 .. Len(lived) :
           /\ timeline.events = Dropped(lived, k)
           /\ \A i \in 1 .. k : now - lived[i].at > TimelineWindow

\* Cleaning the timeline of what is older than the window drops a beginning.
LEMMA RecentDrops ==
    ASSUME NEW events \in Seq(Entries), NEW now \in Nat,
           \A i, j \in 1 .. Len(events) : i < j => events[i].at <= events[j].at
    PROVE  \E k \in 0 .. Len(events) :
               /\ Recent(events, now) = Dropped(events, k)
               /\ \A i \in 1 .. Len(events) :
                      now - events[i].at <= TimelineWindow <=> i > k
<1>. DEFINE S == {e \in ToSet(events) : now - e.at <= TimelineWindow}
<1>0. /\ DOMAIN events = 1 .. Len(events)
      /\ \A i \in 1 .. Len(events) : events[i].at \in Nat
  <2>1. \A i \in 1 .. Len(events) : events[i] \in Entries
    BY LenProperties
  <2>. QED  BY <2>1, LenProperties DEF Entries
<1>1. \A i \in 1 .. Len(events) :
          events[i] \in S <=> now - events[i].at <= TimelineWindow
  BY <1>0 DEF ToSet
<1>2. \A i, j \in 1 .. Len(events) : i < j /\ events[i] \in S => events[j] \in S
  <2>. SUFFICES ASSUME NEW i \in 1 .. Len(events), NEW j \in 1 .. Len(events),
                       i < j, now - events[i].at <= TimelineWindow
                PROVE  now - events[j].at <= TimelineWindow
    BY <1>1
  <2>1. events[i].at <= events[j].at
    OBVIOUS
  <2>. QED  BY <1>0, <2>1, TimelineWindowAssumption
<1>3. Recent(events, now) = Filter(events, S)
  BY DEF Recent
<1>. HIDE DEF S
<1>4. PICK k \in 0 .. Len(events) :
          /\ Filter(events, S) = Dropped(events, k)
          /\ \A i \in 1 .. Len(events) : events[i] \in S <=> i > k
  BY <1>2, FilterDrops
<1>. QED  BY <1>1, <1>3, <1>4

\* A request that is allowed leaves the same trace in both; another none.
LEMMA RequestKeeps ==
    ASSUME NEW timeline, NEW lived, NEW now \in Nat, NEW next \in TimelineStates,
           Lives(lived, now), Tells(timeline, lived, now)
    PROVE  /\ Lives(LivedOn(lived, next, now), now)
           /\ Tells(Applied(timeline, next, now), LivedOn(lived, next, now), now)
<1>. DEFINE n == Len(lived)
            entry == [state |-> next, at |-> now]
            longer == Append(lived, entry)
<1>0. lived \in Seq(Entries) /\ n \in Nat /\ entry \in Entries
  BY LenProperties DEF Lives, Entries
<1>1. CASE ~Allowed(timeline.state, next)
  BY <1>1 DEF Applied, LivedOn, Tells
<1>2. CASE Allowed(timeline.state, next)
  <2>1. /\ LivedOn(lived, next, now) = longer
        /\ Applied(timeline, next, now)
               = [state |-> next, events |-> Push(timeline.events, next, now)]
    BY <1>2 DEF LivedOn, Applied, Tells
  <2>2. /\ longer \in Seq(Entries) /\ Len(longer) = n + 1
        /\ \A i \in 1 .. n : longer[i] = lived[i]
        /\ longer[n + 1] = entry
    BY <1>0, AppendProperties
  <2>3. /\ \A i \in 1 .. n + 1 : i \in 1 .. n \/ i = n + 1
        /\ \A i \in 2 .. n + 1 : i \in 2 .. n \/ (i = n + 1 /\ n \in 1 .. n)
        /\ \A i \in 2 .. n : i - 1 \in 1 .. n /\ i \in 1 .. n
    BY <1>0
  <2>. HIDE DEF longer
  <2>4. Lives(longer, now)
    <3>1. ASSUME NEW i \in 1 .. n + 1 PROVE longer[i].at <= now
      <4>1. CASE i \in 1 .. n
        BY <2>2, <4>1 DEF Lives
      <4>2. CASE i = n + 1
        BY <2>2, <4>2
      <4>. QED  BY <2>3, <4>1, <4>2
    <3>2. ASSUME NEW i \in 1 .. n + 1, NEW j \in 1 .. n + 1, i < j
          PROVE  longer[i].at <= longer[j].at
      <4>1. i \in 1 .. n
        BY <1>0, <3>2
      <4>2. CASE j = n + 1
        BY <1>0, <2>2, <4>1, <4>2 DEF Lives
      <4>3. CASE j \in 1 .. n
        BY <2>2, <3>2, <4>1, <4>3 DEF Lives
      <4>. QED  BY <2>3, <4>2, <4>3
    <3>3. ASSUME NEW i \in 2 .. n + 1
          PROVE  Allowed(longer[i - 1].state, longer[i].state)
      <4>1. CASE i \in 2 .. n
        BY <2>2, <2>3, <4>1 DEF Lives
      <4>2. CASE i = n + 1 /\ n \in 1 .. n
        <5>1. longer[i - 1] = lived[n] /\ longer[i] = entry
          BY <1>0, <2>2, <4>2
        <5>2. lived # <<>> /\ timeline.state = lived[n].state
          BY <1>0, <4>2 DEF Tells, StateAfter, Last
        <5>. QED  BY <1>2, <5>1, <5>2
      <4>. QED  BY <2>3, <4>1, <4>2
    <3>. QED  BY <2>2, <3>1, <3>2, <3>3 DEF Lives
  <2>5. PICK k \in 0 .. n :
            /\ timeline.events = Dropped(lived, k)
            /\ \A i \in 1 .. k : now - lived[i].at > TimelineWindow
    BY DEF Tells
  <2>6. /\ k \in 0 .. Len(longer)
        /\ Append(timeline.events, entry) = Dropped(longer, k)
    BY <1>0, <2>5, DroppedAppend DEF longer
  <2>. DEFINE shown == Dropped(longer, k)
  <2>7. /\ shown \in Seq(Entries) /\ Len(shown) = (n + 1) - k
        /\ \A j \in 1 .. (n + 1) - k : shown[j] = longer[j + k]
    <3>1. /\ shown \in Seq(Entries) /\ Len(shown) = Len(longer) - k
          /\ \A j \in 1 .. Len(longer) - k : shown[j] = longer[j + k]
      BY <2>2, <2>6, DroppedIsSeq
    <3>. HIDE DEF shown
    <3>. QED  BY <2>2, <3>1
  <2>8. \A i, j \in 1 .. Len(shown) : i < j => shown[i].at <= shown[j].at
    <3>. SUFFICES ASSUME NEW i \in 1 .. (n + 1) - k, NEW j \in 1 .. (n + 1) - k, i < j
                  PROVE  longer[i + k].at <= longer[j + k].at
      BY <2>7
    <3>1. i + k \in 1 .. n + 1 /\ j + k \in 1 .. n + 1 /\ i + k < j + k
      BY <1>0, <2>5
    <3>. QED  BY <2>2, <2>4, <3>1 DEF Lives
  <2>. HIDE DEF shown
  <2>9. PICK m \in 0 .. Len(shown) :
            /\ Recent(shown, now) = Dropped(shown, m)
            /\ \A i \in 1 .. Len(shown) : now - shown[i].at <= TimelineWindow <=> i > m
    BY <2>7, <2>8, RecentDrops
  <2>10. /\ k + m \in 0 .. Len(longer)
         /\ Push(timeline.events, next, now) = Dropped(longer, k + m)
    <3>1. Push(timeline.events, next, now) = Dropped(shown, m)
      BY <2>6, <2>9 DEF Push, shown
    <3>2. m \in 0 .. Len(longer) - k
      BY <2>2, <2>7
    <3>. QED  BY <2>2, <2>6, <3>1, <3>2, DroppedTwice DEF shown
  <2>11. ASSUME NEW i \in 1 .. k + m PROVE now - longer[i].at > TimelineWindow
    <3>1. CASE i \in 1 .. k
      BY <1>0, <2>2, <2>5, <3>1
    <3>2. CASE i \notin 1 .. k
      <4>1. /\ i - k \in 1 .. Len(shown) /\ i - k <= m
            /\ (i - k) + k = i /\ i \in 1 .. n + 1
        BY <1>0, <2>5, <2>7, <2>9, <3>2
      <4>2. shown[i - k] = longer[i]
        BY <2>7, <4>1
      <4>3. ~(now - shown[i - k].at <= TimelineWindow)
        BY <2>9, <4>1
      <4>4. longer[i] \in Entries
        BY <2>2, <4>1, LenProperties
      <4>5. longer[i].at \in Nat
        BY <4>4 DEF Entries
      <4>. QED  BY <4>2, <4>3, <4>5, TimelineWindowAssumption
    <3>. QED  BY <3>1, <3>2
  <2>12. Dropped(longer, k + m) \in Seq(Entries)
    BY <2>2, <2>10, DroppedIsSeq
  <2>13. StateAfter(longer) = next
    BY <1>0, <2>2 DEF StateAfter, Last
  <2>. QED  BY <2>1, <2>4, <2>10, <2>11, <2>12, <2>13 DEF Tells, Timelines
<1>. QED  BY <1>1, <1>2

-----------------------------------------------------------------------------
\* Requests are made one after the other, of the timeline and of its history.

LEMMA AppliedIsTimeline ==
    ASSUME NEW timeline \in Timelines, NEW next \in TimelineStates, NEW now \in Nat
    PROVE  Applied(timeline, next, now) \in Timelines
<1>. DEFINE entry == [state |-> next, at |-> now]
            longer == Append(timeline.events, entry)
<1>1. longer \in Seq(Entries)
  <2>1. entry \in Entries /\ timeline.events \in Seq(Entries)
    BY DEF Entries, Timelines
  <2>. QED  BY <2>1, AppendProperties
<1>2. Push(timeline.events, next, now) \in Seq(Entries)
  BY <1>1, FilterKeeps DEF Push, Recent
<1>. QED  BY <1>2 DEF Applied, Timelines

LEMMA LivedIsHistory ==
    ASSUME NEW lived \in Seq(Entries), NEW next \in TimelineStates, NEW now \in Nat
    PROVE  LivedOn(lived, next, now) \in Seq(Entries)
<1>. DEFINE entry == [state |-> next, at |-> now]
<1>1. entry \in Entries
  BY DEF Entries
<1>. QED  BY <1>1, AppendProperties DEF LivedOn

\* A timeline after each of the requests.
LEMMA ApplyingUnfolds ==
    ASSUME NEW base \in Timelines, NEW asked \in Seq(TimelineStates), NEW now \in Nat
    PROVE  \E after :
               /\ after[0] = base
               /\ \A i \in 1 .. Len(asked) : after[i] = Applied(after[i - 1], asked[i], now)
               /\ AppliedAll(base, asked, now) = after[Len(asked)]
<1>. DEFINE n == Len(asked)
            Fold(iter) ==
                iter = [s \in SUBSET (DOMAIN asked) |->
                           IF s = {} THEN base
                           ELSE Applied(iter[s \ {Max(s)}], asked[Max(s)], now)]
            all == CHOOSE iter : Fold(iter)
<1>0. /\ n \in Nat /\ DOMAIN asked = 1 .. n
      /\ \A i \in 1 .. n : asked[i] \in TimelineStates
  BY LenProperties
<1>1. \E iter : Fold(iter)
  <2>. DEFINE W == Timelines
              step == [p \in (1 .. n) \X W |-> Applied(p[2], asked[p[1]], now)]
  <2>1. step \in [(1 .. n) \X W -> W]
    <3>. SUFFICES ASSUME NEW i \in 1 .. n, NEW w \in W
                  PROVE  Applied(w, asked[i], now) \in W
      OBVIOUS
    <3>. QED  BY <1>0, AppliedIsTimeline
  <2>2. \A i \in 1 .. n, w \in W : step[<<i, w>>] = Applied(w, asked[i], now)
    OBVIOUS
  <2>3. base \in W
    OBVIOUS
  <2>. HIDE DEF step, n, W
  <2>4. PICK iter : Iterates(iter, W, base, n, step)
    BY <1>0, <2>1, <2>3, IterationExists
  <2>5. ASSUME NEW s \in SUBSET (1 .. n)
        PROVE  iter[s] = IF s = {} THEN base
                         ELSE Applied(iter[s \ {Max(s)}], asked[Max(s)], now)
    <3>1. CASE s # {}
      <4>1. Max(s) \in 1 .. n
        BY <1>0, <3>1, MaxOfSome
      <4>2. iter[s \ {Max(s)}] \in W
        BY <2>4 DEF Iterates
      <4>. QED  BY <3>1, <4>1, <4>2, <2>2, <2>4 DEF Iterates
    <3>. QED  BY <3>1, <2>4 DEF Iterates
  <2>6. Fold(iter)
    BY <1>0, <2>4, <2>5 DEF Iterates
  <2>. QED  BY <2>6
<1>2. AppliedAll(base, asked, now) = all[DOMAIN asked]
  BY DEF AppliedAll, FoldLeft, MapThenFoldSet
<1>3. Fold(all)
  BY <1>1
<1>. HIDE DEF all
<1>. DEFINE after == [i \in 0 .. n |-> all[1 .. i]]
<1>4. after[0] = base
  BY <1>0, <1>3
<1>5. ASSUME NEW i \in 1 .. n
      PROVE  after[i] = Applied(after[i - 1], asked[i], now)
  <2>0. i \in Nat /\ 1 .. i # {} /\ i \in 1 .. i
    <3>1. i \in 1 .. n /\ n \in Nat
      BY <1>0
    <3>2. i \in Nat /\ 1 <= i
      BY <3>1
    <3>3. i \in 1 .. i
      BY <3>2
    <3>. QED  BY <3>2, <3>3
  <2>1. Max(1 .. i) = i
    <3>1. Max(1 .. i) \in 1 .. i /\ \A y \in 1 .. i : y <= Max(1 .. i)
      BY <2>0, MaxOfSome
    <3>. QED  BY <2>0, <3>1
  <2>2. (1 .. i) \ {i} = 1 .. i - 1
    OBVIOUS
  <2>3. 1 .. i \in SUBSET (1 .. n)
    BY <1>0, <2>0
  <2>4. after[i] = all[1 .. i] /\ after[i - 1] = all[1 .. i - 1]
    BY <1>0, <2>0
  <2>5. all[1 .. i] = Applied(all[(1 .. i) \ {Max(1 .. i)}], asked[Max(1 .. i)], now)
    <3>. DEFINE value(s) == IF s = {} THEN base
                            ELSE Applied(all[s \ {Max(s)}], asked[Max(s)], now)
    <3>1. all = [s \in SUBSET (1 .. n) |-> value(s)]
      BY <1>0, <1>3
    <3>2. value(1 .. i) = Applied(all[(1 .. i) \ {Max(1 .. i)}], asked[Max(1 .. i)], now)
      BY <2>0
    <3>. HIDE DEF value
    <3>. QED  BY <2>3, <3>1, <3>2
  <2>. QED  BY <2>1, <2>2, <2>4, <2>5
<1>6. AppliedAll(base, asked, now) = after[n]
  BY <1>0, <1>2
<1>. QED  BY <1>4, <1>5, <1>6

\* Its history, the same.
LEMMA LivingUnfolds ==
    ASSUME NEW base \in Seq(Entries), NEW asked \in Seq(TimelineStates), NEW now \in Nat
    PROVE  \E after :
               /\ after[0] = base
               /\ \A i \in 1 .. Len(asked) : after[i] = LivedOn(after[i - 1], asked[i], now)
               /\ Lived(base, asked, now) = after[Len(asked)]
<1>. DEFINE n == Len(asked)
            Fold(iter) ==
                iter = [s \in SUBSET (DOMAIN asked) |->
                           IF s = {} THEN base
                           ELSE LivedOn(iter[s \ {Max(s)}], asked[Max(s)], now)]
            all == CHOOSE iter : Fold(iter)
<1>0. /\ n \in Nat /\ DOMAIN asked = 1 .. n
      /\ \A i \in 1 .. n : asked[i] \in TimelineStates
  BY LenProperties
<1>1. \E iter : Fold(iter)
  <2>. DEFINE W == Seq(Entries)
              step == [p \in (1 .. n) \X W |-> LivedOn(p[2], asked[p[1]], now)]
  <2>1. step \in [(1 .. n) \X W -> W]
    <3>. SUFFICES ASSUME NEW i \in 1 .. n, NEW w \in W
                  PROVE  LivedOn(w, asked[i], now) \in W
      OBVIOUS
    <3>. QED  BY <1>0, LivedIsHistory
  <2>2. \A i \in 1 .. n, w \in W : step[<<i, w>>] = LivedOn(w, asked[i], now)
    OBVIOUS
  <2>3. base \in W
    OBVIOUS
  <2>. HIDE DEF step, n, W
  <2>4. PICK iter : Iterates(iter, W, base, n, step)
    BY <1>0, <2>1, <2>3, IterationExists
  <2>5. ASSUME NEW s \in SUBSET (1 .. n)
        PROVE  iter[s] = IF s = {} THEN base
                         ELSE LivedOn(iter[s \ {Max(s)}], asked[Max(s)], now)
    <3>1. CASE s # {}
      <4>1. Max(s) \in 1 .. n
        BY <1>0, <3>1, MaxOfSome
      <4>2. iter[s \ {Max(s)}] \in W
        BY <2>4 DEF Iterates
      <4>. QED  BY <3>1, <4>1, <4>2, <2>2, <2>4 DEF Iterates
    <3>. QED  BY <3>1, <2>4 DEF Iterates
  <2>6. Fold(iter)
    BY <1>0, <2>4, <2>5 DEF Iterates
  <2>. QED  BY <2>6
<1>2. Lived(base, asked, now) = all[DOMAIN asked]
  BY DEF Lived, FoldLeft, MapThenFoldSet
<1>3. Fold(all)
  BY <1>1
<1>. HIDE DEF all
<1>. DEFINE after == [i \in 0 .. n |-> all[1 .. i]]
<1>4. after[0] = base
  BY <1>0, <1>3
<1>5. ASSUME NEW i \in 1 .. n
      PROVE  after[i] = LivedOn(after[i - 1], asked[i], now)
  <2>0. i \in Nat /\ 1 .. i # {} /\ i \in 1 .. i
    <3>1. i \in 1 .. n /\ n \in Nat
      BY <1>0
    <3>2. i \in Nat /\ 1 <= i
      BY <3>1
    <3>3. i \in 1 .. i
      BY <3>2
    <3>. QED  BY <3>2, <3>3
  <2>1. Max(1 .. i) = i
    <3>1. Max(1 .. i) \in 1 .. i /\ \A y \in 1 .. i : y <= Max(1 .. i)
      BY <2>0, MaxOfSome
    <3>. QED  BY <2>0, <3>1
  <2>2. (1 .. i) \ {i} = 1 .. i - 1
    OBVIOUS
  <2>3. 1 .. i \in SUBSET (1 .. n)
    BY <1>0, <2>0
  <2>4. after[i] = all[1 .. i] /\ after[i - 1] = all[1 .. i - 1]
    BY <1>0, <2>0
  <2>5. all[1 .. i] = LivedOn(all[(1 .. i) \ {Max(1 .. i)}], asked[Max(1 .. i)], now)
    <3>. DEFINE value(s) == IF s = {} THEN base
                            ELSE LivedOn(all[s \ {Max(s)}], asked[Max(s)], now)
    <3>1. all = [s \in SUBSET (1 .. n) |-> value(s)]
      BY <1>0, <1>3
    <3>2. value(1 .. i) = LivedOn(all[(1 .. i) \ {Max(1 .. i)}], asked[Max(1 .. i)], now)
      BY <2>0
    <3>. HIDE DEF value
    <3>. QED  BY <2>3, <3>1, <3>2
  <2>. QED  BY <2>1, <2>2, <2>4, <2>5
<1>6. Lived(base, asked, now) = after[n]
  BY <1>0, <1>2
<1>. QED  BY <1>4, <1>5, <1>6

\* So after any requests timeline and history agree again.
LEMMA RequestsKeep ==
    ASSUME NEW timeline, NEW lived, NEW now \in Nat, NEW asked \in Seq(TimelineStates),
           Lives(lived, now), Tells(timeline, lived, now)
    PROVE  /\ Lives(Lived(lived, asked, now), now)
           /\ Tells(AppliedAll(timeline, asked, now), Lived(lived, asked, now), now)
<1>. DEFINE n == Len(asked)
<1>0. n \in Nat /\ \A i \in 1 .. n : asked[i] \in TimelineStates
  BY LenProperties
<1>1. PICK after :
          /\ after[0] = timeline
          /\ \A i \in 1 .. n : after[i] = Applied(after[i - 1], asked[i], now)
          /\ AppliedAll(timeline, asked, now) = after[n]
  BY ApplyingUnfolds DEF Tells
<1>2. PICK past :
          /\ past[0] = lived
          /\ \A i \in 1 .. n : past[i] = LivedOn(past[i - 1], asked[i], now)
          /\ Lived(lived, asked, now) = past[n]
  BY LivingUnfolds DEF Lives
<1>. DEFINE Agree(i) == Lives(past[i], now) /\ Tells(after[i], past[i], now)
<1>3. Agree(0)
  BY <1>1, <1>2
<1>4. ASSUME NEW i \in Nat, i + 1 <= n, Agree(i) PROVE Agree(i + 1)
  <2>1. i + 1 \in 1 .. n /\ (i + 1) - 1 = i
    BY <1>4
  <2>2. /\ after[i + 1] = Applied(after[i], asked[i + 1], now)
        /\ past[i + 1] = LivedOn(past[i], asked[i + 1], now)
        /\ asked[i + 1] \in TimelineStates
    BY <1>0, <1>1, <1>2, <2>1
  <2>. QED  BY <1>4, <2>2, RequestKeeps
<1>5. Agree(n)
  <2>. HIDE DEF Agree
  <2>. DEFINE T == {i \in Nat : i <= n => Agree(i)}
  <2>1. 0 \in T
    BY <1>3
  <2>2. ASSUME NEW i \in Nat, i \in T PROVE i + 1 \in T
    BY <1>0, <1>4, <2>2
  <2>. HIDE DEF T
  <2>3. n \in T
    BY <1>0, <2>1, <2>2, Induction
  <2>. QED  BY <2>3 DEF T
<1>. QED  BY <1>1, <1>2, <1>5

-----------------------------------------------------------------------------
\* What a report is of.

LEMMA FirstBankListed ==
    ASSUME NEW matching
    PROVE  FirstBank(matching).nama_bank \in BankNames \cup {""}
<1>. DEFINE I == {j \in 1 .. 5 : bifastList[j] \in matching}
<1>1. SelectInSeq(bifastList, LAMBDA b : b \in matching) = IF I # {} THEN Min(I) ELSE 0
  BY TheList DEF SelectInSeq
<1>2. CASE I = {}
  <2>1. FirstBank(matching) = NoBank
    BY <1>2, FirstBankNone
  <2>2. NoBank.nama_bank = ""
    BY DEF NoBank, Bank
  <2>. QED  BY <2>1, <2>2
<1>3. CASE I # {}
  <2>1. I \in SUBSET Nat
    OBVIOUS
  <2>2. PICK i \in I : \A j \in I : i <= j
    BY <1>3, <2>1, LeastNatural
  <2>3. FirstBank(matching) = bifastList[i]
    <3>1. i \in 1 .. 5 /\ bifastList[i] \in matching
      OBVIOUS
    <3>2. \A j \in 1 .. 5 : j < i => bifastList[j] \notin matching
      BY <2>2, <3>1
    <3>. QED  BY <3>1, <3>2, FirstBankFound
  <2>. QED  BY <2>3, ListedBanks
<1>. QED  BY <1>2, <1>3

\* Whatever a text says: what is reported is reported of a bank of the list.
LEMMA ReportsAreOfBanks ==
    ASSUME NEW t \in Texts
    PROVE  \/ ReportIn[t] = NoReport
           \/ ReportIn[t].entity \in BankNames /\ ReportIn[t].status # None
<1>1. ReportIn[t] = parseBifastMessage(t)
  BY DEF ReportIn
<1>2. normalizeEntity(extractEntity(t)) \in BankNames \cup {""}
  BY FirstBankListed DEF normalizeEntity, BankOfCodeOrName
<1>. DEFINE report == [entity |-> normalizeEntity(extractEntity(t)),
                       status |-> detectStatusNLP(t)]
<1>3. \/ parseBifastMessage(t) = NoReport
      \/ /\ parseBifastMessage(t) = report
         /\ report.entity # "" /\ report.status # None
  BY Zenon DEF parseBifastMessage
<1>4. report.entity \in BankNames \cup {""}
  BY <1>2
<1>. HIDE DEF report
<1>. QED  BY <1>1, <1>3, <1>4

LEMMA ClosedBankIsListed ==
    ASSUME HandlingInv, NEW h \in handling, ClosedRead(h)
    PROVE  ReportIn[h.msg.text].entity \in BankNames
<1>1. /\ h.msg \in Messages
      /\ ReportIn[h.msg.text].status = "CLOSED"
  BY DEF HandlingInv, HandlersHaveReason, Heard, Due, ClosedRead
<1>2. h.msg.text \in Texts
  <2>1. PICK p \in Payloads : h.msg.text = Body(p)
    BY <1>1 DEF Messages
  <2>2. Body(p) \in {p.conversation, p.extended}
    BY DEF Body
  <2>. QED  BY <2>1, <2>2 DEF Texts
<1>3. NoReport.status # "CLOSED"
  BY DEF NoReport, None
<1>4. ReportIn[h.msg.text] # NoReport
  BY <1>1, <1>3
<1>. QED  BY <1>2, <1>4, ReportsAreOfBanks

-----------------------------------------------------------------------------
\* The inductive invariant: every timeline tells its history.

ShownInv ==
    /\ HandlingInv
    /\ timelines \in [BankNames -> Timelines]
    /\ life \in [BankNames -> Seq(Entries)]
    /\ \A b \in BankNames : Lives(life[b], clock) /\ Tells(timelines[b], life[b], clock)

LEMMA ShownInit == Init => ShownInv
<1>. SUFFICES ASSUME Init PROVE ShownInv
  OBVIOUS
<1>1. <<>> \in Seq(Entries) /\ Len(<<>>) = 0
  OBVIOUS
<1>2. Lives(<<>>, clock)
  BY <1>1 DEF Lives
<1>3. NoTimeline \in Timelines
  BY <1>1 DEF NoTimeline, Timelines, TimelineStates
<1>4. Tells(NoTimeline, <<>>, clock)
  <2>1. NoTimeline.events = Dropped(<<>>, 0)
    BY DEF NoTimeline, Dropped
  <2>. QED  BY <1>1, <1>3, <2>1 DEF Tells, NoTimeline, StateAfter
<1>5. timelines = [b \in BankNames |-> NoTimeline] /\ life = [b \in BankNames |-> <<>>]
  BY DEF Init, NoTimelines
<1>. QED  BY HandlingInit, <1>1, <1>2, <1>3, <1>4, <1>5 DEF ShownInv

\* Four actions have to do with them.
LEMMA TimelineWriters ==
    ASSUME [Next]_vars
    PROVE  \/ UNCHANGED <<timelines, life, clock>>
           \/ \E h \in handling : ClosedRead(h)
           \/ \E b \in BankNames : RecoveryTick(b)
           \/ \E b \in BankNames, decision \in Decisions : VerificationTick(b, decision)
           \/ MinutePasses
<1>. USE DEF complaintVars, jobState
<1>1. CASE UNCHANGED <<complaintVars, jobState, progress>> \/ UNCHANGED vars
  BY <1>1 DEF vars
<1>2. CASE ReceiveOther
  BY <1>2 DEF ReceiveOther, Emit
<1>3. CASE ReceivePing
  BY <1>3 DEF ReceivePing
<1>4. CASE \E d \in pinging : ReceivePingSent(d)
  BY <1>4 DEF ReceivePingSent, Emit
<1>5. CASE \E h \in handling : Replied(h) \/ Proceeds(h)
  BY <1>5 DEF Replied, Proceeds, RowRead, ComplaintRead, Executed
<1>6. CASE \E b \in BankNames : VerificationEnds(b)
  BY <1>6 DEF VerificationEnds
<1>. QED  BY <1>1, <1>2, <1>3, <1>4, <1>5, <1>6 DEF Next

\* Requests to one bank, of its timeline and its history.
LEMMA BankIsTold ==
    ASSUME ShownInv, NEW b \in BankNames, NEW asked \in Seq(TimelineStates),
           timelines' = [timelines EXCEPT ![b] = AppliedAll(timelines[b], asked, clock)],
           life' = [life EXCEPT ![b] = Lived(life[b], asked, clock)],
           UNCHANGED clock, HandlingInv'
    PROVE  ShownInv'
<1>0. clock \in Nat
  BY DEF ShownInv, HandlingInv, TrafficInv, TrafficTypeOK
<1>1. /\ Lives(Lived(life[b], asked, clock), clock)
      /\ Tells(AppliedAll(timelines[b], asked, clock), Lived(life[b], asked, clock), clock)
  BY <1>0, RequestsKeep DEF ShownInv
<1>2. \A c \in BankNames :
          Lives(life'[c], clock) /\ Tells(timelines'[c], life'[c], clock)
  BY <1>1 DEF ShownInv
<1>3. /\ timelines' \in [BankNames -> Timelines]
      /\ life' \in [BankNames -> Seq(Entries)]
  BY <1>1 DEF ShownInv, Lives, Tells
<1>. QED  BY <1>2, <1>3 DEF ShownInv

\* One request is requests, one of them.
LEMMA OneRequest ==
    ASSUME NEW timeline \in Timelines, NEW lived \in Seq(Entries),
           NEW next \in TimelineStates, NEW now \in Nat
    PROVE  /\ <<next>> \in Seq(TimelineStates)
           /\ AppliedAll(timeline, <<next>>, now) = Applied(timeline, next, now)
<1>1. <<next>> \in Seq(TimelineStates) /\ Len(<<next>>) = 1 /\ <<next>>[1] = next
  OBVIOUS
<1>2. PICK after :
          /\ after[0] = timeline
          /\ \A i \in 1 .. Len(<<next>>) : after[i] = Applied(after[i - 1], <<next>>[i], now)
          /\ AppliedAll(timeline, <<next>>, now) = after[Len(<<next>>)]
  BY <1>1, ApplyingUnfolds
<1>3. after[1] = Applied(after[1 - 1], <<next>>[1], now)
  BY <1>1, <1>2
<1>. QED  BY <1>1, <1>2, <1>3

\* With the minutes a history stays in order, and what is old gets older.
LEMMA TimePasses ==
    ASSUME NEW timeline, NEW lived, NEW now \in Nat,
           Lives(lived, now), Tells(timeline, lived, now)
    PROVE  Lives(lived, now + 1) /\ Tells(timeline, lived, now + 1)
<1>1. \A i \in 1 .. Len(lived) : lived[i].at \in Nat
  <2>1. \A i \in 1 .. Len(lived) : lived[i] \in Entries
    BY LenProperties DEF Lives
  <2>. QED  BY <2>1 DEF Entries
<1>2. Lives(lived, now + 1)
  BY <1>1 DEF Lives
<1>3. PICK k \in 0 .. Len(lived) :
           /\ timeline.events = Dropped(lived, k)
           /\ \A i \in 1 .. k : now - lived[i].at > TimelineWindow
  BY DEF Tells
<1>4. \A i \in 1 .. k : i \in 1 .. Len(lived)
  BY LenProperties DEF Lives
<1>5. \A i \in 1 .. k : (now + 1) - lived[i].at > TimelineWindow
  BY <1>1, <1>3, <1>4, TimelineWindowAssumption
<1>. QED  BY <1>2, <1>3, <1>5 DEF Tells

LEMMA ShownNext ==
    ASSUME ShownInv, [Next]_vars
    PROVE  ShownInv'
<1>0. HandlingInv' /\ clock \in Nat
  BY HandlingNext DEF ShownInv, HandlingInv, TrafficInv, TrafficTypeOK
<1>1. CASE UNCHANGED <<timelines, life, clock>>
  BY <1>0, <1>1 DEF ShownInv
<1>2. ASSUME NEW b \in BankNames, NEW next \in TimelineStates, NEW entity, KeyOf[entity] = b,
             timelines' = WithTransition(timelines, entity, next, clock),
             Tracks(b, <<next>>), UNCHANGED clock
      PROVE  ShownInv'
  <2>1. timelines[b] \in Timelines /\ life[b] \in Seq(Entries)
    BY DEF ShownInv
  <2>2. /\ <<next>> \in Seq(TimelineStates)
        /\ AppliedAll(timelines[b], <<next>>, clock) = Applied(timelines[b], next, clock)
    BY <1>0, <2>1, OneRequest
  <2>3. /\ timelines' = [timelines EXCEPT ![b] = AppliedAll(timelines[b], <<next>>, clock)]
        /\ life' = [life EXCEPT ![b] = Lived(life[b], <<next>>, clock)]
    BY <1>2, <2>2 DEF WithTransition, Tracks
  <2>. QED  BY <1>0, <1>2, <2>2, <2>3, BankIsTold
<1>3. ASSUME NEW h \in handling, ClosedRead(h) PROVE ShownInv'
  <2>. DEFINE b == ReportIn[h.msg.text].entity
  <2>1. b \in BankNames /\ "CLOSE" \in TimelineStates
    BY <1>3, ClosedBankIsListed DEF ShownInv, TimelineStates
  <2>2. UNCHANGED clock
    BY <1>3 DEF ClosedRead, complaintVars
  <2>3. CASE UNCHANGED <<timelines, life>>
    BY <1>1, <2>2, <2>3
  <2>4. CASE /\ timelines' = WithTransition(timelines, b, "CLOSE", clock)
             /\ Tracks(b, <<"CLOSE">>)
    BY <1>2, <2>1, <2>2, <2>4, KeyOfSpelling
  <2>. QED  BY <1>3, <2>3, <2>4 DEF ClosedRead
<1>4. ASSUME NEW b \in BankNames, RecoveryTick(b) PROVE ShownInv'
  <2>1. "NORMAL" \in TimelineStates /\ KeyOf[AbbreviationIn[b]] = b
    BY KeyOfSpelling DEF TimelineStates
  <2>. QED  BY <1>2, <1>4, <2>1 DEF RecoveryTick
<1>5. ASSUME NEW b \in BankNames, NEW decision \in Decisions,
             VerificationTick(b, decision)
      PROVE  ShownInv'
  <2>. DEFINE asked == Requests(timelines[b].state, decision)
  <2>1. asked \in Seq(TimelineStates)
    <3>1. decision \in TimelineStates /\ "WAIT" \in TimelineStates
      BY DEF TimelineStates, Decisions
    <3>. QED  BY <3>1 DEF Requests
  <2>2. KeyOf[AbbreviationIn[b]] = b
    BY KeyOfSpelling
  <2>. HIDE DEF asked
  <2>3. /\ timelines' = [timelines EXCEPT ![b] = AppliedAll(timelines[b], asked, clock)]
        /\ life' = [life EXCEPT ![b] = Lived(life[b], asked, clock)]
        /\ UNCHANGED clock
    BY <1>5, <2>2 DEF VerificationTick, WithDecision, Tracks, complaintVars, asked
  <2>. QED  BY <1>0, <2>1, <2>3, BankIsTold
<1>6. CASE MinutePasses
  <2>1. clock' = clock + 1 /\ UNCHANGED <<timelines, life>>
    BY <1>6 DEF MinutePasses, jobState
  <2>. QED  BY <1>0, <2>1, TimePasses DEF ShownInv
<1>. QED  BY <1>1, <1>3, <1>4, <1>5, <1>6, TimelineWriters

-----------------------------------------------------------------------------

LEMMA ShownAlways == Spec => []ShownInv
BY ShownInit, ShownNext, PTL DEF Spec

(***************************************************************************)
(* "/state" shows, under every spelling of a bank, all that became of it   *)
(* in the last hour, however long the process lives: the list is cleaned   *)
(* only when it grows, and only of what is older                           *)
(* (InMemoryIncidentStateMachine.ts:50-62, 81-112).                        *)
(***************************************************************************)
THEOREM LastHourIsShown == Spec => []HourIsShown
<1>1. ASSUME ShownInv PROVE HourIsShown
  <2>. SUFFICES ASSUME NEW b \in BankNames, NEW spelling \in {b, AbbreviationIn[b]}
                PROVE  IsSuffix(Recent(life[b], clock), getTimeline(timelines, spelling))
    BY DEF HourIsShown
  <2>. DEFINE lived == life[b]
  <2>0. /\ clock \in Nat
        /\ lived \in Seq(Entries) /\ Len(lived) \in Nat
        /\ \A i, j \in 1 .. Len(lived) : i < j => lived[i].at <= lived[j].at
        /\ \A i \in 1 .. Len(lived) : lived[i].at \in Nat
    <3>1. Lives(lived, clock) /\ clock \in Nat
      BY <1>1 DEF ShownInv, HandlingInv, TrafficInv, TrafficTypeOK
    <3>2. \A i \in 1 .. Len(lived) : lived[i] \in Entries
      BY <3>1, LenProperties DEF Lives
    <3>. QED  BY <3>1, <3>2, LenProperties DEF Lives, Entries
  <2>1. getTimeline(timelines, spelling) = timelines[b].events
    BY KeyOfSpelling DEF getTimeline
  <2>2. PICK k \in 0 .. Len(lived) :
            /\ timelines[b].events = Dropped(lived, k)
            /\ \A i \in 1 .. k : clock - lived[i].at > TimelineWindow
    BY <1>1 DEF ShownInv, Tells
  <2>. HIDE DEF lived
  <2>3. PICK m \in 0 .. Len(lived) :
            /\ Recent(lived, clock) = Dropped(lived, m)
            /\ \A i \in 1 .. Len(lived) : clock - lived[i].at <= TimelineWindow <=> i > m
    BY <2>0, RecentDrops
  <2>4. m \in k .. Len(lived)
    <3>1. SUFFICES ASSUME m < k PROVE FALSE
      BY <2>0
    <3>2. k \in 1 .. Len(lived) /\ k \in 1 .. k
      BY <2>0, <3>1
    <3>3. clock - lived[k].at > TimelineWindow /\ clock - lived[k].at <= TimelineWindow
      BY <2>2, <2>3, <3>1, <3>2
    <3>. QED  BY <2>0, <3>2, <3>3, TimelineWindowAssumption
  <2>5. IsSuffix(Dropped(lived, m), Dropped(lived, k))
    BY <2>0, <2>4, DroppedIsSuffix
  <2>. QED  BY <2>1, <2>2, <2>3, <2>5 DEF lived
<1>. QED  BY <1>1, ShownAlways, PTL

(***************************************************************************)
(* What "/state" shows is a history the machine allows, in order of time:  *)
(* each state is not earlier than the one above it and was allowed after   *)
(* it, so that a confirmed incident comes after a WAIT, and the last is    *)
(* the bank's state, although the handlers and both jobs transition the    *)
(* same timeline under two spellings                                       *)
(* (InMemoryIncidentStateMachine.ts:65-73, 92-112).                        *)
(***************************************************************************)
THEOREM TimelinesAreRuns == Spec => []TimelineIsARun
<1>1. ASSUME ShownInv PROVE TimelineIsARun
  <2>. SUFFICES ASSUME NEW b \in BankNames
                PROVE  LET shown == timelines[b].events
                       IN  /\ \A i \in 2 .. Len(shown) :
                                  /\ Allowed(shown[i - 1].state, shown[i].state)
                                  /\ shown[i - 1].at <= shown[i].at
                           /\ shown # <<>> => Last(shown).state = timelines[b].state
    BY DEF TimelineIsARun
  <2>. DEFINE shown == timelines[b].events
              lived == life[b]
              n == Len(lived)
  <2>0. /\ lived \in Seq(Entries) /\ n \in Nat
        /\ \A i \in 2 .. n : Allowed(lived[i - 1].state, lived[i].state)
        /\ \A i, j \in 1 .. n : i < j => lived[i].at <= lived[j].at
        /\ timelines[b].state = StateAfter(lived)
    <3>1. Lives(lived, clock) /\ Tells(timelines[b], lived, clock)
      BY <1>1 DEF ShownInv
    <3>. QED  BY <3>1, LenProperties DEF Lives, Tells
  <2>1. PICK k \in 0 .. n : shown = Dropped(lived, k)
    BY <1>1 DEF ShownInv, Tells
  <2>. HIDE DEF lived
  <2>2. /\ shown \in Seq(Entries) /\ Len(shown) = n - k
        /\ \A j \in 1 .. n - k : shown[j] = lived[j + k]
    BY <2>0, <2>1, DroppedIsSeq
  <2>. HIDE DEF shown
  <2>3. ASSUME NEW i \in 2 .. Len(shown)
        PROVE  /\ Allowed(shown[i - 1].state, shown[i].state)
               /\ shown[i - 1].at <= shown[i].at
    <3>1. /\ i - 1 \in 1 .. n - k /\ i \in 1 .. n - k
          /\ i + k \in 2 .. n /\ (i - 1) + k = (i + k) - 1
      BY <2>0, <2>1, <2>2
    <3>2. shown[i - 1] = lived[(i + k) - 1] /\ shown[i] = lived[i + k]
      BY <2>2, <3>1
    <3>3. (i + k) - 1 \in 1 .. n /\ i + k \in 1 .. n /\ (i + k) - 1 < i + k
      BY <2>0, <2>1, <3>1
    <3>. QED  BY <2>0, <3>1, <3>2, <3>3
  <2>4. ASSUME shown # <<>> PROVE Last(shown).state = timelines[b].state
    <3>1. n - k # 0
      BY <2>2, <2>4
    <3>2. n - k \in 1 .. n - k /\ (n - k) + k = n /\ n # 0
      BY <2>0, <3>1
    <3>3. Last(shown) = lived[n]
      BY <2>2, <3>2 DEF Last
    <3>4. StateAfter(lived) = lived[n].state
      BY <2>0, <3>2 DEF StateAfter, Last
    <3>. QED  BY <2>0, <3>3, <3>4
  <2>. QED  BY <2>3, <2>4 DEF shown
<1>. QED  BY <1>1, ShownAlways, PTL

-----------------------------------------------------------------------------
\* The page and the rest of the state: rows of one bank do not pile up.

\* No two rows of the page have the same abbreviation.
RowsDiffer(rows) ==
    /\ \E V : rows \in Seq(V)
    /\ \A i, j \in 1 .. Len(rows) : rows[i].abbr = rows[j].abbr => i = j

\* (The name has a space in it: Zenon.)
LEMMA NewRow ==
    ASSUME NEW rows, NEW indikator, NEW now
    PROVE  \E row : /\ row.abbr = "bsi"
                    /\ WithPageRow(rows, indikator, now)
                           = Append(Filter(rows, {r \in ToSet(rows) : r.abbr # "bsi"}), row)
<1>. DEFINE row(name) == Row(name, "bsi", indikator, now)
<1>1. \A name : row(name).abbr = "bsi"
  BY DEF Row
<1>2. WithPageRow(rows, indikator, now)
          = Append(Filter(rows, {r \in ToSet(rows) : r.abbr # "bsi"}),
                   row("bank syariah indonesia"))
  BY Zenon DEF WithPageRow
<1>. HIDE DEF row
<1>. QED  BY <1>1, <1>2, Zenon

LEMMA RowsStayDifferent ==
    ASSUME NEW rows, NEW indikator, NEW now, RowsDiffer(rows)
    PROVE  RowsDiffer(WithPageRow(rows, indikator, now))
<1>. DEFINE S == {r \in ToSet(rows) : r.abbr # "bsi"}
            others == Filter(rows, S)
<1>1. PICK row : /\ row.abbr = "bsi"
                 /\ WithPageRow(rows, indikator, now) = Append(others, row)
  BY NewRow
<1>2. PICK V : rows \in Seq(V)
  BY DEF RowsDiffer
<1>3. /\ others \in Seq(V)
      /\ \A a \in 1 .. Len(others) : others[a] \in S
      /\ \A a, b \in 1 .. Len(others) :
             a < b => \E c, d \in 1 .. Len(rows) :
                          c < d /\ others[a] = rows[c] /\ others[b] = rows[d]
  <2>. HIDE DEF S
  <2>. QED  BY <1>2, FilterKeeps
<1>. HIDE DEF others
<1>. DEFINE n == Len(others)
            after == Append(others, row)
<1>4. others \in Seq(V \cup {row}) /\ row \in V \cup {row} /\ n \in Nat
  BY <1>3
<1>5. /\ after \in Seq(V \cup {row}) /\ Len(after) = n + 1
      /\ \A a \in 1 .. n : after[a] = others[a]
      /\ after[n + 1] = row
  BY <1>4, AppendProperties
<1>. HIDE DEF after
<1>6. \A a \in 1 .. n : others[a].abbr # "bsi"
  BY <1>3
<1>7. ASSUME NEW a \in 1 .. n + 1, NEW b \in 1 .. n + 1, a < b
      PROVE  after[a].abbr # after[b].abbr
  <2>1. a \in 1 .. n
    BY <1>4, <1>7
  <2>2. CASE b = n + 1
    BY <1>1, <1>5, <1>6, <2>1, <2>2
  <2>3. CASE b \in 1 .. n
    <3>1. PICK c, d \in 1 .. Len(rows) :
              c < d /\ others[a] = rows[c] /\ others[b] = rows[d]
      BY <1>3, <1>7, <2>1, <2>3
    <3>2. rows[c].abbr # rows[d].abbr
      BY <3>1 DEF RowsDiffer
    <3>. QED  BY <1>5, <2>1, <2>3, <3>1, <3>2
  <2>4. b \in 1 .. n \/ b = n + 1
    BY <1>4
  <2>. QED  BY <2>2, <2>3, <2>4
<1>8. \A i, j \in 1 .. Len(after) : after[i].abbr = after[j].abbr => i = j
  <2>. SUFFICES ASSUME NEW i \in 1 .. n + 1, NEW j \in 1 .. n + 1, i # j
                PROVE  after[i].abbr # after[j].abbr
    BY <1>5
  <2>1. i < j \/ j < i
    BY <1>4
  <2>. QED  BY <1>7, <2>1
<1>. QED  BY <1>1, <1>5, <1>8 DEF RowsDiffer, after

LEMMA PageStaysDifferent ==
    ASSUME NEW rows, NEW t, NEW now, RowsDiffer(rows)
    PROVE  RowsDiffer(PageAfter(rows, t, now))
<1>. DEFINE opened == IF Includes(t, "open") THEN WithPageRow(rows, "OPEN", now) ELSE rows
<1>1. RowsDiffer(opened)
  BY RowsStayDifferent
<1>. HIDE DEF opened
<1>2. RowsDiffer(WithPageRow(opened, "CLOSE", now))
  BY <1>1, RowsStayDifferent
<1>3. PageAfter(rows, t, now) = IF Includes(t, "close")
                                THEN WithPageRow(opened, "CLOSE", now) ELSE opened
  BY DEF PageAfter, opened
<1>. QED  BY <1>1, <1>2, <1>3

LEMMA FirstPage == RowsDiffer(resultAxiosRequest)
<1>1. PICK a, b, c : /\ resultAxiosRequest = <<a, b, c>>
                     /\ a.abbr = "cimb" /\ b.abbr = "bsi" /\ c.abbr = "dana"
  <2>1. Row("bank cimb niaga", "cimb", "OPEN", 0).abbr = "cimb"
    BY Zenon DEF Row
  <2>2. Row("bank syariah indonesia", "bsi", "CLOSE", 0).abbr = "bsi"
    BY Zenon DEF Row
  <2>3. Row("dana", "dana", "OPEN", 0).abbr = "dana"
    BY Zenon DEF Row
  <2>. QED  BY <2>1, <2>2, <2>3, Zenon DEF resultAxiosRequest
<1>2. <<a, b, c>> \in Seq({a, b, c}) /\ Len(<<a, b, c>>) = 3
  OBVIOUS
<1>3. \A i, j \in 1 .. 3 : <<a, b, c>>[i].abbr = <<a, b, c>>[j].abbr => i = j
  <2>. SUFFICES ASSUME NEW i \in 1 .. 3, NEW j \in 1 .. 3,
                       <<a, b, c>>[i].abbr = <<a, b, c>>[j].abbr
                PROVE  i = j
    OBVIOUS
  <2>1. (i = 1 \/ i = 2 \/ i = 3) /\ (j = 1 \/ j = 2 \/ j = 3)
    OBVIOUS
  <2>. QED  BY <1>1, <2>1
<1>. QED  BY <1>1, <1>2, <1>3 DEF RowsDiffer

-----------------------------------------------------------------------------

Points == {"reply", "complaint", "closed", "execute"}
Rows == {Unread, "none", "OPEN", "CLOSED"}
AtPoint(h) == h.at \in Points /\ h.row \in Rows

WorldTypeOK ==
    /\ link \in {"connecting", "up", "down"}
    /\ crashed \in BOOLEAN
    /\ \A h \in handling : AtPoint(h)
    /\ verifying \subseteq BankNames

TypesInv == ShownInv /\ WorldTypeOK /\ RowsDiffer(page)

\* Where a part of the handler may stop.
LEMMA PartsStop ==
    ASSUME NEW d, NEW others,
           \/ HandleCommand(d, others)
           \/ HandleComplaint(d, others)
           \/ HandleReport(d, others)
    PROVE  /\ \A h \in handling' : h \in others \/ AtPoint(h)
           /\ verifying' \subseteq verifying
<1>1. ASSUME NEW at \in Points, Awaits(d, at, others)
      PROVE  \A h \in handling' : h \in others \/ AtPoint(h)
  BY <1>1 DEF Awaits, Awaiting, AtPoint, Rows
<1>2. ASSUME Ends(others)
      PROVE  \A h \in handling' : h \in others \/ AtPoint(h)
  BY <1>2 DEF Ends
<1>3. "reply" \in Points /\ "complaint" \in Points /\ "closed" \in Points
      /\ "execute" \in Points
  BY DEF Points
<1>4. ASSUME HandleReport(d, others)
      PROVE  /\ \A h \in handling' : h \in others \/ AtPoint(h)
             /\ verifying' \subseteq verifying
  BY <1>1, <1>2, <1>3, <1>4 DEF HandleReport
<1>5. ASSUME HandleComplaint(d, others)
      PROVE  /\ \A h \in handling' : h \in others \/ AtPoint(h)
             /\ verifying' \subseteq verifying
  BY <1>1, <1>3, <1>4, <1>5 DEF HandleComplaint
<1>6. ASSUME HandleCommand(d, others)
      PROVE  /\ \A h \in handling' : h \in others \/ AtPoint(h)
             /\ verifying' \subseteq verifying
  BY <1>1, <1>2, <1>3, <1>5, <1>6 DEF HandleCommand
<1>. QED  BY <1>4, <1>5, <1>6

\* A message is emitted: the words of it rewrite the page.
LEMMA TypesEmit ==
    ASSUME TypesInv, NEW d, Emit(d), UNCHANGED <<link, crashed>>
    PROVE  WorldTypeOK' /\ RowsDiffer(page')
<1>1. RowsDiffer(page')
  BY PageStaysDifferent DEF Emit, TypesInv
<1>2. CASE HandleCommand(d, handling)
  BY <1>1, <1>2, PartsStop DEF TypesInv, WorldTypeOK
<1>3. CASE Ends(handling) /\ UNCHANGED verifying
  BY <1>1, <1>3 DEF TypesInv, WorldTypeOK, Ends
<1>. QED  BY <1>2, <1>3 DEF Emit

LEMMA TypesNext ==
    ASSUME TypesInv, [Next]_vars
    PROVE  TypesInv'
<1>0. ShownInv'
  BY ShownNext DEF TypesInv
<1>. SUFFICES WorldTypeOK' /\ RowsDiffer(page')
  BY <1>0 DEF TypesInv
<1>. USE DEF ingressVars, jobState, progress
<1>1. ASSUME UNCHANGED <<link, crashed, handling, verifying, page>>
      PROVE  WorldTypeOK' /\ RowsDiffer(page')
  BY <1>1 DEF TypesInv, WorldTypeOK
<1>2. CASE World /\ UNCHANGED <<complaintVars, jobState, progress>>
  <2>1. link' \in {"connecting", "up", "down"} /\ crashed' \in BOOLEAN
    BY <1>2 DEF World, Webhook, Connects, Disconnects, PingFails, TypesInv, WorldTypeOK
  <2>. QED  BY <1>2, <2>1 DEF TypesInv, WorldTypeOK
<1>3. CASE ReceiveOther
  BY <1>3, TypesEmit DEF ReceiveOther, DeliverOther, Deliver
<1>4. CASE ReceivePing
  BY <1>1, <1>4 DEF ReceivePing, DeliverPing, Deliver
<1>5. ASSUME NEW d \in pinging, ReceivePingSent(d)
      PROVE  WorldTypeOK' /\ RowsDiffer(page')
  BY <1>5, TypesEmit DEF ReceivePingSent, PingSent
<1>6. ASSUME NEW h \in handling, Replied(h) \/ ComplaintRead(h)
      PROVE  WorldTypeOK' /\ RowsDiffer(page')
  <2>1. /\ \A c \in handling' : c \in handling \/ AtPoint(c)
        /\ verifying' \subseteq verifying
    BY <1>6, PartsStop DEF Replied, ComplaintRead
  <2>2. UNCHANGED <<link, crashed, page>>
    BY <1>6 DEF Replied, ComplaintRead
  <2>. QED  BY <2>1, <2>2 DEF TypesInv, WorldTypeOK
<1>7. ASSUME NEW h \in handling, ClosedRead(h)
      PROVE  WorldTypeOK' /\ RowsDiffer(page')
  <2>1. ReportIn[h.msg.text].entity \in BankNames
    BY <1>7, ClosedBankIsListed DEF TypesInv, ShownInv
  <2>2. verifying' \subseteq BankNames
    BY <1>7, <2>1 DEF ClosedRead, TypesInv, WorldTypeOK
  <2>3. \A c \in handling' : AtPoint(c)
    BY <1>7 DEF ClosedRead, Awaits, Awaiting, AtPoint, Points, Rows, TypesInv,
                WorldTypeOK
  <2>4. UNCHANGED <<link, crashed, page>>
    BY <1>7 DEF ClosedRead
  <2>. QED  BY <2>2, <2>3, <2>4 DEF TypesInv, WorldTypeOK
<1>8. ASSUME NEW h \in handling, Executed(h)
      PROVE  WorldTypeOK' /\ RowsDiffer(page')
  BY <1>8 DEF Executed, Ends, TypesInv, WorldTypeOK
<1>9. ASSUME NEW b \in BankNames, RecoveryTick(b)
      PROVE  WorldTypeOK' /\ RowsDiffer(page')
  BY <1>1, <1>9 DEF RecoveryTick
<1>10. ASSUME NEW b \in BankNames, VerificationEnds(b)
       PROVE  WorldTypeOK' /\ RowsDiffer(page')
  BY <1>10 DEF VerificationEnds, TypesInv, WorldTypeOK
<1>11. ASSUME NEW b \in BankNames, NEW decision \in Decisions,
              VerificationTick(b, decision)
       PROVE  WorldTypeOK' /\ RowsDiffer(page')
  BY <1>11 DEF VerificationTick, TypesInv, WorldTypeOK
<1>12. CASE MinutePasses
  BY <1>1, <1>12 DEF MinutePasses
<1>13. CASE UNCHANGED vars
  BY <1>1, <1>13 DEF vars
<1>14. ASSUME NEW h \in handling, RowRead(h)
       PROVE  WorldTypeOK' /\ RowsDiffer(page')
  <2>1. \A b \in BankNames : lastStatus[b] \in Rows
    BY DEF TypesInv, ShownInv, HandlingInv, StoresTypeOK, Rows
  <2>2. AskedFor(h) \in BankNames => lastStatus[AskedFor(h)] \in Rows
    BY <2>1
  <2>3. \A c \in handling' : AtPoint(c)
    BY <1>14, <2>2 DEF RowRead, Awaiting, AtPoint, Points, Rows, TypesInv,
                       WorldTypeOK
  <2>. QED  BY <1>14, <2>3 DEF RowRead, TypesInv, WorldTypeOK
<1>. QED  BY <1>2, <1>3, <1>4, <1>5, <1>6, <1>7, <1>8, <1>9, <1>10, <1>11,
             <1>12, <1>13, <1>14 DEF Next, Proceeds

\* Different rows are as many as their abbreviations.
LEMMA RowsAreCounted ==
    ASSUME NEW rows, RowsDiffer(rows)
    PROVE  Cardinality({rows[i].abbr : i \in DOMAIN rows}) = Len(rows)
<1>. DEFINE n == Len(rows)
            abbrs == {rows[i].abbr : i \in 1 .. n}
            f == [i \in 1 .. n |-> rows[i].abbr]
<1>0. n \in Nat /\ DOMAIN rows = 1 .. n
  BY LenProperties DEF RowsDiffer
<1>1. f \in Bijection(1 .. n, abbrs)
  <2>1. /\ f \in [1 .. n -> abbrs]
        /\ \A a, b \in 1 .. n : f[a] = f[b] => a = b
        /\ \A t \in abbrs : \E a \in 1 .. n : f[a] = t
    BY DEF RowsDiffer
  <2>. HIDE DEF f, abbrs
  <2>. QED  BY <2>1, Fun_IsBij
<1>. HIDE DEF f, abbrs
<1>2. IsFiniteSet(1 .. n) /\ Cardinality(1 .. n) = n
  <2>1. /\ IsFiniteSet(1 .. n)
        /\ Cardinality(1 .. n) = IF 1 > n THEN 0 ELSE n - 1 + 1
    BY <1>0, FS_Interval
  <2>. QED  BY <1>0, <2>1
<1>3. Cardinality(abbrs) = n
  <2>1. ExistsBijection(1 .. n, abbrs)
    BY <1>1 DEF ExistsBijection
  <2>. QED  BY <1>2, <2>1, FS_Bijection
<1>. QED  BY <1>0, <1>3 DEF abbrs

(***************************************************************************)
(* What is in the memory of the process is what the code takes it for:     *)
(* handlers wait at one of four awaits, the jobs are of banks of the list  *)
(* whatever a message says, and the page has one row for each abbreviation *)
(* however often its rows are rewritten (BiFastMessageHandler.ts:33-100,   *)
(* bifastlist.ts:2604-2632).                                               *)
(***************************************************************************)
THEOREM InboundTypeCorrect == Spec => []InboundTypeOK
<1>1. Init => TypesInv
  <2>. SUFFICES ASSUME Init PROVE TypesInv
    OBVIOUS
  <2>1. WorldTypeOK
    BY DEF Init, IngressInit, WorldTypeOK
  <2>2. RowsDiffer(page)
    BY FirstPage DEF Init
  <2>. QED  BY <2>1, <2>2, ShownInit DEF TypesInv
<1>2. TypesInv => InboundTypeOK
  <2>. SUFFICES ASSUME TypesInv PROVE InboundTypeOK
    OBVIOUS
  <2>1. client \in [started : {TRUE}, listeners : Nat] /\ heardBy \in Nat
    BY DEF TypesInv, ShownInv, HandlingInv, TrafficInv, OneListener
  <2>2. /\ recovering \in [BankNames -> {NotClosed} \cup Nat]
        /\ lastStatus \in [BankNames -> {"OPEN", "CLOSED"}]
    BY DEF TypesInv, ShownInv, HandlingInv, StoresTypeOK
  <2>3. \A b \in BankNames : timelines[b].state \in TimelineStates
    BY DEF TypesInv, ShownInv, Timelines
  <2>4. Cardinality({page[i].abbr : i \in DOMAIN page}) = Len(page)
    BY RowsAreCounted DEF TypesInv
  <2>. QED  BY <2>1, <2>2, <2>3, <2>4 DEF TypesInv, WorldTypeOK, AtPoint, Points, Rows,
                                          InboundTypeOK
<1>. QED  BY <1>1, <1>2, TypesNext, PTL DEF Spec

=============================================================================
