------------------------------- MODULE BankList -------------------------------
(***************************************************************************)
(* config/bifastlist.ts: the list of banks, the lookups in it, and the     *)
(* monitoring page, which the program keeps as a table of its own.  Names  *)
(* are in lower case here.  The lookups of this file fold case; where the  *)
(* complaint parser compares two names as they are                         *)
(* (MessageComplaintParser.ts:161, 166), each of the five is spelt one way.*)
(*                                                                         *)
(* Of the 110 rows there is one of each kind: two banks that share a code  *)
(* (ten codes are), one whose name and abbreviation differ, one whose      *)
(* abbreviation is its name, and the bank that runs the program.           *)
(***************************************************************************)
EXTENDS Naturals, Sequences, SequencesExt, Filtering

\* joined is the name without spaces, cleanName the name without "bank ".
Bank(id, name, joined, cleanName, abbr) ==
    [id_bank |-> id, nama_bank |-> name, joined |-> joined,
     cleanName |-> cleanName, abbreviation |-> abbr]

bifastList ==
    <<Bank("bniaidja", "bank cimb niaga", "bankcimbniaga", "cimb niaga", "cimb"),
      Bank("bniaidja", "bank cimb niaga uus", "bankcimbniagauus",
           "cimb niaga uus", "cimb uus"),
      Bank("bsmdidja", "bank syariah indonesia", "banksyariahindonesia",
           "syariah indonesia", "bsi"),
      Bank("bmriidja", "bank mandiri", "bankmandiri", "mandiri", "mandiri"),
      Bank("danaidj1", "dana", "dana", "dana", "dana")>>

BankNames == {bifastList[i].nama_bank : i \in DOMAIN bifastList}

\* What every lookup falls back on is the empty string.
NoBank == Bank("", "", "", "", "")

Listed == ToSet(bifastList)

\* bifastList.find, of the banks that pass its test.
FirstBank(matching) ==
    LET i == SelectInSeq(bifastList, LAMBDA b : b \in matching)
    IN  IF i = 0 THEN NoBank ELSE bifastList[i]

findBiFastAbbreviationByBankName(name) ==
    FirstBank({b \in Listed : b.nama_bank = name}).abbreviation

findBifastBankNameByAbbreviation(abbr) ==
    FirstBank({b \in Listed : b.abbreviation = abbr}).nama_bank

BankOfCodeOrName(t) ==
    FirstBank({b \in Listed : t \in {b.id_bank, b.nama_bank}}).nama_bank

BankNamed(entity) ==
    FirstBank({b \in Listed : entity \in {b.nama_bank, b.joined}})

\* normalizeBankEntity: abbreviations first, then names, with or without their
\* spaces.  What is not found is kept, unless it is short.
normalizeByName(entity) ==      \* mutant: abbreviations are not looked up
    IF BankNamed(entity) # NoBank THEN BankNamed(entity).nama_bank
    ELSE IF Len(entity) <= 6 THEN "" ELSE entity

normalizeBankEntity(entity) ==
    LET byAbbr == findBifastBankNameByAbbreviation(entity)
    IN  IF entity = "" THEN ""
        ELSE IF byAbbr # "" THEN byAbbr
        ELSE IF BankNamed(entity) # NoBank THEN BankNamed(entity).nama_bank
        ELSE IF Len(entity) <= 6 THEN "" ELSE entity

-----------------------------------------------------------------------------
\* The monitoring page: a table that the process holds in a variable and that
\* changes for one bank only, whenever a message has one of two words in it.

Row(name, abbr, status, updated) ==
    [name |-> name, abbr |-> abbr, status |-> status, updated |-> updated]

\* As it is compiled in, with a row for each bank: three of the 112, of banks
\* that are open or closed, spelt apart or alike in name and abbreviation.  The
\* times are before any the process sees.
resultAxiosRequest ==
    <<Row("bank cimb niaga", "cimb", "OPEN", 0),
      Row("bank syariah indonesia", "bsi", "CLOSE", 0),
      Row("dana", "dana", "OPEN", 0)>>

\* setAxiosRequestOpenClose: the row is taken out and a new one goes last.
WithPageRowAdded(page, indikator, now) ==    \* mutant: nothing is taken out
    Append(page, Row("bank syariah indonesia", "bsi", indikator, now))

WithPageRow(page, indikator, now) ==
    Append(Filter(page, {r \in ToSet(page) : r.abbr # "bsi"}),
           Row("bank syariah indonesia", "bsi", indikator, now))

FirstRow(page, entity) ==
    LET i == SelectInSeq(page, LAMBDA r : entity \in {r.name, r.abbr})
    IN  IF i = 0 THEN Row("", "", "", 0) ELSE page[i]

\* isServiceOpen, for a closure since the given time, and isServiceOpenV2.
ShownOpenSince(page, entity, since) ==
    LET row == FirstRow(page, entity)
    IN  row.status = "OPEN" /\ since <= row.updated

ShownOpen(page, entity) == FirstRow(page, entity).status = "OPEN"

=============================================================================
