---------------------------- MODULE MessageParsers ----------------------------
(***************************************************************************)
(* What the bot understands of a message: MessageCommandParser,            *)
(* MessageParser and MessageComplaintParser as operators on a text.        *)
(*                                                                         *)
(* A text is a record of what the three parsers look for in it; what the   *)
(* regular expressions and the language library find is given, what is     *)
(* decided on it is defined here.                                          *)
(*   found       the patterns, keywords and signs that occur in its lines  *)
(*   source      those that occur in its "source:" lines                   *)
(*   tagged      its first line has the tag BI FAST [CT OUTGOING]          *)
(*   code        its first word of the shape of a bank's code, or ""       *)
(*   terms       its words of three letters at least that the library does *)
(*               not take for verbs or prepositions                        *)
(*   command     its words, when "/state" is the first, or <<>>            *)
(*   mentions    what follows each @                                       *)
(*   keys        which keys of entityLookup occur in it, and where         *)
(*   directions  which of directionPatterns match it, and what they take   *)
(***************************************************************************)
EXTENDS BankList, FiniteSets, FiniteSetsExt, TLC

None == "null"

Blank ==
    [found |-> {}, source |-> {}, tagged |-> FALSE, code |-> "",
     terms |-> <<>>, command |-> <<>>, mentions |-> <<>>, keys |-> {},
     directions |-> <<>>]

\* body.includes(pattern), in the whole text.
Includes(t, pattern) == pattern \in t.found \cup t.source

-----------------------------------------------------------------------------
\* MessageCommandParser.  "/state <source> <entity ...> [<time>]"; the handler
\* tries whenever the text includes "/state", wherever it is.

TimesOfDay == {"9:05", "10:30"}

Words(ws) ==
    IF ws = <<>> THEN ""
    ELSE FoldLeft(LAMBDA said, w : said \o " " \o w, Head(ws), Tail(ws))

parseStateCommand(t) ==
    LET parts == Tail(t.command)
        timed == Len(parts) > 1 /\ Last(parts) \in TimesOfDay
    IN  IF Len(t.command) < 2 THEN None
        ELSE Words(Tail(IF timed THEN Front(parts) ELSE parts))

-----------------------------------------------------------------------------
\* MessageParser

CLOSED_PATTERNS == {"closed", "ditutup", "down", "autoclose", "auto close"}
OPEN_PATTERNS == {"open", "dibuka", "reopen", "up"}
CLOSED_SIGNS == {"cross mark", "no entry", "prohibited"}
OPEN_SIGNS == {"check mark", "green circle"}
IGNORE_WORDS ==
    {"bifast", "qris", "rtgs", "skn", "ditutup", "dibuka", "closed", "open",
     "down", "error"}

\* The first entity of the text.  Without one the code throws, and the message
\* goes no further, as with none of the list.
extractEntity(t) ==
    LET terms == SelectSeq(t.terms, LAMBDA w : w \notin IGNORE_WORDS)
    IN  IF t.tagged THEN t.code
        ELSE IF terms = <<>> THEN "" ELSE Head(terms)

normalizeEntity(raw) == IF raw = "" THEN "" ELSE BankOfCodeOrName(raw)

StatusOf(found) ==
    IF found \cap CLOSED_PATTERNS # {} THEN "CLOSED"
    ELSE IF found \cap OPEN_PATTERNS # {} THEN "OPEN"
    ELSE IF found \cap CLOSED_SIGNS # {} THEN "CLOSED"
    ELSE IF found \cap OPEN_SIGNS # {} THEN "OPEN" ELSE None

detectStatusNLPWithSource(t) == \* mutant: "source:" lines are left in
    StatusOf(t.found \cup t.source)

detectStatusNLP(t) == StatusOf(t.found)

NoReport == [entity |-> "", status |-> None]

\* The "source:" lines are removed before anything is looked for.
parseBifastMessage(t) ==
    LET report == [entity |-> normalizeEntity(extractEntity(t)),
                   status |-> detectStatusNLP(t)]
    IN  IF "bi fast" \in t.found /\ report.entity # "" /\ report.status # None
        THEN report ELSE NoReport

-----------------------------------------------------------------------------
\* MessageComplaintParser

gangguanKeywords ==
    {"kendala", "gangguan", "u173", "u170", "u999", "kenaikan response",
     "intermitten", "gagal login", "pengecekan"}

\* Four of the thirteen numbers stand for a name that is nobody's abbreviation.
mentionedWhatsappMap ==
    [number \in {"77296744530170", "270978395459734", "277892990783613",
                 "77000240853224", "137499116617867"} |->
        CASE number = "77296744530170" -> "dana"
          [] number = "270978395459734" -> "bsi"
          [] number = "277892990783613" -> "mandiri"
          [] number = "77000240853224" -> "bi"
          [] number = "137499116617867" -> "bank dki"]

\* The keys of a bank, with and without the @ of a mention.  Three more that
\* the code sets are the same words for every bank: the last of the list has them.
AtKeys(b) == {"@" \o b.abbreviation, "@" \o b.nama_bank, "@" \o b.cleanName}

PlainKeys(b) == {"bank " \o b.abbreviation, "bank " \o b.cleanName,
                 "bpd " \o b.abbreviation}

entityLookup ==
    LET OfBank(b) == [k \in AtKeys(b) \cup PlainKeys(b) |-> b.abbreviation]
        fixed == {"abbr", "name", "cleanName"}
        dana == {"dana", "@dana", "technical support dana", "dana - 3"}
    IN  [k \in dana |-> "dana"]
            @@ [k \in fixed |-> Last(bifastList).abbreviation]
            @@ FoldLeft(LAMBDA lookup, b : OfBank(b) @@ lookup, <<>>, bifastList)

normalizeBank(text) ==
    IF text \in DOMAIN entityLookup THEN entityLookup[text] ELSE None

\* scanEntities: the longest key first, of equal ones the last in the text.
Before(a, b) ==
    IF Len(a.key) # Len(b.key) THEN Len(a.key) > Len(b.key) ELSE a.pos > b.pos

scanEntities(t) == SetToSortSeq(t.keys, Before)

\* entities.find, among those with one of the keys.
FirstEntity(t, keys) ==
    LET entities == scanEntities(t)
        i == SelectInSeq(entities, LAMBDA e : e.key \in keys)
    IN  IF i = 0 THEN None ELSE entityLookup[entities[i].key]

\* A number that is mentioned wins over a name that is.
MentionedByNumber(t) ==
    LET i == SelectInSeq(t.mentions,
                         LAMBDA w : w \in DOMAIN mentionedWhatsappMap)
    IN  IF i = 0 THEN None ELSE mentionedWhatsappMap[t.mentions[i]]

MentionedByName(t) ==
    FirstEntity(t, {"@dana"} \cup UNION {AtKeys(b) : b \in Listed})

OrElse(a, b) == IF a # None THEN a ELSE b

MentionedNameFirst(t) ==        \* mutant: the name wins over the number
    OrElse(MentionedByName(t), MentionedByNumber(t))

Mentioned(t) == OrElse(MentionedByNumber(t), MentionedByName(t))

\* The first pattern that matches decides: "from .. to ..", "from ..", "to ..".
\* The first of the five takes no second name.
directionTypes == <<"from-to", "from-to", "from", "to", "to">>

Direction(t) ==
    IF DOMAIN t.directions = {} THEN [type |-> None, names |-> <<None, None>>]
    ELSE LET first == Min(DOMAIN t.directions)
         IN  [type |-> directionTypes[first],
              names |-> [i \in 1 .. 2 |-> normalizeBank(t.directions[first][i])]]

ReportedBy(direction) ==
    IF direction.type \in {"from-to", "from"} THEN direction.names[1] ELSE None

\* "to" takes the place even of a mention.
ComplainingBy(direction, mentioned) ==
    CASE direction.type = "to" -> OrElse(direction.names[1], mentioned)
      [] direction.type = "from-to" -> OrElse(mentioned, direction.names[2])
      [] OTHER -> mentioned

\* Who is not told from the direction or a mention is another bank of the text.
AnotherBank(t, v) ==
    FirstEntity(t, {k \in DOMAIN entityLookup : entityLookup[k] \notin {v, "bi"}})

Detected(t, complainer, reported) ==
    [complainer |-> OrElse(complainer, "tidak terdeteksi"),
     reported |-> OrElse(OrElse(reported, AnotherBank(t, complainer)),
                         "tidak terdeteksi")]

NoGangguan == [complainer |-> None, reported |-> None]

detectGangguan(t) ==
    LET direction == Direction(t)
        reported == ReportedBy(direction)
        complainer == ComplainingBy(direction, Mentioned(t))
    IN  IF (t.found \cup t.source) \cap gangguanKeywords = {} THEN NoGangguan
        ELSE Detected(t, OrElse(complainer, AnotherBank(t, reported)), reported)

\* BifastMessageHandler: whose complaint it is.  The bank that runs the bot does
\* not complain; what it says is about the other.
ComplaintBy(t) ==
    LET parsed == detectGangguan(t)
    IN  IF parsed.complainer = "mandiri" THEN parsed.reported
        ELSE parsed.complainer

=============================================================================
