---------------------------- MODULE MCBifastEvidence ----------------------------
(***************************************************************************)
(* BifastEvidence with one bank: one whose abbreviation is in capitals, or *)
(* one, like 69 of the 110, whose abbreviation is not.  Two error codes,   *)
(* readings below and above the critical 2.5 percent; response times of    *)
(* two banks, in one minute the one's slower, in one the other's.          *)
(***************************************************************************)
EXTENDS BifastEvidence, TLC

CONSTANTS bank, capitals, mixed

OneBank == {bank}
InCapitals == bank :> capitals
InMixedCase == bank :> mixed
ToUpperCase == capitals :> capitals @@ mixed :> capitals
InDashboard == bank :> "bca"

Row(filter, value, ago) == [filter |-> filter, value |-> value, ago |-> ago]
Table(kind, of, rows) == [title |-> [kind |-> kind, of |-> of], rows |-> rows]

Errors(rows) == Table("Error Transfer", "bca", rows)

OtherTables ==
    <<Table("Error Inquiry", "bca", <<Row("u000", 9, 0), Row("u992", 9, 0)>>),
      Table("Error Transfer", "bri", <<Row("u173", 9, 0)>>)>>

Times(rows) == Table("Avg Transaction", "all", rows)

SmallDashboards ==
    {<<>>, <<Errors(<<Row("u173", 2, 0), Row("u170", 4, 0)>>), Times(<<>>)>>}
        \cup {<<Errors(<<Row("u000", 9, 0), Row("u173", v, 0)>>),
                Times(<<Row("bca", 0, 1), Row("bri", 9, 1), Row("bca", 8, 1),
                        Row("bri", 7, 0), Row("bca", 9, 0)>>)>>
                  \o OtherTables : v \in {2, 4}}

=============================================================================
