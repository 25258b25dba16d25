------------------------------- MODULE MCInbound -------------------------------
(***************************************************************************)
(* Inbound with one payload of each kind: reports in the shape of the      *)
(* README's examples and in free words, complaints that mention a number,  *)
(* commands, and a message of a chat that nobody listens to.               *)
(***************************************************************************)
EXTENDS Inbound

\* "BI Fast [CT Outgoing] / BSMDIDJA Has successfully Closed Automatically .. /
\* source: autoclose_bifast", and the same with Opened.
closing == [Blank EXCEPT !.found = {"bi fast", "closed", "close"},
                         !.source = {"autoclose", "close"},
                         !.tagged = TRUE, !.code = "bsmdidja"]
opening == [closing EXCEPT !.found = {"bi fast", "open"}]

\* "DANA bifast down"
down == [Blank EXCEPT !.found = {"bi fast", "down"},
                      !.terms = <<"bifast", "dana">>,
                      !.keys = {[key |-> "dana", pos |-> 0]}]

\* "@277892990783613 @dana kendala u173 dari bank bsi": Mandiri, by its number,
\* and DANA are mentioned; Mandiri speaks, of BSI.
complaint ==
    [Blank EXCEPT !.found = {"kendala", "u173"},
                  !.mentions = <<"277892990783613", "dana">>,
                  !.keys = {[key |-> "@dana", pos |-> 17],
                            [key |-> "dana", pos |-> 18],
                            [key |-> "bank bsi", pos |-> 41]},
                  !.directions = 3 :> <<"bank bsi", "">>]

stateCommand == [Blank EXCEPT !.found = {"/state"},
                              !.command = <<"bifast", "bsi", "10:30">>]

\* "/ping open"
pingOpen == [Blank EXCEPT !.found = {"/ping", "open"}]

About(b, says) == [bank |-> b, says |-> says]

Closing == PayloadOf("Message", "monitoring", Blank, closing)
Opening == PayloadOf("Message", "monitoring", Blank, opening)
Down == PayloadOf("Message", "test", down, Blank)
Complaint == PayloadOf("Message", "helpdesk", complaint, Blank)
StateCommand == PayloadOf("Message", "alert", stateCommand, Blank)
PingOpen == PayloadOf("Message", "elsewhere", pingOpen, Blank)
Receipt == PayloadOf("ReadReceipt", "monitoring", Blank, Blank)

SamplePayloads ==
    {Closing, Opening, Down, Complaint, StateCommand, PingOpen, Receipt}

MeaningOfPayloads ==
    (Closing :> {About("bank syariah indonesia", "CLOSED")})
    @@ (Opening :> {About("bank syariah indonesia", "OPEN")})
    @@ (Down :> {About("dana", "CLOSED")})
    @@ (Complaint :> {About("bank syariah indonesia", "complaint")})
    @@ [p \in {StateCommand, PingOpen, Receipt} |-> {}]

FourChats == {"test", "monitoring", "alert", "helpdesk"}
ThreeChats == {"test", "alert", "helpdesk"}

\* In lower case an abbreviation is its own upper case.
AbbreviationOf == [b \in BankNames |-> findBiFastAbbreviationByBankName(b)]
SameCase ==
    [a \in {AbbreviationOf[b] : b \in BankNames} |-> a]

=============================================================================
