------------------------------ MODULE MCCompanion ------------------------------
(***************************************************************************)
(* Two Federal Register proposals under one docket for TLC, and the        *)
(* regulations.gov document of the second, which names its number.         *)
(***************************************************************************)
EXTENDS Pipeline, TLC

A == INSTANCE Adapters

MCSlot == {"comment_close", "proposal_date"} \X {NoLabel}

Proposal(number, closes) ==
  A!FederalRegister(
    [number |-> number, type |-> "ProposedRule", words |-> {}, rin |-> "none", docket |-> "FTC-1",
     published |-> 1, closes |-> closes, takes |-> NoDate, title |-> {"strong"}, body |-> {}])

Companion(number) ==
  A!RegulationsGov(
    [id |-> "companion", type |-> "ProposedRule", docketType |-> "Rulemaking", fr |-> number,
     docket |-> "FTC-1", rin |-> "none", closes |-> NoDate, modified |-> 1])

TwoRulemakings == Proposal("first", 1) \cup Proposal("second", 2) \cup Companion("second")
===============================================================================
