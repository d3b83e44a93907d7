----------------------------- MODULE MCRulemaking -----------------------------
(***************************************************************************)
(* One docket of US rulemakings for TLC: a proposal, the extension of its  *)
(* comment period, another proposal under the same docket, the final rule  *)
(* and its withdrawal, as the Federal Register adapter reads them.         *)
(***************************************************************************)
EXTENDS Pipeline, TLC

A == INSTANCE Adapters

MCSlot == {"comment_close", "effective", "proposal_date", "adopted"} \X {NoLabel}

Paper(number, type, words, rin, docket, closes, takes) ==
  A!FederalRegister(
    [number |-> number, type |-> type, words |-> words, rin |-> rin, docket |-> docket,
     published |-> 1, closes |-> closes, takes |-> takes, title |-> {"strong"}, body |-> {}])

MCFeed ==
       Paper("proposal",   "ProposedRule", {},            "1234-AB56", "FTC-1", 1, NoDate)
  \cup Paper("extension",  "ProposedRule", {"extension"}, "1234-AB56", "FTC-1", 2, NoDate)
  \cup Paper("sibling",    "ProposedRule", {},            "none",      "FTC-1", 2, NoDate)
  \cup Paper("withdrawal", "ProposedRule", {"withdraw"},  "1234-AB56", "FTC-1", NoDate, NoDate)
  \cup Paper("final",      "Rule",         {},            "1234-AB56", "none",  NoDate, 2)

\* What theorem RootsStayApart assumes of a feed.
ASSUME FeedKind == RootsUnnamed
===============================================================================
