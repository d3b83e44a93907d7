---------------------------- MODULE MCConsultation ----------------------------
(***************************************************************************)
(* Consultations for TLC, as their adapters read them: a NIST draft whose  *)
(* page first states a closing day and later says there is none, a PCI SSC *)
(* request for comments with the standard it ends in, a Have Your Say      *)
(* initiative whose adoption only a person records, a CPPA package that    *)
(* moves from the proposed to the completed rules, a procedure page whose  *)
(* stage cannot be read, and a Federal Register proposal with the          *)
(* regulations.gov document that names it.                                 *)
(***************************************************************************)
EXTENDS Pipeline, TLC

A == INSTANCE Adapters

Closes == <<"comment_close", NoLabel>>
Adopts == <<"adopted", "Regulation">>
MCSlot == ({"comment_open", "comment_close", "proposal_date", "effective"} \X {NoLabel}) \cup {Adopts}

Draft(due) ==
  A!NistCsrc([base |-> "sp", address |-> "sp/ipd", stage |-> "ipd", owner |-> NoObligation,
              published |-> NoDate, due |-> due, openEnded |-> due = NoDate])
Post(words, published, closes) ==
  A!PciSsc([words |-> words, subject |-> "pci-dss-5", standard |-> "pci-dss", names |-> 5,
            published |-> published, opens |-> published, closes |-> closes])
Initiative == A!HaveYourSay([id |-> "hys", title |-> {"strong"}, windows |-> {<<1, NoDate>>}])
Package(section) ==
  A!Cppa([recognised |-> TRUE, page |-> "package", section |-> section, month |-> NoDate])
Procedure == A!Oeil([reference |-> "procedure", stage |-> "none"])
Proposal ==
  A!FederalRegister(
    [number |-> "proposal", type |-> "ProposedRule", words |-> {"correction"}, rin |-> "none",
     docket |-> "FTC-1", published |-> 1, closes |-> NoDate, takes |-> NoDate,
     title |-> {"strong"}, body |-> {}])
Companion ==
  A!RegulationsGov(
    [id |-> "companion", type |-> "ProposedRule", docketType |-> "Rulemaking", fr |-> "proposal",
     docket |-> "FTC-1", rin |-> "pending", closes |-> NoDate, modified |-> 1])

MCFeed == Draft(1) \cup Draft(NoDate) \cup Post({"request for comments"}, 1, 2)
            \cup Post({"published"}, 2, NoDate) \cup Initiative \cup Procedure
            \cup Package("Proposed") \cup Package("Completed") \cup Proposal \cup Companion
MCAsserted == { <<Adopts, 2, "firm">>, <<Closes, 2, "estimate">> }

\* What theorem DocumentsAreListedOnce assumes of a feed.
ASSUME FeedKind == NamesKeepTracks
===============================================================================
