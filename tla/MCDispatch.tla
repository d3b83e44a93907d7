------------------------------ MODULE MCDispatch ------------------------------
(***************************************************************************)
(* Two watchlists: one follows everything, the other the items that are    *)
(* open for comment and was created an event later. A dispatch looks at    *)
(* fewer events of each than there may be, which is what makes a backlog.  *)
(***************************************************************************)
EXTENDS Dispatch

MCWanted == << {}, {"comment_open"} >>
MCSince  == <<0, 1>>

\* One watchlist, of open consultations, that was there from the start.
MCOpenOnly  == << {"comment_open"} >>
MCFromStart == << 0 >>
===============================================================================
