------------------------------- MODULE MCServices -------------------------------
(***************************************************************************)
(* Two deployments: the second edits the catalog's version, brings a rule  *)
(* that attaches another source, and retires the row of the first. The one *)
(* claim is a plausible step from either catalog, the other is not. Only   *)
(* watchlists have a quota.                                                *)
(***************************************************************************)
EXTENDS Services

Number(parts) == [date |-> FALSE, parts |-> parts]

MCClaims  == <<Number(<<5, 0>>), Number(<<7>>)>>
MCShipped == <<Number(<<4>>), Number(<<4, 2>>)>>
MCRules   == <<{2}, {1, 2}>>
MCDoomed  == <<{}, {2}>>
MCQuota   == [keys |-> 0, watchlists |-> 1]
===============================================================================
