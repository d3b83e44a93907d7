------------------------------- MODULE MCIngest -------------------------------
(***************************************************************************)
(* Two documents of the Federal Register, in two windows of a rebuild and  *)
(* in one page of the daily group, and one of a feed that cannot say that  *)
(* an item is gone.                                                        *)
(***************************************************************************)
EXTENDS Ingest, TLC

CONSTANTS a, b, c

MCDoc == {a, b, c}
MCSource == {"federal_register", "cis", "hitrust"}
MCSourceOf == (a :> "federal_register") @@ (b :> "federal_register") @@ (c :> "cis")
Read(s, docs) == [source |-> s, docs |-> docs]
\* A rebuild of so few days that it reads only the later window.
MCOneWindow == {[prune |-> TRUE, plan |-> <<Read("federal_register", {b})>>]}
MCJobs ==
  { [prune |-> TRUE,
     plan |-> <<Read("federal_register", {a}), Read("federal_register", {b}),
                Read("cis", {c})>>],
    [prune |-> FALSE, plan |-> <<Read("federal_register", {a, b}), Read("hitrust", {})>>] }
  \cup MCOneWindow
===============================================================================
