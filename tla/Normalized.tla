------------------------------ MODULE Normalized ------------------------------
(***************************************************************************)
(* adapters/base.py: what an adapter makes of one record of its source. An *)
(* adapter is a function from the facts of a document, as the source       *)
(* states them today, to a set of these records: empty when the document   *)
(* is none of our business, several for a page that lists several.         *)
(*                                                                         *)
(* Facts are kept to what the code tells apart: a day is a number, NoDate  *)
(* a date that is missing or cannot be parsed, Blank a missing name; a     *)
(* text is the set of the signal words found in it.                        *)
(***************************************************************************)
EXTENDS Naturals, FiniteSets, FiniteSetsExt, StateMap

Blank == "none"

\* NormalizedItem with the defaults of its fields. `version` stands for the
\* published_version a document claims, 0 for none.
Document(source, key, track, status) ==
  [source |-> source, key |-> key, track |-> track, status |-> status, keys |-> {},
   action |-> "unstated", dates |-> <<>>, retract |-> {}, supplementary |-> FALSE,
   obligation |-> Blank, version |-> 0, notes |-> FALSE]

\* A map of dates from triples <<type, label, day>>; a missing day states nothing.
Dated(triples) ==
  LET stated == {t \in triples : t[3] # NoDate}
  IN  [slot \in {<<t[1], t[2]>> : t \in stated} |->
         (CHOOSE t \in stated : <<t[1], t[2]>> = slot)[3]]

On(type, day) == <<type, NoLabel, day>>

\* A document, or nothing where the adapter does not admit it.
Only(admitted, documents) == IF admitted THEN documents ELSE {}

First(days)  == IF days = {} THEN NoDate ELSE Min(days)
Latest(days) == IF days = {} THEN NoDate ELSE Max(days)

\* scope.in_scope: a strong term counts anywhere, a weak one only in the title.
InScope(title, body) == title \cap {"strong", "weak"} # {} \/ "strong" \in body

\* sitemap_base.iter_urls: entries touched within the window, and undated ones.
Touched(lastmod, since) == lastmod = NoDate \/ lastmod >= since
===============================================================================
