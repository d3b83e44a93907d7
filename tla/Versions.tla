-------------------------------- MODULE Versions --------------------------------
(***************************************************************************)
(* versions.py and the version pass of versionsuggest.py: how a published  *)
(* version becomes the one an obligation has in force. One obligation, the *)
(* items whose sources claim a version of it, and the passes of the runs   *)
(* that read them. A pass reads the tables (its session keeps what it has  *)
(* read), and commits later; passes of two processes may overlap.          *)
(***************************************************************************)
EXTENDS Naturals, Sequences, FiniteSets, FiniteSetsExt

CONSTANTS
  Claims,   \* item -> the version its source states as published
  Runs      \* processes that may be in a version pass

\* A version is a release date or a dotted number; year editions are numbers of one part.
Version == [date : BOOLEAN, parts : Seq(Nat)]

ASSUME VersionsAssumption == Claims \in Seq(Version)

VARIABLES
  baseline,    \* obligation.current_version, the catalog's
  confirmed,   \* obligation.confirmed_version, or Unversioned
  rows,        \* items in the table
  linked,      \* those attached to the obligation
  decisions,   \* version_decision: [version, ruling, item]
  views,       \* run -> what its pass has read, or NoView
  overlapped,  \* did the obligation change between a pass's reading and its commit?
  settled      \* has a pass seen all there is?

versionVars == <<baseline, confirmed, rows, linked, decisions, views, overlapped, settled>>

Unversioned == [date |-> FALSE, parts |-> <<>>]

\* version_key: trailing zeros of a number say nothing, those of a date do.
Key(v) ==
  IF v.date \/ v.parts = <<>> THEN v.parts
  ELSE SubSeq(v.parts, 1, Max({1} \cup {i \in DOMAIN v.parts : v.parts[i] # 0}))

\* Tuples compare as in Python: at the first difference, or else by their length.
Below(a, b) ==
  \/ \E i \in DOMAIN a \cap DOMAIN b : a[i] < b[i] /\ \A j \in 1..(i - 1) : a[j] = b[j]
  \/ Len(a) < Len(b) /\ \A j \in DOMAIN a : a[j] = b[j]

IsNewer(candidate, current) == Below(Key(current), Key(candidate))

IsYear(key) == Len(key) = 1 /\ key[1] >= 1990
YearsAhead  == 15

\* plausible_successor: forward, in the same scheme, and not by more than a sane step.
PlausibleSuccessor(current, candidate) ==
  LET from == Key(current)
      to   == Key(candidate)
  IN  /\ IsNewer(candidate, current)
      /\ \/ current = Unversioned
         \/ /\ current.date = candidate.date
            /\ IF ~ current.date /\ IsYear(from)
               THEN Len(to) = 1 /\ to[1] <= from[1] + YearsAhead
               ELSE to[1] <= from[1] + 1

Later(v, w) == IF IsNewer(w, v) THEN w ELSE v

\* Obligation.effective_version, of the table or of what a pass has read of it.
InForceOf(view) == Later(view.baseline, view.confirmed)
InForce         == InForceOf([baseline |-> baseline, confirmed |-> confirmed])

NoView == [baseline |-> Unversioned, confirmed |-> Unversioned, claims |-> {}, ruled |-> {}]

\* Mutant of Ahead: the walk ends at a claim that was ruled on.
AheadOfRuled(view) ==
  {i \in view.claims : /\ IsNewer(Claims[i], InForceOf(view))
                       /\ \A j \in view.claims : Key(Claims[j]) \in view.ruled =>
                            Below(Key(Claims[j]), Key(Claims[i]))}

\* The claims a pass walks: newer than what is in force, and not ruled on yet.
Ahead(view) ==
  {i \in view.claims : IsNewer(Claims[i], InForceOf(view)) /\ Key(Claims[i]) \notin view.ruled}

Newest(items) ==
  {i \in items : \A j \in items : ~ IsNewer(Claims[j], Claims[i])}

\* The first row found stands for all that claim the same version.
First(items) ==
  {i \in items : \A j \in items : Key(Claims[j]) = Key(Claims[i]) => i <= j}

\* auto_apply walks from the newest claim down and takes the first plausible one.
Applied(view) ==
  First(Newest({i \in Ahead(view) : PlausibleSuccessor(InForceOf(view), Claims[i])}))

\* What it passed over on the way is flagged.
Flagged(view) ==
  First({i \in Ahead(view) : \A j \in Applied(view) : IsNewer(Claims[i], Claims[j])})

Ruling(ruling, i) == [version |-> Claims[i], ruling |-> ruling, item |-> i]

Rulings(view) ==
  {Ruling("auto", i) : i \in Applied(view)} \cup {Ruling("flagged", i) : i \in Flagged(view)}

Cited == {d.item : d \in decisions}
-------------------------------------------------------------------------------
VersionsInit(base) ==
  /\ baseline = base /\ confirmed = Unversioned
  /\ rows = {} /\ linked = {} /\ decisions = {}
  /\ views = [r \in Runs |-> NoView]
  /\ overlapped = FALSE /\ settled = TRUE

\* reduce_item: a source's claim is stored, or re-read; a rule attaches it.
Observe(i, rules) ==
  /\ rows' = rows \cup {i}
  /\ linked' = linked \cup ({i} \cap rules)
  /\ settled' = (settled /\ linked' = linked)
  /\ UNCHANGED <<baseline, confirmed, decisions, views, overlapped>>

Reading ==
  [baseline |-> baseline, confirmed |-> confirmed, claims |-> linked,
   ruled |-> {Key(d.version) : d \in decisions}]

BeginPass(r) ==
  /\ views[r] = NoView
  /\ views' = [views EXCEPT ![r] = Reading]
  /\ UNCHANGED <<baseline, confirmed, rows, linked, decisions, overlapped, settled>>

EndPass(r) ==
  /\ views[r] # NoView
  /\ views' = [views EXCEPT ![r] = NoView]

\* _record and the commit of auto_apply. A ruling on a version replaces the row it has.
CommitPass(r) ==
  /\ EndPass(r)
  /\ \A d \in Rulings(views[r]) : d.item \in rows
  /\ decisions' = Rulings(views[r]) \cup
       {d \in decisions : \A e \in Rulings(views[r]) : e.version # d.version}
  /\ confirmed' = IF Applied(views[r]) = {} THEN confirmed
                  ELSE Later(views[r].confirmed, Claims[CHOOSE i \in Applied(views[r]) : TRUE])
  /\ overlapped' = (overlapped \/ views[r] # Reading)
  /\ settled' = (views[r] = Reading)
  /\ UNCHANGED <<baseline, rows, linked>>

\* The database refuses a ruling that cites an item gone meanwhile, or one that another
\* pass is just inserting; the runner rolls the pass back.
PassFails(r) ==
  /\ EndPass(r)
  /\ \E d \in Rulings(views[r]) : d.item \notin rows \/ \E e \in decisions : e.version = d.version
  /\ UNCHANGED <<baseline, confirmed, rows, linked, decisions, overlapped, settled>>
===============================================================================
