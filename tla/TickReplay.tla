------------------------------ MODULE TickReplay ------------------------------
(***************************************************************************)
(* One item and the document it stands for, over the days: the issuing     *)
(* body publishes edition after edition, runs read the one that stands     *)
(* (Adapters, then what reduce_item does to a row it found), people move   *)
(* its dates, and the daily tick re-derives its state. Every source, with  *)
(* every document its adapter makes something of. Reads and ticks may be   *)
(* missed on any day.                                                      *)
(***************************************************************************)
EXTENDS Naturals, Lifecycle, Adapters

CONSTANTS
  Editions,          \* source -> the facts of its document, edition by edition
  Appears(_, _, _),  \* may an edition be published on a day?
  Follows(_, _, _),  \* may the second edition come after the first?
  Stated,            \* source -> the slots <<date type, label>> people move
  Window,            \* how many days back a run asks for
  MaxDay             \* bound: days

ASSUME ReplayAssumption == DOMAIN Editions \subseteq Registered /\ MaxDay \in Nat \ {0}

VARIABLES source, doc, today, row, seen, fresh, ticked, moved, postponed, objected

vars == <<source, doc, today, row, seen, fresh, ticked, moved, postponed, objected>>

NoRow == [held |-> FALSE, keys |-> {}, track |-> "none", status |-> "none",
          action |-> "unstated", dates |-> <<>>, state |-> "proposed"]

\* Mutant of ActiveStates: an open consultation is left to its source.
ActiveWithoutOpen == {"proposed", "comment_closed", "final_pending_effective", "stalled"}

ActiveStates == State \ {"effective", "withdrawn", "superseded"}

Derived(r, day) == ComputeState(source, r.status, r.action, r.dates, day)

Settled(current, target) ==
  IF target # Unknown /\ Verdict(current, target) = "ok" THEN target ELSE current

Objects(r, target) == target # Unknown /\ Verdict(r.state, target) = "anomaly"

\* tick, on one row.
TicksOn(r) == r.held /\ r.state \in ActiveStates
Ticked(r, day) == IF TicksOn(r) THEN [r EXCEPT !.state = Settled(@, Derived(r, day))] ELSE r

\* _find_item: the row of the document's own key, or one of its track that shares a key
\* and is not known by another key of that type.
Finds(r, ni) ==
  \/ ni.key \in r.keys
  \/ /\ ni.track = r.track
     /\ ({ni.key} \cup ni.keys) \cap r.keys # {}
     /\ \A k \in r.keys : k[1] # ni.key[1]

Found(r, d, day) == {ni \in Normalize(source, d, day) : Finds(r, ni)}

\* What is known of the document once ni is read: a stated date replaces the current
\* one, a retracted type is forgotten, and what ni does not mention stays.
Merged(r, ni) ==
  LET kept == {s \in DOMAIN r.dates \cup DOMAIN ni.dates : s[1] \notin ni.retract}
  IN  [r EXCEPT !.held = TRUE, !.keys = @ \cup {ni.key} \cup ni.keys, !.track = ni.track,
                !.status = ni.status,
                !.action = IF ni.action = "unstated" THEN @ ELSE ni.action,
                !.dates = [s \in kept |-> IF s \in DOMAIN ni.dates THEN ni.dates[s] ELSE r.dates[s]]]

\* reduce_item for a document that has no row yet, and for one that has.
Created(ni, day) ==
  LET r == Merged(NoRow, [ni EXCEPT !.retract = {}])
  IN  [r EXCEPT !.state = IF Derived(r, day) = Unknown THEN "proposed" ELSE Derived(r, day)]

Updated(r, ni, day) ==
  LET s == Merged(r, ni) IN [s EXCEPT !.state = Settled(@, Derived(s, day))]

Reread(r, d, day) ==
  IF Found(r, d, day) = {} THEN r ELSE Updated(r, CHOOSE ni \in Found(r, d, day) : TRUE, day)

Since(day)     == IF day > Window THEN day - Window ELSE 0
Listed(d, day) == Lists(source, d, Since(day), day)
-------------------------------------------------------------------------------
Init ==
  /\ source \in DOMAIN Editions
  /\ doc \in Editions[source] /\ Appears(source, doc, 1)
  /\ today = 1
  /\ row = NoRow
  /\ seen = {} /\ fresh = FALSE /\ ticked = TRUE
  /\ moved = FALSE /\ postponed = FALSE /\ objected = {}

InForceTypes == {"effective", "entry_into_force", "application"}

\* A reading that puts ahead the day a text takes effect, where the row knew one that
\* had passed, or none, and shows it in force already.
Postpones(r, s) ==
  r.held /\ r.state = "effective" /\ \E slot \in DOMAIN s.dates :
    /\ slot[1] \in InForceTypes /\ s.dates[slot] > today
    /\ slot \in DOMAIN r.dates => r.dates[slot] <= today

\* The body publishes another edition.
Publish(e) ==
  /\ e # doc /\ Follows(source, doc, e) /\ Appears(source, e, today)
  /\ doc' = e
  /\ fresh' = FALSE
  /\ UNCHANGED <<source, today, row, seen, ticked, moved, postponed, objected>>

\* A run reads the source; the item's row is created by the first read that finds
\* the document admissible.
ReadSource ==
  /\ Listed(doc, today)
  /\ row' \in IF row.held THEN {Reread(row, doc, today)}
              ELSE {Created(ni, today) : ni \in Normalize(source, doc, today)}
  /\ objected' = objected \cup
       (IF row.held /\ Found(row, doc, today) # {} /\ Objects(row, Derived(row', today))
        THEN {"read"} ELSE {})
  /\ postponed' = (postponed \/ Postpones(row, row'))
  /\ seen' = {doc} /\ fresh' = TRUE
  /\ UNCHANGED <<source, doc, today, ticked, moved>>

Tick ==
  /\ ~ ticked
  /\ row' = Ticked(row, today)
  /\ ticked' = TRUE
  /\ objected' = objected \cup
       (IF TicksOn(row) /\ Objects(row, Derived(row, today)) THEN {"tick"} ELSE {})
  /\ UNCHANGED <<source, doc, today, seen, fresh, moved, postponed>>

\* A day passes; its tick, and the reads of the day before, may have been missed.
NewDay ==
  /\ today < MaxDay
  /\ today' = today + 1
  /\ ticked' = FALSE /\ fresh' = FALSE
  /\ UNCHANGED <<source, doc, row, seen, moved, postponed, objected>>

\* assert_date: a person states another day.
AssertDate(slot, day) ==
  /\ row.held
  /\ slot \in DOMAIN row.dates => row.dates[slot] # day
  /\ row' = [row EXCEPT !.dates = [s \in DOMAIN @ \cup {slot} |-> IF s = slot THEN day ELSE @[s]]]
  /\ moved' = TRUE /\ ticked' = FALSE
  /\ UNCHANGED <<source, doc, today, seen, fresh, postponed, objected>>

Next ==
  \/ \E e \in Editions[source] : Publish(e)
  \/ ReadSource
  \/ Tick
  \/ NewDay
  \/ \E slot \in Stated[source], day \in 1..MaxDay : AssertDate(slot, day)

\* The daily job runs in the end; nothing else is sure to happen.
Spec == Init /\ [][Next]_vars /\ WF_vars(Tick)
-------------------------------------------------------------------------------
\* The sources whose adapter compares days with the day it reads on.
DecidedOnReading == {"uk_legislation"}

\* The row knows the edition that stands.
UpToDate == row.held /\ seen = {doc} /\ (source \in DecidedOnReading => fresh)

\* What is expected of the issuing bodies. The phase of its life a reading places a
\* document in: it is proposed, it is or was under consultation, it waits to take effect.
\* A status no statemap knows fits any phase, and so does here one that ends a life.
Phase == [proposed |-> 0, comment_open |-> 1, comment_closed |-> 1, final_pending_effective |-> 2]
InForcePhase   == 3
WithdrawnPhase == 4

FixedTo(s, status, states) ==
  s \in DOMAIN FixedState /\ status \in DOMAIN FixedState[s] /\ FixedState[s][status] \in states

Withdraws(s, ni) == s = "federal_register" /\ ni.action = "withdraw"

Fits(s, ni, phase) ==
  Withdraws(s, ni) \/
    /\ IsConsultation(s, ni.status) \/ IsProposal(s, ni.status) => phase = 1
    /\ IsFinalAct(s, ni.status) => phase = 2
    /\ <<s, ni.status>> \in {<<"legiscan", "passed">>, <<"curated", "timeline">>} => phase = 2
    /\ FixedTo(s, ni.status, DOMAIN Phase) => Phase[FixedState[s][ni.status]] = phase

\* The phases of a document that is in force for good, and of one that is withdrawn.
Ends(s, ni, phase) ==
  /\ Withdraws(s, ni) => phase = WithdrawnPhase
  /\ ~ Withdraws(s, ni) => /\ FixedTo(s, ni.status, {"effective"}) => phase = InForcePhase
                           /\ FixedTo(s, ni.status, {"withdrawn"}) => phase = WithdrawnPhase

KeysOf(s) ==
  UNION {UNION {{ni.key} \cup ni.keys : ni \in Normalize(s, d, day)} : d \in Editions[s], day \in 1..MaxDay}

\* No edition, and no day, takes a document back to an earlier phase. stage[s][d][day]
\* gives the phase of every document that edition d lists on a day, by its key; keys that a
\* reading puts together are of one document.
EditionsAdvance(stage) ==
  \A s \in DOMAIN Editions :
    LET phase == stage[s]
        keys  == KeysOf(s)
    IN  \A d \in Editions[s], day \in 1..MaxDay :
          /\ \A k \in keys :
               /\ phase[d][day][k] \in 0..WithdrawnPhase
               /\ day < MaxDay => phase[d][day][k] <= phase[d][day + 1][k]
               /\ \A e \in Editions[s] : Follows(s, d, e) => phase[d][day][k] <= phase[e][day][k]
          /\ \A ni \in Normalize(s, d, day) :
               /\ Fits(s, ni, phase[d][day][ni.key])
               /\ \A k \in ni.keys, e \in Editions[s], then \in 1..MaxDay :
                    phase[e][then][k] = phase[e][then][ni.key]

\* Nor does one revive what was withdrawn or put off what came into force for good.
EndsAreFinal(stage) ==
  \A s \in DOMAIN Editions : \A d \in Editions[s], day \in 1..MaxDay :
    \A ni \in Normalize(s, d, day) :
      /\ Ends(s, ni, stage[s][d][day][ni.key])
      /\ \A slot \in DOMAIN ni.dates : ni.dates[slot] \in Nat

\* What names a document at its source, whatever else of it changes.
Name(s, d) ==
  CASE s = "federal_register"                      -> d.number
    [] s \in {"regulations_gov", "have_your_say"}  -> d.id
    [] s = "cellar"                                -> d.celex
    [] s = "oeil"                                  -> d.reference
    [] s = "legiscan"                              -> d.bill
    [] s \in {"edpb", "esma"}                      -> d.link
    [] s \in {"eba", "cppa", "aicpa", "nist_pubs", "standard_pages"} -> d.page
    [] s = "pci_ssc"                               -> d.subject
    [] s = "nist_csrc"                             -> <<d.base, d.address>>
    [] s = "iso_catalog"                           -> <<d.kind, d.id, d.address>>
    [] s = "ecfr"                                  -> d.rule
    [] s = "uk_legislation"                        -> d.instrument
    [] s = "pci_docs"                              -> d.document
    [] s = "cis"                                   -> d.names
    [] s = "hitrust"                               -> <<d.section, d.words, d.names, d.id>>
    [] s = "fedramp"                               -> d.slug
    [] s = "curated"                               -> d.name
    [] OTHER                                       -> Blank

Releases(d) == d.history \cup ({d.current, d.next} \ {NoDate})

\* Two editions are of one document: a post stays a request or a publication, a draft is
\* not renamed to a stage nobody knows, a paper keeps its reference once it has one, and a
\* changelog keeps the releases it has listed.
SameDocument(s, d, e) ==
  /\ Name(s, d) = Name(s, e)
  /\ s = "pci_ssc"   => ("request for comments" \in d.words <=> "request for comments" \in e.words)
  /\ s = "nist_csrc" => (d.stage \in KnownStages <=> e.stage \in KnownStages)
  /\ s = "eba"       => d.reference \in {Blank, e.reference}
  /\ s = "aiuc"      => Releases(d) \subseteq Releases(e)

NamesAreKept ==
  \A s \in DOMAIN Editions : \A d, e \in Editions[s] : Follows(s, d, e) => SameDocument(s, d, e)

\* A day that was stated is stated from then on, though it may be another one.
Remains(day, later) == day # NoDate => later # NoDate

\* An edition says as much as one before it of what its statemap goes by: days may change,
\* they are not silently dropped. (Only "No Due Date" takes one back.)
SaysAsMuch(s, d, e) ==
  CASE s = "federal_register" -> /\ d.words = e.words
                                 /\ Remains(d.closes, e.closes) /\ Remains(d.takes, e.takes)
    [] s \in {"regulations_gov", "eba"} -> Remains(d.closes, e.closes)
    [] s = "cellar"        -> (d.corrigendum \/ ~ e.corrigendum) /\ Remains(First(d.forces), First(e.forces))
    [] s = "have_your_say" -> Remains(Latest({w[1] : w \in d.windows}), Latest({w[1] : w \in e.windows}))
    [] s = "edpb"          -> Remains(d.deadline, e.deadline)
    [] s = "pci_ssc"       -> Remains(d.published, e.published) /\ e.published \in Nat
    [] s = "nist_csrc"     -> d.due # NoDate \/ d.openEnded => e.due # NoDate \/ e.openEnded
    [] s = "curated"       -> DOMAIN Dated(d.days) \subseteq DOMAIN Dated(e.days)
    [] OTHER               -> TRUE

DaysAreKept ==
  \A s \in DOMAIN Editions : \A d, e \in Editions[s] : d = e \/ Follows(s, d, e) => SaysAsMuch(s, d, e)

\* The tick never finds a contradiction: as days pass, editions are read and people
\* move dates, every statemap proposes only moves the lifecycle allows. Otherwise the
\* tick would record the same anomaly on every day that follows.
TickNeverObjects == "tick" \notin objected

\* No reading finds a contradiction either, however many editions it missed, unless a
\* person moved a date or the news that a text was put off came after its day.
SourceNeverObjects == "read" \in objected => moved \/ postponed

Recognised(ni) == Derived(Merged(NoRow, ni), today) # Unknown

\* An item's past does not show: once the edition that stands has been read and the tick
\* has run, the item is in the state a row created today from that edition would be in.
\* So missed reads and ticks do no harm, and a date replaced or withdrawn leaves nothing
\* behind.
HistoryDoesNotShow ==
  UpToDate /\ ticked /\ ~ moved /\ ~ postponed =>
    \A ni \in Found(row, doc, today) : Recognised(ni) => row.state = Created(ni, today).state

\* A document keeps its item: whatever edition comes, a reading of it finds the row that
\* an earlier one created. (A page on which nothing is recognised is read as an unknown
\* document, in a row of its own.)
DocumentKeepsItsItem ==
  row.held /\ row.status # "unknown" =>
    LET read == Normalize(source, doc, today)
    IN  read = {} \/ \E ni \in read : Finds(row, ni) \/ ni.status = "unknown"

\* Where a status is the word the source itself uses, it is one of those the statemap names.
KnownWords ==
  /\ "oeil" \in DOMAIN Editions =>
       \A d \in Editions["oeil"] : d.stage \in DOMAIN FixedState.oeil \cup {Blank}
  /\ "nist_pubs" \in DOMAIN Editions =>
       \A d \in Editions["nist_pubs"] : d.status \in DOMAIN FixedState.nist_pubs
  /\ "iso_catalog" \in DOMAIN Editions =>
       \A d \in Editions["iso_catalog"] : d.status \in DOMAIN FixedState.iso_catalog \cup {Blank}

\* Adapters and statemaps agree on names: a status no statemap knows, which is recorded
\* as an anomaly, is only ever given to a document whose reading was noted as odd.
StatusesAreKnown ==
  \A ni \in Normalize(source, doc, today) : Recognised(ni) \/ ni.notes

\* Wherever its documents went, an item that stands open for comment after its window
\* closed is moved on, by the tick alone.
WindowClosed == Get(row.dates, "comment_close") \in 1..(today - 1)
ClosedWindowsAreNoticed ==
  (row.state = "comment_open" /\ WindowClosed) ~> (row.state # "comment_open" \/ ~ WindowClosed)
===============================================================================
