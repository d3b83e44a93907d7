------------------------------- MODULE Pipeline -------------------------------
(***************************************************************************)
(* The change pipeline: the items Gazette tracks, how documents read from  *)
(* sources are reduced onto them, and every other writer of their state.   *)
(*                                                                         *)
(*   item      pipeline_item rows            keys     join_key rows        *)
(*   dates     key_date rows, append-only    changes  state_changed events *)
(*   anomalies kinds of anomaly events       today    the civil date       *)
(*                                                                         *)
(* A key_date row is only ever compared with rows of its own item and slot *)
(* (date type, label), so `dates` keeps one sequence of rows per item and  *)
(* slot and a row's id is its position. The transaction of one adapter run *)
(* is three phases of `run`: documents are reduced, then the linker runs,  *)
(* then the version pass closes consultations. What a failing run loses is *)
(* the subject of module Ingest; here every run commits.                   *)
(***************************************************************************)
EXTENDS Naturals, Sequences, FiniteSets, Lifecycle, StateMap

CONSTANTS
  Feed,          \* the documents the sources may present: what normalize yields
                 \* (NormalizedItem), with `key` the external key, `keys` the other
                 \* join keys, `dates` a partial function from slots to days,
                 \* `retract` the date types the source no longer states, `version`
                 \* the version named by the title or metadata, `notes` whether
                 \* parsing left anomaly notes
  Slot,          \* the <<date type, label>> pairs in use
  AssertedDates, \* the <<slot, day, confidence>> triples people may assert
  MaxItems,      \* bound: items ever created
  MaxDay,        \* bound: days
  MaxChain,      \* bound: rows of one slot before a document or person adds to it
  MaxChanges     \* bound: state changes of one item before a document adds to it

NoItem   == 0
NoSource == "none"
NoStatus == "none"
NoState  == "none"
NoObligation == "none"
NoVersion == 0
Unstated == "unstated"
Idle     == "idle"

ItemId      == 1..MaxItems
Day         == 1..MaxDay
Source      == {ni.source : ni \in Feed}
Status      == {ni.status : ni \in Feed}
Action      == {ni.action : ni \in Feed}
Key         == UNION {{ni.key} \cup ni.keys : ni \in Feed}
Obligation  == {ni.obligation : ni \in Feed} \ {NoObligation}
Confidence  == {"firm", "estimate"}
Track       == {"proposed", "final", "default"}
AnomalyKind == {"ambiguous_join_keys", "join_key_conflict", "unknown_native_status",
                "illegal_transition", "adapter_parse"}

ASSUME BoundsAssumption == {MaxItems, MaxDay, MaxChain, MaxChanges} \subseteq Nat \ {0}
ASSUME SlotAssumption   == Slot \subseteq STRING \X STRING
ASSUME FeedAssumption   ==
  \A ni \in Feed :
    /\ ni.source \in STRING /\ ni.status \in STRING /\ ni.action \in STRING
    /\ ni.key \in STRING \X STRING /\ ni.keys \subseteq STRING \X STRING
    /\ ni.track \in Track /\ ni.supplementary \in BOOLEAN /\ ni.notes \in BOOLEAN
    /\ DOMAIN ni.dates \subseteq Slot /\ \A s \in DOMAIN ni.dates : ni.dates[s] \in Nat \ {0}
    /\ ni.retract \subseteq STRING /\ ni.obligation \in STRING /\ ni.version \in Nat
ASSUME AssertAssumption == AssertedDates \subseteq Slot \X (Nat \ {0}) \X Confidence

VARIABLES
  today,     \* the date every reader and writer sees
  run,       \* Idle, the source being reduced, or "versions"
  touched,   \* obligations the run has reduced items of
  nextId,    \* the next pipeline_item id; ids are never reused
  present,   \* ids of the rows that exist
  item,      \* [ItemId -> pipeline_item columns]
  keys,      \* [ItemId -> set of join keys]
  dates,     \* [ItemId -> [Slot -> sequence of key_date rows]]
  changes,   \* [ItemId -> sequence of state_changed payloads]
  anomalies, \* [ItemId -> kinds of anomaly events emitted for it]
  roots      \* history: external keys of the root documents reduced onto an item

vars == <<today, run, touched, nextId, present, item, keys, dates, changes, anomalies, roots>>

Row    == [value : Nat \ {0}, confidence : Confidence, retracted : BOOLEAN,
           curated : BOOLEAN, supersedes : Nat]
Change == [from : State \cup {NoState}, to : State]
Item   == [source : Source \cup {NoSource}, status : Status \cup {NoStatus},
           action : Action \cup {Unstated}, track : Track, state : State,
           resolved : ItemId \cup {NoItem}, obligation : Obligation \cup {NoObligation},
           version : Nat, firstSeen : Nat]

NoRow   == [source |-> NoSource, status |-> NoStatus, action |-> Unstated, track |-> "default",
            state |-> "proposed", resolved |-> NoItem, obligation |-> NoObligation,
            version |-> NoVersion, firstSeen |-> 0]
-------------------------------------------------------------------------------
(* Key dates: append-only rows and their resolution.                          *)

Superseded(chain) == {chain[k].supersedes : k \in DOMAIN chain}
Heads(chain)      == DOMAIN chain \ Superseded(chain)

\* Mutant of HeadRow: the first of several heads wins.
OldestHead(chain) ==
  IF Heads(chain) = {} THEN 0
  ELSE CHOOSE k \in Heads(chain) : \A j \in Heads(chain) : k <= j

\* _resolve_live: of the rows no other row supersedes, the one with the highest id.
HeadRow(chain) ==
  IF Heads(chain) = {} THEN 0
  ELSE CHOOSE k \in Heads(chain) : \A j \in Heads(chain) : k >= j

\* current_dates: a chain that ends in a retraction has no current row.
LiveRow(chain) ==
  IF HeadRow(chain) = 0 THEN 0
  ELSE IF chain[HeadRow(chain)].retracted THEN 0 ELSE HeadRow(chain)

Current(chain) == IF LiveRow(chain) = 0 THEN NoDate ELSE chain[LiveRow(chain)].value

Live(i) == [s \in Slot |-> Current(dates[i][s])]

\* A row that replaces the current one (or opens the chain).
Assertion(chain, day, confidence, curated) ==
  [value |-> day, confidence |-> confidence, retracted |-> FALSE,
   curated |-> curated, supersedes |-> LiveRow(chain)]

\* Reducer step 2: a stated date that differs from the current one supersedes it.
\* (The dates of documents all count as firm here: no reader of a state looks at
\* a document's confidence, only assert_date compares it.)
Restated(chain, slot, ni) ==
  IF slot \in DOMAIN ni.dates /\ ni.dates[slot] # Current(chain)
  THEN Append(chain, Assertion(chain, ni.dates[slot], "firm", ni.source = "curated"))
  ELSE chain

\* Mutant of Retracted: the retraction supersedes the row before the current one.
RetractedBehind(chain, slot, ni) ==
  IF slot[1] \in ni.retract /\ LiveRow(chain) # 0
  THEN Append(chain, [chain[LiveRow(chain)] EXCEPT !.retracted = TRUE, !.curated = FALSE])
  ELSE chain

\* Reducer step 2b: an explicit retraction is one more row, over the current one.
Retracted(chain, slot, ni) ==
  IF slot[1] \in ni.retract /\ LiveRow(chain) # 0
  THEN Append(chain, [chain[LiveRow(chain)] EXCEPT !.retracted = TRUE,
                        !.curated = ni.source = "curated", !.supersedes = LiveRow(chain)])
  ELSE chain

Redated(chain, slot, ni) == Retracted(Restated(chain, slot, ni), slot, ni)
-------------------------------------------------------------------------------
(* Identity: which item a document belongs to.                                *)

AllKeys(ni) == {ni.key} \cup ni.keys
Holders(k)  == {i \in present : k \in keys[i]}

SharesKey(i, ni) == item[i].track = ni.track /\ keys[i] \cap AllKeys(ni) # {}

\* Mutant of SameDocument: the identity guard is gone.
AnyDocument(i, ni) == TRUE

\* The identity guard: an item whose keys of the document's external type all
\* differ from its external key is another document.
SameDocument(i, ni) ==
  ni.key \in keys[i] \/ \A k \in keys[i] : k[1] # ni.key[1]

\* Mutant of Candidates: no shortcut for an exact hit on the external key.
CandidatesOfTrack(ni) ==
  {i \in present : SharesKey(i, ni) /\ (ni.supplementary \/ SameDocument(i, ni))}

\* _find_item: an exact hit on the external key decides whatever the track;
\* otherwise the items of the track that share a join key, past the guard.
Candidates(ni) ==
  IF Cardinality(Holders(ni.key)) = 1 THEN Holders(ni.key)
  ELSE {i \in present : SharesKey(i, ni) /\ (ni.supplementary \/ SameDocument(i, ni))}

\* Among several, an exact hit, else the highest id.
Chosen(ni) ==
  IF Candidates(ni) \cap Holders(ni.key) # {} THEN Candidates(ni) \cap Holders(ni.key)
  ELSE {i \in Candidates(ni) : \A j \in Candidates(ni) : i >= j}

\* Keys of the document another item of the item's track already holds.
Conflicting(i, ni) ==
  {k \in AllKeys(ni) \ keys[i] :
     \E j \in Holders(k) \ {i} : item[j].track = item[i].track}
-------------------------------------------------------------------------------
(* State and its event log.                                                   *)

\* Mutant of Settled: an unknown native status is stored as the state.
SettledBlind(state, target) ==
  IF target = Unknown THEN target
  ELSE IF Verdict(state, target) = "ok" THEN target ELSE state

\* _apply_state: the state after deriving `target`.
Settled(state, target) ==
  IF target # Unknown /\ Verdict(state, target) = "ok" THEN target ELSE state

\* The anomaly _apply_state records about `target`.
Objection(state, target) ==
  IF target = Unknown THEN {"unknown_native_status"}
  ELSE IF Verdict(state, target) = "anomaly" THEN {"illegal_transition"} ELSE {}

Logged(log, from, to) == IF from = to THEN log ELSE Append(log, [from |-> from, to |-> to])

Notes(ni) == IF ni.notes THEN {"adapter_parse"} ELSE {}
RootKey(ni) == IF ni.supplementary THEN {} ELSE {ni.key}
Stated(new, old) == IF new = Unstated THEN old ELSE new
Filled(old, new) == IF old = NoObligation THEN new ELSE old

\* An item absorbed by its successor: re-reads of its document change no state.
Absorbed(i) == item[i].state = "superseded" /\ item[i].resolved # NoItem

\* Bounds: a document or a person adds to an item only while there is room.
Room(i) ==
  /\ Len(changes[i]) < MaxChanges
  /\ \A s \in Slot : Len(dates[i][s]) < MaxChain

CanReduce(ni) == run = ni.source \/ (run = Idle /\ ni.source = "curated")

\* reduce_item, no candidate: a new row, with all its keys and dates.
Create(ni) ==
  LET id     == nextId
      target == ComputeState(ni.source, ni.status, ni.action, ni.dates, today)
      first  == IF target = Unknown THEN "proposed" ELSE target
  IN
  /\ CanReduce(ni) /\ Candidates(ni) = {} /\ nextId <= MaxItems
  /\ nextId'  = nextId + 1
  /\ present' = present \cup {id}
  /\ item' = [item EXCEPT ![id] =
       [source |-> ni.source, status |-> ni.status, action |-> ni.action,
        track |-> ni.track, state |-> first, resolved |-> NoItem,
        obligation |-> ni.obligation, version |-> ni.version, firstSeen |-> today]]
  /\ keys'  = [keys EXCEPT ![id] = AllKeys(ni)]
  /\ dates' = [dates EXCEPT ![id] = [s \in Slot |-> Restated(<<>>, s, ni)]]
  /\ changes' = [changes EXCEPT ![id] = <<[from |-> NoState, to |-> first]>>]
  /\ anomalies' = [anomalies EXCEPT ![id] =
       Notes(ni) \cup (IF target = Unknown THEN {"unknown_native_status"} ELSE {})]
  /\ roots' = [roots EXCEPT ![id] = RootKey(ni)]
  /\ touched' = touched \cup ({ni.obligation} \ {NoObligation})
  /\ UNCHANGED <<today, run>>

\* The columns of a row whose document was read again.
Reread(row, ni, action, state, owner) ==
  [source |-> row.source, status |-> ni.status, action |-> action, track |-> ni.track,
   state |-> state, resolved |-> row.resolved, obligation |-> owner,
   version |-> ni.version, firstSeen |-> row.firstSeen]

\* reduce_item, an existing row: dates, keys, state, track, in the code's order
\* (the key conflicts are judged on the old track).
Update(ni) ==
  \E i \in Chosen(ni) :
  LET redated == [s \in Slot |-> Redated(dates[i][s], s, ni)]
      action  == Stated(ni.action, item[i].action)
      live    == [s \in Slot |-> Current(redated[s])]
      target  == ComputeState(ni.source, ni.status, action, live, today)
      state   == item[i].state
      new     == IF Absorbed(i) THEN state ELSE Settled(state, target)
      owner   == Filled(item[i].obligation, ni.obligation)
  IN
  /\ CanReduce(ni) /\ Room(i)
  /\ item' = [item EXCEPT ![i] = Reread(@, ni, action, new, owner)]
  /\ dates' = [dates EXCEPT ![i] = redated]
  /\ keys'  = [keys EXCEPT ![i] = @ \cup (AllKeys(ni) \ Conflicting(i, ni))]
  /\ changes' = [changes EXCEPT ![i] = Logged(@, state, new)]
  /\ anomalies' = [anomalies EXCEPT ![i] = @ \cup Notes(ni)
       \cup (IF Cardinality(Candidates(ni)) > 1 THEN {"ambiguous_join_keys"} ELSE {})
       \cup (IF Conflicting(i, ni) # {} THEN {"join_key_conflict"} ELSE {})
       \cup (IF Absorbed(i) THEN {} ELSE Objection(state, target))]
  /\ roots' = [roots EXCEPT ![i] = @ \cup RootKey(ni)]
  /\ touched' = touched \cup ({owner} \ {NoObligation})
  /\ UNCHANGED <<today, run, nextId, present>>
-------------------------------------------------------------------------------
(* One adapter run: reduce, link, version pass.                               *)

\* run_adapter: a fetch from one source starts.
BeginRun(source) ==
  /\ run = Idle /\ source # "curated"
  /\ run' = source /\ touched' = {}
  /\ UNCHANGED <<today, nextId, present, item, keys, dates, changes, anomalies, roots>>

\* Mutant of Supersede: the event is built after the state was overwritten.
SupersedeThenLog(from, succ) ==
  /\ item' = [i \in ItemId |->
       IF i \in from
       THEN [item[i] EXCEPT !.state = "superseded", !.resolved = succ[i]]
       ELSE item[i]]
  /\ changes' = [i \in ItemId |->
       IF i \in from
       THEN Append(changes[i], [from |-> item'[i].state, to |-> "superseded"])
       ELSE changes[i]]

\* Items in `from` are superseded by their successor succ[i].
Supersede(from, succ) ==
  /\ item' = [i \in ItemId |->
       IF i \in from
       THEN [item[i] EXCEPT !.state = "superseded", !.resolved = succ[i]]
       ELSE item[i]]
  /\ changes' = [i \in ItemId |->
       IF i \in from
       THEN Append(changes[i], [from |-> item[i].state, to |-> "superseded"])
       ELSE changes[i]]

LinkKeyTypes == {"rin", "celex", "oeil_procedure", "bill_id"}
Lineage(i, j) == \E k \in keys[i] \cap keys[j] : k[1] \in LinkKeyTypes

\* Mutant of Successors: a withdrawn proposal is linked as well.
SuccessorsOfAny(i) ==
  {j \in present : /\ item[i].track = "proposed" /\ item[j].track = "final"
                   /\ item[i].resolved = NoItem /\ Lineage(i, j)}

\* The final items an unresolved, not withdrawn proposal may be linked to.
Successors(i) ==
  {j \in present : /\ item[i].track = "proposed" /\ item[j].track = "final"
                   /\ item[i].resolved = NoItem /\ item[i].state # "withdrawn"
                   /\ Lineage(i, j)}

\* link_resolved_items: every linkable proposal is resolved to one of its successors.
Link ==
  LET linkable == {i \in present : Successors(i) # {}}
  IN
  /\ run \in Source
  /\ \E succ \in [linkable -> present] :
       /\ \A i \in linkable : succ[i] \in Successors(i)
       /\ Supersede(linkable, succ)
  /\ run' = "versions"
  /\ UNCHANGED <<today, touched, nextId, present, keys, dates, anomalies, roots>>

\* The live date of a type, or the day we first saw the item.
DateOrFirstSeen(i, type) ==
  LET live == OfTypes(Live(i), {type})
  IN  IF live = {} THEN item[i].firstSeen ELSE CHOOSE d \in live : TRUE

\* The publications that conclude consultation i.
Outcomes(i) ==
  {j \in present :
     /\ item[j].obligation = item[i].obligation /\ item[i].obligation # NoObligation
     /\ item[j].version = item[i].version /\ item[i].version # NoVersion
     /\ item[j].state = "effective" /\ item[j].track = "final"
     /\ item[i].state \in {"comment_open", "comment_closed"}
     /\ item[i].track = "proposed" /\ item[i].resolved = NoItem
     /\ DateOrFirstSeen(j, "effective") >= DateOrFirstSeen(i, "comment_open")}

\* resolve_concluded_consultations, over the obligations the run touched (all of
\* them when it touched none), and the commit that ends the run.
ResolveConcluded ==
  LET scope     == IF touched = {} THEN Obligation ELSE touched
      concluded == {i \in present : item[i].obligation \in scope /\ Outcomes(i) # {}}
  IN
  /\ run = "versions"
  /\ \E succ \in [concluded -> present] :
       /\ \A i \in concluded : succ[i] \in Outcomes(i)
       /\ Supersede(concluded, succ)
  /\ run' = Idle /\ touched' = {}
  /\ UNCHANGED <<today, nextId, present, keys, dates, anomalies, roots>>
-------------------------------------------------------------------------------
(* The writers outside a run.                                                 *)

ActiveStates == State \ (Terminal \cup {"effective"})

\* What the stored dates make of an item today.
Due(i) == ComputeState(item[i].source, item[i].status, item[i].action, Live(i), today)

\* tick: every active item is re-evaluated from its stored dates.
Tick ==
  LET due == {i \in present : /\ item[i].state \in ActiveStates
                              /\ Due(i) \notin {Unknown, item[i].state}}
      new(i) == IF i \in due THEN Settled(item[i].state, Due(i)) ELSE item[i].state
  IN
  /\ run = Idle
  /\ item'    = [i \in ItemId |-> [item[i] EXCEPT !.state = new(i)]]
  /\ changes' = [i \in ItemId |-> Logged(changes[i], item[i].state, new(i))]
  /\ anomalies' = [i \in ItemId |-> anomalies[i] \cup
       (IF i \in due THEN Objection(item[i].state, Due(i)) ELSE {})]
  /\ UNCHANGED <<today, run, touched, nextId, present, keys, dates, roots>>

OnRecord(chain, day, confidence) ==
  /\ Current(chain) = day
  /\ chain[LiveRow(chain)].confidence = confidence

\* assert_date: a person states a date; the same day with the same confidence is
\* already on record.
AssertDate(i, slot, day, confidence) ==
  LET chain == dates[i][slot]
  IN
  /\ run = Idle /\ i \in present /\ Room(i)
  /\ ~ OnRecord(chain, day, confidence)
  /\ dates' = [dates EXCEPT ![i][slot] = Append(chain, Assertion(chain, day, confidence, TRUE))]
  /\ UNCHANGED <<today, run, touched, nextId, present, item, keys, changes, anomalies, roots>>

\* Mutant of CompleteConcluded: the flip is not logged.
CompleteSilently ==
  LET concluded == {i \in present : /\ item[i].state = "comment_closed"
                                    /\ Adopted(Live(i), today)}
  IN
  /\ run = Idle /\ concluded # {}
  /\ item' = [i \in ItemId |->
       IF i \in concluded THEN [item[i] EXCEPT !.state = "effective"] ELSE item[i]]
  /\ UNCHANGED <<today, run, touched, nextId, present, keys, dates, changes, anomalies, roots>>

\* complete_concluded_consultations: closed consultations with a past adoption.
CompleteConcluded ==
  LET concluded == {i \in present : /\ item[i].state = "comment_closed"
                                    /\ Adopted(Live(i), today)}
      new(i) == IF i \in concluded THEN "effective" ELSE item[i].state
  IN
  /\ run = Idle /\ concluded # {}
  /\ item'    = [i \in ItemId |-> [item[i] EXCEPT !.state = new(i)]]
  /\ changes' = [i \in ItemId |-> Logged(changes[i], item[i].state, new(i))]
  /\ UNCHANGED <<today, run, touched, nextId, present, keys, dates, anomalies, roots>>

\* Mutant of Unlinked: survivors keep pointing at a purged row.
StillLinked(row, gone) == row

Unlinked(row, gone) == IF row.resolved \in gone THEN [row EXCEPT !.resolved = NoItem] ELSE row

\* purge_items: the rows, their dates, keys and events go; survivors that were
\* resolved to them are unlinked, and keep their state.
Purge(gone) ==
  /\ run = Idle /\ gone # {}
  /\ present' = present \ gone
  /\ item' = [i \in ItemId |-> IF i \in gone THEN NoRow ELSE Unlinked(item[i], gone)]
  /\ keys' = [i \in ItemId |-> IF i \in gone THEN {} ELSE keys[i]]
  /\ dates' = [i \in ItemId |-> IF i \in gone THEN [s \in Slot |-> <<>>] ELSE dates[i]]
  /\ changes' = [i \in ItemId |-> IF i \in gone THEN <<>> ELSE changes[i]]
  /\ anomalies' = [i \in ItemId |-> IF i \in gone THEN {} ELSE anomalies[i]]
  /\ roots' = [i \in ItemId |-> IF i \in gone THEN {} ELSE roots[i]]
  /\ UNCHANGED <<today, run, touched, nextId>>

NewDay ==
  /\ today < MaxDay
  /\ today' = today + 1
  /\ UNCHANGED <<run, touched, nextId, present, item, keys, dates, changes, anomalies, roots>>
-------------------------------------------------------------------------------
Init ==
  /\ today = 1 /\ run = Idle /\ touched = {} /\ nextId = 1 /\ present = {}
  /\ item      = [i \in ItemId |-> NoRow]
  /\ keys      = [i \in ItemId |-> {}]
  /\ dates     = [i \in ItemId |-> [s \in Slot |-> <<>>]]
  /\ changes   = [i \in ItemId |-> <<>>]
  /\ anomalies = [i \in ItemId |-> {}]
  /\ roots     = [i \in ItemId |-> {}]

Next ==
  \/ \E source \in Source : BeginRun(source)
  \/ \E ni \in Feed : Create(ni)
  \/ \E ni \in Feed : Update(ni)
  \/ Link
  \/ ResolveConcluded
  \/ Tick
  \/ \E i \in ItemId, a \in AssertedDates : AssertDate(i, a[1], a[2], a[3])
  \/ CompleteConcluded
  \/ \E gone \in SUBSET present : Purge(gone)
  \/ NewDay

Spec == Init /\ [][Next]_vars
-------------------------------------------------------------------------------
(* Properties.                                                                *)

\* Every variable holds what its table can hold; ids of absent rows are blank.
TypeOK ==
  /\ today \in Nat \ {0}
  /\ run \in Source \cup {Idle, "versions"}
  /\ touched \subseteq Obligation
  /\ nextId \in Nat \ {0}
  /\ present \subseteq {i \in ItemId : i < nextId}
  /\ item \in [ItemId -> Item]
  /\ keys \in [ItemId -> SUBSET Key]
  /\ dates \in [ItemId -> [Slot -> Seq(Row)]]
  /\ changes \in [ItemId -> Seq(Change)]
  /\ anomalies \in [ItemId -> SUBSET AnomalyKind]
  /\ roots \in [ItemId -> SUBSET Key]

\* The event log of an item tells its whole history: it starts with its first
\* state, each change leaves the state the one before it entered, and the last
\* one entered the state stored now. Six writers change `state` and log it
\* separately (reducer, tick, linker, version pass, maintenance, creation), and
\* subscribers only ever see the log.
Replays(log, state) ==
  /\ log # <<>> /\ log[1].from = NoState
  /\ \A k \in 1..Len(log) - 1 : log[k+1].from = log[k].to
  /\ log[Len(log)].to = state
LogReplaysState == \A i \in present : Replays(changes[i], item[i].state)

\* The rows of a slot form one line of supersession: each row supersedes the row
\* before it, unless that row was a retraction, after which the line restarts.
\* So no row is superseded twice and the trail of a date never forks, whoever
\* asserts, retracts or re-asserts it.
LineOf(chain) ==
  \A k \in DOMAIN chain :
    chain[k].supersedes = (IF k = 1 THEN 0 ELSE IF chain[k-1].retracted THEN 0 ELSE k - 1)
SupersessionIsLinear == \A i \in ItemId, s \in Slot : LineOf(dates[i][s])

\* The current value of a slot is what was said last, by a document or a person,
\* although retractions leave several rows that nothing supersedes.
LatestRowDecides ==
  \A i \in ItemId, s \in Slot : dates[i][s] # <<>> => HeadRow(dates[i][s]) = Len(dates[i][s])

\* A resolved item is superseded by another item that exists, across linking,
\* the version pass, re-reads of the old document and purges; and an item is
\* superseded without a successor only where a purge removed some item.
ResolvedIsSuperseded ==
  \A i \in present :
    /\ item[i].resolved # NoItem =>
         /\ item[i].state = "superseded"
         /\ item[i].resolved \in present \ {i}
    /\ item[i].state = "superseded" /\ item[i].resolved = NoItem =>
         present # 1..(nextId - 1)

\* Feeds in which only a root document itself states its external key.
RootsUnnamed ==
  \A ni, mi \in Feed :
    ~ ni.supplementary /\ ni.key \in AllKeys(mi) => mi.key = ni.key /\ ~ mi.supplementary

\* Two root documents of one source never end up in the same item: the reducer
\* promises it of documents that only share a docket or a RIN.
RootsNeverSpliced ==
  \A i \in present : \A a, b \in roots[i] : a[1] = b[1] => a = b

\* Feeds in which only a companion states another document's key, and those who state a
\* key agree on its track, or state nothing else (a document that moves does it alone).
NamesKeepTracks ==
  \A ni \in Feed :
    /\ \A mi \in Feed : ni.key \in mi.keys => mi.supplementary \/ mi.key = ni.key
    /\ \/ \A mi \in Feed : ni.key \in AllKeys(mi) => AllKeys(mi) = {ni.key}
       \/ \A mi, oi \in Feed : ni.key \in AllKeys(mi) \cap AllKeys(oi) => mi.track = oi.track

\* No document is listed twice: its external key is held by one item at most,
\* whichever order its companions were read in.
DocumentHasOneRow == \A ni \in Feed : Cardinality(Holders(ni.key)) <= 1

\* What the pipeline promises of each item's life (module ItemLife).
Life == INSTANCE ItemLife WITH
  life <- [i \in ItemId |-> IF i \in present THEN item[i].state
                            ELSE IF i < nextId THEN "purged" ELSE "unborn"]
ImplementsItemLife == Life!Spec
===============================================================================
