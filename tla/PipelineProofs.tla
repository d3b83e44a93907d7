---------------------------- MODULE PipelineProofs ----------------------------
(***************************************************************************)
(* Proofs about the pipeline, for every feed, every set of slots and every *)
(* value of the bounds.                                                    *)
(***************************************************************************)
EXTENDS Pipeline, FiniteSetTheorems, TLAPS

USE DEF NoItem, NoState, NoObligation, NoVersion, Idle, NoDate, Unknown

\* The fixed part of the statemaps only names canonical states.
LEMMA FixedStateType ==
  \A source \in DOMAIN FixedState : \A status \in DOMAIN FixedState[source] :
     FixedState[source][status] \in State
BY DEF FixedState, CellarFixes, OeilFixes, EdpbFixes, CppaFixes, LegiscanFixes,
    PciSscFixes, IsoFixes, NistCsrcFixes, State, Mainline, Side

\* A statemap yields a canonical state or Unknown, whatever it is given.
LEMMA ComputeStateType ==
  ASSUME NEW source, NEW status, NEW action, NEW live, NEW day
  PROVE  ComputeState(source, status, action, live, day) \in State \cup {Unknown}
<1>1. \A u \in State : WindowState(live, u, day) \in State
  BY DEF WindowState, State, Mainline
<1>2. \A d : UnlessAhead(d, day) \in State
  BY DEF UnlessAhead, State, Mainline
<1>3. \A D : OncePassed(D, day) \in State
  BY DEF OncePassed, State, Mainline
<1>4. {"comment_open", "proposed", "withdrawn", "effective"} \subseteq State
  BY DEF State, Mainline, Side
<1> HIDE DEF Unknown
<1> QED
  BY <1>1, <1>2, <1>3, <1>4, FixedStateType DEF ComputeState

\* The main line and the side states make up the canonical states, and the reducer
\* never stores anything else.
LEMMA SettledType ==
  ASSUME NEW state \in State, NEW target \in State \cup {Unknown}
  PROVE  Settled(state, target) \in State
BY DEF Settled

\* The rows of a linear chain resolve to the last one.
LEMMA HeadIsLast ==
  ASSUME NEW chain \in Seq(Row), LineOf(chain)
  PROVE  HeadRow(chain) = Len(chain)
<1>1. Heads(chain) \subseteq 1..Len(chain)
  BY DEF Heads
<1>2. CASE chain = <<>>
  BY <1>1, <1>2 DEF HeadRow
<1>3. CASE chain # <<>>
  <2>1. Len(chain) \in 1..Len(chain)
    BY <1>3
  <2>2. \A k \in 1..Len(chain) : chain[k].supersedes # Len(chain)
    BY <2>1 DEF LineOf
  <2>3. Len(chain) \in Heads(chain)
    BY <2>1, <2>2 DEF Heads, Superseded
  <2>4. \A k \in Heads(chain) : (\A j \in Heads(chain) : k >= j) <=> k = Len(chain)
    BY <1>1, <2>3
  <2> QED
    BY <2>3, <2>4 DEF HeadRow
<1> QED
  BY <1>2, <1>3

\* The current row of a linear chain is its last one, unless that is a retraction.
LEMMA LiveIsLast ==
  ASSUME NEW chain \in Seq(Row), LineOf(chain)
  PROVE  /\ LiveRow(chain) = IF chain = <<>> THEN 0
                             ELSE IF chain[Len(chain)].retracted THEN 0 ELSE Len(chain)
         /\ LiveRow(chain) # 0 => chain[LiveRow(chain)] \in Row
         /\ LiveRow(chain) \in Nat
BY HeadIsLast DEF LiveRow

\* Appending a row over the current one keeps a chain linear.
LEMMA AppendLinear ==
  ASSUME NEW chain \in Seq(Row), LineOf(chain), NEW row \in Row,
         row.supersedes = LiveRow(chain)
  PROVE  /\ Append(chain, row) \in Seq(Row)
         /\ LineOf(Append(chain, row))
<1> DEFINE longer == Append(chain, row)
<1>1. /\ longer \in Seq(Row) /\ Len(longer) = Len(chain) + 1
      /\ \A k \in 1..Len(chain) : longer[k] = chain[k]
      /\ longer[Len(chain) + 1] = row
  OBVIOUS
<1>2. ASSUME NEW k \in 1..Len(longer)
      PROVE  longer[k].supersedes =
               (IF k = 1 THEN 0 ELSE IF longer[k-1].retracted THEN 0 ELSE k - 1)
  <2>1. CASE k <= Len(chain)
    BY <1>1, <2>1 DEF LineOf
  <2>2. CASE k = Len(chain) + 1
    BY <1>1, <2>2, LiveIsLast
  <2> QED
    BY <1>1, <2>1, <2>2
<1> QED
  BY <1>1, <1>2 DEF LineOf

\* What a document does to a chain keeps it a linear chain of rows.
LEMMA RedatedLinear ==
  ASSUME NEW chain \in Seq(Row), LineOf(chain), NEW slot \in Slot, NEW ni \in Feed
  PROVE  Redated(chain, slot, ni) \in Seq(Row) /\ LineOf(Redated(chain, slot, ni))
<1> DEFINE restated == Restated(chain, slot, ni)
           head     == LiveRow(restated)
<1>1. restated \in Seq(Row) /\ LineOf(restated)
  <2>1. CASE slot \in DOMAIN ni.dates /\ ni.dates[slot] # Current(chain)
    <3>1. Assertion(chain, ni.dates[slot], "firm", ni.source = "curated") \in Row
      BY <2>1, FeedAssumption, LiveIsLast DEF Assertion, Row, Confidence
    <3> QED
      BY <2>1, <3>1, AppendLinear DEF Restated, Assertion
  <2> QED
    BY <2>1 DEF Restated
<1> HIDE DEF restated
<1>2. CASE slot[1] \in ni.retract /\ head # 0
  <2> DEFINE row == [restated[head] EXCEPT !.retracted = TRUE,
                       !.curated = ni.source = "curated", !.supersedes = head]
  <2>1. restated[head] \in Row /\ head \in Nat
    BY <1>1, <1>2, LiveIsLast
  <2> HIDE DEF head
  <2>2. (ni.source = "curated") \in BOOLEAN
    OBVIOUS
  <2>3. row \in Row /\ row.supersedes = head
    BY <2>1, <2>2 DEF Row
  <2> HIDE DEF row
  <2>4. Append(restated, row) \in Seq(Row) /\ LineOf(Append(restated, row))
    BY <1>1, <2>3, AppendLinear DEF head
  <2>5. Redated(chain, slot, ni) = Append(restated, row)
    BY <1>2 DEF Redated, Retracted, restated, head, row
  <2> QED
    BY <2>4, <2>5
<1>3. CASE ~ (slot[1] \in ni.retract /\ head # 0)
  BY <1>1, <1>3 DEF Redated, Retracted, restated
<1> QED
  BY <1>2, <1>3

\* The dates of a document as a new item's first rows.
LEMMA RestatedLinear ==
  ASSUME NEW slot \in Slot, NEW ni \in Feed
  PROVE  Restated(<<>>, slot, ni) \in Seq(Row) /\ LineOf(Restated(<<>>, slot, ni))
<1>1. <<>> \in Seq(Row) /\ LineOf(<<>>)
  BY DEF LineOf
<1>2. CASE slot \in DOMAIN ni.dates /\ ni.dates[slot] # Current(<<>>)
  <2>1. Assertion(<<>>, ni.dates[slot], "firm", ni.source = "curated") \in Row
    BY <1>1, <1>2, FeedAssumption, LiveIsLast DEF Assertion, Row, Confidence
  <2> QED
    BY <1>1, <1>2, <2>1, AppendLinear DEF Restated, Assertion
<1> QED
  BY <1>1, <1>2 DEF Restated
-------------------------------------------------------------------------------
\* What the helpers of the reducer return.
LEMMA HelperTypes ==
  /\ \A log \in Seq(Change), from \in State, to \in State : Logged(log, from, to) \in Seq(Change)
  /\ \A state, target : Objection(state, target) \subseteq AnomalyKind
  /\ \A ni \in Feed : Notes(ni) \subseteq AnomalyKind
<1>1. ASSUME NEW log \in Seq(Change), NEW from \in State, NEW to \in State
      PROVE  Logged(log, from, to) \in Seq(Change)
  <2>1. [from |-> from, to |-> to] \in Change
    BY DEF Change
  <2> QED
    BY <2>1 DEF Logged
<1> QED
  BY <1>1 DEF Objection, Notes, AnomalyKind

\* What a document carries, in the terms of the tables.
LEMMA DocumentTypes ==
  ASSUME NEW ni \in Feed
  PROVE  /\ ni.source \in Source /\ ni.status \in Status /\ ni.action \in Action
         /\ ni.track \in Track /\ ni.version \in Nat
         /\ ni.obligation \in Obligation \cup {NoObligation}
         /\ AllKeys(ni) \subseteq Key /\ RootKey(ni) \subseteq Key
BY FeedAssumption DEF Source, Status, Action, Key, Obligation, AllKeys, RootKey

\* A document only reaches rows that exist.
LEMMA ChosenPresent == \A ni \in Feed : Chosen(ni) \subseteq present
BY DEF Chosen, Candidates, Holders

\* Superseding rows by rows keeps the tables well typed.
LEMMA SupersedeType ==
  ASSUME TypeOK
  PROVE  \A from \in SUBSET present : \A succ \in [from -> present] :
           Supersede(from, succ) =>
             item' \in [ItemId -> Item] /\ changes' \in [ItemId -> Seq(Change)]
<1> SUFFICES ASSUME NEW from \in SUBSET present, NEW succ \in [from -> present],
                    Supersede(from, succ)
             PROVE  item' \in [ItemId -> Item] /\ changes' \in [ItemId -> Seq(Change)]
  OBVIOUS
<1>1. present \subseteq ItemId
  BY DEF TypeOK
<1>2. ASSUME NEW i \in ItemId PROVE item'[i] \in Item
  <2>1. item[i] \in Item /\ "superseded" \in State
    BY DEF TypeOK, State, Side
  <2>2. CASE i \in from
    <3>1. succ[i] \in ItemId
      BY <1>1, <2>2
    <3>2. item'[i] = [item[i] EXCEPT !.state = "superseded", !.resolved = succ[i]]
      BY <2>2 DEF Supersede
    <3> QED
      BY <2>1, <3>1, <3>2 DEF Item
  <2>3. CASE i \notin from
    BY <2>1, <2>3 DEF Supersede
  <2> QED
    BY <2>2, <2>3
<1>3. ASSUME NEW i \in ItemId PROVE changes'[i] \in Seq(Change)
  <2> DEFINE step == [from |-> item[i].state, to |-> "superseded"]
  <2>1. step \in Change /\ changes[i] \in Seq(Change)
    BY DEF TypeOK, Item, Change, State, Side
  <2>2. changes'[i] = IF i \in from THEN Append(changes[i], step) ELSE changes[i]
    BY DEF Supersede
  <2> HIDE DEF step
  <2> QED
    BY <2>1, <2>2
<1>4. item' = [i \in ItemId |-> item'[i]] /\ changes' = [i \in ItemId |-> changes'[i]]
  BY DEF Supersede
<1> QED
  BY <1>2, <1>3, <1>4

\* Both invariants below are proved together: a chain only stays well typed because
\* it is linear (a retraction copies the row the chain resolves to).
TableInv == TypeOK /\ SupersessionIsLinear

\* The empty tables satisfy the inductive invariant.
LEMMA InitTables == Init => TableInv
<1> SUFFICES ASSUME Init PROVE TableInv
  OBVIOUS
<1>1. NoRow \in Item
  <2>1. "proposed" \in State /\ "default" \in Track
    BY DEF State, Mainline, Track
  <2> QED
    BY <2>1 DEF NoRow, Item, Unstated
<1>2. TypeOK
  <2>1. /\ today \in Nat \ {0} /\ run \in Source \cup {Idle, "versions"} /\ nextId \in Nat \ {0}
        /\ touched \subseteq Obligation /\ present \subseteq {i \in ItemId : i < nextId}
    <3>1. today = 1 /\ run = Idle /\ touched = {} /\ nextId = 1 /\ present = {}
      BY DEF Init
    <3> QED
      BY <3>1
  <2>2. item \in [ItemId -> Item] /\ keys \in [ItemId -> SUBSET Key]
    BY <1>1 DEF Init
  <2>3. dates \in [ItemId -> [Slot -> Seq(Row)]] /\ changes \in [ItemId -> Seq(Change)]
    BY DEF Init
  <2>4. /\ anomalies \in [ItemId -> SUBSET AnomalyKind]
        /\ roots \in [ItemId -> SUBSET Key]
    BY DEF Init
  <2> QED
    BY <2>1, <2>2, <2>3, <2>4 DEF TypeOK
<1>3. SupersessionIsLinear
  BY DEF Init, SupersessionIsLinear, LineOf
<1> QED
  BY <1>2, <1>3 DEF TableInv

\* A first read of a document adds a well-typed row with linear chains.
LEMMA CreateTables ==
  ASSUME TableInv, NEW ni \in Feed, Create(ni)
  PROVE  TableInv'
<1> DEFINE target == ComputeState(ni.source, ni.status, ni.action, ni.dates, today)
           first  == IF target = Unknown THEN "proposed" ELSE target
<1>1. first \in State
  BY ComputeStateType DEF State, Mainline
<1> HIDE DEF target, first
<1>2. nextId \in ItemId /\ nextId \in Nat
  BY BoundsAssumption DEF Create, TableInv, TypeOK, ItemId
<1>3. /\ today' \in Nat \ {0} /\ run' \in Source \cup {Idle, "versions"} /\ nextId' \in Nat \ {0}
      /\ touched' \subseteq Obligation
      /\ present' \subseteq {i \in ItemId : i < nextId'}
  <2>1. today' \in Nat \ {0} /\ run' \in Source \cup {Idle, "versions"} /\ nextId' \in Nat \ {0}
    BY DEF Create, TableInv, TypeOK
  <2>2. touched' \subseteq Obligation
    BY DocumentTypes DEF Create, TableInv, TypeOK
  <2>3. nextId' = nextId + 1 /\ present' = present \cup {nextId}
    BY DEF Create
  <2>4. ItemId \subseteq Nat
    BY BoundsAssumption DEF ItemId
  <2>5. present' \subseteq {i \in ItemId : i < nextId'}
    BY <1>2, <2>3, <2>4 DEF TableInv, TypeOK
  <2> QED
    BY <2>1, <2>2, <2>5
<1>4. item' \in [ItemId -> Item]
  <2>1. [source |-> ni.source, status |-> ni.status, action |-> ni.action,
         track |-> ni.track, state |-> first, resolved |-> NoItem,
         obligation |-> ni.obligation, version |-> ni.version, firstSeen |-> today] \in Item
    BY <1>1, DocumentTypes DEF Item, TableInv, TypeOK
  <2> QED
    BY <2>1 DEF Create, TableInv, TypeOK, first, target
<1>5. /\ keys' \in [ItemId -> SUBSET Key]
      /\ roots' \in [ItemId -> SUBSET Key]
  BY DocumentTypes DEF Create, TableInv, TypeOK
<1>6. /\ dates' \in [ItemId -> [Slot -> Seq(Row)]]
      /\ SupersessionIsLinear'
  <2> DEFINE opened == [s \in Slot |-> Restated(<<>>, s, ni)]
  <2>1. opened \in [Slot -> Seq(Row)] /\ \A s \in Slot : LineOf(opened[s])
    BY RestatedLinear
  <2>2. dates' = [dates EXCEPT ![nextId] = opened]
    BY DEF Create
  <2> HIDE DEF opened
  <2> QED
    BY <2>1, <2>2 DEF TableInv, TypeOK, SupersessionIsLinear
<1>7. changes' \in [ItemId -> Seq(Change)]
  <2>1. <<[from |-> NoState, to |-> first]>> \in Seq(Change)
    BY <1>1 DEF Change
  <2>2. changes' = [changes EXCEPT ![nextId] = <<[from |-> NoState, to |-> first]>>]
    BY DEF Create, first, target
  <2> QED
    BY <2>1, <2>2 DEF TableInv, TypeOK
<1>8. anomalies' \in [ItemId -> SUBSET AnomalyKind]
  <2>1. Notes(ni) \cup (IF target = Unknown THEN {"unknown_native_status"} ELSE {})
          \subseteq AnomalyKind
    BY HelperTypes DEF AnomalyKind
  <2> QED
    BY <2>1 DEF Create, TableInv, TypeOK, target
<1> QED
  BY <1>3, <1>4, <1>5, <1>6, <1>7, <1>8 DEF TableInv, TypeOK

\* A re-read of a document keeps its row, keys, chains and log well typed and linear.
LEMMA UpdateTables ==
  ASSUME TableInv, NEW ni \in Feed, Update(ni)
  PROVE  TableInv'
<1> PICK i \in Chosen(ni) :
      LET redated == [s \in Slot |-> Redated(dates[i][s], s, ni)]
          action  == Stated(ni.action, item[i].action)
          live    == [s \in Slot |-> Current(redated[s])]
          target  == ComputeState(ni.source, ni.status, action, live, today)
          state   == item[i].state
          new     == IF Absorbed(i) THEN state ELSE Settled(state, target)
          owner   == Filled(item[i].obligation, ni.obligation)
      IN
      /\ item' = [item EXCEPT ![i] = Reread(@, ni, action, new, owner)]
      /\ dates' = [dates EXCEPT ![i] = redated]
      /\ keys'  = [keys EXCEPT ![i] = @ \cup (AllKeys(ni) \ Conflicting(i, ni))]
      /\ changes' = [changes EXCEPT ![i] = Logged(@, state, new)]
      /\ anomalies' = [anomalies EXCEPT ![i] = @ \cup Notes(ni)
           \cup (IF Cardinality(Candidates(ni)) > 1 THEN {"ambiguous_join_keys"} ELSE {})
           \cup (IF Conflicting(i, ni) # {} THEN {"join_key_conflict"} ELSE {})
           \cup (IF Absorbed(i) THEN {} ELSE Objection(state, target))]
      /\ roots' = [roots EXCEPT ![i] = @ \cup RootKey(ni)]
      /\ touched' = touched \cup ({owner} \ {NoObligation})
      /\ UNCHANGED <<today, run, nextId, present>>
  BY DEF Update
<1> DEFINE redated == [s \in Slot |-> Redated(dates[i][s], s, ni)]
           action  == Stated(ni.action, item[i].action)
           live    == [s \in Slot |-> Current(redated[s])]
           target  == ComputeState(ni.source, ni.status, action, live, today)
           state   == item[i].state
           new     == IF Absorbed(i) THEN state ELSE Settled(state, target)
           owner   == Filled(item[i].obligation, ni.obligation)
<1>1. i \in ItemId /\ item[i] \in Item
  BY ChosenPresent DEF TableInv, TypeOK
<1>2. new \in State /\ state \in State
  <2>1. state \in State
    BY <1>1 DEF Item
  <2>2. target \in State \cup {Unknown}
    BY ComputeStateType
  <2> HIDE DEF target, state
  <2> QED
    BY <2>1, <2>2, SettledType
<1>3. action \in Action \cup {Unstated} /\ owner \in Obligation \cup {NoObligation}
  BY <1>1, DocumentTypes DEF Stated, Filled, Item
<1> HIDE DEF redated, action, live, target, state, new, owner
<1>4. item' = [item EXCEPT ![i] = Reread(@, ni, action, new, owner)]
  BY DEF new, state, target, live, action, redated, owner
<1>5. item' \in [ItemId -> Item]
  <2>1. Reread(item[i], ni, action, new, owner) \in Item
    BY <1>1, <1>2, <1>3, DocumentTypes DEF Item, Reread
  <2> QED
    BY <1>4, <2>1 DEF TableInv, TypeOK
<1>6. dates' \in [ItemId -> [Slot -> Seq(Row)]] /\ SupersessionIsLinear'
  <2>1. redated \in [Slot -> Seq(Row)] /\ \A s \in Slot : LineOf(redated[s])
    BY <1>1, RedatedLinear DEF redated, TableInv, TypeOK, SupersessionIsLinear
  <2>2. dates' = [dates EXCEPT ![i] = redated]
    BY DEF redated
  <2> QED
    BY <2>1, <2>2 DEF TableInv, TypeOK, SupersessionIsLinear
<1>7. keys' \in [ItemId -> SUBSET Key] /\ roots' \in [ItemId -> SUBSET Key]
  BY <1>1, DocumentTypes DEF TableInv, TypeOK
<1>8. changes' \in [ItemId -> Seq(Change)]
  <2>1. changes' = [changes EXCEPT ![i] = Logged(@, state, new)]
    BY DEF new, state, target, live, action, redated
  <2>2. Logged(changes[i], state, new) \in Seq(Change)
    BY <1>1, <1>2, HelperTypes DEF TableInv, TypeOK
  <2> QED
    BY <2>1, <2>2 DEF TableInv, TypeOK
<1>9. anomalies' \in [ItemId -> SUBSET AnomalyKind]
  <2> DEFINE found == Notes(ni)
           \cup (IF Cardinality(Candidates(ni)) > 1 THEN {"ambiguous_join_keys"} ELSE {})
           \cup (IF Conflicting(i, ni) # {} THEN {"join_key_conflict"} ELSE {})
           \cup (IF Absorbed(i) THEN {} ELSE Objection(state, target))
  <2>1. found \subseteq AnomalyKind
    <3>1. {"ambiguous_join_keys", "join_key_conflict"} \subseteq AnomalyKind
      BY DEF AnomalyKind
    <3> QED
      BY <3>1, HelperTypes
  <2>2. anomalies' = [anomalies EXCEPT ![i] = @ \cup found]
    BY DEF state, target, live, action, redated
  <2> HIDE DEF found
  <2> QED
    BY <1>1, <2>1, <2>2 DEF TableInv, TypeOK
<1>10. touched' \subseteq Obligation
  <2>1. touched' = touched \cup ({owner} \ {NoObligation})
    BY DEF owner
  <2> QED
    BY <1>3, <2>1 DEF TableInv, TypeOK
<1>11. /\ today' \in Nat \ {0} /\ run' \in Source \cup {Idle, "versions"}
       /\ nextId' \in Nat \ {0} /\ present' \subseteq {j \in ItemId : j < nextId'}
  <2>1. UNCHANGED <<today, run, nextId, present>>
    OBVIOUS
  <2> QED
    BY <2>1 DEF TableInv, TypeOK
<1> QED
  BY <1>5, <1>6, <1>7, <1>8, <1>9, <1>10, <1>11, Zenon DEF TableInv, TypeOK

\* A step that leaves the dates alone keeps the chains as they are.
LEMMA SameDates == TableInv /\ UNCHANGED dates => SupersessionIsLinear'
BY DEF TableInv, SupersessionIsLinear

\* Linking proposals to final documents keeps the tables.
LEMMA LinkTables == TableInv /\ Link => TableInv'
<1> SUFFICES ASSUME TableInv, Link PROVE TableInv'
  OBVIOUS
<1> DEFINE linkable == {i \in present : Successors(i) # {}}
<1>1. PICK succ \in [linkable -> present] : Supersede(linkable, succ)
  BY DEF Link
<1>2. item' \in [ItemId -> Item] /\ changes' \in [ItemId -> Seq(Change)]
  <2>1. linkable \in SUBSET present
    OBVIOUS
  <2> HIDE DEF linkable
  <2> QED
    BY <1>1, <2>1, SupersedeType DEF TableInv
<1> HIDE DEF linkable
<1>3. /\ run' = "versions"
      /\ UNCHANGED <<today, touched, nextId, present, keys, dates, anomalies, roots>>
  BY DEF Link
<1> QED
  BY <1>2, <1>3, SameDates DEF TableInv, TypeOK

\* So does resolving concluded consultations to what they became.
LEMMA ResolveConcludedTables == TableInv /\ ResolveConcluded => TableInv'
<1> SUFFICES ASSUME TableInv, ResolveConcluded PROVE TableInv'
  OBVIOUS
<1> DEFINE scope     == IF touched = {} THEN Obligation ELSE touched
           concluded == {i \in present : item[i].obligation \in scope /\ Outcomes(i) # {}}
<1>1. PICK succ \in [concluded -> present] : Supersede(concluded, succ)
  BY DEF ResolveConcluded
<1>2. item' \in [ItemId -> Item] /\ changes' \in [ItemId -> Seq(Change)]
  <2>1. concluded \in SUBSET present
    OBVIOUS
  <2> HIDE DEF concluded
  <2> QED
    BY <1>1, <2>1, SupersedeType DEF TableInv
<1> HIDE DEF concluded
<1>3. /\ run' = Idle /\ touched' = {}
      /\ UNCHANGED <<today, nextId, present, keys, dates, anomalies, roots>>
  BY DEF ResolveConcluded
<1> QED
  BY <1>2, <1>3, SameDates DEF TableInv, TypeOK

\* A row with a new state, or unlinked, is a row.
LEMMA RowUpdates ==
  ASSUME NEW row \in Item
  PROVE  /\ \A state \in State : [row EXCEPT !.state = state] \in Item
         /\ [row EXCEPT !.resolved = NoItem] \in Item
BY DEF Item

\* Moving rows from state to state, and logging it, keeps the tables well typed.
LEMMA RestateType ==
  ASSUME TypeOK
  PROVE  \A new \in [ItemId -> State] :
           /\ item'    = [i \in ItemId |-> [item[i] EXCEPT !.state = new[i]]]
           /\ changes' = [i \in ItemId |-> Logged(changes[i], item[i].state, new[i])]
           => item' \in [ItemId -> Item] /\ changes' \in [ItemId -> Seq(Change)]
<1> SUFFICES ASSUME NEW new \in [ItemId -> State],
                    item'    = [i \in ItemId |-> [item[i] EXCEPT !.state = new[i]]],
                    changes' = [i \in ItemId |-> Logged(changes[i], item[i].state, new[i])]
             PROVE  item' \in [ItemId -> Item] /\ changes' \in [ItemId -> Seq(Change)]
  OBVIOUS
<1>1. ASSUME NEW i \in ItemId
      PROVE  [item[i] EXCEPT !.state = new[i]] \in Item
  <2>1. item[i] \in Item /\ new[i] \in State
    BY DEF TypeOK
  <2> QED
    BY <2>1, RowUpdates
<1>2. ASSUME NEW i \in ItemId
      PROVE  Logged(changes[i], item[i].state, new[i]) \in Seq(Change)
  BY HelperTypes DEF TypeOK, Item
<1> QED
  BY <1>1, <1>2

\* The daily re-evaluation keeps the tables: it moves rows and leaves dates alone.
LEMMA TickTables == TableInv /\ Tick => TableInv'
<1> SUFFICES ASSUME TableInv, Tick PROVE TableInv'
  OBVIOUS
<1> DEFINE due == {i \in present : /\ item[i].state \in ActiveStates
                                   /\ Due(i) \notin {Unknown, item[i].state}}
           new == [i \in ItemId |-> IF i \in due THEN Settled(item[i].state, Due(i))
                                    ELSE item[i].state]
<1>1. new \in [ItemId -> State]
  <2>1. \A i \in ItemId : item[i].state \in State /\ Due(i) \in State \cup {Unknown}
    BY ComputeStateType DEF TableInv, TypeOK, Item, Due
  <2> QED
    BY <2>1, SettledType
<1>2. /\ item'    = [i \in ItemId |-> [item[i] EXCEPT !.state = new[i]]]
      /\ changes' = [i \in ItemId |-> Logged(changes[i], item[i].state, new[i])]
  BY DEF Tick
<1>3. anomalies' \in [ItemId -> SUBSET AnomalyKind]
  BY HelperTypes DEF Tick, TableInv, TypeOK
<1>4. UNCHANGED <<today, run, touched, nextId, present, keys, dates, roots>>
  BY DEF Tick
<1> HIDE DEF new, due
<1>5. item' \in [ItemId -> Item] /\ changes' \in [ItemId -> Seq(Change)]
  BY <1>1, <1>2, RestateType DEF TableInv
<1> QED
  BY <1>3, <1>4, <1>5, SameDates DEF TableInv, TypeOK

\* So does the boot repair that completes concluded consultations.
LEMMA CompleteConcludedTables == TableInv /\ CompleteConcluded => TableInv'
<1> SUFFICES ASSUME TableInv, CompleteConcluded PROVE TableInv'
  OBVIOUS
<1> DEFINE concluded == {i \in present : /\ item[i].state = "comment_closed"
                                         /\ Adopted(Live(i), today)}
           new == [i \in ItemId |-> IF i \in concluded THEN "effective" ELSE item[i].state]
<1>1. new \in [ItemId -> State]
  <2>1. \A i \in ItemId : item[i].state \in State
    BY DEF TableInv, TypeOK, Item
  <2> QED
    BY <2>1 DEF State, Mainline
<1>2. /\ item'    = [i \in ItemId |-> [item[i] EXCEPT !.state = new[i]]]
      /\ changes' = [i \in ItemId |-> Logged(changes[i], item[i].state, new[i])]
  BY DEF CompleteConcluded
<1>3. UNCHANGED <<today, run, touched, nextId, present, keys, dates, anomalies, roots>>
  BY DEF CompleteConcluded
<1> HIDE DEF new, concluded
<1>4. item' \in [ItemId -> Item] /\ changes' \in [ItemId -> Seq(Change)]
  BY <1>1, <1>2, RestateType DEF TableInv
<1> QED
  BY <1>3, <1>4, SameDates DEF TableInv, TypeOK

\* A person's assertion extends one chain, over its current row.
LEMMA AssertDateTables ==
  ASSUME TableInv, NEW i \in ItemId, NEW a \in AssertedDates, AssertDate(i, a[1], a[2], a[3])
  PROVE  TableInv'
<1>1. a[1] \in Slot /\ a[2] \in Nat \ {0} /\ a[3] \in Confidence
  BY AssertAssumption
<1> DEFINE chain  == dates[i][a[1]]
           row    == Assertion(chain, a[2], a[3], TRUE)
           longer == Append(chain, row)
<1>2. chain \in Seq(Row) /\ LineOf(chain)
  BY <1>1 DEF TableInv, TypeOK, SupersessionIsLinear
<1>3. row \in Row /\ row.supersedes = LiveRow(chain)
  BY <1>1, <1>2, LiveIsLast DEF Assertion, Row
<1>4. dates' = [dates EXCEPT ![i][a[1]] = longer]
  BY DEF AssertDate
<1> HIDE DEF chain, row
<1>5. longer \in Seq(Row) /\ LineOf(longer)
  BY <1>2, <1>3, AppendLinear
<1> HIDE DEF longer
<1>6. dates' \in [ItemId -> [Slot -> Seq(Row)]] /\ SupersessionIsLinear'
  BY <1>1, <1>4, <1>5 DEF TableInv, TypeOK, SupersessionIsLinear
<1>7. UNCHANGED <<today, run, touched, nextId, present, item, keys, changes, anomalies, roots>>
  BY DEF AssertDate
<1> QED
  BY <1>6, <1>7 DEF TableInv, TypeOK

\* A purge blanks the rows it removes and unlinks the survivors.
LEMMA PurgeTables ==
  ASSUME TableInv
  PROVE  \A gone \in SUBSET present : Purge(gone) => TableInv'
<1> SUFFICES ASSUME NEW gone \in SUBSET present, Purge(gone) PROVE TableInv'
  OBVIOUS
<1>1. item' \in [ItemId -> Item]
  <2>1. NoRow \in Item
    <3>1. "proposed" \in State /\ "default" \in Track
      BY DEF State, Mainline, Track
    <3> QED
      BY <3>1 DEF NoRow, Item, Unstated
  <2>2. ASSUME NEW i \in ItemId PROVE Unlinked(item[i], gone) \in Item
    <3>1. item[i] \in Item
      BY DEF TableInv, TypeOK
    <3> QED
      BY <3>1, RowUpdates DEF Unlinked
  <2> QED
    BY <2>1, <2>2 DEF Purge
<1>2. /\ keys' \in [ItemId -> SUBSET Key] /\ roots' \in [ItemId -> SUBSET Key]
      /\ changes' \in [ItemId -> Seq(Change)] /\ anomalies' \in [ItemId -> SUBSET AnomalyKind]
  BY DEF Purge, TableInv, TypeOK
<1>3. dates' \in [ItemId -> [Slot -> Seq(Row)]] /\ SupersessionIsLinear'
  <2>1. dates' = [i \in ItemId |-> IF i \in gone THEN [s \in Slot |-> <<>>] ELSE dates[i]]
    BY DEF Purge
  <2>2. LineOf(<<>>)
    BY DEF LineOf
  <2> QED
    BY <2>1, <2>2 DEF TableInv, TypeOK, SupersessionIsLinear
<1>4. UNCHANGED <<today, run, touched, nextId>> /\ present' \subseteq present
  BY DEF Purge
<1> QED
  BY <1>1, <1>2, <1>3, <1>4 DEF TableInv, TypeOK

\* Starting a run and the turn of the day touch no table.
LEMMA RunAndDayTables ==
  ASSUME TableInv, (\E source \in Source : BeginRun(source)) \/ NewDay
  PROVE  TableInv'
<1>1. UNCHANGED <<nextId, present, item, keys, dates, changes, anomalies, roots>>
  BY DEF BeginRun, NewDay
<1>2. /\ today' \in Nat \ {0} /\ run' \in Source \cup {Idle, "versions"}
      /\ touched' \subseteq Obligation
  BY BoundsAssumption DEF BeginRun, NewDay, TableInv, TypeOK
<1> QED
  BY <1>1, <1>2, SameDates DEF TableInv, TypeOK

\* Every step of the pipeline keeps the tables: the inductive step.
LEMMA NextTables == TableInv /\ [Next]_vars => TableInv'
<1> SUFFICES ASSUME TableInv, [Next]_vars PROVE TableInv'
  OBVIOUS
<1>1. CASE \E ni \in Feed : Create(ni)
  BY <1>1, CreateTables
<1>2. CASE \E ni \in Feed : Update(ni)
  BY <1>2, UpdateTables
<1>3. CASE \E i \in ItemId, a \in AssertedDates : AssertDate(i, a[1], a[2], a[3])
  BY <1>3, AssertDateTables
<1>4. CASE \E gone \in SUBSET present : Purge(gone)
  BY <1>4, PurgeTables
<1>5. CASE UNCHANGED vars
  BY <1>5 DEF vars, TableInv, TypeOK, SupersessionIsLinear
<1> QED
  BY <1>1, <1>2, <1>3, <1>4, <1>5, LinkTables, ResolveConcludedTables, TickTables,
     CompleteConcludedTables, RunAndDayTables DEF Next

\* Every table stays well typed in every reachable state.
THEOREM TypeCorrect == Spec => []TypeOK
<1>1. TableInv => TypeOK
  BY DEF TableInv
<1> QED
  BY <1>1, InitTables, NextTables, PTL DEF Spec

\* No row of key_date is ever superseded twice, whatever documents and people say.
THEOREM SupersessionStaysLinear == Spec => []SupersessionIsLinear
<1>1. TableInv => SupersessionIsLinear
  BY DEF TableInv
<1> QED
  BY <1>1, InitTables, NextTables, PTL DEF Spec

\* What was said last about a date is what every reader resolves it to.
THEOREM LatestRowAlwaysDecides == Spec => []LatestRowDecides
<1>1. TableInv => LatestRowDecides
  BY HeadIsLast DEF TableInv, TypeOK, SupersessionIsLinear, LatestRowDecides
<1> QED
  BY <1>1, InitTables, NextTables, PTL DEF Spec
-------------------------------------------------------------------------------
(* Which item a document belongs to.                                          *)

\* An item chosen without holding the document's key shares another key on its track, has
\* passed the guard, and no item of that track holds the key.
LEMMA ChosenForKey ==
  ASSUME TableInv, NEW ni \in Feed, NEW i \in Chosen(ni), ni.key \notin keys[i]
  PROVE  /\ SharesKey(i, ni) /\ (ni.supplementary \/ SameDocument(i, ni))
         /\ \A j \in Holders(ni.key) : item[j].track # ni.track
<1>1. i \in present /\ i \in Candidates(ni) /\ i \notin Holders(ni.key)
  BY DEF Chosen, Candidates, Holders
<1>2. Candidates(ni) =
        {j \in present : SharesKey(j, ni) /\ (ni.supplementary \/ SameDocument(j, ni))}
  BY <1>1 DEF Candidates
<1>3. Candidates(ni) \cap Holders(ni.key) = {}
  BY <1>1 DEF Chosen
<1>4. ASSUME NEW j \in Holders(ni.key), item[j].track = ni.track PROVE FALSE
  <2>1. j \in present /\ ni.key \in keys[j]
    BY DEF Holders
  <2>2. SharesKey(j, ni) /\ SameDocument(j, ni)
    BY <1>4, <2>1 DEF SharesKey, SameDocument, AllKeys
  <2> QED
    BY <1>2, <1>3, <2>1, <2>2
<1> QED
  BY <1>1, <1>2, <1>4

\* What a re-read does to keys, roots and tracks.
LEMMA KeysOfRead ==
  ASSUME TableInv, NEW ni \in Feed, Update(ni)
  PROVE  \E i \in Chosen(ni) :
           /\ i \in present /\ present' = present
           /\ keys' = [keys EXCEPT ![i] = keys[i] \cup (AllKeys(ni) \ Conflicting(i, ni))]
           /\ roots' = [roots EXCEPT ![i] = roots[i] \cup RootKey(ni)]
           /\ item'[i].track = ni.track
           /\ \A j \in ItemId \ {i} : item'[j] = item[j]
<1>1. PICK i \in Chosen(ni) :
        LET redated == [s \in Slot |-> Redated(dates[i][s], s, ni)]
            action  == Stated(ni.action, item[i].action)
            live    == [s \in Slot |-> Current(redated[s])]
            target  == ComputeState(ni.source, ni.status, action, live, today)
            new     == IF Absorbed(i) THEN item[i].state ELSE Settled(item[i].state, target)
            owner   == Filled(item[i].obligation, ni.obligation)
        IN
        /\ item' = [item EXCEPT ![i] = Reread(@, ni, action, new, owner)]
        /\ keys' = [keys EXCEPT ![i] = @ \cup (AllKeys(ni) \ Conflicting(i, ni))]
        /\ roots' = [roots EXCEPT ![i] = @ \cup RootKey(ni)]
        /\ present' = present
  BY DEF Update
<1>2. i \in present /\ i \in ItemId
  BY ChosenPresent DEF TableInv, TypeOK
<1>3. PICK action, new, owner :
        item' = [item EXCEPT ![i] = Reread(item[i], ni, action, new, owner)]
  BY <1>1
<1>4. Reread(item[i], ni, action, new, owner).track = ni.track
  BY DEF Reread
<1>5. item'[i].track = ni.track /\ \A j \in ItemId \ {i} : item'[j] = item[j]
  BY <1>2, <1>3, <1>4 DEF TableInv, TypeOK
<1> QED
  BY <1>1, <1>2, <1>5

\* What a first read does to them.
LEMMA KeysOfFirstRead ==
  ASSUME TableInv, NEW ni \in Feed, Create(ni)
  PROVE  /\ nextId \in ItemId \ present /\ present' = present \cup {nextId}
         /\ Candidates(ni) = {}
         /\ keys' = [keys EXCEPT ![nextId] = AllKeys(ni)]
         /\ roots' = [roots EXCEPT ![nextId] = RootKey(ni)]
         /\ item'[nextId].track = ni.track
         /\ \A j \in ItemId \ {nextId} : item'[j] = item[j]
<1>1. nextId \in ItemId \ present
  BY BoundsAssumption DEF Create, TableInv, TypeOK, ItemId
<1>2. PICK first :
        item' = [item EXCEPT ![nextId] =
          [source |-> ni.source, status |-> ni.status, action |-> ni.action,
           track |-> ni.track, state |-> first, resolved |-> NoItem,
           obligation |-> ni.obligation, version |-> ni.version, firstSeen |-> today]]
  BY Zenon DEF Create
<1>3. item'[nextId].track = ni.track /\ \A j \in ItemId \ {nextId} : item'[j] = item[j]
  BY <1>1, <1>2 DEF TableInv, TypeOK
<1> QED
  BY <1>1, <1>3 DEF Create

\* Every other step leaves the keys, roots and tracks of what stays.
LEMMA KeysOtherwise ==
  ASSUME TableInv, [Next]_vars, \A ni \in Feed : ~ Create(ni) /\ ~ Update(ni)
  PROVE  /\ present' \subseteq present
         /\ \A i \in present' : /\ keys'[i] = keys[i] /\ roots'[i] = roots[i]
                                /\ item'[i].track = item[i].track
<1>0. present \subseteq ItemId /\ \A i \in ItemId : item[i] \in Item
  BY DEF TableInv, TypeOK
<1>1. CASE UNCHANGED <<present, keys, roots, item>>
  BY <1>1
<1>2. ASSUME NEW from \in SUBSET present, NEW succ \in [from -> present],
             Supersede(from, succ), NEW i \in present
      PROVE  item'[i].track = item[i].track
  <2>1. i \in ItemId /\ item[i] \in Item
    BY <1>0
  <2>2. [item[i] EXCEPT !.state = "superseded", !.resolved = succ[i]].track = item[i].track
    BY <2>1 DEF Item
  <2> QED
    BY <1>2, <2>1, <2>2 DEF Supersede
<1>3. CASE Link \/ ResolveConcluded
  <2>1. UNCHANGED <<present, keys, roots>>
        /\ \E from \in SUBSET present : \E succ \in [from -> present] : Supersede(from, succ)
    BY <1>3 DEF Link, ResolveConcluded
  <2> QED
    BY <1>2, <2>1
<1>4. CASE Tick \/ CompleteConcluded
  <2>1. UNCHANGED <<present, keys, roots>>
        /\ \A i \in ItemId : \E state : item'[i] = [item[i] EXCEPT !.state = state]
    BY <1>4 DEF Tick, CompleteConcluded
  <2>2. \A i \in ItemId : \A state : [item[i] EXCEPT !.state = state].track = item[i].track
    BY <1>0 DEF Item
  <2>3. ASSUME NEW i \in ItemId PROVE item'[i].track = item[i].track
    <3>1. PICK state : item'[i] = [item[i] EXCEPT !.state = state]
      BY <2>1
    <3> QED
      BY <2>2, <3>1
  <2> QED
    BY <1>0, <2>1, <2>3
<1>5. ASSUME NEW gone \in SUBSET present, Purge(gone)
      PROVE  /\ present' \subseteq present
             /\ \A i \in present' : /\ keys'[i] = keys[i] /\ roots'[i] = roots[i]
                                    /\ item'[i].track = item[i].track
  <2>1. present' = present \ gone
        /\ \A i \in ItemId : i \notin gone => /\ keys'[i] = keys[i] /\ roots'[i] = roots[i]
                                             /\ item'[i] = Unlinked(item[i], gone)
    BY <1>5 DEF Purge
  <2>2. \A i \in ItemId : Unlinked(item[i], gone).track = item[i].track
    BY <1>0 DEF Unlinked, Item
  <2> QED
    BY <1>0, <2>1, <2>2
<1>6. \/ UNCHANGED <<present, keys, roots, item>>
      \/ Link \/ ResolveConcluded \/ Tick \/ CompleteConcluded
      \/ \E gone \in SUBSET present : Purge(gone)
  BY DEF Next, BeginRun, AssertDate, NewDay, vars
<1> QED
  BY <1>1, <1>3, <1>4, <1>5, <1>6

\* An item has the keys of the root documents it was made of, and, where only they state
\* them, no other root document's: so whoever shares a type of key with a root it has is
\* turned away by the guard.
RootsInv ==
  \A i \in present :
    /\ roots[i] \subseteq keys[i]
    /\ \A ni \in Feed : ~ ni.supplementary /\ ni.key \in keys[i] => ni.key \in roots[i]
    /\ \A a, b \in roots[i] : a[1] = b[1] => a = b

\* The inductive step of RootsInv.
LEMMA RootsStep ==
  ASSUME RootsUnnamed, TableInv, RootsInv, [Next]_vars
  PROVE  RootsInv'
<1>0. present \subseteq ItemId /\ DOMAIN keys = ItemId /\ DOMAIN roots = ItemId
  BY DEF TableInv, TypeOK
<1>1. ASSUME NEW ni \in Feed, Create(ni) PROVE RootsInv'
  <2>1. ASSUME NEW mi \in Feed, ~ mi.supplementary, mi.key \in AllKeys(ni)
        PROVE  mi.key \in RootKey(ni)
    BY <2>1 DEF RootsUnnamed, RootKey
  <2>2. RootKey(ni) \subseteq AllKeys(ni) /\ \A a, b \in RootKey(ni) : a = b
    BY DEF RootKey, AllKeys
  <2>3. /\ nextId \in ItemId \ present /\ present' = present \cup {nextId}
        /\ keys' = [keys EXCEPT ![nextId] = AllKeys(ni)]
        /\ roots' = [roots EXCEPT ![nextId] = RootKey(ni)]
    BY <1>1, KeysOfFirstRead
  <2>4. keys'[nextId] = AllKeys(ni) /\ roots'[nextId] = RootKey(ni)
        /\ \A i \in present : keys'[i] = keys[i] /\ roots'[i] = roots[i]
    BY <1>0, <2>3
  <2> QED
    BY <2>1, <2>2, <2>3, <2>4 DEF RootsInv
<1>2. ASSUME NEW ni \in Feed, Update(ni) PROVE RootsInv'
  <2>1. PICK i \in Chosen(ni) :
          /\ i \in present /\ present' = present
          /\ keys' = [keys EXCEPT ![i] = keys[i] \cup (AllKeys(ni) \ Conflicting(i, ni))]
          /\ roots' = [roots EXCEPT ![i] = roots[i] \cup RootKey(ni)]
    BY <1>2, KeysOfRead
  <2>2. /\ keys'[i] = keys[i] \cup (AllKeys(ni) \ Conflicting(i, ni))
        /\ roots'[i] = roots[i] \cup RootKey(ni)
        /\ \A j \in present \ {i} : keys'[j] = keys[j] /\ roots'[j] = roots[j]
    BY <1>0, <2>1
  <2>3. CASE ni.key \in keys[i] \/ ni.supplementary
    <3>1. roots'[i] = roots[i]
      BY <2>1, <2>2, <2>3 DEF RootsInv, RootKey
    <3>2. ASSUME NEW mi \in Feed, ~ mi.supplementary, mi.key \in AllKeys(ni)
          PROVE  mi.key \in keys[i]
      BY <2>3, <3>2 DEF RootsUnnamed
    <3> QED
      BY <2>1, <2>2, <3>1, <3>2 DEF RootsInv
  <2>4. CASE ni.key \notin keys[i] /\ ~ ni.supplementary
    <3>1. /\ item[i].track = ni.track /\ SameDocument(i, ni)
          /\ \A j \in Holders(ni.key) : item[j].track # ni.track
      BY <2>4, ChosenForKey DEF SharesKey
    <3>2. ni.key \in keys'[i]
      BY <2>2, <3>1 DEF Conflicting, AllKeys
    <3>3. \A a \in roots[i] : a[1] # ni.key[1]
      BY <2>1, <2>4, <3>1 DEF SameDocument, RootsInv
    <3>4. roots'[i] = roots[i] \cup {ni.key}
      BY <2>2, <2>4 DEF RootKey
    <3>5. ASSUME NEW mi \in Feed, ~ mi.supplementary, mi.key \in AllKeys(ni)
          PROVE  mi.key = ni.key
      BY <3>5 DEF RootsUnnamed
    <3>6. /\ roots'[i] \subseteq keys'[i]
          /\ \A mi \in Feed : ~ mi.supplementary /\ mi.key \in keys'[i] => mi.key \in roots'[i]
          /\ \A a, b \in roots'[i] : a[1] = b[1] => a = b
      BY <2>1, <2>2, <3>2, <3>3, <3>4, <3>5 DEF RootsInv
    <3> QED
      BY <2>1, <2>2, <3>6 DEF RootsInv
  <2> QED
    BY <2>3, <2>4
<1>3. CASE \A ni \in Feed : ~ Create(ni) /\ ~ Update(ni)
  BY <1>3, KeysOtherwise DEF RootsInv
<1> QED
  BY <1>1, <1>2, <1>3

\* Two root documents of one source never end up in one item, as long as no other document
\* states a root document's key: what the identity guard of _find_item protects, and the
\* one thing it needs.
THEOREM RootsStayApart ==
  ASSUME RootsUnnamed
  PROVE  Spec => []RootsNeverSpliced
<1>1. Init => RootsInv
  BY DEF Init, RootsInv
<1>2. TableInv /\ RootsInv /\ [Next]_vars => RootsInv'
  BY RootsStep
<1>3. RootsInv => RootsNeverSpliced
  BY DEF RootsInv, RootsNeverSpliced
<1> QED
  BY <1>1, <1>2, <1>3, InitTables, NextTables, PTL DEF Spec

\* The two alternatives of NamesKeepTracks.
Alone(k)  == \A mi \in Feed : k \in AllKeys(mi) => AllKeys(mi) = {k}
Steady(k) == \A mi, oi \in Feed : k \in AllKeys(mi) \cap AllKeys(oi) => mi.track = oi.track

\* A key that may move comes alone, and any other sits on its track; that is where a
\* document that names it looks for it.
HoldersInv ==
  /\ \A i \in present, ni \in Feed : ni.key \in keys[i] =>
       /\ Alone(ni.key) => keys[i] = {ni.key}
       /\ ~ Alone(ni.key) => \A mi \in Feed : ni.key \in AllKeys(mi) => item[i].track = mi.track
  /\ \A i, j \in present, ni \in Feed : ni.key \in keys[i] \cap keys[j] => i = j

\* The inductive step of HoldersInv.
LEMMA HoldersStep ==
  ASSUME NamesKeepTracks, TableInv, HoldersInv, [Next]_vars
  PROVE  HoldersInv'
<1>0. present \subseteq ItemId /\ DOMAIN keys = ItemId
  BY DEF TableInv, TypeOK
<1>a. /\ \A ni \in Feed : Alone(ni.key) \/ Steady(ni.key)
      /\ \A ni, mi \in Feed : ni.key \in mi.keys => mi.supplementary \/ mi.key = ni.key
  BY DEF NamesKeepTracks, Alone, Steady
<1>b. \A ni \in Feed : ni.key \in AllKeys(ni)
  BY DEF AllKeys
<1>1. ASSUME NEW ni \in Feed, Create(ni) PROVE HoldersInv'
  <2>1. /\ nextId \in ItemId \ present /\ present' = present \cup {nextId}
        /\ Candidates(ni) = {}
        /\ keys' = [keys EXCEPT ![nextId] = AllKeys(ni)]
        /\ item'[nextId].track = ni.track
        /\ \A j \in ItemId \ {nextId} : item'[j] = item[j]
    BY <1>1, KeysOfFirstRead
  <2>2. keys'[nextId] = AllKeys(ni)
        /\ \A i \in present : keys'[i] = keys[i] /\ item'[i] = item[i]
    BY <1>0, <2>1
  <2>3. ASSUME NEW mi \in Feed, mi.key \in AllKeys(ni), NEW j \in present, mi.key \in keys[j]
        PROVE  FALSE
    <3>1. CASE mi.key = ni.key
      <4>1. Holders(ni.key) = {j}
        BY <2>3, <3>1 DEF Holders, HoldersInv
      <4>2. Candidates(ni) = {j}
        BY <4>1, FS_Singleton DEF Candidates
      <4> QED
        BY <2>1, <4>2
    <3>2. CASE mi.key # ni.key
      <4>1. ni.supplementary
        BY <1>a, <2>3, <3>2 DEF AllKeys
      <4>2. ~ Alone(mi.key)
        BY <1>b, <2>3, <3>2 DEF Alone
      <4>3. item[j].track = ni.track
        BY <2>3, <4>2 DEF HoldersInv
      <4>4. SharesKey(j, ni)
        BY <2>3, <4>3 DEF SharesKey
      <4>5. Cardinality(Holders(ni.key)) # 1
        BY <2>1, FS_EmptySet DEF Candidates
      <4> QED
        BY <2>1, <4>1, <4>4, <4>5 DEF Candidates
    <3> QED
      BY <3>1, <3>2
  <2>4. ASSUME NEW mi \in Feed, mi.key \in AllKeys(ni)
        PROVE  /\ Alone(mi.key) => AllKeys(ni) = {mi.key}
               /\ ~ Alone(mi.key) =>
                    \A oi \in Feed : mi.key \in AllKeys(oi) => ni.track = oi.track
    BY <1>a, <2>4 DEF Alone, Steady
  <2> QED
    BY <2>1, <2>2, <2>3, <2>4 DEF HoldersInv
<1>2. ASSUME NEW ni \in Feed, Update(ni) PROVE HoldersInv'
  <2>1. PICK i \in Chosen(ni) :
          /\ i \in present /\ present' = present
          /\ keys' = [keys EXCEPT ![i] = keys[i] \cup (AllKeys(ni) \ Conflicting(i, ni))]
          /\ item'[i].track = ni.track
          /\ \A j \in ItemId \ {i} : item'[j] = item[j]
    BY <1>2, KeysOfRead
  <2>2. /\ keys'[i] = keys[i] \cup (AllKeys(ni) \ Conflicting(i, ni))
        /\ \A j \in present \ {i} : keys'[j] = keys[j] /\ item'[j] = item[j]
    BY <1>0, <2>1
  <2>3. /\ keys[i] \cap AllKeys(ni) # {}
        /\ item[i].track = ni.track \/ (keys[i] = {ni.key} /\ AllKeys(ni) = {ni.key})
    <3>1. CASE ni.key \notin keys[i]
      BY <3>1, ChosenForKey DEF SharesKey
    <3>2. CASE ni.key \in keys[i]
      BY <1>b, <2>1, <3>2 DEF HoldersInv, Alone
    <3> QED
      BY <3>1, <3>2
  <2>4. ASSUME NEW mi \in Feed, mi.key \in keys'[i]
        PROVE  /\ Alone(mi.key) => keys'[i] = {mi.key}
               /\ ~ Alone(mi.key) =>
                    \A oi \in Feed : mi.key \in AllKeys(oi) => ni.track = oi.track
    <3>1. CASE Alone(mi.key)
      <4>1. keys[i] = {mi.key} \/ AllKeys(ni) = {mi.key}
        BY <2>1, <2>2, <2>4, <3>1 DEF HoldersInv, Alone
      <4>2. mi.key \in keys[i] /\ mi.key \in AllKeys(ni)
        BY <2>3, <4>1
      <4>3. keys[i] = {mi.key} /\ AllKeys(ni) = {mi.key}
        BY <2>1, <3>1, <4>2 DEF HoldersInv, Alone
      <4> QED
        BY <2>2, <3>1, <4>3
    <3>2. ASSUME ~ Alone(mi.key), NEW oi \in Feed, mi.key \in AllKeys(oi)
          PROVE  ni.track = oi.track
      <4>1. CASE mi.key \in AllKeys(ni)
        BY <1>a, <3>2, <4>1 DEF Steady
      <4>2. CASE mi.key \notin AllKeys(ni)
        <5>1. mi.key \in keys[i] /\ item[i].track = ni.track
          BY <2>2, <2>3, <2>4, <4>2
        <5> QED
          BY <2>1, <3>2, <5>1 DEF HoldersInv
      <4> QED
        BY <4>1, <4>2
    <3> QED
      BY <3>1, <3>2
  <2>5. ASSUME NEW mi \in Feed, mi.key \in keys'[i], NEW j \in present \ {i}, mi.key \in keys[j]
        PROVE  FALSE
    <3>1. mi.key \notin keys[i]
      BY <2>1, <2>5 DEF HoldersInv
    <3>2. mi.key \in AllKeys(ni) \ Conflicting(i, ni)
      BY <2>2, <2>5, <3>1
    <3>3. ~ Alone(mi.key)
      BY <2>3, <3>1, <3>2 DEF Alone
    <3>4. item[j].track = ni.track
      BY <2>5, <3>2, <3>3 DEF HoldersInv
    <3>5. item[i].track = ni.track
      BY <2>3, <3>1, <3>2
    <3>6. j \in Holders(mi.key) \ {i}
      BY <2>5 DEF Holders
    <3> QED
      BY <3>1, <3>2, <3>4, <3>5, <3>6 DEF Conflicting
  <2> QED
    BY <2>1, <2>2, <2>4, <2>5 DEF HoldersInv
<1>3. CASE \A ni \in Feed : ~ Create(ni) /\ ~ Update(ni)
  <2>1. /\ present' \subseteq present
        /\ \A i \in present' : keys'[i] = keys[i] /\ item'[i].track = item[i].track
    BY <1>3, KeysOtherwise
  <2> QED
    BY <2>1 DEF HoldersInv
<1> QED
  BY <1>1, <1>2, <1>3

\* No document is listed twice, whatever is read first, as long as only companions state
\* another document's key and do so on its track, and a document that changes its track
\* shares no key.
THEOREM DocumentsAreListedOnce ==
  ASSUME NamesKeepTracks
  PROVE  Spec => []DocumentHasOneRow
<1>1. Init => HoldersInv
  BY DEF Init, HoldersInv
<1>2. TableInv /\ HoldersInv /\ [Next]_vars => HoldersInv'
  BY HoldersStep
<1>3. HoldersInv => DocumentHasOneRow
  <2> SUFFICES ASSUME HoldersInv, NEW ni \in Feed PROVE Cardinality(Holders(ni.key)) <= 1
    BY DEF DocumentHasOneRow
  <2>1. Holders(ni.key) = {} \/ \E i \in present : Holders(ni.key) = {i}
    BY DEF HoldersInv, Holders
  <2>2. Cardinality({}) = 0 /\ \A i : Cardinality({i}) = 1
    BY FS_Singleton, FS_EmptySet
  <2>3. Cardinality(Holders(ni.key)) = 0 \/ Cardinality(Holders(ni.key)) = 1
    BY <2>1, <2>2, Zenon
  <2> QED
    BY <2>3
<1> QED
  BY <1>1, <1>2, <1>3, InitTables, NextTables, PTL DEF Spec
-------------------------------------------------------------------------------
(*************************************************************************)
(* The life of the items: the event log replays the state, a resolved    *)
(* item stays superseded, and the pipeline implements ItemLife. Every    *)
(* step changes a state in one of four ways, and each lemma below says   *)
(* what one of them does to a life, a log or a resolution.               *)
(*************************************************************************)

\* A log that replays a state, extended by a move, replays the state moved to.
LEMMA AppendReplays ==
  ASSUME NEW log \in Seq(Change), NEW from \in State, NEW to \in State, Replays(log, from)
  PROVE  Replays(Append(log, [from |-> from, to |-> to]), to)
<1> DEFINE step   == [from |-> from, to |-> to]
           longer == Append(log, step)
<1>1. step \in Change /\ step.from = from /\ step.to = to
  BY DEF Change
<1> HIDE DEF step
<1>2. /\ Len(log) \in Nat /\ Len(log) >= 1 /\ Len(longer) = Len(log) + 1
      /\ \A k \in 1..Len(log) : longer[k] = log[k]
      /\ longer[Len(log) + 1] = step
  BY <1>1 DEF Replays
<1> HIDE DEF longer
<1>3. longer # <<>> /\ longer[1] = log[1]
  BY <1>2
<1>4. ASSUME NEW k \in 1..Len(longer) - 1 PROVE longer[k+1].from = longer[k].to
  <2>1. CASE k < Len(log)
    BY <1>2, <2>1 DEF Replays
  <2>2. CASE k = Len(log)
    BY <1>1, <1>2, <2>2 DEF Replays
  <2> QED
    BY <1>2, <2>1, <2>2
<1>5. Replays(longer, to)
  BY <1>1, <1>2, <1>3, <1>4 DEF Replays
<1> QED
  BY <1>5 DEF longer, step

\* The same of a move that is only logged when it changes the state.
LEMMA LoggedReplays ==
  ASSUME NEW log \in Seq(Change), NEW from \in State, NEW to \in State, Replays(log, from)
  PROVE  Replays(Logged(log, from, to), to)
BY AppendReplays DEF Logged

\* The first entry of a log replays the first state.
LEMMA FirstReplays ==
  ASSUME NEW first \in State
  PROVE  Replays(<<[from |-> NoState, to |-> first]>>, first)
BY DEF Replays

\* A statemap never says that an item is superseded.
LEMMA NeverDerivedSuperseded ==
  ASSUME NEW source, NEW status, NEW action, NEW live, NEW day
  PROVE  ComputeState(source, status, action, live, day) # "superseded"
<1>1. \A u \in {"comment_open", "proposed"} : WindowState(live, u, day) # "superseded"
  BY DEF WindowState
<1>2. (\A d : UnlessAhead(d, day) # "superseded") /\ (\A D : OncePassed(D, day) # "superseded")
  BY DEF UnlessAhead, OncePassed
<1>3. \A s \in DOMAIN FixedState : \A t \in DOMAIN FixedState[s] :
        FixedState[s][t] # "superseded"
  BY DEF FixedState, CellarFixes, OeilFixes, EdpbFixes, CppaFixes, LegiscanFixes,
    PciSscFixes, IsoFixes, NistCsrcFixes
<1>4. Unknown # "superseded"
  BY DEF Unknown
<1> QED
  BY <1>1, <1>2, <1>3, <1>4 DEF ComputeState

\* A derived state is only stored when the lifecycle lets the item move there.
LEMMA SettledMoves ==
  ASSUME NEW state \in State, NEW target \in State \cup {Unknown}
  PROVE  \/ Settled(state, target) = state
         \/ Settled(state, target) = target /\ Advances(state, target) /\ target # state
BY DEF Settled, Verdict, Echo

\* The ranks of the main line follow its stages.
LEMMA ForwardByRank ==
  \A a, b \in Mainline : Rank[b] > Rank[a] => Life!Forward(a, b)
<1> DEFINE stages == Life!Stages
<1>1. /\ DOMAIN stages = 1..5
      /\ stages[1] = "proposed" /\ stages[2] = "comment_open" /\ stages[3] = "comment_closed"
      /\ stages[4] = "final_pending_effective" /\ stages[5] = "effective"
  BY DEF Life!Stages
<1> HIDE DEF stages
<1>2. /\ Rank["proposed"] = 0 /\ Rank["comment_open"] = 1 /\ Rank["comment_closed"] = 2
      /\ Rank["final_pending_effective"] = 3 /\ Rank["effective"] = 4
  BY DEF Rank
<1>3. \A a \in Mainline : Rank[a] \in 0..4 /\ stages[Rank[a] + 1] = a
  BY <1>1, <1>2 DEF Mainline
<1> SUFFICES ASSUME NEW a \in Mainline, NEW b \in Mainline, Rank[b] > Rank[a]
             PROVE  \E m, n \in DOMAIN stages : m < n /\ a = stages[m] /\ b = stages[n]
  BY DEF Life!Forward, stages
<1>4. Rank[a] + 1 \in DOMAIN stages /\ Rank[b] + 1 \in DOMAIN stages /\ Rank[a] + 1 < Rank[b] + 1
  BY <1>1, <1>3
<1> QED
  BY <1>3, <1>4

\* The stages and ends of ItemLife are the canonical states.
LEMMA LifeStates ==
  /\ Life!OnLine = Mainline
  /\ Life!OffLine = Side
  /\ Life!Ends = Terminal
<1>1. Life!OnLine = Mainline
  <2>1. Life!OnLine = {Life!Stages[n] : n \in 1..5}
    BY DEF Life!OnLine, Life!Stages
  <2> QED
    BY <2>1 DEF Life!Stages, Mainline
<1> QED
  BY <1>1 DEF Life!OffLine, Life!Ends, Side, Terminal

\* Every move the reducer or the tick makes is one ItemLife allows.
LEMMA AdvancesMoves ==
  ASSUME NEW state \in State, NEW new \in State, Advances(state, new), state # new
  PROVE  Life!Moves(state, new)
<1>1. /\ State = Mainline \cup Side /\ Terminal \subseteq Side
      /\ \A s \in Side : s = "stalled" \/ s \in Terminal
  BY DEF State, Side, Terminal
<1>2. CASE new \in Side /\ state \in Mainline
  BY <1>2, LifeStates DEF Life!Moves
<1>3. CASE state = "stalled"
  BY <1>1, <1>3, LifeStates DEF Life!Moves
<1>4. CASE <<state, new>> \in BackwardOk
  BY <1>4 DEF BackwardOk, Life!Moves
<1>5. CASE state \in Mainline /\ new \in Mainline /\ Rank[new] > Rank[state]
  BY <1>5, ForwardByRank DEF Life!Moves
<1> QED
  BY <1>1, <1>2, <1>3, <1>4, <1>5 DEF Advances
-------------------------------------------------------------------------------
(* The four ways a step changes states.                                       *)

\* A re-read document moves its item, unless a successor absorbed it.
RereadMove(i, new) ==
  /\ Absorbed(i) => new = item[i].state
  /\ new # item[i].state => Advances(item[i].state, new) /\ new # "superseded"
  /\ item' = [item EXCEPT ![i] = item'[i]]
  /\ item'[i].state = new /\ item'[i].resolved = item[i].resolved
  /\ changes' = [changes EXCEPT ![i] = Logged(@, item[i].state, new)]

\* The tick and the maintenance pass move rows along the lifecycle.
Restate(new) ==
  /\ \A i \in ItemId : new[i] # item[i].state =>
       i \in present /\ Advances(item[i].state, new[i]) /\ new[i] # "superseded"
  /\ item'    = [i \in ItemId |-> [item[i] EXCEPT !.state = new[i]]]
  /\ changes' = [i \in ItemId |-> Logged(changes[i], item[i].state, new[i])]

\* The linker and the version pass supersede rows that have no successor yet.
Succeed(from, succ) ==
  /\ Supersede(from, succ)
  /\ \A i \in from :
       /\ item[i].resolved = NoItem /\ item[i].state # "withdrawn" /\ succ[i] # i

\* The state a re-read stores is the old one, or one the lifecycle lets it move to.
LEMMA UpdateMove ==
  ASSUME TableInv, NEW ni \in Feed, Update(ni)
  PROVE  /\ \E i \in present, new \in State : RereadMove(i, new)
         /\ UNCHANGED <<nextId, present>>
<1> PICK i \in Chosen(ni) :
      LET redated == [s \in Slot |-> Redated(dates[i][s], s, ni)]
          action  == Stated(ni.action, item[i].action)
          live    == [s \in Slot |-> Current(redated[s])]
          target  == ComputeState(ni.source, ni.status, action, live, today)
          state   == item[i].state
          new     == IF Absorbed(i) THEN state ELSE Settled(state, target)
          owner   == Filled(item[i].obligation, ni.obligation)
      IN
      /\ item' = [item EXCEPT ![i] = Reread(@, ni, action, new, owner)]
      /\ changes' = [changes EXCEPT ![i] = Logged(@, state, new)]
      /\ UNCHANGED <<nextId, present>>
  BY DEF Update
<1> DEFINE redated == [s \in Slot |-> Redated(dates[i][s], s, ni)]
           action  == Stated(ni.action, item[i].action)
           live    == [s \in Slot |-> Current(redated[s])]
           target  == ComputeState(ni.source, ni.status, action, live, today)
           state   == item[i].state
           new     == IF Absorbed(i) THEN state ELSE Settled(state, target)
           owner   == Filled(item[i].obligation, ni.obligation)
           row     == Reread(item[i], ni, action, new, owner)
<1>1. i \in present /\ i \in ItemId /\ item[i] \in Item
  BY ChosenPresent DEF TableInv, TypeOK
<1>2. state \in State
  BY <1>1 DEF Item
<1>3. target \in State \cup {Unknown} /\ target # "superseded"
  BY ComputeStateType, NeverDerivedSuperseded
<1>4. row.state = new /\ row.resolved = item[i].resolved
  BY DEF Reread
<1>5. /\ item' = [item EXCEPT ![i] = row]
      /\ changes' = [changes EXCEPT ![i] = Logged(@, state, new)]
      /\ UNCHANGED <<nextId, present>>
  OBVIOUS
<1> HIDE DEF row, owner, target, live, action, redated
<1>6. /\ new \in State
      /\ Absorbed(i) => new = state
      /\ new # state => Advances(state, new) /\ new # "superseded"
  <2> HIDE DEF state
  <2> QED
    BY <1>2, <1>3, SettledType, SettledMoves
<1> HIDE DEF new
<1>7. item'[i] = row /\ item' = [item EXCEPT ![i] = item'[i]]
  BY <1>1, <1>5 DEF TableInv, TypeOK
<1>8. item'[i].state = new /\ item'[i].resolved = item[i].resolved
  BY <1>4, <1>7
<1>9. RereadMove(i, new)
  BY <1>5, <1>6, <1>7, <1>8 DEF RereadMove
<1> QED
  BY <1>1, <1>5, <1>6, <1>9

\* The same of the daily re-evaluation, for every item at once.
LEMMA TickMove ==
  ASSUME TableInv, Tick
  PROVE  (\E new \in [ItemId -> State] : Restate(new)) /\ UNCHANGED <<nextId, present>>
<1> DEFINE due == {i \in present : /\ item[i].state \in ActiveStates
                                   /\ Due(i) \notin {Unknown, item[i].state}}
           new == [i \in ItemId |-> IF i \in due THEN Settled(item[i].state, Due(i))
                                    ELSE item[i].state]
<1>1. \A i \in ItemId : /\ item[i].state \in State /\ Due(i) \in State \cup {Unknown}
                        /\ Due(i) # "superseded"
  BY ComputeStateType, NeverDerivedSuperseded DEF TableInv, TypeOK, Item, Due
<1>2. new \in [ItemId -> State]
  BY <1>1, SettledType
<1>3. \A i \in ItemId : new[i] # item[i].state =>
        i \in present /\ Advances(item[i].state, new[i]) /\ new[i] # "superseded"
  BY <1>1, SettledMoves
<1>4. /\ item'    = [i \in ItemId |-> [item[i] EXCEPT !.state = new[i]]]
      /\ changes' = [i \in ItemId |-> Logged(changes[i], item[i].state, new[i])]
      /\ UNCHANGED <<nextId, present>>
  BY DEF Tick
<1> HIDE DEF new, due
<1>5. Restate(new)
  BY <1>3, <1>4 DEF Restate
<1> QED
  BY <1>2, <1>4, <1>5

\* The boot repair moves a closed consultation to effective, and nothing else.
LEMMA CompleteConcludedMove ==
  ASSUME TableInv, CompleteConcluded
  PROVE  (\E new \in [ItemId -> State] : Restate(new)) /\ UNCHANGED <<nextId, present>>
<1> DEFINE concluded == {i \in present : /\ item[i].state = "comment_closed"
                                         /\ Adopted(Live(i), today)}
           new == [i \in ItemId |-> IF i \in concluded THEN "effective" ELSE item[i].state]
<1>1. \A i \in ItemId : item[i].state \in State
  BY DEF TableInv, TypeOK, Item
<1>2. new \in [ItemId -> State]
  BY <1>1 DEF State, Mainline
<1>3. Advances("comment_closed", "effective")
  BY DEF Advances, Terminal, Rank
<1>4. \A i \in ItemId : new[i] # item[i].state =>
        i \in present /\ Advances(item[i].state, new[i]) /\ new[i] # "superseded"
  BY <1>3
<1>5. /\ item'    = [i \in ItemId |-> [item[i] EXCEPT !.state = new[i]]]
      /\ changes' = [i \in ItemId |-> Logged(changes[i], item[i].state, new[i])]
      /\ UNCHANGED <<nextId, present>>
  BY DEF CompleteConcluded
<1> HIDE DEF new, concluded
<1>6. Restate(new)
  BY <1>4, <1>5 DEF Restate
<1> QED
  BY <1>2, <1>5, <1>6

\* The linker supersedes unresolved proposals that are not withdrawn, by other items.
LEMMA LinkMove ==
  ASSUME TableInv, Link
  PROVE  /\ \E from \in SUBSET present : \E succ \in [from -> present] : Succeed(from, succ)
         /\ UNCHANGED <<nextId, present>>
<1> DEFINE linkable == {i \in present : Successors(i) # {}}
<1>1. PICK succ \in [linkable -> present] :
        (\A i \in linkable : succ[i] \in Successors(i)) /\ Supersede(linkable, succ)
  BY DEF Link
<1>2. \A i \in linkable : /\ item[i].resolved = NoItem /\ item[i].state # "withdrawn"
                          /\ succ[i] # i
  BY <1>1 DEF Successors
<1>3. linkable \in SUBSET present /\ UNCHANGED <<nextId, present>>
  BY DEF Link
<1> HIDE DEF linkable
<1>4. Succeed(linkable, succ)
  BY <1>1, <1>2 DEF Succeed
<1> QED
  BY <1>3, <1>4

\* The version pass supersedes consultations by other items in effect.
LEMMA ResolveConcludedMove ==
  ASSUME TableInv, ResolveConcluded
  PROVE  /\ \E from \in SUBSET present : \E succ \in [from -> present] : Succeed(from, succ)
         /\ UNCHANGED <<nextId, present>>
<1> DEFINE scope     == IF touched = {} THEN Obligation ELSE touched
           concluded == {i \in present : item[i].obligation \in scope /\ Outcomes(i) # {}}
<1>1. PICK succ \in [concluded -> present] :
        (\A i \in concluded : succ[i] \in Outcomes(i)) /\ Supersede(concluded, succ)
  BY DEF ResolveConcluded
<1>2. \A i \in concluded : /\ item[i].resolved = NoItem /\ item[i].state # "withdrawn"
                           /\ succ[i] # i
  BY <1>1 DEF Outcomes
<1>3. concluded \in SUBSET present /\ UNCHANGED <<nextId, present>>
  BY DEF ResolveConcluded
<1> HIDE DEF concluded
<1>4. Succeed(concluded, succ)
  BY <1>1, <1>2 DEF Succeed
<1> QED
  BY <1>3, <1>4

\* Every step of the pipeline is one of these, a first read, a purge, or touches no life.
LEMMA StepMoves ==
  ASSUME TableInv, [Next]_vars
  PROVE  \/ \E ni \in Feed : Create(ni)
         \/ \E gone \in SUBSET present : Purge(gone)
         \/ /\ UNCHANGED <<nextId, present>>
            /\ \/ \E i \in present, new \in State : RereadMove(i, new)
               \/ \E new \in [ItemId -> State] : Restate(new)
               \/ \E from \in SUBSET present : \E succ \in [from -> present] : Succeed(from, succ)
               \/ UNCHANGED <<item, changes>>
<1>1. CASE \E ni \in Feed : Update(ni)
  BY <1>1, UpdateMove
<1>2. CASE Tick \/ CompleteConcluded
  BY <1>2, TickMove, CompleteConcludedMove
<1>3. CASE Link \/ ResolveConcluded
  BY <1>3, LinkMove, ResolveConcludedMove
<1>4. CASE \/ \E source \in Source : BeginRun(source)
           \/ \E i \in ItemId, a \in AssertedDates : AssertDate(i, a[1], a[2], a[3])
           \/ NewDay
           \/ UNCHANGED vars
  BY <1>4 DEF BeginRun, AssertDate, NewDay, vars
<1> QED
  BY <1>1, <1>2, <1>3, <1>4 DEF Next
-------------------------------------------------------------------------------
(* The log replays the state.                                                 *)

\* A change made by superseding rows is in their logs.
LEMMA SupersedeReplays ==
  ASSUME TableInv, LogReplaysState, UNCHANGED present
  PROVE  \A from \in SUBSET present : \A succ \in [from -> present] :
           Supersede(from, succ) => LogReplaysState'
<1> SUFFICES ASSUME NEW from \in SUBSET present, NEW succ \in [from -> present],
                    Supersede(from, succ), NEW i \in present
             PROVE  Replays(changes'[i], item'[i].state)
  BY DEF LogReplaysState
<1>1. i \in ItemId /\ item[i] \in Item /\ changes[i] \in Seq(Change)
  BY DEF TableInv, TypeOK
<1>2. Replays(changes[i], item[i].state) /\ item[i].state \in State
  BY <1>1 DEF LogReplaysState, Item
<1>3. CASE i \notin from
  <2>1. changes'[i] = changes[i] /\ item'[i] = item[i]
    BY <1>1, <1>3 DEF Supersede
  <2> QED
    BY <1>2, <2>1
<1>4. CASE i \in from
  <2> DEFINE step == [from |-> item[i].state, to |-> "superseded"]
  <2>1. /\ changes'[i] = Append(changes[i], step)
        /\ item'[i] = [item[i] EXCEPT !.state = "superseded", !.resolved = succ[i]]
    BY <1>1, <1>4 DEF Supersede
  <2>2. item'[i].state = "superseded"
    BY <1>1, <2>1 DEF Item
  <2>3. Replays(Append(changes[i], step), "superseded")
    BY <1>1, <1>2, AppendReplays DEF State, Side
  <2> QED
    BY <2>1, <2>2, <2>3
<1> QED
  BY <1>3, <1>4

\* So is a change made by moving rows from state to state.
LEMMA RestateReplays ==
  ASSUME TableInv, LogReplaysState, UNCHANGED present
  PROVE  \A new \in [ItemId -> State] :
           /\ item'    = [i \in ItemId |-> [item[i] EXCEPT !.state = new[i]]]
           /\ changes' = [i \in ItemId |-> Logged(changes[i], item[i].state, new[i])]
           => LogReplaysState'
<1> SUFFICES ASSUME NEW new \in [ItemId -> State],
                    item'    = [i \in ItemId |-> [item[i] EXCEPT !.state = new[i]]],
                    changes' = [i \in ItemId |-> Logged(changes[i], item[i].state, new[i])],
                    NEW i \in present
             PROVE  Replays(changes'[i], item'[i].state)
  BY DEF LogReplaysState
<1>1. i \in ItemId /\ item[i] \in Item /\ changes[i] \in Seq(Change) /\ new[i] \in State
  BY DEF TableInv, TypeOK
<1>2. Replays(changes[i], item[i].state) /\ item[i].state \in State
  BY <1>1 DEF LogReplaysState, Item
<1>3. Replays(Logged(changes[i], item[i].state, new[i]), new[i])
  BY <1>1, <1>2, LoggedReplays
<1>4. item'[i].state = new[i]
  <2>1. [item[i] EXCEPT !.state = new[i]].state = new[i]
    BY <1>1 DEF Item
  <2> QED
    BY <1>1, <2>1
<1> QED
  BY <1>1, <1>3, <1>4

\* A new item's log holds its first state.
LEMMA CreateReplays ==
  ASSUME TableInv, LogReplaysState, NEW ni \in Feed, Create(ni)
  PROVE  LogReplaysState'
<1> DEFINE target == ComputeState(ni.source, ni.status, ni.action, ni.dates, today)
           first  == IF target = Unknown THEN "proposed" ELSE target
           row    == [source |-> ni.source, status |-> ni.status, action |-> ni.action,
                      track |-> ni.track, state |-> first, resolved |-> NoItem,
                      obligation |-> ni.obligation, version |-> ni.version,
                      firstSeen |-> today]
           log    == <<[from |-> NoState, to |-> first]>>
<1>1. first \in State
  BY ComputeStateType DEF State, Mainline
<1>2. row.state = first
  OBVIOUS
<1> HIDE DEF first, target
<1>3. Replays(log, first)
  BY <1>1, FirstReplays
<1>4. /\ item' = [item EXCEPT ![nextId] = row] /\ changes' = [changes EXCEPT ![nextId] = log]
      /\ present' = present \cup {nextId}
  BY DEF Create, first, target
<1>5. nextId \in ItemId
  BY BoundsAssumption DEF Create, TableInv, TypeOK, ItemId
<1> HIDE DEF row, log
<1>6. ASSUME NEW i \in present' PROVE Replays(changes'[i], item'[i].state)
  <2>1. CASE i = nextId
    BY <1>2, <1>3, <1>4, <1>5, <2>1 DEF TableInv, TypeOK
  <2>2. CASE i # nextId
    BY <1>4, <2>2 DEF TableInv, TypeOK, LogReplaysState
  <2> QED
    BY <2>1, <2>2
<1> QED
  BY <1>6 DEF LogReplaysState

\* Every step keeps the logs telling the stored states.
LEMMA NextReplays == TableInv /\ LogReplaysState /\ [Next]_vars => LogReplaysState'
<1> SUFFICES ASSUME TableInv, LogReplaysState, [Next]_vars PROVE LogReplaysState'
  OBVIOUS
<1>1. CASE \E ni \in Feed : Create(ni)
  BY <1>1, CreateReplays
<1>2. CASE \E gone \in SUBSET present : Purge(gone)
  <2>1. PICK gone \in SUBSET present : Purge(gone)
    BY <1>2
  <2>2. present' = present \ gone
    BY <2>1 DEF Purge
  <2>3. ASSUME NEW i \in present' PROVE Replays(changes'[i], item'[i].state)
    <3>1. i \in present /\ i \notin gone /\ i \in ItemId /\ item[i] \in Item
      BY <2>2 DEF TableInv, TypeOK
    <3>2. changes'[i] = changes[i] /\ item'[i] = Unlinked(item[i], gone)
      BY <2>1, <3>1 DEF Purge
    <3>3. Unlinked(item[i], gone).state = item[i].state
      BY <3>1 DEF Unlinked, Item
    <3> QED
      BY <3>1, <3>2, <3>3 DEF LogReplaysState
  <2> QED
    BY <2>3 DEF LogReplaysState
<1>3. ASSUME UNCHANGED present, NEW i \in present, NEW new \in State, RereadMove(i, new)
      PROVE  LogReplaysState'
  <2>1. /\ i \in ItemId /\ changes[i] \in Seq(Change) /\ item[i].state \in State
        /\ Replays(changes[i], item[i].state)
    BY DEF TableInv, TypeOK, Item, LogReplaysState
  <2>2. Replays(Logged(changes[i], item[i].state, new), new)
    BY <2>1, LoggedReplays
  <2>3. /\ changes'[i] = Logged(changes[i], item[i].state, new) /\ item'[i].state = new
        /\ \A j \in present \ {i} : changes'[j] = changes[j] /\ item'[j] = item[j]
    <3>1. present \subseteq ItemId /\ DOMAIN item = ItemId /\ DOMAIN changes = ItemId
      BY DEF TableInv, TypeOK
    <3>2. /\ item' = [item EXCEPT ![i] = item'[i]] /\ item'[i].state = new
          /\ changes' = [changes EXCEPT ![i] = Logged(@, item[i].state, new)]
      BY <1>3 DEF RereadMove
    <3> QED
      BY <2>1, <3>1, <3>2
  <2> QED
    BY <1>3, <2>2, <2>3 DEF LogReplaysState
<1>4. ASSUME UNCHANGED present, NEW new \in [ItemId -> State], Restate(new)
      PROVE  LogReplaysState'
  BY <1>4, RestateReplays DEF Restate
<1>5. ASSUME UNCHANGED present, NEW from \in SUBSET present, NEW succ \in [from -> present],
             Succeed(from, succ)
      PROVE  LogReplaysState'
  BY <1>5, SupersedeReplays DEF Succeed
<1>6. CASE UNCHANGED <<present, item, changes>>
  BY <1>6 DEF LogReplaysState
<1> QED
  BY <1>1, <1>2, <1>3, <1>4, <1>5, <1>6, StepMoves

\* Whoever changes an item's state, the item's event log tells its whole history.
THEOREM LogAlwaysReplays == Spec => []LogReplaysState
<1>1. Init => LogReplaysState
  BY DEF Init, LogReplaysState
<1> QED
  BY <1>1, InitTables, NextTables, NextReplays, PTL DEF Spec
-------------------------------------------------------------------------------
(* A resolved item stays superseded by an item that exists.                   *)

\* Every step keeps resolved items superseded by items that exist.
LEMMA NextResolved == TableInv /\ ResolvedIsSuperseded /\ [Next]_vars => ResolvedIsSuperseded'
<1> SUFFICES ASSUME TableInv, ResolvedIsSuperseded, [Next]_vars PROVE ResolvedIsSuperseded'
  OBVIOUS
<1>0. /\ present \subseteq 1..(nextId - 1) /\ present \subseteq ItemId /\ nextId \in Nat \ {0}
      /\ \A i \in ItemId : item[i] \in Item
  <2>1. /\ present \subseteq {i \in ItemId : i < nextId} /\ nextId \in Nat \ {0}
        /\ \A i \in ItemId : item[i] \in Item
    BY DEF TableInv, TypeOK
  <2>2. ItemId \subseteq Nat \ {0}
    BY BoundsAssumption DEF ItemId
  <2>3. \A i \in present : i \in 1..(nextId - 1)
    BY <2>1, <2>2
  <2> QED
    BY <2>1, <2>3
<1>1. ASSUME NEW ni \in Feed, Create(ni) PROVE ResolvedIsSuperseded'
  <2>1. /\ nextId' = nextId + 1 /\ present' = present \cup {nextId} /\ nextId \in ItemId
        /\ nextId \notin present
    BY <1>0, <1>1, BoundsAssumption DEF Create, ItemId
  <2>2. item'[nextId].state # "superseded" /\ item'[nextId].resolved = NoItem
    <3> DEFINE target == ComputeState(ni.source, ni.status, ni.action, ni.dates, today)
               first  == IF target = Unknown THEN "proposed" ELSE target
               row    == [source |-> ni.source, status |-> ni.status, action |-> ni.action,
                          track |-> ni.track, state |-> first, resolved |-> NoItem,
                          obligation |-> ni.obligation, version |-> ni.version,
                          firstSeen |-> today]
    <3>1. first # "superseded"
      BY NeverDerivedSuperseded
    <3> HIDE DEF target, first
    <3>2. row.state = first /\ row.resolved = NoItem
      OBVIOUS
    <3>3. item' = [item EXCEPT ![nextId] = row]
      BY <1>1 DEF Create, first, target
    <3> HIDE DEF row
    <3> QED
      BY <2>1, <3>1, <3>2, <3>3 DEF TableInv, TypeOK
  <2>3. \A i \in present : item'[i] = item[i]
    BY <1>1, <2>1 DEF Create, TableInv, TypeOK
  <2>4. ASSUME present # 1..(nextId - 1) PROVE present' # 1..(nextId' - 1)
    <3>1. PICK k \in 1..(nextId - 1) : k \notin present
      BY <1>0, <2>4
    <3>2. k \in 1..(nextId' - 1) /\ k \notin present'
      BY <1>0, <2>1, <3>1
    <3> QED
      BY <3>2
  <2> QED
    BY <2>1, <2>2, <2>3, <2>4 DEF ResolvedIsSuperseded
<1>2. ASSUME NEW gone \in SUBSET present, Purge(gone) PROVE ResolvedIsSuperseded'
  <2>1. nextId' = nextId /\ present' = present \ gone /\ gone # {}
    BY <1>2 DEF Purge
  <2>2. present' # 1..(nextId' - 1)
    BY <1>0, <2>1
  <2>3. \A i \in present' :
           /\ item'[i].state = item[i].state
           /\ item'[i].resolved = IF item[i].resolved \in gone THEN NoItem ELSE item[i].resolved
    <3> SUFFICES ASSUME NEW i \in present'
                 PROVE  /\ item'[i].state = item[i].state
                        /\ item'[i].resolved = IF item[i].resolved \in gone THEN NoItem
                                                ELSE item[i].resolved
      OBVIOUS
    <3>1. i \in ItemId /\ i \notin gone /\ item[i] \in Item
      BY <1>0, <2>1
    <3>2. item'[i] = Unlinked(item[i], gone)
      BY <1>2, <3>1 DEF Purge
    <3> QED
      BY <3>1, <3>2 DEF Unlinked, Item
  <2> QED
    BY <2>1, <2>2, <2>3 DEF ResolvedIsSuperseded
<1>3. ASSUME UNCHANGED <<nextId, present>>, NEW i \in present, NEW new \in State,
             RereadMove(i, new)
      PROVE  ResolvedIsSuperseded'
  <2>1. \A j \in present \ {i} : item'[j] = item[j]
    BY <1>0, <1>3 DEF RereadMove, TableInv, TypeOK
  <2>2. item'[i].state = new /\ item'[i].resolved = item[i].resolved
    BY <1>3 DEF RereadMove
  <2>3. /\ item[i].resolved # NoItem => new = "superseded"
        /\ new = "superseded" => item[i].state = "superseded"
    BY <1>3 DEF RereadMove, Absorbed, ResolvedIsSuperseded
  <2> QED
    BY <1>3, <2>1, <2>2, <2>3 DEF ResolvedIsSuperseded
<1>4. ASSUME UNCHANGED <<nextId, present>>, NEW new \in [ItemId -> State], Restate(new)
      PROVE  ResolvedIsSuperseded'
  <2>1. ASSUME NEW i \in present
        PROVE  /\ item'[i].resolved = item[i].resolved
               /\ (item'[i].state = "superseded") <=> (item[i].state = "superseded")
    <3>1. i \in ItemId /\ item[i] \in Item
      BY <1>0
    <3>2. item'[i] = [item[i] EXCEPT !.state = new[i]]
      BY <1>4, <3>1 DEF Restate
    <3>3. item'[i].resolved = item[i].resolved /\ item'[i].state = new[i]
      BY <3>1, <3>2 DEF Item
    <3>4. ~ Advances("superseded", new[i])
      BY DEF Advances, Terminal
    <3> QED
      BY <1>4, <3>1, <3>3, <3>4 DEF Restate
  <2> QED
    BY <1>4, <2>1 DEF ResolvedIsSuperseded
<1>5. ASSUME UNCHANGED <<nextId, present>>, NEW from \in SUBSET present,
             NEW succ \in [from -> present], Succeed(from, succ)
      PROVE  ResolvedIsSuperseded'
  <2>1. ASSUME NEW i \in present
        PROVE  IF i \in from THEN /\ item'[i].state = "superseded"
                                  /\ item'[i].resolved = succ[i] /\ succ[i] \in present \ {i}
               ELSE item'[i] = item[i]
    <3>1. i \in ItemId /\ item[i] \in Item
      BY <1>0
    <3>2. CASE i \in from
      <4>1. item'[i] = [item[i] EXCEPT !.state = "superseded", !.resolved = succ[i]]
        BY <1>5, <3>1, <3>2 DEF Succeed, Supersede
      <4>2. item'[i].state = "superseded" /\ item'[i].resolved = succ[i]
        BY <3>1, <4>1 DEF Item
      <4> QED
        BY <1>5, <3>2, <4>2 DEF Succeed
    <3>3. CASE i \notin from
      BY <1>5, <3>1, <3>3 DEF Succeed, Supersede
    <3> QED
      BY <3>2, <3>3
  <2>2. NoItem \notin present
    BY <1>0 DEF NoItem
  <2> QED
    BY <1>5, <2>1, <2>2 DEF ResolvedIsSuperseded
<1>6. CASE UNCHANGED <<nextId, present, item>>
  BY <1>6 DEF ResolvedIsSuperseded
<1> QED
  BY <1>1, <1>2, <1>3, <1>4, <1>5, <1>6, StepMoves

\* A resolved item is superseded by another item that exists; one that is superseded
\* without a successor lost it to a purge.
THEOREM ResolvedStaysSuperseded == Spec => []ResolvedIsSuperseded
<1>1. Init => ResolvedIsSuperseded
  BY DEF Init, ResolvedIsSuperseded
<1> QED
  BY <1>1, InitTables, NextTables, NextResolved, PTL DEF Spec
-------------------------------------------------------------------------------
(* The pipeline implements ItemLife.                                          *)

\* The life of an item, as the refinement reads it off the tables.
LifeOf(i) == IF i \in present THEN item[i].state
             ELSE IF i < nextId THEN "purged" ELSE "unborn"

\* It is enough that every single item moves as ItemLife says.
LEMMA LifeSteps ==
  ASSUME \A i \in ItemId : LifeOf(i)' = LifeOf(i) \/ Life!Moves(LifeOf(i), LifeOf(i)')
  PROVE  Life!Next
BY DEF Life!Next, LifeOf

\* An item that leaves the main line for a successor moves as ItemLife says.
LEMMA SupersededMoves ==
  ASSUME NEW state \in State, state # "withdrawn"
  PROVE  state = "superseded" \/ Life!Moves(state, "superseded")
BY LifeStates DEF State, Side, Terminal, Life!Moves

\* Every step of the pipeline is a step of ItemLife or leaves the lives alone.
LEMMA NextLives ==
  ASSUME TableInv, [Next]_vars
  PROVE  Life!Next
<1> SUFFICES ASSUME NEW i \in ItemId
             PROVE  LifeOf(i)' = LifeOf(i) \/ Life!Moves(LifeOf(i), LifeOf(i)')
  BY LifeSteps
<1>0. /\ item[i] \in Item /\ item[i].state \in State /\ i \in Nat /\ nextId \in Nat
      /\ present \subseteq ItemId /\ \A j \in present : j < nextId
  <2>1. /\ item[i] \in Item /\ nextId \in Nat
        /\ present \subseteq {j \in ItemId : j < nextId}
    BY DEF TableInv, TypeOK
  <2>2. i \in Nat
    BY BoundsAssumption DEF ItemId
  <2>3. item[i].state \in State
    BY <2>1 DEF Item
  <2> QED
    BY <2>1, <2>2, <2>3
<1>1. ASSUME NEW ni \in Feed, Create(ni)
      PROVE  LifeOf(i)' = LifeOf(i) \/ Life!Moves(LifeOf(i), LifeOf(i)')
  <2>1. nextId' = nextId + 1 /\ present' = present \cup {nextId}
    BY <1>1 DEF Create
  <2>2. CASE i = nextId
    <3>1. LifeOf(i) = "unborn" /\ LifeOf(i)' = item'[i].state
      BY <1>0, <2>1, <2>2 DEF LifeOf
    <3>2. item'[i].state \in State
      BY <1>1, CreateTables DEF TableInv, TypeOK, Item
    <3> QED
      BY <3>1, <3>2, LifeStates DEF Life!Moves, State
  <2>3. CASE i # nextId
    <3>1. item'[i] = item[i]
      BY <1>1, <2>3 DEF Create, TableInv, TypeOK
    <3>2. (i < nextId' <=> i < nextId) /\ (i \in present' <=> i \in present)
      BY <1>0, <2>1, <2>3
    <3> QED
      BY <3>1, <3>2 DEF LifeOf
  <2> QED
    BY <2>2, <2>3
<1>2. ASSUME NEW gone \in SUBSET present, Purge(gone)
      PROVE  LifeOf(i)' = LifeOf(i) \/ Life!Moves(LifeOf(i), LifeOf(i)')
  <2>1. nextId' = nextId /\ present' = present \ gone
    BY <1>2 DEF Purge
  <2>2. CASE i \in gone
    <3>1. LifeOf(i) = item[i].state /\ LifeOf(i)' = "purged"
      BY <1>0, <2>1, <2>2 DEF LifeOf
    <3> QED
      BY <1>0, <3>1, LifeStates DEF Life!Moves, State
  <2>3. CASE i \notin gone
    <3>1. item'[i].state = item[i].state
      BY <1>0, <1>2, <2>3 DEF Purge, Unlinked, Item
    <3> QED
      BY <2>1, <2>3, <3>1 DEF LifeOf
  <2> QED
    BY <2>2, <2>3
<1>3. ASSUME UNCHANGED <<nextId, present>>,
             item'[i].state = item[i].state \/ Life!Moves(item[i].state, item'[i].state)
      PROVE  LifeOf(i)' = LifeOf(i) \/ Life!Moves(LifeOf(i), LifeOf(i)')
  BY <1>3 DEF LifeOf
<1>4. ASSUME NEW j \in present, NEW new \in State, RereadMove(j, new)
      PROVE  item'[i].state = item[i].state \/ Life!Moves(item[i].state, item'[i].state)
  <2>1. CASE i = j
    BY <1>0, <1>4, <2>1, AdvancesMoves DEF RereadMove
  <2>2. CASE i # j
    BY <1>4, <2>2 DEF RereadMove, TableInv, TypeOK
  <2> QED
    BY <2>1, <2>2
<1>5. ASSUME NEW new \in [ItemId -> State], Restate(new)
      PROVE  item'[i].state = item[i].state \/ Life!Moves(item[i].state, item'[i].state)
  <2>1. item'[i].state = new[i]
    <3>1. item'[i] = [item[i] EXCEPT !.state = new[i]]
      BY <1>5 DEF Restate
    <3> QED
      BY <1>0, <3>1 DEF Item
  <2> QED
    BY <1>0, <1>5, <2>1, AdvancesMoves DEF Restate
<1>6. ASSUME NEW from \in SUBSET present, NEW succ \in [from -> present], Succeed(from, succ)
      PROVE  item'[i].state = item[i].state \/ Life!Moves(item[i].state, item'[i].state)
  <2>1. CASE i \in from
    <3>1. item'[i] = [item[i] EXCEPT !.state = "superseded", !.resolved = succ[i]]
      BY <1>6, <2>1 DEF Succeed, Supersede
    <3>2. item'[i].state = "superseded"
      BY <1>0, <3>1 DEF Item
    <3> QED
      BY <1>0, <1>6, <2>1, <3>2, SupersededMoves DEF Succeed
  <2>2. CASE i \notin from
    BY <1>6, <2>2 DEF Succeed, Supersede
  <2> QED
    BY <2>1, <2>2
<1> QED
  BY <1>1, <1>2, <1>3, <1>4, <1>5, <1>6, StepMoves

\* The whole pipeline, with its reruns, ticks, links, people and purges, moves each item
\* only as ItemLife allows: nothing returns from withdrawn, superseded or purged.
THEOREM PipelineImplementsItemLife == Spec => ImplementsItemLife
<1>1. Init => Life!Init
  BY DEF Init, Life!Init, ItemId
<1>2. TableInv /\ [Next]_vars => Life!Next
  BY NextLives
<1> QED
  BY <1>1, <1>2, InitTables, NextTables, PTL DEF Spec, ImplementsItemLife, Life!Spec
===============================================================================
