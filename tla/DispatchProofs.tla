----------------------------- MODULE DispatchProofs -----------------------------
(***************************************************************************)
(* Proofs about dispatching, for any watchlists, processes, batch size and *)
(* numbers of events, edits and losses: what the log claims, that nothing  *)
(* is delivered twice without cause, what overlapping dispatches can cost, *)
(* and that a pause is respected.                                          *)
(***************************************************************************)
EXTENDS Dispatch, FiniteSetTheorems, WellFoundedInduction, TLAPS

Statuses == {"active", "paused", "deleted"}
Phases   == {"idle", "scan", "deliver", "log"}
Position == [phase : Phases, left : SUBSET Watchlist, silenced : SUBSET Watchlist,
             batch : SUBSET Pair, logged : SUBSET Pair]

DispatchType ==
  /\ events \in Seq([item : Item, to : ItemState]) /\ Len(events) <= MaxEvents
  /\ status \in [Watchlist -> Statuses]
  /\ log \subseteq Pair /\ sent \in [Pair -> Nat] /\ alone \in BOOLEAN
  /\ lost \in Nat /\ conflicts \in Nat
  /\ process \in [Process -> Position]

\* What a dispatch is about to log, it has delivered.
Delivered ==
  \A p \in Process : process[p].phase = "log" => \A s \in process[p].batch : sent[s] > 0

\* The watchlists a dispatch serves are active, or were silenced under way.
Heeded ==
  \A p \in Process :
    /\ \A w \in process[p].left : status[w] = "active" \/ w \in process[p].silenced
    /\ \A s \in process[p].batch : status[s[1]] = "active" \/ s[1] \in process[p].silenced

\* A process that does not dispatch holds nothing.
RestersHoldNothing == \A p \in Process : ~ Busy(p) => process[p] = Resting

OneAtATime == \A p, q \in Process : Busy(p) /\ Busy(q) => p = q

\* Nothing in the batch at hand has been logged by anybody.
BatchIsNew ==
  \A p \in Process : process[p].phase \in {"deliver", "log"} =>
    process[p].batch \cap (log \cup process[p].logged) = {}

\* Every delivery is in the log or on its way there.
Traced ==
  \A s \in Pair : sent[s] > 0 =>
    \/ s \in log
    \/ \E p \in Process : OnItsWay(p, s)

\* Where no dispatch overlapped another, was killed or lost an answer.
Orderly == alone => OneAtATime /\ BatchIsNew /\ Traced /\ \A s \in Pair : sent[s] <= 1
-------------------------------------------------------------------------------
\* A set of watchlists has a first one.
LEMMA MinOfWatchlists ==
  ASSUME NEW S, S \subseteq Nat, S # {}
  PROVE  Min(S) \in S
<1>1. \E x \in S : \A y \in S : ~ (<<y, x>> \in OpToRel(<, Nat))
  BY NatLessThanWellFounded, WFMin
<1>2. \E x \in S : \A y \in S : x <= y
  <2>1. PICK x \in S : \A y \in S : ~ (<<y, x>> \in OpToRel(<, Nat))
    BY <1>1
  <2>2. \A y \in S : y < x => <<y, x>> \in OpToRel(<, Nat)
    BY DEF OpToRel
  <2>3. \A y \in S : ~ (y < x)
    BY <2>1, <2>2, Zenon
  <2> QED
    BY <2>3
<1> QED
  BY <1>2 DEF Min

\* A batch consists of deliveries to one watchlist of events that exist and that the
\* process does not see in the log.
LEMMA BatchOf ==
  ASSUME DispatchType, NEW p \in Process, NEW w \in Watchlist
  PROVE  /\ Batch(p, w) \subseteq Pair
         /\ \A s \in Batch(p, w) : s[1] = w
         /\ Batch(p, w) \cap (log \cup process[p].logged) = {}
<1>1. DOMAIN events \subseteq EventId
  BY DispatchAssumption DEF DispatchType, EventId
<1>2. Candidates(p, w) \subseteq EventId /\ Candidates(p, w) \cap Seen(p, w) = {}
  BY <1>1 DEF Candidates
<1> QED
  BY <1>2 DEF Batch, Pair, Seen
-------------------------------------------------------------------------------
\* A delivery only adds to the counts.
LEMMA SentType ==
  ASSUME sent \in [Pair -> Nat], NEW batch
  PROVE  Sent(batch) \in [Pair -> Nat]
<1>1. \A s \in Pair : sent[s] \in Nat /\ sent[s] + 1 \in Nat
  OBVIOUS
<1> QED
  BY <1>1 DEF Sent

\* At the start tables and positions are well typed.
LEMMA TypeInit == Init => DispatchType
BY DispatchAssumption DEF Init, DispatchType, Resting, Position, Phases, Statuses, Watchlist

\* Every step keeps the tables and the positions well typed.
LEMMA TypeStep ==
  ASSUME DispatchType, [Next]_vars
  PROVE  DispatchType'
<1> USE DEF DispatchType, watchlistVars
<1>1. ASSUME NEW i \in Item, NEW to \in ItemState, Emit(i, to)
      PROVE  DispatchType'
  BY <1>1, DispatchAssumption DEF Emit
<1>2. ASSUME NEW w \in Watchlist, NEW to \in {"active", "paused"}, PauseOrResume(w, to)
      PROVE  DispatchType'
  BY <1>2 DEF PauseOrResume, Position, Statuses
<1>3. ASSUME NEW w \in Watchlist, Delete(w)
      PROVE  DispatchType'
  BY <1>3 DEF Delete, Position, Statuses
<1>4. ASSUME NEW p \in Process, Begin(p)
      PROVE  DispatchType'
  BY <1>4 DEF Begin, Position, Resting, Phases
<1>5. ASSUME NEW p \in Process, Scan(p)
      PROVE  DispatchType'
  <2>1. process[p].left \subseteq Watchlist /\ Watchlist \subseteq Nat
    BY <1>5, DispatchAssumption DEF Position, Watchlist
  <2>2. Min(process[p].left) \in Watchlist
    BY <1>5, <2>1, MinOfWatchlists DEF Scan
  <2>3. Batch(p, Min(process[p].left)) \subseteq Pair
    BY <2>2, BatchOf
  <2>4. process[p] \in Position /\ UNCHANGED <<events, status, log, sent, lost, conflicts, alone>>
    BY <1>5 DEF Scan
  <2>5. process' \in [Process -> Position]
    <3>1. PICK phase \in {"scan", "deliver"} :
            process' = [process EXCEPT ![p] = [process[p] EXCEPT
              !.left = @ \ {Min(process[p].left)}, !.batch = Batch(p, Min(process[p].left)),
              !.phase = phase]]
      BY <1>5 DEF Scan
    <3> QED
      BY <2>1, <2>3, <2>4, <3>1 DEF Position, Phases
  <2> QED
    BY <2>4, <2>5
<1>6. ASSUME NEW p \in Process, Deliver(p)
      PROVE  DispatchType'
  <2>1. process' \in [Process -> Position]
    BY <1>6 DEF Deliver, Position, Phases
  <2> QED
    BY <1>6, <2>1, SentType DEF Deliver
<1>7. ASSUME NEW p \in Process, DeliverFails(p)
      PROVE  DispatchType'
  BY <1>7 DEF DeliverFails, Position, Phases
<1>8. ASSUME NEW p \in Process, AnswerLost(p)
      PROVE  DispatchType'
  <2>1. process' \in [Process -> Position]
    BY <1>8 DEF AnswerLost, Position, Phases
  <2>2. lost' \in Nat /\ conflicts' \in Nat
    BY <1>8 DEF AnswerLost
  <2> QED
    BY <1>8, <2>1, <2>2, SentType DEF AnswerLost
<1>9. ASSUME NEW p \in Process, Log(p)
      PROVE  DispatchType'
  <2>1. process'[p] \in Position
    BY <1>9 DEF Log, Position, Phases
  <2>2. process' \in [Process -> Position]
    BY <1>9, <2>1 DEF Log
  <2> QED
    BY <1>9, <2>2 DEF Log
<1>10. ASSUME NEW p \in Process, LogConflicts(p)
       PROVE  DispatchType'
  BY <1>10 DEF LogConflicts, Resting, Position, Phases
<1>11. ASSUME NEW p \in Process, Commit(p)
       PROVE  DispatchType'
  BY <1>11 DEF Commit, Resting, Position, Phases
<1>12. ASSUME NEW p \in Process, Killed(p)
       PROVE  DispatchType'
  <2>1. process' \in [Process -> Position]
    BY <1>12 DEF Killed, Resting, Position, Phases
  <2>2. lost' \in Nat /\ conflicts' \in Nat
    BY <1>12 DEF Killed
  <2> QED
    BY <1>12, <2>1, <2>2 DEF Killed
<1>13. CASE UNCHANGED vars
  BY <1>13 DEF vars
<1> QED
  BY <1>1, <1>2, <1>3, <1>4, <1>5, <1>6, <1>7, <1>8, <1>9, <1>10, <1>11, <1>12, <1>13 DEF Next
-------------------------------------------------------------------------------
\* What is logged, or about to be, has been sent.
LEMMA LoggedStep ==
  ASSUME DispatchType, LoggedWasSent, Delivered, [Next]_vars
  PROVE  LoggedWasSent' /\ Delivered'
<1> USE DEF DispatchType, LoggedWasSent, Delivered
<1>1. ASSUME NEW i \in Item, NEW to \in ItemState, Emit(i, to)
      PROVE  LoggedWasSent' /\ Delivered'
  BY <1>1 DEF Emit
<1>2. ASSUME NEW w \in Watchlist, NEW to \in {"active", "paused"}, PauseOrResume(w, to)
      PROVE  LoggedWasSent' /\ Delivered'
  BY <1>2 DEF PauseOrResume
<1>3. ASSUME NEW w \in Watchlist, Delete(w)
      PROVE  LoggedWasSent' /\ Delivered'
  BY <1>3 DEF Delete
<1>4. ASSUME NEW p \in Process, Begin(p)
      PROVE  LoggedWasSent' /\ Delivered'
  BY <1>4 DEF Begin, Resting
<1>5. ASSUME NEW p \in Process, Scan(p)
      PROVE  LoggedWasSent' /\ Delivered'
  BY <1>5 DEF Scan
<1>6. ASSUME NEW p \in Process, Deliver(p)
      PROVE  LoggedWasSent' /\ Delivered'
  BY <1>6 DEF Deliver, Position, Sent
<1>7. ASSUME NEW p \in Process, DeliverFails(p)
      PROVE  LoggedWasSent' /\ Delivered'
  BY <1>7 DEF DeliverFails
<1>8. ASSUME NEW p \in Process, AnswerLost(p)
      PROVE  LoggedWasSent' /\ Delivered'
  BY <1>8 DEF AnswerLost, Position, Sent
<1>9. ASSUME NEW p \in Process, Log(p)
      PROVE  LoggedWasSent' /\ Delivered'
  BY <1>9 DEF Log
<1>10. ASSUME NEW p \in Process, LogConflicts(p)
       PROVE  LoggedWasSent' /\ Delivered'
  BY <1>10 DEF LogConflicts, Resting
<1>11. ASSUME NEW p \in Process, Commit(p)
       PROVE  LoggedWasSent' /\ Delivered'
  BY <1>11 DEF Commit, Resting
<1>12. ASSUME NEW p \in Process, Killed(p)
       PROVE  LoggedWasSent' /\ Delivered'
  BY <1>12 DEF Killed, Resting
<1>13. CASE UNCHANGED vars
  BY <1>13 DEF vars
<1> QED
  BY <1>1, <1>2, <1>3, <1>4, <1>5, <1>6, <1>7, <1>8, <1>9, <1>10, <1>11, <1>12, <1>13 DEF Next
-------------------------------------------------------------------------------
\* The rows in flight of one process are neither committed nor in flight elsewhere.
Apart ==
  \A p \in Process : /\ process[p].logged \cap log = {}
                     /\ \A q \in Process \ {p} : process[p].logged \cap process[q].logged = {}

\* The flush waits for rows another process holds, the commit hands over one's own.
LEMMA ApartStep ==
  ASSUME DispatchType, Apart, [Next]_vars
  PROVE  Apart'
<1> USE DEF DispatchType, Apart
<1>1. ASSUME NEW i \in Item, NEW to \in ItemState, Emit(i, to)
      PROVE  Apart'
  BY <1>1 DEF Emit
<1>2. ASSUME NEW w \in Watchlist, NEW to \in {"active", "paused"}, PauseOrResume(w, to)
      PROVE  Apart'
  BY <1>2 DEF PauseOrResume
<1>3. ASSUME NEW w \in Watchlist, Delete(w)
      PROVE  Apart'
  BY <1>3 DEF Delete
<1>4. ASSUME NEW p \in Process, Begin(p)
      PROVE  Apart'
  BY <1>4 DEF Begin, Resting
<1>5. ASSUME NEW p \in Process, Scan(p)
      PROVE  Apart'
  BY <1>5 DEF Scan
<1>6. ASSUME NEW p \in Process, Deliver(p)
      PROVE  Apart'
  BY <1>6 DEF Deliver
<1>7. ASSUME NEW p \in Process, DeliverFails(p)
      PROVE  Apart'
  BY <1>7 DEF DeliverFails
<1>8. ASSUME NEW p \in Process, AnswerLost(p)
      PROVE  Apart'
  BY <1>8 DEF AnswerLost
<1>9. ASSUME NEW p \in Process, Log(p)
      PROVE  Apart'
  BY <1>9 DEF Log, Uncommitted
<1>10. ASSUME NEW p \in Process, LogConflicts(p)
       PROVE  Apart'
  BY <1>10 DEF LogConflicts, Resting
<1>11. ASSUME NEW p \in Process, Commit(p)
       PROVE  Apart'
  BY <1>11 DEF Commit, Resting
<1>12. ASSUME NEW p \in Process, Killed(p)
       PROVE  Apart'
  BY <1>12 DEF Killed, Resting
<1>13. CASE UNCHANGED vars
  BY <1>13 DEF vars
<1> QED
  BY <1>1, <1>2, <1>3, <1>4, <1>5, <1>6, <1>7, <1>8, <1>9, <1>10, <1>11, <1>12, <1>13 DEF Next

\* Commit, conflict and kill leave a process with nothing in hand.
LEMMA RestStep ==
  ASSUME DispatchType, RestersHoldNothing, [Next]_vars
  PROVE  RestersHoldNothing'
<1> USE DEF DispatchType, RestersHoldNothing, Busy
<1>1. ASSUME NEW i \in Item, NEW to \in ItemState, Emit(i, to)
      PROVE  RestersHoldNothing'
  BY <1>1 DEF Emit
<1>2. ASSUME NEW w \in Watchlist, NEW to \in {"active", "paused"}, PauseOrResume(w, to)
      PROVE  RestersHoldNothing'
  BY <1>2 DEF PauseOrResume
<1>3. ASSUME NEW w \in Watchlist, Delete(w)
      PROVE  RestersHoldNothing'
  BY <1>3 DEF Delete
<1>4. ASSUME NEW p \in Process, Begin(p)
      PROVE  RestersHoldNothing'
  BY <1>4 DEF Begin
<1>5. ASSUME NEW p \in Process, Scan(p)
      PROVE  RestersHoldNothing'
  BY <1>5 DEF Scan
<1>6. ASSUME NEW p \in Process, Deliver(p)
      PROVE  RestersHoldNothing'
  BY <1>6 DEF Deliver
<1>7. ASSUME NEW p \in Process, DeliverFails(p)
      PROVE  RestersHoldNothing'
  BY <1>7 DEF DeliverFails
<1>8. ASSUME NEW p \in Process, AnswerLost(p)
      PROVE  RestersHoldNothing'
  BY <1>8 DEF AnswerLost
<1>9. ASSUME NEW p \in Process, Log(p)
      PROVE  RestersHoldNothing'
  BY <1>9 DEF Log
<1>10. ASSUME NEW p \in Process, LogConflicts(p)
       PROVE  RestersHoldNothing'
  BY <1>10 DEF LogConflicts
<1>11. ASSUME NEW p \in Process, Commit(p)
       PROVE  RestersHoldNothing'
  BY <1>11 DEF Commit
<1>12. ASSUME NEW p \in Process, Killed(p)
       PROVE  RestersHoldNothing'
  BY <1>12 DEF Killed
<1>13. CASE UNCHANGED vars
  BY <1>13 DEF vars
<1> QED
  BY <1>1, <1>2, <1>3, <1>4, <1>5, <1>6, <1>7, <1>8, <1>9, <1>10, <1>11, <1>12, <1>13 DEF Next

\* Whoever is silenced while a dispatch is under way is noted by it.
LEMMA HeededStep ==
  ASSUME DispatchType, RestersHoldNothing, Heeded, [Next]_vars
  PROVE  Heeded'
<1> USE DEF DispatchType, Heeded, watchlistVars
<1>1. ASSUME NEW i \in Item, NEW to \in ItemState, Emit(i, to)
      PROVE  Heeded'
  BY <1>1 DEF Emit
<1>2. ASSUME NEW w \in Watchlist, NEW to \in {"active", "paused"}, PauseOrResume(w, to)
      PROVE  Heeded'
  BY <1>2 DEF PauseOrResume, Resting, RestersHoldNothing
<1>3. ASSUME NEW w \in Watchlist, Delete(w)
      PROVE  Heeded'
  BY <1>3 DEF Delete, Resting, RestersHoldNothing
<1>4. ASSUME NEW p \in Process, Begin(p)
      PROVE  Heeded'
  BY <1>4 DEF Begin, Resting
<1>5. ASSUME NEW p \in Process, Scan(p)
      PROVE  Heeded'
  <2> DEFINE first == Min(process[p].left)
  <2>1. process[p].left \subseteq Watchlist /\ Watchlist \subseteq Nat
    BY <1>5, DispatchAssumption DEF Position, Watchlist
  <2>2. first \in process[p].left /\ first \in Watchlist
    BY <1>5, <2>1, MinOfWatchlists DEF Scan
  <2>3. \A s \in Batch(p, first) : s[1] = first
    BY <2>2, BatchOf
  <2> HIDE DEF first
  <2>4. /\ process'[p].left \subseteq process[p].left /\ process'[p].batch = Batch(p, first)
        /\ process'[p].silenced = process[p].silenced
        /\ \A q \in Process \ {p} : process'[q] = process[q]
        /\ status' = status
    BY <1>5 DEF Scan, first
  <2> QED
    BY <2>2, <2>3, <2>4
<1>6. ASSUME NEW p \in Process, Deliver(p)
      PROVE  Heeded'
  BY <1>6 DEF Deliver
<1>7. ASSUME NEW p \in Process, DeliverFails(p)
      PROVE  Heeded'
  BY <1>7 DEF DeliverFails
<1>8. ASSUME NEW p \in Process, AnswerLost(p)
      PROVE  Heeded'
  BY <1>8 DEF AnswerLost
<1>9. ASSUME NEW p \in Process, Log(p)
      PROVE  Heeded'
  BY <1>9 DEF Log
<1>10. ASSUME NEW p \in Process, LogConflicts(p)
       PROVE  Heeded'
  BY <1>10 DEF LogConflicts, Resting
<1>11. ASSUME NEW p \in Process, Commit(p)
       PROVE  Heeded'
  BY <1>11 DEF Commit, Resting
<1>12. ASSUME NEW p \in Process, Killed(p)
       PROVE  Heeded'
  BY <1>12 DEF Killed, Resting
<1>13. CASE UNCHANGED vars
  BY <1>13 DEF vars
<1> QED
  BY <1>1, <1>2, <1>3, <1>4, <1>5, <1>6, <1>7, <1>8, <1>9, <1>10, <1>11, <1>12, <1>13 DEF Next
-------------------------------------------------------------------------------
\* A process does not hold the rows of the batch it is about to deliver or log.
BatchUnheld ==
  \A p \in Process :
    process[p].phase \in {"deliver", "log"} => process[p].batch \cap process[p].logged = {}

\* There are finitely many who hold a row.
LEMMA HoldersFinite ==
  ASSUME NEW s
  PROVE  /\ IsFiniteSet({p \in Process : OnItsWay(p, s)})
         /\ Cardinality({p \in Process : OnItsWay(p, s)}) \in Nat
<1>1. IsFiniteSet(Process) /\ {p \in Process : OnItsWay(p, s)} \subseteq Process
  BY DispatchAssumption
<1> QED
  BY <1>1, FS_Subset, FS_CardinalityType

\* A batch is filtered against the rows in hand, and rows are added batch by batch.
LEMMA UnheldStep ==
  ASSUME DispatchType, BatchUnheld, [Next]_vars
  PROVE  BatchUnheld'
<1> USE DEF DispatchType, BatchUnheld
<1>1. ASSUME NEW p \in Process, Scan(p)
      PROVE  BatchUnheld'
  <2>1. process[p].left \subseteq Watchlist /\ Watchlist \subseteq Nat
    BY <1>1, DispatchAssumption DEF Position, Watchlist
  <2>2. Min(process[p].left) \in Watchlist
    BY <1>1, <2>1, MinOfWatchlists DEF Scan
  <2>3. Batch(p, Min(process[p].left)) \cap process[p].logged = {}
    BY <2>2, BatchOf
  <2>4. process'[p].batch \cap process'[p].logged = {}
    BY <1>1, <2>3 DEF Scan
  <2>5. \A q \in Process \ {p} : process'[q] = process[q]
    BY <1>1 DEF Scan
  <2> QED
    BY <2>4, <2>5
<1>2. ASSUME NEW w \in Watchlist, NEW to \in {"active", "paused"}, PauseOrResume(w, to)
      PROVE  BatchUnheld'
  BY <1>2 DEF PauseOrResume
<1>3. ASSUME NEW w \in Watchlist, Delete(w)
      PROVE  BatchUnheld'
  BY <1>3 DEF Delete
<1>4. ASSUME NEW p \in Process, Deliver(p)
      PROVE  BatchUnheld'
  BY <1>4 DEF Deliver
<1>5. ASSUME NEW p \in Process,
             Begin(p) \/ DeliverFails(p) \/ AnswerLost(p) \/ Log(p) \/ LogConflicts(p)
               \/ Commit(p) \/ Killed(p)
      PROVE  BatchUnheld'
  <2>1. process'[p].phase \notin {"deliver", "log"}
    <3>1. CASE Begin(p)
      BY <3>1 DEF Begin, Resting
    <3>2. CASE DeliverFails(p)
      BY <3>2 DEF DeliverFails, Position
    <3>3. CASE AnswerLost(p)
      BY <3>3 DEF AnswerLost, Position
    <3>4. CASE Log(p)
      BY <3>4 DEF Log, Position
    <3>5. CASE LogConflicts(p) \/ Commit(p) \/ Killed(p)
      BY <3>5 DEF LogConflicts, Commit, Killed, Resting
    <3> QED
      BY <1>5, <3>1, <3>2, <3>3, <3>4, <3>5
  <2>2. \A q \in Process \ {p} : process'[q] = process[q]
    BY <1>5 DEF Begin, DeliverFails, AnswerLost, Log, LogConflicts, Commit, Killed
  <2> QED
    BY <2>1, <2>2
<1>6. CASE UNCHANGED process
  BY <1>6
<1> QED
  BY <1>1, <1>2, <1>3, <1>4, <1>5, <1>6 DEF Next, Emit, vars

\* A process that takes a delivery in hand makes one more, one that lets go one fewer.
LEMMA HolderJoins ==
  ASSUME NEW s, NEW p \in Process, ~ OnItsWay(p, s), OnItsWay(p, s)',
         \A q \in Process \ {p} : OnItsWay(q, s)' <=> OnItsWay(q, s)
  PROVE  Cardinality({q \in Process : OnItsWay(q, s)})' =
           Cardinality({q \in Process : OnItsWay(q, s)}) + 1
<1>1. {q \in Process : OnItsWay(q, s)}' = {q \in Process : OnItsWay(q, s)} \cup {p}
  OBVIOUS
<1>2. p \notin {q \in Process : OnItsWay(q, s)}
  OBVIOUS
<1> QED
  BY <1>1, <1>2, HoldersFinite, FS_AddElement

LEMMA HolderLeaves ==
  ASSUME NEW s, NEW p \in Process, OnItsWay(p, s), ~ OnItsWay(p, s)',
         \A q \in Process \ {p} : OnItsWay(q, s)' <=> OnItsWay(q, s)
  PROVE  Cardinality({q \in Process : OnItsWay(q, s)})' =
           Cardinality({q \in Process : OnItsWay(q, s)}) - 1
<1>1. {q \in Process : OnItsWay(q, s)}' = {q \in Process : OnItsWay(q, s)} \ {p}
  OBVIOUS
<1>2. p \in {q \in Process : OnItsWay(q, s)}
  OBVIOUS
<1> QED
  BY <1>1, <1>2, HoldersFinite, FS_RemoveElement

LEMMA HoldersStay ==
  ASSUME NEW s, \A q \in Process : OnItsWay(q, s)' <=> OnItsWay(q, s)
  PROVE  Cardinality({q \in Process : OnItsWay(q, s)})' =
           Cardinality({q \in Process : OnItsWay(q, s)})
<1>1. {q \in Process : OnItsWay(q, s)}' = {q \in Process : OnItsWay(q, s)}
  OBVIOUS
<1> QED
  BY <1>1

\* Who delivers holds the delivery until it is committed, or a mishap is counted.
LEMMA CausesStep ==
  ASSUME DispatchType, Apart, BatchUnheld, RestersHoldNothing, RepeatsHaveCauses, [Next]_vars
  PROVE  RepeatsHaveCauses'
<1> DEFINE Holders(s)  == Cardinality({p \in Process : OnItsWay(p, s)})
           Recorded(s) == IF s \in log THEN 1 ELSE 0
<1> SUFFICES ASSUME NEW s \in Pair
             PROVE  sent'[s] <= Holders(s)' + Recorded(s)' + lost' + conflicts'
  BY DEF RepeatsHaveCauses
<1>0. /\ sent[s] <= Holders(s) + Recorded(s) + lost + conflicts
      /\ sent[s] \in Nat /\ Holders(s) \in Nat /\ Recorded(s) \in Nat
      /\ lost \in Nat /\ conflicts \in Nat
  BY HoldersFinite DEF RepeatsHaveCauses, DispatchType
<1>1. CASE /\ UNCHANGED <<log, sent, lost, conflicts>>
           /\ \A q \in Process : OnItsWay(q, s)' <=> OnItsWay(q, s)
  BY <1>0, <1>1, HoldersStay
<1>2. ASSUME NEW p \in Process, Deliver(p)
      PROVE  sent'[s] <= Holders(s)' + Recorded(s)' + lost' + conflicts'
  <2>1. UNCHANGED <<log, lost, conflicts>> /\ Recorded(s)' = Recorded(s)
    BY <1>2 DEF Deliver
  <2>2. \A q \in Process \ {p} : OnItsWay(q, s)' <=> OnItsWay(q, s)
    BY <1>2 DEF Deliver, DispatchType, OnItsWay
  <2>3. OnItsWay(p, s)' <=> (OnItsWay(p, s) \/ s \in process[p].batch)
    BY <1>2 DEF Deliver, DispatchType, Position, OnItsWay
  <2>4. s \in process[p].batch => ~ OnItsWay(p, s)
    BY <1>2 DEF Deliver, BatchUnheld, OnItsWay
  <2>5. sent'[s] = IF s \in process[p].batch THEN sent[s] + 1 ELSE sent[s]
    BY <1>2 DEF Deliver, Sent
  <2>6. CASE s \in process[p].batch
    <3>1. Holders(s)' = Holders(s) + 1
      BY <2>2, <2>3, <2>4, <2>6, HolderJoins
    <3> HIDE DEF Holders, Recorded
    <3> QED
      BY <1>0, <2>1, <2>5, <2>6, <3>1
  <2>7. CASE s \notin process[p].batch
    <3>1. Holders(s)' = Holders(s)
      BY <2>2, <2>3, <2>7, HoldersStay
    <3> HIDE DEF Holders, Recorded
    <3> QED
      BY <1>0, <2>1, <2>5, <2>7, <3>1
  <2> QED
    BY <2>6, <2>7
<1>3. ASSUME NEW p \in Process, AnswerLost(p)
      PROVE  sent'[s] <= Holders(s)' + Recorded(s)' + lost' + conflicts'
  <2>1. conflicts' = conflicts /\ lost' = lost + 1 /\ Recorded(s)' = Recorded(s)
    BY <1>3 DEF AnswerLost
  <2>2. sent'[s] = sent[s] \/ sent'[s] = sent[s] + 1
    BY <1>3 DEF AnswerLost, Sent
  <2>3. \A q \in Process : OnItsWay(q, s)' <=> OnItsWay(q, s)
    BY <1>3 DEF AnswerLost, DispatchType, Position, OnItsWay
  <2>4. Holders(s)' = Holders(s)
    BY <2>3, HoldersStay
  <2> HIDE DEF Holders, Recorded
  <2> QED
    BY <1>0, <2>1, <2>2, <2>4
<1>4. ASSUME NEW p \in Process, LogConflicts(p) \/ Killed(p)
      PROVE  sent'[s] <= Holders(s)' + Recorded(s)' + lost' + conflicts'
  <2>1. /\ sent' = sent /\ Recorded(s)' = Recorded(s)
        /\ \/ lost' = lost + 1 /\ conflicts' = conflicts
           \/ lost' = lost /\ conflicts' = conflicts + 1
    BY <1>4 DEF LogConflicts, Killed
  <2>2. \A q \in Process \ {p} : OnItsWay(q, s)' <=> OnItsWay(q, s)
    BY <1>4 DEF LogConflicts, Killed, DispatchType, OnItsWay
  <2>3. ~ OnItsWay(p, s)'
    BY <1>4 DEF LogConflicts, Killed, DispatchType, Resting, OnItsWay
  <2>4. Holders(s)' = Holders(s) \/ Holders(s)' = Holders(s) - 1
    BY <2>2, <2>3, HoldersStay, HolderLeaves
  <2> HIDE DEF Holders, Recorded
  <2> QED
    BY <1>0, <2>1, <2>4
<1>5. ASSUME NEW p \in Process, Commit(p)
      PROVE  sent'[s] <= Holders(s)' + Recorded(s)' + lost' + conflicts'
  <2>1. sent' = sent /\ lost' = lost /\ conflicts' = conflicts
    BY <1>5 DEF Commit
  <2>2. \A q \in Process \ {p} : OnItsWay(q, s)' <=> OnItsWay(q, s)
    BY <1>5 DEF Commit, DispatchType, OnItsWay
  <2>3. ~ OnItsWay(p, s)'
    BY <1>5 DEF Commit, DispatchType, Resting, OnItsWay
  <2>4. OnItsWay(p, s) <=> s \in process[p].logged
    BY <1>5 DEF Commit, OnItsWay
  <2>5. CASE s \in process[p].logged
    <3>1. Recorded(s) = 0 /\ Recorded(s)' = 1
      BY <1>5, <2>5 DEF Commit, Apart
    <3>2. Holders(s)' = Holders(s) - 1
      BY <2>2, <2>3, <2>4, <2>5, HolderLeaves
    <3> HIDE DEF Holders, Recorded
    <3> QED
      BY <1>0, <2>1, <3>1, <3>2
  <2>6. CASE s \notin process[p].logged
    <3>1. Recorded(s)' = Recorded(s)
      BY <1>5, <2>6 DEF Commit
    <3>2. Holders(s)' = Holders(s)
      BY <2>2, <2>3, <2>4, <2>6, HoldersStay
    <3> HIDE DEF Holders, Recorded
    <3> QED
      BY <1>0, <2>1, <3>1, <3>2
  <2> QED
    BY <2>5, <2>6
<1>6. ASSUME NEW p \in Process, Begin(p) \/ Scan(p) \/ DeliverFails(p) \/ Log(p)
      PROVE  /\ UNCHANGED <<log, sent, lost, conflicts>>
             /\ \A q \in Process : OnItsWay(q, s)' <=> OnItsWay(q, s)
  <2>1. UNCHANGED <<log, sent, lost, conflicts>> /\ \A q \in Process \ {p} : process'[q] = process[q]
    BY <1>6 DEF Begin, Scan, DeliverFails, Log, DispatchType
  <2>2. OnItsWay(p, s)' <=> OnItsWay(p, s)
    <3>1. CASE Begin(p)
      BY <3>1 DEF Begin, DispatchType, RestersHoldNothing, Resting, OnItsWay
    <3>2. CASE Scan(p)
      <4>1. /\ process'[p].logged = process[p].logged
            /\ process[p].phase # "log" /\ process'[p].phase # "log"
        BY <3>2 DEF Scan, DispatchType, Position
      <4> QED
        BY <4>1 DEF OnItsWay
    <3>3. CASE DeliverFails(p)
      BY <3>3 DEF DeliverFails, DispatchType, Position, OnItsWay
    <3>4. CASE Log(p)
      BY <3>4 DEF Log, DispatchType, Position, OnItsWay
    <3> QED
      BY <1>6, <3>1, <3>2, <3>3, <3>4
  <2> QED
    BY <2>1, <2>2 DEF OnItsWay
<1>7. ASSUME NEW w \in Watchlist,
             Delete(w) \/ \E to \in {"active", "paused"} : PauseOrResume(w, to)
      PROVE  /\ UNCHANGED <<log, sent, lost, conflicts>>
             /\ \A q \in Process : OnItsWay(q, s)' <=> OnItsWay(q, s)
  <2>1. /\ UNCHANGED <<log, sent, lost, conflicts>>
        /\ \A q \in Process : /\ process'[q].logged = process[q].logged
                              /\ process'[q].phase = process[q].phase
                              /\ process'[q].batch = process[q].batch
    BY <1>7 DEF Delete, PauseOrResume, DispatchType, Position
  <2> QED
    BY <2>1 DEF OnItsWay
<1>8. CASE UNCHANGED <<log, sent, lost, conflicts, process>>
  BY <1>1, <1>8 DEF OnItsWay
<1> HIDE DEF Holders, Recorded
<1> QED
  BY <1>1, <1>2, <1>3, <1>4, <1>5, <1>6, <1>7, <1>8 DEF Next, Emit, vars
-------------------------------------------------------------------------------
\* As long as dispatches do not meet, what was sent once is not sent again.
LEMMA OrderlyStep ==
  ASSUME DispatchType, RestersHoldNothing, Orderly, [Next]_vars
  PROVE  Orderly'
<1> USE DEF DispatchType, Orderly
<1>1. ASSUME NEW i \in Item, NEW to \in ItemState, Emit(i, to)
      PROVE  Orderly'
  BY <1>1 DEF Emit, OneAtATime, BatchIsNew, Traced, OnItsWay, Busy
<1>2. ASSUME NEW w \in Watchlist, NEW to \in {"active", "paused"}, PauseOrResume(w, to)
      PROVE  Orderly'
  BY <1>2 DEF PauseOrResume, OneAtATime, BatchIsNew, Traced, OnItsWay, Busy
<1>3. ASSUME NEW w \in Watchlist, Delete(w)
      PROVE  Orderly'
  BY <1>3 DEF Delete, OneAtATime, BatchIsNew, Traced, OnItsWay, Busy
<1>4. ASSUME NEW p \in Process, Begin(p)
      PROVE  Orderly'
  <2> SUFFICES ASSUME alone' PROVE Orderly'
    OBVIOUS
  <2>1. alone /\ \A q \in Process : ~ Busy(q) /\ process[q] = Resting
    BY <1>4 DEF Begin, RestersHoldNothing
  <2>2. OneAtATime'
    BY <1>4, <2>1 DEF Begin, OneAtATime, Busy
  <2>3. BatchIsNew'
    BY <1>4, <2>1 DEF Begin, BatchIsNew
  <2>4. Traced'
    BY <1>4, <2>1 DEF Begin, Resting, Traced, OnItsWay
  <2>5. \A s \in Pair : sent'[s] <= 1
    BY <1>4, <2>1 DEF Begin
  <2> QED
    BY <2>2, <2>3, <2>4, <2>5
<1>5. ASSUME NEW p \in Process, Scan(p)
      PROVE  Orderly'
  <2> SUFFICES ASSUME alone PROVE Orderly'
    BY <1>5 DEF Scan
  <2>1. \A q \in Process \ {p} : process[q] = Resting
    BY <1>5 DEF Scan, Busy, OneAtATime, RestersHoldNothing
  <2>2. OneAtATime'
    BY <1>5, <2>1 DEF Scan, OneAtATime, Busy
  <2>3. BatchIsNew'
    <3> DEFINE first == Min(process[p].left)
    <3>1. process[p].left \subseteq Watchlist /\ Watchlist \subseteq Nat
      BY <1>5, DispatchAssumption DEF Position, Watchlist
    <3>2. first \in Watchlist
      BY <1>5, <3>1, MinOfWatchlists DEF Scan
    <3>3. Batch(p, first) \cap (log \cup process[p].logged) = {}
      BY <3>2, BatchOf
    <3> HIDE DEF first
    <3>4. /\ process'[p].batch = Batch(p, first) /\ process'[p].logged = process[p].logged
          /\ \A q \in Process \ {p} : process'[q] = process[q]
          /\ log' = log
      BY <1>5 DEF Scan, first
    <3> QED
      BY <3>3, <3>4 DEF BatchIsNew
  <2>4. Traced'
    <3>1. /\ \A q \in Process : process'[q].logged = process[q].logged
          /\ \A q \in Process : process[q].phase = "log" => process'[q] = process[q]
          /\ UNCHANGED <<log, sent>>
      BY <1>5 DEF Scan, Position
    <3>2. Traced
      OBVIOUS
    <3>3. ASSUME NEW q \in Process, NEW s \in Pair, OnItsWay(q, s)
          PROVE  OnItsWay(q, s)'
      BY <3>1, <3>3 DEF OnItsWay
    <3> QED
      BY <3>1, <3>2, <3>3 DEF Traced
  <2>5. \A s \in Pair : sent'[s] <= 1
    BY <1>5, <2>1 DEF Scan
  <2> QED
    BY <2>2, <2>3, <2>4, <2>5
<1>6. ASSUME NEW p \in Process, Deliver(p)
      PROVE  Orderly'
  <2> SUFFICES ASSUME alone PROVE Orderly'
    BY <1>6 DEF Deliver
  <2>1. \A q \in Process \ {p} : process[q] = Resting
    BY <1>6 DEF Deliver, Busy, OneAtATime, RestersHoldNothing
  <2>2. OneAtATime'
    BY <1>6, <2>1 DEF Deliver, OneAtATime, Busy
  <2>3. BatchIsNew'
    BY <1>6, <2>1 DEF Deliver, BatchIsNew
  <2>4. Traced'
    <3>1. /\ process'[p].phase = "log" /\ process'[p].batch = process[p].batch
          /\ process'[p].logged = process[p].logged /\ process[p].phase = "deliver"
          /\ \A q \in Process \ {p} : process'[q] = process[q]
          /\ sent' = Sent(process[p].batch) /\ log' = log
      BY <1>6 DEF Deliver
    <3>2. Traced
      OBVIOUS
    <3>3. ASSUME NEW q \in Process, NEW s \in Pair, OnItsWay(q, s)
          PROVE  OnItsWay(q, s)'
      BY <3>1, <3>3 DEF OnItsWay
    <3>4. \A s \in process[p].batch : OnItsWay(p, s)'
      BY <3>1 DEF OnItsWay
    <3>5. \A s \in Pair \ process[p].batch : sent'[s] = sent[s]
      BY <3>1 DEF Sent
    <3>6. ASSUME NEW s \in Pair, sent'[s] > 0
          PROVE  s \in log' \/ \E q \in Process : OnItsWay(q, s)'
      <4>1. CASE s \in process[p].batch
        BY <3>4, <4>1
      <4>2. CASE s \notin process[p].batch
        <5>1. s \in log \/ \E q \in Process : OnItsWay(q, s)
          BY <3>2, <3>5, <3>6, <4>2 DEF Traced
        <5> QED
          BY <3>1, <3>3, <5>1
      <4> QED
        BY <4>1, <4>2
    <3> QED
      BY <3>6 DEF Traced
  <2>5. \A s \in Pair : sent'[s] <= 1
    <3>1. Traced /\ BatchIsNew /\ \A s \in Pair : sent[s] <= 1
      OBVIOUS
    <3>2. sent' = Sent(process[p].batch) /\ process[p].phase = "deliver"
      BY <1>6 DEF Deliver
    <3>3. ASSUME NEW s \in Pair, s \in process[p].batch
          PROVE  sent[s] = 0
      <4>1. s \notin log /\ \A q \in Process : ~ OnItsWay(q, s)
        BY <2>1, <3>1, <3>2, <3>3 DEF BatchIsNew, OnItsWay, Resting
      <4>2. ~ (sent[s] > 0)
        BY <3>1, <4>1 DEF Traced
      <4> QED
        BY <4>2
    <3> QED
      BY <3>1, <3>2, <3>3 DEF Sent
  <2> QED
    BY <2>2, <2>3, <2>4, <2>5
<1>7. ASSUME NEW p \in Process, DeliverFails(p)
      PROVE  Orderly'
  <2> SUFFICES ASSUME alone PROVE Orderly'
    BY <1>7 DEF DeliverFails
  <2>1. \A q \in Process \ {p} : process[q] = Resting
    BY <1>7 DEF DeliverFails, Busy, OneAtATime, RestersHoldNothing
  <2>2. OneAtATime'
    BY <1>7, <2>1 DEF DeliverFails, OneAtATime, Busy
  <2>3. BatchIsNew'
    BY <1>7, <2>1 DEF DeliverFails, BatchIsNew
  <2>4. Traced'
    <3>1. /\ \A q \in Process : process'[q].logged = process[q].logged
          /\ \A q \in Process : process[q].phase = "log" => process'[q] = process[q]
          /\ UNCHANGED <<log, sent>>
      BY <1>7 DEF DeliverFails
    <3>2. Traced
      OBVIOUS
    <3>3. ASSUME NEW q \in Process, NEW s \in Pair, OnItsWay(q, s)
          PROVE  OnItsWay(q, s)'
      BY <3>1, <3>3 DEF OnItsWay
    <3> QED
      BY <3>1, <3>2, <3>3 DEF Traced
  <2>5. \A s \in Pair : sent'[s] <= 1
    BY <1>7, <2>1 DEF DeliverFails
  <2> QED
    BY <2>2, <2>3, <2>4, <2>5
<1>8. ASSUME NEW p \in Process, AnswerLost(p)
      PROVE  Orderly'
  BY <1>8 DEF AnswerLost
<1>9. ASSUME NEW p \in Process, Log(p)
      PROVE  Orderly'
  <2> SUFFICES ASSUME alone PROVE Orderly'
    BY <1>9 DEF Log
  <2>1. \A q \in Process \ {p} : process[q] = Resting
    BY <1>9 DEF Log, Busy, OneAtATime, RestersHoldNothing
  <2>2. OneAtATime'
    BY <1>9, <2>1 DEF Log, OneAtATime, Busy
  <2>3. BatchIsNew'
    BY <1>9, <2>1 DEF Log, BatchIsNew
  <2>4. Traced'
    <3>1. /\ process'[p].logged = process[p].logged \cup process[p].batch
          /\ \A q \in Process \ {p} : process'[q] = process[q]
          /\ UNCHANGED <<log, sent>>
      BY <1>9 DEF Log
    <3>2. Traced
      OBVIOUS
    <3>3. ASSUME NEW q \in Process, NEW s \in Pair, OnItsWay(q, s)
          PROVE  OnItsWay(q, s)'
      BY <3>1, <3>3 DEF OnItsWay
    <3> QED
      BY <3>1, <3>2, <3>3 DEF Traced
  <2>5. \A s \in Pair : sent'[s] <= 1
    BY <1>9, <2>1 DEF Log
  <2> QED
    BY <2>2, <2>3, <2>4, <2>5
<1>10. ASSUME NEW p \in Process, LogConflicts(p)
       PROVE  Orderly'
  <2>1. ~ alone
    BY <1>10 DEF LogConflicts, BatchIsNew
  <2> QED
    BY <1>10, <2>1 DEF LogConflicts
<1>11. ASSUME NEW p \in Process, Commit(p)
       PROVE  Orderly'
  <2> SUFFICES ASSUME alone PROVE Orderly'
    BY <1>11 DEF Commit
  <2>1. \A q \in Process \ {p} : process[q] = Resting
    BY <1>11 DEF Commit, Busy, OneAtATime, RestersHoldNothing
  <2>2. OneAtATime'
    BY <1>11, <2>1 DEF Commit, OneAtATime, Busy
  <2>3. BatchIsNew'
    BY <1>11, <2>1 DEF Commit, Resting, BatchIsNew
  <2>4. Traced'
    BY <1>11, <2>1 DEF Commit, Traced, OnItsWay
  <2>5. \A s \in Pair : sent'[s] <= 1
    BY <1>11, <2>1 DEF Commit
  <2> QED
    BY <2>2, <2>3, <2>4, <2>5
<1>12. ASSUME NEW p \in Process, Killed(p)
       PROVE  Orderly'
  BY <1>12 DEF Killed
<1>13. CASE UNCHANGED vars
  BY <1>13 DEF vars, OneAtATime, BatchIsNew, Traced, OnItsWay, Busy
<1> QED
  BY <1>1, <1>2, <1>3, <1>4, <1>5, <1>6, <1>7, <1>8, <1>9, <1>10, <1>11, <1>12, <1>13 DEF Next
-------------------------------------------------------------------------------
\* The inductive invariant: rows in flight are apart (Apart) and not in the batch at hand
\* (BatchUnheld), which ties deliveries to rows and mishaps (RepeatsHaveCauses); what is
\* in flight was delivered (Delivered), to a watchlist that is active or was silenced
\* under way (Heeded); and what a history without accidents looks like (Orderly).
DispatchInv ==
  /\ DispatchType /\ LoggedWasSent /\ Delivered /\ Apart
  /\ BatchUnheld /\ RepeatsHaveCauses
  /\ RestersHoldNothing /\ Heeded /\ Orderly

\* At the start nothing is sent, logged or under way.
LEMMA InvInit == Init => DispatchInv
<1> SUFFICES ASSUME Init PROVE DispatchInv
  OBVIOUS
<1>1. DispatchType
  BY TypeInit
<1>2. /\ log = {} /\ \A s \in Pair : sent[s] = 0
      /\ \A p \in Process : process[p] = Resting
  BY DEF Init
<1>3. LoggedWasSent /\ Delivered /\ Apart
  BY <1>2 DEF LoggedWasSent, Delivered, Apart, Resting
<1>4. RestersHoldNothing /\ Heeded
  BY <1>2 DEF RestersHoldNothing, Heeded, Resting
<1>5. Orderly
  BY <1>2 DEF Orderly, OneAtATime, BatchIsNew, Traced, Resting, Busy
<1>6. BatchUnheld
  BY <1>2 DEF BatchUnheld, Resting
<1>7. RepeatsHaveCauses
  <2>1. \A s \in Pair : Cardinality({p \in Process : OnItsWay(p, s)}) \in Nat
    BY HoldersFinite
  <2>2. lost = 0 /\ conflicts = 0
    BY DEF Init
  <2> QED
    BY <1>2, <2>1, <2>2 DEF RepeatsHaveCauses
<1> QED
  BY <1>1, <1>3, <1>4, <1>5, <1>6, <1>7 DEF DispatchInv

\* Every step keeps every part.
LEMMA InvStep == DispatchInv /\ [Next]_vars => DispatchInv'
BY TypeStep, LoggedStep, ApartStep, UnheldStep, CausesStep, RestStep, HeededStep, OrderlyStep
  DEF DispatchInv

\* Every reachable state satisfies the invariant.
THEOREM InvAlways == Spec => []DispatchInv
BY InvInit, InvStep, PTL DEF Spec

\* The log, and what is about to be committed to it, never claims a delivery that was
\* not made (notify.dispatch_pending logs what its sender returned for).
THEOREM LogIsHonest == Spec => []LoggedWasSent
<1>1. DispatchInv => LoggedWasSent
  BY DEF DispatchInv
<1> QED
  BY <1>1, InvAlways, PTL

\* Whatever overlaps, a delivery is repeated no more often than dispatches were killed,
\* lost an answer, or failed on the unique constraint of notification_log.
THEOREM RepeatsAreAccountedFor == Spec => []RepeatsHaveCauses
<1>1. DispatchInv => RepeatsHaveCauses
  BY DEF DispatchInv
<1> QED
  BY <1>1, InvAlways, PTL

\* A delivery is repeated only after dispatches overlapped, one was killed or an answer
\* was lost: never because of a filter, the limit, a refusal or a pause.
THEOREM OnceWhenAlone == Spec => []AtMostOnceWhenAlone
<1>1. DispatchInv => AtMostOnceWhenAlone
  BY DEF DispatchInv, Orderly, AtMostOnceWhenAlone
<1> QED
  BY <1>1, InvAlways, PTL

\* The step form of SilenceIsKept.
SilentStep ==
  \A s \in Pair : sent'[s] > sent[s] =>
    \/ status[s[1]] = "active"
    \/ \E p \in Process : process[p].phase = "deliver" /\ s[1] \in process[p].silenced

\* Only Deliver and AnswerLost send, and they send the batch at hand.
LEMMA SilentSteps == DispatchInv /\ [Next]_vars => [SilentStep]_vars
<1> SUFFICES ASSUME DispatchInv, Next PROVE SilentStep
  OBVIOUS
<1> USE DEF DispatchInv, DispatchType
<1>1. ASSUME NEW p \in Process, process[p].phase = "deliver", sent' = Sent(process[p].batch)
      PROVE  SilentStep
  <2>1. \A s \in Pair : sent'[s] > sent[s] => s \in process[p].batch
    BY <1>1 DEF Sent
  <2> QED
    BY <1>1, <2>1 DEF SilentStep, Heeded
<1>2. ASSUME sent' = sent PROVE SilentStep
  BY <1>2 DEF SilentStep
<1>3. \/ sent' = sent
      \/ \E p \in Process : process[p].phase = "deliver" /\ sent' = Sent(process[p].batch)
  BY DEF Next, Emit, PauseOrResume, Delete, Begin, Scan, Deliver, DeliverFails, AnswerLost,
         Log, LogConflicts, Commit, Killed
<1> QED
  BY <1>1, <1>2, <1>3

\* A watchlist that is paused or deleted hears nothing more, except from a dispatch that
\* had read it before.
THEOREM SilenceHolds == Spec => SilenceIsKept
<1>1. SilenceIsKept <=> [][SilentStep]_vars
  BY DEF SilenceIsKept, SilentStep
<1> QED
  BY <1>1, SilentSteps, InvAlways, PTL DEF Spec
===============================================================================
