------------------------------- MODULE Dispatch -------------------------------
(***************************************************************************)
(* notify.dispatch_pending: events delivered to watchlists, by processes   *)
(* that may overlap (every scheduled job and every cron endpoint ends with *)
(* a dispatch) and may be killed. What was delivered is out in the world   *)
(* at once; the notification_log rows that say so are committed at the end *)
(* of the dispatch, all watchlists together.                               *)
(*                                                                         *)
(* Meanwhile people pause, resume and delete watchlists; a dispatch goes   *)
(* by the watchlists that were active when it started.                     *)
(*                                                                         *)
(* An event is the state an item entered. Its id is its position; `item`   *)
(* is what a state filter sees, the state of the item at the dispatch. The *)
(* obligation of an item and the scope of an org are read then as well and *)
(* would filter alike; they are left out.                                  *)
(***************************************************************************)
EXTENDS Naturals, Sequences, FiniteSets, FiniteSetsExt

CONSTANTS
  Item,
  ItemState,
  Wanted,         \* for each push watchlist, in the order the database returns
                  \* them, the item states it filters on ({} for all)
  Since,          \* ... and the number of events before it was created
  Process,        \* processes that may dispatch
  BatchSize,      \* MAX_EVENTS_PER_RUN
  MaxEvents,      \* bound: events
  MaxEdits,       \* bound: watchlists paused, resumed or deleted
  MaxLost         \* bound: kills and lost answers

ASSUME DispatchAssumption ==
  /\ Wanted \in Seq(SUBSET ItemState) /\ Since \in [DOMAIN Wanted -> Nat]
  /\ IsFiniteSet(Process)
  /\ BatchSize \in Nat \ {0} /\ {MaxEvents, MaxEdits, MaxLost} \subseteq Nat

VARIABLES
  events,   \* the event table: sequence of [item, to]
  item,     \* [Item -> state]
  status,   \* watchlist -> "active", "paused" or "deleted"
  edits,    \* number of changes to watchlists
  log,      \* committed notification_log rows: <<watchlist, event>> pairs
  sent,     \* how often each pair was delivered
  process,  \* [Process -> position in dispatch_pending]
  lost,     \* dispatches killed and answers lost
  conflicts, \* history: dispatches the unique constraint has failed. A conflict takes rows
            \* that others have committed since the scan, so there are finitely many
  alone     \* history: no dispatch has overlapped another, been killed or lost an answer

vars == <<events, item, status, edits, log, sent, process, lost, conflicts, alone>>
watchlistVars == <<status, edits>>

EventId   == 1..MaxEvents
Watchlist == DOMAIN Wanted
Pair      == Watchlist \X EventId

\* `left` are the watchlists a dispatch has still to look at, `silenced` those paused or
\* deleted since it read them (a history, no code reads it).
Resting == [phase |-> "idle", left |-> {}, silenced |-> {}, batch |-> {}, logged |-> {}]

Busy(p) == process[p].phase # "idle"

\* Mutant of Seen: the log is not consulted.
SeenNothing(p, w) == {}

\* The events logged for a watchlist, as the process sees the log.
Seen(p, w) == {e \in EventId : <<w, e>> \in log \cup process[p].logged}

\* matches, with the item as it is now.
Matches(w, e) == Wanted[w] = {} \/ item[events[e].item] \in Wanted[w]

\* Mutant of Candidates: logged events are dropped after the limit.
CandidatesThenSeen(p, w) ==
  LET recent == {e \in DOMAIN events : e > Since[w]}
  IN  {e \in recent : Cardinality({f \in recent : f <= e}) <= BatchSize} \ Seen(p, w)

\* The oldest events not logged yet, as many as one dispatch looks at.
Candidates(p, w) ==
  LET pending == {e \in DOMAIN events : e > Since[w]} \ Seen(p, w)
  IN  {e \in pending : Cardinality({f \in pending : f <= e}) <= BatchSize}

Batch(p, w) == {<<w, e>> : e \in {c \in Candidates(p, w) : Matches(w, c)}}
-------------------------------------------------------------------------------
\* An item enters a state and the event is committed.
Emit(i, to) ==
  /\ Len(events) < MaxEvents /\ item[i] # to
  /\ events' = Append(events, [item |-> i, to |-> to])
  /\ item' = [item EXCEPT ![i] = to]
  /\ UNCHANGED <<watchlistVars, log, sent, process, lost, conflicts, alone>>

\* pause_watchlist and resume_watchlist.
PauseOrResume(w, to) ==
  /\ edits < MaxEdits /\ {status[w], to} = {"active", "paused"}
  /\ status' = [status EXCEPT ![w] = to]
  /\ edits' = edits + 1
  /\ process' = [p \in Process |->
       IF Busy(p) /\ to = "paused" THEN [process[p] EXCEPT !.silenced = @ \cup {w}] ELSE process[p]]
  /\ UNCHANGED <<events, item, log, sent, lost, conflicts, alone>>

\* delete_watchlist: the row stays, nothing brings it back.
Delete(w) ==
  /\ edits < MaxEdits /\ status[w] # "deleted"
  /\ status' = [status EXCEPT ![w] = "deleted"]
  /\ edits' = edits + 1
  /\ process' = [p \in Process |->
       IF Busy(p) THEN [process[p] EXCEPT !.silenced = @ \cup {w}] ELSE process[p]]
  /\ UNCHANGED <<events, item, log, sent, lost, conflicts, alone>>

\* Mutant of Begin: only deleted watchlists are left out.
BeginWithPaused(p) ==
  /\ ~ Busy(p)
  /\ process' = [process EXCEPT ![p] = [Resting EXCEPT
       !.phase = "scan", !.left = {w \in Watchlist : status[w] # "deleted"}]]
  /\ alone' = (alone /\ \A q \in Process : ~ Busy(q))
  /\ UNCHANGED <<events, item, watchlistVars, log, sent, lost, conflicts>>

Begin(p) ==
  /\ ~ Busy(p)
  /\ process' = [process EXCEPT ![p] = [Resting EXCEPT
       !.phase = "scan", !.left = {w \in Watchlist : status[w] = "active"}]]
  /\ alone' = (alone /\ \A q \in Process : ~ Busy(q))
  /\ UNCHANGED <<events, item, watchlistVars, log, sent, lost, conflicts>>

\* The candidates of one watchlist are read and filtered.
Scan(p) ==
  /\ process[p].phase = "scan" /\ process[p].left # {}
  /\ LET w == Min(process[p].left)
     IN  process' = [process EXCEPT ![p] =
           [process[p] EXCEPT !.left = @ \ {w}, !.batch = Batch(p, w),
                              !.phase = IF Batch(p, w) = {} THEN "scan" ELSE "deliver"]]
  /\ UNCHANGED <<events, item, watchlistVars, log, sent, lost, conflicts, alone>>

Sent(batch) == [s \in Pair |-> IF s \in batch THEN sent[s] + 1 ELSE sent[s]]

Deliver(p) ==
  /\ process[p].phase = "deliver"
  /\ sent' = Sent(process[p].batch)
  /\ process' = [process EXCEPT ![p].phase = "log"]
  /\ UNCHANGED <<events, item, watchlistVars, log, lost, conflicts, alone>>

\* Mutant of DeliverFails: a refused batch is logged too.
DeliverFailsButLogs(p) ==
  /\ process[p].phase = "deliver"
  /\ process' = [process EXCEPT ![p].phase = "log"]
  /\ UNCHANGED <<events, item, watchlistVars, log, sent, lost, conflicts, alone>>

\* The channel refuses: nothing is logged, the next dispatch tries again.
DeliverFails(p) ==
  /\ process[p].phase = "deliver"
  /\ process' = [process EXCEPT ![p] = [process[p] EXCEPT !.phase = "scan", !.batch = {}]]
  /\ UNCHANGED <<events, item, watchlistVars, log, sent, lost, conflicts, alone>>

\* The channel took the batch but its answer was lost.
AnswerLost(p) ==
  /\ process[p].phase = "deliver" /\ lost < MaxLost
  /\ sent' = Sent(process[p].batch)
  /\ process' = [process EXCEPT ![p] = [process[p] EXCEPT !.phase = "scan", !.batch = {}]]
  /\ lost' = lost + 1 /\ alone' = FALSE
  /\ UNCHANGED <<events, item, watchlistVars, log, conflicts>>

\* The rows of other processes that are not committed yet.
Uncommitted(p) == UNION {process[q].logged : q \in Process \ {p}}

\* Mutant of Log: there is no unique constraint.
LogUnchecked(p) ==
  /\ process[p].phase = "log"
  /\ process' = [process EXCEPT ![p] =
       [process[p] EXCEPT !.phase = "scan", !.batch = {}, !.logged = @ \cup process[p].batch]]
  /\ UNCHANGED <<events, item, watchlistVars, log, sent, lost, conflicts, alone>>

\* The flush of the rows: it waits for another process that has flushed one of them.
Log(p) ==
  /\ process[p].phase = "log"
  /\ process[p].batch \cap (log \cup Uncommitted(p)) = {}
  /\ process' = [process EXCEPT ![p] =
       [process[p] EXCEPT !.phase = "scan", !.batch = {}, !.logged = @ \cup process[p].batch]]
  /\ UNCHANGED <<events, item, watchlistVars, log, sent, lost, conflicts, alone>>

\* The unique constraint fails: the dispatch raises and all its rows are rolled back.
LogConflicts(p) ==
  /\ process[p].phase = "log" /\ process[p].batch \cap log # {}
  /\ process' = [process EXCEPT ![p] = Resting]
  /\ conflicts' = conflicts + 1
  /\ UNCHANGED <<events, item, watchlistVars, log, sent, lost, alone>>

Commit(p) ==
  /\ process[p].phase = "scan" /\ process[p].left = {}
  /\ log' = log \cup process[p].logged
  /\ process' = [process EXCEPT ![p] = Resting]
  /\ UNCHANGED <<events, item, watchlistVars, sent, lost, conflicts, alone>>

Killed(p) ==
  /\ Busy(p) /\ lost < MaxLost
  /\ process' = [process EXCEPT ![p] = Resting]
  /\ lost' = lost + 1 /\ alone' = FALSE
  /\ UNCHANGED <<events, item, watchlistVars, log, sent, conflicts>>
-------------------------------------------------------------------------------
Init ==
  /\ events = <<>> /\ item \in [Item -> ItemState]
  /\ status \in [Watchlist -> {"active", "paused"}] /\ edits = 0
  /\ log = {} /\ sent = [s \in Pair |-> 0]
  /\ process = [p \in Process |-> Resting]
  /\ lost = 0 /\ conflicts = 0 /\ alone = TRUE

Next ==
  \/ \E i \in Item, to \in ItemState : Emit(i, to)
  \/ \E w \in Watchlist : \E to \in {"active", "paused"} : PauseOrResume(w, to)
  \/ \E w \in Watchlist : Delete(w)
  \/ \E p \in Process : Begin(p)
  \/ \E p \in Process : Scan(p)
  \/ \E p \in Process : Deliver(p)
  \/ \E p \in Process : DeliverFails(p)
  \/ \E p \in Process : AnswerLost(p)
  \/ \E p \in Process : Log(p)
  \/ \E p \in Process : LogConflicts(p)
  \/ \E p \in Process : Commit(p)
  \/ \E p \in Process : Killed(p)

\* Dispatches keep being started, a dispatch that was not killed goes on, and a
\* channel that is tried again and again answers at some time.
Fairness ==
  \A p \in Process :
    /\ WF_vars(Begin(p)) /\ WF_vars(Scan(p))
    /\ SF_vars(Deliver(p)) /\ WF_vars(Log(p)) /\ WF_vars(LogConflicts(p)) /\ WF_vars(Commit(p))

Spec     == Init /\ [][Next]_vars
FairSpec == Spec /\ Fairness
-------------------------------------------------------------------------------
\* A delivery is never repeated, whatever fails and however events are filtered and
\* limited, as long as no dispatch overlaps another, is killed or loses an answer.
AtMostOnceWhenAlone == alone => \A s \in Pair : sent[s] <= 1

\* The log never claims a delivery that was not made, nor does a process about to
\* commit: an event that could not be delivered is left for the next dispatch.
LoggedWasSent ==
  \A s \in log \cup UNION {process[p].logged : p \in Process} : sent[s] > 0

\* The delivery s is on its way to the log: flushed by p, or about to be.
OnItsWay(p, s) ==
  \/ s \in process[p].logged
  \/ process[p].phase = "log" /\ s \in process[p].batch

\* Every delivery made is in the log, in the hands of a dispatch, or put down to a mishap of
\* its own: a kill, a lost answer, or a dispatch that failed on the rows of another and with
\* them lost those of other watchlists. Dispatches may overlap as they like, the repeats of
\* a delivery are never more than the mishaps that somebody could notice.
RepeatsHaveCauses ==
  \A s \in Pair :
    sent[s] <= Cardinality({p \in Process : OnItsWay(p, s)})
                 + (IF s \in log THEN 1 ELSE 0) + lost + conflicts

\* Nothing is delivered to a watchlist that is paused or deleted, except by a dispatch
\* that had started before.
SilenceIsKept ==
  [][\A s \in Pair : sent'[s] > sent[s] =>
       \/ status[s[1]] = "active"
       \/ \E p \in Process : process[p].phase = "deliver" /\ s[1] \in process[p].silenced]_vars

\* A watchlist that filters on nothing hears of every event in the end, whatever fails,
\* overlaps or is paused on the way, when it is active in the end: what happened during a
\* pause is not lost.
Heard(w, e) ==
  (e \in DOMAIN events /\ e > Since[w]) ~> (<<w, e>> \in log)
UnfilteredHearsAll ==
  \A w \in Watchlist : Wanted[w] = {} =>
    (<>[](status[w] = "active") => \A e \in EventId : Heard(w, e))

\* notify.py: "Deliver undelivered events to matching push watchlists". An event that
\* goes on matching a watchlist that is active is delivered to it in the end.
MatchingIsDelivered ==
  \A w \in Watchlist, e \in EventId :
    <>[](status[w] = "active" /\ e \in DOMAIN events /\ e > Since[w] /\ Matches(w, e)) =>
      <>(sent[<<w, e>>] > 0)
===============================================================================
