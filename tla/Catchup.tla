-------------------------------- MODULE Catchup --------------------------------
(***************************************************************************)
(* The daily cron invocation: the sources due today are asked for what is  *)
(* recent, and the time left goes to the historical backfill, which works  *)
(* through a plan over many invocations and keeps its place in kv_meta.    *)
(*                                                                         *)
(* What one run does is the subject of module Ingest; here a run either    *)
(* answers for the days it asked about or does not. A day's documents have *)
(* been asked for once a run after that day answered for it. An invocation *)
(* takes minutes in the early morning, so no day ends during it.           *)
(***************************************************************************)
EXTENDS Integers, Sequences
LOCAL INSTANCE SequencesExt

CONSTANTS
  Sources,    \* available_adapters, in order
  Windowed,   \* WINDOWED_ADAPTERS: those that can be asked for a span of days
  Daily,      \* DAILY_ADAPTERS, in order
  WeekdayOf,  \* WEEKLY_ADAPTERS: [weekly sources -> 0..Week-1]
  Overlap,    \* [Source -> days]: how far back a run of the group asks
  Week,       \* days of a week
  WindowDays, \* WINDOW_DAYS
  Depths,     \* the values backfill_catchup_days may be given
  FirstDay,   \* today at first; days before it are history
  MaxDay,     \* bound: days
  MaxLost,    \* bound: invocations killed or rolled back
  MaxResets   \* bound: changes of depth and repairs that clear the marker

Source == {Sources[k] : k \in DOMAIN Sources}
Day    == 1..MaxDay

ASSUME CatchupAssumption ==
  /\ {Week, FirstDay, MaxDay, MaxLost, MaxResets, WindowDays} \subseteq Nat /\ Week > 0
  /\ Windowed \cup DOMAIN WeekdayOf \subseteq Source
  /\ Overlap \in [Source -> Nat] /\ Daily \in Seq(Source)
  /\ \A n \in Depths : n \in Nat /\ 0 < n /\ n < FirstDay

VARIABLES
  today,
  depth,    \* backfill_catchup_days
  marker,   \* the kv_meta row: [days, index, done]
  job,      \* the invocation in progress
  asked,    \* <<source, day>> pairs that have been asked for
  lost,     \* invocations killed or rolled back
  resets,   \* changes of depth and cleared markers
  reads,    \* history: first, last and rarest answer of each source to the group
  pass,     \* history of the last pass of each depth: the `goal` its plan named when
            \* it began, less what failed steps named, and the steps `tried`
  rearmed   \* history: the marker was cleared and no new pass has begun

vars == <<today, depth, marker, job, asked, lost, resets, reads, pass, rearmed>>

NoMarker == [days |-> 0, index |-> 0, done |-> FALSE]
NoJob    == [phase |-> "idle", names |-> <<>>, plan |-> <<>>, index |-> 0,
             stepped |-> FALSE, hadRow |-> FALSE, write |-> NoMarker]
NoPass   == [goal |-> {}, tried |-> {}]
-------------------------------------------------------------------------------
(* The plan.                                                                  *)

Earlier(x, y) == IF x < y THEN x ELSE y

\* One entry per slice of a windowed source, oldest first; one for any other.
Slices(source) ==
  IF source \in Windowed
  THEN [k \in 1..(depth \div (WindowDays + 1)) + 1 |->
          LET from == today - depth + (k - 1) * (WindowDays + 1)
          IN  [source |-> source, days |-> from..Earlier(from + WindowDays, today)]]
  ELSE <<[source |-> source, days |-> 1..today]>>

\* backfill_plan: it is reckoned from today.
Plan == FlattenSeq([k \in DOMAIN Sources |-> Slices(Sources[k])])

Past(source, days) == {source} \X {d \in days : d < today}
Named(plan) == UNION {Past(plan[k].source, plan[k].days) : k \in DOMAIN plan}

Done == marker.done /\ marker.days = depth
-------------------------------------------------------------------------------
(* The group of the day.                                                      *)

DueToday == SelectSeq(Sources, LAMBDA s : s \in DOMAIN WeekdayOf /\ WeekdayOf[s] = today % Week)

\* The group: the daily sources and the weekly ones due.
GroupOfToday == Daily \o DueToday

\* run_group("daily") is called.
Invoke ==
  /\ job.phase = "idle"
  /\ job' = [NoJob EXCEPT !.phase = "group", !.names = GroupOfToday]
  /\ UNCHANGED <<today, depth, marker, asked, lost, resets, reads, pass, rearmed>>

\* Mutant of Recent: the days of the overlap are counted from today.
RecentToday(source) == (today + 1 - Overlap[source])..today

Recent(source) == (today - Overlap[source])..today

Answered(was) ==
  [first |-> IF was.first = 0 THEN today ELSE was.first, last |-> today,
   rarest |-> IF was.last = 0 \/ today - was.last < was.rarest THEN was.rarest
              ELSE today - was.last]

InGroup == job.phase = "group" /\ job.names # <<>>

ReadRecent ==
  LET source == Head(job.names)
  IN
  /\ InGroup
  /\ asked' = asked \cup Past(source, Recent(source))
  /\ reads' = [reads EXCEPT ![source] = Answered(@)]
  /\ job' = [job EXCEPT !.names = Tail(@)]
  /\ UNCHANGED <<today, depth, marker, lost, resets, pass, rearmed>>

\* The source is disabled or does not answer; the others still run.
ReadFails ==
  /\ InGroup
  /\ job' = [job EXCEPT !.names = Tail(@)]
  /\ UNCHANGED <<today, depth, marker, asked, lost, resets, reads, pass, rearmed>>

\* The time budget is used up: what is left of the group is deferred, and there
\* is nothing to spare for the backfill.
OutOfTime ==
  /\ job.phase = "group"
  /\ job' = [job EXCEPT !.phase = "close", !.names = <<>>]
  /\ UNCHANGED <<today, depth, marker, asked, lost, resets, reads, pass, rearmed>>
-------------------------------------------------------------------------------
(* catchup.                                                                   *)

AlreadyDone ==
  /\ job.phase = "group" /\ job.names = <<>> /\ Done
  /\ job' = [job EXCEPT !.phase = "close"]
  /\ UNCHANGED <<today, depth, marker, asked, lost, resets, reads, pass, rearmed>>

\* Mutant of Place: a marker is taken for the present depth whatever it was for.
PlaceOfAny == marker.index

\* A changed depth restarts the plan.
Place == IF marker.days = depth THEN marker.index ELSE 0

\* A pass begins, or goes on where the marker says the last invocation stopped.
Resume ==
  /\ job.phase = "group" /\ job.names = <<>> /\ ~ Done
  /\ job' = [job EXCEPT !.phase = "catchup", !.plan = Plan, !.index = Place,
                        !.hadRow = marker # NoMarker]
  /\ IF Place = 0
     THEN /\ pass' = [pass EXCEPT ![depth] = [NoPass EXCEPT !.goal = Named(Plan)]]
          /\ rearmed' = FALSE
     ELSE UNCHANGED <<pass, rearmed>>
  /\ UNCHANGED <<today, depth, marker, asked, lost, resets, reads>>

\* At least one slice is taken, whatever time is left.
MayStep == job.phase = "catchup" /\ job.index < Len(job.plan)

Stepped == [job EXCEPT !.index = @ + 1, !.stepped = TRUE]

SliceAnswers ==
  LET slice == job.plan[job.index + 1]
  IN
  /\ MayStep
  /\ asked' = asked \cup Past(slice.source, slice.days)
  /\ job' = Stepped
  /\ pass' = [pass EXCEPT ![depth].tried = @ \cup {job.index}]
  /\ UNCHANGED <<today, depth, marker, lost, resets, reads, rearmed>>

\* The source is disabled or does not answer: the queue goes on behind it.
SliceFails ==
  LET slice == job.plan[job.index + 1]
  IN
  /\ MayStep
  /\ job' = Stepped
  /\ pass' = [pass EXCEPT ![depth] = [pass[depth] EXCEPT
       !.tried = @ \cup {job.index}, !.goal = @ \ Past(slice.source, slice.days)]]
  /\ UNCHANGED <<today, depth, marker, asked, lost, resets, reads, rearmed>>

\* Mutant of CatchupEnds: the time is looked at before the first slice as well.
CatchupEndsAnyTime ==
  /\ job.phase = "catchup"
  /\ job' = [job EXCEPT !.phase = "close", !.plan = <<>>, !.index = 0,
               !.write = [days |-> depth, index |-> job.index,
                          done |-> job.index >= Len(job.plan)]]
  /\ UNCHANGED <<today, depth, marker, asked, lost, resets, reads, pass, rearmed>>

\* The plan is finished, or the time is up after one slice at least: the place in
\* the plan is written, not yet committed.
CatchupEnds ==
  /\ job.phase = "catchup" /\ (job.stepped \/ job.index >= Len(job.plan))
  /\ job' = [job EXCEPT !.phase = "close", !.plan = <<>>, !.index = 0,
               !.write = [days |-> depth, index |-> job.index,
                          done |-> job.index >= Len(job.plan)]]
  /\ UNCHANGED <<today, depth, marker, asked, lost, resets, reads, pass, rearmed>>
-------------------------------------------------------------------------------
(* The end of the invocation, and what may happen around it.                  *)

\* Mutant of Written: the row is written anew if it has gone.
WrittenAnyway == IF job.write = NoMarker THEN marker ELSE job.write

\* The update of a row that was deleted meanwhile fails and the row stays away.
Written ==
  IF job.write = NoMarker \/ (job.hadRow /\ marker = NoMarker) THEN marker ELSE job.write

Close ==
  /\ job.phase = "close"
  /\ marker' = Written /\ job' = NoJob
  /\ UNCHANGED <<today, depth, asked, lost, resets, reads, pass, rearmed>>

\* The process is killed, or the dispatch that follows raises before it commits:
\* what the runs read stays, the place in the plan is lost.
Interrupted ==
  /\ job.phase # "idle" /\ lost < MaxLost
  /\ lost' = lost + 1 /\ job' = NoJob
  /\ UNCHANGED <<today, depth, marker, asked, resets, reads, pass, rearmed>>

\* rearm_backfill, by the boot of another process.
Rearm ==
  /\ marker # NoMarker /\ resets < MaxResets
  /\ marker' = NoMarker /\ resets' = resets + 1 /\ rearmed' = TRUE
  /\ UNCHANGED <<today, depth, job, asked, lost, reads, pass>>

SetDepth(days) ==
  /\ job.phase = "idle" /\ days # depth /\ resets < MaxResets
  /\ depth' = days /\ resets' = resets + 1
  /\ UNCHANGED <<today, marker, job, asked, lost, reads, pass, rearmed>>

NewDay ==
  /\ job.phase = "idle" /\ today < MaxDay
  /\ today' = today + 1
  /\ UNCHANGED <<depth, marker, job, asked, lost, resets, reads, pass, rearmed>>

Init ==
  /\ today = FirstDay /\ depth \in Depths /\ marker = NoMarker /\ job = NoJob
  /\ asked = {} /\ lost = 0 /\ resets = 0
  /\ reads = [s \in Source |-> [first |-> 0, last |-> 0, rarest |-> 0]]
  /\ pass = [n \in Depths |-> NoPass] /\ rearmed = FALSE

Next ==
  \/ Invoke \/ ReadRecent \/ ReadFails \/ OutOfTime
  \/ AlreadyDone \/ Resume \/ SliceAnswers \/ SliceFails \/ CatchupEnds
  \/ Close \/ Interrupted \/ Rearm \/ NewDay
  \/ \E days \in Depths : SetDepth(days)

\* The cron calls again and again, and an invocation goes on. Now and then one has
\* the time to get through its group, and to spare after it.
Fairness ==
  /\ WF_vars(Invoke) /\ WF_vars(AlreadyDone)
  /\ \A k \in DOMAIN Sources :
       SF_vars(Len(job.names) = k /\ (ReadRecent \/ ReadFails))
  /\ SF_vars(Resume) /\ WF_vars(SliceAnswers \/ SliceFails) /\ WF_vars(CatchupEnds)
  /\ WF_vars(Close)

Spec     == Init /\ [][Next]_vars
FairSpec == Spec /\ Fairness
-------------------------------------------------------------------------------
\* The backfill ends, though each invocation may have time for one slice only,
\* sources fail, and some invocations are killed.
CatchupFinishes == []<>Done

\* A step of the plan is never passed over: each one behind the marker was taken
\* in the pass the marker belongs to, whatever was killed, and after a change of
\* depth or a repair too.
CursorNeverSkips ==
  marker.days = depth => 0..(marker.index - 1) \subseteq pass[depth].tried

\* A repair that asks for another pass gets one: an invocation in progress does
\* not put back the marker that the repair cleared.
RearmRestarts == rearmed => marker = NoMarker

\* internal.py: missed invocations lose nothing as long as a source answers once
\* within its overlap: no day between its first and last answer is passed over.
OverlapCoversMisses ==
  \A s \in Source :
    reads[s].rarest <= Overlap[s] =>
      \A d \in reads[s].first..(reads[s].last - 1) : <<s, d>> \in asked

\* rebuild.py: an invocation "picks up where it stopped". When the backfill is
\* done, what it set out to read has been read, except what got no answer.
CatchupLeavesNoGap == Done => pass[depth].goal \subseteq asked
===============================================================================
