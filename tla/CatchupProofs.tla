------------------------------ MODULE CatchupProofs ------------------------------
(***************************************************************************)
(* Proofs about the daily invocation, for any sources, plans and depths:   *)
(* missed invocations lose no day, the backfill passes over no step, and a *)
(* repair that asks for another pass gets it.                              *)
(***************************************************************************)
EXTENDS Catchup, TLAPS

Phases  == {"idle", "group", "catchup", "close"}
Markers == [days : Nat, index : Nat, done : BOOLEAN]
Answers == [first : Nat, last : Nat, rarest : Nat]

\* What an invocation in progress keeps: the sources of its group and its plan.
Jobs(names, plan) ==
  [phase : Phases, names : {names}, plan : {plan}, index : Nat, stepped : BOOLEAN,
   hadRow : BOOLEAN, write : Markers]

\* What the plan and the goal of a pass are made of is of no concern here.
CatchupType ==
  /\ today \in Nat \ {0} /\ depth \in Depths /\ marker \in Markers
  /\ job \in Jobs(job.names, job.plan)
  /\ reads \in [Source -> Answers]
  /\ DOMAIN pass = Depths
  /\ \A n \in Depths : pass[n] \in [goal : {pass[n].goal}, tried : SUBSET Nat]
  /\ rearmed \in BOOLEAN

\* A source that has answered did so first and last on days gone by.
AnswersInOrder ==
  \A s \in Source :
    /\ reads[s].first <= reads[s].last /\ reads[s].last <= today
    /\ reads[s].first = 0 <=> reads[s].last = 0

\* A place in the plan is to be written at the end of an invocation, for the depth it began
\* with.
OnlyAtTheEnd ==
  job.write # NoMarker => job.phase = "close" /\ job.write.days = depth

\* An invocation that will write its place has found the marker that is there, unless it
\* began the pass that a repair asks for.
FoundTheMarker ==
  job.phase = "catchup" \/ job.write # NoMarker =>
    /\ marker # NoMarker => job.hadRow
    /\ rearmed => job.hadRow

\* Every step behind a place was tried in the pass of its depth: behind the marker, behind
\* the invocation that goes on, and behind the place that it is about to write.
TriedBehind(of, n, index) == 0..(index - 1) \subseteq of[n].tried

\* A marker and an invocation in progress stand at a place whose steps behind were tried.
PlacesAreReached ==
  /\ \A n \in Depths : marker.days = n => TriedBehind(pass, n, marker.index)
  /\ job.phase = "catchup" => TriedBehind(pass, depth, job.index)
  /\ job.write # NoMarker => TriedBehind(pass, depth, job.write.index)

\* The inductive invariant of the daily invocation.
CatchupInv ==
  /\ CatchupType /\ AnswersInOrder /\ OverlapCoversMisses
  /\ OnlyAtTheEnd /\ FoundTheMarker /\ RearmRestarts /\ PlacesAreReached
-------------------------------------------------------------------------------
\* The steps that change when a source was read.
LEMMA ReadSteps ==
  ASSUME [Next]_vars
  PROVE  /\ UNCHANGED reads \/ ReadRecent
         /\ UNCHANGED today \/ NewDay
         /\ asked \subseteq asked'
BY DEF Next, vars, Invoke, ReadRecent, ReadFails, OutOfTime, AlreadyDone, Resume, SliceAnswers,
  SliceFails, CatchupEnds, Close, Interrupted, Rearm, NewDay, SetDepth

\* The marker is none, or that of the end of an invocation, or as it was.
LEMMA MarkerSteps ==
  ASSUME [Next]_vars
  PROVE  \/ UNCHANGED marker
         \/ Close
         \/ Rearm
BY DEF Next, vars, Invoke, ReadRecent, ReadFails, OutOfTime, AlreadyDone, Resume, SliceAnswers,
  SliceFails, CatchupEnds, Interrupted, NewDay, SetDepth

\* What a step of an invocation does to it.
LEMMA JobSteps ==
  ASSUME CatchupType, [Next]_vars
  PROVE  /\ job' \in Jobs(job'.names, job'.plan)
         /\ \/ UNCHANGED job
            \/ (Close \/ Interrupted) /\ job' = NoJob
            \/ /\ job'.phase \in {"group", "close"} /\ job.phase \in {"idle", "group"}
               /\ job'.write \in {job.write, NoMarker}
               /\ UNCHANGED <<depth, marker, pass, rearmed>>
            \/ /\ Resume /\ job'.phase = "catchup" /\ job'.index = Place
               /\ job'.write = job.write /\ (job'.hadRow <=> marker # NoMarker)
            \/ /\ SliceAnswers \/ SliceFails
               /\ job'.phase = "catchup" /\ job'.index = job.index + 1
               /\ job'.write = job.write /\ (job'.hadRow <=> job.hadRow)
            \/ /\ CatchupEnds /\ job'.phase = "close" /\ (job'.hadRow <=> job.hadRow)
               /\ job'.write.days = depth /\ job'.write.index = job.index
<1> DEFINE Shape(x) == x \in Jobs(x.names, x.plan)
           Goal ==
             /\ Shape(job')
             /\ \/ UNCHANGED job
                \/ (Close \/ Interrupted) /\ job' = NoJob
                \/ /\ job'.phase \in {"group", "close"} /\ job.phase \in {"idle", "group"}
                   /\ job'.write \in {job.write, NoMarker}
                   /\ UNCHANGED <<depth, marker, pass, rearmed>>
                \/ /\ Resume /\ job'.phase = "catchup" /\ job'.index = Place
                   /\ job'.write = job.write /\ (job'.hadRow <=> marker # NoMarker)
                \/ /\ SliceAnswers \/ SliceFails
                   /\ job'.phase = "catchup" /\ job'.index = job.index + 1
                   /\ job'.write = job.write /\ (job'.hadRow <=> job.hadRow)
                \/ /\ CatchupEnds /\ job'.phase = "close" /\ (job'.hadRow <=> job.hadRow)
                   /\ job'.write.days = depth /\ job'.write.index = job.index
<1> USE DEF Phases
<1>0. /\ NoMarker \in Markers /\ depth \in Nat /\ job.index \in Nat /\ marker.index \in Nat
      /\ NoJob.write = NoMarker /\ Shape(NoJob) /\ Shape(job)
  BY CatchupAssumption DEF NoMarker, NoJob, Markers, Jobs, CatchupType
<1>1. CASE job' = job
  BY <1>0, <1>1
<1>2. CASE Close \/ Interrupted
  BY <1>0, <1>2 DEF Close, Interrupted
<1>3. CASE Invoke
  <2>1. job' = [NoJob EXCEPT !.phase = "group", !.names = GroupOfToday] /\ job.phase = "idle"
        /\ UNCHANGED <<depth, marker, pass, rearmed>>
    BY <1>3 DEF Invoke
  <2>2. Shape(job') /\ job'.phase = "group" /\ job'.write = NoMarker
    BY <1>0, <2>1 DEF NoJob, Jobs
  <2> QED
    BY <2>1, <2>2
<1>4. CASE ReadRecent \/ ReadFails
  <2>1. job' = [job EXCEPT !.names = Tail(job.names)] /\ job.phase = "group"
        /\ UNCHANGED <<depth, marker, pass, rearmed>>
    BY <1>4 DEF ReadRecent, ReadFails, InGroup
  <2> DEFINE rest == Tail(job.names)
  <2> HIDE DEF rest
  <2>2. Shape(job') /\ job'.phase = "group" /\ job'.write = job.write
    BY <1>0, <2>1 DEF Jobs, rest
  <2> QED
    BY <2>1, <2>2
<1>5. CASE OutOfTime \/ AlreadyDone
  <2>1. job.phase = "group" /\ UNCHANGED <<depth, marker, pass, rearmed>>
    BY <1>5 DEF OutOfTime, AlreadyDone
  <2>2. Shape(job') /\ job'.phase = "close" /\ job'.write = job.write
    BY <1>0, <1>5 DEF OutOfTime, AlreadyDone, Jobs
  <2> QED
    BY <2>1, <2>2
<1>6. CASE Resume
  <2>1. job' = [job EXCEPT !.phase = "catchup", !.plan = Plan, !.index = Place,
                           !.hadRow = marker # NoMarker]
    BY <1>6 DEF Resume
  <2>2. Place \in Nat /\ (marker # NoMarker) \in BOOLEAN
    BY <1>0 DEF Place
  <2>3. \A b \in BOOLEAN :
          LET to == [job EXCEPT !.phase = "catchup", !.plan = Plan, !.index = Place, !.hadRow = b]
          IN  /\ Shape(to) /\ to.phase = "catchup" /\ to.index = Place
              /\ to.write = job.write /\ (to.hadRow <=> b)
    BY <1>0, <2>2 DEF Jobs
  <2>4. /\ Shape(job') /\ job'.phase = "catchup" /\ job'.index = Place
        /\ job'.write = job.write /\ (job'.hadRow <=> marker # NoMarker)
    BY <2>1, <2>2, <2>3, Zenon
  <2> QED
    BY <1>6, <2>4
<1>7. CASE SliceAnswers \/ SliceFails
  <2>1. job' = [job EXCEPT !.index = job.index + 1, !.stepped = TRUE] /\ job.phase = "catchup"
    BY <1>7 DEF SliceAnswers, SliceFails, Stepped, MayStep
  <2>2. \A n \in Nat : LET to == [job EXCEPT !.index = n, !.stepped = TRUE]
                       IN  Shape(to) /\ to.phase = job.phase /\ to.index = n
                           /\ to.write = job.write /\ (to.hadRow <=> job.hadRow)
    BY <1>0 DEF Jobs
  <2>3. job.index + 1 \in Nat
    BY <1>0
  <2> QED
    BY <1>7, <2>1, <2>2, <2>3
<1>8. CASE CatchupEnds
  <2> DEFINE place == [days |-> depth, index |-> job.index, done |-> job.index >= Len(job.plan)]
  <2>1. job' = [job EXCEPT !.phase = "close", !.plan = <<>>, !.index = 0, !.write = place]
    BY <1>8 DEF CatchupEnds
  <2>2. place \in Markers /\ place.days = depth /\ place.index = job.index
    BY <1>0 DEF Markers
  <2> HIDE DEF place
  <2>3. Shape(job') /\ job'.phase = "close" /\ job'.write = place /\ (job'.hadRow <=> job.hadRow)
    BY <1>0, <2>1, <2>2 DEF Jobs
  <2> QED
    BY <1>8, <2>2, <2>3
<1> QED
  BY <1>1, <1>2, <1>3, <1>4, <1>5, <1>6, <1>7, <1>8
    DEF Next, vars, Rearm, NewDay, SetDepth

\* What a step does to the passes: one begins, or a step of one is tried.
LEMMA PassSteps ==
  ASSUME CatchupType, [Next]_vars
  PROVE  /\ DOMAIN pass' = Depths
         /\ \A n \in Depths : pass'[n] \in [goal : {pass'[n].goal}, tried : SUBSET Nat]
         /\ \/ UNCHANGED <<pass, rearmed>>
            \/ Rearm /\ pass' = pass
            \/ /\ Resume /\ Place = 0 /\ rearmed' = FALSE
               /\ \A n \in Depths \ {depth} : pass'[n] = pass[n]
            \/ /\ SliceAnswers \/ SliceFails
               /\ rearmed' = rearmed
               /\ \A n \in Depths \ {depth} : pass'[n] = pass[n]
               /\ pass'[depth].tried = pass[depth].tried \cup {job.index}
<1> DEFINE Shape(x) == x \in [goal : {x.goal}, tried : SUBSET Nat]
           Goal ==
             /\ DOMAIN pass' = Depths /\ \A n \in Depths : Shape(pass'[n])
             /\ \/ UNCHANGED <<pass, rearmed>>
                \/ Rearm /\ pass' = pass
                \/ /\ Resume /\ Place = 0 /\ rearmed' = FALSE
                   /\ \A n \in Depths \ {depth} : pass'[n] = pass[n]
                \/ /\ SliceAnswers \/ SliceFails
                   /\ rearmed' = rearmed
                   /\ \A n \in Depths \ {depth} : pass'[n] = pass[n]
                   /\ pass'[depth].tried = pass[depth].tried \cup {job.index}
<1>0. /\ DOMAIN pass = Depths /\ depth \in Depths /\ job.index \in Nat
      /\ \A n \in Depths : Shape(pass[n])
  BY DEF CatchupType, Jobs
<1>1. CASE UNCHANGED <<pass, rearmed>>
  BY <1>0, <1>1
<1>2. CASE Rearm
  BY <1>0, <1>2 DEF Rearm
<1>3. CASE Resume /\ Place = 0
  <2> DEFINE new == [NoPass EXCEPT !.goal = Named(Plan)]
  <2>1. pass' = [pass EXCEPT ![depth] = new] /\ rearmed' = FALSE
    BY <1>3 DEF Resume
  <2>2. Shape(new)
    BY DEF NoPass
  <2> HIDE DEF new
  <2>3. /\ DOMAIN pass' = Depths /\ pass'[depth] = new
        /\ \A n \in Depths \ {depth} : pass'[n] = pass[n]
    BY <1>0, <2>1
  <2>4. \A n \in Depths : Shape(pass'[n])
    BY <1>0, <2>2, <2>3
  <2> QED
    BY <1>3, <2>1, <2>3, <2>4
<1>4. ASSUME SliceAnswers \/ SliceFails, NEW new, Shape(new),
             pass' = [pass EXCEPT ![depth] = new],
             new.tried = pass[depth].tried \cup {job.index}
      PROVE  Goal
  <2>1. /\ DOMAIN pass' = Depths /\ pass'[depth] = new
        /\ \A n \in Depths \ {depth} : pass'[n] = pass[n]
    BY <1>0, <1>4
  <2>2. \A n \in Depths : Shape(pass'[n])
    BY <1>0, <1>4, <2>1
  <2>3. rearmed' = rearmed
    BY <1>4 DEF SliceAnswers, SliceFails
  <2> QED
    BY <1>4, <2>1, <2>2, <2>3
<1>5. CASE SliceAnswers
  <2> DEFINE new == [pass[depth] EXCEPT !.tried = pass[depth].tried \cup {job.index}]
  <2>1. pass' = [pass EXCEPT ![depth] = new]
    BY <1>0, <1>5 DEF SliceAnswers
  <2>2. Shape(new) /\ new.tried = pass[depth].tried \cup {job.index}
    BY <1>0
  <2> HIDE DEF new
  <2> QED
    BY <1>4, <1>5, <2>1, <2>2
<1>6. CASE SliceFails
  <2> DEFINE slice == job.plan[job.index + 1]
             left == pass[depth].goal \ Past(slice.source, slice.days)
             new == [pass[depth] EXCEPT !.tried = pass[depth].tried \cup {job.index}, !.goal = left]
  <2>1. pass' = [pass EXCEPT ![depth] = new]
    BY <1>6 DEF SliceFails
  <2> HIDE DEF left
  <2>2. Shape(new) /\ new.tried = pass[depth].tried \cup {job.index}
    BY <1>0
  <2> HIDE DEF new
  <2> QED
    BY <1>4, <1>6, <2>1, <2>2
<1>7. \/ UNCHANGED <<pass, rearmed>>
      \/ Rearm \/ (Resume /\ Place = 0) \/ SliceAnswers \/ SliceFails
  BY DEF Next, vars, Invoke, ReadRecent, ReadFails, OutOfTime, AlreadyDone, Resume,
    CatchupEnds, Close, Interrupted, NewDay, SetDepth
<1> QED
  BY <1>1, <1>2, <1>3, <1>5, <1>6, <1>7

\* What an answer does to the times of its source.
LEMMA ReadingSteps ==
  ASSUME CatchupType, AnswersInOrder, ReadRecent, NEW s \in Source
  PROVE  /\ reads'[s] \in Answers /\ today' = today
         /\ \/ reads'[s] = reads[s]
            \/ /\ reads'[s].first = IF reads[s].first = 0 THEN today ELSE reads[s].first
               /\ reads'[s].last = today
               /\ reads[s].last = 0 => reads'[s].rarest = reads[s].rarest
               /\ reads[s].last # 0 =>
                    reads'[s].rarest >= reads[s].rarest /\ reads'[s].rarest >= today - reads[s].last
               /\ Past(s, Recent(s)) \subseteq asked'
<1> DEFINE source == Head(job.names)
<1>1. /\ reads' = [reads EXCEPT ![source] = Answered(reads[source])]
      /\ Past(source, Recent(source)) \subseteq asked' /\ today' = today
  BY DEF ReadRecent
<1> HIDE DEF source
<1>2. /\ reads[s] \in Answers /\ today \in Nat
      /\ reads[s].first \in Nat /\ reads[s].last \in Nat /\ reads[s].rarest \in Nat
      /\ reads[s].last <= today
  BY DEF CatchupType, AnswersInOrder, Answers
<1>3. CASE s # source
  BY <1>1, <1>2, <1>3 DEF CatchupType
<1>4. CASE s = source
  <2>1. reads'[s] = Answered(reads[s])
    BY <1>1, <1>4 DEF CatchupType
  <2>2. today - reads[s].last \in Nat
    BY <1>2
  <2> DEFINE rarest == IF reads[s].last = 0 \/ today - reads[s].last < reads[s].rarest
                       THEN reads[s].rarest ELSE today - reads[s].last
  <2>3. /\ rarest \in Nat /\ (reads[s].last = 0 => rarest = reads[s].rarest)
        /\ reads[s].last # 0 => rarest >= reads[s].rarest /\ rarest >= today - reads[s].last
    BY <1>2, <2>2
  <2>4. Answered(reads[s]) = [first |-> IF reads[s].first = 0 THEN today ELSE reads[s].first,
                              last |-> today, rarest |-> rarest]
    BY DEF Answered
  <2> HIDE DEF rarest
  <2> QED
    BY <1>1, <1>2, <1>4, <2>1, <2>3, <2>4 DEF Answers
<1> QED
  BY <1>3, <1>4

\* The state keeps its type.
LEMMA CatchupTypeStep ==
  ASSUME CatchupType, AnswersInOrder, [Next]_vars PROVE CatchupType'
<1>1. reads' \in [Source -> Answers] /\ today' \in Nat \ {0}
  <2>1. CASE ReadRecent
    <3>1. \A s \in Source : reads'[s] \in Answers
      BY <2>1, ReadingSteps
    <3>2. reads' \in [Source -> {reads'[s] : s \in Source}]
      BY <2>1 DEF ReadRecent, CatchupType
    <3> QED
      BY <2>1, <3>1, <3>2 DEF ReadRecent, CatchupType
  <2>2. CASE UNCHANGED reads
    BY <2>2, ReadSteps DEF NewDay, CatchupType
  <2> QED
    BY <2>1, <2>2, ReadSteps
<1>2. marker' \in Markers
  <2>1. NoMarker \in Markers /\ marker \in Markers /\ job.write \in Markers
    BY DEF NoMarker, Markers, CatchupType, Jobs
  <2> QED
    BY <2>1, MarkerSteps DEF Close, Rearm, Written
<1>3. depth' \in Depths /\ rearmed' \in BOOLEAN
  <2>1. depth' \in Depths
    BY DEF CatchupType, Next, vars, Invoke, ReadRecent, ReadFails, OutOfTime, AlreadyDone, Resume,
      SliceAnswers, SliceFails, CatchupEnds, Close, Interrupted, Rearm, NewDay, SetDepth
  <2>2. rearmed' \in BOOLEAN
    BY PassSteps DEF CatchupType, Rearm
  <2> QED
    BY <2>1, <2>2
<1> QED
  BY <1>1, <1>2, <1>3, JobSteps, PassSteps DEF CatchupType

\* An answer closes the gap to the one before it, when it comes within the overlap.
LEMMA OverlapStep ==
  ASSUME CatchupType, AnswersInOrder, OverlapCoversMisses, [Next]_vars
  PROVE  AnswersInOrder' /\ OverlapCoversMisses'
<1>0. /\ today \in Nat \ {0} /\ Source = Source'
      /\ \A s \in Source : /\ reads[s].first \in Nat /\ reads[s].last \in Nat
                           /\ reads[s].rarest \in Nat /\ Overlap[s] \in Nat
  BY CatchupAssumption DEF CatchupType, Answers
<1>1. CASE ReadRecent
  <2> SUFFICES ASSUME NEW s \in Source
               PROVE  /\ reads'[s].first <= reads'[s].last /\ reads'[s].last <= today'
                      /\ reads'[s].first = 0 <=> reads'[s].last = 0
                      /\ reads'[s].rarest <= Overlap[s] =>
                           \A d \in reads'[s].first..(reads'[s].last - 1) : <<s, d>> \in asked'
    BY DEF AnswersInOrder, OverlapCoversMisses
  <2>1. /\ reads[s].first <= reads[s].last /\ reads[s].last <= today
        /\ reads[s].first = 0 <=> reads[s].last = 0
        /\ reads[s].rarest <= Overlap[s] =>
             \A d \in reads[s].first..(reads[s].last - 1) : <<s, d>> \in asked'
    BY ReadSteps DEF AnswersInOrder, OverlapCoversMisses
  <2>2. CASE reads'[s] = reads[s]
    BY <1>1, <2>1, <2>2 DEF ReadRecent
  <2>3. CASE reads'[s] # reads[s]
    <3>1. /\ reads'[s].first = IF reads[s].first = 0 THEN today ELSE reads[s].first
          /\ reads'[s].last = today /\ today' = today
          /\ reads[s].last = 0 => reads'[s].rarest = reads[s].rarest
          /\ reads[s].last # 0 =>
               reads'[s].rarest >= reads[s].rarest /\ reads'[s].rarest >= today - reads[s].last
          /\ Past(s, Recent(s)) \subseteq asked' /\ reads'[s].rarest \in Nat
      BY <1>1, <2>3, ReadingSteps DEF Answers
    <3>2. \A d \in Int : today - Overlap[s] <= d /\ d < today => <<s, d>> \in asked'
      BY <1>0, <3>1 DEF Past, Recent
    <3>3. CASE reads[s].last = 0
      BY <1>0, <2>1, <3>1, <3>3
    <3>4. CASE reads[s].last # 0
      <4>1. reads'[s].first = reads[s].first
        BY <2>1, <3>1, <3>4
      <4>2. ASSUME reads'[s].rarest <= Overlap[s],
                   NEW d \in reads'[s].first..(reads'[s].last - 1)
            PROVE  <<s, d>> \in asked'
        <5>1. d \in Int /\ reads[s].first <= d /\ d < today
          BY <1>0, <3>1, <4>1
        <5>2. CASE d < reads[s].last
          <6>1. reads[s].rarest <= Overlap[s]
            BY <1>0, <3>1, <3>4, <4>2
          <6> QED
            BY <1>0, <2>1, <5>1, <5>2, <6>1
        <5>3. CASE d >= reads[s].last
          <6>1. today - reads[s].last <= Overlap[s]
            BY <1>0, <3>1, <3>4, <4>2
          <6>2. today - Overlap[s] <= d
            BY <1>0, <5>1, <5>3, <6>1
          <6> QED
            BY <3>2, <5>1, <6>2
        <5> QED
          BY <1>0, <5>1, <5>2, <5>3
      <4> QED
        BY <1>0, <2>1, <3>1, <3>4, <4>1, <4>2
    <3> QED
      BY <3>3, <3>4
  <2> QED
    BY <2>2, <2>3
<1>2. CASE UNCHANGED reads
  <2>1. today' >= today
    BY <1>0, ReadSteps DEF NewDay
  <2>2. today' \in Nat
    BY <1>0, ReadSteps DEF NewDay
  <2> QED
    BY <1>0, <1>2, <2>1, <2>2, ReadSteps DEF AnswersInOrder, OverlapCoversMisses
<1> QED
  BY <1>1, <1>2, ReadSteps

\* An invocation puts no marker back that was cleared after it had found one.
LEMMA RearmStep ==
  ASSUME CatchupType, OnlyAtTheEnd, FoundTheMarker, RearmRestarts, [Next]_vars
  PROVE  FoundTheMarker' /\ RearmRestarts'
<1>1. CASE Close
  <2>1. job' = NoJob /\ marker' = Written /\ rearmed' = rearmed
    BY <1>1 DEF Close
  <2>2. rearmed => marker' = NoMarker
    BY <2>1 DEF Written, FoundTheMarker, RearmRestarts
  <2> QED
    BY <2>1, <2>2 DEF FoundTheMarker, RearmRestarts, NoJob
<1>2. CASE Rearm
  BY <1>2 DEF Rearm, FoundTheMarker, RearmRestarts
<1>3. CASE marker' = marker /\ ~ Close /\ ~ Rearm
  <2>1. rearmed' => rearmed
    BY <1>3, PassSteps
  <2>2. RearmRestarts'
    BY <1>3, <2>1 DEF RearmRestarts
  <2>3. FoundTheMarker'
    <3>1. CASE UNCHANGED job
      BY <1>3, <2>1, <3>1 DEF FoundTheMarker
    <3>2. CASE job' = NoJob
      BY <3>2 DEF FoundTheMarker, NoJob
    <3>3. CASE job'.phase \in {"group", "close"} /\ job.phase \in {"idle", "group"}
                 /\ job'.write \in {job.write, NoMarker}
      BY <3>3 DEF FoundTheMarker, OnlyAtTheEnd
    <3>4. CASE Resume /\ (job'.hadRow <=> marker # NoMarker)
      <4>1. Place # 0 => marker # NoMarker
        BY DEF Place, NoMarker
      <4>2. rearmed' => marker # NoMarker
        BY <3>4, <4>1, PassSteps DEF Resume
      <4> QED
        BY <1>3, <3>4, <4>2 DEF FoundTheMarker
    <3>5. CASE (SliceAnswers \/ SliceFails) /\ (job'.hadRow <=> job.hadRow)
      <4>1. job.phase = "catchup"
        BY <3>5 DEF SliceAnswers, SliceFails, MayStep
      <4> QED
        BY <1>3, <2>1, <3>5, <4>1 DEF FoundTheMarker
    <3>6. CASE CatchupEnds /\ (job'.hadRow <=> job.hadRow)
      <4>1. job.phase = "catchup"
        BY <3>6 DEF CatchupEnds
      <4> QED
        BY <1>3, <2>1, <3>6, <4>1 DEF FoundTheMarker
    <3> QED
      BY <3>1, <3>2, <3>3, <3>4, <3>5, <3>6, JobSteps
  <2> QED
    BY <2>2, <2>3
<1> QED
  BY <1>1, <1>2, <1>3, MarkerSteps

\* The depth changes between invocations only.
LEMMA DepthSteps ==
  ASSUME [Next]_vars
  PROVE  UNCHANGED depth \/ (job.phase = "idle" /\ UNCHANGED <<job, marker, pass>>)
BY DEF Next, vars, Invoke, ReadRecent, ReadFails, OutOfTime, AlreadyDone, Resume, SliceAnswers,
  SliceFails, CatchupEnds, Close, Interrupted, Rearm, NewDay, SetDepth

\* A place is written at the end of the invocation that has reached it.
LEMMA EndStep ==
  ASSUME CatchupType, OnlyAtTheEnd, [Next]_vars
  PROVE  OnlyAtTheEnd'
<1>1. CASE depth' = depth
  <2>1. job.phase # "close" => job.write = NoMarker
    BY DEF OnlyAtTheEnd
  <2>2. CASE job' = job
    BY <1>1, <2>2 DEF OnlyAtTheEnd
  <2>3. CASE job' = NoJob
    BY <2>3 DEF OnlyAtTheEnd, NoJob
  <2>4. CASE CatchupEnds /\ job'.phase = "close" /\ job'.write.days = depth
    BY <1>1, <2>4 DEF OnlyAtTheEnd
  <2>5. CASE job.phase # "close" /\ job'.write \in {job.write, NoMarker}
    BY <2>1, <2>5 DEF OnlyAtTheEnd
  <2>6. /\ Resume => job.phase = "group"
        /\ SliceAnswers \/ SliceFails => job.phase = "catchup"
    BY DEF Resume, SliceAnswers, SliceFails, MayStep
  <2> QED
    BY <2>2, <2>3, <2>4, <2>5, <2>6, JobSteps
<1>2. CASE job.phase = "idle" /\ job' = job
  BY <1>2 DEF OnlyAtTheEnd
<1> QED
  BY <1>1, <1>2, DepthSteps

\* What was tried stays so, but for a pass that begins.
LEMMA TriedStays ==
  ASSUME CatchupType, [Next]_vars, NEW n \in Depths, NEW index, TriedBehind(pass, n, index),
         ~ (Resume /\ Place = 0 /\ n = depth)
  PROVE  TriedBehind(pass', n, index)
BY PassSteps DEF TriedBehind, Rearm

\* Whatever is behind a place was tried, for each depth that a marker may be for.
LEMMA PlaceStep ==
  ASSUME CatchupType, OnlyAtTheEnd, PlacesAreReached, [Next]_vars
  PROVE  PlacesAreReached'
<1>0. /\ job.index \in Nat /\ depth \in Depths /\ depth' \in Depths /\ marker.index \in Nat
      /\ \A n \in Depths : n # 0
      /\ NoMarker.days = 0
  BY CatchupAssumption, DepthSteps
    DEF CatchupType, Jobs, Markers, NoMarker, Next, vars, Invoke, ReadRecent, ReadFails, OutOfTime,
      AlreadyDone, Resume, SliceAnswers, SliceFails, CatchupEnds, Close, Interrupted, Rearm, NewDay,
      SetDepth
<1>1. ASSUME NEW n \in Depths, marker'.days = n PROVE TriedBehind(pass', n, marker'.index)
  <2>1. CASE Resume /\ Place = 0 /\ n = depth
    <3>1. marker' = marker /\ marker.index = 0
      BY <1>1, <2>1 DEF Resume, Place
    <3> QED
      BY <3>1 DEF TriedBehind
  <2>2. CASE ~ (Resume /\ Place = 0 /\ n = depth)
    <3>1. TriedBehind(pass, n, marker'.index)
      <4>1. CASE marker' = marker
        BY <1>1, <4>1 DEF PlacesAreReached
      <4>2. CASE Close /\ marker' # marker
        <5>1. marker' = job.write /\ job.write # NoMarker
          BY <4>2 DEF Close, Written
        <5> QED
          BY <1>1, <5>1 DEF PlacesAreReached, OnlyAtTheEnd
      <4>3. CASE Rearm
        BY <1>0, <1>1, <4>3 DEF Rearm
      <4> QED
        BY <4>1, <4>2, <4>3, MarkerSteps
    <3> QED
      BY <2>2, <3>1, TriedStays
  <2> QED
    BY <2>1, <2>2
<1>2. ASSUME job'.phase = "catchup" PROVE TriedBehind(pass', depth', job'.index)
  <2>1. CASE job' = job
    <3>1. depth' = depth /\ ~ Resume /\ TriedBehind(pass, depth, job.index)
      BY <1>2, <2>1, DepthSteps DEF PlacesAreReached, Resume
    <3> QED
      BY <1>0, <2>1, <3>1, PassSteps DEF TriedBehind, Rearm
  <2>2. CASE Resume /\ job'.index = Place
    <3>1. depth' = depth
      BY <2>2 DEF Resume
    <3>2. CASE Place = 0
      BY <2>2, <3>2 DEF TriedBehind
    <3>3. CASE Place # 0
      <4>1. marker.days = depth /\ Place = marker.index
        BY <3>3 DEF Place
      <4>2. TriedBehind(pass, depth, Place) /\ pass' = pass
        BY <1>0, <2>2, <3>3, <4>1 DEF PlacesAreReached, Resume
      <4> QED
        BY <2>2, <3>1, <4>2 DEF TriedBehind
    <3> QED
      BY <3>2, <3>3
  <2>3. CASE (SliceAnswers \/ SliceFails) /\ job'.index = job.index + 1
    <3>1. depth' = depth /\ job.phase = "catchup" /\ ~ Resume /\ ~ Rearm
      BY <2>3 DEF SliceAnswers, SliceFails, MayStep, Resume, Rearm
    <3>2. TriedBehind(pass, depth, job.index)
      BY <3>1 DEF PlacesAreReached
    <3>3. pass'[depth].tried = pass[depth].tried \cup {job.index}
      <4>1. CASE SliceAnswers
        BY <1>0, <2>3, <4>1 DEF SliceAnswers, CatchupType
      <4>2. CASE SliceFails
        BY <1>0, <2>3, <4>2 DEF SliceFails, CatchupType
      <4> QED
        BY <2>3, <4>1, <4>2
    <3>4. \A i \in 0..job.index : i \in 0..(job.index - 1) \/ i = job.index
      BY <1>0
    <3>5. \A i \in 0..job.index : i \in pass'[depth].tried
      BY <3>2, <3>3, <3>4 DEF TriedBehind
    <3>6. job'.index - 1 = job.index
      BY <1>0, <2>3
    <3> QED
      BY <3>1, <3>5, <3>6 DEF TriedBehind
  <2> QED
    BY <1>2, <2>1, <2>2, <2>3, JobSteps DEF NoJob
<1>3. ASSUME job'.write # NoMarker PROVE TriedBehind(pass', depth', job'.write.index)
  <2>1. CASE job' = job
    <3>1. job.phase = "close" /\ depth' = depth /\ TriedBehind(pass, depth, job.write.index)
      BY <1>3, <2>1, DepthSteps DEF PlacesAreReached, OnlyAtTheEnd
    <3>2. ~ Resume
      BY <3>1 DEF Resume
    <3> QED
      BY <1>0, <2>1, <3>1, <3>2, PassSteps DEF TriedBehind, Rearm
  <2>2. CASE CatchupEnds /\ job'.write.index = job.index
    <3>1. TriedBehind(pass, depth, job.index) /\ depth' = depth /\ pass' = pass
      BY <2>2 DEF CatchupEnds, PlacesAreReached
    <3> QED
      BY <2>2, <3>1 DEF TriedBehind
  <2>3. job' = job \/ (CatchupEnds /\ job'.write.index = job.index)
    <3>1. /\ Resume => job.phase = "group"
          /\ SliceAnswers \/ SliceFails => job.phase = "catchup"
          /\ NoJob.write = NoMarker
      BY DEF Resume, SliceAnswers, SliceFails, MayStep, NoJob
    <3>2. job.phase # "close" => job.write = NoMarker
      BY DEF OnlyAtTheEnd
    <3> QED
      BY <1>3, <3>1, <3>2, JobSteps
  <2> QED
    BY <2>1, <2>2, <2>3
<1> QED
  BY <1>1, <1>2, <1>3 DEF PlacesAreReached, TriedBehind
-------------------------------------------------------------------------------
\* It holds of every behaviour.
LEMMA CatchupInvariant == Spec => []CatchupInv
<1>1. Init => CatchupInv
  <2> SUFFICES ASSUME Init PROVE CatchupInv
    OBVIOUS
  <2>1. depth \in Nat \ {0} /\ today \in Nat \ {0} /\ today = FirstDay
    BY CatchupAssumption DEF Init
  <2>2. CatchupType
    BY <2>1 DEF Init, CatchupType, Jobs, Phases, Markers, Answers, NoJob, NoMarker, NoPass
  <2>3. AnswersInOrder /\ OverlapCoversMisses
    BY <2>1 DEF Init, AnswersInOrder, OverlapCoversMisses
  <2>4. OnlyAtTheEnd /\ FoundTheMarker /\ RearmRestarts
    BY DEF Init, OnlyAtTheEnd, FoundTheMarker, RearmRestarts, NoJob
  <2>5. PlacesAreReached
    BY <2>1 DEF Init, PlacesAreReached, TriedBehind, NoJob, NoMarker
  <2> QED
    BY <2>2, <2>3, <2>4, <2>5 DEF CatchupInv
<1>2. CatchupInv /\ [Next]_vars => CatchupInv'
  BY CatchupTypeStep, OverlapStep, EndStep, RearmStep, PlaceStep DEF CatchupInv
<1> QED
  BY <1>1, <1>2, PTL DEF Spec

\* Missed invocations lose nothing as long as a source answers once within its overlap.
THEOREM NoDayIsMissed == Spec => []OverlapCoversMisses
BY CatchupInvariant, PTL DEF CatchupInv

\* A repair that clears the marker gets its pass: an invocation in progress does not put
\* the marker back.
THEOREM RepairsAreHeard == Spec => []RearmRestarts
BY CatchupInvariant, PTL DEF CatchupInv

\* Whatever is killed, rearmed or set to another depth, each step of the plan behind the
\* marker was taken in the pass the marker belongs to.
THEOREM NoStepIsSkipped == Spec => []CursorNeverSkips
<1>1. CatchupInv => CursorNeverSkips
  BY DEF CatchupInv, CatchupType, PlacesAreReached, TriedBehind, CursorNeverSkips, Markers
<1> QED
  BY <1>1, CatchupInvariant, PTL
===============================================================================
