------------------------------ MODULE IngestProofs ------------------------------
(***************************************************************************)
(* Proofs about runs and jobs as transactions, for any documents, sources, *)
(* jobs and faults: what a failed run leaves, what a clean run stores, and *)
(* what a rebuild may retire.                                              *)
(***************************************************************************)
EXTENDS Ingest, TLAPS

Slices == [source : Source, docs : SUBSET Doc]

\* What a job keeps, and the type of the tables and of the run in progress.
JobRecord ==
  [active : BOOLEAN, plan : Seq(Slices), prune : BOOLEAN, at : Nat \ {0}, over : BOOLEAN,
   deferred : SUBSET Source, ran : SUBSET Source, failed : SUBSET Source,
   looked : BOOLEAN, doomed : SUBSET Doc, late : SUBSET Doc]

IngestType ==
  /\ listed \subseteq Doc /\ steady \subseteq listed /\ troubled \subseteq Source
  /\ stored \in Tables /\ work \in Tables /\ before \in Tables
  /\ job \in JobRecord /\ run \in RunStats

\* A job in progress is one of the jobs there are; a run belongs to a slice of it.
InJob ==
  /\ job.active => \E j \in Jobs : job.plan = j.plan
  /\ ~ job.active => job = NoJob /\ run = NoRun
  /\ run.phase = "none" => run = NoRun
  /\ run.phase # "none" => job.at <= Len(job.plan)
  /\ job.looked => job.active /\ job.at > Len(job.plan)
  /\ ~ job.looked => job.doomed = {}

\* What is committed the session sees, and annotations at once.
SessionSeesStored ==
  /\ stored.items \subseteq work.items /\ stored.fresh \subseteq work.fresh
  /\ stored.curated = work.curated

\* Until the version pass, a run has committed nothing.
Uncommitted ==
  run.phase \in {"fetch", "versions", "failed"} =>
    /\ stored.items = before.items /\ stored.fresh = before.fresh
    /\ stored.snaps = before.snaps

\* What a run without errors was served, it has reduced, but for the page at hand.
Reduced ==
  ~ run.errors =>
    /\ run.phase \in {"fetch", "versions", "health"} =>
         run.served \ run.page \subseteq work.items \cap work.fresh
    /\ run.phase \in {"versions", "health", "done"} => run.page = {} /\ run.unread = {}
    /\ run.phase = "done" => run.served \subseteq stored.items \cap stored.fresh
    /\ run.phase # "failed"

\* ... and what its slice has listed ever since the job began, it was or will be served.
Served ==
  run.phase # "none" /\ ~ run.errors => steady \cap Slice.docs \subseteq run.unread \cup run.served

\* What a slice that is done has listed ever since the job began has been seen, unless
\* the slice was deferred, disabled or in trouble.
SlicesSeen ==
  \A k \in 1..(job.at - 1) : k \in DOMAIN job.plan =>
    \/ job.plan[k].source \in job.deferred \cup job.failed \cup troubled
    \/ job.plan[k].source \notin Enabled
    \/ job.plan[k].docs \cap steady \subseteq stored.fresh

\* What is to be retired meets what OnlyDroppedAreRetired asks.
DoomedAreDropped ==
  \A d \in job.doomed :
    /\ SourceOf[d] \in Enumerating /\ d \notin stored.curated \ job.late
    /\ SourceOf[d] \in troubled \/ d \notin steady \cap Planned

\* Only sources of enabled adapters run.
RanAreEnabled == job.ran \subseteq Enabled /\ (run.phase # "none" => Slice.source \in Enabled)

\* The inductive invariant of runs and jobs.
IngestInv ==
  /\ IngestType /\ InJob /\ SessionSeesStored /\ Uncommitted /\ Reduced /\ Served
  /\ SlicesSeen /\ DoomedAreDropped /\ RanAreEnabled
-------------------------------------------------------------------------------
\* The steps that change the job.
LEMMA JobSteps ==
  ASSUME [Next]_vars
  PROVE  \/ UNCHANGED job
         \/ Defer \/ SkipDisabled \/ RunRaises \/ Report \/ LookForStale \/ EndJob \/ Killed
         \/ \E j \in Jobs : BeginJob(j)
         \/ \E d \in Doc : Annotate(d)
BY DEF Next, vars, BeginRun, FetchPage, Reduce, ReduceFails, FetchFails, FetchEnds,
       VersionPass, VersionPassFails, RunSucceeds, Publish, Drop

\* The steps that change the run.
LEMMA RunSteps ==
  ASSUME [Next]_vars
  PROVE  \/ UNCHANGED run
         \/ Report \/ BeginRun \/ FetchFails \/ FetchEnds \/ VersionPass \/ VersionPassFails
         \/ RunSucceeds \/ Killed
         \/ \E page \in SUBSET Doc : FetchPage(page)
         \/ \E d \in Doc : Reduce(d)
         \/ \E d \in Doc : ReduceFails(d)
BY DEF Next, vars, BeginJob, Defer, SkipDisabled, RunRaises, LookForStale, EndJob, Publish,
       Drop, Annotate

\* The steps that change the tables, or what is remembered of them.
LEMMA TableSteps ==
  ASSUME [Next]_vars
  PROVE  \/ UNCHANGED <<stored, work, before>>
         \/ Report \/ EndJob \/ BeginRun \/ FetchFails \/ VersionPass \/ VersionPassFails
         \/ RunSucceeds \/ Killed
         \/ \E page \in SUBSET Doc : FetchPage(page)
         \/ \E d \in Doc : Reduce(d)
         \/ \E d \in Doc : ReduceFails(d)
         \/ \E d \in Doc : Annotate(d)
BY DEF Next, vars, BeginJob, Defer, SkipDisabled, RunRaises, LookForStale, FetchEnds,
       Publish, Drop

\* The steps that change what is listed, or what is remembered of it.
LEMMA HistorySteps ==
  ASSUME [Next]_vars
  PROVE  \/ UNCHANGED <<listed, steady, troubled>>
         \/ EndJob \/ RunRaises \/ Report \/ Killed
         \/ \E j \in Jobs : BeginJob(j)
         \/ \E d \in Doc : Publish(d)
         \/ \E d \in Doc : Drop(d)
BY DEF Next, vars, Defer, SkipDisabled, LookForStale, BeginRun, FetchPage, Reduce,
       ReduceFails, FetchFails, FetchEnds, VersionPass, VersionPassFails, RunSucceeds,
       Annotate

\* The slice at hand is one of the plan.
LEMMA SliceType ==
  ASSUME job \in JobRecord, job.at <= Len(job.plan)
  PROVE  Slice \in Slices
BY DEF JobRecord, Slice

\* The tables one starts from are well typed.
LEMMA NoTablesType == NoTables \in Tables
BY IngestAssumption DEF NoTables, Tables

\* Every step keeps the job well typed.
LEMMA JobTypeStep ==
  ASSUME IngestType, InJob, [Next]_vars
  PROVE  job' \in JobRecord
<1>1. ASSUME NEW j \in Jobs, BeginJob(j)
      PROVE  job' \in JobRecord
  <2>1. j.plan \in Seq(Slices) /\ j.prune \in BOOLEAN
    BY IngestAssumption DEF Slices
  <2>2. job' = [NoJob EXCEPT !.active = TRUE, !.plan = j.plan, !.prune = j.prune]
    BY <1>1 DEF BeginJob
  <2>3. NoJob \in JobRecord
    BY DEF JobRecord, NoJob
  <2> QED
    BY <2>1, <2>2, <2>3 DEF JobRecord
<1>2. CASE Defer
  <2>1. Slice.source \in Source
    BY <1>2, SliceType DEF Defer, InPlan, IngestType, Slices
  <2>2. job.at + 1 \in Nat \ {0} /\ job.deferred \cup {Slice.source} \in SUBSET Source
    BY <2>1 DEF JobRecord, IngestType
  <2> QED
    BY <1>2, <2>2 DEF Defer, JobRecord, IngestType
<1>3. CASE SkipDisabled
  BY <1>3 DEF SkipDisabled, JobRecord, IngestType
<1>4. CASE RunRaises
  <2>1. Slice.source \in Source
    BY <1>4, SliceType DEF RunRaises, InPlan, IngestType, Slices
  <2>2. job.at + 1 \in Nat \ {0} /\ job.failed \cup {Slice.source} \in SUBSET Source
    BY <2>1 DEF JobRecord, IngestType
  <2> QED
    BY <1>4, <2>2 DEF RunRaises, JobRecord, IngestType
<1>5. CASE Report
  <2>1. Slice.source \in Source
    BY <1>5, SliceType DEF Report, IngestType, InJob, Slices
  <2>2. job.at + 1 \in Nat \ {0} /\ job.ran \cup {Slice.source} \in SUBSET Source
    BY <2>1 DEF JobRecord, IngestType
  <2> QED
    BY <1>5, <2>2 DEF Report, JobRecord, IngestType
<1>6. CASE LookForStale
  <2>1. Stale \subseteq Doc
    BY DEF Stale, IngestType, Tables
  <2> QED
    BY <1>6, <2>1 DEF LookForStale, JobRecord, IngestType
<1>7. CASE EndJob
  BY <1>7 DEF EndJob, JobRecord, NoJob
<1>8. CASE Killed
  BY <1>8 DEF Killed, JobRecord, NoJob
<1>9. ASSUME NEW d \in Doc, Annotate(d)
      PROVE  job' \in JobRecord
  BY <1>9 DEF Annotate, JobRecord, IngestType
<1>10. CASE UNCHANGED job
  BY <1>10 DEF IngestType
<1> QED
  BY <1>1, <1>2, <1>3, <1>4, <1>5, <1>6, <1>7, <1>8, <1>9, <1>10, JobSteps

\* Every step keeps the run well typed.
LEMMA RunTypeStep ==
  ASSUME IngestType, InJob, [Next]_vars
  PROVE  run' \in RunStats
<1>1. CASE Report
  BY <1>1 DEF Report, RunStats, Phases, NoRun
<1>2. CASE BeginRun
  BY <1>2 DEF BeginRun, RunStats, Phases, IngestType, NoRun
<1>3. ASSUME NEW page \in SUBSET Doc, FetchPage(page)
      PROVE  run' \in RunStats
  BY <1>3 DEF FetchPage, RunStats, IngestType
<1>4. ASSUME NEW d \in Doc, Reduce(d)
      PROVE  run' \in RunStats
  BY <1>4 DEF Reduce, RunStats, IngestType
<1>5. ASSUME NEW d \in Doc, ReduceFails(d)
      PROVE  run' \in RunStats
  BY <1>5 DEF ReduceFails, RunStats, IngestType
<1>6. CASE FetchFails
  BY <1>6 DEF FetchFails, RunStats, Phases, IngestType
<1>7. CASE FetchEnds
  BY <1>7 DEF FetchEnds, RunStats, Phases, IngestType
<1>8. CASE VersionPass
  BY <1>8 DEF VersionPass, RunStats, Phases, IngestType
<1>9. CASE VersionPassFails
  BY <1>9 DEF VersionPassFails, RunStats, Phases, IngestType
<1>10. CASE RunSucceeds
  BY <1>10 DEF RunSucceeds, RunStats, Phases, IngestType
<1>11. CASE Killed
  BY <1>11 DEF Killed, RunStats, Phases, NoRun
<1>12. CASE UNCHANGED run
  BY <1>12 DEF IngestType
<1> QED
  BY <1>1, <1>2, <1>3, <1>4, <1>5, <1>6, <1>7, <1>8, <1>9, <1>10, <1>11, <1>12, RunSteps

\* Every step keeps the tables well typed.
LEMMA TablesTypeStep ==
  ASSUME IngestType, InJob, [Next]_vars
  PROVE  {stored', work', before'} \subseteq Tables
<1>1. CASE Report
  BY <1>1, NoTablesType DEF Report, IngestType
<1>2. CASE EndJob
  <2>1. work' \in Tables
    BY <1>2 DEF EndJob, Tables, IngestType
  <2> QED
    BY <1>2, <2>1 DEF EndJob, IngestType
<1>3. CASE BeginRun
  BY <1>3 DEF BeginRun, IngestType
<1>4. ASSUME NEW page \in SUBSET Doc, FetchPage(page)
      PROVE  {stored', work', before'} \subseteq Tables
  BY <1>4 DEF FetchPage, Tables, IngestType
<1>5. ASSUME NEW d \in Doc, Reduce(d)
      PROVE  {stored', work', before'} \subseteq Tables
  <2>1. work' \in Tables
    BY <1>5 DEF Reduce, Tables, IngestType
  <2> QED
    BY <1>5, <2>1 DEF Reduce, IngestType
<1>6. ASSUME NEW d \in Doc, ReduceFails(d)
      PROVE  {stored', work', before'} \subseteq Tables
  BY <1>6 DEF ReduceFails, IngestType
<1>7. CASE FetchFails
  <2>1. stored.failures \in [Source -> 0..MaxFailures] /\ MaxFailures \in Nat
    BY IngestAssumption DEF Tables, IngestType
  <2>2. Slice.source \in Source
    BY <1>7, SliceType DEF FetchFails, IngestType, InJob, Slices
  <2>3. [stored.failures EXCEPT ![Slice.source] = @ + 1] \in [Source -> 0..MaxFailures]
    BY <1>7, <2>1, <2>2 DEF FetchFails
  <2>4. stored' = [stored EXCEPT !.failures = [stored.failures EXCEPT ![Slice.source] = @ + 1]]
    BY <1>7 DEF FetchFails
  <2>5. stored' \in Tables
    BY <2>3, <2>4 DEF Tables, IngestType
  <2> QED
    BY <1>7, <2>5 DEF FetchFails, IngestType
<1>8. CASE VersionPass
  BY <1>8 DEF VersionPass, IngestType
<1>9. CASE VersionPassFails
  BY <1>9 DEF VersionPassFails, IngestType
<1>10. CASE RunSucceeds
  <2>1. Slice.source \in Source
    BY <1>10, SliceType DEF RunSucceeds, IngestType, InJob, Slices
  <2>2. [work.failures EXCEPT ![Slice.source] = 0] \in [Source -> 0..MaxFailures]
    BY <2>1, IngestAssumption DEF IngestType, Tables
  <2>3. stored' = [work EXCEPT !.failures = [work.failures EXCEPT ![Slice.source] = 0]]
    BY <1>10 DEF RunSucceeds
  <2>4. stored' \in Tables
    BY <2>2, <2>3 DEF Tables, IngestType
  <2> QED
    BY <1>10, <2>4 DEF RunSucceeds, IngestType
<1>11. CASE Killed
  <2>1. stored' \in Tables
    BY <1>11 DEF Killed, Tables, IngestType
  <2> QED
    BY <1>11, <2>1, NoTablesType DEF Killed
<1>12. ASSUME NEW d \in Doc, Annotate(d)
       PROVE  {stored', work', before'} \subseteq Tables
  BY <1>12 DEF Annotate, Tables, IngestType
<1>13. CASE UNCHANGED <<stored, work, before>>
  BY <1>13 DEF IngestType
<1> QED
  BY <1>1, <1>2, <1>3, <1>4, <1>5, <1>6, <1>7, <1>8, <1>9, <1>10, <1>11, <1>12, <1>13,
     TableSteps

\* Every step keeps the histories well typed.
LEMMA HistoryTypeStep ==
  ASSUME IngestType, InJob, [Next]_vars
  PROVE  (listed \subseteq Doc /\ steady \subseteq listed /\ troubled \subseteq Source)'
<1>1. ASSUME NEW j \in Jobs, BeginJob(j)
      PROVE  (listed \subseteq Doc /\ steady \subseteq listed /\ troubled \subseteq Source)'
  BY <1>1 DEF BeginJob, IngestType
<1>2. CASE EndJob
  BY <1>2 DEF EndJob, IngestType
<1>3. CASE RunRaises
  <2>1. Slice.source \in Source
    BY <1>3, SliceType DEF RunRaises, InPlan, IngestType, Slices
  <2> QED
    BY <1>3, <2>1 DEF RunRaises, IngestType
<1>4. CASE Report
  <2>1. Slice.source \in Source
    BY <1>4, SliceType DEF Report, IngestType, InJob, Slices
  <2> QED
    BY <1>4, <2>1 DEF Report, IngestType
<1>5. CASE Killed
  BY <1>5 DEF Killed, IngestType
<1>6. ASSUME NEW d \in Doc, Publish(d)
      PROVE  (listed \subseteq Doc /\ steady \subseteq listed /\ troubled \subseteq Source)'
  BY <1>6 DEF Publish, IngestType
<1>7. ASSUME NEW d \in Doc, Drop(d)
      PROVE  (listed \subseteq Doc /\ steady \subseteq listed /\ troubled \subseteq Source)'
  BY <1>7 DEF Drop, IngestType
<1>8. CASE UNCHANGED <<listed, steady, troubled>>
  BY <1>8 DEF IngestType
<1> QED
  BY <1>1, <1>2, <1>3, <1>4, <1>5, <1>6, <1>7, <1>8, HistorySteps

\* Runs belong to jobs, and jobs to the jobs there are.
LEMMA InJobStep ==
  ASSUME IngestType, InJob, [Next]_vars
  PROVE  InJob'
<1> USE DEF IngestType, InJob
<1>1. ASSUME NEW j \in Jobs, BeginJob(j)
      PROVE  InJob'
  BY <1>1 DEF BeginJob, NoJob
<1>2. CASE Defer
  BY <1>2 DEF Defer, JobRecord, InPlan
<1>3. CASE SkipDisabled
  BY <1>3 DEF SkipDisabled, JobRecord, InPlan
<1>4. CASE RunRaises
  BY <1>4 DEF RunRaises, JobRecord, InPlan
<1>5. CASE Report
  BY <1>5 DEF Report, JobRecord, NoRun
<1>6. CASE LookForStale
  BY <1>6 DEF LookForStale, PlanIsOver
<1>7. CASE EndJob
  BY <1>7 DEF EndJob, NoJob, PlanIsOver
<1>8. CASE BeginRun
  BY <1>8 DEF BeginRun, InPlan
<1>9. ASSUME NEW page \in SUBSET Doc, FetchPage(page)
      PROVE  InJob'
  BY <1>9 DEF FetchPage, NoJob
<1>10. ASSUME NEW d \in Doc, Reduce(d)
       PROVE  InJob'
  BY <1>10 DEF Reduce, NoJob
<1>11. ASSUME NEW d \in Doc, ReduceFails(d)
       PROVE  InJob'
  BY <1>11 DEF ReduceFails, NoJob
<1>12. CASE FetchFails
  BY <1>12 DEF FetchFails, NoJob
<1>13. CASE FetchEnds
  BY <1>13 DEF FetchEnds, NoJob
<1>14. CASE VersionPass
  BY <1>14 DEF VersionPass, NoJob
<1>15. CASE VersionPassFails
  BY <1>15 DEF VersionPassFails, NoJob
<1>16. CASE RunSucceeds
  BY <1>16 DEF RunSucceeds, NoJob
<1>17. CASE Killed
  BY <1>17 DEF Killed, NoJob, NoRun
<1>18. ASSUME NEW d \in Doc, Publish(d)
       PROVE  InJob'
  BY <1>18 DEF Publish
<1>19. ASSUME NEW d \in Doc, Drop(d)
       PROVE  InJob'
  BY <1>19 DEF Drop
<1>20. ASSUME NEW d \in Doc, Annotate(d)
       PROVE  InJob'
  BY <1>20 DEF Annotate
<1>21. CASE UNCHANGED vars
  BY <1>21 DEF vars
<1> QED
  BY <1>1, <1>2, <1>3, <1>4, <1>5, <1>6, <1>7, <1>8, <1>9, <1>10, <1>11, <1>12, <1>13, <1>14,
     <1>15, <1>16, <1>17, <1>18, <1>19, <1>20, <1>21 DEF Next
\* Every step keeps the tables, the job and the run well typed.
LEMMA TypeStep ==
  ASSUME IngestType, InJob, [Next]_vars
  PROVE  IngestType'
BY JobTypeStep, RunTypeStep, TablesTypeStep, HistoryTypeStep DEF IngestType
-------------------------------------------------------------------------------
\* No step commits what the session does not see.
LEMMA SessionStep ==
  ASSUME IngestType, SessionSeesStored, [Next]_vars
  PROVE  SessionSeesStored'
<1> USE DEF IngestType, SessionSeesStored
<1>1. CASE Report
  BY <1>1 DEF Report
<1>2. CASE EndJob
  BY <1>2 DEF EndJob
<1>3. CASE BeginRun
  BY <1>3 DEF BeginRun
<1>4. ASSUME NEW page \in SUBSET Doc, FetchPage(page)
      PROVE  SessionSeesStored'
  BY <1>4 DEF FetchPage
<1>5. ASSUME NEW d \in Doc, Reduce(d)
      PROVE  SessionSeesStored'
  BY <1>5 DEF Reduce
<1>6. ASSUME NEW d \in Doc, ReduceFails(d)
      PROVE  SessionSeesStored'
  BY <1>6 DEF ReduceFails
<1>7. CASE FetchFails
  BY <1>7 DEF FetchFails
<1>8. CASE VersionPass
  BY <1>8 DEF VersionPass
<1>9. CASE VersionPassFails
  BY <1>9 DEF VersionPassFails
<1>10. CASE RunSucceeds
  BY <1>10 DEF RunSucceeds
<1>11. CASE Killed
  BY <1>11 DEF Killed
<1>12. ASSUME NEW d \in Doc, Annotate(d)
       PROVE  SessionSeesStored'
  BY <1>12 DEF Annotate
<1>13. CASE UNCHANGED <<stored, work, before>>
  BY <1>13
<1> QED
  BY <1>1, <1>2, <1>3, <1>4, <1>5, <1>6, <1>7, <1>8, <1>9, <1>10, <1>11, <1>12, <1>13,
     TableSteps
-------------------------------------------------------------------------------
\* Before its version pass, a run commits nothing but a failure.
LEMMA UncommittedStep ==
  ASSUME IngestType, InJob, Uncommitted, [Next]_vars
  PROVE  Uncommitted'
<1> USE DEF IngestType, InJob, Uncommitted
<1>1. CASE Report
  BY <1>1 DEF Report, NoRun
<1>2. CASE EndJob
  BY <1>2 DEF EndJob, PlanIsOver
<1>3. CASE BeginRun
  BY <1>3 DEF BeginRun
<1>4. ASSUME NEW page \in SUBSET Doc, FetchPage(page)
      PROVE  Uncommitted'
  BY <1>4 DEF FetchPage
<1>5. ASSUME NEW d \in Doc, Reduce(d)
      PROVE  Uncommitted'
  BY <1>5 DEF Reduce
<1>6. ASSUME NEW d \in Doc, ReduceFails(d)
      PROVE  Uncommitted'
  BY <1>6 DEF ReduceFails
<1>7. CASE FetchFails
  BY <1>7 DEF FetchFails
<1>8. CASE FetchEnds
  BY <1>8 DEF FetchEnds
<1>9. CASE VersionPass
  BY <1>9 DEF VersionPass
<1>10. CASE VersionPassFails
  BY <1>10 DEF VersionPassFails
<1>11. CASE RunSucceeds
  BY <1>11 DEF RunSucceeds
<1>12. CASE Killed
  BY <1>12 DEF Killed, NoRun
<1>13. ASSUME NEW d \in Doc, Annotate(d)
       PROVE  Uncommitted'
  BY <1>13 DEF Annotate
<1>14. CASE UNCHANGED <<stored, work, before, run>>
  BY <1>14
<1> QED
  BY <1>1, <1>2, <1>3, <1>4, <1>5, <1>6, <1>7, <1>8, <1>9, <1>10, <1>11, <1>12, <1>13, <1>14,
     RunSteps, TableSteps
-------------------------------------------------------------------------------
\* A run that loses a record has an error.
LEMMA ReducedStep ==
  ASSUME IngestType, InJob, Reduced, [Next]_vars
  PROVE  Reduced'
<1> USE DEF IngestType, InJob, Reduced
<1>1. CASE Report
  BY <1>1 DEF Report, NoRun
<1>2. CASE EndJob
  BY <1>2 DEF EndJob, PlanIsOver
<1>3. CASE BeginRun
  BY <1>3 DEF BeginRun, NoRun
<1>4. ASSUME NEW page \in SUBSET Doc, FetchPage(page)
      PROVE  Reduced'
  BY <1>4 DEF FetchPage
<1>5. ASSUME NEW d \in Doc, Reduce(d)
      PROVE  Reduced'
  BY <1>5 DEF Reduce
<1>6. ASSUME NEW d \in Doc, ReduceFails(d)
      PROVE  Reduced'
  BY <1>6 DEF ReduceFails
<1>7. CASE FetchFails
  BY <1>7 DEF FetchFails
<1>8. CASE FetchEnds
  BY <1>8 DEF FetchEnds
<1>9. CASE VersionPass
  BY <1>9 DEF VersionPass, RunStats
<1>10. CASE VersionPassFails
  BY <1>10 DEF VersionPassFails
<1>11. CASE RunSucceeds
  BY <1>11 DEF RunSucceeds
<1>12. CASE Killed
  BY <1>12 DEF Killed, NoRun
<1>13. ASSUME NEW d \in Doc, Annotate(d)
       PROVE  Reduced'
  BY <1>13 DEF Annotate
<1>14. CASE UNCHANGED <<stored, work, before, run>>
  BY <1>14
<1> QED
  BY <1>1, <1>2, <1>3, <1>4, <1>5, <1>6, <1>7, <1>8, <1>9, <1>10, <1>11, <1>12, <1>13, <1>14,
     RunSteps, TableSteps
-------------------------------------------------------------------------------
\* What a run has not been served yet, it will be.
LEMMA ServedStep ==
  ASSUME IngestType, InJob, Served, [Next]_vars
  PROVE  Served'
<1> USE DEF IngestType, InJob, Served
<1>1. ASSUME NEW j \in Jobs, BeginJob(j)
      PROVE  Served'
  BY <1>1 DEF BeginJob, NoRun
<1>2. CASE Defer
  BY <1>2 DEF Defer, InPlan
<1>3. CASE SkipDisabled
  BY <1>3 DEF SkipDisabled, InPlan
<1>4. CASE RunRaises
  BY <1>4 DEF RunRaises, InPlan
<1>5. CASE Report
  BY <1>5 DEF Report, NoRun
<1>6. CASE LookForStale
  BY <1>6 DEF LookForStale, Slice
<1>7. CASE EndJob
  BY <1>7 DEF EndJob
<1>8. CASE BeginRun
  BY <1>8 DEF BeginRun, Slice
<1>9. ASSUME NEW page \in SUBSET Doc, FetchPage(page)
      PROVE  Served'
  BY <1>9 DEF FetchPage, Slice
<1>10. ASSUME NEW d \in Doc, Reduce(d)
       PROVE  Served'
  BY <1>10 DEF Reduce, Slice
<1>11. ASSUME NEW d \in Doc, ReduceFails(d)
       PROVE  Served'
  BY <1>11 DEF ReduceFails
<1>12. CASE FetchFails
  BY <1>12 DEF FetchFails
<1>13. CASE FetchEnds
  BY <1>13 DEF FetchEnds, Slice
<1>14. CASE VersionPass
  BY <1>14 DEF VersionPass, Slice, RunStats
<1>15. CASE VersionPassFails
  BY <1>15 DEF VersionPassFails
<1>16. CASE RunSucceeds
  BY <1>16 DEF RunSucceeds, Slice
<1>17. CASE Killed
  BY <1>17 DEF Killed
<1>18. ASSUME NEW d \in Doc, Publish(d)
       PROVE  Served'
  BY <1>18 DEF Publish, Slice
<1>19. ASSUME NEW d \in Doc, Drop(d)
       PROVE  Served'
  BY <1>19 DEF Drop, Slice
<1>20. ASSUME NEW d \in Doc, Annotate(d)
       PROVE  Served'
  BY <1>20 DEF Annotate, Slice
<1>21. CASE UNCHANGED vars
  BY <1>21 DEF vars, Slice
<1> QED
  BY <1>1, <1>2, <1>3, <1>4, <1>5, <1>6, <1>7, <1>8, <1>9, <1>10, <1>11, <1>12, <1>13, <1>14,
     <1>15, <1>16, <1>17, <1>18, <1>19, <1>20, <1>21 DEF Next
-------------------------------------------------------------------------------
\* Disabled sources do not run.
LEMMA RanStep ==
  ASSUME IngestType, InJob, RanAreEnabled, [Next]_vars
  PROVE  RanAreEnabled'
<1> USE DEF IngestType, InJob, RanAreEnabled
<1>1. ASSUME NEW j \in Jobs, BeginJob(j)
      PROVE  RanAreEnabled'
  BY <1>1 DEF BeginJob, NoRun
<1>2. CASE Defer
  BY <1>2 DEF Defer, InPlan
<1>3. CASE SkipDisabled
  BY <1>3 DEF SkipDisabled
<1>4. CASE RunRaises
  BY <1>4 DEF RunRaises, InPlan
<1>5. CASE Report
  BY <1>5 DEF Report, NoRun
<1>6. CASE LookForStale
  BY <1>6 DEF LookForStale, Slice
<1>7. CASE EndJob
  BY <1>7 DEF EndJob, NoJob, PlanIsOver
<1>8. CASE BeginRun
  BY <1>8 DEF BeginRun, Slice
<1>9. ASSUME NEW page \in SUBSET Doc, FetchPage(page)
      PROVE  RanAreEnabled'
  BY <1>9 DEF FetchPage, Slice
<1>10. ASSUME NEW d \in Doc, Reduce(d)
       PROVE  RanAreEnabled'
  BY <1>10 DEF Reduce, Slice
<1>11. ASSUME NEW d \in Doc, ReduceFails(d)
       PROVE  RanAreEnabled'
  BY <1>11 DEF ReduceFails, Slice
<1>12. CASE FetchFails
  BY <1>12 DEF FetchFails, Slice
<1>13. CASE FetchEnds
  BY <1>13 DEF FetchEnds, Slice
<1>14. CASE VersionPass
  BY <1>14 DEF VersionPass, Slice
<1>15. CASE VersionPassFails
  BY <1>15 DEF VersionPassFails, Slice
<1>16. CASE RunSucceeds
  BY <1>16 DEF RunSucceeds, Slice
<1>17. CASE Killed
  BY <1>17 DEF Killed, NoRun, NoJob
<1>18. ASSUME NEW d \in Doc, Publish(d)
       PROVE  RanAreEnabled'
  BY <1>18 DEF Publish, Slice
<1>19. ASSUME NEW d \in Doc, Drop(d)
       PROVE  RanAreEnabled'
  BY <1>19 DEF Drop, Slice
<1>20. ASSUME NEW d \in Doc, Annotate(d)
       PROVE  RanAreEnabled'
  BY <1>20 DEF Annotate, Slice
<1>21. CASE UNCHANGED vars
  BY <1>21 DEF vars, Slice
<1> QED
  BY <1>1, <1>2, <1>3, <1>4, <1>5, <1>6, <1>7, <1>8, <1>9, <1>10, <1>11, <1>12, <1>13, <1>14,
     <1>15, <1>16, <1>17, <1>18, <1>19, <1>20, <1>21 DEF Next
-------------------------------------------------------------------------------
\* The next slice's turn comes when the one at hand has been seen, or why not is known.
LEMMA NextSlice ==
  ASSUME IngestInv, job.at <= Len(job.plan),
         job'.plan = job.plan, job'.at = job.at + 1, UNCHANGED <<stored, steady>>,
         job.deferred \cup job.failed \cup troubled
           \subseteq job'.deferred \cup job'.failed \cup troubled',
         \/ Slice.source \in job'.deferred \cup job'.failed \cup troubled'
         \/ Slice.source \notin Enabled
         \/ Slice.docs \cap steady \subseteq stored.fresh
  PROVE  SlicesSeen'
<1>1. job.at \in Nat \ {0} /\ Len(job.plan) \in Nat
  BY DEF IngestInv, IngestType, JobRecord
<1>2. ASSUME NEW k \in 1..(job'.at - 1), k \in DOMAIN job'.plan
      PROVE  \/ job'.plan[k].source \in job'.deferred \cup job'.failed \cup troubled'
             \/ job'.plan[k].source \notin Enabled
             \/ job'.plan[k].docs \cap steady' \subseteq stored'.fresh
  <2>1. CASE k = job.at
    BY <2>1 DEF Slice
  <2>2. CASE k # job.at
    <3>1. k \in 1..(job.at - 1) /\ k \in DOMAIN job.plan
      BY <1>1, <1>2, <2>2
    <3> QED
      BY <3>1 DEF IngestInv, SlicesSeen
  <2> QED
    BY <2>1, <2>2
<1> QED
  BY <1>2 DEF SlicesSeen

\* A run without errors has seen what its slice listed all the time.
LEMMA SlicesSeenStep ==
  ASSUME IngestInv, [Next]_vars
  PROVE  SlicesSeen'
<1>1. ASSUME NEW j \in Jobs, BeginJob(j)
      PROVE  SlicesSeen'
  BY <1>1 DEF BeginJob, SlicesSeen, NoJob
<1>2. CASE Defer
  <2>1. /\ job'.plan = job.plan /\ job'.at = job.at + 1 /\ UNCHANGED <<stored, steady, troubled>>
        /\ job'.deferred = job.deferred \cup {Slice.source} /\ job'.failed = job.failed
    BY <1>2 DEF Defer
  <2> QED
    BY <1>2, <2>1, NextSlice DEF Defer, InPlan
<1>3. CASE SkipDisabled
  <2>1. /\ job'.plan = job.plan /\ job'.at = job.at + 1 /\ UNCHANGED <<stored, steady, troubled>>
        /\ job'.deferred = job.deferred /\ job'.failed = job.failed
    BY <1>3 DEF SkipDisabled
  <2> QED
    BY <1>3, <2>1, NextSlice DEF SkipDisabled, InPlan
<1>4. CASE RunRaises
  <2>1. /\ job'.plan = job.plan /\ job'.at = job.at + 1 /\ UNCHANGED <<stored, steady>>
        /\ job'.deferred = job.deferred /\ job'.failed = job.failed \cup {Slice.source}
        /\ troubled \subseteq troubled'
    BY <1>4 DEF RunRaises
  <2> QED
    BY <1>4, <2>1, NextSlice DEF RunRaises, InPlan
<1>5. CASE Report
  <2>1. /\ job'.plan = job.plan /\ job'.at = job.at + 1 /\ UNCHANGED <<stored, steady>>
        /\ job'.deferred = job.deferred /\ job'.failed = job.failed
        /\ troubled \subseteq troubled' /\ (run.errors => Slice.source \in troubled')
    BY <1>5 DEF Report
  <2>2. job.at <= Len(job.plan)
    BY <1>5 DEF Report, IngestInv, InJob
  <2>3. ~ run.errors => Slice.docs \cap steady \subseteq stored.fresh
    BY <1>5 DEF Report, IngestInv, Served, Reduced
  <2> QED
    BY <2>1, <2>2, <2>3, NextSlice
<1>6. CASE LookForStale
  BY <1>6 DEF LookForStale, SlicesSeen, IngestInv
<1>7. CASE EndJob
  BY <1>7 DEF EndJob, SlicesSeen
<1>8. CASE BeginRun
  BY <1>8 DEF BeginRun, SlicesSeen, IngestInv
<1>9. ASSUME NEW page \in SUBSET Doc, FetchPage(page)
      PROVE  SlicesSeen'
  BY <1>9 DEF FetchPage, SlicesSeen, IngestInv
<1>10. ASSUME NEW d \in Doc, Reduce(d)
       PROVE  SlicesSeen'
  BY <1>10 DEF Reduce, SlicesSeen, IngestInv
<1>11. ASSUME NEW d \in Doc, ReduceFails(d)
       PROVE  SlicesSeen'
  BY <1>11 DEF ReduceFails, SlicesSeen, IngestInv
<1>12. CASE FetchFails
  BY <1>12 DEF FetchFails, SlicesSeen, IngestInv
<1>13. CASE FetchEnds
  BY <1>13 DEF FetchEnds, SlicesSeen, IngestInv
<1>14. CASE VersionPass
  BY <1>14 DEF VersionPass, SlicesSeen, IngestInv, SessionSeesStored
<1>15. CASE VersionPassFails
  BY <1>15 DEF VersionPassFails, SlicesSeen, IngestInv
<1>16. CASE RunSucceeds
  BY <1>16 DEF RunSucceeds, SlicesSeen, IngestInv, SessionSeesStored
<1>17. CASE Killed
  BY <1>17 DEF Killed, SlicesSeen
<1>18. ASSUME NEW d \in Doc, Publish(d)
       PROVE  SlicesSeen'
  BY <1>18 DEF Publish, SlicesSeen, IngestInv
<1>19. ASSUME NEW d \in Doc, Drop(d)
       PROVE  SlicesSeen'
  BY <1>19 DEF Drop, SlicesSeen, IngestInv
<1>20. ASSUME NEW d \in Doc, Annotate(d)
       PROVE  SlicesSeen'
  BY <1>20 DEF Annotate, SlicesSeen, IngestInv
<1>21. CASE UNCHANGED vars
  BY <1>21 DEF vars, SlicesSeen, IngestInv
<1> QED
  BY <1>1, <1>2, <1>3, <1>4, <1>5, <1>6, <1>7, <1>8, <1>9, <1>10, <1>11, <1>12, <1>13, <1>14,
     <1>15, <1>16, <1>17, <1>18, <1>19, <1>20, <1>21 DEF Next
-------------------------------------------------------------------------------
\* What is doomed stays dropped, though annotations come late.
LEMMA DoomedStep ==
  ASSUME IngestInv, [Next]_vars
  PROVE  DoomedAreDropped'
<1>1. ASSUME NEW j \in Jobs, BeginJob(j)
      PROVE  DoomedAreDropped'
  BY <1>1 DEF BeginJob, DoomedAreDropped, NoJob
<1>2. CASE Defer
  BY <1>2 DEF Defer, DoomedAreDropped, IngestInv, IngestType, JobRecord, InJob, InPlan
<1>3. CASE SkipDisabled
  BY <1>3 DEF SkipDisabled, DoomedAreDropped, IngestInv, IngestType, JobRecord, InJob, InPlan
<1>4. CASE RunRaises
  BY <1>4 DEF RunRaises, DoomedAreDropped, IngestInv, IngestType, JobRecord, InJob, InPlan
<1>5. CASE Report
  BY <1>5 DEF Report, DoomedAreDropped, IngestInv, IngestType, JobRecord, InJob
<1>6. CASE LookForStale
  <2> SUFFICES ASSUME NEW d \in Stale
               PROVE  /\ SourceOf[d] \in Enumerating /\ d \notin stored.curated
                      /\ SourceOf[d] \in troubled \/ d \notin steady \cap Planned
    <3>1. job' = [job EXCEPT !.looked = TRUE, !.doomed = Stale]
      BY <1>6 DEF LookForStale
    <3>2. job'.doomed = Stale /\ job'.plan = job.plan /\ UNCHANGED <<stored, steady, troubled>>
      BY <1>6, <3>1 DEF LookForStale
    <3> QED
      BY <3>2 DEF DoomedAreDropped, Planned
  <2>1. SourceOf[d] \in Enumerating /\ d \notin stored.curated
    BY DEF Stale, IngestInv, SessionSeesStored
  <2>2. ASSUME SourceOf[d] \notin troubled, d \in steady, d \in Planned
        PROVE  FALSE
    <3>1. PICK k \in DOMAIN job.plan : d \in job.plan[k].docs
      BY <2>2 DEF Planned
    <3>2. SourceOf[d] = job.plan[k].source
      BY <1>6, <3>1, IngestAssumption DEF LookForStale, PlanIsOver, IngestInv, InJob
    <3>3. k \in 1..(job.at - 1)
      BY <1>6, <3>1 DEF LookForStale, PlanIsOver, IngestInv, IngestType, JobRecord
    <3>4. SourceOf[d] \in Enabled \ job.failed /\ job.deferred = {}
      BY <1>6 DEF Stale, LookForStale, MayPrune, IngestInv, RanAreEnabled
    <3>5. d \in stored.fresh
      BY <2>2, <3>1, <3>2, <3>3, <3>4 DEF IngestInv, SlicesSeen
    <3> QED
      BY <3>5 DEF Stale, IngestInv, SessionSeesStored
  <2> QED
    BY <2>1, <2>2
<1>7. CASE EndJob
  BY <1>7 DEF EndJob, DoomedAreDropped, NoJob
<1>8. CASE BeginRun
  BY <1>8 DEF BeginRun, DoomedAreDropped, IngestInv, IngestType, JobRecord, InJob, InPlan
<1>9. ASSUME NEW page \in SUBSET Doc, FetchPage(page)
      PROVE  DoomedAreDropped'
  BY <1>9 DEF FetchPage, DoomedAreDropped, IngestInv, IngestType, JobRecord, InJob
<1>10. ASSUME NEW d \in Doc, Reduce(d)
       PROVE  DoomedAreDropped'
  BY <1>10 DEF Reduce, DoomedAreDropped, IngestInv, IngestType, JobRecord, InJob
<1>11. ASSUME NEW d \in Doc, ReduceFails(d)
       PROVE  DoomedAreDropped'
  BY <1>11 DEF ReduceFails, DoomedAreDropped, IngestInv, IngestType, JobRecord, InJob
<1>12. CASE FetchFails
  BY <1>12 DEF FetchFails, DoomedAreDropped, IngestInv, IngestType, JobRecord, InJob
<1>13. CASE FetchEnds
  BY <1>13 DEF FetchEnds, DoomedAreDropped, IngestInv, IngestType, JobRecord, InJob
<1>14. CASE VersionPass
  BY <1>14 DEF VersionPass, DoomedAreDropped, IngestInv, IngestType, JobRecord, InJob
<1>15. CASE VersionPassFails
  BY <1>15 DEF VersionPassFails, DoomedAreDropped, IngestInv, IngestType, JobRecord, InJob
<1>16. CASE RunSucceeds
  BY <1>16 DEF RunSucceeds, DoomedAreDropped, IngestInv, IngestType, JobRecord, InJob
<1>17. CASE Killed
  BY <1>17 DEF Killed, DoomedAreDropped, NoJob
<1>18. ASSUME NEW d \in Doc, Publish(d)
       PROVE  DoomedAreDropped'
  BY <1>18 DEF Publish, DoomedAreDropped, IngestInv, Planned
<1>19. ASSUME NEW d \in Doc, Drop(d)
       PROVE  DoomedAreDropped'
  BY <1>19 DEF Drop, DoomedAreDropped, IngestInv, Planned
<1>20. ASSUME NEW d \in Doc, Annotate(d)
       PROVE  DoomedAreDropped'
  BY <1>20 DEF Annotate, DoomedAreDropped, IngestInv, InJob, Planned
<1>21. CASE UNCHANGED vars
  BY <1>21 DEF vars, DoomedAreDropped, IngestInv, Planned
<1> QED
  BY <1>1, <1>2, <1>3, <1>4, <1>5, <1>6, <1>7, <1>8, <1>9, <1>10, <1>11, <1>12, <1>13, <1>14,
     <1>15, <1>16, <1>17, <1>18, <1>19, <1>20, <1>21 DEF Next
-------------------------------------------------------------------------------
\* Nothing is listed or stored for a job that has not begun.
LEMMA InvInit == Init => IngestInv
<1> SUFFICES ASSUME Init PROVE IngestInv
  OBVIOUS
<1>1. NoJob \in JobRecord /\ NoRun \in RunStats
  BY DEF NoJob, NoRun, JobRecord, RunStats, Phases
<1>2. IngestType
  BY <1>1, NoTablesType DEF Init, IngestType
<1>3. InJob /\ SessionSeesStored /\ Uncommitted /\ Reduced /\ Served
  BY DEF Init, NoJob, NoRun, InJob, SessionSeesStored, Uncommitted, Reduced, Served
<1>4. SlicesSeen /\ DoomedAreDropped /\ RanAreEnabled
  BY DEF Init, NoJob, NoRun, SlicesSeen, DoomedAreDropped, RanAreEnabled
<1> QED
  BY <1>2, <1>3, <1>4 DEF IngestInv

\* Every step keeps every part.
LEMMA InvStep == IngestInv /\ [Next]_vars => IngestInv'
<1> SUFFICES ASSUME IngestInv, [Next]_vars PROVE IngestInv'
  OBVIOUS
<1>1. (IngestType /\ InJob /\ SessionSeesStored)'
  BY TypeStep, InJobStep, SessionStep DEF IngestInv
<1>2. (Uncommitted /\ Reduced /\ Served)'
  BY UncommittedStep, ReducedStep, ServedStep DEF IngestInv
<1>3. (SlicesSeen /\ DoomedAreDropped /\ RanAreEnabled)'
  BY SlicesSeenStep, DoomedStep, RanStep DEF IngestInv
<1> QED
  BY <1>1, <1>2, <1>3 DEF IngestInv

\* Every reachable state satisfies the invariant.
LEMMA InvAlways == Spec => []IngestInv
BY InvInit, InvStep, PTL DEF Spec

\* A run whose source stops answering, at whatever page, leaves the tables as it found
\* them, but for its failure and for people's annotations (runner.run_adapter rolls back).
THEOREM FailureIsUndone == Spec => []FailedRunLeavesNoTrace
<1>1. IngestInv => FailedRunLeavesNoTrace
  BY DEF IngestInv, Uncommitted, FailedRunLeavesNoTrace
<1> QED
  BY <1>1, InvAlways, PTL

\* A run that reports no error has stored every document that it was served.
THEOREM CleanRunIsComplete == Spec => []CleanRunStoresAll
<1>1. IngestInv => CleanRunStoresAll
  BY DEF IngestInv, Reduced, CleanRunStoresAll
<1> QED
  BY <1>1, InvAlways, PTL

\* The step form of OnlyDroppedAreRetired.
RetiresOnlyDropped ==
  \A d \in stored.items \ stored'.items :
    /\ SourceOf[d] \in Enumerating /\ d \notin stored.curated \ job.late
    /\ SourceOf[d] \in troubled \/ d \notin steady \cap Planned

\* Only the end of a job takes items away, and only those it has doomed.
LEMMA RetireSteps == IngestInv /\ [Next]_vars => [RetiresOnlyDropped]_vars
<1> SUFFICES ASSUME IngestInv, [Next]_vars,
                    NEW d \in stored.items, d \notin stored'.items
             PROVE  d \in job.doomed
  BY DEF RetiresOnlyDropped, IngestInv, DoomedAreDropped
<1>1. stored \in Tables /\ work \in Tables /\ stored.items \subseteq work.items
  BY DEF IngestInv, IngestType, SessionSeesStored
<1>2. CASE EndJob
  BY <1>1, <1>2 DEF EndJob
<1>3. CASE FetchFails \/ VersionPass \/ RunSucceeds \/ Killed
  BY <1>1, <1>3 DEF FetchFails, VersionPass, RunSucceeds, Killed, Tables
<1>4. CASE \E c \in Doc : Annotate(c)
  BY <1>1, <1>4 DEF Annotate
<1>5. CASE UNCHANGED stored
  BY <1>5
<1>6. \/ EndJob \/ FetchFails \/ VersionPass \/ RunSucceeds \/ Killed
      \/ \E c \in Doc : Annotate(c)
      \/ UNCHANGED stored
  BY DEF Next, vars, BeginJob, Defer, SkipDisabled, RunRaises, Report, LookForStale,
         BeginRun, FetchPage, Reduce, ReduceFails, FetchEnds, VersionPassFails, Publish, Drop
<1> QED
  BY <1>2, <1>3, <1>4, <1>5, <1>6

\* A rebuild retires nothing that its sources kept listing while it ran, that was in a
\* deferred slice or lost to a kill or a rollback, or that a person annotated in time
\* (rebuild.prune_stale), unless a run of its source reported an error.
THEOREM RebuildRetiresDropped == Spec => OnlyDroppedAreRetired
<1>1. OnlyDroppedAreRetired <=> [][RetiresOnlyDropped]_vars
  BY DEF OnlyDroppedAreRetired, RetiresOnlyDropped
<1> QED
  BY <1>1, RetireSteps, InvAlways, PTL DEF Spec
===============================================================================
