-------------------------------- MODULE Ingest --------------------------------
(***************************************************************************)
(* Adapter runs as transactions, and the jobs that chain them: the daily   *)
(* group, the backfill and the rebuild, which ends by retiring what its    *)
(* sources no longer list.                                                 *)
(*                                                                         *)
(* What a document does to the tables is the subject of module Pipeline;   *)
(* here a row is an item, present or not. `stored` is what is committed,   *)
(* `work` what the job's session sees; a rollback makes them equal again.  *)
(* A page's snapshot row is named by the page's content (content           *)
(* addressing). Sources fail, records fail, the version pass fails, the    *)
(* process is killed, and meanwhile sources publish and drop documents and *)
(* people annotate items.                                                  *)
(***************************************************************************)
EXTENDS Naturals, Sequences, FiniteSets

CONSTANTS
  Doc,         \* documents; an item is named by the document it came from
  Source,
  SourceOf,    \* [Doc -> Source]
  Enumerating, \* the sources that list their whole corpus
  Enabled,     \* the sources whose adapters are enabled
  Jobs,        \* [plan: sequence of [source, docs] slices, prune: BOOLEAN] records
  Faults,      \* what may go wrong: "setup", "record", "source", "versions", "kill"
  Annotatable, \* bound: the items people may annotate
  MaxFailures  \* bound: consecutive failures of one source

ASSUME IngestAssumption ==
  /\ SourceOf \in [Doc -> Source] /\ Enumerating \subseteq Source /\ Enabled \subseteq Source
  /\ Jobs \subseteq [plan : Seq([source : Source, docs : SUBSET Doc]), prune : BOOLEAN]
  /\ \A j \in Jobs : \A k \in DOMAIN j.plan :
       \A d \in j.plan[k].docs : SourceOf[d] = j.plan[k].source
  /\ MaxFailures \in Nat \ {0}

VARIABLES
  listed,   \* what the sources list now
  stored,   \* the committed tables
  work,     \* the tables as the job's session sees them
  job,      \* the job in progress: RebuildReport and the position in its plan
  run,      \* the adapter run in progress: RunStats and the position in its pages
  before,   \* history of the run: `stored` when it began
  steady,   \* history of the job: what has been listed ever since it began
  troubled  \* history of the job: the sources of which a run reported an error

vars == <<listed, stored, work, job, run, before, steady, troubled>>

Tables == [items : SUBSET Doc,           \* pipeline_item rows
           fresh : SUBSET Doc,           \* ... with last_seen_at since the job in
                                         \* progress began
           curated : SUBSET Doc,         \* ... with a date a person asserted
           snaps : SUBSET (SUBSET Doc),  \* snapshot rows, by content
           failures : [Source -> 0..MaxFailures]]  \* adapter_health

NoTables == [items |-> {}, fresh |-> {}, curated |-> {}, snaps |-> {},
             failures |-> [s \in Source |-> 0]]

Phases == {"none", "fetch", "versions", "health", "done", "failed"}
RunStats == [phase : Phases,
             unread : SUBSET Doc,     \* what the source has still to serve
             page : SUBSET Doc,       \* records of the page not yet reduced
             snapshot : SUBSET Doc,   \* the page's content
             served : SUBSET Doc,     \* records of all pages so far
             counted : SUBSET Doc,    \* records counted as reduced (items)
             errors : BOOLEAN]

NoRun  == [phase |-> "none", unread |-> {}, page |-> {}, snapshot |-> {},
           served |-> {}, counted |-> {}, errors |-> FALSE]

NoJob  == [active |-> FALSE, plan |-> <<>>, prune |-> FALSE, at |-> 1, over |-> FALSE,
           deferred |-> {}, ran |-> {}, failed |-> {},
           looked |-> FALSE, doomed |-> {},  \* prune_stale, between its queries
           late |-> {}]     \* history: the items annotated after it had looked

Slice == job.plan[job.at]
Planned == UNION {job.plan[k].docs : k \in DOMAIN job.plan}
-------------------------------------------------------------------------------
(* The job: run_plan, then prune_stale.                                       *)

\* rebuild, backfill or run_group begins.
BeginJob(j) ==
  /\ ~ job.active
  /\ job' = [NoJob EXCEPT !.active = TRUE, !.plan = j.plan, !.prune = j.prune]
  /\ steady' = listed
  /\ UNCHANGED <<listed, stored, work, run, before, troubled>>

InPlan == job.active /\ run.phase = "none" /\ job.at <= Len(job.plan)

\* The time budget runs out: this slice and those after it are deferred.
Defer ==
  /\ InPlan
  /\ job' = [job EXCEPT !.over = TRUE, !.at = @ + 1, !.deferred = @ \cup {Slice.source}]
  /\ UNCHANGED <<listed, stored, work, run, before, steady, troubled>>

SkipDisabled ==
  /\ InPlan /\ ~ job.over /\ Slice.source \notin Enabled
  /\ job' = [job EXCEPT !.at = @ + 1]
  /\ UNCHANGED <<listed, stored, work, run, before, steady, troubled>>

\* run_adapter raises before its own handlers are set up (no storage token).
RunRaises ==
  /\ "setup" \in Faults /\ InPlan /\ ~ job.over /\ Slice.source \in Enabled
  /\ job' = [job EXCEPT !.at = @ + 1, !.failed = @ \cup {Slice.source}]
  /\ troubled' = troubled \cup {Slice.source}
  /\ UNCHANGED <<listed, stored, work, run, before, steady>>

\* run_plan reports a run that returned, whatever its stats say.
Report ==
  /\ run.phase \in {"done", "failed"}
  /\ job' = [job EXCEPT !.at = @ + 1, !.ran = @ \cup {Slice.source}]
  /\ troubled' = IF run.errors THEN troubled \cup {Slice.source} ELSE troubled
  /\ run' = NoRun /\ before' = NoTables
  /\ UNCHANGED <<listed, stored, work, steady>>

\* Mutant of MayPrune: a job that ran out of time retires as well.
PruneAlways == job.prune

MayPrune == job.prune /\ job.deferred = {}

\* prune_stale: the items of sources that answered and enumerate, not seen since
\* the job began and not curated.
Stale ==
  {d \in work.items : /\ SourceOf[d] \in (job.ran \ job.failed) \cap Enumerating
                      /\ d \notin work.fresh /\ d \notin work.curated}

PlanIsOver == job.active /\ run.phase = "none" /\ job.at > Len(job.plan)

\* prune_stale's queries; in rebuild, what was read until here has been committed.
LookForStale ==
  /\ PlanIsOver /\ MayPrune /\ ~ job.looked
  /\ job' = [job EXCEPT !.looked = TRUE, !.doomed = Stale]
  /\ UNCHANGED <<listed, stored, work, run, before, steady, troubled>>

\* purge_items, and the job's last commit.
EndJob ==
  /\ PlanIsOver /\ (MayPrune => job.looked)
  /\ work' = [work EXCEPT !.items = @ \ job.doomed, !.curated = @ \ job.doomed, !.fresh = {}]
  /\ stored' = work'
  /\ job' = NoJob /\ steady' = {} /\ troubled' = {}
  /\ UNCHANGED <<listed, run, before>>
-------------------------------------------------------------------------------
(* One adapter run.                                                           *)

BeginRun ==
  /\ InPlan /\ ~ job.over /\ Slice.source \in Enabled
  /\ run' = [NoRun EXCEPT !.phase = "fetch", !.unread = listed \cap Slice.docs]
  /\ before' = stored
  /\ UNCHANGED <<listed, stored, work, job, steady, troubled>>

\* The next page: its snapshot row is added, or found if its content is known.
FetchPage(page) ==
  /\ run.phase = "fetch" /\ run.page = {} /\ page # {} /\ page \subseteq run.unread
  /\ run' = [run EXCEPT !.unread = @ \ page, !.page = page, !.snapshot = page,
                        !.served = @ \cup page]
  /\ work' = [work EXCEPT !.snaps = @ \cup {page}]
  /\ UNCHANGED <<listed, stored, job, before, steady, troubled>>

\* reduce_item. Its rows refer to the page's snapshot row; where a rollback took
\* that row away, only a re-read that writes no event or date can succeed.
Reduce(d) ==
  /\ run.phase = "fetch" /\ d \in run.page
  /\ run.snapshot \in work.snaps \/ d \in work.items
  /\ run' = [run EXCEPT !.page = @ \ {d}, !.counted = @ \cup {d}]
  /\ work' = [work EXCEPT !.items = @ \cup {d}, !.fresh = @ \cup {d}]
  /\ UNCHANGED <<listed, stored, job, before, steady, troubled>>

\* Mutant of ReduceFails: the failure is only written to the log file.
ReduceFailsQuietly(d) ==
  /\ "record" \in Faults /\ run.phase = "fetch" /\ d \in run.page
  /\ run' = [run EXCEPT !.page = @ \ {d}]
  /\ work' = stored
  /\ UNCHANGED <<listed, stored, job, before, steady, troubled>>

\* A record that cannot be reduced: the session is rolled back, the run goes on.
ReduceFails(d) ==
  /\ "record" \in Faults /\ run.phase = "fetch" /\ d \in run.page
  /\ run' = [run EXCEPT !.page = @ \ {d}, !.errors = TRUE]
  /\ work' = stored
  /\ UNCHANGED <<listed, stored, job, before, steady, troubled>>

\* Mutant of FetchFails: the health row is committed with the run's work.
FetchFailsAndKeeps ==
  /\ "source" \in Faults /\ run.phase = "fetch" /\ work.failures[Slice.source] < MaxFailures
  /\ stored' = [work EXCEPT !.failures[Slice.source] = @ + 1]
  /\ work' = stored'
  /\ run' = [run EXCEPT !.phase = "failed", !.errors = TRUE]
  /\ UNCHANGED <<listed, job, before, steady, troubled>>

\* The source stops answering, between or within pages (or the linker fails): the
\* run is rolled back and the failure recorded.
FetchFails ==
  /\ "source" \in Faults /\ run.phase = "fetch" /\ stored.failures[Slice.source] < MaxFailures
  /\ stored' = [stored EXCEPT !.failures[Slice.source] = @ + 1]
  /\ work' = stored'
  /\ run' = [run EXCEPT !.phase = "failed", !.errors = TRUE]
  /\ UNCHANGED <<listed, job, before, steady, troubled>>

\* The last page is reduced and link_resolved_items is done.
FetchEnds ==
  /\ run.phase = "fetch" /\ run.page = {} /\ run.unread = {}
  /\ run' = [run EXCEPT !.phase = "versions"]
  /\ UNCHANGED <<listed, stored, work, job, before, steady, troubled>>

\* auto_apply commits; resolve_concluded_consultations may fail after that.
VersionPass ==
  /\ run.phase = "versions"
  /\ stored' = work
  /\ \E errors \in {run.errors, run.errors \/ "versions" \in Faults} :
       run' = [run EXCEPT !.phase = "health", !.errors = errors]
  /\ UNCHANGED <<listed, work, job, before, steady, troubled>>

\* auto_apply fails before it commits: the session is rolled back.
VersionPassFails ==
  /\ "versions" \in Faults /\ run.phase = "versions"
  /\ work' = stored
  /\ run' = [run EXCEPT !.phase = "health", !.errors = TRUE]
  /\ UNCHANGED <<listed, stored, job, before, steady, troubled>>

\* The run counts as a success, whatever its records did.
RunSucceeds ==
  /\ run.phase = "health"
  /\ stored' = [work EXCEPT !.failures[Slice.source] = 0]
  /\ work' = stored'
  /\ run' = [run EXCEPT !.phase = "done"]
  /\ UNCHANGED <<listed, job, before, steady, troubled>>
-------------------------------------------------------------------------------
(* The world around the job.                                                  *)

\* The process is killed: what was not committed is gone, and so is the job.
Killed ==
  /\ "kill" \in Faults /\ job.active
  /\ stored' = [stored EXCEPT !.fresh = {}] /\ work' = stored'
  /\ job' = NoJob /\ run' = NoRun
  /\ before' = NoTables /\ steady' = {} /\ troubled' = {}
  /\ UNCHANGED listed

Publish(d) ==
  /\ d \notin listed /\ listed' = listed \cup {d}
  /\ UNCHANGED <<stored, work, job, run, before, steady, troubled>>

Drop(d) ==
  /\ d \in listed /\ listed' = listed \ {d} /\ steady' = steady \ {d}
  /\ UNCHANGED <<stored, work, job, run, before, troubled>>

\* A person asserts a date, in a session of their own.
Annotate(d) ==
  /\ d \in (stored.items \ stored.curated) \cap Annotatable
  /\ stored' = [stored EXCEPT !.curated = @ \cup {d}]
  /\ work' = [work EXCEPT !.curated = @ \cup {d}]
  /\ job' = IF job.looked THEN [job EXCEPT !.late = @ \cup {d}] ELSE job
  /\ UNCHANGED <<listed, run, before, steady, troubled>>

Init ==
  /\ listed \in SUBSET Doc
  /\ stored = NoTables /\ work = NoTables /\ before = NoTables
  /\ job = NoJob /\ run = NoRun /\ steady = {} /\ troubled = {}

Next ==
  \/ \E j \in Jobs : BeginJob(j)
  \/ Defer \/ SkipDisabled \/ RunRaises \/ Report \/ LookForStale \/ EndJob
  \/ BeginRun
  \/ \E page \in SUBSET Doc : FetchPage(page)
  \/ \E d \in Doc : Reduce(d)
  \/ \E d \in Doc : ReduceFails(d)
  \/ FetchFails \/ FetchEnds \/ VersionPass \/ VersionPassFails \/ RunSucceeds
  \/ Killed
  \/ \E d \in Doc : Publish(d)
  \/ \E d \in Doc : Drop(d)
  \/ \E d \in Doc : Annotate(d)

Spec == Init /\ [][Next]_vars
-------------------------------------------------------------------------------
\* What a job retires is an item of an enumerating source that nobody annotated before
\* the job looked for annotations (one made after that is lost with its item); and unless
\* a run of its source reported an error, it is not a document that the source kept
\* listing and the job was to read: not one in a deferred slice, nor one served before a
\* kill, a rollback or a later slice of the same source.
OnlyDroppedAreRetired ==
  [][\A d \in stored.items \ stored'.items :
       /\ SourceOf[d] \in Enumerating /\ d \notin stored.curated \ job.late
       /\ SourceOf[d] \in troubled \/ d \notin steady \cap Planned]_vars

\* A run whose source stopped answering leaves no trace but its failure, however
\* far it had come; only the annotations people made meanwhile are new.
FailedRunLeavesNoTrace ==
  run.phase = "failed" =>
    /\ stored.items = before.items /\ stored.fresh = before.fresh
    /\ stored.snaps = before.snaps

\* A run that reports no error has stored every document its source served.
CleanRunStoresAll == run.phase = "done" /\ ~ run.errors => run.served \subseteq stored.items

\* runner.py: "One bad record never aborts the run". The records a successful run
\* counted as reduced are stored, although others could not be reduced.
CountedRecordsAreStored == run.phase = "done" => run.counted \subseteq stored.items

\* rebuild.py: "Never pruned, whatever the sources say: ... anything from a source
\* that errored, was skipped, or was not part of this run".
TroubledSourceKeepsItsRows ==
  [][\A d \in stored.items \ stored'.items : SourceOf[d] \notin troubled]_vars
===============================================================================
