# Gazette (`oblag`) in TLA+

Gazette follows proposed and adopted changes to laws and standards. Adapters read some
twenty-five sources; what they read is reduced to *pipeline items* with a lifecycle state,
append-only key dates and an event log; a scheduler and cron endpoints drive the runs, a
daily tick moves items whose dates have passed, a rebuild re-reads everything, and
watchlists are told of events by e-mail and webhook. This directory holds the TLA+ modules
of that system, the TLC configurations that check them and proofs of their main
invariants. Paths below are relative to `src/src/oblag/`.

## 1. Inventory

| Component | State | Operations | Hard behaviour | Correct when |
|---|---|---|---|---|
| Change pipeline: `core/reducer.py`, `core/assertions.py` | `pipeline_item`, `join_key`, `key_date`, `event` rows | `reduce_item`, `tick`, `assert_date` | documents in any order, from several sources, re-read for months; six writers of `state`, each logging for itself | the log replays the state; one line of supersession per date, its end decides; one row per document, one root document per row |
| Lifecycle: `core/transitions.py` | none | `classify_transition` | every writer but two passes through it | an item only moves as the lifecycle allows |
| Statemaps: `core/statemap.py` | none | one function per source, `compute_state` | boundary days, sources that state no dates | the tick never proposes what the lifecycle forbids |
| Linker: `core/linker.py` | `resolved_item_id` | `link_resolved_items` in each run | old documents stay in their feeds | resolved items are superseded and stay so |
| Version tracking: `versionsuggest.py`, `versions.py` | `version_decision`, `obligation.confirmed_version` | `auto_apply`, `resolve_concluded_consultations`, `set_confirmed` | best effort inside a run, with commits of its own | an obligation only advances to a plausible newer version; a consultation ends in its publication |
| Adapter runs: `core/runner.py` | session, `adapter_health` | `run_adapter` | two nested rollback scopes, three commits | nothing of a failed run is kept, nothing of a clean one is lost |
| Rebuild, backfill, cron: `rebuild.py`, `web/internal.py`, `scheduler.py` | report, catch-up cursor in `kv_meta` | `run_plan`, `prune_stale`, `rebuild`, `catchup`, run groups | time budget, kills, sources failing in the middle of a plan | only what a source really dropped is retired |
| Maintenance and boot: `maintenance.py`, `web/app.py` | all tables, boot stamp | purge, split and rescope repairs, catalog sync | two boots at once, a boot killed half-way | repairs are idempotent and leave no dangling reference |
| Notification: `notify.py` | `notification_log` | `dispatch_pending`, channels, operator alert | overlapping dispatches, kills, lost answers, batch limit | every matching event is delivered, and once |
| Watchlists: `web/watchlists.py`, `watch.py` | `watchlist` rows | create, pause, resume, delete, feeds | delivery while the list changes, requests that overlap | a paused or deleted list hears nothing, a resumed one everything since, a deleted one stays so |
| Snapshots: `snapshots.py`, `storage.py`, `provenance.py` | blobs, `snapshot` rows, attestations | `record`, `write`, `verify` | blob first, row later, row rolled back; two writers of one file | every row has its blob; readers of one page make one item |
| Accounts: `auth.py`, `web/auth_routes.py`, `web/deps.py` | users, tokens, sessions, API keys, invites | login, logout, founding, switching, invites, quotas, rate limit | concurrent requests read and then write | a login token works once; sessions act only for orgs of their user; a key is not served beyond its limit |
| Catalog: `catalog.py`, `milestones.py`, `linking.py`, `scope.py` | `obligation` rows | seed, match titles | seeds meet automatic versions | seeding is idempotent |
| Adapters: `adapters/` | none | `fetch_raw`, `normalize` | documents change their key, status or dates from one edition to the next; editions are missed | a document keeps its item; its statuses are known; its past does not show |
| Web, export: `web/html.py`, `web/api.py`, `web/serialize.py`, `oscal.py`, `ai.py` | none | read-only views | | |
| Session, schema: `db/` | engine | sessions, idempotent DDL | | |
| CLI, configuration, fetch helpers: `cli.py`, `config.py`, `netguard.py`, `browserfetch.py` | none | thin wrappers | | |

How they interact: a job (`scheduler`, `web/internal`, `rebuild`, CLI) opens a session and
calls `run_adapter` for one source after another. A run stores each page as a snapshot,
reduces each of its records with `reduce_item` (identity, dates, statemap, lifecycle,
events), then links, then tracks versions, then writes the source's health row. The tick
and the rebuild's pruning run in sessions of their own, and `assert_date` in that of the
person who asserts. Whatever writes state also writes events; `dispatch_pending` runs at
the end of every job and reads only events, items and watchlists. All of them share one
database and nothing else.

`PROJECT.json` lists the components with their status and, under `hazards`, what in this
code is hard to test, each at its line and with the properties aimed at it.

## 2. Modules

```
Lifecycle   StateMap                  pure: the lifecycle, the statemaps
     \      /    \
     Pipeline   Normalized            the tables and their writers / what an adapter yields
     |   |   \      |
     |   |    ItemLife  \             abstract: what an item's life may be
     PipelineProofs   AdaptersOfRules, AdaptersOfDrafts, AdaptersOfRecord
                              \
                          Adapters    the registry
                             |
                          TickReplay  one document, its editions, readings and ticks
                             |
                          ReplayProofs
Ingest - IngestProofs                 runs as transactions, jobs, rebuild
Catchup - CatchupProofs               the daily invocation and the resumable backfill
Dispatch - DispatchProofs             notification dispatch and the life of a watchlist
Versions - Boot                       versions in force; what a start of the service does
SignIn   Tenancy   Snapshots          accounts; keys, limits, watchlists; the page store
Services                              Boot, SignIn, Tenancy, Snapshots side by side
   BootProofs, AccountsProofs, SnapshotsProofs
MC*                                   constants for TLC
```

**Lifecycle, StateMap.** `Verdict` is `classify_transition` and `ComputeState` is
`compute_state` with all registered statemaps. Native statuses are one representative of
each class of strings a map tells apart.

**Normalized, AdaptersOf\*, Adapters.** One operator per adapter, from the facts of a
document (as the source states them today) to the set of `NormalizedItem`s that
`normalize` yields: keys, track, native status, dates, retractions, whether it is
supplementary. `Adapters!Normalize` is the registry and `Lists` says which documents a run
with a window is given. The feeds of the Pipeline instances and the editions of TickReplay
go through these operators, so what is checked is adapter, reducer and statemap together.

**Pipeline** is the core. Each variable is a table or a column of one (see the header).
`Create` and `Update` together are `reduce_item`: `Candidates` and `Chosen` are
`_find_item`, `Redated` is steps 2 and 2b (supersede, retract), `Conflicting` the key
merge, `Settled` with `Objection` is `_apply_state`. `Link`, `ResolveConcluded`, `Tick`,
`AssertDate`, `CompleteConcluded`, `Purge` are the other writers, one action each with
everything they write; the last `resolved_item_id` and the events are part of the same
action as the state. A run is three phases (`run`): records are reduced, `Link` ends the
fetch, `ResolveConcluded` ends the run. `roots` is a history variable: the root documents
reduced onto an item.

**ItemLife** says what an item's life may be without saying how it is known.
`ImplementsItemLife` is the refinement: `life` is the state of a present item, `"purged"`
for an id handed out and gone, `"unborn"` for one not yet handed out.

**TickReplay** takes one document of any source through its editions. `Publish` is the
issuing body, `ReadSource` a run that reads the edition that stands and reduces it to the
document's one row (`Created`, `Updated`), `Tick` the daily tick, `AssertDate` a person.
Reads and ticks may be missed on any day. `HistoryDoesNotShow` compares the row with one
that would be created today from the latest edition alone: whatever was missed, replaced
or withdrawn on the way must not have left a trace in the state. What the properties expect
of the issuing bodies themselves is stated as conditions on the editions:
`EditionsAdvance`, `EndsAreFinal`, `KnownWords`, `NamesAreKept` and `DaysAreKept` (section 4).

**Ingest** is `run_adapter` as a transaction and the jobs around it. `stored` is what is
committed, `work` what the session sees. Every failure the code handles is an action at
every point where it can happen: a record that raises (`ReduceFails`, rollback, the run
goes on), a source that stops answering (`FetchFails`, rollback, health row), a version
pass that fails before (`VersionPassFails`) or after (`VersionPass`) its own commit, a run
that raises outside its handlers (`RunRaises`), a budget that runs out (`Defer`), a kill
(`Killed`). Sources publish and drop documents, and people annotate items, at any time.
The last steps of `rebuild` are `LookForStale` (the queries of `prune_stale`) and `EndJob`
(`purge_items` and the commit); an annotation may come between them.

**Catchup** is `run_group("daily")` with `catchup`. `marker` is the `kv_meta` row, `job`
the invocation in progress, `asked` the days a source has answered for. The plan is
recomputed at each `Resume`, as the code does; the place in it is written by `CatchupEnds`
and committed only by `Close`, after the dispatch, so `Interrupted` (a kill or a dispatch
that raises) loses it. `Rearm` is the boot repair that clears the row, in another process
and at any time; `SetDepth` a redeployment with another `backfill_catchup_days`.

**Dispatch** is `dispatch_pending` for processes that overlap: one action for each read,
delivery, flush and commit. What was sent is outside the database at once; the log rows
are private to a process until it commits. `LogConflicts` is the unique constraint of
`notification_log`, `AnswerLost` a channel that took the batch and did not say so.
Watchlists are paused, resumed and deleted meanwhile; a dispatch goes by those that were
active when it began. `lost` and `conflicts` count the kills, lost answers and collisions
at the constraint: `RepeatsHaveCauses` says that these, the row in the log and the
dispatches with the delivery in hand account for every time it was made.

**Versions** is `versions.py` (`Key`, `Below`, `PlausibleSuccessor`) and `auto_apply`: a
pass reads the obligation and the claims (`BeginPass`), walks them from the newest down
(`Applied`, `Flagged`), and commits later (`CommitPass`), so passes of two processes, or a
pass and a catalog edit, may overlap. **Boot** adds what an instance does when it starts
(`web/app.py`): the catalog sync, the adoption of ownerless watchlists, the repairs, the
curated timelines and the stamp, each a transaction of its own, by several instances and
of two deployments, any of which may be killed in between.

**SignIn** is magic links, sessions, orgs and invites; **Tenancy** API keys with their
rate limit, watchlists and the quotas of both. In both a request reads when it starts and
writes when it commits; where only the decision can be overtaken these are two actions
(`AskForLink`/`SendLink`, `OpenLink`/`SignUserIn`, `CallApi`/`AnswerCall`, ...), and
history variables (`overtaken`, `stale`) say which requests wrote on what others had
changed. An invite may name any role of `_ROLES`, that of owner included, or one that there
is not (`RolesSent`, `Named`), and is sent by an owner or admin of the org or an instance
admin in it (`MayAdmin`); `founders` remembers who founded which org. A quota of 0 is none,
as in `enforce_quota`, and the first call of a minute is admitted whatever the limit, as in
`within_rate_limit`.

**Snapshots** is `record` with `LocalBackend.write`, step by step for two runs: the
temporary file, the rename, the row, the item, the commit.

**Services** puts Boot, SignIn, Tenancy and Snapshots side by side. They write no common
table, so every interleaving of them is one of each by itself: `running` chooses the one
that moves, and one run checks all four without multiplying their states.

### Abstractions

* `Pipeline`: transactions are serialised (two sessions on one document are `Snapshots`'
  subject) and every run commits (what a failing run loses is `Ingest`'s). Titles,
  abstracts, content fingerprints, `published_at`, `last_seen_at` and `content_changed`
  events are left out: no modelled step reads them, `prune_stale`'s use of `last_seen_at`
  being `fresh` in `Ingest`. The dates of documents count as firm; only `assert_date`
  compares confidences.
* A row of `dates` belongs to one item and one slot (type and label), its id is its
  position: the code only ever compares rows of one slot.
* Where the code takes the first of several rows in no stated order (successors of the
  linker, outcomes of the version pass) the model takes any.
* Adapters: a text is the set of the signal words found in it, a day a number, an address
  or number a name. Fetching, parsing and the wording of titles are left out; a relevance
  gate is a fact of the document. `Sentinel` is the row a page yields when nothing on it
  is recognised.
* `TickReplay`: editions follow one another as the sources' own rules say (`MCFollows`):
  stages advance, a stated day is not silently dropped (only "No Due Date" withdraws one),
  scheduled AIUC releases happen as scheduled, effects of UK legislation are only added.
  `uk_legislation` decides with the day it is read on whether a text is in force, so its
  row counts as up to date only when it was read today.
* `Ingest`: an item is present or not, a snapshot row is named by its page's content, a
  page is any non-empty part of what the source has still to serve. The rows a record
  writes refer to the page's snapshot row; where a rollback took that row away, only a
  re-read that writes no such row can succeed (foreign keys are enforced).
* `Catchup`: a run answers for the days it asked about or it does not (its insides are
  `Ingest`'s subject). A day counts as asked for only by a run on a later day, since its
  documents may appear until its end. An invocation is over before the day is.
* `Dispatch`: an event is the state an item entered. Of what `matches` reads at dispatch,
  the item's state, its obligation and the scope of the watchlist's org, only the first is
  modelled: the other two change by a re-read of the item and by a person, and would filter
  in the same way. The database returns the
  watchlists in one order to every process (the query states none; with two orders two
  dispatches could deadlock on the log's constraint and the database would abort one of
  them).
* `Versions`: one obligation; of several claims of one version the first row stands for
  all. `Boot`: which rows a repair dooms, and which a rule attaches, are constants; a
  repair is one transaction with all its purges, as in the code.
* `Tenancy`: `served` are the calls that were answered and counted. A call that ends in an
  HTTP error is rolled back with its count (`web/deps.py:19-21`, `WorkFails`), so calls that
  fail are not limited, and no property says they are.
* `SignIn`: time passes by half hours, a link lives for less than one (15 minutes in the
  code) and is counted for two. A session is known by the link it came from.

## 3. Runs

| Run | Module, cfg | Properties | What it shows |
|---|---|---|---|
| `rulemaking` | `MCRulemaking` | `LogReplaysState`, `ResolvedIsSuperseded`, `RootsNeverSpliced`, `ImplementsItemLife` | a docket of a proposal, its extension, a sibling proposal, the final rule and a withdrawal, read in any order and any number of times, over three days |
| `consultation` | `MCConsultation` | `TypeOK`, `LogReplaysState`, `SupersessionIsLinear`, `LatestRowDecides`, `DocumentHasOneRow` | six sources' consultations: dates stated, retracted and asserted by people, a package that changes its track, a companion that may come first |
| `splice` | `MCCompanion`, `MCSplice.cfg` | `RootsNeverSpliced` (violated) | finding 1 |
| `tick_replay` | `MCTickReplay` | `TickNeverObjects`, `SourceNeverObjects`, `HistoryDoesNotShow`, `DocumentKeepsItsItem`, `StatusesAreKnown`, `ClosedWindowsAreNoticed` | a document of each of the 24 sources over its editions, three days, readings and ticks missed, dates moved by people |
| `ingest` | `MCIngest` | `FailedRunLeavesNoTrace`, `CleanRunStoresAll`, `OnlyDroppedAreRetired` | daily jobs, a rebuild and a short rebuild with every fault at every point |
| `bad_record` | `MCIngest`, `MCBadRecord.cfg` | `CountedRecordsAreStored` (violated) | finding 2 |
| `rebuild_error` | `MCIngest`, `MCRebuildError.cfg` | `TroubledSourceKeepsItsRows` (violated) | finding 3 |
| `catchup` | `MCCatchup` | `CursorNeverSkips`, `RearmRestarts`, `OverlapCoversMisses`, `CatchupFinishes` | daily invocations, some missed, with dead sources, used-up budgets, a kill, a repair or a change of depth |
| `backfill_gap` | `MCCatchup`, `MCGap.cfg` | `CatchupLeavesNoGap` (violated) | finding 5 |
| `dispatch` | `MCDispatch` | `AtMostOnceWhenAlone`, `LoggedWasSent`, `RepeatsHaveCauses`, `SilenceIsKept`, `UnfilteredHearsAll` | two processes, two watchlists that may be paused, resumed or deleted, a kill or a lost answer, failing channels |
| `starved` | `MCDispatch`, `MCStarved.cfg` | `MatchingIsDelivered` (violated) | finding 4 |
| `services` | `MCServices` | `NothingPlausibleWaits`, `InForceAdvances`, `StampedMeansHealed`, `ServedInTheEnd` | Boot: two deployments, two instances, a kill, a version pass |
| | | `LinksWorkOnce`, `LinksAreFew`, `InviteesAreMembers`, `SessionsBelong` | SignIn: two addresses, one of them an instance admin's, two orgs, invites as owner, member and in a role there is not, two requests in flight |
| | | `LimitHolds`, `QuotaHolds`, `GoneForGood` | Tenancy: two keys without a quota, three watchlists with one, two requests in flight |
| | | `FiledIsStored`, `TwinsComeFromTwoPages` | Snapshots: two runs, two pages that list one document, a killed run, a purge |

Deadlock is checked except in `tick_replay` and `services`, where the document's last day
or the last request the bounds allow ends a behaviour.

### What the exceptions in the properties say

Several properties hold only with an exception, and the exception is what the run found
out about the code; each is as narrow as TLC allows.

* `SourceNeverObjects`, `HistoryDoesNotShow`: a person's date (`moved`) outlives later
  editions, as it is meant to; and the news that a text is put off, read after the day it
  was to take effect (`postponed`), asks to go back from `effective`, which the lifecycle
  refuses on every reading that follows.
* `OnlyDroppedAreRetired`: sources one of whose runs reported an error (finding 3),
  documents the rebuild's plan does not cover (a rebuild of `days` retires what its source
  lists from before that), and annotations made after `prune_stale` looked for them.
* `LinksWorkOnce`, `LinksAreFew`, `LimitHolds`, `QuotaHolds`: two requests that overlap on
  the same link, address, key or kind of row. No lock or conditional update prevents
  these; requests one after another keep the promise whatever their order. In particular
  the token that `auth.py:83` calls single-use opens two sessions when two requests have it
  open at once. With `Limit` 0 one call a minute is answered (`PerMinute`).
* `RepeatsHaveCauses` counts instead of excepting: each overlapping dispatch that reaches
  the constraint second, each kill and each lost answer may have repeated a delivery once.
* `InviteesAreMembers`: a role changed in the moment the invite is accepted; and a founder,
  who stays owner whatever role an invite to that address names.
* `InForceAdvances`: a pass whose reading was overtaken writes back what it had read.
* `NothingPlausibleWaits`: a version once ruled on is passed over for ever.
* `StampedMeansHealed`: an instance of the older deployment that is still booting
  (`mixed`) may undo what the newer one did; the stamp does not tell.
* `ServedInTheEnd`: `version_decision.source_item_id` refers to `pipeline_item` and
  `purge_items` does not know it: a repair that retires an item a decision cites makes
  every start of that deployment fail (`Blocked`).
* `FiledIsStored`: a run that dies while another was at the same temporary file may leave
  a torn file under the final name; `write` then never writes it again.
* `TwinsComeFromTwoPages`: two runs that read one document from two pages both create it.

### Bounds

* `MaxItems` 2 or 3: supersession, splicing and key conflicts relate two items, a purge of
  a successor that others point to needs a third. `nextId` is never reused, so a purge
  uses a bound up for good.
* `MaxDay` 3: a day before a closing or effective day, the day itself and the day after
  (2 in `consultation`, where the closing day and the day after are enough).
* `MaxChain` and `MaxChanges` bound the guard of the documents and people that add rows,
  not the linker, the tick or the version pass, so no state lacks its next tick. Three rows
  are an assertion, its retraction and the restart after it.
* `tick_replay`: only facts an adapter tells apart vary; `Window` 1 is a run that asks for
  yesterday and today, so an edition may be missed for good by a windowed source.
* `Ingest`: three documents, of an enumerating source that a rebuild reads in two windows
  and of a feed: enough for one window served and the other deferred, failed, or rolled
  back, and for a second record of a page to fail after the first. `hitrust` is a source
  whose adapter is disabled. `MaxFailures` 1 caps the failure counter; `Annotatable` one
  item, the others showing that pruning does happen.
* `Catchup`: a week of two days and overlaps in the proportion of the code's (3 days for a
  source read daily, 10 for one read weekly): a missed daily run is made up for. A backfill
  of one or two slices and a sitemap: enough to stop in the middle, resume, restart and end.
  On the last day the cron still calls, so that the backfill can end.
* `Dispatch`: two events and a batch of one make a backlog; the second watchlist was
  created after the first event; `MaxLost` 1 allows one kill or lost answer. `MaxEdits` 1
  with either watchlist active or paused at first: a pause, a resume or a deletion at any
  moment.
* `Services`: two deployments whose catalogs differ, a plausible claim and an implausible
  one, an item the second retires; `MaxKills` 1, after which the boots must still end.
  `MaxRequests` 5 is a link asked for, opened, an invite sent, opened and accepted, or two
  opened at once with three requests to spare; a limit of one link is exceeded by two, and
  `InviteQuota` 2 leaves room to change the role of an invite that is pending. `MaxCalls`
  6 and `Limit` 2 fill one key's minute and overflow it with another call in flight;
  a quota of 1 with three watchlists lets one be paused or deleted, replaced and resumed,
  and keys have none (0).
  `MaxReads` 4: two runs that overlap and two after them.

### Fairness

* `Pipeline` and `Ingest` state none: their properties are safety and refinement.
* `TickReplay`: weak for `Tick` (the cron entry fires every day). None for documents:
  sources owe us nothing, and `ClosedWindowsAreNoticed` holds without them.
* `Catchup`: weak for the steps of an invocation and for the cron's calls; strong for a
  group getting through each of its sources and for `Resume`: now and then an invocation
  is not out of time (every day it is, the backfill does not move, `spare > 20` in
  `web/internal.py:164`).
* `Dispatch`: weak for the steps of a dispatch and for its start (every job ends with
  one), strong for `Deliver`: a channel that is tried again and again answers at some
  time. Kills and lost answers are bounded, so they do not go on for ever.
* `Boot`: weak for starting an instance (requests keep coming, and the platform starts one
  for them) and for the steps of a start under way; kills are bounded. Nothing in
  `SignIn`, `Tenancy` and `Snapshots` is fair: nothing makes a visitor come.

### Findings

1. **`splice`.** A regulations.gov record is supplementary and carries the Federal Register
   number of its document (`adapters/regulations_gov.py:130`, `:148`). Read before that
   document it attaches, through the docket, to another rulemaking's item and adds the
   number to that item's keys. When the document arrives, the exact-key shortcut
   (`core/reducer.py:140-142`) finds that item before the identity guard is asked, and two
   root documents share one item, although `core/reducer.py:145-149` says that merging
   "would splice two rulemakings into one item" and that only supplementary documents "may
   cross that line".
2. **`bad_record`.** `core/runner.py:93` rolls the whole session back when one record
   cannot be reduced: records already reduced and counted are lost with it, and the run is
   reported as a success. Line 51 promises that "One bad record never aborts the run" and
   line 92 calls it "per-item isolation".
3. **`rebuild_error`.** `run_adapter` handles a source that stops answering and returns, so
   `run_plan` lists it under `ran`, `errors` stays empty, and `rebuild` retires its rows;
   `rebuild.py:15-17` says "Never pruned, whatever the sources say: ... anything from a
   source that errored". For that reason `OnlyDroppedAreRetired`, which does hold, excepts
   sources one of whose runs reported an error.
4. **`starved`.** `dispatch_pending` limits the candidates of a watchlist before filtering
   them, and events that do not match are never logged: once `MAX_EVENTS_PER_RUN` of them
   have accumulated, the watchlist hears nothing more. `notify.py:321` promises to "Deliver
   undelivered events to matching push watchlists". `UnfilteredHearsAll` shows that a
   watchlist without filters is not affected.
5. **`backfill_gap`.** `catchup` keeps an index into a plan whose windows are reckoned from
   today's date. Resumed *n* days later, the window at that index begins *n* days later
   than the next one would have: those days are never asked for, and the marker says that
   all is done. `rebuild.py:245` says that a run "picks up where it stopped". What does hold
   is `CursorNeverSkips`: no *step* is passed over.

`OverlapCoversMisses` gives the exact condition under which missed invocations lose
nothing: a source answers at least once in its overlap. A weekly source with an overlap of
ten days that misses one invocation (or is deferred on its weekday; it is not tried on the
next day, only on its next weekday) answers after fourteen, so the comment at
`web/internal.py:131`, "a missed invocation never loses items", holds of the daily ones.

## 4. Proofs

Eight modules hold proofs. Each says of every value of the constants what the runs show of
one; the constants are restricted only by the assumptions below, and TLC evaluates every one
of them on the instances it checks.

| Assumption | Says |
|---|---|
| `BoundsAssumption`, `SlotAssumption`, `FeedAssumption`, `AssertAssumption` (`Pipeline`) | the bounds are positive, slots are pairs, the feed keeps the contract of `normalize` |
| `DispatchAssumption`, `IngestAssumption`, `CatchupAssumption`, `TenancyAssumption`, `SignInAssumption`, `SnapshotsAssumption` | the types of their module's constants; a slice of a plan holds documents of its source; depths are positive and reach back less than the days there are; processes are finitely many; quotas and limits are numbers, 0 included; instance admins are addresses; a page, a run and the marks of a file have different names |
| `VersionsAssumption`, `BootAssumption` | a claim is a date or a dotted number; each of the deployments, at least one, ships a version of the obligation |
| `ReplayAssumption` (`TickReplay`) | the sources are registered ones, and there is a day |
| `EditionsAdvance`, `EndsAreFinal`, `KnownWords`, `NamesAreKept`, `DaysAreKept` (hypotheses of the theorems of `ReplayProofs`, on the editions) | what is expected of the issuing bodies, see *Editions* below; TLC evaluates them on the editions of all 24 sources (`EditionsAreRealistic` in `MCTickReplay`) |
| `RootsUnnamed`, `NamesKeepTracks` (hypotheses of `RootsStayApart` and `DocumentsAreListedOnce`, on the feed) | see *Identity* below; they hold of the feeds of `rulemaking` and `consultation` respectively, where TLC evaluates them |

The feed, the slots, the sources, the plans, the catalogs, the processes and requests at
work, and the numbers of items, days, failures, kills, links, orgs and rows are arbitrary.

| Theorem | Module | States |
|---|---|---|
| `TypeCorrect` | `PipelineProofs` | `Spec => []TypeOK` |
| `SupersessionStaysLinear` | `PipelineProofs` | `Spec => []SupersessionIsLinear` |
| `LatestRowAlwaysDecides` | `PipelineProofs` | `Spec => []LatestRowDecides` |
| `RootsStayApart` | `PipelineProofs` | `Spec => []RootsNeverSpliced`, if `RootsUnnamed` |
| `DocumentsAreListedOnce` | `PipelineProofs` | `Spec => []DocumentHasOneRow`, if `NamesKeepTracks` |
| `LogAlwaysReplays` | `PipelineProofs` | `Spec => []LogReplaysState` |
| `ResolvedStaysSuperseded` | `PipelineProofs` | `Spec => []ResolvedIsSuperseded` |
| `PipelineImplementsItemLife` | `PipelineProofs` | `Spec => ImplementsItemLife` |
| `TickAlwaysAgrees` | `ReplayProofs` | `Spec => []TickNeverObjects`, if `EditionsAdvance` |
| `ReadingAlwaysAgrees` | `ReplayProofs` | `Spec => []SourceNeverObjects`, if `EditionsAdvance` and `EndsAreFinal` |
| `StatusesStayKnown` | `ReplayProofs` | `Spec => []StatusesAreKnown`, if `KnownWords` |
| `DocumentStaysFound` | `ReplayProofs` | `Spec => []DocumentKeepsItsItem`, if `NamesAreKept` |
| `HistoryLeavesNoTrace` | `ReplayProofs` | `Spec => []HistoryDoesNotShow`, if `EditionsAdvance`, `EndsAreFinal` and `DaysAreKept` |
| `LogIsHonest` | `DispatchProofs` | `Spec => []LoggedWasSent` |
| `RepeatsAreAccountedFor` | `DispatchProofs` | `Spec => []RepeatsHaveCauses` |
| `OnceWhenAlone` | `DispatchProofs` | `Spec => []AtMostOnceWhenAlone` |
| `SilenceHolds` | `DispatchProofs` | `Spec => SilenceIsKept` |
| `FailureIsUndone` | `IngestProofs` | `Spec => []FailedRunLeavesNoTrace` |
| `CleanRunIsComplete` | `IngestProofs` | `Spec => []CleanRunStoresAll` |
| `RebuildRetiresDropped` | `IngestProofs` | `Spec => OnlyDroppedAreRetired` |
| `NoDayIsMissed` | `CatchupProofs` | `Spec => []OverlapCoversMisses` |
| `RepairsAreHeard` | `CatchupProofs` | `Spec => []RearmRestarts` |
| `NoStepIsSkipped` | `CatchupProofs` | `Spec => []CursorNeverSkips` |
| `StampIsEarned` | `BootProofs` | `ServicesSpec => []StampedMeansHealed` |
| `NothingWaits` | `BootProofs` | `ServicesSpec => []NothingPlausibleWaits` |
| `VersionsAdvance` | `BootProofs` | `ServicesSpec => InForceAdvances` |
| `LimitIsKept`, `QuotaIsKept` | `AccountsProofs` | `ServicesSpec => []LimitHolds`, `[]QuotaHolds` |
| `GoneStaysGone` | `AccountsProofs` | `ServicesSpec => GoneForGood` |
| `LinkWorksOnce`, `LimitOnLinks` | `AccountsProofs` | `ServicesSpec => []LinksWorkOnce`, `[]LinksAreFew` |
| `InvitesMakeMembers`, `SessionsKeepTheirOrg` | `AccountsProofs` | `ServicesSpec => []InviteesAreMembers`, `[]SessionsBelong` |
| `FiledPagesAreStored`, `OnePageOneRow` | `SnapshotsProofs` | `ServicesSpec => []FiledIsStored`, `[]TwinsComeFromTwoPages` |

*Tables.* `TypeOK` is not inductive alone: a row's `supersedes` and the state a document is
given depend on `LiveRow`, a `CHOOSE` over the heads of a chain that means something only
when there is a greatest head. `TableInv == TypeOK /\ SupersessionIsLinear` is inductive.
`HeadIsLast` shows that the head of a linear chain with the highest id is its last row,
`AppendLinear` that a row superseding `LiveRow` keeps it linear; one lemma per action
then preserves `TableInv`. `LatestRowDecides` is a consequence: it is linearity, not the
choice of the highest id alone, that makes the last thing said decide.

*Identity.* Both theorems need a condition on the feed, and the conditions say what the code
relies on. `RootsNeverSpliced` holds when only a root document itself states its external
key (`RootsUnnamed`); a docket or a RIN may be shared at will, and the identity guard does
the rest (`RootsInv`: an item holds the external keys of the roots it was made of, no other root's,
and one per source). The feed of `splice` is the smallest in which the condition fails, so finding 1 is
exactly what remains. `DocumentHasOneRow` holds when only companions state a key that is not
theirs and those who state a key agree on its track, or state nothing else
(`NamesKeepTracks`: a package that moves from one track to another must do so alone).
`HoldersInv` says where a key is then found: on an item of its track, or alone on its own.

*History.* `LogReplaysState` and `ResolvedIsSuperseded` are proved on top of `TableInv`. The
log argument has one lemma (`AppendReplays`) and per action the fact that what is appended
starts from the stored state. `ResolvedIsSuperseded` rests on `Absorbed` (a resolved item's
re-reads change no state), on the lifecycle letting nothing out of `superseded`, and on
`Unlinked`. The refinement follows from the same facts: every step changes each item's
state by a move `ItemLife` allows, which is where `Verdict` is compared with `Moves` over
all pairs of states.

*Editions.* The five theorems hold of any editions, in any order, read or missed on any day,
for every adapter of the registry, and their hypotheses say which part of the agreement is
the issuing bodies' and not the code's. `EditionsAdvance`: there is a phase for every
document in every edition and on every day (proposed, under consultation, about to take
effect, in force, withdrawn) that never goes back, and a reading's status fits it. The
phase is not the state: it says nothing of windows, dates, ticks or retractions, which is
where the code could go wrong. `EndsAreFinal`: a text that its status alone puts in force,
or withdraws, stays so. `KnownWords`: where the adapter hands on the source's own word
(OEIL stages, CSRC and ISO statuses), the word is one the statemap knows; the code does not
enforce it, and a new word is the anomaly `core/reducer.py` records. `NamesAreKept`: what
names a document at its source (`Name`: a celex number, an address, a subject, never a date
or a status) stays from one edition to the next. `DaysAreKept`: a day that was stated is
stated from then on, though it may be another day; the code keeps a date no edition repeats
(`core/reducer.py` only supersedes or retracts), so where a source drops one silently the
row rightly differs from a new one. A phase is given per key, since one edition may list
several documents (the releases of AIUC-1) and a row may be found by any of its keys.

`TickNeverObjects` is not inductive: whether the next tick objects depends on the status,
the action and the dates the row was last given, on what an earlier edition left in its
dates, and on the phase its document has reached. `ReplayInv(stage)` is inductive: besides
the types and the claim itself (`NoObjection`), `RowIsInPhase` says that there is a phase
the row's status fits and its state has not gone beyond, that every key the row holds has
reached it, and that an item of a rulemaking, an initiative or an exposure draft stands open
or closed only while its window is known (`RowFits`); and, where ends are final, that an
item is withdrawn only in the last phase and in force only there or by a date that has
passed (`RowEnds`). `DerivedFits` and `DerivedEnds` say what the statemaps propose for a row
in a phase, `PhaseMoves` and `EndMoves` that the lifecycle allows each such move,
`MergedFields` and `ReadFits` what a reading leaves of an earlier edition; then there is one
lemma per action. `StatusesStayKnown` goes through
all adapters (`ReadingsAreMapped`) and shows that each status they can yield is in the
domain of the source's statemap.

`DocumentStaysFound` rests on `KeyIsOfName`: with two exceptions an adapter's keys depend on
what names the document and on nothing else an edition says. The exceptions have lemmas of
their own. An EBA paper is known by its page until it has a reference and by the reference
then (`PaperKeys`), and the row is found by the page it still shares; `KeepsInv` therefore
says that the row holds no other paper's reference, which is what the guard of `_find_item`
asks. An AIUC release is scheduled first and released later under one key
(`ReleaseIsKept`).

`HistoryLeavesNoTrace` is the deepest of the five. A row and a row created today derive the
same state when their dates agree in the slots their statemap looks at (`Matters`, `Alike`,
`AlikeDerived`). `HistoryInv(stage)` adds to `ReplayInv`: every slot the row knows was
stated by some edition that the one that stands says as much as (`DaysHaveOrigins`), so that
a reading states it again or takes it back (`DaysStayStated`, adapter by adapter) and
nothing an earlier edition said is left over where it matters; the row agrees with every
reading of the edition it was last read from (`ReadsAgree`; a document has one reading for
each of its keys, `OneReading`, and apart from UK legislation it is the same on every day);
and the state is the one derived on some day, today's once the tick has run
(`StateFollows`). The last part needs that nothing is objected to (from `ReplayInv`), so
that every move that is derived is made, and that a row the tick leaves alone, being in
force or withdrawn, would derive the same on every later day (`EndsStand`).

*Dispatch.* None of the four is inductive. `LoggedWasSent` needs `Delivered`: a batch that
waits to be logged was sent. `RepeatsHaveCauses` counts the processes that have a delivery
in hand or flushed (`OnItsWay`): a step changes that at one process (`HolderJoins`,
`HolderLeaves`, `HoldersStay`), and what a process lets go has become a row, or a kill, a
lost answer or a collision was counted. It needs that no two processes have flushed one row
(`Apart`) and that a process does not deliver again what it has flushed (`BatchUnheld`).
`AtMostOnceWhenAlone` needs the trace of every delivery
(`Traced`: in the log, flushed, or about to be flushed by some process), that a batch at
hand is new (`BatchIsNew`, from `Candidates` by `BatchOf`), and that one process at a time
is busy; `Orderly` ties these to `alone`. `SilenceIsKept` follows from `Heeded`: a watchlist
a dispatch still serves is active or was silenced under way. `DispatchInv` is their
conjunction, with one lemma per part and one step per action.

*Runs.* `IngestInv` relates the two tables and the phase of the run. `Uncommitted` (until the
version pass the committed tables are those from before the run) is `FailedRunLeavesNoTrace`
made inductive; `Reduced` and `Served` follow every document from the source to the tables,
as long as the run reports no error. What a rebuild retires needs the history of its whole
job: `SlicesSeen` says of each slice that is done that what it listed throughout was stored
fresh, unless the slice was deferred, disabled, failed or in trouble, and `DoomedAreDropped`
carries the answer of `LookForStale` to `EndJob`, over the annotations that come between.

*Backfill.* The marker is written at the end of an invocation and read by another, with
repairs and changes of depth in between: `OnlyAtTheEnd`, `FoundTheMarker` and
`PlacesAreReached` say of the place in the plan, wherever it is kept, that every step behind
it was tried in the pass of its depth. `OverlapCoversMisses` is inductive with
`AnswersInOrder`.

*Starts and versions.* `StepsStayDone` says what a boot has done when it has gone past each of
its steps, and that no other boot of the same deployment undoes it; a boot of an older
deployment may (`mixed`). `NothingPlausibleWaits` is inductive with its types, but rests on
an order: `NewerIsOrder` proves of *any* two versions that `Below` compares their keys as a
strict, transitive and total order (Python's comparison of tuples, after trailing zeros are
dropped), `NewestExists` that a set of claims has a newest one, `AppliedIsNewest` that a pass
applies at most one claim and `FlaggedStandFor` that it rules on each one newer than that.

*Accounts.* `TenancyInv` needs `WindowCounts` (what the window of a key knows of the calls
answered in its minute and before it, unless calls overlapped) and `WorkIsSound` (what a
request has read is still true when it commits, or the key or kind is `stale`). `SignInInv`
adds to its four properties that requests at work name links that were sent and had not been
opened (`RequestsAreSound`), that an unspent link opened nothing (`UnspentOpensNothing`), and
that an invite names a role there is, whatever the form named (`InviteRow`, `WrittenRow`):
who accepts one does become a member.

*Pages.* `WritersMeet` says who may be at a temporary file, `UnfinishedFiles` which file may
be incomplete and why, `LookedUpIsThere` that a page is looked up after its file is named;
`FiledOnce` is the unique digest, and `RowsComeFromPages` ties each row to its page.

*Services.* Boot, SignIn, Tenancy and Snapshots share no variable, so the theorems about them
are stated of `ServicesSpec`, the specification the run checks: a step of one service leaves
the variables of the others unchanged, and one lemma per service says so.

*A form to avoid.* The prover accepts false facts about an `EXCEPT` with several updates at
one index and different fields (`![p].a = .., ![p].b = ..`). No module contains the form:
they write `![p] = [@ EXCEPT !.a = .., !.b = ..]` or the like, which the prover reads
correctly.

*Only model-checked.* The liveness properties `ClosedWindowsAreNoticed`, `CatchupFinishes`,
`UnfilteredHearsAll` and `ServedInTheEnd`: fairness and `ENABLED` are beyond the prover. Every
other property of a passing run is a theorem.

## 5. Plan

1. Done: the modules of section 2, the proofs of section 4.
2. The operator alert of `notify.py` (a counter and a day per source) against runs that
   fail and recover; `export_curated` and `replay_curated` around a wiped database.
3. The repairs of `maintenance.py` one by one, over the tables of Pipeline: split
   identities and rescoped items.

## 6. Not modelled

* Fetching and parsing (HTTP, HTML, feeds, JSON), the relevance gate's word lists.
* The read-only web pages, the API's serialisation, OSCAL export and summaries: no state,
  or formatting.
* `db/`: engine set-up and the idempotent schema upgrade; transactions are modelled where
  they are used. Configuration, the command line, the fetch helpers: wrappers and I/O.
* `alert_unhealthy_adapters`, and the single-adapter endpoints of `web/internal.py`.
* Attestations: signatures are cryptography. Because `attestations/` files outlive the rows
  they were made for, a page fetched again after a rollback keeps the statement of its
  first fetch; no text says which fetch a statement must be about.
* The expiry of sessions, mail preferences and the editions cookie.
* Which rows a repair dooms (titles, scope words, split identities), and obligations the
  catalog retires: constants of Boot.
* `export_curated` and `replay_curated`, which no job calls.
