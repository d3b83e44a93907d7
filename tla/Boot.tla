---------------------------------- MODULE Boot ----------------------------------
(***************************************************************************)
(* web/app.py: the work an instance does when it starts, once for each     *)
(* deployed version, and the version passes of the runs it meets (module   *)
(* Versions). The steps are transactions of their own: the catalog is      *)
(* synced, ownerless watchlists are adopted, rows known to be bad are      *)
(* retired, the curated timelines are seeded, and the version is stamped,  *)
(* which lets later starts skip all of it. An instance may be killed       *)
(* between two steps, several may start at once, and instances of the      *)
(* version before may still be at it when a new one is deployed.           *)
(***************************************************************************)
EXTENDS Versions

CONSTANTS
  Shipped,   \* deployment -> the version its catalog states
  Rules,     \* deployment -> items its linking rules attach
  Doomed,    \* deployment -> items its repairs retire and its adapters no longer make
  Instances, \* processes that boot
  MaxKills   \* bound: kills

ASSUME BootAssumption == Shipped \in Seq(Version) /\ Shipped # <<>>

VARIABLES
  deployed,  \* the deployment that receives requests
  stamp,     \* kv_meta boot_version, 0 when absent
  boots,     \* instance -> [version, step]
  ownerless, \* are there watchlists without an org?
  seeded,    \* deployments whose timelines have been seeded
  mixed,     \* did an instance of an older deployment write after a newer one was live?
  kills

bootVars == <<deployed, stamp, boots, ownerless, seeded, mixed, kills>>
deploymentVars == <<versionVars, bootVars>>

Down == [version |-> 0, step |-> "down"]

\* A boot of instance p that does one step and goes on to the next.
Step(p, from, to) ==
  /\ boots[p].step = from
  /\ boots' = [boots EXCEPT ![p] = IF to = "down" THEN Down ELSE [@ EXCEPT !.step = to]]
  /\ mixed' = (mixed \/ boots[p].version # deployed)
  /\ UNCHANGED <<deployed, kills>>
-------------------------------------------------------------------------------
BootInit ==
  /\ VersionsInit(Shipped[1])
  /\ deployed = 1 /\ stamp = 0
  /\ boots = [p \in Instances |-> Down]
  /\ ownerless = TRUE /\ seeded = {}
  /\ mixed = FALSE /\ kills = 0

\* Mutant of Start: a stamp of any deployment will do.
StartUnstamped(p) ==
  /\ boots[p].step = "down" /\ stamp = 0
  /\ boots' = [boots EXCEPT ![p] = [version |-> deployed, step |-> "sync"]]
  /\ UNCHANGED <<versionVars, deployed, stamp, ownerless, seeded, mixed, kills>>

\* create_app: nothing is left to do when the version is stamped.
Start(p) ==
  /\ boots[p].step = "down" /\ stamp # deployed
  /\ boots' = [boots EXCEPT ![p] = [version |-> deployed, step |-> "sync"]]
  /\ UNCHANGED <<versionVars, deployed, stamp, ownerless, seeded, mixed, kills>>

\* Mutant of SyncCatalog: an edit leaves the version that was applied before it.
SyncCatalogOnly(p) ==
  /\ Step(p, "sync", "tenancy")
  /\ baseline' = Shipped[boots[p].version]
  /\ settled' = (settled /\ baseline' = baseline)
  /\ UNCHANGED <<confirmed, rows, linked, decisions, views, overlapped, stamp, ownerless, seeded>>

\* _sync_catalog: an edit of the catalog's version clears the one applied on top of it.
SyncCatalog(p) ==
  /\ Step(p, "sync", "tenancy")
  /\ baseline' = Shipped[boots[p].version]
  /\ confirmed' = IF baseline' = baseline THEN confirmed ELSE Unversioned
  /\ settled' = (settled /\ baseline' = baseline)
  /\ UNCHANGED <<rows, linked, decisions, views, overlapped, stamp, ownerless, seeded>>

\* Mutant of AdoptWatchlists: the version is stamped before the repairs.
AdoptAndStamp(p) ==
  /\ Step(p, "tenancy", "repair")
  /\ ownerless' = FALSE
  /\ stamp' = boots[p].version
  /\ UNCHANGED <<versionVars, seeded>>

\* _provision_tenancy.
AdoptWatchlists(p) ==
  /\ Step(p, "tenancy", "repair")
  /\ ownerless' = FALSE
  /\ UNCHANGED <<versionVars, stamp, seeded>>

Retired(p) == rows \cap Doomed[boots[p].version]

\* _repair_data: the purges, then relink_items, in one transaction.
RepairData(p) ==
  /\ Step(p, "repair", "seed")
  /\ Retired(p) \cap Cited = {}
  /\ rows' = rows \ Retired(p)
  /\ linked' = (linked \cup Rules[boots[p].version]) \cap rows'
  /\ settled' = (settled /\ linked' \subseteq linked)
  /\ UNCHANGED <<baseline, confirmed, decisions, views, overlapped, stamp, ownerless, seeded>>

\* A version decision cites a row to be purged: the database refuses, and with the
\* repair the whole start fails.
RepairFails(p) ==
  /\ boots[p].step = "repair" /\ Retired(p) \cap Cited # {}
  /\ boots' = [boots EXCEPT ![p] = Down]
  /\ UNCHANGED <<versionVars, deployed, stamp, ownerless, seeded, mixed, kills>>

\* _seed_milestones.
SeedMilestones(p) ==
  /\ Step(p, "seed", "stamp")
  /\ seeded' = seeded \cup {boots[p].version}
  /\ UNCHANGED <<versionVars, stamp, ownerless>>

\* _stamp_boot; the instance then serves requests.
StampBoot(p) ==
  /\ Step(p, "stamp", "down")
  /\ stamp' = boots[p].version
  /\ UNCHANGED <<versionVars, ownerless, seeded>>

Kill(p) ==
  /\ kills < MaxKills /\ boots[p].step # "down"
  /\ boots' = [boots EXCEPT ![p] = Down]
  /\ kills' = kills + 1
  /\ UNCHANGED <<versionVars, deployed, stamp, ownerless, seeded, mixed>>

Deploy ==
  /\ deployed < Cardinality(DOMAIN Shipped)
  /\ deployed' = deployed + 1
  /\ UNCHANGED <<versionVars, stamp, boots, ownerless, seeded, mixed, kills>>

\* The runs of the deployment.
Run ==
  /\ \/ \E i \in DOMAIN Claims \ Doomed[deployed] : Observe(i, Rules[deployed])
     \/ \E r \in Runs : BeginPass(r) \/ CommitPass(r) \/ PassFails(r)
  /\ UNCHANGED bootVars

BootStep(p) ==
  \/ SyncCatalog(p) \/ AdoptWatchlists(p) \/ RepairData(p) \/ RepairFails(p)
  \/ SeedMilestones(p) \/ StampBoot(p)

BootNext ==
  \/ \E p \in Instances : Start(p) \/ BootStep(p) \/ Kill(p)
  \/ Deploy
  \/ Run

\* Requests keep coming, so an instance that is down is started when there is work to
\* do, and a boot under way goes on; kills are bounded.
BootFairness == \A p \in Instances : WF_deploymentVars(Start(p)) /\ WF_deploymentVars(BootStep(p))
BootSpec == BootInit /\ [][BootNext]_deploymentVars /\ BootFairness
-------------------------------------------------------------------------------
\* An edit of the catalog wins over what was applied before it, and otherwise the
\* version in force changes by plausible steps forward; it never falls back by itself.
\* (A pass whose reading was overtaken by an edit or another pass can break this.)
InForceAdvances ==
  [][/\ baseline' # baseline => InForce' = baseline'
     /\ baseline' = baseline /\ InForce' # InForce =>
          PlausibleSuccessor(InForce, InForce') \/ overlapped']_deploymentVars

\* Once a pass has seen all there is, no plausible newer version waits: an implausible
\* claim never hides a real one behind it. (A claim ruled on stays ruled on.)
NothingPlausibleWaits ==
  settled => \A i \in linked :
    PlausibleSuccessor(InForce, Claims[i]) =>
      \E d \in decisions : Key(d.version) = Key(Claims[i])

Healed ==
  /\ baseline = Shipped[deployed]
  /\ rows \cap Doomed[deployed] = {}
  /\ linked = rows \cap (linked \cup Rules[deployed])
  /\ ~ ownerless /\ deployed \in seeded

\* A stamped deployment has done all its work, whatever was killed on the way and however
\* many instances started at once, unless one of an older deployment interfered.
StampedMeansHealed == stamp = deployed /\ ~ mixed => Healed

\* Boots end: the deployment is stamped in the end, unless it is to retire a row that a
\* version decision cites.
Blocked == rows \cap Doomed[deployed] \cap Cited # {}
DeploysFinish == <>[](stamp = deployed) \/ []<>Blocked
===============================================================================
