-------------------------------- MODULE Services --------------------------------
(***************************************************************************)
(* The parts of the service beside the pipeline: what an instance does     *)
(* when it starts, signing in, what an org may have, and the store of      *)
(* pages. They write no common table, so any interleaving of them is one   *)
(* of each by itself: a behaviour runs one of them, chosen at the start,   *)
(* and the others stay as they are.                                        *)
(***************************************************************************)
EXTENDS Boot, SignIn, Tenancy, Snapshots

VARIABLE running  \* the part that runs

allVars == <<running, deploymentVars, signInVars, tenancyVars, snapshotVars>>

ServicesInit ==
  /\ running \in {"boot", "signin", "tenancy", "snapshots"}
  /\ BootInit /\ SignInInit /\ TenancyInit /\ SnapshotsInit

RunBoot ==
  /\ running = "boot" /\ BootNext
  /\ UNCHANGED <<running, signInVars, tenancyVars, snapshotVars>>

RunSignIn ==
  /\ running = "signin" /\ SignInNext
  /\ UNCHANGED <<running, deploymentVars, tenancyVars, snapshotVars>>

RunTenancy ==
  /\ running = "tenancy" /\ TenancyNext
  /\ UNCHANGED <<running, deploymentVars, signInVars, snapshotVars>>

RunSnapshots ==
  /\ running = "snapshots" /\ SnapshotsNext
  /\ UNCHANGED <<running, deploymentVars, signInVars, tenancyVars>>

ServicesNext == RunBoot \/ RunSignIn \/ RunTenancy \/ RunSnapshots

\* Only the boots are fair: nothing makes a visitor come or a page be read.
ServicesSpec ==
  /\ ServicesInit /\ [][ServicesNext]_allVars
  /\ running = "boot" => BootFairness
-------------------------------------------------------------------------------
\* Deployments end, as Boot states it, where boots run.
ServedInTheEnd == running = "boot" => DeploysFinish
===============================================================================
