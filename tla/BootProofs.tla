------------------------------- MODULE BootProofs -------------------------------
(***************************************************************************)
(* Proofs about deployments and versions, for any catalogs, rules, claims, *)
(* instances and runs: a stamped deployment has done its work, and the     *)
(* version in force moves as it should.                                    *)
(***************************************************************************)
EXTENDS Services, FiniteSetTheorems, WellFoundedInduction, TLAPS

\* The steps of a boot, and what an instance keeps of the one it is in.
BootSteps == {"down", "sync", "tenancy", "repair", "seed", "stamp"}
Boots == [version : Nat, step : BootSteps]

\* The type of what a start of the service reads and writes.
BootType ==
  /\ deployed \in Nat \ {0} /\ stamp \in Nat
  /\ boots \in [Instances -> Boots]
  /\ ownerless \in BOOLEAN /\ mixed \in BOOLEAN

\* Nothing is ahead of what is deployed.
BootsAreDeployed == stamp <= deployed /\ \A p \in Instances : boots[p].version <= deployed

\* What the newest deployment repairs is repaired.
Repaired ==
  /\ rows \cap Doomed[deployed] = {}
  /\ linked = rows \cap (linked \cup Rules[deployed])

Past(p, steps) == boots[p].version = deployed /\ boots[p].step \in steps

\* As long as no boot of an older deployment has written, what a boot of the live one has
\* gone past stays done.
StepsStayDone ==
  ~ mixed => \A p \in Instances :
    /\ Past(p, {"tenancy", "repair", "seed", "stamp"}) => baseline = Shipped[deployed]
    /\ Past(p, {"repair", "seed", "stamp"}) => ownerless = FALSE
    /\ Past(p, {"seed", "stamp"}) => Repaired
    /\ Past(p, {"stamp"}) => deployed \in seeded

BootInv == BootType /\ BootsAreDeployed /\ StepsStayDone /\ StampedMeansHealed
-------------------------------------------------------------------------------
\* A boot's step changes its instance's record and no other, and is one of the live
\* deployment unless it mixes.
LEMMA StepOfBoot ==
  ASSUME BootType, BootsAreDeployed, NEW p \in Instances, NEW from \in BootSteps \ {"down"},
         NEW to \in BootSteps, Step(p, from, to)
  PROVE  /\ boots' \in [Instances -> Boots] /\ deployed' = deployed /\ mixed' \in BOOLEAN
         /\ boots[p].step = from
         /\ boots'[p].step = to /\ boots'[p].version <= deployed
         /\ to # "down" => boots'[p].version = boots[p].version
         /\ boots'[p].version \in {0, boots[p].version}
         /\ \A q \in Instances \ {p} : boots'[q] = boots[q]
         /\ mixed' = FALSE => mixed = FALSE /\ boots[p].version = deployed
<1> DEFINE row == IF to = "down" THEN Down ELSE [boots[p] EXCEPT !.step = to]
<1>1. boots[p] \in Boots /\ boots' = [boots EXCEPT ![p] = row] /\ boots[p].version <= deployed
  BY DEF Step, BootType, BootsAreDeployed
<1>2. /\ row \in Boots /\ row.step = to /\ row.version \in {0, boots[p].version}
      /\ to # "down" => row.version = boots[p].version
  BY <1>1 DEF Boots, BootSteps, Down
<1> HIDE DEF row
<1>3. boots' \in [Instances -> Boots] /\ boots'[p] = row
      /\ \A q \in Instances \ {p} : boots'[q] = boots[q]
  BY <1>1, <1>2 DEF BootType
<1>4. deployed' = deployed /\ boots[p].step = from
      /\ mixed' = (mixed \/ boots[p].version # deployed)
  BY DEF Step
<1>5. boots'[p].version <= deployed
  BY <1>1, <1>2, <1>3 DEF BootType
<1>6. mixed' \in BOOLEAN /\ (mixed' = FALSE => mixed = FALSE /\ boots[p].version = deployed)
  BY <1>4, Zenon DEF BootType
<1> QED
  BY <1>2, <1>3, <1>4, <1>5, <1>6

\* Such a step keeps the types if it writes a stamp and an owner that fit them.
LEMMA StepKeepsType ==
  ASSUME BootType, BootsAreDeployed, NEW p \in Instances, NEW from \in BootSteps \ {"down"},
         NEW to \in BootSteps, Step(p, from, to),
         stamp' \in Nat, stamp' <= deployed, ownerless' \in BOOLEAN
  PROVE  BootType' /\ BootsAreDeployed'
<1>1. /\ boots' \in [Instances -> Boots] /\ deployed' = deployed /\ mixed' \in BOOLEAN
      /\ boots'[p].version <= deployed
      /\ \A q \in Instances \ {p} : boots'[q] = boots[q]
  BY StepOfBoot
<1>2. ASSUME NEW q \in Instances PROVE boots'[q].version <= deployed
  <2>1. CASE q = p
    BY <1>1, <2>1
  <2>2. CASE q # p
    <3>1. boots'[q] = boots[q]
      BY <1>1, <2>2
    <3> QED
      BY <3>1 DEF BootsAreDeployed
  <2> QED
    BY <2>1, <2>2
<1>3. BootType'
  BY <1>1, Zenon DEF BootType
<1>4. BootsAreDeployed'
  BY <1>1, <1>2 DEF BootsAreDeployed
<1> QED
  BY <1>3, <1>4

\* A step of a boot keeps the invariant.
LEMMA BootStepKeeps ==
  ASSUME BootInv, NEW p \in Instances, BootStep(p)
  PROVE  BootInv'
<1> USE DEF BootInv
<1>1. CASE SyncCatalog(p)
  <2>1. Step(p, "sync", "tenancy") /\ baseline' = Shipped[boots[p].version]
        /\ UNCHANGED <<rows, linked, stamp, ownerless, seeded>>
    BY <1>1 DEF SyncCatalog
  <2>2. BootType' /\ BootsAreDeployed'
    <3>1. stamp' \in Nat /\ stamp' <= deployed
      BY <2>1 DEF BootType, BootsAreDeployed
    <3>2. ownerless' \in BOOLEAN
      BY <2>1, Zenon DEF BootType
    <3> QED
      BY <2>1, <3>1, <3>2, StepKeepsType DEF BootSteps
  <2> QED
    BY <2>1, <2>2, StepOfBoot
      DEF BootType, StepsStayDone, StampedMeansHealed, Healed, Past, Repaired, BootSteps
<1>2. CASE AdoptWatchlists(p)
  <2>1. Step(p, "tenancy", "repair") /\ ownerless' = FALSE
        /\ UNCHANGED <<baseline, rows, linked, stamp, seeded>>
    BY <1>2 DEF AdoptWatchlists, versionVars
  <2>2. BootType' /\ BootsAreDeployed'
    <3>1. stamp' \in Nat /\ stamp' <= deployed
      BY <2>1 DEF BootType, BootsAreDeployed
    <3>2. ownerless' \in BOOLEAN
      BY <2>1, Zenon DEF BootType
    <3> QED
      BY <2>1, <3>1, <3>2, StepKeepsType DEF BootSteps
  <2>3. StepsStayDone'
    <3>1. deployed' = deployed /\ (mixed' = FALSE => mixed = FALSE /\ Past(p, {"tenancy"}))
          /\ Repaired' = Repaired
      BY <2>1, StepOfBoot DEF Past, BootSteps, Repaired
    <3>2. \A q \in Instances \ {p} : boots'[q] = boots[q]
      BY <2>1, StepOfBoot DEF BootSteps
    <3>3. boots'[p].step = "repair" /\ boots'[p].version = boots[p].version
      BY <2>1, StepOfBoot DEF BootSteps
    <3> QED
      BY <2>1, <3>1, <3>2, <3>3 DEF StepsStayDone, Past
  <2>4. StampedMeansHealed'
    BY <2>1, StepOfBoot DEF StampedMeansHealed, Healed, BootSteps
  <2> QED
    BY <2>2, <2>3, <2>4
<1>3. CASE RepairData(p)
  <2>1. Step(p, "repair", "seed") /\ rows' = rows \ (rows \cap Doomed[boots[p].version])
        /\ linked' = (linked \cup Rules[boots[p].version]) \cap rows'
        /\ UNCHANGED <<baseline, stamp, ownerless, seeded>>
    BY <1>3 DEF RepairData, Retired
  <2>2. BootType' /\ BootsAreDeployed'
    <3>1. stamp' \in Nat /\ stamp' <= deployed
      BY <2>1 DEF BootType, BootsAreDeployed
    <3>2. ownerless' \in BOOLEAN
      BY <2>1, Zenon DEF BootType
    <3> QED
      BY <2>1, <3>1, <3>2, StepKeepsType DEF BootSteps
  <2>3. mixed' = FALSE => Repaired'
    BY <2>1, StepOfBoot DEF Repaired, BootSteps
  <2>4. StepsStayDone'
    BY <2>1, <2>3, StepOfBoot DEF StepsStayDone, Past, BootSteps
  <2>5. StampedMeansHealed'
    BY <2>1, <2>3, StepOfBoot DEF StampedMeansHealed, Healed, Repaired, BootSteps
  <2> QED
    BY <2>2, <2>4, <2>5
<1>4. CASE RepairFails(p)
  <2>1. /\ UNCHANGED <<baseline, rows, linked, deployed, stamp, ownerless, seeded, mixed>>
        /\ boots' = [boots EXCEPT ![p] = Down]
    BY <1>4 DEF RepairFails, versionVars
  <2> QED
    BY <2>1 DEF BootType, BootsAreDeployed, StepsStayDone, StampedMeansHealed, Healed, Past,
      Repaired, Boots, BootSteps, Down
<1>5. CASE SeedMilestones(p)
  <2>1. Step(p, "seed", "stamp") /\ UNCHANGED <<baseline, rows, linked, stamp, ownerless>>
    BY <1>5 DEF SeedMilestones, versionVars
  <2>2. boots[p].version \in seeded' /\ seeded \subseteq seeded'
    BY <1>5 DEF SeedMilestones
  <2>3. BootType' /\ BootsAreDeployed'
    <3>1. stamp' \in Nat /\ stamp' <= deployed
      BY <2>1 DEF BootType, BootsAreDeployed
    <3>2. ownerless' \in BOOLEAN
      BY <2>1, Zenon DEF BootType
    <3> QED
      BY <2>1, <3>1, <3>2, StepKeepsType DEF BootSteps
  <2>4. (Repaired => Repaired') /\ (StampedMeansHealed => StampedMeansHealed')
    BY <2>1, <2>2, StepOfBoot DEF Repaired, StampedMeansHealed, Healed, BootSteps, BootType
  <2>5. StepsStayDone'
    <3>1. deployed' = deployed /\ (mixed' = FALSE => mixed = FALSE /\ Past(p, {"seed"}))
      BY <2>1, StepOfBoot DEF Past, BootSteps
    <3>2. \A q \in Instances \ {p} : boots'[q] = boots[q]
      BY <2>1, StepOfBoot DEF BootSteps
    <3>3. boots'[p].step = "stamp" /\ boots'[p].version = boots[p].version
      BY <2>1, StepOfBoot DEF BootSteps
    <3> QED
      BY <2>1, <2>2, <2>4, <3>1, <3>2, <3>3 DEF StepsStayDone, Past
  <2> QED
    BY <2>3, <2>4, <2>5
<1>6. CASE StampBoot(p)
  <2>1. Step(p, "stamp", "down") /\ stamp' = boots[p].version
        /\ UNCHANGED <<baseline, rows, linked, ownerless, seeded>>
    BY <1>6 DEF StampBoot, versionVars
  <2>2. stamp' \in Nat /\ stamp' <= deployed
    BY <2>1 DEF BootType, BootsAreDeployed, Boots
  <2>3. BootType' /\ BootsAreDeployed'
    <3>1. ownerless' \in BOOLEAN
      BY <2>1, Zenon DEF BootType
    <3> QED
      BY <2>1, <2>2, <3>1, StepKeepsType DEF BootSteps
  <2>4. mixed' = FALSE => Past(p, {"stamp"})
    BY <2>1, StepOfBoot DEF Past, BootSteps
  <2> QED
    BY <2>1, <2>3, <2>4, StepOfBoot
      DEF BootType, StepsStayDone, StampedMeansHealed, Healed, Past, Repaired, BootSteps
<1> QED
  BY <1>1, <1>2, <1>3, <1>4, <1>5, <1>6 DEF BootStep

\* So does everything else: starts, kills, deployments and the runs.
LEMMA BootInvStep ==
  ASSUME BootInv, [BootNext]_deploymentVars
  PROVE  BootInv'
<1> USE DEF BootInv
<1>1. CASE UNCHANGED deploymentVars
  BY <1>1 DEF deploymentVars, versionVars, bootVars, BootType, BootsAreDeployed, StepsStayDone,
    StampedMeansHealed, Healed, Past, Repaired
<1>2. ASSUME NEW p \in Instances, Start(p) \/ Kill(p) PROVE BootInv'
  <2>1. PICK row \in {Down, [version |-> deployed, step |-> "sync"]} :
          boots' = [boots EXCEPT ![p] = row]
    BY <1>2 DEF Start, Kill
  <2>2. UNCHANGED <<baseline, rows, linked, deployed, stamp, ownerless, seeded, mixed>>
    BY <1>2 DEF Start, Kill, versionVars
  <2>3. row \in Boots /\ row.version <= deployed /\ row.step \in {"down", "sync"}
    BY DEF BootType, Boots, BootSteps, Down
  <2> QED
    BY <2>1, <2>2, <2>3 DEF BootType, BootsAreDeployed, StepsStayDone, StampedMeansHealed,
      Healed, Past, Repaired
<1>3. ASSUME NEW p \in Instances, BootStep(p) PROVE BootInv'
  BY <1>3, BootStepKeeps
<1>4. CASE Deploy
  <2>1. deployed' = deployed + 1 /\ UNCHANGED <<baseline, rows, linked, stamp, boots, mixed>>
        /\ UNCHANGED <<ownerless, seeded>>
    BY <1>4 DEF Deploy, versionVars
  <2>2. BootType' /\ BootsAreDeployed'
    BY <2>1 DEF BootType, BootsAreDeployed, Boots
  <2>3. \A p \in Instances : boots'[p].version # deployed'
    BY <2>1 DEF BootType, BootsAreDeployed, Boots
  <2>4. stamp' # deployed'
    BY <2>1 DEF BootType, BootsAreDeployed
  <2> QED
    BY <2>2, <2>3, <2>4 DEF StepsStayDone, StampedMeansHealed, Past
<1>5. CASE Run
  <2>1. UNCHANGED <<baseline, deployed, stamp, boots, ownerless, seeded, mixed>>
    BY <1>5 DEF Run, bootVars, Observe, BeginPass, CommitPass, PassFails
  <2>2. Repaired => Repaired'
    <3>1. CASE UNCHANGED <<rows, linked>>
      BY <2>1, <3>1 DEF Repaired
    <3>2. ASSUME NEW i \in DOMAIN Claims \ Doomed[deployed], Observe(i, Rules[deployed])
          PROVE  Repaired => Repaired'
      BY <2>1, <3>2 DEF Observe, Repaired
    <3> QED
      BY <1>5, <3>1, <3>2 DEF Run, BeginPass, CommitPass, PassFails
  <2> QED
    BY <2>1, <2>2 DEF BootType, BootsAreDeployed, StepsStayDone, StampedMeansHealed, Healed,
      Past, Repaired
<1> QED
  BY <1>1, <1>2, <1>3, <1>4, <1>5 DEF BootNext

\* What a step of the services is to the deployments.
LEMMA BootRuns ==
  [ServicesNext]_allVars => [BootNext]_deploymentVars
BY DEF ServicesNext, RunBoot, RunSignIn, RunTenancy, RunSnapshots, allVars

\* The invariant holds of every behaviour of the services.
LEMMA BootInvariant == ServicesSpec => []BootInv
<1>1. ServicesInit => BootInv
  <2> SUFFICES ASSUME BootInit PROVE BootInv
    BY DEF ServicesInit
  <2>1. Down \in Boots /\ Down.version = 0
    BY DEF Down, Boots, BootSteps
  <2>2. deployed = 1 /\ stamp = 0 /\ \A p \in Instances : boots[p] = Down
    BY DEF BootInit
  <2>3. boots \in [Instances -> Boots]
    BY <2>1 DEF BootInit
  <2>4. BootType
    <3>1. ownerless \in BOOLEAN /\ mixed \in BOOLEAN
      BY Zenon DEF BootInit
    <3> QED
      BY <2>2, <2>3, <3>1 DEF BootType
  <2> QED
    BY <2>1, <2>2, <2>4 DEF BootInv, BootsAreDeployed, StepsStayDone, StampedMeansHealed, Past
<1>2. BootInv /\ [ServicesNext]_allVars => BootInv'
  BY BootRuns, BootInvStep
<1> QED
  BY <1>1, <1>2, PTL DEF ServicesSpec

\* A stamped deployment has done all its work (synced the catalog, retired and relinked rows,
\* adopted watchlists, seeded the timelines), whatever was killed on the way and however many
\* instances started at once, unless a boot of an older deployment interfered.
THEOREM StampIsEarned == ServicesSpec => []StampedMeansHealed
<1>1. BootInv => StampedMeansHealed
  BY DEF BootInv
<1> QED
  BY <1>1, BootInvariant, PTL
-------------------------------------------------------------------------------
\* A set of naturals that is not empty has a least element.
LEMMA LeastOf ==
  ASSUME NEW S \in SUBSET Nat, S # {}
  PROVE  \E x \in S : \A y \in S : x <= y
<1>1. PICK x \in S : \A y \in S : ~ (<<y, x>> \in OpToRel(<, Nat))
  BY NatLessThanWellFounded, WFMin
<1>2. \A y \in S : y < x => <<y, x>> \in OpToRel(<, Nat)
  BY DEF OpToRel
<1>3. \A y \in S : ~ (y < x)
  BY <1>1, <1>2, Zenon
<1> QED
  BY <1>3

\* The greatest place of a non-empty set of places is one of them.
LEMMA MaxOfPlaces ==
  ASSUME NEW n \in Nat, NEW S \in SUBSET (1..n), S # {}
  PROVE  Max(S) \in S
<1> DEFINE Left == {n - i : i \in S}
<1>1. Left \in SUBSET Nat /\ Left # {}
  <2>1. \A i \in S : n - i \in Nat
    OBVIOUS
  <2> QED
    BY <2>1
<1>2. PICK x \in Left : \A y \in Left : x <= y
  <2> HIDE DEF Left
  <2> QED
    BY <1>1, LeastOf
<1>3. PICK i \in S : x = n - i
  OBVIOUS
<1>4. \A j \in S : i >= j
  <2> TAKE j \in S
  <2>1. n - j \in Left
    OBVIOUS
  <2> QED
    BY <1>2, <1>3, <2>1
<1> QED
  BY <1>4 DEF Max

\* The key of a version is a tuple of numbers, cut after its last part that is not zero.
LEMMA KeyIsTuple ==
  ASSUME NEW v \in Version
  PROVE  Key(v) \in Seq(Nat)
<1> DEFINE S == {1} \cup {i \in DOMAIN v.parts : v.parts[i] # 0}
<1>1. v.parts \in Seq(Nat)
  BY DEF Version
<1>2. CASE v.date \/ v.parts = <<>>
  BY <1>1, <1>2 DEF Key
<1>3. CASE ~ (v.date \/ v.parts = <<>>)
  <2>1. S \in SUBSET (1..Len(v.parts)) /\ S # {} /\ Len(v.parts) \in Nat
    BY <1>1, <1>3
  <2>2. Max(S) \in 1..Len(v.parts)
    <3> HIDE DEF S
    <3> QED
      BY <2>1, MaxOfPlaces
  <2>3. Key(v) = SubSeq(v.parts, 1, Max(S))
    BY <1>3 DEF Key
  <2> HIDE DEF S
  <2> QED
    BY <1>1, <2>2, <2>3
<1> QED
  BY <1>2, <1>3

\* Of two places in two tuples the lower one is a place of both.
LEMMA LowerPlaces ==
  ASSUME NEW n \in Nat, NEW m \in Nat, NEW i \in 1..n, NEW k \in 1..m
  PROVE  /\ i <= k => i \in 1..m /\ (i = k \/ i \in 1..(k - 1))
         /\ ~ i <= k => k \in 1..n /\ k \in 1..(i - 1)
OBVIOUS

\* No key is below itself, and none is below the empty one.
LEMMA BelowIsStrict ==
  ASSUME NEW a \in Seq(Nat)
  PROVE  ~ Below(a, a) /\ ~ Below(a, <<>>)
BY DEF Below

\* Keys compare transitively: as Python compares tuples, place by place.
LEMMA BelowIsTransitive ==
  ASSUME NEW a \in Seq(Nat), NEW b \in Seq(Nat), NEW c \in Seq(Nat), Below(a, b), Below(b, c)
  PROVE  Below(a, c)
<1>1. /\ Len(a) \in Nat /\ Len(b) \in Nat /\ Len(c) \in Nat
      /\ DOMAIN a = 1..Len(a) /\ DOMAIN b = 1..Len(b) /\ DOMAIN c = 1..Len(c)
      /\ \A i \in DOMAIN a : a[i] \in Nat
      /\ \A i \in DOMAIN b : b[i] \in Nat
      /\ \A i \in DOMAIN c : c[i] \in Nat
  OBVIOUS
<1>2. CASE /\ Len(a) < Len(b) /\ \A j \in DOMAIN a : a[j] = b[j]
           /\ Len(b) < Len(c) /\ \A j \in DOMAIN b : b[j] = c[j]
  <2>1. Len(a) < Len(c) /\ \A j \in DOMAIN a : a[j] = c[j]
    BY <1>1, <1>2
  <2> QED
    BY <2>1 DEF Below
<1>3. ASSUME NEW i \in DOMAIN a \cap DOMAIN b,
             a[i] < b[i], \A j \in 1..(i - 1) : a[j] = b[j],
             Len(b) < Len(c), \A j \in DOMAIN b : b[j] = c[j]
      PROVE  Below(a, c)
  <2>1. i \in DOMAIN a \cap DOMAIN c /\ a[i] < c[i]
    BY <1>1, <1>3
  <2>2. \A j \in 1..(i - 1) : j \in DOMAIN b
    BY <1>1
  <2>3. \A j \in 1..(i - 1) : a[j] = c[j]
    BY <1>3, <2>2, Zenon
  <2> QED
    BY <2>1, <2>3 DEF Below
<1>4. ASSUME NEW i \in DOMAIN b \cap DOMAIN c,
             Len(a) < Len(b), \A j \in DOMAIN a : a[j] = b[j],
             b[i] < c[i], \A j \in 1..(i - 1) : b[j] = c[j]
      PROVE  Below(a, c)
  <2>1. CASE i \in DOMAIN a
    <3>1. a[i] < c[i]
      BY <1>1, <1>4, <2>1
    <3>2. \A j \in 1..(i - 1) : j \in DOMAIN a
      BY <1>1, <2>1
    <3>3. \A j \in 1..(i - 1) : a[j] = c[j]
      BY <1>4, <3>2, Zenon
    <3> QED
      BY <2>1, <3>1, <3>3 DEF Below
  <2>2. CASE i \notin DOMAIN a
    <3>1. Len(a) < Len(c)
      BY <1>1, <2>2
    <3>2. \A j \in DOMAIN a : j \in 1..(i - 1)
      BY <1>1, <2>2
    <3>3. \A j \in DOMAIN a : a[j] = c[j]
      BY <1>4, <3>2, Zenon
    <3> QED
      BY <3>1, <3>3 DEF Below
  <2> QED
    BY <2>1, <2>2
<1>5. ASSUME NEW i \in DOMAIN a \cap DOMAIN b, NEW k \in DOMAIN b \cap DOMAIN c,
             a[i] < b[i], \A j \in 1..(i - 1) : a[j] = b[j],
             b[k] < c[k], \A j \in 1..(k - 1) : b[j] = c[j]
      PROVE  Below(a, c)
  <2>1. CASE i <= k
    <3>1. i \in DOMAIN a \cap DOMAIN c /\ a[i] < c[i]
      <4>1. i \in DOMAIN c /\ (i = k \/ i \in 1..(k - 1))
        <5>1. i \in 1..Len(b) /\ k \in 1..Len(c) /\ Len(b) \in Nat /\ Len(c) \in Nat
          BY <1>1
        <5>2. i \in 1..Len(c) /\ (i = k \/ i \in 1..(k - 1))
          BY <2>1, <5>1, LowerPlaces
        <5> QED
          BY <1>1, <5>2
      <4>2. b[i] <= c[i]
        <5>1. CASE i = k
          BY <1>1, <1>5, <5>1
        <5>2. CASE i \in 1..(k - 1)
          <6>1. b[i] = c[i]
            BY <1>5, <5>2
          <6> QED
            BY <1>1, <4>1, <6>1
        <5> QED
          BY <4>1, <5>1, <5>2
      <4>3. a[i] \in Nat /\ b[i] \in Nat /\ c[i] \in Nat
        BY <1>1, <4>1
      <4> QED
        BY <1>5, <4>1, <4>2, <4>3
    <3>2. \A j \in 1..(i - 1) : j \in 1..(k - 1)
      BY <1>1, <2>1
    <3>3. \A j \in 1..(i - 1) : a[j] = c[j]
      BY <1>5, <3>2, Zenon
    <3> QED
      BY <3>1, <3>3 DEF Below
  <2>2. CASE ~ i <= k
    <3>1. k \in DOMAIN a \cap DOMAIN c /\ a[k] < c[k]
      <4>1. k \in DOMAIN a /\ k \in 1..(i - 1)
        <5>1. i \in 1..Len(a) /\ k \in 1..Len(b) /\ Len(a) \in Nat /\ Len(b) \in Nat
          BY <1>1
        <5>2. k \in 1..(i - 1) /\ k \in 1..Len(a)
          BY <2>2, <5>1, LowerPlaces
        <5> QED
          BY <1>1, <5>2
      <4>2. a[k] = b[k]
        BY <1>5, <4>1
      <4> QED
        BY <1>5, <4>1, <4>2
    <3>2. \A j \in 1..(k - 1) : j \in 1..(i - 1)
      BY <1>1, <2>2
    <3>3. \A j \in 1..(k - 1) : a[j] = c[j]
      BY <1>5, <3>2, Zenon
    <3> QED
      BY <3>1, <3>3 DEF Below
  <2> QED
    BY <2>1, <2>2
<1> QED
  BY <1>2, <1>3, <1>4, <1>5 DEF Below

\* Two keys neither of which is below the other are the same key.
LEMMA BelowIsTotal ==
  ASSUME NEW a \in Seq(Nat), NEW b \in Seq(Nat), ~ Below(a, b), ~ Below(b, a)
  PROVE  a = b
<1> DEFINE D == {i \in DOMAIN a \cap DOMAIN b : a[i] # b[i]}
<1>1. /\ Len(a) \in Nat /\ Len(b) \in Nat
      /\ DOMAIN a = 1..Len(a) /\ DOMAIN b = 1..Len(b)
      /\ \A i \in DOMAIN a : a[i] \in Nat
      /\ \A i \in DOMAIN b : b[i] \in Nat
  OBVIOUS
<1>2. D = {}
  <2> SUFFICES ASSUME D # {} PROVE FALSE
    OBVIOUS
  <2>1. D \in SUBSET Nat
    BY <1>1
  <2>2. PICK i \in D : \A j \in D : i <= j
    <3> HIDE DEF D
    <3> QED
      BY <2>1, LeastOf
  <2>3. i \in DOMAIN a \cap DOMAIN b /\ (a[i] < b[i] \/ b[i] < a[i])
    BY <1>1
  <2>4. \A j \in 1..(i - 1) : a[j] = b[j]
    <3>1. i \in 1..Len(a) /\ i \in 1..Len(b)
      BY <1>1, <2>3
    <3>2. \A j \in 1..(i - 1) : j \in 1..Len(a) /\ j \in 1..Len(b) /\ ~ (i <= j)
      <4>1. Len(a) \in Nat /\ Len(b) \in Nat
        BY <1>1
      <4> HIDE DEF D
      <4> QED
        BY <3>1, <4>1
    <3> QED
      BY <1>1, <2>2, <3>2
  <2>5. \A j \in 1..(i - 1) : b[j] = a[j]
    BY <2>4
  <2> QED
    BY <2>3, <2>4, <2>5 DEF Below
<1>3. \A j \in DOMAIN a \cap DOMAIN b : a[j] = b[j]
  BY <1>2
<1>4. Len(a) = Len(b)
  <2>1. ~ (Len(a) < Len(b))
    BY <1>1, <1>3 DEF Below
  <2>2. ~ (Len(b) < Len(a))
    BY <1>1, <1>3 DEF Below
  <2>3. Len(a) \in Nat /\ Len(b) \in Nat
    OBVIOUS
  <2> QED
    BY <2>1, <2>2, <2>3
<1> QED
  <2>1. DOMAIN a = DOMAIN b /\ \A j \in DOMAIN a : a[j] = b[j]
    BY <1>1, <1>3, <1>4
  <2>2. a = [j \in DOMAIN a |-> a[j]] /\ b = [j \in DOMAIN b |-> b[j]]
    OBVIOUS
  <2> HIDE DEF D
  <2> QED
    BY <2>1, <2>2, Zenon

\* "Newer" orders versions, up to those that share a key, and the unversioned are newest of
\* nothing.
LEMMA NewerIsOrder ==
  ASSUME NEW u \in Version, NEW v \in Version, NEW w \in Version
  PROVE  /\ ~ IsNewer(v, v)
         /\ IsNewer(u, v) /\ IsNewer(v, w) => IsNewer(u, w)
         /\ IsNewer(u, v) \/ IsNewer(v, u) \/ Key(u) = Key(v)
         /\ ~ IsNewer(Unversioned, v)
<1>1. Key(u) \in Seq(Nat) /\ Key(v) \in Seq(Nat) /\ Key(w) \in Seq(Nat)
  BY KeyIsTuple
<1>2. Key(Unversioned) = <<>>
  BY DEF Key, Unversioned
<1> QED
  BY <1>1, <1>2, BelowIsStrict, BelowIsTransitive, BelowIsTotal, Zenon DEF IsNewer

\* The later of two versions is one of them, and what is newer than it is newer than both.
LEMMA LaterIsLatest ==
  ASSUME NEW u \in Version, NEW v \in Version
  PROVE  /\ Later(u, v) \in {u, v}
         /\ \A w \in Version : IsNewer(w, Later(u, v)) => IsNewer(w, u) /\ IsNewer(w, v)
<1>1. Later(u, v) \in {u, v}
  BY DEF Later
<1>2. ASSUME NEW w \in Version, IsNewer(w, Later(u, v))
      PROVE  IsNewer(w, u) /\ IsNewer(w, v)
  <2>1. CASE IsNewer(v, u)
    BY <1>2, <2>1, NewerIsOrder DEF Later
  <2>2. CASE ~ IsNewer(v, u)
    <3>1. IsNewer(w, u)
      BY <1>2, <2>2 DEF Later
    <3>2. IsNewer(u, v) \/ Key(u) = Key(v)
      BY <2>2, NewerIsOrder
    <3> QED
      BY <3>1, <3>2, NewerIsOrder DEF IsNewer
  <2> QED
    BY <2>1, <2>2
<1> QED
  BY <1>1, <1>2

\* There are finitely many claims, each of a version.
LEMMA ClaimsAreVersions ==
  /\ DOMAIN Claims \subseteq Nat /\ IsFiniteSet(DOMAIN Claims)
  /\ \A i \in DOMAIN Claims : Claims[i] \in Version
<1>1. DOMAIN Claims = 1..Len(Claims) /\ Len(Claims) \in Nat
  BY VersionsAssumption
<1>2. IsFiniteSet(1..Len(Claims))
  BY <1>1, FS_Interval
<1> QED
  BY <1>1, <1>2, VersionsAssumption

\* A set of claims that is not empty has a newest one, as it is finite and "newer" an order.
LEMMA NewestExists ==
  ASSUME NEW S \in SUBSET DOMAIN Claims, S # {}
  PROVE  Newest(S) # {}
<1> DEFINE Above(i) == {j \in S : IsNewer(Claims[j], Claims[i])}
           T == {Above(i) : i \in S}
<1>1. IsFiniteSet(S) /\ \A i \in S : Claims[i] \in Version
  BY ClaimsAreVersions, FS_Subset
<1>2. T \subseteq FiniteSubsetsOf(S) /\ T # {}
  <2>1. \A i \in S : Above(i) \in SUBSET S /\ IsFiniteSet(Above(i))
    BY <1>1, FS_Subset
  <2> QED
    BY <2>1 DEF FiniteSubsetsOf
<1>3. PICK least \in T : \A other \in T : ~ (<<other, least>> \in StrictSubsetOrdering(S))
  <2> HIDE DEF T
  <2> QED
    BY <1>2, FS_StrictSubsetOrderingWellFounded, WFMin
<1>4. PICK i \in S : least = Above(i)
  BY <1>3
<1>5. Above(i) = {}
  <2> SUFFICES ASSUME NEW j \in Above(i) PROVE FALSE
    OBVIOUS
  <2>1. Above(j) \subseteq Above(i)
    BY <1>1, NewerIsOrder
  <2>2. j \in Above(i) /\ j \notin Above(j)
    BY <1>1, NewerIsOrder
  <2>3. <<Above(j), Above(i)>> \in StrictSubsetOrdering(S)
    BY <2>1, <2>2 DEF StrictSubsetOrdering
  <2> QED
    BY <1>3, <1>4, <2>3
<1> QED
  BY <1>5 DEF Newest

\* Of the claims that share a key, one comes first.
LEMMA FirstExists ==
  ASSUME NEW S \in SUBSET DOMAIN Claims, NEW i \in S
  PROVE  \E f \in First(S) : Key(Claims[f]) = Key(Claims[i])
<1> DEFINE Same == {j \in S : Key(Claims[j]) = Key(Claims[i])}
<1>1. PICK f \in Same : \A j \in Same : f <= j
  <2>1. Same \in SUBSET Nat /\ Same # {}
    BY ClaimsAreVersions
  <2> HIDE DEF Same
  <2> QED
    BY <2>1, LeastOf
<1> QED
  BY <1>1 DEF First
-------------------------------------------------------------------------------
\* What a pass has read of the obligation and its claims.
IsView(view) ==
  view.baseline \in Version /\ view.confirmed \in Version /\ view.claims \subseteq DOMAIN Claims

\* The claims a pass walks are those newer than the version it read as in force.
LEMMA AheadIsAhead ==
  ASSUME NEW view, IsView(view)
  PROVE  /\ InForceOf(view) \in Version
         /\ Ahead(view) \in SUBSET DOMAIN Claims
         /\ \A i \in Ahead(view) : Claims[i] \in Version /\ IsNewer(Claims[i], InForceOf(view))
BY LaterIsLatest, ClaimsAreVersions DEF IsView, InForceOf, Ahead

\* A pass applies at most one claim, a plausible one, and none only when none is plausible.
LEMMA AppliedIsNewest ==
  ASSUME NEW view, IsView(view)
  PROVE  /\ \A a \in Applied(view) :
              a \in Ahead(view) /\ PlausibleSuccessor(InForceOf(view), Claims[a])
         /\ \A a, b \in Applied(view) : a = b
         /\ Applied(view) = {} =>
              \A i \in Ahead(view) : ~ PlausibleSuccessor(InForceOf(view), Claims[i])
<1> DEFINE P == {i \in Ahead(view) : PlausibleSuccessor(InForceOf(view), Claims[i])}
<1>1. P \in SUBSET DOMAIN Claims /\ Applied(view) = First(Newest(P))
  BY AheadIsAhead DEF Applied
<1>2. ASSUME NEW a \in Applied(view) PROVE a \in P
  BY <1>1 DEF First, Newest
<1>3. ASSUME NEW a \in Applied(view), NEW b \in Applied(view) PROVE a = b
  <2>1. a \in Newest(P) /\ b \in Newest(P)
    BY <1>1 DEF First
  <2>2. Key(Claims[a]) = Key(Claims[b])
    <3>1. Claims[a] \in Version /\ Claims[b] \in Version
      BY <1>1, <1>2, ClaimsAreVersions
    <3>2. ~ IsNewer(Claims[a], Claims[b]) /\ ~ IsNewer(Claims[b], Claims[a])
      BY <2>1 DEF Newest
    <3> QED
      BY <3>1, <3>2, NewerIsOrder
  <2>3. a <= b /\ b <= a
    BY <1>1, <2>1, <2>2 DEF First
  <2>4. a \in Nat /\ b \in Nat
    BY <1>1, <1>2, ClaimsAreVersions
  <2> QED
    BY <2>3, <2>4
<1>4. ASSUME P # {} PROVE Applied(view) # {}
  <2>1. PICK i \in Newest(P) : TRUE
    BY <1>1, <1>4, NewestExists
  <2>2. Newest(P) \in SUBSET DOMAIN Claims
    BY <1>1 DEF Newest
  <2> HIDE DEF P
  <2> QED
    BY <1>1, <2>1, <2>2, FirstExists
<1> QED
  BY <1>2, <1>3, <1>4

\* Each claim newer than the one applied is flagged, by itself or by one of the same key.
LEMMA FlaggedStandFor ==
  ASSUME NEW view, IsView(view), NEW i \in Ahead(view),
         \A a \in Applied(view) : IsNewer(Claims[i], Claims[a])
  PROVE  \E f \in Flagged(view) : Key(Claims[f]) = Key(Claims[i])
<1> DEFINE S == {j \in Ahead(view) : \A a \in Applied(view) : IsNewer(Claims[j], Claims[a])}
<1>1. S \in SUBSET DOMAIN Claims /\ i \in S
  BY AheadIsAhead
<1>2. Flagged(view) = First(S)
  BY DEF Flagged
<1> HIDE DEF S
<1> QED
  BY <1>1, <1>2, FirstExists

\* The type of what the version passes read and write.
VersionsType ==
  /\ baseline \in Version /\ confirmed \in Version
  /\ rows \subseteq DOMAIN Claims /\ linked \subseteq rows
  /\ DOMAIN views = Runs /\ \A r \in Runs : IsView(views[r])
  /\ deployed <= Len(Shipped)
  /\ \A p \in Instances : boots[p].step # "down" => boots[p].version \in 1..deployed

\* The inductive invariant of the versions.
VersionsInv == VersionsType /\ NothingPlausibleWaits

\* A boot under way is of a deployment made, and each deployment made ships a catalog.
LEMMA BootVersions ==
  ASSUME BootInv, VersionsType, [BootNext]_deploymentVars
  PROVE  /\ deployed' <= Len(Shipped)
         /\ \A p \in Instances : boots'[p].step # "down" => boots'[p].version \in 1..deployed'
<1> USE DEF BootInv, BootType, VersionsType
<1>1. CASE UNCHANGED deploymentVars \/ Run
  BY <1>1 DEF deploymentVars, bootVars, Run
<1>2. CASE Deploy
  <2>1. Len(Shipped) \in Nat /\ Cardinality(DOMAIN Shipped) = Len(Shipped)
    <3>1. Len(Shipped) \in Nat /\ DOMAIN Shipped = 1..Len(Shipped)
      BY BootAssumption
    <3> QED
      BY <3>1, FS_Interval
  <2>2. deployed' = deployed + 1 /\ deployed < Cardinality(DOMAIN Shipped) /\ boots' = boots
    BY <1>2 DEF Deploy
  <2> QED
    BY <2>1, <2>2 DEF Boots
<1>3. ASSUME NEW p \in Instances, Start(p)
      PROVE  \A q \in Instances : boots'[q].step # "down" => boots'[q].version \in 1..deployed'
  <2>1. boots' = [boots EXCEPT ![p] = [version |-> deployed, step |-> "sync"]]
        /\ deployed' = deployed
    BY <1>3 DEF Start
  <2> QED
    BY <2>1
<1>4. ASSUME NEW p \in Instances, Kill(p) \/ RepairFails(p)
      PROVE  \A q \in Instances : boots'[q].step # "down" => boots'[q].version \in 1..deployed'
  <2>1. boots' = [boots EXCEPT ![p] = Down] /\ deployed' = deployed /\ Down.step = "down"
    BY <1>4 DEF Kill, RepairFails, Down
  <2> QED
    BY <2>1
<1>5. ASSUME NEW p \in Instances, NEW from \in BootSteps \ {"down"}, NEW to \in BootSteps,
             Step(p, from, to)
      PROVE  \A q \in Instances : boots'[q].step # "down" => boots'[q].version \in 1..deployed'
  <2>1. \A q \in Instances \ {p} : boots'[q] = boots[q]
    BY <1>5, StepOfBoot
  <2>2. deployed' = deployed /\ boots[p].step = from /\ boots'[p].step = to
        /\ (to # "down" => boots'[p].version = boots[p].version)
    BY <1>5, StepOfBoot
  <2> QED
    BY <2>1, <2>2
<1>6. ASSUME NEW p \in Instances, BootStep(p)
      PROVE  \A q \in Instances : boots'[q].step # "down" => boots'[q].version \in 1..deployed'
  BY <1>4, <1>5, <1>6 DEF BootStep, SyncCatalog, AdoptWatchlists, RepairData, SeedMilestones,
    StampBoot, BootSteps
<1>7. Deploy \/ deployed' = deployed
  BY DEF BootNext, BootStep, Start, Kill, Run, SyncCatalog, AdoptWatchlists, RepairData,
    RepairFails, SeedMilestones, StampBoot, Step, deploymentVars, bootVars
<1> QED
  BY <1>1, <1>2, <1>3, <1>4, <1>6, <1>7 DEF BootNext

\* A pass that commits what it has read just before leaves the version in force, or puts
\* the claim it applies in force.
LEMMA PassApplies ==
  ASSUME VersionsType, NEW r \in Runs, CommitPass(r), views[r] = Reading
  PROVE  /\ Applied(Reading) = {} => InForce' = InForce
         /\ \A a \in Applied(Reading) : InForce' = Claims[a]
<1>1. IsView(Reading) /\ InForceOf(Reading) = InForce
  BY ClaimsAreVersions DEF VersionsType, IsView, Reading, InForce, InForceOf
<1>2. CASE Applied(Reading) = {}
  BY <1>2 DEF CommitPass, InForce, InForceOf
<1>3. ASSUME NEW a \in Applied(Reading) PROVE InForce' = Claims[a]
  <2>1. (CHOOSE i \in Applied(Reading) : TRUE) = a
    BY <1>1, <1>3, AppliedIsNewest
  <2>2. confirmed' = Later(confirmed, Claims[a]) /\ baseline' = baseline
    <3>1. Reading.confirmed = confirmed
      BY DEF Reading
    <3>2. confirmed' = Later(Reading.confirmed, Claims[CHOOSE i \in Applied(Reading) : TRUE])
          /\ baseline' = baseline
      BY <1>3, Zenon DEF CommitPass
    <3> QED
      BY <2>1, <3>1, <3>2
  <2>3. Claims[a] \in Version /\ IsNewer(Claims[a], Later(baseline, confirmed))
    BY <1>1, AppliedIsNewest, AheadIsAhead DEF InForce, InForceOf
  <2>4. IsNewer(Claims[a], baseline) /\ IsNewer(Claims[a], confirmed)
    BY <2>3, LaterIsLatest DEF VersionsType
  <2> QED
    BY <2>2, <2>4 DEF InForce, InForceOf, Later
<1> QED
  BY <1>2, <1>3

\* After it, what is newer and plausible has been ruled on.
LEMMA PassSettles ==
  ASSUME VersionsInv, NEW r \in Runs, CommitPass(r), views[r] = Reading
  PROVE  NothingPlausibleWaits'
<1>1. IsView(Reading) /\ InForceOf(Reading) = InForce /\ Reading.claims = linked
  BY ClaimsAreVersions DEF VersionsInv, VersionsType, IsView, Reading, InForce, InForceOf
<1> SUFFICES ASSUME NEW i \in linked, PlausibleSuccessor(InForce', Claims[i])
             PROVE  \E d \in decisions' : Key(d.version) = Key(Claims[i])
  BY DEF NothingPlausibleWaits, CommitPass
<1>2. decisions' = Rulings(Reading) \cup
        {d \in decisions : \A e \in Rulings(Reading) : e.version # d.version}
  BY DEF CommitPass
<1>3. ASSUME NEW d \in decisions, Key(d.version) = Key(Claims[i])
      PROVE  \E e \in decisions' : Key(e.version) = Key(Claims[i])
  BY <1>2, <1>3
<1>4. CASE Key(Claims[i]) \notin Reading.ruled
  <2>1. Claims[i] \in Version /\ IsNewer(Claims[i], InForce')
    BY ClaimsAreVersions DEF PlausibleSuccessor, VersionsInv, VersionsType
  <2>2. CASE Applied(Reading) = {}
    <3>1. InForce' = InForce /\ i \in Ahead(Reading)
      BY <1>1, <1>4, <2>1, <2>2, PassApplies DEF Ahead, VersionsInv
    <3> QED
      BY <1>1, <2>2, <3>1, AppliedIsNewest
  <2>3. ASSUME NEW a \in Applied(Reading)
        PROVE  \E e \in decisions' : Key(e.version) = Key(Claims[i])
    <3>1. IsNewer(Claims[i], Claims[a])
      BY <2>1, <2>3, PassApplies DEF VersionsInv
    <3>2. Claims[a] \in Version /\ InForce \in Version /\ IsNewer(Claims[a], InForce)
      BY <1>1, <2>3, AppliedIsNewest, AheadIsAhead
    <3>3. i \in Ahead(Reading)
      BY <1>1, <1>4, <2>1, <3>1, <3>2, NewerIsOrder DEF Ahead
    <3>4. \A b \in Applied(Reading) : b = a
      BY <1>1, <2>3, AppliedIsNewest
    <3>5. PICK f \in Flagged(Reading) : Key(Claims[f]) = Key(Claims[i])
      BY <1>1, <3>1, <3>3, <3>4, FlaggedStandFor
    <3>6. Ruling("flagged", f) \in Rulings(Reading) /\ Ruling("flagged", f).version = Claims[f]
      BY <3>5 DEF Rulings, Ruling
    <3> QED
      BY <1>2, <3>5, <3>6
  <2> QED
    BY <2>2, <2>3
<1>5. CASE Key(Claims[i]) \in Reading.ruled
  <2>1. PICK d \in decisions : Key(d.version) = Key(Claims[i])
    BY <1>5 DEF Reading
  <2> QED
    BY <1>3, <2>1
<1> QED
  BY <1>4, <1>5

\* Every step keeps the types of the versions and leaves nothing plausible to wait.
LEMMA VersionsStep ==
  ASSUME BootInv, VersionsInv, [BootNext]_deploymentVars
  PROVE  VersionsInv'
<1> USE DEF VersionsInv, VersionsType
<1>1. deployed' <= Len(Shipped)
      /\ \A p \in Instances : boots'[p].step # "down" => boots'[p].version \in 1..deployed'
  BY BootVersions
<1> DEFINE Typed == /\ baseline' \in Version /\ confirmed' \in Version
                    /\ rows' \subseteq DOMAIN Claims /\ linked' \subseteq rows'
                    /\ DOMAIN views' = Runs /\ \A r \in Runs : IsView(views'[r])
<1>2. CASE UNCHANGED versionVars
  BY <1>1, <1>2 DEF versionVars, NothingPlausibleWaits, InForce, InForceOf
<1>3. ASSUME NEW p \in Instances, SyncCatalog(p) PROVE VersionsInv'
  <2>1. /\ baseline' = Shipped[boots[p].version]
        /\ confirmed' = IF baseline' = baseline THEN confirmed ELSE Unversioned
        /\ settled' = (settled /\ baseline' = baseline)
        /\ UNCHANGED <<rows, linked, decisions, views>>
    BY <1>3 DEF SyncCatalog
  <2>2. boots[p].version \in 1..deployed /\ deployed <= Len(Shipped) /\ deployed \in Nat
    BY <1>3 DEF SyncCatalog, Step, BootInv, BootType
  <2>3. baseline' \in Version
    BY <2>1, <2>2, BootAssumption
  <2>4. Unversioned \in Version
    BY DEF Version, Unversioned
  <2>5. settled' => UNCHANGED <<settled, baseline, confirmed>>
    BY <2>1
  <2> QED
    BY <1>1, <2>1, <2>3, <2>4, <2>5 DEF NothingPlausibleWaits, InForce, InForceOf
<1>4. ASSUME NEW p \in Instances, RepairData(p) PROVE VersionsInv'
  <2>1. /\ rows' \subseteq rows /\ linked' \subseteq rows'
        /\ settled' => settled /\ linked' \subseteq linked
        /\ UNCHANGED <<baseline, confirmed, decisions, views>>
    BY <1>4 DEF RepairData
  <2> QED
    BY <1>1, <2>1 DEF NothingPlausibleWaits, InForce, InForceOf
<1>5. ASSUME NEW i \in DOMAIN Claims, Observe(i, Rules[deployed]) PROVE VersionsInv'
  <2>1. /\ rows' = rows \cup {i} /\ linked' \subseteq linked \cup {i}
        /\ settled' => settled /\ linked' = linked
        /\ UNCHANGED <<baseline, confirmed, decisions, views>>
    BY <1>5 DEF Observe
  <2>2. NothingPlausibleWaits'
    BY <2>1 DEF NothingPlausibleWaits, InForce, InForceOf
  <2>3. linked' \subseteq rows' /\ rows' \subseteq DOMAIN Claims
    BY <1>5 DEF Observe
  <2> QED
    BY <1>1, <2>1, <2>2, <2>3
<1>6. ASSUME NEW r \in Runs, BeginPass(r) PROVE VersionsInv'
  <2>1. /\ views' = [views EXCEPT ![r] = Reading]
        /\ UNCHANGED <<baseline, confirmed, rows, linked, decisions, settled>>
    BY <1>6 DEF BeginPass
  <2>2. IsView(Reading)
    BY DEF IsView, Reading
  <2> QED
    BY <1>1, <2>1, <2>2 DEF NothingPlausibleWaits, InForce, InForceOf
<1>7. ASSUME NEW r \in Runs, EndPass(r)
      PROVE  DOMAIN views' = Runs /\ \A q \in Runs : IsView(views'[q])
  <2>1. views' = [views EXCEPT ![r] = NoView]
    BY <1>7 DEF EndPass
  <2>2. IsView(NoView)
    BY DEF IsView, NoView, Version, Unversioned
  <2> QED
    BY <2>1, <2>2
<1>8. ASSUME NEW r \in Runs, PassFails(r) PROVE VersionsInv'
  <2>1. EndPass(r) /\ UNCHANGED <<baseline, confirmed, rows, linked, decisions, settled>>
    BY <1>8 DEF PassFails
  <2> QED
    BY <1>1, <1>7, <2>1 DEF NothingPlausibleWaits, InForce, InForceOf
<1>9. ASSUME NEW r \in Runs, CommitPass(r) PROVE VersionsInv'
  <2>1. EndPass(r) /\ UNCHANGED <<baseline, rows, linked>> /\ settled' = (views[r] = Reading)
    BY <1>9 DEF CommitPass
  <2>2. confirmed' \in Version
    <3>1. CASE Applied(views[r]) = {}
      BY <1>9, <3>1 DEF CommitPass
    <3>2. CASE Applied(views[r]) # {}
      <4> DEFINE a == CHOOSE i \in Applied(views[r]) : TRUE
      <4>1. a \in Applied(views[r])
        BY <3>2
      <4>2. Claims[a] \in Version /\ views[r].confirmed \in Version
        BY <4>1, AppliedIsNewest, AheadIsAhead DEF IsView
      <4>3. confirmed' = Later(views[r].confirmed, Claims[a])
        BY <1>9, <3>2, Zenon DEF CommitPass
      <4> QED
        BY <4>2, <4>3 DEF Later
    <3> QED
      BY <3>1, <3>2
  <2>3. settled' => NothingPlausibleWaits'
    BY <1>9, <2>1, PassSettles
  <2> QED
    BY <1>1, <1>7, <2>1, <2>2, <2>3 DEF NothingPlausibleWaits
<1>10. \/ UNCHANGED versionVars
       \/ \E p \in Instances : SyncCatalog(p) \/ RepairData(p)
       \/ \E i \in DOMAIN Claims : Observe(i, Rules[deployed])
       \/ \E r \in Runs : BeginPass(r) \/ CommitPass(r) \/ PassFails(r)
  BY DEF BootNext, BootStep, Start, Kill, Deploy, Run, AdoptWatchlists, RepairFails,
    SeedMilestones, StampBoot, deploymentVars
<1> QED
  BY <1>2, <1>3, <1>4, <1>5, <1>6, <1>8, <1>9, <1>10

\* The types of the versions, and with them that nothing plausible waits, hold throughout.
LEMMA VersionsInvariant == ServicesSpec => []VersionsInv
<1>1. ServicesInit => VersionsInv
  <2> SUFFICES ASSUME BootInit PROVE VersionsInv
    BY DEF ServicesInit
  <2>1. Shipped[1] \in Version /\ 1 <= Len(Shipped)
    BY BootAssumption
  <2>4. Unversioned \in Version
    BY DEF Version, Unversioned
  <2>2. IsView(NoView)
    BY <2>4 DEF IsView, NoView
  <2>3. VersionsInit(Shipped[1]) /\ deployed = 1 /\ \A p \in Instances : boots[p].step = "down"
    BY DEF BootInit, Down
  <2> QED
    BY <2>1, <2>2, <2>3, <2>4 DEF VersionsInit, VersionsInv, VersionsType, NothingPlausibleWaits
<1>2. BootInv /\ VersionsInv /\ [ServicesNext]_allVars => VersionsInv'
  BY BootRuns, VersionsStep
<1> QED
  BY <1>1, <1>2, BootInvariant, PTL DEF ServicesSpec

\* Once a pass has seen all there is, no plausible newer version waits behind an
\* implausible one: auto_apply walks past it, applies the newest plausible claim and rules on
\* what is above it.
THEOREM NothingWaits == ServicesSpec => []NothingPlausibleWaits
<1>1. VersionsInv => NothingPlausibleWaits
  BY DEF VersionsInv
<1> QED
  BY <1>1, VersionsInvariant, PTL

\* An edit of the catalog wins over what was applied before it, and otherwise the version in
\* force only goes forward by plausible steps, unless a pass committed what it had read
\* before the obligation changed.
THEOREM VersionsAdvance == ServicesSpec => InForceAdvances
<1> DEFINE Advances ==
      /\ baseline' # baseline => InForce' = baseline'
      /\ baseline' = baseline /\ InForce' # InForce =>
           PlausibleSuccessor(InForce, InForce') \/ overlapped'
<1>1. ASSUME BootInv, VersionsInv, [BootNext]_deploymentVars PROVE Advances
  <2>1. CASE UNCHANGED <<baseline, confirmed>>
    BY <2>1 DEF InForce, InForceOf
  <2>2. ASSUME NEW p \in Instances, SyncCatalog(p) PROVE Advances
    <3>1. baseline' \in Version
      BY <1>1, VersionsStep DEF VersionsInv, VersionsType
    <3>2. ~ IsNewer(Unversioned, baseline')
      BY <3>1, NewerIsOrder
    <3> QED
      BY <2>2, <3>2 DEF SyncCatalog, InForce, InForceOf, Later
  <2>3. ASSUME NEW r \in Runs, CommitPass(r) PROVE Advances
    <3>1. baseline' = baseline /\ (views[r] # Reading => overlapped')
      BY <2>3 DEF CommitPass
    <3>2. ASSUME views[r] = Reading, InForce' # InForce
          PROVE  PlausibleSuccessor(InForce, InForce')
      <4>1. IsView(Reading) /\ InForceOf(Reading) = InForce
        BY <1>1 DEF VersionsInv, VersionsType, IsView, Reading, InForce, InForceOf
      <4>2. PICK a \in Applied(Reading) : InForce' = Claims[a]
        BY <1>1, <2>3, <3>2, PassApplies DEF VersionsInv
      <4> QED
        BY <4>1, <4>2, AppliedIsNewest
    <3> QED
      BY <3>1, <3>2
  <2>4. \/ UNCHANGED <<baseline, confirmed>>
        \/ \E p \in Instances : SyncCatalog(p)
        \/ \E r \in Runs : CommitPass(r)
    BY <1>1 DEF BootNext, BootStep, Start, Kill, Deploy, Run, AdoptWatchlists, RepairData,
      RepairFails, SeedMilestones, StampBoot, Observe, BeginPass, PassFails, deploymentVars,
      versionVars
  <2> QED
    BY <2>1, <2>2, <2>3, <2>4
<1>2. BootInv /\ VersionsInv /\ [ServicesNext]_allVars => [Advances]_deploymentVars
  BY <1>1, BootRuns
<1> QED
  BY <1>2, BootInvariant, VersionsInvariant, PTL DEF ServicesSpec, InForceAdvances
===============================================================================
