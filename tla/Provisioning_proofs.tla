------------------------- MODULE Provisioning_proofs -------------------------
(***************************************************************************)
(* Proofs about Provisioning, for every choice of kinds, addons and        *)
(* bounds: the types; and, as long as no apply enables more addons later,  *)
(* that its status keeps to ProvisioningPath, that addons come in their    *)
(* order and that the command line waits for all that was asked of it.     *)
(***************************************************************************)
EXTENDS Provisioning, TLAPS

\* What a copy of the status may say when d is achieved, b built, i installed.
Fits(st, k, d, b, i) ==
  /\ st.phase \in Path!PhasesOf(k)
  /\ Path!Before(k, st.phase) \subseteq d
  /\ st.infra \subseteq b
  /\ \A a \in Addons \ {"talos-backup"} : st.addon[a] = "installed" => ItemSet(a) \subseteq i

\* Every copy of the status that may be written one day.
CopiesFit ==
  /\ Fits(api, kind, Achieved, built, installed)
  /\ Fits(cache, kind, Achieved, built, installed)
  /\ Fits(mem, kind, Achieved, built, installed)

\* The command line runs for its own kind, and brought all of it up.
CLIBuilt ==
  /\ kind # "cli" => cli = "none"
  /\ kind = "cli" => built = Resources

\* The marker is the last of the bootstrap's steps.
MarkerIsLast == "marker" \in built => "etcd" \in built

\* A legacy cluster never had a status without a phase.
LegacyHasPhase ==
  kind = "legacy" =>
    /\ api.phase \notin {"Absent", "Unset"} /\ cache.phase \notin {"Absent", "Unset"}
    /\ pc # "idle" => mem.phase \notin {"Absent", "Unset"}

CiliumInCNI == pc = "cilium" => mem.phase = "CNI"

IInv == TypeOK /\ CopiesFit /\ CLIBuilt /\ MarkerIsLast /\ LegacyHasPhase /\ CiliumInCNI

-----------------------------------------------------------------------------
(***************************************************************************)
(* The constant definitions.                                               *)
(***************************************************************************)

LEMMA KindsAre == TypeOK => kind \in {"cli", "operator", "legacy"}
  BY KindsAssumption DEF TypeOK

\* The path of each kind of cluster.
LEMMA PhasesOnPath ==
  /\ Path!PhasesOf("cli") = {"Absent", "Unset", "Complete", "CNI", "Compute", "Addons"}
  /\ Path!PhasesOf("operator") =
       {"Absent", "Unset", "Complete", "Infrastructure", "Image", "Compute",
        "Bootstrap", "CNI", "Addons"}
  /\ Path!PhasesOf("legacy") = {"Absent", "Unset", "Complete", "Configuring"}
  BY DEF Path!PhasesOf, Path!Path

\* What comes before a phase, as a set of places in the path.
LEMMA BeforeIs ==
  ASSUME NEW k, NEW p, p \notin {"Absent", "Unset"}
  PROVE  \A s : s \in Path!Before(k, p) <=>
           \E i \in DOMAIN Path!Path[k] :
             /\ s = Path!Path[k][i]
             /\ \A m \in DOMAIN Path!Path[k] : Path!Path[k][m] = p => i < m
  BY DEF Path!Before

LEMMA NothingBefore ==
  ASSUME NEW k
  PROVE  Path!Before(k, "Absent") = {} /\ Path!Before(k, "Unset") = {}
  BY DEF Path!Before

\* A phase needs what the one before it needs, and that one's work.
LEMMA NextOnCLIPath ==
  /\ Path!Before("cli", "CNI") = {}
  /\ Path!Before("cli", "Compute") = {"CNI"}
  /\ Path!Before("cli", "Addons") = {"CNI", "Compute"}
  /\ Path!Before("cli", "Complete") = {"CNI", "Compute", "Addons"}
<1> DEFINE q == <<"CNI", "Compute", "Addons">>
<1>1. Path!Path["cli"] = q /\ DOMAIN q = {1, 2, 3} /\ q[1] = "CNI" /\ q[2] = "Compute" /\ q[3] = "Addons"
  BY DEF Path!Path
<1> HIDE DEF q
<1>2. Path!Before("cli", "CNI") = {}
  BY <1>1, BeforeIs
<1>3. Path!Before("cli", "Compute") = {"CNI"}
  BY <1>1, BeforeIs
<1>4. Path!Before("cli", "Addons") = {"CNI", "Compute"}
  BY <1>1, BeforeIs
<1>5. Path!Before("cli", "Complete") = {"CNI", "Compute", "Addons"}
  BY <1>1, BeforeIs
<1> QED BY <1>2, <1>3, <1>4, <1>5

LEMMA NextOnOperatorPath ==
  /\ Path!Before("operator", "Infrastructure") = {}
  /\ Path!Before("operator", "Image") = {"Infrastructure"}
  /\ Path!Before("operator", "Compute") = {"Infrastructure", "Image"}
  /\ Path!Before("operator", "Bootstrap") = {"Infrastructure", "Image", "Compute"}
  /\ Path!Before("operator", "CNI") = {"Infrastructure", "Image", "Compute", "Bootstrap"}
  /\ Path!Before("operator", "Addons") =
       {"Infrastructure", "Image", "Compute", "Bootstrap", "CNI"}
  /\ Path!Before("operator", "Complete") =
       {"Infrastructure", "Image", "Compute", "Bootstrap", "CNI", "Addons"}
<1> DEFINE q == <<"Infrastructure", "Image", "Compute", "Bootstrap", "CNI", "Addons">>
<1>1. /\ Path!Path["operator"] = q /\ DOMAIN q = {1, 2, 3, 4, 5, 6}
      /\ q[1] = "Infrastructure" /\ q[2] = "Image" /\ q[3] = "Compute"
      /\ q[4] = "Bootstrap" /\ q[5] = "CNI" /\ q[6] = "Addons"
  BY DEF Path!Path
<1> HIDE DEF q
<1>2. Path!Before("operator", "Infrastructure") = {}
  BY <1>1, BeforeIs
<1>3. Path!Before("operator", "Image") = {"Infrastructure"}
  BY <1>1, BeforeIs
<1>4. Path!Before("operator", "Compute") = {"Infrastructure", "Image"}
  BY <1>1, BeforeIs
<1>5. Path!Before("operator", "Bootstrap") = {"Infrastructure", "Image", "Compute"}
  BY <1>1, BeforeIs
<1>6. Path!Before("operator", "CNI") = {"Infrastructure", "Image", "Compute", "Bootstrap"}
  BY <1>1, BeforeIs
<1>7. Path!Before("operator", "Addons") =
        {"Infrastructure", "Image", "Compute", "Bootstrap", "CNI"}
  BY <1>1, BeforeIs
<1>8. Path!Before("operator", "Complete") =
        {"Infrastructure", "Image", "Compute", "Bootstrap", "CNI", "Addons"}
  BY <1>1, BeforeIs
<1> QED BY <1>2, <1>3, <1>4, <1>5, <1>6, <1>7, <1>8

LEMMA NextOnLegacyPath ==
  /\ Path!Before("legacy", "Configuring") = {}
  /\ Path!Before("legacy", "Complete") = {"Configuring"}
<1>1. /\ Path!Path["legacy"] = <<"Configuring">> /\ DOMAIN <<"Configuring">> = {1}
      /\ <<"Configuring">>[1] = "Configuring"
  BY DEF Path!Path
<1>2. Path!Before("legacy", "Configuring") = {}
  BY <1>1, BeforeIs
<1>3. Path!Before("legacy", "Complete") = {"Configuring"}
  BY <1>1, BeforeIs
<1> QED BY <1>2, <1>3

\* The steps of the phases, as sets.
LEMMA StepsAre ==
  /\ Prefix(InfrastructureSteps, Len(InfrastructureSteps)) =
       {"network", "firewall", "loadBalancer", "targets"}
  /\ Prefix(<<"snapshot">>, Len(<<"snapshot">>)) = {"snapshot"}
  /\ Prefix(<<"servers">>, Len(<<"servers">>)) = {"servers"}
  /\ Prefix(BootstrapSteps, Len(BootstrapSteps)) = {"configs", "etcd", "marker"}
  /\ Prefix(<<>>, Len(<<>>)) = {}
<1>1. Prefix(InfrastructureSteps, Len(InfrastructureSteps)) =
        {"network", "firewall", "loadBalancer", "targets"}
  BY DEF Prefix, InfrastructureSteps
<1>2. Prefix(<<"snapshot">>, Len(<<"snapshot">>)) = {"snapshot"}
  BY DEF Prefix
<1>3. Prefix(<<"servers">>, Len(<<"servers">>)) = {"servers"}
  BY DEF Prefix
<1>4. Prefix(BootstrapSteps, Len(BootstrapSteps)) = {"configs", "etcd", "marker"}
  BY DEF Prefix, BootstrapSteps
<1>5. Prefix(<<>>, Len(<<>>)) = {}
  BY DEF Prefix
<1> QED BY <1>1, <1>2, <1>3, <1>4, <1>5

\* Steps a phase may go through: what they make is known, and the marker is
\* not made before etcd runs.
Orderly(steps) ==
  /\ Len(steps) \in Nat
  /\ Prefix(steps, Len(steps)) \subseteq Resources
  /\ \A n \in 0..Len(steps) :
       /\ Prefix(steps, n) \subseteq Prefix(steps, Len(steps))
       /\ "marker" \in Prefix(steps, n) => "etcd" \in Prefix(steps, n)

LEMMA PrefixGrows ==
  ASSUME NEW s, Len(s) \in Nat, NEW n \in 0..Len(s)
  PROVE  Prefix(s, n) \subseteq Prefix(s, Len(s))
  BY DEF Prefix

LEMMA WithoutMarker ==
  ASSUME NEW s, Len(s) \in Nat, Prefix(s, Len(s)) \subseteq Resources \ {"marker"}
  PROVE  Orderly(s)
<1>1. ASSUME NEW n \in 0..Len(s)
      PROVE  /\ Prefix(s, n) \subseteq Prefix(s, Len(s))
             /\ "marker" \notin Prefix(s, n)
  BY PrefixGrows
<1> QED BY <1>1 DEF Orderly

LEMMA StepsAreOrderly ==
  /\ Orderly(InfrastructureSteps)
  /\ Orderly(<<"snapshot">>)
  /\ Orderly(<<"servers">>)
  /\ Orderly(BootstrapSteps)
  /\ Orderly(<<>>)
<1>1. Orderly(InfrastructureSteps)
  <2>1. Len(InfrastructureSteps) \in Nat
    BY DEF InfrastructureSteps
  <2>2. Prefix(InfrastructureSteps, Len(InfrastructureSteps)) \subseteq Resources \ {"marker"}
    BY StepsAre DEF Resources, InfraIDs
  <2> HIDE DEF InfrastructureSteps
  <2> QED BY <2>1, <2>2, WithoutMarker
<1>2. Orderly(<<"snapshot">>)
  <2> DEFINE s == <<"snapshot">>
  <2>1. Len(s) \in Nat /\ Prefix(s, Len(s)) \subseteq Resources \ {"marker"}
    BY StepsAre DEF Resources
  <2> HIDE DEF s
  <2>2. Orderly(s)
    BY <2>1, WithoutMarker
  <2> QED BY <2>2 DEF s
<1>3. Orderly(<<"servers">>)
  <2> DEFINE s == <<"servers">>
  <2>1. Len(s) \in Nat /\ Prefix(s, Len(s)) \subseteq Resources \ {"marker"}
    BY StepsAre DEF Resources
  <2> HIDE DEF s
  <2>2. Orderly(s)
    BY <2>1, WithoutMarker
  <2> QED BY <2>2 DEF s
<1>4. Orderly(BootstrapSteps)
  <2>1. /\ Len(BootstrapSteps) = 3 /\ BootstrapSteps[1] = "configs"
        /\ BootstrapSteps[2] = "etcd" /\ BootstrapSteps[3] = "marker"
    BY DEF BootstrapSteps
  <2>2. Prefix(BootstrapSteps, Len(BootstrapSteps)) \subseteq Resources
    BY StepsAre DEF Resources
  <2>3. ASSUME NEW n \in 0..Len(BootstrapSteps)
        PROVE  /\ Prefix(BootstrapSteps, n) \subseteq Prefix(BootstrapSteps, Len(BootstrapSteps))
               /\ "marker" \in Prefix(BootstrapSteps, n) => "etcd" \in Prefix(BootstrapSteps, n)
    <3>1. n \in {0, 1, 2, 3}
      BY <2>1
    <3> QED BY <3>1, <2>1 DEF Prefix
  <2> QED BY <2>1, <2>2, <2>3 DEF Orderly
<1>5. Orderly(<<>>)
  <2> DEFINE s == <<>>
  <2>1. Len(s) \in Nat /\ Prefix(s, Len(s)) \subseteq Resources \ {"marker"}
    BY StepsAre
  <2> HIDE DEF s
  <2>2. Orderly(s)
    BY <2>1, WithoutMarker
  <2> QED BY <2>2 DEF s
<1> QED BY <1>1, <1>2, <1>3, <1>4, <1>5

-----------------------------------------------------------------------------
(***************************************************************************)
(* Copies of the status.                                                   *)
(***************************************************************************)

\* What a copy may say it may say of a cluster that has more.
LEMMA FitsStays ==
  ASSUME NEW st, NEW k, NEW d, NEW b, NEW i, NEW d2, NEW b2, NEW i2,
         Fits(st, k, d, b, i), d \subseteq d2, b \subseteq b2, i \subseteq i2
  PROVE  Fits(st, k, d2, b2, i2)
  BY DEF Fits

LEMMA NoStatusFits ==
  ASSUME NEW k \in {"cli", "operator", "legacy"}, NEW d, NEW b, NEW i
  PROVE  NoStatus \in Status /\ Fits(NoStatus, k, d, b, i)
<1>1. NoStatus \in Status
  BY DEF NoStatus, Status, Phases, ClusterPhases
<1>2. /\ NoStatus.phase = "Unset" /\ NoStatus.infra = {}
      /\ \A a \in Addons : NoStatus.addon[a] = "none"
  BY DEF NoStatus
<1>3. "Unset" \in Path!PhasesOf(k)
  BY PhasesOnPath
<1> QED BY <1>1, <1>2, <1>3, NothingBefore DEF Fits

LEMMA UpdateClusterPhaseKeeps ==
  ASSUME NEW st \in Status
  PROVE  /\ UpdateClusterPhase(st) \in Status
         /\ UpdateClusterPhase(st).phase = st.phase
         /\ UpdateClusterPhase(st).infra = st.infra
         /\ UpdateClusterPhase(st).addon = st.addon
  BY DEF UpdateClusterPhase, Status, ClusterPhases

LEMMA UpdatedFits ==
  ASSUME NEW st \in Status, NEW k, NEW d, NEW b, NEW i, Fits(st, k, d, b, i)
  PROVE  Fits(UpdateClusterPhase(st), k, d, b, i)
  BY UpdateClusterPhaseKeeps DEF Fits

\* What discoverInfrastructure adds is there.
LEMMA DiscoveredFits ==
  ASSUME TypeOK, NEW st \in Status,
         Fits(st, kind, Achieved, built, installed)
  PROVE  /\ DiscoverInfrastructure(st) \in Status
         /\ DiscoverInfrastructure(st).phase = st.phase
         /\ DiscoverInfrastructure(st).addon = st.addon
         /\ Fits(DiscoverInfrastructure(st), kind, Achieved, built, installed)
<1>1. /\ DiscoverInfrastructure(st) \in Status
      /\ DiscoverInfrastructure(st).phase = st.phase
      /\ DiscoverInfrastructure(st).addon = st.addon
      /\ DiscoverInfrastructure(st).infra = st.infra \cup (built \cap InfraIDs)
  BY DEF DiscoverInfrastructure, Status
<1> QED BY <1>1 DEF Fits

\* Work is not undone.
Grows ==
  /\ kind' = kind /\ enabled' = enabled
  /\ built \subseteq built' /\ installed \subseteq installed'
  /\ cilium = "ready" => cilium' = "ready"
  /\ cilium # "absent" => cilium' # "absent"

LEMMA AchievedStays == Grows => Achieved \subseteq Achieved'
<1> SUFFICES ASSUME Grows, NEW s \in Stages, s \in Achieved PROVE s \in Achieved'
  BY DEF Achieved
<1>1. AddonsInstalled => AddonsInstalled'
  BY DEF AddonsInstalled, Grows
<1>2. CASE s = "Infrastructure"
  BY <1>2 DEF Achieved, Grows, Stages
<1>3. CASE s = "Image"
  BY <1>3 DEF Achieved, Grows, Stages
<1>4. CASE s = "Compute"
  BY <1>4 DEF Achieved, Grows, Stages
<1>5. CASE s = "Bootstrap"
  BY <1>5 DEF Achieved, Grows, Stages
<1>6. CASE s = "CNI"
  BY <1>6 DEF Achieved, Grows, Stages
<1>7. CASE s = "Addons"
  BY <1>7, <1>1 DEF Achieved, Stages
<1>8. CASE s = "Configuring"
  BY <1>8, <1>1 DEF Achieved, Grows, Stages
<1> QED BY <1>2, <1>3, <1>4, <1>5, <1>6, <1>7, <1>8 DEF Stages

\* A copy that fits goes on to fit.
LEMMA FitGoesOn ==
  ASSUME NEW st, Grows, Fits(st, kind, Achieved, built, installed)
  PROVE  Fits(st, kind', Achieved', built', installed')
<1>1. Fits(st, kind, Achieved', built', installed')
  BY AchievedStays, FitsStays DEF Grows
<1> QED BY <1>1 DEF Grows

LEMMA AchievedIs ==
  /\ InfraIDs \subseteq built => "Infrastructure" \in Achieved
  /\ "snapshot" \in built => "Image" \in Achieved
  /\ "servers" \in built => "Compute" \in Achieved
  /\ {"etcd", "marker"} \subseteq built => "Bootstrap" \in Achieved
  /\ cilium = "ready" => "CNI" \in Achieved
  /\ AddonsInstalled => "Addons" \in Achieved
  /\ AddonsInstalled /\ cilium # "absent" => "Configuring" \in Achieved
  BY DEF Achieved, Stages

-----------------------------------------------------------------------------
(***************************************************************************)
(* The operator's phases.                                                  *)
(***************************************************************************)

WorldOK ==
  /\ built \subseteq Resources /\ installed \subseteq AllItems
  /\ cilium \in {"absent", "installed", "ready"}
  /\ asked \subseteq Groups /\ up \subseteq Groups
  /\ faults \in 0..MaxFaults

\* A handler that returns a status which fits keeps the invariant.
LEMMA Returned ==
  ASSUME IInv, NEW st \in Status, pc # "idle", Return(st), Grows, WorldOK', MarkerIsLast',
         Fits(st, kind', Achieved', built', installed'),
         st.phase \notin {"Absent", "Unset"}
  PROVE  IInv'
<1>1. /\ mem' = UpdateClusterPhase(st) /\ pc' = "update" /\ tries' = 0
      /\ UNCHANGED <<kind, enabled, paused, api, cache, cacheFresh, memFresh, cli,
                     cliFresh, reapplies>>
  BY DEF Return, specVars, cacheVars, cliVars
<1>2. mem' \in Status /\ mem'.phase = st.phase
  BY <1>1, UpdateClusterPhaseKeeps
<1>3. TypeOK'
  BY <1>1, <1>2 DEF IInv, TypeOK, WorldOK
<1>4. CopiesFit'
  <2>1. Fits(api, kind', Achieved', built', installed')
    BY FitGoesOn DEF IInv, CopiesFit
  <2>2. Fits(cache, kind', Achieved', built', installed')
    BY FitGoesOn DEF IInv, CopiesFit
  <2>3. Fits(mem', kind', Achieved', built', installed')
    BY <1>1, UpdatedFits
  <2> QED BY <2>1, <2>2, <2>3, <1>1 DEF CopiesFit
<1>5. CLIBuilt'
  BY <1>1 DEF IInv, CLIBuilt, Grows, WorldOK
<1>6. LegacyHasPhase'
  BY <1>1, <1>2 DEF IInv, LegacyHasPhase
<1>7. CiliumInCNI'
  BY <1>1 DEF CiliumInCNI
<1> QED BY <1>3, <1>4, <1>5, <1>6, <1>7 DEF IInv

\* A handler that changes nothing but the status.
LEMMA ReturnedOnly ==
  ASSUME IInv, NEW st \in Status, pc # "idle", Return(st), UNCHANGED worldVars,
         faults' \in 0..MaxFaults,
         Fits(st, kind, Achieved, built, installed),
         st.phase \notin {"Absent", "Unset"}
  PROVE  IInv'
<1>1. UNCHANGED <<kind, enabled>>
  BY DEF Return, specVars
<1>2. Grows /\ WorldOK' /\ MarkerIsLast'
  BY <1>1 DEF Grows, WorldOK, MarkerIsLast, worldVars, IInv, TypeOK
<1>3. Fits(st, kind', Achieved', built', installed')
  BY <1>2, FitGoesOn
<1> QED BY <1>2, <1>3, Returned

LEMMA FailsCounts == ASSUME TypeOK, Fails PROVE faults' \in 0..MaxFaults
  BY BoundsAssumption DEF Fails, TypeOK

\* The work of a phase is all that the next one needs.
LeadsTo(steps, next) ==
  Grows /\ built' = built \cup Prefix(steps, Len(steps)) =>
    Path!Before(kind, next) \subseteq Achieved'

\* A phase that provisions keeps the invariant if its work is what the phase
\* after it needs.
LEMMA Provisioned ==
  ASSUME IInv, NEW st \in Status, NEW steps, NEW next \in Stages, pc = "phase",
         Provision(st, steps, next), Orderly(steps), LeadsTo(steps, next),
         Fits(st, kind, Achieved, built, installed),
         st.phase \notin {"Absent", "Unset"}, next \in Path!PhasesOf(kind)
  PROVE  IInv'
<1> DEFINE known == DiscoverInfrastructure(st)
<1>1. /\ known \in Status /\ known.phase = st.phase /\ known.addon = st.addon
      /\ Fits(known, kind, Achieved, built, installed)
  BY DiscoveredFits DEF IInv
<1> HIDE DEF known
<1>2. CASE Fails /\ Return(st) /\ UNCHANGED worldVars
  BY <1>2, ReturnedOnly, FailsCounts DEF IInv
<1>3. CASE Return(known) /\ UNCHANGED <<worldVars, faults>>
  <2>1. UNCHANGED worldVars /\ faults' \in 0..MaxFaults
    BY <1>3 DEF IInv, TypeOK
  <2> QED BY <2>1, <1>3, <1>1, ReturnedOnly
<1>4. CASE /\ Fails
           /\ \E n \in 0..Len(steps) : built' = built \cup Prefix(steps, n)
           /\ Return(known)
           /\ UNCHANGED <<installed, cilium, asked, up>>
  <2>1. PICK n \in 0..Len(steps) : built' = built \cup Prefix(steps, n)
    BY <1>4
  <2>2. built' \subseteq Resources /\ MarkerIsLast'
    BY <2>1 DEF IInv, TypeOK, MarkerIsLast, Orderly
  <2>3. UNCHANGED <<kind, enabled>>
    BY <1>4 DEF Return, specVars
  <2>4. Grows /\ WorldOK'
    BY <2>1, <2>2, <2>3, <1>4, FailsCounts DEF Grows, WorldOK, IInv, TypeOK
  <2>5. Fits(known, kind', Achieved', built', installed')
    BY <2>4, <1>1, FitGoesOn
  <2> QED BY <2>2, <2>4, <2>5, <1>1, <1>4, Returned
<1>5. ASSUME NEW through,
             through = [UpdateNodeStatuses(known, steps) EXCEPT !.phase = next,
               !.infra = @ \cup (Prefix(steps, Len(steps)) \cap {"network", "firewall"})],
             built' = built \cup Prefix(steps, Len(steps)),
             Return(through),
             UNCHANGED <<installed, cilium, asked, up, faults>>
      PROVE  IInv'
  <2>1. /\ through \in Status /\ through.phase = next /\ through.addon = known.addon
        /\ through.infra =
             known.infra \cup (Prefix(steps, Len(steps)) \cap {"network", "firewall"})
    BY <1>1, <1>5 DEF UpdateNodeStatuses, Status, Phases, Stages, InfraIDs
  <2>2. UNCHANGED <<kind, enabled>>
    BY <1>5 DEF Return, specVars
  <2>3. Len(steps) \in 0..Len(steps)
    BY DEF Orderly
  <2>4. built' \subseteq Resources /\ MarkerIsLast'
    BY <1>5, <2>3 DEF IInv, TypeOK, MarkerIsLast, Orderly
  <2>5. Grows /\ WorldOK'
    BY <1>5, <2>2, <2>4 DEF Grows, WorldOK, IInv, TypeOK
  <2>6. Path!Before(kind, next) \subseteq Achieved'
    BY <2>5, <1>5 DEF LeadsTo
  <2>7. Fits(through, kind', Achieved', built', installed')
    BY <2>1, <2>2, <2>6, <1>1, <1>5 DEF Fits
  <2>8. through.phase \notin {"Absent", "Unset"}
    BY <2>1 DEF Stages
  <2> QED BY <2>1, <2>4, <2>5, <2>7, <2>8, <1>5, Returned
<1> QED
  BY <1>2, <1>3, <1>4, <1>5 DEF Provision, LoadCredentialsFails, known

\* The reconcile's phase, and what its copy of the status stands on.
LEMMA CurrentPhaseFits ==
  ASSUME IInv, pc = "phase"
  PROVE  /\ kind \in {"cli", "operator", "legacy"}
         /\ mem \in Status /\ Fits(mem, kind, Achieved, built, installed)
         /\ CurrentPhase \in Path!PhasesOf(kind) \/ CurrentPhase = "Absent"
         /\ Path!Before(kind, CurrentPhase) \subseteq Achieved
<1>1. /\ kind \in {"cli", "operator", "legacy"}
      /\ mem \in Status /\ Fits(mem, kind, Achieved, built, installed)
  BY KindsAre DEF IInv, TypeOK, CopiesFit
<1>2. CASE mem.phase # "Unset"
  BY <1>1, <1>2 DEF CurrentPhase, Fits
<1>3. CASE mem.phase = "Unset"
  <2>1. kind \in {"cli", "operator"}
    BY <1>1, <1>3 DEF IInv, LegacyHasPhase
  <2> QED
    BY <1>3, <2>1, <1>1, PhasesOnPath, NextOnCLIPath, NextOnOperatorPath
    DEF CurrentPhase, CLIBootstrapped
<1> QED BY <1>1, <1>2, <1>3

\* The same status, with the phase written down.
LEMMA PhaseSetFits ==
  ASSUME NEW st \in Status, NEW p \in Phases, NEW c \in ClusterPhases, NEW k, NEW d, NEW b, NEW i,
         Fits(st, k, d, b, i), p \in Path!PhasesOf(k), Path!Before(k, p) \subseteq d
  PROVE  /\ [st EXCEPT !.phase = p] \in Status
         /\ Fits([st EXCEPT !.phase = p], k, d, b, i)
         /\ [st EXCEPT !.phase = p, !.cluster = c] \in Status
         /\ Fits([st EXCEPT !.phase = p, !.cluster = c], k, d, b, i)
  BY DEF Fits, Status

LEMMA InfrastructureKeeps == ASSUME IInv, InfrastructurePhase PROVE IInv'
<1> DEFINE st == [mem EXCEPT !.phase = "Infrastructure", !.cluster = "Provisioning"]
<1>1. kind = "operator" /\ mem \in Status /\ Fits(mem, kind, Achieved, built, installed)
  BY CurrentPhaseFits, PhasesOnPath DEF InfrastructurePhase
<1>2. /\ st \in Status /\ Fits(st, kind, Achieved, built, installed)
      /\ st.phase = "Infrastructure"
  <2>1. st \in Status /\ Fits(st, kind, Achieved, built, installed)
    BY <1>1, PhaseSetFits, PhasesOnPath, NextOnOperatorPath
    DEF Phases, Stages, ClusterPhases
  <2>2. st.phase = "Infrastructure"
    BY <1>1 DEF Status
  <2> QED BY <2>1, <2>2
<1> HIDE DEF st
<1>3. CASE /\ st.infra = InfraIDs
           /\ Return([st EXCEPT !.phase = "Image", !.endpoint = TRUE])
           /\ UNCHANGED <<worldVars, faults>>
  <2> DEFINE after == [st EXCEPT !.phase = "Image", !.endpoint = TRUE]
  <2>1. /\ after \in Status /\ after.phase = "Image" /\ after.infra = st.infra
        /\ after.addon = st.addon
    BY <1>2 DEF Status, Phases, Stages
  <2>2. "Infrastructure" \in Achieved
    BY <1>2, <1>3, AchievedIs DEF Fits
  <2>3. Fits(after, kind, Achieved, built, installed)
    <3> HIDE DEF after
    <3> QED BY <2>1, <2>2, <1>1, <1>2, PhasesOnPath, NextOnOperatorPath DEF Fits
  <2>4. pc # "idle" /\ UNCHANGED worldVars /\ faults' \in 0..MaxFaults
    BY <1>3 DEF InfrastructurePhase, IInv, TypeOK
  <2>5. Return(after) /\ after.phase \notin {"Absent", "Unset"}
    BY <1>3, <2>1
  <2> HIDE DEF after
  <2> QED BY <2>1, <2>3, <2>4, <2>5, ReturnedOnly
<1>4. CASE Provision(st, InfrastructureSteps, "Image")
  <2>1. LeadsTo(InfrastructureSteps, "Image")
    <3>1. SUFFICES ASSUME Grows, built' = built \cup {"network", "firewall", "loadBalancer", "targets"}
                   PROVE  Path!Before(kind, "Image") \subseteq Achieved'
      BY StepsAre DEF LeadsTo
    <3>2. "Infrastructure" \in Achieved'
      BY <3>1 DEF Achieved, Stages, InfraIDs
    <3> QED BY <3>2, <1>1, NextOnOperatorPath
  <2>2. "Image" \in Stages /\ pc = "phase" /\ "Image" \in Path!PhasesOf(kind)
    BY <1>1, PhasesOnPath DEF Stages, InfrastructurePhase
  <2>3. st.phase \notin {"Absent", "Unset"} /\ Orderly(InfrastructureSteps)
    BY <1>2, StepsAreOrderly
  <2> QED BY <1>2, <1>4, <2>1, <2>2, <2>3, Provisioned
<1> QED BY <1>3, <1>4 DEF InfrastructurePhase, st

LEMMA ImageKeeps == ASSUME IInv, ImagePhase PROVE IInv'
<1>1. /\ kind = "operator" /\ mem \in Status /\ mem.phase = "Image"
      /\ Fits(mem, kind, Achieved, built, installed)
  BY CurrentPhaseFits, PhasesOnPath DEF ImagePhase, CurrentPhase
<1>2. LeadsTo(<<"snapshot">>, "Compute")
  <2>1. SUFFICES ASSUME Grows, built' = built \cup {"snapshot"}
                 PROVE  Path!Before(kind, "Compute") \subseteq Achieved'
    BY StepsAre DEF LeadsTo
  <2>2. "Image" \in Achieved'
    BY <2>1 DEF Achieved, Stages
  <2>3. "Infrastructure" \in Achieved'
    BY <1>1, <2>1, AchievedStays, NextOnOperatorPath DEF Fits
  <2> QED BY <2>2, <2>3, <1>1, NextOnOperatorPath
<1>3. /\ "Compute" \in Stages /\ pc = "phase" /\ "Compute" \in Path!PhasesOf(kind)
      /\ Orderly(<<"snapshot">>) /\ mem.phase \notin {"Absent", "Unset"}
  BY <1>1, PhasesOnPath, StepsAreOrderly DEF Stages, ImagePhase
<1>4. Provision(mem, <<"snapshot">>, "Compute")
  BY DEF ImagePhase
<1> QED BY <1>1, <1>2, <1>3, <1>4, Provisioned

LEMMA ComputeKeeps == ASSUME IInv, ComputePhase PROVE IInv'
<1> DEFINE next == IF CLIBootstrapped THEN "Addons" ELSE "Bootstrap"
<1>1. /\ kind \in {"cli", "operator"} /\ mem \in Status /\ mem.phase = "Compute"
      /\ Fits(mem, kind, Achieved, built, installed)
  BY CurrentPhaseFits, PhasesOnPath DEF ComputePhase, CurrentPhase
<1>2. LeadsTo(<<"servers">>, next)
  <2>1. SUFFICES ASSUME Grows, built' = built \cup {"servers"}
                 PROVE  Path!Before(kind, next) \subseteq Achieved'
    BY StepsAre DEF LeadsTo
  <2>2. "Compute" \in Achieved'
    BY <2>1 DEF Achieved, Stages
  <2>3. Path!Before(kind, "Compute") \subseteq Achieved'
    BY <1>1, <2>1, AchievedStays DEF Fits
  <2>4. CASE kind = "cli"
    BY <2>2, <2>3, <2>4, NextOnCLIPath DEF CLIBootstrapped
  <2>5. CASE kind = "operator"
    BY <2>2, <2>3, <2>5, NextOnOperatorPath DEF CLIBootstrapped
  <2> QED BY <2>4, <2>5, <1>1
<1>3. /\ next \in Stages /\ pc = "phase" /\ next \in Path!PhasesOf(kind)
      /\ Orderly(<<"servers">>) /\ mem.phase \notin {"Absent", "Unset"}
  BY <1>1, PhasesOnPath, StepsAreOrderly DEF Stages, ComputePhase, CLIBootstrapped
<1>4. Provision(mem, <<"servers">>, next)
  BY DEF ComputePhase
<1> HIDE DEF next
<1> QED BY <1>1, <1>2, <1>3, <1>4, Provisioned

LEMMA BootstrapKeeps == ASSUME IInv, BootstrapPhase PROVE IInv'
<1>1. /\ kind = "operator" /\ mem \in Status /\ mem.phase = "Bootstrap"
      /\ Fits(mem, kind, Achieved, built, installed) /\ pc = "phase"
  BY CurrentPhaseFits, PhasesOnPath DEF BootstrapPhase, CurrentPhase
<1>2. {"Infrastructure", "Image", "Compute"} \subseteq Achieved
  BY <1>1, NextOnOperatorPath DEF Fits
<1>3. "CNI" \in Stages /\ "CNI" \in Path!PhasesOf(kind)
  BY <1>1, PhasesOnPath DEF Stages
<1>4. ASSUME Grows, {"etcd", "marker"} \subseteq built'
      PROVE  Path!Before(kind, "CNI") \subseteq Achieved'
  <2>1. "Bootstrap" \in Achieved'
    BY <1>4 DEF Achieved, Stages
  <2> QED BY <2>1, <1>1, <1>2, <1>4, AchievedStays, NextOnOperatorPath
<1>5. CASE "marker" \in built /\ Provision(mem, <<>>, "CNI")
  <2>1. LeadsTo(<<>>, "CNI")
    <3>1. SUFFICES ASSUME Grows PROVE Path!Before(kind, "CNI") \subseteq Achieved'
      BY DEF LeadsTo
    <3> QED BY <3>1, <1>4, <1>5 DEF IInv, MarkerIsLast, Grows
  <2>2. Orderly(<<>>) /\ mem.phase \notin {"Absent", "Unset"}
    BY <1>1, StepsAreOrderly
  <2> QED BY <1>1, <1>3, <1>5, <2>1, <2>2, Provisioned
<1>6. CASE Provision(mem, BootstrapSteps, "CNI")
  <2>1. LeadsTo(BootstrapSteps, "CNI")
    <3>1. SUFFICES ASSUME Grows, built' = built \cup {"configs", "etcd", "marker"}
                   PROVE  Path!Before(kind, "CNI") \subseteq Achieved'
      BY StepsAre DEF LeadsTo
    <3> QED BY <3>1, <1>4
  <2>2. Orderly(BootstrapSteps) /\ mem.phase \notin {"Absent", "Unset"}
    BY <1>1, StepsAreOrderly
  <2> QED BY <1>1, <1>3, <1>6, <2>1, <2>2, Provisioned
<1>7. CASE Return(DiscoverInfrastructure(mem)) /\ UNCHANGED <<worldVars, faults>>
  <2>1. UNCHANGED worldVars /\ faults' \in 0..MaxFaults
    BY <1>7 DEF IInv, TypeOK
  <2>2. /\ DiscoverInfrastructure(mem) \in Status
        /\ DiscoverInfrastructure(mem).phase = "Bootstrap"
        /\ Fits(DiscoverInfrastructure(mem), kind, Achieved, built, installed)
    BY <1>1, DiscoveredFits DEF IInv
  <2> QED BY <2>1, <2>2, <1>1, <1>7, ReturnedOnly
<1> QED BY <1>5, <1>6, <1>7 DEF BootstrapPhase

LEMMA CNIKeeps == ASSUME IInv, CNIPhase PROVE IInv'
<1> DEFINE st == [mem EXCEPT !.phase = "CNI"]
<1>1. /\ kind \in {"cli", "operator"} /\ mem \in Status /\ pc = "phase"
      /\ Fits(mem, kind, Achieved, built, installed)
      /\ "CNI" \in Path!PhasesOf(kind) /\ Path!Before(kind, "CNI") \subseteq Achieved
  BY CurrentPhaseFits, PhasesOnPath DEF CNIPhase
<1>2. /\ st \in Status /\ st.phase = "CNI" /\ st.infra = mem.infra /\ st.addon = mem.addon
  BY <1>1 DEF Status, Phases, Stages
<1> HIDE DEF st
<1>3. Fits(st, kind, Achieved, built, installed)
  BY <1>1, <1>2 DEF Fits
<1>4. CASE Return(st) /\ UNCHANGED worldVars /\ (UNCHANGED faults \/ Fails)
  <2>1. faults' \in 0..MaxFaults
    BY <1>4, FailsCounts DEF IInv, TypeOK
  <2> QED BY <2>1, <1>1, <1>2, <1>3, <1>4, ReturnedOnly
<1>5. CASE /\ cilium' = IF cilium = "absent" THEN "installed" ELSE cilium
           /\ mem' = [st EXCEPT !.addon["cilium"] = "installing"]
           /\ pc' = "cilium"
           /\ UNCHANGED <<specVars, api, cacheVars, memFresh, tries, built, installed,
                          asked, up, cliVars, faults>>
  <2>1. /\ mem' \in Status /\ mem'.phase = "CNI" /\ mem'.infra = st.infra
        /\ \A a \in Addons \ {"cilium"} : mem'.addon[a] = st.addon[a]
    BY <1>2, <1>5 DEF Status
  <2>2. "cilium" \notin Addons
    BY DEF Addons, AddonOrder
  <2>3. TypeOK'
    BY <1>5, <2>1 DEF IInv, TypeOK, specVars, cacheVars, cliVars
  <2>4. Grows
    BY <1>5 DEF Grows, specVars, IInv, TypeOK
  <2>5. Fits(mem', kind, Achieved, built, installed)
    BY <1>2, <1>3, <2>1, <2>2 DEF Fits
  <2>6. CopiesFit'
    <3>1. /\ Fits(api, kind', Achieved', built', installed')
          /\ Fits(cache, kind', Achieved', built', installed')
          /\ Fits(mem', kind', Achieved', built', installed')
      BY <2>4, <2>5, FitGoesOn DEF IInv, CopiesFit
    <3> QED BY <3>1, <1>5 DEF CopiesFit, cacheVars
  <2>7. CLIBuilt' /\ MarkerIsLast' /\ LegacyHasPhase' /\ CiliumInCNI'
    BY <1>1, <1>5, <2>1
    DEF IInv, CLIBuilt, MarkerIsLast, LegacyHasPhase, CiliumInCNI, specVars, cacheVars, cliVars
  <2> QED BY <2>3, <2>6, <2>7 DEF IInv
<1> QED BY <1>4, <1>5 DEF CNIPhase, LoadCredentialsFails, st

LEMMA AwaitCiliumKeeps == ASSUME IInv, AwaitCilium PROVE IInv'
<1> DEFINE next == IF CLIBootstrapped THEN "Compute" ELSE "Addons"
           st == [mem EXCEPT !.addon["cilium"] = "installed", !.phase = next]
<1>1. /\ mem \in Status /\ mem.phase = "CNI" /\ pc = "cilium"
      /\ Fits(mem, kind, Achieved, built, installed)
      /\ UNCHANGED worldVars /\ faults' \in 0..MaxFaults
  BY DEF AwaitCilium, IInv, TypeOK, CopiesFit, CiliumInCNI
<1>2. kind \in {"cli", "operator"}
  BY <1>1, KindsAre, PhasesOnPath DEF IInv, Fits
<1>3. CASE cilium = "ready" /\ Return(st)
  <2>1. /\ st \in Status /\ st.phase = next /\ st.infra = mem.infra
        /\ \A a \in Addons \ {"cilium"} : st.addon[a] = mem.addon[a]
    BY <1>1 DEF Status, Phases, Stages
  <2>2. "cilium" \notin Addons
    BY DEF Addons, AddonOrder
  <2>3. next \in Path!PhasesOf(kind) /\ Path!Before(kind, next) \subseteq Achieved
    <3>1. "CNI" \in Achieved /\ Path!Before(kind, "CNI") \subseteq Achieved
      BY <1>1, <1>3, AchievedIs DEF Fits
    <3> QED BY <3>1, <1>2, PhasesOnPath, NextOnCLIPath, NextOnOperatorPath DEF CLIBootstrapped
  <2> HIDE DEF st
  <2>4. Fits(st, kind, Achieved, built, installed)
    BY <2>1, <2>2, <2>3, <1>1 DEF Fits
  <2>5. st.phase \notin {"Absent", "Unset"}
    BY <2>1
  <2> QED BY <1>1, <1>3, <2>1, <2>4, <2>5, ReturnedOnly
<1>4. CASE Return(mem)
  BY <1>1, <1>4, ReturnedOnly
<1> QED BY <1>1, <1>3, <1>4 DEF AwaitCilium

\* When none is pending, the enabled addons are on the cluster.
LEMMA NonePending ==
  ASSUME TypeOK, NEW st, Fits(st, kind, Achieved, built, installed), Pending(st) = {}
  PROVE  AddonsInstalled
<1> SUFFICES ASSUME NEW a \in enabled \ {"talos-backup"} PROVE ItemSet(a) \subseteq installed
  BY DEF AddonsInstalled
<1>1. PICK i \in DOMAIN AddonOrder : a = AddonOrder[i]
  BY DEF TypeOK, Addons
<1>2. st.addon[a] = "installed"
  BY <1>1 DEF Pending
<1>3. a \in Addons
  BY DEF TypeOK
<1> QED BY <1>2, <1>3 DEF Fits

LEMMA ItemsAreItems == \A a \in Addons : ItemSet(a) \subseteq AllItems
  BY DEF AllItems

LEMMA ItemsAreSequences ==
  ASSUME NEW a
  PROVE  DOMAIN Items(a) = 1..Len(Items(a)) /\ Len(Items(a)) \in Nat
<1>1. CASE a = "hcloud-ccm"
  <2>1. Items(a) = <<"crds", "talos-ccm", "hcloud-secret", "hcloud-ccm">>
    BY <1>1 DEF Items
  <2> QED BY <2>1
<1>2. CASE a = "cert-manager"
  <2>1. Items(a) = <<"cert-manager", "cloudflare-secret", "cluster-issuer">>
    BY <1>2 DEF Items
  <2> QED BY <2>1
<1>3. CASE a \notin {"hcloud-ccm", "cert-manager"}
  <2>1. Items(a) = <<a>>
    BY <1>3 DEF Items
  <2> QED BY <2>1
<1> QED BY <1>1, <1>2, <1>3

LEMMA InstallAddonKeeps ==
  ASSUME IInv, NEW st \in Status, NEW a \in Addons, pc = "phase",
         Fits(st, kind, Achieved, built, installed), st.phase \notin {"Absent", "Unset"},
         InstallAddon(st, a), UNCHANGED <<built, cilium, asked, up>>
  PROVE  IInv'
<1> DEFINE good == [st EXCEPT !.addon[a] = "installed"]
           bad  == [st EXCEPT !.addon[a] = "failed"]
<1>1. /\ good \in Status /\ good.phase = st.phase /\ good.infra = st.infra
      /\ \A x \in Addons : good.addon[x] = "installed" => x = a \/ st.addon[x] = "installed"
  BY DEF Status
<1>2. /\ bad \in Status /\ bad.phase = st.phase /\ bad.infra = st.infra
      /\ \A x \in Addons : bad.addon[x] = "installed" => st.addon[x] = "installed"
  BY DEF Status
<1> HIDE DEF good, bad
<1>3. ASSUME Return(good), installed' = installed \cup ItemSet(a) \/
                           (a = "talos-backup" /\ installed' = installed), UNCHANGED faults
      PROVE  IInv'
  <2>1. UNCHANGED <<kind, enabled>>
    BY <1>3 DEF Return, specVars
  <2>2. Grows /\ WorldOK' /\ MarkerIsLast'
    BY <2>1, <1>3, ItemsAreItems DEF Grows, WorldOK, MarkerIsLast, IInv, TypeOK
  <2>3. Fits(st, kind', Achieved', built', installed')
    BY <2>2, FitGoesOn
  <2>4. Fits(good, kind', Achieved', built', installed')
    BY <1>1, <1>3, <2>3 DEF Fits
  <2> QED BY <1>1, <1>3, <2>2, <2>4, Returned
<1>4. CASE /\ Fails
           /\ \E n \in 0..Len(Items(a)) : installed' = installed \cup Prefix(Items(a), n)
           /\ Return(bad)
  <2>1. UNCHANGED <<kind, enabled>>
    BY <1>4 DEF Return, specVars
  <2>2. ASSUME NEW n \in 0..Len(Items(a)) PROVE Prefix(Items(a), n) \subseteq AllItems
    <3>1. DOMAIN Items(a) = 1..Len(Items(a)) /\ Len(Items(a)) \in Nat
      BY ItemsAreSequences
    <3> QED BY <3>1, ItemsAreItems DEF Prefix, ItemSet
  <2>3. Grows /\ WorldOK' /\ MarkerIsLast'
    BY <2>1, <2>2, <1>4, FailsCounts DEF Grows, WorldOK, MarkerIsLast, IInv, TypeOK
  <2>4. Fits(st, kind', Achieved', built', installed')
    BY <2>3, FitGoesOn
  <2>5. Fits(bad, kind', Achieved', built', installed')
    BY <1>2, <2>4 DEF Fits
  <2> QED BY <1>2, <1>4, <2>3, <2>5, Returned
<1> QED BY <1>3, <1>4 DEF InstallAddon, good, bad

LEMMA AddonsKeeps == ASSUME IInv, AddonsPhase PROVE IInv'
<1> DEFINE st == [mem EXCEPT !.infra = @ \cup {"network"}]
<1>1. /\ kind \in {"cli", "operator"} /\ mem \in Status /\ mem.phase = "Addons" /\ pc = "phase"
      /\ Fits(mem, kind, Achieved, built, installed)
  BY CurrentPhaseFits, PhasesOnPath DEF AddonsPhase, CurrentPhase
<1>2. "network" \in built
  <2>1. CASE kind = "cli"
    BY <2>1 DEF IInv, CLIBuilt, Resources, InfraIDs
  <2>2. CASE kind = "operator"
    <3>1. "Infrastructure" \in Achieved
      BY <1>1, <2>2, NextOnOperatorPath DEF Fits
    <3> QED BY <3>1 DEF Achieved, InfraIDs
  <2> QED BY <1>1, <2>1, <2>2
<1>3. /\ st \in Status /\ st.phase = "Addons" /\ st.infra = mem.infra \cup {"network"}
      /\ st.addon = mem.addon
  BY <1>1 DEF Status, InfraIDs
<1> HIDE DEF st
<1>4. Fits(st, kind, Achieved, built, installed)
  BY <1>1, <1>2, <1>3 DEF Fits
<1>5. CASE AwaitWorkers
  <2>1. UNCHANGED <<kind, enabled>> /\ faults' \in 0..MaxFaults
    BY <1>5, FailsCounts DEF AwaitWorkers, Return, specVars, IInv, TypeOK
  <2>2. Grows /\ WorldOK' /\ MarkerIsLast'
    BY <2>1, <1>5 DEF AwaitWorkers, Grows, WorldOK, MarkerIsLast, IInv, TypeOK, Groups
  <2>3. Fits(mem, kind', Achieved', built', installed')
    BY <1>1, <2>2, FitGoesOn
  <2>4. Return(mem)
    BY <1>5 DEF AwaitWorkers
  <2> QED BY <1>1, <2>2, <2>3, <2>4, Returned
<1>6. CASE Return(mem) /\ UNCHANGED worldVars /\ (UNCHANGED faults \/ Fails)
  <2>1. faults' \in 0..MaxFaults
    BY <1>6, FailsCounts DEF IInv, TypeOK
  <2> QED BY <2>1, <1>1, <1>6, ReturnedOnly
<1>7. CASE InstallNextAddon(st) /\ UNCHANGED <<built, cilium, asked, up>>
  <2>1. PICK i \in DOMAIN AddonOrder : InstallAddon(st, AddonOrder[i])
    BY <1>7 DEF InstallNextAddon, Pending
  <2>2. AddonOrder[i] \in Addons
    BY DEF Addons
  <2> QED BY <1>1, <1>3, <1>4, <1>7, <2>1, <2>2, InstallAddonKeeps
<1>8. CASE /\ Pending(st) = {}
           /\ Return([st EXCEPT !.phase = "Complete", !.cluster = "Running"])
           /\ UNCHANGED <<worldVars, faults>>
  <2> DEFINE end == [st EXCEPT !.phase = "Complete", !.cluster = "Running"]
  <2>1. "Addons" \in Achieved
    BY <1>4, <1>8, NonePending, AchievedIs DEF IInv
  <2>2. Path!Before(kind, "Complete") \subseteq Achieved /\ "Complete" \in Path!PhasesOf(kind)
    BY <2>1, <1>1, PhasesOnPath, NextOnCLIPath, NextOnOperatorPath DEF Fits
  <2>3. end \in Status /\ Fits(end, kind, Achieved, built, installed)
    BY <1>3, <1>4, <2>2, PhaseSetFits DEF Phases, Stages, ClusterPhases
  <2>4. end.phase \notin {"Absent", "Unset"}
    BY <1>3 DEF Status
  <2>5. UNCHANGED worldVars /\ faults' \in 0..MaxFaults /\ Return(end)
    BY <1>8 DEF IInv, TypeOK
  <2> HIDE DEF end
  <2> QED BY <1>1, <2>3, <2>4, <2>5, ReturnedOnly
<1> QED BY <1>5, <1>6, <1>7, <1>8 DEF AddonsPhase, LoadCredentialsFails, st

LEMMA ConfiguringKeeps == ASSUME IInv, ConfiguringPhase PROVE IInv'
<1>1. /\ kind = "legacy" /\ mem \in Status /\ mem.phase = "Configuring" /\ pc = "phase"
      /\ Fits(mem, kind, Achieved, built, installed)
  BY CurrentPhaseFits, PhasesOnPath DEF ConfiguringPhase, CurrentPhase
<1> DEFINE end == [mem EXCEPT !.phase = "Complete", !.cluster = "Running"]
<1>2. PICK k \in 0..Len(AddonOrder), backup \in BOOLEAN :
        /\ installed' = installed \cup AppliedThrough(k, backup)
        /\ cilium' = IF cilium = "absent" /\ k > 0 THEN "installed" ELSE cilium
        /\ \/ k = Len(AddonOrder) /\ Return(end) /\ UNCHANGED faults
           \/ Fails /\ Return(mem)
  BY DEF ConfiguringPhase
<1>3. UNCHANGED <<built, asked, up>>
  BY DEF ConfiguringPhase
<1>4. Len(AddonOrder) = 9 /\ DOMAIN AddonOrder = 1..9
  BY DEF AddonOrder
<1>5. AppliedThrough(k, backup) \subseteq AllItems
  BY <1>4 DEF AppliedThrough, AllItems, Addons
<1>6. UNCHANGED <<kind, enabled>> /\ faults' \in 0..MaxFaults
  BY <1>2, FailsCounts DEF Return, specVars, IInv, TypeOK
<1>7. Grows /\ WorldOK' /\ MarkerIsLast'
  BY <1>2, <1>3, <1>5, <1>6 DEF Grows, WorldOK, MarkerIsLast, IInv, TypeOK
<1>8. Fits(mem, kind', Achieved', built', installed')
  BY <1>1, <1>7, FitGoesOn
<1>9. CASE k = Len(AddonOrder) /\ Return(end)
  <2>1. AddonsInstalled'
    <3> SUFFICES ASSUME NEW a \in enabled \ {"talos-backup"}
                 PROVE  ItemSet(a) \subseteq AppliedThrough(k, backup)
      BY <1>2, <1>6 DEF AddonsInstalled
    <3>1. PICK j \in DOMAIN AddonOrder : a = AddonOrder[j]
      BY DEF IInv, TypeOK, Addons
    <3> QED BY <3>1, <1>4, <1>9 DEF AppliedThrough
  <2>2. cilium' # "absent"
    BY <1>2, <1>4, <1>9
  <2>3. "Configuring" \in Achieved'
    BY <2>1, <2>2 DEF Achieved, Stages
  <2>4. Path!Before(kind', "Complete") \subseteq Achieved' /\ "Complete" \in Path!PhasesOf(kind')
    BY <2>3, <1>1, <1>6, PhasesOnPath, NextOnLegacyPath
  <2>5. end \in Status /\ Fits(end, kind', Achieved', built', installed')
    BY <1>1, <1>8, <2>4, PhaseSetFits DEF Phases, Stages, ClusterPhases
  <2>6. end.phase \notin {"Absent", "Unset"}
    BY <1>1 DEF Status
  <2> HIDE DEF end
  <2> QED BY <1>1, <1>7, <1>9, <2>5, <2>6, Returned
<1>10. CASE Return(mem)
  BY <1>1, <1>7, <1>8, <1>10, Returned
<1> QED BY <1>2, <1>9, <1>10

LEMMA RunningKeeps == ASSUME IInv, RunningPhase PROVE IInv'
<1>1. /\ mem \in Status /\ mem.phase = "Complete" /\ pc = "phase"
      /\ Fits(mem, kind, Achieved, built, installed)
  BY CurrentPhaseFits DEF RunningPhase, CurrentPhase
<1>2. PICK c \in {mem.cluster} \cup {"Healing" : g \in Groups \ mem.ready} :
        Return([mem EXCEPT !.cluster = c])
  BY DEF RunningPhase
<1> DEFINE st == [mem EXCEPT !.cluster = c]
<1>3. /\ st \in Status /\ st.phase = mem.phase /\ st.infra = mem.infra /\ st.addon = mem.addon
  BY <1>1 DEF Status, ClusterPhases
<1> HIDE DEF st
<1>4. UNCHANGED <<kind, enabled>> /\ faults' \in 0..MaxFaults
  BY <1>2, FailsCounts DEF RunningPhase, Return, specVars, IInv, TypeOK
<1>5. Grows /\ WorldOK' /\ MarkerIsLast'
  BY <1>4 DEF RunningPhase, Grows, WorldOK, MarkerIsLast, IInv, TypeOK, Groups
<1>6. Fits(mem, kind', Achieved', built', installed')
  BY <1>1, <1>5, FitGoesOn
<1>7. Fits(st, kind', Achieved', built', installed')
  BY <1>3, <1>6 DEF Fits
<1>8. Return(st) /\ st.phase \notin {"Absent", "Unset"}
  BY <1>1, <1>2, <1>3 DEF st
<1> QED BY <1>1, <1>3, <1>5, <1>7, <1>8, Returned

-----------------------------------------------------------------------------
(***************************************************************************)
(* The rest of a reconcile, the command line and the cluster.              *)
(***************************************************************************)

LEMMA PhaseStepKeeps == ASSUME IInv, PhaseStep PROVE IInv'
  BY InfrastructureKeeps, ImageKeeps, ComputeKeeps, BootstrapKeeps, CNIKeeps,
     AwaitCiliumKeeps, AddonsKeeps, ConfiguringKeeps, RunningKeeps DEF PhaseStep

\* A step that leaves the work alone keeps the invariant if the copies it
\* writes are others' copies.
LEMMA CopiedKeeps ==
  ASSUME IInv, UNCHANGED <<kind, enabled, worldVars>>, TypeOK',
         Fits(api', kind, Achieved, built, installed),
         Fits(cache', kind, Achieved, built, installed),
         Fits(mem', kind, Achieved, built, installed),
         CLIBuilt', LegacyHasPhase', CiliumInCNI'
  PROVE  IInv'
<1>1. Grows /\ MarkerIsLast'
  BY DEF Grows, MarkerIsLast, IInv, TypeOK, worldVars
<1>2. CopiesFit'
  BY <1>1, FitGoesOn DEF CopiesFit
<1> QED BY <1>1, <1>2 DEF IInv

LEMMA NoStatusFitsNow ==
  ASSUME IInv
  PROVE  NoStatus \in Status /\ NoStatus.phase = "Unset"
         /\ Fits(NoStatus, kind, Achieved, built, installed)
<1>1. NoStatus.phase = "Unset"
  BY DEF NoStatus
<1> QED BY <1>1, NoStatusFits, KindsAre DEF IInv

LEMMA FetchKeeps == ASSUME IInv, Fetch PROVE IInv'
<1>1. /\ cache \in Status /\ Fits(cache, kind, Achieved, built, installed)
      /\ cache.phase # "Absent" /\ up \subseteq Groups
  BY DEF IInv, TypeOK, CopiesFit, Fetch
<1>2. mem' \in Status /\ mem'.phase = cache.phase /\ mem'.infra = cache.infra
      /\ mem'.addon = cache.addon
  <2>1. CASE mem' = cache
    BY <1>1, <2>1
  <2>2. CASE \E r \in IF kind = "operator" THEN SUBSET Groups ELSE {up} :
               mem' = [cache EXCEPT !.nodes = "listed", !.ready = r]
    <3>1. PICK r \in SUBSET Groups : mem' = [cache EXCEPT !.nodes = "listed", !.ready = r]
      BY <1>1, <2>2
    <3> QED BY <1>1, <3>1 DEF Status
  <2> QED BY <2>1, <2>2 DEF Fetch
<1>3. Fits(mem', kind, Achieved, built, installed)
  BY <1>1, <1>2 DEF Fits
<1>4. faults' \in 0..MaxFaults
  BY FailsCounts DEF Fetch, IInv, TypeOK
<1>5. /\ UNCHANGED <<kind, enabled, paused, api, cache, cacheFresh, tries, worldVars,
                     cli, cliFresh, reapplies>>
      /\ pc' = "phase" /\ memFresh' = cacheFresh
  BY DEF Fetch, specVars, cacheVars, cliVars
<1>6. TypeOK'
  BY <1>2, <1>4, <1>5 DEF IInv, TypeOK, worldVars
<1>7. CLIBuilt' /\ LegacyHasPhase' /\ CiliumInCNI'
  BY <1>2, <1>5 DEF IInv, CLIBuilt, LegacyHasPhase, CiliumInCNI, worldVars
<1> QED BY <1>3, <1>5, <1>6, <1>7, CopiedKeeps DEF IInv, CopiesFit

LEMMA UpdateStatusKeeps == ASSUME IInv, UpdateStatus PROVE IInv'
<1>1. /\ UNCHANGED <<kind, enabled, paused, worldVars, cli, reapplies, faults>>
      /\ pc = "update"
  BY DEF UpdateStatus, specVars
<1>2. mem \in Status /\ Fits(mem, kind, Achieved, built, installed)
      /\ api \in Status /\ Fits(api, kind, Achieved, built, installed)
      /\ cache \in Status /\ Fits(cache, kind, Achieved, built, installed)
  BY DEF IInv, TypeOK, CopiesFit
<1>3. CASE memFresh /\ WriteAPI(mem) /\ memFresh' = FALSE /\ cliFresh' = FALSE /\ Forget
  <2>1. /\ api' = mem /\ cache' = cache /\ cacheFresh' = FALSE /\ mem' = NoStatus
        /\ pc' = "idle" /\ tries' = 0
    BY <1>3 DEF WriteAPI, Forget
  <2>2. TypeOK'
    <3>1. api' \in Status /\ mem' \in Status /\ cache' \in Status
      BY <1>2, <2>1, NoStatusFitsNow
    <3>2. memFresh' \in BOOLEAN /\ cliFresh' \in BOOLEAN /\ cacheFresh' \in BOOLEAN
      BY <1>3, <2>1
    <3> QED BY <1>1, <2>1, <3>1, <3>2 DEF IInv, TypeOK, worldVars
  <2>3. CLIBuilt' /\ LegacyHasPhase' /\ CiliumInCNI'
    BY <1>1, <2>1 DEF IInv, CLIBuilt, LegacyHasPhase, CiliumInCNI, worldVars
  <2> QED BY <1>1, <1>2, <2>1, <2>2, <2>3, NoStatusFitsNow, CopiedKeeps
<1>4. CASE /\ tries < 2 /\ tries' = tries + 1 /\ memFresh' = cacheFresh
           /\ mem' = IF mem.addon = NoStatus.addon THEN [mem EXCEPT !.addon = cache.addon]
                     ELSE mem
           /\ UNCHANGED <<api, cacheVars, pc, cliFresh>>
  <2>1. /\ mem' \in Status /\ mem'.phase = mem.phase /\ mem'.infra = mem.infra
        /\ mem'.addon \in {mem.addon, cache.addon}
    BY <1>2, <1>4 DEF Status
  <2>2. Fits(mem', kind, Achieved, built, installed)
    BY <1>2, <2>1 DEF Fits
  <2>3. TypeOK'
    BY <1>1, <1>2, <1>4, <2>1 DEF IInv, TypeOK, worldVars, cacheVars
  <2>4. CLIBuilt' /\ LegacyHasPhase' /\ CiliumInCNI'
    BY <1>1, <1>4, <2>1 DEF IInv, CLIBuilt, LegacyHasPhase, CiliumInCNI, worldVars, cacheVars
  <2> QED BY <1>1, <1>2, <1>4, <2>2, <2>3, <2>4, CopiedKeeps DEF cacheVars
<1>5. CASE Forget /\ UNCHANGED <<api, cacheVars, memFresh, cliFresh>>
  <2>1. mem' = NoStatus /\ pc' = "idle" /\ tries' = 0 /\ UNCHANGED <<api, cache, cacheFresh>>
    BY <1>5 DEF Forget, cacheVars
  <2>2. TypeOK'
    BY <1>1, <1>2, <1>5, <2>1, NoStatusFitsNow DEF IInv, TypeOK, worldVars
  <2>3. CLIBuilt' /\ LegacyHasPhase' /\ CiliumInCNI'
    BY <1>1, <2>1 DEF IInv, CLIBuilt, LegacyHasPhase, CiliumInCNI, worldVars
  <2> QED BY <1>1, <1>2, <2>1, <2>2, <2>3, NoStatusFitsNow, CopiedKeeps
<1> QED BY <1>3, <1>4, <1>5 DEF UpdateStatus

LEMMA AbortKeeps == ASSUME IInv, Abort PROVE IInv'
<1>1. /\ UNCHANGED <<kind, enabled, paused, api, cache, cacheFresh, worldVars, cli,
                     cliFresh, reapplies>>
      /\ mem' = NoStatus /\ pc' = "idle" /\ tries' = 0 /\ memFresh' = FALSE
  BY DEF Abort, Forget, specVars, cacheVars, cliVars
<1>2. TypeOK'
  <2>1. faults' \in 0..MaxFaults /\ mem' \in Status
    BY <1>1, FailsCounts, NoStatusFitsNow DEF Abort, IInv
  <2>2. memFresh' = FALSE
    BY DEF Abort
  <2>3. memFresh' \in BOOLEAN
    BY ONLY <2>2
  <2> QED BY <1>1, <2>1, <2>3 DEF IInv, TypeOK, worldVars
<1>3. CLIBuilt' /\ LegacyHasPhase' /\ CiliumInCNI'
  BY <1>1 DEF IInv, CLIBuilt, LegacyHasPhase, CiliumInCNI, worldVars
<1> QED BY <1>1, <1>2, <1>3, NoStatusFitsNow, CopiedKeeps DEF IInv, CopiesFit

LEMMA CacheSyncKeeps == ASSUME IInv, CacheSync PROVE IInv'
<1>1. /\ UNCHANGED <<kind, enabled, paused, api, pc, mem, memFresh, tries, worldVars, cli,
                     cliFresh, reapplies, faults>>
      /\ cache' = api /\ cacheFresh' = TRUE
  BY DEF CacheSync, specVars, memVars, cliVars
<1>2. TypeOK'
  BY <1>1 DEF IInv, TypeOK, worldVars
<1>3. CLIBuilt' /\ LegacyHasPhase' /\ CiliumInCNI'
  BY <1>1 DEF IInv, CLIBuilt, LegacyHasPhase, CiliumInCNI, worldVars
<1> QED BY <1>1, <1>2, <1>3, CopiedKeeps DEF IInv, CopiesFit

\* A step of the command line or of the user that writes a status which fits.
LEMMA WrittenKeeps ==
  ASSUME IInv, UNCHANGED <<kind, enabled, cache, pc, mem, tries, worldVars>>,
         api' \in Status, Fits(api', kind, Achieved, built, installed),
         kind = "legacy" => api'.phase = api.phase,
         cacheFresh' \in BOOLEAN, memFresh' \in BOOLEAN, cliFresh' \in BOOLEAN,
         paused' \in BOOLEAN, faults' \in 0..MaxFaults, reapplies' \in 0..MaxReapplies,
         cli' \in {"create", "get", "update", "wait", "done", "failed", "none"},
         kind # "cli" => cli' = cli
  PROVE  IInv'
<1>1. TypeOK'
  BY DEF IInv, TypeOK, worldVars
<1>2. CLIBuilt' /\ LegacyHasPhase' /\ CiliumInCNI'
  BY DEF IInv, CLIBuilt, LegacyHasPhase, CiliumInCNI, worldVars
<1> QED BY <1>1, <1>2, CopiedKeeps DEF IInv, CopiesFit

LEMMA FirstStatusFits ==
  ASSUME IInv, kind = "cli"
  PROVE  FirstStatus \in Status /\ Fits(FirstStatus, kind, Achieved, built, installed)
<1>1. /\ FirstStatus \in Status /\ FirstStatus.phase = "CNI" /\ FirstStatus.infra = InfraIDs
      /\ \A a \in Addons : FirstStatus.addon[a] = "none"
  BY DEF FirstStatus, NoStatus, Status, Phases, Stages, ClusterPhases, IInv, TypeOK
<1>2. InfraIDs \subseteq built
  BY DEF IInv, CLIBuilt, Resources
<1> QED BY <1>1, <1>2, PhasesOnPath, NextOnCLIPath DEF Fits

LEMMA CLIKeeps ==
  ASSUME IInv, CLIStep \/ CLICallFails
  PROVE  IInv'
<1>1. /\ kind = "cli" /\ UNCHANGED <<kind, enabled, paused, pc, mem, tries, worldVars, reapplies>>
      /\ cli' \in {"create", "get", "update", "wait", "done", "failed", "none"}
  BY DEF CLIStep, CLICallFails, CreateCluster, GetCluster, WriteFirstStatus,
         WaitForOperatorComplete, IInv, CLIBuilt, specVars, memVars
<1>2. /\ cacheFresh' \in BOOLEAN /\ memFresh' \in BOOLEAN /\ cliFresh' \in BOOLEAN
      /\ faults' \in 0..MaxFaults /\ cache' = cache
  BY FailsCounts DEF CLIStep, CLICallFails, CreateCluster, GetCluster, WriteFirstStatus,
         WaitForOperatorComplete, WriteAPI, IInv, TypeOK, cacheVars, memVars
<1>3. api' \in {api, NoStatus, FirstStatus}
  BY DEF CLIStep, CLICallFails, CreateCluster, GetCluster, WriteFirstStatus,
         WaitForOperatorComplete, WriteAPI
<1>4. api' \in Status /\ Fits(api', kind, Achieved, built, installed)
  BY <1>1, <1>3, NoStatusFitsNow, FirstStatusFits DEF IInv, TypeOK, CopiesFit
<1>5. paused' \in BOOLEAN /\ reapplies' \in 0..MaxReapplies
  BY <1>1 DEF IInv, TypeOK
<1> QED BY <1>1, <1>2, <1>4, <1>5, WrittenKeeps

\* Without later addons an apply on the managed cluster changes nothing.
LEMMA ReapplyKeeps == ASSUME IInv, Later = {}, Reapply PROVE IInv'
<1>1. /\ UNCHANGED <<kind, enabled, api, cache, pc, mem, tries, worldVars, paused, cli,
                     cliFresh, faults>>
      /\ cacheFresh' = FALSE /\ memFresh' = FALSE
  BY DEF Reapply, WriteAPI
<1>2. reapplies' \in 0..MaxReapplies
  BY BoundsAssumption DEF Reapply, IInv, TypeOK
<1> QED BY <1>1, <1>2, WrittenKeeps DEF IInv, TypeOK, CopiesFit

LEMMA PauseKeeps == ASSUME IInv, Pause \/ Unpause PROVE IInv'
<1>1. /\ UNCHANGED <<kind, enabled, api, cache, pc, mem, tries, worldVars, cli, reapplies>>
      /\ cacheFresh' = FALSE /\ memFresh' = FALSE /\ cliFresh' = FALSE /\ paused' \in BOOLEAN
  BY DEF Pause, Unpause, WriteAPI
<1>2. faults' \in 0..MaxFaults
  BY FailsCounts DEF Pause, Unpause, IInv, TypeOK
<1> QED BY <1>1, <1>2, WrittenKeeps DEF IInv, TypeOK, CopiesFit

LEMMA WorldKeeps ==
  ASSUME IInv, WorldStep \/ \E g \in Groups : NodesDown(g)
  PROVE  IInv'
<1>1. /\ UNCHANGED <<kind, enabled, paused, api, cache, cacheFresh, pc, mem, memFresh,
                     tries, built, installed, asked, cli, cliFresh, reapplies>>
      /\ faults' \in 0..MaxFaults
  BY FailsCounts DEF WorldStep, CiliumReady, NodesUp, NodesDown, specVars, cacheVars, memVars,
         cliVars, IInv, TypeOK
<1>2. /\ cilium' \in {"absent", "installed", "ready"} /\ up' \subseteq Groups
      /\ cilium = "ready" => cilium' = "ready"
      /\ cilium # "absent" => cilium' # "absent"
  BY DEF WorldStep, CiliumReady, NodesUp, NodesDown, IInv, TypeOK
<1>3. Grows
  BY <1>1, <1>2 DEF Grows
<1>4. TypeOK'
  BY <1>1, <1>2 DEF IInv, TypeOK
<1>5. CopiesFit'
  BY <1>1, <1>3, FitGoesOn DEF IInv, CopiesFit
<1>6. CLIBuilt' /\ MarkerIsLast' /\ LegacyHasPhase' /\ CiliumInCNI'
  BY <1>1 DEF IInv, CLIBuilt, MarkerIsLast, LegacyHasPhase, CiliumInCNI
<1> QED BY <1>4, <1>5, <1>6 DEF IInv

LEMMA StutterKeeps == ASSUME IInv, UNCHANGED vars PROVE IInv'
<1>1. UNCHANGED <<kind, enabled, paused, api, cache, cacheFresh, pc, mem, memFresh, tries,
                  worldVars, cli, cliFresh, faults, reapplies>>
  BY DEF vars, specVars, cacheVars, memVars, cliVars
<1> QED BY <1>1, WrittenKeeps DEF IInv, TypeOK, CopiesFit

-----------------------------------------------------------------------------
(***************************************************************************)
(* The invariant, and the path.                                            *)
(***************************************************************************)

LEMMA InitIInv == Init => IInv
<1> SUFFICES ASSUME Init PROVE IInv
  OBVIOUS
<1>1. kind \in {"cli", "operator", "legacy"}
  BY KindsAssumption DEF Init
<1>2. NoStatus \in Status /\ NoStatus.phase = "Unset" /\ NoStatus.infra = {}
      /\ \A a \in Addons : NoStatus.addon[a] = "none"
  BY NoStatusFits DEF NoStatus
<1>3. /\ api \in Status /\ cache = api /\ mem = NoStatus
      /\ \A a \in Addons : api.addon[a] = "none"
      /\ \/ kind = "cli" /\ api.phase = "Absent" /\ api.infra = {}
         \/ kind = "operator" /\ api.phase = "Unset" /\ api.infra = {}
         \/ kind = "legacy" /\ api.phase = "Configuring" /\ api.infra = InfraIDs
                            /\ built = Resources
  BY <1>2 DEF Init, Status, Phases, Stages
<1>4. TypeOK
  <2>1. enabled \subseteq Addons /\ faults \in 0..MaxFaults /\ reapplies \in 0..MaxReapplies
    BY AddonsAssumption, BoundsAssumption DEF Init
  <2>2. built \subseteq Resources /\ asked \subseteq Groups /\ up \subseteq Groups
        /\ cli \in {"create", "none"}
    BY DEF Init, Groups
  <2>3. /\ kind \in Kinds /\ paused \in BOOLEAN /\ cacheFresh \in BOOLEAN
        /\ memFresh \in BOOLEAN /\ cliFresh \in BOOLEAN
        /\ pc = "idle" /\ tries = 0 /\ cilium = "absent" /\ installed = {}
    BY DEF Init
  <2>4. api \in Status /\ cache \in Status /\ mem \in Status
    BY <1>2, <1>3
  <2> QED BY <2>1, <2>2, <2>3, <2>4 DEF TypeOK
<1>5. Fits(api, kind, Achieved, built, installed)
  BY <1>3, PhasesOnPath, NothingBefore, NextOnLegacyPath DEF Fits, Resources
<1>6. Fits(mem, kind, Achieved, built, installed)
  BY <1>1, <1>3, NoStatusFits
<1>7. CLIBuilt /\ MarkerIsLast /\ LegacyHasPhase /\ CiliumInCNI
  BY <1>3 DEF Init, CLIBuilt, MarkerIsLast, LegacyHasPhase, CiliumInCNI, Resources
<1> QED BY <1>3, <1>4, <1>5, <1>6, <1>7 DEF IInv, CopiesFit

\* One case for each part of Next.
LEMMA NextKeeps ==
  ASSUME Later = {}, IInv, [Next]_vars
  PROVE  IInv'
<1>1. CASE PhaseStep
  BY <1>1, PhaseStepKeeps
<1>2. CASE Fetch
  BY <1>2, FetchKeeps
<1>3. CASE UpdateStatus
  BY <1>3, UpdateStatusKeeps
<1>4. CASE Abort
  BY <1>4, AbortKeeps
<1>5. CASE CacheSync
  BY <1>5, CacheSyncKeeps
<1>6. CASE CLIStep \/ CLICallFails
  BY <1>6, CLIKeeps
<1>7. CASE Reapply
  BY <1>7, ReapplyKeeps
<1>8. CASE Pause \/ Unpause
  BY <1>8, PauseKeeps
<1>9. CASE WorldStep \/ \E g \in Groups : NodesDown(g)
  BY <1>9, WorldKeeps
<1>10. CASE Gone \/ UNCHANGED vars
  BY <1>10, StutterKeeps DEF Gone
<1> QED
  BY <1>1, <1>2, <1>3, <1>4, <1>5, <1>6, <1>7, <1>8, <1>9, <1>10 DEF Next, ReconcileStep

\* Whatever is late, lost, retried or overwritten, each copy of the status, the
\* API server's, the informer cache's and the reconcile's own, says only what
\* has been done (updateStatusWithRetry, the phase handlers, WriteFirstStatus).
\* The bounds on faults and on runs of apply are arbitrary.
THEOREM Invariance == ASSUME Later = {} PROVE Spec => []IInv
<1>1. Init => IInv
  BY InitIInv
<1>2. IInv /\ [Next]_vars => IInv'
  BY NextKeeps
<1> QED BY <1>1, <1>2, PTL DEF Spec

LEMMA ReturnLeaves ==
  ASSUME NEW st, Return(st)
  PROVE  UNCHANGED <<kind, enabled, api>>
  BY DEF Return, specVars

\* What leaves the world alone, or adds to it.
LEMMA SameGrows ==
  ASSUME UNCHANGED <<kind, enabled, worldVars>>
  PROVE  Grows
  BY DEF Grows, worldVars

LEMMA ProvisionGrows ==
  ASSUME NEW st, NEW steps, NEW next, Provision(st, steps, next)
  PROVE  Grows /\ UNCHANGED api
<1> DEFINE known == DiscoverInfrastructure(st)
           end == [UpdateNodeStatuses(known, steps) EXCEPT !.phase = next,
             !.infra = @ \cup (Prefix(steps, Len(steps)) \cap {"network", "firewall"})]
<1>1. Return(st) \/ Return(known) \/ Return(end)
  BY DEF Provision, LoadCredentialsFails
<1>2. UNCHANGED <<kind, enabled, api>>
  <2> HIDE DEF known, end
  <2> QED BY <1>1, ReturnLeaves
<1>3. built \subseteq built' /\ UNCHANGED <<installed, cilium>>
  BY DEF Provision, LoadCredentialsFails, worldVars
<1> QED BY <1>2, <1>3 DEF Grows

\* A phase handler adds to the work and leaves the API server's status alone.
LEMMA PhaseStepGrows ==
  ASSUME IInv, PhaseStep
  PROVE  Grows /\ UNCHANGED api
<1>1. CASE InfrastructurePhase
  <2>1. CASE \E st : Return(st) /\ UNCHANGED worldVars
    BY <2>1, ReturnLeaves, SameGrows
  <2>2. CASE \E st : Provision(st, InfrastructureSteps, "Image")
    BY <2>2, ProvisionGrows
  <2> QED BY <1>1, <2>1, <2>2 DEF InfrastructurePhase
<1>2. CASE ImagePhase
  BY <1>2, ProvisionGrows DEF ImagePhase
<1>3. CASE ComputePhase
  BY <1>3, ProvisionGrows DEF ComputePhase
<1>4. CASE BootstrapPhase
  <2>1. CASE \E st : Return(st) /\ UNCHANGED worldVars
    BY <2>1, ReturnLeaves, SameGrows
  <2>2. CASE \E steps : Provision(mem, steps, "CNI")
    BY <2>2, ProvisionGrows
  <2> QED BY <1>4, <2>1, <2>2 DEF BootstrapPhase
<1>5. CASE CNIPhase
  <2>1. CASE \E st : Return(st) /\ UNCHANGED worldVars
    BY <2>1, ReturnLeaves, SameGrows
  <2>2. CASE /\ cilium' = IF cilium = "absent" THEN "installed" ELSE cilium
             /\ UNCHANGED <<specVars, api, built, installed>>
    BY <2>2 DEF Grows, specVars
  <2> QED BY <1>5, <2>1, <2>2 DEF CNIPhase, LoadCredentialsFails
<1>6. CASE AwaitCilium
  <2>1. \E st : Return(st) /\ UNCHANGED worldVars
    BY <1>6 DEF AwaitCilium
  <2> QED BY <2>1, ReturnLeaves, SameGrows
<1>7. CASE AddonsPhase
  <2>1. CASE \E st : Return(st) /\ UNCHANGED worldVars
    BY <2>1, ReturnLeaves, SameGrows
  <2>2. CASE AwaitWorkers
    BY <2>2, ReturnLeaves DEF AwaitWorkers, Grows
  <2>3. CASE \E st, a : InstallAddon(st, a) /\ UNCHANGED <<built, cilium, asked, up>>
    <3>1. PICK st, a : InstallAddon(st, a) /\ UNCHANGED <<built, cilium, asked, up>>
      BY <2>3
    <3>2. \E s : Return(s)
      BY <3>1 DEF InstallAddon
    <3>3. installed \subseteq installed'
      BY <3>1 DEF InstallAddon
    <3> QED BY <3>1, <3>2, <3>3, ReturnLeaves DEF Grows
  <2> QED BY <1>7, <2>1, <2>2, <2>3 DEF AddonsPhase, InstallNextAddon, LoadCredentialsFails
<1>8. CASE ConfiguringPhase
  <2>1. \E st : Return(st)
    BY <1>8 DEF ConfiguringPhase
  <2>2. /\ installed \subseteq installed' /\ built' = built
        /\ cilium' \in {cilium, IF cilium = "absent" THEN "installed" ELSE cilium}
    BY <1>8 DEF ConfiguringPhase
  <2> QED BY <2>1, <2>2, ReturnLeaves DEF Grows
<1>9. CASE RunningPhase
  BY <1>9, ReturnLeaves DEF RunningPhase, Grows
<1> QED
  BY <1>1, <1>2, <1>3, <1>4, <1>5, <1>6, <1>7, <1>8, <1>9 DEF PhaseStep

\* Nothing is undone: the work of a stage, once achieved, stays so.
LEMMA WorkStays ==
  ASSUME Later = {}, IInv, [Next]_vars
  PROVE  Grows
<1>1. CASE PhaseStep
  BY <1>1, PhaseStepGrows
<1>2. CASE Fetch \/ UpdateStatus \/ Abort \/ CacheSync \/ CLIStep \/ CLICallFails
           \/ Pause \/ Unpause \/ Gone \/ UNCHANGED vars
  <2>1. UNCHANGED <<kind, enabled, worldVars>>
    BY <1>2 DEF Fetch, UpdateStatus, Abort, CacheSync, CLIStep, CLICallFails, CreateCluster,
       GetCluster, WriteFirstStatus, WaitForOperatorComplete, Pause, Unpause, Gone, vars,
       specVars
  <2> QED BY <2>1 DEF Grows, worldVars
<1>3. CASE Reapply
  BY <1>3 DEF Reapply, Grows, worldVars
<1>4. CASE WorldStep \/ \E g \in Groups : NodesDown(g)
  BY <1>4 DEF WorldStep, CiliumReady, NodesUp, NodesDown, Grows, specVars
<1> QED BY <1>1, <1>2, <1>3, <1>4 DEF Next, ReconcileStep

\* A step announces a phase or works, never both.
LEMMA AnnounceOrWork ==
  ASSUME Later = {}, IInv, [Next]_vars
  PROVE  UNCHANGED api \/ UNCHANGED <<kind, enabled, worldVars>>
<1>1. CASE PhaseStep
  BY <1>1, PhaseStepGrows
<1>2. CASE Fetch \/ UpdateStatus \/ Abort \/ CacheSync \/ CLIStep \/ CLICallFails
           \/ Pause \/ Unpause \/ Gone \/ UNCHANGED vars
  BY <1>2 DEF Fetch, UpdateStatus, Abort, CacheSync, CLIStep, CLICallFails, CreateCluster,
     GetCluster, WriteFirstStatus, WaitForOperatorComplete, Pause, Unpause, Gone, vars,
     specVars
<1>3. CASE Reapply
  BY <1>3 DEF Reapply, WriteAPI
<1>4. CASE WorldStep \/ \E g \in Groups : NodesDown(g)
  BY <1>4 DEF WorldStep, CiliumReady, NodesUp, NodesDown
<1> QED BY <1>1, <1>2, <1>3, <1>4 DEF Next, ReconcileStep

\* The operator and the command line together implement ProvisioningPath: a
\* phase is announced only when the work of all the stages before it is done,
\* for any spec, any number of faults and any interleaving of the two writers.
THEOREM PathKept == ASSUME Later = {} PROVE Spec => PathSpec
<1>1. Init => Path!Init
  <2> SUFFICES ASSUME Init PROVE Path!Init
    OBVIOUS
  <2>1. IInv
    BY InitIInv
  <2>2. kind \in {"cli", "operator", "legacy"} /\ Fits(api, kind, Achieved, built, installed)
    BY <2>1, KindsAre DEF IInv, CopiesFit
  <2>3. DOMAIN Path!Path = {"cli", "operator", "legacy"}
    BY DEF Path!Path
  <2>4. Achieved \in SUBSET Path!Stages
    BY DEF Achieved, Stages, Path!Stages
  <2> QED BY <2>2, <2>3, <2>4 DEF Path!Init, Fits
<1>2. IInv /\ IInv' /\ [Next]_vars => [Path!Next]_(Path!vars)
  <2> SUFFICES ASSUME IInv, IInv', [Next]_vars PROVE [Path!Next]_(Path!vars)
    OBVIOUS
  <2>1. Grows
    BY WorkStays
  <2>2. CASE UNCHANGED api
    <3>1. Achieved' \in SUBSET Path!Stages /\ Achieved \subseteq Achieved'
      BY <2>1, AchievedStays DEF Achieved, Stages, Path!Stages
    <3>2. UNCHANGED <<kind, api.phase>>
      BY <2>1, <2>2 DEF Grows
    <3> QED BY <3>1, <3>2 DEF Path!Next, Path!Work
  <2>3. CASE UNCHANGED <<kind, enabled, worldVars>>
    <3>1. Achieved' = Achieved
      BY <2>3 DEF Achieved, AddonsInstalled, worldVars
    <3>2. api'.phase \in Path!PhasesOf(kind) /\ Path!Before(kind, api'.phase) \subseteq Achieved
      BY <2>3, <3>1 DEF IInv, CopiesFit, Fits
    <3> QED BY <2>3, <3>1, <3>2 DEF Path!Next, Path!Announce
  <2> QED BY <2>2, <2>3, AnnounceOrWork
<1> QED BY <1>1, <1>2, Invariance, PTL DEF PathSpec, Path!Spec, Spec

-----------------------------------------------------------------------------
(***************************************************************************)
(* The addons' order.                                                      *)
(***************************************************************************)

LEMMA OrderIs ==
  /\ DOMAIN AddonOrder = 1..9
  /\ \A i, j \in 1..9 : AddonOrder[i] = AddonOrder[j] => i = j
  /\ \A i, j \in 1..9 : i < j => AddonOrder[i] # "talos-backup"
<1>1. /\ DOMAIN AddonOrder = 1..9
      /\ AddonOrder[1] = "hcloud-ccm" /\ AddonOrder[2] = "hcloud-csi"
      /\ AddonOrder[3] = "metrics-server" /\ AddonOrder[4] = "cert-manager"
      /\ AddonOrder[5] = "traefik" /\ AddonOrder[6] = "external-dns"
      /\ AddonOrder[7] = "argocd" /\ AddonOrder[8] = "monitoring"
      /\ AddonOrder[9] = "talos-backup"
  BY DEF AddonOrder
<1> QED BY <1>1

LEMMA ItemSetsAre ==
  ASSUME NEW a \in Addons
  PROVE  ItemSet(a) = IF a = "hcloud-ccm"
                        THEN {"crds", "talos-ccm", "hcloud-secret", "hcloud-ccm"}
                      ELSE IF a = "cert-manager"
                        THEN {"cert-manager", "cloudflare-secret", "cluster-issuer"}
                      ELSE {a}
<1>1. CASE a = "hcloud-ccm"
  <2> DEFINE q == <<"crds", "talos-ccm", "hcloud-secret", "hcloud-ccm">>
  <2>1. /\ Items(a) = q /\ DOMAIN q = {1, 2, 3, 4} /\ q[1] = "crds" /\ q[2] = "talos-ccm"
        /\ q[3] = "hcloud-secret" /\ q[4] = "hcloud-ccm"
    BY <1>1 DEF Items
  <2> HIDE DEF q
  <2> QED BY <1>1, <2>1 DEF ItemSet
<1>2. CASE a = "cert-manager"
  <2> DEFINE q == <<"cert-manager", "cloudflare-secret", "cluster-issuer">>
  <2>1. /\ Items(a) = q /\ DOMAIN q = {1, 2, 3} /\ q[1] = "cert-manager"
        /\ q[2] = "cloudflare-secret" /\ q[3] = "cluster-issuer"
    BY <1>2 DEF Items
  <2> HIDE DEF q
  <2> QED BY <1>2, <2>1 DEF ItemSet
<1>3. CASE a \notin {"hcloud-ccm", "cert-manager"}
  <2>1. Items(a) = <<a>>
    BY <1>3 DEF Items
  <2>2. DOMAIN <<a>> = {1} /\ <<a>>[1] = a
    OBVIOUS
  <2> QED BY <1>3, <2>1, <2>2 DEF ItemSet
<1> QED BY <1>1, <1>2, <1>3

\* No two addons share an item.
LEMMA ItemsApart ==
  ASSUME NEW a \in Addons, NEW b \in Addons, ItemSet(a) \cap ItemSet(b) # {}
  PROVE  a = b
<1>1. \A x \in Addons : x \notin {"crds", "talos-ccm", "hcloud-secret",
                                  "cloudflare-secret", "cluster-issuer"}
  <2>1. \A i \in 1..9 : AddonOrder[i] \notin {"crds", "talos-ccm", "hcloud-secret",
                                  "cloudflare-secret", "cluster-issuer"}
    BY DEF AddonOrder
  <2> QED BY <2>1, OrderIs DEF Addons
<1> QED BY <1>1, ItemSetsAre

\* What InstallAddon applies is the addon's own.
LEMMA InstalledAre ==
  ASSUME NEW st, NEW a \in Addons, InstallAddon(st, a)
  PROVE  installed \subseteq installed' /\ installed' \subseteq installed \cup ItemSet(a)
<1>1. ASSUME NEW n \in 0..Len(Items(a)) PROVE Prefix(Items(a), n) \subseteq ItemSet(a)
  <2>1. DOMAIN Items(a) = 1..Len(Items(a)) /\ Len(Items(a)) \in Nat
    BY ItemsAreSequences
  <2> QED BY <2>1 DEF Prefix, ItemSet
<1> QED BY <1>1 DEF InstallAddon

\* An addon is applied once Cilium runs and all the enabled ones before it are
\* there.
LEMMA NextAddonIsNext ==
  ASSUME IInv, AddonsPhase
  PROVE  \/ installed' = installed
         \/ /\ cilium = "ready"
            /\ \E i \in 1..9 :
                 /\ installed' \subseteq installed \cup ItemSet(AddonOrder[i])
                 /\ \A j \in 1..9 : j < i /\ AddonOrder[j] \in enabled =>
                      ItemSet(AddonOrder[j]) \subseteq installed
<1> DEFINE st == [mem EXCEPT !.infra = @ \cup {"network"}]
<1>1. /\ kind \in {"cli", "operator"} /\ mem \in Status /\ mem.phase = "Addons"
      /\ Fits(mem, kind, Achieved, built, installed)
  BY CurrentPhaseFits, PhasesOnPath DEF AddonsPhase, CurrentPhase
<1>2. st.addon = mem.addon
  BY <1>1 DEF Status
<1> HIDE DEF st
<1>3. cilium = "ready"
  <2>1. "CNI" \in Path!Before(kind, "Addons")
    BY <1>1, NextOnCLIPath, NextOnOperatorPath
  <2>2. "CNI" \in Achieved
    BY <1>1, <2>1 DEF Fits
  <2> QED BY <2>2 DEF Achieved
<1>4. CASE InstallNextAddon(st)
  <2>1. PICK i \in Pending(st) : /\ \A j \in Pending(st) : i <= j
                                 /\ InstallAddon(st, AddonOrder[i])
    BY <1>4 DEF InstallNextAddon
  <2>2. i \in 1..9 /\ AddonOrder[i] \in Addons
    BY OrderIs DEF Pending, Addons
  <2>3. installed' \subseteq installed \cup ItemSet(AddonOrder[i])
    BY <2>1, <2>2, InstalledAre
  <2>4. ASSUME NEW j \in 1..9, j < i, AddonOrder[j] \in enabled
        PROVE  ItemSet(AddonOrder[j]) \subseteq installed
    <3>1. mem.addon[AddonOrder[j]] = "installed"
      BY <2>1, <2>2, <2>4, <1>2, OrderIs DEF Pending
    <3>2. AddonOrder[j] \in Addons \ {"talos-backup"}
      BY <2>2, <2>4, OrderIs DEF Addons
    <3> QED BY <1>1, <3>1, <3>2 DEF Fits
  <2> QED BY <1>3, <2>2, <2>3, <2>4
<1>5. CASE UNCHANGED worldVars \/ AwaitWorkers
  BY <1>5 DEF worldVars, AwaitWorkers
<1> QED BY <1>4, <1>5 DEF AddonsPhase, LoadCredentialsFails, st

\* Only the addons' phases apply addons.
LEMMA OthersInstallNothing ==
  ASSUME [Next]_vars, ~AddonsPhase, ~ConfiguringPhase
  PROVE  installed' = installed
<1>1. CASE PhaseStep
  <2>1. \A st, steps, next : Provision(st, steps, next) => installed' = installed
    BY DEF Provision, LoadCredentialsFails, worldVars
  <2> QED BY <1>1, <2>1 DEF PhaseStep, InfrastructurePhase, ImagePhase, ComputePhase,
       BootstrapPhase, CNIPhase, AwaitCilium, RunningPhase, LoadCredentialsFails,
       worldVars
<1>2. CASE Fetch \/ UpdateStatus \/ Abort \/ CacheSync \/ CLIStep \/ CLICallFails \/ Reapply
           \/ Pause \/ Unpause \/ Gone \/ UNCHANGED vars
  BY <1>2 DEF Fetch, UpdateStatus, Abort, CacheSync, CLIStep, CLICallFails, CreateCluster,
     GetCluster, WriteFirstStatus, WaitForOperatorComplete, Reapply, Pause, Unpause, Gone,
     vars, worldVars
<1>3. CASE WorldStep \/ \E g \in Groups : NodesDown(g)
  BY <1>3 DEF WorldStep, CiliumReady, NodesUp, NodesDown
<1> QED BY <1>1, <1>2, <1>3 DEF Next, ReconcileStep

LEMMA OrderStays ==
  ASSUME Later = {}, IInv, [Next]_vars, AddonsInOrder
  PROVE  AddonsInOrder'
<1>1. Grows
  BY WorkStays
<1>2. CASE kind = "legacy"
  BY <1>1, <1>2 DEF Grows, AddonsInOrder
<1>3. CASE installed' = installed
  BY <1>1, <1>3 DEF Grows, AddonsInOrder
<1>4. CASE kind # "legacy" /\ installed' # installed
  <2>1. ~ConfiguringPhase
    BY <1>4, CurrentPhaseFits, PhasesOnPath DEF ConfiguringPhase
  <2>2. AddonsPhase
    BY <1>4, <2>1, OthersInstallNothing
  <2>3. PICK n \in 1..9 :
          /\ installed' \subseteq installed \cup ItemSet(AddonOrder[n])
          /\ \A j \in 1..9 : j < n /\ AddonOrder[j] \in enabled =>
               ItemSet(AddonOrder[j]) \subseteq installed
    BY <1>4, <2>2, NextAddonIsNext
  <2>4. cilium' = "ready"
    BY <1>1, <1>4, <2>2, NextAddonIsNext DEF Grows
  <2>5. ASSUME NEW i \in 1..9, NEW j \in 1..9, i < j,
               AddonOrder[i] \in enabled, AddonOrder[j] \in enabled,
               ItemSet(AddonOrder[j]) \cap installed' # {}
        PROVE  ItemSet(AddonOrder[i]) \subseteq installed
    <3>1. CASE ItemSet(AddonOrder[j]) \cap installed # {}
      BY <1>4, <2>5, <3>1, OrderIs DEF AddonsInOrder
    <3>2. CASE ItemSet(AddonOrder[j]) \cap installed = {}
      <4>1. ItemSet(AddonOrder[j]) \cap ItemSet(AddonOrder[n]) # {}
        BY <2>3, <2>5, <3>2
      <4>2. j = n
        BY <4>1, ItemsApart, OrderIs DEF Addons
      <4> QED BY <2>3, <2>5, <4>2
    <3> QED BY <3>1, <3>2
  <2> QED BY <1>1, <2>4, <2>5, OrderIs DEF Grows, AddonsInOrder
<1> QED BY <1>2, <1>3, <1>4

\* Addons are applied in EnabledSteps' order, none before Cilium runs
\* (installNextAddon, reconcileCNIPhase): whichever status a reconcile starts
\* from, however often an addon fails and whatever prefix of it that leaves.
THEOREM AddonsOrderKept == ASSUME Later = {} PROVE Spec => []AddonsInOrder
<1>1. Init => AddonsInOrder
  BY DEF Init, AddonsInOrder
<1>2. IInv /\ AddonsInOrder /\ [Next]_vars => AddonsInOrder'
  BY OrderStays
<1> QED BY <1>1, <1>2, Invariance, PTL DEF Spec

-----------------------------------------------------------------------------
(***************************************************************************)
(* The end of the command line's wait.                                     *)
(***************************************************************************)

\* What a copy of the status says of the node groups: those it shows Ready have
\* been asked for, and it shows a cluster Running only when all of them have.
Scaled(st) ==
  /\ st.ready \subseteq asked \cup up
  /\ st.cluster = "Running" => asked \cup up = Groups

\* Every copy that may be written one day to an object of the command line's.
GroupsHold == kind = "cli" => Scaled(api) /\ Scaled(cache) /\ Scaled(mem)

\* A node group is asked for once and for all.
AskedStays == asked \cup up \subseteq asked' \cup up'

\* Groups asked for once stay so, and the copy stays true of them.
LEMMA ScaledStays ==
  ASSUME NEW st, Scaled(st), AskedStays, asked' \cup up' \subseteq Groups
  PROVE  /\ st.ready \subseteq asked' \cup up'
         /\ st.cluster = "Running" => asked' \cup up' = Groups
BY DEF Scaled, AskedStays

\* A copy without a status claims nothing.
LEMMA NoStatusScaled == NoStatus.ready = {} /\ NoStatus.cluster = "None"
BY DEF NoStatus

\* A handler that returns writes Running only when every group is Ready.
LEMMA ReturnScaled ==
  ASSUME NEW st \in Status, Return(st)
  PROVE  /\ mem'.ready = st.ready
         /\ mem'.cluster = "Running" => mem'.ready = Groups
         /\ UNCHANGED <<kind, api, cache>>
<1>1. mem' = UpdateClusterPhase(st) /\ UNCHANGED <<kind, api, cache>>
  BY DEF Return, specVars, cacheVars
<1> QED BY <1>1 DEF UpdateClusterPhase, Status

\* What a phase handler does to the copy: the groups it shows Ready stay, and
\* Running it is only as before, or for all of them.
MemScaled ==
  /\ mem'.ready = mem.ready
  /\ mem'.cluster = "Running" => mem'.ready = Groups \/ mem.cluster = "Running"
  /\ UNCHANGED <<kind, api, cache>>

\* A handler that returns with the groups it was given keeps to that.
LEMMA ReturnedScaled ==
  ASSUME NEW st \in Status, Return(st), st.ready = mem.ready
  PROVE  MemScaled
BY ReturnScaled DEF MemScaled

\* Provision never touches the groups, however far its steps get.
LEMMA ProvisionScaled ==
  ASSUME NEW st \in Status, st.ready = mem.ready, NEW steps, NEW next \in Stages,
         Provision(st, steps, next)
  PROVE  MemScaled /\ UNCHANGED <<asked, up>>
<1> DEFINE known == DiscoverInfrastructure(st)
           listed == UpdateNodeStatuses(known, steps)
           end == [listed EXCEPT !.phase = next,
             !.infra = @ \cup (Prefix(steps, Len(steps)) \cap {"network", "firewall"})]
<1>1. Return(st) \/ Return(known) \/ Return(end)
  BY DEF Provision, LoadCredentialsFails
<1>2. UNCHANGED <<asked, up>> BY DEF Provision, LoadCredentialsFails, worldVars
<1>3. known \in Status /\ known.ready = st.ready
  BY DEF DiscoverInfrastructure, Status
<1> HIDE DEF known
<1>4. listed \in Status /\ listed.ready = st.ready
  BY <1>3 DEF UpdateNodeStatuses, Status
<1> HIDE DEF listed
<1>5. end \in Status /\ end.ready = st.ready
  <2>1. next \in Phases BY DEF Phases
  <2>2. Prefix(steps, Len(steps)) \cap {"network", "firewall"} \subseteq InfraIDs
    BY DEF InfraIDs
  <2> QED BY <1>4, <2>1, <2>2 DEF Status
<1> HIDE DEF end
<1> QED BY <1>1, <1>2, <1>3, <1>5, ReturnedScaled

\* Each phase handler, whether it fails early or returns in full.
LEMMA PhaseStepScaled ==
  ASSUME IInv, PhaseStep
  PROVE  MemScaled /\ AskedStays
<1>1. mem \in Status BY DEF IInv, TypeOK
<1>2. ASSUME NEW st \in Status, st.ready = mem.ready, Return(st), UNCHANGED worldVars
      PROVE  MemScaled /\ AskedStays
  BY <1>2, ReturnedScaled DEF AskedStays, worldVars
<1>3. ASSUME NEW st \in Status, st.ready = mem.ready, NEW steps, NEW next \in Stages,
             Provision(st, steps, next)
      PROVE  MemScaled /\ AskedStays
  BY <1>3, ProvisionScaled DEF AskedStays
<1>4. CASE InfrastructurePhase
  <2> DEFINE st == [mem EXCEPT !.phase = "Infrastructure", !.cluster = "Provisioning"]
             end == [st EXCEPT !.phase = "Image", !.endpoint = TRUE]
  <2>1. (Return(end) /\ UNCHANGED worldVars) \/ Provision(st, InfrastructureSteps, "Image")
    BY <1>4 DEF InfrastructurePhase
  <2>2. st \in Status /\ st.ready = mem.ready
    BY <1>1 DEF Status, Phases, Stages, ClusterPhases
  <2>3. end \in Status /\ end.ready = mem.ready
    BY <1>1 DEF Status, Phases, Stages, ClusterPhases
  <2>4. "Image" \in Stages BY DEF Stages
  <2> HIDE DEF st, end
  <2> QED BY <2>1, <2>2, <2>3, <2>4, <1>2, <1>3
<1>5. CASE ImagePhase
  BY <1>1, <1>3, <1>5 DEF ImagePhase, Stages
<1>6. CASE ComputePhase
  BY <1>1, <1>3, <1>6 DEF ComputePhase, Stages
<1>7. CASE BootstrapPhase
  <2>1. \/ \E steps : Provision(mem, steps, "CNI")
        \/ Return(DiscoverInfrastructure(mem)) /\ UNCHANGED worldVars
    BY <1>7 DEF BootstrapPhase
  <2>2. DiscoverInfrastructure(mem) \in Status /\ DiscoverInfrastructure(mem).ready = mem.ready
    BY <1>1 DEF DiscoverInfrastructure, Status
  <2> QED BY <1>1, <1>2, <1>3, <2>1, <2>2 DEF Stages
<1>8. CASE CNIPhase
  <2> DEFINE st == [mem EXCEPT !.phase = "CNI"]
  <2>1. \/ Return(st) /\ UNCHANGED worldVars
        \/ /\ mem' = [st EXCEPT !.addon["cilium"] = "installing"]
           /\ UNCHANGED <<kind, api, cache, asked, up>>
    BY <1>8 DEF CNIPhase, LoadCredentialsFails, specVars, cacheVars
  <2>2. st \in Status /\ st.ready = mem.ready /\ st.cluster = mem.cluster
    BY <1>1 DEF Status, Phases, Stages
  <2>3. CASE mem' = [st EXCEPT !.addon["cilium"] = "installing"]
             /\ UNCHANGED <<kind, api, cache, asked, up>>
    <3>1. mem'.ready = mem.ready /\ mem'.cluster = mem.cluster BY <2>2, <2>3 DEF Status
    <3> QED BY <2>3, <3>1 DEF MemScaled, AskedStays
  <2> HIDE DEF st
  <2> QED BY <2>1, <2>2, <2>3, <1>2
<1>9. CASE AwaitCilium
  <2> DEFINE next == IF CLIBootstrapped THEN "Compute" ELSE "Addons"
             end == [mem EXCEPT !.addon["cilium"] = "installed", !.phase = next]
  <2>1. (Return(end) \/ Return(mem)) /\ UNCHANGED worldVars
    BY <1>9 DEF AwaitCilium
  <2>2. next \in Phases BY DEF Phases, Stages
  <2> HIDE DEF next
  <2>3. end \in Status /\ end.ready = mem.ready BY <1>1, <2>2 DEF Status
  <2> HIDE DEF end
  <2> QED BY <2>1, <2>3, <1>1, <1>2
<1>10. CASE AddonsPhase
  <2> DEFINE st == [mem EXCEPT !.infra = @ \cup {"network"}]
             end == [st EXCEPT !.phase = "Complete", !.cluster = "Running"]
             one(a, s) == [st EXCEPT !.addon[a] = s]
  <2>1. \/ AwaitWorkers
        \/ Return(mem) /\ UNCHANGED worldVars
        \/ Return(end) /\ UNCHANGED worldVars
        \/ InstallNextAddon(st) /\ UNCHANGED <<asked, up>>
    BY <1>10 DEF AddonsPhase, LoadCredentialsFails
  <2>2. st \in Status /\ st.ready = mem.ready BY <1>1 DEF Status, InfraIDs
  <2>3. end \in Status /\ end.ready = mem.ready
    BY <1>1 DEF Status, Phases, ClusterPhases, InfraIDs
  <2>4. \A a \in Addons, s \in {"installed", "failed"} :
          one(a, s) \in Status /\ one(a, s).ready = mem.ready
    BY <2>2 DEF Status
  <2>5. CASE AwaitWorkers
    BY <1>1, <2>5, ReturnedScaled DEF AwaitWorkers, AskedStays
  <2>6. CASE InstallNextAddon(st) /\ UNCHANGED <<asked, up>>
    <3>1. PICK a \in Addons : InstallAddon(st, a)
      <4> HIDE DEF st
      <4> QED BY <2>6 DEF InstallNextAddon, Pending, Addons
    <3>2. Return(one(a, "installed")) \/ Return(one(a, "failed"))
      BY <3>1 DEF InstallAddon
    <3> HIDE DEF one
    <3> QED BY <2>4, <2>6, <3>2, ReturnedScaled DEF AskedStays
  <2> HIDE DEF end, st, one
  <2> QED BY <2>1, <2>3, <2>5, <2>6, <1>1, <1>2
<1>11. CASE ConfiguringPhase
  <2> DEFINE end == [mem EXCEPT !.phase = "Complete", !.cluster = "Running"]
  <2>1. (Return(end) \/ Return(mem)) /\ UNCHANGED <<asked, up>>
    BY <1>11 DEF ConfiguringPhase
  <2>2. end \in Status /\ end.ready = mem.ready
    BY <1>1 DEF Status, Phases, ClusterPhases
  <2> HIDE DEF end
  <2> QED BY <1>1, <2>1, <2>2, ReturnedScaled DEF AskedStays
<1>12. CASE RunningPhase
  <2>1. PICK c \in {mem.cluster} \cup {"Healing" : g \in Groups \ mem.ready} :
          Return([mem EXCEPT !.cluster = c])
    BY <1>12 DEF RunningPhase
  <2>2. c \in ClusterPhases BY <1>1 DEF Status, ClusterPhases
  <2> DEFINE end == [mem EXCEPT !.cluster = c]
  <2>3. end \in Status /\ end.ready = mem.ready BY <1>1, <2>2 DEF Status
  <2>4. asked \subseteq asked' /\ up' = up BY <1>12 DEF RunningPhase
  <2>5. Return(end) BY <2>1
  <2> HIDE DEF end
  <2> QED BY <2>3, <2>4, <2>5, ReturnedScaled DEF AskedStays
<1> QED
  BY <1>4, <1>5, <1>6, <1>7, <1>8, <1>9, <1>10, <1>11, <1>12 DEF PhaseStep

\* Whoever writes, from whichever copy, each copy stays true of the groups.
LEMMA GroupsKept ==
  ASSUME Later = {}, IInv, IInv', GroupsHold, [Next]_vars
  PROVE  GroupsHold' /\ AskedStays
<1> SUFFICES (kind = "cli" => Scaled(api)' /\ Scaled(cache)' /\ Scaled(mem)') /\ AskedStays
  <2>1. kind' = kind BY WorkStays DEF Grows
  <2> QED BY <2>1 DEF GroupsHold
<1>1. /\ asked \cup up \subseteq Groups /\ asked' \cup up' \subseteq Groups
      /\ mem \in Status /\ api \in Status /\ cache \in Status
  BY DEF IInv, TypeOK
<1>2. ASSUME AskedStays, kind = "cli",
             api' \in {api, mem, NoStatus, FirstStatus}, cache' \in {cache, api},
             \/ mem' \in {mem, NoStatus}
             \/ MemScaled
             \/ /\ mem'.ready \in {mem.ready, cache.ready, up}
                /\ mem'.cluster \in {mem.cluster, cache.cluster}
      PROVE  Scaled(api)' /\ Scaled(cache)' /\ Scaled(mem)'
  <2>1. Scaled(api) /\ Scaled(cache) /\ Scaled(mem) BY <1>2 DEF GroupsHold
  <2>2. \A st \in {api, cache, mem} :
          /\ st.ready \subseteq asked' \cup up'
          /\ st.cluster = "Running" => asked' \cup up' = Groups
    BY <1>1, <1>2, <2>1, ScaledStays
  <2>3. FirstStatus.ready = asked \cup up /\ FirstStatus.cluster = "Provisioning"
    BY DEF FirstStatus, NoStatus
  <2>4. api'.ready \subseteq asked' \cup up' /\ (api'.cluster = "Running" => asked' \cup up' = Groups)
    BY <1>2, <2>2, <2>3, NoStatusScaled DEF AskedStays
  <2>5. cache'.ready \subseteq asked' \cup up'
        /\ (cache'.cluster = "Running" => asked' \cup up' = Groups)
    BY <1>2, <2>2
  <2>6. mem'.ready \subseteq asked' \cup up'
        /\ (mem'.cluster = "Running" => asked' \cup up' = Groups)
    <3>1. CASE mem' \in {mem, NoStatus} BY <2>2, <3>1, NoStatusScaled
    <3>2. CASE MemScaled
      <4>1. mem'.ready \subseteq asked' \cup up' BY <2>2, <3>2 DEF MemScaled
      <4> QED BY <1>1, <2>2, <3>2, <4>1 DEF MemScaled
    <3>3. CASE /\ mem'.ready \in {mem.ready, cache.ready, up}
               /\ mem'.cluster \in {mem.cluster, cache.cluster}
      BY <1>2, <2>2, <3>3 DEF AskedStays
    <3> QED BY <1>2, <3>1, <3>2, <3>3
  <2> QED BY <2>4, <2>5, <2>6 DEF Scaled
<1>3. CASE PhaseStep
  <2>1. MemScaled /\ AskedStays BY <1>3, PhaseStepScaled
  <2>2. api' = api /\ cache' = cache BY <2>1 DEF MemScaled
  <2> QED BY <1>2, <2>1, <2>2
<1>4. CASE Fetch
  <2>1. UNCHANGED <<kind, api, cache, asked, up>>
    BY <1>4 DEF Fetch, specVars, cacheVars, worldVars
  <2>2. kind = "cli" => mem'.ready \in {cache.ready, up} /\ mem'.cluster = cache.cluster
    <3> SUFFICES ASSUME kind = "cli"
                 PROVE  mem'.ready \in {cache.ready, up} /\ mem'.cluster = cache.cluster
      OBVIOUS
    <3>1. mem' = [cache EXCEPT !.nodes = "listed", !.ready = up] \/ mem' = cache
      BY <1>4 DEF Fetch
    <3> QED BY <1>1, <3>1 DEF Status
  <2> QED BY <1>2, <2>1, <2>2 DEF AskedStays
<1>5. CASE UpdateStatus
  <2>1. UNCHANGED <<asked, up>> /\ cache' = cache /\ api' \in {api, mem}
    BY <1>5 DEF UpdateStatus, WriteAPI, cacheVars, worldVars
  <2>2. mem' \in {mem, NoStatus, [mem EXCEPT !.addon = cache.addon]}
    BY <1>5 DEF UpdateStatus, Forget
  <2>3. mem' \in {mem, NoStatus} \/ (mem'.ready = mem.ready /\ mem'.cluster = mem.cluster)
    BY <1>1, <2>2 DEF Status
  <2> QED BY <1>2, <2>1, <2>3 DEF AskedStays
<1>6. CASE Abort \/ CacheSync \/ CLIStep \/ CLICallFails \/ Reapply \/ Pause \/ Unpause
            \/ Gone \/ UNCHANGED vars
  <2>1. UNCHANGED <<asked, up>> /\ mem' \in {mem, NoStatus}
    BY <1>6 DEF Abort, Forget, CacheSync, CLIStep, CLICallFails, CreateCluster, GetCluster,
       WriteFirstStatus, WaitForOperatorComplete, Reapply, Pause, Unpause, Gone, vars, worldVars,
       memVars
  <2>2. cache' \in {cache, api} /\ api' \in {api, NoStatus, FirstStatus}
    BY <1>6 DEF Abort, CacheSync, CLIStep, CLICallFails, CreateCluster, GetCluster,
       WriteFirstStatus, WaitForOperatorComplete, Reapply, Pause, Unpause, Gone, vars,
       cacheVars, WriteAPI
  <2> QED BY <1>2, <2>1, <2>2 DEF AskedStays
<1>7. CASE WorldStep \/ \E g \in Groups : NodesDown(g)
  <2>1. UNCHANGED <<api, cache, mem>>
    BY <1>7 DEF WorldStep, CiliumReady, NodesUp, NodesDown, cacheVars, memVars
  <2>2. AskedStays
    BY <1>7 DEF WorldStep, CiliumReady, NodesUp, NodesDown, AskedStays
  <2> QED BY <1>2, <2>1, <2>2
<1> QED BY <1>3, <1>4, <1>5, <1>6, <1>7 DEF Next, ReconcileStep

\* Before anyone writes nothing is claimed.
LEMMA InitGroups == Init => GroupsHold
<1> SUFFICES ASSUME Init, kind = "cli" PROVE Scaled(api) /\ Scaled(cache) /\ Scaled(mem)
  BY DEF GroupsHold
<1>1. api = [NoStatus EXCEPT !.phase = "Absent"] /\ cache = api /\ mem = NoStatus
  BY DEF Init
<1>2. api.ready = {} /\ api.cluster = "None" BY <1>1 DEF NoStatus
<1> QED BY <1>1, <1>2, NoStatusScaled DEF Scaled

\* When the command line's wait returns, every enabled addon (but a backup that
\* was skipped) is on the cluster, Cilium runs and every node group has been
\* scaled to its size: waitForOperatorComplete is not let go by a status that an
\* old copy, a retry or the health check's count wrote too early.
THEOREM WaitIsHonest == ASSUME Later = {} PROVE Spec => WaitReturnsWhenDone
<1>1. IInv /\ IInv' /\ GroupsHold /\ [Next]_vars => GroupsHold'
  BY GroupsKept
<1>2. IInv /\ GroupsHold /\ [Next]_vars
        => [cli = "wait" /\ cli' = "done" =>
              /\ AddonsInstalled /\ cilium = "ready"
              /\ asked \cup up = Groups]_vars
  <2> SUFFICES ASSUME IInv, GroupsHold, [Next]_vars, cli = "wait", cli' = "done"
               PROVE  AddonsInstalled /\ cilium = "ready" /\ asked \cup up = Groups
    OBVIOUS
  <2>1. WaitForOperatorComplete
    <3>1. ~(PhaseStep \/ Fetch \/ UpdateStatus \/ Abort \/ CacheSync)
      <4>1. PhaseStep => UNCHANGED cli
        <5>1. \A st : Return(st) => UNCHANGED cli BY DEF Return, cliVars
        <5>2. \A st, steps, next : Provision(st, steps, next) => UNCHANGED cli
          BY <5>1 DEF Provision, LoadCredentialsFails
        <5>3. InfrastructurePhase \/ ImagePhase \/ ComputePhase \/ BootstrapPhase => UNCHANGED cli
          BY <5>1, <5>2 DEF InfrastructurePhase, ImagePhase, ComputePhase, BootstrapPhase
        <5>4. CNIPhase \/ AwaitCilium => UNCHANGED cli
          BY <5>1 DEF CNIPhase, AwaitCilium, LoadCredentialsFails, cliVars
        <5>5. AddonsPhase => UNCHANGED cli
          BY <5>1 DEF AddonsPhase, AwaitWorkers, LoadCredentialsFails, InstallNextAddon,
             InstallAddon
        <5>6. ConfiguringPhase \/ RunningPhase => UNCHANGED cli
          BY <5>1 DEF ConfiguringPhase, RunningPhase
        <5> QED BY <5>3, <5>4, <5>5, <5>6 DEF PhaseStep
      <4>2. Fetch \/ UpdateStatus \/ Abort \/ CacheSync => UNCHANGED cli
        BY DEF Fetch, UpdateStatus, Abort, CacheSync, cliVars
      <4> QED BY <4>1, <4>2
    <3>2. ~(CreateCluster \/ GetCluster \/ WriteFirstStatus \/ CLICallFails)
      BY DEF CreateCluster, GetCluster, WriteFirstStatus, CLICallFails
    <3>3. ~(Reapply \/ Pause \/ Unpause \/ Gone \/ UNCHANGED vars)
      BY DEF Reapply, Pause, Unpause, Gone, vars, cliVars
    <3>4. ~(WorldStep \/ \E g \in Groups : NodesDown(g))
      BY DEF WorldStep, CiliumReady, NodesUp, NodesDown, cliVars
    <3> QED BY <3>1, <3>2, <3>3, <3>4 DEF Next, ReconcileStep, CLIStep
  <2>2. api.phase = "Complete" /\ api.cluster = "Running"
    BY <2>1 DEF WaitForOperatorComplete
  <2>3. kind = "cli"
    BY DEF IInv, CLIBuilt
  <2>4. {"CNI", "Compute", "Addons"} \subseteq Achieved
    BY <2>2, <2>3, NextOnCLIPath DEF IInv, CopiesFit, Fits
  <2>5. AddonsInstalled /\ cilium = "ready"
    BY <2>4 DEF Achieved
  <2>6. asked \cup up = Groups
    BY <2>2, <2>3 DEF GroupsHold, Scaled
  <2> QED BY <2>5, <2>6
<1> QED BY <1>1, <1>2, InitGroups, Invariance, PTL DEF Spec, WaitReturnsWhenDone

-----------------------------------------------------------------------------
(***************************************************************************)
(* The types, whatever later applies enable.                               *)
(***************************************************************************)

\* A handler that returns a status leaves the types as they are, where what it
\* did to the world has its own.
LEMMA ReturnTyped ==
  ASSUME TypeOK, NEW st \in Status, Return(st), WorldOK'
  PROVE  TypeOK'
<1>1. /\ mem' = UpdateClusterPhase(st) /\ pc' = "update" /\ tries' = 0
      /\ UNCHANGED <<kind, enabled, paused, api, cache, cacheFresh, memFresh, cli,
                     cliFresh, reapplies>>
  BY DEF Return, specVars, cacheVars, cliVars
<1>2. mem' \in Status BY <1>1, UpdateClusterPhaseKeeps
<1> QED BY <1>1, <1>2 DEF TypeOK, WorldOK

\* The world, as the types have it.
LEMMA WorldTyped == ASSUME TypeOK PROVE WorldOK
BY DEF TypeOK, WorldOK

\* A handler that only returns a status.
LEMMA ReturnOnlyTyped ==
  ASSUME TypeOK, NEW st \in Status, Return(st), UNCHANGED worldVars,
         Fails \/ UNCHANGED faults
  PROVE  TypeOK'
<1>1. faults' \in 0..MaxFaults BY FailsCounts DEF TypeOK
<1>2. WorldOK' BY <1>1, WorldTyped DEF WorldOK, worldVars
<1> QED BY <1>2, ReturnTyped

\* Provision, wherever a failing step stops it.
LEMMA ProvisionTyped ==
  ASSUME TypeOK, NEW st \in Status, NEW steps, Orderly(steps), NEW next \in Stages,
         Provision(st, steps, next)
  PROVE  TypeOK'
<1> DEFINE known == DiscoverInfrastructure(st)
           listed == UpdateNodeStatuses(known, steps)
           end == [listed EXCEPT !.phase = next,
             !.infra = @ \cup (Prefix(steps, Len(steps)) \cap {"network", "firewall"})]
<1>1. /\ Return(st) \/ Return(known) \/ Return(end)
      /\ Fails \/ UNCHANGED faults
      /\ UNCHANGED <<installed, cilium, asked, up>>
      /\ built' = built \/ \E n \in 0..Len(steps) : built' = built \cup Prefix(steps, n)
  <2>1. Len(steps) \in 0..Len(steps) BY DEF Orderly
  <2> QED BY <2>1 DEF Provision, LoadCredentialsFails, worldVars
<1>2. known \in Status BY DEF DiscoverInfrastructure, Status
<1> HIDE DEF known
<1>3. listed \in Status BY <1>2 DEF UpdateNodeStatuses, Status
<1> HIDE DEF listed
<1>4. end \in Status
  <2>1. next \in Phases BY DEF Phases
  <2>2. Prefix(steps, Len(steps)) \cap {"network", "firewall"} \subseteq InfraIDs
    BY DEF InfraIDs
  <2> QED BY <1>3, <2>1, <2>2 DEF Status
<1> HIDE DEF end
<1>5. WorldOK'
  <2>1. faults' \in 0..MaxFaults BY <1>1, FailsCounts DEF TypeOK
  <2>2. built' \subseteq Resources BY <1>1 DEF Orderly, TypeOK
  <2> QED BY <1>1, <2>1, <2>2 DEF WorldOK, TypeOK
<1> QED BY <1>1, <1>2, <1>4, <1>5, ReturnTyped

\* An addon's installation, or the wait for it.
LEMMA InstallAddonTyped ==
  ASSUME TypeOK, NEW st \in Status, NEW a \in Addons, InstallAddon(st, a),
         UNCHANGED <<built, cilium, asked, up>>
  PROVE  TypeOK'
<1> DEFINE one(s) == [st EXCEPT !.addon[a] = s]
<1>1. one("installed") \in Status /\ one("failed") \in Status BY DEF Status
<1>2. Return(one("installed")) \/ Return(one("failed")) BY DEF InstallAddon
<1>3. faults' \in 0..MaxFaults BY FailsCounts DEF InstallAddon, TypeOK
<1>4. ASSUME NEW n \in 0..Len(Items(a)) PROVE Prefix(Items(a), n) \subseteq AllItems
  <2>1. DOMAIN Items(a) = 1..Len(Items(a)) /\ Len(Items(a)) \in Nat
    BY ItemsAreSequences
  <2> QED BY <2>1, ItemsAreItems DEF Prefix, ItemSet
<1>5. installed' \subseteq AllItems
  <2>1. \/ installed' = installed \cup ItemSet(a) \/ installed' = installed
        \/ \E n \in 0..Len(Items(a)) : installed' = installed \cup Prefix(Items(a), n)
    BY DEF InstallAddon
  <2> QED BY <1>4, <2>1, ItemsAreItems DEF TypeOK
<1>6. WorldOK' BY <1>3, <1>5 DEF WorldOK, TypeOK
<1> HIDE DEF one
<1> QED BY <1>1, <1>2, <1>6, ReturnTyped

\* Each phase handler in turn.
LEMMA PhaseStepTyped == ASSUME TypeOK, PhaseStep PROVE TypeOK'
<1>1. mem \in Status BY DEF TypeOK
<1>2. CASE InfrastructurePhase
  <2> DEFINE st == [mem EXCEPT !.phase = "Infrastructure", !.cluster = "Provisioning"]
             end == [st EXCEPT !.phase = "Image", !.endpoint = TRUE]
  <2>1. \/ Return(end) /\ UNCHANGED <<worldVars, faults>>
        \/ Provision(st, InfrastructureSteps, "Image")
    BY <1>2 DEF InfrastructurePhase
  <2>2. st \in Status /\ end \in Status
    BY <1>1 DEF Status, Phases, Stages, ClusterPhases
  <2>3. "Image" \in Stages BY DEF Stages
  <2> HIDE DEF st, end
  <2> QED BY <2>1, <2>2, <2>3, ReturnOnlyTyped, ProvisionTyped, StepsAreOrderly
<1>3. CASE ImagePhase
  BY <1>1, <1>3, ProvisionTyped, StepsAreOrderly DEF ImagePhase, Stages
<1>4. CASE ComputePhase
  BY <1>1, <1>4, ProvisionTyped, StepsAreOrderly DEF ComputePhase, Stages
<1>5. CASE BootstrapPhase
  <2>1. \/ Provision(mem, <<>>, "CNI") \/ Provision(mem, BootstrapSteps, "CNI")
        \/ Return(DiscoverInfrastructure(mem)) /\ UNCHANGED <<worldVars, faults>>
    BY <1>5 DEF BootstrapPhase
  <2>2. DiscoverInfrastructure(mem) \in Status
    BY <1>1 DEF DiscoverInfrastructure, Status
  <2>3. "CNI" \in Stages BY DEF Stages
  <2> QED BY <1>1, <2>1, <2>2, <2>3, ReturnOnlyTyped, ProvisionTyped, StepsAreOrderly
<1>6. CASE CNIPhase
  <2> DEFINE st == [mem EXCEPT !.phase = "CNI"]
             on == [st EXCEPT !.addon["cilium"] = "installing"]
  <2>1. \/ Return(st) /\ UNCHANGED worldVars /\ (Fails \/ UNCHANGED faults)
        \/ /\ cilium' = IF cilium = "absent" THEN "installed" ELSE cilium
           /\ mem' = on /\ pc' = "cilium"
           /\ UNCHANGED <<specVars, api, cacheVars, memFresh, tries, built, installed,
                          asked, up, cliVars, faults>>
    BY <1>6 DEF CNIPhase, LoadCredentialsFails
  <2>2. st \in Status /\ on \in Status BY <1>1 DEF Status, Phases, Stages
  <2> HIDE DEF st, on
  <2>3. CASE /\ cilium' = IF cilium = "absent" THEN "installed" ELSE cilium
             /\ mem' = on /\ pc' = "cilium"
             /\ UNCHANGED <<specVars, api, cacheVars, memFresh, tries, built, installed,
                            asked, up, cliVars, faults>>
    BY <2>2, <2>3 DEF TypeOK, specVars, cacheVars, cliVars
  <2> QED BY <2>1, <2>2, <2>3, ReturnOnlyTyped
<1>7. CASE AwaitCilium
  <2> DEFINE next == IF CLIBootstrapped THEN "Compute" ELSE "Addons"
             end == [mem EXCEPT !.addon["cilium"] = "installed", !.phase = next]
  <2>1. (Return(end) \/ Return(mem)) /\ UNCHANGED <<worldVars, faults>>
    BY <1>7 DEF AwaitCilium
  <2>2. next \in Phases BY DEF Phases, Stages
  <2> HIDE DEF next
  <2>3. end \in Status BY <1>1, <2>2 DEF Status
  <2> HIDE DEF end
  <2> QED BY <1>1, <2>1, <2>3, ReturnOnlyTyped
<1>8. CASE AddonsPhase
  <2> DEFINE st == [mem EXCEPT !.infra = @ \cup {"network"}]
             end == [st EXCEPT !.phase = "Complete", !.cluster = "Running"]
  <2>1. \/ AwaitWorkers
        \/ Return(mem) /\ UNCHANGED worldVars /\ (Fails \/ UNCHANGED faults)
        \/ Return(end) /\ UNCHANGED <<worldVars, faults>>
        \/ InstallNextAddon(st) /\ UNCHANGED <<built, cilium, asked, up>>
    BY <1>8 DEF AddonsPhase, LoadCredentialsFails
  <2>2. st \in Status BY <1>1 DEF Status, InfraIDs
  <2>3. end \in Status BY <1>1 DEF Status, Phases, ClusterPhases, InfraIDs
  <2> HIDE DEF st, end
  <2>4. CASE AwaitWorkers
    <3>1. faults' \in 0..MaxFaults BY <2>4, FailsCounts DEF AwaitWorkers, TypeOK
    <3>2. WorldOK' BY <2>4, <3>1 DEF AwaitWorkers, WorldOK, TypeOK, Groups
    <3> QED BY <1>1, <2>4, <3>2, ReturnTyped DEF AwaitWorkers
  <2>5. CASE InstallNextAddon(st) /\ UNCHANGED <<built, cilium, asked, up>>
    <3>1. PICK a \in Addons : InstallAddon(st, a)
      BY <2>5 DEF InstallNextAddon, Pending, Addons
    <3> QED BY <2>2, <2>5, <3>1, InstallAddonTyped
  <2> QED BY <1>1, <2>1, <2>3, <2>4, <2>5, ReturnOnlyTyped
<1>9. CASE ConfiguringPhase
  <2> DEFINE end == [mem EXCEPT !.phase = "Complete", !.cluster = "Running"]
  <2>1. PICK k \in 0..Len(AddonOrder), backup \in BOOLEAN :
          /\ installed' = installed \cup AppliedThrough(k, backup)
          /\ cilium' = IF cilium = "absent" /\ k > 0 THEN "installed" ELSE cilium
          /\ Return(end) \/ Return(mem)
          /\ Fails \/ UNCHANGED faults
          /\ UNCHANGED <<built, asked, up>>
    BY <1>9 DEF ConfiguringPhase
  <2>2. Len(AddonOrder) = 9 /\ DOMAIN AddonOrder = 1..9 BY DEF AddonOrder
  <2>3. AppliedThrough(k, backup) \subseteq AllItems
    BY <2>2 DEF AppliedThrough, AllItems, Addons
  <2>4. end \in Status BY <1>1 DEF Status, Phases, ClusterPhases
  <2>5. faults' \in 0..MaxFaults BY <2>1, FailsCounts DEF TypeOK
  <2>6. WorldOK' BY <2>1, <2>3, <2>5 DEF WorldOK, TypeOK
  <2> HIDE DEF end
  <2> QED BY <1>1, <2>1, <2>4, <2>6, ReturnTyped
<1>10. CASE RunningPhase
  <2>1. PICK c \in {mem.cluster} \cup {"Healing" : g \in Groups \ mem.ready} :
          Return([mem EXCEPT !.cluster = c])
    BY <1>10 DEF RunningPhase
  <2>2. c \in ClusterPhases BY <1>1 DEF Status, ClusterPhases
  <2>3. [mem EXCEPT !.cluster = c] \in Status BY <1>1, <2>2 DEF Status
  <2>4. faults' \in 0..MaxFaults BY <1>10, FailsCounts DEF RunningPhase, TypeOK
  <2>5. WorldOK' BY <1>10, <2>4 DEF RunningPhase, WorldOK, TypeOK
  <2> QED BY <2>1, <2>3, <2>5, ReturnTyped
<1> QED
  BY <1>2, <1>3, <1>4, <1>5, <1>6, <1>7, <1>8, <1>9, <1>10 DEF PhaseStep

\* No step leaves the types, an apply that enables more addons among them.
LEMMA TypeKept ==
  ASSUME TypeOK, [Next]_vars
  PROVE  TypeOK'
<1>1. NoStatus \in Status
  BY DEF NoStatus, Status, Phases, ClusterPhases
<1>2. FirstStatus \in Status
  BY DEF FirstStatus, NoStatus, Status, Phases, Stages, ClusterPhases, TypeOK
<1>3. ASSUME Fails \/ UNCHANGED faults PROVE faults' \in 0..MaxFaults
  BY <1>3, FailsCounts DEF TypeOK
<1>4. CASE PhaseStep
  BY <1>4, PhaseStepTyped
<1>5. CASE Fetch
  <2>1. mem' \in Status
    <3>1. \/ mem' = cache
          \/ \E r \in SUBSET Groups : mem' = [cache EXCEPT !.nodes = "listed", !.ready = r]
      BY <1>5 DEF Fetch, TypeOK
    <3> QED BY <3>1 DEF Status, TypeOK
  <2>2. Fails \/ UNCHANGED faults BY <1>5 DEF Fetch
  <2>3. /\ UNCHANGED <<kind, enabled, paused, api, cache, cacheFresh, tries, built, installed,
                       cilium, asked, up, cli, cliFresh, reapplies>>
        /\ pc' = "phase" /\ memFresh' = cacheFresh
    BY <1>5 DEF Fetch, specVars, cacheVars, worldVars, cliVars
  <2>4. faults' \in 0..MaxFaults BY <1>3, <2>2
  <2> QED BY <2>1, <2>3, <2>4 DEF TypeOK
<1>6. CASE UpdateStatus
  <2>1. /\ UNCHANGED <<kind, enabled, paused, cache, worldVars, cli, reapplies, faults>>
        /\ api' \in {api, mem} /\ cacheFresh' \in {cacheFresh, FALSE}
        /\ memFresh' \in {memFresh, cacheFresh, FALSE} /\ cliFresh' \in {cliFresh, FALSE}
        /\ pc' \in {"idle", "update"}
    BY <1>6 DEF UpdateStatus, Forget, WriteAPI, specVars, cacheVars
  <2>2. tries' \in 0..2
    <3>1. tries \in 0..2 BY DEF TypeOK
    <3>2. tries' = 0 \/ (tries < 2 /\ tries' = tries + 1) BY <1>6 DEF UpdateStatus, Forget
    <3> QED BY <3>1, <3>2
  <2>3. mem' \in {mem, NoStatus, [mem EXCEPT !.addon = cache.addon]}
    BY <1>6 DEF UpdateStatus, Forget
  <2>4. mem \in Status /\ cache \in Status BY DEF TypeOK
  <2>5. [mem EXCEPT !.addon = cache.addon] \in Status BY <2>4 DEF Status
  <2>6. mem' \in Status BY <1>1, <2>3, <2>4, <2>5
  <2> QED BY <2>1, <2>2, <2>6 DEF TypeOK, worldVars
<1>7. CASE Abort
  <2>1. mem' \in Status BY <1>1, <1>7 DEF Abort, Forget
  <2>2. faults' \in 0..MaxFaults BY <1>3, <1>7 DEF Abort
  <2>3. /\ UNCHANGED <<kind, enabled, paused, api, cache, cacheFresh, built, installed, cilium,
                       asked, up, cli, cliFresh, reapplies>>
        /\ pc' = "idle" /\ tries' = 0 /\ memFresh' = FALSE
    BY <1>7 DEF Abort, Forget, specVars, cacheVars, worldVars, cliVars
  <2>4. pc' \in {"idle", "phase", "cilium", "update"}
    BY <2>3
  <2>5. tries' \in 0..2
    BY <2>3
  <2>6. memFresh' \in BOOLEAN
    BY <2>3, Zenon
  <2> QED BY <2>1, <2>2, <2>3, <2>4, <2>5, <2>6 DEF TypeOK
<1>8. CASE CacheSync
  BY <1>8 DEF CacheSync, TypeOK, specVars, memVars, worldVars, cliVars
<1>9. CASE CLIStep \/ CLICallFails
  <2>1. /\ UNCHANGED <<kind, enabled, paused, cache, pc, mem, tries, worldVars, reapplies>>
        /\ cli' \in {"create", "get", "update", "wait", "done", "failed", "none"}
        /\ api' \in {api, NoStatus, FirstStatus}
        /\ Fails \/ UNCHANGED faults
    BY <1>9 DEF CLIStep, CLICallFails, CreateCluster, GetCluster, WriteFirstStatus,
       WaitForOperatorComplete, WriteAPI, specVars, memVars, cacheVars
  <2>2. cacheFresh' \in BOOLEAN /\ memFresh' \in BOOLEAN /\ cliFresh' \in BOOLEAN
    BY <1>9 DEF CLIStep, CLICallFails, CreateCluster, GetCluster, WriteFirstStatus,
       WaitForOperatorComplete, WriteAPI, TypeOK, cacheVars, memVars
  <2>3. faults' \in 0..MaxFaults BY <1>3, <2>1
  <2>4. api' \in Status BY <1>1, <1>2, <2>1 DEF TypeOK
  <2> QED BY <2>1, <2>2, <2>3, <2>4 DEF TypeOK, worldVars
<1>10. CASE Reapply
  <2>1. reapplies' \in 0..MaxReapplies BY <1>10, BoundsAssumption DEF Reapply, TypeOK
  <2>2. enabled' \subseteq Addons BY <1>10, AddonsAssumption DEF Reapply, TypeOK
  <2> QED BY <1>10, <2>1, <2>2 DEF Reapply, WriteAPI, TypeOK, worldVars
<1>11. CASE Pause \/ Unpause
  <2>1. faults' \in 0..MaxFaults BY <1>3, <1>11 DEF Pause, Unpause
  <2> QED BY <1>11, <2>1 DEF Pause, Unpause, WriteAPI, TypeOK, worldVars
<1>12. CASE WorldStep \/ \E g \in Groups : NodesDown(g)
  <2>1. faults' \in 0..MaxFaults
    BY <1>3, <1>12 DEF WorldStep, CiliumReady, NodesUp, NodesDown
  <2>2. /\ UNCHANGED <<specVars, api, cacheVars, memVars, built, installed, asked, cliVars>>
        /\ cilium' \in {cilium, "ready"} /\ up' \subseteq Groups
    BY <1>12 DEF WorldStep, CiliumReady, NodesUp, NodesDown, TypeOK
  <2> QED BY <2>1, <2>2 DEF TypeOK, specVars, cacheVars, memVars, cliVars
<1>13. CASE Gone \/ UNCHANGED vars
  BY <1>13 DEF Gone, vars, specVars, cacheVars, memVars, worldVars, cliVars, TypeOK
<1> QED
  BY <1>4, <1>5, <1>6, <1>7, <1>8, <1>9, <1>10, <1>11, <1>12, <1>13 DEF Next, ReconcileStep

\* The state stays in the type invariant, whatever a later apply enables:
\* statuses keep to the API's enums, a status update is tried three times at
\* most.
THEOREM TypeCorrect == Spec => []TypeOK
<1>1. Init => TypeOK
  BY InitIInv DEF IInv
<1> QED BY <1>1, TypeKept, PTL DEF Spec

=============================================================================
