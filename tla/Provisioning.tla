----------------------------- MODULE Provisioning -----------------------------
(***************************************************************************)
(* The operator's provisioning state machine, from a K8znerCluster without *)
(* a status to a running cluster, beside the command line that creates the *)
(* object, writes its first status, waits for the end and may be run again.*)
(*                                                                         *)
(* Both write the whole status with optimistic locking.  The operator      *)
(* reads through an informer cache that may lag behind the API server, so  *)
(* a reconcile can start from an old status and do the same work twice.    *)
(*                                                                         *)
(* A reconcile is: Fetch (the read and the health check), one phase        *)
(* handler, and the status update with its retries.  Every return asks for *)
(* another reconcile, so none is ever lost.  The phases' own work is       *)
(* idempotent calls in a fixed order, of which a failing one leaves a      *)
(* prefix.  Retry counters, error records, conditions, events and phase    *)
(* timeouts (which only record a warning) are left out; healing and        *)
(* scaling, which ControlPlane and Workers detail, show here as node       *)
(* groups that are asked for, come up and go down.                         *)
(***************************************************************************)
EXTENDS Naturals, Sequences, FiniteSets

CONSTANTS
  Kinds,        \* the kinds of cluster looked at
  AddonChoices, \* the sets of addons a spec may enable
  MaxFaults,    \* bound: failing calls, crashes, pauses, nodes lost
  MaxReapplies, \* bound: runs of apply on the managed cluster
  Later         \* addons a later apply may enable besides

VARIABLES
  kind,       \* "cli", "operator" or "legacy"
  enabled,    \* spec.addons
  paused,     \* spec.paused
  api,        \* the status the API server holds
  cache,      \* the status the informer cache holds
  cacheFresh, \* the cache has caught up with the API server
  pc,         \* where the reconcile is
  mem,        \* its copy of the status
  memFresh,   \* no one wrote the object since that copy was read
  tries,      \* status updates this reconcile has tried
  built,      \* what exists at Hetzner and on the machines
  installed,  \* addon items applied to the cluster
  cilium,     \* "absent", "installed" or "ready"
  asked,      \* node groups scaled to their size
  up,         \* node groups all of whose nodes are Ready
  cli,        \* where the command line is
  cliFresh,   \* no one wrote the object since the command line read it
  faults,     \* bounded by MaxFaults
  reapplies   \* bounded by MaxReapplies

specVars  == <<kind, enabled, paused>>
worldVars == <<built, installed, cilium, asked, up>>
cacheVars == <<cache, cacheFresh>>
memVars   == <<pc, mem, memFresh, tries>>
cliVars   == <<cli, cliFresh, reapplies>>
vars == <<specVars, api, cacheVars, memVars, worldVars, cliVars, faults>>

Stages == {"Infrastructure", "Image", "Compute", "Bootstrap", "CNI", "Addons",
           "Configuring"}
Phases == Stages \cup {"Absent", "Unset", "Complete"}
ClusterPhases == {"None", "Provisioning", "Running", "Degraded", "Healing"}
Groups == {"controlPlanes", "workers"}

\* EnabledSteps' order.
AddonOrder ==
  <<"hcloud-ccm", "hcloud-csi", "metrics-server", "cert-manager", "traefik",
    "external-dns", "argocd", "monitoring", "talos-backup">>
Addons == {AddonOrder[i] : i \in DOMAIN AddonOrder}

\* What InstallStep applies for an addon, in order (its options all on).
Items(a) ==
  CASE a = "hcloud-ccm"   -> <<"crds", "talos-ccm", "hcloud-secret", "hcloud-ccm">>
    [] a = "cert-manager" -> <<"cert-manager", "cloudflare-secret", "cluster-issuer">>
    [] OTHER              -> <<a>>
ItemSet(a) == {Items(a)[i] : i \in DOMAIN Items(a)}
AllItems   == UNION {ItemSet(a) : a \in Addons}

\* What a phase builds, in order.  The load balancer counts twice: the object,
\* and its services, network and targets.
InfrastructureSteps == <<"network", "firewall", "loadBalancer", "targets">>
BootstrapSteps      == <<"configs", "etcd", "marker">>
InfraIDs  == {"network", "firewall", "loadBalancer"}
Resources == InfraIDs \cup {"targets", "snapshot", "servers", "configs", "etcd", "marker"}

Prefix(s, n) == {s[i] : i \in 1..n}

ASSUME KindsAssumption == Kinds \subseteq {"cli", "operator", "legacy"}
ASSUME AddonsAssumption == AddonChoices \subseteq SUBSET Addons /\ Later \subseteq Addons
ASSUME BoundsAssumption == MaxFaults \in Nat /\ MaxReapplies \in Nat

Status ==
  [phase   : Phases,
   cluster : ClusterPhases,
   infra   : SUBSET InfraIDs,   \* status.infrastructure's IDs that are set
   endpoint: BOOLEAN,           \* status.controlPlaneEndpoint is set
   nodes   : {"none", "listed", "servers"}, \* status.controlPlanes.nodes: from
                                \* the node list, or from the Compute phase
   ready   : SUBSET Groups,     \* groups whose Ready equals Desired
   addon   : [Addons \cup {"cilium"} -> {"none", "installing", "installed", "failed"}]]

NoStatus ==
  [phase |-> "Unset", cluster |-> "None", infra |-> {}, endpoint |-> FALSE,
   nodes |-> "none", ready |-> {}, addon |-> [a \in Addons \cup {"cilium"} |-> "none"]]

TypeOK ==
  /\ kind \in Kinds /\ enabled \subseteq Addons /\ paused \in BOOLEAN
  /\ api \in Status /\ cache \in Status /\ mem \in Status
  /\ cacheFresh \in BOOLEAN /\ memFresh \in BOOLEAN /\ cliFresh \in BOOLEAN
  /\ pc \in {"idle", "phase", "cilium", "update"} /\ tries \in 0..2
  /\ built \subseteq Resources /\ installed \subseteq AllItems
  /\ cilium \in {"absent", "installed", "ready"}
  /\ asked \subseteq Groups /\ up \subseteq Groups
  /\ cli \in {"create", "get", "update", "wait", "done", "failed", "none"}
  /\ faults \in 0..MaxFaults /\ reapplies \in 0..MaxReapplies

-----------------------------------------------------------------------------
(***************************************************************************)
(* Helpers.                                                                *)
(***************************************************************************)

\* A call that may fail has one of the failures of the bound.
Fails == faults < MaxFaults /\ faults' = faults + 1

\* Every write of the object invalidates the copies read before it.
WriteAPI(st) ==
  /\ api' = st
  /\ cacheFresh' = FALSE
  /\ UNCHANGED cache

\* When an apply's bootstrap fails it destroys the cluster and what ran in it.
Destroyed == cli = "failed"

CLIBootstrapped == kind = "cli"

\* updateClusterPhase, deferred to the end of every reconcile.
UpdateClusterPhase(st) ==
  IF st.ready = Groups THEN [st EXCEPT !.cluster = "Running"]
  ELSE IF st.cluster # "Healing" THEN [st EXCEPT !.cluster = "Degraded"]
  ELSE st

\* A phase handler returns: what follows is the status update.
Return(st) ==
  /\ mem' = UpdateClusterPhase(st)
  /\ pc' = "update"
  /\ tries' = 0
  /\ UNCHANGED <<specVars, api, cacheVars, memFresh, cliVars>>

\* discoverInfrastructure, and the network buildProvisioningContext looks up.
DiscoverInfrastructure(st) == [st EXCEPT !.infra = @ \cup (built \cap InfraIDs)]

\* resolveEndpoint: without an address the Talos generator cannot be made.
ContextBuilds(st) ==
  st.endpoint \/ "loadBalancer" \in st.infra \/ st.nodes # "none"

\* findTalosEndpoint: spec.bootstrap.publicIP stands in for status.endpoint.
\* What the operator lists in a cluster of its own kind has no public address.
TalosReachable(st) == st.endpoint \/ kind # "operator"

\* The phase a reconcile works in.  A cluster of kind "operator" has a
\* spec.bootstrap that is not completed: a nil one is dereferenced here.
CurrentPhase ==
  IF mem.phase # "Unset" THEN mem.phase
  ELSE IF CLIBootstrapped THEN "CNI" ELSE "Infrastructure"

\* The addons, in EnabledSteps' order, that status does not say are installed.
Pending(st) ==
  {i \in DOMAIN AddonOrder :
     AddonOrder[i] \in enabled /\ st.addon[AddonOrder[i]] # "installed"}

-----------------------------------------------------------------------------
(***************************************************************************)
(* The cluster the operator finds.                                         *)
(***************************************************************************)

Init ==
  /\ kind \in Kinds
  /\ enabled \in AddonChoices
  /\ paused = FALSE
  /\ \/ kind = "cli"      /\ api = [NoStatus EXCEPT !.phase = "Absent"]
     \/ kind = "operator" /\ api = NoStatus
     \/ kind = "legacy"   /\ api = [NoStatus EXCEPT !.phase = "Configuring",
                                      !.infra = InfraIDs, !.endpoint = TRUE]
  /\ cache = api /\ cacheFresh = TRUE
  /\ pc = "idle" /\ mem = NoStatus /\ memFresh = FALSE /\ tries = 0
  /\ built = IF kind = "operator" THEN {} ELSE Resources
  /\ installed = {} /\ cilium = "absent"
  /\ \/ up = {} /\ asked = {}                \* several control planes and workers, or
     \/ up = {"workers"} /\ asked = {"controlPlanes"}  \* one control plane alone
  /\ cli = IF kind = "cli" THEN "create" ELSE "none"
  /\ cliFresh = FALSE
  /\ faults = 0 /\ reapplies = 0

-----------------------------------------------------------------------------
(***************************************************************************)
(* The operator.                                                           *)
(***************************************************************************)

\* Reconcile's read and reconcile's health check, which replaces both node
\* lists.  In a cluster of kind "operator" the nodes listed are those of the
\* cluster the operator runs in, so how many are Ready says nothing.
Fetch ==
  /\ pc = "idle" /\ ~Destroyed /\ ~paused /\ cache.phase # "Absent"
  /\ \/ /\ \E r \in IF kind = "operator" THEN SUBSET Groups ELSE {up} :
             mem' = [cache EXCEPT !.nodes = "listed", !.ready = r]
        /\ UNCHANGED faults
     \/ /\ Fails
        /\ mem' = cache
  /\ pc' = "phase" /\ memFresh' = cacheFresh
  /\ UNCHANGED <<specVars, api, cacheVars, tries, worldVars, cliVars>>

\* LoadCredentials reads the secrets, in every phase that calls Hetzner or Talos.
LoadCredentialsFails(st) ==
  /\ Fails
  /\ Return(st)
  /\ UNCHANGED worldVars

\* updateNodeStatuses: what Compute made replaces the list of nodes.
UpdateNodeStatuses(st, steps) ==
  [st EXCEPT !.nodes = IF "servers" \in Prefix(steps, Len(steps)) THEN "servers" ELSE @]

\* A phase that provisions: credentials, context, the adapter's calls.  What
\* was provisioned is what the status learns.
Provision(st, steps, next) ==
  LET known == DiscoverInfrastructure(st)
  IN \/ LoadCredentialsFails(st)
     \/ /\ ~ContextBuilds(known)
        /\ Return(known)
        /\ UNCHANGED <<worldVars, faults>>
     \/ /\ ContextBuilds(known)
        /\ Fails
        /\ \E n \in 0..Len(steps) : built' = built \cup Prefix(steps, n)
        /\ Return(known)
        /\ UNCHANGED <<installed, cilium, asked, up>>
     \/ /\ ContextBuilds(known)
        /\ built' = built \cup Prefix(steps, Len(steps))
        /\ Return([UpdateNodeStatuses(known, steps) EXCEPT !.phase = next,
             !.infra = @ \cup (Prefix(steps, Len(steps)) \cap {"network", "firewall"})])
        /\ UNCHANGED <<installed, cilium, asked, up, faults>>

InfrastructurePhase ==
  LET st == [mem EXCEPT !.phase = "Infrastructure", !.cluster = "Provisioning"]
  IN /\ pc = "phase" /\ CurrentPhase = "Infrastructure"
     /\ \/ /\ st.infra = InfraIDs            \* "from CLI bootstrap"
           /\ Return([st EXCEPT !.phase = "Image", !.endpoint = TRUE])
           /\ UNCHANGED <<worldVars, faults>>
        \/ /\ st.infra # InfraIDs
           /\ Provision(st, InfrastructureSteps, "Image")

ImagePhase ==
  /\ pc = "phase" /\ CurrentPhase = "Image"
  /\ Provision(mem, <<"snapshot">>, "Compute")

\* A cluster the command line bootstrapped has its machine: the pools are
\* limited to it, and the phase goes on to the addons.
ComputePhase ==
  /\ pc = "phase" /\ CurrentPhase = "Compute"
  /\ Provision(mem, <<"servers">>, IF CLIBootstrapped THEN "Addons" ELSE "Bootstrap")

\* populateBootstrapState: the first machine's address, and all of the others'.
MachinesKnown(st) == st.nodes = "servers"

\* BootstrapCluster: with the marker there is nothing left to do; without it
\* the machines in status must take their first configuration, which one that
\* is configured already refuses.
BootstrapPhase ==
  /\ pc = "phase" /\ CurrentPhase = "Bootstrap"
  /\ \/ /\ "marker" \in built
        /\ Provision(mem, <<>>, "CNI")
     \/ /\ {"configs", "marker"} \cap built = {} /\ MachinesKnown(mem)
        /\ Provision(mem, BootstrapSteps, "CNI")
     \/ /\ "marker" \notin built
        /\ "configs" \in built \/ ~MachinesKnown(mem)
        /\ Return(DiscoverInfrastructure(mem))
        /\ UNCHANGED <<worldVars, faults>>

\* Credentials, kubeconfig and the Cilium manifests, then the wait for its pods.
CNIPhase ==
  LET st == [mem EXCEPT !.phase = "CNI"]
  IN /\ pc = "phase" /\ CurrentPhase = "CNI"
     /\ \/ /\ ~TalosReachable(st)
           /\ Return(st)
           /\ UNCHANGED <<worldVars, faults>>
        \/ LoadCredentialsFails(st)
        \/ /\ TalosReachable(st)
           /\ cilium' = IF cilium = "absent" THEN "installed" ELSE cilium
           /\ mem' = [st EXCEPT !.addon["cilium"] = "installing"]
           /\ pc' = "cilium"
           /\ UNCHANGED <<specVars, api, cacheVars, memFresh, tries, built, installed,
                          asked, up, cliVars, faults>>

\* Mutant: the phase ends when the manifests are applied.
AwaitCiliumInstalled ==
  /\ pc = "cilium"
  /\ Return([mem EXCEPT !.addon["cilium"] = "installed",
                        !.phase = IF CLIBootstrapped THEN "Compute" ELSE "Addons"])
  /\ UNCHANGED <<worldVars, faults>>

\* waitForCiliumReady, in time or not.
AwaitCilium ==
  /\ pc = "cilium"
  /\ \/ /\ cilium = "ready"
        /\ Return([mem EXCEPT !.addon["cilium"] = "installed",
                              !.phase = IF CLIBootstrapped THEN "Compute" ELSE "Addons"])
     \/ /\ cilium # "ready"
        /\ Return(mem)
  /\ UNCHANGED <<worldVars, faults>>

\* ensureWorkersReady: until they are, nothing is installed.
AwaitWorkers ==
  /\ "workers" \notin mem.ready
  /\ \/ asked' = asked \cup {"workers"} /\ UNCHANGED faults
     \/ asked' = asked /\ Fails
  /\ Return(mem)
  /\ UNCHANGED <<built, installed, cilium, up>>

\* One addon: InstallStep, or the prefix of it that a failure leaves.  Without
\* Talos' CRD the backup is skipped, and counts as installed.
InstallAddon(st, a) ==
  \/ /\ installed' = installed \cup ItemSet(a)
     /\ Return([st EXCEPT !.addon[a] = "installed"])
     /\ UNCHANGED faults
  \/ /\ a = "talos-backup"
     /\ installed' = installed
     /\ Return([st EXCEPT !.addon[a] = "installed"])
     /\ UNCHANGED faults
  \/ /\ Fails
     /\ \E n \in 0..Len(Items(a)) : installed' = installed \cup Prefix(Items(a), n)
     /\ Return([st EXCEPT !.addon[a] = "failed"])

\* Mutant: the first addon of the list that has not failed yet.
InstallNextAddonSkippingFailed(st) ==
  \E i \in Pending(st) :
    /\ \A j \in Pending(st) : j < i => st.addon[AddonOrder[j]] = "failed"
    /\ InstallAddon(st, AddonOrder[i])

\* installNextAddon: one per reconcile, the first that is not installed.
InstallNextAddon(st) ==
  \E i \in Pending(st) :
    /\ \A j \in Pending(st) : i <= j
    /\ InstallAddon(st, AddonOrder[i])

\* resolveNetworkID finds the network, which every path has by now.
AddonsPhase ==
  LET st == [mem EXCEPT !.infra = @ \cup {"network"}]
  IN /\ pc = "phase" /\ CurrentPhase = "Addons"
     /\ \/ AwaitWorkers
        \/ /\ "workers" \in mem.ready
           /\ \/ /\ ~TalosReachable(mem)
                 /\ Return(mem)
                 /\ UNCHANGED <<worldVars, faults>>
              \/ LoadCredentialsFails(mem)
              \/ /\ TalosReachable(mem) /\ Pending(st) # {}
                 /\ InstallNextAddon(st)
                 /\ UNCHANGED <<built, cilium, asked, up>>
              \/ /\ TalosReachable(mem) /\ Pending(st) = {}
                 /\ Return([st EXCEPT !.phase = "Complete", !.cluster = "Running"])
                 /\ UNCHANGED <<worldVars, faults>>

\* applyAddons: the items of the first k addons in the list (where within an
\* addon it stopped no property tells).
AppliedThrough(k, backup) ==
  UNION {ItemSet(AddonOrder[i]) : i \in
           {j \in 1..k : /\ AddonOrder[j] \in enabled
                         /\ backup \/ AddonOrder[j] # "talos-backup"}}

\* The legacy phase: Cilium and all addons in one go (addons.Apply).
ConfiguringPhase ==
  /\ pc = "phase" /\ CurrentPhase = "Configuring"
  /\ \E k \in 0..Len(AddonOrder), backup \in BOOLEAN :
       /\ installed' = installed \cup AppliedThrough(k, backup)
       /\ cilium' = IF cilium = "absent" /\ k > 0 THEN "installed" ELSE cilium
       /\ \/ /\ k = Len(AddonOrder)
             /\ Return([mem EXCEPT !.phase = "Complete", !.cluster = "Running"])
             /\ UNCHANGED faults
          \/ /\ Fails
             /\ Return(mem)
  /\ UNCHANGED <<built, asked, up>>

\* reconcileRunningPhase: its second health check is taken with the first;
\* healing shows in the cluster's phase, scaling in what is asked for.
RunningPhase ==
  /\ pc = "phase" /\ CurrentPhase = "Complete"
  /\ \/ asked' = asked \cup (Groups \ mem.ready) /\ UNCHANGED faults
     \/ asked' = asked /\ Fails
  /\ \E c \in {mem.cluster} \cup {"Healing" : g \in Groups \ mem.ready} :
       Return([mem EXCEPT !.cluster = c])
  /\ UNCHANGED <<built, installed, cilium, up>>

\* The reconcile is over; nothing of its copy is left.
Forget ==
  /\ pc' = "idle" /\ mem' = NoStatus /\ tries' = 0

\* Mutant: it retries for as long as there is a conflict.
UpdateStatusUnbounded ==
  /\ pc = "update" /\ ~Destroyed
  /\ \/ /\ memFresh
        /\ WriteAPI(mem) /\ memFresh' = FALSE /\ cliFresh' = FALSE
        /\ Forget
     \/ /\ ~memFresh
        /\ tries' = tries + 1 /\ memFresh' = cacheFresh
        /\ UNCHANGED <<api, cacheVars, pc, mem, cliFresh>>
  /\ UNCHANGED <<specVars, worldVars, cli, reapplies, faults>>

\* Mutant: on a conflict the latest status is kept, the reconcile's own is not.
UpdateStatusKeepingLatest ==
  /\ pc = "update" /\ ~Destroyed
  /\ \/ /\ memFresh
        /\ WriteAPI(mem) /\ memFresh' = FALSE /\ cliFresh' = FALSE
        /\ Forget
     \/ /\ ~memFresh /\ tries < 2
        /\ tries' = tries + 1
        /\ memFresh' = cacheFresh /\ mem' = cache
        /\ UNCHANGED <<api, cacheVars, pc, cliFresh>>
     \/ /\ ~memFresh /\ tries = 2
        /\ Forget
        /\ UNCHANGED <<api, cacheVars, memFresh, cliFresh>>
  /\ UNCHANGED <<specVars, worldVars, cli, reapplies, faults>>

\* updateStatusWithRetry: on a conflict the object is read again, from the
\* cache, and all of the reconcile's own status put over it, save that addons
\* it knows nothing of stay.  After the third conflict it gives up.
UpdateStatus ==
  /\ pc = "update" /\ ~Destroyed
  /\ \/ /\ memFresh
        /\ WriteAPI(mem) /\ memFresh' = FALSE /\ cliFresh' = FALSE
        /\ Forget
     \/ /\ ~memFresh /\ tries < 2
        /\ tries' = tries + 1
        /\ memFresh' = cacheFresh
        /\ mem' = IF mem.addon = NoStatus.addon THEN [mem EXCEPT !.addon = cache.addon]
                  ELSE mem
        /\ UNCHANGED <<api, cacheVars, pc, cliFresh>>
     \/ /\ ~memFresh /\ tries = 2
        /\ Forget
        /\ UNCHANGED <<api, cacheVars, memFresh, cliFresh>>
  /\ UNCHANGED <<specVars, worldVars, cli, reapplies, faults>>

\* The operator stops, or a status update fails for another reason.
Abort ==
  /\ pc # "idle" /\ Fails
  /\ Forget
  /\ memFresh' = FALSE
  /\ UNCHANGED <<specVars, api, cacheVars, worldVars, cliVars>>

\* The watch brings the cache up to date.
CacheSync ==
  /\ ~cacheFresh
  /\ cache' = api /\ cacheFresh' = TRUE
  /\ UNCHANGED <<specVars, api, memVars, worldVars, cliVars, faults>>

-----------------------------------------------------------------------------
(***************************************************************************)
(* The command line.                                                       *)
(***************************************************************************)

\* createClusterCRD: the object is created; the API server drops its status.
CreateCluster ==
  /\ cli = "create"
  /\ WriteAPI(NoStatus) /\ memFresh' = FALSE /\ cliFresh' = FALSE
  /\ cli' = "get"
  /\ UNCHANGED <<specVars, pc, mem, tries, worldVars, reapplies, faults>>

\* updateClusterStatus reads the object back ...
GetCluster ==
  /\ cli = "get"
  /\ cliFresh' = TRUE
  /\ cli' = "update"
  /\ UNCHANGED <<specVars, api, cacheVars, memVars, worldVars, reapplies, faults>>

\* buildClusterStatus: one control plane is Ready, whatever its size.
FirstStatus ==
  [NoStatus EXCEPT !.phase = "CNI", !.cluster = "Provisioning", !.infra = InfraIDs,
                   !.endpoint = TRUE, !.nodes = "servers", !.ready = asked \cup up]

\* ... and writes the whole status, once: if the operator wrote in between,
\* the pipeline fails, and its cleanup destroys the cluster.
WriteFirstStatus ==
  /\ cli = "update"
  /\ IF cliFresh
     THEN /\ WriteAPI(FirstStatus) /\ memFresh' = FALSE
          /\ cli' = "wait"
     ELSE /\ cli' = "failed"
          /\ UNCHANGED <<api, cacheVars, memFresh>>
  /\ cliFresh' = FALSE
  /\ UNCHANGED <<specVars, pc, mem, tries, worldVars, reapplies, faults>>

CLICallFails ==
  /\ cli \in {"create", "get", "update"} /\ Fails
  /\ cli' = "failed" /\ cliFresh' = FALSE
  /\ UNCHANGED <<specVars, api, cacheVars, memVars, worldVars, reapplies>>

\* Mutant: any cluster that runs is taken for a complete one.
WaitForRunning ==
  /\ cli = "wait" /\ api.cluster = "Running"
  /\ cli' = "done"
  /\ UNCHANGED <<specVars, api, cacheVars, memVars, worldVars, cliFresh, reapplies, faults>>

\* waitForOperatorComplete polls the API server until the cluster is complete
\* and running (its deadline is left out).
WaitForOperatorComplete ==
  /\ cli = "wait" /\ api.phase = "Complete" /\ api.cluster = "Running"
  /\ cli' = "done"
  /\ UNCHANGED <<specVars, api, cacheVars, memVars, worldVars, cliFresh, reapplies, faults>>

\* updateExistingCluster: apply on a managed cluster writes the spec only.
Reapply ==
  /\ cli \in {"wait", "done", "none"} /\ reapplies < MaxReapplies
  /\ reapplies' = reapplies + 1
  /\ enabled' = enabled \cup Later
  /\ WriteAPI(api) /\ memFresh' = FALSE
  /\ UNCHANGED <<kind, paused, pc, mem, tries, worldVars, cli, cliFresh, faults>>

-----------------------------------------------------------------------------
(***************************************************************************)
(* The cluster and its user.                                               *)
(***************************************************************************)

CiliumReady ==
  /\ cilium = "installed"
  /\ cilium' = "ready"
  /\ UNCHANGED <<specVars, api, cacheVars, memVars, built, installed, asked, up,
                 cliVars, faults>>

\* Nodes are Ready only once there is a CNI.
NodesUp(g) ==
  /\ g \in asked \ up /\ cilium # "absent"
  /\ up' = up \cup {g}
  /\ UNCHANGED <<specVars, api, cacheVars, memVars, built, installed, cilium, asked,
                 cliVars, faults>>

NodesDown(g) ==
  /\ g \in asked \cap up /\ Fails
  /\ up' = up \ {g}
  /\ UNCHANGED <<specVars, api, cacheVars, memVars, built, installed, cilium, asked,
                 cliVars>>

\* The user sets spec.paused, and clears it.
Pause ==
  /\ ~paused /\ api.phase # "Absent" /\ Fails
  /\ paused' = TRUE
  /\ WriteAPI(api) /\ memFresh' = FALSE /\ cliFresh' = FALSE
  /\ UNCHANGED <<kind, enabled, pc, mem, tries, worldVars, cli, reapplies>>

Unpause ==
  /\ paused
  /\ paused' = FALSE
  /\ WriteAPI(api) /\ memFresh' = FALSE /\ cliFresh' = FALSE
  /\ UNCHANGED <<kind, enabled, pc, mem, tries, worldVars, cli, reapplies, faults>>

\* A destroyed cluster stays so.
Gone == Destroyed /\ UNCHANGED vars

-----------------------------------------------------------------------------

\* reconcileWithStateMachine's switch.
PhaseStep ==
  \/ InfrastructurePhase \/ ImagePhase \/ ComputePhase \/ BootstrapPhase
  \/ CNIPhase \/ AwaitCilium \/ AddonsPhase \/ ConfiguringPhase \/ RunningPhase

ReconcileStep == Fetch \/ PhaseStep \/ UpdateStatus

CLIStep == CreateCluster \/ GetCluster \/ WriteFirstStatus \/ WaitForOperatorComplete

WorldStep == CiliumReady \/ \E g \in Groups : NodesUp(g)

Next ==
  \/ ~Destroyed /\ (ReconcileStep \/ Abort \/ CacheSync)
  \/ CLIStep \/ CLICallFails \/ Reapply
  \/ ~Destroyed /\ (WorldStep \/ \E g \in Groups : NodesDown(g))
  \/ ~Destroyed /\ (Pause \/ Unpause)
  \/ Gone

Spec == Init /\ [][Next]_vars

\* The manager's work queue runs the reconciler and its informer again and
\* again, the kubelets and Cilium's agents do their work, the command line
\* runs on, and a user who pauses a cluster resumes it.
FairSpec ==
  /\ Spec
  /\ WF_vars(~Destroyed /\ ReconcileStep)
  /\ WF_vars(~Destroyed /\ CacheSync)
  /\ WF_vars(CLIStep)
  /\ WF_vars(~Destroyed /\ CiliumReady)
  /\ \A g \in Groups : WF_vars(~Destroyed /\ NodesUp(g))
  /\ WF_vars(~Destroyed /\ Unpause)

-----------------------------------------------------------------------------
(***************************************************************************)
(* Properties.                                                             *)
(***************************************************************************)

\* The addons a complete cluster has (a backup may have been skipped).
AddonsInstalled ==
  \A a \in enabled \ {"talos-backup"} : ItemSet(a) \subseteq installed

\* The stages whose work is done.
Achieved ==
  {s \in Stages :
     CASE s = "Infrastructure" -> InfraIDs \subseteq built
       [] s = "Image"          -> "snapshot" \in built
       [] s = "Compute"        -> "servers" \in built
       [] s = "Bootstrap"      -> {"etcd", "marker"} \subseteq built
       [] s = "CNI"            -> cilium = "ready"
       [] s = "Addons"         -> AddonsInstalled
       [] OTHER                -> AddonsInstalled /\ cilium # "absent"}

\* The phase the API server shows keeps the path's promise, whichever of the
\* command line's and the operator's writes, from whichever copy, came last.
Path == INSTANCE ProvisioningPath WITH phase <- api.phase, done <- Achieved
PathSpec == Path!Spec

\* No addon is applied before Cilium runs (reconcileCNIPhase's comment), nor
\* before all the enabled ones that come earlier in EnabledSteps' order are:
\* the CSI driver needs the secret the cloud controller manager's step makes.
AddonsInOrder ==
  kind # "legacy" =>
    /\ installed # {} => cilium = "ready"
    /\ \A i, j \in DOMAIN AddonOrder :
         /\ i < j /\ {AddonOrder[i], AddonOrder[j]} \subseteq enabled
         /\ ItemSet(AddonOrder[j]) \cap installed # {}
         => ItemSet(AddonOrder[i]) \subseteq installed

\* When the command line's wait returns, all the addons are on the cluster and
\* every node group has been scaled to its size.
WaitReturnsWhenDone ==
  [][cli = "wait" /\ cli' = "done" =>
       /\ AddonsInstalled /\ cilium = "ready"
       /\ asked \cup up = Groups]_vars

\* A wait ends: however late the cache, whatever is retried and however often
\* the status is overwritten, the cluster comes to be complete and running.
WaitEnds == cli = "wait" ~> api.phase = "Complete" /\ api.cluster = "Running"

\* An addon that apply enables is installed in the end ("The operator will now
\* reconcile the changes.").
EnabledAddonsGetInstalled ==
  \A a \in Addons \ {"talos-backup"} :
    (cli = "done" /\ a \in enabled) ~> ItemSet(a) \subseteq installed
=============================================================================
