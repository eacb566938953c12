# k8zner in TLA+

k8zner creates and runs Kubernetes clusters (Talos Linux) on Hetzner Cloud. A
command line bootstraps a cluster with one control plane and installs an
operator in it; the operator, a controller-runtime reconciler, then makes the
cluster what its `K8znerCluster` resource says and keeps it so. This directory
holds TLA+ modules of that code, the TLC runs that check them and TLAPS proofs
about them.

    tlc -workers 2 -config MCControlPlane_faults.cfg MCControlPlane
    tlapm ControlPlane_proofs.tla

Sections: 1 the system, 2 the modules, 3 the runs, 4 what the runs show, 5 the
proofs, 6 known gaps of the code, 7 what is not modelled, 8 what could come next.

## 1. The system

Paths are under `src/`; `controller/` is `internal/operator/controller/`.

| component | state it keeps | operations | what is hard | modelled in |
|---|---|---|---|---|
| Node phases (`controller/node_status.go`, `node_state_verifier.go`) | the phase of each node entry | derive a phase from probes, decide whether it may overwrite | order of phases, probes that lie | `NodePhase` |
| Control plane reconciler (`controller/reconcile_scaling_cp.go`, `reconcile_healing.go`, `server_provisioning.go`, `reconcile_health.go`) | node entries in `status`; outside it Hetzner servers, Talos configuration, etcd members, node objects | stuck-node cleanup, verification, health check, scale-up, replacement | calls that fail half-way, stale views, crashes, quorum | `ControlPlane` |
| Worker reconciler (`controller/reconcile_scaling_workers.go`) | worker entries (a Go slice that is pointed into) | heal, parallel scale-up, scale-down | aliasing, partial failure, limits | `Workers` |
| Provisioning state machine (`controller/reconcile_phases.go`, `reconcile_addons.go`, `cluster_controller.go`) | `provisioningPhase`, addon states, cluster phase | one phase step per reconcile, one addon per reconcile | retries, ordering, liveness | `Provisioning`, `ProvisioningPath` |
| Status persistence (`updateStatusWithRetry`, `cmd/k8zner/handlers/cluster_crd.go`) | the resource and its version | optimistic update, three tries | two writers, a cache that lags | `Provisioning` |
| Operator phase adapter (`internal/operator/provisioning`) | none | credentials, spec to configuration, the calls of each phase | what status keeps of a failing phase | `Provisioning`, `Infrastructure`, `Settings` |
| Operator process (`cmd/operator`) | lease, caches | start, stop | restart between two steps | `Crash` of every operator module |
| Apply, bootstrap pipeline, wait (`handlers/apply.go`, `bootstrap.go`, `operator_wait.go`) | files on disk, Hetzner resources | detect, pipeline, cleanup on failure, wait | a timeout taken for absence, re-runs, destructive cleanup | `Apply`, `Provisioning` |
| Destroy, Hetzner cleanup (`handlers/destroy.go`, `internal/platform/hcloud/cleanup.go`) | Hetzner resources by label, DNS records, buckets | delete in dependency order | partial failure, resources in use, latecomers | `Apply`, `ClusterLife` |
| Cluster bootstrap (`internal/provisioning/cluster`) | etcd, state marker | apply configuration, bootstrap etcd, mark, fetch kubeconfig | a stop between two steps | `Apply`, `Provisioning` |
| Infrastructure provisioner (`internal/provisioning/infrastructure`, `internal/config/cidr.go`) | network, subnets, firewall, balancer | ensure each | idempotence, arithmetic, what a later pass skips | `Infrastructure`, `Subnets` |
| Compute provisioner (`internal/provisioning/compute`) | servers, placement | ensure a pool in parallel | random names, addresses by place, half-made servers | `Compute`, `Provisioners` |
| Image provisioner (`internal/provisioning/image`) | build server, snapshot | build | leftovers | `Apply` |
| Hetzner client (`internal/platform/hcloud`) | none | create, attach, ensure, delete | create in several calls | in the modules that call it |
| Talos client, configuration generator | none | apply configuration, bootstrap, remove member | lost answers | outcomes, in `ControlPlane`, `Workers` |
| Addons (`internal/addons`) | objects in the cluster | ordered install steps | order, prefixes a failure leaves | `Provisioning`, `ClusterLife` |
| Configuration (`internal/config`) | none | expand, validate | one setting, four representations | `Settings`, `Subnets` |
| S3 and Cloudflare clients | buckets, DNS records | make, list, delete | shared zones, a failing call in a list of deletions | `ClusterLife` |
| Retry and parallel helpers (`internal/util`) | attempt counters | backoff, fan-out | partial failure | `Compute` (fan-out) |
| Health probes, read-only commands, interactive form, SSH, terminal interface, benchmarks | none that another part acts on | reports | - | not modelled (section 7) |

How they interact: the command line calls Hetzner and Talos, installs the
operator and creates the resource and then its status in two calls. The
operator reads the resource through a cache, calls Hetzner, Talos and the
Kubernetes API, and writes status back, at the end of a reconcile and several
times while it provisions. The parts share no memory; the resource is the only
message, and the clouds' state the only truth. Inside a reconcile, goroutines
that create servers share the status under a mutex and report over a channel.

`PROJECT.json` lists, under `hazards`, what in this code is hard to test, each
at its line with the properties that cover it.

## 2. Modules

Five groups, each a component or a composition of components. Between groups
one module's detail is another's single step: `Provisioning` has "servers are
made" where `Provisioners` has every call, `Apply` has "infrastructure" where
`Infrastructure` has a pass, `Provisioning` has "a group is scaled" where
`ControlPlane` and `Workers` have the reconcile.

| group | modules | instance |
|---|---|---|
| nodes | `NodePhase`, `ControlPlane`, `Workers` | `MCControlPlane`, `MCWorkers` |
| the resource's life | `ProvisioningPath` (abstract), `Provisioning` | `MCProvisioning` |
| the command line | `Apply` | `MCApply` |
| Hetzner phases | `Subnets`, `Infrastructure`, `Compute`, composed by `Provisioners` | `MCProvisioners` |
| settings and other services | `Settings`, `ClusterLife` | `MCClusterLife` |
| proofs | `ControlPlane_proofs`, `Workers_proofs`, `Provisioning_proofs`, `Apply_proofs`, `Provisioners_proofs`, `ClusterLife_proofs` | - |

Common to all. A step is one outside call with the code around it up to the
next such call, or several calls where no other actor can tell them apart.
Timeouts and thresholds are nondeterministic: what may be past its timeout may
be found so whenever someone looks. Wording, logging, metrics, events and
conditions are left out. A definition named "Mutant" in its comment is the
changed form of the one below it, which `PROJECT.json` substitutes to show that
a property notices the change.

### NodePhase

The thirteen phases with their order, the phases that time out, and the pure
functions `determineNodePhaseFromState` and `shouldUpdatePhase`. Two values are
added: `Listed` (the empty phase of an entry rebuilt by the health check) and
`Untracked` (no entry).

### ControlPlane

One `Reconcile` for control planes of a cluster whose provisioning is complete
(or that runs in the legacy mode, which is the same code). The state is the
outside world, the stored status and one reconcile's memory:

| variable | stands for |
|---|---|
| `server`, `talos`, `etcd`, `kube` | Hetzner servers; what machine configuration each has and whether it ever joined etcd; etcd's member list; node objects and their Ready condition |
| `stored` | `status.controlPlanes.nodes[].phase` in the API server |
| `mem`, `view` | the same entries in the reconcile's copy: phase, and Healthy / UnhealthySince |
| `pc`, `todo`, `stage`, `target` | where the reconcile is, the stuck nodes left, how far each new server is, the node being replaced |

A step of the model is one outside call with the code around it up to the next
such call; the world (`World`: nodes join, register, become Ready or NotReady,
machines die) moves between any two steps. The steps follow the code:

    Fetch -> HandleStuckNode* -> VerifyNodeStates -> ReconcileHealth
      -> RunningHealthCheck
      -> HandleCPScaleUp | ReplaceUnhealthyCP | LeaveControlPlanes
      -> (RemoveFromEtcd -> DeleteKubeNode -> DeleteOldServer)?
      -> PrepareForProvisioning
      -> (CreateServer -> AwaitServer) in parallel -> PersistProvisioned
      -> (BeginConfigure -> ApplyConfig -> CPReady) one server at a time
      -> UpdateStatus

with the error exits where the code has them, and `Crash` at every step. Errors
the code swallows are disjuncts of their action that change nothing outside:
the removal of an etcd member that fails still leads on to the server's
deletion. `VerifyNodeStates` takes the whole pass over the entries as one step;
each node's probes are drawn from `Probes`, everything the APIs may answer in
its state, including the code's reading of an unknown Talos error as
"configured". `ApplyConfigFails` includes the lost answer: the node has its
configuration and may join etcd while the reconcile believes it never got one.

Abstractions: timeouts and thresholds are nondeterministic (an entry in a timed
phase may be past its timeout whenever a reconcile looks; a NotReady node may
turn "late"); addresses, IDs and reasons are left out; entries are a function
of the node's name, so their order in the slice, which decides only which of
several late nodes is replaced first, is a free choice. A server's name is drawn
from the unused ones, as the code draws a random one.

### Workers

The same reconcile for workers, in the addons phase (which makes the workers it
waits for) and in a running cluster: healing, parallel scale-up, scale-down.
`status.workers.nodes` is a Go slice into which `replaceUnhealthyWorkers` keeps
pointers while it removes and appends entries, so a status here is a backing
array (`nodes`) and a length (`len`); a pointer is a place of the array. `work`,
`at`, `removed` are a loop's list, its position and its count. Of a phase only
its class is kept, which is all a reconcile reads. The world moves only where a
step reads node objects (`WorldMoves`), since elsewhere a move is as good as one
before or after. `stage` keeps a provisioning that failed apart from one that is
over, which only `HealingSparesHealthy` reads. Left out: cordoning and evicting, which never stop the code.

### ProvisioningPath, Provisioning

`ProvisioningPath` is the promise of `status.provisioningPhase`: each kind of
cluster has its own path, and a phase may be announced only when the work of
every stage before it is done, whoever announces it. The announced phase may go
back; the work does not.

`Provisioning` is the machine itself. `kind` says who brought the cluster up:
the command line ("cli"), the operator alone ("operator"), or an old version
("legacy", one `Configuring` phase). The status exists four times: `api`, the
informer's `cache` (which may lag), the reconcile's `mem`, and the command
line's; `memFresh`, `cliFresh`, `cacheFresh` are what the resource version tells.

    Fetch (cached read, health check) -> one of InfrastructurePhase, ImagePhase,
      ComputePhase, BootstrapPhase, CNIPhase -> AwaitCilium, AddonsPhase,
      ConfiguringPhase, RunningPhase
      -> UpdateStatus (three tries; the second and third write the whole status
         over whatever is there)
    CreateCluster -> GetCluster -> WriteFirstStatus -> WaitForOperatorComplete
    Reapply, Pause, Unpause

A failing phase leaves a prefix of the steps of its work. `Fetch` in an
"operator" cluster counts the nodes of the cluster the operator runs in, so
there the counts are arbitrary. Nodes come up only after Cilium. Left out: retry
counters, phase timeouts (they record a warning), the waiter's deadline, and the
addons' own order inside the legacy phase, which is cut at addons.

### Apply

The command line over what exists at Hetzner (`cloud`), on the machine
(`machine`, `trusts`, `endpoint`, `attached`, `inCluster`) and in the working
directory (`secrets`, `kubeconfig`). `StartApply`, `CheckOperatorManaged` and the
pipeline up to `CreateClusterCRD` and `WriteFirstStatus`; `StartDestroy` or the
cleanup of a failed run: list the servers, delete them, wait, then the other
kinds in `CleanupOrder`. A server whose deletion was accepted is `dying` and goes
later. `Late` is what the operator and the cloud controller may make meanwhile.
`found`, `hitch` and `excused` are history: the run began with a working cluster,
a call of it failed, what the cleanup logged or could not have seen. As in the
code: firewall and server deletions that fail are only logged; a resource in use
stays; volumes carry no labels; `isAlreadyBootstrapped` is false when the API
answers with an error; an existing resource is left as it is.

### Subnets, Infrastructure, Compute, Provisioners

`Subnets` is `config/cidr.go` and the two functions that cut the network: a
range is `[base, bits]`, addresses count from 10.0.0.0. `Infrastructure` is the
phase call by call over many passes. `setup` says who goes through it. An apply
begins with the network each time. The operator begins with the skip when all three
IDs are in status, then looks for what is there and for a control plane endpoint
(`Discover`, `Endpoint`: the balancer's address, or that of a control plane in
status), without which the pass is over; `ids` is what status keeps of a failed
pass. Two facts of the operator's setup are left open: whether status lists control
planes with an address (`peers`), and whether Hetzner takes a subnet without a
network zone (`zoneless`), which is what `SpecToConfig` makes it ask for. `Compute` is the pool of
control planes: list by label, give names and addresses, then one task per
server (check, create, attach, power on, read the address) in parallel.
`Provisioners` puts one after the other with common faults and addresses. An apply
makes one control plane; when its compute phase fails it destroys what there is
(`CleanupOnFailure`, some of whose calls may fail), when it is stopped it does not,
and in both cases the next apply begins anew. The operator makes as many control
planes as are asked for and repeats the phase that failed. A pool of workers has
count 0 in both and makes nothing.

### Settings, ClusterLife

`Settings` follows one setting through its four forms: the file, the command
line's configuration (`ExpandSpec`), the resource with its secrets
(`BuildClusterSpec`, `BuildSecrets`, and `UpdateClusterSpec` for a later apply),
the operator's configuration (`SpecToConfig`). Only settings that differ between
files are kept.

`ClusterLife` uses it: the user edits the file, applies it, destroys; the
operator installs addons with what it reads (a Talos backup whose API does not come
up is passed over and counts as installed); external-dns (external: policy `sync`,
a record and its owner's TXT at once) keeps names in a zone that other clusters
share; `MarkedAs` says whose records the search for a marker takes for whose, as
`owner=prod` is part of `owner=prod2`; destroy deletes records, call by call, and looks for buckets.
`first` and `last` are the files of the first and the last apply to the cluster;
`dirty` says that a record may be left for a reason the property names. Listing
a zone is one step (pages are not modelled). A record carries its owner, which
for an address only the model knows.

### Instances and proofs

`MCControlPlane`, `MCWorkers` add the symmetry of server names (not used where
liveness is checked); `MCProvisioning`, `MCApply`, `MCProvisioners`,
`MCClusterLife` define the sets the `.cfg` files choose from. The proof modules
are the subject of section 5.

## 3. The runs

| run | instance | properties | result | distinct states |
|---|---|---|---|---|
| `cp_faults` | 2 servers, 1 growing to 2, all faults | `TypeOK`, `NoPhantomEntries`, `ReconcileTerminates` | holds | 312,827 |
| `cp_scaleup` | 4 servers, 1 growing to 3; create and Talos faults | `NoOvershoot`, `CrashLeavesTimedEntry`, `NoDeleteAfterApply` | holds | 1,828,843 |
| `cp_replace` | 4 servers, 3 control planes, one in trouble; create and Talos faults | `TeardownJustified` | holds | 1,746,460 |
| `cp_duplicate` | 3 servers, 1 growing to 2, no fault | `ScaleUpWaitsForProvisioning` | violated | - |
| `cp_stuck_member` | 3 servers, 1 growing to 2, crash | `StuckCleanupSparesMembers` | violated | - |
| `workers` | 3 servers, none or 3 towards 2; four sets of faults, two in trouble | `TypeOK`, `ScaleUpFillsOnly`, `ScaleDownIsGradual`, `HealingSparesHealthy` | holds | 4,367,716 |
| `prov_path` | three kinds, three addons, one fault, one more apply | `TypeOK`, `AddonsInOrder`, `PathSpec`, `WaitReturnsWhenDone`, `WaitEnds` | holds | 796,894 |
| `prov_later` | "cli", one addon, a later apply with one more, no fault | `EnabledAddonsGetInstalled` | violated | - |
| `apply` | two faults, one destroy, three latecomers | `TypeOK`, `NothingLeftBehind`, `CRDComesLast`, `RerunIsIdempotent`, `ApplyConverges` | holds | 401,883 |
| `cli_cleanup` | one fault | `CleanupOnlyOwn` | violated | - |
| `provisioners` | eight setups, two faults, 6 names, 1 or 3 control planes | `TypeOK`, `OneFaultIsMended`, `OwnServersWork`, `AddressesApart`, `NoSurplusServers`, `ProvisioningCompletes` | holds | 175,726 |
| `settings` | five files, two neighbours, one a namesake, two edits, two destroys, one fault | `TypeOK`, `OperatorReadsTheApplied`, `InstallationEnds`, `OthersKept`, `DestroyLeavesNoRecord`, `BackupsArePreserved` | holds | 464,056 |

Each takes between some seconds and three minutes with two workers.

### Bounds

* *Names.* `Servers` and `Names` bound the names ever used: one more than the
  desired count where a replacement or a duplicate must be possible; the six of
  `provisioners` are never used up. Two servers to
  create is the least number with parallel creates, an order of configuration,
  and one failing while the other succeeds; three members is the least number
  where one failure leaves quorum; three workers towards two is the least with a
  choice for a scale-down, and none towards two with a parallel scale-up.
* *Faults.* In `ControlPlane` and `Workers` `Faults` picks kinds of failing calls,
  each of which may then fail any number of times; `workers` checks four sets of
  kinds separately. Elsewhere `MaxFaults` counts all failing calls, crashes and
  losses together: one suffices to fail any step; two to fail a repair (`apply`)
  or to reach the case in which two failing passes make the third skip
  (`provisioners`).
* *Trouble.* `MaxTrouble` bounds nodes in trouble at one time: one where the
  code's own precondition, a Ready majority, is to hold; two for workers, where
  healing one is to interfere with healing another.
* *Users.* One destroy, or two where what the first left matters to the second;
  two edits let the file of the first apply, of the last, and of the destroy
  differ. `MaxReapplies` 1 is a second apply beside a working operator.
* *Inputs.* The files of `settings`: nothing optional; everything; another domain
  with subdomains and a backup; the first domain with more workers; a domain
  without its token, which is rejected. The neighbours: one of another name, and
  `prod2` beside `prod`, whose records carry our marker too. The setups of
  `provisioners`: an apply, whose network is fixed; the operator with the default
  network; with another and a range for nodes; another without; one not written by
  its first address; a nodes' range with room for two roles of three; with the
  default where Hetzner asks for a zone; and with it where status has no address.
* *Deletions by hand* in `provisioners`: servers between two passes, infrastructure
  while there is no server, as a network in use cannot be deleted.

The proofs hold for every value of these constants that the assumptions allow.

### Fairness

* `ControlPlane`: a reconcile in progress takes its next step. Every outside call
  has a timeout, the loops run over finite slices and every goroutine sends one
  result. Nothing is asked of the world, nor that a call succeeds.
* `Provisioning`: the work queue and the informer go on; kubelets and Cilium's
  agents do their work; the command line runs on; a paused cluster is resumed.
  Every return of the reconciler asks for another one or is an error that the
  queue retries. Addons need no strong fairness, as faults are bounded.
* `Apply`: a running command goes on, an accepted deletion happens, and a user
  without a working cluster runs apply again.
* `Provisioners`: reconciles follow one another, a user whose apply failed applies
  again, and each call returns.
* `ClusterLife`: the operator's requeues. The user may stop anywhere, which is
  why deadlock is not checked there.

Each property that holds has a mutant in `PROJECT.json`, under which the same run
finds it violated.

## 4. What the runs show

Of the properties that hold, these say where the code's correctness is subtle:

* `TeardownJustified`, `NoDeleteAfterApply`: a control plane is deleted only while
  it is new and unconfigured, was stuck, or was chosen for replacement when a
  healthy majority remained without it. A node that took its configuration is
  given up by a reconcile only if the call was reported as failed.
* `HealingSparesHealthy`: pointers into the slice come to name other entries while
  workers are removed and appended; still no worker is deleted through them that
  was well, or that the same reconcile has just made. It is so because the loop
  ends at its first success: with `MaxHeals` 1, the operator's
  `maxConcurrentHeals`, no pointer is followed after a replacement was made for
  good. With 2 TLC finds a new, Ready worker torn down (section 6).
* `ScaleDownIsGradual`: what is removed from status is a prefix of the selection
  and not the workers removed; the servers deleted are nevertheless never too many.
* `PathSpec`: reconciles start from old copies, two writers overwrite one another,
  and still no phase is announced without the work before it.
* `WaitReturnsWhenDone`, `WaitEnds`: a waiting command line returns, and when it
  does, the addons are installed.
* `ApplyConverges`: whatever failing calls and destroys leave, a user who goes on
  running apply gets a working cluster, although apply takes the same path for "no
  cluster" and "cluster that does not answer".
* `OneFaultIsMended`: an apply's infrastructure phase is over only when everything is
  there, whatever failed, was lost or was half cleaned up before. The operator's
  makes good one fault. Two need not be: the second failing pass stores the IDs it
  found and the third takes the unfinished balancer for one the command line made.
* `OwnServersWork` is stated for servers a pass made itself, as one that an earlier
  pass left half-made is taken for finished.
* `ProvisioningCompletes`: an apply gets from an empty project, or from what failed
  applies and cleanups left of one, to a running control plane. Of the operator it
  says less, since from an empty project its code does not get there: it takes an
  endpoint to begin with (control planes in status, as the health check lists those
  of the cluster the operator runs in), a Hetzner that takes subnets without a
  zone, ranges that can be had, and a network that is not deleted once its ID is
  stored, since no pass makes it again. The run has all of these cases; the
  property says which of them end.
* `OperatorReadsTheApplied`: exactly which of two applies' settings the operator
  acts on. Pools and switches follow the last; the domain, subdomains, token and
  backup stay those of the first.
* `DestroyLeavesNoRecord`, `OthersKept`: with the domain of the first apply and no
  failing call all of the cluster's records go; of its neighbours' only those that
  contain its marker, which are all of a namesake's (section 6), never an address
  by its host alone or one whose host has changed hands since the list.
* `BackupsArePreserved` holds by two accidents: nothing writes the metadata file
  that destroy looks for, and the bucket's suffix is not the one destroy knows.

The violated properties:

* **`cp_duplicate`**. `reconcileControlPlanes` skips scaling "if CPs are already
  provisioning to prevent duplicate server creation". The test counts entries in
  an early phase, but the health check has just replaced every entry by one
  listed from Kubernetes, which has no phase. The guard never holds, and a server
  that has not registered is not counted: two ordinary reconciles make two
  servers for one place. Control planes are never scaled down again.
* **`cp_stuck_member`**. The design document lists "never delete after etcd
  join". An operator that stops during a scale-up leaves a timed entry; when it
  is back the entry has timed out and `handleStuckNode` deletes the server,
  before verification looks at it. The server may be a Ready member by then, and
  etcd still lists it.
* **`prov_later`**. After an update of the resource the command line says "The
  operator will now reconcile the changes." Addons are installed in the addons
  phase only, and a cluster that is complete never returns to it: an addon enabled
  by a later apply is never installed.
* **`cli_cleanup`**. `cleanupOnFailure` "destroys all resources created during a
  failed apply". It destroys whatever has the cluster's label. When apply does not
  recognise a working cluster (no kubeconfig in the directory, or an API that does
  not answer in three seconds) it goes down the pipeline, and if a step fails once
  the infrastructure has been ensured, the working cluster is deleted.

## 5. Proofs

For every value of the constants that the named assumptions allow. `PROJECT.json`
lists the theorems with the property each states. Every proof of an invariant
has one step per action and, below it, one per conjunct the action can disturb.

### ControlPlane_proofs

| theorem | states |
|---|---|
| `TypeCorrect` | `Spec => []TypeOK` |
| `Invariance` | `Spec => []IInv` |
| `ScaleUpIsBounded` | `Spec => []NoOvershoot` |
| `StatusHasNoPhantoms` | `Spec => []NoPhantomEntries` |
| `ConfigurationIsRecorded` | `Spec => []CrashLeavesTimedEntry` |
| `DeletionsAreJustified` | `Spec => TeardownJustified` |
| `AppliedIsKept` | `Spec => NoDeleteAfterApply` |

Assumed: what `ControlPlane` asks of its constants (finitely many servers, counts
that are numbers). None of the properties is inductive alone, since each relates
the decision a reconcile took to what it does many steps later. `IInv` adds what
has to be remembered in between:

* the shape of a reconcile: stages exist only while provisioning, stuck entries
  are timed ones, a target exists only once chosen and was late, with a healthy
  majority without it, when it was (`TargetChosen`);
* `UnmadeUnknown`: a server that was never made is untracked or Failed, and
  nothing outside knows it;
* `MadeIsTracked`: a server this reconcile made is tracked in an early phase
  until it is given up;
* `RoomToScaleUp`: at the moment names are drawn, the entries counted leave room
  for them; `NoOvershoot` then follows by counting, from the cardinality
  theorems of the library.

`DeletionsAreJustified` rests on `WhoDeletes`, which lists the only four actions
that delete a server.

### Workers_proofs

| theorem | states |
|---|---|
| `TypeCorrect` | `Spec => []TypeOK` |
| `Invariance` | `Spec => []IInv` |
| `ScaleUpIsExact` | `Spec => []ScaleUpFillsOnly` |
| `ScaleDownIsCareful` | `Spec => []ScaleDownIsGradual` |
| `HealthyAreSpared` | `Spec => HealingSparesHealthy`, if `MaxHeals = 1` |

Assumed: finitely many servers, counts that are numbers, at least one heal a
reconcile, faults among the listed kinds. The lemmas before the invariant say what
the operations on the status do to its array: an update keeps names and lateness,
an append writes the place after the slice and no other, a removal puts the last
entry in the place of the removed one; and that `InOrder`, the sort of the
selection for removal, lists each element of its set once (`InOrderSorts`, from
the ranks 0 up to the size of the set being taken once each). `IInv` is the types with

* `PointersHold`: the pointers healing has still to follow grow, and each names
  either a worker made in this reconcile or the late entry it was taken for, which
  no other pointer ahead names;
* `TargetIsApart`: the worker being torn down is listed before every pointer
  ahead, and none of these names it. So a removal copies the last entry into a
  place no pointer ahead has, and leaves the places behind it as they are, the one
  past the slice's new end among them; only an append overwrites that one, with a
  worker of this reconcile;
* `ReplacementIsLast`: a replacement is the only worker being provisioned and the
  last one listed, so giving it up moves nothing;
* `SelectionHolds`: what a scale-down goes through is the selection of the status it
  still has, since it takes nothing from status until it is over;
* `SuccessCounts`: while no success is counted, healing has made no worker for good;
  so where `MaxHeals` is 1 no pointer is followed that could name such a one;
* `LoopFits`, `StagesAreOver`, and `ScaleUpFillsOnly`, which is inductive beside them.

`ScaleDownIsCareful` then counts: the selection has as many entries as there is
surplus and lists the unhealthy first.

### Provisioning_proofs

| theorem | states |
|---|---|
| `TypeCorrect` | `Spec => []TypeOK` |
| `Invariance` | `Spec => []IInv` |
| `PathKept` | `Spec => PathSpec`: the machine implements `ProvisioningPath` |
| `AddonsOrderKept` | `Spec => []AddonsInOrder` |
| `WaitIsHonest` | `Spec => WaitReturnsWhenDone` |

Assumed: the numbers' types, and for all but `TypeCorrect` `Later = {}` (no apply
enables another addon; with one, the code leaves the path, as `prov_later` shows,
and a wait may end before an addon enabled while it lasted). The argument: every copy
of the status that may yet be written (the API server's, the cache's, the
reconcile's, the command line's) announces only what the world already has, and
the world's work only grows; so it does not matter which copy wins. `IInv` is
`TypeOK` with `CopiesFit` (that statement, per copy), `CLIBuilt` (what a cluster of
the command line has when its resource appears), `MarkerIsLast` (no marker without
a bootstrapped etcd), `LegacyHasPhase` and `CiliumInCNI`. The refinement is then
one step per action: it announces a phase the abstract specification allows, or
leaves the phase alone. `WaitIsHonest` needs a second invariant beside `IInv`,
`GroupsHold`: in a cluster of the command line's no copy of the status shows a
group Ready that was never asked for, or the cluster Running while one is missing.

### Apply_proofs

| theorem | states |
|---|---|
| `TypeCorrect` | `Spec => []TypeOK` |
| `Invariance` | `Spec => []IInv` |
| `CleanupIsThorough` | `Spec => []NothingLeftBehind` |
| `ManagedIsComplete` | `Spec => CRDComesLast` |
| `RerunSpares` | `Spec => RerunIsIdempotent` |

Assumed: which late creations there are, and numbers for the two bounds. `IInv` is
`TypeOK` with

* `MachineIsThere`, `PartsAreMade`: a machine has its server; what the pipeline has
  behind it exists, since nothing but a control plane whose deletion was accepted
  goes away under it (`CRDComesLast` is this at its last step);
* `WholeStays`, `WholeIsSpared`: a run that began with a whole cluster, and no
  failed call, still has it; so none of its steps finds a reason to bootstrap again
  or to clean up (the state of a machine decides, and a whole cluster's is never
  in maintenance mode);
* `ServersAreListed`, `KindsAreDeleted`: at each step of a cleanup that has collected
  no error, each kind behind it is gone or excused, whatever the operator makes
  meanwhile.

`PipelineLeads` and `CleanupLeads` say where a step may lead, `OneMaker` and
`OneDeleter` who makes the resource and who has a control plane deleted.

### Provisioners_proofs

| theorem | states |
|---|---|
| `TypeCorrect` | `Spec => []TypeOK` |
| `Invariance` | `Spec => []IInv` |
| `FirstFaultIsMended` | `Spec => []OneFaultIsMended` |
| `OwnServersRun` | `Spec => []OwnServersWork` |
| `AddressesAreApart` | `Spec => []AddressesApart` |
| `NoSurplus` | `Spec => NoSurplusServers` |

Assumed: ranges with a number for their base and a prefix of 0 to 32 bits, or none
written, and none for the command line (`SetupsAssumption`); 1, 3 or 5 control planes, which is what
validation lets through; any number of faults; and as many names as the largest
count asks for, since random names do not run out. `IInv` is the types with

* `PassHolds`: what a pass of the infrastructure phase has behind it is there,
  whatever was there before it began (one set of steps for each thing made);
* `FirstFault`: until a second thing goes wrong no ID is in the operator's status
  while anything is missing, so the pass after a fault does not skip the phase. This
  is where one fault and two differ;
* `ApplyHolds`: an apply reads no IDs and never skips the phase, so for it any number
  of faults is as good as none;
* `DoneHolds`: the pass that ends the phase has made everything, or began with all
  three IDs;
* `WorkHolds`, `PoolHolds`: how far each parallel task is and what its server has by
  then; a pass ensures the servers that are there, or these and new ones;
* `AddressesHold`: no server is in the network before the subnet is.

`AddressesAreApart` rests on arithmetic: a nodes' range that can be cut begins at a
multiple of 128; the control planes' subnet is its first 128 addresses, of which
servers get one of those counted 2 to 6, and the balancer gets the last but one of
the next 128 (`SubnetBlocks`, `ServerPlace`, `BalancerPlace`). The prover knows no
rule for a variable exponent, so the facts about powers are proved from the
concrete ones. `SubnetsFit` adds that the three roles' subnets lie in the network
and apart, which Hetzner asks for. `NoSurplus` counts: a pass ensures the servers
that are there, or these and new ones, all of different names, so a pool that has
as many as were asked for gets no other.

### ClusterLife_proofs

| theorem | states |
|---|---|
| `TypeCorrect` | `Spec => []TypeOK` |
| `Invariance` | `Spec => []IInv` |
| `AppliedIsRead` | `Spec => []OperatorReadsTheApplied` |
| `RecordsAreDeleted` | `Spec => []DestroyLeavesNoRecord` |
| `OtherRecordsAreKept` | `Spec => OthersKept` |
| `BackupsAreKept` | `Spec => BackupsArePreserved` |

Assumed: a name that is not empty and not a neighbour's. `IInv` is `TypeOK` with

* `ResourceIsBuilt`: the resource and its secrets are a fixed mix of the first and
  the last configuration applied;
* `HostsHaveOneOwner`, `DNSIsOurs`: a host's address and owner records are one
  cluster's, and the external-dns of this cluster works in its own name;
* `OursAreFound`: unless `dirty`, where this cluster's records may still be at each
  stage of a destroy: everywhere in the zone before it lists, in its list while
  it deletes, nowhere after.

`OthersKept` needs one more invariant, `QueueIsMarked`: what a destroy has listed
for deletion are records of owners in whose mark it finds its own. Nothing is
assumed of the names: which contain which is a parameter.

### Only model-checked

Liveness: `ReconcileTerminates`, `WaitEnds`, `ApplyConverges`,
`ProvisioningCompletes` and `InstallationEnds` stay with TLC, since the prover has
no rule for `ENABLED` and fairness. Every other property of a run that holds is
also a theorem. A violated property is refuted by TLC's counterexample.

## 6. Known gaps of the code

Met while modelling. They are in the model, or stated by the property that
excuses them, but no property claims their absence.

Operator:

* an etcd member whose removal fails is only logged, and its server is deleted
  (`controller/reconcile_healing.go:61`);
* a creation that fails after Hetzner made the server leaves a Failed entry
  without an address; the next health check drops it, and nobody looks for the
  server again (`controller/server_provisioning.go:247`);
* `maxConcurrentHeals` counts successes, so with failing calls every unhealthy
  worker is torn down in one reconcile
  (`controller/reconcile_scaling_workers.go:46`);
* with a larger `maxConcurrentHeals` than the operator's 1, a pointer may name the
  worker an earlier one was replaced by, since a replacement is removed from the
  slice it points into and appended to it: a new, Ready worker would be drained and
  deleted (`reconcile_scaling_workers.go:45`);
* a worker's node object is deleted before its server; if the server's deletion
  fails nothing counts it any more (`reconcile_scaling_workers.go:381`);
* Ready is compared with Desired for equality, so a surplus node keeps a cluster
  Degraded (`controller/reconcile_health.go:133`);
* the infrastructure phase asks for a control plane endpoint before it makes the
  balancer that would give one: in an empty project, with no control plane in
  status, no pass gets on (`controller/reconcile_phases.go:327`,
  `internal/operator/provisioning/spec_converter.go:278`);
* the operator's configuration has no network zone
  (`internal/operator/provisioning/spec_converter.go:34`), where the command line's
  has its region's (`internal/config/spec_expand.go:72`): it asks for subnets with an
  empty one (`internal/platform/hcloud/network.go:55`), which Hetzner documents as
  required;
* `spec.bootstrap` is optional and read without a nil test
  (`controller/cluster_controller.go:412`); the model has it always;
* a Talos backup skipped because its API is not there yet counts as installed and
  is not tried again, though its comment says it can be; in the model as a step of
  `InstallTalosBackup` that changes no bucket
  (`internal/addons/steps.go:201`).

Command line and Hetzner phases:

* a server half-made in one pass is taken for finished by the next;
* when the machine's public address cannot be read, the firewall has no rules for
  it (`internal/provisioning/infrastructure/network.go:31`);
* the server an image is built on carries no label of a cluster
  (`internal/provisioning/image/builder.go:87`);
* the retry helper runs its operation once more than the "up to MaxRetries times" of
  its comment (`internal/util/retry/retry.go:43`);
* a resource written by hand without a pod range gets 10.244.0.0/16
  (`api/v1alpha1/types.go:98`), one the command line writes 10.0.128.0/17
  (`internal/config/spec_versions.go:98`).

Settings and other services (all visible in `settings` as what
`OperatorReadsTheApplied`, `dirty` and `MarkedAs` say):

* `cert_email` and Argo CD's high availability are lost on the way to the operator;
* a later apply's domain and tokens never reach the operator; a backup enabled
  later is never installed, one removed is never switched off; Grafana has its
  subdomain only if the first apply had monitoring;
* destroy uses the domain of today's file, not that of the cluster; interrupted
  between a host's owner record and its address it leaves an address nobody
  finds;
* the marker destroy looks for is a part of a text: the records of a neighbour whose
  name begins with the cluster's go too (`internal/platform/cloudflare/client.go:147`).
  The run has such a neighbour, and `OthersKept` allows for it by name (`Marked`).

## 7. Not modelled

* Health and connectivity probes (`controller/reconcile_addon_health.go`,
  `reconcile_connectivity.go`, `reconcile_infra_health.go`): reports that no
  decision reads.
* `doctor`, `cost`, `secrets`, `init`, the interactive form, the terminal
  interface, benchmarks: they read and print.
* Rules for single values (name and domain patterns, regions, machine types) and
  settings that are the same in every file; the contents of charts, manifests and
  machine configurations: conversion without state. The cloud controller's, CSI's,
  metrics server's and Traefik's settings have no field a user may set.
* SSH: used within an image build, which is one step.
* `AttachBootstrapNodeToInfrastructure`: called in the infrastructure phase of a
  cluster whose bootstrap is complete, and such a cluster starts at the CNI phase.
* Phases outside the resource's enumeration, which the API server rejects.
* Leader election, informers and work queues belong to controller-runtime: that
  one reconcile of a resource runs at a time is taken from it, and that a cached
  copy may be old is modelled (`Provisioning`).
* Cordon and eviction: best effort, no decision reads the outcome.
* Pages of a list: read as one.

## 8. What could come next

* Cleanup and the operator in one module: `Apply` has the operator as a set of
  late creations, where `ControlPlane` and `Workers` have its reconciles.
