---------------------------- MODULE ControlPlane ----------------------------
(***************************************************************************)
(* The operator's reconcile loop for control planes: one Reconcile call is *)
(* a sequence of steps (pc), each of them one call to an outside API, and  *)
(* the world moves between any two of them.  The outside world is Hetzner  *)
(* (server), the Talos machine configuration (talos), etcd's member list   *)
(* (etcd) and the Kubernetes node objects (kube).  The operator keeps the  *)
(* node entries of the custom resource's status: `stored` is what the API  *)
(* server holds, `mem` is the copy the running reconcile works on.         *)
(*                                                                         *)
(* Time is abstracted: an entry in a timed phase may or may not be past    *)
(* its timeout when a reconcile looks (the reconcile may come late: the    *)
(* operator was down, the cluster was paused, or an earlier reconcile took *)
(* long), and a node that stays NotReady may pass the etcd threshold at    *)
(* any time ("late").  Every outside call may fail, each kind of call in   *)
(* the instances whose Faults have it; a call the code lets fail silently  *)
(* is a disjunct of its action.  Writing phases that only live in memory   *)
(* between two calls of one goroutine is folded into the later call.       *)
(* Workers, addons and the cluster phase are not part of this module.      *)
(***************************************************************************)
EXTENDS NodePhase, FiniteSets

CONSTANTS
  Servers,    \* names of control planes, present and future
  NoServer,   \* "no node is being replaced"
  Desired,    \* spec.controlPlanes.count
  Initial,    \* the sizes the cluster may have at first
  Faults,     \* the kinds of failure that may happen
  MaxTrouble  \* bound: machines and nodes in trouble at one time

ASSUME ServersAssumption == IsFiniteSet(Servers) /\ NoServer \notin Servers
ASSUME DesiredAssumption == Desired \in Nat \ {0}
ASSUME InitialAssumption == Initial \subseteq 1..Desired
ASSUME MaxTroubleAssumption == MaxTrouble \in Nat

\* "crash" the operator stops mid-reconcile    "write"  a status update fails
\* "list"  the node list cannot be read        "delete" a deletion fails
\* "create" a server cannot be made            "talos"  a Talos call fails
FaultKinds == {"crash", "write", "list", "delete", "create", "talos"}

ASSUME FaultsAssumption == Faults \subseteq FaultKinds

VARIABLES
  server,   \* "none", "up", "down" (exists, not running) or "gone"
  talos,    \* "maintenance", "configured" or "joined" (was an etcd member)
  etcd,     \* the member list
  kube,     \* "absent", "notReady", "late" or "ready"
  stored,   \* phases in the status the API server holds
  pc,       \* the step the reconcile is at
  mem,      \* phases in the reconcile's copy of the status
  view,     \* Healthy / UnhealthySince as the last health check listed them
  todo,     \* nodes the current loop has still to visit
  stage,    \* how far this reconcile has provisioned a node
  target    \* the control plane this reconcile replaces

worldVars == <<server, talos, etcd, kube>>
entryVars == <<mem, view>>
vars == <<worldVars, stored, pc, entryVars, todo, stage, target>>

Healths      == {"healthy", "unhealthy", "late"}
Stages       == {"none", "create", "await", "provisioned", "apply",
                 "failing", "wait", "done", "skipped"}
Steps        == {"idle", "stuck", "verify", "health", "running", "decide",
                 "removeEtcd", "deleteNode", "deleteServer", "prepare",
                 "provision", "configure", "finish"}

TypeOK ==
  /\ server \in [Servers -> ServerStates]
  /\ talos \in [Servers -> TalosStates]
  /\ etcd \subseteq Servers
  /\ kube \in [Servers -> KubeStates]
  /\ stored \in [Servers -> EntryPhases]
  /\ pc \in Steps
  /\ mem \in [Servers -> EntryPhases]
  /\ view \in [Servers -> Healths]
  /\ todo \subseteq Servers
  /\ stage \in [Servers -> Stages]
  /\ target \in Servers \cup {NoServer}

-----------------------------------------------------------------------------

\* A strict majority of the members runs, so the member list can change and
\* the Kubernetes API accepts writes.
HasQuorum ==
  2 * Cardinality({n \in etcd : server[n] = "up"}) > Cardinality(etcd)

Tracked      == {n \in Servers : mem[n] # Untracked}
Provisioning == {n \in Servers : mem[n] \in EarlyProvisioningPhases}
Ready        == {n \in Servers : view[n] = "healthy"}
Late         == {n \in Servers : view[n] = "late"}
QuorumNeeded == (Desired \div 2) + 1

InStage(S) == {n \in Servers : stage[n] \in S}

\* Names nothing has used yet (bound: Servers runs out).
Fresh == {n \in Servers : /\ server[n] = "none" /\ stage[n] = "none"
                          /\ mem[n] = Untracked /\ stored[n] = Untracked}

\* updateNodePhase: a phase other than Ready makes the entry unhealthy, and
\* UnhealthySince stays.
UpdateNodePhase(n, phase) ==
  /\ mem' = [mem EXCEPT ![n] = phase]
  /\ view' = [view EXCEPT ![n] = IF phase = "Ready" THEN "healthy"
                                 ELSE IF @ = "late" THEN "late"
                                 ELSE "unhealthy"]

RemoveNodeFromStatus(n) ==
  /\ mem' = [mem EXCEPT ![n] = Untracked]
  /\ view' = [view EXCEPT ![n] = "unhealthy"]

\* Mutant: the retry after a conflict writes the status it has just read.
PersistRereadStatus(status) ==
  \/ stored' = status
  \/ UNCHANGED stored

\* Status().Update of `status`, or its failure after the retries.
PersistStatus(status) ==
  \/ stored' = status
  \/ "write" \in Faults /\ UNCHANGED stored

\* DeleteServer by name is idempotent; callers swallow its errors.  The disk,
\* and with it the machine configuration, goes with the server.
DeleteServer(n) ==
  \/ /\ server' = [server EXCEPT ![n] = IF @ = "none" THEN "none" ELSE "gone"]
     /\ talos' = [talos EXCEPT ![n] = "maintenance"]
  \/ "delete" \in Faults /\ UNCHANGED <<server, talos>>

\* The in-memory state of an operator that is not reconciling.
Forget ==
  /\ pc' = "idle"
  /\ mem' = [n \in Servers |-> Untracked]
  /\ view' = [n \in Servers |-> "unhealthy"]
  /\ todo' = {}
  /\ stage' = [n \in Servers |-> "none"]
  /\ target' = NoServer

-----------------------------------------------------------------------------

\* A healthy cluster of a size up to Desired, as the command line's bootstrap
\* or an earlier scale-up leaves it.
Init ==
  \E cps \in SUBSET Servers :
    /\ Cardinality(cps) \in Initial
    /\ server = [n \in Servers |-> IF n \in cps THEN "up" ELSE "none"]
    /\ talos = [n \in Servers |-> IF n \in cps THEN "joined" ELSE "maintenance"]
    /\ etcd = cps
    /\ kube = [n \in Servers |-> IF n \in cps THEN "ready" ELSE "absent"]
    /\ stored = [n \in Servers |-> IF n \in cps THEN Listed ELSE Untracked]
    /\ pc = "idle"
    /\ mem = [n \in Servers |-> Untracked]
    /\ view = [n \in Servers |-> "unhealthy"]
    /\ todo = {}
    /\ stage = [n \in Servers |-> "none"]
    /\ target = NoServer

-----------------------------------------------------------------------------
(***************************************************************************)
(* reconcile: stuck nodes, verification, health check.                     *)
(***************************************************************************)

\* Get the resource and list its stuck nodes: any set of timed entries.
Fetch ==
  /\ pc = "idle"
  /\ mem' = stored
  /\ \E stuck \in SUBSET {n \in Servers : stored[n] \in TimedPhases} :
       todo' = stuck
  /\ pc' = "stuck"
  /\ UNCHANGED <<worldVars, stored, view, stage, target>>

\* Delete a stuck node's server and forget the node; etcd is not told.
HandleStuckNode(n) ==
  /\ pc = "stuck" /\ n \in todo
  /\ DeleteServer(n)
  /\ RemoveNodeFromStatus(n)
  /\ todo' = todo \ {n}
  /\ UNCHANGED <<etcd, kube, stored, pc, stage, target>>

StuckNodesHandled ==
  /\ pc = "stuck" /\ todo = {}
  /\ pc' = "verify"
  /\ UNCHANGED <<worldVars, stored, entryVars, todo, stage, target>>

Verifiable == {n \in Tracked : mem[n] \notin {"Failed", "DeletingServer"}}

\* The phases verification may leave node n with.
VerifiedPhases(n) ==
  {IF ShouldUpdatePhase(mem[n], p) THEN p ELSE mem[n] :
     p \in ProbedPhases[server[n]][talos[n]][kube[n]]}

\* Step 2 of reconcile: probe every node entry but the terminal ones.
VerifyNodeStates ==
  /\ pc = "verify"
  /\ \E verified \in
          [Verifiable -> UNION {VerifiedPhases(n) : n \in Verifiable}] :
       /\ \A n \in Verifiable : verified[n] \in VerifiedPhases(n)
       /\ mem' = [n \in Servers |->
                    IF n \in Verifiable THEN verified[n] ELSE mem[n]]
       /\ view' = [n \in Servers |->
                     IF mem'[n] = mem[n] THEN view[n]
                     ELSE IF mem'[n] = "Ready" THEN "healthy" ELSE "unhealthy"]
  /\ pc' = "health"
  /\ UNCHANGED <<worldVars, stored, todo, stage, target>>

\* Rebuild the entries from the Kubernetes node list alone: whatever the list
\* does not have is forgotten, and no entry keeps a phase.
HealthCheck ==
  /\ mem' = [n \in Servers |-> IF kube[n] = "absent" THEN Untracked ELSE Listed]
  /\ view' = [n \in Servers |-> CASE kube[n] = "ready" -> "healthy"
                                  [] kube[n] = "late"  -> "late"
                                  [] OTHER             -> "unhealthy"]

\* Step 3 of reconcile; a failing List is logged and ignored.
ReconcileHealth ==
  /\ pc = "health"
  /\ \/ HealthCheck
     \/ "list" \in Faults /\ UNCHANGED entryVars
  /\ pc' = "running"
  /\ UNCHANGED <<worldVars, stored, todo, stage, target>>

\* The running phase lists again; here a failing List ends the reconcile.
RunningHealthCheck ==
  /\ pc = "running"
  /\ \/ HealthCheck /\ pc' = "decide"
     \/ "list" \in Faults /\ UNCHANGED entryVars /\ pc' = "finish"
  /\ UNCHANGED <<worldVars, stored, todo, stage, target>>

-----------------------------------------------------------------------------
(***************************************************************************)
(* reconcileControlPlanes: scale up, replace one node, or do nothing.      *)
(***************************************************************************)

NeedsScaleUp == Provisioning = {} /\ Cardinality(Tracked) < Desired

\* Mutant: no look at how many control planes are healthy.
ReplaceableWithoutQuorum ==
  IF Provisioning = {} /\ ~NeedsScaleUp /\ Desired # 1 THEN Late ELSE {}

Replaceable ==
  IF /\ Provisioning = {} /\ ~NeedsScaleUp
     /\ Desired # 1
     /\ Cardinality(Ready) >= QuorumNeeded
  THEN Late ELSE {}

HandleCPScaleUp ==
  /\ pc = "decide" /\ NeedsScaleUp
  /\ pc' = "prepare"
  /\ UNCHANGED <<worldVars, stored, entryVars, todo, stage, target>>

ReplaceUnhealthyCP(n) ==
  /\ pc = "decide" /\ n \in Replaceable
  /\ target' = n
  /\ UpdateNodePhase(n, "RemovingFromEtcd")
  /\ pc' = "removeEtcd"
  /\ UNCHANGED <<worldVars, stored, todo, stage>>

LeaveControlPlanes ==
  /\ pc = "decide" /\ ~NeedsScaleUp /\ Replaceable = {}
  /\ pc' = "finish"
  /\ UNCHANGED <<worldVars, stored, entryVars, todo, stage, target>>

-----------------------------------------------------------------------------
(***************************************************************************)
(* replaceControlPlane.                                                    *)
(***************************************************************************)

\* Ask a healthy control plane to remove the member; without credentials,
\* without a healthy address, or on any error the code goes on regardless.
RemoveFromEtcd ==
  /\ pc = "removeEtcd"
  /\ \/ /\ \E n \in Ready : server[n] = "up"
        /\ HasQuorum
        /\ etcd' = etcd \ {target}
     \/ /\ "talos" \in Faults \/ ~HasQuorum \/ \E n \in Ready : server[n] # "up"
        /\ UNCHANGED etcd
  /\ UpdateNodePhase(target, "DeletingServer")
  /\ pc' = "deleteNode"
  /\ UNCHANGED <<server, talos, kube, stored, todo, stage, target>>

\* A failing Get skips the deletion; a failing Delete ends the reconcile.
DeleteKubeNode ==
  /\ pc = "deleteNode"
  /\ \/ kube' = [kube EXCEPT ![target] = "absent"] /\ pc' = "deleteServer"
     \/ /\ "delete" \in Faults
        /\ UNCHANGED kube
        /\ pc' \in {"deleteServer", "finish"}
  /\ UNCHANGED <<server, talos, etcd, stored, entryVars, todo, stage, target>>

DeleteOldServer ==
  /\ pc = "deleteServer"
  /\ DeleteServer(target)
  /\ RemoveNodeFromStatus(target)
  /\ pc' = "prepare"
  /\ UNCHANGED <<etcd, kube, stored, todo, stage, target>>

-----------------------------------------------------------------------------
(***************************************************************************)
(* Provisioning: servers in parallel, then configuration one by one.       *)
(***************************************************************************)

\* Mutant: the missing control planes are counted from the healthy ones.
ToCreateForReady ==
  IF target = NoServer THEN Desired - Cardinality(Ready) ELSE 1

ToCreate == IF target = NoServer THEN Desired - Cardinality(Tracked) ELSE 1

PrepareForProvisioning ==
  /\ pc = "prepare"
  /\ \/ /\ pc' = "provision"
        /\ \E names \in SUBSET Fresh :
             /\ Cardinality(names) = ToCreate
             /\ stage' = [n \in Servers |->
                            IF n \in names THEN "create" ELSE "none"]
     \/ /\ "create" \in Faults \/ Cardinality(Fresh) < ToCreate
        /\ pc' = "finish"
        /\ UNCHANGED stage
  /\ UNCHANGED <<worldVars, stored, entryVars, todo, target>>

\* Mutant: a refused create leaves the entry in CreatingServer.
CreateServerUnmarked(n) ==
  /\ pc = "provision" /\ stage[n] = "create"
  /\ \/ /\ server' = [server EXCEPT ![n] = "up"]
        /\ stage' = [stage EXCEPT ![n] = "await"]
        /\ UpdateNodePhase(n, "WaitingForIP")
     \/ /\ "create" \in Faults
        /\ stage' = [stage EXCEPT ![n] = "none"]
        /\ UpdateNodePhase(n, "CreatingServer")
        /\ UNCHANGED server
  /\ UNCHANGED <<talos, etcd, kube, stored, pc, todo, target>>

\* Mutant: the goroutine whose create is refused returns without a result.
CreateServerSilent(n) ==
  /\ pc = "provision" /\ stage[n] = "create" /\ mem[n] # "Failed"
  /\ \/ /\ server' = [server EXCEPT ![n] = "up"]
        /\ stage' = [stage EXCEPT ![n] = "await"]
        /\ UpdateNodePhase(n, "WaitingForIP")
     \/ /\ "create" \in Faults
        /\ UpdateNodePhase(n, "Failed")
        /\ UNCHANGED <<server, stage>>
  /\ UNCHANGED <<talos, etcd, kube, stored, pc, todo, target>>

\* The create call: done, refused, or reported failed with the server made
\* (attaching it to the network or starting it failed; nobody configures it).
CreateServer(n) ==
  /\ pc = "provision" /\ stage[n] = "create"
  /\ \/ /\ server' = [server EXCEPT ![n] = "up"]
        /\ stage' = [stage EXCEPT ![n] = "await"]
        /\ UpdateNodePhase(n, "WaitingForIP")
     \/ /\ "create" \in Faults
        /\ server' \in {server, [server EXCEPT ![n] = "down"]}
        /\ stage' = [stage EXCEPT ![n] = "none"]
        /\ UpdateNodePhase(n, "Failed")
  /\ UNCHANGED <<talos, etcd, kube, stored, pc, todo, target>>

\* The server's address and ID arrive, or the server is cleaned up again.
AwaitServer(n) ==
  /\ pc = "provision" /\ stage[n] = "await"
  /\ \/ /\ stage' = [stage EXCEPT ![n] = "provisioned"]
        /\ UNCHANGED <<server, talos, entryVars>>
     \/ /\ "create" \in Faults
        /\ stage' = [stage EXCEPT ![n] = "none"]
        /\ DeleteServer(n)
        /\ RemoveNodeFromStatus(n)
  /\ UNCHANGED <<etcd, kube, stored, pc, todo, target>>

AllCreated == pc = "provision" /\ InStage({"create", "await"}) = {}

\* Every goroutine has reported: record the new servers before configuring.
PersistProvisioned ==
  /\ AllCreated
  /\ target = NoServer \/ InStage({"provisioned"}) # {}
  /\ PersistStatus(mem)
  /\ pc' = "configure"
  /\ UNCHANGED <<worldVars, entryVars, todo, stage, target>>

ReplacementNotCreated ==
  /\ AllCreated
  /\ target # NoServer /\ InStage({"provisioned"}) = {}
  /\ pc' = "finish"
  /\ UNCHANGED <<worldVars, stored, entryVars, todo, stage, target>>

Configuring == InStage({"apply", "failing", "wait"})

BeginConfigure(n) ==
  /\ pc = "configure" /\ stage[n] = "provisioned" /\ Configuring = {}
  /\ UpdateNodePhase(n, "WaitingForTalosAPI")
  /\ PersistStatus(mem')
  /\ stage' = [stage EXCEPT ![n] = "apply"]
  /\ UNCHANGED <<worldVars, pc, todo, target>>

\* The credentials could not be loaded, which the reconcile finds out once for
\* all its nodes: the server is left unconfigured and the node counts as done.
SkipConfig(n) ==
  /\ "talos" \in Faults
  /\ pc = "configure" /\ stage[n] = "apply" /\ InStage({"done"}) = {}
  /\ UpdateNodePhase(n, "WaitingForK8s")
  /\ PersistStatus(mem')
  /\ stage' = [stage EXCEPT ![n] = "skipped"]
  /\ UNCHANGED <<worldVars, pc, todo, target>>

\* The configuration is applied and acknowledged; the node reboots with it.
ApplyConfig(n) ==
  /\ pc = "configure" /\ stage[n] = "apply" /\ InStage({"skipped"}) = {}
  /\ server[n] = "up"
  /\ talos' = [talos EXCEPT ![n] = "configured"]
  /\ UpdateNodePhase(n, "WaitingForK8s")
  /\ stage' = [stage EXCEPT ![n] = "wait"]
  /\ UNCHANGED <<server, etcd, kube, stored, pc, todo, target>>

\* The call reports an error: nothing happened, or only the answer was lost.
ApplyConfigFails(n) ==
  /\ pc = "configure" /\ stage[n] = "apply" /\ InStage({"skipped"}) = {}
  /\ "talos" \in Faults \/ server[n] # "up"
  /\ \/ server[n] = "up" /\ talos' = [talos EXCEPT ![n] = "configured"]
     \/ UNCHANGED talos
  /\ stage' = [stage EXCEPT ![n] = "failing"]
  /\ UNCHANGED <<server, etcd, kube, stored, pc, entryVars, todo, target>>

\* handleProvisioningFailure; the error ends the whole scale-up.
AbortConfig(n) ==
  /\ pc = "configure" /\ stage[n] = "failing"
  /\ DeleteServer(n)
  /\ RemoveNodeFromStatus(n)
  /\ stage' = [stage EXCEPT ![n] = "none"]
  /\ pc' = "finish"
  /\ UNCHANGED <<etcd, kube, stored, todo, target>>

\* The kubelet runs: go on with the next server.
CPReady(n) ==
  /\ pc = "configure" /\ stage[n] = "wait" /\ server[n] = "up"
  /\ UpdateNodePhase(n, "NodeInitializing")
  /\ PersistStatus(mem')
  /\ stage' = [stage EXCEPT ![n] = "done"]
  /\ UNCHANGED <<worldVars, pc, todo, target>>

\* Mutant: a control plane that is late is torn down as a worker is.
CPReadyTimeoutDeletes(n) ==
  /\ "talos" \in Faults
  /\ pc = "configure" /\ stage[n] = "wait"
  /\ DeleteServer(n)
  /\ RemoveNodeFromStatus(n)
  /\ stage' = [stage EXCEPT ![n] = "none"]
  /\ pc' = "finish"
  /\ UNCHANGED <<etcd, kube, stored, todo, target>>

\* Not ready in time: the server is kept, the rest of the scale-up is not done.
CPReadyTimeout(n) ==
  /\ "talos" \in Faults \/ server[n] # "up" \/ ~HasQuorum
  /\ pc = "configure" /\ stage[n] = "wait"
  /\ UpdateNodePhase(n, "WaitingForK8s")
  /\ stage' = [stage EXCEPT ![n] = "done"]
  /\ pc' = "finish"
  /\ UNCHANGED <<worldVars, stored, todo, target>>

AllConfigured ==
  /\ pc = "configure" /\ InStage({"provisioned"}) \cup Configuring = {}
  /\ pc' = "finish"
  /\ UNCHANGED <<worldVars, stored, entryVars, todo, stage, target>>

-----------------------------------------------------------------------------
(***************************************************************************)
(* The end of a reconcile, and its sudden end.                             *)
(***************************************************************************)

UpdateStatus ==
  /\ pc = "finish"
  /\ PersistStatus(mem)
  /\ Forget
  /\ UNCHANGED worldVars

\* The operator dies or loses the lease; a new one starts from `stored`.
Crash ==
  /\ "crash" \in Faults
  /\ pc # "idle"
  /\ Forget
  /\ UNCHANGED <<worldVars, stored>>

-----------------------------------------------------------------------------
(***************************************************************************)
(* The world, as the operator's code relies on it.                         *)
(***************************************************************************)

operatorVars == <<stored, pc, entryVars, todo, stage, target>>

\* Nodes whose machine does not run, or that are not Ready.
InTrouble ==
  {n \in Servers : server[n] = "down" \/ kube[n] \in {"notReady", "late"}}

\* A configured control plane joins etcd once; a removed member stays out.
JoinEtcd(n) ==
  /\ server[n] = "up" /\ talos[n] = "configured" /\ HasQuorum
  /\ talos' = [talos EXCEPT ![n] = "joined"]
  /\ etcd' = etcd \cup {n}
  /\ UNCHANGED <<server, kube, operatorVars>>

RegisterNode(n) ==
  /\ server[n] = "up" /\ talos[n] # "maintenance" /\ HasQuorum
  /\ kube[n] = "absent"
  /\ kube' = [kube EXCEPT ![n] = "notReady"]
  /\ UNCHANGED <<server, talos, etcd, operatorVars>>

NodeBecomesReady(n) ==
  /\ server[n] = "up" /\ kube[n] \in {"notReady", "late"}
  /\ kube' = [kube EXCEPT ![n] = "ready"]
  /\ UNCHANGED <<server, talos, etcd, operatorVars>>

NodeBecomesNotReady(n) ==
  /\ kube[n] = "ready" /\ Cardinality(InTrouble) < MaxTrouble
  /\ kube' = [kube EXCEPT ![n] = "notReady"]
  /\ UNCHANGED <<server, talos, etcd, operatorVars>>

\* NotReady for longer than the etcd threshold.
NotReadyTooLong(n) ==
  /\ kube[n] = "notReady"
  /\ kube' = [kube EXCEPT ![n] = "late"]
  /\ UNCHANGED <<server, talos, etcd, operatorVars>>

MachineDies(n) ==
  /\ server[n] = "up" /\ Cardinality(InTrouble \ {n}) < MaxTrouble
  /\ server' = [server EXCEPT ![n] = "down"]
  /\ UNCHANGED <<talos, etcd, kube, operatorVars>>

\* The cloud controller drops the node object of a server that is gone.
NodeCollected(n) ==
  /\ server[n] = "gone" /\ kube[n] \in {"notReady", "late"}
  /\ kube' = [kube EXCEPT ![n] = "absent"]
  /\ UNCHANGED <<server, talos, etcd, operatorVars>>

-----------------------------------------------------------------------------

NodeStep(n) ==
  \/ HandleStuckNode(n) \/ ReplaceUnhealthyCP(n)
  \/ CreateServer(n) \/ AwaitServer(n) \/ BeginConfigure(n) \/ SkipConfig(n)
  \/ ApplyConfig(n) \/ ApplyConfigFails(n) \/ AbortConfig(n)
  \/ CPReady(n) \/ CPReadyTimeout(n)

ReconcileStep ==
  \/ StuckNodesHandled \/ VerifyNodeStates \/ ReconcileHealth
  \/ RunningHealthCheck
  \/ HandleCPScaleUp \/ LeaveControlPlanes
  \/ RemoveFromEtcd \/ DeleteKubeNode \/ DeleteOldServer
  \/ PrepareForProvisioning \/ PersistProvisioned \/ ReplacementNotCreated
  \/ AllConfigured \/ UpdateStatus

World(n) ==
  \/ JoinEtcd(n) \/ RegisterNode(n) \/ NodeBecomesReady(n)
  \/ NodeBecomesNotReady(n) \/ NotReadyTooLong(n) \/ MachineDies(n)
  \/ NodeCollected(n)

\* The steps a reconcile in progress takes.
Reconcile == ReconcileStep \/ \E n \in Servers : NodeStep(n)

Next == Fetch \/ Reconcile \/ Crash \/ \E n \in Servers : World(n)

Spec == Init /\ [][Next]_vars

-----------------------------------------------------------------------------
(***************************************************************************)
(* What the reconcile loop promises.                                       *)
(***************************************************************************)

\* A step that deletes a server that existed.
Deleted(n) == server[n] \in {"up", "down"} /\ server'[n] = "gone"

\* A scale-up never makes more servers than the decision to scale up found
\* missing, whatever fails on the way, and a replacement makes at most one,
\* after the old node is forgotten (scaleUpControlPlanes,
\* provisionReplacementCP).
NoOvershoot ==
  pc \in {"provision", "configure"} =>
    IF target = NoServer
    THEN Cardinality(Tracked \cup InStage(Stages \ {"none"})) <= Desired
    ELSE /\ Cardinality(InStage(Stages \ {"none"})) <= 1
         /\ mem[target] = Untracked

\* Status, in memory or stored, never counts a control plane that was never
\* made unless it is marked Failed: an entry left behind by a failed create call
\* would pass for a server (provisionServer, persistClusterStatus).
NoPhantomEntries ==
  \A n \in Servers :
    server[n] = "none" =>
      /\ mem[n] \in {Untracked, "Failed"}
      /\ stored[n] \in {Untracked, "Failed"}

\* Every deletion has its reason: the stored entry timed out; or the node was
\* chosen for replacement when it was late and a majority of the desired count
\* was seen healthy without it; or this reconcile made the server and could not
\* bring it to the point where its configuration is acknowledged.
TeardownJustified ==
  [][\A n \in Servers :
       Deleted(n) =>
         \/ pc = "stuck" /\ stored[n] \in TimedPhases
         \/ /\ n = target
            /\ view[n] = "late"
            /\ 2 * Cardinality(Ready \ {n}) > Desired
         \/ stage[n] \in {"await", "failing"}]_vars

\* Once a configuration is acknowledged the node may be an etcd member: the
\* reconcile that applied it keeps the server whatever happens afterwards
\* (configureCPNode's CRITICAL note, waitForCPReady).
NoDeleteAfterApply ==
  [][\A n \in Servers : stage[n] \in {"wait", "done"} => ~Deleted(n)]_vars

\* While a server is being configured its stored entry carries a timed phase,
\* so that an operator that starts after a crash finds it and can time it out.
\* Holds only when status updates succeed (updateNodePhaseAndPersist).
CrashLeavesTimedEntry ==
  "write" \notin Faults =>
    \A n \in InStage({"apply", "failing", "wait", "done", "skipped"}) :
      stored[n] \in TimedPhases

(***************************************************************************)
(* Progress.                                                               *)
(***************************************************************************)

\* A reconcile in progress takes its next step: every outside call has a
\* timeout and every loop over nodes or results is finite.
FairSpec == Spec /\ WF_vars(Reconcile)

\* Every reconcile comes to its end, waiting for all its goroutines' results,
\* with no step it could wait on for ever.
ReconcileTerminates == pc # "idle" ~> pc = "idle"

(***************************************************************************)
(* What the documents and comments say, and the code does not keep.        *)
(***************************************************************************)

\* "Skip scaling if CPs are already provisioning to prevent duplicate server
\* creation": no scale-up while the stored status says a server that runs is
\* still being provisioned.
ScaleUpWaitsForProvisioning ==
  pc = "decide" /\ NeedsScaleUp =>
    \A n \in Servers :
      stored[n] \in EarlyProvisioningPhases => server[n] # "up"

\* "Never delete after etcd join": the cleanup of stuck nodes does not delete a
\* running member whose node is Ready.
StuckCleanupSparesMembers ==
  [][\A n \in etcd :
       pc = "stuck" /\ server[n] = "up" /\ kube[n] = "ready" => ~Deleted(n)]_vars

=============================================================================
