------------------------------ MODULE NodePhase ------------------------------
(***************************************************************************)
(* The lifecycle phases the operator writes into status.*.nodes[].phase,   *)
(* and the pure functions over them: which phases carry a timeout, which   *)
(* count as early provisioning, which phase a set of probes implies and    *)
(* whether a probed phase may overwrite the recorded one.                  *)
(*                                                                         *)
(* Two values stand beside the thirteen named phases.  Listed is the empty *)
(* string: the health check rebuilds every entry from the Kubernetes node  *)
(* list without setting Phase.  Untracked says that status has no entry    *)
(* for the node at all.                                                    *)
(***************************************************************************)
EXTENDS Naturals

Listed    == ""
Untracked == "untracked"

\* The order of the phases, as shouldUpdatePhase lists them.
PhaseOrder ==
  [CreatingServer      |-> 1,  WaitingForIP       |-> 2,
   WaitingForTalosAPI  |-> 3,  ApplyingTalosConfig |-> 4,
   RebootingWithConfig |-> 5,  WaitingForK8s      |-> 6,
   NodeInitializing    |-> 7,  Ready              |-> 8,
   Unhealthy           |-> 9,  Draining           |-> 10,
   RemovingFromEtcd    |-> 11, DeletingServer     |-> 12,
   Failed              |-> 13]

NodePhases == DOMAIN PhaseOrder

\* What a node's slot in status can hold.
EntryPhases == NodePhases \cup {Listed, Untracked}

\* Phases before a node is a working member of the cluster.
EarlyProvisioningPhases ==
  {"CreatingServer", "WaitingForIP", "WaitingForTalosAPI",
   "ApplyingTalosConfig", "RebootingWithConfig", "WaitingForK8s",
   "NodeInitializing"}

\* Phases with a timeout: a node found in one of them for too long is stuck.
TimedPhases ==
  EarlyProvisioningPhases
    \cup {"Draining", "RemovingFromEtcd", "DeletingServer"}

\* May a phase derived from probes replace the recorded one?  Forward only,
\* except that Ready and Failed, and phases outside the order, always win.
ShouldUpdatePhase(current, new) ==
  \/ new \in {"Failed", "Ready"}
  \/ current \notin NodePhases
  \/ new \notin NodePhases
  \/ PhaseOrder[new] > PhaseOrder[current]

(***************************************************************************)
(* Probes of one node: the Hetzner server, the Talos API, the node object. *)
(***************************************************************************)
NodeStateInfo ==
  [serverExists      : BOOLEAN,
   serverStatus      : {"running", "starting", "other"},
   talosAPIReachable : BOOLEAN,
   maintenanceMode   : BOOLEAN,
   talosConfigured   : BOOLEAN,
   kubeletRunning    : BOOLEAN,
   k8sNodeExists     : BOOLEAN,
   k8sNodeReady      : BOOLEAN]

\* Mutant: Hetzner's status is passed on as if it were a phase.
DetermineNodePhaseByStatus(info) ==
  IF info.k8sNodeExists THEN
    IF info.k8sNodeReady THEN "Ready" ELSE "WaitingForK8s"
  ELSE info.serverStatus

\* The phase the probes imply: the node object first, then Talos, then Hetzner.
DetermineNodePhaseFromState(info) ==
  IF info.k8sNodeExists THEN
    IF info.k8sNodeReady THEN "Ready"
    ELSE IF info.kubeletRunning THEN "NodeInitializing" ELSE "WaitingForK8s"
  ELSE IF info.talosConfigured THEN
    IF info.kubeletRunning THEN "WaitingForK8s" ELSE "RebootingWithConfig"
  ELSE IF info.maintenanceMode THEN "WaitingForTalosAPI"
  ELSE IF info.talosAPIReachable THEN "ApplyingTalosConfig"
  ELSE IF ~info.serverExists THEN "Failed"
  ELSE CASE info.serverStatus = "running"  -> "WaitingForTalosAPI"
         [] info.serverStatus = "starting" -> "WaitingForIP"
         [] OTHER                          -> "CreatingServer"

-----------------------------------------------------------------------------
(***************************************************************************)
(* The world the probes look at, for one node.                             *)
(***************************************************************************)

ServerStates == {"none", "up", "down", "gone"}
TalosStates  == {"maintenance", "configured", "joined"}
KubeStates   == {"absent", "notReady", "late", "ready"}

\* What the probes may report of a node in a given state.  Any API may be
\* unreachable, and a Talos error other than "maintenance mode" reads as
\* "configured".
Probes(serverState, talosState, kubeState) ==
  {i \in NodeStateInfo :
     /\ i.serverExists => serverState \in {"up", "down"}
     /\ i.serverStatus = "running" => i.serverExists /\ serverState = "up"
     /\ i.serverStatus = "starting" => i.serverExists
     /\ i.talosAPIReachable => serverState = "up"
     /\ i.talosConfigured \/ i.maintenanceMode => i.talosAPIReachable
     /\ ~(i.talosConfigured /\ i.maintenanceMode)
     /\ i.maintenanceMode => talosState = "maintenance"
     /\ i.kubeletRunning => i.talosConfigured /\ talosState # "maintenance"
     /\ i.k8sNodeExists => kubeState # "absent"
     /\ i.k8sNodeReady = (i.k8sNodeExists /\ kubeState = "ready")}

ProbedPhases ==
  [s \in ServerStates |-> [t \in TalosStates |-> [k \in KubeStates |->
     {DetermineNodePhaseFromState(i) : i \in Probes(s, t, k)}]]]

=============================================================================
