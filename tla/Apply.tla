-------------------------------- MODULE Apply --------------------------------
(***************************************************************************)
(* The command line's apply and destroy over what exists at Hetzner.       *)
(*                                                                         *)
(* Apply looks for a managed cluster through the kubeconfig of the working *)
(* directory; whatever keeps it from finding one sends it down the whole   *)
(* bootstrap pipeline: files, image, infrastructure, one control plane,    *)
(* etcd and its marker, kubeconfig, load balancer health, operator, CRD.   *)
(* Every step ensures what it needs, so that a later run goes on where an  *)
(* earlier one stopped; a failure once the infrastructure is up destroys   *)
(* everything that has the cluster's label, as destroy does.  The process  *)
(* may stop at any step, the operator it installs works beside it, and the *)
(* user may run either command again and again.                            *)
(*                                                                         *)
(* A step is the calls between two points where another actor matters; a   *)
(* failing one leaves a prefix of what it makes.                           *)
(***************************************************************************)
EXTENDS Naturals, Sequences, FiniteSets

CONSTANTS
  MaxFaults,   \* bound: calls that fail, stops of the process, directories lost
  MaxDestroys, \* bound: destroy commands
  Late         \* bound: what the operator and the cloud controller may make

ASSUME LateAssumption == Late \subseteq {"w1", "w2", "sshKey", "ccmLB"}
ASSUME BoundsAssumption == MaxFaults \in Nat /\ MaxDestroys \in Nat

VARIABLES
  cmd,        \* the command running
  pc,         \* its step
  cloud,      \* what exists at Hetzner
  dying,      \* servers whose deletion was accepted
  machine,    \* the control plane's machine
  trusts,     \* it was configured with the secrets of the working directory
  endpoint,   \* it was configured with the address of the load balancer there is
  attached,   \* it is in the network there is
  inCluster,  \* what apply put into the cluster
  secrets,    \* the working directory has secrets.yaml
  kubeconfig, \* it has a kubeconfig
  listed,     \* the servers the running cleanup found
  cleanErr,   \* an error the running cleanup has collected
  excused,    \* what it could not delete and only logged, or came after its list
  found,      \* the run began with a whole cluster of this directory's secrets
  hitch,      \* a call of this run has failed
  faults, destroys

dirVars   == <<secrets, kubeconfig>>
nodeVars  == <<machine, trusts, endpoint, attached, inCluster>>
cleanVars == <<listed, cleanErr, excused>>
vars == <<cmd, pc, cloud, dying, nodeVars, dirVars, cleanVars, found, hitch,
          faults, destroys>>

Servers == {"cp", "w1", "w2"}

\* What carries the cluster's labels, which a destroy selects by.
Labelled == Servers \cup {"network", "firewall", "loadBalancer", "targets",
                          "placementGroup", "sshKey", "marker"}

\* A cloud controller's balancer has a label of its own.  The server an image
\* is built on, and the snapshot it becomes, belong to no cluster.
Things == Labelled \cup {"ccmLB", "snapshot", "buildServer"}

InfrastructureSteps == <<"network", "firewall", "loadBalancer", "targets">>
Balancer == {"loadBalancer", "targets"}

\* Mutant: certificates are not in CleanupByLabel's list.
CleanupOrderWithoutCertificates ==
  <<"loadBalancers", "ccmLoadBalancers", "firewalls", "networks",
    "placementGroups", "sshKeys">>

\* CleanupByLabel's order, after the servers.  (No volume carries the labels.)
CleanupOrder ==
  <<"loadBalancers", "ccmLoadBalancers", "firewalls", "networks",
    "placementGroups", "sshKeys", "certificates">>

Selects(kind) ==
  CASE kind = "loadBalancers"    -> Balancer
    [] kind = "ccmLoadBalancers" -> {"ccmLB"}
    [] kind = "firewalls"        -> {"firewall"}
    [] kind = "networks"         -> {"network"}
    [] kind = "placementGroups"  -> {"placementGroup"}
    [] kind = "sshKeys"          -> {"sshKey"}
    [] OTHER                     -> {"marker"}

Pipeline == {"check", "files", "image", "build", "infra", "compute", "bootstrap",
             "etcd", "marker", "kubeconfig", "write", "health", "operator", "crd",
             "status"}
CleanupSteps == {"servers", "delete", "wait", "finish"} \cup
                {"loadBalancers", "ccmLoadBalancers", "firewalls", "networks",
                 "placementGroups", "sshKeys", "certificates"}

TypeOK ==
  /\ cmd \in {"none", "apply", "destroy"} /\ pc \in {"idle"} \cup Pipeline \cup CleanupSteps
  /\ cloud \subseteq Things /\ dying \subseteq Servers /\ listed \subseteq Servers
  /\ machine \in {"none", "maintenance", "configured", "etcd"}
  /\ trusts \in BOOLEAN /\ endpoint \in BOOLEAN /\ attached \in BOOLEAN
  /\ inCluster \subseteq {"operator", "crd"}
  /\ secrets \in BOOLEAN /\ kubeconfig \in BOOLEAN
  /\ cleanErr \in BOOLEAN /\ excused \subseteq Things
  /\ found \in BOOLEAN /\ hitch \in BOOLEAN
  /\ faults \in 0..MaxFaults /\ destroys \in 0..MaxDestroys

\* A Kubernetes API behind the balancer, which has private targets.
Healthy == machine = "etcd" /\ attached /\ Balancer \cup {"network"} \subseteq cloud

\* The same through the kubeconfig's address, with its credentials.
Reachable == Healthy /\ endpoint /\ trusts

\* A cluster that works: its operator reconciles, its API can be reached.
Managed ==
  /\ Healthy /\ endpoint
  /\ dying = {} /\ inCluster = {"operator", "crd"}

\* It works, and has every part that apply makes; the directory has its secrets.
Whole ==
  Managed /\ trusts /\ {"firewall", "placementGroup", "marker"} \subseteq cloud

Prefix(s, n) == {s[i] : i \in 1..n}

-----------------------------------------------------------------------------

Init ==
  /\ cmd = "none" /\ pc = "idle"
  /\ cloud = {} /\ dying = {}
  /\ machine = "none" /\ inCluster = {}
  /\ trusts = FALSE /\ endpoint = FALSE /\ attached = FALSE
  /\ secrets = FALSE /\ kubeconfig = FALSE
  /\ listed = {} /\ cleanErr = FALSE /\ excused = {}
  /\ found = FALSE /\ hitch = FALSE
  /\ faults = 0 /\ destroys = 0

-----------------------------------------------------------------------------
(***************************************************************************)
(* How a step ends.                                                        *)
(***************************************************************************)

\* The step is done, whatever the next one is.
Continue(next) ==
  /\ pc' = next
  /\ UNCHANGED <<cmd, found, hitch, faults, destroys>>

\* A call fails, and the command goes to step next; or the process stops.
Fails(next) ==
  /\ faults < MaxFaults /\ faults' = faults + 1
  /\ hitch' = TRUE
  /\ pc' \in {next, "idle"}
  /\ UNCHANGED <<cmd, found, destroys>>

\* Nothing of a cleanup outlives its command.
ForgetCleanup == listed' = {} /\ cleanErr' = FALSE /\ excused' = {}

\* runBootstrapPipeline's deferred cleanup, once the infrastructure is up; a
\* process that stops runs none.
OnFailure == "servers"

-----------------------------------------------------------------------------
(***************************************************************************)
(* Apply.                                                                  *)
(***************************************************************************)

StartApply ==
  /\ pc = "idle"
  /\ cmd' = "apply" /\ pc' = "check"
  /\ found' = Whole /\ hitch' = FALSE
  /\ ForgetCleanup
  /\ UNCHANGED <<cloud, dying, nodeVars, dirVars, faults, destroys>>

\* checkOperatorManaged, in three seconds: any error is "not managed".  A
\* managed cluster gets a new spec (Provisioning's Reapply).
CheckOperatorManaged ==
  /\ pc = "check"
  /\ IF kubeconfig /\ Reachable /\ "crd" \in inCluster
     THEN Continue("idle") \/ Fails("files")
     ELSE Continue("files")
  /\ UNCHANGED <<cloud, dying, nodeVars, dirVars, cleanVars>>

\* getOrGenerateSecrets and writeTalosFiles.
WriteTalosFiles ==
  /\ pc = "files"
  /\ \/ secrets' = TRUE /\ Continue("image")
     \/ secrets' \in {secrets, TRUE} /\ Fails("idle")
  /\ UNCHANGED <<cloud, dying, nodeVars, kubeconfig, cleanVars>>

\* ensureImageForArch: the snapshot there is, or a server to build it on.
EnsureImage ==
  /\ pc = "image"
  /\ \/ /\ "snapshot" \in cloud
        /\ Continue("infra")
        /\ cloud' = cloud
     \/ /\ "snapshot" \notin cloud
        /\ Continue("build")
        /\ cloud' = cloud \cup {"buildServer"}
     \/ /\ Fails("idle")
        /\ cloud' = cloud
  /\ UNCHANGED <<dying, nodeVars, dirVars, cleanVars>>

\* Build: the server and its key are deleted whether it fails or not, and a
\* failure to delete them is only logged.
BuildImage ==
  /\ pc = "build"
  /\ \/ /\ Continue("infra")
        /\ cloud' = (cloud \cup {"snapshot"}) \ {"buildServer"}
     \/ /\ Fails("idle")
        /\ cloud' \in {cloud, cloud \ {"buildServer"}}
     \/ /\ Fails("infra")
        /\ cloud' = cloud \cup {"snapshot"}
  /\ UNCHANGED <<dying, nodeVars, dirVars, cleanVars>>

\* infrastructure.Provision.  Before it is through, a failure cleans nothing.
ProvisionInfrastructure ==
  /\ pc = "infra"
  /\ \/ /\ Continue("compute")
        /\ cloud' = cloud \cup Prefix(InfrastructureSteps, 4)
     \/ /\ Fails("idle")
        /\ \E n \in 0..3 : cloud' = cloud \cup Prefix(InfrastructureSteps, n)
  /\ UNCHANGED <<dying, nodeVars, dirVars, cleanVars>>

\* The first control plane: the server the label finds, or a new one.
Made(things) ==
  /\ cloud' = cloud \cup things
  /\ IF "cp" \in things \ cloud
     THEN machine' = "maintenance" /\ attached' = TRUE
     ELSE UNCHANGED <<machine, attached>>

\* compute.Provision, one control plane and no workers.  Its own SSH key is
\* deleted in the end, unless that fails or the process stops.
ProvisionFirstControlPlane ==
  /\ pc = "compute"
  /\ \/ /\ Continue("bootstrap")
        /\ Made({"placementGroup", "cp"})
     \/ /\ Fails("bootstrap")
        /\ Made({"placementGroup", "cp", "sshKey"})
     \/ /\ Fails(OnFailure)
        /\ \E k \in SUBSET {"sshKey"}, t \in {{}, {"placementGroup"}, {"placementGroup", "cp"}} :
             Made(k \cup t)
  /\ UNCHANGED <<dying, trusts, endpoint, inCluster, dirVars, cleanVars>>

\* isNodeInMaintenanceMode: it takes no authenticated connection, and an insecure one.
InMaintenanceMode == machine = "maintenance"

\* The machine takes its first configuration, made from the directory's
\* secrets and the balancer's address.
Configure ==
  /\ machine' = "configured" /\ trusts' = TRUE /\ endpoint' = TRUE
  /\ UNCHANGED <<attached, inCluster>>

\* Mutant: no marker is looked for.
BootstrapWithoutMarker ==
  /\ pc = "bootstrap"
  /\ \/ InMaintenanceMode /\ Configure /\ Continue("etcd")
     \/ InMaintenanceMode /\ Configure /\ Fails(OnFailure)
     \/ ~InMaintenanceMode /\ Continue(OnFailure) /\ UNCHANGED nodeVars
     \/ Fails(OnFailure) /\ UNCHANGED nodeVars
  /\ UNCHANGED <<cloud, dying, dirVars, cleanVars>>

\* BootstrapCluster.  With the marker, a machine in maintenance mode is a new
\* node and gets its configuration, and a kubeconfig that cannot be had is no
\* error here, but the pipeline's next line makes it one.  Without it, or when
\* asking for it fails, the machine must be one that was never configured.
BootstrapCluster ==
  /\ pc = "bootstrap"
  /\ \/ /\ "marker" \in cloud /\ InMaintenanceMode
        /\ Configure
        /\ Continue("write")
     \/ /\ "marker" \in cloud /\ machine \in {"configured", "etcd"} /\ trusts
        /\ Continue("write")
        /\ UNCHANGED nodeVars
     \/ /\ "marker" \in cloud
        /\ machine = "none" \/ (~InMaintenanceMode /\ ~trusts)
        /\ Continue(OnFailure)
        /\ UNCHANGED nodeVars
     \/ /\ "marker" \notin cloud /\ InMaintenanceMode
        /\ Configure
        /\ Continue("etcd")
     \/ /\ "marker" \notin cloud /\ ~InMaintenanceMode
        /\ Continue(OnFailure)
        /\ UNCHANGED nodeVars
     \/ /\ InMaintenanceMode /\ Configure   \* the answer is lost
        /\ Fails(OnFailure)
     \/ /\ Fails(OnFailure)
        /\ UNCHANGED nodeVars
  /\ UNCHANGED <<cloud, dying, dirVars, cleanVars>>

\* waitForControlPlaneReady and bootstrapEtcd.
BootstrapEtcd ==
  /\ pc = "etcd"
  /\ \/ /\ machine = "configured" /\ machine' = "etcd"
        /\ Continue("marker") \/ Fails(OnFailure)
     \/ /\ machine = "configured" /\ machine' = machine
        /\ Fails(OnFailure)
     \/ /\ machine # "configured" /\ machine' = machine
        /\ Continue(OnFailure)
  /\ UNCHANGED <<cloud, dying, trusts, endpoint, attached, inCluster, dirVars, cleanVars>>

\* Mutant: a marker that cannot be made is only logged.
CreateStateMarkerLogged ==
  /\ pc = "marker"
  /\ \/ cloud' = cloud \cup {"marker"} /\ Continue("kubeconfig")
     \/ cloud' = cloud /\ Fails("kubeconfig")
  /\ UNCHANGED <<dying, nodeVars, dirVars, cleanVars>>

\* createStateMarker: a certificate whose presence says that etcd was bootstrapped.
CreateStateMarker ==
  /\ pc = "marker"
  /\ \/ cloud' = cloud \cup {"marker"} /\ Continue("kubeconfig")
     \/ cloud' \in {cloud, cloud \cup {"marker"}} /\ Fails(OnFailure)
  /\ UNCHANGED <<dying, nodeVars, dirVars, cleanVars>>

RetrieveKubeconfig ==
  /\ pc = "kubeconfig"
  /\ \/ machine = "etcd" /\ Continue("write")
     \/ machine # "etcd" /\ Continue(OnFailure)
     \/ Fails(OnFailure)
  /\ UNCHANGED <<cloud, dying, nodeVars, dirVars, cleanVars>>

WriteKubeconfig ==
  /\ pc = "write"
  /\ \/ kubeconfig' = TRUE /\ Continue("health")
     \/ kubeconfig' = kubeconfig /\ Fails(OnFailure)
  /\ UNCHANGED <<cloud, dying, nodeVars, secrets, cleanVars>>

\* waitForLBHealth: a Kubernetes API behind the balancer, or a timeout.
WaitForLBHealth ==
  /\ pc = "health"
  /\ \/ Healthy /\ Continue("operator")
     \/ ~Healthy /\ Continue(OnFailure)
     \/ Fails(OnFailure)
  /\ UNCHANGED <<cloud, dying, nodeVars, dirVars, cleanVars>>

\* A step that works through the kubeconfig, and puts something into the cluster.
Install(what, next) ==
  /\ \/ Reachable /\ inCluster' = inCluster \cup what /\ Continue(next)
     \/ Reachable /\ inCluster' \in {inCluster, inCluster \cup what} /\ Fails(OnFailure)
     \/ ~Reachable /\ inCluster' = inCluster /\ Continue(OnFailure)
  /\ UNCHANGED <<cloud, dying, machine, trusts, endpoint, attached, dirVars, cleanVars>>

\* installOperatorOnly with its ten tries.
InstallOperator == pc = "operator" /\ Install({"operator"}, "crd")

\* Access data, namespace, secrets and the K8znerCluster; one that exists stays.
CreateClusterCRD == pc = "crd" /\ Install({"crd"}, "status")

\* updateClusterStatus (its conflict with the operator's writes is a failure).
WriteFirstStatus == pc = "status" /\ Install({}, "idle")

-----------------------------------------------------------------------------
(***************************************************************************)
(* Destroy, and the cleanup after a failed apply.                          *)
(***************************************************************************)

StartDestroy ==
  /\ pc = "idle" /\ destroys < MaxDestroys
  /\ destroys' = destroys + 1
  /\ cmd' = "destroy" /\ pc' = "servers"
  /\ found' = FALSE /\ hitch' = FALSE
  /\ ForgetCleanup
  /\ UNCHANGED <<cloud, dying, nodeVars, dirVars, faults>>

\* Mutant: the label selects more than servers.
ListServersAndMore ==
  /\ pc = "servers"
  /\ Continue("delete")
  /\ listed' = cloud \cap Labelled /\ cleanErr' = FALSE
  /\ excused' = {}
  /\ UNCHANGED <<cloud, dying, nodeVars, dirVars>>

\* deleteServersByLabel lists the servers once.
ListServers ==
  /\ pc = "servers"
  /\ \/ /\ Continue("delete")
        /\ listed' = cloud \cap Servers /\ cleanErr' = FALSE
     \/ /\ Fails("loadBalancers")
        /\ listed' = {} /\ cleanErr' = TRUE
  /\ excused' = {}
  /\ UNCHANGED <<cloud, dying, nodeVars, dirVars>>

\* A server that cannot be deleted is only logged.
DeleteServers ==
  /\ pc = "delete"
  /\ \/ /\ Continue("wait")
        /\ dying' = dying \cup (listed \cap cloud)
        /\ UNCHANGED excused
     \/ \E s \in listed :
          /\ Fails("wait")
          /\ dying' = dying \cup ((listed \cap cloud) \ {s})
          /\ excused' = excused \cup {s}
  /\ UNCHANGED <<cloud, nodeVars, dirVars, listed, cleanErr>>

\* The wait ends when no server is left, after five minutes when one that is
\* not being deleted stays, or when listing fails.
AwaitServers ==
  /\ pc = "wait"
  /\ \/ /\ listed = {} \/ cloud \cap Servers \subseteq {} \/ (cloud \cap Servers) \ dying # {}
        /\ Continue("loadBalancers")
     \/ Fails("loadBalancers")
  /\ UNCHANGED <<cloud, dying, nodeVars, dirVars, cleanVars>>

NextKind(kind) ==
  LET i == CHOOSE j \in DOMAIN CleanupOrder : CleanupOrder[j] = kind
  IN IF i = Len(CleanupOrder) THEN "finish" ELSE CleanupOrder[i + 1]

\* Mutant: what cannot be deleted is only logged.
DeleteResourcesLogged(kind) ==
  /\ pc = kind
  /\ \/ /\ Continue(NextKind(kind))
        /\ cloud' = cloud \ Selects(kind)
        /\ endpoint' = (endpoint /\ kind # "loadBalancers")
        /\ attached' = (attached /\ kind # "networks")
     \/ /\ Fails(NextKind(kind))
        /\ UNCHANGED <<cloud, endpoint, attached>>
  /\ UNCHANGED <<dying, machine, trusts, inCluster, dirVars, cleanVars>>

\* deleteResourcesByLabel and its like.  Networks and placement groups may
\* refuse while a server is in them.  Errors are collected, save that a
\* firewall that cannot be deleted is only logged.
DeleteResources(kind) ==
  /\ pc = kind
  /\ \/ /\ Continue(NextKind(kind))
        /\ cloud' = cloud \ Selects(kind)
        /\ endpoint' = (endpoint /\ kind # "loadBalancers")
        /\ attached' = (attached /\ kind # "networks")
        /\ UNCHANGED <<cleanErr, excused>>
     \/ /\ IF kind \in {"networks", "placementGroups"} /\ cloud \cap Servers # {}
           THEN Continue(NextKind(kind)) \/ Fails(NextKind(kind))
           ELSE Fails(NextKind(kind))
        /\ IF kind = "firewalls"
           THEN excused' = excused \cup Selects(kind) /\ cleanErr' = cleanErr
           ELSE cleanErr' = TRUE /\ excused' = excused
        /\ UNCHANGED <<cloud, endpoint, attached>>
  /\ UNCHANGED <<dying, machine, trusts, inCluster, dirVars, listed>>

\* Destroy's DNS records and buckets are other services'; their errors are logged.
Finish ==
  /\ pc = "finish"
  /\ cmd' = "none" /\ pc' = "idle" /\ found' = FALSE /\ hitch' = FALSE
  /\ ForgetCleanup
  /\ UNCHANGED <<cloud, dying, nodeVars, dirVars, faults, destroys>>

-----------------------------------------------------------------------------
(***************************************************************************)
(* Hetzner, the operator, and the user's directory.                        *)
(***************************************************************************)

ServerGone(s) ==
  /\ s \in dying
  /\ dying' = dying \ {s} /\ cloud' = cloud \ {s}
  /\ IF s = "cp"
     THEN /\ machine' = "none" /\ inCluster' = {}
          /\ trusts' = FALSE /\ endpoint' = FALSE /\ attached' = FALSE
     ELSE UNCHANGED nodeVars
  /\ UNCHANGED <<cmd, pc, dirVars, cleanVars, found, hitch, faults, destroys>>

\* The operator makes workers, and SSH keys to make them with, the cloud
\* controller its balancers, for as long as the control plane runs.
OperatorCreates(t) ==
  /\ machine = "etcd" /\ inCluster = {"operator", "crd"} /\ t \notin cloud
  /\ cloud' = cloud \cup {t}
  /\ excused' = IF pc \in CleanupSteps \ {"servers"} THEN excused \cup {t} ELSE excused
  /\ UNCHANGED <<cmd, pc, dying, nodeVars, dirVars, listed, cleanErr, found, hitch,
                 faults, destroys>>

OperatorDropsKey ==
  /\ machine = "etcd" /\ inCluster = {"operator", "crd"} /\ "sshKey" \in cloud
  /\ cloud' = cloud \ {"sshKey"}
  /\ UNCHANGED <<cmd, pc, dying, nodeVars, dirVars, cleanVars, found, hitch, faults,
                 destroys>>

\* The user goes on in a directory without the kubeconfig, or without any file.
LoseFiles ==
  /\ pc = "idle"
  /\ \/ /\ kubeconfig /\ kubeconfig' = FALSE
        /\ UNCHANGED <<secrets, trusts, faults>>
     \/ /\ secrets /\ faults < MaxFaults /\ faults' = faults + 1
        /\ secrets' = FALSE /\ kubeconfig' = FALSE /\ trusts' = FALSE
  /\ UNCHANGED <<cmd, pc, cloud, dying, machine, endpoint, attached, inCluster, cleanVars, found,
                 hitch, destroys>>

-----------------------------------------------------------------------------

PipelineStep ==
  \/ CheckOperatorManaged \/ WriteTalosFiles \/ EnsureImage \/ BuildImage
  \/ ProvisionInfrastructure \/ ProvisionFirstControlPlane \/ BootstrapCluster
  \/ BootstrapEtcd \/ CreateStateMarker \/ RetrieveKubeconfig \/ WriteKubeconfig
  \/ WaitForLBHealth \/ InstallOperator \/ CreateClusterCRD \/ WriteFirstStatus

CleanupStep ==
  \/ ListServers \/ DeleteServers \/ AwaitServers
  \/ \E i \in DOMAIN CleanupOrder : DeleteResources(CleanupOrder[i])
  \/ Finish

Next ==
  \/ StartApply \/ PipelineStep
  \/ StartDestroy \/ CleanupStep
  \/ \E s \in Servers : ServerGone(s)
  \/ \E t \in Late : OperatorCreates(t)
  \/ OperatorDropsKey \/ LoseFiles

Spec == Init /\ [][Next]_vars

\* A command that runs goes on, a deletion that was accepted happens, and a
\* user without a working cluster runs apply again.
FairSpec ==
  /\ Spec
  /\ WF_vars(PipelineStep) /\ WF_vars(CleanupStep)
  /\ \A s \in Servers : WF_vars(ServerGone(s))
  /\ WF_vars(~Managed /\ StartApply)

-----------------------------------------------------------------------------
(***************************************************************************)
(* Properties.                                                             *)
(***************************************************************************)

\* Whatever failing calls, stopped processes and destroys leave behind, a user
\* who keeps running apply comes to have a working cluster, for good.
ApplyConverges == <>[]Managed

\* When a destroy or a cleanup ends without an error, nothing with the
\* cluster's labels is left but what it logged, servers still being deleted,
\* and what the operator made after the servers had been listed.
NothingLeftBehind ==
  pc = "finish" /\ ~cleanErr => cloud \cap Labelled \subseteq excused \cup dying

\* The K8znerCluster, by which a cluster counts as managed, is made last: on a
\* cluster whose every part exists, whichever of several runs made which.
CRDComesLast ==
  [][ "crd" \in inCluster' \ inCluster =>
        /\ Reachable /\ secrets /\ kubeconfig
        /\ "operator" \in inCluster
        /\ {"firewall", "placementGroup", "cp", "marker"} \subseteq cloud ]_vars

\* Running apply again on a working cluster, from a directory with its secrets,
\* never deletes it unless a call of that run fails ("All operations are
\* idempotent").
RerunIsIdempotent ==
  [][ "cp" \in dying' \ dying /\ cmd = "apply" /\ found => hitch ]_vars

\* A failed apply's cleanup destroys what that apply created, never a cluster
\* that worked when it began.
CleanupOnlyOwn == [][ "cp" \in dying' \ dying /\ cmd = "apply" => ~found ]_vars
=============================================================================
