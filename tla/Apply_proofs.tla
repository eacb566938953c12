---------------------------- MODULE Apply_proofs ----------------------------
(***************************************************************************)
(* Proofs about Apply: for every number of faults and destroys and every   *)
(* set of late creations, what a cleanup leaves behind, what a cluster has *)
(* when it comes to count as managed, and that applying again spares a     *)
(* working cluster.  That applying converges stays with TLC.               *)
(***************************************************************************)
EXTENDS Apply, TLAPS

-----------------------------------------------------------------------------
(***************************************************************************)
(* The invariant.                                                          *)
(***************************************************************************)

\* A machine is that of the server there is.
MachineIsThere == machine # "none" => "cp" \in cloud

\* The steps of the pipeline behind some of them.
AfterFiles ==
  {"image", "build", "infra", "compute", "bootstrap", "etcd", "marker", "kubeconfig",
   "write", "health", "operator", "crd", "status"}
AfterInfrastructure == AfterFiles \ {"image", "build", "infra"}
AfterCompute  == AfterInfrastructure \ {"compute"}
AfterMarker   == AfterCompute \ {"bootstrap", "etcd", "marker"}
AfterWrite    == AfterMarker \ {"kubeconfig", "write"}
AfterOperator == AfterWrite \ {"health", "operator"}

\* What a run has behind it is there: of all that, only the control plane can go
\* while the pipeline is under way.
PartsAreMade ==
  /\ pc \in AfterFiles => secrets = TRUE
  /\ pc \in AfterInfrastructure => {"network", "firewall"} \cup Balancer \subseteq cloud
  /\ pc \in AfterCompute => "placementGroup" \in cloud
  /\ pc \in AfterMarker => "marker" \in cloud
  /\ pc \in AfterWrite => kubeconfig = TRUE
  /\ pc \in AfterOperator => machine = "none" \/ "operator" \in inCluster

\* A run that began with a whole cluster has one, until one of its calls fails; it
\* bootstraps nothing and cleans nothing up.
WholeStays == pc \in Pipeline /\ found = TRUE /\ hitch = FALSE => Whole
WholeIsSpared ==
  /\ pc \in {"etcd", "marker", "kubeconfig"} /\ found = TRUE => hitch = TRUE
  /\ pc \in CleanupSteps /\ cmd = "apply" /\ found = TRUE => hitch = TRUE

\* A cleanup without an error has each server in its list, then on its way out.
ServersAreListed ==
  cleanErr = FALSE =>
    /\ pc = "delete" => cloud \cap Servers \subseteq listed \cup excused
    /\ pc \in CleanupSteps \ {"servers", "delete"} =>
         cloud \cap Servers \subseteq dying \cup excused

\* The steps of a cleanup behind the deletion of a kind of resource.
AfterPart ==
  [loadBalancers   |-> {"ccmLoadBalancers", "firewalls", "networks", "placementGroups",
                        "sshKeys", "certificates", "finish"},
   firewalls       |-> {"networks", "placementGroups", "sshKeys", "certificates", "finish"},
   networks        |-> {"placementGroups", "sshKeys", "certificates", "finish"},
   placementGroups |-> {"sshKeys", "certificates", "finish"},
   sshKeys         |-> {"certificates", "finish"},
   certificates    |-> {"finish"}]

\* A cleanup without an error has deleted the kinds behind it.
KindsAreDeleted ==
  cleanErr = FALSE =>
    /\ pc \in AfterPart.loadBalancers   => cloud \cap Balancer \subseteq excused
    /\ pc \in AfterPart.firewalls       => cloud \cap {"firewall"} \subseteq excused
    /\ pc \in AfterPart.networks        => cloud \cap {"network"} \subseteq excused
    /\ pc \in AfterPart.placementGroups => cloud \cap {"placementGroup"} \subseteq excused
    /\ pc \in AfterPart.sshKeys         => cloud \cap {"sshKey"} \subseteq excused
    /\ pc \in AfterPart.certificates    => cloud \cap {"marker"} \subseteq excused

IInv ==
  /\ TypeOK
  /\ MachineIsThere /\ PartsAreMade /\ WholeStays /\ WholeIsSpared
  /\ ServersAreListed /\ KindsAreDeleted

-----------------------------------------------------------------------------
(***************************************************************************)
(* The order of a cleanup.                                                 *)
(***************************************************************************)

Kinds == {"loadBalancers", "ccmLoadBalancers", "firewalls", "networks",
          "placementGroups", "sshKeys", "certificates"}

\* The order lists the kinds.
LEMMA OrderedKinds ==
  /\ DOMAIN CleanupOrder = 1..7 /\ Len(CleanupOrder) = 7
  /\ \A i \in DOMAIN CleanupOrder : CleanupOrder[i] \in Kinds
BY DEF CleanupOrder, Kinds

\* The kind after each.
LEMMA NextKinds ==
  /\ NextKind("loadBalancers") = "ccmLoadBalancers"
  /\ NextKind("ccmLoadBalancers") = "firewalls"
  /\ NextKind("firewalls") = "networks"
  /\ NextKind("networks") = "placementGroups"
  /\ NextKind("placementGroups") = "sshKeys"
  /\ NextKind("sshKeys") = "certificates"
  /\ NextKind("certificates") = "finish"
<1>1. NextKind("loadBalancers") = "ccmLoadBalancers"
  <2>1. \A j \in 1..7 : CleanupOrder[j] = "loadBalancers" <=> j = 1
    BY DEF CleanupOrder
  <2>2. (CHOOSE j \in DOMAIN CleanupOrder : CleanupOrder[j] = "loadBalancers") = 1
    BY <2>1, OrderedKinds
  <2> QED BY <2>2, OrderedKinds DEF NextKind, CleanupOrder
<1>2. NextKind("ccmLoadBalancers") = "firewalls"
  <2>1. \A j \in 1..7 : CleanupOrder[j] = "ccmLoadBalancers" <=> j = 2
    BY DEF CleanupOrder
  <2>2. (CHOOSE j \in DOMAIN CleanupOrder : CleanupOrder[j] = "ccmLoadBalancers") = 2
    BY <2>1, OrderedKinds
  <2> QED BY <2>2, OrderedKinds DEF NextKind, CleanupOrder
<1>3. NextKind("firewalls") = "networks"
  <2>1. \A j \in 1..7 : CleanupOrder[j] = "firewalls" <=> j = 3
    BY DEF CleanupOrder
  <2>2. (CHOOSE j \in DOMAIN CleanupOrder : CleanupOrder[j] = "firewalls") = 3
    BY <2>1, OrderedKinds
  <2> QED BY <2>2, OrderedKinds DEF NextKind, CleanupOrder
<1>4. NextKind("networks") = "placementGroups"
  <2>1. \A j \in 1..7 : CleanupOrder[j] = "networks" <=> j = 4
    BY DEF CleanupOrder
  <2>2. (CHOOSE j \in DOMAIN CleanupOrder : CleanupOrder[j] = "networks") = 4
    BY <2>1, OrderedKinds
  <2> QED BY <2>2, OrderedKinds DEF NextKind, CleanupOrder
<1>5. NextKind("placementGroups") = "sshKeys"
  <2>1. \A j \in 1..7 : CleanupOrder[j] = "placementGroups" <=> j = 5
    BY DEF CleanupOrder
  <2>2. (CHOOSE j \in DOMAIN CleanupOrder : CleanupOrder[j] = "placementGroups") = 5
    BY <2>1, OrderedKinds
  <2> QED BY <2>2, OrderedKinds DEF NextKind, CleanupOrder
<1>6. NextKind("sshKeys") = "certificates"
  <2>1. \A j \in 1..7 : CleanupOrder[j] = "sshKeys" <=> j = 6
    BY DEF CleanupOrder
  <2>2. (CHOOSE j \in DOMAIN CleanupOrder : CleanupOrder[j] = "sshKeys") = 6
    BY <2>1, OrderedKinds
  <2> QED BY <2>2, OrderedKinds DEF NextKind, CleanupOrder
<1>7. NextKind("certificates") = "finish"
  <2>1. \A j \in 1..7 : CleanupOrder[j] = "certificates" <=> j = 7
    BY DEF CleanupOrder
  <2>2. (CHOOSE j \in DOMAIN CleanupOrder : CleanupOrder[j] = "certificates") = 7
    BY <2>1, OrderedKinds
  <2> QED BY <2>2, OrderedKinds DEF NextKind, CleanupOrder
<1> QED BY <1>1, <1>2, <1>3, <1>4, <1>5, <1>6, <1>7

\* Every deletion of a kind is one of these.
LEMMA DeletedKinds ==
  ASSUME NEW i \in DOMAIN CleanupOrder, DeleteResources(CleanupOrder[i])
  PROVE  \E kind \in Kinds : DeleteResources(kind)
BY OrderedKinds

-----------------------------------------------------------------------------
(***************************************************************************)
(* The initial states.                                                     *)
(***************************************************************************)

\* Nothing exists and nothing runs.
LEMMA InitIInv == Init => IInv
<1> SUFFICES ASSUME Init PROVE IInv
  OBVIOUS
<1>1. TypeOK
  <2>1. 0 \in 0..MaxFaults /\ 0 \in 0..MaxDestroys
    BY BoundsAssumption
  <2> QED BY <2>1 DEF Init, TypeOK
<1>2. MachineIsThere /\ PartsAreMade
  BY DEF Init, MachineIsThere, PartsAreMade, AfterFiles, AfterInfrastructure, AfterCompute,
         AfterMarker, AfterWrite, AfterOperator
<1>3. WholeStays /\ WholeIsSpared
  BY DEF Init, WholeStays, WholeIsSpared
<1>4. ServersAreListed /\ KindsAreDeleted
  BY DEF Init, ServersAreListed, KindsAreDeleted
<1> QED BY <1>1, <1>2, <1>3, <1>4 DEF IInv

-----------------------------------------------------------------------------
(***************************************************************************)
(* Where the steps lead.                                                   *)
(***************************************************************************)

\* A step of the pipeline goes on in it, ends the run or starts the cleanup.
LEMMA PipelineLeads ==
  ASSUME PipelineStep
  PROVE  pc \in Pipeline /\ pc' \in Pipeline \cup {"idle", "servers"}
<1>1. ASSUME \/ CheckOperatorManaged \/ WriteTalosFiles \/ EnsureImage \/ BuildImage
             \/ ProvisionInfrastructure
      PROVE  pc \in Pipeline /\ pc' \in Pipeline \cup {"idle", "servers"}
  BY <1>1
  DEF CheckOperatorManaged, WriteTalosFiles, EnsureImage, BuildImage,
      ProvisionInfrastructure, Continue, Fails, Pipeline
<1>2. ASSUME ProvisionFirstControlPlane \/ BootstrapCluster \/ BootstrapEtcd
      PROVE  pc \in Pipeline /\ pc' \in Pipeline \cup {"idle", "servers"}
  BY <1>2
  DEF ProvisionFirstControlPlane, BootstrapCluster, BootstrapEtcd, Continue, Fails,
      OnFailure, Pipeline
<1>3. ASSUME CreateStateMarker \/ RetrieveKubeconfig \/ WriteKubeconfig \/ WaitForLBHealth
      PROVE  pc \in Pipeline /\ pc' \in Pipeline \cup {"idle", "servers"}
  BY <1>3
  DEF CreateStateMarker, RetrieveKubeconfig, WriteKubeconfig, WaitForLBHealth, Continue,
      Fails, OnFailure, Pipeline
<1>4. ASSUME InstallOperator \/ CreateClusterCRD \/ WriteFirstStatus
      PROVE  pc \in Pipeline /\ pc' \in Pipeline \cup {"idle", "servers"}
  BY <1>4
  DEF InstallOperator, CreateClusterCRD, WriteFirstStatus, Install, Continue, Fails,
      OnFailure, Pipeline
<1> QED
  BY <1>1, <1>2, <1>3, <1>4 DEF PipelineStep

\* A step of a cleanup goes on in it or ends the command, and forgets no failed call.
LEMMA CleanupLeads ==
  ASSUME CleanupStep
  PROVE  /\ pc \in CleanupSteps /\ pc' \in CleanupSteps \cup {"idle"}
         /\ pc' # "idle" => cmd' = cmd /\ found' = found /\ (hitch = TRUE => hitch' = TRUE)
<1> DEFINE Leads ==
      /\ pc \in CleanupSteps /\ pc' \in CleanupSteps \cup {"idle"}
      /\ pc' # "idle" => cmd' = cmd /\ found' = found /\ (hitch = TRUE => hitch' = TRUE)
<1>1. ASSUME ListServers \/ DeleteServers \/ AwaitServers \/ Finish PROVE Leads
  BY <1>1
  DEF ListServers, DeleteServers, AwaitServers, Finish, Continue, Fails, CleanupSteps
<1>2. ASSUME NEW kind \in Kinds, DeleteResources(kind) PROVE Leads
  BY <1>2, NextKinds DEF DeleteResources, Continue, Fails, CleanupSteps, Kinds
<1> QED
  BY <1>1, <1>2, DeletedKinds DEF CleanupStep

-----------------------------------------------------------------------------
(***************************************************************************)
(* Types.  TypeOK has five parts.                                          *)
(***************************************************************************)

StepTypes ==
  cmd \in {"none", "apply", "destroy"} /\ pc \in {"idle"} \cup Pipeline \cup CleanupSteps
SetTypes ==
  /\ cloud \subseteq Things /\ dying \subseteq Servers
  /\ listed \subseteq Servers /\ excused \subseteq Things
NodeTypes ==
  /\ machine \in {"none", "maintenance", "configured", "etcd"}
  /\ trusts \in BOOLEAN /\ endpoint \in BOOLEAN /\ attached \in BOOLEAN
  /\ inCluster \subseteq {"operator", "crd"}
RunTypes ==
  /\ secrets \in BOOLEAN /\ kubeconfig \in BOOLEAN /\ cleanErr \in BOOLEAN
  /\ found \in BOOLEAN /\ hitch \in BOOLEAN
CountTypes == faults \in 0..MaxFaults /\ destroys \in 0..MaxDestroys

\* These are all.
LEMMA TypeParts ==
  TypeOK <=> StepTypes /\ SetTypes /\ NodeTypes /\ RunTypes /\ CountTypes
BY DEF TypeOK, StepTypes, SetTypes, NodeTypes, RunTypes, CountTypes

\* What the steps add to what exists are things.
LEMMA ThingsThere ==
  /\ Servers \subseteq Things /\ Late \subseteq Things
  /\ {"cp", "network", "firewall", "loadBalancer", "targets", "placementGroup", "sshKey",
      "marker", "snapshot", "buildServer"} \subseteq Things
  /\ \A kind \in Kinds : Selects(kind) \subseteq Things
BY LateAssumption DEF Things, Labelled, Servers, Selects, Kinds, Balancer

\* The command and its step.
LEMMA StepTypesNext ==
  ASSUME StepTypes, [Next]_vars
  PROVE  StepTypes'
<1> USE DEF StepTypes, Pipeline, CleanupSteps, Kinds
<1>1. ASSUME StartApply PROVE StepTypes'
  BY <1>1 DEF StartApply, ForgetCleanup
<1>2. ASSUME CheckOperatorManaged PROVE StepTypes'
  BY <1>2 DEF CheckOperatorManaged, Continue, Fails
<1>3. ASSUME WriteTalosFiles PROVE StepTypes'
  BY <1>3 DEF WriteTalosFiles, Continue, Fails
<1>4. ASSUME EnsureImage PROVE StepTypes'
  BY <1>4 DEF EnsureImage, Continue, Fails
<1>5. ASSUME BuildImage PROVE StepTypes'
  BY <1>5 DEF BuildImage, Continue, Fails
<1>6. ASSUME ProvisionInfrastructure PROVE StepTypes'
  BY <1>6 DEF ProvisionInfrastructure, Continue, Fails
<1>7. ASSUME ProvisionFirstControlPlane PROVE StepTypes'
  BY <1>7 DEF ProvisionFirstControlPlane, Continue, Fails, OnFailure
<1>8. ASSUME BootstrapCluster PROVE StepTypes'
  BY <1>8 DEF BootstrapCluster, Continue, Fails, OnFailure
<1>9. ASSUME BootstrapEtcd PROVE StepTypes'
  BY <1>9 DEF BootstrapEtcd, Continue, Fails, OnFailure
<1>10. ASSUME CreateStateMarker PROVE StepTypes'
  BY <1>10 DEF CreateStateMarker, Continue, Fails, OnFailure
<1>11. ASSUME RetrieveKubeconfig PROVE StepTypes'
  BY <1>11 DEF RetrieveKubeconfig, Continue, Fails, OnFailure
<1>12. ASSUME WriteKubeconfig PROVE StepTypes'
  BY <1>12 DEF WriteKubeconfig, Continue, Fails, OnFailure
<1>13. ASSUME WaitForLBHealth PROVE StepTypes'
  BY <1>13 DEF WaitForLBHealth, Continue, Fails, OnFailure
<1>14. ASSUME InstallOperator PROVE StepTypes'
  BY <1>14 DEF InstallOperator, Install, Continue, Fails, OnFailure
<1>15. ASSUME CreateClusterCRD PROVE StepTypes'
  BY <1>15 DEF CreateClusterCRD, Install, Continue, Fails, OnFailure
<1>16. ASSUME WriteFirstStatus PROVE StepTypes'
  BY <1>16 DEF WriteFirstStatus, Install, Continue, Fails, OnFailure
<1>17. ASSUME StartDestroy PROVE StepTypes'
  BY <1>17 DEF StartDestroy, ForgetCleanup
<1>18. ASSUME ListServers PROVE StepTypes'
  BY <1>18 DEF ListServers, Continue, Fails
<1>19. ASSUME DeleteServers PROVE StepTypes'
  BY <1>19 DEF DeleteServers, Continue, Fails
<1>20. ASSUME AwaitServers PROVE StepTypes'
  BY <1>20 DEF AwaitServers, Continue, Fails
<1>21. ASSUME NEW kind \in Kinds, DeleteResources(kind) PROVE StepTypes'
  BY <1>21, NextKinds DEF DeleteResources, Continue, Fails
<1>22. ASSUME Finish PROVE StepTypes'
  BY <1>22 DEF Finish, ForgetCleanup
<1>23. ASSUME \/ (\E s \in Servers : ServerGone(s)) \/ (\E t \in Late : OperatorCreates(t))
            \/ OperatorDropsKey \/ LoseFiles
      PROVE  StepTypes'
  BY <1>23 DEF ServerGone, OperatorCreates, OperatorDropsKey, LoseFiles
<1>24. ASSUME UNCHANGED vars PROVE StepTypes'
  BY <1>24 DEF vars
<1> QED
  BY <1>1, <1>2, <1>3, <1>4, <1>5, <1>6, <1>7, <1>8, <1>9, <1>10, <1>11, <1>12, <1>13,
     <1>14, <1>15, <1>16, <1>17, <1>18, <1>19, <1>20, <1>21, <1>22, <1>23, <1>24,
     DeletedKinds
  DEF Next, PipelineStep, CleanupStep

\* What exists, and what a cleanup works on.
LEMMA SetTypesNext ==
  ASSUME SetTypes, [Next]_vars
  PROVE  SetTypes'
<1> USE ThingsThere DEF SetTypes
<1>1. ASSUME StartApply PROVE SetTypes'
  BY <1>1 DEF StartApply, ForgetCleanup
<1>2. ASSUME EnsureImage PROVE SetTypes'
  BY <1>2 DEF EnsureImage, cleanVars
<1>3. ASSUME BuildImage PROVE SetTypes'
  BY <1>3 DEF BuildImage, cleanVars
<1>4. ASSUME ProvisionInfrastructure PROVE SetTypes'
  BY <1>4 DEF ProvisionInfrastructure, Prefix, InfrastructureSteps, cleanVars
<1>5. ASSUME ProvisionFirstControlPlane PROVE SetTypes'
  BY <1>5 DEF ProvisionFirstControlPlane, Made, cleanVars
<1>6. ASSUME CreateStateMarker PROVE SetTypes'
  BY <1>6 DEF CreateStateMarker, cleanVars
<1>7. ASSUME StartDestroy PROVE SetTypes'
  BY <1>7 DEF StartDestroy, ForgetCleanup
<1>8. ASSUME ListServers PROVE SetTypes'
  BY <1>8 DEF ListServers
<1>9. ASSUME DeleteServers PROVE SetTypes'
  BY <1>9 DEF DeleteServers
<1>10. ASSUME NEW kind \in Kinds, DeleteResources(kind) PROVE SetTypes'
  BY <1>10 DEF DeleteResources
<1>11. ASSUME Finish PROVE SetTypes'
  BY <1>11 DEF Finish, ForgetCleanup
<1>12. ASSUME NEW s \in Servers, ServerGone(s) PROVE SetTypes'
  BY <1>12 DEF ServerGone, cleanVars
<1>13. ASSUME NEW t \in Late, OperatorCreates(t) PROVE SetTypes'
  BY <1>13 DEF OperatorCreates
<1>14. ASSUME OperatorDropsKey PROVE SetTypes'
  BY <1>14 DEF OperatorDropsKey, cleanVars
<1>15. ASSUME \/ CheckOperatorManaged \/ WriteTalosFiles \/ BootstrapCluster \/ BootstrapEtcd
            \/ RetrieveKubeconfig \/ WriteKubeconfig \/ WaitForLBHealth \/ InstallOperator
            \/ CreateClusterCRD \/ WriteFirstStatus \/ AwaitServers \/ LoseFiles
      PROVE  SetTypes'
  BY <1>15
  DEF CheckOperatorManaged, WriteTalosFiles, BootstrapCluster, BootstrapEtcd,
      RetrieveKubeconfig, WriteKubeconfig, WaitForLBHealth, InstallOperator,
      CreateClusterCRD, WriteFirstStatus, AwaitServers, LoseFiles, Install, cleanVars
<1>16. ASSUME UNCHANGED vars PROVE SetTypes'
  BY <1>16 DEF vars, cleanVars
<1> QED
  BY <1>1, <1>2, <1>3, <1>4, <1>5, <1>6, <1>7, <1>8, <1>9, <1>10, <1>11, <1>12, <1>13,
     <1>14, <1>15, <1>16, DeletedKinds
  DEF Next, PipelineStep, CleanupStep

\* The control plane.
LEMMA NodeTypesNext ==
  ASSUME NodeTypes, [Next]_vars
  PROVE  NodeTypes'
<1> USE DEF NodeTypes
<1>1. ASSUME ProvisionFirstControlPlane PROVE NodeTypes'
  BY <1>1 DEF ProvisionFirstControlPlane, Made
<1>2. ASSUME BootstrapCluster PROVE NodeTypes'
  BY <1>2 DEF BootstrapCluster, Configure, nodeVars
<1>3. ASSUME BootstrapEtcd PROVE NodeTypes'
  BY <1>3 DEF BootstrapEtcd
<1>4. ASSUME InstallOperator PROVE NodeTypes'
  BY <1>4 DEF InstallOperator, Install
<1>5. ASSUME CreateClusterCRD PROVE NodeTypes'
  BY <1>5 DEF CreateClusterCRD, Install
<1>6. ASSUME WriteFirstStatus PROVE NodeTypes'
  BY <1>6 DEF WriteFirstStatus, Install
<1>7. ASSUME NEW kind \in Kinds, DeleteResources(kind) PROVE NodeTypes'
  BY <1>7 DEF DeleteResources
<1>8. ASSUME NEW s \in Servers, ServerGone(s) PROVE NodeTypes'
  BY <1>8 DEF ServerGone, nodeVars
<1>9. ASSUME LoseFiles PROVE NodeTypes'
  BY <1>9 DEF LoseFiles
<1>10. ASSUME \/ StartApply \/ CheckOperatorManaged \/ WriteTalosFiles \/ EnsureImage
            \/ BuildImage \/ ProvisionInfrastructure \/ CreateStateMarker \/ RetrieveKubeconfig
            \/ WriteKubeconfig \/ WaitForLBHealth \/ StartDestroy \/ ListServers
            \/ DeleteServers \/ AwaitServers \/ Finish \/ (\E t \in Late : OperatorCreates(t))
            \/ OperatorDropsKey
      PROVE  NodeTypes'
  BY <1>10
  DEF StartApply, CheckOperatorManaged, WriteTalosFiles, EnsureImage, BuildImage,
      ProvisionInfrastructure, CreateStateMarker, RetrieveKubeconfig, WriteKubeconfig,
      WaitForLBHealth, StartDestroy, ListServers, DeleteServers, AwaitServers, Finish,
      OperatorCreates, OperatorDropsKey, nodeVars
<1>11. ASSUME UNCHANGED vars PROVE NodeTypes'
  BY <1>11 DEF vars, nodeVars
<1> QED
  BY <1>1, <1>2, <1>3, <1>4, <1>5, <1>6, <1>7, <1>8, <1>9, <1>10, <1>11, DeletedKinds
  DEF Next, PipelineStep, CleanupStep

\* Whether a run began with a whole cluster is a Boolean.
LEMMA WholeIsBoolean == ASSUME NodeTypes PROVE Whole \in BOOLEAN
BY Zenon DEF NodeTypes, Whole, Managed, Healthy

\* The directory and the run.
LEMMA RunTypesNext ==
  ASSUME NodeTypes, RunTypes, [Next]_vars
  PROVE  RunTypes'
<1> USE DEF RunTypes
<1>1. ASSUME StartApply PROVE RunTypes'
  BY <1>1, WholeIsBoolean DEF StartApply, ForgetCleanup, dirVars
<1>2. ASSUME CheckOperatorManaged PROVE RunTypes'
  BY <1>2 DEF CheckOperatorManaged, Continue, Fails, dirVars, cleanVars
<1>3. ASSUME WriteTalosFiles PROVE RunTypes'
  BY <1>3 DEF WriteTalosFiles, Continue, Fails, cleanVars
<1>4. ASSUME EnsureImage PROVE RunTypes'
  BY <1>4 DEF EnsureImage, Continue, Fails, dirVars, cleanVars
<1>5. ASSUME BuildImage PROVE RunTypes'
  BY <1>5 DEF BuildImage, Continue, Fails, dirVars, cleanVars
<1>6. ASSUME ProvisionInfrastructure PROVE RunTypes'
  BY <1>6 DEF ProvisionInfrastructure, Continue, Fails, dirVars, cleanVars
<1>7. ASSUME ProvisionFirstControlPlane PROVE RunTypes'
  BY <1>7 DEF ProvisionFirstControlPlane, Continue, Fails, dirVars, cleanVars
<1>8. ASSUME BootstrapCluster PROVE RunTypes'
  BY <1>8 DEF BootstrapCluster, Continue, Fails, dirVars, cleanVars
<1>9. ASSUME BootstrapEtcd PROVE RunTypes'
  BY <1>9 DEF BootstrapEtcd, Continue, Fails, dirVars, cleanVars
<1>10. ASSUME CreateStateMarker PROVE RunTypes'
  BY <1>10 DEF CreateStateMarker, Continue, Fails, dirVars, cleanVars
<1>11. ASSUME RetrieveKubeconfig PROVE RunTypes'
  BY <1>11 DEF RetrieveKubeconfig, Continue, Fails, dirVars, cleanVars
<1>12. ASSUME WriteKubeconfig PROVE RunTypes'
  BY <1>12 DEF WriteKubeconfig, Continue, Fails, cleanVars
<1>13. ASSUME WaitForLBHealth PROVE RunTypes'
  BY <1>13 DEF WaitForLBHealth, Continue, Fails, dirVars, cleanVars
<1>14. ASSUME InstallOperator PROVE RunTypes'
  BY <1>14 DEF InstallOperator, Install, Continue, Fails, dirVars, cleanVars
<1>15. ASSUME CreateClusterCRD PROVE RunTypes'
  BY <1>15 DEF CreateClusterCRD, Install, Continue, Fails, dirVars, cleanVars
<1>16. ASSUME WriteFirstStatus PROVE RunTypes'
  BY <1>16 DEF WriteFirstStatus, Install, Continue, Fails, dirVars, cleanVars
<1>17. ASSUME StartDestroy PROVE RunTypes'
  BY <1>17 DEF StartDestroy, ForgetCleanup, dirVars
<1>18. ASSUME ListServers PROVE RunTypes'
  BY <1>18 DEF ListServers, Continue, Fails, dirVars
<1>19. ASSUME DeleteServers PROVE RunTypes'
  BY <1>19 DEF DeleteServers, Continue, Fails, dirVars
<1>20. ASSUME AwaitServers PROVE RunTypes'
  BY <1>20 DEF AwaitServers, Continue, Fails, dirVars, cleanVars
<1>21. ASSUME NEW kind \in Kinds, DeleteResources(kind) PROVE RunTypes'
  BY <1>21, NextKinds DEF DeleteResources, Continue, Fails, dirVars
<1>22. ASSUME Finish PROVE RunTypes'
  BY <1>22 DEF Finish, ForgetCleanup, dirVars
<1>23. ASSUME NEW s \in Servers, ServerGone(s) PROVE RunTypes'
  BY <1>23 DEF ServerGone, dirVars, cleanVars
<1>24. ASSUME NEW t \in Late, OperatorCreates(t) PROVE RunTypes'
  BY <1>24 DEF OperatorCreates, dirVars
<1>25. ASSUME OperatorDropsKey PROVE RunTypes'
  BY <1>25 DEF OperatorDropsKey, dirVars, cleanVars
<1>26. ASSUME LoseFiles PROVE RunTypes'
  BY <1>26 DEF LoseFiles, cleanVars
<1>27. ASSUME UNCHANGED vars PROVE RunTypes'
  BY <1>27 DEF vars, dirVars, cleanVars
<1> QED
  BY <1>1, <1>2, <1>3, <1>4, <1>5, <1>6, <1>7, <1>8, <1>9, <1>10, <1>11, <1>12, <1>13,
     <1>14, <1>15, <1>16, <1>17, <1>18, <1>19, <1>20, <1>21, <1>22, <1>23, <1>24, <1>25,
     <1>26, <1>27, DeletedKinds
  DEF Next, PipelineStep, CleanupStep

\* Going on and failing keep the counts in their bounds.
LEMMA GoingOnCounts ==
  ASSUME NEW step, CountTypes, Continue(step) \/ Fails(step)
  PROVE  CountTypes'
BY BoundsAssumption DEF CountTypes, Continue, Fails

\* The counts.
LEMMA CountTypesNext ==
  ASSUME CountTypes, [Next]_vars
  PROVE  CountTypes'
<1>1. ASSUME StartApply PROVE CountTypes'
  BY <1>1 DEF StartApply, CountTypes
<1>2. ASSUME CheckOperatorManaged PROVE CountTypes'
  BY <1>2, GoingOnCounts DEF CheckOperatorManaged
<1>3. ASSUME WriteTalosFiles PROVE CountTypes'
  BY <1>3, GoingOnCounts DEF WriteTalosFiles
<1>4. ASSUME EnsureImage PROVE CountTypes'
  BY <1>4, GoingOnCounts DEF EnsureImage
<1>5. ASSUME BuildImage PROVE CountTypes'
  BY <1>5, GoingOnCounts DEF BuildImage
<1>6. ASSUME ProvisionInfrastructure PROVE CountTypes'
  BY <1>6, GoingOnCounts DEF ProvisionInfrastructure
<1>7. ASSUME ProvisionFirstControlPlane PROVE CountTypes'
  BY <1>7, GoingOnCounts DEF ProvisionFirstControlPlane
<1>8. ASSUME BootstrapCluster PROVE CountTypes'
  BY <1>8, GoingOnCounts DEF BootstrapCluster
<1>9. ASSUME BootstrapEtcd PROVE CountTypes'
  BY <1>9, GoingOnCounts DEF BootstrapEtcd
<1>10. ASSUME CreateStateMarker PROVE CountTypes'
  BY <1>10, GoingOnCounts DEF CreateStateMarker
<1>11. ASSUME RetrieveKubeconfig PROVE CountTypes'
  BY <1>11, GoingOnCounts DEF RetrieveKubeconfig
<1>12. ASSUME WriteKubeconfig PROVE CountTypes'
  BY <1>12, GoingOnCounts DEF WriteKubeconfig
<1>13. ASSUME WaitForLBHealth PROVE CountTypes'
  BY <1>13, GoingOnCounts DEF WaitForLBHealth
<1>14. ASSUME InstallOperator PROVE CountTypes'
  BY <1>14, GoingOnCounts DEF InstallOperator, Install
<1>15. ASSUME CreateClusterCRD PROVE CountTypes'
  BY <1>15, GoingOnCounts DEF CreateClusterCRD, Install
<1>16. ASSUME WriteFirstStatus PROVE CountTypes'
  BY <1>16, GoingOnCounts DEF WriteFirstStatus, Install
<1>17. ASSUME StartDestroy PROVE CountTypes'
  BY <1>17, BoundsAssumption DEF StartDestroy, CountTypes
<1>18. ASSUME ListServers PROVE CountTypes'
  BY <1>18, GoingOnCounts DEF ListServers
<1>19. ASSUME DeleteServers PROVE CountTypes'
  BY <1>19, GoingOnCounts DEF DeleteServers
<1>20. ASSUME AwaitServers PROVE CountTypes'
  BY <1>20, GoingOnCounts DEF AwaitServers
<1>21. ASSUME NEW kind \in Kinds, DeleteResources(kind) PROVE CountTypes'
  BY <1>21, GoingOnCounts DEF DeleteResources
<1>22. ASSUME Finish PROVE CountTypes'
  BY <1>22 DEF Finish, CountTypes
<1>23. ASSUME NEW s \in Servers, ServerGone(s) PROVE CountTypes'
  BY <1>23 DEF ServerGone, CountTypes
<1>24. ASSUME NEW t \in Late, OperatorCreates(t) PROVE CountTypes'
  BY <1>24 DEF OperatorCreates, CountTypes
<1>25. ASSUME OperatorDropsKey PROVE CountTypes'
  BY <1>25 DEF OperatorDropsKey, CountTypes
<1>26. ASSUME LoseFiles PROVE CountTypes'
  BY <1>26, BoundsAssumption DEF LoseFiles, CountTypes
<1>27. ASSUME UNCHANGED vars PROVE CountTypes'
  BY <1>27 DEF vars, CountTypes
<1> QED
  BY <1>1, <1>2, <1>3, <1>4, <1>5, <1>6, <1>7, <1>8, <1>9, <1>10, <1>11, <1>12, <1>13,
     <1>14, <1>15, <1>16, <1>17, <1>18, <1>19, <1>20, <1>21, <1>22, <1>23, <1>24, <1>25,
     <1>26, <1>27, DeletedKinds
  DEF Next, PipelineStep, CleanupStep

\* All of TypeOK.
LEMMA TypeNext == ASSUME TypeOK, [Next]_vars PROVE TypeOK'
<1>1. TypeOK' <=> StepTypes' /\ SetTypes' /\ NodeTypes' /\ RunTypes' /\ CountTypes'
  BY DEF TypeOK, StepTypes, SetTypes, NodeTypes, RunTypes, CountTypes
<1> QED
  BY <1>1, TypeParts, StepTypesNext, SetTypesNext, NodeTypesNext, RunTypesNext, CountTypesNext

-----------------------------------------------------------------------------
(***************************************************************************)
(* A run: what it has, what it has made, and what it spares.               *)
(***************************************************************************)

\* A machine goes with its server, and only so.
LEMMA MachineIsThereNext ==
  ASSUME TypeOK, MachineIsThere, [Next]_vars
  PROVE  MachineIsThere'
<1> USE DEF MachineIsThere, Balancer
<1>1. ASSUME EnsureImage PROVE MachineIsThere'
  BY <1>1 DEF EnsureImage, nodeVars
<1>2. ASSUME BuildImage PROVE MachineIsThere'
  BY <1>2 DEF BuildImage, nodeVars
<1>3. ASSUME ProvisionInfrastructure PROVE MachineIsThere'
  BY <1>3 DEF ProvisionInfrastructure, Prefix, nodeVars
<1>4. ASSUME ProvisionFirstControlPlane PROVE MachineIsThere'
  BY <1>4 DEF ProvisionFirstControlPlane, Made
<1>5. ASSUME BootstrapCluster PROVE MachineIsThere'
  BY <1>5 DEF BootstrapCluster, InMaintenanceMode, Configure, nodeVars
<1>6. ASSUME BootstrapEtcd PROVE MachineIsThere'
  BY <1>6 DEF BootstrapEtcd
<1>7. ASSUME CreateStateMarker PROVE MachineIsThere'
  BY <1>7 DEF CreateStateMarker, nodeVars
<1>8. ASSUME NEW kind \in Kinds, DeleteResources(kind) PROVE MachineIsThere'
  BY <1>8 DEF DeleteResources, Selects
<1>9. ASSUME NEW s \in Servers, ServerGone(s) PROVE MachineIsThere'
  BY <1>9 DEF ServerGone, nodeVars
<1>10. ASSUME NEW t \in Late, OperatorCreates(t) PROVE MachineIsThere'
  BY <1>10 DEF OperatorCreates, nodeVars
<1>11. ASSUME OperatorDropsKey PROVE MachineIsThere'
  BY <1>11 DEF OperatorDropsKey, nodeVars
<1>12. ASSUME \/ StartApply \/ CheckOperatorManaged \/ WriteTalosFiles \/ RetrieveKubeconfig
            \/ WriteKubeconfig \/ WaitForLBHealth \/ InstallOperator \/ CreateClusterCRD
            \/ WriteFirstStatus \/ StartDestroy \/ ListServers \/ DeleteServers \/ AwaitServers
            \/ Finish \/ LoseFiles
      PROVE  MachineIsThere'
  BY <1>12
  DEF StartApply, CheckOperatorManaged, WriteTalosFiles, RetrieveKubeconfig,
      WriteKubeconfig, WaitForLBHealth, InstallOperator, CreateClusterCRD, WriteFirstStatus,
      StartDestroy, ListServers, DeleteServers, AwaitServers, Finish, LoseFiles, Install,
      nodeVars
<1>13. ASSUME UNCHANGED vars PROVE MachineIsThere'
  BY <1>13 DEF vars, nodeVars
<1> QED
  BY <1>1, <1>2, <1>3, <1>4, <1>5, <1>6, <1>7, <1>8, <1>9, <1>10, <1>11, <1>12, <1>13,
     DeletedKinds
  DEF Next, PipelineStep, CleanupStep

\* What a step makes is there behind it.
LEMMA PartsAreMadeNext ==
  ASSUME TypeOK, MachineIsThere, PartsAreMade, [Next]_vars
  PROVE  PartsAreMade'
<1> USE DEF PartsAreMade, Balancer, Servers, AfterFiles, AfterInfrastructure, AfterCompute,
        AfterMarker, AfterWrite, AfterOperator
<1>1. ASSUME StartApply PROVE PartsAreMade'
  BY <1>1 DEF StartApply, dirVars, nodeVars
<1>2. ASSUME CheckOperatorManaged PROVE PartsAreMade'
  BY <1>2 DEF CheckOperatorManaged, Continue, Fails, Reachable, Healthy, dirVars, nodeVars
<1>3. ASSUME WriteTalosFiles PROVE PartsAreMade'
  BY <1>3 DEF WriteTalosFiles, Continue, Fails, nodeVars
<1>4. ASSUME EnsureImage PROVE PartsAreMade'
  BY <1>4 DEF EnsureImage, Continue, Fails, dirVars, nodeVars
<1>5. ASSUME BuildImage PROVE PartsAreMade'
  BY <1>5 DEF BuildImage, Continue, Fails, dirVars, nodeVars
<1>6. ASSUME ProvisionInfrastructure PROVE PartsAreMade'
  BY <1>6
  DEF ProvisionInfrastructure, Continue, Fails, Prefix, InfrastructureSteps, dirVars,
      nodeVars
<1>7. ASSUME ProvisionFirstControlPlane PROVE PartsAreMade'
  BY <1>7 DEF ProvisionFirstControlPlane, Made, Continue, Fails, OnFailure, dirVars
<1>8. ASSUME BootstrapCluster PROVE PartsAreMade'
  BY <1>8
  DEF BootstrapCluster, InMaintenanceMode, Configure, Continue, Fails, OnFailure, dirVars,
      nodeVars
<1>9. ASSUME BootstrapEtcd PROVE PartsAreMade'
  BY <1>9 DEF BootstrapEtcd, Continue, Fails, OnFailure, dirVars
<1>10. ASSUME CreateStateMarker PROVE PartsAreMade'
  BY <1>10 DEF CreateStateMarker, Continue, Fails, OnFailure, dirVars, nodeVars
<1>11. ASSUME RetrieveKubeconfig PROVE PartsAreMade'
  BY <1>11 DEF RetrieveKubeconfig, Continue, Fails, OnFailure, dirVars, nodeVars
<1>12. ASSUME WriteKubeconfig PROVE PartsAreMade'
  BY <1>12 DEF WriteKubeconfig, Continue, Fails, OnFailure, nodeVars
<1>13. ASSUME WaitForLBHealth PROVE PartsAreMade'
  BY <1>13 DEF WaitForLBHealth, Continue, Fails, OnFailure, Healthy, dirVars, nodeVars
<1>14. ASSUME InstallOperator PROVE PartsAreMade'
  BY <1>14
  DEF InstallOperator, Install, Continue, Fails, OnFailure, Reachable, Healthy, dirVars
<1>15. ASSUME CreateClusterCRD PROVE PartsAreMade'
  BY <1>15
  DEF CreateClusterCRD, Install, Continue, Fails, OnFailure, Reachable, Healthy, dirVars
<1>16. ASSUME WriteFirstStatus PROVE PartsAreMade'
  BY <1>16
  DEF WriteFirstStatus, Install, Continue, Fails, OnFailure, Reachable, Healthy, dirVars
<1>17. ASSUME StartDestroy PROVE PartsAreMade'
  BY <1>17 DEF StartDestroy, dirVars, nodeVars
<1>18. ASSUME NEW s \in Servers, ServerGone(s) PROVE PartsAreMade'
  BY <1>18 DEF ServerGone, dirVars, nodeVars
<1>19. ASSUME NEW t \in Late, OperatorCreates(t) PROVE PartsAreMade'
  BY <1>19 DEF OperatorCreates, dirVars, nodeVars
<1>20. ASSUME OperatorDropsKey PROVE PartsAreMade'
  BY <1>20 DEF OperatorDropsKey, dirVars, nodeVars
<1>21. ASSUME LoseFiles PROVE PartsAreMade'
  BY <1>21 DEF LoseFiles
<1>22. ASSUME CleanupStep PROVE PartsAreMade'
  BY <1>22, CleanupLeads DEF CleanupSteps
<1>23. ASSUME UNCHANGED vars PROVE PartsAreMade'
  BY <1>23 DEF vars, dirVars, nodeVars
<1> QED
  BY <1>1, <1>2, <1>3, <1>4, <1>5, <1>6, <1>7, <1>8, <1>9, <1>10, <1>11, <1>12, <1>13,
     <1>14, <1>15, <1>16, <1>17, <1>18, <1>19, <1>20, <1>21, <1>22, <1>23, DeletedKinds
  DEF Next, PipelineStep

\* A whole cluster stays whole as long as no call fails.
LEMMA WholeStaysNext ==
  ASSUME TypeOK, MachineIsThere, WholeStays, WholeIsSpared, [Next]_vars
  PROVE  WholeStays'
<1> USE DEF WholeStays, WholeIsSpared, Whole, Managed, Healthy, Pipeline, MachineIsThere,
        Balancer
<1>1. ASSUME StartApply PROVE WholeStays'
  BY <1>1 DEF StartApply, nodeVars
<1>2. ASSUME CheckOperatorManaged PROVE WholeStays'
  BY <1>2 DEF CheckOperatorManaged, Continue, Fails, Reachable, nodeVars
<1>3. ASSUME WriteTalosFiles PROVE WholeStays'
  BY <1>3 DEF WriteTalosFiles, Continue, Fails, nodeVars
<1>4. ASSUME EnsureImage PROVE WholeStays'
  BY <1>4 DEF EnsureImage, Continue, Fails, nodeVars
<1>5. ASSUME BuildImage PROVE WholeStays'
  BY <1>5 DEF BuildImage, Continue, Fails, nodeVars
<1>6. ASSUME ProvisionInfrastructure PROVE WholeStays'
  BY <1>6 DEF ProvisionInfrastructure, Continue, Fails, nodeVars
<1>7. ASSUME ProvisionFirstControlPlane PROVE WholeStays'
  BY <1>7 DEF ProvisionFirstControlPlane, Made, Continue, Fails, OnFailure
<1>8. ASSUME BootstrapCluster PROVE WholeStays'
  BY <1>8
  DEF BootstrapCluster, InMaintenanceMode, Configure, Continue, Fails, OnFailure, nodeVars
<1>9. ASSUME BootstrapEtcd PROVE WholeStays'
  BY <1>9 DEF BootstrapEtcd, Continue, Fails, OnFailure
<1>10. ASSUME CreateStateMarker PROVE WholeStays'
  BY <1>10 DEF CreateStateMarker, Continue, Fails, OnFailure, nodeVars
<1>11. ASSUME RetrieveKubeconfig PROVE WholeStays'
  BY <1>11 DEF RetrieveKubeconfig, Continue, Fails, OnFailure, nodeVars
<1>12. ASSUME WriteKubeconfig PROVE WholeStays'
  BY <1>12 DEF WriteKubeconfig, Continue, Fails, OnFailure, nodeVars
<1>13. ASSUME WaitForLBHealth PROVE WholeStays'
  BY <1>13 DEF WaitForLBHealth, Continue, Fails, OnFailure, nodeVars
<1>14. ASSUME InstallOperator PROVE WholeStays'
  BY <1>14 DEF InstallOperator, Install, Continue, Fails, OnFailure, Reachable
<1>15. ASSUME CreateClusterCRD PROVE WholeStays'
  BY <1>15 DEF CreateClusterCRD, Install, Continue, Fails, OnFailure, Reachable
<1>16. ASSUME WriteFirstStatus PROVE WholeStays'
  BY <1>16 DEF WriteFirstStatus, Install, Continue, Fails, OnFailure, Reachable
<1>17. ASSUME StartDestroy PROVE WholeStays'
  BY <1>17 DEF StartDestroy, nodeVars
<1>18. ASSUME NEW s \in Servers, ServerGone(s) PROVE WholeStays'
  BY <1>18 DEF ServerGone, nodeVars
<1>19. ASSUME NEW t \in Late, OperatorCreates(t) PROVE WholeStays'
  BY <1>19 DEF OperatorCreates, nodeVars
<1>20. ASSUME OperatorDropsKey PROVE WholeStays'
  BY <1>20 DEF OperatorDropsKey, nodeVars
<1>21. ASSUME LoseFiles PROVE WholeStays'
  BY <1>21 DEF LoseFiles
<1>22. ASSUME CleanupStep PROVE WholeStays'
  BY <1>22, CleanupLeads DEF CleanupSteps
<1>23. ASSUME UNCHANGED vars PROVE WholeStays'
  BY <1>23 DEF vars, nodeVars
<1> QED
  BY <1>1, <1>2, <1>3, <1>4, <1>5, <1>6, <1>7, <1>8, <1>9, <1>10, <1>11, <1>12, <1>13,
     <1>14, <1>15, <1>16, <1>17, <1>18, <1>19, <1>20, <1>21, <1>22, <1>23, DeletedKinds
  DEF Next, PipelineStep

\* No failed call, no cleanup of a whole cluster.
LEMMA WholeIsSparedNext ==
  ASSUME TypeOK, MachineIsThere, WholeStays, WholeIsSpared, [Next]_vars
  PROVE  WholeIsSpared'
<1> USE DEF WholeStays, WholeIsSpared, Whole, Managed, Healthy, Pipeline, CleanupSteps,
        MachineIsThere, Balancer
<1>1. ASSUME StartApply PROVE WholeIsSpared'
  BY <1>1 DEF StartApply, nodeVars
<1>2. ASSUME CheckOperatorManaged PROVE WholeIsSpared'
  BY <1>2 DEF CheckOperatorManaged, Continue, Fails, Reachable, nodeVars
<1>3. ASSUME WriteTalosFiles PROVE WholeIsSpared'
  BY <1>3 DEF WriteTalosFiles, Continue, Fails, nodeVars
<1>4. ASSUME EnsureImage PROVE WholeIsSpared'
  BY <1>4 DEF EnsureImage, Continue, Fails, nodeVars
<1>5. ASSUME BuildImage PROVE WholeIsSpared'
  BY <1>5 DEF BuildImage, Continue, Fails, nodeVars
<1>6. ASSUME ProvisionInfrastructure PROVE WholeIsSpared'
  BY <1>6 DEF ProvisionInfrastructure, Continue, Fails, nodeVars
<1>7. ASSUME ProvisionFirstControlPlane PROVE WholeIsSpared'
  BY <1>7 DEF ProvisionFirstControlPlane, Made, Continue, Fails, OnFailure
<1>8. ASSUME BootstrapCluster PROVE WholeIsSpared'
  BY <1>8
  DEF BootstrapCluster, InMaintenanceMode, Configure, Continue, Fails, OnFailure, nodeVars
<1>9. ASSUME BootstrapEtcd PROVE WholeIsSpared'
  BY <1>9 DEF BootstrapEtcd, Continue, Fails, OnFailure
<1>10. ASSUME CreateStateMarker PROVE WholeIsSpared'
  BY <1>10 DEF CreateStateMarker, Continue, Fails, OnFailure, nodeVars
<1>11. ASSUME RetrieveKubeconfig PROVE WholeIsSpared'
  BY <1>11 DEF RetrieveKubeconfig, Continue, Fails, OnFailure, nodeVars
<1>12. ASSUME WriteKubeconfig PROVE WholeIsSpared'
  BY <1>12 DEF WriteKubeconfig, Continue, Fails, OnFailure, nodeVars
<1>13. ASSUME WaitForLBHealth PROVE WholeIsSpared'
  BY <1>13 DEF WaitForLBHealth, Continue, Fails, OnFailure, nodeVars
<1>14. ASSUME InstallOperator PROVE WholeIsSpared'
  BY <1>14 DEF InstallOperator, Install, Continue, Fails, OnFailure, Reachable
<1>15. ASSUME CreateClusterCRD PROVE WholeIsSpared'
  BY <1>15 DEF CreateClusterCRD, Install, Continue, Fails, OnFailure, Reachable
<1>16. ASSUME WriteFirstStatus PROVE WholeIsSpared'
  BY <1>16 DEF WriteFirstStatus, Install, Continue, Fails, OnFailure, Reachable
<1>17. ASSUME StartDestroy PROVE WholeIsSpared'
  BY <1>17 DEF StartDestroy, nodeVars
<1>18. ASSUME NEW s \in Servers, ServerGone(s) PROVE WholeIsSpared'
  BY <1>18 DEF ServerGone, nodeVars
<1>19. ASSUME NEW t \in Late, OperatorCreates(t) PROVE WholeIsSpared'
  BY <1>19 DEF OperatorCreates, nodeVars
<1>20. ASSUME OperatorDropsKey PROVE WholeIsSpared'
  BY <1>20 DEF OperatorDropsKey, nodeVars
<1>21. ASSUME LoseFiles PROVE WholeIsSpared'
  BY <1>21 DEF LoseFiles
<1>22. ASSUME CleanupStep PROVE WholeIsSpared'
  BY <1>22, CleanupLeads
<1>23. ASSUME UNCHANGED vars PROVE WholeIsSpared'
  BY <1>23 DEF vars, nodeVars
<1> QED
  BY <1>1, <1>2, <1>3, <1>4, <1>5, <1>6, <1>7, <1>8, <1>9, <1>10, <1>11, <1>12, <1>13,
     <1>14, <1>15, <1>16, <1>17, <1>18, <1>19, <1>20, <1>21, <1>22, <1>23, DeletedKinds
  DEF Next, PipelineStep

-----------------------------------------------------------------------------
(***************************************************************************)
(* A cleanup.                                                              *)
(***************************************************************************)

\* Servers are listed, then deleted, or excused.
LEMMA ServersAreListedNext ==
  ASSUME TypeOK, ServersAreListed, [Next]_vars
  PROVE  ServersAreListed'
<1> USE DEF ServersAreListed, CleanupSteps, Servers, Kinds
<1>1. ASSUME StartApply PROVE ServersAreListed'
  BY <1>1 DEF StartApply, ForgetCleanup
<1>2. ASSUME StartDestroy PROVE ServersAreListed'
  BY <1>2 DEF StartDestroy, ForgetCleanup
<1>3. ASSUME ListServers PROVE ServersAreListed'
  BY <1>3 DEF ListServers, Continue, Fails
<1>4. ASSUME DeleteServers PROVE ServersAreListed'
  BY <1>4 DEF DeleteServers, Continue, Fails
<1>5. ASSUME AwaitServers PROVE ServersAreListed'
  BY <1>5 DEF AwaitServers, Continue, Fails, cleanVars
<1>6. ASSUME NEW kind \in Kinds, DeleteResources(kind) PROVE ServersAreListed'
  BY <1>6, NextKinds DEF DeleteResources, Continue, Fails, Selects
<1>7. ASSUME Finish PROVE ServersAreListed'
  BY <1>7 DEF Finish, ForgetCleanup
<1>8. ASSUME NEW s \in Servers, ServerGone(s) PROVE ServersAreListed'
  BY <1>8 DEF ServerGone, cleanVars
<1>9. ASSUME NEW t \in Late, OperatorCreates(t) PROVE ServersAreListed'
  BY <1>9 DEF OperatorCreates
<1>10. ASSUME OperatorDropsKey PROVE ServersAreListed'
  BY <1>10 DEF OperatorDropsKey, cleanVars
<1>11. ASSUME LoseFiles PROVE ServersAreListed'
  BY <1>11 DEF LoseFiles, cleanVars
<1>12. ASSUME PipelineStep PROVE ServersAreListed'
  BY <1>12, PipelineLeads DEF Pipeline
<1>13. ASSUME UNCHANGED vars PROVE ServersAreListed'
  BY <1>13 DEF vars, cleanVars
<1> QED
  BY <1>1, <1>2, <1>3, <1>4, <1>5, <1>6, <1>7, <1>8, <1>9, <1>10, <1>11, <1>12, <1>13,
     DeletedKinds
  DEF Next, CleanupStep

\* Each kind is deleted, or excused, or there is an error.
LEMMA KindsAreDeletedNext ==
  ASSUME TypeOK, KindsAreDeleted, [Next]_vars
  PROVE  KindsAreDeleted'
<1> USE DEF KindsAreDeleted, AfterPart, Kinds, CleanupSteps, Balancer
<1>1. ASSUME StartApply PROVE KindsAreDeleted'
  BY <1>1 DEF StartApply, ForgetCleanup
<1>2. ASSUME StartDestroy PROVE KindsAreDeleted'
  BY <1>2 DEF StartDestroy, ForgetCleanup
<1>3. ASSUME ListServers PROVE KindsAreDeleted'
  BY <1>3 DEF ListServers, Continue, Fails
<1>4. ASSUME DeleteServers PROVE KindsAreDeleted'
  BY <1>4 DEF DeleteServers, Continue, Fails
<1>5. ASSUME AwaitServers PROVE KindsAreDeleted'
  BY <1>5 DEF AwaitServers, Continue, Fails, cleanVars
<1>6. ASSUME NEW kind \in Kinds, DeleteResources(kind) PROVE KindsAreDeleted'
  BY <1>6, NextKinds DEF DeleteResources, Continue, Fails, Selects
<1>7. ASSUME Finish PROVE KindsAreDeleted'
  BY <1>7 DEF Finish, ForgetCleanup
<1>8. ASSUME NEW s \in Servers, ServerGone(s) PROVE KindsAreDeleted'
  BY <1>8 DEF ServerGone, cleanVars
<1>9. ASSUME NEW t \in Late, OperatorCreates(t) PROVE KindsAreDeleted'
  BY <1>9 DEF OperatorCreates
<1>10. ASSUME OperatorDropsKey PROVE KindsAreDeleted'
  BY <1>10 DEF OperatorDropsKey, cleanVars
<1>11. ASSUME LoseFiles PROVE KindsAreDeleted'
  BY <1>11 DEF LoseFiles, cleanVars
<1>12. ASSUME PipelineStep PROVE KindsAreDeleted'
  BY <1>12, PipelineLeads DEF Pipeline
<1>13. ASSUME UNCHANGED vars PROVE KindsAreDeleted'
  BY <1>13 DEF vars, cleanVars
<1> QED
  BY <1>1, <1>2, <1>3, <1>4, <1>5, <1>6, <1>7, <1>8, <1>9, <1>10, <1>11, <1>12, <1>13,
     DeletedKinds
  DEF Next, CleanupStep

-----------------------------------------------------------------------------
(***************************************************************************)
(* The theorems.                                                           *)
(***************************************************************************)

\* The inductive invariant: what a run has behind it exists, a whole cluster is spared,
\* and a cleanup without an error has dealt with what is behind it.
THEOREM Invariance == Spec => []IInv
<1>1. IInv /\ [Next]_vars => IInv'
  BY TypeNext, MachineIsThereNext, PartsAreMadeNext, WholeStaysNext, WholeIsSparedNext,
     ServersAreListedNext, KindsAreDeletedNext
  DEF IInv
<1> QED BY InitIInv, <1>1, PTL DEF Spec

\* TypeOK, for any number of faults and destroys and any late creations.
THEOREM TypeCorrect == Spec => []TypeOK
<1>1. IInv => TypeOK
  BY DEF IInv
<1> QED BY Invariance, <1>1, PTL

\* When a destroy or the cleanup of a failed apply ends without an error, what it leaves
\* of the cluster was logged, is on its way out, or came after its list.
THEOREM CleanupIsThorough == Spec => []NothingLeftBehind
<1>1. ASSUME IInv PROVE NothingLeftBehind
  <2> SUFFICES ASSUME pc = "finish", ~cleanErr
               PROVE  cloud \cap Labelled \subseteq excused \cup dying
    BY DEF NothingLeftBehind
  <2>1. cleanErr = FALSE
    BY <1>1 DEF IInv, TypeOK
  <2>2. cloud \cap Servers \subseteq dying \cup excused
    BY <1>1, <2>1 DEF IInv, ServersAreListed, CleanupSteps
  <2>3. cloud \cap {"network", "firewall", "loadBalancer", "targets",
                    "placementGroup", "sshKey", "marker"} \subseteq excused
    BY <1>1, <2>1 DEF IInv, KindsAreDeleted, AfterPart, Balancer
  <2> QED BY <2>2, <2>3 DEF Labelled
<1> QED BY Invariance, <1>1, PTL

\* Only one step makes the K8znerCluster.
LEMMA OneMaker ==
  ASSUME [Next]_vars, "crd" \in inCluster' \ inCluster
  PROVE  CreateClusterCRD
<1>1. ASSUME StartApply \/ CheckOperatorManaged \/ WriteTalosFiles \/ EnsureImage \/
             BuildImage \/ ProvisionInfrastructure \/ ProvisionFirstControlPlane \/
             BootstrapCluster
      PROVE  "crd" \notin inCluster' \ inCluster
  BY <1>1
  DEF StartApply, CheckOperatorManaged, WriteTalosFiles, EnsureImage, BuildImage,
      ProvisionInfrastructure, ProvisionFirstControlPlane, BootstrapCluster, Made,
      Configure, nodeVars
<1>2. ASSUME BootstrapEtcd \/ CreateStateMarker \/ RetrieveKubeconfig \/ WriteKubeconfig
             \/ WaitForLBHealth \/ InstallOperator \/ WriteFirstStatus
      PROVE  "crd" \notin inCluster' \ inCluster
  BY <1>2
  DEF BootstrapEtcd, CreateStateMarker, RetrieveKubeconfig, WriteKubeconfig,
      WaitForLBHealth, InstallOperator, WriteFirstStatus, Install, nodeVars
<1>3. ASSUME StartDestroy \/ ListServers \/ DeleteServers \/ AwaitServers
             \/ (\E kind \in Kinds : DeleteResources(kind)) \/ Finish
      PROVE  "crd" \notin inCluster' \ inCluster
  BY <1>3
  DEF StartDestroy, ListServers, DeleteServers, AwaitServers, DeleteResources, Finish,
      nodeVars
<1>4. ASSUME (\E s \in Servers : ServerGone(s)) \/ (\E t \in Late : OperatorCreates(t))
             \/ OperatorDropsKey \/ LoseFiles
      PROVE  "crd" \notin inCluster' \ inCluster
  BY <1>4 DEF ServerGone, OperatorCreates, OperatorDropsKey, LoseFiles, nodeVars
<1>5. ASSUME UNCHANGED vars PROVE "crd" \notin inCluster' \ inCluster
  BY <1>5 DEF vars, nodeVars
<1> QED
  BY <1>1, <1>2, <1>3, <1>4, <1>5, DeletedKinds DEF Next, PipelineStep, CleanupStep

\* Only one step has a control plane deleted.
LEMMA OneDeleter ==
  ASSUME [Next]_vars, "cp" \in dying' \ dying
  PROVE  DeleteServers
<1>1. ASSUME StartApply \/ CheckOperatorManaged \/ WriteTalosFiles \/ EnsureImage \/
             BuildImage \/ ProvisionInfrastructure \/ ProvisionFirstControlPlane \/
             BootstrapCluster \/ BootstrapEtcd
      PROVE  "cp" \notin dying' \ dying
  BY <1>1
  DEF StartApply, CheckOperatorManaged, WriteTalosFiles, EnsureImage, BuildImage,
      ProvisionInfrastructure, ProvisionFirstControlPlane, BootstrapCluster, BootstrapEtcd
<1>2. ASSUME CreateStateMarker \/ RetrieveKubeconfig \/ WriteKubeconfig \/
             WaitForLBHealth \/ InstallOperator \/ CreateClusterCRD \/ WriteFirstStatus
      PROVE  "cp" \notin dying' \ dying
  BY <1>2
  DEF CreateStateMarker, RetrieveKubeconfig, WriteKubeconfig, WaitForLBHealth,
      InstallOperator, CreateClusterCRD, WriteFirstStatus, Install
<1>3. ASSUME StartDestroy \/ ListServers \/ AwaitServers
             \/ (\E kind \in Kinds : DeleteResources(kind)) \/ Finish
      PROVE  "cp" \notin dying' \ dying
  BY <1>3 DEF StartDestroy, ListServers, AwaitServers, DeleteResources, Finish
<1>4. ASSUME (\E s \in Servers : ServerGone(s)) \/ (\E t \in Late : OperatorCreates(t))
             \/ OperatorDropsKey \/ LoseFiles
      PROVE  "cp" \notin dying' \ dying
  BY <1>4 DEF ServerGone, OperatorCreates, OperatorDropsKey, LoseFiles
<1>5. ASSUME UNCHANGED vars PROVE "cp" \notin dying' \ dying
  BY <1>5 DEF vars
<1> QED
  BY <1>1, <1>2, <1>3, <1>4, <1>5, DeletedKinds DEF Next, PipelineStep, CleanupStep

\* The K8znerCluster is made on a cluster that has every other part, whichever of several
\* runs of apply made it.
THEOREM ManagedIsComplete == Spec => CRDComesLast
<1> DEFINE Complete ==
      "crd" \in inCluster' \ inCluster =>
        /\ Reachable /\ secrets /\ kubeconfig
        /\ "operator" \in inCluster
        /\ {"firewall", "placementGroup", "cp", "marker"} \subseteq cloud
<1>1. ASSUME IInv, [Next]_vars PROVE Complete
  <2> SUFFICES ASSUME "crd" \in inCluster' \ inCluster PROVE Complete
    OBVIOUS
  <2>1. CreateClusterCRD
    BY <1>1, OneMaker
  <2>2. pc = "crd" /\ Reachable
    BY <2>1 DEF CreateClusterCRD, Install
  <2>3. machine = "etcd"
    BY <2>2 DEF Reachable, Healthy
  <2>4. "operator" \in inCluster
    BY <1>1, <2>2, <2>3
    DEF IInv, PartsAreMade, AfterOperator, AfterWrite, AfterMarker, AfterCompute,
        AfterInfrastructure, AfterFiles
  <2>5. {"firewall", "placementGroup", "cp", "marker"} \subseteq cloud
       /\ secrets = TRUE /\ kubeconfig = TRUE
    BY <1>1, <2>2, <2>3
    DEF IInv, PartsAreMade, MachineIsThere, AfterWrite, AfterMarker, AfterCompute,
        AfterInfrastructure, AfterFiles
  <2> QED BY <2>2, <2>4, <2>5
<1> QED BY Invariance, <1>1, PTL DEF Spec, CRDComesLast

\* An apply that began with a whole cluster deletes its control plane only after one of its
\* own calls has failed.
THEOREM RerunSpares == Spec => RerunIsIdempotent
<1>1. ASSUME IInv, [Next]_vars
      PROVE  "cp" \in dying' \ dying /\ cmd = "apply" /\ found => hitch
  <2> SUFFICES ASSUME "cp" \in dying' \ dying, cmd = "apply", found PROVE hitch
    OBVIOUS
  <2>1. DeleteServers
    BY <1>1, OneDeleter
  <2>2. pc \in CleanupSteps /\ found = TRUE
    BY <1>1, <2>1 DEF DeleteServers, CleanupSteps, IInv, TypeOK
  <2> QED BY <1>1, <2>2 DEF IInv, WholeIsSpared
<1> QED BY Invariance, <1>1, PTL DEF Spec, RerunIsIdempotent
=============================================================================
