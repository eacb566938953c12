------------------------ MODULE ControlPlane_proofs ------------------------
(***************************************************************************)
(* Proofs about ControlPlane, for every set of servers, desired count, set *)
(* of faults and bound.                                                    *)
(***************************************************************************)
EXTENDS ControlPlane, FiniteSetTheorems, TLAPS

-----------------------------------------------------------------------------
(***************************************************************************)
(* Phases.                                                                 *)
(***************************************************************************)

\* The phases, listed.
LEMMA NodePhasesListed ==
  NodePhases = EarlyProvisioningPhases
                 \cup {"Ready", "Unhealthy", "Draining", "RemovingFromEtcd",
                       "DeletingServer", "Failed"}
BY DEF NodePhases, PhaseOrder, EarlyProvisioningPhases

\* Every phase the operator writes fits a slot of the status.
LEMMA PhasesAreEntries ==
  /\ {Untracked, Listed, "Failed", "WaitingForIP", "WaitingForTalosAPI",
      "WaitingForK8s", "NodeInitializing", "RemovingFromEtcd",
      "DeletingServer"} \subseteq EntryPhases
  /\ TimedPhases \subseteq EntryPhases
BY NodePhasesListed
   DEF EntryPhases, TimedPhases, EarlyProvisioningPhases, Untracked, Listed

\* Probes always imply a known phase (determineNodePhaseFromState).
LEMMA DeterminedPhase ==
  ASSUME NEW info
  PROVE  DetermineNodePhaseFromState(info) \in NodePhases
BY NodePhasesListed DEF DetermineNodePhaseFromState, EarlyProvisioningPhases

\* Verification leaves a phase that fits the entry.
LEMMA VerifiedPhaseTyped ==
  ASSUME TypeOK, NEW n \in Servers, NEW p \in VerifiedPhases(n)
  PROVE  p \in EntryPhases
<1>1. PICK q \in ProbedPhases[server[n]][talos[n]][kube[n]] :
        p = IF ShouldUpdatePhase(mem[n], q) THEN q ELSE mem[n]
  BY DEF VerifiedPhases
<1>2. /\ server[n] \in ServerStates
      /\ talos[n] \in TalosStates
      /\ kube[n] \in KubeStates
      /\ mem[n] \in EntryPhases
  BY DEF TypeOK
<1>3. ProbedPhases[server[n]][talos[n]][kube[n]] =
        {DetermineNodePhaseFromState(i) :
           i \in Probes(server[n], talos[n], kube[n])}
  BY <1>2 DEF ProbedPhases
<1>4. q \in NodePhases
  BY <1>3, DeterminedPhase
<1> QED
  BY <1>1, <1>2, <1>4 DEF EntryPhases

-----------------------------------------------------------------------------
(***************************************************************************)
(* Types.                                                                  *)
(***************************************************************************)

\* updateNodePhase keeps the entries well typed.
LEMMA UpdateNodePhaseTyped ==
  ASSUME TypeOK, NEW n \in Servers, NEW p \in EntryPhases, UpdateNodePhase(n, p)
  PROVE  /\ mem' \in [Servers -> EntryPhases]
         /\ view' \in [Servers -> Healths]
BY DEF TypeOK, UpdateNodePhase, Healths

\* removeNodeFromStatus keeps the entries well typed.
LEMMA RemoveNodeFromStatusTyped ==
  ASSUME TypeOK, NEW n \in Servers, RemoveNodeFromStatus(n)
  PROVE  /\ mem' \in [Servers -> EntryPhases]
         /\ view' \in [Servers -> Healths]
BY PhasesAreEntries DEF TypeOK, RemoveNodeFromStatus, Healths

\* Deleting a server keeps the world well typed.
LEMMA DeleteServerTyped ==
  ASSUME TypeOK, NEW n \in Servers, DeleteServer(n)
  PROVE  /\ server' \in [Servers -> ServerStates]
         /\ talos' \in [Servers -> TalosStates]
BY DEF TypeOK, DeleteServer, ServerStates, TalosStates

\* Whatever is persisted is well typed if what was written is.
LEMMA PersistStatusTyped ==
  ASSUME TypeOK, NEW status \in [Servers -> EntryPhases], PersistStatus(status)
  PROVE  stored' \in [Servers -> EntryPhases]
BY DEF TypeOK, PersistStatus

\* The initial states are well typed.
LEMMA TypeInit == Init => TypeOK
<1> SUFFICES ASSUME Init PROVE TypeOK
  OBVIOUS
<1>1. PICK cps \in SUBSET Servers :
        /\ server = [n \in Servers |-> IF n \in cps THEN "up" ELSE "none"]
        /\ talos = [n \in Servers |->
                     IF n \in cps THEN "joined" ELSE "maintenance"]
        /\ etcd = cps
        /\ kube = [n \in Servers |-> IF n \in cps THEN "ready" ELSE "absent"]
        /\ stored = [n \in Servers |-> IF n \in cps THEN Listed ELSE Untracked]
  BY DEF Init
<1>2. /\ server \in [Servers -> ServerStates]
      /\ talos \in [Servers -> TalosStates]
      /\ etcd \subseteq Servers
      /\ kube \in [Servers -> KubeStates]
  BY <1>1 DEF ServerStates, TalosStates, KubeStates
<1>3. stored \in [Servers -> EntryPhases]
  BY <1>1, PhasesAreEntries
<1>4. /\ pc \in Steps
      /\ mem \in [Servers -> EntryPhases]
      /\ view \in [Servers -> Healths]
      /\ todo \subseteq Servers
      /\ stage \in [Servers -> Stages]
      /\ target \in Servers \cup {NoServer}
  BY PhasesAreEntries DEF Init, Steps, Healths, Stages
<1> QED
  BY <1>2, <1>3, <1>4 DEF TypeOK

\* Every step keeps the types.
LEMMA TypeNext == TypeOK /\ [Next]_vars => TypeOK'
<1> SUFFICES ASSUME TypeOK, [Next]_vars PROVE TypeOK'
  OBVIOUS
<1> USE DEF worldVars, entryVars, operatorVars
<1>1. CASE UNCHANGED vars
  BY <1>1 DEF vars, TypeOK
<1>2. CASE Fetch
  BY <1>2 DEF Fetch, TypeOK, Steps
<1>3. CASE StuckNodesHandled
  BY <1>3 DEF StuckNodesHandled, TypeOK, Steps
<1>4. CASE VerifyNodeStates
  <2>1. PICK verified \in
               [Verifiable -> UNION {VerifiedPhases(n) : n \in Verifiable}] :
          /\ \A n \in Verifiable : verified[n] \in VerifiedPhases(n)
          /\ mem' = [n \in Servers |->
                       IF n \in Verifiable THEN verified[n] ELSE mem[n]]
          /\ view' = [n \in Servers |->
                        IF mem'[n] = mem[n] THEN view[n]
                        ELSE IF mem'[n] = "Ready" THEN "healthy" ELSE "unhealthy"]
    BY <1>4 DEF VerifyNodeStates
  <2>2. Verifiable \subseteq Servers
    BY DEF Verifiable, Tracked
  <2>3. ASSUME NEW n \in Verifiable PROVE verified[n] \in EntryPhases
    BY <2>1, <2>2, <2>3, VerifiedPhaseTyped
  <2>4. mem' \in [Servers -> EntryPhases]
    BY <2>1, <2>3 DEF TypeOK
  <2>5. view' \in [Servers -> Healths]
    BY <2>1 DEF TypeOK, Healths
  <2> QED
    BY <1>4, <2>4, <2>5 DEF VerifyNodeStates, TypeOK, Steps
<1>5. ASSUME HealthCheck \/ UNCHANGED entryVars
      PROVE  /\ mem' \in [Servers -> EntryPhases]
             /\ view' \in [Servers -> Healths]
  BY <1>5, PhasesAreEntries DEF HealthCheck, TypeOK, Healths
<1>6. CASE ReconcileHealth
  BY <1>5, <1>6 DEF ReconcileHealth, TypeOK, Steps
<1>7. CASE RunningHealthCheck
  BY <1>5, <1>7 DEF RunningHealthCheck, TypeOK, Steps
<1>8. CASE HandleCPScaleUp
  BY <1>8 DEF HandleCPScaleUp, TypeOK, Steps
<1>9. CASE LeaveControlPlanes
  BY <1>9 DEF LeaveControlPlanes, TypeOK, Steps
<1>10. CASE RemoveFromEtcd
  <2>1. etcd' \subseteq Servers
    BY <1>10 DEF RemoveFromEtcd, TypeOK
  <2>2. CASE target \in Servers
    BY <1>10, <2>1, <2>2, PhasesAreEntries, UpdateNodePhaseTyped
       DEF RemoveFromEtcd, TypeOK, Steps
  <2>3. CASE target \notin Servers
    BY <1>10, <2>1, <2>3
       DEF RemoveFromEtcd, UpdateNodePhase, TypeOK, Steps, Healths
  <2> QED
    BY <2>2, <2>3
<1>11. CASE DeleteKubeNode
  BY <1>11 DEF DeleteKubeNode, TypeOK, Steps, KubeStates
<1>12. CASE DeleteOldServer
  BY <1>12, PhasesAreEntries
     DEF DeleteOldServer, DeleteServer, RemoveNodeFromStatus, TypeOK, Steps,
         ServerStates, TalosStates, Healths
<1>13. CASE PrepareForProvisioning
  BY <1>13 DEF PrepareForProvisioning, TypeOK, Steps, Stages
<1>14. CASE PersistProvisioned
  BY <1>14, PersistStatusTyped DEF PersistProvisioned, TypeOK, Steps
<1>15. CASE ReplacementNotCreated
  BY <1>15 DEF ReplacementNotCreated, TypeOK, Steps
<1>16. CASE AllConfigured
  BY <1>16 DEF AllConfigured, TypeOK, Steps
<1>17. ASSUME Forget
       PROVE  /\ pc' \in Steps
              /\ mem' \in [Servers -> EntryPhases]
              /\ view' \in [Servers -> Healths]
              /\ todo' \subseteq Servers
              /\ stage' \in [Servers -> Stages]
              /\ target' \in Servers \cup {NoServer}
  BY <1>17, PhasesAreEntries DEF Forget, Steps, Healths, Stages
<1>18. CASE UpdateStatus
  BY <1>17, <1>18, PersistStatusTyped DEF UpdateStatus, TypeOK
<1>19. CASE Crash
  BY <1>17, <1>19 DEF Crash, TypeOK
<1>20. ASSUME NEW n \in Servers, NodeStep(n) PROVE TypeOK'
  <2>1. CASE HandleStuckNode(n)
    BY <2>1, DeleteServerTyped, RemoveNodeFromStatusTyped
       DEF HandleStuckNode, TypeOK
  <2>2. CASE ReplaceUnhealthyCP(n)
    BY <2>2, PhasesAreEntries, UpdateNodePhaseTyped
       DEF ReplaceUnhealthyCP, TypeOK, Steps
  <2>3. CASE CreateServer(n)
    BY <2>3, PhasesAreEntries, UpdateNodePhaseTyped
       DEF CreateServer, TypeOK, Stages, ServerStates
  <2>4. CASE AwaitServer(n)
    BY <2>4, DeleteServerTyped, RemoveNodeFromStatusTyped
       DEF AwaitServer, TypeOK, Stages
  <2>5. CASE BeginConfigure(n)
    BY <2>5, PhasesAreEntries, UpdateNodePhaseTyped, PersistStatusTyped
       DEF BeginConfigure, TypeOK, Stages
  <2>6. CASE SkipConfig(n)
    BY <2>6, PhasesAreEntries, UpdateNodePhaseTyped, PersistStatusTyped
       DEF SkipConfig, TypeOK, Stages
  <2>7. CASE ApplyConfig(n)
    BY <2>7, PhasesAreEntries, UpdateNodePhaseTyped
       DEF ApplyConfig, TypeOK, Stages, TalosStates
  <2>8. CASE ApplyConfigFails(n)
    BY <2>8 DEF ApplyConfigFails, TypeOK, Stages, TalosStates
  <2>9. CASE AbortConfig(n)
    BY <2>9, DeleteServerTyped, RemoveNodeFromStatusTyped
       DEF AbortConfig, TypeOK, Stages, Steps
  <2>10. CASE CPReady(n)
    BY <2>10, PhasesAreEntries, UpdateNodePhaseTyped, PersistStatusTyped
       DEF CPReady, TypeOK, Stages
  <2>11. CASE CPReadyTimeout(n)
    BY <2>11, PhasesAreEntries, UpdateNodePhaseTyped
       DEF CPReadyTimeout, TypeOK, Stages, Steps
  <2> QED
    BY <1>20, <2>1, <2>2, <2>3, <2>4, <2>5, <2>6, <2>7, <2>8, <2>9, <2>10, <2>11
       DEF NodeStep
<1>21. ASSUME NEW n \in Servers, World(n) PROVE TypeOK'
  <2>1. CASE JoinEtcd(n)
    BY <2>1 DEF JoinEtcd, TypeOK, TalosStates
  <2>2. CASE RegisterNode(n)
    BY <2>2 DEF RegisterNode, TypeOK, KubeStates
  <2>3. CASE NodeBecomesReady(n)
    BY <2>3 DEF NodeBecomesReady, TypeOK, KubeStates
  <2>4. CASE NodeBecomesNotReady(n)
    BY <2>4 DEF NodeBecomesNotReady, TypeOK, KubeStates
  <2>5. CASE NotReadyTooLong(n)
    BY <2>5 DEF NotReadyTooLong, TypeOK, KubeStates
  <2>6. CASE MachineDies(n)
    BY <2>6 DEF MachineDies, TypeOK, ServerStates
  <2>7. CASE NodeCollected(n)
    BY <2>7 DEF NodeCollected, TypeOK, KubeStates
  <2> QED
    BY <1>21, <2>1, <2>2, <2>3, <2>4, <2>5, <2>6, <2>7
       DEF World
<1> QED
  BY <1>1, <1>2, <1>3, <1>4, <1>6, <1>7, <1>8, <1>9, <1>10, <1>11, <1>12, <1>13,
     <1>14, <1>15, <1>16, <1>18, <1>19, <1>20, <1>21
     DEF Next, Reconcile, ReconcileStep

\* Every state the reconcile loop can reach is well typed.
THEOREM TypeCorrect == Spec => []TypeOK
<1> QED
  BY TypeInit, TypeNext, PTL DEF Spec

-----------------------------------------------------------------------------
(***************************************************************************)
(* The inductive invariant: what the reconcile has established by the time *)
(* it reaches each step.                                                   *)
(***************************************************************************)

BeforeDecision == {"idle", "stuck", "verify", "health", "running", "decide"}
Replacing      == {"removeEtcd", "deleteNode", "deleteServer"}
Made           == {"await", "provisioned", "apply", "failing", "wait", "done",
                   "skipped"}

\* Nothing is being provisioned outside the provisioning steps.
StagesOnlyWhileProvisioning ==
  pc \notin {"provision", "configure", "finish"} =>
    \A n \in Servers : stage[n] = "none"

\* The nodes to clean up as stuck have a timed phase in the stored status.
StuckEntriesTimed ==
  pc = "stuck" => \A n \in todo : stored[n] \in TimedPhases

\* A control plane is being torn down only on the evidence that selected it.
TargetChosen ==
  /\ pc \in BeforeDecision => target = NoServer
  /\ pc \in Replacing =>
       /\ target \in Servers
       /\ view[target] = "late"
       /\ 2 * Cardinality(Ready \ {target}) > Desired

\* A name no server was made for is unknown to Kubernetes and to status.
UnmadeUnknown ==
  \A n \in Servers :
    server[n] = "none" =>
      /\ mem[n] \in {Untracked, "Failed"}
      /\ stored[n] \in {Untracked, "Failed"}
      /\ kube[n] = "absent"
      /\ view[n] # "late"
      /\ stage[n] \in {"none", "create"}
      /\ n # target

\* A server this reconcile made is tracked in an early phase until it is
\* given up.
MadeIsTracked ==
  \A n \in Servers : stage[n] \in Made => mem[n] \in EarlyProvisioningPhases

\* While the replacement is made, the old node is out of status.
TargetForgotten ==
  pc \in {"prepare", "provision", "configure"} /\ target # NoServer =>
    /\ mem[target] = Untracked
    /\ stage[target] = "none"

\* A scale-up is under way because entries are missing.
RoomToScaleUp ==
  pc = "prepare" /\ target = NoServer => Cardinality(Tracked) < Desired

Flow == StagesOnlyWhileProvisioning /\ StuckEntriesTimed /\ TargetChosen

IInv ==
  /\ TypeOK
  /\ Flow
  /\ UnmadeUnknown
  /\ MadeIsTracked
  /\ TargetForgotten
  /\ CrashLeavesTimedEntry
  /\ RoomToScaleUp
  /\ NoOvershoot

\* The stages and the list of stuck nodes belong to their own steps.
LEMMA FlowStagesNext ==
  ASSUME TypeOK, StagesOnlyWhileProvisioning, StuckEntriesTimed, [Next]_vars
  PROVE  (StagesOnlyWhileProvisioning /\ StuckEntriesTimed)'
<1> USE DEF worldVars, entryVars, operatorVars
<1>1. CASE UNCHANGED vars
  BY <1>1 DEF vars, TypeOK, StagesOnlyWhileProvisioning, StuckEntriesTimed
<1>2. CASE \/ Fetch \/ StuckNodesHandled \/ VerifyNodeStates
           \/ ReconcileHealth \/ RunningHealthCheck \/ HandleCPScaleUp
           \/ LeaveControlPlanes \/ RemoveFromEtcd \/ DeleteKubeNode
           \/ DeleteOldServer \/ PrepareForProvisioning \/ PersistProvisioned
           \/ ReplacementNotCreated \/ AllConfigured
  BY <1>2
     DEF Fetch, StuckNodesHandled, VerifyNodeStates, ReconcileHealth,
         RunningHealthCheck, HandleCPScaleUp, LeaveControlPlanes,
         RemoveFromEtcd, DeleteKubeNode, DeleteOldServer,
         PrepareForProvisioning, PersistProvisioned, ReplacementNotCreated,
         AllConfigured, TypeOK, StagesOnlyWhileProvisioning, StuckEntriesTimed
<1>3. CASE UpdateStatus
  BY <1>3
     DEF UpdateStatus, Forget, TypeOK, StagesOnlyWhileProvisioning,
         StuckEntriesTimed
<1>4. CASE Crash
  BY <1>4
     DEF Crash, Forget, TypeOK, StagesOnlyWhileProvisioning, StuckEntriesTimed
<1>5. ASSUME NEW n \in Servers, NodeStep(n)
      PROVE  (StagesOnlyWhileProvisioning /\ StuckEntriesTimed)'
  <2>1. CASE \/ HandleStuckNode(n) \/ ReplaceUnhealthyCP(n) \/ CreateServer(n)
             \/ AwaitServer(n) \/ BeginConfigure(n) \/ SkipConfig(n)
             \/ ApplyConfig(n) \/ ApplyConfigFails(n) \/ AbortConfig(n)
             \/ CPReady(n) \/ CPReadyTimeout(n)
    BY <2>1
       DEF HandleStuckNode, ReplaceUnhealthyCP, CreateServer, AwaitServer,
           BeginConfigure, SkipConfig, ApplyConfig, ApplyConfigFails,
           AbortConfig, CPReady, CPReadyTimeout, TypeOK,
           StagesOnlyWhileProvisioning, StuckEntriesTimed
  <2> QED
    BY <1>5, <2>1 DEF NodeStep
<1>6. ASSUME NEW n \in Servers, World(n)
      PROVE  (StagesOnlyWhileProvisioning /\ StuckEntriesTimed)'
  BY <1>6
     DEF World, JoinEtcd, RegisterNode, NodeBecomesReady, NodeBecomesNotReady,
         NotReadyTooLong, MachineDies, NodeCollected, TypeOK,
         StagesOnlyWhileProvisioning, StuckEntriesTimed
<1> QED
  BY <1>1, <1>2, <1>3, <1>4, <1>5, <1>6
     DEF Next, Reconcile, ReconcileStep

\* Changing the phase of a late node to one that is not Ready leaves the health
\* view as it is.
LEMMA LateStaysLate ==
  ASSUME TypeOK, NEW n \in Servers, NEW p, p # "Ready", view[n] = "late",
         UpdateNodePhase(n, p)
  PROVE  view' = view
BY DEF TypeOK, UpdateNodePhase

\* A late node is not among the healthy ones.
LEMMA LateNotReady ==
  ASSUME NEW n \in Late
  PROVE  Ready \ {n} = Ready
BY DEF Late, Ready

\* quorumNeeded is a strict majority of the desired count.
LEMMA QuorumIsMajority ==
  ASSUME NEW k \in Nat, k >= QuorumNeeded
  PROVE  2 * k > Desired
BY DesiredAssumption DEF QuorumNeeded

\* The control planes seen healthy can be counted.
LEMMA ReadyCounted == Cardinality(Ready) \in Nat
<1>1. Ready \subseteq Servers
  BY DEF Ready
<1> QED
  BY <1>1, ServersAssumption, FS_Subset, FS_CardinalityType

\* The evidence for a replacement stands until the old server is deleted.
LEMMA TargetChosenNext ==
  ASSUME TypeOK, TargetChosen, [Next]_vars
  PROVE  TargetChosen'
<1> USE DEF worldVars, entryVars, operatorVars
<1>1. CASE UNCHANGED vars
  BY <1>1 DEF vars, TypeOK, TargetChosen, BeforeDecision, Replacing, Ready
<1>2. CASE \/ Fetch \/ StuckNodesHandled \/ VerifyNodeStates
           \/ ReconcileHealth \/ RunningHealthCheck \/ HandleCPScaleUp
           \/ LeaveControlPlanes \/ DeleteKubeNode \/ DeleteOldServer
           \/ PrepareForProvisioning \/ PersistProvisioned
           \/ ReplacementNotCreated \/ AllConfigured
  BY <1>2
     DEF Fetch, StuckNodesHandled, VerifyNodeStates, ReconcileHealth,
         RunningHealthCheck, HandleCPScaleUp, LeaveControlPlanes,
         DeleteKubeNode, DeleteOldServer, PrepareForProvisioning,
         PersistProvisioned, ReplacementNotCreated, AllConfigured, TypeOK,
         TargetChosen, BeforeDecision, Replacing, Ready
<1>3. CASE RemoveFromEtcd
  <2>1. target \in Servers /\ view[target] = "late"
    BY <1>3 DEF RemoveFromEtcd, TargetChosen, Replacing
  <2>2. view' = view
    BY <1>3, <2>1, LateStaysLate DEF RemoveFromEtcd
  <2>3. Ready' = Ready
    BY <2>2 DEF Ready
  <2> QED
    BY <1>3, <2>2, <2>3
       DEF RemoveFromEtcd, TargetChosen, BeforeDecision, Replacing
<1>4. CASE UpdateStatus
  BY <1>4
     DEF UpdateStatus, Forget, TypeOK, TargetChosen, BeforeDecision,
         Replacing, Ready
<1>5. CASE Crash
  BY <1>5
     DEF Crash, Forget, TypeOK, TargetChosen, BeforeDecision, Replacing, Ready
<1>6. ASSUME NEW n \in Servers, NodeStep(n) PROVE TargetChosen'
  <2>1. CASE \/ HandleStuckNode(n) \/ CreateServer(n) \/ AwaitServer(n)
             \/ BeginConfigure(n) \/ SkipConfig(n) \/ ApplyConfig(n)
             \/ ApplyConfigFails(n) \/ AbortConfig(n) \/ CPReady(n)
             \/ CPReadyTimeout(n)
    BY <2>1
       DEF HandleStuckNode, CreateServer, AwaitServer, BeginConfigure,
           SkipConfig, ApplyConfig, ApplyConfigFails, AbortConfig, CPReady,
           CPReadyTimeout, TypeOK, TargetChosen, BeforeDecision, Replacing,
           Ready
  <2>2. CASE ReplaceUnhealthyCP(n)
    <3>1. n \in Late /\ Cardinality(Ready) >= QuorumNeeded /\ Desired # 1
      BY <2>2 DEF ReplaceUnhealthyCP, Replaceable
    <3>2. view[n] = "late"
      BY <3>1 DEF Late
    <3>3. view' = view
      BY <2>2, <3>2, LateStaysLate DEF ReplaceUnhealthyCP
    <3>4. (Ready \ {n})' = Ready
      BY <3>1, <3>3, LateNotReady DEF Ready
    <3>5. 2 * Cardinality(Ready) > Desired
      BY <3>1, ReadyCounted, QuorumIsMajority
    <3> QED
      BY <2>2, <3>2, <3>3, <3>4, <3>5
         DEF ReplaceUnhealthyCP, TargetChosen, BeforeDecision, Replacing
  <2> QED
    BY <1>6, <2>1, <2>2 DEF NodeStep
<1>7. ASSUME NEW n \in Servers, World(n) PROVE TargetChosen'
  BY <1>7
     DEF World, JoinEtcd, RegisterNode, NodeBecomesReady, NodeBecomesNotReady,
         NotReadyTooLong, MachineDies, NodeCollected, TypeOK, TargetChosen,
         BeforeDecision, Replacing, Ready
<1> QED
  BY <1>1, <1>2, <1>3, <1>4, <1>5, <1>6, <1>7
     DEF Next, Reconcile, ReconcileStep

\* No step records, lists, replaces or configures a server before it is made.
LEMMA UnmadeUnknownNext ==
  ASSUME TypeOK, Flow, UnmadeUnknown, [Next]_vars
  PROVE  UnmadeUnknown'
<1> USE DEF worldVars, entryVars, operatorVars
<1>0. NoServer \notin Servers
  BY ServersAssumption
<1>1. CASE UNCHANGED vars
  BY <1>1, <1>0, PhasesAreEntries DEF vars, TypeOK, UnmadeUnknown
<1>2. CASE \/ Fetch \/ StuckNodesHandled \/ HandleCPScaleUp
           \/ LeaveControlPlanes \/ DeleteKubeNode \/ ReplacementNotCreated
           \/ AllConfigured
  BY <1>2, <1>0, PhasesAreEntries
     DEF Fetch, StuckNodesHandled, HandleCPScaleUp, LeaveControlPlanes,
         DeleteKubeNode, ReplacementNotCreated, AllConfigured, TypeOK,
         UnmadeUnknown
<1>3. CASE VerifyNodeStates
  <2>1. ASSUME NEW n \in Servers, server[n] = "none"
        PROVE  mem'[n] = mem[n] /\ view'[n] = view[n]
    <3>1. n \notin Verifiable
      BY <2>1 DEF Verifiable, Tracked, UnmadeUnknown
    <3>2. PICK verified :
            /\ mem' = [m \in Servers |->
                         IF m \in Verifiable THEN verified[m] ELSE mem[m]]
            /\ view' = [m \in Servers |->
                          IF mem'[m] = mem[m] THEN view[m]
                          ELSE IF mem'[m] = "Ready" THEN "healthy"
                               ELSE "unhealthy"]
      BY <1>3 DEF VerifyNodeStates
    <3>3. mem'[n] = mem[n]
      BY <3>1, <3>2
    <3> QED
      BY <3>2, <3>3
  <2> QED
    BY <1>3, <2>1 DEF VerifyNodeStates, UnmadeUnknown
<1>4. CASE ReconcileHealth
  BY <1>4, <1>0, PhasesAreEntries
     DEF ReconcileHealth, HealthCheck, TypeOK, UnmadeUnknown
<1>5. CASE RunningHealthCheck
  BY <1>5, <1>0, PhasesAreEntries
     DEF RunningHealthCheck, HealthCheck, TypeOK, UnmadeUnknown
<1>6. CASE RemoveFromEtcd
  BY <1>6, <1>0, PhasesAreEntries
     DEF RemoveFromEtcd, UpdateNodePhase, TypeOK, UnmadeUnknown
<1>7. CASE DeleteOldServer
  BY <1>7, <1>0, PhasesAreEntries
     DEF DeleteOldServer, DeleteServer, RemoveNodeFromStatus, TypeOK,
         UnmadeUnknown
<1>8. CASE PrepareForProvisioning
  BY <1>8, <1>0, PhasesAreEntries
     DEF PrepareForProvisioning, Fresh, TypeOK, UnmadeUnknown
<1>9. CASE PersistProvisioned
  BY <1>9, <1>0, PhasesAreEntries
     DEF PersistProvisioned, PersistStatus, TypeOK, UnmadeUnknown
<1>10. CASE UpdateStatus
  BY <1>10, <1>0, PhasesAreEntries
     DEF UpdateStatus, Forget, PersistStatus, TypeOK, UnmadeUnknown
<1>11. CASE Crash
  BY <1>11, <1>0, PhasesAreEntries DEF Crash, Forget, TypeOK, UnmadeUnknown
<1>12. ASSUME NEW n \in Servers, NodeStep(n) PROVE UnmadeUnknown'
  <2>1. CASE ApplyConfigFails(n)
    BY <2>1, <1>0, PhasesAreEntries DEF ApplyConfigFails, TypeOK, UnmadeUnknown
  <2>2. CASE HandleStuckNode(n)
    BY <2>2, <1>0, PhasesAreEntries
       DEF HandleStuckNode, DeleteServer, RemoveNodeFromStatus, TypeOK,
           UnmadeUnknown
  <2>3. CASE ReplaceUnhealthyCP(n)
    BY <2>3, <1>0, PhasesAreEntries
       DEF ReplaceUnhealthyCP, Replaceable, Late, UpdateNodePhase, TypeOK,
           UnmadeUnknown
  <2>4. CASE CreateServer(n)
    BY <2>4, <1>0, PhasesAreEntries
       DEF CreateServer, UpdateNodePhase, TypeOK, UnmadeUnknown
  <2>5. CASE AwaitServer(n)
    BY <2>5, <1>0, PhasesAreEntries
       DEF AwaitServer, DeleteServer, RemoveNodeFromStatus, TypeOK,
           UnmadeUnknown
  <2>6. CASE BeginConfigure(n)
    BY <2>6, <1>0, PhasesAreEntries
       DEF BeginConfigure, UpdateNodePhase, PersistStatus, TypeOK,
           UnmadeUnknown
  <2>7. CASE SkipConfig(n)
    BY <2>7, <1>0, PhasesAreEntries
       DEF SkipConfig, UpdateNodePhase, PersistStatus, TypeOK, UnmadeUnknown
  <2>8. CASE ApplyConfig(n)
    BY <2>8, <1>0, PhasesAreEntries
       DEF ApplyConfig, UpdateNodePhase, TypeOK, UnmadeUnknown
  <2>9. CASE AbortConfig(n)
    BY <2>9, <1>0, PhasesAreEntries
       DEF AbortConfig, DeleteServer, RemoveNodeFromStatus, TypeOK,
           UnmadeUnknown
  <2>10. CASE CPReady(n)
    BY <2>10, <1>0, PhasesAreEntries
       DEF CPReady, UpdateNodePhase, PersistStatus, TypeOK, UnmadeUnknown
  <2>11. CASE CPReadyTimeout(n)
    BY <2>11, <1>0, PhasesAreEntries
       DEF CPReadyTimeout, UpdateNodePhase, TypeOK, UnmadeUnknown
  <2> QED
    BY <1>12, <2>1, <2>2, <2>3, <2>4, <2>5, <2>6, <2>7, <2>8, <2>9, <2>10,
    <2>11 DEF NodeStep
<1>13. ASSUME NEW n \in Servers, World(n) PROVE UnmadeUnknown'
  BY <1>13, <1>0, PhasesAreEntries
     DEF World, JoinEtcd, RegisterNode, NodeBecomesReady, NodeBecomesNotReady,
         NotReadyTooLong, MachineDies, NodeCollected, TypeOK, UnmadeUnknown
<1> QED
  BY <1>1, <1>2, <1>3, <1>4, <1>5, <1>6, <1>7, <1>8, <1>9, <1>10, <1>11,
  <1>12, <1>13
     DEF Next, Reconcile, ReconcileStep

\* A server this reconcile made stays tracked until it is given up.
LEMMA MadeIsTrackedNext ==
  ASSUME TypeOK, Flow, MadeIsTracked, [Next]_vars
  PROVE  MadeIsTracked'
<1> USE DEF worldVars, entryVars, operatorVars
<1>1. CASE UNCHANGED vars
  BY <1>1 DEF vars, TypeOK, MadeIsTracked, Made, EarlyProvisioningPhases
<1>2. CASE \/ StuckNodesHandled \/ HandleCPScaleUp \/ LeaveControlPlanes
           \/ DeleteKubeNode \/ PrepareForProvisioning \/ PersistProvisioned
           \/ ReplacementNotCreated \/ AllConfigured
  BY <1>2
     DEF StuckNodesHandled, HandleCPScaleUp, LeaveControlPlanes,
         DeleteKubeNode, PrepareForProvisioning, PersistProvisioned,
         ReplacementNotCreated, AllConfigured, TypeOK, MadeIsTracked, Made,
         EarlyProvisioningPhases
<1>3. CASE Fetch
  BY <1>3
     DEF Fetch, StagesOnlyWhileProvisioning, Flow, TypeOK, MadeIsTracked,
         Made, EarlyProvisioningPhases
<1>4. CASE VerifyNodeStates
  BY <1>4
     DEF VerifyNodeStates, StagesOnlyWhileProvisioning, Flow, TypeOK,
         MadeIsTracked, Made, EarlyProvisioningPhases
<1>5. CASE ReconcileHealth
  BY <1>5
     DEF ReconcileHealth, StagesOnlyWhileProvisioning, Flow, TypeOK,
         MadeIsTracked, Made, EarlyProvisioningPhases
<1>6. CASE RunningHealthCheck
  BY <1>6
     DEF RunningHealthCheck, StagesOnlyWhileProvisioning, Flow, TypeOK,
         MadeIsTracked, Made, EarlyProvisioningPhases
<1>7. CASE RemoveFromEtcd
  BY <1>7
     DEF RemoveFromEtcd, StagesOnlyWhileProvisioning, Flow, TypeOK,
         MadeIsTracked, Made, EarlyProvisioningPhases
<1>8. CASE DeleteOldServer
  BY <1>8
     DEF DeleteOldServer, StagesOnlyWhileProvisioning, Flow, TypeOK,
         MadeIsTracked, Made, EarlyProvisioningPhases
<1>9. CASE UpdateStatus
  BY <1>9
     DEF UpdateStatus, Forget, TypeOK, MadeIsTracked, Made,
         EarlyProvisioningPhases
<1>10. CASE Crash
  BY <1>10
     DEF Crash, Forget, TypeOK, MadeIsTracked, Made, EarlyProvisioningPhases
<1>11. ASSUME NEW n \in Servers, NodeStep(n) PROVE MadeIsTracked'
  <2>1. CASE ApplyConfigFails(n)
    BY <2>1
       DEF ApplyConfigFails, TypeOK, MadeIsTracked, Made,
           EarlyProvisioningPhases
  <2>2. CASE HandleStuckNode(n)
    BY <2>2
       DEF HandleStuckNode, StagesOnlyWhileProvisioning, Flow, TypeOK,
           MadeIsTracked, Made, EarlyProvisioningPhases
  <2>3. CASE ReplaceUnhealthyCP(n)
    BY <2>3
       DEF ReplaceUnhealthyCP, StagesOnlyWhileProvisioning, Flow, TypeOK,
           MadeIsTracked, Made, EarlyProvisioningPhases
  <2>4. CASE CreateServer(n)
    BY <2>4
       DEF CreateServer, UpdateNodePhase, TypeOK, MadeIsTracked, Made,
           EarlyProvisioningPhases
  <2>5. CASE AwaitServer(n)
    BY <2>5
       DEF AwaitServer, RemoveNodeFromStatus, TypeOK, MadeIsTracked, Made,
           EarlyProvisioningPhases
  <2>6. CASE BeginConfigure(n)
    BY <2>6
       DEF BeginConfigure, UpdateNodePhase, TypeOK, MadeIsTracked, Made,
           EarlyProvisioningPhases
  <2>7. CASE SkipConfig(n)
    BY <2>7
       DEF SkipConfig, UpdateNodePhase, TypeOK, MadeIsTracked, Made,
           EarlyProvisioningPhases
  <2>8. CASE ApplyConfig(n)
    BY <2>8
       DEF ApplyConfig, UpdateNodePhase, TypeOK, MadeIsTracked, Made,
           EarlyProvisioningPhases
  <2>9. CASE AbortConfig(n)
    BY <2>9
       DEF AbortConfig, RemoveNodeFromStatus, TypeOK, MadeIsTracked, Made,
           EarlyProvisioningPhases
  <2>10. CASE CPReady(n)
    BY <2>10
       DEF CPReady, UpdateNodePhase, TypeOK, MadeIsTracked, Made,
           EarlyProvisioningPhases
  <2>11. CASE CPReadyTimeout(n)
    BY <2>11
       DEF CPReadyTimeout, UpdateNodePhase, TypeOK, MadeIsTracked, Made,
           EarlyProvisioningPhases
  <2> QED
    BY <1>11, <2>1, <2>2, <2>3, <2>4, <2>5, <2>6, <2>7, <2>8, <2>9, <2>10,
    <2>11 DEF NodeStep
<1>12. ASSUME NEW n \in Servers, World(n) PROVE MadeIsTracked'
  BY <1>12
     DEF World, JoinEtcd, RegisterNode, NodeBecomesReady, NodeBecomesNotReady,
         NotReadyTooLong, MachineDies, NodeCollected, TypeOK, MadeIsTracked,
         Made, EarlyProvisioningPhases
<1> QED
  BY <1>1, <1>2, <1>3, <1>4, <1>5, <1>6, <1>7, <1>8, <1>9, <1>10, <1>11, <1>12
     DEF Next, Reconcile, ReconcileStep

\* An early phase is a timed phase.
LEMMA EarlyIsTimed == EarlyProvisioningPhases \subseteq TimedPhases
BY DEF TimedPhases

\* A server under configuration is in the stored status, in a timed phase.
LEMMA CrashLeavesTimedEntryNext ==
  ASSUME TypeOK, Flow, MadeIsTracked, MadeIsTracked', CrashLeavesTimedEntry,
         [Next]_vars
  PROVE  CrashLeavesTimedEntry'
<1> USE DEF worldVars, entryVars, operatorVars
<1>1. CASE UNCHANGED vars
  BY <1>1 DEF vars, TypeOK, CrashLeavesTimedEntry, InStage
<1>2. CASE \/ Fetch \/ StuckNodesHandled \/ VerifyNodeStates
           \/ ReconcileHealth \/ RunningHealthCheck \/ HandleCPScaleUp
           \/ LeaveControlPlanes \/ RemoveFromEtcd \/ DeleteKubeNode
           \/ DeleteOldServer \/ PrepareForProvisioning
           \/ ReplacementNotCreated \/ AllConfigured
  BY <1>2
     DEF Fetch, StuckNodesHandled, VerifyNodeStates, ReconcileHealth,
         RunningHealthCheck, HandleCPScaleUp, LeaveControlPlanes,
         RemoveFromEtcd, DeleteKubeNode, DeleteOldServer,
         PrepareForProvisioning, ReplacementNotCreated, AllConfigured, TypeOK,
         CrashLeavesTimedEntry, InStage
<1>3. CASE PersistProvisioned
  BY <1>3, EarlyIsTimed
     DEF PersistProvisioned, PersistStatus, MadeIsTracked, Made, TypeOK,
         CrashLeavesTimedEntry, InStage
<1>4. CASE UpdateStatus
  BY <1>4 DEF UpdateStatus, Forget, TypeOK, CrashLeavesTimedEntry, InStage
<1>5. CASE Crash
  BY <1>5 DEF Crash, Forget, TypeOK, CrashLeavesTimedEntry, InStage
<1>6. ASSUME NEW n \in Servers, NodeStep(n) PROVE CrashLeavesTimedEntry'
  <2>1. CASE \/ HandleStuckNode(n) \/ ReplaceUnhealthyCP(n) \/ CreateServer(n)
             \/ AwaitServer(n) \/ ApplyConfig(n) \/ ApplyConfigFails(n)
             \/ AbortConfig(n) \/ CPReadyTimeout(n)
    BY <2>1
       DEF HandleStuckNode, ReplaceUnhealthyCP, CreateServer, AwaitServer,
           ApplyConfig, ApplyConfigFails, AbortConfig, CPReadyTimeout, TypeOK,
           CrashLeavesTimedEntry, InStage
  <2>2. CASE BeginConfigure(n)
    BY <2>2, EarlyIsTimed
       DEF BeginConfigure, PersistStatus, MadeIsTracked, Made, TypeOK,
           CrashLeavesTimedEntry, InStage
  <2>3. CASE SkipConfig(n)
    BY <2>3, EarlyIsTimed
       DEF SkipConfig, PersistStatus, MadeIsTracked, Made, TypeOK,
           CrashLeavesTimedEntry, InStage
  <2>4. CASE CPReady(n)
    BY <2>4, EarlyIsTimed
       DEF CPReady, PersistStatus, MadeIsTracked, Made, TypeOK,
           CrashLeavesTimedEntry, InStage
  <2> QED
    BY <1>6, <2>1, <2>2, <2>3, <2>4 DEF NodeStep
<1>7. ASSUME NEW n \in Servers, World(n) PROVE CrashLeavesTimedEntry'
  BY <1>7
     DEF World, JoinEtcd, RegisterNode, NodeBecomesReady, NodeBecomesNotReady,
         NotReadyTooLong, MachineDies, NodeCollected, TypeOK,
         CrashLeavesTimedEntry, InStage
<1> QED
  BY <1>1, <1>2, <1>3, <1>4, <1>5, <1>6, <1>7
     DEF Next, Reconcile, ReconcileStep

\* The node being replaced is out of status from its deletion on.
LEMMA TargetForgottenNext ==
  ASSUME TypeOK, Flow, UnmadeUnknown, TargetForgotten, [Next]_vars
  PROVE  TargetForgotten'
<1> USE DEF worldVars, entryVars, operatorVars
<1>0. NoServer \notin Servers
  BY ServersAssumption
<1>1. CASE UNCHANGED vars
  BY <1>1, <1>0 DEF vars, TypeOK, TargetForgotten
<1>2. CASE \/ StuckNodesHandled \/ VerifyNodeStates \/ ReconcileHealth
           \/ RunningHealthCheck \/ LeaveControlPlanes \/ RemoveFromEtcd
           \/ DeleteKubeNode \/ ReplacementNotCreated \/ AllConfigured
  BY <1>2, <1>0
     DEF StuckNodesHandled, VerifyNodeStates, ReconcileHealth,
         RunningHealthCheck, LeaveControlPlanes, RemoveFromEtcd,
         DeleteKubeNode, ReplacementNotCreated, AllConfigured, TypeOK,
         TargetForgotten
<1>3. CASE Fetch
  BY <1>3, <1>0
     DEF Fetch, TargetChosen, BeforeDecision, Flow, TypeOK, TargetForgotten
<1>4. CASE HandleCPScaleUp
  BY <1>4, <1>0
     DEF HandleCPScaleUp, TargetChosen, BeforeDecision, Flow, TypeOK,
         TargetForgotten
<1>5. CASE DeleteOldServer
  BY <1>5, <1>0
     DEF DeleteOldServer, RemoveNodeFromStatus, TargetChosen, Replacing,
         StagesOnlyWhileProvisioning, Flow, TypeOK, TargetForgotten
<1>6. CASE PrepareForProvisioning
  <2>1. ASSUME pc' = "provision", target # NoServer
        PROVE  stage'[target] = "none"
    <3>1. target \in Servers /\ server[target] # "none"
      BY <2>1 DEF TypeOK, UnmadeUnknown
    <3>2. target \notin Fresh
      BY <3>1 DEF Fresh
    <3>3. PICK names \in SUBSET Fresh :
            stage' = [n \in Servers |-> IF n \in names THEN "create" ELSE "none"]
      BY <1>6, <2>1 DEF PrepareForProvisioning
    <3> QED
      BY <3>1, <3>2, <3>3
  <2> QED
    BY <1>6, <2>1 DEF PrepareForProvisioning, TargetForgotten
<1>7. CASE PersistProvisioned
  <2>1. /\ pc = "provision" /\ pc' = "configure"
        /\ UNCHANGED <<mem, stage, target>>
    BY <1>7 DEF PersistProvisioned, AllCreated
  <2> QED
    BY <2>1 DEF TargetForgotten
<1>8. CASE UpdateStatus
  BY <1>8, <1>0 DEF UpdateStatus, Forget, TypeOK, TargetForgotten
<1>9. CASE Crash
  BY <1>9, <1>0 DEF Crash, Forget, TypeOK, TargetForgotten
<1>10. ASSUME NEW n \in Servers, NodeStep(n) PROVE TargetForgotten'
  <2>1. CASE \/ HandleStuckNode(n) \/ ReplaceUnhealthyCP(n)
             \/ ApplyConfigFails(n)
    BY <2>1, <1>0
       DEF HandleStuckNode, ReplaceUnhealthyCP, ApplyConfigFails, TypeOK,
           TargetForgotten
  <2>2. CASE CreateServer(n)
    BY <2>2, <1>0 DEF CreateServer, UpdateNodePhase, TypeOK, TargetForgotten
  <2>3. CASE AwaitServer(n)
    BY <2>3, <1>0
       DEF AwaitServer, RemoveNodeFromStatus, TypeOK, TargetForgotten
  <2>4. CASE BeginConfigure(n)
    BY <2>4, <1>0 DEF BeginConfigure, UpdateNodePhase, TypeOK, TargetForgotten
  <2>5. CASE SkipConfig(n)
    BY <2>5, <1>0 DEF SkipConfig, UpdateNodePhase, TypeOK, TargetForgotten
  <2>6. CASE ApplyConfig(n)
    BY <2>6, <1>0 DEF ApplyConfig, UpdateNodePhase, TypeOK, TargetForgotten
  <2>7. CASE AbortConfig(n)
    BY <2>7, <1>0
       DEF AbortConfig, RemoveNodeFromStatus, TypeOK, TargetForgotten
  <2>8. CASE CPReady(n)
    BY <2>8, <1>0 DEF CPReady, UpdateNodePhase, TypeOK, TargetForgotten
  <2>9. CASE CPReadyTimeout(n)
    BY <2>9, <1>0 DEF CPReadyTimeout, UpdateNodePhase, TypeOK, TargetForgotten
  <2> QED
    BY <1>10, <2>1, <2>2, <2>3, <2>4, <2>5, <2>6, <2>7, <2>8, <2>9 DEF NodeStep
<1>11. ASSUME NEW n \in Servers, World(n) PROVE TargetForgotten'
  BY <1>11, <1>0
     DEF World, JoinEtcd, RegisterNode, NodeBecomesReady, NodeBecomesNotReady,
         NotReadyTooLong, MachineDies, NodeCollected, TypeOK, TargetForgotten
<1> QED
  BY <1>1, <1>2, <1>3, <1>4, <1>5, <1>6, <1>7, <1>8, <1>9, <1>10, <1>11
     DEF Next, Reconcile, ReconcileStep

\* Sets of control planes can be counted, and smaller ones count less.
LEMMA Countable ==
  ASSUME NEW S \in SUBSET Servers, NEW R \in SUBSET S
  PROVE  /\ IsFiniteSet(S)
         /\ Cardinality(S) \in Nat
         /\ Cardinality(R) \in Nat
         /\ Cardinality(R) <= Cardinality(S)
BY ServersAssumption, FS_Subset, FS_CardinalityType

\* The servers the reconcile counts: the tracked ones and those in hand.
Counted == Tracked \cup InStage(Stages \ {"none"})

\* Fewer servers in hand and tracked leave the bounds as they are.
LEMMA FewerKeepNoOvershoot ==
  ASSUME NoOvershoot, pc \in {"provision", "configure"}, target' = target,
         target # NoServer => mem'[target] = Untracked,
         Tracked' \subseteq Counted,
         (InStage(Stages \ {"none"}))' \subseteq InStage(Stages \ {"none"})
  PROVE  NoOvershoot'
<1>1. /\ Counted \subseteq Servers
      /\ InStage(Stages \ {"none"}) \subseteq Servers
      /\ Counted' \subseteq Counted
  BY DEF Counted, Tracked, InStage
<1>2. CASE target = NoServer
  <2>1. Cardinality(Counted) <= Desired
    BY <1>2 DEF NoOvershoot, Counted
  <2>2. Cardinality(Counted') <= Desired
    BY <1>1, <2>1, Countable, DesiredAssumption
  <2> QED
    BY <1>2, <2>2 DEF NoOvershoot, Counted
<1>3. CASE target # NoServer
  <2>1. Cardinality(InStage(Stages \ {"none"})) <= 1
    BY <1>3 DEF NoOvershoot
  <2>2. Cardinality((InStage(Stages \ {"none"}))') <= 1
    BY <1>1, <2>1, Countable
  <2> QED
    BY <1>3, <2>2 DEF NoOvershoot
<1> QED
  BY <1>2, <1>3

\* A step on one server in hand takes no other into hand and records no other.
LEMMA OneInHand ==
  ASSUME TypeOK, NEW n \in Servers, stage[n] # "none",
         mem' \in [Servers -> EntryPhases], stage' \in [Servers -> Stages],
         \A m \in Servers \ {n} : mem'[m] = mem[m] /\ stage'[m] = stage[m]
  PROVE  /\ Tracked' \subseteq Counted
         /\ (InStage(Stages \ {"none"}))' \subseteq InStage(Stages \ {"none"})
BY DEF TypeOK, Counted, Tracked, InStage

\* A scale-up is only prepared when entries are missing.
LEMMA RoomToScaleUpNext ==
  ASSUME TypeOK, Flow, RoomToScaleUp, [Next]_vars
  PROVE  RoomToScaleUp'
<1> USE DEF worldVars, entryVars, operatorVars
<1>0. NoServer \notin Servers
  BY ServersAssumption
<1>1. CASE UNCHANGED vars
  BY <1>1, <1>0 DEF vars, TypeOK, RoomToScaleUp, Tracked
<1>2. CASE \/ Fetch \/ StuckNodesHandled \/ VerifyNodeStates
           \/ ReconcileHealth \/ RunningHealthCheck \/ LeaveControlPlanes
           \/ RemoveFromEtcd \/ DeleteKubeNode \/ PrepareForProvisioning
           \/ PersistProvisioned \/ ReplacementNotCreated \/ AllConfigured
  BY <1>2, <1>0
     DEF Fetch, StuckNodesHandled, VerifyNodeStates, ReconcileHealth,
         RunningHealthCheck, LeaveControlPlanes, RemoveFromEtcd,
         DeleteKubeNode, PrepareForProvisioning, PersistProvisioned,
         ReplacementNotCreated, AllConfigured, TypeOK, RoomToScaleUp, Tracked
<1>3. CASE HandleCPScaleUp
  BY <1>3, <1>0
     DEF HandleCPScaleUp, NeedsScaleUp, TypeOK, RoomToScaleUp, Tracked
<1>4. CASE DeleteOldServer
  BY <1>4, <1>0
     DEF DeleteOldServer, TargetChosen, Replacing, Flow, TypeOK,
         RoomToScaleUp, Tracked
<1>5. CASE UpdateStatus
  BY <1>5, <1>0 DEF UpdateStatus, Forget, TypeOK, RoomToScaleUp, Tracked
<1>6. CASE Crash
  BY <1>6, <1>0 DEF Crash, Forget, TypeOK, RoomToScaleUp, Tracked
<1>7. ASSUME NEW n \in Servers, NodeStep(n) PROVE RoomToScaleUp'
  <2>1. CASE \/ HandleStuckNode(n) \/ ReplaceUnhealthyCP(n) \/ CreateServer(n)
             \/ AwaitServer(n) \/ BeginConfigure(n) \/ SkipConfig(n)
             \/ ApplyConfig(n) \/ ApplyConfigFails(n) \/ AbortConfig(n)
             \/ CPReady(n) \/ CPReadyTimeout(n)
    BY <2>1, <1>0
       DEF HandleStuckNode, ReplaceUnhealthyCP, CreateServer, AwaitServer,
           BeginConfigure, SkipConfig, ApplyConfig, ApplyConfigFails,
           AbortConfig, CPReady, CPReadyTimeout, TypeOK, RoomToScaleUp,
           Tracked
  <2> QED
    BY <1>7, <2>1 DEF NodeStep
<1>8. ASSUME NEW n \in Servers, World(n) PROVE RoomToScaleUp'
  BY <1>8, <1>0
     DEF World, JoinEtcd, RegisterNode, NodeBecomesReady, NodeBecomesNotReady,
         NotReadyTooLong, MachineDies, NodeCollected, TypeOK, RoomToScaleUp,
         Tracked
<1> QED
  BY <1>1, <1>2, <1>3, <1>4, <1>5, <1>6, <1>7, <1>8
     DEF Next, Reconcile, ReconcileStep

\* No step of a scale-up or a replacement takes on more servers than planned.
LEMMA NoOvershootNext ==
  ASSUME TypeOK, Flow, TargetForgotten, RoomToScaleUp, NoOvershoot, [Next]_vars
  PROVE  NoOvershoot'
<1> USE DEF worldVars, entryVars, operatorVars
<1>0. NoServer \notin Servers
  BY ServersAssumption
<1>1. CASE UNCHANGED vars
  BY <1>1, <1>0 DEF vars, TypeOK, NoOvershoot, Tracked, InStage
<1>2. CASE \/ Fetch \/ StuckNodesHandled \/ VerifyNodeStates
           \/ ReconcileHealth \/ RunningHealthCheck \/ HandleCPScaleUp
           \/ LeaveControlPlanes \/ RemoveFromEtcd \/ DeleteKubeNode
           \/ DeleteOldServer \/ ReplacementNotCreated \/ AllConfigured
  BY <1>2, <1>0
     DEF Fetch, StuckNodesHandled, VerifyNodeStates, ReconcileHealth,
         RunningHealthCheck, HandleCPScaleUp, LeaveControlPlanes,
         RemoveFromEtcd, DeleteKubeNode, DeleteOldServer,
         ReplacementNotCreated, AllConfigured, TypeOK, NoOvershoot, Tracked,
         InStage
<1>3. CASE PrepareForProvisioning
  <2> SUFFICES ASSUME pc' = "provision" PROVE NoOvershoot'
    BY <1>3 DEF PrepareForProvisioning, NoOvershoot
  <2>1. PICK names \in SUBSET Fresh :
          /\ Cardinality(names) = ToCreate
          /\ stage' = [n \in Servers |-> IF n \in names THEN "create" ELSE "none"]
    BY <1>3 DEF PrepareForProvisioning
  <2>2. pc = "prepare" /\ UNCHANGED <<mem, target>>
    BY <1>3 DEF PrepareForProvisioning
  <2>3. Tracked' = Tracked
    BY <2>2 DEF Tracked
  <2>4. (InStage(Stages \ {"none"}))' = names
    BY <2>1 DEF InStage, Stages, Fresh
  <2>5. CASE target = NoServer
    <3>1. /\ names \in SUBSET Servers /\ Tracked \in SUBSET Servers
          /\ names \cap Tracked = {}
      BY DEF Fresh, Tracked
    <3>2. /\ IsFiniteSet(names) /\ IsFiniteSet(Tracked)
          /\ Cardinality(Tracked) \in Nat
      BY <3>1, Countable
    <3>3. Cardinality(Tracked \cup names)
            = Cardinality(Tracked) + Cardinality(names)
      <4>1. Cardinality(Tracked \cup names) =
              Cardinality(Tracked) + Cardinality(names)
                - Cardinality(Tracked \cap names)
        BY <3>2, FS_Union
      <4>2. Cardinality(Tracked \cap names) = 0
        BY <3>1, FS_EmptySet
      <4>3. Cardinality(names) \in Nat
        BY <3>2, FS_CardinalityType
      <4> QED
        BY <3>2, <4>1, <4>2, <4>3
    <3>4. Cardinality(names) = Desired - Cardinality(Tracked)
      BY <2>1, <2>5 DEF ToCreate
    <3>5. Cardinality(Tracked \cup names) <= Desired
      BY <3>2, <3>3, <3>4, DesiredAssumption
    <3> QED
      BY <2>2, <2>3, <2>4, <2>5, <3>5 DEF NoOvershoot
  <2>6. CASE target # NoServer
    <3>1. Cardinality(names) = 1
      BY <2>1, <2>6 DEF ToCreate
    <3>2. mem'[target] = Untracked
      BY <2>2, <2>6 DEF TargetForgotten
    <3> QED
      BY <2>2, <2>4, <2>6, <3>1, <3>2 DEF NoOvershoot
  <2> QED
    BY <2>5, <2>6
<1>4. CASE PersistProvisioned
  <2>1. /\ UNCHANGED <<mem, stage, target>>
        /\ pc = "provision"
    BY <1>4 DEF PersistProvisioned, AllCreated
  <2>2. /\ UNCHANGED <<Tracked, InStage(Stages \ {"none"})>>
    BY <2>1 DEF Tracked, InStage
  <2> QED
    BY <2>1, <2>2 DEF NoOvershoot
<1>5. CASE UpdateStatus
  BY <1>5, <1>0 DEF UpdateStatus, Forget, TypeOK, NoOvershoot, Tracked, InStage
<1>6. CASE Crash
  BY <1>6, <1>0 DEF Crash, Forget, TypeOK, NoOvershoot, Tracked, InStage
<1>7. ASSUME NEW n \in Servers, NodeStep(n) PROVE NoOvershoot'
  <2>1. CASE \/ HandleStuckNode(n) \/ ReplaceUnhealthyCP(n) \/ AbortConfig(n)
             \/ CPReadyTimeout(n)
    BY <2>1, <1>0
       DEF HandleStuckNode, ReplaceUnhealthyCP, AbortConfig, CPReadyTimeout,
           TypeOK, NoOvershoot, Tracked, InStage
  <2>2. CASE CreateServer(n)
    <3>1. /\ stage[n] # "none" /\ pc \in {"provision", "configure"}
          /\ target' = target
      BY <2>2 DEF CreateServer
    <3>2. mem' \in [Servers -> EntryPhases] /\ stage' \in [Servers -> Stages]
      BY TypeNext DEF TypeOK
    <3>3. \A m \in Servers \ {n} : mem'[m] = mem[m] /\ stage'[m] = stage[m]
      BY <2>2 DEF CreateServer, UpdateNodePhase, TypeOK
    <3>4. target # NoServer => mem'[target] = Untracked
      BY <3>1, <3>3, <1>0 DEF TypeOK, TargetForgotten
    <3> QED
      BY <3>1, <3>2, <3>3, <3>4, OneInHand, FewerKeepNoOvershoot
  <2>3. CASE AwaitServer(n)
    <3>1. /\ stage[n] # "none" /\ pc \in {"provision", "configure"}
          /\ target' = target
      BY <2>3 DEF AwaitServer
    <3>2. mem' \in [Servers -> EntryPhases] /\ stage' \in [Servers -> Stages]
      BY TypeNext DEF TypeOK
    <3>3. \A m \in Servers \ {n} : mem'[m] = mem[m] /\ stage'[m] = stage[m]
      BY <2>3 DEF AwaitServer, RemoveNodeFromStatus, TypeOK
    <3>4. target # NoServer => mem'[target] = Untracked
      BY <3>1, <3>3, <1>0 DEF TypeOK, TargetForgotten
    <3> QED
      BY <3>1, <3>2, <3>3, <3>4, OneInHand, FewerKeepNoOvershoot
  <2>4. CASE BeginConfigure(n)
    <3>1. /\ stage[n] # "none" /\ pc \in {"provision", "configure"}
          /\ target' = target
      BY <2>4 DEF BeginConfigure
    <3>2. mem' \in [Servers -> EntryPhases] /\ stage' \in [Servers -> Stages]
      BY TypeNext DEF TypeOK
    <3>3. \A m \in Servers \ {n} : mem'[m] = mem[m] /\ stage'[m] = stage[m]
      BY <2>4 DEF BeginConfigure, UpdateNodePhase, TypeOK
    <3>4. target # NoServer => mem'[target] = Untracked
      BY <3>1, <3>3, <1>0 DEF TypeOK, TargetForgotten
    <3> QED
      BY <3>1, <3>2, <3>3, <3>4, OneInHand, FewerKeepNoOvershoot
  <2>5. CASE SkipConfig(n)
    <3>1. /\ stage[n] # "none" /\ pc \in {"provision", "configure"}
          /\ target' = target
      BY <2>5 DEF SkipConfig
    <3>2. mem' \in [Servers -> EntryPhases] /\ stage' \in [Servers -> Stages]
      BY TypeNext DEF TypeOK
    <3>3. \A m \in Servers \ {n} : mem'[m] = mem[m] /\ stage'[m] = stage[m]
      BY <2>5 DEF SkipConfig, UpdateNodePhase, TypeOK
    <3>4. target # NoServer => mem'[target] = Untracked
      BY <3>1, <3>3, <1>0 DEF TypeOK, TargetForgotten
    <3> QED
      BY <3>1, <3>2, <3>3, <3>4, OneInHand, FewerKeepNoOvershoot
  <2>6. CASE ApplyConfig(n)
    <3>1. /\ stage[n] # "none" /\ pc \in {"provision", "configure"}
          /\ target' = target
      BY <2>6 DEF ApplyConfig
    <3>2. mem' \in [Servers -> EntryPhases] /\ stage' \in [Servers -> Stages]
      BY TypeNext DEF TypeOK
    <3>3. \A m \in Servers \ {n} : mem'[m] = mem[m] /\ stage'[m] = stage[m]
      BY <2>6 DEF ApplyConfig, UpdateNodePhase, TypeOK
    <3>4. target # NoServer => mem'[target] = Untracked
      BY <3>1, <3>3, <1>0 DEF TypeOK, TargetForgotten
    <3> QED
      BY <3>1, <3>2, <3>3, <3>4, OneInHand, FewerKeepNoOvershoot
  <2>7. CASE ApplyConfigFails(n)
    <3>1. /\ stage[n] # "none" /\ pc \in {"provision", "configure"}
          /\ target' = target
      BY <2>7 DEF ApplyConfigFails
    <3>2. mem' \in [Servers -> EntryPhases] /\ stage' \in [Servers -> Stages]
      BY TypeNext DEF TypeOK
    <3>3. \A m \in Servers \ {n} : mem'[m] = mem[m] /\ stage'[m] = stage[m]
      BY <2>7 DEF ApplyConfigFails, UpdateNodePhase, TypeOK
    <3>4. target # NoServer => mem'[target] = Untracked
      BY <3>1, <3>3, <1>0 DEF TypeOK, TargetForgotten
    <3> QED
      BY <3>1, <3>2, <3>3, <3>4, OneInHand, FewerKeepNoOvershoot
  <2>8. CASE CPReady(n)
    <3>1. /\ stage[n] # "none" /\ pc \in {"provision", "configure"}
          /\ target' = target
      BY <2>8 DEF CPReady
    <3>2. mem' \in [Servers -> EntryPhases] /\ stage' \in [Servers -> Stages]
      BY TypeNext DEF TypeOK
    <3>3. \A m \in Servers \ {n} : mem'[m] = mem[m] /\ stage'[m] = stage[m]
      BY <2>8 DEF CPReady, UpdateNodePhase, TypeOK
    <3>4. target # NoServer => mem'[target] = Untracked
      BY <3>1, <3>3, <1>0 DEF TypeOK, TargetForgotten
    <3> QED
      BY <3>1, <3>2, <3>3, <3>4, OneInHand, FewerKeepNoOvershoot
  <2> QED
    BY <1>7, <2>1, <2>2, <2>3, <2>4, <2>5, <2>6, <2>7, <2>8 DEF NodeStep
<1>8. ASSUME NEW n \in Servers, World(n) PROVE NoOvershoot'
  BY <1>8, <1>0
     DEF World, JoinEtcd, RegisterNode, NodeBecomesReady, NodeBecomesNotReady,
         NotReadyTooLong, MachineDies, NodeCollected, TypeOK, NoOvershoot,
         Tracked, InStage
<1> QED
  BY <1>1, <1>2, <1>3, <1>4, <1>5, <1>6, <1>7, <1>8
     DEF Next, Reconcile, ReconcileStep

-----------------------------------------------------------------------------
(***************************************************************************)
(* The theorems.                                                           *)
(***************************************************************************)

\* A healthy cluster before its first reconcile satisfies the invariant.
LEMMA InvInit == Init => IInv
<1> SUFFICES ASSUME Init PROVE IInv
  OBVIOUS
<1>1. TypeOK
  BY TypeInit
<1>2. PICK cps \in SUBSET Servers :
        /\ server = [n \in Servers |-> IF n \in cps THEN "up" ELSE "none"]
        /\ kube = [n \in Servers |-> IF n \in cps THEN "ready" ELSE "absent"]
        /\ stored = [n \in Servers |-> IF n \in cps THEN Listed ELSE Untracked]
  BY DEF Init
<1>3. /\ pc = "idle" /\ target = NoServer
      /\ mem = [n \in Servers |-> Untracked]
      /\ view = [n \in Servers |-> "unhealthy"]
      /\ stage = [n \in Servers |-> "none"]
  BY DEF Init
<1>4. Flow
  BY <1>3 DEF Flow, StagesOnlyWhileProvisioning, StuckEntriesTimed, TargetChosen,
              BeforeDecision, Replacing
<1>5. UnmadeUnknown
  BY <1>2, <1>3, ServersAssumption DEF UnmadeUnknown
<1>6. MadeIsTracked /\ CrashLeavesTimedEntry
  BY <1>3 DEF MadeIsTracked, Made, CrashLeavesTimedEntry, InStage
<1>7. TargetForgotten /\ RoomToScaleUp /\ NoOvershoot
  BY <1>3 DEF TargetForgotten, RoomToScaleUp, NoOvershoot
<1> QED
  BY <1>1, <1>4, <1>5, <1>6, <1>7 DEF IInv

\* Every step keeps the invariant.
LEMMA InvNext == IInv /\ [Next]_vars => IInv'
<1> SUFFICES ASSUME IInv, [Next]_vars PROVE IInv'
  OBVIOUS
<1> USE DEF IInv
<1>1. TypeOK'
  BY TypeNext
<1>2. Flow'
  BY FlowStagesNext, TargetChosenNext DEF Flow
<1>3. UnmadeUnknown'
  BY UnmadeUnknownNext
<1>4. MadeIsTracked'
  BY MadeIsTrackedNext
<1>5. TargetForgotten'
  BY TargetForgottenNext
<1>6. CrashLeavesTimedEntry'
  BY <1>4, CrashLeavesTimedEntryNext
<1>7. RoomToScaleUp'
  BY RoomToScaleUpNext
<1>8. NoOvershoot'
  BY NoOvershootNext
<1> QED
  BY <1>1, <1>2, <1>3, <1>4, <1>5, <1>6, <1>7, <1>8

\* The invariant holds throughout.
THEOREM Invariance == Spec => []IInv
<1> QED
  BY InvInit, InvNext, PTL DEF Spec

\* A reconcile never takes on more servers than the decision to scale up or to
\* replace found missing, for every desired count and every failure.
THEOREM ScaleUpIsBounded == Spec => []NoOvershoot
<1>1. IInv => NoOvershoot
  BY DEF IInv
<1> QED
  BY <1>1, Invariance, PTL

\* No control plane is counted in status that was never made.
THEOREM StatusHasNoPhantoms == Spec => []NoPhantomEntries
<1>1. IInv => NoPhantomEntries
  BY DEF IInv, UnmadeUnknown, NoPhantomEntries
<1> QED
  BY <1>1, Invariance, PTL

\* If status updates succeed, a crash at any moment of a configuration leaves an
\* entry the next operator can time out.
THEOREM ConfigurationIsRecorded == Spec => []CrashLeavesTimedEntry
<1>1. IInv => CrashLeavesTimedEntry
  BY DEF IInv
<1> QED
  BY <1>1, Invariance, PTL

\* Which steps delete a server, and which server.
LEMMA WhoDeletes ==
  ASSUME IInv, [Next]_vars, NEW n \in Servers, Deleted(n)
  PROVE  \/ HandleStuckNode(n)
         \/ DeleteOldServer /\ n = target
         \/ AwaitServer(n)
         \/ AbortConfig(n)
<1> USE DEF worldVars, entryVars, operatorVars, Deleted
<1>1. server'[n] # server[n]
  OBVIOUS
<1>2. CASE UNCHANGED vars
  BY <1>1, <1>2 DEF vars
<1>3. CASE Fetch \/ Crash \/ UpdateStatus
  BY <1>1, <1>3 DEF Fetch, Crash, UpdateStatus
<1>4. CASE \/ StuckNodesHandled \/ VerifyNodeStates \/ ReconcileHealth
           \/ RunningHealthCheck \/ HandleCPScaleUp \/ LeaveControlPlanes
           \/ RemoveFromEtcd \/ DeleteKubeNode \/ PrepareForProvisioning
           \/ PersistProvisioned \/ ReplacementNotCreated \/ AllConfigured
  BY <1>1, <1>4
     DEF StuckNodesHandled, VerifyNodeStates, ReconcileHealth, RunningHealthCheck,
         HandleCPScaleUp, LeaveControlPlanes, RemoveFromEtcd, DeleteKubeNode,
         PrepareForProvisioning, PersistProvisioned, ReplacementNotCreated,
         AllConfigured
<1>5. CASE DeleteOldServer
  BY <1>1, <1>5 DEF DeleteOldServer, DeleteServer, IInv, TypeOK
<1>6. ASSUME NEW m \in Servers, NodeStep(m)
      PROVE  HandleStuckNode(n) \/ AwaitServer(n) \/ AbortConfig(n)
  <2>1. CASE HandleStuckNode(m)
    BY <1>1, <2>1 DEF HandleStuckNode, DeleteServer, IInv, TypeOK
  <2>2. CASE AwaitServer(m)
    BY <1>1, <2>2 DEF AwaitServer, DeleteServer, IInv, TypeOK
  <2>3. CASE AbortConfig(m)
    BY <1>1, <2>3 DEF AbortConfig, DeleteServer, IInv, TypeOK
  <2>4. CASE CreateServer(m)
    BY <1>1, <2>4 DEF CreateServer, IInv, TypeOK
  <2>5. CASE \/ ReplaceUnhealthyCP(m) \/ BeginConfigure(m) \/ SkipConfig(m)
             \/ ApplyConfig(m) \/ ApplyConfigFails(m) \/ CPReady(m)
             \/ CPReadyTimeout(m)
    BY <1>1, <2>5
       DEF ReplaceUnhealthyCP, BeginConfigure, SkipConfig, ApplyConfig,
           ApplyConfigFails, CPReady, CPReadyTimeout
  <2> QED
    BY <1>6, <2>1, <2>2, <2>3, <2>4, <2>5 DEF NodeStep
<1>7. ASSUME NEW m \in Servers, World(m) PROVE FALSE
  BY <1>1, <1>7
     DEF World, JoinEtcd, RegisterNode, NodeBecomesReady, NodeBecomesNotReady,
         NotReadyTooLong, MachineDies, NodeCollected, IInv, TypeOK
<1> QED
  BY <1>2, <1>3, <1>4, <1>5, <1>6, <1>7 DEF Next, Reconcile, ReconcileStep

\* No server is deleted without one of the three reasons; in particular a control
\* plane is replaced only while a majority of the desired count was seen healthy
\* without it.
THEOREM DeletionsAreJustified == Spec => TeardownJustified
<1> DEFINE Reason(n) ==
             \/ pc = "stuck" /\ stored[n] \in TimedPhases
             \/ /\ n = target
                /\ view[n] = "late"
                /\ 2 * Cardinality(Ready \ {n}) > Desired
             \/ stage[n] \in {"await", "failing"}
           Justified == \A n \in Servers : Deleted(n) => Reason(n)
<1>1. IInv /\ [Next]_vars => [Justified]_vars
  <2> SUFFICES ASSUME IInv, [Next]_vars, NEW n \in Servers, Deleted(n)
               PROVE  Reason(n)
    OBVIOUS
  <2>1. CASE HandleStuckNode(n)
    BY <2>1 DEF HandleStuckNode, IInv, Flow, StuckEntriesTimed
  <2>2. CASE DeleteOldServer /\ n = target
    BY <2>2 DEF DeleteOldServer, IInv, Flow, TargetChosen, Replacing
  <2>3. CASE AwaitServer(n)
    BY <2>3 DEF AwaitServer
  <2>4. CASE AbortConfig(n)
    BY <2>4 DEF AbortConfig
  <2> QED
    BY <2>1, <2>2, <2>3, <2>4, WhoDeletes
<1>2. Spec => [][Justified]_vars
  BY <1>1, Invariance, PTL DEF Spec
<1> QED
  BY <1>2 DEF TeardownJustified

\* The reconcile that applied a configuration never deletes that server.
THEOREM AppliedIsKept == Spec => NoDeleteAfterApply
<1> DEFINE Kept == \A n \in Servers : stage[n] \in {"wait", "done"} => ~Deleted(n)
<1>1. IInv /\ [Next]_vars => [Kept]_vars
  <2> SUFFICES ASSUME IInv, [Next]_vars,
                      NEW n \in Servers, stage[n] \in {"wait", "done"}, Deleted(n)
               PROVE  FALSE
    OBVIOUS
  <2>1. pc \in {"provision", "configure", "finish"}
    BY DEF IInv, Flow, StagesOnlyWhileProvisioning
  <2>2. ~HandleStuckNode(n) /\ ~DeleteOldServer
    BY <2>1 DEF HandleStuckNode, DeleteOldServer
  <2>3. ~AwaitServer(n) /\ ~AbortConfig(n)
    BY DEF AwaitServer, AbortConfig
  <2> QED
    BY <2>2, <2>3, WhoDeletes
<1>2. Spec => [][Kept]_vars
  BY <1>1, Invariance, PTL DEF Spec
<1> QED
  BY <1>2 DEF NoDeleteAfterApply

=============================================================================
