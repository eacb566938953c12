------------------------------- MODULE Workers -------------------------------
(***************************************************************************)
(* The operator's reconcile loop for workers, in the last provisioning     *)
(* phase ("addons", which makes the workers it waits for) and in a running *)
(* cluster: healing, scale-up, scale-down.                                 *)
(*                                                                         *)
(* status.workers.nodes is a Go slice that healing points into while it    *)
(* removes and appends entries, so a status keeps the backing array        *)
(* (nodes) and the slice's length (len): what lies beyond len is dead but  *)
(* still there for a pointer taken earlier.                                *)
(*                                                                         *)
(* Steps, time and failing calls are treated as in ControlPlane.  Of a      *)
(* phase only its class is kept, which is all that a reconcile reads.      *)
(* Cordoning and evicting pods never stop the code and are left out; so is *)
(* what the control planes' part of the same reconcile does, except that   *)
(* it may end the reconcile before the workers' turn.  Verification (step  *)
(* 2 of reconcile) matters only when the node list cannot be read: the     *)
(* health check replaces all that it writes.  The world moves only at the  *)
(* steps WorldMoves names: the others neither read nor write node objects, *)
(* so a move of the world there is as good as one before or after.         *)
(***************************************************************************)
EXTENDS NodePhase, FiniteSets, Sequences

CONSTANTS
  Servers,    \* names of workers, present and future
  NoServer,   \* "no worker is being torn down"
  Desired,    \* spec.workers.count
  Initial,    \* the sizes the cluster may have at first
  MaxHeals,   \* maxConcurrentHeals
  FaultSets,  \* sets of kinds of failure that may happen in one behaviour
  MaxTrouble  \* bound: nodes NotReady at one time

ASSUME ServersAssumption == IsFiniteSet(Servers) /\ NoServer \notin Servers
ASSUME DesiredAssumption == Desired \in Nat
ASSUME InitialAssumption == Initial \subseteq Nat
ASSUME MaxHealsAssumption == MaxHeals \in Nat \ {0}
ASSUME MaxTroubleAssumption == MaxTrouble \in Nat

\* "crash"  the operator stops mid-reconcile  "write"  a status update fails
\* "read"   a node or the list is unreadable  "delete" a deletion fails
\* "create" a server cannot be made           "talos"  a Talos call fails
FaultKinds == {"crash", "write", "read", "delete", "create", "talos"}

ASSUME FaultsAssumption == FaultSets \subseteq SUBSET FaultKinds

VARIABLES
  server,   \* Hetzner: "none", "up" or "gone"
  talos,    \* "maintenance" or "configured"
  kube,     \* node object: "absent", "notReady", "late" or "ready"
  stored,   \* the status the API server holds
  pc,       \* the step the reconcile is at
  mem,      \* the reconcile's copy of the status
  work,     \* what the current loop goes through: names, or pointers
  at,       \* its position in work
  removed,  \* workers replaced, or removed, by the current loop
  target,   \* the worker being torn down
  stage,    \* how far this reconcile has provisioned a worker
  faults    \* the kinds of failure of this behaviour

worldVars    == <<server, talos, kube>>
loopVars     == <<work, at, removed, target>>
operatorVars == <<stored, pc, mem, loopVars, stage>>
vars         == <<worldVars, operatorVars, faults>>

Healths == {"healthy", "unhealthy", "late"}
Phases  == {"addons", "running"}
Stages  == {"none", "create", "await", "provisioned", "apply", "wait",
            "done", "skipped", "failed", "over"}
Steps   == {"idle", "stuck", "health", "addons", "running", "heal", "healNode",
            "healServer", "downNode", "downServer", "prepareHeal", "prepareUp",
            "provision", "configure", "finish"}

\* Early provisioning, being torn down, or in no hurry.
Classes == {"early", "leaving", "settled"}

ClassOf(p) == IF p \in EarlyProvisioningPhases THEN "early"
              ELSE IF p \in TimedPhases THEN "leaving" ELSE "settled"

Entry  == [name : Servers, phase : Classes, health : Healths]
Status == [nodes : Seq(Entry), len : Nat, ready : Nat, phase : Phases]

\* What a status update stores.  The entries' order and health and the number
\* of Ready workers are left out: a health check replaces them before they are
\* read, and when it fails they may be anything.
Record == [entry : [Servers -> Classes \cup {Untracked}], phase : Phases]

TypeOK ==
  /\ server \in [Servers -> {"none", "up", "gone"}]
  /\ talos \in [Servers -> {"maintenance", "configured"}]
  /\ kube \in [Servers -> KubeStates]
  /\ stored \in Record
  /\ mem \in Status /\ mem.len <= Len(mem.nodes)
  /\ pc \in Steps
  /\ work \in Seq(Servers) \cup Seq(Nat)
  /\ at \in Nat \ {0} /\ removed \in Nat
  /\ target \in Servers \cup {NoServer}
  /\ stage \in [Servers -> Stages]
  /\ faults \in FaultSets

-----------------------------------------------------------------------------
(***************************************************************************)
(* The slice.                                                              *)
(***************************************************************************)

Slots(st)    == 1..st.len
Where(st, n) == {i \in Slots(st) : st.nodes[i].name = n}
Names(st)    == {st.nodes[i].name : i \in Slots(st)}

PhaseOf(st, n) == IF Where(st, n) = {} THEN Untracked
                  ELSE st.nodes[CHOOSE i \in Where(st, n) : TRUE].phase

RecordOf(st) ==
  [entry |-> [n \in Servers |-> PhaseOf(st, n)], phase |-> st.phase]

\* Orders a set of nodes can come in: the informer lists them in any.
Orders(S) ==
  {o \in [1..Cardinality(S) -> S] : \A i, j \in DOMAIN o : i # j => o[i] # o[j]}

StatusOf(rec) ==
  LET order == CHOOSE o \in Orders({n \in Servers : rec.entry[n] # Untracked}) : TRUE
  IN [nodes |-> [i \in DOMAIN order |-> [name |-> order[i], phase |-> rec.entry[order[i]],
                                         health |-> "unhealthy"]],
      len |-> Len(order), ready |-> 0, phase |-> rec.phase]

\* Once the loop has chosen its work, nothing reads the order of the entries,
\* their health, what lies beyond the slice, or the number of Ready ones.
Settled(st) == StatusOf(RecordOf(st))

\* Mutant: the array append returns is thrown away, its length is not.
SetPhaseInPlace(st, n, p) ==
  IF Where(st, n) # {}
  THEN [st EXCEPT !.nodes = [i \in DOMAIN @ |->
          IF i \in Where(st, n) THEN [@[i] EXCEPT !.phase = ClassOf(p)] ELSE @[i]]]
  ELSE [st EXCEPT !.len = @ + 1]

\* updateNodePhase: update the entry, or append one, over a dead slot if there
\* is one.  A phase other than Ready makes it unhealthy; UnhealthySince stays.
SetPhase(st, n, p) ==
  LET Updated(h) == [name |-> n, phase |-> ClassOf(p),
                     health |-> IF p = "Ready" THEN "healthy"
                                ELSE IF h = "late" THEN "late" ELSE "unhealthy"]
  IN IF Where(st, n) # {}
     THEN [st EXCEPT !.nodes = [i \in DOMAIN st.nodes |->
             IF i \in Where(st, n) THEN Updated(st.nodes[i].health) ELSE st.nodes[i]]]
     ELSE [st EXCEPT !.len = st.len + 1,
                     !.nodes = [i \in DOMAIN st.nodes \cup {st.len + 1} |->
                                  IF i = st.len + 1 THEN Updated("unhealthy") ELSE st.nodes[i]]]

\* Mutant: the entries after the removed one move up by one slot.
RemoveByShifting(st, n) ==
  IF Where(st, n) = {} THEN st
  ELSE LET i == CHOOSE i \in Where(st, n) : TRUE
       IN [st EXCEPT !.len = @ - 1,
                     !.nodes = [j \in DOMAIN @ |->
                                  IF j >= i /\ j < st.len THEN @[j + 1] ELSE @[j]]]

\* removeNodeFromStatus: the last entry takes the removed one's slot.
Remove(st, n) ==
  IF Where(st, n) = {} THEN st
  ELSE LET i == CHOOSE i \in Where(st, n) : TRUE
       IN [st EXCEPT !.nodes = [@ EXCEPT ![i] = st.nodes[st.len]], !.len = @ - 1]

\* The elements of S, each after those that come before it.
InOrder(S, before) ==
  [k \in 1..Cardinality(S) |->
     CHOOSE x \in S : Cardinality({y \in S : <<y, x>> \in before}) = k - 1]

Ascending(S) == {p \in S \X S : p[1] < p[2]}

\* findUnhealthyNodes: pointers to the entries NotReady past the threshold.
LateSlots(st) ==
  InOrder({i \in Slots(st) : st.nodes[i].health = "late"}, Ascending(Slots(st)))

\* Mutant: from the end of the status, healthy or not.
SelectNewest(st, count) ==
  [k \in 1..count |-> st.nodes[st.len + 1 - k].name]

\* selectWorkersForRemoval: the unhealthy ones in order, then the healthy ones
\* from the end.
RemovalOrder(st) ==
  {p \in Slots(st) \X Slots(st) :
     LET Healthy(i) == st.nodes[i].health = "healthy"
     IN IF Healthy(p[2]) THEN Healthy(p[1]) => p[1] > p[2]
        ELSE ~Healthy(p[1]) /\ p[1] < p[2]}

SelectForRemoval(st, count) ==
  [k \in 1..count |-> st.nodes[InOrder(Slots(st), RemovalOrder(st))[k]].name]

\* removeWorkersFromStatus builds a new slice.
RemoveAll(st, names) ==
  LET rest == InOrder({i \in Slots(st) : st.nodes[i].name \notin names},
                      Ascending(Slots(st)))
  IN [st EXCEPT !.nodes = [k \in DOMAIN rest |-> @[rest[k]]], !.len = Len(rest)]

-----------------------------------------------------------------------------

Empty == [nodes |-> <<>>, len |-> 0, ready |-> 0, phase |-> "addons"]

InStage(S) == {n \in Servers : stage[n] \in S}

\* Names nothing has used yet (bound: Servers runs out).
Fresh == {n \in Servers : /\ server[n] = "none" /\ stage[n] = "none"
                          /\ n \notin Names(mem) /\ stored.entry[n] = Untracked}

Provisioning == {i \in Slots(mem) : mem.nodes[i].phase = "early"}

\* Status().Update, or its failure after the retries.
PersistStatus(st) ==
  \/ stored' = RecordOf(st)
  \/ "write" \in faults /\ UNCHANGED stored

\* DeleteServer by name is idempotent; the configuration goes with the server.
DeleteServer(n) ==
  /\ server' = [server EXCEPT ![n] = "gone"]
  /\ talos' = [talos EXCEPT ![n] = "maintenance"]

DeleteServerFails == "delete" \in faults /\ UNCHANGED <<server, talos>>

NoLoop == /\ work' = <<>> /\ at' = 1 /\ removed' = 0 /\ target' = NoServer

\* The in-memory state of an operator that is not reconciling.
Forget ==
  /\ pc' = "idle" /\ mem' = Empty /\ NoLoop
  /\ stage' = [n \in Servers |-> "none"]

\* The entries a node list in this order gives.
ListedAs(order) ==
  [i \in DOMAIN order |->
     [name |-> order[i], phase |-> "settled",
      health |-> CASE kube[order[i]] = "ready" -> "healthy"
                   [] kube[order[i]] = "late"  -> "late"
                   [] OTHER                    -> "unhealthy"]]

Init ==
  \E ws \in SUBSET Servers, p \in Phases :
    /\ Cardinality(ws) \in Initial
    /\ server = [n \in Servers |-> IF n \in ws THEN "up" ELSE "none"]
    /\ talos = [n \in Servers |-> IF n \in ws THEN "configured" ELSE "maintenance"]
    /\ kube = [n \in Servers |-> IF n \in ws THEN "ready" ELSE "absent"]
    /\ stored = [entry |-> [n \in Servers |-> IF n \in ws THEN "settled" ELSE Untracked],
                 phase |-> p]
    /\ pc = "idle" /\ mem = Empty
    /\ work = <<>> /\ at = 1 /\ removed = 0 /\ target = NoServer
    /\ stage = [n \in Servers |-> "none"]
    /\ faults \in FaultSets

-----------------------------------------------------------------------------
(***************************************************************************)
(* reconcile, up to the workers' turn.                                     *)
(***************************************************************************)

\* Get the resource and list its stuck nodes: any timed entries.
Fetch ==
  /\ pc = "idle" /\ pc' = "stuck"
  /\ mem' = StatusOf(stored)
  /\ \E stuck \in SUBSET {n \in Servers : stored.entry[n] \in {"early", "leaving"}} :
       work' = CHOOSE order \in Orders(stuck) : TRUE
  /\ UNCHANGED <<worldVars, stored, at, removed, target, stage>>

HandleStuckNode ==
  /\ pc = "stuck" /\ work # <<>>
  /\ (DeleteServer(Head(work)) \/ DeleteServerFails)
  /\ mem' = Settled(Remove(mem, Head(work)))
  /\ work' = Tail(work)
  /\ UNCHANGED <<kube, stored, pc, at, removed, target, stage>>

StuckNodesHandled ==
  /\ pc = "stuck" /\ work = <<>>
  /\ pc' = "health"
  /\ UNCHANGED <<worldVars, stored, mem, loopVars, stage>>

\* Entries rebuilt from the node list, in the order it comes.
HealthCheck(order) ==
  mem' = [mem EXCEPT !.nodes = ListedAs(order), !.len = Len(order),
                     !.ready = Cardinality({n \in Servers : kube[n] = "ready"})]

\* Verification without a health check after it: an entry may move to a phase
\* its probes imply (a superset: that phases only move forward is left out).
VerifyNodeStates ==
  \E p \in [Slots(mem) -> NodePhases \cup {Listed}] :
    /\ \A i \in Slots(mem) :
         LET n == mem.nodes[i].name
         IN p[i] \in {Listed} \cup ProbedPhases[server[n]][talos[n]][kube[n]]
    /\ \E ready \in 0..mem.len :
         mem' = [mem EXCEPT !.ready = ready, !.nodes = [i \in Slots(mem) |->
                 IF p[i] = Listed THEN mem.nodes[i]
                 ELSE [mem.nodes[i] EXCEPT !.phase = ClassOf(p[i])]]]

\* Steps 2 and 3 of reconcile, then the dispatch on the provisioning phase.
\* Nothing reads the order of this list.
ReconcileHealth ==
  /\ pc = "health"
  /\ \/ HealthCheck(CHOOSE o \in Orders({n \in Servers : kube[n] # "absent"}) : TRUE)
     \/ "read" \in faults /\ VerifyNodeStates
  /\ pc' = mem.phase
  /\ UNCHANGED <<worldVars, stored, loopVars, stage>>

\* Addons phase: wait for the workers, making those without an entry (early
\* provisioning does not count here); then install addons until all are there.
EnsureWorkersReady ==
  /\ pc = "addons"
  /\ \/ /\ Desired = 0 \/ mem.ready >= Desired
        /\ \E p \in Phases : mem' = [Settled(mem) EXCEPT !.phase = p]
        /\ pc' = "finish"
     \/ /\ mem.ready < Desired
        /\ pc' = IF mem.len < Desired THEN "prepareUp" ELSE "finish"
        /\ mem' = Settled(mem)
  /\ UNCHANGED <<worldVars, stored, loopVars, stage>>

\* Running phase: the list is read again, and here a failure is an error; the
\* control planes come first and may end the reconcile.  Then reconcileWorkers
\* takes its pointers.
RunningHealthCheck ==
  /\ pc = "running"
  /\ \/ \E order \in Orders({n \in Servers : kube[n] # "absent"}) :
          /\ HealthCheck(order)
          /\ \/ pc' = "heal" /\ work' = LateSlots(mem')
             \/ pc' = "finish" /\ UNCHANGED work
     \/ "read" \in faults /\ UNCHANGED <<mem, work>> /\ pc' = "finish"
  /\ UNCHANGED <<worldVars, stored, at, removed, target, stage>>

-----------------------------------------------------------------------------
(***************************************************************************)
(* reconcileWorkers: healing.                                              *)
(***************************************************************************)

\* One more unhealthy worker: whatever entry the pointer's slot holds now.
ReplaceWorker ==
  /\ pc = "heal" /\ at <= Len(work) /\ removed < MaxHeals
  /\ target' = mem.nodes[work[at]].name
  /\ at' = at + 1
  /\ mem' = SetPhase(mem, target', "DeletingServer")
  /\ pc' = "healNode"
  /\ UNCHANGED <<worldVars, stored, work, removed, stage>>

\* Delete the node object, if it can be read.  A failing deletion ends this
\* replacement, uncounted.
DeleteKubeNode ==
  /\ pc = "healNode"
  /\ \/ kube' = [kube EXCEPT ![target] = "absent"] /\ pc' = "healServer"
     \/ "read" \in faults /\ UNCHANGED kube /\ pc' = "healServer"
     \/ /\ "delete" \in faults /\ kube[target] # "absent"
        /\ UNCHANGED kube /\ pc' = "heal"
  /\ UNCHANGED <<server, talos, stored, mem, loopVars, stage>>

\* A failing deletion of the server is logged and no more.
DeleteOldServer ==
  /\ pc = "healServer" /\ pc' = "prepareHeal"
  /\ (DeleteServer(target) \/ DeleteServerFails)
  /\ mem' = Remove(mem, target)
  /\ UNCHANGED <<kube, stored, loopVars, stage>>

HealingOver == pc = "heal" /\ (at > Len(work) \/ removed >= MaxHeals)

-----------------------------------------------------------------------------
(***************************************************************************)
(* scaleWorkers: the decision, and scale-down.                             *)
(***************************************************************************)

LeaveWorkers ==
  /\ HealingOver /\ (Provisioning # {} \/ mem.len = Desired)
  /\ pc' = "finish"
  /\ mem' = Settled(mem) /\ NoLoop
  /\ UNCHANGED <<worldVars, stored, stage>>

ScaleUp ==
  /\ HealingOver /\ Provisioning = {} /\ mem.len < Desired
  /\ pc' = "prepareUp"
  /\ mem' = Settled(mem) /\ NoLoop
  /\ UNCHANGED <<worldVars, stored, stage>>

ScaleDown ==
  /\ HealingOver /\ Provisioning = {} /\ mem.len > Desired
  /\ pc' = "downNode"
  /\ UNCHANGED mem
  /\ work' = SelectForRemoval(mem, mem.len - Desired)
  /\ at' = 1 /\ removed' = 0 /\ target' = NoServer
  /\ UNCHANGED <<worldVars, stored, stage>>

\* Delete the next worker's node object; a failure does not stop the removal.
Decommission ==
  /\ pc = "downNode" /\ at <= Len(work) /\ removed < MaxHeals
  /\ target' = work[at]
  /\ \/ kube' = [kube EXCEPT ![target'] = "absent"]
     \/ faults \cap {"read", "delete"} # {} /\ UNCHANGED kube
  /\ pc' = "downServer"
  /\ UNCHANGED <<server, talos, stored, mem, work, at, removed, stage>>

\* Delete its server; here a failure counts as "not removed".
DecommissionServer ==
  /\ pc = "downServer" /\ pc' = "downNode"
  /\ at' = at + 1
  /\ \/ DeleteServer(target) /\ removed' = removed + 1
     \/ DeleteServerFails /\ UNCHANGED removed
  /\ target' = NoServer
  /\ UNCHANGED <<kube, stored, mem, work, stage>>

\* The first `removed` of the selection leave the status, whoever was removed.
ScaledDown ==
  /\ pc = "downNode" /\ (at > Len(work) \/ removed >= MaxHeals)
  /\ mem' = Settled(RemoveAll(mem, {work[i] : i \in 1..removed}))
  /\ pc' = "finish"
  /\ NoLoop
  /\ UNCHANGED <<worldVars, stored, stage>>

-----------------------------------------------------------------------------
(***************************************************************************)
(* Provisioning: one replacement, or the missing workers in parallel.      *)
(***************************************************************************)

Replacing == target # NoServer

\* The provisioning of these workers is over.  That one failed is remembered for
\* the sake of HealingSparesHealthy only.
Retire ==
  stage' = [n \in Servers |-> IF stage[n] \in {"none", "failed"} THEN stage[n] ELSE "over"]

\* Where a reconcile goes on after provisioning.
AfterProvisioning == IF Replacing THEN "heal" ELSE "finish"

\* Mutant: the Ready workers are taken for the existing ones.
ToCreateForReady ==
  IF Replacing THEN 1
  ELSE Desired - Cardinality({i \in Slots(mem) : kube[mem.nodes[i].name] = "ready"})

ToCreate == IF Replacing THEN 1 ELSE Desired - mem.len

\* Snapshot, ssh key, network and credentials; then the names are drawn.
PrepareForProvisioning ==
  /\ pc \in {"prepareHeal", "prepareUp"}
  /\ \/ \E names \in SUBSET Fresh :
          /\ Cardinality(names) = ToCreate
          /\ stage' = [n \in Servers |-> IF n \in names THEN "create" ELSE stage[n]]
          /\ pc' = "provision"
     \/ /\ "create" \in faults \/ Cardinality(Fresh) < ToCreate
        /\ pc' = AfterProvisioning
        /\ UNCHANGED stage
  /\ target' = IF pc' = "heal" THEN NoServer ELSE target
  /\ UNCHANGED <<worldVars, stored, mem, work, at, removed>>

\* The create call: done, refused, or failed with the server made.
CreateServer(n) ==
  /\ pc = "provision" /\ stage[n] = "create"
  /\ \/ /\ server' = [server EXCEPT ![n] = "up"]
        /\ stage' = [stage EXCEPT ![n] = "await"]
        /\ mem' = SetPhase(mem, n, "WaitingForIP")
     \/ /\ "create" \in faults
        /\ server' \in {server, [server EXCEPT ![n] = "up"]}
        /\ stage' = [stage EXCEPT ![n] = "failed"]
        /\ mem' = SetPhase(mem, n, "Failed")
  /\ UNCHANGED <<talos, kube, stored, pc, loopVars>>

\* handleProvisioningFailure.
GiveUp(n) ==
  /\ (DeleteServer(n) \/ DeleteServerFails)
  /\ mem' = Remove(mem, n)
  /\ stage' = [stage EXCEPT ![n] = "failed"]

AwaitServer(n) ==
  /\ pc = "provision" /\ stage[n] = "await"
  /\ \/ /\ stage' = [stage EXCEPT ![n] = "provisioned"]
        /\ UNCHANGED <<server, talos, mem>>
     \/ "create" \in faults /\ GiveUp(n)
  /\ UNCHANGED <<kube, stored, pc, loopVars>>

AllCreated == pc = "provision" /\ InStage({"create", "await"}) = {}

\* Record the new servers before configuring them; a replacement that could
\* not be made goes back to the healing loop without a record.
PersistProvisioned ==
  /\ AllCreated
  /\ IF Replacing /\ InStage({"provisioned"}) = {}
     THEN pc' = "heal" /\ target' = NoServer /\ Retire /\ UNCHANGED stored
     ELSE pc' = "configure" /\ UNCHANGED <<target, stage>> /\ PersistStatus(mem)
  /\ UNCHANGED <<worldVars, mem, work, at, removed>>

\* A replacement's phase is stored at once, a new worker's with the others'.
BeginConfigure(n) ==
  /\ pc = "configure" /\ stage[n] = "provisioned"
  /\ mem' = SetPhase(mem, n, "WaitingForTalosAPI")
  /\ IF Replacing THEN PersistStatus(mem') ELSE UNCHANGED stored
  /\ stage' = [stage EXCEPT ![n] = "apply"]
  /\ UNCHANGED <<worldVars, pc, loopVars>>

\* Without Talos credentials, which are loaded once for all new workers, the
\* server is left as it is and counts as done.
SkipConfig(n) ==
  /\ "talos" \in faults /\ pc = "configure" /\ stage[n] = "apply"
  /\ InStage({"wait", "done"}) = {}
  /\ mem' = SetPhase(mem, n, "WaitingForK8s")
  /\ stage' = [stage EXCEPT ![n] = "skipped"]
  /\ UNCHANGED <<worldVars, stored, pc, loopVars>>

ApplyConfig(n) ==
  /\ pc = "configure" /\ stage[n] = "apply" /\ InStage({"skipped"}) = {}
  /\ talos' = [talos EXCEPT ![n] = "configured"]
  /\ mem' = SetPhase(mem, n, "WaitingForK8s")
  /\ stage' = [stage EXCEPT ![n] = "wait"]
  /\ UNCHANGED <<server, kube, stored, pc, loopVars>>

ApplyConfigFails(n) ==
  /\ "talos" \in faults
  /\ pc = "configure" /\ stage[n] = "apply" /\ InStage({"skipped"}) = {}
  /\ GiveUp(n)
  /\ UNCHANGED <<kube, stored, pc, loopVars>>

\* waitForWorkerReady: Ready in time, or torn down again.
WorkerReady(n) ==
  /\ pc = "configure" /\ stage[n] = "wait"
  /\ \/ /\ kube[n] = "ready"
        /\ mem' = SetPhase(mem, n, "NodeInitializing")
        /\ stage' = [stage EXCEPT ![n] = "done"]
        /\ UNCHANGED <<server, talos>>
     \/ "talos" \in faults /\ GiveUp(n)
  /\ UNCHANGED <<kube, stored, pc, loopVars>>

\* Every configuration has reported.  A replacement that worked is counted.
AllConfigured ==
  /\ pc = "configure"
  /\ InStage({"provisioned", "apply", "wait"}) = {}
  /\ pc' = AfterProvisioning
  /\ LET failed == Replacing /\ InStage({"done", "skipped"}) = {}
     IN IF failed THEN UNCHANGED <<stored, removed>>
        ELSE /\ PersistStatus(mem)
             /\ removed' = IF Replacing THEN removed + 1 ELSE removed
  /\ target' = NoServer
  /\ Retire
  /\ UNCHANGED <<worldVars, mem, work, at>>

UpdateStatus ==
  /\ pc = "finish"
  /\ PersistStatus(mem)
  /\ Forget
  /\ UNCHANGED worldVars

Crash ==
  /\ "crash" \in faults /\ pc # "idle"
  /\ Forget
  /\ UNCHANGED <<worldVars, stored>>

-----------------------------------------------------------------------------
(***************************************************************************)
(* The world, as the operator's code relies on it.                         *)
(***************************************************************************)

WorldMoves == pc \in {"idle", "running", "healNode", "healServer", "downServer", "configure"}

\* A kubelet with a configuration registers, again if its object was deleted.
RegisterNode(n) ==
  /\ server[n] = "up" /\ talos[n] = "configured" /\ kube[n] = "absent"
  /\ kube' = [kube EXCEPT ![n] = "notReady"]
  /\ UNCHANGED <<server, talos, operatorVars>>

NodeBecomesReady(n) ==
  /\ server[n] = "up" /\ kube[n] \in {"notReady", "late"}
  /\ kube' = [kube EXCEPT ![n] = "ready"]
  /\ UNCHANGED <<server, talos, operatorVars>>

NodeBecomesNotReady(n) ==
  /\ kube[n] = "ready"
  /\ \/ Cardinality({m \in Servers : kube[m] \in {"notReady", "late"}}) < MaxTrouble
     \/ server[n] = "gone"
  /\ kube' = [kube EXCEPT ![n] = "notReady"]
  /\ UNCHANGED <<server, talos, operatorVars>>

\* NotReady for longer than the node threshold.
NotReadyTooLong(n) ==
  /\ kube[n] = "notReady"
  /\ kube' = [kube EXCEPT ![n] = "late"]
  /\ UNCHANGED <<server, talos, operatorVars>>

\* The cloud controller drops the node object of a server that is gone.
NodeCollected(n) ==
  /\ server[n] = "gone" /\ kube[n] \in {"notReady", "late"}
  /\ kube' = [kube EXCEPT ![n] = "absent"]
  /\ UNCHANGED <<server, talos, operatorVars>>

-----------------------------------------------------------------------------

NodeStep(n) ==
  \/ CreateServer(n) \/ AwaitServer(n) \/ BeginConfigure(n) \/ SkipConfig(n)
  \/ ApplyConfig(n) \/ ApplyConfigFails(n) \/ WorkerReady(n)

ReconcileStep ==
  \/ HandleStuckNode \/ StuckNodesHandled \/ ReconcileHealth
  \/ EnsureWorkersReady \/ RunningHealthCheck
  \/ ReplaceWorker \/ DeleteKubeNode \/ DeleteOldServer
  \/ LeaveWorkers \/ ScaleUp \/ ScaleDown
  \/ Decommission \/ DecommissionServer \/ ScaledDown
  \/ PrepareForProvisioning \/ PersistProvisioned \/ AllConfigured
  \/ UpdateStatus

World(n) ==
  WorldMoves /\ ( \/ RegisterNode(n) \/ NodeBecomesReady(n) \/ NodeBecomesNotReady(n)
                  \/ NotReadyTooLong(n) \/ NodeCollected(n) )

\* The steps a reconcile in progress takes.
Reconcile == ReconcileStep \/ \E n \in Servers : NodeStep(n)

Next ==
  /\ Fetch \/ Reconcile \/ Crash \/ \E n \in Servers : World(n)
  /\ UNCHANGED faults

Spec == Init /\ [][Next]_vars

-----------------------------------------------------------------------------
(***************************************************************************)
(* What the reconcile loop promises.                                       *)
(***************************************************************************)

Deleted(n) == server[n] = "up" /\ server'[n] = "gone"

\* Healing deletes only the servers of workers that were NotReady past the
\* threshold when the entries were listed, and ones whose provisioning failed in
\* this very reconcile: although pointers into the slice come to name other
\* entries while workers are removed and appended (replaceUnhealthyWorkers), a
\* worker it has just made for good is never torn down again.  So it is for
\* MaxHeals = 1, the operator's value: the loop ends with the first success.  With
\* more a pointer may name the replacement made through an earlier one.
HealingSparesHealthy ==
  [][\A n \in Servers :
       pc = "healServer" /\ Deleted(n) =>
         \/ stage[n] = "failed"
         \/ \E i \in 1..Len(mem.nodes) :
              mem.nodes[i].name = n /\ mem.nodes[i].health = "late"]_vars

\* A scale-up never makes more workers than the status it was decided on found
\* missing, whatever fails on the way and whatever healing did before it.
ScaleUpFillsOnly ==
  pc \in {"provision", "configure"} /\ ~Replacing =>
    Cardinality(Names(mem) \cup InStage({"create", "await", "provisioned", "apply", "wait"}))
      <= Desired

\* A scale-down goes no further than the surplus, by no more than
\* maxConcurrentHeals servers a reconcile, and takes no Ready worker while one
\* that is not Ready stays (scaleDownWorkers, selectWorkersForRemoval).
ScaleDownIsGradual ==
  pc = "downServer" =>
    /\ removed < MaxHeals
    /\ mem.len - removed > Desired
    /\ \A i, j \in Slots(mem) :
         /\ mem.nodes[i].name = target /\ mem.nodes[i].health = "healthy"
         /\ mem.nodes[j].health # "healthy"
         => \E k \in 1..(at - 1) : work[k] = mem.nodes[j].name

=============================================================================
