------------------------------- MODULE Compute -------------------------------
(***************************************************************************)
(* The compute phase: the control planes' pool filled over several passes. *)
(*                                                                         *)
(* A pass lists the servers that carry the pool's labels, gives each place *)
(* of the pool a name (the one found, or a new random one) and an address  *)
(* (the place's number in the subnet), and ensures all of them in parallel:*)
(* create, attach to the network at the address, power on.  When one fails *)
(* the phase fails, and the next reconcile makes a pass of its own, knowing*)
(* only the servers it finds.  The operator asks for no workers here (their*)
(* pool's count is 0), so their pool's task makes nothing.                 *)
(***************************************************************************)
EXTENDS Naturals, Sequences, FiniteSets, SequencesExt

CONSTANTS
  Names,     \* bound: the random names that are drawn
  Counts,    \* the counts the resource may ask for: 1, 3 or 5
  Initial,   \* control planes there are when the phase is entered
  MaxFaults  \* bound: failing calls, stops of the operator, servers deleted by hand

VARIABLES
  want,     \* spec.controlPlanes.count
  listed,   \* the servers at Hetzner, as a list by label returns them
  address,  \* the address of those in the network
  on,       \* those powered on
  phase,    \* of the pass: waiting for a reconcile, listing, making, or complete
  tasks,    \* the servers this pass ensures, one goroutine each
  created,  \* those this pass made
  faults

vars == <<want, listed, address, on, phase, tasks, created, faults>>

Stages == {"check", "create", "attach", "powerOn", "address", "done", "failed"}

\* Host number in the control planes' subnet: Hetzner keeps the first for the gateway.
Address(j) == (j - 1) + 2

TypeOK ==
  /\ want \in Counts
  /\ ToSet(listed) \subseteq Names /\ IsInjective(listed)
  /\ DOMAIN address \subseteq ToSet(listed) /\ IsInjective(address)
  /\ \A s \in DOMAIN address : address[s] \in 2..6
  /\ on \subseteq DOMAIN address /\ created \subseteq Names
  /\ phase \in {"waiting", "listing", "making", "complete"}
  /\ \A i \in DOMAIN tasks :
       tasks[i].name \in Names /\ tasks[i].address \in 2..6 /\ tasks[i].stage \in Stages
  /\ IsInjective([i \in DOMAIN tasks |-> tasks[i].name])
  /\ faults \in 0..MaxFaults

-----------------------------------------------------------------------------

\* The bootstrap node, made by the command line as a pool of one.
Init ==
  /\ want \in Counts
  /\ listed = [j \in 1..Initial |-> j]
  /\ address = [s \in 1..Initial |-> Address(s)]
  /\ on = 1..Initial
  /\ phase = "waiting" /\ tasks = <<>> /\ created = {}
  /\ faults = 0

Fault == faults < MaxFaults /\ faults' = faults + 1

\* compute.Provision: an SSH key for the session and the balancer's address come
\* first; without them the pass is over before it begins.
Provision ==
  /\ phase = "waiting"
  /\ \/ phase' = "listing" /\ faults' = faults
     \/ phase' = "waiting" /\ Fault
  /\ tasks' = <<>> /\ created' = {}
  /\ UNCHANGED <<want, listed, address, on>>

\* Mutant: every place gets a new name.
NamesFoundNone == <<>>

\* getExistingServerNames: as many as the pool has places.
NamesFound == SubSeq(listed, 1, IF Len(listed) < want THEN Len(listed) ELSE want)

\* Mutant: names drawn without regard to those in use.
NewNamesAny(n) == CHOOSE names \in [1..n -> Names] : IsInjective(names)

\* Random names: which ones does not matter.
NewNames(n) == CHOOSE names \in [1..n -> Names \ ToSet(listed)] : IsInjective(names)

\* reconcileNodePool up to the goroutines: the placement group, the list, and a
\* name and an address for every place.
PlanPool ==
  /\ phase = "listing"
  /\ \/ /\ LET names == NamesFound \o NewNames(want - Len(NamesFound))
           IN tasks' = [j \in 1..Len(names) |->
                          [name |-> names[j], address |-> Address(j), stage |-> "check"]]
        /\ phase' = "making" /\ faults' = faults
     \/ phase' = "waiting" /\ UNCHANGED tasks /\ Fault
  /\ UNCHANGED <<want, listed, address, on, created>>

To(i, stage) == tasks' = [tasks EXCEPT ![i].stage = stage]

\* ensureServer: one that exists is taken as it is.
EnsureServer(i) ==
  /\ tasks[i].stage = "check"
  /\ \/ /\ To(i, IF tasks[i].name \in ToSet(listed) THEN "done" ELSE "create")
        /\ faults' = faults
     \/ To(i, "failed") /\ Fault
  /\ UNCHANGED <<want, listed, address, on, phase, created>>

\* createServerWithRetry; a name that is taken is refused.  It fails for good
\* before the server is made or, when the action cannot be waited for, after.
CreateServer(i) ==
  LET name == tasks[i].name IN
  /\ tasks[i].stage = "create"
  /\ \/ /\ name \notin ToSet(listed)
        /\ listed' = Append(listed, name) /\ created' = created \cup {name}
        /\ (To(i, "attach") /\ faults' = faults) \/ (To(i, "failed") /\ Fault)
     \/ /\ IF name \in ToSet(listed) THEN faults' = faults ELSE Fault
        /\ To(i, "failed")
        /\ UNCHANGED <<listed, created>>
  /\ UNCHANGED <<want, address, on, phase>>

\* attachServerToNetwork; Hetzner refuses an address that is in use, or in no
\* subnet of the network.
Attach(i, subnet) ==
  LET name == tasks[i].name
      refused == ~subnet \/ \E s \in DOMAIN address : address[s] = tasks[i].address
  IN
  /\ tasks[i].stage = "attach"
  /\ \/ /\ ~refused
        /\ address' = [s \in DOMAIN address \cup {name} |->
                         IF s = name THEN tasks[i].address ELSE address[s]]
        /\ To(i, "powerOn") /\ faults' = faults
     \/ /\ IF refused THEN faults' = faults ELSE Fault
        /\ To(i, "failed")
        /\ UNCHANGED address
  /\ UNCHANGED <<want, listed, on, phase, created>>

\* Mutant: the server is taken for running although the call failed.
PowerOnLogged(i) ==
  /\ tasks[i].stage = "powerOn"
  /\ \/ on' = on \cup {tasks[i].name} /\ faults' = faults
     \/ on' = on /\ Fault
  /\ To(i, "address")
  /\ UNCHANGED <<want, listed, address, phase, created>>

PowerOn(i) ==
  LET name == tasks[i].name IN
  /\ tasks[i].stage = "powerOn"
  /\ \/ on' = on \cup {name} /\ To(i, "address") /\ faults' = faults
     \/ on' \in {on, on \cup {name}} /\ To(i, "failed") /\ Fault
  /\ UNCHANGED <<want, listed, address, phase, created>>

\* The rest of ensureServer: its public address and its number, asked for again.
ReadAddress(i) ==
  /\ tasks[i].stage = "address"
  /\ \/ To(i, "done") /\ faults' = faults
     \/ To(i, "failed") /\ Fault
  /\ UNCHANGED <<want, listed, address, on, phase, created>>

Ended == phase = "making" /\ \A i \in DOMAIN tasks : tasks[i].stage \in {"done", "failed"}

\* RunParallel waits for every goroutine; then the phase is through, or its
\* error is recorded and the reconcile requeued.
PassEnds ==
  /\ Ended
  /\ phase' = IF \A i \in DOMAIN tasks : tasks[i].stage = "done"
              THEN "complete" ELSE "waiting"
  /\ UNCHANGED <<want, listed, address, on, tasks, created, faults>>

\* subnet: the network has the control planes' subnet.
Pass(subnet) ==
  \/ Provision \/ PlanPool \/ PassEnds
  \/ \E i \in DOMAIN tasks :
       \/ EnsureServer(i) \/ CreateServer(i)
       \/ Attach(i, subnet) \/ PowerOn(i) \/ ReadAddress(i)

-----------------------------------------------------------------------------

\* The operator stops; what Hetzner was asked for stays.
Crash ==
  /\ phase \in {"listing", "making"} /\ Fault
  /\ phase' = "waiting" /\ tasks' = <<>> /\ created' = {}
  /\ UNCHANGED <<want, listed, address, on>>

\* The user changes the count between two passes.
EditCount ==
  /\ phase = "waiting"
  /\ want' \in Counts \ {want}
  /\ UNCHANGED <<listed, address, on, phase, tasks, created, faults>>

\* Between two passes a server goes: the reconcile's stuck-node cleanup, or a user.
LoseServer(i) ==
  /\ phase = "waiting" /\ Fault
  /\ listed' = RemoveAt(listed, i)
  /\ address' = [s \in DOMAIN address \ {listed[i]} |-> address[s]]
  /\ on' = on \ {listed[i]}
  /\ UNCHANGED <<want, phase, tasks, created>>

Done == phase = "complete" /\ UNCHANGED vars

Next == Pass(TRUE) \/ Crash \/ EditCount \/ (\E i \in DOMAIN listed : LoseServer(i)) \/ Done

Spec == Init /\ [][Next]_vars

-----------------------------------------------------------------------------

\* A pass that succeeds leaves every server it made itself in the network and
\* running.
OwnServersWork == phase = "complete" => created \subseteq on
=============================================================================
