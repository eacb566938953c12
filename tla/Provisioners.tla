---------------------------- MODULE Provisioners ----------------------------
(***************************************************************************)
(* The way from an empty project to running control planes: the            *)
(* infrastructure phase, then the compute phase.  The two share the faults *)
(* and the addresses: the servers' are in the subnet the first phase cut   *)
(* for control planes, and the balancer's beside it.                       *)
(*                                                                         *)
(* The command line makes one control plane this way, and destroys all     *)
(* there is when the second phase fails; the user applies again.  The      *)
(* operator makes as many as the resource asks for, repeats a phase that   *)
(* fails and destroys nothing.                                             *)
(***************************************************************************)
EXTENDS Integers, Sequences, FiniteSets, SequencesExt

CONSTANTS Setups, Names, Counts, MaxFaults

ASSUME CountsAssumption == Counts \subseteq {1, 3, 5}
ASSUME FaultsAssumption == MaxFaults \in Nat

\* Random names do not run out.
ASSUME NamesAssumption == IsFiniteSet(Names) /\ \A n \in Counts : n <= Cardinality(Names)

VARIABLES
  setup, cloud, ids, past, pass, known, open,             \* Infrastructure
  want, listed, address, on, phase, tasks, created,      \* Compute
  faults

infra == <<setup, cloud, ids, past, pass, known, open>>
servers == <<want, listed, address, on, phase, tasks, created>>
vars == <<infra, servers, faults>>

I == INSTANCE Infrastructure
C == INSTANCE Compute WITH Initial <- 0

\* by: who makes the cluster.  network, node: what spec.network says, each of it or
\* nothing: private ranges, which begin at 10.0.0.0 and none below it; the command
\* line's are fixed.  peers: the status lists control planes with an address, as
\* the health check finds them in the cluster the operator runs in.  zoneless:
\* Hetzner takes a subnet without a network zone (its documentation says it does
\* not).
ASSUME SetupsAssumption ==
  /\ Setups \subseteq [by : {"cli", "operator"}, network : I!Written, node : I!Written,
                       peers : BOOLEAN, zoneless : BOOLEAN]
  /\ \A s \in Setups : s.by = "cli" => s.network = I!Unset /\ s.node = I!Unset

TypeOK == I!TypeOK /\ C!TypeOK

\* provisionFirstControlPlane asks for one.
Init == I!Init /\ C!Init /\ (I!Operator \/ want = 1)

InfrastructurePhase == I!Pass /\ UNCHANGED servers

ServersSubnet == I!SubnetForRole(I!Config, "control-plane")

\* Without the network every pass fails before it has made a server.  One that
\* fails ends an apply, which then cleans up.
ComputePhase ==
  /\ past /\ I!HasNetwork
  /\ C!Pass(ServersSubnet \in cloud.network.subnets)
  /\ IF ~I!Operator /\ phase' = "waiting" THEN I!Fail("cleanup") ELSE UNCHANGED infra

NoServers ==
  /\ listed' = <<>> /\ address' = [s \in {} |-> 0] /\ on' = {}
  /\ tasks' = <<>> /\ created' = {}
  /\ UNCHANGED <<want, phase>>

\* cleanupOnFailure: nothing stays, unless a call fails.
CleanupOnFailure ==
  \/ I!Destroy({}) /\ NoServers /\ faults' = faults
  \/ /\ I!Fault
     /\ \E kept \in SUBSET I!Found :
          /\ I!Destroy(kept)
          /\ NoServers \/ ("network" \in kept /\ UNCHANGED servers)

Pass == InfrastructurePhase \/ ComputePhase \/ CleanupOnFailure

\* A process that stops cleans nothing up.
ComputeStops ==
  /\ past /\ C!Crash
  /\ IF I!Operator THEN UNCHANGED infra ELSE I!Fail("idle")

\* What is deleted by hand is: infrastructure while there is no server, servers
\* between two passes.
Disturbance ==
  \/ I!Crash /\ UNCHANGED servers
  \/ I!Lose /\ listed = <<>> /\ UNCHANGED servers
  \/ ComputeStops
  \/ I!Operator /\ past /\ C!EditCount /\ UNCHANGED infra
  \/ pass = "idle" /\ (\E i \in DOMAIN listed : C!LoseServer(i)) /\ UNCHANGED infra

Done == phase = "complete" /\ UNCHANGED vars

Next == Pass \/ Disturbance \/ Done

\* Reconciles follow one another, a user whose apply failed applies again, and each
\* of a pass's calls returns.
Spec == Init /\ [][Next]_vars /\ WF_vars(Pass)

-----------------------------------------------------------------------------

\* Of Infrastructure: everything is there when the phase is over, for the operator
\* as long as at most one thing has gone wrong.
OneFaultIsMended == I!OneFaultIsMended

\* Of Compute: a pass that succeeds leaves the servers it made itself running.
OwnServersWork == C!OwnServersWork

\* However often passes fail, half-made servers included, a server is made only
\* while the pool has fewer than the pass was asked for.
NoSurplusServers ==
  [][ Len(listed') > Len(listed) => Len(listed') <= Len(tasks) ]_vars

\* Where a server is put: a host of the control planes' subnet.
HostOf(s) == I!CIDRHost(ServersSubnet, address[s])

\* The two phases give out addresses by one arithmetic and never ask each other:
\* no server gets the balancer's, and each lies in its role's subnet of the
\* network.
AddressesApart ==
  \A s \in DOMAIN address :
    /\ \E r \in cloud.network.subnets : I!Within(r, I!Range(HostOf(s), 32))
    /\ HostOf(s) # cloud.balancer.host

\* Whatever failing passes, cleanups and stops leave behind, both phases come to an
\* end: an apply's from an empty project, the operator's where it has an endpoint
\* to begin with, subnets need no zone, and the ranges can be had; unless the
\* network is deleted when its ID is in status already, so that nothing makes
\* another.
ProvisioningCompletes ==
  I!Feasible ~> (phase = "complete" \/ (past /\ ~I!HasNetwork))
=============================================================================
