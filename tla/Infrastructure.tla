--------------------------- MODULE Infrastructure ---------------------------
(***************************************************************************)
(* The infrastructure phase, call by call and pass after pass: the private *)
(* network and a subnet for each role, the firewall, and the balancer in   *)
(* front of the control planes.  The command line's apply goes through it, *)
(* and so does the operator, for a cluster whose status has not its IDs.   *)
(*                                                                         *)
(* A pass takes what it finds by name as its own and adds what is missing. *)
(* It ends at the first call that fails.  Then the user applies again; the *)
(* operator writes the status, and its next reconcile makes another pass,  *)
(* unless the three IDs in status say that the infrastructure is there     *)
(* already.  What a pass reads of a resource it reads once; it alone       *)
(* changes it while it runs, so that the copy and the resource agree where *)
(* the code consults the copy.                                             *)
(***************************************************************************)
EXTENDS Subnets, FiniteSets

CONSTANTS
  Setups,    \* who goes through the phase, for what, and where
  MaxFaults  \* bound: failing calls, stops of the process, deletions by hand

VARIABLES
  setup,   \* the one of Setups that is the case
  cloud,   \* the network, the firewall and the balancer at Hetzner
  ids,     \* status.infrastructure: the IDs that are set
  past,    \* the phase is behind: status.provisioningPhase, the pipeline's place
  pass,    \* the call the pass is about to make
  known,   \* the pass's copy of ids
  open,    \* the pass knows the address the two APIs are opened for
  faults

vars == <<setup, cloud, ids, past, pass, known, open, faults>>

IDs == {"network", "firewall", "loadBalancer"}
Services == {6443, 50000}
Calls == {"idle", "discover", "network", "detect", "control-plane", "load-balancer",
          "worker", "firewall", "apply", "balancer", "6443", "50000", "attach",
          "target", "done", "save", "cleanup"}

NoNetwork  == [range |-> NoRange, subnets |-> {}]
NoFirewall == [made |-> FALSE, ports |-> {}, applied |-> FALSE]
NoBalancer == [made |-> FALSE, services |-> {}, host |-> NoHost, targets |-> FALSE]

Config == NetworkConfig(setup)

TypeOK ==
  /\ setup \in Setups
  /\ cloud.network.range \in {NoRange, ParseCIDR(Config.network)}
  /\ cloud.network.subnets \subseteq {SubnetForRole(Config, r) : r \in Roles} \ {NoRange}
  /\ cloud.firewall \in [made : BOOLEAN, ports : SUBSET Services, applied : BOOLEAN]
  /\ cloud.balancer \in [made : BOOLEAN, services : SUBSET Services,
                         host : Nat \cup {NoHost}, targets : BOOLEAN]
  /\ ids \subseteq IDs /\ known \subseteq IDs
  /\ past \in BOOLEAN /\ open \in BOOLEAN
  /\ pass \in Calls
  /\ faults \in 0..MaxFaults

Init ==
  /\ setup \in Setups
  /\ cloud = [network |-> NoNetwork, firewall |-> NoFirewall, balancer |-> NoBalancer]
  /\ ids = {} /\ past = FALSE
  /\ pass = "idle" /\ known = {} /\ open = FALSE
  /\ faults = 0

-----------------------------------------------------------------------------

Fault == faults < MaxFaults /\ faults' = faults + 1

\* One request to Hetzner that leaves the cloud as after.  One that fails may
\* have been carried out, or not.
Request(at, next, after) ==
  /\ pass = at
  /\ \/ cloud' = after /\ pass' = next /\ faults' = faults
     \/ cloud' \in {cloud, after} /\ pass' = "save" /\ Fault
  /\ UNCHANGED <<setup, ids, past, known, open>>

\* Nothing to ask for: the pass goes on, or ends with an error of its own.
Proceed(at, next) ==
  /\ pass = at /\ pass' = next
  /\ UNCHANGED <<setup, cloud, ids, past, known, open, faults>>

HasNetwork == cloud.network # NoNetwork

\* Hetzner's IDs that a look by name would find.
Found == (IF HasNetwork THEN {"network"} ELSE {})
         \cup (IF cloud.firewall.made THEN {"firewall"} ELSE {})
         \cup (IF cloud.balancer.made THEN {"loadBalancer"} ELSE {})

Operator == setup.by = "operator"

\* Mutant: the IDs are looked up before the question whether there is work.
EnterPhaseDiscovered ==
  /\ ~past
  /\ \/ ~Operator /\ Proceed("idle", "network")
     \/ Operator /\ ids \cup Found = IDs /\ Proceed("idle", "done")
     \/ Operator /\ ids \cup Found # IDs /\ Proceed("idle", "discover")

\* An apply begins with the network, the operator with the question whether the
\* "infrastructure already exists from CLI bootstrap".
EnterPhase ==
  /\ ~past
  /\ \/ ~Operator /\ Proceed("idle", "network")
     \/ Operator /\ ids = IDs /\ Proceed("idle", "done")
     \/ Operator /\ ids # IDs /\ Proceed("idle", "discover")

\* resolveEndpoint: the balancer's address, written to status with its ID, or that
\* of a control plane the status lists.
Endpoint(seen) == setup.peers \/ "loadBalancer" \in seen

\* buildProvisioningContext: the copy of status gets the IDs that are found.  A
\* failing look for the balancer or the firewall is passed over.  Without an
\* endpoint the pass is over before it looks for the network; it ends too when
\* that look fails, or when the credentials cannot be read.
Discover ==
  /\ pass = "discover"
  /\ \/ \E failing \in SUBSET IDs :
          LET seen == ids \cup (Found \ (failing \cup {"network"})) IN
          /\ IF failing = {} THEN faults' = faults ELSE Fault
          /\ \/ /\ Endpoint(seen) /\ "network" \notin failing
                /\ known' = seen \cup (Found \cap {"network"}) /\ pass' = "network"
             \/ /\ ~(Endpoint(seen) /\ "network" \notin failing)
                /\ known' = seen /\ pass' = "save"
     \/ known' = ids /\ pass' = "save" /\ Fault
  /\ open' = FALSE
  /\ UNCHANGED <<setup, cloud, ids, past>>

\* Mutant: the network is made without a look whether it is there.
EnsureNetworkBlindly ==
  LET made == [range |-> ParseCIDR(Config.network), subnets |-> {}] IN
  \/ ~HasNetwork /\ Request("network", "detect", [cloud EXCEPT !.network = made])
  \/ HasNetwork /\ Proceed("network", "save")

\* The range is compared as it is written: one not written by its first address
\* is never recognised again.
EnsureNetwork ==
  LET made == [range |-> ParseCIDR(Config.network), subnets |-> {}] IN
  \/ ~HasNetwork /\ Request("network", "detect", [cloud EXCEPT !.network = made])
  \/ /\ HasNetwork
     /\ \/ cloud.network.range = Config.network /\ Request("network", "detect", cloud)
        \/ cloud.network.range # Config.network /\ Proceed("network", "save")

\* GetPublicIP; without the address the two APIs get no rule.
DetectAddress ==
  /\ pass = "detect" /\ pass' = "control-plane"
  /\ \/ open' = TRUE /\ faults' = faults
     \/ open' = FALSE /\ Fault
  /\ UNCHANGED <<setup, cloud, ids, past, known>>

\* Hetzner takes a subnet that lies in the network and touches no other; where
\* there is none to ask for, none is taken.  It asks for a network zone, which
\* SpecToConfig leaves empty.
Accepted(subnet) ==
  /\ Operator => setup.zoneless
  /\ Within(cloud.network.range, subnet)
  /\ \A s \in cloud.network.subnets : Apart(s, subnet)

EnsureSubnet(role, next) ==
  LET subnet == SubnetForRole(Config, role)
      after  == [cloud EXCEPT !.network.subnets = @ \cup {subnet}]
  IN \/ subnet \in cloud.network.subnets /\ Proceed(role, next)
     \/ /\ subnet \notin cloud.network.subnets
        /\ \/ Accepted(subnet) /\ Request(role, next, after)
           \/ ~Accepted(subnet) /\ Proceed(role, "save")

\* The ports this pass opens, for the address it knows; without one, none.
Rules == IF open THEN Services ELSE {}

\* EnsureFirewall: one that exists gets this pass's rules.  When a creation is not
\* waited for to its end the firewall may be there, and apply to no server.
EnsureFirewall ==
  LET made(applied) == [cloud EXCEPT !.firewall =
                          [made |-> TRUE, ports |-> Rules, applied |-> applied]]
  IN \/ Request("firewall", "apply",
                made(IF cloud.firewall.made THEN cloud.firewall.applied ELSE TRUE))
     \/ /\ pass = "firewall" /\ ~cloud.firewall.made /\ Fault
        /\ cloud' = made(FALSE) /\ pass' = "save"
        /\ UNCHANGED <<setup, ids, past, known, open>>

EnsureFirewallAppliedTo ==
  \/ cloud.firewall.applied /\ Proceed("apply", "balancer")
  \/ ~cloud.firewall.applied
     /\ Request("apply", "balancer", [cloud EXCEPT !.firewall.applied = TRUE])

EnsureLoadBalancer == Request("balancer", "6443", [cloud EXCEPT !.balancer.made = TRUE])

ConfigureService(service, at, next) ==
  \/ service \in cloud.balancer.services /\ Proceed(at, next)
  \/ service \notin cloud.balancer.services
     /\ Request(at, next, [cloud EXCEPT !.balancer.services = @ \cup {service}])

Attached == cloud.balancer.host # NoHost

\* Mutant: an address counted in the range of all the nodes.
BalancerHostAmongNodes == CIDRHost(Config.node, 2)

\* The balancer's address: the last but one of its subnet.
BalancerHost == CIDRHost(SubnetForRole(Config, "load-balancer"), -2)

AttachToNetwork ==
  \/ Attached /\ Proceed("attach", "target")
  \/ ~Attached /\ Request("attach", "target", [cloud EXCEPT !.balancer.host = BalancerHost])

\* AddTarget, by label and over private addresses: Hetzner refuses it for a
\* balancer outside the network.
AddTarget ==
  \/ cloud.balancer.targets /\ Proceed("target", "done")
  \/ /\ ~cloud.balancer.targets
     /\ \/ Attached /\ Request("target", "done", [cloud EXCEPT !.balancer.targets = TRUE])
        \/ ~Attached /\ Proceed("target", "save")

\* The end of a pass.  The operator's status is written, or is lost: the IDs that were
\* found, and after a success those of the network and the firewall.
SaveStatus ==
  /\ pass \in {"done", "save"} /\ pass' = "idle"
  /\ \/ /\ ids' = IF pass = "done" /\ Operator
                   THEN ids \cup known \cup {"network", "firewall"} ELSE known
        /\ past' = (pass = "done") /\ faults' = faults
     \/ Operator /\ UNCHANGED <<ids, past>> /\ Fault
  /\ known' = {} /\ open' = FALSE
  /\ UNCHANGED <<setup, cloud>>

Pass ==
  \/ EnterPhase \/ Discover \/ EnsureNetwork \/ DetectAddress
  \/ EnsureSubnet("control-plane", "load-balancer")
  \/ EnsureSubnet("load-balancer", "worker") \/ EnsureSubnet("worker", "firewall")
  \/ EnsureFirewall \/ EnsureFirewallAppliedTo
  \/ EnsureLoadBalancer
  \/ ConfigureService(6443, "6443", "50000") \/ ConfigureService(50000, "50000", "attach")
  \/ AttachToNetwork \/ AddTarget
  \/ SaveStatus

-----------------------------------------------------------------------------

\* The process stops in the middle of a pass; what Hetzner was asked for stays.
Crash ==
  /\ pass # "idle" /\ Fault
  /\ pass' = "idle" /\ known' = {} /\ open' = FALSE
  /\ UNCHANGED <<setup, cloud, ids, past>>

\* What is left when only some of the resources stay.  A network takes the
\* balancer's place in it along.
Left(kept) ==
  [network  |-> IF "network" \in kept THEN cloud.network ELSE NoNetwork,
   firewall |-> IF "firewall" \in kept THEN cloud.firewall ELSE NoFirewall,
   balancer |-> IF "loadBalancer" \notin kept THEN NoBalancer
                ELSE IF "network" \in kept THEN cloud.balancer
                ELSE [cloud.balancer EXCEPT !.host = NoHost]]

\* Between two passes someone deletes a resource.
Lose ==
  /\ pass = "idle" /\ ~past /\ Fault
  /\ \E r \in Found : cloud' = Left(Found \ {r})
  /\ UNCHANGED <<setup, ids, past, pass, known, open>>

\* An apply that fails in a later phase; the next one begins with this phase again.
Fail(next) ==
  /\ past' = FALSE /\ pass' = next
  /\ UNCHANGED <<setup, cloud, ids, known, open>>

\* destroy.Destroy after such an apply: what carries the label goes.  A call that
\* fails leaves what it was to delete; none has to, with a server there.
Destroy(kept) ==
  /\ pass = "cleanup" /\ pass' = "idle"
  /\ cloud' = Left(kept)
  /\ UNCHANGED <<setup, ids, past, known, open>>

Next == Pass \/ Crash \/ Lose

-----------------------------------------------------------------------------

\* Everything the phase is to make is there, and the pieces are put together.
Whole ==
  /\ cloud.network.subnets = {SubnetForRole(Config, r) : r \in Roles}
  /\ cloud.firewall.applied
  /\ cloud.balancer.services = Services
  /\ Attached /\ cloud.balancer.targets

\* What Hetzner and the phase can do with: a range written by its first address,
\* with the nodes' range in it and room there for the three roles; for the
\* operator also an endpoint to begin with, and subnets that need no zone.
Feasible ==
  /\ Operator => setup.peers /\ setup.zoneless
  /\ Config.network = ParseCIDR(Config.network)
  /\ Within(Config.network, ParseCIDR(Config.node))
  /\ \A r \in Roles : SubnetForRole(Config, r) # NoRange

\* Where it can be had, everything is there when the phase is over: for an apply
\* whatever has failed before, for the operator as long as at most one thing has.
\* With two it need not be: the second pass, failing, stores the IDs it found, and
\* the third takes a balancer without services or targets for one made by the
\* command line.
OneFaultIsMended == Feasible /\ past /\ (Operator => faults <= 1) => Whole
=============================================================================
