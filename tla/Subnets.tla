------------------------------- MODULE Subnets -------------------------------
(***************************************************************************)
(* The arithmetic of addresses: which part of the private network belongs  *)
(* to which role, and which address a host of it gets.                     *)
(*                                                                         *)
(* A range is the record of its first address and its number of mask bits. *)
(* Addresses are numbers counted from 10.0.0.0.  Where the code returns an *)
(* error there is no range, or no address; a shift by a negative number,   *)
(* which stops the call by a panic, is counted among the errors.           *)
(***************************************************************************)
EXTENDS Integers

Range(base, bits) == [base |-> base, bits |-> bits]

NoRange == Range(-1, 32)
NoHost  == -1

Size(r) == 2 ^ (32 - r.bits)

Within(r, s) == s.base >= r.base /\ s.base + Size(s) <= r.base + Size(r)

Apart(r, s) == r.base + Size(r) <= s.base \/ s.base + Size(s) <= r.base

\* net.ParseCIDR: a range may be written with any of its addresses.
ParseCIDR(r) == Range(r.base - (r.base % Size(r)), r.bits)

\* Mutant: the subnet's number is added to the address unscaled.
CIDRSubnetUnscaled(prefix, newbits, netnum) ==
  Range(ParseCIDR(prefix).base + netnum, prefix.bits + newbits)

\* Subnet netnum of the 2^newbits that prefix is cut into.
CIDRSubnet(prefix, newbits, netnum) ==
  LET maskSize == prefix.bits + newbits IN
  IF maskSize > 32 \/ newbits < 0 THEN NoRange
  ELSE IF netnum >= 2 ^ newbits THEN NoRange
  ELSE Range(ParseCIDR(prefix).base + netnum * Size(Range(0, maskSize)), maskSize)

\* Host hostnum of prefix; a negative one is counted from the end.
CIDRHost(prefix, hostnum) ==
  LET first == ParseCIDR(prefix).base
      hosts == Size(prefix)
  IN CASE hostnum < 0 /\ -hostnum <= hosts -> first + hosts + hostnum
       [] hostnum >= 0 /\ hostnum < hosts  -> first + hostnum
       [] OTHER -> NoHost

-----------------------------------------------------------------------------

\* The operator's constants, which stand in for what spec.network leaves out.
Unset       == Range(0, 64)
Written     == [base : Nat, bits : 0..32] \cup {Unset}
NetworkCIDR == Range(0, 16)
NodeCIDR    == Range(0, 17)
SubnetMask  == 25

Default(value, default) == IF value = Unset THEN default ELSE value

\* calculateNodeSubnet: the third eighth of the network, where no range is given.
CalculateSubnets(config) ==
  IF config.node = Unset
    THEN [config EXCEPT !.node = CIDRSubnet(config.network, 3, 2)]
    ELSE config

\* SpecToConfig, of spec.network: the defaults come first, so that nothing is
\* left to calculate.
NetworkConfig(spec) ==
  CalculateSubnets([network |-> Default(spec.network, NetworkCIDR),
                    node    |-> Default(spec.node, NodeCIDR)])

Roles == {"control-plane", "load-balancer", "worker"}

\* The operator has one pool of workers.
SubnetIndex(role) ==
  CASE role = "control-plane" -> 0
    [] role = "load-balancer" -> 1
    [] role = "worker"        -> 2

SubnetForRole(config, role) ==
  CIDRSubnet(config.node, SubnetMask - config.node.bits, SubnetIndex(role))
=============================================================================
