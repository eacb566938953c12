------------------------ MODULE Provisioners_proofs ------------------------
(***************************************************************************)
(* What holds of the two provisioning phases for every choice of ranges,   *)
(* names and counts and for any number of faults.                          *)
(*                                                                         *)
(* The inductive invariant (IInv) says of a pass of the first phase what   *)
(* its calls so far have left at Hetzner, of the operator's status that no *)
(* ID is in it while something is missing, as long as no second thing goes *)
(* wrong, of an apply that it reads no status at all, and of each task of  *)
(* the second phase how far its server has come.  The arithmetic of        *)
(* subnets is done over the 33 masks a range can have.                     *)
(***************************************************************************)
EXTENDS Provisioners, FiniteSetTheorems, SequenceTheorems, TLAPS

\* The powers of two that the masks of IPv4 ranges give.
LEMMA Powers ==
  ASSUME NEW b \in 0..32
  PROVE  2 ^ (32 - b) \in Nat \ {0}
<1>1. CASE b = 0 BY <1>1, 2 ^ 32 = 4294967296
<1>2. CASE b = 1 BY <1>2, 2 ^ 31 = 2147483648
<1>3. CASE b = 2 BY <1>3, 2 ^ 30 = 1073741824
<1>4. CASE b = 3 BY <1>4, 2 ^ 29 = 536870912
<1>5. CASE b = 4 BY <1>5, 2 ^ 28 = 268435456
<1>6. CASE b = 5 BY <1>6, 2 ^ 27 = 134217728
<1>7. CASE b = 6 BY <1>7, 2 ^ 26 = 67108864
<1>8. CASE b = 7 BY <1>8, 2 ^ 25 = 33554432
<1>9. CASE b = 8 BY <1>9, 2 ^ 24 = 16777216
<1>10. CASE b = 9 BY <1>10, 2 ^ 23 = 8388608
<1>11. CASE b = 10 BY <1>11, 2 ^ 22 = 4194304
<1>12. CASE b = 11 BY <1>12, 2 ^ 21 = 2097152
<1>13. CASE b = 12 BY <1>13, 2 ^ 20 = 1048576
<1>14. CASE b = 13 BY <1>14, 2 ^ 19 = 524288
<1>15. CASE b = 14 BY <1>15, 2 ^ 18 = 262144
<1>16. CASE b = 15 BY <1>16, 2 ^ 17 = 131072
<1>17. CASE b = 16 BY <1>17, 2 ^ 16 = 65536
<1>18. CASE b = 17 BY <1>18, 2 ^ 15 = 32768
<1>19. CASE b = 18 BY <1>19, 2 ^ 14 = 16384
<1>20. CASE b = 19 BY <1>20, 2 ^ 13 = 8192
<1>21. CASE b = 20 BY <1>21, 2 ^ 12 = 4096
<1>22. CASE b = 21 BY <1>22, 2 ^ 11 = 2048
<1>23. CASE b = 22 BY <1>23, 2 ^ 10 = 1024
<1>24. CASE b = 23 BY <1>24, 2 ^ 9 = 512
<1>25. CASE b = 24 BY <1>25, 2 ^ 8 = 256
<1>26. CASE b = 25 BY <1>26, 2 ^ 7 = 128
<1>27. CASE b = 26 BY <1>27, 2 ^ 6 = 64
<1>28. CASE b = 27 BY <1>28, 2 ^ 5 = 32
<1>29. CASE b = 28 BY <1>29, 2 ^ 4 = 16
<1>30. CASE b = 29 BY <1>30, 2 ^ 3 = 8
<1>31. CASE b = 30 BY <1>31, 2 ^ 2 = 4
<1>32. CASE b = 31 BY <1>32, 2 ^ 1 = 2
<1>33. CASE b = 32 BY <1>33, 2 ^ 0 = 1
<1> QED BY <1>1, <1>2, <1>3, <1>4, <1>5, <1>6, <1>7, <1>8, <1>9, <1>10, <1>11, <1>12,
     <1>13, <1>14, <1>15, <1>16, <1>17, <1>18, <1>19, <1>20, <1>21, <1>22, <1>23,
     <1>24, <1>25, <1>26, <1>27, <1>28, <1>29, <1>30, <1>31, <1>32, <1>33

\* A range with room for subnets holds 128 addresses for each of them.
LEMMA Rooms ==
  ASSUME NEW b \in 0..25
  PROVE  2 ^ (25 - b) \in Nat \ {0} /\ 2 ^ (32 - b) = 128 * 2 ^ (25 - b)
<1>1. CASE b = 0 BY <1>1, 2 ^ 25 = 33554432, 2 ^ 32 = 4294967296
<1>2. CASE b = 1 BY <1>2, 2 ^ 24 = 16777216, 2 ^ 31 = 2147483648
<1>3. CASE b = 2 BY <1>3, 2 ^ 23 = 8388608, 2 ^ 30 = 1073741824
<1>4. CASE b = 3 BY <1>4, 2 ^ 22 = 4194304, 2 ^ 29 = 536870912
<1>5. CASE b = 4 BY <1>5, 2 ^ 21 = 2097152, 2 ^ 28 = 268435456
<1>6. CASE b = 5 BY <1>6, 2 ^ 20 = 1048576, 2 ^ 27 = 134217728
<1>7. CASE b = 6 BY <1>7, 2 ^ 19 = 524288, 2 ^ 26 = 67108864
<1>8. CASE b = 7 BY <1>8, 2 ^ 18 = 262144, 2 ^ 25 = 33554432
<1>9. CASE b = 8 BY <1>9, 2 ^ 17 = 131072, 2 ^ 24 = 16777216
<1>10. CASE b = 9 BY <1>10, 2 ^ 16 = 65536, 2 ^ 23 = 8388608
<1>11. CASE b = 10 BY <1>11, 2 ^ 15 = 32768, 2 ^ 22 = 4194304
<1>12. CASE b = 11 BY <1>12, 2 ^ 14 = 16384, 2 ^ 21 = 2097152
<1>13. CASE b = 12 BY <1>13, 2 ^ 13 = 8192, 2 ^ 20 = 1048576
<1>14. CASE b = 13 BY <1>14, 2 ^ 12 = 4096, 2 ^ 19 = 524288
<1>15. CASE b = 14 BY <1>15, 2 ^ 11 = 2048, 2 ^ 18 = 262144
<1>16. CASE b = 15 BY <1>16, 2 ^ 10 = 1024, 2 ^ 17 = 131072
<1>17. CASE b = 16 BY <1>17, 2 ^ 9 = 512, 2 ^ 16 = 65536
<1>18. CASE b = 17 BY <1>18, 2 ^ 8 = 256, 2 ^ 15 = 32768
<1>19. CASE b = 18 BY <1>19, 2 ^ 7 = 128, 2 ^ 14 = 16384
<1>20. CASE b = 19 BY <1>20, 2 ^ 6 = 64, 2 ^ 13 = 8192
<1>21. CASE b = 20 BY <1>21, 2 ^ 5 = 32, 2 ^ 12 = 4096
<1>22. CASE b = 21 BY <1>22, 2 ^ 4 = 16, 2 ^ 11 = 2048
<1>23. CASE b = 22 BY <1>23, 2 ^ 3 = 8, 2 ^ 10 = 1024
<1>24. CASE b = 23 BY <1>24, 2 ^ 2 = 4, 2 ^ 9 = 512
<1>25. CASE b = 24 BY <1>25, 2 ^ 1 = 2, 2 ^ 8 = 256
<1>26. CASE b = 25 BY <1>26, 2 ^ 0 = 1, 2 ^ 7 = 128
<1> QED BY <1>1, <1>2, <1>3, <1>4, <1>5, <1>6, <1>7, <1>8, <1>9, <1>10, <1>11, <1>12,
     <1>13, <1>14, <1>15, <1>16, <1>17, <1>18, <1>19, <1>20, <1>21, <1>22, <1>23,
     <1>24, <1>25, <1>26

\* The first address of a block of the range's size.
LEMMA Blocks ==
  ASSUME NEW a \in Nat, NEW d \in Nat \ {0}
  PROVE  /\ a - (a % d) \in Nat
         /\ \A k \in Nat : d = 128 * k => (a - (a % d)) % 128 = 0
<1> DEFINE q == a \div d
<1>1. q \in Nat /\ a % d \in 0..(d - 1) /\ a = d * q + (a % d) OBVIOUS
<1>2. a - (a % d) = d * q BY <1>1
<1>3. d * q \in Nat BY <1>1
<1> HIDE DEF q
<1>4. ASSUME NEW k \in Nat, d = 128 * k PROVE (d * q) % 128 = 0
  <2>1. k * q \in Nat BY <1>1
  <2>2. d * q = 128 * (k * q) BY <1>1, <1>4
  <2>3. \A x \in Nat : (128 * x) % 128 = 0 OBVIOUS
  <2> QED BY <2>1, <2>2, <2>3
<1> QED BY <1>2, <1>3, <1>4

\* The ranges the parts of spec.network may be, and those that stand in for them.
Ranges == [base : Nat, bits : 0..32]

\* Whatever spec.network says, the ranges calculated with are ranges.
LEMMA ConfigType ==
  ASSUME setup \in Setups
  PROVE  I!Config.network \in Ranges /\ I!Config.node \in Ranges
<1>1. setup.network \in I!Written /\ setup.node \in I!Written BY SetupsAssumption
<1>2. \A r \in I!Written : r # I!Unset => r \in Ranges BY DEF I!Written, Ranges
<1>3. I!NetworkCIDR \in Ranges /\ I!NodeCIDR \in Ranges
  BY DEF I!NetworkCIDR, I!NodeCIDR, I!Range, Ranges
<1>4. I!Unset \notin Ranges BY DEF I!Unset, I!Range, Ranges
<1> DEFINE network == I!Default(setup.network, I!NetworkCIDR)
           node    == I!Default(setup.node, I!NodeCIDR)
<1>5. network \in Ranges /\ node \in Ranges BY <1>1, <1>2, <1>3 DEF I!Default
<1> HIDE DEF network, node
<1>6. I!CalculateSubnets([network |-> network, node |-> node])
        = [network |-> network, node |-> node]
  BY <1>4, <1>5 DEF I!CalculateSubnets
<1> QED BY <1>5, <1>6 DEF I!Config, I!NetworkConfig, network, node

\* A range is written by its first address, a multiple of its size.
LEMMA ParsedRange ==
  ASSUME NEW r \in Ranges
  PROVE  /\ I!ParseCIDR(r) \in Ranges /\ I!ParseCIDR(r).bits = r.bits
         /\ r.bits <= 25 => I!ParseCIDR(r).base % 128 = 0
<1>1. r.base \in Nat /\ r.bits \in 0..32 BY DEF Ranges
<1>2. I!Size(r) \in Nat \ {0} BY <1>1, Powers DEF I!Size
<1>3. r.base - (r.base % I!Size(r)) \in Nat BY <1>1, <1>2, Blocks
<1>4. ASSUME r.bits <= 25 PROVE (r.base - (r.base % I!Size(r))) % 128 = 0
  <2>1. r.bits \in 0..25 BY <1>1, <1>4
  <2>2. I!Size(r) = 128 * 2 ^ (25 - r.bits) /\ 2 ^ (25 - r.bits) \in Nat
    BY <2>1, Rooms DEF I!Size
  <2> DEFINE size == I!Size(r)
             room == 2 ^ (25 - r.bits)
  <2> HIDE DEF size, room
  <2>3. size \in Nat \ {0} /\ room \in Nat /\ size = 128 * room
    BY <1>2, <2>2 DEF size, room
  <2>4. (r.base - (r.base % size)) % 128 = 0 BY <1>1, <2>3, Blocks
  <2> QED BY <2>4 DEF size
<1> QED BY <1>1, <1>3, <1>4 DEF I!ParseCIDR, I!Range, Ranges

\* The addresses of a role's subnet, and of what stands for none.
LEMMA RangeSizes == I!Size(I!Range(0, 25)) = 128 /\ I!Size(I!NoRange) = 1
<1>1. 2 ^ 7 = 128 /\ 2 ^ 0 = 1 OBVIOUS
<1> QED BY <1>1 DEF I!Size, I!Range, I!NoRange

\* The block of the nodes' range that is a role's.
First == I!ParseCIDR(I!Config.node).base

\* The subnet of a role, or the range that stands for none.
Subnet(role) == I!SubnetForRole(I!Config, role)

\* A role's subnet is a block of 128 addresses of the nodes' range, or there is none.
LEMMA SubnetBlocks ==
  ASSUME setup \in Setups, NEW role \in I!Roles, Subnet(role) # I!NoRange
  PROVE  /\ First \in Nat /\ First % 128 = 0
         /\ I!SubnetIndex(role) \in 0..2
         /\ Subnet(role) = I!Range(First + I!SubnetIndex(role) * 128, 25)
         /\ I!Size(Subnet(role)) = 128
         /\ I!Within(I!ParseCIDR(I!Config.node), Subnet(role))
<1> DEFINE node == I!Config.node
           k    == I!SubnetIndex(role)
           room == 2 ^ (25 - node.bits)
<1>1. node \in Ranges /\ node.base \in Nat /\ node.bits \in 0..32 BY ConfigType DEF Ranges
<1>2. k \in 0..2 BY DEF I!SubnetIndex, I!Roles
<1>3. node.bits + (25 - node.bits) = 25 BY <1>1
<1> HIDE DEF node, k, room
<1>4. /\ 25 - node.bits >= 0 /\ ~(k >= room)
      /\ Subnet(role) = I!Range(I!ParseCIDR(node).base + k * I!Size(I!Range(0, 25)), 25)
  BY <1>1, <1>3 DEF Subnet, I!SubnetForRole, I!CIDRSubnet, I!SubnetMask, node, k, room
<1>5. node.bits \in 0..25 BY <1>1, <1>4
<1>6. room \in Nat \ {0} /\ I!Size(node) = 128 * room BY <1>5, Rooms DEF room, I!Size
<1>7. I!ParseCIDR(node) \in Ranges /\ I!ParseCIDR(node).bits = node.bits /\ First % 128 = 0
  BY <1>1, <1>5, ParsedRange DEF First, node
<1>8. First \in Nat /\ Subnet(role) = I!Range(First + k * 128, 25)
  BY <1>4, <1>7, RangeSizes DEF First, Ranges, node
<1>9. I!Size(Subnet(role)) = 128 BY <1>8, RangeSizes DEF I!Size, I!Range
<1>10. I!Size(I!ParseCIDR(node)) = 128 * room BY <1>6, <1>7 DEF I!Size
<1>11. Subnet(role).base = First + k * 128 BY <1>8 DEF I!Range
<1>12. k + 1 <= room BY <1>2, <1>4, <1>6
<1>13. k * 128 + 128 <= 128 * room BY <1>2, <1>6, <1>12
<1>14. I!Within(I!ParseCIDR(node), Subnet(role))
  BY <1>2, <1>6, <1>8, <1>9, <1>10, <1>11, <1>13 DEF I!Within, First, node
<1> QED BY <1>2, <1>7, <1>8, <1>9, <1>14 DEF k, node

-----------------------------------------------------------------------------

\* A host of a block of 128 addresses, counted from its first or its last.
LEMMA Hosts ==
  ASSUME NEW b \in Nat, b % 128 = 0, NEW h \in (-2)..6
  PROVE  I!CIDRHost(I!Range(b, 25), h) = IF h < 0 THEN b + 128 + h ELSE b + h
<1>1. I!Size(I!Range(b, 25)) = 128 BY RangeSizes DEF I!Size, I!Range
<1>2. I!ParseCIDR(I!Range(b, 25)).base = b BY <1>1 DEF I!ParseCIDR, I!Range
<1> HIDE DEF I!Range
<1>3. CASE h < 0
  <2>1. h < 0 /\ -h <= 128 BY <1>3
  <2>2. ~(h >= 0 /\ h < 128) BY <1>3
  <2> QED BY <1>1, <1>2, <2>1, <2>2 DEF I!CIDRHost
<1>4. CASE h >= 0
  <2>1. h >= 0 /\ h < 128 BY <1>4
  <2>2. ~(h < 0 /\ -h <= 128) BY <1>4
  <2> QED BY <1>1, <1>2, <2>1, <2>2 DEF I!CIDRHost
<1> QED BY <1>3, <1>4

\* A subnet there is not has no last address but one.
LEMMA NoHosts == I!CIDRHost(I!NoRange, -2) = I!NoHost
<1>1. I!Size(I!NoRange) = 1 BY RangeSizes
<1>2. ~(-2 < 0 /\ -(-2) <= 1) /\ ~(-2 >= 0 /\ -2 < 1) OBVIOUS
<1> QED BY <1>1, <1>2 DEF I!CIDRHost

\* The balancer's address is the last but one of its subnet.
LEMMA BalancerPlace ==
  ASSUME setup \in Setups
  PROVE  /\ Subnet("load-balancer") # I!NoRange =>
              I!BalancerHost = First + 254 /\ First \in Nat
         /\ Subnet("load-balancer") = I!NoRange => I!BalancerHost = I!NoHost
<1>1. CASE Subnet("load-balancer") # I!NoRange
  <2>1. /\ First \in Nat /\ First % 128 = 0
        /\ Subnet("load-balancer") = I!Range(First + 128, 25)
    BY <1>1, SubnetBlocks DEF I!Roles, I!SubnetIndex
  <2>2. First + 128 \in Nat /\ (First + 128) % 128 = 0 BY <2>1
  <2>3. -2 \in (-2)..6 /\ -2 < 0 OBVIOUS
  <2>4. I!CIDRHost(I!Range(First + 128, 25), -2) = (First + 128) + 128 + -2
    BY <2>2, <2>3, Hosts
  <2> QED BY <1>1, <2>1, <2>4 DEF I!BalancerHost, Subnet
<1>2. CASE Subnet("load-balancer") = I!NoRange
  BY <1>2, NoHosts DEF I!BalancerHost, Subnet
<1> QED BY <1>1, <1>2

\* A server's address is one of the first of the control planes' subnet.
LEMMA ServerPlace ==
  ASSUME setup \in Setups, Subnet("control-plane") # I!NoRange, NEW a \in 2..6
  PROVE  /\ First \in Nat
         /\ I!CIDRHost(Subnet("control-plane"), a) = First + a
         /\ I!Within(Subnet("control-plane"), I!Range(First + a, 32))
<1>1. /\ First \in Nat /\ First % 128 = 0
      /\ Subnet("control-plane") = I!Range(First, 25)
      /\ I!Size(Subnet("control-plane")) = 128
  BY SubnetBlocks DEF I!Roles, I!SubnetIndex
<1>2. I!CIDRHost(I!Range(First, 25), a) = First + a BY <1>1, Hosts
<1>3. I!Size(I!Range(First + a, 32)) = 1 BY RangeSizes DEF I!Size, I!Range, I!NoRange
<1>4. I!Within(I!Range(First, 25), I!Range(First + a, 32))
  <2>1. I!Size(I!Range(First, 25)) = 128 BY <1>1
  <2>2. I!Range(First, 25).base = First /\ I!Range(First + a, 32).base = First + a
    BY DEF I!Range
  <2> QED BY <1>1, <1>3, <2>1, <2>2 DEF I!Within
<1> QED BY <1>1, <1>2, <1>4

\* Where the ranges can be had, Hetzner takes the roles' subnets, each beside the
\* others.
LEMMA SubnetsFit ==
  ASSUME setup \in Setups, I!Feasible, NEW role \in I!Roles
  PROVE  /\ I!Within(I!Config.network, Subnet(role))
         /\ \A other \in I!Roles \ {role} : I!Apart(Subnet(other), Subnet(role))
<1> DEFINE net == I!Config.network
           node == I!ParseCIDR(I!Config.node)
<1>1. \A r \in I!Roles : Subnet(r) # I!NoRange BY DEF I!Feasible, Subnet
<1>2. \A r \in I!Roles :
        /\ First \in Nat
        /\ I!SubnetIndex(r) \in 0..2
        /\ Subnet(r).base = First + I!SubnetIndex(r) * 128
        /\ I!Size(Subnet(r)) = 128
        /\ I!Within(node, Subnet(r))
  BY <1>1, SubnetBlocks DEF I!Range
<1>3. I!Within(net, node) BY DEF I!Feasible
<1>4. net \in Ranges /\ node \in Ranges BY ConfigType, ParsedRange
<1>5. I!Size(net) \in Nat /\ I!Size(node) \in Nat BY <1>4, Powers DEF I!Size, Ranges
<1>6. net.base \in Nat /\ node.base \in Nat BY <1>4 DEF Ranges
<1> HIDE DEF net, node
<1>7. I!Within(net, Subnet(role)) BY <1>2, <1>3, <1>5, <1>6 DEF I!Within
<1>8. ASSUME NEW other \in I!Roles \ {role} PROVE I!Apart(Subnet(other), Subnet(role))
  <2>1. I!SubnetIndex(other) # I!SubnetIndex(role) BY <1>8 DEF I!SubnetIndex, I!Roles
  <2> QED BY <1>2, <2>1 DEF I!Apart
<1> QED BY <1>7, <1>8 DEF net

-----------------------------------------------------------------------------

\* The network has the role's subnet.
Has(role) == Subnet(role) \in cloud.network.subnets

\* The types of the first phase's state but for what is at Hetzner.
InfraType ==
  /\ setup \in Setups
  /\ ids \subseteq I!IDs /\ known \subseteq I!IDs
  /\ past \in BOOLEAN /\ open \in BOOLEAN
  /\ pass \in I!Calls
  /\ faults \in 0..MaxFaults

\* What can be at Hetzner: without a network no subnet, and the balancer nowhere
\* but at its place.
CloudType(c) ==
  /\ c \in [network  : [range   : {I!NoRange, I!ParseCIDR(I!Config.network)},
                        subnets : SUBSET ({Subnet(r) : r \in I!Roles} \ {I!NoRange})],
            firewall : [made : BOOLEAN, ports : SUBSET I!Services, applied : BOOLEAN],
            balancer : [made : BOOLEAN, services : SUBSET I!Services,
                        host : {I!NoHost, I!BalancerHost}, targets : BOOLEAN]]
  /\ c.network.range = I!NoRange => c.network.subnets = {}

\* A step of the first phase, the deletions by hand among them.
Infra == I!Pass \/ I!Crash \/ I!Lose

-----------------------------------------------------------------------------

\* A network is never made with the range that stands for none.
LEMMA RangesAreReal ==
  ASSUME setup \in Setups
  PROVE  /\ I!ParseCIDR(I!Config.network) # I!NoRange
         /\ I!ParseCIDR(I!Config.network).base \in Nat
BY ConfigType, ParsedRange DEF Ranges, I!NoRange, I!Range

\* The setup stays what it is, and with it all that is calculated from it.
LEMMA ConfigStays ==
  ASSUME setup' = setup
  PROVE  /\ I!Config' = I!Config /\ I!BalancerHost' = I!BalancerHost
         /\ I!Feasible' = I!Feasible /\ First' = First /\ I!Operator' = I!Operator
         /\ Subnet("control-plane")' = Subnet("control-plane")
         /\ Subnet("load-balancer")' = Subnet("load-balancer")
         /\ Subnet("worker")' = Subnet("worker")
<1>1. I!Config' = I!Config BY DEF I!Config
<1> QED BY <1>1 DEF I!BalancerHost, I!Feasible, I!Operator, First, Subnet

\* No step changes the setup.
LEMMA SetupStays == ASSUME Infra PROVE setup' = setup
<1>1. \A at, next, after : I!Request(at, next, after) => setup' = setup BY DEF I!Request
<1>2. \A at, next : I!Proceed(at, next) => setup' = setup BY DEF I!Proceed
<1>3. I!EnterPhase \/ I!EnsureNetwork \/ I!EnsureFirewallAppliedTo \/ I!EnsureLoadBalancer
        \/ I!AttachToNetwork \/ I!AddTarget => setup' = setup
  BY <1>1, <1>2 DEF I!EnterPhase, I!EnsureNetwork, I!EnsureFirewallAppliedTo,
       I!EnsureLoadBalancer, I!AttachToNetwork, I!AddTarget
<1>4. \A role, next : I!EnsureSubnet(role, next) => setup' = setup
  BY <1>1, <1>2 DEF I!EnsureSubnet
<1>5. \A s, at, next : I!ConfigureService(s, at, next) => setup' = setup
  BY <1>1, <1>2 DEF I!ConfigureService
<1>6. I!EnsureFirewall => setup' = setup BY <1>1 DEF I!EnsureFirewall
<1>7. I!Discover \/ I!DetectAddress \/ I!SaveStatus \/ I!Crash \/ I!Lose => setup' = setup
  BY DEF I!Discover, I!DetectAddress, I!SaveStatus, I!Crash, I!Lose
<1> QED BY <1>3, <1>4, <1>5, <1>6, <1>7 DEF Infra, I!Pass

\* Each request makes one kind of thing, or adds to one.
LEMMA CloudAfter ==
  ASSUME setup \in Setups, NEW c, CloudType(c)
  PROVE  /\ CloudType([c EXCEPT !.network =
              [range |-> I!ParseCIDR(I!Config.network), subnets |-> {}]])
         /\ \A r \in I!Roles : Subnet(r) # I!NoRange /\ c.network.range # I!NoRange
              => CloudType([c EXCEPT !.network.subnets = @ \cup {Subnet(r)}])
         /\ \A f \in [made : BOOLEAN, ports : SUBSET I!Services, applied : BOOLEAN] :
              CloudType([c EXCEPT !.firewall = f])
         /\ CloudType([c EXCEPT !.firewall.applied = TRUE])
         /\ CloudType([c EXCEPT !.balancer.made = TRUE])
         /\ \A s \in I!Services : CloudType([c EXCEPT !.balancer.services = @ \cup {s}])
         /\ CloudType([c EXCEPT !.balancer.host = I!BalancerHost])
         /\ CloudType([c EXCEPT !.balancer.targets = TRUE])
<1>1. CloudType([c EXCEPT !.network =
         [range |-> I!ParseCIDR(I!Config.network), subnets |-> {}]])
  BY DEF CloudType
<1>3. ASSUME NEW r \in I!Roles, Subnet(r) # I!NoRange, c.network.range # I!NoRange
      PROVE  CloudType([c EXCEPT !.network.subnets = @ \cup {Subnet(r)}])
  BY <1>3 DEF CloudType
<1>4. ASSUME NEW f \in [made : BOOLEAN, ports : SUBSET I!Services, applied : BOOLEAN]
      PROVE  CloudType([c EXCEPT !.firewall = f])
  BY <1>4 DEF CloudType
<1>5. CloudType([c EXCEPT !.firewall.applied = TRUE]) BY DEF CloudType
<1>6. CloudType([c EXCEPT !.balancer.made = TRUE]) BY DEF CloudType
<1>7. ASSUME NEW s \in I!Services PROVE CloudType([c EXCEPT !.balancer.services = @ \cup {s}])
  BY <1>7 DEF CloudType
<1>8. CloudType([c EXCEPT !.balancer.host = I!BalancerHost]) BY DEF CloudType
<1>9. CloudType([c EXCEPT !.balancer.targets = TRUE]) BY DEF CloudType
<1> QED BY <1>1, <1>3, <1>4, <1>5, <1>6, <1>7, <1>8, <1>9

\* So it is with what a deletion leaves.
LEMMA LeftType ==
  ASSUME CloudType(cloud), NEW kept
  PROVE  CloudType(I!Left(kept))
<1>1. /\ I!NoNetwork \in [range : {I!NoRange}, subnets : {{}}]
      /\ I!NoFirewall \in [made : BOOLEAN, ports : SUBSET I!Services, applied : BOOLEAN]
      /\ I!NoBalancer \in [made : BOOLEAN, services : SUBSET I!Services,
                           host : {I!NoHost, I!BalancerHost}, targets : BOOLEAN]
  BY DEF I!NoNetwork, I!NoFirewall, I!NoBalancer
<1>2. [cloud.balancer EXCEPT !.host = I!NoHost]
        \in [made : BOOLEAN, services : SUBSET I!Services,
             host : {I!NoHost, I!BalancerHost}, targets : BOOLEAN]
  BY DEF CloudType
<1>3. I!Left(kept).network \in {cloud.network, I!NoNetwork} BY DEF I!Left
<1>4. I!Left(kept).firewall \in {cloud.firewall, I!NoFirewall} BY DEF I!Left
<1>5. I!Left(kept).balancer
        \in {cloud.balancer, I!NoBalancer, [cloud.balancer EXCEPT !.host = I!NoHost]}
  BY DEF I!Left
<1>6. I!Left(kept) = [network  |-> I!Left(kept).network,
                      firewall |-> I!Left(kept).firewall,
                      balancer |-> I!Left(kept).balancer]
  BY DEF I!Left
<1> HIDE DEF I!Left
<1> QED BY <1>1, <1>2, <1>3, <1>4, <1>5, <1>6 DEF CloudType

-----------------------------------------------------------------------------

\* The calls a pass makes after the one named.
BeyondAttach  == {"target"}
Beyond50000   == BeyondAttach \cup {"attach"}
Beyond6443    == Beyond50000 \cup {"50000"}
BeyondApply   == Beyond6443 \cup {"balancer", "6443"}
BeyondWorker  == BeyondApply \cup {"firewall", "apply"}
BeyondLB      == BeyondWorker \cup {"worker"}
BeyondCP      == BeyondLB \cup {"load-balancer"}
BeyondNetwork == BeyondCP \cup {"detect", "control-plane"}

\* What a pass has behind it is there, whatever was there before it began.
PassHolds ==
  /\ pass \in BeyondNetwork => cloud.network.range = I!ParseCIDR(I!Config.network)
  /\ pass \in BeyondCP => Has("control-plane")
  /\ pass \in BeyondLB => Has("load-balancer")
  /\ pass \in BeyondWorker => Has("worker")
  /\ pass \in BeyondApply => cloud.firewall.applied
  /\ pass \in Beyond6443 => 6443 \in cloud.balancer.services
  /\ pass \in Beyond50000 => 50000 \in cloud.balancer.services
  /\ pass \in BeyondAttach => I!Attached

\* A phase that is through, or about to be: the pass that ends it has made
\* everything, or began with the three IDs in status.
DoneHolds ==
  /\ pass = "done" => ids = I!IDs \/ I!Whole
  /\ past => pass = "idle"

\* Until a second thing goes wrong no ID is in status while anything is missing.
FirstFault ==
  I!Feasible /\ I!Operator /\ faults <= 1 /\ ~past =>
    /\ ids = {}
    /\ known # {} => faults = 1 /\ pass # "save"
    /\ faults = 0 => pass # "save" /\ (pass \in {"idle", "discover"} => I!Found = {})

\* An apply keeps no status, and it alone cleans up.
ApplyHolds ==
  /\ ~I!Operator => ids = {} /\ known = {} /\ pass # "discover"
  /\ pass = "cleanup" => ~I!Operator

-----------------------------------------------------------------------------

\* Any request but for a new network takes nothing away.
LEMMA RequestType ==
  ASSUME InfraType, CloudType(cloud), NEW at, NEW next \in I!Calls, NEW after,
         CloudType(after), I!Request(at, next, after)
  PROVE  InfraType' /\ CloudType(cloud)'
<1>1. setup' = setup /\ cloud' \in {cloud, after}
  BY DEF I!Request
<1>2. I!Config' = I!Config /\ I!BalancerHost' = I!BalancerHost BY <1>1, ConfigStays
<1>3. CloudType(cloud') BY <1>1
<1>4. CloudType(cloud)' BY <1>2, <1>3 DEF CloudType, Subnet
<1>5. /\ pass' \in I!Calls /\ faults' \in 0..MaxFaults
      /\ UNCHANGED <<setup, ids, past, known, open>>
  BY FaultsAssumption DEF I!Request, I!Fault, InfraType, I!Calls
<1> QED BY <1>4, <1>5 DEF InfraType

\* A call that asks Hetzner for nothing changes no more than the pass.
LEMMA ProceedType ==
  ASSUME InfraType, CloudType(cloud), NEW at, NEW next \in I!Calls, I!Proceed(at, next)
  PROVE  InfraType' /\ CloudType(cloud)'
<1>1. pass' \in I!Calls /\ UNCHANGED <<setup, cloud, ids, past, known, open, faults>>
  BY DEF I!Proceed
<1>2. I!Config' = I!Config /\ I!BalancerHost' = I!BalancerHost BY <1>1, ConfigStays
<1>3. CloudType(cloud)' BY <1>1, <1>2 DEF CloudType, Subnet
<1> QED BY <1>1, <1>3 DEF InfraType

\* Faults are counted up to their bound.
LEMMA FaultsType ==
  ASSUME InfraType, faults' = faults \/ I!Fault
  PROVE  faults' \in 0..MaxFaults
BY FaultsAssumption DEF InfraType, I!Fault

\* What is at Hetzner keeps its type as long as nobody changes it.
LEMMA CloudStays ==
  ASSUME CloudType(cloud), UNCHANGED <<setup, cloud>>
  PROVE  CloudType(cloud)'
BY ConfigStays DEF CloudType, Subnet

\* The types of the first phase's state.
LEMMA InfraTypesKept ==
  ASSUME InfraType, CloudType(cloud), PassHolds, Infra
  PROVE  InfraType' /\ CloudType(cloud)'
<1> DEFINE Goal == InfraType' /\ CloudType(cloud)'
<1>1. setup \in Setups BY DEF InfraType
<1> HIDE DEF Goal
<1>3. CASE I!EnterPhase
  <2>1. {"network", "done", "discover"} \subseteq I!Calls BY DEF I!Calls
  <2> QED BY <1>3, <2>1, ProceedType DEF I!EnterPhase, Goal
<1>4. CASE I!Discover
  <2>1. known' \subseteq I!IDs
    <3>1. I!Found \subseteq I!IDs BY DEF I!Found, I!IDs
    <3> QED BY <1>4, <3>1 DEF I!Discover, InfraType
  <2>2. pass' \in I!Calls BY <1>4 DEF I!Discover, I!Calls
  <2>3. faults' = faults \/ I!Fault BY <1>4, Zenon DEF I!Discover
  <2>4. open' = FALSE /\ UNCHANGED <<setup, cloud, ids, past>> BY <1>4 DEF I!Discover
  <2> QED BY <2>1, <2>2, <2>3, <2>4, FaultsType, CloudStays DEF InfraType, Goal
<1>5. CASE I!EnsureNetwork
  <2> DEFINE made  == [range |-> I!ParseCIDR(I!Config.network), subnets |-> {}]
             after == [cloud EXCEPT !.network = made]
  <2>1. CloudType(after) BY <1>1, CloudAfter
  <2>2. \/ I!Request("network", "detect", after) \/ I!Request("network", "detect", cloud)
        \/ I!Proceed("network", "save")
    BY <1>5 DEF I!EnsureNetwork
  <2> HIDE DEF after
  <2>3. "detect" \in I!Calls /\ "save" \in I!Calls BY DEF I!Calls
  <2> QED BY <2>1, <2>2, <2>3, RequestType, ProceedType DEF Goal
<1>6. CASE I!DetectAddress
  <2>1. pass' \in I!Calls /\ open' \in BOOLEAN BY <1>6 DEF I!DetectAddress, I!Calls
  <2>2. (faults' = faults \/ I!Fault) /\ UNCHANGED <<setup, cloud, ids, past, known>>
    BY <1>6 DEF I!DetectAddress
  <2> QED BY <2>1, <2>2, FaultsType, CloudStays DEF InfraType, Goal
<1>7. ASSUME NEW role \in I!Roles, NEW next \in I!Calls, I!EnsureSubnet(role, next) PROVE Goal
  <2> DEFINE after == [cloud EXCEPT !.network.subnets = @ \cup {Subnet(role)}]
  <2>1. I!Proceed(role, next) \/ I!Proceed(role, "save")
          \/ (I!Accepted(Subnet(role)) /\ I!Request(role, next, after))
    BY <1>7 DEF I!EnsureSubnet, Subnet
  <2>2. ASSUME I!Accepted(Subnet(role)), I!Request(role, next, after) PROVE CloudType(after)
    <3>1. pass = role BY <2>2 DEF I!Request
    <3>2. role \in BeyondNetwork
      BY DEF I!Roles, BeyondNetwork, BeyondCP, BeyondLB
    <3>3. cloud.network.range = I!ParseCIDR(I!Config.network) BY <3>1, <3>2 DEF PassHolds
    <3>4. Subnet(role) # I!NoRange
      BY <1>1, <2>2, <3>3, RangesAreReal DEF I!Accepted, I!Within, I!NoRange, I!Range
    <3>5. cloud.network.range # I!NoRange BY <1>1, <3>3, RangesAreReal
    <3> QED BY <1>1, <3>4, <3>5, CloudAfter
  <2> HIDE DEF after
  <2>3. "save" \in I!Calls BY DEF I!Calls
  <2> QED BY <2>1, <2>2, <2>3, RequestType, ProceedType DEF Goal
<1>8. CASE I!EnsureFirewall
  <2> DEFINE made(a) == [cloud EXCEPT !.firewall =
                           [made |-> TRUE, ports |-> I!Rules, applied |-> a]]
             kept  == IF cloud.firewall.made THEN cloud.firewall.applied ELSE TRUE
             after == made(kept)
  <2>1. \A a \in BOOLEAN : CloudType(made(a))
    <3>1. I!Rules \in SUBSET I!Services BY DEF I!Rules
    <3> QED BY <1>1, <3>1, CloudAfter
  <2>2. kept \in BOOLEAN BY DEF CloudType
  <2>3. CloudType(after) BY <2>1, <2>2
  <2>4. \/ I!Request("firewall", "apply", after)
        \/ /\ I!Fault /\ cloud' = made(FALSE) /\ pass' = "save"
           /\ UNCHANGED <<setup, ids, past, known, open>>
    BY <1>8 DEF I!EnsureFirewall
  <2> HIDE DEF after
  <2>5. CASE I!Request("firewall", "apply", after)
    <3>1. "apply" \in I!Calls BY DEF I!Calls
    <3> QED BY <2>3, <2>5, <3>1, RequestType DEF Goal
  <2>6. CASE /\ I!Fault /\ cloud' = made(FALSE) /\ pass' = "save"
             /\ UNCHANGED <<setup, ids, past, known, open>>
    <3>1. CloudType(cloud') BY <2>1, <2>6
    <3>2. CloudType(cloud)' BY <2>6, <3>1, ConfigStays DEF CloudType, Subnet
    <3>3. pass' \in I!Calls BY <2>6 DEF I!Calls
    <3> QED BY <2>6, <3>2, <3>3, FaultsType DEF InfraType, Goal
  <2> QED BY <2>4, <2>5, <2>6
<1>9. CASE I!EnsureFirewallAppliedTo
  <2> DEFINE after == [cloud EXCEPT !.firewall.applied = TRUE]
  <2>1. CloudType(after) BY <1>1, CloudAfter
  <2>2. I!Request("apply", "balancer", after) \/ I!Proceed("apply", "balancer")
    BY <1>9 DEF I!EnsureFirewallAppliedTo
  <2> HIDE DEF after
  <2>3. "balancer" \in I!Calls BY DEF I!Calls
  <2> QED BY <2>1, <2>2, <2>3, RequestType, ProceedType DEF Goal
<1>10. CASE I!EnsureLoadBalancer
  <2> DEFINE after == [cloud EXCEPT !.balancer.made = TRUE]
  <2>1. CloudType(after) BY <1>1, CloudAfter
  <2>2. I!Request("balancer", "6443", after)
    BY <1>10 DEF I!EnsureLoadBalancer
  <2> HIDE DEF after
  <2>3. "6443" \in I!Calls BY DEF I!Calls
  <2> QED BY <2>1, <2>2, <2>3, RequestType, ProceedType DEF Goal
<1>11. ASSUME NEW s \in I!Services, NEW at, NEW next \in I!Calls,
              I!ConfigureService(s, at, next)
       PROVE  Goal
  <2> DEFINE after == [cloud EXCEPT !.balancer.services = @ \cup {s}]
  <2>1. CloudType(after) BY <1>1, CloudAfter
  <2>2. I!Request(at, next, after) \/ I!Proceed(at, next)
    BY <1>11 DEF I!ConfigureService
  <2> HIDE DEF after
  <2> QED BY <2>1, <2>2, RequestType, ProceedType DEF Goal
<1>12. CASE I!AttachToNetwork
  <2> DEFINE after == [cloud EXCEPT !.balancer.host = I!BalancerHost]
  <2>1. CloudType(after) BY <1>1, CloudAfter
  <2>2. I!Request("attach", "target", after) \/ I!Proceed("attach", "target")
    BY <1>12 DEF I!AttachToNetwork
  <2> HIDE DEF after
  <2>3. "target" \in I!Calls BY DEF I!Calls
  <2> QED BY <2>1, <2>2, <2>3, RequestType, ProceedType DEF Goal
<1>13. CASE I!AddTarget
  <2> DEFINE after == [cloud EXCEPT !.balancer.targets = TRUE]
  <2>1. CloudType(after) BY <1>1, CloudAfter
  <2>2. \/ I!Request("target", "done", after) \/ I!Proceed("target", "done")
        \/ I!Proceed("target", "save")
    BY <1>13 DEF I!AddTarget
  <2> HIDE DEF after
  <2>3. "done" \in I!Calls /\ "save" \in I!Calls BY DEF I!Calls
  <2> QED BY <2>1, <2>2, <2>3, RequestType, ProceedType DEF Goal
<1>14. CASE I!SaveStatus
  <2>1. pass' \in I!Calls BY <1>14 DEF I!SaveStatus, I!Calls
  <2>2. ids' \subseteq I!IDs /\ past' \in BOOLEAN
    BY <1>14 DEF I!SaveStatus, InfraType, I!IDs
  <2>3. /\ faults' = faults \/ I!Fault
        /\ known' = {} /\ open' = FALSE /\ UNCHANGED <<setup, cloud>>
    BY <1>14 DEF I!SaveStatus
  <2> QED BY <2>1, <2>2, <2>3, FaultsType, CloudStays DEF InfraType, Goal
<1>15. CASE I!Crash
  <2>1. /\ pass' \in I!Calls /\ I!Fault
        /\ known' = {} /\ open' = FALSE /\ UNCHANGED <<setup, cloud, ids, past>>
    BY <1>15 DEF I!Crash, I!Calls
  <2> QED BY <2>1, FaultsType, CloudStays DEF InfraType, Goal
<1>16. CASE I!Lose
  <2>2. /\ \E kept : cloud' = I!Left(kept)
        /\ I!Fault /\ UNCHANGED <<setup, ids, past, pass, known, open>>
    BY <1>16 DEF I!Lose
  <2>3. CloudType(cloud') BY <2>2, LeftType
  <2>4. CloudType(cloud)' BY <2>2, <2>3, ConfigStays DEF CloudType, Subnet
  <2> QED BY <2>2, <2>4, FaultsType DEF InfraType, Goal
<1> QED
  <2>1. {"control-plane", "load-balancer", "worker"} \subseteq I!Roles BY DEF I!Roles
  <2>2. {"load-balancer", "worker", "firewall", "50000", "attach"} \subseteq I!Calls
    BY DEF I!Calls
  <2>3. {6443, 50000} \subseteq I!Services BY DEF I!Services
  <2>4. Infra => I!EnterPhase \/ I!Discover \/ I!EnsureNetwork \/ I!DetectAddress
                 \/ I!EnsureSubnet("control-plane", "load-balancer")
                 \/ I!EnsureSubnet("load-balancer", "worker")
                 \/ I!EnsureSubnet("worker", "firewall")
                 \/ I!EnsureFirewall \/ I!EnsureFirewallAppliedTo \/ I!EnsureLoadBalancer
                 \/ I!ConfigureService(6443, "6443", "50000")
                 \/ I!ConfigureService(50000, "50000", "attach")
                 \/ I!AttachToNetwork \/ I!AddTarget \/ I!SaveStatus \/ I!Crash \/ I!Lose
    BY DEF Infra, I!Pass
  <2> QED BY <1>3, <1>4, <1>5, <1>6, <1>7, <1>8, <1>9, <1>10, <1>11, <1>12, <1>13, <1>14,
             <1>15, <1>16, <2>1, <2>2, <2>3, <2>4 DEF Goal

-----------------------------------------------------------------------------

\* A pass that begins, or is over, has nothing behind it.
LEMMA NothingBehind ==
  ASSUME pass' \notin BeyondNetwork
  PROVE  PassHolds'
BY DEF PassHolds, BeyondNetwork, BeyondCP, BeyondLB, BeyondWorker, BeyondApply, Beyond6443,
       Beyond50000, BeyondAttach

\* A pass takes nothing away, but for what the firewall said before.
Grows ==
  /\ cloud.network.range # I!NoRange => cloud'.network.range = cloud.network.range
  /\ cloud.network.subnets \subseteq cloud'.network.subnets
  /\ cloud.balancer.services \subseteq cloud'.balancer.services
  /\ pass # "firewall" /\ cloud.firewall.applied => cloud'.firewall.applied
  /\ I!Attached => I!Attached'

\* What a request for after leaves, when it is answered.
LEMMA Answered ==
  ASSUME NEW at, NEW next, next # "save", NEW after, I!Request(at, next, after)
  PROVE  /\ pass = at /\ pass' \in {next, "save"} /\ setup' = setup
         /\ cloud' \in {cloud, after}
         /\ pass' = next => cloud' = after
BY DEF I!Request

\* What each call of a pass adds to what the calls before it have made.
Added(at, next, Made) == pass = at /\ pass' \in {next, "save"} /\ (pass' = next => Made)

\* EnsureSubnet, when the pass goes on, leaves the role's subnet there.
LEMMA SubnetAdded ==
  ASSUME CloudType(cloud), NEW role \in I!Roles, NEW next, next # "save",
         I!EnsureSubnet(role, next)
  PROVE  Grows /\ Added(role, next, Subnet(role) \in cloud'.network.subnets) /\ setup' = setup
<1> DEFINE after == [cloud EXCEPT !.network.subnets = @ \cup {Subnet(role)}]
<1>1. CASE I!Request(role, next, after)
  <2>1. /\ after.network.range = cloud.network.range
        /\ after.network.subnets = cloud.network.subnets \cup {Subnet(role)}
        /\ after.balancer = cloud.balancer /\ after.firewall = cloud.firewall
    BY DEF CloudType
  <2> HIDE DEF after
  <2>2. /\ pass = role /\ pass' \in {next, "save"} /\ cloud' \in {cloud, after}
        /\ setup' = setup /\ (pass' = next => cloud' = after)
    BY <1>1, Answered
  <2> QED BY <2>1, <2>2 DEF Grows, Added, I!Attached, I!NoHost
<1>2. CASE I!Proceed(role, next) /\ Subnet(role) \in cloud.network.subnets
  BY <1>2 DEF I!Proceed, Grows, Added, I!Attached
<1>3. CASE I!Proceed(role, "save")
  BY <1>3 DEF I!Proceed, Grows, Added, I!Attached
<1> QED BY <1>1, <1>2, <1>3 DEF I!EnsureSubnet, Subnet

\* EnsureNetwork leaves the network there, with the range asked for.
LEMMA NetworkAdded ==
  ASSUME InfraType, CloudType(cloud), I!EnsureNetwork
  PROVE  /\ Grows /\ setup' = setup
         /\ Added("network", "detect", cloud'.network.range = I!ParseCIDR(I!Config.network))
<1> DEFINE made  == [range |-> I!ParseCIDR(I!Config.network), subnets |-> {}]
           after == [cloud EXCEPT !.network = made]
<1>1. CASE ~I!HasNetwork /\ I!Request("network", "detect", after)
  <2>1. /\ after.network.range = I!ParseCIDR(I!Config.network) /\ after.network.subnets = {}
        /\ after.balancer = cloud.balancer /\ after.firewall = cloud.firewall
    BY DEF CloudType
  <2>2. cloud.network.range = I!NoRange /\ cloud.network.subnets = {}
    BY <1>1 DEF I!HasNetwork, I!NoNetwork
  <2> HIDE DEF after
  <2>3. /\ pass = "network" /\ pass' \in {"detect", "save"} /\ cloud' \in {cloud, after}
        /\ setup' = setup /\ (pass' = "detect" => cloud' = after)
    BY <1>1, Answered
  <2> QED BY <2>1, <2>2, <2>3 DEF Grows, Added, I!Attached, I!NoHost
<1>2. CASE I!HasNetwork /\ I!Request("network", "detect", cloud)
  <2>1. pass = "network" /\ pass' \in {"detect", "save"} /\ cloud' = cloud /\ setup' = setup
    BY <1>2, Answered
  <2>2. cloud.network.range = I!ParseCIDR(I!Config.network)
    <3>1. CASE cloud.network.range = I!NoRange
      <4>1. cloud.network = [range |-> I!NoRange, subnets |-> {}]
        BY <3>1 DEF CloudType
      <4> QED BY <1>2, <4>1 DEF I!HasNetwork, I!NoNetwork
    <3> QED BY <3>1 DEF CloudType
  <2> QED BY <2>1, <2>2 DEF Grows, Added, I!Attached
<1>3. CASE I!Proceed("network", "save")
  BY <1>3 DEF I!Proceed, Grows, Added, I!Attached
<1> QED BY <1>1, <1>2, <1>3 DEF I!EnsureNetwork

\* EnsureFirewall may take the rules of the firewall back, and nothing else.
LEMMA FirewallAdded ==
  ASSUME CloudType(cloud), I!EnsureFirewall
  PROVE  Grows /\ Added("firewall", "apply", TRUE) /\ setup' = setup
<1> DEFINE made(a) == [cloud EXCEPT !.firewall =
                           [made |-> TRUE, ports |-> I!Rules, applied |-> a]]
           kept  == IF cloud.firewall.made THEN cloud.firewall.applied ELSE TRUE
           after == made(kept)
<1>1. \A a : made(a).network = cloud.network /\ made(a).balancer = cloud.balancer
  BY DEF CloudType
<1>2. /\ pass = "firewall" /\ pass' \in {"apply", "save"} /\ setup' = setup
      /\ cloud' = cloud \/ \E a : cloud' = made(a)
  <2>1. CASE I!Request("firewall", "apply", after)
    BY <2>1 DEF I!Request
  <2>2. CASE /\ pass = "firewall" /\ cloud' = made(FALSE) /\ pass' = "save" /\ setup' = setup
    BY <2>2
  <2> QED BY <2>1, <2>2 DEF I!EnsureFirewall
<1> HIDE DEF made
<1>3. cloud'.network = cloud.network /\ cloud'.balancer = cloud.balancer BY <1>1, <1>2
<1> QED BY <1>2, <1>3 DEF Grows, Added, I!Attached

\* EnsureFirewallAppliedTo leaves a firewall that applies to the servers.
LEMMA AppliedAdded ==
  ASSUME CloudType(cloud), I!EnsureFirewallAppliedTo
  PROVE  Grows /\ Added("apply", "balancer", cloud'.firewall.applied) /\ setup' = setup
<1> DEFINE after == [cloud EXCEPT !.firewall.applied = TRUE]
<1>1. CASE I!Request("apply", "balancer", after)
  <2>1. /\ after.network = cloud.network /\ after.balancer = cloud.balancer
        /\ after.firewall.applied = TRUE
    BY DEF CloudType
  <2> HIDE DEF after
  <2>2. /\ pass = "apply" /\ pass' \in {"balancer", "save"} /\ cloud' \in {cloud, after}
        /\ setup' = setup /\ (pass' = "balancer" => cloud' = after)
    BY <1>1, Answered
  <2> QED BY <2>1, <2>2 DEF Grows, Added, I!Attached
<1>2. CASE cloud.firewall.applied /\ I!Proceed("apply", "balancer")
  BY <1>2 DEF I!Proceed, Grows, Added, I!Attached
<1> QED BY <1>1, <1>2 DEF I!EnsureFirewallAppliedTo

\* EnsureLoadBalancer leaves a balancer that is there its services and place.
LEMMA BalancerAdded ==
  ASSUME CloudType(cloud), I!EnsureLoadBalancer
  PROVE  Grows /\ Added("balancer", "6443", TRUE) /\ setup' = setup
<1> DEFINE after == [cloud EXCEPT !.balancer.made = TRUE]
<1>1. /\ after.network = cloud.network /\ after.firewall = cloud.firewall
      /\ after.balancer.services = cloud.balancer.services
      /\ after.balancer.host = cloud.balancer.host
  BY DEF CloudType
<1>2. I!Request("balancer", "6443", after) BY DEF I!EnsureLoadBalancer
<1> HIDE DEF after
<1>3. /\ pass = "balancer" /\ pass' \in {"6443", "save"} /\ cloud' \in {cloud, after}
      /\ setup' = setup
  BY <1>2, Answered
<1> QED BY <1>1, <1>3 DEF Grows, Added, I!Attached

\* ConfigureService leaves the balancer with the service.
LEMMA ServiceAdded ==
  ASSUME CloudType(cloud), NEW s \in I!Services, NEW at, at # "firewall", NEW next,
         next # "save", I!ConfigureService(s, at, next)
  PROVE  Grows /\ Added(at, next, s \in cloud'.balancer.services) /\ setup' = setup
<1> DEFINE after == [cloud EXCEPT !.balancer.services = @ \cup {s}]
<1>1. CASE I!Request(at, next, after)
  <2>1. /\ after.network = cloud.network /\ after.firewall = cloud.firewall
        /\ after.balancer.services = cloud.balancer.services \cup {s}
        /\ after.balancer.host = cloud.balancer.host
    BY DEF CloudType
  <2> HIDE DEF after
  <2>2. /\ pass = at /\ pass' \in {next, "save"} /\ cloud' \in {cloud, after}
        /\ setup' = setup /\ (pass' = next => cloud' = after)
    BY <1>1, Answered
  <2> QED BY <2>1, <2>2 DEF Grows, Added, I!Attached
<1>2. CASE s \in cloud.balancer.services /\ I!Proceed(at, next)
  BY <1>2 DEF I!Proceed, Grows, Added, I!Attached
<1> QED BY <1>1, <1>2 DEF I!ConfigureService

\* AttachToNetwork leaves the balancer in its subnet, which is there by then.
LEMMA PlaceAdded ==
  ASSUME InfraType, CloudType(cloud), Has("load-balancer"), I!AttachToNetwork
  PROVE  Grows /\ Added("attach", "target", I!Attached') /\ setup' = setup
<1> DEFINE after == [cloud EXCEPT !.balancer.host = I!BalancerHost]
<1>1. I!BalancerHost # I!NoHost
  <2>1. Subnet("load-balancer") # I!NoRange BY DEF CloudType, Has
  <2> QED BY <2>1, BalancerPlace DEF InfraType, I!NoHost
<1>2. CASE ~I!Attached /\ I!Request("attach", "target", after)
  <2>1. /\ after.network = cloud.network /\ after.firewall = cloud.firewall
        /\ after.balancer.services = cloud.balancer.services
        /\ after.balancer.host = I!BalancerHost
    BY DEF CloudType
  <2> HIDE DEF after
  <2>2. /\ pass = "attach" /\ pass' \in {"target", "save"} /\ cloud' \in {cloud, after}
        /\ setup' = setup /\ (pass' = "target" => cloud' = after)
    BY <1>2, Answered
  <2> QED BY <1>1, <1>2, <2>1, <2>2 DEF Grows, Added, I!Attached
<1>3. CASE I!Attached /\ I!Proceed("attach", "target")
  BY <1>3 DEF I!Proceed, Grows, Added, I!Attached
<1> QED BY <1>2, <1>3 DEF I!AttachToNetwork

\* AddTarget leaves the balancer with its targets.
LEMMA TargetAdded ==
  ASSUME CloudType(cloud), I!AddTarget
  PROVE  Grows /\ Added("target", "done", cloud'.balancer.targets) /\ setup' = setup
<1> DEFINE after == [cloud EXCEPT !.balancer.targets = TRUE]
<1>1. CASE I!Request("target", "done", after)
  <2>1. /\ after.network = cloud.network /\ after.firewall = cloud.firewall
        /\ after.balancer.services = cloud.balancer.services
        /\ after.balancer.host = cloud.balancer.host
        /\ after.balancer.targets = TRUE
    BY DEF CloudType
  <2> HIDE DEF after
  <2>2. /\ pass = "target" /\ pass' \in {"done", "save"} /\ cloud' \in {cloud, after}
        /\ setup' = setup /\ (pass' = "done" => cloud' = after)
    BY <1>1, Answered
  <2> QED BY <2>1, <2>2 DEF Grows, Added, I!Attached
<1>2. CASE cloud.balancer.targets /\ I!Proceed("target", "done")
  BY <1>2 DEF I!Proceed, Grows, Added, I!Attached
<1>3. CASE I!Proceed("target", "save")
  BY <1>3 DEF I!Proceed, Grows, Added, I!Attached
<1> QED BY <1>1, <1>2, <1>3 DEF I!AddTarget

-----------------------------------------------------------------------------

\* What the calls of a pass have made is there for the calls that follow.
LEMMA PassHoldsKept ==
  ASSUME InfraType, CloudType(cloud), PassHolds, Infra
  PROVE  PassHolds'
<1> USE DEF BeyondNetwork, BeyondCP, BeyondLB, BeyondWorker, BeyondApply, Beyond6443,
            Beyond50000, BeyondAttach
<1>1. /\ setup' = setup /\ I!Config' = I!Config
      /\ Has("control-plane")' = (Subnet("control-plane") \in cloud'.network.subnets)
      /\ Has("load-balancer")' = (Subnet("load-balancer") \in cloud'.network.subnets)
      /\ Has("worker")' = (Subnet("worker") \in cloud'.network.subnets)
  BY SetupStays, ConfigStays DEF Has
<1>2. I!ParseCIDR(I!Config.network) # I!NoRange BY RangesAreReal DEF InfraType
<1>3. ASSUME pass' = "save" PROVE PassHolds' BY <1>3, NothingBehind
<1>4. CASE I!EnsureNetwork
  <2>1. /\ Grows
        /\ Added("network", "detect", cloud'.network.range = I!ParseCIDR(I!Config.network))
    BY <1>4, NetworkAdded
  <2> QED BY <1>1, <1>2, <1>3, <2>1 DEF PassHolds, Grows, Added, Has
<1>5. CASE I!EnsureSubnet("control-plane", "load-balancer")
  <2>1. /\ Grows
        /\ Added("control-plane", "load-balancer",
                 Subnet("control-plane") \in cloud'.network.subnets)
    BY <1>5, SubnetAdded DEF I!Roles
  <2> QED BY <1>1, <1>2, <1>3, <2>1 DEF PassHolds, Grows, Added, Has
<1>6. CASE I!EnsureSubnet("load-balancer", "worker")
  <2>1. /\ Grows
        /\ Added("load-balancer", "worker", Subnet("load-balancer") \in cloud'.network.subnets)
    BY <1>6, SubnetAdded DEF I!Roles
  <2> QED BY <1>1, <1>2, <1>3, <2>1 DEF PassHolds, Grows, Added, Has
<1>7. CASE I!EnsureSubnet("worker", "firewall")
  <2>1. Grows /\ Added("worker", "firewall", Subnet("worker") \in cloud'.network.subnets)
    BY <1>7, SubnetAdded DEF I!Roles
  <2> QED BY <1>1, <1>2, <1>3, <2>1 DEF PassHolds, Grows, Added, Has
<1>8. CASE I!EnsureFirewall
  <2>1. Grows /\ Added("firewall", "apply", TRUE)
    BY <1>8, FirewallAdded
  <2> QED BY <1>1, <1>2, <1>3, <2>1 DEF PassHolds, Grows, Added, Has
<1>9. CASE I!EnsureFirewallAppliedTo
  <2>1. Grows /\ Added("apply", "balancer", cloud'.firewall.applied)
    BY <1>9, AppliedAdded
  <2> QED BY <1>1, <1>2, <1>3, <2>1 DEF PassHolds, Grows, Added, Has
<1>10. CASE I!EnsureLoadBalancer
  <2>1. Grows /\ Added("balancer", "6443", TRUE)
    BY <1>10, BalancerAdded
  <2> QED BY <1>1, <1>2, <1>3, <2>1 DEF PassHolds, Grows, Added, Has
<1>11. CASE I!ConfigureService(6443, "6443", "50000")
  <2>1. Grows /\ Added("6443", "50000", 6443 \in cloud'.balancer.services)
    BY <1>11, ServiceAdded DEF I!Services
  <2> QED BY <1>1, <1>2, <1>3, <2>1 DEF PassHolds, Grows, Added, Has
<1>12. CASE I!ConfigureService(50000, "50000", "attach")
  <2>1. Grows /\ Added("50000", "attach", 50000 \in cloud'.balancer.services)
    BY <1>12, ServiceAdded DEF I!Services
  <2> QED BY <1>1, <1>2, <1>3, <2>1 DEF PassHolds, Grows, Added, Has
<1>13. CASE I!AttachToNetwork
  <2>1. pass = "attach" BY <1>13 DEF I!AttachToNetwork, I!Proceed, I!Request
  <2>2. Has("load-balancer") BY <2>1 DEF PassHolds
  <2>3. Grows /\ Added("attach", "target", I!Attached')
    BY <1>13, <2>2, PlaceAdded
  <2> QED BY <1>1, <1>2, <1>3, <2>3 DEF PassHolds, Grows, Added, Has
<1>14. CASE I!AddTarget
  BY <1>14, TargetAdded, NothingBehind DEF Added
<1>15. CASE I!EnterPhase \/ I!Discover \/ I!SaveStatus \/ I!Crash
  <2>1. pass' \in {"done", "discover", "network", "save", "idle"}
    BY <1>15 DEF I!EnterPhase, I!Proceed, I!Discover, I!SaveStatus, I!Crash
  <2> QED BY <2>1, NothingBehind
<1>16. CASE I!Lose
  <2>1. pass' = "idle" BY <1>16 DEF I!Lose
  <2> QED BY <2>1, NothingBehind
<1>17. CASE I!DetectAddress
  <2>1. pass = "detect" /\ pass' = "control-plane" /\ cloud' = cloud
    BY <1>17 DEF I!DetectAddress
  <2> QED BY <1>1, <2>1 DEF PassHolds
<1> QED
  BY <1>4, <1>5, <1>6, <1>7, <1>8, <1>9, <1>10, <1>11, <1>12, <1>13, <1>14, <1>15,
       <1>16, <1>17 DEF Infra, I!Pass

\* The network's subnets stay, as long as nobody deletes it.
LEMMA SubnetsStay ==
  ASSUME InfraType, CloudType(cloud), PassHolds, I!Pass \/ I!Crash
  PROVE  Has("control-plane") => Has("control-plane")'
<1>1. Subnet("control-plane")' = Subnet("control-plane")
  BY SetupStays, ConfigStays DEF Infra
<1> SUFFICES cloud.network.subnets \subseteq cloud'.network.subnets
  BY <1>1 DEF Has
<1>2. CASE I!EnterPhase \/ I!Discover \/ I!DetectAddress \/ I!SaveStatus \/ I!Crash
  <2>1. cloud' = cloud
    BY <1>2 DEF I!EnterPhase, I!Proceed, I!Discover, I!DetectAddress, I!SaveStatus, I!Crash
  <2> QED BY <2>1
<1>3. CASE I!EnsureSubnet("control-plane", "load-balancer")
           \/ I!EnsureSubnet("load-balancer", "worker") \/ I!EnsureSubnet("worker", "firewall")
  BY <1>3, SubnetAdded DEF I!Roles, Grows
<1>4. CASE I!ConfigureService(6443, "6443", "50000")
           \/ I!ConfigureService(50000, "50000", "attach")
  <2>1. 6443 \in I!Services /\ 50000 \in I!Services BY DEF I!Services
  <2>2. Grows
    <3>1. CASE I!ConfigureService(6443, "6443", "50000") BY <2>1, <3>1, ServiceAdded
    <3>2. CASE I!ConfigureService(50000, "50000", "attach") BY <2>1, <3>2, ServiceAdded
    <3> QED BY <1>4, <3>1, <3>2
  <2> QED BY <2>2 DEF Grows
<1>5. CASE I!AttachToNetwork
  <2>1. pass = "attach" BY <1>5 DEF I!AttachToNetwork, I!Proceed, I!Request
  <2>2. Has("load-balancer")
    BY <2>1 DEF PassHolds, BeyondNetwork, BeyondCP, BeyondLB, BeyondWorker, BeyondApply,
         Beyond6443, Beyond50000, BeyondAttach
  <2> QED BY <1>5, <2>2, PlaceAdded DEF Grows
<1>6. CASE I!EnsureNetwork \/ I!EnsureFirewall \/ I!EnsureFirewallAppliedTo
           \/ I!EnsureLoadBalancer \/ I!AddTarget
  BY <1>6, NetworkAdded, FirewallAdded, AppliedAdded, BalancerAdded, TargetAdded DEF Grows
<1> QED BY <1>2, <1>3, <1>4, <1>5, <1>6 DEF I!Pass

-----------------------------------------------------------------------------

\* A phase that is over makes no pass.
LEMMA PastIsOver ==
  ASSUME past, pass = "idle"
  PROVE  ~Infra
<1>1. \A at, next, after : at # "idle" => ~I!Request(at, next, after) BY DEF I!Request
<1>2. \A at, next : at # "idle" => ~I!Proceed(at, next) BY DEF I!Proceed
<1>3. ~(I!EnsureNetwork \/ I!EnsureFirewallAppliedTo \/ I!EnsureLoadBalancer
          \/ I!AttachToNetwork \/ I!AddTarget)
  BY <1>1, <1>2 DEF I!EnsureNetwork, I!EnsureFirewallAppliedTo,
       I!EnsureLoadBalancer, I!AttachToNetwork, I!AddTarget
<1>4. \A role, next : role # "idle" => ~I!EnsureSubnet(role, next)
  BY <1>1, <1>2 DEF I!EnsureSubnet
<1>5. \A s, at, next : at # "idle" => ~I!ConfigureService(s, at, next)
  BY <1>1, <1>2 DEF I!ConfigureService
<1>6. ~I!EnsureFirewall
  <2>1. "firewall" # "idle" OBVIOUS
  <2>2. pass # "firewall" OBVIOUS
  <2> QED BY <1>1, <2>1, <2>2 DEF I!EnsureFirewall
<1>7. ~(I!EnterPhase \/ I!Discover \/ I!DetectAddress \/ I!SaveStatus \/ I!Crash \/ I!Lose)
  BY DEF I!EnterPhase, I!Discover, I!DetectAddress, I!SaveStatus, I!Crash, I!Lose
<1> QED BY <1>3, <1>4, <1>5, <1>6, <1>7 DEF Infra, I!Pass

\* Where the ranges can be had, no pass gives up for a reason of its own.
LEMMA NoRefusal ==
  ASSUME InfraType, CloudType(cloud), PassHolds, I!Feasible
  PROVE  /\ pass = "network" => ~(I!HasNetwork /\ cloud.network.range # I!Config.network)
         /\ \A role \in I!Roles : pass = role => I!Accepted(Subnet(role)) \/ Has(role)
         /\ pass = "target" => I!Attached
<1>1. I!ParseCIDR(I!Config.network) = I!Config.network BY DEF I!Feasible
<1>2. ASSUME I!HasNetwork PROVE cloud.network.range = I!Config.network
  <2>1. CASE cloud.network.range = I!NoRange
    <3>1. cloud.network = [range |-> I!NoRange, subnets |-> {}] BY <2>1 DEF CloudType
    <3> QED BY <1>2, <3>1 DEF I!HasNetwork, I!NoNetwork
  <2> QED BY <1>1, <2>1 DEF CloudType
<1>3. ASSUME NEW role \in I!Roles, pass = role, ~Has(role) PROVE I!Accepted(Subnet(role))
  <2>1. role \in BeyondNetwork BY DEF I!Roles, BeyondNetwork, BeyondCP, BeyondLB
  <2>2. cloud.network.range = I!Config.network BY <1>1, <1>3, <2>1 DEF PassHolds
  <2>3. I!Within(cloud.network.range, Subnet(role)) BY <2>2, SubnetsFit DEF InfraType
  <2>4. ASSUME NEW s \in cloud.network.subnets PROVE I!Apart(s, Subnet(role))
    <3>1. PICK r \in I!Roles : s = Subnet(r) BY DEF CloudType
    <3>2. r # role BY <1>3, <3>1 DEF Has
    <3> QED BY <3>1, <3>2, SubnetsFit DEF InfraType
  <2> QED BY <2>3, <2>4 DEF I!Accepted, I!Feasible
<1>4. pass = "target" => I!Attached BY DEF PassHolds, BeyondAttach
<1> QED BY <1>2, <1>3, <1>4

\* In the middle of a pass FirstFault is lost neither by a step that goes well
\* nor by one that fails.
LEMMA FaultStep ==
  ASSUME InfraType, FirstFault, UNCHANGED <<setup, ids, past, known>>,
         pass' \notin {"idle", "discover"},
         \/ faults' = faults /\ (I!Feasible => pass' # "save")
         \/ I!Fault
  PROVE  FirstFault'
<1>1. I!Feasible' = I!Feasible /\ I!Operator' = I!Operator BY ConfigStays
<1>2. faults \in Nat BY FaultsAssumption DEF InfraType
<1> SUFFICES ASSUME I!Feasible, I!Operator, faults' <= 1, ~past PROVE
      /\ ids = {}
      /\ known # {} => faults' = 1 /\ pass' # "save"
      /\ faults' = 0 => pass' # "save"
  BY <1>1 DEF FirstFault
<1>3. CASE faults' = faults /\ pass' # "save" BY <1>2, <1>3 DEF FirstFault
<1>4. CASE I!Fault
  <2>1. faults' = faults + 1 BY <1>4 DEF I!Fault
  <2>2. faults = 0 /\ faults' = 1 BY <1>2, <2>1
  <2> QED BY <1>2, <2>2 DEF FirstFault
<1> QED BY <1>3, <1>4

\* So with a request ...
LEMMA RequestFault ==
  ASSUME InfraType, FirstFault, NEW at, NEW next, next \notin {"idle", "discover", "save"},
         NEW after, I!Request(at, next, after)
  PROVE  FirstFault'
<1>1. UNCHANGED <<setup, ids, past, known>> BY DEF I!Request
<1>2. pass' \notin {"idle", "discover"} BY DEF I!Request
<1>3. (faults' = faults /\ pass' # "save") \/ I!Fault BY DEF I!Request
<1> QED BY <1>1, <1>2, <1>3, FaultStep

\* ... and with a call that asks for nothing.
LEMMA ProceedFault ==
  ASSUME InfraType, FirstFault, NEW at, NEW next, next \notin {"idle", "discover"},
         I!Feasible => next # "save", I!Proceed(at, next)
  PROVE  FirstFault'
<1>1. UNCHANGED <<setup, ids, past, known>> BY DEF I!Proceed
<1>2. pass' \notin {"idle", "discover"} BY DEF I!Proceed
<1>3. faults' = faults /\ (I!Feasible => pass' # "save") BY DEF I!Proceed
<1> QED BY <1>1, <1>2, <1>3, FaultStep

\* Every step of the first phase keeps FirstFault: an ID gets into status while
\* something is missing only by a second fault, or by a deletion.
LEMMA FirstFaultKept ==
  ASSUME InfraType, CloudType(cloud), PassHolds, DoneHolds, FirstFault, Infra
  PROVE  FirstFault'
<1>1. setup' = setup /\ I!Feasible' = I!Feasible /\ I!Operator' = I!Operator
  BY SetupStays, ConfigStays
<1>2. faults \in Nat BY FaultsAssumption DEF InfraType
<1> SUFFICES ASSUME I!Operator PROVE FirstFault' BY <1>1 DEF FirstFault
<1>3. CASE I!EnterPhase
  <2>1. /\ pass = "idle" /\ UNCHANGED <<cloud, ids, past, known, faults>>
        /\ pass' = "done" => ids = I!IDs
        /\ pass' \in {"done", "discover"}
    BY <1>3 DEF I!EnterPhase, I!Proceed
  <2>2. I!Found' = I!Found BY <2>1 DEF I!Found, I!HasNetwork
  <2> HIDE DEF I!Found
  <2> QED BY <1>1, <2>1, <2>2 DEF FirstFault
<1>4. CASE I!Discover
  <2>1. /\ pass = "discover" /\ ids' = ids /\ past' = past /\ pass' \in {"network", "save"}
        /\ known' \subseteq ids \cup I!Found
    <3>1. pass = "discover" /\ ids' = ids /\ past' = past BY <1>4 DEF I!Discover
    <3>2. pass' \in {"network", "save"} /\ known' \subseteq ids \cup I!Found
      BY <1>4 DEF I!Discover
    <3> QED BY <3>1, <3>2
  <2>2. faults' = faults + 1 \/ (faults' = faults /\ (I!Feasible => pass' = "network"))
    <3>1. I!Feasible => \A seen : I!Endpoint(seen) BY DEF I!Feasible, I!Endpoint
    <3>2. ASSUME NEW failing \in SUBSET I!IDs, failing = {}, faults' = faults,
                 \/ "network" \notin failing /\ pass' = "network"
                 \/ \E seen : ~(I!Endpoint(seen) /\ "network" \notin failing)
          PROVE  I!Feasible => pass' = "network"
      BY <3>1, <3>2
    <3> QED BY <1>4, <3>1, <3>2 DEF I!Discover, I!Fault
  <2> SUFFICES ASSUME I!Feasible, faults' <= 1, ~past
               PROVE  /\ ids = {}
                      /\ known' # {} => faults' = 1 /\ pass' # "save"
                      /\ faults' = 0 => pass' # "save"
    BY <1>1, <2>1 DEF FirstFault
  <2>3. faults <= 1 BY <1>2, <2>2
  <2>4. ids = {} /\ (faults = 0 => I!Found = {}) BY <2>1, <2>3 DEF FirstFault
  <2> HIDE DEF I!Found, I!Feasible
  <2>5. CASE faults' = faults /\ pass' = "network"
    <3>1. known' # {} => faults # 0 BY <2>1, <2>4
    <3> QED BY <1>2, <2>3, <2>4, <2>5, <3>1
  <2>6. CASE faults' = faults + 1
    <3>1. faults = 0 BY <1>2, <2>6
    <3>2. known' = {} BY <2>1, <2>4, <3>1
    <3> QED BY <2>4, <2>6, <3>1, <3>2
  <2> QED BY <2>2, <2>5, <2>6
<1>5. CASE I!EnsureNetwork
  <2> DEFINE made  == [range |-> I!ParseCIDR(I!Config.network), subnets |-> {}]
             after == [cloud EXCEPT !.network = made]
  <2>1. \/ I!Request("network", "detect", after) \/ I!Request("network", "detect", cloud)
        \/ /\ I!Proceed("network", "save")
           /\ I!HasNetwork /\ cloud.network.range # I!Config.network
    BY <1>5 DEF I!EnsureNetwork
  <2> HIDE DEF after
  <2>2. I!Proceed("network", "save") => pass = "network" BY DEF I!Proceed
  <2>3. CASE I!Proceed("network", "save") /\ ~I!Feasible BY <2>3, ProceedFault
  <2> QED BY <2>1, <2>2, <2>3, NoRefusal, RequestFault
<1>6. CASE I!DetectAddress
  <2>1. /\ UNCHANGED <<setup, ids, past, known>> /\ pass' = "control-plane"
        /\ faults' = faults \/ I!Fault
    BY <1>6 DEF I!DetectAddress
  <2> QED BY <2>1, FaultStep
<1>7. ASSUME NEW role \in I!Roles, NEW next, next \notin {"idle", "discover", "save"},
             I!EnsureSubnet(role, next)
      PROVE  FirstFault'
  <2> DEFINE after == [cloud EXCEPT !.network.subnets = @ \cup {Subnet(role)}]
  <2>1. \/ I!Proceed(role, next) \/ I!Request(role, next, after)
        \/ ~I!Accepted(Subnet(role)) /\ ~Has(role) /\ I!Proceed(role, "save")
    BY <1>7 DEF I!EnsureSubnet, Subnet, Has
  <2> HIDE DEF after
  <2>2. I!Proceed(role, "save") => pass = role BY DEF I!Proceed
  <2>3. CASE I!Proceed(role, "save") /\ ~I!Feasible BY <2>3, ProceedFault
  <2>4. CASE I!Proceed(role, next) BY <1>7, <2>4, ProceedFault
  <2>5. CASE I!Request(role, next, after) BY <1>7, <2>5, RequestFault
  <2> QED BY <2>1, <2>2, <2>3, <2>4, <2>5, NoRefusal
<1>8. CASE I!EnsureFirewall
  <2>1. (\E after : I!Request("firewall", "apply", after))
        \/ (I!Fault /\ pass' = "save" /\ UNCHANGED <<setup, ids, past, known>>)
    BY <1>8 DEF I!EnsureFirewall
  <2> QED BY <2>1, RequestFault, FaultStep
<1>9. CASE I!EnsureFirewallAppliedTo
  <2>1. (\E after : I!Request("apply", "balancer", after)) \/ I!Proceed("apply", "balancer")
    BY <1>9 DEF I!EnsureFirewallAppliedTo
  <2> QED BY <2>1, RequestFault, ProceedFault
<1>10. CASE I!EnsureLoadBalancer
  <2>1. \E after : I!Request("balancer", "6443", after) BY <1>10 DEF I!EnsureLoadBalancer
  <2> QED BY <2>1, RequestFault
<1>11. ASSUME NEW s, NEW at, NEW next, next \notin {"idle", "discover", "save"},
              I!ConfigureService(s, at, next)
       PROVE  FirstFault'
  <2>1. (\E after : I!Request(at, next, after)) \/ I!Proceed(at, next)
    BY <1>11 DEF I!ConfigureService
  <2> QED BY <1>11, <2>1, RequestFault, ProceedFault
<1>12. CASE I!AttachToNetwork
  <2>1. (\E after : I!Request("attach", "target", after)) \/ I!Proceed("attach", "target")
    BY <1>12 DEF I!AttachToNetwork
  <2> QED BY <2>1, RequestFault, ProceedFault
<1>13. CASE I!AddTarget
  <2>1. \/ \E after : I!Request("target", "done", after)
        \/ I!Proceed("target", "done")
        \/ ~I!Attached /\ I!Proceed("target", "save")
    BY <1>13 DEF I!AddTarget
  <2>2. I!Proceed("target", "save") => pass = "target" BY DEF I!Proceed
  <2>3. CASE I!Proceed("target", "save") /\ ~I!Feasible BY <2>3, ProceedFault
  <2> QED BY <2>1, <2>2, <2>3, NoRefusal, RequestFault, ProceedFault
<1>14. CASE I!SaveStatus
  <2>1. /\ pass \in {"done", "save"} /\ pass' = "idle" /\ known' = {}
        /\ \/ /\ pass = "save" => ids' = known
              /\ past' = (pass = "done") /\ faults' = faults
           \/ ids' = ids /\ past' = past /\ faults' = faults + 1
    BY <1>14 DEF I!SaveStatus, I!Fault
  <2>2. CASE ids' = ids /\ past' = past /\ faults' = faults + 1
    BY <1>1, <1>2, <2>1, <2>2 DEF FirstFault
  <2>3. CASE pass = "save" /\ ids' = known /\ faults' = faults
    <3>1. ~past BY <2>1 DEF DoneHolds
    <3> QED BY <1>1, <1>2, <2>1, <2>3, <3>1 DEF FirstFault
  <2>4. CASE pass = "done" /\ past' BY <2>4 DEF FirstFault
  <2> QED BY <2>1, <2>2, <2>3, <2>4
<1>15. CASE I!Crash
  <2>1. pass' = "idle" /\ known' = {} /\ faults' = faults + 1 /\ ids' = ids /\ past' = past
    BY <1>15 DEF I!Crash, I!Fault
  <2> QED BY <1>1, <1>2, <2>1 DEF FirstFault
<1>16. CASE I!Lose
  <2>1. /\ pass' = "idle" /\ pass = "idle" /\ known' = known /\ faults' = faults + 1
        /\ ids' = ids /\ past' = past
    BY <1>16 DEF I!Lose, I!Fault
  <2> QED BY <1>1, <1>2, <2>1 DEF FirstFault
<1> QED
  <2>1. {"control-plane", "load-balancer", "worker"} \subseteq I!Roles BY DEF I!Roles
  <2>2. Infra => I!EnterPhase \/ I!Discover \/ I!EnsureNetwork \/ I!DetectAddress
                 \/ I!EnsureSubnet("control-plane", "load-balancer")
                 \/ I!EnsureSubnet("load-balancer", "worker")
                 \/ I!EnsureSubnet("worker", "firewall")
                 \/ I!EnsureFirewall \/ I!EnsureFirewallAppliedTo \/ I!EnsureLoadBalancer
                 \/ I!ConfigureService(6443, "6443", "50000")
                 \/ I!ConfigureService(50000, "50000", "attach")
                 \/ I!AttachToNetwork \/ I!AddTarget \/ I!SaveStatus \/ I!Crash \/ I!Lose
    BY DEF Infra, I!Pass
  <2> QED BY <1>3, <1>4, <1>5, <1>6, <1>7, <1>8, <1>9, <1>10, <1>11, <1>12, <1>13, <1>14,
             <1>15, <1>16, <2>1, <2>2

\* A pass is done by its last call, or by the three IDs in status.
LEMMA OnlyTheEndIsDone ==
  ASSUME Infra
  PROVE  pass' = "done" => I!EnterPhase \/ I!AddTarget
<1>1. \A at, next, after : next # "done" /\ I!Request(at, next, after) => pass' # "done"
  BY DEF I!Request
<1>2. \A at, next : next # "done" /\ I!Proceed(at, next) => pass' # "done" BY DEF I!Proceed
<1>3. I!EnsureNetwork \/ I!EnsureFirewallAppliedTo \/ I!EnsureLoadBalancer
        \/ I!AttachToNetwork => pass' # "done"
  BY <1>1, <1>2 DEF I!EnsureNetwork, I!EnsureFirewallAppliedTo, I!EnsureLoadBalancer,
       I!AttachToNetwork
<1>4. \A role, next : next # "done" /\ I!EnsureSubnet(role, next) => pass' # "done"
  BY <1>1, <1>2 DEF I!EnsureSubnet
<1>5. \A s, at, next : next # "done" /\ I!ConfigureService(s, at, next) => pass' # "done"
  BY <1>1, <1>2 DEF I!ConfigureService
<1>6. I!EnsureFirewall => pass' # "done"
  <2>1. (\E after : I!Request("firewall", "apply", after)) \/ pass' = "save"
          \/ ~I!EnsureFirewall
    BY DEF I!EnsureFirewall
  <2> QED BY <1>1, <2>1
<1>7. I!Discover \/ I!DetectAddress \/ I!SaveStatus \/ I!Crash \/ I!Lose => pass' # "done"
  BY DEF I!Discover, I!DetectAddress, I!SaveStatus, I!Crash, I!Lose
<1> QED BY <1>3, <1>4, <1>5, <1>6, <1>7 DEF Infra, I!Pass

\* The IDs are written only by SaveStatus, as is the end of the phase.
LEMMA StatusStays ==
  ASSUME Infra, ~I!SaveStatus
  PROVE  ids' = ids /\ past' = past
<1>1. \A at, next, after : I!Request(at, next, after) => ids' = ids /\ past' = past
  BY DEF I!Request
<1>2. \A at, next : I!Proceed(at, next) => ids' = ids /\ past' = past BY DEF I!Proceed
<1>3. I!EnterPhase \/ I!EnsureNetwork \/ I!EnsureFirewallAppliedTo \/ I!EnsureLoadBalancer
        \/ I!AttachToNetwork \/ I!AddTarget => ids' = ids /\ past' = past
  BY <1>1, <1>2 DEF I!EnterPhase, I!EnsureNetwork, I!EnsureFirewallAppliedTo,
       I!EnsureLoadBalancer, I!AttachToNetwork, I!AddTarget
<1>4. \A role, next : I!EnsureSubnet(role, next) => ids' = ids /\ past' = past
  BY <1>1, <1>2 DEF I!EnsureSubnet
<1>5. \A s, at, next : I!ConfigureService(s, at, next) => ids' = ids /\ past' = past
  BY <1>1, <1>2 DEF I!ConfigureService
<1>6. I!EnsureFirewall => ids' = ids /\ past' = past BY <1>1 DEF I!EnsureFirewall
<1>7. I!Discover \/ I!DetectAddress \/ I!Crash \/ I!Lose => ids' = ids /\ past' = past
  BY DEF I!Discover, I!DetectAddress, I!Crash, I!Lose
<1> QED BY <1>3, <1>4, <1>5, <1>6, <1>7 DEF Infra, I!Pass

\* What is whole stays so as long as nobody changes it.
LEMMA WholeStays ==
  ASSUME UNCHANGED <<setup, cloud>>
  PROVE  I!Whole' = I!Whole
<1>1. I!Config' = I!Config BY ConfigStays
<1> QED BY <1>1 DEF I!Whole, I!Attached

\* The last call of a pass finds everything made.
LEMMA DoneHoldsKept ==
  ASSUME InfraType, CloudType(cloud), PassHolds, DoneHolds, Infra
  PROVE  DoneHolds'
<1>1. past' => pass' = "idle"
  <2>1. ~past BY PastIsOver DEF DoneHolds
  <2>2. CASE I!SaveStatus BY <2>2 DEF I!SaveStatus
  <2> QED BY <2>1, <2>2, StatusStays
<1>2. ASSUME pass' = "done" PROVE ids' = I!IDs \/ I!Whole'
  <2>1. ids' = ids
    <3>1. ~I!SaveStatus BY <1>2 DEF I!SaveStatus
    <3> QED BY <3>1, StatusStays
  <2>2. CASE I!EnterPhase
    <3>1. ids = I!IDs BY <1>2, <2>2 DEF I!EnterPhase, I!Proceed
    <3> QED BY <2>1, <3>1
  <2>3. CASE I!AddTarget
    <3>1. Grows /\ pass = "target" /\ cloud'.balancer.targets /\ setup' = setup
      BY <1>2, <2>3, TargetAdded DEF Added
    <3>2. /\ Has("control-plane") /\ Has("load-balancer") /\ Has("worker")
          /\ cloud.firewall.applied /\ I!Attached
          /\ 6443 \in cloud.balancer.services /\ 50000 \in cloud.balancer.services
      BY <3>1 DEF PassHolds, BeyondNetwork, BeyondCP, BeyondLB, BeyondWorker, BeyondApply,
                  Beyond6443, Beyond50000, BeyondAttach
    <3>3. CloudType(cloud)' BY InfraTypesKept
    <3>4. I!Config' = I!Config BY <3>1, ConfigStays
    <3>5. cloud'.network.subnets = {I!SubnetForRole(I!Config, r) : r \in I!Roles}
      BY <3>1, <3>2, <3>3, <3>4 DEF CloudType, Grows, Has, Subnet, I!Roles
    <3>6. cloud'.balancer.services = I!Services
      BY <3>1, <3>2, <3>3 DEF CloudType, Grows, I!Services
    <3>7. cloud'.firewall.applied /\ I!Attached' BY <3>1, <3>2 DEF Grows
    <3> QED BY <3>1, <3>4, <3>5, <3>6, <3>7 DEF I!Whole
  <2> QED BY <1>2, <2>2, <2>3, OnlyTheEndIsDone
<1> QED BY <1>1, <1>2 DEF DoneHolds

\* A phase that ends has made everything, an apply's whatever has failed, the
\* operator's after at most one fault; and what it has made stays.
LEMMA MendedKept ==
  ASSUME InfraType, PassHolds, DoneHolds, FirstFault, ApplyHolds, Infra
  PROVE  OneFaultIsMended'
<1>1. ~past BY PastIsOver DEF DoneHolds
<1> SUFFICES ASSUME I!Feasible', past', I!Operator' => faults' <= 1 PROVE I!Whole'
  BY DEF OneFaultIsMended, I!OneFaultIsMended
<1>2. I!SaveStatus BY <1>1, StatusStays
<1>3. /\ pass = "done" /\ faults' = faults /\ UNCHANGED <<setup, cloud>>
  BY <1>1, <1>2 DEF I!SaveStatus
<1>4. I!Feasible' = I!Feasible /\ I!Operator' = I!Operator /\ I!Whole' = I!Whole
  BY <1>3, ConfigStays, WholeStays
<1>5. ids = {} BY <1>1, <1>3, <1>4 DEF FirstFault, ApplyHolds
<1>6. ids # I!IDs BY <1>5 DEF I!IDs
<1> QED BY <1>3, <1>4, <1>6 DEF DoneHolds

\* The first phase begins no cleanup, and an apply's passes read and write no IDs.
LEMMA ApplyHoldsKept ==
  ASSUME ApplyHolds, Infra
  PROVE  ApplyHolds'
<1>1. I!Operator' = I!Operator BY SetupStays, ConfigStays
<1>2. CASE I!EnterPhase
  <2>1. /\ pass' \in {"network", "done", "discover"} /\ known' = known /\ ids' = ids
        /\ pass' = "discover" => I!Operator
    BY <1>2 DEF I!EnterPhase, I!Proceed
  <2> QED BY <1>1, <2>1 DEF ApplyHolds
<1>3. CASE I!Discover
  <2>1. pass = "discover" /\ pass' # "cleanup" BY <1>3 DEF I!Discover
  <2>2. I!Operator BY <2>1 DEF ApplyHolds
  <2> QED BY <1>1, <2>1, <2>2 DEF ApplyHolds
<1>4. CASE I!SaveStatus
  <2>1. /\ pass' = "idle" /\ known' = {}
        /\ ~I!Operator => ids' = known
    BY <1>4 DEF I!SaveStatus
  <2> QED BY <1>1, <2>1 DEF ApplyHolds
<1>5. ASSUME ~I!EnterPhase, ~I!Discover, ~I!SaveStatus
      PROVE  pass' \notin {"cleanup", "discover"} /\ known' \in {known, {}}
  <2> DEFINE Goal == pass' \notin {"cleanup", "discover"} /\ known' \in {known, {}}
  <2>1. \A at, next, after : next \notin {"cleanup", "discover"} /\ I!Request(at, next, after)
          => Goal
    BY DEF I!Request
  <2>2. \A at, next : next \notin {"cleanup", "discover"} /\ I!Proceed(at, next) => Goal
    BY DEF I!Proceed
  <2> HIDE DEF Goal
  <2>3. I!EnsureNetwork \/ I!EnsureFirewallAppliedTo \/ I!EnsureLoadBalancer
          \/ I!AttachToNetwork \/ I!AddTarget => Goal
    BY <2>1, <2>2 DEF I!EnsureNetwork, I!EnsureFirewallAppliedTo,
         I!EnsureLoadBalancer, I!AttachToNetwork, I!AddTarget
  <2>4. \A role, next : next \notin {"cleanup", "discover"} /\ I!EnsureSubnet(role, next)
          => Goal
    BY <2>1, <2>2 DEF I!EnsureSubnet
  <2>5. \A t, at, next : next \notin {"cleanup", "discover"}
          /\ I!ConfigureService(t, at, next) => Goal
    BY <2>1, <2>2 DEF I!ConfigureService
  <2>6. I!EnsureFirewall => Goal
    <3>1. (\E after : I!Request("firewall", "apply", after))
            \/ (pass' = "save" /\ known' = known) \/ ~I!EnsureFirewall
      BY DEF I!EnsureFirewall
    <3> QED BY <2>1, <3>1 DEF Goal
  <2>7. I!DetectAddress \/ I!Crash \/ I!Lose => Goal
    BY DEF I!DetectAddress, I!Crash, I!Lose, Goal
  <2>8. Goal BY <1>5, <2>3, <2>4, <2>5, <2>6, <2>7 DEF Infra, I!Pass
  <2> QED BY <2>8 DEF Goal
<1>6. ASSUME ~I!SaveStatus PROVE ids' = ids BY <1>6, StatusStays
<1> QED BY <1>1, <1>2, <1>3, <1>4, <1>5, <1>6 DEF ApplyHolds

-----------------------------------------------------------------------------

\* A set with at least n elements lends n different ones.
LEMMA Draws ==
  ASSUME NEW S, IsFiniteSet(S), NEW n \in Nat, n <= Cardinality(S)
  PROVE  \E f \in [1..n -> S] : IsInjective(f)
<1>1. PICK b \in Bijection(1..Cardinality(S), S) : TRUE
  BY FS_CardinalityType DEF ExistsBijection
<1>2. b \in [1..Cardinality(S) -> S] /\ IsInjective(b)
  BY <1>1 DEF Bijection, Injection
<1>3. Cardinality(S) \in Nat BY FS_CardinalityType
<1> DEFINE f == [k \in 1..n |-> b[k]]
<1>4. \A k \in 1..n : k \in 1..Cardinality(S) BY <1>3
<1>5. f \in [1..n -> S] BY <1>2, <1>4
<1>6. IsInjective(f) BY <1>2, <1>4 DEF IsInjective
<1> QED BY <1>5, <1>6

\* A list without repetitions is as long as the set of its elements is large.
LEMMA LengthIsCardinality ==
  ASSUME NEW S, NEW s \in Seq(S), IsInjective(s)
  PROVE  IsFiniteSet(ToSet(s)) /\ Cardinality(ToSet(s)) = Len(s)
<1>1. Len(s) \in Nat /\ DOMAIN s = 1..Len(s) OBVIOUS
<1>2. s \in Bijection(1..Len(s), ToSet(s))
  <2>1. s \in [1..Len(s) -> ToSet(s)] BY <1>1 DEF ToSet
  <2>2. \A t \in ToSet(s) : \E i \in 1..Len(s) : s[i] = t BY <1>1 DEF ToSet
  <2> QED BY <2>1, <2>2 DEF Bijection, Injection, Surjection
<1>3. IsFiniteSet(1..Len(s)) /\ Cardinality(1..Len(s)) = Len(s)
  BY <1>1, FS_Interval
<1>4. ExistsBijection(1..Len(s), ToSet(s)) BY <1>2 DEF ExistsBijection
<1> QED BY <1>3, <1>4, FS_Bijection

\* A server that is not listed comes last.
LEMMA AppendNew ==
  ASSUME NEW S, NEW s \in Seq(S), IsInjective(s), NEW e \in S, e \notin ToSet(s)
  PROVE  /\ Append(s, e) \in Seq(S) /\ Len(Append(s, e)) = Len(s) + 1
         /\ IsInjective(Append(s, e))
         /\ ToSet(Append(s, e)) = ToSet(s) \cup {e}
<1> DEFINE t == Append(s, e)
<1>1. /\ t \in Seq(S) /\ Len(t) = Len(s) + 1
      /\ \A i \in 1..Len(s) : t[i] = s[i]
      /\ t[Len(s) + 1] = e
  BY AppendProperties
<1>2. DOMAIN s = 1..Len(s) /\ DOMAIN t = 1..(Len(s) + 1) /\ Len(s) \in Nat BY <1>1
<1> HIDE DEF t
<1>3. \A i \in DOMAIN t : i \in 1..Len(s) \/ i = Len(s) + 1 BY <1>2
<1>4. IsInjective(t) BY <1>1, <1>2, <1>3 DEF IsInjective, ToSet
<1>5. ToSet(t) = ToSet(s) \cup {e} BY <1>1, <1>2, <1>3 DEF ToSet
<1> QED BY <1>1, <1>4, <1>5 DEF t

\* A list from which one is taken out.
LEMMA RemoveOne ==
  ASSUME NEW S, NEW s \in Seq(S), IsInjective(s), NEW i \in DOMAIN s
  PROVE  /\ RemoveAt(s, i) \in Seq(S)
         /\ IsInjective(RemoveAt(s, i))
         /\ ToSet(RemoveAt(s, i)) = ToSet(s) \ {s[i]}
         /\ Len(RemoveAt(s, i)) <= Len(s)
<1> DEFINE t == RemoveAt(s, i)
<1>1. DOMAIN s = 1..Len(s) /\ Len(s) \in Nat /\ i \in 1..Len(s) OBVIOUS
<1> DEFINE front == SubSeq(s, 1, i - 1)
           back  == SubSeq(s, i + 1, Len(s))
<1>2. /\ front \in Seq(S) /\ Len(front) = i - 1
      /\ \A k \in 1..(i - 1) : front[k] = s[k]
  <2>1. \A k \in 1..(i - 1) : s[k] \in S BY <1>1
  <2>2. 1 \in Int /\ i - 1 \in Int /\ (i - 1) - 1 + 1 = i - 1 BY <1>1
  <2>3. \A k \in 1..(i - 1) : 1 + k - 1 = k BY <1>1
  <2> QED BY <1>1, <2>1, <2>2, <2>3, SubSeqProperties
<1>3. /\ back \in Seq(S) /\ Len(back) = Len(s) - i
      /\ \A k \in 1..(Len(s) - i) : back[k] = s[k + i]
  <2>1. \A k \in (i + 1)..Len(s) : s[k] \in S BY <1>1
  <2>2. Len(s) \in Int /\ i + 1 \in Int /\ Len(s) - (i + 1) + 1 = Len(s) - i BY <1>1
  <2>3. \A k \in 1..(Len(s) - i) : (i + 1) + k - 1 = k + i BY <1>1
  <2> QED BY <1>1, <2>1, <2>2, <2>3, SubSeqProperties
<1> HIDE DEF front, back
<1>4. /\ t \in Seq(S) /\ Len(t) = Len(s) - 1
      /\ \A k \in 1..(Len(s) - 1) : t[k] = IF k <= i - 1 THEN s[k] ELSE s[k + 1]
  <2>1. t = front \o back BY DEF RemoveAt, front, back
  <2>2. /\ t \in Seq(S) /\ Len(t) = (i - 1) + (Len(s) - i)
        /\ \A k \in 1..((i - 1) + (Len(s) - i)) :
             t[k] = IF k <= i - 1 THEN front[k] ELSE back[k - (i - 1)]
    <3> HIDE DEF t
    <3>1. /\ front \o back \in Seq(S) /\ Len(front \o back) = Len(front) + Len(back)
          /\ \A k \in 1..Len(front) + Len(back) :
               (front \o back)[k] = IF k <= Len(front) THEN front[k] ELSE back[k - Len(front)]
      BY <1>2, <1>3, ConcatProperties
    <3> QED BY <1>2, <1>3, <2>1, <3>1
  <2> HIDE DEF t
  <2>3. (i - 1) + (Len(s) - i) = Len(s) - 1 BY <1>1
  <2>4. ASSUME NEW k \in 1..(Len(s) - 1)
        PROVE t[k] = IF k <= i - 1 THEN s[k] ELSE s[k + 1]
    <3>1. CASE k <= i - 1 BY <1>1, <1>2, <2>2, <2>3, <3>1
    <3>2. CASE ~(k <= i - 1)
      <4>1. k - (i - 1) \in 1..(Len(s) - i) /\ k - (i - 1) + i = k + 1 BY <1>1, <3>2
      <4> QED BY <1>3, <2>2, <2>3, <3>2, <4>1
    <3> QED BY <3>1, <3>2
  <2> QED BY <2>2, <2>3, <2>4
<1> HIDE DEF t
<1>5. DOMAIN t = 1..(Len(s) - 1) BY <1>4
<1> DEFINE At(k) == IF k <= i - 1 THEN k ELSE k + 1
<1>6. \A k \in DOMAIN t : At(k) \in 1..Len(s) /\ At(k) # i /\ t[k] = s[At(k)]
  BY <1>1, <1>4, <1>5
<1>7. \A k, m \in DOMAIN t : At(k) = At(m) => k = m BY <1>1, <1>5
<1>8. \A j \in 1..Len(s) : j # i => \E k \in DOMAIN t : At(k) = j
  <2> TAKE j \in 1..Len(s)
  <2> HAVE j # i
  <2>1. CASE j <= i - 1 BY <1>1, <1>5, <2>1
  <2>2. CASE j > i
    <3>1. j - 1 \in DOMAIN t /\ At(j - 1) = j BY <1>1, <1>5, <2>2
    <3> QED BY <3>1
  <2> QED BY <1>1, <2>1, <2>2
<1> HIDE DEF At
<1>9. IsInjective(t) BY <1>1, <1>6, <1>7 DEF IsInjective
<1>10. ToSet(t) = ToSet(s) \ {s[i]} BY <1>1, <1>6, <1>8 DEF IsInjective, ToSet
<1> QED BY <1>1, <1>4, <1>9, <1>10 DEF t

-----------------------------------------------------------------------------

\* What the second phase knows of a server it ensures.
Task == [name : Names, address : 2..6, stage : C!Stages]

\* The servers a pass ensures.
TaskNames == {tasks[i].name : i \in DOMAIN tasks}

\* The types of the second phase's state.
ServersType ==
  /\ want \in Counts
  /\ listed \in Seq(Names) /\ IsInjective(listed)
  /\ DOMAIN address \subseteq ToSet(listed) /\ IsInjective(address)
  /\ \A s \in DOMAIN address : address[s] \in 2..6
  /\ on \subseteq DOMAIN address
  /\ created \subseteq Names
  /\ phase \in {"waiting", "listing", "making", "complete"}
  /\ tasks \in Seq(Task)
  /\ \A i, j \in DOMAIN tasks : tasks[i].name = tasks[j].name => i = j

\* How far a task is, and what its server has by then.
WorkHolds ==
  /\ phase # "making" => \A i \in DOMAIN tasks : tasks[i].stage \in {"done", "failed"}
  /\ phase = "complete" => \A i \in DOMAIN tasks : tasks[i].stage = "done"
  /\ phase = "listing" => created = {}
  /\ created \subseteq TaskNames
  /\ \A i \in DOMAIN tasks :
       /\ tasks[i].stage \in {"attach", "powerOn", "address"}
            => tasks[i].name \in ToSet(listed)
       /\ tasks[i].stage \in {"powerOn", "address"} => tasks[i].name \in DOMAIN address
       /\ tasks[i].name \in created => tasks[i].stage \notin {"check", "create"}
       /\ phase \in {"making", "complete"} /\ tasks[i].name \in created
            /\ tasks[i].stage \in {"address", "done"} => tasks[i].name \in on

\* A pass ensures servers that are all there, or all there are and new ones.
PoolHolds ==
  phase = "making" => TaskNames \subseteq ToSet(listed) \/ ToSet(listed) \subseteq TaskNames

\* No server is in the network before its subnet is, and that stays.
AddressesHold == DOMAIN address # {} => Has("control-plane")

-----------------------------------------------------------------------------

\* One task moves on to a stage; which servers are ensured stays.
LEMMA TaskMoves ==
  ASSUME ServersType, NEW i \in DOMAIN tasks, NEW stage \in C!Stages, C!To(i, stage)
  PROVE  /\ tasks' \in Seq(Task) /\ DOMAIN tasks' = DOMAIN tasks /\ Len(tasks') = Len(tasks)
         /\ tasks'[i].stage = stage
         /\ \A j \in DOMAIN tasks :
              tasks'[j].name = tasks[j].name /\ (j # i => tasks'[j] = tasks[j])
         /\ TaskNames' = TaskNames
<1>1. tasks \in Seq(Task) /\ tasks' = [tasks EXCEPT ![i].stage = stage]
  BY DEF ServersType, C!To
<1>2. tasks[i] \in Task /\ [tasks[i] EXCEPT !.stage = stage] \in Task
  <2>1. tasks[i] \in Task BY <1>1
  <2> HIDE DEF C!Stages
  <2>2. [tasks[i] EXCEPT !.stage = stage] \in Task BY <2>1 DEF Task
  <2> QED BY <2>1, <2>2
<1>3. tasks' = [tasks EXCEPT ![i] = [tasks[i] EXCEPT !.stage = stage]] BY <1>1
<1>4. tasks' \in Seq(Task) BY <1>1, <1>2, <1>3
<1>5. /\ DOMAIN tasks' = DOMAIN tasks
      /\ tasks'[i] = [tasks[i] EXCEPT !.stage = stage]
      /\ \A j \in DOMAIN tasks : j # i => tasks'[j] = tasks[j]
  BY <1>3
<1>6. tasks'[i].stage = stage /\ tasks'[i].name = tasks[i].name BY <1>2, <1>5 DEF Task
<1>7. \A j \in DOMAIN tasks : tasks'[j].name = tasks[j].name BY <1>5, <1>6
<1>8. Len(tasks') = Len(tasks) BY <1>1, <1>4, <1>5
<1>9. TaskNames' = TaskNames BY <1>5, <1>7 DEF TaskNames
<1> QED BY <1>4, <1>5, <1>6, <1>7, <1>8, <1>9

\* The names of a pass: those found, and new ones for the places left.
LEMMA PoolNames ==
  ASSUME ServersType, NEW names,
         names = C!NamesFound \o C!NewNames(want - Len(C!NamesFound))
  PROVE  /\ names \in Seq(Names) /\ IsInjective(names)
         /\ Len(names) = want /\ want \in 1..5
         /\ ToSet(names) \subseteq ToSet(listed) \/ ToSet(listed) \subseteq ToSet(names)
<1> DEFINE found == C!NamesFound
           n     == want - Len(found)
           free  == Names \ ToSet(listed)
           new   == C!NewNames(n)
           l     == IF Len(listed) < want THEN Len(listed) ELSE want
<1>1. /\ want \in 1..5 /\ want <= Cardinality(Names) /\ IsFiniteSet(Names)
      /\ listed \in Seq(Names) /\ IsInjective(listed)
      /\ Len(listed) \in Nat /\ DOMAIN listed = 1..Len(listed)
  BY CountsAssumption, NamesAssumption DEF ServersType
<1>2. l \in Nat /\ l <= Len(listed) /\ l <= want BY <1>1
<1>3. /\ found \in Seq(Names) /\ Len(found) = l
      /\ \A k \in 1..l : found[k] = listed[k]
  <2>1. found = SubSeq(listed, 1, l) BY DEF C!NamesFound
  <2> HIDE DEF found, l
  <2>2. \A k \in 1..l : listed[k] \in Names BY <1>1, <1>2
  <2>3. 1 \in Int /\ l \in Int /\ l - 1 + 1 = l /\ \A k \in 1..l : 1 + k - 1 = k BY <1>2
  <2>4. /\ SubSeq(listed, 1, l) \in Seq(Names)
        /\ Len(SubSeq(listed, 1, l)) = IF 1 <= l THEN l - 1 + 1 ELSE 0
        /\ \A k \in 1..(l - 1 + 1) : SubSeq(listed, 1, l)[k] = listed[1 + k - 1]
    BY <2>2, <2>3, SubSeqProperties
  <2> QED BY <1>2, <2>1, <2>3, <2>4
<1>4. n = want - l /\ n \in Nat
  <2> HIDE DEF found, l
  <2> QED BY <1>1, <1>2, <1>3
<1> HIDE DEF found, n
<1>5. (IsFiniteSet(free) /\ n <= Cardinality(free)) \/ n = 0
  <2>1. CASE Len(listed) < want
    <3>1. /\ IsFiniteSet(ToSet(listed)) /\ Cardinality(ToSet(listed)) = Len(listed)
          /\ ToSet(listed) \in SUBSET Names
      <4>1. ToSet(listed) \in SUBSET Names BY <1>1 DEF ToSet
      <4> QED BY <1>1, <4>1, LengthIsCardinality
    <3>2. /\ IsFiniteSet(free)
          /\ Cardinality(free) = Cardinality(Names) - Cardinality(Names \cap ToSet(listed))
      BY <1>1, <3>1, FS_Difference
    <3>3. Names \cap ToSet(listed) = ToSet(listed) BY <3>1
    <3>4. Cardinality(Names) \in Nat BY <1>1, FS_CardinalityType
    <3>5. l = Len(listed) BY <2>1
    <3>6. Cardinality(free) = Cardinality(Names) - Len(listed) BY <3>1, <3>2, <3>3
    <3>7. n = want - Len(listed) BY <1>4, <3>5
    <3> HIDE DEF l, free
    <3>8. n <= Cardinality(free) BY <1>1, <3>4, <3>6, <3>7
    <3> QED BY <3>2, <3>8
  <2>2. CASE ~(Len(listed) < want)
    <3>1. l = want BY <2>2
    <3> HIDE DEF l
    <3> QED BY <1>1, <1>4, <3>1
  <2> QED BY <2>1, <2>2
<1>6. new \in [1..n -> free] /\ IsInjective(new)
  <2>1. \E f \in [1..n -> free] : IsInjective(f)
    <3>1. CASE IsFiniteSet(free) /\ n <= Cardinality(free) BY <1>4, <3>1, Draws
    <3>2. CASE n = 0
      <4>1. 1..n = {} BY <3>2
      <4>2. [k \in 1..n |-> k] \in [1..n -> free] BY <4>1
      <4>3. IsInjective([k \in 1..n |-> k]) BY <4>1 DEF IsInjective
      <4> QED BY <4>2, <4>3
    <3> QED BY <1>5, <3>1, <3>2
  <2>2. new = CHOOSE f \in [1..n -> free] : IsInjective(f)
    BY DEF C!NewNames, C!IsInjective, IsInjective, C!ToSet, ToSet
  <2> HIDE DEF free, new
  <2> QED BY <2>1, <2>2
<1> HIDE DEF free, new
<1>7. new \in Seq(Names) /\ Len(new) = n /\ \A k \in 1..n : new[k] \in free
  <2>1. new \in [1..n -> Names] BY <1>6 DEF free
  <2>2. new \in Seq(Names) BY <1>4, <2>1, IsASeq
  <2>3. Len(new) = n BY <1>4, <2>1, <2>2
  <2> QED BY <1>6, <2>2, <2>3
<1> HIDE DEF l
<1>8. /\ names \in Seq(Names) /\ Len(names) = l + n
      /\ \A k \in 1..(l + n) : names[k] = IF k <= l THEN found[k] ELSE new[k - l]
  <2>1. names = found \o new BY DEF found, new, n
  <2>2. /\ found \o new \in Seq(Names) /\ Len(found \o new) = Len(found) + Len(new)
        /\ \A k \in 1..Len(found) + Len(new) :
             (found \o new)[k] = IF k <= Len(found) THEN found[k] ELSE new[k - Len(found)]
    BY <1>3, <1>7, ConcatProperties
  <2> QED BY <1>3, <1>7, <2>1, <2>2
<1>9. l + n = want BY <1>1, <1>2, <1>4
<1>10. /\ DOMAIN names = 1..(l + n)
       /\ \A k \in 1..l : names[k] = listed[k] /\ k \in DOMAIN listed
       /\ \A k \in (l + 1)..(l + n) : k - l \in 1..n /\ names[k] = new[k - l]
  <2>1. DOMAIN names = 1..(l + n) BY <1>8
  <2>2. ASSUME NEW k \in 1..l PROVE names[k] = listed[k] /\ k \in DOMAIN listed
    <3>1. k \in 1..(l + n) /\ k <= l /\ k \in DOMAIN listed BY <1>1, <1>2, <1>4
    <3> QED BY <1>3, <1>8, <3>1
  <2>3. ASSUME NEW k \in (l + 1)..(l + n) PROVE k - l \in 1..n /\ names[k] = new[k - l]
    <3>1. k \in 1..(l + n) /\ ~(k <= l) /\ k - l \in 1..n BY <1>2, <1>4
    <3> QED BY <1>8, <3>1
  <2> QED BY <2>1, <2>2, <2>3
<1>11. IsInjective(names)
  <2> SUFFICES ASSUME NEW a \in 1..(l + n), NEW b \in 1..(l + n), names[a] = names[b]
               PROVE  a = b
    BY <1>10 DEF IsInjective
  <2>1. CASE a <= l /\ b <= l
    <3>1. a \in 1..l /\ b \in 1..l BY <1>2, <2>1
    <3> QED BY <1>1, <1>10, <3>1 DEF IsInjective
  <2>2. CASE a > l /\ b > l
    <3>1. a \in (l + 1)..(l + n) /\ b \in (l + 1)..(l + n) BY <1>2, <1>4, <2>2
    <3>2. DOMAIN new = 1..n /\ a - l \in 1..n /\ b - l \in 1..n /\ new[a - l] = new[b - l]
      BY <1>6, <1>10, <3>1
    <3>3. a - l = b - l BY <1>6, <3>2 DEF IsInjective
    <3> QED BY <1>2, <3>1, <3>3
  <2>3. ASSUME NEW x \in 1..l, NEW y \in (l + 1)..(l + n), names[x] = names[y] PROVE FALSE
    <3>1. names[x] \in ToSet(listed) BY <1>10 DEF ToSet
    <3>2. names[y] \notin ToSet(listed) BY <1>7, <1>10 DEF free
    <3> QED BY <2>3, <3>1, <3>2
  <2>4. \A k \in 1..(l + n) : (k <= l => k \in 1..l) /\ (k > l => k \in (l + 1)..(l + n))
    BY <1>2, <1>4
  <2>5. ~(a <= l /\ b > l) /\ ~(a > l /\ b <= l) BY <2>3, <2>4
  <2>6. (a <= l \/ a > l) /\ (b <= l \/ b > l) BY <1>2
  <2> QED BY <2>1, <2>2, <2>5, <2>6
<1>12. ToSet(names) \subseteq ToSet(listed) \/ ToSet(listed) \subseteq ToSet(names)
  <2>1. CASE Len(listed) < want
    <3>1. l = Len(listed) BY <2>1 DEF l
    <3>2. \A k \in DOMAIN listed : k \in DOMAIN names /\ names[k] = listed[k]
      BY <1>1, <1>2, <1>4, <1>10, <3>1
    <3> QED BY <3>2 DEF ToSet
  <2>2. CASE ~(Len(listed) < want)
    <3>1. l = want /\ n = 0 BY <1>1, <1>4, <2>2 DEF l
    <3>2. \A k \in DOMAIN names : k \in DOMAIN listed /\ names[k] = listed[k]
      BY <1>1, <1>10, <3>1
    <3> QED BY <3>2 DEF ToSet
  <2> QED BY <2>1, <2>2
<1> QED BY <1>1, <1>8, <1>9, <1>11, <1>12

-----------------------------------------------------------------------------

\* A step of the second phase.
ServersStep ==
  \/ C!Pass(ServersSubnet \in cloud.network.subnets) \/ C!Crash \/ C!EditCount
  \/ \E i \in DOMAIN listed : C!LoseServer(i)

\* The library's operators, as Compute has them.
LEMMA ComputeUses ==
  /\ \A s : C!ToSet(s) = ToSet(s)
  /\ \A s : C!IsInjective(s) = IsInjective(s)
  /\ \A s, i : C!RemoveAt(s, i) = RemoveAt(s, i)
BY DEF C!ToSet, ToSet, C!IsInjective, IsInjective, C!RemoveAt, RemoveAt

\* The tasks of a pass are well formed, whatever stage one of them moves to.
LEMMA MovedType ==
  ASSUME ServersType, NEW i \in DOMAIN tasks, NEW stage \in C!Stages, C!To(i, stage)
  PROVE  /\ tasks' \in Seq(Task)
         /\ \A a, b \in DOMAIN tasks' : tasks'[a].name = tasks'[b].name => a = b
<1>1. /\ tasks' \in Seq(Task) /\ DOMAIN tasks' = DOMAIN tasks
      /\ \A j \in DOMAIN tasks : tasks'[j].name = tasks[j].name
  BY TaskMoves
<1> QED BY <1>1 DEF ServersType

\* Every step of the second phase keeps the types: no server is listed twice, no
\* address is given twice, and only servers in the network are powered on.
LEMMA ServersTypeKept ==
  ASSUME ServersType, WorkHolds, ServersStep
  PROVE  ServersType'
<1> USE DEF C!Stages
<1>1. CASE C!Provision
  <2> DEFINE none == <<>>
  <2>1. none \in Seq(Task) /\ DOMAIN none = {} OBVIOUS
  <2>2. tasks' = none BY <1>1 DEF C!Provision
  <2> HIDE DEF none
  <2>3. /\ created' = {} /\ phase' \in {"waiting", "listing"}
        /\ UNCHANGED <<want, listed, address, on>>
    BY <1>1 DEF C!Provision
  <2> QED BY <2>1, <2>2, <2>3 DEF ServersType
<1>2. CASE C!PlanPool
  <2> DEFINE names == C!NamesFound \o C!NewNames(want - Len(C!NamesFound))
             plan  == [j \in 1..Len(names) |->
                         [name |-> names[j], address |-> C!Address(j), stage |-> "check"]]
  <2>1. /\ UNCHANGED <<want, listed, address, on, created>>
        /\ tasks' = plan \/ tasks' = tasks
        /\ phase' \in {"making", "waiting"}
    <3>1. UNCHANGED <<want, listed, address, on, created>> /\ phase' \in {"making", "waiting"}
      BY <1>2 DEF C!PlanPool
    <3>2. tasks' = plan \/ tasks' = tasks BY <1>2, Zenon DEF C!PlanPool
    <3> QED BY <3>1, <3>2
  <2>2. /\ names \in Seq(Names) /\ IsInjective(names)
        /\ Len(names) = want /\ want \in 1..5
    BY PoolNames
  <2> HIDE DEF names
  <2>3. ASSUME NEW j \in 1..want PROVE
          [name |-> names[j], address |-> C!Address(j), stage |-> "check"] \in Task
    <3>1. names[j] \in Names /\ C!Address(j) \in 2..6 BY <2>2, <2>3 DEF C!Address
    <3> QED BY <3>1 DEF Task
  <2>4. plan \in Seq(Task) /\ DOMAIN plan = 1..want BY <2>2, <2>3
  <2>5. \A a, b \in DOMAIN plan : plan[a].name = plan[b].name => a = b
    <3>1. DOMAIN names = 1..want BY <2>2
    <3>2. \A a \in 1..want : plan[a].name = names[a] BY <2>2
    <3> HIDE DEF plan
    <3> QED BY <2>2, <2>4, <3>1, <3>2 DEF IsInjective
  <2> HIDE DEF plan
  <2> QED BY <2>1, <2>4, <2>5 DEF ServersType
<1>3. ASSUME NEW i \in DOMAIN tasks, C!EnsureServer(i) PROVE ServersType'
  <2>1. /\ UNCHANGED <<want, listed, address, on, phase, created>>
        /\ C!To(i, "done") \/ C!To(i, "create") \/ C!To(i, "failed")
    BY <1>3 DEF C!EnsureServer
  <2> QED BY <2>1, MovedType DEF ServersType
<1>4. ASSUME NEW i \in DOMAIN tasks, C!CreateServer(i) PROVE ServersType'
  <2> DEFINE name == tasks[i].name
  <2>1. name \in Names
    <3>1. tasks[i] \in Task BY DEF ServersType
    <3> QED BY <3>1 DEF Task
  <2>2. /\ UNCHANGED <<want, address, on, phase>>
        /\ C!To(i, "attach") \/ C!To(i, "failed")
        /\ \/ /\ name \notin ToSet(listed)
              /\ listed' = Append(listed, name) /\ created' = created \cup {name}
           \/ UNCHANGED <<listed, created>>
    BY <1>4, ComputeUses DEF C!CreateServer
  <2> HIDE DEF name
  <2>3. /\ tasks' \in Seq(Task)
        /\ \A a, b \in DOMAIN tasks' : tasks'[a].name = tasks'[b].name => a = b
    BY <2>2, MovedType
  <2>4. CASE /\ name \notin ToSet(listed)
             /\ listed' = Append(listed, name) /\ created' = created \cup {name}
    <3>1. /\ listed' \in Seq(Names) /\ IsInjective(listed')
          /\ ToSet(listed) \subseteq ToSet(listed')
      BY <2>1, <2>4, AppendNew DEF ServersType
    <3> QED BY <2>1, <2>2, <2>3, <2>4, <3>1 DEF ServersType
  <2>5. CASE UNCHANGED <<listed, created>>
    BY <2>2, <2>3, <2>5 DEF ServersType
  <2> QED BY <2>2, <2>4, <2>5
<1>5. ASSUME NEW i \in DOMAIN tasks, NEW subnet, C!Attach(i, subnet) PROVE ServersType'
  <2> DEFINE name == tasks[i].name
             at   == tasks[i].address
  <2>1. at \in 2..6
    <3>1. tasks[i] \in Task BY DEF ServersType
    <3> QED BY <3>1 DEF Task
  <2>2. /\ tasks[i].stage = "attach"
        /\ UNCHANGED <<want, listed, on, phase, created>>
        /\ C!To(i, "powerOn") \/ C!To(i, "failed")
        /\ \/ /\ \A s \in DOMAIN address : address[s] # at
              /\ address' = [s \in DOMAIN address \cup {name} |->
                               IF s = name THEN at ELSE address[s]]
           \/ address' = address
    BY <1>5 DEF C!Attach
  <2>3. name \in ToSet(listed) BY <2>2 DEF WorkHolds
  <2> HIDE DEF name, at
  <2>4. /\ tasks' \in Seq(Task)
        /\ \A a, b \in DOMAIN tasks' : tasks'[a].name = tasks'[b].name => a = b
    BY <2>2, MovedType
  <2>5. CASE /\ \A s \in DOMAIN address : address[s] # at
             /\ address' = [s \in DOMAIN address \cup {name} |->
                               IF s = name THEN at ELSE address[s]]
    <3>1. /\ DOMAIN address' = DOMAIN address \cup {name}
          /\ address'[name] = at
          /\ \A s \in DOMAIN address : s # name => address'[s] = address[s]
      BY <2>5
    <3>2. IsInjective(address') BY <2>5, <3>1 DEF IsInjective, ServersType
    <3>3. \A s \in DOMAIN address' : address'[s] \in 2..6 BY <2>1, <3>1 DEF ServersType
    <3>4. DOMAIN address' \subseteq ToSet(listed') BY <2>2, <2>3, <3>1 DEF ServersType
    <3>5. on' \subseteq DOMAIN address' BY <2>2, <3>1 DEF ServersType
    <3> QED BY <2>2, <2>4, <3>2, <3>3, <3>4, <3>5 DEF ServersType
  <2>6. CASE address' = address BY <2>2, <2>4, <2>6 DEF ServersType
  <2> QED BY <2>2, <2>5, <2>6
<1>6. ASSUME NEW i \in DOMAIN tasks, C!PowerOn(i) PROVE ServersType'
  <2>1. /\ tasks[i].stage = "powerOn"
        /\ UNCHANGED <<want, listed, address, phase, created>>
        /\ C!To(i, "address") \/ C!To(i, "failed")
        /\ on' \subseteq on \cup {tasks[i].name}
    BY <1>6 DEF C!PowerOn
  <2>2. tasks[i].name \in DOMAIN address BY <2>1 DEF WorkHolds
  <2> QED BY <2>1, <2>2, MovedType DEF ServersType
<1>7. ASSUME NEW i \in DOMAIN tasks, C!ReadAddress(i) PROVE ServersType'
  <2>1. /\ UNCHANGED <<want, listed, address, on, phase, created>>
        /\ C!To(i, "done") \/ C!To(i, "failed")
    BY <1>7 DEF C!ReadAddress
  <2> QED BY <2>1, MovedType DEF ServersType
<1>8. CASE C!PassEnds
  <2>1. /\ phase' \in {"complete", "waiting"}
        /\ UNCHANGED <<want, listed, address, on, tasks, created>>
    BY <1>8 DEF C!PassEnds
  <2> QED BY <2>1 DEF ServersType
<1>9. CASE C!Crash
  <2> DEFINE none == <<>>
  <2>1. none \in Seq(Task) /\ DOMAIN none = {} OBVIOUS
  <2>2. tasks' = none BY <1>9 DEF C!Crash
  <2> HIDE DEF none
  <2>3. created' = {} /\ phase' = "waiting" /\ UNCHANGED <<want, listed, address, on>>
    BY <1>9 DEF C!Crash
  <2> QED BY <2>1, <2>2, <2>3 DEF ServersType
<1>10. CASE C!EditCount
  <2>1. want' \in Counts /\ UNCHANGED <<listed, address, on, phase, tasks, created>>
    BY <1>10 DEF C!EditCount
  <2> QED BY <2>1 DEF ServersType
<1>11. ASSUME NEW i \in DOMAIN listed, C!LoseServer(i) PROVE ServersType'
  <2>1. /\ listed' = RemoveAt(listed, i)
        /\ address' = [s \in DOMAIN address \ {listed[i]} |-> address[s]]
        /\ on' = on \ {listed[i]}
        /\ UNCHANGED <<want, phase, tasks, created>>
    BY <1>11, ComputeUses DEF C!LoseServer
  <2>2. /\ listed' \in Seq(Names) /\ IsInjective(listed')
        /\ ToSet(listed') = ToSet(listed) \ {listed[i]}
    BY <2>1, RemoveOne DEF ServersType
  <2>3. /\ DOMAIN address' = DOMAIN address \ {listed[i]}
        /\ \A s \in DOMAIN address' : address'[s] = address[s]
    BY <2>1
  <2>4. IsInjective(address') BY <2>3 DEF IsInjective, ServersType
  <2>5. \A s \in DOMAIN address' : address'[s] \in 2..6 BY <2>3 DEF ServersType
  <2>6. DOMAIN address' \subseteq ToSet(listed') /\ on' \subseteq DOMAIN address'
    BY <2>1, <2>2, <2>3 DEF ServersType
  <2> QED BY <2>1, <2>2, <2>4, <2>5, <2>6 DEF ServersType
<1> QED BY <1>1, <1>2, <1>3, <1>4, <1>5, <1>6, <1>7, <1>8, <1>9, <1>10, <1>11
        DEF ServersStep, C!Pass

-----------------------------------------------------------------------------

\* A pass's tasks go on from where the calls before have brought their servers.
LEMMA WorkHoldsKept ==
  ASSUME ServersType, WorkHolds, ServersStep
  PROVE  WorkHolds'
<1> USE DEF C!Stages
<1>1. CASE C!Provision \/ C!Crash
  <2> DEFINE none == <<>>
  <2>1. DOMAIN none = {} OBVIOUS
  <2>2. tasks' = none BY <1>1 DEF C!Provision, C!Crash
  <2> HIDE DEF none
  <2>3. created' = {} BY <1>1 DEF C!Provision, C!Crash
  <2> QED BY <2>1, <2>2, <2>3 DEF WorkHolds
<1>2. CASE C!PlanPool
  <2> DEFINE names == C!NamesFound \o C!NewNames(want - Len(C!NamesFound))
             plan  == [j \in 1..Len(names) |->
                         [name |-> names[j], address |-> C!Address(j), stage |-> "check"]]
  <2>1. /\ UNCHANGED <<listed, address, on, created>> /\ phase = "listing"
        /\ \/ tasks' = plan /\ phase' = "making"
           \/ tasks' = tasks /\ phase' = "waiting"
    <3>1. UNCHANGED <<listed, address, on, created>> /\ phase = "listing"
      BY <1>2 DEF C!PlanPool
    <3>2. (tasks' = plan /\ phase' = "making") \/ (tasks' = tasks /\ phase' = "waiting")
      BY <1>2, Zenon DEF C!PlanPool
    <3> QED BY <3>1, <3>2
  <2>2. \A i \in DOMAIN plan : plan[i].stage = "check" OBVIOUS
  <2> HIDE DEF plan
  <2>3. created = {} BY <2>1 DEF WorkHolds
  <2>4. CASE tasks' = plan /\ phase' = "making"
    BY <2>1, <2>2, <2>3, <2>4 DEF WorkHolds
  <2>5. CASE tasks' = tasks /\ phase' = "waiting"
    BY <2>1, <2>3, <2>5 DEF WorkHolds
  <2> QED BY <2>1, <2>4, <2>5
<1>3. ASSUME NEW i \in DOMAIN tasks, C!EnsureServer(i) PROVE WorkHolds'
  <2>1. /\ UNCHANGED <<listed, address, on, phase, created>> /\ tasks[i].stage = "check"
        /\ C!To(i, "done") \/ C!To(i, "create") \/ C!To(i, "failed")
    BY <1>3 DEF C!EnsureServer
  <2>2. tasks[i].name \notin created BY <2>1 DEF WorkHolds
  <2>3. phase = "making" BY <2>1 DEF WorkHolds
  <2>4. /\ DOMAIN tasks' = DOMAIN tasks /\ TaskNames' = TaskNames
        /\ tasks'[i].stage \in {"done", "create", "failed"}
        /\ \A j \in DOMAIN tasks :
             tasks'[j].name = tasks[j].name /\ (j # i => tasks'[j] = tasks[j])
    BY <2>1, TaskMoves
  <2> QED BY <2>1, <2>2, <2>3, <2>4 DEF WorkHolds
<1>4. ASSUME NEW i \in DOMAIN tasks, C!CreateServer(i) PROVE WorkHolds'
  <2> DEFINE name == tasks[i].name
  <2>1. /\ tasks[i].stage = "create" /\ UNCHANGED <<address, on, phase>>
        /\ \/ /\ C!To(i, "attach") \/ C!To(i, "failed")
              /\ name \notin ToSet(listed)
              /\ listed' = Append(listed, name) /\ created' = created \cup {name}
           \/ C!To(i, "failed") /\ UNCHANGED <<listed, created>>
    BY <1>4, ComputeUses DEF C!CreateServer
  <2>2. phase = "making" /\ name \in TaskNames /\ name \notin created
    BY <2>1 DEF WorkHolds, TaskNames
  <2>3. name \in Names
    <3>1. tasks[i] \in Task BY DEF ServersType
    <3> QED BY <3>1 DEF Task
  <2>4. /\ DOMAIN tasks' = DOMAIN tasks /\ TaskNames' = TaskNames
        /\ tasks'[i].stage \in {"attach", "failed"}
        /\ \A j \in DOMAIN tasks :
             tasks'[j].name = tasks[j].name /\ (j # i => tasks'[j] = tasks[j])
    BY <2>1, TaskMoves
  <2>5. \A j \in DOMAIN tasks : j # i => tasks[j].name # name BY DEF ServersType
  <2>6. tasks'[i].name = name BY <2>4
  <2> HIDE DEF name
  <2>7. CASE /\ name \notin ToSet(listed)
             /\ listed' = Append(listed, name) /\ created' = created \cup {name}
    <3>1. ToSet(listed') = ToSet(listed) \cup {name}
      BY <2>3, <2>7, AppendNew DEF ServersType
    <3> QED BY <2>1, <2>2, <2>4, <2>5, <2>6, <2>7, <3>1 DEF WorkHolds
  <2>8. CASE C!To(i, "failed") /\ UNCHANGED <<listed, created>>
    <3>1. tasks'[i].stage = "failed" BY <2>8, TaskMoves
    <3> QED BY <2>1, <2>2, <2>4, <2>8, <3>1 DEF WorkHolds
  <2> QED BY <2>1, <2>7, <2>8
<1>5. ASSUME NEW i \in DOMAIN tasks, NEW subnet, C!Attach(i, subnet) PROVE WorkHolds'
  <2> DEFINE name == tasks[i].name
  <2>1. /\ tasks[i].stage = "attach" /\ UNCHANGED <<listed, on, phase, created>>
        /\ \/ C!To(i, "powerOn") /\ DOMAIN address' = DOMAIN address \cup {name}
           \/ C!To(i, "failed") /\ address' = address
    BY <1>5 DEF C!Attach
  <2>2. phase = "making" /\ name \in ToSet(listed) BY <2>1 DEF WorkHolds
  <2>3. /\ DOMAIN tasks' = DOMAIN tasks /\ TaskNames' = TaskNames
        /\ tasks'[i].stage \in {"powerOn", "failed"}
        /\ C!To(i, "failed") => tasks'[i].stage = "failed"
        /\ \A j \in DOMAIN tasks :
             tasks'[j].name = tasks[j].name /\ (j # i => tasks'[j] = tasks[j])
    BY <2>1, TaskMoves
  <2>4. tasks'[i].name = name BY <2>3
  <2> HIDE DEF name
  <2>5. CASE DOMAIN address' = DOMAIN address \cup {name}
    BY <2>1, <2>2, <2>3, <2>4, <2>5 DEF WorkHolds
  <2>6. CASE C!To(i, "failed") /\ address' = address
    BY <2>1, <2>2, <2>3, <2>4, <2>6 DEF WorkHolds
  <2> QED BY <2>1, <2>5, <2>6
<1>6. ASSUME NEW i \in DOMAIN tasks, C!PowerOn(i) PROVE WorkHolds'
  <2> DEFINE name == tasks[i].name
  <2>1. /\ tasks[i].stage = "powerOn" /\ UNCHANGED <<listed, address, phase, created>>
        /\ on \subseteq on'
        /\ \/ C!To(i, "address") /\ name \in on'
           \/ C!To(i, "failed")
    BY <1>6 DEF C!PowerOn
  <2>2. phase = "making" /\ name \in ToSet(listed) /\ name \in DOMAIN address
    BY <2>1 DEF WorkHolds
  <2>3. /\ DOMAIN tasks' = DOMAIN tasks /\ TaskNames' = TaskNames
        /\ tasks'[i].stage \in {"address", "failed"}
        /\ C!To(i, "failed") => tasks'[i].stage = "failed"
        /\ \A j \in DOMAIN tasks :
             tasks'[j].name = tasks[j].name /\ (j # i => tasks'[j] = tasks[j])
    BY <2>1, TaskMoves
  <2>4. tasks'[i].name = name BY <2>3
  <2> HIDE DEF name
  <2>5. CASE name \in on' BY <2>1, <2>2, <2>3, <2>4, <2>5 DEF WorkHolds
  <2>6. CASE C!To(i, "failed") BY <2>1, <2>2, <2>3, <2>4, <2>6 DEF WorkHolds
  <2> QED BY <2>1, <2>5, <2>6
<1>7. ASSUME NEW i \in DOMAIN tasks, C!ReadAddress(i) PROVE WorkHolds'
  <2>1. /\ UNCHANGED <<listed, address, on, phase, created>> /\ tasks[i].stage = "address"
        /\ C!To(i, "done") \/ C!To(i, "failed")
    BY <1>7 DEF C!ReadAddress
  <2>2. phase = "making" BY <2>1 DEF WorkHolds
  <2>3. /\ DOMAIN tasks' = DOMAIN tasks /\ TaskNames' = TaskNames
        /\ tasks'[i].stage \in {"done", "failed"}
        /\ \A j \in DOMAIN tasks :
             tasks'[j].name = tasks[j].name /\ (j # i => tasks'[j] = tasks[j])
    BY <2>1, TaskMoves
  <2> QED BY <2>1, <2>2, <2>3 DEF WorkHolds
<1>8. CASE C!PassEnds
  <2>1. /\ UNCHANGED <<listed, address, on, tasks, created>> /\ phase = "making"
        /\ \A i \in DOMAIN tasks : tasks[i].stage \in {"done", "failed"}
        /\ \/ phase' = "complete" /\ \A i \in DOMAIN tasks : tasks[i].stage = "done"
           \/ phase' = "waiting"
    BY <1>8 DEF C!PassEnds, C!Ended
  <2>2. TaskNames' = TaskNames BY <2>1 DEF TaskNames
  <2> QED BY <2>1, <2>2 DEF WorkHolds
<1>9. CASE C!EditCount
  <2>1. UNCHANGED <<listed, address, on, phase, tasks, created>>
    BY <1>9 DEF C!EditCount
  <2> QED BY <2>1 DEF WorkHolds, TaskNames
<1>10. ASSUME NEW i \in DOMAIN listed, C!LoseServer(i) PROVE WorkHolds'
  <2>1. phase = "waiting" /\ UNCHANGED <<phase, tasks, created>>
    BY <1>10 DEF C!LoseServer
  <2>2. TaskNames' = TaskNames BY <2>1 DEF TaskNames
  <2>3. \A j \in DOMAIN tasks : tasks[j].stage \in {"done", "failed"}
    BY <2>1 DEF WorkHolds
  <2> QED BY <2>1, <2>2, <2>3 DEF WorkHolds
<1> QED BY <1>1, <1>2, <1>3, <1>4, <1>5, <1>6, <1>7, <1>8, <1>9, <1>10
        DEF ServersStep, C!Pass

\* What the step of one task leaves of the pass's plan.
LEMMA TaskStepsKeepNames ==
  ASSUME ServersType, NEW i \in DOMAIN tasks, NEW subnet,
         C!EnsureServer(i) \/ C!Attach(i, subnet) \/ C!PowerOn(i) \/ C!ReadAddress(i)
  PROVE  TaskNames' = TaskNames /\ UNCHANGED <<listed, phase>>
<1>1. UNCHANGED <<listed, phase>>
  BY DEF C!EnsureServer, C!Attach, C!PowerOn, C!ReadAddress
<1>2. \E stage \in C!Stages : C!To(i, stage)
  BY DEF C!EnsureServer, C!Attach, C!PowerOn, C!ReadAddress, C!Stages
<1> QED BY <1>1, <1>2, TaskMoves

\* Every step of the second phase keeps PoolHolds: names are drawn only when all
\* there are have been taken.
LEMMA PoolHoldsKept ==
  ASSUME ServersType, WorkHolds, PoolHolds, ServersStep
  PROVE  PoolHolds'
<1>1. CASE C!Provision \/ C!Crash \/ C!PassEnds
  <2>1. phase' # "making" BY <1>1 DEF C!Provision, C!Crash, C!PassEnds
  <2> QED BY <2>1 DEF PoolHolds
<1>2. CASE C!PlanPool
  <2> DEFINE names == C!NamesFound \o C!NewNames(want - Len(C!NamesFound))
             plan  == [j \in 1..Len(names) |->
                         [name |-> names[j], address |-> C!Address(j), stage |-> "check"]]
  <2>1. (tasks' = plan /\ phase' = "making") \/ (tasks' = tasks /\ phase' = "waiting")
    BY <1>2, Zenon DEF C!PlanPool
  <2>2. listed' = listed BY <1>2 DEF C!PlanPool
  <2>3. /\ names \in Seq(Names)
        /\ ToSet(names) \subseteq ToSet(listed) \/ ToSet(listed) \subseteq ToSet(names)
    BY PoolNames
  <2> HIDE DEF names
  <2>4. {plan[i].name : i \in DOMAIN plan} = ToSet(names)
    <3>1. DOMAIN names = 1..Len(names) BY <2>3
    <3>2. DOMAIN plan = 1..Len(names) /\ \A i \in 1..Len(names) : plan[i].name = names[i]
      OBVIOUS
    <3> HIDE DEF plan
    <3> QED BY <3>1, <3>2 DEF ToSet
  <2> HIDE DEF plan
  <2>5. CASE tasks' = plan
    <3>1. TaskNames' = ToSet(names) BY <2>4, <2>5 DEF TaskNames
    <3> QED BY <2>2, <2>3, <3>1 DEF PoolHolds
  <2>6. CASE phase' = "waiting" BY <2>6 DEF PoolHolds
  <2> QED BY <2>1, <2>5, <2>6
<1>3. ASSUME NEW i \in DOMAIN tasks, NEW subnet,
             C!EnsureServer(i) \/ C!Attach(i, subnet) \/ C!PowerOn(i) \/ C!ReadAddress(i)
      PROVE  PoolHolds'
  BY <1>3, TaskStepsKeepNames DEF PoolHolds
<1>4. ASSUME NEW i \in DOMAIN tasks, C!CreateServer(i) PROVE PoolHolds'
  <2> DEFINE name == tasks[i].name
  <2>1. /\ phase' = phase
        /\ C!To(i, "attach") \/ C!To(i, "failed")
        /\ \/ name \notin ToSet(listed) /\ listed' = Append(listed, name)
           \/ listed' = listed
    BY <1>4, ComputeUses DEF C!CreateServer
  <2>2. name \in TaskNames BY DEF TaskNames
  <2>3. name \in Names
    <3>1. tasks[i] \in Task BY DEF ServersType
    <3> QED BY <3>1 DEF Task
  <2>4. TaskNames' = TaskNames BY <2>1, TaskMoves DEF C!Stages
  <2> HIDE DEF name
  <2>5. CASE name \notin ToSet(listed) /\ listed' = Append(listed, name)
    <3>1. ToSet(listed') = ToSet(listed) \cup {name}
      BY <2>3, <2>5, AppendNew DEF ServersType
    <3> QED BY <2>1, <2>2, <2>4, <3>1 DEF PoolHolds
  <2>6. CASE listed' = listed BY <2>1, <2>4, <2>6 DEF PoolHolds
  <2> QED BY <2>1, <2>5, <2>6
<1>5. CASE C!EditCount \/ \E i \in DOMAIN listed : C!LoseServer(i)
  <2>1. phase' = "waiting" BY <1>5 DEF C!EditCount, C!LoseServer
  <2> QED BY <2>1 DEF PoolHolds
<1> QED BY <1>1, <1>2, <1>3, <1>4, <1>5 DEF ServersStep, C!Pass

\* A server is given its address only in a subnet that is there.
LEMMA AddressesHoldKept ==
  ASSUME AddressesHold, UNCHANGED <<setup, cloud>>, ServersStep
  PROVE  AddressesHold'
<1>1. Has("control-plane")' = Has("control-plane") BY ConfigStays DEF Has
<1>2. ASSUME DOMAIN address' # {}, ~(DOMAIN address # {}) PROVE Has("control-plane")
  <2>1. \E i \in DOMAIN tasks : C!Attach(i, ServersSubnet \in cloud.network.subnets)
    <3>1. ASSUME address' = address PROVE FALSE BY <1>2, <3>1
    <3>2. ~(C!Provision \/ C!PlanPool \/ C!PassEnds \/ C!Crash \/ C!EditCount)
      BY <3>1 DEF C!Provision, C!PlanPool, C!PassEnds, C!Crash, C!EditCount
    <3>3. \A i : ~(C!EnsureServer(i) \/ C!CreateServer(i) \/ C!PowerOn(i) \/ C!ReadAddress(i))
      BY <3>1 DEF C!EnsureServer, C!CreateServer, C!PowerOn, C!ReadAddress
    <3>4. \A i : ~C!LoseServer(i) BY <1>2 DEF C!LoseServer
    <3> QED BY <3>2, <3>3, <3>4 DEF ServersStep, C!Pass
  <2>2. PICK i \in DOMAIN tasks : C!Attach(i, ServersSubnet \in cloud.network.subnets)
    BY <2>1
  <2>3. ServersSubnet \in cloud.network.subnets BY <1>2, <2>2 DEF C!Attach
  <2> QED BY <2>3 DEF ServersSubnet, Has, Subnet
<1> QED BY <1>1, <1>2 DEF AddressesHold

-----------------------------------------------------------------------------

\* What both phases keep up together.
IInv ==
  /\ InfraType /\ CloudType(cloud)
  /\ PassHolds /\ DoneHolds /\ FirstFault /\ ApplyHolds /\ OneFaultIsMended
  /\ ServersType /\ WorkHolds /\ PoolHolds /\ AddressesHold

-----------------------------------------------------------------------------

\* An empty project.
LEMMA InitHolds == ASSUME Init PROVE IInv
<1>1. I!Init /\ C!Init BY DEF Init
<1>2. InfraType
  <2>1. /\ setup \in Setups /\ ids = {} /\ known = {} /\ past = FALSE /\ open = FALSE
        /\ pass = "idle" /\ faults = 0
    BY <1>1 DEF I!Init
  <2>2. 0 \in 0..MaxFaults BY FaultsAssumption
  <2>3. pass \in I!Calls BY <2>1 DEF I!Calls
  <2> QED BY <2>1, <2>2, <2>3 DEF InfraType
<1>3. CloudType(cloud)
  BY <1>1 DEF I!Init, CloudType, I!NoNetwork, I!NoFirewall, I!NoBalancer
<1>4. PassHolds
  BY <1>1 DEF I!Init, PassHolds, BeyondNetwork, BeyondCP, BeyondLB, BeyondWorker,
       BeyondApply,
              Beyond6443, Beyond50000, BeyondAttach
<1>5. DoneHolds BY <1>1 DEF I!Init, DoneHolds
<1>6. FirstFault
  BY <1>1 DEF I!Init, FirstFault, I!Found, I!HasNetwork, I!NoNetwork, I!NoFirewall,
       I!NoBalancer
<1>7. OneFaultIsMended /\ ApplyHolds
  BY <1>1 DEF I!Init, OneFaultIsMended, I!OneFaultIsMended, ApplyHolds
<1>8. want \in Counts /\ on = {} /\ phase = "waiting" /\ tasks = <<>> /\ created = {}
  BY <1>1 DEF C!Init
<1>9. listed = <<>> /\ DOMAIN address = {}
  <2>1. listed = [j \in 1..0 |-> j] /\ address = [s \in 1..0 |-> C!Address(s)]
    BY <1>1 DEF C!Init
  <2>2. 1..0 = {} OBVIOUS
  <2>3. listed \in Seq(Nat) /\ Len(listed) = 0 BY <2>1, <2>2
  <2> QED BY <2>1, <2>2, <2>3, EmptySeq
<1>10. ServersType
  <2>1. DOMAIN listed = {} /\ DOMAIN tasks = {} BY <1>8, <1>9
  <2> QED BY <1>8, <1>9, <2>1 DEF ServersType, IsInjective
<1>11. TaskNames = {} BY <1>8 DEF TaskNames
<1>12. WorkHolds BY <1>8, <1>11 DEF WorkHolds
<1>13. PoolHolds BY <1>8 DEF PoolHolds
<1>14. AddressesHold BY <1>9 DEF AddressesHold
<1> QED
  BY <1>2, <1>3, <1>4, <1>5, <1>6, <1>7, <1>10, <1>12, <1>13, <1>14 DEF IInv

\* The first phase leaves the servers alone, and takes no subnet from any.
LEMMA InfrastructureHolds ==
  ASSUME IInv, I!Pass \/ I!Crash \/ (I!Lose /\ listed = <<>>), UNCHANGED servers
  PROVE  IInv'
<1> USE DEF IInv
<1>12. Infra BY DEF Infra
<1>1. InfraType' /\ CloudType(cloud)' BY <1>12, InfraTypesKept
<1>2. PassHolds' BY <1>12, PassHoldsKept
<1>3. DoneHolds' BY <1>12, DoneHoldsKept
<1>4. FirstFault' BY <1>12, FirstFaultKept
<1>5. OneFaultIsMended' BY <1>12, MendedKept
<1>6. ServersType' BY DEF servers, ServersType
<1>7. TaskNames' = TaskNames BY DEF servers, TaskNames
<1>8. WorkHolds' BY <1>7 DEF servers, WorkHolds
<1>9. PoolHolds' BY <1>7 DEF servers, PoolHolds
<1>10. AddressesHold'
  <2>1. DOMAIN address' = DOMAIN address BY DEF servers
  <2>2. CASE I!Lose /\ listed = <<>>
    <3>1. DOMAIN listed = {} BY <2>2
    <3>2. DOMAIN address = {} BY <3>1 DEF ServersType, ToSet
    <3> QED BY <2>1, <3>2 DEF AddressesHold
  <2>3. CASE I!Pass \/ I!Crash BY <2>1, <2>3, SubnetsStay DEF AddressesHold
  <2> QED BY <2>2, <2>3
<1>11. ApplyHolds' BY <1>12, ApplyHoldsKept
<1> QED BY <1>1, <1>2, <1>3, <1>4, <1>5, <1>6, <1>8, <1>9, <1>10, <1>11

\* A step of the second phase may fail; the faults are counted together.
LEMMA ServersFaults ==
  ASSUME InfraType, ServersStep
  PROVE  faults' \in 0..MaxFaults /\ faults' >= faults
<1>1. faults' = faults \/ C!Fault
  <2>1. C!Provision \/ C!PlanPool \/ C!PassEnds \/ C!Crash \/ C!EditCount
          => faults' = faults \/ C!Fault
    BY DEF C!Provision, C!PlanPool, C!PassEnds, C!Crash, C!EditCount
  <2>2. \A i, subnet : C!EnsureServer(i) \/ C!Attach(i, subnet) \/ C!PowerOn(i)
          \/ C!ReadAddress(i) \/ C!LoseServer(i) => faults' = faults \/ C!Fault
    BY DEF C!EnsureServer, C!Attach, C!PowerOn, C!ReadAddress, C!LoseServer
  <2>3. \A i : C!CreateServer(i) => faults' = faults \/ C!Fault BY DEF C!CreateServer
  <2> QED BY <2>1, <2>2, <2>3 DEF ServersStep, C!Pass
<1>2. MaxFaults \in Nat /\ faults \in 0..MaxFaults BY FaultsAssumption DEF InfraType
<1> QED BY <1>1, <1>2 DEF C!Fault

\* What the second phase leaves alone keeps what the first has made.
LEMMA ServersHold ==
  ASSUME IInv, ServersStep, UNCHANGED infra
  PROVE  IInv'
<1> USE DEF IInv
<1>1. /\ UNCHANGED <<setup, cloud, ids, past, pass, known, open>>
      /\ faults' \in 0..MaxFaults /\ faults' >= faults
      /\ faults \in 0..MaxFaults
  BY ServersFaults DEF infra, InfraType
<1>2. InfraType' BY <1>1 DEF InfraType
<1>3. CloudType(cloud)' BY <1>1, CloudStays
<1>4. /\ I!Config' = I!Config /\ I!Feasible' = I!Feasible /\ I!Whole' = I!Whole
      /\ I!Operator' = I!Operator
  BY <1>1, ConfigStays, WholeStays
<1>5. /\ Has("control-plane")' = Has("control-plane")
      /\ Has("load-balancer")' = Has("load-balancer")
      /\ Has("worker")' = Has("worker")
  BY <1>1, ConfigStays DEF Has
<1>6. PassHolds' BY <1>1, <1>4, <1>5 DEF PassHolds, I!Attached, I!ParseCIDR, I!Size, I!Range
<1>7. DoneHolds' BY <1>1, <1>4 DEF DoneHolds
<1>8. FirstFault'
  <2>1. I!Found' = I!Found BY <1>1 DEF I!Found, I!HasNetwork
  <2>2. /\ faults' <= 1 => faults <= 1 /\ (faults = 1 => faults' = 1)
        /\ faults' = 0 => faults = 0
    BY <1>1, FaultsAssumption
  <2> HIDE DEF I!Found, I!Feasible
  <2> QED BY <1>1, <1>4, <2>1, <2>2 DEF FirstFault
<1>9. OneFaultIsMended'
  <2>1. faults' <= 1 => faults <= 1 BY <1>1, FaultsAssumption
  <2> QED BY <1>1, <1>4, <2>1 DEF OneFaultIsMended, I!OneFaultIsMended
<1>10. ServersType' BY ServersTypeKept
<1>11. WorkHolds' BY WorkHoldsKept
<1>12. PoolHolds' BY PoolHoldsKept
<1>13. AddressesHold' BY <1>1, AddressesHoldKept
<1>14. ApplyHolds' BY <1>1, <1>4 DEF ApplyHolds
<1> QED BY <1>2, <1>3, <1>6, <1>7, <1>8, <1>9, <1>10, <1>11, <1>12, <1>13, <1>14

\* A compute phase that fails takes an apply back to its beginning.
LEMMA FailureHolds ==
  ASSUME IInv, ServersStep, past, ~I!Operator, NEW next \in {"idle", "cleanup"}, I!Fail(next)
  PROVE  IInv'
<1> USE DEF IInv
<1>1. /\ past' = FALSE /\ pass' = next /\ UNCHANGED <<setup, cloud, ids, known, open>>
      /\ faults' \in 0..MaxFaults
  BY ServersFaults DEF I!Fail
<1>2. InfraType' BY <1>1 DEF InfraType, I!Calls
<1>3. CloudType(cloud)' BY <1>1, CloudStays
<1>4. PassHolds'
  <2>1. pass' \notin BeyondNetwork
    BY <1>1 DEF BeyondNetwork, BeyondCP, BeyondLB, BeyondWorker, BeyondApply, Beyond6443,
         Beyond50000, BeyondAttach
  <2> QED BY <2>1, NothingBehind
<1>5. DoneHolds' BY <1>1 DEF DoneHolds
<1>6. I!Operator' = I!Operator BY <1>1, ConfigStays
<1>7. FirstFault' BY <1>6 DEF FirstFault
<1>8. ApplyHolds' BY <1>1, <1>6 DEF ApplyHolds
<1>9. OneFaultIsMended' BY <1>1 DEF OneFaultIsMended, I!OneFaultIsMended
<1>10. ServersType' BY ServersTypeKept
<1>11. WorkHolds' BY WorkHoldsKept
<1>12. PoolHolds' BY PoolHoldsKept
<1>13. AddressesHold' BY <1>1, AddressesHoldKept
<1> QED BY <1>2, <1>3, <1>4, <1>5, <1>7, <1>8, <1>9, <1>10, <1>11, <1>12, <1>13

\* No servers, and no tasks that ensure any.
LEMMA NoServersHold ==
  ASSUME ServersType, NoServers
  PROVE  ServersType' /\ WorkHolds' /\ PoolHolds' /\ AddressesHold'
<1> DEFINE none == <<>>
<1>1. none \in Seq(Task) /\ none \in Seq(Names) /\ DOMAIN none = {} OBVIOUS
<1>2. listed' = none /\ tasks' = none BY DEF NoServers
<1> HIDE DEF none
<1>3. /\ DOMAIN address' = {} /\ on' = {} /\ created' = {}
      /\ UNCHANGED <<want, phase>>
  BY DEF NoServers
<1>4. TaskNames' = {} BY <1>1, <1>2 DEF TaskNames
<1>5. ServersType' BY <1>1, <1>2, <1>3 DEF ServersType, IsInjective
<1>6. WorkHolds' BY <1>1, <1>2, <1>3 DEF WorkHolds
<1>7. PoolHolds' BY <1>4 DEF PoolHolds
<1>8. AddressesHold' BY <1>3 DEF AddressesHold
<1> QED BY <1>5, <1>6, <1>7, <1>8

\* A cleanup leaves no server, or the network that its servers are in.
LEMMA CleanupHolds ==
  ASSUME IInv, CleanupOnFailure
  PROVE  IInv'
<1> USE DEF IInv
<1>1. PICK kept \in SUBSET I!Found :
        /\ I!Destroy(kept) /\ (faults' = faults \/ I!Fault)
        /\ NoServers \/ ("network" \in kept /\ UNCHANGED servers)
  BY DEF CleanupOnFailure
<1>2. /\ pass = "cleanup" /\ pass' = "idle" /\ cloud' = I!Left(kept)
      /\ UNCHANGED <<setup, ids, past, known, open>>
  BY <1>1 DEF I!Destroy
<1>3. InfraType' BY <1>1, <1>2, FaultsType DEF InfraType, I!Calls
<1>4. CloudType(cloud)'
  <2>1. CloudType(cloud') BY <1>2, LeftType
  <2> QED BY <1>2, <2>1, ConfigStays DEF CloudType, Subnet
<1>5. PassHolds'
  <2>1. pass' \notin BeyondNetwork
    BY <1>2 DEF BeyondNetwork, BeyondCP, BeyondLB, BeyondWorker, BeyondApply, Beyond6443,
         Beyond50000, BeyondAttach
  <2> QED BY <2>1, NothingBehind
<1>6. ~past BY <1>2 DEF DoneHolds
<1>7. DoneHolds' BY <1>2 DEF DoneHolds
<1>8. I!Operator' = I!Operator /\ ~I!Operator BY <1>2, ConfigStays DEF ApplyHolds
<1>9. FirstFault' BY <1>8 DEF FirstFault
<1>10. ApplyHolds' BY <1>2, <1>8 DEF ApplyHolds
<1>11. OneFaultIsMended' BY <1>2, <1>6 DEF OneFaultIsMended, I!OneFaultIsMended
<1>12. CASE NoServers
  BY <1>3, <1>4, <1>5, <1>7, <1>9, <1>10, <1>11, <1>12, NoServersHold
<1>13. CASE "network" \in kept /\ UNCHANGED servers
  <2>1. ServersType' BY <1>13 DEF servers, ServersType
  <2>2. TaskNames' = TaskNames BY <1>13 DEF servers, TaskNames
  <2>3. WorkHolds' BY <1>13, <2>2 DEF servers, WorkHolds
  <2>4. PoolHolds' BY <1>13, <2>2 DEF servers, PoolHolds
  <2>5. AddressesHold'
    <3>1. cloud'.network = cloud.network BY <1>2, <1>13 DEF I!Left
    <3>2. Has("control-plane")' = Has("control-plane") BY <1>2, <3>1, ConfigStays DEF Has
    <3> QED BY <1>13, <3>2 DEF servers, AddressesHold
  <2> QED BY <1>3, <1>4, <1>5, <1>7, <1>9, <1>10, <1>11, <2>1, <2>3, <2>4, <2>5
<1> QED BY <1>1, <1>12, <1>13

\* Nothing moves.
LEMMA StutterHolds ==
  ASSUME IInv, UNCHANGED vars
  PROVE  IInv'
<1> USE DEF IInv
<1>1. UNCHANGED <<setup, cloud, ids, past, pass, known, open, faults>> /\ UNCHANGED servers
  BY DEF vars, infra
<1>2. InfraType' BY <1>1 DEF InfraType
<1>3. CloudType(cloud)' BY <1>1, CloudStays
<1>4. /\ I!Config' = I!Config /\ I!Feasible' = I!Feasible /\ I!Whole' = I!Whole
      /\ I!Operator' = I!Operator
  BY <1>1, ConfigStays, WholeStays
<1>5. /\ Has("control-plane")' = Has("control-plane")
      /\ Has("load-balancer")' = Has("load-balancer")
      /\ Has("worker")' = Has("worker")
  BY <1>1, ConfigStays DEF Has
<1>6. PassHolds' BY <1>1, <1>4, <1>5 DEF PassHolds, I!Attached, I!ParseCIDR, I!Size, I!Range
<1>7. DoneHolds' BY <1>1, <1>4 DEF DoneHolds
<1>8. FirstFault' BY <1>1, <1>4 DEF FirstFault, I!Found, I!HasNetwork
<1>9. OneFaultIsMended' BY <1>1, <1>4 DEF OneFaultIsMended, I!OneFaultIsMended
<1>10. ServersType' BY <1>1 DEF servers, ServersType
<1>11. TaskNames' = TaskNames BY <1>1 DEF servers, TaskNames
<1>12. WorkHolds' BY <1>1, <1>11 DEF servers, WorkHolds
<1>13. PoolHolds' BY <1>1, <1>11 DEF servers, PoolHolds
<1>14. AddressesHold' BY <1>1, <1>5 DEF servers, AddressesHold
<1>15. ApplyHolds' BY <1>1, <1>4 DEF ApplyHolds
<1> QED BY <1>2, <1>3, <1>6, <1>7, <1>8, <1>9, <1>10, <1>12, <1>13, <1>14, <1>15

\* One step of the two phases is one of theirs, a cleanup, or nothing.
LEMMA NextParts ==
  ASSUME [Next]_vars
  PROVE  \/ (I!Pass \/ I!Crash \/ (I!Lose /\ listed = <<>>)) /\ UNCHANGED servers
         \/ ServersStep /\ UNCHANGED infra
         \/ ServersStep /\ past /\ ~I!Operator
            /\ \E next \in {"idle", "cleanup"} : I!Fail(next)
         \/ CleanupOnFailure
         \/ UNCHANGED vars
<1>1. CASE InfrastructurePhase BY <1>1 DEF InfrastructurePhase
<1>2. CASE ComputePhase BY <1>2 DEF ComputePhase, ServersStep
<1>3. CASE CleanupOnFailure BY <1>3
<1>4. CASE Disturbance BY <1>4 DEF Disturbance, ComputeStops, ServersStep
<1>5. CASE Done BY <1>5 DEF Done
<1> QED BY <1>1, <1>2, <1>3, <1>4, <1>5 DEF Next, Pass

\* What the phases have made, what their passes have behind them and what the
\* tasks have reached hold throughout.
THEOREM Invariance == Spec => []IInv
<1>1. IInv /\ [Next]_vars => IInv'
  BY NextParts, InfrastructureHolds, ServersHold, FailureHolds, CleanupHolds, StutterHolds
<1> QED BY <1>1, InitHolds, PTL DEF Spec

-----------------------------------------------------------------------------

\* What a task is made of.
LEMMA TaskFields ==
  ASSUME ServersType
  PROVE  /\ Len(tasks) \in Nat /\ DOMAIN tasks = 1..Len(tasks)
         /\ \A i \in DOMAIN tasks : tasks[i].name \in Names /\ tasks[i].address \in 2..6
                                    /\ tasks[i].stage \in C!Stages
<1>1. tasks \in Seq(Task) BY DEF ServersType
<1>2. Len(tasks) \in Nat /\ DOMAIN tasks = 1..Len(tasks) BY <1>1
<1>3. \A i \in DOMAIN tasks : tasks[i] \in Task BY <1>1
<1>4. \A t \in Task : t.name \in Names /\ t.address \in 2..6 /\ t.stage \in C!Stages
  BY DEF Task
<1> QED BY <1>2, <1>3, <1>4

\* In every state of the two phases, the infrastructure provisioner's and the
\* compute provisioner's, every variable has its type: no name is listed twice and
\* no address is given to two servers.
THEOREM TypeCorrect == Spec => []TypeOK
<1>1. IInv => TypeOK
  <2> SUFFICES ASSUME IInv PROVE TypeOK OBVIOUS
  <2> USE DEF IInv
  <2>1. I!TypeOK
    <3>1. /\ setup \in Setups /\ ids \subseteq I!IDs /\ known \subseteq I!IDs
          /\ past \in BOOLEAN /\ open \in BOOLEAN /\ pass \in I!Calls
          /\ faults \in 0..MaxFaults
      BY DEF InfraType
    <3>2. cloud.network.range \in {I!NoRange, I!ParseCIDR(I!Config.network)}
      BY DEF CloudType
    <3>3. cloud.network.subnets
            \subseteq {I!SubnetForRole(I!Config, r) : r \in I!Roles} \ {I!NoRange}
      BY DEF CloudType, Subnet
    <3>4. cloud.firewall \in [made : BOOLEAN, ports : SUBSET I!Services, applied : BOOLEAN]
      BY DEF CloudType
    <3>5. I!BalancerHost \in Nat \cup {I!NoHost}
      <4>1. CASE Subnet("load-balancer") = I!NoRange BY <3>1, <4>1, BalancerPlace
      <4>2. CASE Subnet("load-balancer") # I!NoRange
        <5>1. I!BalancerHost = First + 254 /\ First \in Nat BY <3>1, <4>2, BalancerPlace
        <5> QED BY <5>1
      <4> QED BY <4>1, <4>2
    <3>6. cloud.balancer \in [made : BOOLEAN, services : SUBSET I!Services,
                              host : Nat \cup {I!NoHost}, targets : BOOLEAN]
      BY <3>5 DEF CloudType
    <3> QED BY <3>1, <3>2, <3>3, <3>4, <3>6 DEF I!TypeOK
  <2>2. C!TypeOK
    <3>1. /\ want \in Counts
          /\ listed \in Seq(Names) /\ C!IsInjective(listed)
          /\ DOMAIN address \subseteq C!ToSet(listed) /\ C!IsInjective(address)
          /\ \A s \in DOMAIN address : address[s] \in 2..6
          /\ on \subseteq DOMAIN address /\ created \subseteq Names
          /\ phase \in {"waiting", "listing", "making", "complete"}
      BY ComputeUses DEF ServersType
    <3>2. C!ToSet(listed) \subseteq Names BY <3>1, ComputeUses DEF ToSet
    <3>3. \A i \in DOMAIN tasks : tasks[i].name \in Names /\ tasks[i].address \in 2..6
                                  /\ tasks[i].stage \in C!Stages
      BY TaskFields
    <3>4. C!IsInjective([i \in DOMAIN tasks |-> tasks[i].name])
      BY DEF ServersType, C!IsInjective
    <3>5. faults \in 0..MaxFaults BY DEF InfraType
    <3> QED BY <3>1, <3>2, <3>3, <3>4, <3>5 DEF C!TypeOK
  <2> QED BY <2>1, <2>2 DEF TypeOK
<1> QED BY <1>1, Invariance, PTL

\* When the infrastructure phase is over everything it makes is there, where that
\* can be had: an apply's whatever failed before and however often, the operator's
\* as long as at most one thing has gone wrong.
THEOREM FirstFaultIsMended == Spec => []OneFaultIsMended
<1>1. IInv => OneFaultIsMended BY DEF IInv
<1> QED BY <1>1, Invariance, PTL

\* A compute pass that succeeds leaves every server it made itself in the network
\* and running, whichever of its parallel tasks ran when.
THEOREM OwnServersRun == Spec => []OwnServersWork
<1>1. IInv => OwnServersWork
  BY DEF IInv, WorkHolds, TaskNames, OwnServersWork, C!OwnServersWork
<1> QED BY <1>1, Invariance, PTL

\* The addresses the compute phase gives to servers lie in a subnet of the network
\* and are never the balancer's, for every range spec.network may ask for.
THEOREM AddressesAreApart == Spec => []AddressesApart
<1>1. IInv => AddressesApart
  <2> SUFFICES ASSUME IInv, NEW s \in DOMAIN address
               PROVE  /\ \E r \in cloud.network.subnets : I!Within(r, I!Range(HostOf(s), 32))
                      /\ HostOf(s) # cloud.balancer.host
    BY DEF AddressesApart
  <2>1. setup \in Setups BY DEF IInv, InfraType
  <2>2. address[s] \in 2..6 BY DEF IInv, ServersType
  <2>3. Subnet("control-plane") \in cloud.network.subnets
    BY DEF IInv, AddressesHold, Has
  <2>4. Subnet("control-plane") # I!NoRange BY <2>3 DEF IInv, CloudType
  <2>5. /\ First \in Nat /\ HostOf(s) = First + address[s]
        /\ I!Within(Subnet("control-plane"), I!Range(First + address[s], 32))
    BY <2>1, <2>2, <2>4, ServerPlace DEF HostOf, ServersSubnet, Subnet
  <2>6. cloud.balancer.host \in {I!NoHost, I!BalancerHost} BY DEF IInv, CloudType
  <2>7. cloud.balancer.host \in {-1, First + 254}
    BY <2>1, <2>6, BalancerPlace DEF I!NoHost
  <2>8. HostOf(s) # cloud.balancer.host BY <2>2, <2>5, <2>7
  <2> QED BY <2>3, <2>5, <2>8
<1> QED BY <1>1, Invariance, PTL

\* Servers get more only by the create of a task.
LEMMA OnlyCreatesGrow ==
  ASSUME ServersType, WorkHolds, ServersStep, Len(listed') > Len(listed)
  PROVE  \E i \in DOMAIN tasks : C!CreateServer(i) /\ listed' = Append(listed, tasks[i].name)
<1>1. Len(listed) \in Nat BY DEF ServersType
<1>2. listed' # listed BY <1>1
<1>3. ~(C!Provision \/ C!PlanPool \/ C!PassEnds \/ C!Crash \/ C!EditCount)
  BY <1>2 DEF C!Provision, C!PlanPool, C!PassEnds, C!Crash, C!EditCount
<1>4. \A i, subnet : ~(C!EnsureServer(i) \/ C!Attach(i, subnet) \/ C!PowerOn(i)
                         \/ C!ReadAddress(i))
  BY <1>2 DEF C!EnsureServer, C!Attach, C!PowerOn, C!ReadAddress
<1>5. \A i \in DOMAIN listed : ~C!LoseServer(i)
  <2> SUFFICES ASSUME NEW i \in DOMAIN listed, C!LoseServer(i) PROVE FALSE OBVIOUS
  <2>1. listed' = RemoveAt(listed, i) BY ComputeUses DEF C!LoseServer
  <2>2. Len(RemoveAt(listed, i)) <= Len(listed) BY RemoveOne DEF ServersType
  <2>3. Len(listed') <= Len(listed) BY <2>1, <2>2
  <2> QED BY <1>1, <2>3
<1>6. \E i \in DOMAIN tasks : C!CreateServer(i)
  BY <1>3, <1>4, <1>5 DEF ServersStep, C!Pass
<1>7. \A i : C!CreateServer(i) => listed' \in {listed, Append(listed, tasks[i].name)}
  BY DEF C!CreateServer
<1> QED BY <1>2, <1>6, <1>7

\* A server is made only while the pool has fewer than the pass was asked for,
\* however many passes have failed or stopped before, and whatever they left.
THEOREM NoSurplus == Spec => NoSurplusServers
<1>1. IInv /\ IInv' /\ [Next]_vars
        => [Len(listed') > Len(listed) => Len(listed') <= Len(tasks)]_vars
  <2> SUFFICES ASSUME IInv, IInv', [Next]_vars, Len(listed') > Len(listed)
               PROVE  Len(listed') <= Len(tasks)
    OBVIOUS
  <2>1. Len(listed) \in Nat BY DEF IInv, ServersType
  <2>2. listed' # listed BY <2>1
  <2>3. ServersStep
    <3>1. CASE CleanupOnFailure
      <4>1. listed' = <<>> BY <2>2, <3>1 DEF CleanupOnFailure, NoServers, servers
      <4>2. Len(listed') = 0 BY <4>1
      <4> QED BY <2>1, <4>2
    <3> QED BY <2>2, <3>1, NextParts DEF servers, vars
  <2>4. PICK i \in DOMAIN tasks : C!CreateServer(i) /\ listed' = Append(listed, tasks[i].name)
    BY <2>3, OnlyCreatesGrow DEF IInv
  <2>5. tasks[i].stage = "create" BY <2>4 DEF C!CreateServer
  <2>6. phase = "making" BY <2>5 DEF IInv, WorkHolds
  <2>7. tasks[i].name \notin ToSet(listed)
    <3>1. listed' = listed \/ tasks[i].name \notin ToSet(listed)
      BY <2>4, ComputeUses DEF C!CreateServer
    <3> QED BY <2>2, <3>1
  <2>8. ToSet(listed) \subseteq TaskNames
    BY <2>6, <2>7 DEF IInv, PoolHolds, TaskNames
  <2>9. ToSet(listed') \subseteq TaskNames
    <3>1. listed \in Seq(Names) /\ tasks[i].name \in Names /\ IsInjective(listed)
      BY TaskFields DEF IInv, ServersType
    <3>2. ToSet(listed') = ToSet(listed) \cup {tasks[i].name}
      BY <2>4, <2>7, <3>1, AppendNew
    <3> QED BY <2>8, <3>2 DEF TaskNames
  <2>10. IsFiniteSet(TaskNames) /\ Cardinality(TaskNames) = Len(tasks)
    <3> DEFINE names == [j \in 1..Len(tasks) |-> tasks[j].name]
    <3>1. /\ Len(tasks) \in Nat /\ DOMAIN tasks = 1..Len(tasks)
          /\ \A j \in DOMAIN tasks : tasks[j].name \in Names
          /\ \A a, b \in DOMAIN tasks : tasks[a].name = tasks[b].name => a = b
      BY TaskFields DEF IInv, ServersType
    <3>2. names \in Seq(Names) /\ Len(names) = Len(tasks) BY <3>1
    <3>3. IsInjective(names) BY <3>1 DEF IsInjective
    <3>4. ToSet(names) = TaskNames BY <3>1 DEF ToSet, TaskNames
    <3> HIDE DEF names
    <3> QED BY <3>2, <3>3, <3>4, LengthIsCardinality
  <2>11. Cardinality(ToSet(listed')) = Len(listed')
    BY LengthIsCardinality DEF IInv, ServersType
  <2>12. Cardinality(ToSet(listed')) <= Cardinality(TaskNames)
    BY <2>9, <2>10, FS_Subset
  <2> QED BY <2>10, <2>11, <2>12
<1> QED BY <1>1, Invariance, PTL DEF Spec, NoSurplusServers
=============================================================================
