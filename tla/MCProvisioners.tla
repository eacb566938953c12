--------------------------- MODULE MCProvisioners ---------------------------
(* Instances of Provisioners for TLC: who makes the cluster, for what, and where. *)
EXTENDS Provisioners

S == INSTANCE Subnets

Apply == [by |-> "cli", network |-> S!Unset, node |-> S!Unset,
          peers |-> FALSE, zoneless |-> FALSE]

\* Everything the operator needs is there.
Reconcile(network, node) ==
  [by |-> "operator", network |-> network, node |-> node, peers |-> TRUE, zoneless |-> TRUE]

\* Nothing; 10.1.0.0/16 with 10.1.64.0/19 for the nodes; the network alone; a
\* network written by another of its addresses; a nodes' range for two subnets.
\* Then subnets that need a zone, and a status without an address.
SetupsToCheck ==
  {Apply,
   Reconcile(S!Unset,            S!Unset),
   Reconcile(S!Range(65536, 16), S!Range(65536 + 16384, 19)),
   Reconcile(S!Range(65536, 16), S!Unset),
   Reconcile(S!Range(5, 16),     S!Unset),
   Reconcile(S!Unset,            S!Range(0, 24)),
   [Reconcile(S!Unset, S!Unset) EXCEPT !.zoneless = FALSE],
   [Reconcile(S!Unset, S!Unset) EXCEPT !.peers = FALSE]}
=============================================================================
