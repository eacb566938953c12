------------------------------- MODULE MCApply -------------------------------
(* Instances of Apply for TLC. *)
EXTENDS Apply

SomeLate == {"w1", "sshKey", "ccmLB"}
OneLate == {"w1"}
=============================================================================
