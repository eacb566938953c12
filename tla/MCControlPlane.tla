--------------------------- MODULE MCControlPlane ---------------------------
(***************************************************************************)
(* TLC instances of ControlPlane.                                          *)
(***************************************************************************)
EXTENDS ControlPlane, TLC

\* Servers are interchangeable: the operator draws their names at random.
Symmetry == Permutations(Servers)

=============================================================================
