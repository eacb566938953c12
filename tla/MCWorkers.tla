------------------------------ MODULE MCWorkers ------------------------------
(***************************************************************************)
(* TLC instances of Workers.                                               *)
(***************************************************************************)
EXTENDS Workers, TLC

\* Servers are interchangeable: the operator draws their names at random.
Symmetry == Permutations(Servers)

=============================================================================
