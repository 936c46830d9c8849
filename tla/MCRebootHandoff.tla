-------------------------- MODULE MCRebootHandoff --------------------------
(* Symmetry for the instances of RebootHandoff: neither processes nor users *)
(* are told apart by the specification.                                     *)
EXTENDS RebootHandoff, TLC

Symmetric == Permutations(Procs) \cup Permutations(Users)
=============================================================================
