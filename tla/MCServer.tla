------------------------------ MODULE MCServer ------------------------------
(* Small instances of Server for TLC. *)
EXTENDS ServerInvariant, TLC

\* Connections, machines and pool threads are interchangeable.
Symmetry ==
  Permutations(Conns) \cup Permutations(Machines) \cup Permutations(Workers)
=============================================================================
