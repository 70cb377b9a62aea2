------------------------------ MODULE MCSprints ------------------------------
(* Small instances of Sprints for TLC. *)
EXTENDS Sprints, TLC

Symmetry == Permutations(Tx) \cup Permutations(Issue) \cup Permutations(Sprint)

==============================================================================
