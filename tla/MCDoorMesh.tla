----------------------------- MODULE MCDoorMesh -----------------------------
(* Instances of DoorMesh for model checking. *)
EXTENDS DoorMesh, TLC

CONSTANTS c1, c2, f1, n1, n2

Symmetry == Permutations(Conn) \cup Permutations(Node)
=============================================================================
