--------------------------- MODULE MCAnchorNursery ---------------------------
(* Instances of AnchorNursery for model checking. *)
EXTENDS AnchorNursery, TLC

CONSTANTS r1, r2

ConnSymmetry == Permutations(Conn) \cup Permutations(Region)
=============================================================================
