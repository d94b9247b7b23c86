---------------------------- MODULE MCGraduation ----------------------------
(* Instances of Graduation for model checking: two regions, the first with *)
(* two identities.                                                         *)
EXTENDS Graduation, TLC

CONSTANTS c1, c2, c3, n1, n2, n3

MCRegionOf == [n \in Node |-> IF n = n3 THEN "east" ELSE "west"]
ConnSymmetry == Permutations(Conn)
=============================================================================
