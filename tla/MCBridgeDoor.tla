---------------------------- MODULE MCBridgeDoor ----------------------------
(* The door on a small instance. *)
EXTENDS BridgeDoor, TLC

(* Connection ids are interchangeable: no action or safety property tells  *)
(* one from another.                                                       *)
ConnSymmetry == Permutations(Conn)
=============================================================================
