---------------------------- MODULE MCDoorTimers ----------------------------
(* The door's timers on a small instance. *)
EXTENDS DoorTimers, TLC
ConnSymmetry == Permutations(Conn)
=============================================================================
