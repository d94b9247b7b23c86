--------------------------- MODULE MCDoorHandshake ---------------------------
(* The handshake and the transport on a small instance. *)
EXTENDS DoorHandshake
=============================================================================
