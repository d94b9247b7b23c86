--------------------------- MODULE MCDirectoryFeed ---------------------------
(* The directory feed on a small instance. *)
EXTENDS DirectoryFeed

CONSTANTS a, b
=============================================================================
