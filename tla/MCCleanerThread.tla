-------------------------- MODULE MCCleanerThread --------------------------
(* An instance of CleanerThread for TLC. *)
EXTENDS CleanerThread

CONSTANTS c1, c2
=============================================================================
