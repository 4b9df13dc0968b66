----------------------------- MODULE MCLruCache -----------------------------
(* An instance of LruCache for TLC. *)
EXTENDS LruCache

CONSTANTS k1, k2, k3, v1, v2
=============================================================================
