----------------------------- MODULE MCService -----------------------------
(* Instances of module Service for TLC. *)
EXTENDS ServiceProps
=============================================================================
