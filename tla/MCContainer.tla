---------------------------- MODULE MCContainer ----------------------------
(* Container.tla with its invariant on a small file, for TLC. *)
EXTENDS ContainerInvariant
=============================================================================
