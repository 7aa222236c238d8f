------------------------------- MODULE MCFold -------------------------------
(* FoldPipe with its invariant, and what it publishes opened again, for TLC. *)
EXTENDS FoldPipeInvariant, FoldRepair
=============================================================================
