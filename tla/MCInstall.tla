------------------------------ MODULE MCInstall ------------------------------
(* Install.tla and its invariant with two processes, for TLC. *)
EXTENDS InstallInvariant

InstallSymmetry == Permutations(Processes)
=============================================================================
