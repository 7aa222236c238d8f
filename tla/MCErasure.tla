----------------------------- MODULE MCErasure -----------------------------
(* Erasure.tla with a few ids and pieces, for TLC. *)
EXTENDS Erasure, TLC

\* Ids are interchangeable.
ErasureSymmetry == Permutations(Ids)
=============================================================================
