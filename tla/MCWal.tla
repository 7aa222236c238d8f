------------------------------- MODULE MCWal -------------------------------
(* Wal.tla with a short log, for TLC. *)
EXTENDS Wal, TLC

\* Mutations are interchangeable.
WalSymmetry == Permutations(Mutations)
=============================================================================
