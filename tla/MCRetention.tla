---------------------------- MODULE MCRetention ----------------------------
(* Retention.tla with a few ids and publications, for TLC. *)
EXTENDS Retention

RetentionSymmetry == Permutations(Ids)
=============================================================================
