------------------------------ MODULE MCStore ------------------------------
(* Store.tla with a few ids and publications, for TLC. *)
EXTENDS Store, TLC

\* Ids are interchangeable, and so are values.
StoreSymmetry == Permutations(Ids) \cup Permutations(Values)

=============================================================================
