----------------------------- MODULE MCContent -----------------------------
(* Content.tla with a few ids and pieces, for TLC. *)
EXTENDS Content, TLC

=============================================================================
