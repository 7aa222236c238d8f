----------------------------- MODULE DurableMap -----------------------------
(***************************************************************************)
(* What the store promises its callers: a map from ids to values that      *)
(* mutations change one whole batch at a time.  A crash takes it back to   *)
(* no earlier than the last acknowledgement, and never to a map that was   *)
(* not shown since: no half batch, no record from before, no lost delete.  *)
(***************************************************************************)
CONSTANTS Views,  \* the maps from ids to values
          Empty,  \* the one with no id
          Refused \* a store that will not open

VARIABLES view,      \* the map
          promised   \* the maps it has been since the last acknowledgement

Init == view = Empty /\ promised = {Empty}

Accept == view # Refused /\ view' \in Views /\ promised' = promised \cup {view'}

Acknowledge == promised' = {view} /\ UNCHANGED view

Crash ==
    /\ view' \in promised \cup {Refused}
    /\ promised' \in {{view'}, promised}

Next == Accept \/ Acknowledge \/ Crash

Spec == Init /\ [][Next]_<<view, promised>>

=============================================================================
