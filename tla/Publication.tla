---------------------------- MODULE Publication ----------------------------
(***************************************************************************)
(* What the container promises the layers above it (FORMAT.md,             *)
(* "Publication"): one current state, replaced whole; a power loss leaves  *)
(* the current state or the one before it, never a mixture, and never      *)
(* takes back a state whose publication has been acknowledged.             *)
(***************************************************************************)
EXTENDS Naturals

CONSTANTS Content,   \* what a container state may hold
          Nothing    \* what it holds at birth

VARIABLES current,   \* the state every process selects
          floor      \* the state a power loss is sure to leave selectable

Init ==
    /\ current = [seq |-> 0, content |-> Nothing]
    /\ floor = current

\* The predecessor is durable before its successor can be selected.
Publish(c) ==
    /\ current' = [seq |-> current.seq + 1, content |-> c]
    /\ floor' = current

Acknowledge == floor' = current /\ UNCHANGED current

PowerLoss == current' \in {current, floor} /\ floor' = current'

\* Any content may be published: the one that is, is what becomes current.
Publishes == current'.content \in Content /\ Publish(current'.content)

Next == Publishes \/ Acknowledge \/ PowerLoss

Spec == Init /\ [][Next]_<<current, floor>>

=============================================================================
