----------------------------- MODULE DurableLog -----------------------------
(***************************************************************************)
(* What the store is promised by its write-ahead log: a sequence of units  *)
(* that grows one whole unit at a time; a crash cuts it, between units and *)
(* never into what an acknowledgement covered.  Clearing it is durable     *)
(* only with the next barrier: until then a crash may bring the cleared    *)
(* log back.                                                               *)
(***************************************************************************)
EXTENDS Naturals, Sequences

CONSTANT Units

VARIABLES log,      \* the units, oldest first
          acked,    \* how many the last acknowledgement covers
          cleared   \* logs cleared since the last barrier, with their acked

logVars == <<log, acked, cleared>>

\* What a crash may make of the log l, of which the first n are acknowledged.
Cuts(l, n) == {SubSeq(l, 1, k) : k \in n .. Len(l)}

Init == log = <<>> /\ acked = 0 /\ cleared = {}

Accept(u) == log' = Append(log, u) /\ UNCHANGED <<acked, cleared>>

Acknowledge == acked' = Len(log) /\ cleared' = {} /\ UNCHANGED log

\* A clearing whose barrier fails is seen by everyone and may be undone.
ClearUnsynced ==
    /\ log' = <<>> /\ acked' = 0
    /\ cleared' = cleared \cup {[log |-> log, acked |-> acked]}

Clear == log' = <<>> /\ acked' = 0 /\ cleared' = {}

\* The process dies or a clearing fails: what was only in memory is gone.
Forget == log' \in Cuts(log, acked) /\ UNCHANGED <<acked, cleared>>

\* The power goes: one of the logs the disk may hold is what there is.
Lost == UNION {Cuts(g.log, g.acked) : g \in {[log |-> log, acked |-> acked]} \cup cleared}

Lose == log' \in Lost /\ acked' = Len(log') /\ cleared' = {}

Next == (\E u \in Units : Accept(u)) \/ Acknowledge \/ Clear \/ ClearUnsynced \/ Forget \/ Lose

Spec == Init /\ [][Next]_logVars

=============================================================================
