------------------------------ MODULE Erasure ------------------------------
(***************************************************************************)
(* erase_ids over Content: a call that is made of the store's other calls. *)
(* Tombstones are staged, synced and flushed, all parts merged, and the    *)
(* fold rewritten.  Between any two of them the process may die, and each  *)
(* may refuse.                                                             *)
(***************************************************************************)
EXTENDS Content

VARIABLES erasing,   \* the call erase_ids is about to make, or makes
          victims    \* the ids it has put tombstones on

erasureVars == <<vars, erasing, victims>>

ErasureInit == Init /\ erasing = "none" /\ victims = {}

Ends == erasing' = "none" /\ victims' = {}

\* A call returns its error, which ends the erasure, or the erasure goes on.
Goes(call, then) ==
    /\ call
    /\ IF failures' # failures \/ then = "none" THEN Ends
       ELSE erasing' = then /\ UNCHANGED victims

\* The ids that show a record get a tombstone, all in one batch.
EraseBegins(ids) ==
    /\ opened /\ erasing = "none"
    /\ LET present == {id \in ids : View[id] # Absent}
       IN  /\ present # {}
           /\ Stages([id \in present |-> Deleted])
           /\ erasing' = "sync" /\ victims' = present

\* (Mutant: the tombstones are left to the flush.)
EraseSyncsNothing == erasing = "sync" /\ Goes(UNCHANGED vars, "flush")

EraseSyncs   == erasing = "sync" /\ Goes(Sync, "flush")
EraseFlushes == erasing = "flush" /\ Goes(FlushPublishes \/ FinalBarrier, "flush")

\* A single part needs no merge.
EraseSettles ==
    /\ erasing = "flush"
    /\ Goes(FlushTruncates, IF Len(manifest.parts) > 1 THEN "merge" ELSE "refold")

EraseMerges ==
    /\ erasing = "merge"
    /\ \/ Goes(MergeRange(1, Len(manifest.parts)), "merge")
       \/ Goes(FinalBarrier, "refold")
       \/ /\ phase = "idle" /\ ~MergeBuilds(1, Len(manifest.parts))
          /\ Ends /\ UNCHANGED vars

EraseRefolds ==
    /\ erasing = "refold"
    /\ Goes(Refold, "refold") \/ Goes(FinalBarrier, "none")

Interrupted == erasing # "none" /\ (ProcessDeath \/ PowerLoss) /\ Ends

ErasureNext ==
    \/ erasing = "none" /\ Next /\ UNCHANGED <<erasing, victims>>
    \/ \E ids \in SUBSET Ids : EraseBegins(ids)
    \/ EraseSyncs \/ EraseFlushes \/ EraseSettles \/ EraseMerges \/ EraseRefolds
    \/ Interrupted

ErasureSpec == ErasureInit /\ [][ErasureNext]_erasureVars

-----------------------------------------------------------------------------
(* Properties. *)

\* Nothing of a record that is not shown is left: no row, no tombstone, no
\* dictionary entry and no byte of a piece, and no power loss brings it back.
Erased ==
    /\ \A i \in DOMAIN current.content.parts :
          LET part == current.content.parts[i]
          IN  /\ DOMAIN part.rows = Visible(current.content.parts, i)
              /\ DOMAIN part.dict = Named(part.rows)
    /\ UNION {current.content.blocks[b] : b \in DOMAIN current.content.blocks}
          = {l[2] : l \in LivePieces(current.content.parts)}
    /\ floor = current

\* An erasure that reports completion has erased, whatever was merged, punched,
\* refused or lost before it.
CompletedErasureErases ==
    [][erasing = "refold" /\ erasing' = "none" /\ opened' /\ failures' = failures
       => Erased']_erasureVars

\* Once an erasure is past its sync, no crash at any step of it brings a record
\* back: what opens again, from either state a power loss may leave, has none of
\* the ids.
TombstonesStand ==
    erasing \in {"flush", "merge", "refold"} =>
        \A m \in {current.content, floor.content} :
            \A k \in wal_synced .. Len(wal) :
                Opens(m, SubSeq(wal, 1, k)) =>
                    \A id \in victims : Recovered(m, SubSeq(wal, 1, k))[id] = Absent

=============================================================================
