---------------------------- MODULE ErasureProofs ----------------------------
(***************************************************************************)
(* Proofs about Erasure: of many calls, any of which may fail or be the    *)
(* last before a crash, an erasure loses nothing the store promised, shows *)
(* no victim again once it has synced, and leaves no byte of one.          *)
(***************************************************************************)
EXTENDS Erasure, ContentProofs

\* Where a publication may stand while the erasure is at one of its calls.
Standing ==
    CASE erasing = "sync"   -> {"idle"}
      [] erasing = "flush"  -> {"idle", "flush", "settle"}
      [] erasing = "merge"  -> {"idle", "merge"}
      [] erasing = "refold" -> {"idle", "refold"}

\* None of the victims shows.
Gone(view) == \A id \in victims : view[id] = Absent

\* While an erasure goes on the handle is open, where its call leaves it, and
\* callers see none of the victims; once it has synced, no crash may show one.
ErasingInv ==
    /\ failures \in Nat
    /\ erasing \in {"none", "sync", "flush", "merge", "refold"}
    /\ erasing # "none" => opened /\ phase \in Standing /\ victims \subseteq Ids /\ Gone(View)
    /\ erasing \in {"flush", "merge", "refold"} => \A view \in promised : Gone(view)

ErasureInv == ContentInv /\ ErasingInv

-----------------------------------------------------------------------------
LEMMA Counted ==
    ASSUME failures \in Nat, [Next]_vars
    PROVE  failures' \in Nat /\ (failures' = failures \/ failures' = failures + 1)
<1>1. UNCHANGED failures \/ failures' = failures + 1 => failures' \in Nat /\ (failures' = failures \/ failures' = failures + 1)
  OBVIOUS
<1>2. CASE UNCHANGED vars
  BY <1>1, <1>2 DEF vars, bounds
<1>3. CASE Mutates
  BY <1>1, <1>3 DEF Mutates, Stages, Fails, Succeeds, bounds
<1>4. CASE Sync \/ FinalBarrier
  BY <1>1, <1>4 DEF Sync, FinalBarrier, Fails, Succeeds, bounds
<1>5. CASE Flushes
  BY <1>1, <1>5 DEF Flushes, FlushPublishes, FlushTruncates, FlushSettles, Publishes, Fails, Succeeds, bounds
<1>6. CASE Maintains
  BY <1>1, <1>6 DEF Maintains, MergeRange, PunchDeclares, PunchesDeclared, PunchBlocks, Refold, Publishes, Fails, Succeeds, bounds
<1>7. CASE ProcessDeath \/ PowerLoss \/ Open
  BY <1>1, <1>7 DEF ProcessDeath, PowerLoss, Open, Crashes, Succeeds, bounds
<1> QED
  BY <1>2, <1>3, <1>4, <1>5, <1>6, <1>7 DEF Next

\* An erasure is made of the store's own calls: each keeps what they keep.
LEMMA CallsKeep ==
    ASSUME ContentInv,
           \/ [Next]_vars
           \/ \E lo, len \in Nat \ {0} : MergeRange(lo, len)
    PROVE  ContentInv' /\ Answered
BY StepKeeps, MergeKeeps

\* The tombstones are staged in one batch, and hide what they are put on.
LEMMA TombstonesHide ==
    ASSUME ContentInv, NEW ids \in SUBSET Ids, ids # {}, Stages([id \in ids |-> Deleted])
    PROVE  /\ ContentInv' /\ Answered /\ opened' = opened /\ phase' = phase /\ failures' = failures
           /\ \A id \in ids : View'[id] = Absent
<1> PICK rows : rows = [id \in ids |-> Deleted]
  OBVIOUS
<1>1. DOMAIN rows = ids /\ \A id \in ids : rows[id] = Deleted
  OBVIOUS
<1>2. rows \in Rows \ {NoRows}
  <2>1. rows \in [ids -> Values \cup {Deleted}]
    BY <1>1
  <2>2. DOMAIN NoRows = {}
    BY NoRowsIs
  <2> QED
    BY <1>1, <2>1, <2>2 DEF Rows
<1>3. Stages(rows) /\ Named(rows) = {}
  BY <1>1 DEF Named
<1>4. mem' = Over(mem, rows) /\ UNCHANGED <<opened, phase, failures>> /\ CanStage
  BY <1>3 DEF Stages, Succeeds, bounds, job
<1>5. ContentInv' /\ Answered
  BY <1>2, <1>3, StagesKeeps
<1>6. opened' /\ View' = Shows(manifest', mem')
  <2>1. opened'
    BY <1>4 DEF CanStage, EnsureWriterUsable
  <2>2. View' = Seen'
    BY <1>5, ViewIsNext DEF ViewSeen, ContentInv
  <2> QED
    BY <2>1, <2>2 DEF Seen
<1>7. ASSUME NEW id \in ids PROVE View'[id] = Absent
  <2> PICK base : base = Over(NewestRows(manifest'.parts), mem')
    OBVIOUS
  <2>1. base[id] = Deleted
    BY <1>1, <1>4 DEF Over
  <2>2. Shown(base)[id] = Absent
    BY <1>7, <2>1 DEF Shown
  <2> QED
    BY <1>6, <2>2 DEF Shows
<1> QED
  BY <1>4, <1>5, <1>7

\* An erasure ends, or goes on over the same ids.
LEMMA GoesOn ==
    ASSUME NEW call, NEW then, Goes(call, then)
    PROVE  /\ call
           /\ \/ erasing' = "none" /\ (failures' # failures \/ then = "none")
              \/ erasing' = then /\ victims' = victims /\ failures' = failures /\ then # "none"
BY DEF Goes, Ends

\* Every call that an erasure makes, and what may interrupt it.
LEMMA ErasureCalls ==
    ASSUME ErasureInv, [ErasureNext]_erasureVars
    PROVE  /\ ContentInv' /\ Answered /\ failures' \in Nat
           /\ erasing = "none" \/ erasing' = "none" \/ UNCHANGED victims
<1>0. ContentInv /\ failures \in Nat /\ erasing \in {"none", "sync", "flush", "merge", "refold"}
  BY DEF ErasureInv, ErasingInv
<1>1. ASSUME [Next]_vars \/ \E lo, len \in Nat \ {0} : MergeRange(lo, len)
      PROVE  ContentInv' /\ Answered /\ failures' \in Nat
  <2>1. ContentInv' /\ Answered
    BY <1>0, <1>1, CallsKeep
  <2>2. CASE [Next]_vars
    BY <1>0, <2>1, <2>2, Counted
  <2>3. CASE \E lo, len \in Nat \ {0} : MergeRange(lo, len)
    BY <1>0, <2>1, <2>3 DEF MergeRange, Publishes, Fails, Succeeds, bounds
  <2> QED
    BY <1>1, <2>2, <2>3
<1>2. CASE UNCHANGED erasureVars
  BY <1>1, <1>2 DEF erasureVars
<1>3. CASE erasing = "none" /\ Next /\ UNCHANGED <<erasing, victims>>
  BY <1>1, <1>3
<1>4. ASSUME NEW ids \in SUBSET Ids, EraseBegins(ids)
      PROVE  ContentInv' /\ Answered /\ failures' \in Nat /\ erasing = "none"
  <2> PICK present : present = {id \in ids : View[id] # Absent}
    OBVIOUS
  <2>1. present \in SUBSET Ids /\ present # {} /\ Stages([id \in present |-> Deleted]) /\ erasing = "none"
    BY <1>4 DEF EraseBegins
  <2> QED
    BY <1>0, <2>1, TombstonesHide
<1>5. CASE EraseSyncs
  BY <1>1, <1>5, GoesOn DEF EraseSyncs, Next
<1>6. CASE EraseFlushes
  BY <1>1, <1>6, GoesOn DEF EraseFlushes, Next, Flushes
<1>7. CASE EraseSettles
  BY <1>1, <1>7, GoesOn DEF EraseSettles, Next, Flushes
<1>8. CASE EraseMerges
  <2>1. CASE Goes(MergeRange(1, Len(manifest.parts)), "merge")
    <3> PICK n : n = Len(manifest.parts)
      OBVIOUS
    <3>1. MergeRange(1, n)
      BY <2>1, GoesOn
    <3>2. n \in Nat /\ 1 + n - 1 <= n /\ n >= 2
      <4>1. manifest \in ManifestType
        BY <1>0 DEF ContentInv, TypeOK
      <4> QED
        BY <3>1, <4>1, ManifestIs DEF MergeRange
    <3>3. 1 \in Nat \ {0} /\ n \in Nat \ {0}
      BY <3>2
    <3>4. ContentInv' /\ Answered /\ failures' \in Nat
      BY <1>1, <3>1, <3>3
    <3> QED
      BY <2>1, <3>4, GoesOn
  <2>2. CASE Goes(FinalBarrier, "refold")
    BY <1>1, <2>2, GoesOn DEF Next
  <2>3. CASE Ends /\ UNCHANGED vars
    BY <1>1, <2>3 DEF Ends
  <2> QED
    BY <1>8, <2>1, <2>2, <2>3 DEF EraseMerges
<1>9. CASE EraseRefolds
  <2>1. CASE Goes(Refold, "refold")
    BY <1>1, <2>1, GoesOn DEF Next, Maintains
  <2>2. CASE Goes(FinalBarrier, "none")
    BY <1>1, <2>2, GoesOn DEF Next
  <2> QED
    BY <1>9, <2>1, <2>2 DEF EraseRefolds
<1>10. CASE Interrupted
  BY <1>1, <1>10 DEF Interrupted, Ends, Next
<1> QED
  BY <1>2, <1>3, <1>4, <1>5, <1>6, <1>7, <1>8, <1>9, <1>10 DEF ErasureNext

\* The barrier that ends a publication of the kind.
LEMMA BarrierOnward ==
    ASSUME ContentInv, failures \in Nat, FinalBarrier, failures' = failures
    PROVE  /\ opened' /\ View' = View /\ Publishing
           /\ (phase = "flush" => phase' = "settle" /\ promised' = {View})
           /\ (phase \in {"merge", "refold"} => phase' = "idle" /\ promised' = promised)
           /\ current' = current /\ floor' = current
<1>1. ContentInv' /\ View' = View
  BY BarrierKeeps
<1>2. failures' # failures + 1
  OBVIOUS
<1>3. /\ Container!Acknowledge /\ Adopts /\ opened
      /\ phase' = CASE phase = "flush" -> "settle" [] phase = "punch" -> "punching" [] OTHER -> "idle"
      /\ promised' = IF phase = "flush" THEN {View} ELSE promised
  BY <1>2 DEF FinalBarrier, Fails
<1>4. opened' = opened
  BY <1>3 DEF Adopts
<1>5. current' = current /\ floor' = current
  BY <1>3 DEF Container!Acknowledge
<1>6. Publishing
  BY DEF FinalBarrier, Publishing
<1> QED
  BY <1>1, <1>3, <1>4, <1>5, <1>6

\* A publication of maintenance or a flush, seen from outside.
LEMMA PublicationOnward ==
    ASSUME failures \in Nat, NEW m, NEW kind, Publishes(m, kind), failures' = failures
    PROVE  opened' = opened /\ phase' = kind /\ promised' = promised
<1>1. failures' # failures + 1
  OBVIOUS
<1> QED
  BY <1>1 DEF Publishes, Fails

\* The invariant of the erasure itself, after each of its calls.
LEMMA CallsStand ==
    ASSUME ErasureInv, [ErasureNext]_erasureVars
    PROVE  ErasingInv'
<1>0. /\ ContentInv /\ failures \in Nat /\ erasing \in {"none", "sync", "flush", "merge", "refold"}
      /\ (erasing # "none" => opened /\ phase \in Standing /\ victims \subseteq Ids /\ Gone(View))
      /\ (erasing \in {"flush", "merge", "refold"} => \A view \in promised : Gone(view))
      /\ failures' \in Nat
  BY ErasureCalls DEF ErasureInv, ErasingInv
<1>1. ASSUME erasing' = "none" PROVE ErasingInv'
  BY <1>0, <1>1 DEF ErasingInv
<1>2. ASSUME erasing' \in {"sync", "flush", "merge", "refold"}, opened', phase' \in Standing',
             victims' \subseteq Ids, \A id \in victims' : View'[id] = Absent,
             erasing' \in {"flush", "merge", "refold"} =>
               \A view \in promised' : \A id \in victims' : view[id] = Absent
      PROVE  ErasingInv'
  BY <1>0, <1>2 DEF ErasingInv, Gone
<1>3. ASSUME erasing \in {"flush", "merge", "refold"}, erasing' \in {"flush", "merge", "refold"}, opened', phase' \in Standing',
             UNCHANGED victims, View' = View, promised' \in {promised, {View}}
      PROVE  ErasingInv'
  <2>1. \A id \in victims' : View'[id] = Absent
    BY <1>0, <1>3 DEF Gone
  <2>2. \A view \in promised' : \A id \in victims' : view[id] = Absent
    BY <1>0, <1>3 DEF Gone
  <2> QED
    BY <1>0, <1>2, <1>3, <2>1, <2>2
<1>4. CASE UNCHANGED erasureVars
  <2>1. UNCHANGED <<container, holes, log, handle, job, promised, opened, phase, erasing, victims>>
    BY <1>4 DEF erasureVars, vars, handle, job
  <2>2. View' = View
    BY <1>0, <2>1, Stutters
  <2>3. Standing' = Standing
    BY <2>1 DEF Standing
  <2>4. CASE erasing = "none"
    BY <1>1, <2>1, <2>4
  <2>5. CASE erasing # "none"
    BY <1>0, <1>2, <2>1, <2>2, <2>3, <2>5 DEF Gone
  <2> QED
    BY <2>4, <2>5
<1>5. CASE erasing = "none" /\ Next /\ UNCHANGED <<erasing, victims>>
  BY <1>1, <1>5
<1>6. ASSUME NEW ids \in SUBSET Ids, EraseBegins(ids) PROVE ErasingInv'
  <2> PICK present : present = {id \in ids : View[id] # Absent}
    OBVIOUS
  <2>1. /\ present \in SUBSET Ids /\ present # {} /\ Stages([id \in present |-> Deleted])
        /\ opened /\ erasing' = "sync" /\ victims' = present
    BY <1>6 DEF EraseBegins
  <2>2. opened' = opened /\ phase' = phase /\ \A id \in present : View'[id] = Absent
    BY <1>0, <2>1, TombstonesHide
  <2>3. phase = "idle"
    BY <2>1 DEF Stages, CanStage, EnsureWriterUsable
  <2>4. phase' \in Standing'
    BY <2>1, <2>2, <2>3 DEF Standing
  <2> QED
    BY <1>2, <2>1, <2>2, <2>4
<1>7. CASE EraseSyncs
  <2>1. erasing = "sync" /\ Sync /\ (erasing' = "none" \/ (erasing' = "flush" /\ victims' = victims /\ failures' = failures))
    BY <1>7 DEF Goes, Ends, EraseSyncs
  <2>2. ASSUME erasing' = "flush", victims' = victims, failures' = failures PROVE ErasingInv'
    <3>1. failures' # failures + 1
      BY <1>0, <2>2
    <3>2. promised' = {View} /\ opened' = opened /\ phase' = phase
      BY <2>1, <3>1 DEF Sync, Fails, job
    <3>3. View' = View
      BY <1>0, <2>1, SyncKeeps
    <3>4. phase' \in Standing'
      BY <1>0, <2>1, <2>2, <3>2 DEF Standing
    <3>5. \A view \in promised' : \A id \in victims' : view[id] = Absent
      BY <1>0, <2>1, <2>2, <3>2 DEF Gone
    <3>6. opened' /\ victims' \subseteq Ids /\ \A id \in victims' : View'[id] = Absent
      BY <1>0, <2>1, <2>2, <3>2, <3>3 DEF Gone
    <3> QED
      BY <1>2, <2>2, <3>4, <3>5, <3>6
  <2> QED
    BY <1>1, <2>1, <2>2
<1>8. CASE EraseFlushes
  <2>1. erasing = "flush" /\ (FlushPublishes \/ FinalBarrier)
        /\ (erasing' = "none" \/ (erasing' = "flush" /\ victims' = victims /\ failures' = failures))
    BY <1>8 DEF Goes, Ends, EraseFlushes
  <2>2. phase \in {"idle", "flush", "settle"} /\ opened
    BY <1>0, <2>1 DEF Standing
  <2>3. ASSUME erasing' = "flush", victims' = victims, failures' = failures PROVE ErasingInv'
    <3>1. CASE FlushPublishes
      <4>1. View' = View
        BY <1>0, <3>1, FlushKeeps
      <4>2. opened' = opened /\ phase' = "flush" /\ promised' = promised
        BY <1>0, <2>3, <3>1, PublicationOnward DEF FlushPublishes
      <4> QED
        BY <1>3, <2>1, <2>2, <2>3, <4>1, <4>2 DEF Standing
    <3>2. CASE FinalBarrier
      <4>1. opened' /\ View' = View /\ Publishing /\ (phase = "flush" => phase' = "settle" /\ promised' = {View})
        BY <1>0, <2>3, <3>2, BarrierOnward
      <4>2. phase = "flush"
        BY <2>2, <4>1 DEF Publishing
      <4> QED
        BY <1>3, <2>1, <2>3, <4>1, <4>2 DEF Standing
    <3> QED
      BY <2>1, <3>1, <3>2
  <2> QED
    BY <1>1, <2>1, <2>3
<1>9. CASE EraseSettles
  <2>1. erasing = "flush" /\ FlushTruncates
        /\ (erasing' = "none" \/ (erasing' \in {"merge", "refold"} /\ victims' = victims))
    BY <1>9 DEF Goes, Ends, EraseSettles
  <2>2. View' = View
    BY <1>0, <2>1, TruncationKeeps
  <2>3. opened' = opened /\ opened /\ phase' = "idle" /\ promised' = promised
    BY <2>1 DEF FlushTruncates, TruncatesLog
  <2>4. ASSUME erasing' \in {"merge", "refold"}, victims' = victims PROVE ErasingInv'
    <3>1. phase' \in Standing'
      BY <2>3, <2>4 DEF Standing
    <3> QED
      BY <1>3, <2>1, <2>2, <2>3, <2>4, <3>1
  <2> QED
    BY <1>1, <2>1, <2>4
<1>10. CASE EraseMerges
  <2>1. erasing = "merge" /\ opened /\ phase \in {"idle", "merge"}
    BY <1>0, <1>10 DEF EraseMerges, Standing
  <2>2. CASE Goes(MergeRange(1, Len(manifest.parts)), "merge")
    <3> PICK n : n = Len(manifest.parts)
      OBVIOUS
    <3>1. MergeRange(1, n) /\ (erasing' = "none" \/ (erasing' = "merge" /\ victims' = victims /\ failures' = failures))
      BY <2>2 DEF Goes, Ends
    <3>2. ASSUME erasing' = "merge", victims' = victims, failures' = failures PROVE ErasingInv'
      <4>1. n \in Nat \ {0} /\ 1 \in Nat \ {0}
        <5>1. manifest \in ManifestType
          BY <1>0 DEF ContentInv, TypeOK
        <5> QED
          BY <3>1, <5>1, ManifestIs DEF MergeRange
      <4>2. View' = View
        BY <1>0, <3>1, <4>1, MergeKeeps
      <4>3. opened' = opened /\ phase' = "merge" /\ promised' = promised
        BY <1>0, <3>1, <3>2, PublicationOnward DEF MergeRange
      <4>4. phase' \in Standing'
        BY <3>2, <4>3 DEF Standing
      <4> QED
        BY <1>3, <2>1, <3>2, <4>2, <4>3, <4>4
    <3> QED
      BY <1>1, <3>1, <3>2
  <2>3. CASE Goes(FinalBarrier, "refold")
    <3>1. FinalBarrier /\ (erasing' = "none" \/ (erasing' = "refold" /\ victims' = victims /\ failures' = failures))
      BY <2>3 DEF Goes, Ends
    <3>2. ASSUME erasing' = "refold", victims' = victims, failures' = failures PROVE ErasingInv'
      <4>1. /\ opened' /\ View' = View /\ Publishing
            /\ (phase \in {"merge", "refold"} => phase' = "idle" /\ promised' = promised)
        BY <1>0, <3>1, <3>2, BarrierOnward
      <4>2. phase = "merge"
        BY <2>1, <4>1 DEF Publishing
      <4>3. phase' \in Standing'
        BY <3>2, <4>1, <4>2 DEF Standing
      <4> QED
        BY <1>3, <2>1, <3>2, <4>1, <4>2, <4>3
    <3> QED
      BY <1>1, <3>1, <3>2
  <2>4. CASE Ends
    BY <1>1, <2>4 DEF Ends
  <2> QED
    BY <1>10, <2>2, <2>3, <2>4 DEF EraseMerges
<1>11. CASE EraseRefolds
  <2>1. erasing = "refold" /\ opened
    BY <1>0, <1>11 DEF EraseRefolds
  <2>2. CASE Goes(Refold, "refold")
    <3>1. Refold /\ (erasing' = "none" \/ (erasing' = "refold" /\ victims' = victims /\ failures' = failures))
      BY <2>2 DEF Goes, Ends
    <3>2. ASSUME erasing' = "refold", victims' = victims, failures' = failures PROVE ErasingInv'
      <4>1. View' = View
        BY <1>0, <3>1, RefoldKeeps
      <4>2. opened' = opened /\ phase' = "refold" /\ promised' = promised
        BY <1>0, <3>1, <3>2, PublicationOnward DEF Refold
      <4>3. phase' \in Standing'
        BY <3>2, <4>2 DEF Standing
      <4> QED
        BY <1>3, <2>1, <3>2, <4>1, <4>2, <4>3
    <3> QED
      BY <1>1, <3>1, <3>2
  <2>3. CASE Goes(FinalBarrier, "none")
    BY <1>1, <2>3 DEF Goes, Ends
  <2> QED
    BY <1>11, <2>2, <2>3 DEF EraseRefolds
<1>12. CASE Interrupted
  BY <1>1, <1>12 DEF Interrupted, Ends
<1> QED
  BY <1>4, <1>5, <1>6, <1>7, <1>8, <1>9, <1>10, <1>11, <1>12 DEF ErasureNext

LEMMA ErasureStep ==
    ASSUME ErasureInv, [ErasureNext]_erasureVars
    PROVE  ErasureInv' /\ Answered
BY ErasureCalls, CallsStand DEF ErasureInv

LEMMA ErasureStart ==
    ASSUME ErasureInit
    PROVE  ErasureInv /\ Promise!Init
<1>1. ContentInv /\ Promise!Init
  BY InitialState DEF ErasureInit
<1>2. failures = 0
  BY DEF ErasureInit, Init
<1>3. erasing = "none"
  BY DEF ErasureInit
<1> QED
  BY <1>1, <1>2, <1>3 DEF ErasureInv, ErasingInv

\* No cut of the log that opens, over either state, shows a victim.
LEMMA NoneReturns ==
    ASSUME ErasureInv
    PROVE  TombstonesStand
<1> SUFFICES ASSUME erasing \in {"flush", "merge", "refold"}, NEW m \in {current.content, floor.content},
                    NEW k \in wal_synced .. Len(wal), Opens(m, SubSeq(wal, 1, k)), NEW id \in victims
             PROVE  Recovered(m, SubSeq(wal, 1, k))[id] = Absent
  BY DEF TombstonesStand
<1>1. TypeOK /\ AuthorityInv /\ LogInv /\ PromisedInv /\ \A view \in promised : Gone(view)
  BY DEF ErasureInv, ErasingInv, ContentInv
<1>2. m \in ManifestType /\ Sound(m, holes) /\ wal \in LogType /\ Stands(m, wal, wal_synced, promised)
      /\ Carried(m, m.next_seq + 1, wal)
  BY <1>1, Manifests DEF PromisedInv, TypeOK, LogInv
<1> PICK l : l = SubSeq(wal, 1, k)
  OBVIOUS
<1>3. l \in LogType /\ Carried(m, m.next_seq + 1, l)
  <2>1. wal_synced \in 0 .. Len(wal)
    BY <1>1 DEF TypeOK
  <2>2. Len(wal) \in Nat
    BY <1>2, LogIs
  <2>3. k \in 0 .. Len(wal)
    BY <2>1, <2>2
  <2> QED
    BY <1>2, <2>3, CutIs, CarriedCut
<1>4. Admits(m, l)
  BY <1>2, OpensIs
<1>5. Recovered(m, l) = Shows(m, Replayed(m, l))
  BY <1>2, <1>3, <1>4, RecoveredIs
<1>6. Shows(m, Replayed(m, l)) \in promised
  BY <1>2, <1>4 DEF Stands
<1> QED
  BY <1>1, <1>5, <1>6 DEF Gone

\* What a refold publishes holds nothing but what shows.
LEMMA RefoldedErases ==
    ASSUME ContentInv, FinalBarrier, phase = "refold", current' = current, floor' = current
    PROVE  Erased'
<1> PICK m : m = attempted
  OBVIOUS
<1>1. Publishing
  BY DEF FinalBarrier, Publishing
<1>2. m = current.content /\ m \in ManifestType /\ Sound(m, holes) /\ m.blocks \in Seq(SUBSET Pieces)
  BY <1>1, PublishedIs, ManifestIs
<1>3. Tight(m) /\ Cleared(m.parts)
  BY <1>1, AdoptsRefold
<1>4. UNION {m.blocks[b] : b \in DOMAIN m.blocks} = {l[2] : l \in LivePieces(m.parts)}
  <2>1. ASSUME NEW b \in DOMAIN m.blocks, NEW p \in m.blocks[b] PROVE \E l \in LivePieces(m.parts) : p = l[2]
    BY <1>3 DEF Tight
  <2>2. ASSUME NEW l \in LivePieces(m.parts) PROVE \E b \in DOMAIN m.blocks : l[2] \in m.blocks[b]
    <3> PICK bs : bs = m.blocks
      OBVIOUS
    <3>1. FoldsOn(m, bs, TRUE, {}, None) /\ bs \in Seq(SUBSET Pieces)
      BY <1>2, OwnFold
    <3>2. Reads(m, bs, {}, l[1], l[2])
      BY <1>2, <2>2, <3>1, LiveReads
    <3> QED
      BY <3>2 DEF Reads
  <2> QED
    BY <2>1, <2>2
<1>5. current'.content = m /\ floor' = current'
  BY <1>2
<1> QED
  BY <1>3, <1>4, <1>5 DEF Erased, Cleared

\* The step with which an erasure completes.
LEMMA Completes ==
    ASSUME ErasureInv, [ErasureNext]_erasureVars,
           erasing = "refold", erasing' = "none", opened', failures' = failures
    PROVE  Erased'
<1>1. ContentInv /\ failures \in Nat /\ phase \in {"idle", "refold"}
  BY DEF ErasureInv, ErasingInv, Standing
<1>2. EraseRefolds
  <2>1. ~UNCHANGED erasureVars
    BY DEF erasureVars
  <2>2. ~(\E ids \in SUBSET Ids : EraseBegins(ids))
    BY DEF EraseBegins
  <2>3. ~EraseSyncs /\ ~EraseFlushes /\ ~EraseSettles /\ ~EraseMerges
    BY DEF EraseSyncs, EraseFlushes, EraseSettles, EraseMerges
  <2>4. ~Interrupted
    BY DEF Interrupted, ProcessDeath, PowerLoss, Closed
  <2> QED
    BY <2>1, <2>2, <2>3, <2>4 DEF ErasureNext
<1>3. FinalBarrier
  BY <1>2 DEF EraseRefolds, Goes
<1>4. Publishing /\ current' = current /\ floor' = current
  BY <1>1, <1>3, BarrierOnward
<1>5. phase = "refold"
  BY <1>1, <1>4 DEF Publishing
<1> QED
  BY <1>1, <1>3, <1>4, <1>5, RefoldedErases

-----------------------------------------------------------------------------
\* In every reachable state of a store that erases, whatever call of the erasure
\* fails and wherever a crash falls between two of them, ContentInv and ErasingInv
\* hold.
THEOREM ErasureInductive == ErasureSpec => []ErasureInv
<1>1. ErasureInit => ErasureInv
  BY ErasureStart
<1>2. ErasureInv /\ [ErasureNext]_erasureVars => ErasureInv'
  BY ErasureStep
<1> QED
  BY <1>1, <1>2, PTL DEF ErasureSpec

\* Once erase_ids is past its sync, no crash at any later step of it brings back
\* a record it was asked to erase (store/mod.rs: erase_ids).
THEOREM ErasedStayErased == ErasureSpec => []TombstonesStand
<1>1. ErasureInv => TombstonesStand
  BY NoneReturns
<1> QED
  BY <1>1, ErasureInductive, PTL

\* erase_ids that reports success has left no row, no tombstone, no dictionary
\* entry and no byte of what does not show, in a state no power loss takes back.
THEOREM ErasureCompletes == ErasureSpec => CompletedErasureErases
<1> DEFINE Complete == erasing = "refold" /\ erasing' = "none" /\ opened' /\ failures' = failures => Erased'
<1>1. ErasureInv /\ [ErasureNext]_erasureVars => Complete
  BY Completes
<1>2. ErasureInv /\ [ErasureNext]_erasureVars => [Complete]_erasureVars
  BY <1>1
<1> QED
  BY <1>2, ErasureInductive, PTL DEF ErasureSpec, CompletedErasureErases

\* Made of many calls, any of which may fail or be the last before a crash, an
\* erasure keeps the promise of the store to its callers.
THEOREM ErasureRefinement == ErasureSpec => ImplementsDurableMap
<1>1. ErasureInit => Promise!Init
  BY ErasureStart
<1>2. ErasureInv /\ [ErasureNext]_erasureVars => [Promise!Next]_<<View, promised>>
  BY ErasureStep DEF Answered
<1> QED
  BY <1>1, <1>2, ErasureInductive, PTL DEF ErasureSpec, ImplementsDurableMap, Promise!Spec
=============================================================================
