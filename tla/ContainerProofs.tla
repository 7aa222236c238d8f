--------------------------- MODULE ContainerProofs ---------------------------
(***************************************************************************)
(* Every reachable state of Container, whatever the constants, satisfies   *)
(* ContainerInvariant!IInv; with it a power loss at any moment recovers a  *)
(* published state and no acknowledged one is taken back, a lock-free      *)
(* reader opens a recent state and reads exactly what was published, but   *)
(* for blocks declared punched since, as long as it stays within the grace *)
(* window, and the file implements Publication.                            *)
(***************************************************************************)
EXTENDS ContainerInvariant, TLAPS

FileType == page \in [Block -> Value] /\ disk \in [Block -> Value] /\ dirty \subseteq Block
FileInv  == Clean /\ Chain /\ PageIsNewest /\ PowerLossRecovers

-----------------------------------------------------------------------------
(* The two slots. *)

\* Two slots never both win: what an image selects is one state.
LEMMA SelectsOne ==
    ASSUME NEW f, NEW s \in Slot, NEW t \in Slot, Selects(f, s), Selects(f, t),
           Decodes(f[s]) => f[s].seq \in Nat, Decodes(f[t]) => f[t].seq \in Nat
    PROVE  s = t
BY DEF Selects, Slot

\* Selection looks at the two slots only.
LEMMA SelectsSlots ==
    ASSUME NEW f, NEW g, NEW s \in Slot, f[0] = g[0], f[1] = g[1], Selects(f, s)
    PROVE  Selects(g, s)
BY DEF Selects, Slot

LEMMA SlotsAreBlocks == Slot \subseteq Block /\ 0 \in Slot /\ 1 \in Slot
BY BoundsAssumption DEF Slot, Block

\* A torn slot is the only value a power loss invents.
LEMMA LossIsSlotValue ==
    ASSUME NEW s \in Slot, NEW v \in AfterLoss(s), Decodes(v)
    PROVE  v \in SlotValues
BY DEF AfterLoss, SlotValues, Decodes, Slot

\* What the page cache holds is one of the images a power loss may leave.
LEMMA PageIsALoss ==
    ASSUME Clean, NEW s \in Slot
    PROVE  page[s] \in AfterLoss(s)
BY SlotsAreBlocks DEF AfterLoss, Clean, Slot

\* The blocks a well-formed state names are behind the slots and before its
\* tail.
LEMMA RefsInRegion ==
    ASSUME NEW v, SuperblockOK(v), NEW b \in Refs(v)
    PROVE  b \in Block /\ b >= RegionStart /\ b < v.tail /\ b \notin Slot
<1>1. v.dir_off \in Block /\ v.xsum.dir \subseteq Extent /\ v.seq \in Nat /\ v.tail \in Nat
  BY DEF SuperblockOK, Superblock, Directory
<1>2. v.seq = 0 => v.xsum.dir = {}
  BY DEF SuperblockOK, EmptySuperblock, EmptyDirectory
<1>3. CASE v.seq # 0 /\ b = v.dir_off
  BY <1>1, <1>3, BoundsAssumption DEF SuperblockOK, RegionStart, Slot, Block
<1>4. CASE \E e \in Live(v) : b = e.off
  <2> PICK e \in v.xsum.dir : b = e.off
    BY <1>4 DEF Live
  <2>1. e.off \in Block /\ v.seq # 0
    BY <1>1, <1>2 DEF Extent
  <2>2. e.off >= RegionStart /\ e.off < v.dir_off
    BY DEF SuperblockOK, WellFormed
  <2> QED
    BY <2>1, <2>2, <1>1, BoundsAssumption DEF SuperblockOK, RegionStart, Slot, Block
<1> QED
  BY <1>3, <1>4 DEF Refs

\* Bytes that are the same in two images make a state intact in both.
LEMMA IntactElsewhere ==
    ASSUME NEW f, NEW g, NEW v, Intact(f, v), \A b \in Refs(v) : f[b] = g[b]
    PROVE  Intact(g, v)
BY DEF Intact, DirectoryReads, Refs

\* What processes select is recovered as it stands.
LEMMA SelectedIsRecovered ==
    ASSUME FileInv, NEW s \in Slot, Selects(page, s)
    PROVE  Recovers(page, s) /\ Intact(page, page[s]) /\ page[s] \in SlotValues
<1> DEFINE left == Left(page[0], page[1])
<1>1. PICK t \in Slot : Recovers(left, t)
  BY PageIsALoss DEF FileInv, PowerLossRecovers, Slot
<1>2. left[0] = page[0] /\ left[1] = page[1]
  BY DEF Left, Slot
<1>3. Selects(page, t)
  BY <1>1, <1>2, SelectsSlots DEF Recovers
<1>4. page[s] \in SlotValues /\ page[t] \in SlotValues
  BY <1>3 DEF Selects, SlotValues, Slot
<1>5. s = t
  BY <1>3, <1>4, SelectsOne DEF FileInv, Chain, SuperblockOK, Superblock
<1>6. left[t] = page[s]
  BY <1>2, <1>5 DEF Slot
<1>7. Recovers(page, s)
  BY <1>1, <1>5, <1>6 DEF Recovers
<1>8. \A b \in Refs(page[s]) : disk[b] = page[b]
  BY <1>4, <1>7, RefsInRegion DEF Recovers, FileInv, Chain, Clean
<1> QED
  BY <1>4, <1>7, <1>8, IntactElsewhere DEF Recovers

-----------------------------------------------------------------------------
(* What a step may do to the file. *)

LEMMA ChainShrinks ==
    ASSUME Chain, SlotValues' \subseteq SlotValues
    PROVE  Chain'
BY DEF Chain

\* After a successful fsync only the page cache counts.
LEMMA Settled ==
    ASSUME Chain', disk' = page', dirty' = {}, NEW s \in Slot,
           Selects(page', s), page'[s].seq >= acked'.seq,
           page'[s].seq = acked'.seq => page'[s] = acked', Intact(page', page'[s])
    PROVE  FileInv'
<1>1. Clean'
  BY DEF Clean
<1>2. SlotValues' = {v \in {page'[0], page'[1]} : Decodes(v)}
  BY DEF SlotValues
<1>3. PageIsNewest'
  <2>1. \A v \in SlotValues' : v.seq <= page'[s].seq
    BY <1>2 DEF Selects, Chain, SuperblockOK, Superblock, Slot
  <2> QED
    BY <2>1 DEF PageIsNewest
<1>4. PowerLossRecovers'
  <2>1. AfterLoss(0)' = {page'[0]} /\ AfterLoss(1)' = {page'[1]}
    BY DEF AfterLoss
  <2>2. SUFFICES ASSUME NEW first, NEW second, first = page'[0], second = page'[1]
                 PROVE  Recovers(Left(first, second), s)'
    BY <2>1 DEF PowerLossRecovers
  <2> DEFINE left == Left(first, second)
  <2>3. left[0] = page'[0] /\ left[1] = page'[1] /\ left[s] = page'[s]
    BY <2>2 DEF Left, Slot
  <2>4. Selects(left, s)
    BY <2>3, SelectsSlots
  <2> HIDE DEF left
  <2> QED
    BY <2>3, <2>4 DEF Recovers, left
<1> QED
  BY <1>1, <1>3, <1>4 DEF FileInv

\* An fsync that succeeds loses nothing.
LEMMA SyncKeeps ==
    ASSUME FileInv, SyncFile, UNCHANGED acked
    PROVE  FileInv' /\ SlotValues' \subseteq SlotValues
<1>1. SlotValues' \subseteq SlotValues
  BY DEF SlotValues, SyncFile
<1>2. PICK s \in Slot : Selects(page, s)
  BY DEF FileInv, PageIsNewest
<1>3. Recovers(page, s) /\ Intact(page, page[s])
  BY <1>2, SelectedIsRecovered
<1> QED
  BY <1>1, <1>2, <1>3, ChainShrinks, Settled DEF FileInv, SyncFile, Recovers

\* Writes and holes in blocks no acknowledged or newer state names.
LEMMA RegionStep ==
    ASSUME FileInv, FileType, NEW B, B \cap Slot = {},
           UNCHANGED <<disk, acked>>, dirty' = dirty \cup B,
           \A b \in Block \ B : page'[b] = page[b],
           \A v \in SlotValues : v.seq >= acked.seq => B \cap Refs(v) = {}
    PROVE  /\ FileInv' /\ SlotValues' = SlotValues
           /\ \A s \in Slot : Selects(page, s) => Selects(page', s)
<1>1. page'[0] = page[0] /\ page'[1] = page[1]
  BY SlotsAreBlocks
<1>2. SlotValues' = SlotValues
  BY <1>1 DEF SlotValues
<1>3. Clean'
  BY DEF Clean, FileInv
<1>4. \A s \in Slot : Selects(page, s) => Selects(page', s)
  BY <1>1, SelectsSlots
<1>5. PageIsNewest'
  BY <1>1, <1>2, <1>4 DEF PageIsNewest, FileInv, Slot
<1>6. PowerLossRecovers'
  <2>1. AfterLoss(0)' = AfterLoss(0) /\ AfterLoss(1)' = AfterLoss(1)
    BY <1>1, SlotsAreBlocks DEF AfterLoss, Slot
  <2>2. SUFFICES ASSUME NEW first \in AfterLoss(0), NEW second \in AfterLoss(1), NEW s \in Slot,
                        Recovers(Left(first, second), s)
                 PROVE  Recovers(Left(first, second), s)'
    BY <2>1 DEF PowerLossRecovers, FileInv
  <2> DEFINE left == Left(first, second)
  <2>3. left[s] \in SlotValues
    BY <2>2, LossIsSlotValue DEF Recovers, Selects, Left, Slot
  <2>4. B \cap Refs(left[s]) = {}
    BY <2>2, <2>3 DEF Recovers
  <2> HIDE DEF left
  <2> QED
    BY <2>2, <2>4 DEF Recovers, left
<1> QED
  BY <1>2, <1>3, <1>4, <1>5, <1>6 DEF FileInv, Chain

\* A power loss leaves the page cache settled on the disk.
LEMMA LossKeeps ==
    ASSUME FileInv, FileType, UNCHANGED acked, page' = disk', dirty' = {},
           \A b \in Block : disk'[b] \in AfterLoss(b)
    PROVE  FileInv' /\ SlotValues' \subseteq SlotValues
<1>1. SlotValues' \subseteq SlotValues
  BY LossIsSlotValue, SlotsAreBlocks DEF SlotValues
<1> DEFINE left == Left(disk'[0], disk'[1])
<1>2. PICK s \in Slot : Recovers(left, s)
  BY SlotsAreBlocks DEF FileInv, PowerLossRecovers
<1>3. left[0] = disk'[0] /\ left[1] = disk'[1] /\ left[s] = disk'[s]
  BY DEF Left, Slot
<1>4. Selects(page', s)
  BY <1>2, <1>3, SelectsSlots DEF Recovers
<1>5. disk'[s] \in SlotValues
  BY <1>1, <1>4 DEF SlotValues, Selects, Slot
<1>6. \A b \in Refs(disk'[s]) : disk[b] = disk'[b]
  <2> TAKE b \in Refs(disk'[s])
  <2>1. b \in Block /\ b \notin dirty
    BY <1>2, <1>3, <1>5, RefsInRegion DEF Recovers, FileInv, Chain
  <2> QED
    BY <2>1 DEF AfterLoss
<1>7. Intact(page', page'[s])
  BY <1>2, <1>3, <1>6, IntactElsewhere DEF Recovers
<1> QED
  BY <1>1, <1>2, <1>3, <1>4, <1>7, ChainShrinks, Settled DEF FileInv, Recovers

-----------------------------------------------------------------------------
(* The writer's handle. *)

SelectedIntact ==
    \A s \in Slot :
      Selects(page, s) => /\ Intact(page, page[s]) /\ SuperblockOK(page[s])
                          /\ page[s].seq >= acked.seq
                          /\ page[s].seq = acked.seq => page[s] = acked

LEMMA SelectedIsIntact == FileInv => SelectedIntact
BY SelectedIsRecovered DEF FileInv, Chain, Recovers, SelectedIntact

\* A view that is a well-formed state's own stages a well-formed successor.
LEMMA FreshSuccessor ==
    ASSUME SuperblockOK(sb'), dir' = sb'.xsum.dir, free' = sb'.xsum.free, tail' = sb'.tail
    PROVE  WellFormed(Successor)'
<1> DEFINE v == sb'
           superseded == IF v.seq = 0 THEN {} ELSE {[off |-> v.dir_off, freed |-> v.seq + 1]}
<1>1. v.seq \in Nat /\ v.dir_off \in Nat /\ v.tail \in Nat
  BY DEF SuperblockOK, Superblock, Block
<1>2. WellFormed(v) /\ v.dir_off >= RegionStart
  BY DEF SuperblockOK
<1>3. v.xsum.dir \subseteq Extent /\ v.xsum.free \subseteq FreeExtent
  BY DEF SuperblockOK, Superblock, Directory
<1>4. v.seq = 0 => v.xsum.dir = {} /\ v.xsum.free = {}
  BY DEF SuperblockOK, EmptySuperblock, EmptyDirectory
<1>5. v.seq # 0 => v.tail = v.dir_off + 1
  BY DEF SuperblockOK
<1>6. /\ Successor'.seq = v.seq + 1 /\ Successor'.dir_off = v.tail
      /\ Successor'.xsum.dir = v.xsum.dir
      /\ Successor'.xsum.free = v.xsum.free \cup superseded
  BY DEF Successor
<1> HIDE DEF v
<1>7. \A e \in v.xsum.dir : e.off \in Nat /\ e.off >= RegionStart /\ e.off < v.dir_off /\ v.seq # 0
  BY <1>2, <1>3, <1>4 DEF WellFormed, Extent, Block
<1>8. \A x \in v.xsum.free : /\ x.off \in Nat /\ x.off >= RegionStart /\ x.off < v.dir_off
                             /\ x.freed \in Nat /\ x.freed <= v.seq /\ v.seq # 0
  BY <1>2, <1>3, <1>4 DEF WellFormed, FreeExtent, Block
<1>9. \A x \in superseded : x.off = v.dir_off /\ x.freed = v.seq + 1 /\ v.seq # 0
  OBVIOUS
<1>10. \A x1, x2 \in superseded : x1 = x2
  OBVIOUS
<1> HIDE DEF superseded
<1> QED
  BY <1>1, <1>2, <1>5, <1>6, <1>7, <1>8, <1>9, <1>10 DEF WellFormed

\* A handle fresh from the file's selected state.
LEMMA FreshHandle ==
    ASSUME FileInv', phase' = "idle", slot' \in Slot, Selects(page', slot'), page'[slot'] = sb',
           dir' = sb'.xsum.dir, free' = sb'.xsum.free, tail' = sb'.tail,
           publication_acknowledged' => acked' = sb'
    PROVE  HandleInv'
<1>1. (FileInv => SelectedIntact)'
  BY SelectedIsIntact, PTL
<1>2. Intact(page', sb') /\ SuperblockOK(sb')
  BY <1>1 DEF SelectedIntact
<1>3. WellFormed(Successor)'
  BY <1>2, FreshSuccessor
<1>4. \A e \in dir' : ~e.dead => page'[e.off] = e.data
  BY <1>2 DEF Intact, Live
<1>5. Decodes(sb') /\ sb'.tail \in Nat
  BY <1>2 DEF Selects, SuperblockOK, Superblock
<1> QED
  BY <1>2, <1>3, <1>4, <1>5 DEF HandleInv

\* Whatever a failed publication leaves, the handle that survives it is
\* poisoned or stands on the attempted state.
LEMMA AfterFailure ==
    ASSUME FileInv', open_member = NoMember, RefusedBeforeSelection \/ Reconcile
    PROVE  HandleInv' /\ MemberInv' /\ PhaseInv'
<1>1. CASE RefusedBeforeSelection
  BY <1>1 DEF RefusedBeforeSelection, SnapBack, view, HandleInv, MemberInv, PhaseInv
<1>2. CASE Reconcile /\ ~RefusedBeforeSelection
  <2>1. MemberInv' /\ PhaseInv'
    BY <1>2 DEF Reconcile, MemberInv, PhaseInv
  <2>2. CASE poisoned'
    BY <2>1, <2>2 DEF HandleInv
  <2>3. CASE ~poisoned'
    <3>1. PICK s \in Slot : /\ Selects(page', s) /\ sb' = page'[s] /\ slot' = s
                            /\ dir' = page'[s].xsum.dir /\ free' = page'[s].xsum.free
                            /\ tail' = page'[s].tail /\ phase' = "idle"
                            /\ publication_acknowledged' = poisoned'
      BY <1>2 DEF Reconcile
    <3>2. HandleInv'
      BY <2>3, <3>1, FreshHandle
    <3> QED
      BY <2>1, <3>2
  <2> QED
    BY <2>2, <2>3
<1> QED
  BY <1>1, <1>2

-----------------------------------------------------------------------------
(* Staging. *)

\* The handle stands on the newest state there is, so nothing any process or
\* power loss may find reaches beyond its tail.
LEMMA HandleIsNewest ==
    ASSUME FileInv, HandleInv, opened, ~poisoned, phase # "barrier", slot \in Slot
    PROVE  /\ SuperblockOK(sb) /\ Intact(page, sb)
           /\ sb.seq \in Nat /\ sb.tail \in Nat /\ sb.tail >= RegionStart
           /\ sb.seq >= acked.seq /\ (sb.seq = acked.seq => sb = acked)
           /\ \A v \in SlotValues : /\ v.seq <= sb.seq /\ v.tail <= sb.tail
                                    /\ v.seq = sb.seq => v = sb
<1>1. page[slot] = sb /\ Selects(page, slot) /\ sb \in SlotValues
  BY DEF HandleInv, SlotValues, Slot
<1>2. SuperblockOK(sb) /\ Intact(page, sb) /\ sb.seq >= acked.seq /\ (sb.seq = acked.seq => sb = acked)
  BY <1>1, SelectedIsIntact DEF SelectedIntact
<1>3. sb.seq \in Nat /\ sb.tail \in Nat
  BY <1>2 DEF SuperblockOK, Superblock
<1>4. sb.tail >= RegionStart
  BY <1>2, <1>3 DEF SuperblockOK, RegionStart, EmptySuperblock, Superblock, Block
<1>5. PICK s \in Slot : Selects(page, s) /\ \A v \in SlotValues : v.seq <= page[s].seq
  BY DEF FileInv, PageIsNewest
<1>6. page[s] \in SlotValues
  BY <1>5 DEF Selects, SlotValues, Slot
<1>7. s = slot
  BY <1>1, <1>5, <1>6, SelectsOne DEF FileInv, Chain, SuperblockOK, Superblock
<1>8. \A v \in SlotValues : v.seq <= sb.seq
  BY <1>1, <1>5, <1>7
<1>9. \A v \in SlotValues : /\ v.seq \in Nat /\ v.tail \in Nat
                            /\ v.seq = sb.seq => v = sb
                            /\ v.seq < sb.seq => v.tail <= sb.tail
  BY <1>1 DEF FileInv, Chain, SuperblockOK, Superblock
<1>10. \A v \in SlotValues : v.tail <= sb.tail
  BY <1>3, <1>8, <1>9
<1> QED
  BY <1>2, <1>3, <1>4, <1>8, <1>9, <1>10

\* A write at or behind the cursor disturbs no state.
LEMMA StagedWrite ==
    ASSUME FileInv, FileType, HandleInv, opened, ~poisoned, phase # "barrier", slot \in Slot,
           tail \in Nat, NEW b \in Block, tail <= b, NEW w \in Value, Write(b, w),
           UNCHANGED acked
    PROVE  /\ FileInv' /\ FileType' /\ Selects(page', slot) /\ page'[slot] = sb
           /\ page'[b] = w /\ \A c \in Block : c # b => page'[c] = page[c]
<1>1. b >= RegionStart /\ b \in Nat /\ sb.tail <= tail
  BY HandleIsNewest DEF HandleInv, RegionStart, Block
<1>2. \A v \in SlotValues : b \notin Refs(v)
  <2> SUFFICES ASSUME NEW v \in SlotValues, b \in Refs(v)
               PROVE  FALSE
    OBVIOUS
  <2>1. b < v.tail /\ v.tail \in Nat
    BY RefsInRegion DEF FileInv, Chain, SuperblockOK, Superblock
  <2>2. v.tail <= sb.tail /\ sb.tail \in Nat
    BY HandleIsNewest
  <2> QED
    BY <1>1, <2>1, <2>2
<1>3. page'[b] = w /\ \A c \in Block : c # b => page'[c] = page[c]
  BY DEF Write, FileType
<1>4. FileInv' /\ \A s \in Slot : Selects(page, s) => Selects(page', s)
  <2>1. {b} \cap Slot = {}
    BY <1>1 DEF RegionStart, Slot
  <2>2. \A c \in Block \ {b} : page'[c] = page[c]
    BY <1>3
  <2>3. \A v \in SlotValues : v.seq >= acked.seq => {b} \cap Refs(v) = {}
    BY <1>2
  <2> QED
    BY <2>1, <2>2, <2>3, RegionStep DEF Write
<1>5. Selects(page', slot) /\ page'[slot] = sb
  BY <1>1, <1>3, <1>4, SlotsAreBlocks DEF HandleInv, RegionStart, Slot
<1>6. FileType'
  BY DEF FileType, Write
<1> QED
  BY <1>3, <1>4, <1>5, <1>6

LEMMA LiveExtentIs ==
    ASSUME NEW n, NEW b, NEW d
    PROVE  /\ LiveExtent(n, b, d).off = b /\ LiveExtent(n, b, d).data = d
           /\ ~LiveExtent(n, b, d).dead
           /\ (n \in Names /\ b \in Block /\ d \in Data) => LiveExtent(n, b, d) \in Extent
BY Zenon DEF LiveExtent, Extent

\* What staging a member does to the view, and why it may be published.
LEMMA StagedSuccessor ==
    ASSUME WellFormed(Successor), sb \in Superblock, tail \in Nat, tail >= RegionStart,
           dir \subseteq Extent, free \subseteq FreeExtent,
           NEW n, NEW written \in Seq(Data), StageEntry(n, written)
    PROVE  WellFormed(Successor)'
<1> DEFINE old == ExtentsOf(n)
           kept == dir \ old
           new == {LiveExtent(n, tail + i - 1, written[i]) : i \in 1 .. Len(written)}
           superseded == IF sb.seq = 0 THEN {} ELSE {[off |-> sb.dir_off, freed |-> sb.seq + 1]}
<1>1. /\ Successor.seq = sb.seq + 1 /\ Successor.dir_off = tail
      /\ Successor.xsum.dir = dir /\ Successor.xsum.free = free \cup superseded
      /\ Successor'.seq = sb.seq + 1 /\ Successor'.dir_off = tail'
      /\ Successor'.xsum.dir = kept \cup new
      /\ Successor'.xsum.free = free \cup Freed(old) \cup superseded
  BY DEF Successor, StageEntry
<1>2. sb.seq \in Nat /\ Len(written) \in Nat /\ tail' = tail + Len(written)
  BY DEF Superblock, StageEntry
<1>3. \A e \in new : e.off \in Nat /\ e.off >= tail /\ e.off < tail'
  BY <1>2, LiveExtentIs
<1>4. \A e1, e2 \in new : e1.off = e2.off => e1 = e2
  BY <1>2, LiveExtentIs
<1>5. \A x \in Freed(old) : (\E e \in old : x.off = e.off) /\ x.freed = sb.seq + 1
  BY DEF Freed
<1>6. \A x1, x2 \in Freed(old) : x1.off = x2.off => x1 = x2
  BY DEF Freed
<1>7. \A e \in dir : e.off \in Nat /\ e.off >= RegionStart /\ e.off < tail
  BY <1>1 DEF WellFormed, Extent, Block
<1>8. \A x \in free \cup superseded : /\ x.off \in Nat /\ x.off >= RegionStart /\ x.off < tail
                                      /\ x.freed <= sb.seq + 1
  <2>1. free \cup superseded \subseteq FreeExtent
    BY <1>2 DEF FreeExtent, Superblock
  <2> QED
    BY <1>1, <2>1 DEF WellFormed, FreeExtent, Block
<1>9. /\ \A e1, e2 \in dir : e1.off = e2.off => e1 = e2
      /\ \A x1, x2 \in free \cup superseded : x1.off = x2.off => x1 = x2
      /\ \A e \in dir, x \in free \cup superseded : e.off # x.off
  BY <1>1 DEF WellFormed
<1>10. old \subseteq dir /\ kept \subseteq dir /\ kept \cap old = {}
  BY DEF ExtentsOf
<1> HIDE DEF old, kept, new, superseded
<1>11. /\ \A e \in kept \cup new : e.off >= RegionStart /\ e.off < tail'
       /\ \A e1, e2 \in kept \cup new : e1.off = e2.off => e1 = e2
  BY <1>2, <1>3, <1>4, <1>7, <1>9, <1>10 DEF RegionStart
<1>12. \A x \in free \cup Freed(old) \cup superseded :
          x.off >= RegionStart /\ x.off < tail' /\ x.freed <= sb.seq + 1
  BY <1>2, <1>5, <1>7, <1>8, <1>10
<1>13. \A x1, x2 \in free \cup Freed(old) \cup superseded : x1.off = x2.off => x1 = x2
  BY <1>5, <1>6, <1>9, <1>10
<1>14. \A e \in kept \cup new, x \in free \cup Freed(old) \cup superseded : e.off # x.off
  BY <1>3, <1>5, <1>7, <1>8, <1>9, <1>10
<1> QED
  BY <1>1, <1>11, <1>12, <1>13, <1>14 DEF WellFormed

HandleType ==
    /\ opened \in BOOLEAN /\ dir \subseteq Extent /\ free \subseteq FreeExtent
    /\ sb \in Superblock /\ tail \in Nat /\ slot \in Slot /\ staged \in BOOLEAN
    /\ open_member = NoMember \/ open_member \in [name : Names, written : Seq(Data)]
    /\ poisoned \in BOOLEAN /\ publication_acknowledged \in BOOLEAN
    /\ failed_publication_selected \in {"none", "successor", "predecessor"}
    /\ phase \in {"idle", "directory", "flip", "writing", "barrier"}
    /\ attempted \in Superblock /\ acked \in Superblock
    /\ faults \in 0 .. MaxFaults

ReaderType ==
    /\ reader \in [Readers -> ReaderState]
    /\ declared \subseteq [off : Block, seq : Nat]

LEMMA TypeParts == TypeOK => FileType /\ HandleType /\ ReaderType
BY DEF TypeOK, FileType, HandleType, ReaderType

LEMMA InvParts == IInv => FileInv /\ FileType /\ HandleType /\ ReaderType
BY TypeParts DEF IInv, FileInv

LEMMA PartsInv ==
    ASSUME FileType', FileInv', HandleType', ReaderType', HandleInv', MemberInv', PhaseInv'
    PROVE  IInv'
<1>1. \A s \in Slot : Decodes(page'[s]) => page'[s] \in Superblock
  BY DEF FileInv, Chain, SlotValues, SuperblockOK, Slot
<1> QED
  BY <1>1 DEF IInv, TypeOK, FileInv, FileType, HandleType, ReaderType

LEMMA StageStep ==
    ASSUME FileInv, HandleInv, HandleType, opened, ~poisoned, phase = "idle",
           NEW n \in Names, NEW written \in Seq(Data), StageEntry(n, written),
           page'[slot] = sb, Selects(page', slot),
           \A c \in Block : c < tail => page'[c] = page[c],
           \A i \in 1 .. Len(written) : tail + i - 1 \in Block /\ page'[tail + i - 1] = written[i],
           UNCHANGED <<opened, poisoned, phase, publication_acknowledged, acked>>
    PROVE  HandleInv' /\ dir' \subseteq Extent /\ free' \subseteq FreeExtent /\ tail' \in Nat
<1> DEFINE new == {LiveExtent(n, tail + i - 1, written[i]) : i \in 1 .. Len(written)}
<1>1. dir' = (dir \ ExtentsOf(n)) \cup new /\ free' = free \cup Freed(ExtentsOf(n))
  BY DEF StageEntry
<1>2. tail' = tail + Len(written) /\ tail' \in Nat /\ tail <= tail' /\ sb' = sb /\ slot' = slot
      /\ staged'
  BY DEF StageEntry, HandleType
<1>3. new \subseteq Extent
  BY LiveExtentIs
<1>4. ExtentsOf(n) \subseteq dir
  BY DEF ExtentsOf
<1>5. Freed(ExtentsOf(n)) \subseteq FreeExtent
  BY <1>4 DEF Freed, FreeExtent, Extent, HandleType, Superblock
<1>6. sb.tail \in Nat /\ tail >= RegionStart /\ sb.tail <= tail /\ SuperblockOK(sb)
  BY HandleIsNewest DEF HandleType, HandleInv, RegionStart
<1>7. WellFormed(Successor)'
  BY <1>6, StagedSuccessor DEF HandleInv, HandleType
<1>8. \A e \in dir' : /\ ~e.dead => page'[e.off] = e.data
                      /\ e.off >= sb'.tail \/ \E o \in sb'.xsum.dir : o.off = e.off
  <2>1. \A e \in new : page'[e.off] = e.data /\ e.off >= sb.tail
    BY <1>6, LiveExtentIs DEF HandleType
  <2>2. \A e \in dir : e.off \in Block /\ e.off < tail
    BY DEF HandleInv, HandleType, WellFormed, Successor, Extent
  <2>3. \A e \in dir : /\ ~e.dead => page'[e.off] = e.data
                       /\ e.off >= sb.tail \/ \E o \in sb.xsum.dir : o.off = e.off
    BY <2>2 DEF HandleInv
  <2> QED
    BY <1>1, <1>2, <2>1, <2>3
<1>9. \A x \in free' : x.freed = sb'.seq + 1 \/ x \in sb'.xsum.free
  BY <1>1, <1>2 DEF Freed, HandleInv
<1>10. /\ page'[slot'] = sb' /\ Decodes(sb') /\ Selects(page', slot') /\ sb'.tail <= tail'
       /\ (phase' = "idle" /\ publication_acknowledged') => acked' = sb'
  BY <1>2, <1>6 DEF HandleInv, HandleType
<1> QED
  BY <1>1, <1>2, <1>3, <1>5, <1>7, <1>8, <1>9, <1>10 DEF HandleInv, HandleType

-----------------------------------------------------------------------------
(* One lemma per operation: it keeps IInv. *)

LEMMA PutBytesKeeps ==
    ASSUME IInv, NEW n \in Names, NEW d \in Data, PutBytes(n, d)
    PROVE  IInv'
<1>1. /\ FileInv /\ FileType /\ HandleType /\ ReaderType /\ HandleInv
      /\ opened /\ ~poisoned /\ phase = "idle" /\ open_member = NoMember /\ tail < LastBlock
      /\ Write(tail, d) /\ StageEntry(n, <<d>>)
  BY InvParts DEF IInv, PutBytes, EnsureWritable, Room
<1>2. UNCHANGED <<opened, open_member, poisoned, failed_publication_selected,
                  publication_acknowledged, phase, attempted, reader, acked, declared, faults>>
  BY DEF PutBytes, NoFault, outcome, commitv
<1>3. tail \in Block /\ d \in Value /\ tail \in Nat
  BY <1>1, BoundsAssumption DEF HandleType, Block, Value
<1>4. /\ FileInv' /\ FileType' /\ Selects(page', slot) /\ page'[slot] = sb
      /\ page'[tail] = d /\ \A c \in Block : c # tail => page'[c] = page[c]
  BY <1>1, <1>2, <1>3, StagedWrite DEF HandleType
<1>5. /\ \A c \in Block : c < tail => page'[c] = page[c]
      /\ \A i \in 1 .. Len(<<d>>) : tail + i - 1 \in Block /\ page'[tail + i - 1] = <<d>>[i]
      /\ <<d>> \in Seq(Data)
  BY <1>3, <1>4 DEF Block
<1>6. HandleInv' /\ dir' \subseteq Extent /\ free' \subseteq FreeExtent /\ tail' \in Nat
  BY <1>1, <1>2, <1>4, <1>5, StageStep
<1>7. HandleType' /\ ReaderType' /\ MemberInv' /\ PhaseInv'
  BY <1>1, <1>2, <1>6 DEF HandleType, ReaderType, MemberInv, PhaseInv, StageEntry
<1> QED
  BY <1>4, <1>6, <1>7, PartsInv

\* A step that leaves the view and the bytes before the cursor alone.
LEMMA ViewKept ==
    ASSUME HandleInv, HandleType, opened, ~poisoned,
           page'[slot] = sb, Selects(page', slot),
           \A c \in Block : c < tail => page'[c] = page[c],
           UNCHANGED <<view, opened, poisoned, publication_acknowledged, acked>>,
           phase = "idle" \/ phase' # "idle"
    PROVE  HandleInv'
<1>1. UNCHANGED <<dir, free, sb, tail, slot, staged>>
  BY DEF view
<1>2. \A e \in dir : e.off \in Block /\ e.off < tail
  BY DEF HandleInv, HandleType, WellFormed, Successor, Extent
<1>3. \A e \in dir : ~e.dead => page'[e.off] = e.data
  BY <1>2 DEF HandleInv
<1>4. Successor' = Successor
  BY <1>1 DEF Successor
<1> QED
  BY <1>1, <1>3, <1>4 DEF HandleInv

LEMMA PutBytesFailsKeeps ==
    ASSUME IInv, NEW n \in Names, NEW d \in Data, PutBytesFails(n, d)
    PROVE  IInv'
<1>1. /\ FileInv /\ FileType /\ HandleType /\ ReaderType /\ HandleInv
      /\ opened /\ ~poisoned /\ phase = "idle" /\ open_member = NoMember /\ tail < LastBlock
  BY InvParts DEF IInv, PutBytesFails, EnsureWritable, Room
<1>2. UNCHANGED <<view, opened, open_member, poisoned, failed_publication_selected,
                  publication_acknowledged, phase, attempted, reader, acked, declared>>
  BY DEF PutBytesFails, handle, outcome, commitv
<1>3. tail \in Block /\ tail \in Nat
  BY <1>1, BoundsAssumption DEF HandleType, Block
<1>4. PICK w \in {page[tail], Torn, d} : Write(tail, w)
  BY DEF PutBytesFails, FailedWrite
<1>5. w \in Value
  BY <1>1, <1>3 DEF Value, FileType
<1>6. /\ FileInv' /\ FileType' /\ Selects(page', slot) /\ page'[slot] = sb
      /\ \A c \in Block : c # tail => page'[c] = page[c]
  <2>1. /\ FileInv /\ FileType /\ HandleInv /\ opened /\ ~poisoned /\ phase # "barrier"
        /\ slot \in Slot /\ tail <= tail /\ UNCHANGED acked
    BY <1>1, <1>2, <1>3 DEF HandleType
  <2> QED
    BY <2>1, <1>3, <1>4, <1>5, StagedWrite
<1>7. \A c \in Block : c < tail => page'[c] = page[c]
  BY <1>3, <1>6 DEF Block
<1>8. HandleInv'
  BY <1>1, <1>2, <1>6, <1>7, ViewKept
<1>9. faults' \in 0 .. MaxFaults
  BY <1>1, BoundsAssumption DEF PutBytesFails, Fault, HandleType
<1>10. HandleType' /\ ReaderType' /\ MemberInv' /\ PhaseInv'
  BY <1>1, <1>2, <1>9 DEF HandleType, ReaderType, MemberInv, PhaseInv, view
<1> QED
  BY <1>6, <1>8, <1>10, PartsInv

LEMMA AppendStreamKeeps ==
    ASSUME IInv, NEW n \in Names, NEW d \in Data, AppendStream(n, d)
    PROVE  IInv'
<1> DEFINE added == LiveExtent(n, tail, d)
<1>1. /\ FileInv /\ FileType /\ HandleType /\ ReaderType /\ HandleInv
      /\ opened /\ ~poisoned /\ phase = "idle" /\ open_member = NoMember /\ tail < LastBlock
      /\ Write(tail, d) /\ dir' = dir \cup {added} /\ tail' = tail + 1 /\ staged'
  BY InvParts DEF IInv, AppendStream, EnsureWritable, Room
<1>2. UNCHANGED <<free, sb, slot, opened, open_member, poisoned, failed_publication_selected,
                  publication_acknowledged, phase, attempted, reader, acked, declared, faults>>
  BY DEF AppendStream, NoFault, outcome, commitv
<1>3. /\ tail \in Block /\ d \in Value /\ tail \in Nat
      /\ added.off = tail /\ added.data = d /\ added \in Extent
  BY <1>1, LiveExtentIs, BoundsAssumption DEF HandleType, Block, Value
<1> HIDE DEF added
<1>4. /\ FileInv' /\ FileType' /\ Selects(page', slot) /\ page'[slot] = sb
      /\ page'[tail] = d /\ \A c \in Block : c # tail => page'[c] = page[c]
  BY <1>1, <1>2, <1>3, StagedWrite DEF HandleType
<1>5. sb.tail \in Nat /\ tail >= RegionStart /\ sb.tail <= tail /\ sb.seq \in Nat
  BY <1>1, <1>3, HandleIsNewest DEF HandleType, HandleInv, RegionStart
<1>6. \A e \in dir : e.off \in Nat /\ e.off \in Block /\ e.off < tail
  BY <1>1 DEF HandleInv, HandleType, WellFormed, Successor, Extent, Block
<1>7. WellFormed(Successor)'
  <2> DEFINE fr == Successor.xsum.free
  <2>1. /\ Successor.seq = sb.seq + 1 /\ Successor.dir_off = tail /\ Successor.xsum.dir = dir
        /\ Successor'.seq = sb.seq + 1 /\ Successor'.dir_off = tail + 1
        /\ Successor'.xsum.dir = dir \cup {added} /\ Successor'.xsum.free = fr
    BY <1>1, <1>2 DEF Successor
  <2>2. fr \subseteq FreeExtent
    BY <1>1, <1>5 DEF Successor, FreeExtent, HandleType, Superblock
  <2>3. \A x \in fr : x.off \in Nat /\ x.off < tail
    BY <1>1, <2>1, <2>2 DEF HandleInv, WellFormed, FreeExtent, Block
  <2>4. WellFormed(Successor)
    BY <1>1 DEF HandleInv
  <2> HIDE DEF fr
  <2> QED
    BY <1>3, <1>5, <1>6, <2>1, <2>3, <2>4 DEF WellFormed, fr
<1>8. \A e \in dir' : /\ ~e.dead => page'[e.off] = e.data
                      /\ e.off >= sb.tail \/ \E o \in sb.xsum.dir : o.off = e.off
  <2>1. \A e \in dir : /\ ~e.dead => page'[e.off] = e.data
                       /\ e.off >= sb.tail \/ \E o \in sb.xsum.dir : o.off = e.off
    BY <1>1, <1>3, <1>4, <1>6 DEF HandleInv
  <2> QED
    BY <1>1, <1>3, <1>4, <1>5, <2>1
<1>9. HandleInv'
  BY <1>1, <1>2, <1>3, <1>4, <1>5, <1>7, <1>8 DEF HandleInv
<1>10. HandleType' /\ ReaderType' /\ MemberInv' /\ PhaseInv'
  BY <1>1, <1>2, <1>3 DEF HandleType, ReaderType, MemberInv, PhaseInv, Extent
<1> QED
  BY <1>4, <1>9, <1>10, PartsInv

LEMMA RemoveKeeps ==
    ASSUME IInv, NEW n \in Names, Remove(n)
    PROVE  IInv'
<1>1. /\ FileInv /\ FileType /\ HandleType /\ ReaderType /\ HandleInv
      /\ opened /\ ~poisoned /\ phase = "idle" /\ open_member = NoMember
  BY InvParts DEF IInv, Remove, EnsureWritable
<1>2. UNCHANGED <<page, disk, dirty, opened, open_member, poisoned, failed_publication_selected,
                  publication_acknowledged, phase, attempted, reader, acked, declared, faults>>
  BY DEF Remove, NoFault, outcome, commitv, file
<1>3. StageEntry(n, <<>>) /\ <<>> \in Seq(Data) /\ 1 .. Len(<<>>) = {}
  BY <1>1 DEF Remove, StageEntry, HandleType
<1>4. page'[slot] = sb /\ Selects(page', slot) /\ \A c \in Block : c < tail => page'[c] = page[c]
  BY <1>1, <1>2 DEF HandleInv
<1>5. FileInv' /\ FileType'
  BY <1>1, <1>2 DEF FileInv, FileType, Clean, Chain, PageIsNewest, SlotValues,
                    PowerLossRecovers, AfterLoss, Recovers
<1>6. HandleInv' /\ dir' \subseteq Extent /\ free' \subseteq FreeExtent /\ tail' \in Nat
  BY <1>1, <1>2, <1>3, <1>4, StageStep
<1>7. HandleType' /\ ReaderType' /\ MemberInv' /\ PhaseInv'
  BY <1>1, <1>2, <1>6 DEF HandleType, ReaderType, MemberInv, PhaseInv, Remove
<1> QED
  BY <1>5, <1>6, <1>7, PartsInv

LEMMA FileKept ==
    ASSUME FileInv, FileType, UNCHANGED <<page, disk, dirty, acked>>
    PROVE  FileInv' /\ FileType'
BY DEF FileInv, FileType, Clean, Chain, PageIsNewest, SlotValues, PowerLossRecovers,
       AfterLoss, Recovers

LEMMA DeclareKeeps ==
    ASSUME IInv, NEW e \in dir, Declare(e)
    PROVE  IInv'
<1> DEFINE gone == [e EXCEPT !.dead = TRUE]
<1>1. /\ FileInv /\ FileType /\ HandleType /\ ReaderType /\ HandleInv
      /\ opened /\ ~poisoned /\ phase = "idle" /\ open_member = NoMember
      /\ dir' = (dir \ {e}) \cup {gone} /\ staged'
  BY InvParts DEF IInv, Declare, EnsureWritable
<1>2. UNCHANGED <<page, disk, dirty, free, sb, tail, slot, opened, open_member, poisoned,
                  failed_publication_selected, publication_acknowledged, phase, attempted,
                  reader, acked, declared, faults>>
  BY DEF Declare, NoFault, outcome, commitv, file
<1>3. gone \in Extent /\ gone.off = e.off /\ gone.dead
  BY <1>1 DEF HandleType, Extent
<1>4. FileInv' /\ FileType'
  BY <1>1, <1>2, FileKept
<1> HIDE DEF gone
<1>5. WellFormed(Successor)'
  <2>1. /\ Successor'.seq = Successor.seq /\ Successor'.dir_off = Successor.dir_off
        /\ Successor'.xsum.free = Successor.xsum.free
        /\ Successor.xsum.dir = dir /\ Successor'.xsum.dir = (dir \ {e}) \cup {gone}
    BY <1>1, <1>2 DEF Successor
  <2>2. WellFormed(Successor)
    BY <1>1 DEF HandleInv
  <2> QED
    BY <1>3, <2>1, <2>2 DEF WellFormed
<1>6. HandleInv'
  BY <1>1, <1>2, <1>3, <1>5 DEF HandleInv
<1>7. HandleType' /\ ReaderType' /\ MemberInv' /\ PhaseInv'
  BY <1>1, <1>2, <1>3 DEF HandleType, ReaderType, MemberInv, PhaseInv
<1> QED
  BY <1>4, <1>6, <1>7, PartsInv

LEMMA BeginMemberKeeps ==
    ASSUME IInv, NEW n \in Names, BeginMember(n)
    PROVE  IInv'
<1>1. /\ FileInv /\ FileType /\ HandleType /\ ReaderType /\ HandleInv
      /\ opened /\ ~poisoned /\ phase = "idle"
      /\ open_member' = [name |-> n, written |-> <<>>]
  BY InvParts DEF IInv, BeginMember, EnsureWritable
<1>2. UNCHANGED <<page, disk, dirty, view, opened, poisoned, failed_publication_selected,
                  publication_acknowledged, phase, attempted, reader, acked, declared, faults>>
  BY DEF BeginMember, NoFault, outcome, commitv, file
<1>3. page'[slot] = sb /\ Selects(page', slot) /\ \A c \in Block : c < tail => page'[c] = page[c]
  BY <1>1, <1>2 DEF HandleInv
<1>4. FileInv' /\ FileType' /\ HandleInv'
  BY <1>1, <1>2, <1>3, FileKept, ViewKept
<1>5. open_member' \in [name : Names, written : Seq(Data)]
  BY <1>1
<1>6. MemberInv'
  BY <1>1, <1>2 DEF MemberInv
<1>7. HandleType' /\ ReaderType' /\ PhaseInv'
  BY <1>1, <1>2, <1>5 DEF HandleType, ReaderType, PhaseInv, view
<1> QED
  BY <1>4, <1>6, <1>7, PartsInv

LEMMA WriteMemberKeeps ==
    ASSUME IInv, NEW d \in Data, WriteMember(d)
    PROVE  IInv'
<1> DEFINE written == open_member.written
           b == tail + Len(written)
<1>1. /\ FileInv /\ FileType /\ HandleType /\ ReaderType /\ HandleInv /\ MemberInv
      /\ opened /\ open_member # NoMember /\ b < LastBlock
  BY InvParts DEF IInv, WriteMember, Room
<1>2. UNCHANGED <<view, opened, poisoned, failed_publication_selected,
                  publication_acknowledged, phase, attempted, reader, acked, declared>>
  BY DEF WriteMember, outcome, commitv
<1>3. ~poisoned /\ phase = "idle" /\ written \in Seq(Data) /\ open_member.name \in Names
  BY <1>1 DEF MemberInv, HandleType
<1>4. b \in Block /\ tail \in Nat /\ tail <= b /\ Len(written) \in Nat
  BY <1>1, <1>3, BoundsAssumption DEF HandleType, Block
<1>5. PICK w \in {page[b], Torn, d} :
        /\ Write(b, w)
        /\ \/ w = d /\ open_member' = [open_member EXCEPT !.written = Append(@, d)] /\ UNCHANGED faults
           \/ UNCHANGED open_member /\ Fault
  BY DEF WriteMember, FailedWrite, NoFault
<1> HIDE DEF b
<1>6. w \in Value
  BY <1>1, <1>4, <1>5 DEF Value, FileType
<1>7. /\ FileInv' /\ FileType' /\ Selects(page', slot) /\ page'[slot] = sb
      /\ page'[b] = w /\ \A c \in Block : c # b => page'[c] = page[c]
  <2>1. /\ FileInv /\ FileType /\ HandleInv /\ opened /\ ~poisoned /\ phase # "barrier"
        /\ slot \in Slot /\ UNCHANGED acked
    BY <1>1, <1>2, <1>3 DEF HandleType
  <2> QED
    BY <2>1, <1>4, <1>5, <1>6, StagedWrite
<1>8. \A c \in Block : c < b => page'[c] = page[c]
  BY <1>4, <1>7 DEF Block
<1>9. HandleInv'
  <2>1. \A c \in Block : c < tail => page'[c] = page[c]
    BY <1>4, <1>8 DEF Block
  <2> QED
    BY <1>1, <1>2, <1>3, <1>7, <2>1, ViewKept
<1>10. tail' = tail
  BY <1>2 DEF view
<1>11. \A i \in 1 .. Len(written) : tail + i - 1 \in Block /\ page'[tail + i - 1] = written[i]
  <2> TAKE i \in 1 .. Len(written)
  <2>1. tail + i - 1 \in Block /\ page[tail + i - 1] = written[i]
    BY <1>1 DEF MemberInv
  <2>2. tail + i - 1 < b
    BY <1>4 DEF b
  <2> QED
    BY <1>8, <2>1, <2>2
<1>12. MemberInv' /\ (open_member' = NoMember \/ open_member' \in [name : Names, written : Seq(Data)])
  <2>1. CASE UNCHANGED open_member
    BY <1>1, <1>2, <1>3, <1>10, <1>11, <2>1 DEF MemberInv, HandleType
  <2>2. CASE w = d /\ open_member' = [open_member EXCEPT !.written = Append(@, d)]
    <3>1. /\ open_member' = [name |-> open_member.name, written |-> Append(written, d)]
          /\ open_member' \in [name : Names, written : Seq(Data)]
      <4>1. open_member \in [name : Names, written : Seq(Data)]
        BY <1>1 DEF HandleType
      <4>2. open_member' = [name |-> open_member.name, written |-> Append(written, d)]
        BY <2>2, <4>1
      <4>3. Append(written, d) \in Seq(Data)
        BY <1>3
      <4> QED
        BY <1>3, <4>2, <4>3
    <3>2. \A i \in 1 .. Len(Append(written, d)) :
             tail + i - 1 \in Block /\ page'[tail + i - 1] = Append(written, d)[i]
      <4> TAKE i \in 1 .. Len(Append(written, d))
      <4>1. CASE i \in 1 .. Len(written)
        BY <1>3, <1>11, <4>1
      <4>2. CASE i = Len(written) + 1
        BY <1>3, <1>4, <1>7, <2>2, <4>2 DEF b
      <4> QED
        BY <1>3, <4>1, <4>2
    <3> QED
      BY <1>1, <1>2, <1>3, <1>10, <3>1, <3>2 DEF MemberInv
  <2> QED
    BY <1>5, <2>1, <2>2
<1>13. faults' \in 0 .. MaxFaults
  BY <1>1, <1>5, BoundsAssumption DEF Fault, HandleType
<1>14. HandleType' /\ ReaderType' /\ PhaseInv'
  BY <1>1, <1>2, <1>3, <1>12, <1>13 DEF HandleType, ReaderType, PhaseInv, view
<1> QED
  BY <1>7, <1>9, <1>12, <1>14, PartsInv

LEMMA FinishMemberKeeps ==
    ASSUME IInv, FinishMember
    PROVE  IInv'
<1> DEFINE n == open_member.name
           written == open_member.written
<1>1. /\ FileInv /\ FileType /\ HandleType /\ ReaderType /\ HandleInv /\ MemberInv
      /\ opened /\ open_member # NoMember /\ StageEntry(n, written) /\ open_member' = NoMember
  BY InvParts DEF IInv, FinishMember
<1>2. UNCHANGED <<page, disk, dirty, opened, poisoned, failed_publication_selected,
                  publication_acknowledged, phase, attempted, reader, acked, declared, faults>>
  BY DEF FinishMember, NoFault, outcome, commitv, file
<1>3. /\ ~poisoned /\ phase = "idle" /\ written \in Seq(Data) /\ n \in Names
      /\ \A i \in 1 .. Len(written) : tail + i - 1 \in Block /\ page'[tail + i - 1] = written[i]
  BY <1>1, <1>2 DEF MemberInv, HandleType
<1>4. page'[slot] = sb /\ Selects(page', slot) /\ \A c \in Block : c < tail => page'[c] = page[c]
  BY <1>1, <1>2, <1>3 DEF HandleInv
<1>5. FileInv' /\ FileType'
  BY <1>1, <1>2, FileKept
<1> HIDE DEF n, written
<1>6. HandleInv' /\ dir' \subseteq Extent /\ free' \subseteq FreeExtent /\ tail' \in Nat
  BY <1>1, <1>2, <1>3, <1>4, StageStep
<1>7. HandleType' /\ ReaderType' /\ MemberInv' /\ PhaseInv'
  BY <1>1, <1>2, <1>3, <1>6 DEF HandleType, ReaderType, MemberInv, PhaseInv, StageEntry
<1> QED
  BY <1>5, <1>6, <1>7, PartsInv

LEMMA AbandonMemberKeeps ==
    ASSUME IInv, AbandonMember
    PROVE  IInv'
<1>1. /\ FileInv /\ FileType /\ HandleType /\ ReaderType /\ HandleInv /\ MemberInv
      /\ opened /\ open_member # NoMember /\ open_member' = NoMember
  BY InvParts DEF IInv, AbandonMember
<1>2. UNCHANGED <<page, disk, dirty, view, opened, poisoned, failed_publication_selected,
                  publication_acknowledged, phase, attempted, reader, acked, declared, faults>>
  BY DEF AbandonMember, NoFault, outcome, commitv, file
<1>3. ~poisoned /\ phase = "idle"
  BY <1>1 DEF MemberInv
<1>4. page'[slot] = sb /\ Selects(page', slot) /\ \A c \in Block : c < tail => page'[c] = page[c]
  BY <1>1, <1>2, <1>3 DEF HandleInv
<1>5. FileInv' /\ FileType' /\ HandleInv'
  BY <1>1, <1>2, <1>3, <1>4, FileKept, ViewKept
<1>6. HandleType' /\ ReaderType' /\ MemberInv' /\ PhaseInv'
  BY <1>1, <1>2, <1>3 DEF HandleType, ReaderType, MemberInv, PhaseInv, view
<1> QED
  BY <1>5, <1>6, PartsInv

LEMMA DiscardStagedKeeps ==
    ASSUME IInv, DiscardStaged
    PROVE  IInv'
<1>1. /\ FileInv /\ FileType /\ HandleType /\ ReaderType /\ HandleInv
      /\ opened /\ phase = "idle" /\ SnapBack
  BY InvParts DEF IInv, DiscardStaged
<1>2. UNCHANGED <<page, disk, dirty, opened, poisoned, failed_publication_selected,
                  publication_acknowledged, phase, attempted, reader, acked, declared, faults>>
  BY DEF DiscardStaged, NoFault, outcome, commitv, file
<1>3. FileInv' /\ FileType'
  BY <1>1, <1>2, FileKept
<1>4. HandleInv'
  <2>1. CASE poisoned
    BY <1>2, <2>1 DEF HandleInv
  <2>2. CASE ~poisoned
    BY <1>1, <1>2, <1>3, <2>2, FreshHandle DEF HandleInv, HandleType, SnapBack
  <2> QED
    BY <2>1, <2>2
<1>5. dir' \subseteq Extent /\ free' \subseteq FreeExtent /\ tail' \in Nat
  BY <1>1 DEF HandleType, SnapBack, Superblock, Directory
<1>6. HandleType' /\ ReaderType' /\ MemberInv' /\ PhaseInv'
  BY <1>1, <1>2, <1>5 DEF HandleType, ReaderType, MemberInv, PhaseInv, SnapBack
<1> QED
  BY <1>3, <1>4, <1>6, PartsInv

-----------------------------------------------------------------------------
(* Publication. *)

LEMMA FailureType ==
    ASSUME HandleType, FileInv', RefusedBeforeSelection \/ Reconcile, Fault,
           UNCHANGED <<opened, acked>>
    PROVE  HandleType'
<1>1. faults' \in 0 .. MaxFaults
  BY BoundsAssumption DEF Fault, HandleType
<1>2. sb.xsum.dir \subseteq Extent /\ sb.xsum.free \subseteq FreeExtent /\ sb.tail \in Nat
  BY DEF HandleType, Superblock, Directory
<1>3. CASE RefusedBeforeSelection
  BY <1>1, <1>2, <1>3 DEF RefusedBeforeSelection, SnapBack, view, HandleType
<1>4. CASE Reconcile /\ ~RefusedBeforeSelection
  <2>1. PICK s \in Slot :
          /\ Selects(page', s) /\ sb' = page'[s] /\ slot' = s
          /\ dir' = page'[s].xsum.dir /\ free' = page'[s].xsum.free /\ tail' = page'[s].tail
          /\ staged' = FALSE /\ open_member' = NoMember /\ phase' = "idle" /\ UNCHANGED attempted
          /\ poisoned' \in BOOLEAN /\ publication_acknowledged' \in BOOLEAN
          /\ failed_publication_selected' \in {"successor", "predecessor"}
    BY <1>4 DEF Reconcile
  <2>2. sb' \in Superblock
    BY <2>1 DEF FileInv, Chain, SlotValues, Selects, SuperblockOK, Slot
  <2>3. sb'.xsum.dir \subseteq Extent /\ sb'.xsum.free \subseteq FreeExtent /\ sb'.tail \in Nat
    BY <2>2 DEF Superblock, Directory
  <2> QED
    BY <1>1, <2>1, <2>2, <2>3 DEF HandleType
<1> QED
  BY <1>3, <1>4

LEMMA SuccessorType ==
    ASSUME HandleType, tail \in Block
    PROVE  Successor \in Superblock /\ Successor.xsum \in Directory
           /\ Successor.seq = sb.seq + 1 /\ Successor.tail = tail + 1
           /\ Successor.dir_off = tail /\ Successor.xsum.dir = dir
<1>1. sb.seq \in Nat /\ sb.dir_off \in Block
  BY DEF HandleType, Superblock
<1>2. {[off |-> sb.dir_off, freed |-> sb.seq + 1]} \subseteq FreeExtent
  BY <1>1 DEF FreeExtent
<1>3. Successor.xsum \in Directory
  BY <1>2 DEF Successor, Directory, HandleType
<1>4. tail + 1 \in Nat
  BY DEF HandleType
<1> QED
  BY <1>1, <1>3, <1>4 DEF Successor, Superblock

LEMMA CommitDirectoryKeeps ==
    ASSUME IInv, CommitDirectory
    PROVE  IInv'
<1>1. /\ FileInv /\ FileType /\ HandleType /\ ReaderType /\ HandleInv
      /\ opened /\ ~poisoned /\ phase = "idle" /\ open_member = NoMember
      /\ tail <= LastBlock /\ tail \in Nat /\ UNCHANGED <<opened, reader, acked, declared>>
  BY InvParts DEF IInv, CommitDirectory, EnsureWritable, HandleType
<1>2. tail \in Block /\ Successor.xsum \in Value /\ Successor \in Superblock
  BY <1>1, BoundsAssumption, SuccessorType DEF Block, Value
<1>3. ASSUME NEW w \in Value, Write(tail, w)
      PROVE  /\ FileInv' /\ FileType' /\ Selects(page', slot) /\ page'[slot] = sb
             /\ page'[tail] = w /\ \A c \in Block : c < tail => page'[c] = page[c]
  <2>1. /\ FileInv /\ FileType /\ HandleInv /\ opened /\ ~poisoned /\ phase # "barrier"
        /\ slot \in Slot /\ tail <= tail /\ UNCHANGED acked
    BY <1>1 DEF HandleType
  <2>2. /\ FileInv' /\ FileType' /\ Selects(page', slot) /\ page'[slot] = sb
        /\ page'[tail] = w /\ \A c \in Block : c # tail => page'[c] = page[c]
    BY <1>1, <1>2, <1>3, <2>1, StagedWrite
  <2> QED
    BY <1>1, <2>2 DEF Block
<1>4. CASE /\ Write(tail, Successor.xsum)
           /\ attempted' = Successor
           /\ phase' = "directory"
           /\ failed_publication_selected' = "none"
           /\ NoFault
           /\ UNCHANGED <<view, open_member, poisoned, publication_acknowledged>>
  <2>1. /\ FileInv' /\ FileType' /\ Selects(page', slot) /\ page'[slot] = sb
        /\ page'[tail] = Successor.xsum /\ \A c \in Block : c < tail => page'[c] = page[c]
    BY <1>2, <1>3, <1>4
  <2>2. HandleInv'
    BY <1>1, <1>4, <2>1, ViewKept
  <2>3. Successor' = Successor /\ tail' = tail
    BY <1>4 DEF view, Successor
  <2>4. PhaseInv' /\ MemberInv'
    BY <1>1, <1>2, <1>4, <2>1, <2>3 DEF PhaseInv, MemberInv
  <2>5. HandleType' /\ ReaderType'
    BY <1>1, <1>2, <1>4 DEF HandleType, ReaderType, view, NoFault
  <2> QED
    BY <2>1, <2>2, <2>4, <2>5, PartsInv
<1>5. CASE FailedWrite(tail, Successor.xsum) /\ RefusedBeforeSelection /\ Fault
  <2>1. PICK w \in {page[tail], Torn, Successor.xsum} : Write(tail, w)
    BY <1>5 DEF FailedWrite
  <2>2. w \in Value
    BY <1>1, <1>2 DEF FileType, Value
  <2>3. FileInv' /\ FileType'
    BY <1>3, <2>1, <2>2
  <2>4. HandleInv' /\ MemberInv' /\ PhaseInv' /\ HandleType' /\ ReaderType'
    BY <1>1, <1>5, <2>3, AfterFailure, FailureType DEF ReaderType
  <2> QED
    BY <2>3, <2>4, PartsInv
<1> QED
  BY <1>4, <1>5 DEF CommitDirectory

LEMMA PreFlipBarrierKeeps ==
    ASSUME IInv, PreFlipBarrier
    PROVE  IInv'
<1>1. /\ FileInv /\ FileType /\ HandleType /\ ReaderType /\ HandleInv /\ PhaseInv
      /\ opened /\ ~poisoned /\ phase = "directory" /\ open_member = NoMember
      /\ UNCHANGED <<opened, reader, acked, declared>>
  BY InvParts DEF IInv, PreFlipBarrier, PhaseInv
<1>2. CASE /\ SyncFile
           /\ phase' = "flip"
           /\ NoFault
           /\ UNCHANGED <<view, open_member, outcome, attempted>>
  <2>1. FileInv' /\ FileType'
    BY <1>1, <1>2, SyncKeeps DEF FileType, SyncFile
  <2>2. page'[slot] = sb /\ Selects(page', slot) /\ \A c \in Block : c < tail => page'[c] = page[c]
    BY <1>1, <1>2 DEF HandleInv, SyncFile
  <2>3. UNCHANGED <<view, open_member, poisoned, failed_publication_selected,
                    publication_acknowledged, attempted, faults>>
    BY <1>2 DEF outcome, NoFault
  <2>4. HandleInv'
    BY <1>1, <1>2, <2>2, <2>3, ViewKept
  <2>5. Successor' = Successor /\ tail' = tail
    BY <2>3 DEF view, Successor
  <2>6. PhaseInv' /\ MemberInv'
    BY <1>1, <1>2, <2>3, <2>5 DEF PhaseInv, MemberInv, SyncFile
  <2>7. HandleType' /\ ReaderType'
    BY <1>1, <1>2, <2>3 DEF HandleType, ReaderType, view
  <2> QED
    BY <2>1, <2>4, <2>6, <2>7, PartsInv
<1>3. CASE UNCHANGED file /\ RefusedBeforeSelection /\ Fault
  <2>1. FileInv' /\ FileType'
    BY <1>1, <1>3, FileKept DEF file
  <2>2. HandleInv' /\ MemberInv' /\ PhaseInv' /\ HandleType' /\ ReaderType'
    BY <1>1, <1>3, <2>1, AfterFailure, FailureType DEF ReaderType
  <2> QED
    BY <2>1, <2>2, PartsInv
<1> QED
  BY <1>2, <1>3 DEF PreFlipBarrier

\* The slot write, torn or complete: its predecessor is durable in the other
\* slot, and what it names was made durable before.
LEMMA SlotWrite ==
    ASSUME IInv, phase \in {"flip", "writing"}, NEW w \in {Torn, attempted},
           Write(NextSlot, w), UNCHANGED acked
    PROVE  /\ FileInv' /\ FileType' /\ page'[slot] = sb /\ page'[NextSlot] = w
           /\ w = Torn => Selects(page', slot)
           /\ \A b \in Block : b \notin Slot => page'[b] = page[b]
           /\ dirty' = {NextSlot}
<1>1. /\ FileInv /\ FileType /\ HandleType /\ HandleInv /\ PhaseInv
      /\ opened /\ ~poisoned /\ phase # "idle" /\ phase # "barrier"
      /\ slot \in Slot /\ tail \in Nat /\ attempted = Successor /\ tail \in Block
      /\ page[tail] = Successor.xsum
  BY InvParts DEF IInv, PhaseInv, HandleType
<1>2. NextSlot \in Slot /\ NextSlot # slot /\ NextSlot \in Block /\ 1 - NextSlot = slot
  BY <1>1, SlotsAreBlocks DEF NextSlot, Slot
<1>3. dirty \subseteq {NextSlot} /\ dirty' = {NextSlot} /\ disk' = disk
  BY <1>1 DEF PhaseInv, Write
<1>4. page'[NextSlot] = w /\ \A b \in Block : b # NextSlot => page'[b] = page[b]
  BY <1>1, <1>2 DEF Write, FileType
<1>5. \A b \in Block : b # NextSlot => disk[b] = page[b]
  BY <1>1, <1>3 DEF FileInv, Clean
<1>6. page[slot] = sb /\ page'[slot] = sb /\ disk[slot] = sb /\ Selects(page, slot)
  BY <1>1, <1>2, <1>4, <1>5, SlotsAreBlocks DEF HandleInv
<1>7. /\ SuperblockOK(sb) /\ Intact(page, sb)
      /\ sb.seq \in Nat /\ sb.tail \in Nat /\ sb.tail >= RegionStart
      /\ sb.seq >= acked.seq /\ (sb.seq = acked.seq => sb = acked)
      /\ \A v \in SlotValues : v.seq <= sb.seq /\ v.tail <= sb.tail /\ (v.seq = sb.seq => v = sb)
  BY <1>1, HandleIsNewest
<1>8. /\ attempted \in Superblock /\ attempted.seq = sb.seq + 1 /\ attempted.tail = tail + 1
      /\ attempted.dir_off = tail /\ attempted.xsum.dir = dir
  BY <1>1, SuccessorType
<1>9. SuperblockOK(attempted) /\ Decodes(attempted)
  <2>1. tail >= RegionStart /\ WellFormed(attempted)
    BY <1>1, <1>7 DEF HandleInv, RegionStart
  <2>2. Decodes(attempted)
    BY <1>8, DistinctAssumption DEF Decodes
  <2> QED
    BY <1>7, <1>8, <2>1, <2>2 DEF SuperblockOK
<1>10. ~Decodes(Torn)
  BY DEF Decodes
<1>11. SlotValues' \subseteq SlotValues \cup {attempted}
  BY <1>2, <1>3, <1>4, <1>6, <1>10 DEF SlotValues, Slot
<1>12. \A v \in SlotValues : v.seq \in Nat /\ v.tail \in Nat /\ v.seq < attempted.seq /\ v.tail < attempted.tail
  BY <1>1, <1>7, <1>8 DEF FileInv, Chain, SuperblockOK, Superblock, HandleInv
<1>13. Chain'
  <2>1. \A v \in SlotValues' : SuperblockOK(v)
    BY <1>1, <1>9, <1>11 DEF FileInv, Chain
  <2>2. \A v, u \in SlotValues' : (v.seq = u.seq => v = u) /\ (v.seq < u.seq => v.tail <= u.tail)
    <3>1. \A v, u \in SlotValues : (v.seq = u.seq => v = u) /\ (v.seq < u.seq => v.tail <= u.tail)
      BY <1>1 DEF FileInv, Chain
    <3>2. attempted.seq \in Nat /\ attempted.tail \in Nat
      BY <1>1, <1>7, <1>8
    <3> QED
      BY <1>11, <1>12, <3>1, <3>2
  <2> QED
    BY <2>1, <2>2 DEF Chain
<1>14. Clean'
  BY <1>3, <1>4, <1>5 DEF Clean
<1>15. w = Torn => Selects(page', slot)
  BY <1>2, <1>4, <1>6, <1>7, <1>10 DEF Selects, NextSlot
<1>16. w = attempted => Selects(page', NextSlot)
  BY <1>2, <1>4, <1>6, <1>7, <1>8, <1>9 DEF Selects, NextSlot
<1>17. sb \in SlotValues /\ Decodes(sb)
  BY <1>1, <1>6 DEF SlotValues, Selects, Slot
<1>18. PageIsNewest'
  <2>1. CASE w = Torn
    <3>1. SlotValues' \subseteq SlotValues
      BY <1>2, <1>3, <1>4, <1>6, <1>10, <2>1 DEF SlotValues, Slot
    <3> QED
      BY <1>1, <1>6, <1>7, <1>15, <2>1, <3>1 DEF PageIsNewest
  <2>2. CASE w = attempted
    <3>1. \A v \in SlotValues' : v.seq <= page'[NextSlot].seq
      BY <1>4, <1>8, <1>7, <1>11, <1>12, <2>2
    <3> QED
      BY <1>2, <1>16, <2>2, <3>1 DEF PageIsNewest
  <2> QED
    BY <2>1, <2>2
<1>19. \A b \in Refs(sb) \cup Refs(attempted) : b \in Block /\ b \notin Slot
  BY <1>7, <1>9, RefsInRegion
<1>20. Intact(disk, sb)
  <2>1. \A b \in Refs(sb) : page[b] = disk[b]
    BY <1>2, <1>5, <1>19
  <2> QED
    BY <1>7, <2>1, IntactElsewhere
<1>21. Intact(disk, attempted)
  <2>1. Intact(page, attempted)
    BY <1>1, <1>8 DEF Intact, Live, DirectoryReads, HandleInv
  <2>2. \A b \in Refs(attempted) : page[b] = disk[b]
    BY <1>2, <1>5, <1>19
  <2> QED
    BY <2>1, <2>2, IntactElsewhere
<1> PICK s0 \in Slot, s1 \in Slot : s0 = slot /\ s1 = NextSlot
  BY <1>1, <1>2
<1>22. ASSUME NEW left, left[slot] = sb, left[NextSlot] \in {disk[NextSlot], w, Torn}
       PROVE  \E s \in Slot : Recovers(left, s)'
  <2>1. CASE left[NextSlot] = attempted
    <3>1. Selects(left, NextSlot)
      BY <1>2, <1>7, <1>8, <1>9, <1>22, <2>1 DEF Selects, NextSlot
    <3>2. attempted.seq > acked.seq /\ acked.seq \in Nat
      BY <1>1, <1>7, <1>8 DEF HandleType, Superblock
    <3>3. Recovers(left, s1)'
      <4>1. left[s1] = attempted /\ Selects(left, s1)
        BY <2>1, <3>1
      <4>2. Refs(attempted) \cap dirty' = {}
        BY <1>2, <1>3, <1>19
      <4>3. attempted.seq \in Nat /\ attempted.seq >= acked'.seq /\ attempted.seq # acked'.seq
        BY <1>7, <1>8, <3>2
      <4>4. Intact(disk', attempted)
        BY <1>3, <1>21
      <4> QED
        BY <4>1, <4>2, <4>3, <4>4 DEF Recovers
    <3> QED
      BY <1>2, <3>3
  <2>2. CASE left[NextSlot] # attempted
    <3>1. Decodes(left[NextSlot]) => left[NextSlot] \in SlotValues
      BY <1>2, <1>10, <1>22, <2>2 DEF SlotValues, Slot
    <3>2. PICK s \in Slot : Selects(left, s) /\ left[s] = sb
      <4>1. CASE Decodes(left[NextSlot]) => left[NextSlot].seq < sb.seq
        BY <1>1, <1>17, <1>22, <4>1 DEF Selects, NextSlot
      <4>2. CASE Decodes(left[NextSlot]) /\ left[NextSlot] = sb
        BY <1>1, <1>2, <1>17, <1>22, <4>2 DEF Selects, Slot
      <4> QED
        BY <1>7, <1>12, <3>1, <4>1, <4>2
    <3>3. Recovers(left, s)'
      BY <1>2, <1>3, <1>7, <1>19, <1>20, <3>2 DEF Recovers
    <3> QED
      BY <3>3
  <2> QED
    BY <2>1, <2>2
<1>23. PowerLossRecovers'
  <2>1. AfterLoss(s0)' = {sb} /\ AfterLoss(s1)' = {disk[NextSlot], w, Torn}
    BY <1>2, <1>3, <1>4, <1>6 DEF AfterLoss
  <2>2. SUFFICES ASSUME NEW first, NEW second, first \in AfterLoss(0)', second \in AfterLoss(1)'
                 PROVE  \E s \in Slot : Recovers(Left(first, second), s)'
    BY DEF PowerLossRecovers
  <2> DEFINE left == Left(first, second)
  <2>3. left[0] = first /\ left[1] = second
    BY DEF Left, Slot
  <2>4. left[slot] = sb /\ left[NextSlot] \in {disk[NextSlot], w, Torn}
    BY <1>1, <1>2, <2>1, <2>2, <2>3 DEF Slot, NextSlot
  <2> HIDE DEF left
  <2>5. \E s \in Slot : Recovers(left, s)'
    BY <1>22, <2>4
  <2> QED
    BY <2>5 DEF left
<1>24. FileType'
  <2>1. w \in Value
    BY <1>8 DEF Value
  <2> QED
    BY <1>1, <1>2, <2>1 DEF FileType, Write
<1> QED
  BY <1>2, <1>3, <1>4, <1>6, <1>13, <1>14, <1>15, <1>18, <1>23, <1>24 DEF FileInv

\* A slot write keeps the handle: the staged bytes are behind the slots.
LEMMA SlotWriteView ==
    ASSUME IInv, phase \in {"flip", "writing"}, NEW w \in {Torn, attempted},
           Write(NextSlot, w), phase' \in {"writing", "barrier"}, w = Torn \/ phase' = "barrier",
           UNCHANGED <<opened, acked, declared, view, open_member, outcome, attempted, reader, faults>>
    PROVE  HandleInv' /\ MemberInv' /\ HandleType' /\ ReaderType'
<1>1. /\ FileInv /\ FileType /\ HandleType /\ ReaderType /\ HandleInv /\ PhaseInv /\ MemberInv
      /\ opened /\ ~poisoned /\ phase # "barrier" /\ phase # "idle" /\ open_member = NoMember
      /\ UNCHANGED <<dir, free, sb, tail, slot, staged, poisoned, failed_publication_selected,
                     publication_acknowledged>>
  BY InvParts DEF IInv, PhaseInv, view, outcome
<1>2. /\ page'[slot] = sb /\ (w = Torn => Selects(page', slot))
      /\ \A b \in Block : b \notin Slot => page'[b] = page[b]
  BY SlotWrite
<1>3. SuperblockOK(sb) /\ sb.tail >= RegionStart /\ sb.tail \in Nat
  BY <1>1, HandleIsNewest DEF HandleType
<1>4. Decodes(sb)
  BY <1>1 DEF HandleInv
<1>5. \A e \in dir : e.off \in Block /\ e.off \notin Slot
  BY <1>1 DEF HandleInv, HandleType, WellFormed, Successor, Extent, RegionStart, Slot, Block
<1>6. \A e \in dir : ~e.dead => page'[e.off] = e.data
  BY <1>1, <1>2, <1>5 DEF HandleInv
<1>7. Successor' = Successor
  BY <1>1 DEF Successor
<1>8. HandleInv'
  BY <1>1, <1>2, <1>4, <1>6, <1>7 DEF HandleInv
<1> QED
  BY <1>1, <1>8 DEF MemberInv, HandleType, ReaderType

LEMMA FlipBeginsKeeps ==
    ASSUME IInv, FlipBegins
    PROVE  IInv'
<1>1. /\ FileInv /\ FileType /\ HandleType /\ ReaderType /\ HandleInv /\ PhaseInv
      /\ opened /\ ~poisoned /\ phase = "flip" /\ open_member = NoMember
      /\ UNCHANGED <<opened, reader, acked, declared>>
  BY InvParts DEF IInv, FlipBegins, PhaseInv
<1>2. CASE /\ Write(NextSlot, Torn)
           /\ phase' = "writing"
           /\ NoFault
           /\ UNCHANGED <<view, open_member, outcome, attempted>>
  <2>1. /\ FileInv' /\ FileType' /\ page'[NextSlot] = Torn /\ dirty' = {NextSlot}
        /\ \A b \in Block : b \notin Slot => page'[b] = page[b]
    BY <1>1, <1>2, SlotWrite
  <2>2. HandleInv' /\ MemberInv' /\ HandleType' /\ ReaderType'
    BY <1>1, <1>2, SlotWriteView DEF NoFault
  <2>3. Successor' = Successor /\ tail' = tail /\ NextSlot' = NextSlot /\ poisoned' = poisoned
    BY <1>2 DEF view, Successor, NextSlot, outcome
  <2>4. tail \notin Slot
    BY <1>1, HandleIsNewest DEF HandleInv, HandleType, Slot, RegionStart
  <2>5. PhaseInv'
    BY <1>1, <1>2, <2>1, <2>3, <2>4 DEF PhaseInv
  <2> QED
    BY <2>1, <2>2, <2>5, PartsInv
<1>3. CASE UNCHANGED file /\ Reconcile /\ Fault
  <2>1. FileInv' /\ FileType'
    BY <1>1, <1>3, FileKept DEF file
  <2>2. HandleInv' /\ MemberInv' /\ PhaseInv' /\ HandleType' /\ ReaderType'
    BY <1>1, <1>3, <2>1, AfterFailure, FailureType DEF ReaderType
  <2> QED
    BY <2>1, <2>2, PartsInv
<1> QED
  BY <1>2, <1>3 DEF FlipBegins

LEMMA FlipLandsKeeps ==
    ASSUME IInv, FlipLands
    PROVE  IInv'
<1>1. /\ FileInv /\ FileType /\ HandleType /\ ReaderType /\ HandleInv /\ PhaseInv
      /\ opened /\ ~poisoned /\ phase = "writing" /\ open_member = NoMember
      /\ UNCHANGED <<opened, reader, acked, declared>>
  BY InvParts DEF IInv, FlipLands, PhaseInv
<1>2. CASE /\ Write(NextSlot, attempted)
           /\ phase' = "barrier"
           /\ NoFault
           /\ UNCHANGED <<view, open_member, outcome, attempted>>
  <2>1. /\ FileInv' /\ FileType' /\ page'[NextSlot] = attempted /\ dirty' = {NextSlot}
        /\ \A b \in Block : b \notin Slot => page'[b] = page[b]
    BY <1>1, <1>2, SlotWrite
  <2>2. HandleInv' /\ MemberInv' /\ HandleType' /\ ReaderType'
    BY <1>1, <1>2, SlotWriteView DEF NoFault
  <2>3. Successor' = Successor /\ tail' = tail /\ NextSlot' = NextSlot /\ poisoned' = poisoned
    BY <1>2 DEF view, Successor, NextSlot, outcome
  <2>4. tail \notin Slot
    BY <1>1, HandleIsNewest DEF HandleInv, HandleType, Slot, RegionStart
  <2>5. PhaseInv'
    BY <1>1, <1>2, <2>1, <2>3, <2>4 DEF PhaseInv
  <2> QED
    BY <2>1, <2>2, <2>5, PartsInv
<1>3. CASE (\E w \in {Torn, attempted} : Write(NextSlot, w)) /\ Reconcile /\ Fault
  <2>1. FileInv' /\ FileType'
    BY <1>1, <1>3, SlotWrite
  <2>2. HandleInv' /\ MemberInv' /\ PhaseInv' /\ HandleType' /\ ReaderType'
    BY <1>1, <1>3, <2>1, AfterFailure, FailureType DEF ReaderType
  <2> QED
    BY <2>1, <2>2, PartsInv
<1> QED
  BY <1>2, <1>3 DEF FlipLands

LEMMA DeclaresType ==
    ASSUME NEW v \in Superblock
    PROVE  Declares(v) \subseteq [off : Block, seq : Nat]
BY DEF Declares, Dead, Superblock, Directory, Extent

LEMMA FinalBarrierKeeps ==
    ASSUME IInv, FinalBarrier
    PROVE  IInv'
<1>1. /\ FileInv /\ FileType /\ HandleType /\ ReaderType /\ HandleInv /\ PhaseInv
      /\ opened /\ ~poisoned /\ phase = "barrier" /\ open_member = NoMember
      /\ attempted = Successor /\ tail \in Block /\ page[tail] = Successor.xsum
      /\ page[NextSlot] = attempted /\ slot \in Slot /\ tail \in Nat
      /\ UNCHANGED <<opened, reader>>
  BY InvParts DEF IInv, FinalBarrier, PhaseInv, HandleType
<1>2. CASE /\ SyncFile
           /\ sb' = attempted /\ tail' = attempted.tail /\ slot' = NextSlot
           /\ free' = attempted.xsum.free
           /\ staged' = FALSE
           /\ publication_acknowledged' = TRUE
           /\ phase' = "idle"
           /\ acked' = attempted /\ declared' = declared \cup Declares(attempted)
           /\ NoFault
           /\ UNCHANGED <<dir, open_member, poisoned, failed_publication_selected, attempted>>
  <2>1. /\ attempted \in Superblock /\ attempted.seq = sb.seq + 1 /\ attempted.dir_off = tail
        /\ attempted.xsum.dir = dir /\ sb.seq \in Nat
    BY <1>1, SuccessorType DEF HandleType, Superblock
  <2>2. NextSlot \in Slot /\ 1 - NextSlot = slot /\ NextSlot # slot
    BY <1>1 DEF NextSlot, Slot
  <2>3. Selects(page, NextSlot)
    BY <1>1, <2>1, <2>2, DistinctAssumption DEF Selects, HandleInv, Decodes
  <2>4. Intact(page, attempted)
    BY <1>1, <2>1 DEF Intact, Live, DirectoryReads, HandleInv
  <2>5. SlotValues' \subseteq SlotValues
    BY <1>2 DEF SlotValues, SyncFile
  <2>6. Chain'
    BY <1>1, <2>5, ChainShrinks DEF FileInv
  <2>7. page' = page /\ disk' = page' /\ dirty' = {}
    BY <1>2 DEF SyncFile
  <2>8. FileInv'
    <3>1. attempted.seq >= acked'.seq /\ acked' = attempted
      BY <1>2, <2>1 DEF Superblock
    <3> QED
      BY <1>1, <2>2, <2>3, <2>4, <2>6, <2>7, <3>1, Settled
  <2>9. FileType'
    BY <1>1, <2>7 DEF FileType
  <2>10. HandleInv'
    BY <1>1, <1>2, <2>1, <2>2, <2>3, <2>7, <2>8, FreshHandle
  <2>11. attempted.xsum.free \subseteq FreeExtent /\ attempted.tail \in Nat
    BY <2>1 DEF Superblock, Directory
  <2>12. HandleType' /\ MemberInv' /\ PhaseInv'
    BY <1>1, <1>2, <2>1, <2>2, <2>11 DEF HandleType, MemberInv, PhaseInv, NoFault
  <2>13. ReaderType'
    BY <1>1, <1>2, <2>1, DeclaresType DEF ReaderType
  <2> QED
    BY <2>8, <2>9, <2>10, <2>12, <2>13, PartsInv
<1>3. CASE UNCHANGED file /\ Reconcile /\ Fault /\ UNCHANGED <<acked, declared>>
  <2>1. FileInv' /\ FileType'
    BY <1>1, <1>3, FileKept DEF file
  <2>2. HandleInv' /\ MemberInv' /\ PhaseInv' /\ HandleType' /\ ReaderType'
    BY <1>1, <1>3, <2>1, AfterFailure, FailureType DEF ReaderType
  <2> QED
    BY <2>1, <2>2, PartsInv
<1> QED
  BY <1>2, <1>3 DEF FinalBarrier

LEMMA AcknowledgeKeeps ==
    ASSUME IInv, AcknowledgeCurrentState
    PROVE  IInv'
<1>1. /\ FileInv /\ FileType /\ HandleType /\ ReaderType /\ HandleInv
      /\ opened /\ ~poisoned /\ phase = "idle" /\ open_member = NoMember /\ ~publication_acknowledged
      /\ slot \in Slot
      /\ UNCHANGED <<opened, view, open_member, poisoned, failed_publication_selected,
                     phase, attempted, reader>>
  BY InvParts DEF IInv, AcknowledgeCurrentState, EnsureWritable, HandleType, commitv
<1>2. CASE /\ SyncFile /\ publication_acknowledged' = TRUE
           /\ acked' = sb /\ declared' = declared \cup Declares(sb) /\ NoFault
  <2>1. page' = page /\ disk' = page' /\ dirty' = {}
    BY <1>2 DEF SyncFile
  <2>2. Selects(page', slot) /\ page'[slot] = sb /\ Intact(page', sb) /\ sb.seq \in Nat
    BY <1>1, <2>1, HandleIsNewest DEF HandleInv
  <2>3. SlotValues' \subseteq SlotValues
    BY <1>2 DEF SlotValues, SyncFile
  <2>4. Chain'
    BY <1>1, <2>3, ChainShrinks DEF FileInv
  <2>5. FileInv'
    BY <1>1, <1>2, <2>1, <2>2, <2>4, Settled
  <2>6. UNCHANGED <<dir, free, sb, tail, slot, staged>> /\ Successor' = Successor
    BY <1>1 DEF view, Successor
  <2>7. HandleInv'
    BY <1>1, <1>2, <2>1, <2>2, <2>6 DEF HandleInv
  <2>8. HandleType' /\ MemberInv' /\ PhaseInv' /\ FileType'
    BY <1>1, <1>2, <2>1, <2>6 DEF HandleType, MemberInv, PhaseInv, NoFault, FileType
  <2>9. ReaderType'
    BY <1>1, <1>2, DeclaresType DEF HandleType, ReaderType
  <2> QED
    BY <2>5, <2>7, <2>8, <2>9, PartsInv
<1>3. CASE Fault /\ UNCHANGED <<file, publication_acknowledged, acked, declared>>
  <2>1. FileInv' /\ FileType'
    BY <1>1, <1>3, FileKept DEF file
  <2>2. page'[slot] = sb /\ Selects(page', slot) /\ \A c \in Block : c < tail => page'[c] = page[c]
    BY <1>1, <1>3 DEF HandleInv, file
  <2>3. HandleInv'
    BY <1>1, <1>3, <2>2, ViewKept
  <2>4. faults' \in 0 .. MaxFaults
    BY <1>1, <1>3, BoundsAssumption DEF Fault, HandleType
  <2>5. HandleType' /\ ReaderType' /\ MemberInv' /\ PhaseInv'
    BY <1>1, <1>3, <2>4 DEF HandleType, ReaderType, MemberInv, PhaseInv, view
  <2> QED
    BY <2>1, <2>3, <2>5, PartsInv
<1> QED
  BY <1>2, <1>3 DEF AcknowledgeCurrentState

-----------------------------------------------------------------------------
(* Punching, crashes, opening. *)

\* Holes where neither the state in force nor the staged one has a byte to
\* lose.
LEMMA HolesKeep ==
    ASSUME IInv, EnsureWritable, publication_acknowledged, NEW some \in SUBSET Block,
           \A b \in some : /\ b >= RegionStart /\ b \notin Refs(sb)
                            /\ \A e \in dir : e.off = b => e.dead,
           \/ DeallocateAndSync(some) /\ NoFault
           \/ Deallocate(some) /\ Fault,
           UNCHANGED <<handle, commitv, reader, acked, declared>>
    PROVE  IInv'
<1>1. /\ FileInv /\ FileType /\ HandleType /\ ReaderType /\ HandleInv
      /\ opened /\ ~poisoned /\ phase = "idle" /\ open_member = NoMember
      /\ slot \in Slot /\ acked = sb
      /\ UNCHANGED <<view, opened, open_member, poisoned, failed_publication_selected,
                     publication_acknowledged, phase, attempted, reader, acked, declared>>
  BY InvParts DEF IInv, EnsureWritable, HandleType, HandleInv, handle, outcome, commitv
<1> DEFINE Holed == [b \in Block |-> IF b \in some THEN Hole ELSE page[b]]
<1>2. \/ /\ page' = Holed /\ disk' = page' /\ dirty' = {} /\ NoFault
      \/ Deallocate(some) /\ Fault
  BY DEF DeallocateAndSync
<1>3. page' = Holed
  BY <1>2 DEF Deallocate
<1>4. /\ SuperblockOK(sb) /\ Intact(page, sb) /\ sb.seq \in Nat
      /\ \A v \in SlotValues : v.seq <= sb.seq /\ (v.seq = sb.seq => v = sb)
  BY <1>1, HandleIsNewest
<1>5. \A b \in some : b \notin Slot /\ b \notin Refs(sb)
  BY DEF RegionStart, Slot
<1>6. /\ \A b \in Block \ some : page'[b] = page[b]
      /\ some \cap Slot = {} /\ some \subseteq Block
  BY <1>2, <1>3, <1>5
<1>7. page'[slot] = sb /\ Selects(page', slot)
  <2>1. page'[0] = page[0] /\ page'[1] = page[1]
    BY <1>6, SlotsAreBlocks
  <2> QED
    BY <1>1, <2>1, SelectsSlots DEF HandleInv, Slot
<1>8. FileType'
  <2>1. page' \in [Block -> Value]
    BY <1>1, <1>3 DEF FileType, Value
  <2> QED
    BY <1>1, <1>2, <1>6, <2>1 DEF FileType, Deallocate
<1>9. FileInv'
  <2>1. CASE page' = Holed /\ disk' = page' /\ dirty' = {}
    <3>1. SlotValues' \subseteq SlotValues
      BY <1>6, <2>1, SlotsAreBlocks DEF SlotValues
    <3>2. \A b \in Refs(sb) : page'[b] = page[b]
      BY <1>4, <1>5, <1>6, RefsInRegion
    <3>3. Intact(page', sb)
      BY <1>4, <3>2, IntactElsewhere
    <3>4. Chain'
      BY <1>1, <3>1, ChainShrinks DEF FileInv
    <3> QED
      BY <1>1, <1>4, <1>7, <2>1, <3>3, <3>4, Settled
  <2>2. CASE Deallocate(some)
    <3>1. \A v \in SlotValues : v.seq >= acked.seq => some \cap Refs(v) = {}
      <4> SUFFICES ASSUME NEW v \in SlotValues, v.seq >= sb.seq
                   PROVE  v = sb
        BY <1>1, <1>5
      <4> QED
        BY <1>1, <1>4 DEF FileInv, Chain, SuperblockOK, Superblock
    <3> QED
      BY <1>1, <1>6, <2>2, <3>1, RegionStep DEF Deallocate
  <2> QED
    BY <1>2, <2>1, <2>2
<1>10. UNCHANGED <<dir, free, sb, tail, slot, staged>> /\ Successor' = Successor
  BY <1>1 DEF view, Successor
<1>11. \A e \in dir : ~e.dead => page'[e.off] = e.data
  <2>1. \A e \in dir : ~e.dead => e.off \in Block /\ e.off \notin some
    BY <1>1 DEF HandleType, Extent
  <2> QED
    BY <1>1, <1>6, <2>1 DEF HandleInv
<1>12. HandleInv'
  BY <1>1, <1>7, <1>10, <1>11 DEF HandleInv
<1>13. faults' \in 0 .. MaxFaults
  BY <1>1, <1>2, BoundsAssumption DEF Fault, NoFault, HandleType
<1>14. HandleType' /\ ReaderType' /\ MemberInv' /\ PhaseInv'
  BY <1>1, <1>10, <1>13 DEF HandleType, ReaderType, MemberInv, PhaseInv
<1> QED
  BY <1>8, <1>9, <1>12, <1>14, PartsInv

\* What may be punched is in no state the writer stands for.
LEMMA OldEnoughIsFree ==
    ASSUME IInv, EnsureWritable, NEW x \in OldEnough
    PROVE  /\ x.off \in Block /\ x.off >= RegionStart /\ x.off \notin Refs(sb)
           /\ \A e \in dir : e.off # x.off
<1>1. /\ FileInv /\ HandleType /\ HandleInv /\ opened /\ ~poisoned /\ phase # "barrier"
      /\ slot \in Slot /\ x \in free /\ x.freed + Grace <= sb.seq
  BY InvParts DEF IInv, EnsureWritable, HandleType, OldEnough
<1>2. SuperblockOK(sb) /\ sb.seq \in Nat
  BY <1>1, HandleIsNewest
<1>3. x.freed \in Nat /\ x.off \in Block /\ x.freed # sb.seq + 1
  BY <1>1, <1>2, BoundsAssumption DEF HandleType, FreeExtent
<1>4. x \in sb.xsum.free
  BY <1>1, <1>3 DEF HandleInv
<1>5. x.off >= RegionStart /\ x.off < sb.dir_off /\ \A e \in sb.xsum.dir : e.off # x.off
  BY <1>2, <1>4 DEF SuperblockOK, WellFormed
<1>6. x.off \notin Refs(sb)
  BY <1>3, <1>5 DEF Refs, Live, Block
<1>7. \A e \in dir : e.off # x.off
  BY <1>1 DEF HandleInv, WellFormed, Successor
<1> QED
  BY <1>3, <1>5, <1>6, <1>7

LEMMA DeclaredIsDead ==
    ASSUME IInv, EnsureWritable, NEW n \in Names, NEW d \in DeclaredPunched(n)
    PROVE  /\ d.off \in Block /\ d.off >= RegionStart /\ d.off \notin Refs(sb)
           /\ d \in Dead(sb) /\ \A e \in dir : e.off = d.off => e.dead
<1>1. /\ FileInv /\ HandleType /\ HandleInv /\ opened /\ ~poisoned /\ phase # "barrier"
      /\ slot \in Slot /\ d \in dir /\ d \in sb.xsum.dir /\ d.dead /\ d \in Dead(sb)
  BY InvParts DEF IInv, EnsureWritable, HandleType, DeclaredPunched, Dead
<1>2. SuperblockOK(sb)
  BY <1>1, HandleIsNewest
<1>3. d.off \in Block
  BY <1>1 DEF HandleType, Extent
<1>4. /\ d.off >= RegionStart /\ d.off < sb.dir_off
      /\ \A e \in sb.xsum.dir : e.off = d.off => e = d
  BY <1>1, <1>2 DEF SuperblockOK, WellFormed
<1>5. d.off \notin Refs(sb)
  BY <1>1, <1>3, <1>4 DEF Refs, Live, Block
<1>6. \A e \in dir : e.off = d.off => e = d
  BY <1>1 DEF HandleInv, WellFormed, Successor
<1> QED
  BY <1>1, <1>3, <1>4, <1>5, <1>6

LEMMA PunchKeeps ==
    ASSUME IInv, PunchFreeExtents
    PROVE  IInv'
<1>1. PICK some \in SUBSET {x.off : x \in OldEnough} :
        \/ DeallocateAndSync(some) /\ NoFault
        \/ Deallocate(some) /\ Fault
  BY DEF PunchFreeExtents
<1>2. EnsureWritable /\ publication_acknowledged
      /\ UNCHANGED <<handle, commitv, reader, acked, declared>>
  BY DEF PunchFreeExtents
<1>3. \A b \in some : /\ b \in Block /\ b >= RegionStart /\ b \notin Refs(sb)
                        /\ \A e \in dir : e.off = b => e.dead
  BY <1>2, OldEnoughIsFree
<1> QED
  BY <1>1, <1>2, <1>3, HolesKeep

LEMMA PunchWithinKeeps ==
    ASSUME IInv, NEW n \in Names, PunchWithinMember(n)
    PROVE  IInv'
<1>1. PICK some \in SUBSET {e.off : e \in DeclaredPunched(n)} :
        \/ DeallocateAndSync(some) /\ NoFault
        \/ Deallocate(some) /\ Fault
  BY DEF PunchWithinMember
<1>2. EnsureWritable /\ publication_acknowledged
      /\ UNCHANGED <<handle, commitv, reader, acked, declared>>
  BY DEF PunchWithinMember
<1>3. \A b \in some : /\ b \in Block /\ b >= RegionStart /\ b \notin Refs(sb)
                        /\ \A e \in dir : e.off = b => e.dead
  BY <1>2, DeclaredIsDead
<1> QED
  BY <1>1, <1>2, <1>3, HolesKeep

LEMMA EmptyIsSuperblock == EmptySuperblock \in Superblock /\ SuperblockOK(EmptySuperblock)
<1>1. EmptySuperblock \in Superblock
  BY BoundsAssumption DEF EmptySuperblock, EmptyDirectory, Superblock, Directory, Block, RegionStart
<1> QED
  BY <1>1 DEF SuperblockOK, WellFormed, EmptySuperblock, EmptyDirectory, RegionStart

LEMMA ClosedType ==
    ASSUME HandleType, Closed, acked' \in Superblock, Fault
    PROVE  HandleType' /\ HandleInv' /\ MemberInv' /\ PhaseInv'
<1>1. faults' \in 0 .. MaxFaults
  BY BoundsAssumption DEF Fault, HandleType
<1> QED
  BY <1>1, EmptyIsSuperblock
     DEF Closed, HandleType, HandleInv, MemberInv, PhaseInv, RegionStart, Slot

LEMMA ProcessDeathKeeps ==
    ASSUME IInv, ProcessDeath
    PROVE  IInv'
<1>1. FileInv /\ FileType /\ HandleType /\ ReaderType /\ acked \in Superblock
  BY InvParts DEF HandleType
<1>2. FileInv' /\ FileType' /\ ReaderType' /\ acked' \in Superblock
  BY <1>1, FileKept DEF ProcessDeath, file, ReaderType
<1>3. HandleType' /\ HandleInv' /\ MemberInv' /\ PhaseInv'
  BY <1>1, <1>2, ClosedType DEF ProcessDeath
<1> QED
  BY <1>2, <1>3, PartsInv

LEMMA PowerLossKeeps ==
    ASSUME IInv, PowerLoss
    PROVE  IInv'
<1>1. FileInv /\ FileType /\ HandleType /\ ReaderType /\ acked \in Superblock
  BY InvParts DEF HandleType
<1>2. PICK kept \in SUBSET dirty, torn \in SUBSET dirty :
        disk' = [b \in Block |-> IF b \in torn THEN Torn
                                 ELSE IF b \in kept THEN page[b] ELSE disk[b]]
  BY DEF PowerLoss
<1>3. \A b \in Block : disk'[b] \in AfterLoss(b)
  BY <1>2 DEF AfterLoss
<1>4. page' = disk' /\ dirty' = {} /\ acked' = acked
  BY DEF PowerLoss
<1>5. FileInv'
  BY <1>1, <1>3, <1>4, LossKeeps
<1>6. FileType'
  <2>1. Torn \in Value
    BY DEF Value
  <2> QED
    BY <1>1, <1>2, <1>4, <2>1 DEF FileType
<1>7. HandleType' /\ HandleInv' /\ MemberInv' /\ PhaseInv'
  BY <1>1, <1>4, ClosedType DEF PowerLoss
<1>8. ReaderType'
  BY <1>1 DEF PowerLoss, ReaderType, ReaderState, Idle
<1> QED
  BY <1>5, <1>6, <1>7, <1>8, PartsInv

LEMMA OpenWriterKeeps ==
    ASSUME IInv, OpenWriter
    PROVE  IInv'
<1>1. /\ FileInv /\ FileType /\ HandleType /\ ReaderType /\ MemberInv /\ PhaseInv /\ ~opened
  BY InvParts DEF IInv, OpenWriter
<1>2. UNCHANGED <<page, disk, dirty, staged, open_member, poisoned, failed_publication_selected,
                  phase, attempted, reader, acked, declared, faults>>
  BY DEF OpenWriter, file, commitv, NoFault
<1>3. PICK s \in Slot :
        /\ Selects(page, s) /\ sb' = page[s] /\ slot' = s /\ opened' = TRUE
        /\ dir' = page[s].xsum.dir /\ free' = page[s].xsum.free /\ tail' = page[s].tail
        /\ publication_acknowledged' = FALSE
  BY DEF OpenWriter
<1>4. phase = "idle" /\ open_member = NoMember
  BY <1>1 DEF PhaseInv, MemberInv
<1>5. FileInv' /\ FileType'
  BY <1>1, <1>2, FileKept
<1>6. HandleInv'
  BY <1>2, <1>3, <1>4, <1>5, FreshHandle
<1>7. sb' \in Superblock
  BY <1>1, <1>3 DEF FileInv, Chain, SlotValues, Selects, SuperblockOK, Slot
<1>8. dir' \subseteq Extent /\ free' \subseteq FreeExtent /\ tail' \in Nat
  BY <1>3, <1>7 DEF Superblock, Directory
<1>9. HandleType' /\ ReaderType' /\ MemberInv' /\ PhaseInv'
  BY <1>1, <1>2, <1>3, <1>4, <1>7, <1>8 DEF HandleType, ReaderType, MemberInv, PhaseInv
<1> QED
  BY <1>5, <1>6, <1>9, PartsInv

-----------------------------------------------------------------------------
(* Readers change nothing but themselves. *)

LEMMA SlotType ==
    ASSUME Chain, NEW s \in Slot
    PROVE  page[s] \in Superblock \cup {Torn, Hole, Unwritten}
BY DEF Chain, SlotValues, Decodes, SuperblockOK, Slot

LEMMA ReadKeeps ==
    ASSUME IInv, NEW r \in Readers, Read(r)
    PROVE  IInv'
<1>1. /\ FileInv /\ FileType /\ HandleType /\ ReaderType /\ HandleInv /\ MemberInv /\ PhaseInv
      /\ Chain
  BY InvParts DEF IInv
<1>2. UNCHANGED <<page, disk, dirty, opened, dir, free, sb, tail, slot, staged, open_member, poisoned,
                  failed_publication_selected, publication_acknowledged, phase, attempted, acked, declared, faults>>
  BY DEF Read, file, handle, view, outcome, commitv
<1>3. FileInv' /\ FileType'
  BY <1>1, <1>2, FileKept
<1>4. HandleType' /\ HandleInv' /\ MemberInv' /\ PhaseInv'
  BY <1>1, <1>2 DEF HandleType, HandleInv, MemberInv, PhaseInv, Successor, NextSlot
<1>5. SelectedSeq \in Nat
  <2>1. PICK s \in Slot : Selects(page, s)
    BY <1>1 DEF FileInv, PageIsNewest
  <2> DEFINE t == CHOOSE u \in Slot : Selects(page, u)
  <2>2. t \in Slot /\ Selects(page, t)
    BY <2>1
  <2> HIDE DEF t
  <2>3. page[t] \in Superblock
    BY <1>1, <2>2 DEF Chain, SlotValues, Selects, SuperblockOK, Slot
  <2> QED
    BY <2>3 DEF SelectedSeq, Superblock, t
<1>6. reader' \in [Readers -> ReaderState]
  <2> DEFINE st == reader[r]
  <2>1. st \in ReaderState
    BY <1>1 DEF ReaderType
  <2>2. SUFFICES ASSUME NEW q \in ReaderState, reader' = [reader EXCEPT ![r] = q]
                 PROVE  reader' \in [Readers -> ReaderState]
    <3>1. CASE MeasureLength(r)
      BY <1>1, <1>5, <2>2, <3>1 DEF MeasureLength, ReaderType, ReaderState, Block
    <3>2. CASE ReadFirstSlot(r)
      <4>1. page[0] \in Superblock \cup {Torn, Hole, Unwritten}
        BY <1>1, SlotType, SlotsAreBlocks
      <4>2. st.len \in Nat /\ st.since \in Nat
        BY <2>1, <3>2 DEF ReadFirstSlot, ReaderState
      <4>3. [pc |-> "slot1", len |-> st.len, since |-> st.since, first |-> page[0]] \in ReaderState
        BY <4>1, <4>2 DEF ReaderState
      <4> QED
        BY <1>1, <2>2, <3>2, <4>3 DEF ReadFirstSlot, ReaderType
    <3>3. CASE ReadSecondSlot(r)
      <4> DEFINE image == [s \in Slot |-> IF s = 0 THEN reader[r].first ELSE page[1]]
                 t == CHOOSE s \in Slot : Selects(image, s)
                 chosen == IF image[t].tail > st.len /\ ~FileReaches(image[t].tail)
                           THEN [pc |-> "truncated"]
                           ELSE [pc |-> "selected", since |-> st.since, sb |-> image[t]]
      <4>1. page[1] \in Superblock \cup {Torn, Hole, Unwritten}
        BY <1>1, SlotType, SlotsAreBlocks
      <4>2. st.since \in Nat /\ st.first \in Superblock \cup {Torn, Hole, Unwritten}
        BY <2>1, <3>3 DEF ReadSecondSlot, ReaderState
      <4>3. \A s \in Slot : image[s] \in Superblock \cup {Torn, Hole, Unwritten}
        BY <4>1, <4>2
      <4>4. reader' = [reader EXCEPT ![r] = IF \E s \in Slot : Selects(image, s)
                                            THEN chosen ELSE [pc |-> "refused"]]
        BY <3>3 DEF ReadSecondSlot, LooksTruncated
      <4> HIDE DEF image
      <4>5. (\E s \in Slot : Selects(image, s)) => image[t] \in Superblock
        BY <4>3 DEF Selects, Decodes
      <4>6. (\E s \in Slot : Selects(image, s)) => chosen \in ReaderState
        BY <4>2, <4>5 DEF ReaderState
      <4>7. [pc |-> "refused"] \in ReaderState
        BY DEF ReaderState
      <4> HIDE DEF chosen
      <4> QED
        BY <1>1, <2>2, <4>4, <4>6, <4>7 DEF ReaderType
    <3>4. CASE ReadDirectory(r)
      <4>1. st.pc = "selected" /\ st \in [pc : {"selected", "pinned"}, since : Nat, sb : Superblock]
        BY <2>1, <3>4 DEF ReadDirectory, ReaderState
      <4>2. [st EXCEPT !.pc = "pinned"] \in ReaderState
        BY <4>1 DEF ReaderState
      <4>3. [pc |-> "refused"] \in ReaderState
        BY DEF ReaderState
      <4> QED
        BY <1>1, <2>2, <3>4, <4>2, <4>3 DEF ReadDirectory, ReaderType
    <3>5. CASE CloseReader(r)
      BY <1>1, <2>2, <3>5 DEF CloseReader, ReaderType, ReaderState, Idle
    <3> QED
      BY <3>1, <3>2, <3>3, <3>4, <3>5 DEF Read
  <2> QED
    BY <1>1, <2>2 DEF ReaderType
<1>7. ReaderType'
  BY <1>1, <1>2, <1>6 DEF ReaderType
<1> QED
  BY <1>3, <1>4, <1>7, PartsInv

-----------------------------------------------------------------------------
(* The induction. *)

LEMMA InitInv == Init => IInv
<1> SUFFICES ASSUME Init PROVE IInv
  OBVIOUS
<1>1. /\ page[0] = EmptySuperblock /\ page[1] = Hole /\ disk = page /\ dirty = {}
  BY SlotsAreBlocks DEF Init, Slot
<1>2. /\ EmptySuperblock \in Superblock /\ SuperblockOK(EmptySuperblock) /\ EmptySuperblock.seq = 0
      /\ EmptySuperblock.xsum.dir = {} /\ Refs(EmptySuperblock) = {}
  BY EmptyIsSuperblock DEF EmptySuperblock, EmptyDirectory, Refs, Live
<1>3. Decodes(EmptySuperblock) /\ ~Decodes(Hole)
  BY <1>2, DistinctAssumption DEF Decodes
<1>4. SlotValues = {EmptySuperblock}
  BY <1>1, <1>3 DEF SlotValues
<1>5. FileType
  BY <1>2 DEF FileType, Init, Value
<1>6. Clean /\ Chain
  BY <1>1, <1>2, <1>4 DEF Clean, Chain
<1>7. Selects(page, 0)
  BY <1>1, <1>3 DEF Selects
<1>8. PageIsNewest
  BY <1>1, <1>2, <1>4, <1>7 DEF PageIsNewest, Slot
<1>9. PowerLossRecovers
  <2>1. AfterLoss(0) = {EmptySuperblock} /\ AfterLoss(1) = {Hole} /\ acked = EmptySuperblock
    BY <1>1 DEF AfterLoss, Init
  <2> DEFINE left == Left(EmptySuperblock, Hole)
  <2>2. left[0] = page[0] /\ left[1] = page[1]
    BY <1>1 DEF Left, Slot
  <2>3. Selects(left, 0)
    BY <1>7, <2>2, SelectsSlots DEF Slot
  <2>4. left[0] = acked
    BY <1>1, <2>1, <2>2
  <2> HIDE DEF left
  <2>5. Recovers(left, 0)
    BY <1>2, <2>1, <2>3, <2>4 DEF Recovers, Intact, DirectoryReads, Live
  <2> QED
    BY <2>1, <2>5 DEF PowerLossRecovers, Slot, left
<1>10. HandleInv
  <2>1. WellFormed(Successor)
    BY <1>2 DEF Init, Successor, WellFormed, EmptySuperblock, EmptyDirectory, RegionStart
  <2> QED
    BY <1>1, <1>2, <1>3, <1>7, <2>1 DEF Init, HandleInv, EmptySuperblock, EmptyDirectory, RegionStart
<1>11. MemberInv /\ PhaseInv
  BY DEF Init, MemberInv, PhaseInv
<1>12. TypeOK
  <2>1. ReaderType
    BY DEF Init, ReaderType, ReaderState, Idle
  <2>2. faults \in 0 .. MaxFaults
    BY BoundsAssumption DEF Init
  <2> QED
    <3>1. HandleType
      BY <1>2, <2>2 DEF Init, HandleType, RegionStart, Slot
    <3>2. \A s \in Slot : Decodes(page[s]) => page[s] \in Superblock
      BY <1>1, <1>2, <1>3 DEF Slot
    <3> QED
      BY <1>5, <2>1, <3>1, <3>2 DEF TypeOK, FileType, HandleType, ReaderType
<1> QED
  BY <1>6, <1>8, <1>9, <1>10, <1>11, <1>12 DEF IInv

LEMMA NextKeeps == IInv /\ [Next]_vars => IInv'
<1> SUFFICES ASSUME IInv, [Next]_vars PROVE IInv'
  OBVIOUS
<1>1. CASE Stage
  BY <1>1, PutBytesKeeps, PutBytesFailsKeeps, AppendStreamKeeps, RemoveKeeps, DeclareKeeps, BeginMemberKeeps,
     WriteMemberKeeps, FinishMemberKeeps, AbandonMemberKeeps, DiscardStagedKeeps DEF Stage
<1>2. CASE Publish
  BY <1>2, CommitDirectoryKeeps, PreFlipBarrierKeeps, FlipBeginsKeeps, FlipLandsKeeps,
     FinalBarrierKeeps, AcknowledgeKeeps DEF Publish
<1>3. CASE \/ PunchFreeExtents \/ \E n \in Names : PunchWithinMember(n)
           \/ ProcessDeath \/ PowerLoss \/ OpenWriter
  BY <1>3, PunchKeeps, PunchWithinKeeps, ProcessDeathKeeps, PowerLossKeeps, OpenWriterKeeps
<1>4. CASE \E r \in Readers : Read(r)
  BY <1>4, ReadKeeps
<1>5. CASE UNCHANGED vars
  <2>1. UNCHANGED <<page, disk, dirty, opened, dir, free, sb, tail, slot, staged, open_member, poisoned,
                    failed_publication_selected, publication_acknowledged, phase, attempted, reader,
                    acked, declared, faults>>
    BY <1>5 DEF vars, file, handle, view, outcome, commitv
  <2>2. /\ FileInv /\ FileType /\ HandleType /\ ReaderType /\ HandleInv /\ MemberInv /\ PhaseInv
    BY InvParts DEF IInv
  <2>3. FileInv' /\ FileType'
    BY <2>1, <2>2, FileKept
  <2>4. HandleType' /\ ReaderType' /\ HandleInv' /\ MemberInv' /\ PhaseInv'
    BY <2>1, <2>2 DEF HandleType, ReaderType, HandleInv, MemberInv, PhaseInv, Successor, NextSlot
  <2> QED
    BY <2>3, <2>4, PartsInv
<1> QED
  BY <1>1, <1>2, <1>3, <1>4, <1>5 DEF Next

\* The inductive invariant of the container: what is true between any two
\* steps of commit, a crash, a reader or a punch.
THEOREM Inductive == Spec => []IInv
BY InitInv, NextKeeps, PTL DEF Spec

\* Type correctness, whatever the names, the contents and the bounds.
THEOREM TypeCorrect == Spec => []TypeOK
<1>1. IInv => TypeOK
  BY DEF IInv
<1> QED
  BY <1>1, Inductive, PTL

\* Whatever a power loss leaves at any moment (commit_staged, flip, reconcile,
\* punch_free_extents and every failure in them included), opening recovers a
\* published state with all its bytes, never older than the last acknowledged.
THEOREM Durability == Spec => []PowerLossRecovers
<1>1. IInv => PowerLossRecovers
  BY DEF IInv
<1> QED
  BY <1>1, Inductive, PTL

\* No state that is published or about to be claims a byte twice, so
\* read_directory never refuses one the writer wrote.
THEOREM DirectoriesStayValid == Spec => []DirectoriesAreValid
<1>1. IInv => DirectoriesAreValid
  <2> SUFFICES ASSUME IInv PROVE DirectoriesAreValid
    OBVIOUS
  <2>1. \A s \in Slot : Decodes(page[s]) => WellFormed(page[s])
    BY DEF IInv, Chain, SlotValues, SuperblockOK, Slot
  <2> QED
    BY <2>1 DEF DirectoriesAreValid, IInv, HandleInv
<1> QED
  BY <1>1, Inductive, PTL

\* A handle that accepts mutations between calls holds the state the file
\* selects, whatever failed before (Container::reconcile).
THEOREM HandleStaysTrue == Spec => []HandleMirrorsSelection
<1>1. IInv => HandleMirrorsSelection
  BY DEF IInv, HandleInv, HandleMirrorsSelection
<1> QED
  BY <1>1, Inductive, PTL

-----------------------------------------------------------------------------
(* What the container promises to others rests on Inductive and on what    *)
(* the two slots and the readers keep of older states (SlotsInv,           *)
(* ReadersInv).                                                            *)

-----------------------------------------------------------------------------
(* What a reader may still count on of an older state. *)

\* A state that is intact is read whole, and every block it names is kept.
LEMMA IntactReads ==
    ASSUME NEW f, NEW v, Intact(f, v)
    PROVE  Reads(f, v)
BY DEF Intact, Reads

\* Bytes that are the same in two images make a state readable in both.
LEMMA ReadsElsewhere ==
    ASSUME NEW f, NEW g, NEW v, Reads(f, v), \A b \in Kept(v) : f[b] = g[b]
    PROVE  Reads(g, v)
<1>1. v.seq # 0 => f[v.dir_off] = g[v.dir_off]
  BY DEF Kept, Refs
<1>2. \A e \in Live(v) : e.off \notin Erased(v) => f[e.off] = g[e.off]
  BY DEF Kept, Refs
<1> QED
  BY <1>1, <1>2 DEF Reads, DirectoryReads

\* What is declared punched only grows, by what the acknowledged states say.
History == declared \subseteq declared' /\ Declares(acked') \subseteq declared'

LEMMA HistoryStep ==
    ASSUME SlotsInv, [Next]_vars
    PROVE  History
<1>1. CASE UNCHANGED <<acked, declared>>
  BY <1>1 DEF History, SlotsInv
<1>2. CASE acked' = attempted /\ declared' = declared \cup Declares(attempted)
  BY <1>2 DEF History
<1>3. CASE acked' = sb /\ declared' = declared \cup Declares(sb)
  BY <1>3 DEF History
<1> QED
  BY <1>1, <1>2, <1>3 DEF Next, vars, Stage, Publish, PutBytes, PutBytesFails, AppendStream, Remove,
     Declare, BeginMember, WriteMember, FinishMember, AbandonMember, DiscardStaged, CommitDirectory,
     PreFlipBarrier, FlipBegins, FlipLands, FinalBarrier, AcknowledgeCurrentState,
     PunchFreeExtents, PunchWithinMember, ProcessDeath, PowerLoss, OpenWriter, Read

\* Erased, Kept, Reads and Durable of a fixed state after a step.
ErasedNext(v)   == {x.off : x \in {y \in declared' : y.seq > v.seq}}
KeptNext(v)     == {b \in Refs(v) : b \in ErasedNext(v) => b = v.dir_off}
ReadsNext(f, v) ==
    /\ DirectoryReads(f, v)
    /\ \A e \in Live(v) : f[e.off] = e.data \/ e.off \in ErasedNext(v)
DurableNext(v)  == KeptNext(v) \cap dirty' = {} /\ ReadsNext(disk', v)

LEMMA LessIsKept ==
    ASSUME History, NEW v
    PROVE  Erased(v) \subseteq ErasedNext(v) /\ KeptNext(v) \subseteq Kept(v)
BY DEF History, Erased, ErasedNext, Kept, KeptNext

LEMMA ReadsLater ==
    ASSUME History, NEW f, NEW g, NEW v, Reads(f, v), \A b \in Kept(v) : f[b] = g[b]
    PROVE  ReadsNext(g, v)
<1>1. Reads(g, v)
  BY ReadsElsewhere
<1> QED
  BY <1>1, LessIsKept DEF Reads, ReadsNext

-----------------------------------------------------------------------------
(* The state an image selects. *)

\* Every image has one selected state, and no state is newer or longer than
\* the one the page cache selects.
LEMMA PageChoice ==
    ASSUME FileInv
    PROVE  \E t \in Slot : Selects(page, t)
BY DEF FileInv, PageIsNewest

LEMMA DiskChoice ==
    ASSUME FileInv
    PROVE  \E t \in Slot : /\ Selects(disk, t) /\ disk[t] \in SlotValues
                           /\ disk[t].seq >= acked.seq /\ Durable(disk[t])
<1> DEFINE left == Left(disk[0], disk[1])
<1>1. disk[0] \in AfterLoss(0) /\ disk[1] \in AfterLoss(1)
  BY DEF AfterLoss
<1>2. PICK t \in Slot : Recovers(left, t)
  BY <1>1 DEF FileInv, PowerLossRecovers
<1>3. left[0] = disk[0] /\ left[1] = disk[1] /\ left[t] = disk[t]
  BY DEF Left, Slot
<1> HIDE DEF left
<1>4. Selects(disk, t)
  BY <1>2, <1>3, SelectsSlots DEF Recovers
<1> QED
  BY <1>2, <1>3, <1>4, IntactReads DEF Recovers, Durable, Kept, Selects, SlotValues, Slot

LEMMA ImageSlots ==
    ASSUME FileInv, NEW f \in {page, disk}, NEW s \in Slot, Decodes(f[s])
    PROVE  /\ f[s] \in SlotValues /\ SuperblockOK(f[s])
           /\ f[s].seq \in Nat /\ f[s].tail \in Nat
BY DEF SlotValues, Slot, FileInv, Chain, SuperblockOK, Superblock

LEMMA OneChoice ==
    ASSUME FileInv, NEW f \in {page, disk}, NEW s \in Slot, NEW t \in Slot,
           Selects(f, s), Selects(f, t)
    PROVE  s = t
<1>1. Decodes(f[s]) /\ Decodes(f[t])
  BY DEF Selects
<1> QED
  BY <1>1, ImageSlots, SelectsOne

LEMMA SelectedIs ==
    ASSUME FileInv, NEW f \in {page, disk}, NEW t \in Slot, Selects(f, t)
    PROVE  Selected(f) = f[t]
BY OneChoice DEF Selected

LEMMA SelectedSeqIs ==
    ASSUME FileInv, NEW t \in Slot, Selects(page, t)
    PROVE  SelectedSeq = page[t].seq
BY SelectedIs DEF Selected, SelectedSeq

\* The selected state is the newest, the longest, and durable.
LEMMA Newest ==
    ASSUME FileInv, NEW t \in Slot, Selects(page, t)
    PROVE  /\ page[t] \in SlotValues /\ SuperblockOK(page[t])
           /\ page[t].seq \in Nat /\ page[t].tail \in Nat
           /\ Durable(page[t]) /\ Intact(page, page[t])
           /\ \A v \in SlotValues : /\ v.seq <= page[t].seq /\ v.tail <= page[t].tail
                                    /\ v.seq = page[t].seq => v = page[t]
<1>1. Recovers(page, t) /\ Intact(page, page[t]) /\ page[t] \in SlotValues
  BY SelectedIsRecovered
<1>2. SuperblockOK(page[t]) /\ page[t].seq \in Nat /\ page[t].tail \in Nat
  BY <1>1 DEF FileInv, Chain, SuperblockOK, Superblock
<1>3. PICK s \in Slot : Selects(page, s) /\ \A v \in SlotValues : v.seq <= page[s].seq
  BY DEF FileInv, PageIsNewest
<1>4. s = t
  BY <1>3, OneChoice
<1>5. \A v \in SlotValues : v.seq <= page[t].seq
  BY <1>3, <1>4
<1>6. \A v \in SlotValues : /\ v.seq \in Nat /\ v.tail \in Nat
                            /\ v.seq = page[t].seq => v = page[t]
                            /\ v.seq < page[t].seq => v.tail <= page[t].tail
  BY <1>1 DEF FileInv, Chain, SuperblockOK, Superblock
<1>7. \A v \in SlotValues : v.tail <= page[t].tail
  BY <1>2, <1>5, <1>6
<1> QED
  BY <1>1, <1>2, <1>5, <1>6, <1>7, IntactReads DEF Recovers, Durable, Kept

-----------------------------------------------------------------------------
(* What a step may do to the file, whichever action takes it. *)

\* A block behind every state that can be found is written.
RegionWrite ==
    \E b \in Block, w \in Value :
      /\ Write(b, w) /\ b \notin Slot
      /\ \A v \in SlotValues : v.tail <= b
      /\ \A t \in Slot : Selects(page, t) => page[t].tail <= b

Punching  == PunchFreeExtents \/ \E n \in Names : PunchWithinMember(n)
SlotTorn  == phase \in {"flip", "writing"} /\ Write(NextSlot, Torn)
SlotLands == phase = "writing" /\ Write(NextSlot, attempted)

\* The steps of a process that is alive leave the readers alone, but for the
\* readers' own.
FileStep ==
    \/ UNCHANGED file
    \/ RegionWrite /\ UNCHANGED reader
    \/ SyncFile /\ UNCHANGED reader
    \/ SlotTorn /\ UNCHANGED reader
    \/ SlotLands /\ UNCHANGED reader
    \/ Punching
    \/ PowerLoss

LEMMA BehindAll ==
    ASSUME IInv, opened, ~poisoned, phase # "barrier", NEW b \in Block, b >= tail,
           NEW w \in Value, Write(b, w)
    PROVE  RegionWrite
<1>1. FileInv /\ HandleType /\ HandleInv /\ slot \in Slot /\ tail \in Nat
  BY InvParts DEF IInv, HandleType
<1>2. /\ sb.tail <= tail /\ page[slot] = sb /\ Selects(page, slot)
      /\ sb.tail \in Nat /\ sb.tail >= RegionStart
      /\ \A v \in SlotValues : v.tail <= sb.tail
  BY <1>1, HandleIsNewest DEF HandleInv
<1>3. \A v \in SlotValues : v.tail \in Nat
  BY <1>1 DEF FileInv, Chain, SuperblockOK, Superblock
<1>4. b \in Nat /\ b \notin Slot
  BY <1>1, <1>2 DEF Block, Slot, RegionStart
<1>5. \A v \in SlotValues : v.tail <= b
  BY <1>1, <1>2, <1>3, <1>4
<1>6. \A t \in Slot : Selects(page, t) => page[t].tail <= b
  BY <1>1, <1>5, ImageSlots DEF Selects
<1> QED
  BY <1>4, <1>5, <1>6 DEF RegionWrite

LEMMA BehindAllFailed ==
    ASSUME IInv, opened, ~poisoned, phase # "barrier", NEW b \in Block, b >= tail,
           NEW v \in Value, FailedWrite(b, v)
    PROVE  RegionWrite
<1>1. PICK w \in {page[b], Torn, v} : Write(b, w)
  BY DEF FailedWrite
<1>2. w \in Value
  BY <1>1, InvParts DEF FileType, Value
<1> QED
  BY <1>1, <1>2, BehindAll

LEMMA StepKinds ==
    ASSUME IInv, [Next]_vars
    PROVE  FileStep
<1>1. /\ HandleType /\ PhaseInv /\ MemberInv /\ tail \in Nat
      /\ Data \subseteq Value /\ Directory \subseteq Value
  BY InvParts DEF IInv, HandleType, Value
<1>2. CASE UNCHANGED vars
  BY <1>2 DEF vars, file, FileStep
<1>3. CASE Stage
  <2>1. ASSUME NEW n \in Names, NEW d \in Data,
               PutBytes(n, d) \/ PutBytesFails(n, d) \/ AppendStream(n, d)
        PROVE  FileStep
    <3>1. /\ opened /\ ~poisoned /\ phase # "barrier" /\ tail \in Block /\ d \in Value
          /\ UNCHANGED reader
      BY <1>1, <2>1, BoundsAssumption
         DEF PutBytes, PutBytesFails, AppendStream, EnsureWritable, Block, Room
    <3>2. Write(tail, d) \/ FailedWrite(tail, d)
      BY <2>1 DEF PutBytes, PutBytesFails, AppendStream
    <3>3. RegionWrite
      BY <1>1, <3>1, <3>2, BehindAll, BehindAllFailed
    <3> QED
      BY <3>1, <3>3 DEF FileStep
  <2>2. ASSUME NEW n \in Names, Remove(n) \/ BeginMember(n)
        PROVE  FileStep
    BY <2>2 DEF Remove, BeginMember, FileStep
  <2>5. ASSUME NEW e \in dir, Declare(e)
        PROVE  FileStep
    BY <2>5 DEF Declare, FileStep
  <2>3. ASSUME NEW d \in Data, WriteMember(d)
        PROVE  FileStep
    <3> DEFINE b == tail + Len(open_member.written)
    <3>1. opened /\ ~poisoned /\ phase # "barrier" /\ open_member # NoMember
      BY <1>1, <2>3 DEF WriteMember, MemberInv
    <3>2. open_member.written \in Seq(Data)
      BY <1>1, <3>1 DEF HandleType
    <3>3. b < LastBlock /\ (Write(b, d) \/ FailedWrite(b, d)) /\ UNCHANGED reader
      BY <2>3 DEF WriteMember, Room
    <3>4. b \in Block /\ b >= tail /\ d \in Value
      BY <1>1, <3>2, <3>3, BoundsAssumption DEF Block
    <3> HIDE DEF b
    <3>5. RegionWrite
      BY <3>1, <3>3, <3>4, BehindAll, BehindAllFailed
    <3> QED
      BY <3>3, <3>5 DEF FileStep
  <2>4. CASE FinishMember \/ AbandonMember \/ DiscardStaged
    BY <2>4 DEF FinishMember, AbandonMember, DiscardStaged, FileStep
  <2> QED
    BY <1>3, <2>1, <2>2, <2>3, <2>4, <2>5 DEF Stage
<1>4. CASE Publish
  <2>1. CASE CommitDirectory
    <3>1. /\ opened /\ ~poisoned /\ phase # "barrier" /\ tail \in Block
          /\ UNCHANGED reader
      BY <1>1, <2>1, BoundsAssumption DEF CommitDirectory, EnsureWritable, Block
    <3>2. Write(tail, Successor.xsum) \/ FailedWrite(tail, Successor.xsum)
      BY <2>1 DEF CommitDirectory
    <3>3. Successor.xsum \in Value
      BY <1>1, <3>1, SuccessorType
    <3>4. RegionWrite
      BY <1>1, <3>1, <3>2, <3>3, BehindAll, BehindAllFailed
    <3> QED
      BY <3>1, <3>4 DEF FileStep
  <2>2. CASE PreFlipBarrier
    BY <2>2 DEF PreFlipBarrier, FileStep
  <2>3. CASE FlipBegins
    BY <2>3 DEF FlipBegins, FileStep, SlotTorn
  <2>4. CASE FlipLands
    BY <2>4 DEF FlipLands, FileStep, SlotTorn, SlotLands
  <2>5. CASE FinalBarrier
    BY <2>5 DEF FinalBarrier, FileStep
  <2>6. CASE AcknowledgeCurrentState
    BY <2>6 DEF AcknowledgeCurrentState, FileStep
  <2> QED
    BY <1>4, <2>1, <2>2, <2>3, <2>4, <2>5, <2>6 DEF Publish
<1>5. CASE Punching \/ PowerLoss
  BY <1>5 DEF FileStep
<1>6. CASE ProcessDeath \/ OpenWriter
  BY <1>6 DEF ProcessDeath, OpenWriter, FileStep
<1>7. CASE \E r \in Readers : Read(r)
  BY <1>7 DEF Read, FileStep
<1> QED
  BY <1>2, <1>3, <1>4, <1>5, <1>6, <1>7 DEF Next, Punching

-----------------------------------------------------------------------------
(* The two slots keep neighbours, and both are durable while they matter.   *)

\* What the handle has freed that v still names, it freed after v.
LEMMA HandleFreedAfter ==
    ASSUME IInv, opened, ~poisoned, phase # "barrier", NEW v, SuperblockOK(v), v.seq <= sb.seq,
           FreedAfter(v, sb), NEW x \in free, x.off \in Refs(v)
    PROVE  x.freed > v.seq
<1>1. FileInv /\ HandleType /\ HandleInv /\ slot \in Slot
  BY InvParts DEF IInv, HandleType
<1>2. v.seq \in Nat /\ sb.seq \in Nat
  BY <1>1 DEF SuperblockOK, Superblock, HandleType
<1>3. CASE x.freed = sb.seq + 1
  BY <1>2, <1>3
<1>4. CASE x \in sb.xsum.free
  BY <1>2, <1>4 DEF FreedAfter
<1> QED
  BY <1>1, <1>3, <1>4 DEF HandleInv

\* A state whose bytes a punch must spare: within the grace window of the
\* state in force, freed after and with its directory spared by it.
Spared(v) ==
    /\ SuperblockOK(v) /\ v.seq <= sb.seq /\ (v.seq = sb.seq => v = sb)
    /\ FreedAfter(v, sb) /\ DirectorySpared(v, sb)
    /\ sb.seq <= v.seq + Grace

\* Freeing waits for the grace window.
LEMMA OldEnoughSpares ==
    ASSUME IInv, EnsureWritable, NEW v, Spared(v), NEW x \in OldEnough
    PROVE  x.off \notin Refs(v)
<1>1. opened /\ ~poisoned /\ phase # "barrier" /\ x \in free /\ x.freed + Grace <= sb.seq
  BY DEF EnsureWritable, OldEnough
<1>2. v.seq \in Nat /\ sb.seq \in Nat /\ x.freed \in Nat /\ Grace \in Nat
  BY <1>1, InvParts, BoundsAssumption DEF Spared, SuperblockOK, Superblock, HandleType, FreeExtent
<1>3. x.off \in Refs(v) => x.freed > v.seq
  BY <1>1, HandleFreedAfter DEF Spared
<1> QED
  BY <1>1, <1>2, <1>3 DEF Spared

\* What the manifest in force declared is erased for every older state.
LEMMA DeclaredSpares ==
    ASSUME IInv, SlotsInv, EnsureWritable, publication_acknowledged, NEW v, Spared(v),
           NEW n \in Names, NEW d \in DeclaredPunched(n)
    PROVE  d.off \notin Kept(v)
<1>1. /\ d.off \in Block /\ d.off >= RegionStart /\ d.off \notin Refs(sb) /\ d \in Dead(sb)
      /\ d \in sb.xsum.dir
  BY DeclaredIsDead DEF Dead
<1>2. CASE v.seq = sb.seq
  BY <1>1, <1>2 DEF Spared, Kept
<1>3. CASE v.seq < sb.seq
  <2>1. acked = sb
    BY DEF IInv, HandleInv, EnsureWritable
  <2>2. [off |-> d.off, seq |-> sb.seq] \in declared
    BY <1>1, <2>1 DEF SlotsInv, Declares
  <2>3. d.off \in Erased(v)
    BY <1>3, <2>2 DEF Erased
  <2>4. v.seq # 0 => d.off # v.dir_off
    BY <1>1, <1>3 DEF Spared, DirectorySpared
  <2>5. v.seq = 0 => Refs(v) = {}
    BY EmptyIsSuperblock DEF Spared, SuperblockOK, EmptySuperblock, EmptyDirectory, Refs, Live
  <2> QED
    BY <2>3, <2>4, <2>5 DEF Kept
<1>4. v.seq \in Nat /\ sb.seq \in Nat
  BY InvParts DEF Spared, SuperblockOK, Superblock, HandleType
<1> QED
  BY <1>2, <1>3, <1>4 DEF Spared

\* What a punch of either kind does to the file.
LEMMA PunchStep ==
    ASSUME IInv, SlotsInv, Punching
    PROVE  \E B \in SUBSET Block :
             /\ B \cap Slot = {}
             /\ \A b \in Block \ B : page'[b] = page[b]
             /\ \/ disk' = page' /\ dirty' = {}
                \/ disk' = disk /\ dirty' = dirty \cup B
             /\ \A v : Spared(v) => B \cap Kept(v) = {}
<1>1. EnsureWritable /\ publication_acknowledged
  BY DEF Punching, PunchFreeExtents, PunchWithinMember
<1>2. ASSUME NEW some,
             (DeallocateAndSync(some) /\ NoFault) \/ (Deallocate(some) /\ Fault)
      PROVE  /\ \A b \in Block \ some : page'[b] = page[b]
             /\ \/ disk' = page' /\ dirty' = {}
                \/ disk' = disk /\ dirty' = dirty \cup some
  BY <1>2 DEF DeallocateAndSync, Deallocate
<1>3. CASE PunchFreeExtents
  <2>1. PICK some \in SUBSET {x.off : x \in OldEnough} :
          (DeallocateAndSync(some) /\ NoFault) \/ (Deallocate(some) /\ Fault)
    BY <1>3 DEF PunchFreeExtents
  <2>2. \A b \in some : b \in Block /\ b \notin Slot
    BY <1>1, OldEnoughIsFree DEF Slot, RegionStart
  <2>3. \A v : Spared(v) => some \cap Kept(v) = {}
    BY <1>1, OldEnoughSpares DEF Kept
  <2> QED
    BY <1>2, <2>1, <2>2, <2>3
<1>4. CASE \E n \in Names : PunchWithinMember(n)
  <2>0. PICK n \in Names : PunchWithinMember(n)
    BY <1>4
  <2>1. PICK some \in SUBSET {e.off : e \in DeclaredPunched(n)} :
          (DeallocateAndSync(some) /\ NoFault) \/ (Deallocate(some) /\ Fault)
    BY <2>0 DEF PunchWithinMember
  <2>2. \A b \in some : b \in Block /\ b \notin Slot
    BY <1>1, DeclaredIsDead DEF Slot, RegionStart
  <2>3. \A v : Spared(v) => some \cap Kept(v) = {}
    BY <1>1, DeclaredSpares
  <2> QED
    BY <1>2, <2>1, <2>2, <2>3
<1> QED
  BY <1>3, <1>4 DEF Punching

\* At a punch the disk alone selects the handle's state.
LEMMA PunchOnSettled ==
    ASSUME IInv, Punching, NEW f \in {page, disk}, NEW t \in Slot, Selects(f, t)
    PROVE  f[t] = sb
<1>1. /\ FileInv /\ HandleType /\ HandleInv /\ slot \in Slot
      /\ opened /\ ~poisoned /\ phase = "idle" /\ acked = sb
  BY InvParts DEF IInv, Punching, PunchFreeExtents, PunchWithinMember, EnsureWritable, HandleType,
                  HandleInv
<1>2. page[slot] = sb /\ Selects(page, slot)
  BY <1>1 DEF HandleInv
<1>3. CASE f = page
  BY <1>1, <1>2, <1>3, OneChoice
<1>4. CASE f = disk
  <2>1. PICK u \in Slot : Selects(disk, u) /\ disk[u] \in SlotValues /\ disk[u].seq >= sb.seq
    BY <1>1, DiskChoice
  <2>2. \A v \in SlotValues : v.seq \in Nat /\ v.seq <= sb.seq /\ (v.seq = sb.seq => v = sb)
    BY <1>1, <1>2, Newest DEF FileInv, Chain, SuperblockOK, Superblock
  <2>3. disk[u] = sb
    BY <1>1, <2>1, <2>2 DEF HandleType, Superblock
  <2> QED
    BY <1>1, <1>4, <2>1, <2>3, OneChoice
<1> QED
  BY <1>3, <1>4

\* A state stays durable when only other blocks are written.
LEMMA DurableKept ==
    ASSUME FileInv, FileType, History, NEW v, SuperblockOK(v), Durable(v),
           NEW B, B \cap Kept(v) = {},
           \A b \in Block \ B : page'[b] = page[b],
           \/ disk' = page' /\ dirty' = {}
           \/ disk' = disk /\ dirty' = dirty \cup B
    PROVE  DurableNext(v)
<1>1. \A b \in Kept(v) : b \in Block /\ b \notin dirty /\ b \notin B
  BY RefsInRegion DEF Durable, Kept
<1>2. \A b \in Kept(v) : disk[b] = disk'[b]
  BY <1>1 DEF FileInv, Clean
<1>3. ReadsNext(disk', v)
  BY <1>2, ReadsLater DEF Durable
<1>4. KeptNext(v) \cap dirty' = {}
  BY <1>1, LessIsKept
<1> QED
  BY <1>3, <1>4 DEF DurableNext

\* Steps that leave both slots as they are and write elsewhere.
LEMMA SlotsKept ==
    ASSUME FileInv, FileType, SlotsInv, History, NEW B, B \cap Slot = {},
           \A b \in Block \ B : page'[b] = page[b],
           \/ disk' = page' /\ dirty' = {}
           \/ disk' = disk /\ dirty' = dirty \cup B,
           \A f \in {page, disk}, s, t \in Slot :
             (Selects(f, t) /\ Decodes(f[s]) /\ f[t].seq <= f[s].seq + Grace) => B \cap Kept(f[s]) = {}
    PROVE  SlotsInv'
<1>1. page'[0] = page[0] /\ page'[1] = page[1] /\ \A s \in Slot : page'[s] = page[s]
  BY SlotsAreBlocks
<1>2. \/ disk' = page' /\ dirty' = {}
      \/ disk' = disk /\ \A s \in Slot : s \in dirty' => s \in dirty
  BY DEF Slot
<1>3. \A s \in Slot : /\ page'[s] # Unwritten /\ disk'[s] # Unwritten
                      /\ s \in dirty' => Selects(disk', 1 - s)
  BY <1>1, <1>2 DEF SlotsInv
<1>4. SlotValues' \subseteq SlotValues
  BY <1>1, <1>2 DEF SlotValues
<1>5. \A v, w \in SlotValues' : FreedAfter(v, w) /\ DirectorySpared(v, w)
  BY <1>4 DEF SlotsInv
<1>6. ASSUME NEW g, NEW f \in {page, disk}, g[0] = f[0], g[1] = f[1],
             NEW s \in Slot, NEW t \in Slot, Selects(g, t), Decodes(g[s])
      PROVE  /\ g[t].seq <= g[s].seq + 1
             /\ g[t].seq <= g[s].seq + Grace => DurableNext(g[s])
  <2>1. Selects(f, t) /\ g[s] = f[s] /\ g[t] = f[t] /\ Decodes(f[s])
    BY <1>6, SelectsSlots DEF Slot
  <2>2. /\ f[t].seq <= f[s].seq + 1
        /\ f[t].seq <= f[s].seq + Grace => Durable(f[s])
    BY <1>6, <2>1 DEF SlotsInv, Neighbours
  <2>3. SuperblockOK(f[s])
    BY <1>6, <2>1, ImageSlots
  <2>4. f[t].seq <= f[s].seq + Grace => B \cap Kept(f[s]) = {}
    BY <1>6, <2>1
  <2> QED
    BY <2>1, <2>2, <2>3, <2>4, DurableKept
<1>7. Neighbours(page)'
  BY <1>1, <1>6 DEF Neighbours, Durable, DurableNext, Kept, KeptNext,
        Reads, ReadsNext, Erased, ErasedNext
<1>8. Neighbours(disk)'
  <2>1. \E f \in {page, disk} : disk'[0] = f[0] /\ disk'[1] = f[1]
    BY <1>1, <1>2
  <2> QED
    BY <2>1, <1>6 DEF Neighbours, Durable, DurableNext, Kept, KeptNext,
        Reads, ReadsNext, Erased, ErasedNext
<1> QED
  BY <1>3, <1>5, <1>7, <1>8 DEF SlotsInv, History

LEMMA RegionWriteSlots ==
    ASSUME IInv, SlotsInv, History, RegionWrite
    PROVE  SlotsInv'
<1>1. FileInv /\ FileType
  BY InvParts
<1>2. PICK b \in Block, w \in Value :
        Write(b, w) /\ b \notin Slot /\ \A v \in SlotValues : v.tail <= b
  BY DEF RegionWrite
<1>3. \A c \in Block \ {b} : page'[c] = page[c]
  BY <1>1, <1>2 DEF Write, FileType
<1>4. \A v \in SlotValues : b \notin Refs(v)
  <2> SUFFICES ASSUME NEW v \in SlotValues, b \in Refs(v) PROVE FALSE
    OBVIOUS
  <2>1. b < v.tail /\ v.tail \in Nat /\ b \in Nat
    BY <1>1, RefsInRegion DEF FileInv, Chain, SuperblockOK, Superblock, Block
  <2> QED
    BY <1>2, <2>1
<1>5. \A f \in {page, disk}, s \in Slot : Decodes(f[s]) => {b} \cap Kept(f[s]) = {}
  BY <1>1, <1>4, ImageSlots DEF Kept
<1>6. {b} \cap Slot = {} /\ disk' = disk /\ dirty' = dirty \cup {b}
  BY <1>2 DEF Write
<1> QED
  BY <1>1, <1>3, <1>5, <1>6, SlotsKept

LEMMA SyncSlots ==
    ASSUME IInv, SlotsInv, History, SyncFile
    PROVE  SlotsInv'
<1>1. FileInv /\ FileType /\ disk' = page' /\ dirty' = {} /\ page' = page
  BY InvParts DEF SyncFile
<1> QED
  BY <1>1, SlotsKept, \A b \in Block \ {} : page'[b] = page[b]

LEMMA PunchSlots ==
    ASSUME IInv, SlotsInv, History, Punching
    PROVE  SlotsInv'
<1>1. FileInv /\ FileType /\ HandleInv /\ HandleType /\ opened /\ ~poisoned /\ phase = "idle"
  BY InvParts DEF IInv, Punching, PunchFreeExtents, PunchWithinMember, EnsureWritable
<1>2. PICK B \in SUBSET Block :
             /\ B \cap Slot = {}
             /\ \A b \in Block \ B : page'[b] = page[b]
             /\ \/ disk' = page' /\ dirty' = {}
                \/ disk' = disk /\ dirty' = dirty \cup B
             /\ \A v : Spared(v) => B \cap Kept(v) = {}
  BY PunchStep
<1>3. ASSUME NEW f \in {page, disk}, NEW s \in Slot, NEW t \in Slot,
             Selects(f, t), Decodes(f[s]), f[t].seq <= f[s].seq + Grace
      PROVE  B \cap Kept(f[s]) = {}
  <2>1. f[t] = sb
    BY <1>3, PunchOnSettled
  <2>2. f[s] \in SlotValues /\ SuperblockOK(f[s])
    BY <1>1, <1>3, ImageSlots
  <2>3. page[slot] = sb /\ Selects(page, slot) /\ slot \in Slot
    BY <1>1 DEF HandleInv, HandleType
  <2>4. sb \in SlotValues /\ f[s].seq <= sb.seq /\ (f[s].seq = sb.seq => f[s] = sb)
    BY <1>1, <2>2, <2>3, Newest
  <2>5. FreedAfter(f[s], sb) /\ DirectorySpared(f[s], sb)
    BY <2>2, <2>4 DEF SlotsInv
  <2>6. Spared(f[s])
    BY <1>3, <2>1, <2>2, <2>4, <2>5 DEF Spared
  <2> QED
    BY <1>2, <2>6
<1> QED
  BY <1>1, <1>2, <1>3, SlotsKept

\* The two images while a slot is being written.
LEMMA WhileFlipping ==
    ASSUME IInv, phase \in {"flip", "writing"}
    PROVE  /\ FileInv /\ FileType /\ HandleType /\ HandleInv /\ opened /\ ~poisoned
           /\ attempted = Successor /\ attempted \in Superblock /\ Decodes(attempted)
           /\ attempted.seq = sb.seq + 1 /\ attempted.tail = tail + 1 /\ sb.tail <= tail
           /\ sb.seq \in Nat /\ tail \in Nat /\ sb.tail \in Nat
           /\ slot \in Slot /\ NextSlot \in Slot /\ NextSlot # slot /\ 1 - NextSlot = slot
           /\ Slot = {slot, NextSlot}
           /\ dirty \subseteq {NextSlot} /\ page[slot] = sb /\ disk[slot] = sb /\ Decodes(sb)
           /\ Selects(page, slot)
           /\ \A b \in Block \ {NextSlot} : disk[b] = page[b]
<1>1. /\ FileInv /\ FileType /\ HandleType /\ HandleInv /\ PhaseInv
      /\ opened /\ ~poisoned /\ phase # "barrier"
      /\ slot \in Slot /\ tail \in Nat /\ attempted = Successor /\ tail \in Block
  BY InvParts DEF IInv, PhaseInv, HandleType
<1>2. NextSlot \in Slot /\ NextSlot # slot /\ 1 - NextSlot = slot /\ Slot = {slot, NextSlot}
  BY <1>1 DEF NextSlot, Slot
<1>3. dirty \subseteq {NextSlot}
  BY <1>1 DEF PhaseInv
<1>4. \A b \in Block \ {NextSlot} : disk[b] = page[b]
  BY <1>3, <1>1 DEF FileInv, Clean
<1>5. /\ attempted \in Superblock /\ attempted.seq = sb.seq + 1 /\ attempted.tail = tail + 1
      /\ sb.seq \in Nat /\ sb.tail \in Nat
  BY <1>1, SuccessorType DEF HandleType, Superblock
<1>6. Decodes(attempted)
  BY <1>5, DistinctAssumption DEF Decodes
<1> QED
  BY <1>1, <1>2, <1>3, <1>4, <1>5, <1>6, SlotsAreBlocks DEF HandleInv

\* While it is written, and after, the slot that is not the handle's is the
\* only dirty block, and the disk alone selects the handle's state.
LEMMA DiskStaysBehind ==
    ASSUME IInv, SlotsInv, phase \in {"flip", "writing"}, NEW w \in {Torn, attempted},
           Write(NextSlot, w)
    PROVE  /\ Selects(disk, slot) /\ disk' = disk /\ dirty' = {NextSlot}
           /\ page'[NextSlot] = w /\ page'[slot] = sb
           /\ \A b \in Block \ Slot : page'[b] = page[b]
<1>1. disk' = disk /\ dirty' = {NextSlot}
  BY WhileFlipping DEF Write
<1>2. \A b \in Block : page'[b] = IF b = NextSlot THEN w ELSE page[b]
  BY WhileFlipping, SlotsAreBlocks DEF Write, FileType
<1>3. Selects(disk, slot)
  <2>1. CASE NextSlot \in dirty
    BY <2>1, WhileFlipping DEF SlotsInv
  <2>2. CASE NextSlot \notin dirty
    <3>1. disk[0] = page[0] /\ disk[1] = page[1]
      BY <2>2, WhileFlipping, SlotsAreBlocks DEF Clean, FileInv
    <3> QED
      BY <3>1, WhileFlipping, SelectsSlots
  <2> QED
    BY <2>1, <2>2
<1> QED
  BY <1>1, <1>2, <1>3, WhileFlipping, SlotsAreBlocks

\* A slot write touches no byte a durable state keeps.
LEMMA FlipKeepsDurable ==
    ASSUME IInv, SlotsInv, History, phase \in {"flip", "writing"}, NEW w \in {Torn, attempted},
           Write(NextSlot, w),
           NEW f \in {page, disk}, NEW s \in Slot, Decodes(f[s]), Durable(f[s])
    PROVE  DurableNext(f[s])
<1>1. disk' = disk /\ dirty' = {NextSlot} /\ NextSlot \in Slot
  BY DiskStaysBehind, WhileFlipping
<1>2. SuperblockOK(f[s])
  BY WhileFlipping, ImageSlots
<1>3. \A b \in Kept(f[s]) : b # NextSlot
  BY <1>1, <1>2, RefsInRegion DEF Kept
<1>4. ReadsNext(disk', f[s])
  BY <1>1, ReadsLater DEF Durable
<1> QED
  BY <1>1, <1>3, <1>4, LessIsKept DEF DurableNext

LEMMA SlotTornSlots ==
    ASSUME IInv, SlotsInv, History, SlotTorn
    PROVE  SlotsInv' /\ Selects(page', slot) /\ page'[slot] = page[slot]
<1>1. /\ phase \in {"flip", "writing"} /\ Torn \in {Torn, attempted} /\ Write(NextSlot, Torn)
  BY DEF SlotTorn
<1>2. /\ Selects(disk, slot) /\ disk' = disk /\ dirty' = {NextSlot}
      /\ page'[NextSlot] = Torn /\ page'[slot] = sb
  BY <1>1, DiskStaysBehind
<1>3. ~Decodes(Torn)
  BY DEF Decodes
<1>4. Selects(page', slot)
  BY <1>1, <1>2, <1>3, WhileFlipping DEF Selects, NextSlot
<1>5. \A s \in Slot : /\ page'[s] # Unwritten /\ disk'[s] # Unwritten
                      /\ s \in dirty' => Selects(disk', 1 - s)
  <2>1. Torn # Unwritten
    BY DistinctAssumption
  <2> QED
    BY <1>1, <1>2, <2>1, WhileFlipping DEF SlotsInv
<1>6. SlotValues' \subseteq SlotValues
  BY <1>1, <1>2, <1>3, WhileFlipping DEF SlotValues, Slot
<1>7. \A v, w \in SlotValues' : FreedAfter(v, w) /\ DirectorySpared(v, w)
  BY <1>6 DEF SlotsInv
<1>8. ASSUME NEW f \in {page, disk}, NEW s \in Slot, Decodes(f[s]), Durable(f[s])
      PROVE  DurableNext(f[s])
  BY <1>1, <1>8, FlipKeepsDurable
<1>9. Neighbours(disk)'
  BY <1>2, <1>8 DEF SlotsInv, Neighbours, Durable, DurableNext, Kept, KeptNext,
        Reads, ReadsNext, Erased, ErasedNext
<1>10. Neighbours(page)'
  <2>1. SUFFICES ASSUME NEW s \in Slot, NEW t \in Slot, Selects(page', t), Decodes(page'[s])
        PROVE  /\ page'[t].seq <= page'[s].seq + 1
               /\ DurableNext(page'[s])
    BY DEF Neighbours, Durable, DurableNext, Kept, KeptNext,
        Reads, ReadsNext, Erased, ErasedNext
  <2>2. s = slot /\ t = slot
    BY <1>1, <1>2, <1>3, <2>1, WhileFlipping DEF Selects
  <2>3. sb.seq <= sb.seq + 1 /\ Durable(sb) /\ sb = page[slot]
    BY <1>1, WhileFlipping, Newest
  <2>4. DurableNext(sb)
    BY <1>1, <1>8, <2>3, WhileFlipping
  <2> QED
    BY <1>1, <1>2, <2>2, <2>3, <2>4
<1> QED
  BY <1>1, <1>2, <1>4, <1>5, <1>7, <1>9, <1>10, WhileFlipping DEF SlotsInv, History

SelectedDurable ==
    \A t \in Slot : Selects(page, t) => /\ SuperblockOK(page[t]) /\ Durable(page[t])
                                        /\ Intact(page, page[t])

LEMMA SelectedIsDurable == IInv => SelectedDurable
BY InvParts, Newest DEF SelectedDurable

\* What the state in flight lists as free was freed after every older state
\* that still names it.
LEMMA AttemptFreedAfter ==
    ASSUME IInv, phase = "writing", NEW v, SuperblockOK(v), v.seq <= sb.seq, FreedAfter(v, sb)
    PROVE  FreedAfter(v, attempted)
<1> SUFFICES ASSUME NEW x \in attempted.xsum.free, x.off \in Refs(v)
             PROVE  x.freed > v.seq
  BY DEF FreedAfter
<1>1. v.seq \in Nat /\ sb.seq \in Nat
  BY WhileFlipping DEF SuperblockOK, Superblock
<1>2. x \in free \/ x.freed = sb.seq + 1
  BY WhileFlipping DEF Successor
<1> QED
  BY <1>1, <1>2, HandleFreedAfter, WhileFlipping

\* Nor does it put a member where an older state keeps its directory.
LEMMA AttemptSparesDirectory ==
    ASSUME IInv, phase = "writing", NEW v, SuperblockOK(v), v.seq <= sb.seq, v.tail <= sb.tail,
           DirectorySpared(v, sb)
    PROVE  DirectorySpared(v, attempted)
<1> SUFFICES ASSUME v.seq # 0, NEW e \in attempted.xsum.dir PROVE e.off # v.dir_off
  BY DEF DirectorySpared
<1>1. /\ v.dir_off \in Nat /\ v.tail = v.dir_off + 1 /\ v.tail \in Nat
      /\ v.seq \in Nat /\ sb.seq \in Nat /\ sb.tail \in Nat
  BY WhileFlipping DEF SuperblockOK, Superblock, Block
<1>2. e \in dir /\ e.off \in Nat
  BY WhileFlipping DEF Successor, HandleType, Extent, Block
<1>3. CASE e.off >= sb.tail
  BY <1>1, <1>2, <1>3
<1>4. CASE \E o \in sb.xsum.dir : o.off = e.off
  BY <1>1, <1>4 DEF DirectorySpared
<1> QED
  BY <1>2, <1>3, <1>4, WhileFlipping DEF HandleInv

LEMMA SlotLandsSlots ==
    ASSUME IInv, SlotsInv, History, SlotLands, IInv'
    PROVE  SlotsInv' /\ Selects(page', NextSlot) /\ page'[NextSlot] = attempted
<1>1. /\ phase = "writing" /\ Write(NextSlot, attempted)
  BY DEF SlotLands
<1>2. /\ Selects(disk, slot) /\ disk' = disk /\ dirty' = {NextSlot}
      /\ page'[NextSlot] = attempted /\ page'[slot] = sb
  BY <1>1, DiskStaysBehind
<1>3. Selects(page', NextSlot) /\ ~Selects(page', slot)
  BY <1>1, <1>2, WhileFlipping DEF Selects, NextSlot
<1>4. SuperblockOK(attempted) /\ DurableNext(attempted)
  <2>1. SelectedDurable'
    BY SelectedIsDurable, PTL
  <2> QED
    BY <1>1, <1>2, <1>3, <2>1, WhileFlipping
       DEF SelectedDurable, Durable, DurableNext, Kept, KeptNext, Reads, ReadsNext,
           Erased, ErasedNext
<1>5. \A s \in Slot : /\ page'[s] # Unwritten /\ disk'[s] # Unwritten
                      /\ s \in dirty' => Selects(disk', 1 - s)
  <2>1. attempted # Unwritten
    BY <1>1, WhileFlipping, DistinctAssumption
  <2> QED
    BY <1>1, <1>2, <2>1, WhileFlipping DEF SlotsInv
<1>6. /\ SlotValues' \subseteq SlotValues \cup {attempted}
      /\ sb \in SlotValues /\ Durable(sb)
      /\ \A v \in SlotValues : /\ SuperblockOK(v) /\ v.seq \in Nat
                               /\ v.seq <= sb.seq /\ v.tail <= sb.tail
  BY <1>1, <1>2, WhileFlipping, Newest DEF SlotValues, Slot, FileInv, Chain, SuperblockOK, Superblock
<1>7. \A v, w \in SlotValues' : FreedAfter(v, w) /\ DirectorySpared(v, w)
  <2>1. ASSUME NEW v \in SlotValues
        PROVE  /\ FreedAfter(v, attempted) /\ FreedAfter(attempted, v)
               /\ DirectorySpared(v, attempted) /\ DirectorySpared(attempted, v)
    <3>1. FreedAfter(v, sb) /\ DirectorySpared(v, sb)
      BY <1>6 DEF SlotsInv
    <3>2. v.seq < attempted.seq /\ v.seq \in Nat /\ attempted.seq \in Nat
      BY <1>1, <1>6, WhileFlipping
    <3>3. FreedAfter(attempted, v) /\ DirectorySpared(attempted, v)
      BY <3>2 DEF FreedAfter, DirectorySpared
    <3> QED
      BY <1>1, <1>6, <3>1, <3>3, AttemptFreedAfter, AttemptSparesDirectory
  <2>2. FreedAfter(attempted, attempted)
    <3>1. \A x \in attempted.xsum.free : x.off < attempted.dir_off /\ x.off \in Nat
      BY <1>1, <1>4, WhileFlipping DEF SuperblockOK, WellFormed, Superblock, Directory, FreeExtent, Block
    <3>2. \A x \in attempted.xsum.free : x.off \notin Refs(attempted)
      BY <1>1, <1>4, <3>1, WhileFlipping
         DEF SuperblockOK, WellFormed, Refs, Live, Superblock, Block
    <3> QED
      BY <3>2 DEF FreedAfter
  <2>3. DirectorySpared(attempted, attempted)
    <3>1. \A e \in attempted.xsum.dir : e.off < attempted.dir_off /\ e.off \in Nat
      BY <1>1, <1>4, WhileFlipping DEF SuperblockOK, WellFormed, Superblock, Directory, Extent, Block
    <3>2. attempted.dir_off \in Nat
      BY <1>1, WhileFlipping DEF Superblock, Block
    <3> QED
      BY <3>1, <3>2 DEF DirectorySpared
  <2> QED
    BY <1>6, <2>1, <2>2, <2>3 DEF SlotsInv
<1>8. ASSUME NEW f \in {page, disk}, NEW s \in Slot, Decodes(f[s]), Durable(f[s])
      PROVE  DurableNext(f[s])
  BY <1>1, <1>8, FlipKeepsDurable
<1>9. Neighbours(disk)'
  BY <1>2, <1>8 DEF SlotsInv, Neighbours, Durable, DurableNext, Kept, KeptNext,
        Reads, ReadsNext, Erased, ErasedNext
<1>10. Neighbours(page)'
  <2>1. SUFFICES ASSUME NEW s \in Slot, NEW t \in Slot, Selects(page', t), Decodes(page'[s])
        PROVE  /\ page'[t].seq <= page'[s].seq + 1
               /\ DurableNext(page'[s])
    BY DEF Neighbours, Durable, DurableNext, Kept, KeptNext,
        Reads, ReadsNext, Erased, ErasedNext
  <2>2. t = NextSlot
    BY <1>1, <1>3, <2>1, WhileFlipping
  <2>3. DurableNext(sb)
    BY <1>1, <1>6, <1>8, WhileFlipping
  <2> QED
    BY <1>1, <1>2, <1>4, <2>2, <2>3, WhileFlipping
<1> QED
  BY <1>2, <1>3, <1>5, <1>7, <1>9, <1>10 DEF SlotsInv, History

\* A power loss leaves what the page cache selected or what the disk did,
\* each beside the neighbour it had, or alone.
LEMMA LossImage ==
    ASSUME IInv, SlotsInv, PowerLoss
    PROVE  \E f \in {page, disk} :
             /\ \A t \in Slot : Selects(page', t) => Selects(f, t) /\ page'[t] = f[t]
             /\ \A s \in Slot : Decodes(page'[s]) => page'[s] = f[s]
<1>1. FileInv /\ FileType
  BY InvParts
<1>2. page' = disk' /\ \A b \in Block : disk'[b] \in AfterLoss(b)
  BY DEF PowerLoss, AfterLoss
<1>3. \A s \in Slot : page'[s] \in (IF s \in dirty THEN {disk[s], page[s], Torn} ELSE {disk[s]})
  BY <1>2, SlotsAreBlocks DEF AfterLoss
<1>4. ASSUME NEW f \in {page, disk}, page'[0] = f[0], page'[1] = f[1]
      PROVE  /\ \A t \in Slot : Selects(page', t) => Selects(f, t) /\ page'[t] = f[t]
             /\ \A s \in Slot : Decodes(page'[s]) => page'[s] = f[s]
  BY <1>4, SelectsSlots DEF Slot
<1>5. CASE \A s \in Slot : page'[s] = disk[s]
  BY <1>4, <1>5 DEF Slot
<1>6. CASE \E s \in Slot : s \in dirty /\ page'[s] # disk[s]
  <2>1. PICK s \in Slot : s \in dirty /\ page'[s] # disk[s]
    BY <1>6
  <2> DEFINE o == 1 - s
  <2>2. o \in Slot /\ Slot = {s, o} /\ Selects(disk, o) /\ 1 - o = s /\ s # o
    BY <2>1 DEF Slot, SlotsInv
  <2>3. o \notin dirty
    BY <1>1, <2>1, <2>2, OneChoice DEF SlotsInv
  <2> HIDE DEF o
  <2>4. page'[o] = disk[o] /\ page[o] = disk[o]
    BY <1>1, <1>3, <2>2, <2>3, SlotsAreBlocks DEF FileInv, Clean
  <2>5. CASE page'[s] = page[s]
    BY <1>4, <2>2, <2>4, <2>5 DEF Slot
  <2>6. CASE page'[s] = Torn
    <3>1. ~Decodes(page'[s])
      BY <2>6 DEF Decodes
    <3>2. ~Selects(page', s)
      BY <3>1 DEF Selects
    <3> QED
      BY <2>2, <2>4, <3>1, <3>2
  <2> QED
    BY <1>3, <2>1, <2>5, <2>6
<1> QED
  BY <1>3, <1>5, <1>6

LEMMA PowerLossSlots ==
    ASSUME IInv, SlotsInv, History, PowerLoss
    PROVE  SlotsInv'
<1>1. FileInv /\ FileType /\ page' = disk' /\ dirty' = {}
  BY InvParts DEF PowerLoss
<1>2. \A b \in Block : disk'[b] \in AfterLoss(b)
  BY DEF PowerLoss, AfterLoss
<1>3. \A s \in Slot : page'[s] # Unwritten
  BY <1>1, <1>2, SlotsAreBlocks, DistinctAssumption DEF AfterLoss, SlotsInv
<1>4. SlotValues' \subseteq SlotValues
  BY <1>1, <1>2, LossIsSlotValue, SlotsAreBlocks DEF SlotValues
<1>5. \A v, w \in SlotValues' : FreedAfter(v, w) /\ DirectorySpared(v, w)
  BY <1>4 DEF SlotsInv
<1>6. PICK f \in {page, disk} :
             /\ \A t \in Slot : Selects(page', t) => Selects(f, t) /\ page'[t] = f[t]
             /\ \A s \in Slot : Decodes(page'[s]) => page'[s] = f[s]
  BY LossImage
<1>7. Neighbours(page)'
  <2>1. SUFFICES ASSUME NEW s \in Slot, NEW t \in Slot, Selects(page', t), Decodes(page'[s])
        PROVE  /\ page'[t].seq <= page'[s].seq + 1
               /\ page'[t].seq <= page'[s].seq + Grace => DurableNext(page'[s])
    BY DEF Neighbours, Durable, DurableNext, Kept, KeptNext,
        Reads, ReadsNext, Erased, ErasedNext
  <2>2. /\ f[t].seq <= f[s].seq + 1
        /\ f[t].seq <= f[s].seq + Grace => Durable(f[s])
    BY <1>6, <2>1 DEF SlotsInv, Neighbours
  <2>3. SuperblockOK(f[s])
    BY <1>1, <1>6, <2>1, ImageSlots
  <2>4. ASSUME Durable(f[s]) PROVE DurableNext(f[s])
    <3>1. \A b \in Kept(f[s]) : b \in Block /\ b \notin dirty
      BY <2>3, <2>4, RefsInRegion DEF Durable, Kept
    <3>2. \A b \in Kept(f[s]) : disk[b] = disk'[b]
      BY <1>2, <3>1 DEF AfterLoss
    <3>3. ReadsNext(disk', f[s])
      BY <2>4, <3>2, ReadsLater DEF Durable
    <3> QED
      BY <1>1, <3>3 DEF DurableNext
  <2> QED
    BY <1>6, <2>1, <2>2, <2>4
<1>8. Neighbours(disk)'
  BY <1>1, <1>7 DEF Neighbours
<1> QED
  BY <1>1, <1>3, <1>5, <1>7, <1>8 DEF SlotsInv, History

LEMMA SlotsFileKept ==
    ASSUME IInv, SlotsInv, History, UNCHANGED file
    PROVE  SlotsInv'
<1>1. FileInv /\ FileType /\ page' = page /\ disk' = disk /\ dirty' = dirty
  BY InvParts DEF file
<1> DEFINE B == {}
<1>2. /\ B \cap Slot = {} /\ \A b \in Block \ B : page'[b] = page[b]
      /\ disk' = disk /\ dirty' = dirty \cup B
      /\ \A v : B \cap Kept(v) = {}
  BY <1>1
<1> HIDE DEF B
<1> QED
  BY <1>1, <1>2, SlotsKept

LEMMA SlotsStep ==
    ASSUME IInv, SlotsInv, [Next]_vars
    PROVE  SlotsInv'
<1>1. FileStep /\ IInv' /\ History
  BY StepKinds, NextKeeps, HistoryStep
<1> QED
  BY <1>1, SlotsFileKept, RegionWriteSlots, SyncSlots, SlotTornSlots, SlotLandsSlots,
     PunchSlots, PowerLossSlots DEF FileStep

-----------------------------------------------------------------------------
(* Readers. *)

\* A later selected state serves every older one that was served before.
LEMMA ServedKept ==
    ASSUME FileInv, History, NEW v, Served(v),
           \A t \in Slot : Selects(page', t) => Selects(page, t) /\ page'[t] = page[t],
           \A t \in Slot : (Selects(page, t) /\ page[t].seq <= v.seq + Grace) =>
             \A b \in Kept(v) : page[b] = page'[b]
    PROVE  Served(v)'
<1>1. ASSUME NEW t \in Slot, Selects(page', t)
      PROVE  /\ v.seq <= page'[t].seq /\ v.tail <= page'[t].tail
             /\ v.seq = page'[t].seq => v = page'[t]
             /\ FreedAfter(v, page'[t]) /\ DirectorySpared(v, page'[t])
             /\ page'[t].seq <= v.seq + Grace => ReadsNext(page', v)
  <2>1. Selects(page, t) /\ page'[t] = page[t]
    BY <1>1
  <2>2. ASSUME page[t].seq <= v.seq + Grace PROVE ReadsNext(page', v)
    BY <2>1, <2>2, ReadsLater DEF Served
  <2> QED
    BY <2>1, <2>2 DEF Served
<1>2. SuperblockOK(v)
  BY DEF Served
<1> QED
  BY <1>1, <1>2 DEF Served, Reads, ReadsNext, Erased, ErasedNext

\* Only a slot write that lands, or a power loss, changes what is selected.
LEMMA SameSelection ==
    ASSUME IInv, SlotsInv, [Next]_vars, ~PowerLoss, ~SlotLands
    PROVE  \A t \in Slot : Selects(page', t) => Selects(page, t) /\ page'[t] = page[t]
<1>1. FileStep /\ FileInv /\ FileType
  BY StepKinds, InvParts
<1>2. ASSUME page'[0] = page[0], page'[1] = page[1]
      PROVE  \A t \in Slot : Selects(page', t) => Selects(page, t) /\ page'[t] = page[t]
  BY <1>2, SelectsSlots DEF Slot
<1>3. CASE UNCHANGED file \/ SyncFile
  BY <1>2, <1>3 DEF file, SyncFile
<1>4. CASE RegionWrite
  <2>1. PICK b \in Block, w \in Value : Write(b, w) /\ b \notin Slot
    BY <1>4 DEF RegionWrite
  <2> QED
    BY <1>1, <1>2, <2>1, SlotsAreBlocks DEF Write, Slot
<1>5. CASE SlotTorn
  <2>1. /\ phase \in {"flip", "writing"} /\ Torn \in {Torn, attempted} /\ Write(NextSlot, Torn)
    BY <1>5 DEF SlotTorn
  <2>2. page'[NextSlot] = Torn /\ page'[slot] = page[slot] /\ ~Decodes(Torn)
    BY <2>1, DiskStaysBehind, WhileFlipping DEF Decodes
  <2> QED
    BY <2>1, <2>2, WhileFlipping DEF Selects
<1>6. CASE Punching
  <2>1. page'[0] = page[0] /\ page'[1] = page[1]
    BY <1>6, PunchStep, SlotsAreBlocks
  <2> QED
    BY <1>2, <2>1
<1> QED
  BY <1>1, <1>3, <1>4, <1>5, <1>6 DEF FileStep

\* The bytes of a state within the grace window are not touched.
LEMMA BytesKept ==
    ASSUME IInv, SlotsInv, [Next]_vars, ~PowerLoss, NEW v, Served(v),
           NEW t \in Slot, Selects(page, t), page[t].seq <= v.seq + Grace, NEW b \in Kept(v)
    PROVE  page[b] = page'[b]
<1>1. FileStep /\ FileInv /\ FileType
  BY StepKinds, InvParts
<1>2. /\ b \in Block /\ b < v.tail /\ b \notin Slot /\ v.tail <= page[t].tail
      /\ b \in Nat /\ v.tail \in Nat /\ page[t].tail \in Nat
  BY <1>1, RefsInRegion, Newest DEF Served, SuperblockOK, Superblock, Block, Kept
<1>3. CASE UNCHANGED file \/ SyncFile
  BY <1>3 DEF file, SyncFile
<1>4. CASE RegionWrite
  <2>1. PICK c \in Block, w \in Value : Write(c, w) /\ page[t].tail <= c
    BY <1>4 DEF RegionWrite
  <2>2. c # b
    BY <1>2, <2>1 DEF Block
  <2> QED
    BY <1>1, <1>2, <2>1, <2>2 DEF Write, FileType
<1>5. CASE SlotTorn \/ SlotLands
  <2>1. PICK w \in {Torn, attempted} : phase \in {"flip", "writing"} /\ Write(NextSlot, w)
    BY <1>5 DEF SlotTorn, SlotLands
  <2> QED
    BY <1>2, <2>1, DiskStaysBehind
<1>6. CASE Punching
  <2>1. page[t] = sb
    BY <1>6, PunchOnSettled
  <2>2. Spared(v)
    BY <2>1 DEF Served, Spared
  <2> QED
    BY <1>2, <1>6, <2>2, PunchStep
<1> QED
  BY <1>1, <1>3, <1>4, <1>5, <1>6 DEF FileStep

\* Whoever holds an older state goes on being served.
LEMMA ServedStep ==
    ASSUME IInv, SlotsInv, [Next]_vars, ~PowerLoss, NEW v, Served(v)
    PROVE  Served(v)'
<1> USE HistoryStep
<1>1. CASE ~SlotLands
  BY <1>1, SameSelection, BytesKept, ServedKept, InvParts
<1>2. CASE SlotLands
  <2>1. phase = "writing" /\ phase \in {"flip", "writing"} /\ attempted \in {Torn, attempted}
        /\ Write(NextSlot, attempted)
    BY <1>2 DEF SlotLands
  <2>2. /\ page'[NextSlot] = attempted /\ \A t \in Slot : Selects(page', t) => t = NextSlot
    BY <2>1, DiskStaysBehind, WhileFlipping DEF Selects, NextSlot
  <2>3. Selects(page, slot) /\ page[slot] = sb /\ slot \in Slot /\ attempted.seq = sb.seq + 1
        /\ attempted.tail = tail + 1 /\ sb.tail <= tail
    BY <2>1, WhileFlipping
  <2>4. /\ v.seq <= sb.seq /\ v.tail <= sb.tail /\ SuperblockOK(v)
        /\ FreedAfter(v, sb) /\ DirectorySpared(v, sb)
        /\ v.seq \in Nat /\ v.tail \in Nat /\ sb.seq \in Nat /\ sb.tail \in Nat /\ tail \in Nat
    BY <2>1, <2>3, WhileFlipping DEF Served, SuperblockOK, Superblock
  <2>5. FreedAfter(v, attempted) /\ DirectorySpared(v, attempted)
    BY <2>1, <2>4, AttemptFreedAfter, AttemptSparesDirectory
  <2>6. ASSUME attempted.seq <= v.seq + Grace PROVE ReadsNext(page', v)
    <3>1. sb.seq <= v.seq + Grace
      BY <2>3, <2>4, <2>6, BoundsAssumption
    <3>2. \A b \in Kept(v) : page[b] = page'[b]
      BY <2>3, <3>1, BytesKept
    <3> QED
      BY <2>3, <3>1, <3>2, ReadsLater DEF Served
  <2>7. v.seq <= attempted.seq /\ v.seq # attempted.seq /\ v.tail <= attempted.tail
    BY <2>3, <2>4
  <2> QED
    BY <2>2, <2>4, <2>5, <2>6, <2>7 DEF Served, Reads, ReadsNext, Erased, ErasedNext
<1> QED
  BY <1>1, <1>2

\* The sequence a process selects never goes back.
LEMMA BeganStep ==
    ASSUME IInv, SlotsInv, [Next]_vars, ~PowerLoss, NEW since \in Nat, Began(since)
    PROVE  Began(since)'
<1>1. CASE ~SlotLands
  BY <1>1, SameSelection DEF Began
<1>2. CASE SlotLands
  <2>1. phase = "writing" /\ phase \in {"flip", "writing"} /\ attempted \in {Torn, attempted}
        /\ Write(NextSlot, attempted)
    BY <1>2 DEF SlotLands
  <2>2. page'[NextSlot] = attempted /\ \A t \in Slot : Selects(page', t) => t = NextSlot
    BY <2>1, DiskStaysBehind, WhileFlipping DEF Selects, NextSlot
  <2>3. since <= sb.seq /\ attempted.seq = sb.seq + 1 /\ sb.seq \in Nat
    BY <2>1, WhileFlipping DEF Began
  <2> QED
    BY <2>2, <2>3 DEF Began
<1> QED
  BY <1>1, <1>2

\* What either slot holds is served to whoever reads it now, and is at most
\* one publication old.
LEMMA SlotServed ==
    ASSUME IInv, SlotsInv, NEW s \in Slot, Decodes(page[s])
    PROVE  /\ Served(page[s]) /\ page[s].seq \in Nat
           /\ \A t \in Slot : Selects(page, t) => page[t].seq <= page[s].seq + 1
<1>1. FileInv /\ page[s] \in SlotValues /\ SuperblockOK(page[s]) /\ page[s].seq \in Nat
  BY InvParts, ImageSlots
<1>2. ASSUME NEW t \in Slot, Selects(page, t)
      PROVE  /\ page[t].seq <= page[s].seq + 1
             /\ FreedAfter(page[s], page[t]) /\ DirectorySpared(page[s], page[t])
             /\ page[s].seq <= page[t].seq /\ page[s].tail <= page[t].tail
             /\ page[s].seq = page[t].seq => page[s] = page[t]
             /\ page[t].seq <= page[s].seq + Grace => Durable(page[s])
  BY <1>1, <1>2, Newest DEF SlotsInv, Neighbours
<1>3. ASSUME Durable(page[s]) PROVE Reads(page, page[s])
  <2>1. \A b \in Kept(page[s]) : disk[b] = page[b]
    BY <1>1, <1>3, RefsInRegion DEF Durable, Kept, FileInv, Clean
  <2> QED
    BY <1>3, <2>1, ReadsElsewhere DEF Durable
<1> QED
  BY <1>1, <1>2, <1>3 DEF Served

\* The file is long enough for every state that is served.
LEMMA LongEnough ==
    ASSUME IInv, SlotsInv, NEW v, Served(v)
    PROVE  FileReaches(v.tail)
<1>1. FileInv /\ v.tail \in Nat
  BY InvParts DEF Served, SuperblockOK, Superblock
<1>2. PICK t \in Slot : Selects(page, t)
  BY <1>1, PageChoice
<1>3. /\ SuperblockOK(page[t]) /\ Intact(page, page[t]) /\ v.tail <= page[t].tail
      /\ page[t] \in Superblock /\ page[t].tail \in Nat /\ page[t].dir_off \in Block
  BY <1>1, <1>2, Newest DEF Served, SuperblockOK, Superblock
<1>4. CASE page[t].seq = 0
  <2>1. page[t].tail = 2 /\ page[1] # Unwritten /\ 1 \in Block
    BY <1>3, <1>4, SlotsAreBlocks DEF SuperblockOK, EmptySuperblock, RegionStart, SlotsInv
  <2> QED
    BY <1>1, <1>3, <2>1 DEF FileReaches
<1>5. CASE page[t].seq # 0
  <2>1. page[t].xsum \in Directory /\ page[page[t].dir_off] = page[t].xsum
    BY <1>3, <1>5 DEF Intact, DirectoryReads, Superblock
  <2>2. page[page[t].dir_off] # Unwritten /\ page[t].tail = page[t].dir_off + 1
    BY <1>3, <1>5, <2>1, DistinctAssumption DEF SuperblockOK
  <2> QED
    BY <1>1, <1>3, <2>2 DEF FileReaches, Block
<1> QED
  BY <1>4, <1>5

LEMMA WhoMovesReaders ==
    ASSUME [Next]_vars
    PROVE  PowerLoss \/ UNCHANGED reader \/ \E r \in Readers : Read(r)
BY DEF Next, vars, Stage, Publish, PutBytes, PutBytesFails, AppendStream, Remove, Declare,
   BeginMember, WriteMember, FinishMember, AbandonMember, DiscardStaged, CommitDirectory,
   PreFlipBarrier, FlipBegins, FlipLands, FinalBarrier, AcknowledgeCurrentState,
   PunchFreeExtents, PunchWithinMember, ProcessDeath, OpenWriter

\* A reader that does nothing keeps what it knows.
LEMMA ReaderWaits ==
    ASSUME IInv, SlotsInv, [Next]_vars, ~PowerLoss, NEW st \in ReaderState, ReaderInv(st)
    PROVE  ReaderInv(st)'
<1>1. st.pc \in {"slot0", "slot1", "selected", "pinned"} => st.since \in Nat
  BY DEF ReaderState
<1> QED
  BY <1>1, ServedStep, BeganStep DEF ReaderInv

\* A reader's own step.
LEMMA ReaderReads ==
    ASSUME IInv, SlotsInv, NEW r \in Readers, ReaderInv(reader[r]), Read(r),
           NEW q, q = reader'[r]
    PROVE  ReaderInv(q)'
<1> DEFINE st == reader[r]
<1>1. /\ FileInv /\ FileType /\ Chain /\ reader \in [Readers -> ReaderState] /\ st \in ReaderState
  BY InvParts DEF IInv, ReaderType
<1>2. page' = page /\ declared' = declared
  BY DEF Read, file
<1>3. \A v : Served(v)' <=> Served(v)
  BY <1>2 DEF Served, Reads, Erased
<1>4. \A n : Began(n)' <=> Began(n)
  BY <1>2 DEF Began
<1>5. SUFFICES /\ q.pc # "truncated"
               /\ q.pc \in {"slot0", "slot1", "selected", "pinned"} => Began(q.since)
               /\ (q.pc = "slot1" /\ Decodes(q.first)) =>
                     Served(q.first) /\ q.first.seq + 1 >= q.since
               /\ q.pc \in {"selected", "pinned"} => Served(q.sb) /\ q.sb.seq + 1 >= q.since
  BY <1>3, <1>4 DEF ReaderInv
<1>6. CASE MeasureLength(r)
  <2>1. PICK b \in Block : q = [pc |-> "slot0", len |-> b + 1, since |-> SelectedSeq]
    BY <1>1, <1>5, <1>6 DEF MeasureLength
  <2>2. \A t \in Slot : Selects(page, t) => SelectedSeq = page[t].seq /\ page[t].seq \in Nat
    BY <1>1, SelectedSeqIs, Newest
  <2> QED
    BY <2>1, <2>2 DEF Began
<1>7. CASE ReadFirstSlot(r)
  <2>1. q = [pc |-> "slot1", len |-> st.len, since |-> st.since, first |-> page[0]]
    BY <1>1, <1>5, <1>7 DEF ReadFirstSlot
  <2>2. st.pc = "slot0" /\ Began(st.since) /\ st.since \in Nat
    BY <1>1, <1>7 DEF ReadFirstSlot, ReaderInv, ReaderState
  <2>3. ASSUME Decodes(page[0]) PROVE Served(page[0]) /\ page[0].seq + 1 >= st.since
    <3>1. PICK t \in Slot : Selects(page, t)
      BY <1>1, PageChoice
    <3>2. page[t].seq \in Nat /\ st.since <= page[t].seq
      BY <1>1, <2>2, <3>1, Newest DEF Began
    <3> QED
      BY <2>2, <2>3, <3>1, <3>2, SlotServed, SlotsAreBlocks
  <2> QED
    BY <2>1, <2>2, <2>3
<1>8. CASE ReadSecondSlot(r)
  <2> DEFINE image == [s \in Slot |-> IF s = 0 THEN reader[r].first ELSE page[1]]
             t == CHOOSE s \in Slot : Selects(image, s)
  <2>1. st.pc = "slot1" /\ Began(st.since) /\ st.since \in Nat
    BY <1>1, <1>8 DEF ReadSecondSlot, ReaderInv, ReaderState
  <2>2. ASSUME NEW s \in Slot, Decodes(image[s])
        PROVE  Served(image[s]) /\ image[s].seq \in Nat /\ image[s].seq + 1 >= st.since
    <3>1. CASE s = 0
      <4>1. image[s] = st.first
        BY <3>1, SlotsAreBlocks
      <4> HIDE DEF image
      <4>2. Served(st.first) /\ st.first.seq + 1 >= st.since
        BY <2>1, <2>2, <4>1 DEF ReaderInv
      <4> QED
        BY <4>1, <4>2 DEF Served, SuperblockOK, Superblock
    <3>2. CASE s = 1
      <4>1. image[s] = page[1]
        BY <3>2, SlotsAreBlocks
      <4> HIDE DEF image
      <4>2. Served(page[1]) /\ page[1].seq \in Nat
            /\ \A u \in Slot : Selects(page, u) => page[u].seq <= page[1].seq + 1
        BY <2>2, <4>1, SlotServed, SlotsAreBlocks
      <4>3. PICK u \in Slot : Selects(page, u) /\ page[u].seq \in Nat
        BY <1>1, PageChoice, Newest
      <4> QED
        BY <2>1, <4>1, <4>2, <4>3 DEF Began
    <3> QED
      BY <3>1, <3>2 DEF Slot
  <2>3. CASE \E s \in Slot : Selects(image, s)
    <3>1. t \in Slot /\ Selects(image, t)
      BY <2>3
    <3>2. Served(image[t]) /\ image[t].seq + 1 >= st.since
      BY <2>2, <3>1 DEF Selects
    <3>3. ~LooksTruncated(r, image[t].tail)
      BY <3>2, LongEnough DEF LooksTruncated
    <3>4. q = [pc |-> "selected", since |-> st.since, sb |-> image[t]]
      BY <1>1, <1>5, <1>8, <2>3, <3>3 DEF ReadSecondSlot
    <3> HIDE DEF image, t
    <3> QED
      BY <2>1, <3>2, <3>4
  <2>4. CASE ~\E s \in Slot : Selects(image, s)
    <3>1. q = [pc |-> "refused"]
      BY <1>1, <1>5, <1>8, <2>4 DEF ReadSecondSlot
    <3> QED
      BY <3>1
  <2> QED
    BY <2>3, <2>4
<1>9. CASE ReadDirectory(r)
  <2>1. st.pc = "selected" /\ st \in [pc : {"selected", "pinned"}, since : Nat, sb : Superblock]
    BY <1>1, <1>9 DEF ReadDirectory, ReaderState
  <2>2. q = [st EXCEPT !.pc = "pinned"] \/ q = [pc |-> "refused"]
    BY <1>1, <1>5, <1>9 DEF ReadDirectory
  <2>3. q = [pc |-> "pinned", since |-> st.since, sb |-> st.sb] \/ q = [pc |-> "refused"]
    BY <2>1, <2>2
  <2> QED
    BY <2>1, <2>3 DEF ReaderInv
<1>10. CASE CloseReader(r)
  BY <1>1, <1>5, <1>10 DEF CloseReader, Idle
<1> QED
  BY <1>6, <1>7, <1>8, <1>9, <1>10 DEF Read

LEMMA ReadersStep ==
    ASSUME IInv, SlotsInv, ReadersInv, [Next]_vars
    PROVE  ReadersInv'
<1> SUFFICES ASSUME NEW r \in Readers, NEW q, q = reader'[r] PROVE ReaderInv(q)'
  BY DEF ReadersInv, ReaderInv
<1>1. reader \in [Readers -> ReaderState] /\ reader[r] \in ReaderState /\ ReaderInv(reader[r])
  BY InvParts DEF ReaderType, ReadersInv
<1>2. CASE PowerLoss
  BY <1>2 DEF PowerLoss, ReaderInv, Idle
<1>3. ASSUME ~PowerLoss, q = reader[r] PROVE ReaderInv(q)'
  BY <1>1, <1>3, ReaderWaits
<1>4. CASE Read(r)
  BY <1>1, <1>4, ReaderReads
<1>5. ASSUME NEW p \in Readers, Read(p), p # r PROVE q = reader[r]
  BY <1>1, <1>5
     DEF Read, MeasureLength, ReadFirstSlot, ReadSecondSlot, ReadDirectory, CloseReader
<1> QED
  BY <1>2, <1>3, <1>4, <1>5, WhoMovesReaders

-----------------------------------------------------------------------------
(* The theorems on readers. *)

LEMMA InitSlots == Init => SlotsInv
<1> SUFFICES ASSUME Init PROVE SlotsInv
  OBVIOUS
<1>1. page[0] = EmptySuperblock /\ page[1] = Hole /\ disk = page /\ dirty = {}
  BY SlotsAreBlocks DEF Init, Slot
<1>2. /\ EmptySuperblock \in Superblock /\ EmptySuperblock.xsum.free = {}
      /\ EmptySuperblock.xsum.dir = {} /\ EmptySuperblock.seq = 0
  BY EmptyIsSuperblock DEF EmptySuperblock, EmptyDirectory
<1>3. EmptySuperblock # Unwritten /\ Hole # Unwritten /\ ~Decodes(Hole)
  BY <1>2, DistinctAssumption DEF Decodes
<1>4. SlotValues \subseteq {EmptySuperblock}
  BY <1>1, <1>3 DEF SlotValues
<1>5. \A v, w \in SlotValues : FreedAfter(v, w) /\ DirectorySpared(v, w)
  BY <1>2, <1>4 DEF FreedAfter, DirectorySpared
<1>6. Durable(EmptySuperblock)
  BY <1>1, <1>2 DEF Durable, Kept, Refs, Live, Reads, DirectoryReads
<1>7. \A s \in Slot : Decodes(page[s]) => page[s] = EmptySuperblock
  BY <1>1, <1>3 DEF Slot
<1>8. Neighbours(page)
  BY <1>2, <1>6, <1>7 DEF Neighbours, Selects
<1>9. Declares(acked) = {}
  BY <1>2 DEF Init, Declares, Dead
<1> QED
  BY <1>1, <1>3, <1>5, <1>8, <1>9 DEF SlotsInv, Slot

LEMMA InitReaders == Init => ReadersInv
BY DEF Init, ReadersInv, ReaderInv, Idle

\* Between any two steps both slots hold neighbouring states that stay whole
\* through the grace window, and the file serves every reader that is open.
THEOREM FullInductive == Spec => []FullInv
<1>1. Init => FullInv
  BY InitInv, InitSlots, InitReaders DEF FullInv
<1>2. FullInv /\ [Next]_vars => FullInv'
  BY NextKeeps, SlotsStep, ReadersStep DEF FullInv
<1> QED
  BY <1>1, <1>2, PTL DEF Spec

\* A reader within the grace window reads its directory and every block exactly
\* as published, whatever the writer stages, discards, frees and punches
\* meanwhile, but for blocks a later acknowledged state declares punched.
THEOREM ReadersExact == Spec => []ReadersWithinGraceExact
<1>1. FullInv => ReadersWithinGraceExact
  <2> SUFFICES ASSUME FullInv, NEW r \in Readers, reader[r].pc \in {"selected", "pinned"},
                      reader[r].sb.seq + Grace >= SelectedSeq
               PROVE  Reads(page, reader[r].sb)
    BY DEF ReadersWithinGraceExact
  <2>1. PICK t \in Slot : Selects(page, t)
    BY InvParts, PageChoice DEF FullInv
  <2>2. SelectedSeq = page[t].seq
    BY <2>1, InvParts, SelectedSeqIs DEF FullInv
  <2> QED
    BY <2>1, <2>2 DEF FullInv, ReadersInv, ReaderInv, Served
<1> QED
  BY <1>1, FullInductive, PTL

\* An open that races commits is never refused as truncated, and selects a
\* state at most one publication older than the one current when it began.
THEOREM ReadersRecent == Spec => []ReadersOpenRecentState
<1>1. FullInv => ReadersOpenRecentState
  BY DEF FullInv, ReadersInv, ReaderInv, ReadersOpenRecentState
<1> QED
  BY <1>1, FullInductive, PTL

-----------------------------------------------------------------------------
(* The container implements Publication. *)

Choices ==
    /\ \A t \in Slot : Selects(page, t) => Selected(page) = page[t]
    /\ \A t \in Slot : Selects(disk, t) => Selected(disk) = disk[t]
    /\ \E t \in Slot : Selects(page, t)
    /\ \E t \in Slot : Selects(disk, t)

LEMMA ChoicesAre == IInv => Choices
BY InvParts, PageChoice, DiskChoice, SelectedIs DEF Choices

LEMMA PublicationInit == Init => Promise!Init
<1> SUFFICES ASSUME Init PROVE Promise!Init
  OBVIOUS
<1>1. Choices
  BY InitInv, ChoicesAre
<1>2. page[0] = EmptySuperblock /\ page[1] = Hole /\ disk = page
  BY SlotsAreBlocks DEF Init, Slot
<1>3. \A t \in Slot : Selects(page, t) => page[t] = EmptySuperblock
  BY <1>2 DEF Selects, Decodes, Slot
<1>4. Selected(page) = EmptySuperblock /\ Selected(disk) = EmptySuperblock
  BY <1>1, <1>2, <1>3 DEF Choices
<1> QED
  BY <1>4 DEF Promise!Init, Authority, EmptySuperblock, EmptyDirectory

LEMMA PublicationStep ==
    ASSUME IInv, SlotsInv, [Next]_vars
    PROVE  [Promise!Next]_<<Authority(Selected(page)), Authority(Selected(disk))>>
<1> DEFINE current == Authority(Selected(page))
           floor   == Authority(Selected(disk))
<1>1. FileStep /\ FileInv /\ Choices /\ Choices'
  BY StepKinds, InvParts, NextKeeps, ChoicesAre, PTL
<1>2. ASSUME ~PowerLoss, ~SlotLands PROVE Selected(page)' = Selected(page)
  BY <1>1, <1>2, SameSelection DEF Choices
<1>3. CASE UNCHANGED file
  BY <1>3 DEF file, Selected
<1>4. CASE ~PowerLoss /\ ~SlotLands /\ disk' = disk
  BY <1>2, <1>4 DEF Selected
<1>5. CASE ~PowerLoss /\ ~SlotLands /\ disk' = page'
  <2>1. current' = current /\ floor' = current
    BY <1>2, <1>5 DEF Selected
  <2>2. Promise!Acknowledge
    BY <2>1 DEF Promise!Acknowledge
  <2> QED
    BY <2>2 DEF Promise!Next
<1>6. CASE SlotLands
  <2>1. phase = "writing" /\ phase \in {"flip", "writing"} /\ attempted \in {Torn, attempted}
        /\ Write(NextSlot, attempted)
    BY <1>6 DEF SlotLands
  <2>2. /\ Selects(disk, slot) /\ disk' = disk /\ disk[slot] = sb /\ slot \in Slot
        /\ Selects(page, slot) /\ page[slot] = sb
        /\ attempted \in Superblock /\ attempted.seq = sb.seq + 1
    BY <2>1, DiskStaysBehind, WhileFlipping
  <2>3. Selected(page) = sb /\ Selected(disk) = sb /\ Selected(disk)' = sb
    BY <1>1, <2>2 DEF Choices, Selected
  <2>4. page'[NextSlot] = attempted /\ \A t \in Slot : Selects(page', t) => t = NextSlot
    BY <2>1, DiskStaysBehind, WhileFlipping DEF Selects, NextSlot
  <2>5. Selected(page)' = attempted
    BY <1>1, <2>4 DEF Choices
  <2>6. attempted.xsum.dir \in SUBSET Extent
    BY <2>2 DEF Superblock, Directory
  <2>7. Promise!Publishes
    BY <2>2, <2>3, <2>5, <2>6 DEF Promise!Publishes, Promise!Publish, Authority
  <2> QED
    BY <2>7 DEF Promise!Next
<1>7. CASE PowerLoss
  <2>1. PICK f \in {page, disk} :
             \A t \in Slot : Selects(page', t) => Selects(f, t) /\ page'[t] = f[t]
    BY <1>7, LossImage
  <2>2. Selected(page)' \in {Selected(page), Selected(disk)}
    BY <1>1, <2>1 DEF Choices
  <2>3. Selected(disk)' = Selected(page)'
    BY <1>7 DEF PowerLoss, Selected
  <2>4. Promise!PowerLoss
    BY <2>2, <2>3 DEF Promise!PowerLoss
  <2> QED
    BY <2>4 DEF Promise!Next
<1>8. UNCHANGED file \/ PowerLoss \/ SlotLands \/ disk' = disk \/ disk' = page'
  BY <1>1, PunchStep DEF FileStep, RegionWrite, SyncFile, SlotTorn, Write
<1> QED
  BY <1>3, <1>4, <1>5, <1>6, <1>7, <1>8

\* The file keeps the container's promise to the layers above it: a commit is
\* one atomic publication, and a power loss falls back at most to the state
\* the last one replaced, never behind an acknowledged one.
THEOREM Refinement == Spec => ImplementsPublication
<1>1. FullInv => IInv /\ SlotsInv
  BY DEF FullInv
<1> QED
  BY <1>1, FullInductive, PublicationInit, PublicationStep, PTL
     DEF Spec, ImplementsPublication, Promise!Spec
=============================================================================
