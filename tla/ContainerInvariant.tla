------------------------- MODULE ContainerInvariant -------------------------
(***************************************************************************)
(* What is true between any two steps of Container, strong enough that     *)
(* each step keeps it: the induction hypothesis of ContainerProofs, checked *)
(* by TLC first.                                                           *)
(***************************************************************************)
EXTENDS Container

\* What was not written since the last fsync is the same to a process and to
\* a power loss.
Clean == \A b \in Block \ dirty : page[b] = disk[b]

\* The superblocks some process or some power loss may find.
SlotValues == {v \in {page[0], page[1], disk[0], disk[1]} : Decodes(v)}

SuperblockOK(v) ==
    /\ v \in Superblock
    /\ WellFormed(v)
    /\ v.dir_off >= RegionStart
    /\ v.seq = 0 => v = EmptySuperblock
    /\ v.seq # 0 => v.tail = v.dir_off + 1

\* They form a chain: one state to a sequence, a later one never shorter.
Chain ==
    /\ \A v \in SlotValues : SuperblockOK(v)
    /\ \A v, w \in SlotValues : /\ v.seq = w.seq => v = w
                                /\ v.seq < w.seq => v.tail <= w.tail

\* No state is newer than the one processes select.
PageIsNewest ==
    \E s \in Slot : Selects(page, s) /\ \A v \in SlotValues : v.seq <= page[s].seq

\* A handle that accepts mutations stands on the selected state (or, once its
\* slot write has landed, on its predecessor), and stages behind it.
HandleInv ==
    (opened /\ ~poisoned) =>
      /\ page[slot] = sb /\ Decodes(sb)
      /\ phase # "barrier" => Selects(page, slot)
      /\ sb.tail <= tail
      /\ WellFormed(Successor)
      /\ \A e \in dir : ~e.dead => page[e.off] = e.data
      /\ \A e \in dir : e.off >= sb.tail \/ \E o \in sb.xsum.dir : o.off = e.off
      /\ \A x \in free : x.freed = sb.seq + 1 \/ x \in sb.xsum.free
      /\ (phase = "idle" /\ publication_acknowledged) => acked = sb
      /\ (phase = "idle" /\ ~staged) => /\ dir = sb.xsum.dir /\ free = sb.xsum.free
                                        /\ tail = sb.tail

MemberInv ==
    open_member # NoMember =>
      /\ opened /\ ~poisoned /\ phase = "idle"
      /\ \A i \in 1 .. Len(open_member.written) :
            tail + i - 1 \in Block /\ page[tail + i - 1] = open_member.written[i]

PhaseInv ==
    phase # "idle" =>
      /\ opened /\ ~poisoned /\ open_member = NoMember
      /\ attempted = Successor
      /\ tail \in Block /\ page[tail] = Successor.xsum
      /\ phase = "flip" => dirty = {}
      /\ phase = "writing" => dirty = {NextSlot} /\ page[NextSlot] = Torn
      /\ phase = "barrier" => dirty = {NextSlot} /\ page[NextSlot] = attempted

IInv ==
    /\ TypeOK
    /\ Clean
    /\ Chain
    /\ PageIsNewest
    /\ PowerLossRecovers
    /\ HandleInv
    /\ MemberInv
    /\ PhaseInv

-----------------------------------------------------------------------------
(* What holds beside IInv about older states: the one the other slot keeps, *)
(* and those readers still hold.                                            *)

\* What state w lists as free and v still names was freed after v.
FreedAfter(v, w) ==
    w.seq >= v.seq => \A x \in w.xsum.free : x.off \in Refs(v) => x.freed > v.seq

\* A later state w has no member block where v keeps its directory.
DirectorySpared(v, w) ==
    (v.seq # 0 /\ w.seq >= v.seq) => \A e \in w.xsum.dir : e.off # v.dir_off

\* The blocks of v that nothing published since gives up.
Kept(v) == {b \in Refs(v) : b \in Erased(v) => b = v.dir_off}

\* A power loss keeps every byte v names but those erased since.
Durable(v) == Kept(v) \cap dirty = {} /\ Reads(disk, v)

\* Of the image f, both slots hold neighbours, and what is at most Grace
\* publications old is durable.
Neighbours(f) ==
    \A s, t \in Slot : (Selects(f, t) /\ Decodes(f[s])) =>
      /\ f[t].seq <= f[s].seq + 1
      /\ f[t].seq <= f[s].seq + Grace => Durable(f[s])

\* One slot at a time is written, the one the disk does not select.
SlotsInv ==
    /\ \A s \in Slot : /\ page[s] # Unwritten /\ disk[s] # Unwritten
                       /\ s \in dirty => Selects(disk, 1 - s)
    /\ \A v, w \in SlotValues : FreedAfter(v, w) /\ DirectorySpared(v, w)
    /\ Declares(acked) \subseteq declared
    /\ Neighbours(page) /\ Neighbours(disk)

\* The file still serves a reader of v, which was selected once.
Served(v) ==
    /\ SuperblockOK(v)
    /\ \A t \in Slot : Selects(page, t) =>
         /\ v.seq <= page[t].seq /\ v.tail <= page[t].tail
         /\ v.seq = page[t].seq => v = page[t]
         /\ FreedAfter(v, page[t]) /\ DirectorySpared(v, page[t])
         /\ page[t].seq <= v.seq + Grace => Reads(page, v)

Began(since) == \A t \in Slot : Selects(page, t) => since <= page[t].seq

ReaderInv(st) ==
    /\ st.pc # "truncated"
    /\ st.pc \in {"slot0", "slot1", "selected", "pinned"} => Began(st.since)
    /\ (st.pc = "slot1" /\ Decodes(st.first)) => Served(st.first) /\ st.first.seq + 1 >= st.since
    /\ st.pc \in {"selected", "pinned"} => Served(st.sb) /\ st.sb.seq + 1 >= st.since

ReadersInv == \A r \in Readers : ReaderInv(reader[r])

FullInv == IInv /\ SlotsInv /\ ReadersInv
=====
