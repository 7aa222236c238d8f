----------------------------- MODULE Container -----------------------------
(***************************************************************************)
(* The single-file container of src/src/container.rs: two superblock slots *)
(* written alternately, an append-only member region behind them, and a    *)
(* commit that publishes every staged change by one slot write between two *)
(* fsyncs.                                                                  *)
(*                                                                          *)
(* One address space of 4096-byte blocks stands for the file: block 0 and  *)
(* block 1 are the superblock slots, the member region starts at block 2.  *)
(* `page' is what every process reads (the page cache), `disk' what a power*)
(* loss is sure to leave, `dirty' the blocks written since the last        *)
(* successful fsync: a power loss leaves each of those old, new or torn.   *)
(* A member is its set of extents, each one block; the directory block     *)
(* holds the extents and the free list, and the checksum a superblock      *)
(* carries is the directory value itself.  Zero-length members, which own  *)
(* no block, are not told apart from absent ones.  Of the manifest, itself  *)
(* a member, only the punched ranges count: an extent they cover is dead.   *)
(***************************************************************************)
EXTENDS Naturals, Sequences, FiniteSets

CONSTANTS Names,      \* member names
          Data,       \* what one member block may hold
          Readers,    \* lock-free readers in other processes
          Grace,      \* publications a free extent outlives before it is punched
          Torn,       \* a block half written: checksums fail
          Hole,       \* a punched block: reads zeros
          Unwritten,  \* a block beyond everything ever written
          NoMember,   \* no member write is open
          MaxSeq,     \* bound: publications
          LastBlock,  \* bound: file size in blocks
          MaxStaged,  \* bound: blocks staged behind the published ones
          MaxFaults   \* bound: failed calls and crashes

ASSUME BoundsAssumption ==
    /\ Grace \in Nat
    /\ MaxSeq \in Nat /\ MaxStaged \in Nat /\ MaxFaults \in Nat
    /\ LastBlock \in Nat /\ LastBlock >= 2

VARIABLES page, disk, dirty,                       \* the file
          opened, dir, free, sb, tail, slot, staged, open_member,
          poisoned, failed_publication_selected, publication_acknowledged,
                                                   \* the writer's handle
          phase, attempted,                        \* where its commit stands
          reader,                                  \* the readers
          acked,     \* history: the last state whose publication was acknowledged
          declared,  \* history: what acknowledged states declared punched, and which
          faults     \* how much of MaxFaults is spent

file    == <<page, disk, dirty>>
view    == <<dir, free, sb, tail, slot, staged>>
outcome == <<poisoned, failed_publication_selected, publication_acknowledged>>
handle  == <<opened, view, open_member, outcome>>
commitv == <<phase, attempted>>
vars    == <<file, handle, commitv, reader, acked, declared, faults>>

Block       == 0 .. LastBlock
Slot        == {0, 1}
RegionStart == 2

-----------------------------------------------------------------------------
(* Superblocks and the choice between the two slots. *)

Extent     == [name : Names, off : Block, data : Data, dead : BOOLEAN]
FreeExtent == [off : Block, freed : Nat]
Directory  == [dir : SUBSET Extent, free : SUBSET FreeExtent]
Superblock == [seq : Nat, dir_off : Block, xsum : Directory, tail : Nat]

EmptyDirectory == [dir |-> {}, free |-> {}]
EmptySuperblock ==
    [seq |-> 0, dir_off |-> RegionStart, xsum |-> EmptyDirectory, tail |-> RegionStart]

Decodes(v) == v \notin {Torn, Hole, Unwritten}

\* A checksum tells a state from whatever else a slot may hold, and a name
\* from none; a block past the end of the file holds nothing that was written.
ASSUME DistinctAssumption ==
    /\ \A v \in {Torn, Hole, Unwritten} : v \notin Superblock
    /\ Unwritten \notin Directory \cup {Torn, Hole}

\* Slot s of the image f is the one select_superblock adopts: the higher of
\* two sequences, the first of two equal slots, and neither when the two
\* claim one sequence for different states.
Selects(f, s) ==
    /\ Decodes(f[s])
    /\ Decodes(f[1 - s]) => \/ f[1 - s].seq < f[s].seq
                            \/ f[0] = f[1] /\ s = 0

\* The birth state stores no directory; any other one is read and compared
\* with the checksum in its superblock.
DirectoryReads(f, s) == s.seq # 0 => f[s.dir_off] = s.xsum

Live(s) == {e \in s.xsum.dir : ~e.dead}
Dead(s) == {e \in s.xsum.dir : e.dead}

\* Every block whose bytes the state stands for, directory included.
Refs(s) == {e.off : e \in Live(s)} \cup (IF s.seq = 0 THEN {} ELSE {s.dir_off})

\* Every byte the state stands for is the byte that was published.
Intact(f, s) ==
    /\ DirectoryReads(f, s)
    /\ \A e \in Live(s) : f[e.off] = e.data

\* What state s declares punched.
Declares(s) == {[off |-> e.off, seq |-> s.seq] : e \in Dead(s)}

\* What read_directory demands of a state's ranges: inside the published
\* region, none claimed twice, nothing freed by a later publication.
WellFormed(s) ==
    LET fr == s.xsum.free
    IN  /\ \A e \in s.xsum.dir : e.off >= RegionStart /\ e.off < s.dir_off
        /\ \A x \in fr : x.off >= RegionStart /\ x.off < s.dir_off /\ x.freed <= s.seq
        /\ \A e1, e2 \in s.xsum.dir : e1.off = e2.off => e1 = e2
        /\ \A x1, x2 \in fr : x1.off = x2.off => x1 = x2
        /\ \A e \in s.xsum.dir, x \in fr : e.off # x.off

\* The file is at least n blocks long; it ends right after block b.
FileReaches(n) == \E b \in Block : page[b] # Unwritten /\ n <= b + 1
EndsAfter(b)   == page[b] # Unwritten /\ \A c \in Block : c > b => page[c] = Unwritten

-----------------------------------------------------------------------------
Idle == [pc |-> "idle"]

Init ==
    /\ page = [b \in Block |-> CASE b = 0 -> EmptySuperblock [] b = 1 -> Hole
                                  [] OTHER -> Unwritten]
    /\ disk = page
    /\ dirty = {}
    /\ opened = TRUE
    /\ dir = {} /\ free = {} /\ sb = EmptySuperblock /\ tail = RegionStart
    /\ slot = 0 /\ staged = FALSE /\ open_member = NoMember
    /\ poisoned = FALSE /\ failed_publication_selected = "none"
    /\ publication_acknowledged = TRUE
    /\ phase = "idle" /\ attempted = EmptySuperblock
    /\ reader = [r \in Readers |-> Idle]
    /\ acked = EmptySuperblock /\ declared = {}
    /\ faults = 0

Fault == faults < MaxFaults /\ faults' = faults + 1
NoFault == UNCHANGED faults

Write(b, v) ==
    /\ page' = [page EXCEPT ![b] = v]
    /\ dirty' = dirty \cup {b}
    /\ UNCHANGED disk

\* A failed write leaves the block as it was, torn or complete.
FailedWrite(b, v) == \E w \in {page[b], Torn, v} : Write(b, w)

SyncFile == disk' = page /\ dirty' = {} /\ UNCHANGED page

-----------------------------------------------------------------------------
(* Staging. *)

EnsureWritable == opened /\ phase = "idle" /\ ~poisoned /\ open_member = NoMember

\* Bounds: one more block may be staged at b.
Room(b) == b < LastBlock /\ b < sb.tail + MaxStaged

ExtentsOf(n) == {e \in dir : e.name = n}

FreedEarly(old)   == {[off |-> e.off, freed |-> sb.seq] : e \in old}

Freed(old) == {[off |-> e.off, freed |-> sb.seq + 1] : e \in old}

LiveExtent(n, b, d) == [name |-> n, off |-> b, data |-> d, dead |-> FALSE]

\* The member named n becomes the blocks that hold `written', from the cursor.
StageEntry(n, written) ==
    /\ dir' = (dir \ ExtentsOf(n))
                \cup {LiveExtent(n, tail + i - 1, written[i]) : i \in 1 .. Len(written)}
    /\ free' = free \cup Freed(ExtentsOf(n))
    /\ tail' = tail + Len(written)
    /\ staged' = TRUE
    /\ UNCHANGED <<sb, slot>>

PutBytes(n, d) ==
    /\ EnsureWritable /\ sb.seq < MaxSeq /\ Room(tail)
    /\ Write(tail, d)
    /\ StageEntry(n, <<d>>)
    /\ NoFault
    /\ UNCHANGED <<opened, open_member, outcome, commitv, reader, acked, declared>>

PutBytesFails(n, d) ==
    /\ EnsureWritable /\ sb.seq < MaxSeq /\ Room(tail)
    /\ FailedWrite(tail, d)
    /\ Fault
    /\ UNCHANGED <<handle, commitv, reader, acked, declared>>

AppendStream(n, d) ==
    /\ EnsureWritable /\ sb.seq < MaxSeq /\ Room(tail)
    /\ ExtentsOf(n) # {}
    /\ Write(tail, d)
    /\ dir' = dir \cup {LiveExtent(n, tail, d)}
    /\ tail' = tail + 1
    /\ staged' = TRUE
    /\ NoFault
    /\ UNCHANGED <<free, sb, slot, opened, open_member, outcome, commitv, reader, acked, declared>>

Remove(n) ==
    /\ EnsureWritable /\ sb.seq < MaxSeq
    /\ ExtentsOf(n) # {}
    /\ dir' = dir \ ExtentsOf(n)
    /\ free' = free \cup Freed(ExtentsOf(n))
    /\ staged' = TRUE
    /\ NoFault
    /\ UNCHANGED <<file, sb, tail, slot, opened, open_member, outcome, commitv, reader, acked, declared>>

\* commit_into_container of a manifest that declares one more block punched; the
\* manifest's own bytes are a PutBytes.
Declare(e) ==
    /\ EnsureWritable /\ sb.seq < MaxSeq
    /\ e \in dir /\ ~e.dead
    /\ dir' = (dir \ {e}) \cup {[e EXCEPT !.dead = TRUE]}
    /\ staged' = TRUE
    /\ NoFault
    /\ UNCHANGED <<file, free, sb, tail, slot, opened, open_member, outcome, commitv,
                   reader, acked, declared>>

BeginMember(n) ==
    /\ EnsureWritable /\ sb.seq < MaxSeq
    /\ open_member' = [name |-> n, written |-> <<>>]
    /\ NoFault
    /\ UNCHANGED <<file, opened, view, outcome, commitv, reader, acked, declared>>

WriteMember(d) ==
    /\ opened /\ open_member # NoMember
    /\ LET b == tail + Len(open_member.written)
       IN  /\ Room(b)
           /\ \/ /\ Write(b, d)
                 /\ open_member' = [open_member EXCEPT !.written = Append(@, d)]
                 /\ NoFault
              \/ /\ FailedWrite(b, d)
                 /\ Fault
                 /\ UNCHANGED open_member
    /\ UNCHANGED <<opened, view, outcome, commitv, reader, acked, declared>>

FinishMember ==
    /\ opened /\ open_member # NoMember
    /\ StageEntry(open_member.name, open_member.written)
    /\ open_member' = NoMember
    /\ NoFault
    /\ UNCHANGED <<file, opened, outcome, commitv, reader, acked, declared>>

AbandonMember ==
    /\ opened /\ open_member # NoMember
    /\ open_member' = NoMember
    /\ NoFault
    /\ UNCHANGED <<file, opened, view, outcome, commitv, reader, acked, declared>>

\* The view snaps back to what the superblock says.
SnapBack ==
    /\ dir' = sb.xsum.dir /\ free' = sb.xsum.free /\ tail' = sb.tail
    /\ staged' = FALSE /\ open_member' = NoMember
    /\ UNCHANGED <<sb, slot>>

DiscardStaged ==
    /\ opened /\ phase = "idle" /\ (staged \/ open_member # NoMember)
    /\ DirectoryReads(page, sb)
    /\ SnapBack
    /\ NoFault
    /\ UNCHANGED <<file, opened, outcome, commitv, reader, acked, declared>>

-----------------------------------------------------------------------------
(* Publication.  commit is one call under the container lock; it is split   *)
(* where a crash or another process can come between.                       *)

Successor ==
    LET superseded == IF sb.seq = 0 THEN {}
                      ELSE {[off |-> sb.dir_off, freed |-> sb.seq + 1]}
    IN  [seq |-> sb.seq + 1, dir_off |-> tail,
         xsum |-> [dir |-> dir, free |-> free \cup superseded], tail |-> tail + 1]

NextSlot == 1 - slot

\* Faulty: the handle that could not tell what was selected goes on.
RefusedButWritable ==
    /\ \/ DirectoryReads(page', sb) /\ SnapBack
       \/ ~DirectoryReads(page', sb) /\ UNCHANGED <<view, open_member>>
    /\ poisoned' = FALSE
    /\ failed_publication_selected' = "none"
    /\ publication_acknowledged' = FALSE
    /\ phase' = "idle" /\ UNCHANGED attempted

\* commit's answer to a failure before any successor could be selected: the
\* staged view is thrown away and the handle refuses every mutation.
RefusedBeforeSelection ==
    /\ \/ DirectoryReads(page', sb) /\ SnapBack
       \/ ~DirectoryReads(page', sb) /\ UNCHANGED <<view, open_member>>
    /\ poisoned' = TRUE
    /\ failed_publication_selected' = "none"
    /\ publication_acknowledged' = FALSE
    /\ phase' = "idle" /\ UNCHANGED attempted

CommitDirectory ==
    /\ EnsureWritable /\ staged /\ sb.seq < MaxSeq /\ tail <= LastBlock
    /\ \/ /\ Write(tail, Successor.xsum)
          /\ attempted' = Successor
          /\ phase' = "directory"
          /\ failed_publication_selected' = "none"
          /\ NoFault
          /\ UNCHANGED <<view, open_member, poisoned, publication_acknowledged>>
       \/ /\ FailedWrite(tail, Successor.xsum)
          /\ RefusedBeforeSelection
          /\ Fault
    /\ UNCHANGED <<opened, reader, acked, declared>>

\* Faulty: the slot is written without waiting for what it names.
PreFlipUnsynced ==
    /\ opened /\ phase = "directory"
    /\ phase' = "flip"
    /\ NoFault
    /\ UNCHANGED <<file, opened, view, open_member, outcome, attempted, reader, acked, declared>>

PreFlipBarrier ==
    /\ opened /\ phase = "directory"
    /\ \/ /\ SyncFile
          /\ phase' = "flip"
          /\ NoFault
          /\ UNCHANGED <<view, open_member, outcome, attempted>>
       \/ /\ UNCHANGED file
          /\ RefusedBeforeSelection
          /\ Fault
    /\ UNCHANGED <<opened, reader, acked, declared>>

\* After a failed slot write or final barrier the file is opened again and
\* whatever it selects is adopted; a handle whose attempt did not win stays
\* poisoned, and so does one that could not look.
Reconcile ==
    \/ RefusedBeforeSelection
    \/ \E s \in Slot :
         /\ Selects(page', s) /\ DirectoryReads(page', page'[s])
         /\ LET selected == s = NextSlot /\ page'[s] = attempted
            IN  /\ failed_publication_selected' =
                     (IF selected THEN "successor" ELSE "predecessor")
                /\ poisoned' = ~selected
                /\ publication_acknowledged' = ~selected
         /\ sb' = page'[s] /\ slot' = s
         /\ dir' = page'[s].xsum.dir /\ free' = page'[s].xsum.free /\ tail' = page'[s].tail
         /\ staged' = FALSE /\ open_member' = NoMember
         /\ phase' = "idle" /\ UNCHANGED attempted

\* The slot is on its way to the page cache: a reader may see it torn.
FlipBegins ==
    /\ opened /\ phase = "flip"
    /\ \/ /\ Write(NextSlot, Torn)
          /\ phase' = "writing"
          /\ NoFault
          /\ UNCHANGED <<view, open_member, outcome, attempted>>
       \/ /\ UNCHANGED file
          /\ Reconcile
          /\ Fault
    /\ UNCHANGED <<opened, reader, acked, declared>>

FlipLands ==
    /\ opened /\ phase = "writing"
    /\ \/ /\ Write(NextSlot, attempted)
          /\ phase' = "barrier"
          /\ NoFault
          /\ UNCHANGED <<view, open_member, outcome, attempted>>
       \/ /\ \E w \in {Torn, attempted} : Write(NextSlot, w)
          /\ Reconcile
          /\ Fault
    /\ UNCHANGED <<opened, reader, acked, declared>>

\* commit_staged assigns the successor's free list once flip has returned.
FinalBarrier ==
    /\ opened /\ phase = "barrier"
    /\ \/ /\ SyncFile
          /\ sb' = attempted /\ tail' = attempted.tail /\ slot' = NextSlot
          /\ free' = attempted.xsum.free
          /\ staged' = FALSE
          /\ publication_acknowledged' = TRUE
          /\ phase' = "idle"
          /\ acked' = attempted /\ declared' = declared \cup Declares(attempted)
          /\ NoFault
          /\ UNCHANGED <<dir, open_member, poisoned, failed_publication_selected, attempted>>
       \/ /\ UNCHANGED file
          /\ Reconcile
          /\ Fault
          /\ UNCHANGED <<acked, declared>>
    /\ UNCHANGED <<opened, reader>>

\* Also what commit does when nothing is staged.
AcknowledgeCurrentState ==
    /\ EnsureWritable /\ ~publication_acknowledged
    /\ \/ /\ SyncFile
          /\ publication_acknowledged' = TRUE
          /\ acked' = sb /\ declared' = declared \cup Declares(sb)
          /\ NoFault
       \/ /\ Fault
          /\ UNCHANGED <<file, publication_acknowledged, acked, declared>>
    /\ UNCHANGED <<opened, view, open_member, poisoned, failed_publication_selected,
                   commitv, reader>>

-----------------------------------------------------------------------------
(* Store::punch_free_space: acknowledge, punch what is old enough, fsync.   *)

\* Faulty: one publication early.
OldEnoughEarly == {x \in free : x.freed + Grace <= sb.seq + 1}

OldEnough == {x \in free : x.freed + Grace <= sb.seq}

Deallocate(punched) ==
    /\ page' = [b \in Block |-> IF b \in punched THEN Hole ELSE page[b]]
    /\ dirty' = dirty \cup punched
    /\ UNCHANGED disk

DeallocateAndSync(punched) ==
    LET holed == [b \in Block |-> IF b \in punched THEN Hole ELSE page[b]]
    IN  page' = holed /\ disk' = holed /\ dirty' = {}

PunchFreeExtents ==
    /\ EnsureWritable /\ publication_acknowledged
    /\ \E some \in SUBSET {x.off : x \in OldEnough} :
         /\ \E b \in some : page[b] # Hole
         /\ \/ some = {x.off : x \in OldEnough} /\ DeallocateAndSync(some) /\ NoFault
            \/ Deallocate(some) /\ Fault
    /\ UNCHANGED <<handle, commitv, reader, acked, declared>>

\* Faulty: a declaration that is only staged already counts.
DeclaredWhenStaged(n) == {e \in dir : e.name = n /\ e.dead}

\* What the manifest in force says of member n.
DeclaredPunched(n) == {e \in dir \cap Dead(sb) : e.name = n}

\* Store::punch_unreferenced: acknowledge, then destroy inside the member what
\* its manifest declared dead.  No reader is waited for.
PunchWithinMember(n) ==
    /\ EnsureWritable /\ publication_acknowledged
    /\ \E some \in SUBSET {e.off : e \in DeclaredPunched(n)} :
         /\ \E b \in some : page[b] # Hole
         /\ \/ DeallocateAndSync(some) /\ NoFault
            \/ Deallocate(some) /\ Fault
    /\ UNCHANGED <<handle, commitv, reader, acked, declared>>

-----------------------------------------------------------------------------
(* Crashes and opening. *)

Closed ==
    /\ opened' = FALSE
    /\ dir' = {} /\ free' = {} /\ sb' = EmptySuperblock /\ tail' = RegionStart
    /\ slot' = 0 /\ staged' = FALSE /\ open_member' = NoMember
    /\ poisoned' = FALSE /\ failed_publication_selected' = "none"
    /\ publication_acknowledged' = FALSE
    /\ phase' = "idle" /\ attempted' = EmptySuperblock

\* The writer process dies, or drops its handle: the page cache lives on.
ProcessDeath ==
    /\ opened
    /\ Closed
    /\ Fault
    /\ UNCHANGED <<file, reader, acked, declared>>

PowerLoss ==
    /\ \E kept \in SUBSET dirty : \E torn \in SUBSET (dirty \ kept) :
         disk' = [b \in Block |-> IF b \in torn THEN Torn
                                  ELSE IF b \in kept THEN page[b] ELSE disk[b]]
    /\ page' = disk' /\ dirty' = {}
    /\ Closed
    /\ reader' = [r \in Readers |-> Idle]
    /\ Fault
    /\ UNCHANGED <<acked, declared>>

\* open + lock_writer_current: the selected state is adopted, unacknowledged.
OpenWriter ==
    /\ ~opened
    /\ \E s \in Slot :
         /\ Selects(page, s) /\ DirectoryReads(page, page[s])
         /\ FileReaches(page[s].tail)
         /\ opened' = TRUE
         /\ sb' = page[s] /\ slot' = s
         /\ dir' = page[s].xsum.dir /\ free' = page[s].xsum.free /\ tail' = page[s].tail
    /\ publication_acknowledged' = FALSE
    /\ NoFault
    /\ UNCHANGED <<file, staged, open_member, poisoned, failed_publication_selected,
                   commitv, reader, acked, declared>>

-----------------------------------------------------------------------------
(* A lock-free reader opens in four reads, none of them atomic with another.*)

\* The sequence a process that looked now would select.
SelectedSeq == page[CHOOSE s \in Slot : Selects(page, s)].seq

MeasureLength(r) ==
    /\ reader[r].pc = "idle"
    /\ \E b \in Block :
         /\ EndsAfter(b)
         /\ reader' = [reader EXCEPT ![r] = [pc |-> "slot0", len |-> b + 1, since |-> SelectedSeq]]

ReadFirstSlot(r) ==
    /\ reader[r].pc = "slot0"
    /\ reader' = [reader EXCEPT ![r] = [pc |-> "slot1", len |-> @.len, since |-> @.since,
                                        first |-> page[0]]]

\* Faulty: the length measured before the slots were read is final.
LooksTruncatedOnce(r, t) == t > reader[r].len

\* A tail beyond the measured length is measured once more before refusing.
LooksTruncated(r, t) == t > reader[r].len /\ ~FileReaches(t)

ReadSecondSlot(r) ==
    /\ reader[r].pc = "slot1"
    /\ LET image == [s \in Slot |-> IF s = 0 THEN reader[r].first ELSE page[1]]
           Chosen(s) ==
             IF LooksTruncated(r, image[s].tail)
             THEN [pc |-> "truncated"]
             ELSE [pc |-> "selected", since |-> reader[r].since, sb |-> image[s]]
       IN  reader' = [reader EXCEPT ![r] =
                        IF \E s \in Slot : Selects(image, s)
                        THEN Chosen(CHOOSE s \in Slot : Selects(image, s))
                        ELSE [pc |-> "refused"]]

ReadDirectory(r) ==
    /\ reader[r].pc = "selected"
    /\ reader' = [reader EXCEPT ![r] = IF DirectoryReads(page, @.sb)
                                       THEN [@ EXCEPT !.pc = "pinned"]
                                       ELSE [pc |-> "refused"]]

CloseReader(r) ==
    /\ reader[r].pc \in {"pinned", "refused", "truncated"}
    /\ reader' = [reader EXCEPT ![r] = Idle]

Read(r) ==
    /\ \/ MeasureLength(r) \/ ReadFirstSlot(r) \/ ReadSecondSlot(r)
       \/ ReadDirectory(r) \/ CloseReader(r)
    /\ UNCHANGED <<file, handle, commitv, acked, declared, faults>>

-----------------------------------------------------------------------------
Stage ==
    \/ \E n \in Names, d \in Data : PutBytes(n, d) \/ PutBytesFails(n, d) \/ AppendStream(n, d)
    \/ \E n \in Names : Remove(n) \/ BeginMember(n)
    \/ \E e \in dir : Declare(e)
    \/ \E d \in Data : WriteMember(d)
    \/ FinishMember \/ AbandonMember \/ DiscardStaged

Publish ==
    \/ CommitDirectory \/ PreFlipBarrier \/ FlipBegins \/ FlipLands \/ FinalBarrier
    \/ AcknowledgeCurrentState

Next ==
    \/ Stage \/ Publish
    \/ PunchFreeExtents
    \/ \E n \in Names : PunchWithinMember(n)
    \/ ProcessDeath \/ PowerLoss \/ OpenWriter
    \/ \E r \in Readers : Read(r)

Spec == Init /\ [][Next]_vars

-----------------------------------------------------------------------------
(* Properties. *)

\* The handle, the file and the readers stay in their domains.
ReaderState ==
    [pc : {"idle", "refused", "truncated"}]
      \cup [pc : {"slot0"}, len : Nat, since : Nat]
      \cup [pc : {"slot1"}, len : Nat, since : Nat, first : Superblock \cup {Torn, Hole, Unwritten}]
      \cup [pc : {"selected", "pinned"}, since : Nat, sb : Superblock]

Value == Superblock \cup Directory \cup Data \cup {Torn, Hole, Unwritten}

TypeOK ==
    /\ page \in [Block -> Value] /\ disk \in [Block -> Value] /\ dirty \subseteq Block
    /\ \A s \in Slot : Decodes(page[s]) => page[s] \in Superblock
    /\ opened \in BOOLEAN /\ dir \subseteq Extent /\ free \subseteq FreeExtent
    /\ sb \in Superblock /\ tail \in Nat /\ slot \in Slot /\ staged \in BOOLEAN
    /\ open_member = NoMember \/ open_member \in [name : Names, written : Seq(Data)]
    /\ poisoned \in BOOLEAN /\ publication_acknowledged \in BOOLEAN
    /\ failed_publication_selected \in {"none", "successor", "predecessor"}
    /\ phase \in {"idle", "directory", "flip", "writing", "barrier"}
    /\ attempted \in Superblock /\ acked \in Superblock
    /\ declared \subseteq [off : Block, seq : Nat]
    /\ reader \in [Readers -> ReaderState]
    /\ faults \in 0 .. MaxFaults

\* What a power loss now may leave in block b.
AfterLoss(b) == IF b \in dirty THEN {disk[b], page[b], Torn} ELSE {disk[b]}

Left(first, second) == [s \in Slot |-> IF s = 0 THEN first ELSE second]

\* Slot s of what was left is selected, is no older than the last
\* acknowledged state, and every block it names is durable and as published.
Recovers(left, s) ==
    /\ Selects(left, s)
    /\ left[s].seq >= acked.seq
    /\ left[s].seq = acked.seq => left[s] = acked
    /\ Refs(left[s]) \cap dirty = {}
    /\ Intact(disk, left[s])

\* Whatever a power loss leaves of the two slots, opening recovers a state that
\* was published, acknowledged ones included, with all its bytes (the order of
\* commit_staged and flip).
PowerLossRecovers ==
    \A first \in AfterLoss(0), second \in AfterLoss(1) :
      \E s \in Slot : Recovers(Left(first, second), s)

\* The blocks a publication acknowledged after state v declared punched.
Erased(v) == {x.off : x \in {y \in declared : y.seq > v.seq}}

\* Of the image f, a reader of v reads its directory and, of what it stands
\* for, all but what was erased since as it was published.
Reads(f, v) ==
    /\ DirectoryReads(f, v)
    /\ \A e \in Live(v) : f[e.off] = e.data \/ e.off \in Erased(v)

\* A reader whose state is at most Grace publications behind reads its
\* directory and every block exactly as published, however the writer stages,
\* discards, frees and punches meanwhile, but for the blocks a later
\* acknowledged publication declared punched: extents are not reused, free ones
\* wait out the window, and nothing is destroyed in a member before the
\* declaration is durable (Container::punch_within_member waits for no reader).
ReadersWithinGraceExact ==
    \A r \in Readers :
      (/\ reader[r].pc \in {"selected", "pinned"}
       /\ reader[r].sb.seq + Grace >= SelectedSeq) => Reads(page, reader[r].sb)

\* An open that races commits never takes a longer file for a truncated one,
\* and what it selects is at most one publication older than what was
\* selected when it began (one slot may be seen in mid-write).
ReadersOpenRecentState ==
    \A r \in Readers :
      /\ reader[r].pc # "truncated"
      /\ reader[r].pc \in {"selected", "pinned"} => reader[r].sb.seq + 1 >= reader[r].since

\* Every state a slot holds, and the one the handle is staging, would pass
\* read_directory: no block is claimed twice, none lies past its directory.
DirectoriesAreValid ==
    /\ \A s \in Slot : Decodes(page[s]) => WellFormed(page[s])
    /\ (opened /\ ~poisoned) => WellFormed(Successor)

\* Between calls a handle that still accepts mutations holds the state the
\* file selects, in the slot that holds it; unstaged, its view is that
\* state's directory (what flip adopts and what reconciliation adopts).
HandleMirrorsSelection ==
    (opened /\ phase = "idle" /\ ~poisoned) =>
      /\ Selects(page, slot) /\ page[slot] = sb
      /\ ~staged => dir = sb.xsum.dir /\ free = sb.xsum.free /\ tail = sb.tail
      /\ publication_acknowledged => acked = sb

\* The state an image of the file selects.
Selected(f) == f[CHOOSE s \in Slot : Selects(f, s)]

\* The container implements Publication: current is what the page cache
\* selects, floor what the disk alone would select.
Authority(s) == [seq |-> s.seq, content |-> s.xsum.dir]
Promise == INSTANCE Publication WITH Content <- SUBSET Extent, Nothing <- {},
                                     current <- Authority(Selected(page)),
                                     floor <- Authority(Selected(disk))
ImplementsPublication == Promise!Spec

=============================================================================
