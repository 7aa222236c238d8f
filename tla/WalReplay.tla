------------------------------ MODULE WalReplay ------------------------------
(***************************************************************************)
(* What a write-ahead log file means (replay_state_with_limits of          *)
(* src/src/store/wal.rs).  The file is a sequence of cells: a cell is one  *)
(* whole frame, the first bytes of one, or the zeros of a hole.  A         *)
(* standalone frame is one unit; a batch is the unit of the members its    *)
(* completion frame counts.                                                *)
(***************************************************************************)
EXTENDS Naturals, Sequences, SequencesExt

CONSTANT FrameLimit  \* ReadLimits::max_wal_frames

ASSUME FrameLimitAssumption == FrameLimit \in Nat

Single(seq, m) == [tag |-> "single", seq |-> seq, mutation |-> m]
Member(seq, m) == [tag |-> "member", seq |-> seq, mutation |-> m]
Complete(seq, n) == [tag |-> "complete", seq |-> seq, count |-> n]

\* The first bytes of a frame.
Torn(frame) == IF frame.tag = "torn" THEN frame ELSE [tag |-> "torn", of |-> frame]
Zeros == [tag |-> "zeros"]               \* a hole before a later write

Checksums(cell) == cell.tag \notin {"torn", "zeros"}

\* The frames of one batch, as append_batch writes them.
BatchFrames(seq, ms) == [i \in 1 .. Len(ms) |-> Member(seq, ms[i])] \o <<Complete(seq, Len(ms))>>

\* A unit: the frames that apply together.
UnitOf(seq, ms) == [i \in 1 .. Len(ms) |-> [seq |-> seq, mutation |-> ms[i]]]

Applied(frames) == [i \in 1 .. Len(frames) |-> [seq |-> frames[i].seq, mutation |-> frames[i].mutation]]

Start == [verdict |-> "reading", off |-> 0, units |-> <<>>, pen |-> <<>>, pen_start |-> 0]

Refuse(st) == [st EXCEPT !.verdict = "refused"]
Advance(st) == [st EXCEPT !.off = @ + 1]

\* A frame outside any batch discards what an unfinished batch left.
ReadSingle(st, cell) ==
    [Advance(st) EXCEPT !.units = Append(@, Applied(<<cell>>)), !.pen = <<>>]

ReadMember(st, cell) ==
    [Advance(st) EXCEPT !.pen = Append(@, cell), !.pen_start = IF st.pen = <<>> THEN st.off ELSE @]

\* (Mutant: the completion applies every pending member.)
ReadWholePen(st, cell) ==
    IF cell.count = 0 \/ cell.count > Len(st.pen) THEN Refuse(st)
    ELSE [Advance(st) EXCEPT !.units = Append(@, Applied(st.pen)), !.pen = <<>>]

\* The completion applies the members it counts, right before it; earlier
\* ones belong to a batch that never completed.
ReadComplete(st, cell) ==
    LET first == Len(st.pen) - cell.count + 1
        run   == SubSeq(st.pen, first, Len(st.pen))
    IN  IF \/ cell.count = 0 \/ cell.count > Len(st.pen)
           \/ \E i \in DOMAIN run : run[i].seq # cell.seq
        THEN Refuse(st)
        ELSE [Advance(st) EXCEPT !.units = Append(@, Applied(run)), !.pen = <<>>]

\* Only the last frame may be torn.
ReadCell(len, st, cell) ==
    IF st.verdict # "reading" THEN st
    ELSE IF ~Checksums(cell) /\ st.off + 1 = len THEN [st EXCEPT !.verdict = "torn tail"]
    ELSE IF ~Checksums(cell) \/ st.off + 1 > FrameLimit THEN Refuse(st)
    ELSE CASE cell.tag = "single"   -> ReadSingle(st, cell)
           [] cell.tag = "member"   -> ReadMember(st, cell)
           [] cell.tag = "complete" -> ReadComplete(st, cell)

\* ok: the log is intelligible; units: what it applies, in order; valid: how
\* many cells a reopened log keeps, an unfinished batch at the end excluded.
Replay(cells) ==
    LET st == FoldLeft(LAMBDA s, cell : ReadCell(Len(cells), s, cell), Start, cells)
    IN  [ok    |-> st.verdict # "refused",
         units |-> st.units,
         valid |-> IF st.pen = <<>> THEN st.off ELSE st.pen_start]

=============================================================================
