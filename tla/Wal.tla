-------------------------------- MODULE Wal --------------------------------
(***************************************************************************)
(* The write-ahead log of src/src/store/wal.rs as one writer drives it:    *)
(* frames are appended to a buffer, the buffer spills to the file when it  *)
(* grows, sync is the acknowledgement, truncate drops what a publication   *)
(* made redundant.  A power loss leaves the file as of its last fsync plus *)
(* some of the writes issued since.                                        *)
(***************************************************************************)
EXTENDS WalReplay, FiniteSets

CONSTANTS Mutations,  \* a put or a delete of some id
          Seqs,       \* publication sequences a frame may be stamped with
          MaxBatch,   \* bound: members of one batch
          MaxFaults   \* bound: failed calls and crashes

ASSUME WalAssumption ==
    MaxBatch \in Nat /\ MaxFaults \in Nat

VARIABLES durable,      \* the file's cells as of its last fsync
          pending,      \* writes and truncations issued since, in order
          opened, buf, file_len, frame_count,   \* the handle
          units,        \* history: what append has accepted
          synced,       \* history: how many units the last successful sync covers
          stale,        \* history: logs truncated without a successful barrier since
          faults

file   == <<durable, pending>>
handle == <<opened, buf, file_len, frame_count>>
vars   == <<file, handle, units, synced, stale, faults>>

-----------------------------------------------------------------------------
(* The file. *)

WriteAt(at, cells) == [op |-> "write", at |-> at, cells |-> cells]
SetLen(n)          == [op |-> "set_len", len |-> n]

\* The first bytes of a frame, written again over that frame, leave it whole.
Overwritten(cells, i, new) ==
    IF i <= Len(cells) /\ new = Torn(cells[i]) THEN cells[i] ELSE new

ApplyOp(cells, o) ==
    IF o.op = "set_len" THEN SubSeq(cells, 1, o.len)
    ELSE [i \in 1 .. Max({Len(cells), o.at + Len(o.cells)}) |->
            IF i > o.at /\ i <= o.at + Len(o.cells) THEN Overwritten(cells, i, o.cells[i - o.at])
            ELSE IF i <= Len(cells) THEN cells[i] ELSE Zeros]

ApplyOps(cells, ops) == FoldLeft(ApplyOp, cells, ops)

\* What every process reads.
Live == ApplyOps(durable, pending)

\* A write that did not finish: some whole cells, the next one torn or absent.
Partial(o) ==
    IF o.op = "set_len" THEN {}
    ELSE {[o EXCEPT !.cells = SubSeq(@, 1, k)] : k \in 1 .. Len(o.cells) - 1}
           \cup {[o EXCEPT !.cells = Append(SubSeq(@, 1, k), Torn(o.cells[k + 1]))] : k \in 0 .. Len(o.cells) - 1}

InOrder ==
    {SubSeq(pending, 1, k) : k \in 0 .. Len(pending)}
      \cup UNION {{Append(SubSeq(pending, 1, k - 1), o) : o \in Partial(pending[k])} :
                    k \in 1 .. Len(pending)}

AnySubset ==
    {LET keeps(i) == i \in kept IN
       FoldLeft(LAMBDA s, i : IF keeps(i) THEN Append(s, pending[i]) ELSE s, <<>>,
                [i \in 1 .. Len(pending) |-> i]) : kept \in SUBSET (1 .. Len(pending))}

\* The files a power loss may leave where writes reach the disk in the order they
\* were issued, and where writes with no truncation among them reach it in any order.
CrashImages == {ApplyOps(durable, ops) : ops \in InOrder}
ReorderedImages ==
    {ApplyOps(durable, ops) :
       ops \in {s \in AnySubset : \A i \in DOMAIN pending : pending[i].op = "write"}}

-----------------------------------------------------------------------------
Init ==
    /\ durable = <<>> /\ pending = <<>>
    /\ opened = TRUE /\ buf = <<>> /\ file_len = 0 /\ frame_count = 0
    /\ units = <<>> /\ synced = 0 /\ stale = {}
    /\ faults = 0

Fault == faults < MaxFaults /\ faults' = faults + 1
NoFault == UNCHANGED faults

Issue(o) == pending' = Append(pending, o) /\ UNCHANGED durable

\* flush_buf of b: a failed write may have put any part of it in the file,
\* and moves nothing in the handle.
Flushes(b)     == Issue(WriteAt(file_len, b)) /\ file_len' = file_len + Len(b)
FlushFails(b)  ==
    /\ \/ UNCHANGED file
       \/ \E o \in Partial(WriteAt(file_len, b)) \cup {WriteAt(file_len, b)} : Issue(o)
    /\ UNCHANGED file_len

\* The frames of one append call enter the buffer one by one; each may find it
\* full and spill it first.  A failed spill refuses the call: the frames
\* before it stay in the buffer, the ones after never enter.
AppendFrames(frames, unit) ==
    /\ opened
    /\ frame_count + Len(frames) <= FrameLimit
    /\ \/ /\ buf' = buf \o frames
          /\ frame_count' = frame_count + Len(frames)
          /\ units' = Append(units, unit)
          /\ NoFault
          /\ UNCHANGED <<file, file_len>>
       \/ \E k \in 0 .. Len(frames) - 1 :
            LET entered == buf \o SubSeq(frames, 1, k)
            IN  /\ entered # <<>>
                /\ \/ /\ Flushes(entered)
                      /\ buf' = SubSeq(frames, k + 1, Len(frames))
                      /\ frame_count' = frame_count + Len(frames)
                      /\ units' = Append(units, unit)
                      /\ NoFault
                   \/ /\ FlushFails(entered)
                      /\ buf' = entered
                      /\ frame_count' = frame_count + k
                      /\ Fault
                      /\ UNCHANGED units
    /\ UNCHANGED <<opened, synced, stale>>

Append1(seq, m) == AppendFrames(<<Single(seq, m)>>, UnitOf(seq, <<m>>))

AppendBatch(seq, ms) == AppendFrames(BatchFrames(seq, ms), UnitOf(seq, ms))

\* (Mutant: the acknowledgement does not write the buffer first.)
SyncUnflushed ==
    /\ opened
    /\ durable' = Live /\ pending' = <<>>
    /\ synced' = Len(units) /\ stale' = {}
    /\ NoFault
    /\ UNCHANGED <<opened, buf, file_len, frame_count, units>>

Sync ==
    /\ opened
    /\ \/ /\ IF buf = <<>>
             THEN durable' = Live /\ UNCHANGED file_len
             ELSE /\ durable' = ApplyOp(Live, WriteAt(file_len, buf))
                  /\ file_len' = file_len + Len(buf)
          /\ pending' = <<>>
          /\ buf' = <<>>
          /\ synced' = Len(units) /\ stale' = {}
          /\ NoFault
       \/ /\ buf # <<>> /\ FlushFails(buf)
          /\ Fault
          /\ UNCHANGED <<buf, synced, stale>>
       \/ /\ IF buf = <<>> THEN UNCHANGED <<file, file_len>> ELSE Flushes(buf)
          /\ buf' = <<>>
          /\ Fault
          /\ UNCHANGED <<synced, stale>>
    /\ UNCHANGED <<opened, frame_count, units>>

\* The buffer is dropped first, whatever happens to the file.
Truncate ==
    /\ opened
    /\ buf' = <<>>
    /\ \/ /\ durable' = <<>> /\ pending' = <<>>
          /\ file_len' = 0 /\ frame_count' = 0
          /\ units' = <<>> /\ synced' = 0 /\ stale' = {}
          /\ NoFault
       \/ /\ Issue(SetLen(0))
          /\ file_len' = 0 /\ frame_count' = 0
          /\ units' = <<>> /\ synced' = 0
          /\ stale' = stale \cup {[units |-> units, synced |-> synced]}
          /\ Fault
       \/ /\ units' = Replay(SubSeq(Live, 1, file_len)).units
          /\ Fault
          /\ UNCHANGED <<file, file_len, frame_count, synced, stale>>
    /\ UNCHANGED opened

Closed == opened' = FALSE /\ buf' = <<>> /\ file_len' = 0 /\ frame_count' = 0

\* The process dies: the buffer is gone, the file is what it was.
ProcessDeath ==
    /\ opened
    /\ Closed
    /\ units' = Replay(Live).units
    /\ Fault
    /\ UNCHANGED <<file, synced, stale>>

PowerLoss ==
    /\ \E image \in CrashImages :
         /\ durable' = image
         /\ units' = Replay(image).units
         /\ synced' = Len(Replay(image).units)
    /\ pending' = <<>> /\ stale' = {}
    /\ Closed
    /\ Fault

\* (Mutant: a torn tail is left where it is.)
OpenUncut ==
    /\ ~opened
    /\ Replay(Live).ok
    /\ opened' = TRUE
    /\ file_len' = Len(Live) /\ frame_count' = Len(Live)
    /\ NoFault
    /\ UNCHANGED <<file, buf, units, synced, stale>>

\* open_recovered: what follows the last complete unit is cut off, durably,
\* before anything is appended.
OpenRecovered ==
    /\ ~opened
    /\ Replay(Live).ok
    /\ LET valid == Replay(Live).valid
       IN  \/ /\ opened' = TRUE
              /\ file_len' = valid /\ frame_count' = valid
              /\ IF valid < Len(Live)
                 THEN /\ durable' = SubSeq(Live, 1, valid) /\ pending' = <<>>
                      /\ synced' = Len(units) /\ stale' = {}
                 ELSE UNCHANGED <<file, synced, stale>>
              /\ NoFault
           \/ /\ valid < Len(Live)
              /\ Issue(SetLen(valid))
              /\ Fault
              /\ UNCHANGED <<opened, file_len, frame_count, synced, stale>>
    /\ UNCHANGED <<buf, units>>

Next ==
    \/ \E seq \in Seqs, m \in Mutations : Append1(seq, m)
    \/ \E seq \in Seqs, n \in 1 .. MaxBatch : \E ms \in [1 .. n -> Mutations] : AppendBatch(seq, ms)
    \/ Sync \/ Truncate \/ ProcessDeath \/ PowerLoss \/ OpenRecovered

Spec == Init /\ [][Next]_vars

-----------------------------------------------------------------------------
(* Properties. *)

\* Between what was acknowledged and what was accepted of log g.
Recovers(frames, g) ==
    IsPrefix(SubSeq(g.units, 1, g.synced), frames) /\ IsPrefix(frames, g.units)

\* Every power loss leaves a log that opens, and what it replays is a prefix
\* of what was accepted, whole batches only, that holds everything synced; or
\* a log truncated before, when that truncation is not durable yet.  A loss that
\* keeps a later write without an earlier one may leave a log that does not open,
\* never one that opens and replays something else.
CrashReplays ==
    \A image \in CrashImages \cup ReorderedImages :
      LET r == Replay(image)
      IN  IF r.ok
          THEN \E g \in {[units |-> units, synced |-> synced]} \cup stale : Recovers(r.units, g)
          ELSE image \notin CrashImages

\* What append accepted is what a replay of the file and the buffer gives:
\* nothing accepted is dropped, nothing refused can come back.
AcceptedIsReplayed ==
    opened => LET r == Replay(SubSeq(Live, 1, file_len) \o buf)
              IN  r.ok /\ r.units = units

\* The log its users see: it grows by whole units, loses none that a sync
\* covered, whatever fails or crashes.
Log == INSTANCE DurableLog WITH
           Units   <- {UnitOf(seq, ms) : seq \in Seqs, ms \in UNION {[1 .. n -> Mutations] : n \in 1 .. MaxBatch}},
           log     <- units,
           acked   <- synced,
           cleared <- {[log |-> g.units, acked |-> g.synced] : g \in stale}

ImplementsDurableLog == Log!Spec

=============================================================================
