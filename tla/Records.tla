------------------------------ MODULE Records -------------------------------
(***************************************************************************)
(* Rows, the parts and frames that hold them, and what a reader makes of   *)
(* them (src/src/store/mod.rs, read.rs, part/merge.rs).  A part is its     *)
(* newest row per id, a frame the rows it leaves; the row of the newest    *)
(* part that has one decides, and over the parts the log's.                *)
(***************************************************************************)
EXTENDS Naturals, Sequences, FiniteSets, FiniteSetsExt

CONSTANTS Ids,
          Values,   \* what a record may be
          Deleted,  \* the row of a tombstone
          Absent    \* no record

ASSUME RecordsAssumption == Deleted \notin Values /\ Absent \notin Values \cup {Deleted}

NoRows == [id \in {} |-> Absent]

\* The rows of f, and over them those of g.
Over(f, g) == [id \in DOMAIN f \cup DOMAIN g |-> IF id \in DOMAIN g THEN g[id] ELSE f[id]]

Rows == UNION {[ids -> Values \cup {Deleted}] : ids \in SUBSET Ids}

\* The newest row of each id that one of the parts at the places ps has one for.
Newest(parts, ps) ==
    [id \in UNION {DOMAIN parts[i].rows : i \in ps} |->
       parts[Max({i \in ps : id \in DOMAIN parts[i].rows})].rows[id]]

NewestRows(parts) == Newest(parts, DOMAIN parts)

Maps == [Ids -> Values \cup {Absent}]

\* What a reader sees of rows: a tombstone is no record.
Shown(rows) ==
    [id \in Ids |-> IF id \notin DOMAIN rows \/ rows[id] = Deleted THEN Absent ELSE rows[id]]

\* The log's frames are those of the manifest's next sequence, after a prefix
\* of ones it already holds.
Redundant(m, f) == f.seq = m.next_seq
Pending(m, f)   == f.seq = m.next_seq + 1

Replays(m, log) ==
    /\ \A i \in DOMAIN log : Redundant(m, log[i]) \/ Pending(m, log[i])
    /\ \A i, j \in DOMAIN log : i < j /\ Pending(m, log[i]) => Pending(m, log[j])

\* The places of the frames that an open replays, and what they leave in mem.
PendingAt(m, log) == {i \in DOMAIN log : Pending(m, log[i])}
Replayed(m, log)  == Newest(log, PendingAt(m, log))

\* What the manifest m shows with rows staged over it.
Shows(m, rows) == Shown(Over(NewestRows(m.parts), rows))

\* The rows of the parts from lo on, len of them, as one part: tombstones go
\* only when these are all there are.
MergedRows(parts, lo, len) ==
    LET rows  == Newest(parts, lo .. lo + len - 1)
        total == lo = 1 /\ len = Len(parts)
    IN  [id \in {i \in DOMAIN rows : total => rows[i] # Deleted} |-> rows[id]]

\* The parts with those replaced by the part x.
Spliced(parts, x, lo, len) == SubSeq(parts, 1, lo - 1) \o <<x>> \o SubSeq(parts, lo + len, Len(parts))

=============================================================================
