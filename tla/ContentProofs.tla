---------------------------- MODULE ContentProofs ----------------------------
(***************************************************************************)
(* Proofs about Content: no flush, merge, punch or refold takes a byte     *)
(* that the current manifest, its undurable predecessor or the log needs;  *)
(* and with its log, its window and its failures the store still keeps the *)
(* promise of DurableMap.                                                  *)
(***************************************************************************)
EXTENDS ContentInvariant, RecordsProofs, FiniteSetTheorems

-----------------------------------------------------------------------------
(* Manifests, and the rows that decide. *)

LEMMA DictIs ==
    ASSUME NEW f
    PROVE  f \in DictType <=> /\ f = [p \in DOMAIN f |-> f[p]] /\ DOMAIN f \subseteq Pieces
                              /\ \A p \in DOMAIN f : f[p] \in Nat
<1>1. ASSUME f \in DictType
      PROVE  /\ f = [p \in DOMAIN f |-> f[p]] /\ DOMAIN f \subseteq Pieces
             /\ \A p \in DOMAIN f : f[p] \in Nat
  <2>1. PICK ps \in SUBSET Pieces : f \in [ps -> Nat]
    BY <1>1 DEF DictType
  <2> QED
    BY <2>1
<1>2. ASSUME f = [p \in DOMAIN f |-> f[p]], DOMAIN f \subseteq Pieces, \A p \in DOMAIN f : f[p] \in Nat
      PROVE  f \in DictType
  <2>1. f \in [DOMAIN f -> Nat]
    BY <1>2
  <2> QED
    BY <1>2, <2>1 DEF DictType
<1> QED
  BY <1>1, <1>2

LEMMA PartIs ==
    ASSUME NEW P \in Seq(PartType)
    PROVE  /\ NewestRows(P) \in Rows /\ Len(P) \in Nat /\ DOMAIN P = 1 .. Len(P)
           /\ \A i \in 1 .. Len(P) : /\ P[i] \in PartType /\ P[i].rows \in Rows /\ P[i].dict \in DictType
                                     /\ P[i].lo \in Nat /\ P[i].hi \in Nat
<1>1. \A y \in PartType : y.rows \in Rows /\ y.dict \in DictType /\ y.lo \in Nat /\ y.hi \in Nat
  BY DEF PartType
<1> QED
  BY <1>1, PartRows

LEMMA ManifestIs ==
    ASSUME NEW m \in ManifestType
    PROVE  /\ m.next_seq \in Nat /\ m.gen \in Nat /\ m.punched \in SUBSET Nat
           /\ m.blocks \in Seq(SUBSET Pieces) /\ Len(m.blocks) \in Nat /\ DOMAIN m.blocks = 1 .. Len(m.blocks)
           /\ m.parts \in Seq(PartType) /\ Len(m.parts) \in Nat /\ DOMAIN m.parts = 1 .. Len(m.parts)
<1>1. m.blocks \in Seq(SUBSET Pieces) /\ m.parts \in Seq(PartType)
  BY DEF ManifestType, FoldType
<1> QED
  BY <1>1 DEF ManifestType

LEMMA MaxIs ==
    ASSUME NEW n \in Nat, NEW S \in SUBSET (1 .. n), S # {}
    PROVE  Max(S) \in S /\ \A j \in S : j <= Max(S)
<1>1. \E i \in S : \A j \in S : j <= i
  BY LastPlace
<1> QED
  BY <1>1 DEF Max

LEMMA OwnerIs ==
    ASSUME NEW P \in Seq(PartType), NEW id
    PROVE  /\ \A i : LastWith(P, id, i) => Owner(P, id) = i
           /\ \A i \in DOMAIN P : id \in DOMAIN P[i].rows => LastWith(P, id, Owner(P, id))
<1> DEFINE O == Owners(P, id)
<1>1. DOMAIN P = 1 .. Len(P) /\ Len(P) \in Nat
  OBVIOUS
<1>2. O \in SUBSET (1 .. Len(P))
  BY <1>1 DEF Owners
<1>3. ASSUME NEW i \in DOMAIN P, id \in DOMAIN P[i].rows PROVE LastWith(P, id, Owner(P, id))
  <2>1. i \in O
    BY <1>3 DEF Owners
  <2>2. Max(O) \in O /\ \A j \in O : j <= Max(O)
    BY <1>1, <1>2, <2>1, MaxIs
  <2> QED
    BY <1>1, <2>2 DEF LastWith, Owner, Owners
<1>4. ASSUME NEW i, LastWith(P, id, i) PROVE Owner(P, id) = i
  <2>1. LastWith(P, id, Owner(P, id))
    BY <1>3, <1>4 DEF LastWith
  <2>2. Owner(P, id) <= i /\ i <= Owner(P, id) /\ i \in Nat /\ Owner(P, id) \in Nat
    BY <1>1, <1>4, <2>1 DEF LastWith
  <2> QED
    BY <2>2
<1> QED
  BY <1>3, <1>4

LEMMA VisibleIs ==
    ASSUME NEW P \in Seq(PartType), NEW i \in DOMAIN P, NEW id
    PROVE  id \in Visible(P, i) <=> LastWith(P, id, i) /\ P[i].rows[id] # Deleted
BY OwnerIs DEF Visible, LastWith

LEMMA Decides ==
    ASSUME NEW P \in Seq(PartType), NEW id
    PROVE  /\ \A i \in DOMAIN P : id \in Visible(P, i) =>
                /\ id \in LiveIds(P) /\ id \in Ids
                /\ Owner(P, id) = i /\ NewestRow(P, id) = P[i].rows[id]
                /\ id \in DOMAIN NewestRows(P) /\ NewestRows(P)[id] = P[i].rows[id]
                /\ P[i].rows[id] \in Values /\ P[i].rows[id] # Deleted
           /\ id \in LiveIds(P) => \E i \in DOMAIN P : id \in Visible(P, i)
           /\ id \notin LiveIds(P) => id \notin DOMAIN NewestRows(P) \/ NewestRows(P)[id] = Deleted
<1>1. \A y \in PartType : y.rows \in Rows
  BY DEF PartType
<1>2. /\ id \in DOMAIN NewestRows(P) <=> \E i \in DOMAIN P : LastWith(P, id, i)
      /\ \A i : LastWith(P, id, i) => id \in DOMAIN NewestRows(P) /\ NewestRows(P)[id] = P[i].rows[id]
  BY <1>1, LastIs
<1>3. ASSUME NEW i \in DOMAIN P, id \in Visible(P, i)
      PROVE  /\ id \in LiveIds(P) /\ id \in Ids
             /\ Owner(P, id) = i /\ NewestRow(P, id) = P[i].rows[id]
             /\ id \in DOMAIN NewestRows(P) /\ NewestRows(P)[id] = P[i].rows[id]
             /\ P[i].rows[id] \in Values /\ P[i].rows[id] # Deleted
  <2>1. LastWith(P, id, i) /\ P[i].rows[id] # Deleted
    BY <1>3, VisibleIs
  <2>2. P[i].rows \in Rows
    BY PartIs
  <2>3. id \in DOMAIN P[i].rows
    BY <2>1 DEF LastWith
  <2>4. id \in Ids /\ P[i].rows[id] \in Values
    BY <2>1, <2>2, <2>3, RowsAre
  <2>5. Owner(P, id) = i
    BY <2>1, OwnerIs
  <2> QED
    BY <1>2, <1>3, <2>1, <2>4, <2>5 DEF LiveIds, NewestRow
<1>4. id \in LiveIds(P) => \E i \in DOMAIN P : id \in Visible(P, i)
  BY DEF LiveIds
<1>5. ASSUME id \notin LiveIds(P), id \in DOMAIN NewestRows(P) PROVE NewestRows(P)[id] = Deleted
  <2>1. PICK i \in DOMAIN P : LastWith(P, id, i)
    BY <1>2, <1>5
  <2>2. id \notin Visible(P, i)
    BY <1>5 DEF LiveIds
  <2> QED
    BY <1>2, <2>1, <2>2, VisibleIs
<1> QED
  BY <1>3, <1>4, <1>5

LEMMA NamedIs ==
    ASSUME NEW rows, NEW p
    PROVE  p \in Named(rows) <=> \E id \in DOMAIN rows : rows[id] # Deleted /\ p \in rows[id]
BY DEF Named

LEMMA NamedPieces ==
    ASSUME NEW rows \in Rows
    PROVE  Named(rows) \subseteq Pieces
<1>1. ASSUME NEW p \in Named(rows) PROVE p \in Pieces
  <2>1. PICK id \in DOMAIN rows : rows[id] # Deleted /\ p \in rows[id]
    BY <1>1, NamedIs
  <2>2. rows[id] \in Values
    BY <2>1, RowsAre
  <2> QED
    BY <2>1, <2>2, ContentAssumption DEF ContentAssumption
<1> QED
  BY <1>1

LEMMA LiveIs ==
    ASSUME NEW P, NEW l
    PROVE  l \in LivePieces(P) <=>
             \E i \in DOMAIN P : \E id \in Visible(P, i) : \E p \in P[i].rows[id] : l = <<P[i].dict[p], p>>
<1>1. ASSUME NEW i \in DOMAIN P, NEW p
      PROVE  p \in Named(VisibleRows(P, i)) <=> \E id \in Visible(P, i) : p \in P[i].rows[id]
  <2>1. \A id \in Visible(P, i) : P[i].rows[id] # Deleted
    BY DEF Visible
  <2>2. /\ DOMAIN VisibleRows(P, i) = Visible(P, i)
        /\ \A id \in Visible(P, i) : VisibleRows(P, i)[id] = P[i].rows[id]
    BY DEF VisibleRows
  <2> QED
    BY <2>1, <2>2, NamedIs
<1>2. l \in LivePieces(P) <=> \E i \in DOMAIN P : \E p \in Named(VisibleRows(P, i)) : l = <<P[i].dict[p], p>>
  BY DEF LivePieces
<1> QED
  BY <1>1, <1>2

\* Where every piece that shows reads, what is shown is what the rows say.
LEMMA BytesAre ==
    ASSUME NEW m \in ManifestType, NEW staged \in Rows, NEW have, NEW bs, NEW gone,
           Named(staged) \subseteq have,
           \A i \in DOMAIN m.parts : \A id \in Visible(m.parts, i) : \A p \in m.parts[i].rows[id] :
               Reads(m, bs, gone, m.parts[i].dict[p], p)
    PROVE  BytesOf(m, staged, have, bs, gone) = Shows(m, staged)
<1> DEFINE P == m.parts
           n == NewestRows(P)
           o == Over(n, staged)
<1>1. P \in Seq(PartType) /\ n \in Rows
  BY ManifestIs, PartIs
<1>2. /\ DOMAIN o = DOMAIN n \cup DOMAIN staged
      /\ \A id \in DOMAIN staged : o[id] = staged[id]
      /\ \A id \in DOMAIN n : id \notin DOMAIN staged => o[id] = n[id]
  BY <1>1, OverIs
<1> HIDE DEF n, o
<1>3. ASSUME NEW id \in Ids
      PROVE  (IF id \in DOMAIN staged
              THEN IF staged[id] = Deleted THEN Absent
                   ELSE IF staged[id] \subseteq have THEN staged[id] ELSE Unreadable
              ELSE IF id \notin LiveIds(P) THEN Absent
              ELSE LET row  == NewestRow(P, id)
                       dict == P[Owner(P, id)].dict
                   IN  IF \A p \in row : Reads(m, bs, gone, dict[p], p) THEN row ELSE Unreadable)
             = (IF id \notin DOMAIN o \/ o[id] = Deleted THEN Absent ELSE o[id])
  <2>1. CASE id \in DOMAIN staged
    <3>1. staged[id] # Deleted => staged[id] \subseteq have
      BY <2>1, NamedIs
    <3> QED
      BY <1>2, <2>1, <3>1
  <2>2. CASE id \notin DOMAIN staged /\ id \notin LiveIds(P)
    <3>1. id \notin DOMAIN n \/ n[id] = Deleted
      BY <1>1, <2>2, Decides DEF n
    <3> QED
      BY <1>2, <2>2, <3>1
  <2>3. CASE id \notin DOMAIN staged /\ id \in LiveIds(P)
    <3>1. PICK i \in DOMAIN P : id \in Visible(P, i)
      BY <1>1, <2>3, Decides
    <3>2. /\ Owner(P, id) = i /\ NewestRow(P, id) = P[i].rows[id]
          /\ id \in DOMAIN n /\ n[id] = P[i].rows[id] /\ P[i].rows[id] # Deleted
      BY <1>1, <3>1, Decides DEF n
    <3>3. \A p \in NewestRow(P, id) : Reads(m, bs, gone, P[Owner(P, id)].dict[p], p)
      BY <3>1, <3>2
    <3> QED
      BY <1>2, <2>3, <3>2, <3>3
  <2> QED
    BY <2>1, <2>2, <2>3
<1>4. Shows(m, staged) = [id \in Ids |-> IF id \notin DOMAIN o \/ o[id] = Deleted THEN Absent ELSE o[id]]
  BY DEF Shows, Shown, o, n
<1> QED
  BY <1>3, <1>4 DEF BytesOf

-----------------------------------------------------------------------------
(* What reads back, and what a log needs to be replayed. *)

LEMMA LocatingIs ==
    ASSUME NEW m \in ManifestType, NEW p, Locating(m, p) # {}
    PROVE  LET i == Max(Locating(m, p))
           IN  /\ i \in DOMAIN m.parts /\ p \in DOMAIN m.parts[i].dict /\ m.parts[i].dict[p] \notin m.punched
               /\ \A j \in Locating(m, p) : j <= i
<1>1. DOMAIN m.parts = 1 .. Len(m.parts) /\ Len(m.parts) \in Nat
  BY ManifestIs
<1>2. Locating(m, p) \in SUBSET (1 .. Len(m.parts))
  BY <1>1 DEF Locating
<1>3. Max(Locating(m, p)) \in Locating(m, p) /\ \A j \in Locating(m, p) : j <= Max(Locating(m, p))
  BY <1>1, <1>2, MaxIs
<1> QED
  BY <1>3 DEF Locating

LEMMA MappingReads ==
    ASSUME NEW m \in ManifestType, Sound(m, holes), NEW bs, NEW closed, NEW gone, NEW w, FoldsOn(m, bs, closed, gone, w),
           bs \in Seq(SUBSET Pieces),
           NEW i \in DOMAIN m.parts, NEW p \in DOMAIN m.parts[i].dict, m.parts[i].dict[p] \notin m.punched
    PROVE  Reads(m, bs, gone, m.parts[i].dict[p], p)
<1> DEFINE b == m.parts[i].dict[p]
<1>1. b \in DOMAIN m.blocks /\ p \in m.blocks[b]
  BY DEF Sound, Mapped
<1>2. b \in DOMAIN bs /\ p \in bs[b] /\ b \notin m.punched \cup gone
  <2>1. DOMAIN bs = 1 .. Len(bs) /\ Len(bs) \in Nat /\ Len(m.blocks) \in Nat /\ DOMAIN m.blocks = 1 .. Len(m.blocks)
    BY ManifestIs
  <2>2. Len(m.blocks) <= Len(bs) /\ bs[b] = m.blocks[b] /\ gone \subseteq m.punched
    BY <1>1 DEF FoldsOn
  <2> QED
    BY <1>1, <2>1, <2>2
<1>3. <<m.gen, b>> \notin holes
  BY DEF Sound, Whole
<1> QED
  BY <1>2, <1>3 DEF Reads

\* A fold that holds just the blocks of m goes on from it.
LEMMA OwnFold ==
    ASSUME NEW m \in ManifestType
    PROVE  FoldsOn(m, m.blocks, TRUE, {}, None)
BY ManifestIs DEF FoldsOn, None

LEMMA HeldIs ==
    ASSUME NEW m \in ManifestType, Sound(m, holes), NEW p
    PROVE  Held(m, p) <=> Locating(m, p) # {}
<1>1. ASSUME Locating(m, p) # {} PROVE Held(m, p)
  <2> DEFINE i == Max(Locating(m, p))
  <2>1. i \in DOMAIN m.parts /\ p \in DOMAIN m.parts[i].dict /\ m.parts[i].dict[p] \notin m.punched
    BY <1>1, LocatingIs
  <2>2. m.blocks \in Seq(SUBSET Pieces)
    BY ManifestIs
  <2> HIDE DEF i
  <2>3. Reads(m, m.blocks, {}, m.parts[i].dict[p], p)
    BY <2>1, <2>2, OwnFold, MappingReads
  <2> QED
    BY <1>1, <2>3 DEF Held, i
<1> QED
  BY <1>1 DEF Held

LEMMA OpensIs ==
    ASSUME NEW m \in ManifestType, Sound(m, holes), NEW l
    PROVE  Opens(m, l) <=> Admits(m, l)
<1>1. ScansClean(m)
  BY DEF ScansClean, Sound, Whole
<1>2. \A p : Held(m, p) <=> Locating(m, p) # {}
  BY HeldIs
<1>3. References(m, l) <=>
        \A i \in DOMAIN l : \A p \in Named(l[i].rows) : p \in Novel(l, 1 .. i) \/ Locating(m, p) # {}
  BY <1>2 DEF References
<1> QED
  BY <1>1, <1>3 DEF Opens, Admits

\* The records that are shown read, whatever the fold holds beyond the manifest.
LEMMA VisibleReads ==
    ASSUME NEW m \in ManifestType, Sound(m, holes), NEW bs, NEW closed, NEW gone, NEW w, FoldsOn(m, bs, closed, gone, w),
           bs \in Seq(SUBSET Pieces)
    PROVE  \A i \in DOMAIN m.parts : \A id \in Visible(m.parts, i) : \A p \in m.parts[i].rows[id] :
               Reads(m, bs, gone, m.parts[i].dict[p], p)
<1>1. ASSUME NEW i \in DOMAIN m.parts, NEW id \in Visible(m.parts, i), NEW p \in m.parts[i].rows[id]
      PROVE  Reads(m, bs, gone, m.parts[i].dict[p], p)
  <2>1. p \in DOMAIN m.parts[i].dict /\ m.parts[i].dict[p] \notin m.punched
    BY DEF Sound, Backed
  <2> QED
    BY <2>1, MappingReads
<1> QED
  BY <1>1

LEMMA LogIs ==
    ASSUME NEW l \in LogType, NEW m
    PROVE  /\ Replayed(m, l) \in Rows /\ Len(l) \in Nat /\ DOMAIN l = 1 .. Len(l)
           /\ PendingAt(m, l) \in SUBSET (1 .. Len(l))
           /\ \A i \in DOMAIN l : /\ l[i] \in FrameType /\ l[i].rows \in Rows \ {NoRows} /\ l[i].seq \in Nat
                                  /\ l[i].novel \in SUBSET Pieces
<1>1. Len(l) \in Nat /\ DOMAIN l = 1 .. Len(l) /\ \A i \in DOMAIN l : l[i] \in FrameType
  BY DEF LogType
<1>2. \A u \in FrameType : u.rows \in Rows \ {NoRows} /\ u.seq \in Nat /\ u.novel \in SUBSET Pieces
  BY DEF FrameType
<1>3. PendingAt(m, l) \in SUBSET (1 .. Len(l))
  BY <1>1 DEF PendingAt
<1> QED
  BY <1>1, <1>2, <1>3, ReplayedRows DEF LogType

LEMMA ReplayedNone ==
    ASSUME NEW l \in LogType, NEW m
    PROVE  /\ Replayed(m, l) = NoRows <=> PendingAt(m, l) = {}
           /\ Replayed(m, l) = NoRows <=> \A i \in DOMAIN l : ~Pending(m, l[i])
<1>1. \A u \in FrameType : u.rows \in Rows \ {NoRows}
  BY DEF FrameType
<1>2. Replayed(m, l) = NoRows <=> \A i \in DOMAIN l : ~Pending(m, l[i])
  BY <1>1, ReplayedRows DEF LogType
<1> QED
  BY <1>2 DEF PendingAt

\* A staged row is that of a frame, and so are the pieces it names.
LEMMA NamedByFrames ==
    ASSUME NEW l \in LogType, NEW m, NEW p \in Named(Replayed(m, l))
    PROVE  \E i \in PendingAt(m, l) : p \in Named(l[i].rows)
<1> DEFINE ps == PendingAt(m, l)
<1>1. ps \in SUBSET (1 .. Len(l)) /\ Len(l) \in Nat
  BY LogIs
<1>2. PICK id \in DOMAIN Newest(l, ps) : Newest(l, ps)[id] # Deleted /\ p \in Newest(l, ps)[id]
  BY NamedIs DEF Replayed
<1> HIDE DEF ps
<1>3. PICK i \in ps : id \in DOMAIN l[i].rows /\ Newest(l, ps)[id] = l[i].rows[id]
  <2>1. \E i \in ps : /\ id \in DOMAIN l[i].rows /\ Newest(l, ps)[id] = l[i].rows[id]
                     /\ \A j \in ps : id \in DOMAIN l[j].rows => j <= i
    BY <1>1, <1>2, NewestHas
  <2> QED
    BY <2>1
<1>4. p \in Named(l[i].rows)
  BY <1>2, <1>3, NamedIs
<1> QED
  BY <1>4 DEF ps

LEMMA RecoveredIs ==
    ASSUME NEW m \in ManifestType, Sound(m, holes), NEW l \in LogType, Carried(m, m.next_seq + 1, l)
    PROVE  Recovered(m, l) = IF Admits(m, l) THEN Shows(m, Replayed(m, l)) ELSE Refused
<1> DEFINE rows == Replayed(m, l)
           have == Novel(l, PendingAt(m, l)) \cup {p \in Pieces : Held(m, p)}
<1>1. rows \in Rows /\ DOMAIN l = 1 .. Len(l) /\ Len(l) \in Nat /\ PendingAt(m, l) \in SUBSET (1 .. Len(l))
  BY LogIs
<1>2. ASSUME NEW p \in Named(rows) PROVE p \in have
  <2>1. p \in Pieces
    BY <1>1, NamedPieces
  <2>2. PICK i \in PendingAt(m, l) : p \in Named(l[i].rows)
    BY NamedByFrames
  <2>3. i \in DOMAIN l /\ l[i].seq = m.next_seq + 1
    BY DEF PendingAt, Pending
  <2>4. (\E j \in 1 .. i : l[j].seq = m.next_seq + 1 /\ p \in l[j].novel) \/ Locating(m, p) # {}
    BY <2>2, <2>3 DEF Carried
  <2>5. CASE Locating(m, p) # {}
    BY <2>1, <2>5, HeldIs
  <2>6. ASSUME NEW j \in 1 .. i, l[j].seq = m.next_seq + 1, p \in l[j].novel PROVE p \in have
    <3>1. j \in PendingAt(m, l)
      BY <1>1, <2>3, <2>6 DEF PendingAt, Pending
    <3> QED
      BY <2>6, <3>1 DEF Novel
  <2> QED
    BY <2>4, <2>5, <2>6
<1>3. \A i \in DOMAIN m.parts : \A id \in Visible(m.parts, i) : \A p \in m.parts[i].rows[id] :
          Reads(m, m.blocks, {}, m.parts[i].dict[p], p)
  BY OwnFold, VisibleReads, ManifestIs
<1> HIDE DEF rows, have
<1>4. BytesOf(m, rows, have, m.blocks, {}) = Shows(m, rows)
  <2>1. Named(rows) \subseteq have
    BY <1>2
  <2> QED
    BY <1>1, <1>3, <2>1, BytesAre
<1>5. Opens(m, l) <=> Admits(m, l)
  BY OpensIs
<1> QED
  BY <1>4, <1>5 DEF Recovered, rows, have

LEMMA ShowsIs ==
    ASSUME NEW m \in ManifestType, NEW rows \in Rows
    PROVE  Shows(m, rows) \in Maps
BY ManifestIs, PartIs, OverIs, ShownIs DEF Shows

-----------------------------------------------------------------------------
(* Logs, cut and continued. *)

LEMMA CutIs ==
    ASSUME NEW l \in LogType, NEW k \in 0 .. Len(l)
    PROVE  /\ SubSeq(l, 1, k) \in LogType /\ Len(SubSeq(l, 1, k)) = k /\ DOMAIN SubSeq(l, 1, k) = 1 .. k
           /\ DOMAIN l = 1 .. Len(l) /\ Len(l) \in Nat
           /\ \A i \in 1 .. k : i \in DOMAIN l /\ SubSeq(l, 1, k)[i] = l[i]
<1> DEFINE c == SubSeq(l, 1, k)
<1>1. l \in Seq(FrameType) /\ Len(l) \in Nat /\ DOMAIN l = 1 .. Len(l)
  BY DEF LogType
<1>2. \A i \in 1 .. k : l[i] \in FrameType
  BY <1>1
<1>3. c \in Seq(FrameType) /\ Len(c) = k - 1 + 1 /\ \A i \in 1 .. k - 1 + 1 : c[i] = l[1 + i - 1]
  BY <1>1, <1>2, SubSeqProperties
<1>4. Len(c) = k /\ DOMAIN c = 1 .. k
  BY <1>1, <1>3, LenProperties
<1>5. \A i \in 1 .. k : i \in 1 .. Len(l) /\ c[i] = l[i]
  BY <1>1, <1>3
<1> QED
  BY <1>1, <1>3, <1>4, <1>5 DEF LogType

LEMMA SequencesEqual ==
    ASSUME NEW l \in LogType, NEW m \in LogType, Len(l) = Len(m), \A i \in 1 .. Len(l) : l[i] = m[i]
    PROVE  l = m
BY SeqEqual DEF LogType

LEMMA WholeCut ==
    ASSUME NEW l \in LogType
    PROVE  SubSeq(l, 1, Len(l)) = l
<1>1. Len(l) \in 0 .. Len(l) /\ Len(l) \in Nat
  BY LogIs
<1> QED
  BY <1>1, CutIs, SequencesEqual

LEMMA CutOfCut ==
    ASSUME NEW l \in LogType, NEW k \in 0 .. Len(l), NEW j \in 0 .. k
    PROVE  SubSeq(SubSeq(l, 1, k), 1, j) = SubSeq(l, 1, j)
<1> DEFINE c == SubSeq(l, 1, k)
<1>1. c \in LogType /\ Len(c) = k /\ \A i \in 1 .. k : c[i] = l[i]
  BY CutIs
<1>2. j \in 0 .. Len(l) /\ Len(l) \in Nat
  BY LogIs
<1>3. /\ SubSeq(l, 1, j) \in LogType /\ Len(SubSeq(l, 1, j)) = j
      /\ \A i \in 1 .. j : SubSeq(l, 1, j)[i] = l[i]
  BY <1>2, CutIs
<1> HIDE DEF c
<1>4. /\ SubSeq(c, 1, j) \in LogType /\ Len(SubSeq(c, 1, j)) = j
      /\ \A i \in 1 .. j : SubSeq(c, 1, j)[i] = c[i]
  BY <1>1, CutIs
<1>5. \A i \in 1 .. j : SubSeq(c, 1, j)[i] = SubSeq(l, 1, j)[i]
  <2>1. \A i \in 1 .. j : i \in 1 .. k
    BY <1>2
  <2> QED
    BY <1>1, <1>3, <1>4, <2>1
<1>6. SubSeq(c, 1, j) = SubSeq(l, 1, j)
  BY <1>3, <1>4, <1>5, SequencesEqual
<1> QED
  BY <1>6 DEF c

LEMMA AppendIs ==
    ASSUME NEW l \in LogType, NEW f \in FrameType
    PROVE  /\ Append(l, f) \in LogType /\ Len(Append(l, f)) = Len(l) + 1
           /\ DOMAIN Append(l, f) = 1 .. Len(l) + 1 /\ Append(l, f)[Len(l) + 1] = f
           /\ \A i \in 1 .. Len(l) : Append(l, f)[i] = l[i]
BY DEF LogType

LEMMA CutOfAppend ==
    ASSUME NEW l \in LogType, NEW f \in FrameType, NEW k \in 0 .. Len(l)
    PROVE  SubSeq(Append(l, f), 1, k) = SubSeq(l, 1, k)
<1> DEFINE a == Append(l, f)
<1>1. a \in LogType /\ Len(a) = Len(l) + 1 /\ Len(l) \in Nat /\ \A i \in 1 .. Len(l) : a[i] = l[i]
  BY AppendIs, LogIs
<1> HIDE DEF a
<1>2. k \in 0 .. Len(a)
  BY <1>1
<1>3. /\ SubSeq(a, 1, k) \in LogType /\ Len(SubSeq(a, 1, k)) = k
      /\ \A i \in 1 .. k : SubSeq(a, 1, k)[i] = a[i]
  BY <1>1, <1>2, CutIs
<1>4. /\ SubSeq(l, 1, k) \in LogType /\ Len(SubSeq(l, 1, k)) = k
      /\ \A i \in 1 .. k : SubSeq(l, 1, k)[i] = l[i]
  BY CutIs
<1>5. \A i \in 1 .. k : SubSeq(a, 1, k)[i] = SubSeq(l, 1, k)[i]
  BY <1>1, <1>3, <1>4
<1>6. SubSeq(a, 1, k) = SubSeq(l, 1, k)
  BY <1>3, <1>4, <1>5, SequencesEqual
<1> QED
  BY <1>6 DEF a

LEMMA CarriedCut ==
    ASSUME NEW l \in LogType, NEW k \in 0 .. Len(l), NEW m, NEW n, Carried(m, n, l)
    PROVE  Carried(m, n, SubSeq(l, 1, k))
<1> DEFINE c == SubSeq(l, 1, k)
<1>1. DOMAIN c = 1 .. k /\ DOMAIN l = 1 .. Len(l) /\ Len(l) \in Nat /\ \A i \in 1 .. k : i \in DOMAIN l /\ c[i] = l[i]
  BY CutIs
<1>2. ASSUME NEW i \in DOMAIN c, c[i].seq = n, NEW p \in Named(c[i].rows)
      PROVE  (\E j \in 1 .. i : c[j].seq = n /\ p \in c[j].novel) \/ Locating(m, p) # {}
  <2>1. i \in DOMAIN l /\ l[i].seq = n /\ p \in Named(l[i].rows)
    BY <1>1, <1>2
  <2>2. (\E j \in 1 .. i : l[j].seq = n /\ p \in l[j].novel) \/ Locating(m, p) # {}
    BY <2>1 DEF Carried
  <2>3. \A j \in 1 .. i : c[j] = l[j]
    BY <1>1, <1>2
  <2> QED
    BY <2>2, <2>3
<1>3. \A i, j \in DOMAIN c :
        i # j /\ c[i].seq = n /\ c[j].seq = n => c[i].novel \cap c[j].novel = {}
  BY <1>1 DEF Carried
<1> HIDE DEF c
<1>4. Carried(m, n, c)
  BY <1>2, <1>3 DEF Carried
<1> QED
  BY <1>4 DEF c

\* A log of one sequence that carries what it needs is admitted.
LEMMA AdmitsFresh ==
    ASSUME NEW l \in LogType, NEW m \in ManifestType, NEW n \in {m.next_seq, m.next_seq + 1}, Carried(m, n, l),
           \A i \in DOMAIN l : l[i].seq = n
    PROVE  Admits(m, l)
<1>1. DOMAIN l = 1 .. Len(l) /\ Len(l) \in Nat /\ m.next_seq \in Nat
  BY LogIs, ManifestIs
<1>2. Replays(m, l)
  BY <1>1 DEF Replays, Redundant, Pending
<1>3. NovelOnce(l)
  BY DEF NovelOnce, Carried
<1>4. ASSUME NEW i \in DOMAIN l, NEW p \in Named(l[i].rows)
      PROVE  p \in Novel(l, 1 .. i) \/ Locating(m, p) # {}
  BY <1>4 DEF Carried, Novel
<1> QED
  BY <1>2, <1>3, <1>4 DEF Admits

\* Maintenance takes no log away from the manifest before it.
LEMMA AdmitsBack ==
    ASSUME NEW l \in LogType, NEW m, NEW n, Maintained(m, n), Admits(n, l)
    PROVE  Admits(m, l) /\ Replayed(m, l) = Replayed(n, l) /\ Shows(m, Replayed(m, l)) = Shows(n, Replayed(n, l))
<1>1. m.next_seq = n.next_seq
  BY DEF Maintained
<1>2. Replayed(m, l) = Replayed(n, l) /\ (Replays(m, l) <=> Replays(n, l))
  BY <1>1, SameSequence
<1>3. Replayed(n, l) \in Rows
  BY LogIs
<1>4. ASSUME NEW i \in DOMAIN l, NEW p \in Named(l[i].rows)
      PROVE  p \in Novel(l, 1 .. i) \/ Locating(m, p) # {}
  <2>1. l[i].rows \in Rows
    BY LogIs
  <2>2. p \in Pieces
    BY <2>1, NamedPieces
  <2> QED
    BY <2>2 DEF Admits, Maintained
<1> QED
  BY <1>2, <1>3, <1>4 DEF Admits, Maintained, SameView

-----------------------------------------------------------------------------
(* Pieces that join a fold. *)

Appended(bs, closed, pieces, a) ==
    /\ a.blocks \in Seq(SUBSET Pieces) /\ Len(bs) <= Len(a.blocks)
    /\ \A b \in DOMAIN bs : closed \/ b < Len(bs) => a.blocks[b] = bs[b]
    /\ \A b \in DOMAIN bs : bs[b] \subseteq a.blocks[b]
    /\ a.at \in DictType /\ DOMAIN a.at = pieces
    /\ \A p \in pieces : /\ a.at[p] \in DOMAIN a.blocks /\ p \in a.blocks[a.at[p]]
                         /\ Len(bs) <= a.at[p] /\ (closed => Len(bs) < a.at[p])
    /\ pieces = {} => a.blocks = bs
    /\ closed /\ pieces # {} => Len(bs) < Len(a.blocks)

\* In a fold of its own every block holds some of the pieces, and each piece once.
Packed(pieces, a) ==
    \A b \in DOMAIN a.blocks : /\ a.blocks[b] # {}
                               /\ \A p : p \in a.blocks[b] <=> p \in pieces /\ a.at[p] = b

LEMMA NoneIs == None \in DictType /\ DOMAIN None = {}
<1>1. None = [p \in DOMAIN None |-> None[p]] /\ DOMAIN None = {}
  BY DEF None
<1> QED
  BY <1>1, DictIs

LEMMA AppendsIs ==
    ASSUME NEW bs \in Seq(SUBSET Pieces), NEW closed \in BOOLEAN, closed \/ 0 < Len(bs),
           NEW pieces \in SUBSET Pieces, NEW a \in Appends(bs, closed, pieces)
    PROVE  Appended(bs, closed, pieces, a) /\ (bs = <<>> => Packed(pieces, a))
<1> PICK n : n = Len(bs)
  OBVIOUS
<1>1. n \in Nat /\ n = Len(bs) /\ DOMAIN bs = 1 .. n /\ \A b \in 1 .. n : bs[b] \in SUBSET Pieces
  OBVIOUS
<1>2. CASE pieces = {}
  <2>1. a = [blocks |-> bs, at |-> None]
    BY <1>2 DEF Appends
  <2>2. a.blocks = bs /\ a.at = None
    BY <2>1
  <2>3. Appended(bs, closed, pieces, a)
    BY <1>1, <1>2, <2>2, NoneIs DEF Appended
  <2>4. bs = <<>> => Packed(pieces, a)
    BY <1>2, <2>2 DEF Packed
  <2> QED
    BY <2>3, <2>4
<1>3. ASSUME pieces # {}, NEW s \in SUBSET pieces, s # {}, ~closed,
             a = [blocks |-> LET grown == [bs EXCEPT ![n] = @ \cup s]
                             IN  IF s = pieces THEN grown ELSE Append(grown, pieces \ s),
                  at     |-> [p \in pieces |-> IF p \in s THEN n ELSE n + 1]]
      PROVE  Appended(bs, closed, pieces, a) /\ (bs = <<>> => Packed(pieces, a))
  <2> DEFINE grown == [bs EXCEPT ![n] = @ \cup s]
  <2>1. n \in 1 .. n /\ 0 < n
    BY <1>1, <1>3
  <2>2. /\ grown \in Seq(SUBSET Pieces) /\ Len(grown) = n /\ DOMAIN grown = 1 .. n
        /\ grown[n] = bs[n] \cup s /\ \A b \in 1 .. n : b < n => grown[b] = bs[b]
    <3>1. DOMAIN grown = 1 .. n /\ \A b \in 1 .. n : grown[b] = IF b = n THEN bs[n] \cup s ELSE bs[b]
      BY <1>1, <2>1
    <3>2. grown = [b \in 1 .. n |-> grown[b]]
      BY <1>1
    <3>3. \A b \in 1 .. n : grown[b] \in SUBSET Pieces
      BY <1>1, <2>1, <3>1
    <3> HIDE DEF grown
    <3>4. grown \in [1 .. n -> SUBSET Pieces]
      BY <3>2, <3>3
    <3>5. grown \in Seq(SUBSET Pieces)
      BY <1>1, <3>4
    <3>6. Len(grown) = n
      BY <1>1, <3>1, <3>5, LenProperties
    <3> QED
      BY <1>1, <2>1, <3>1, <3>5, <3>6
  <2>3. a.at = [p \in pieces |-> IF p \in s THEN n ELSE n + 1]
        /\ a.blocks = IF s = pieces THEN grown ELSE Append(grown, pieces \ s)
    BY <1>3
  <2>4. a.at = [p \in DOMAIN a.at |-> a.at[p]] /\ DOMAIN a.at = pieces /\ \A p \in pieces : a.at[p] \in Nat
    BY <1>1, <2>3
  <2>5. a.at \in DictType
    BY <2>4, DictIs
  <2> HIDE DEF grown
  <2>6. CASE s = pieces
    <3>1. a.blocks = grown /\ \A p \in pieces : a.at[p] = n
      BY <2>3, <2>6
    <3>2. \A b \in 1 .. n : bs[b] \subseteq grown[b]
      BY <1>1, <2>2
    <3>3. Appended(bs, closed, pieces, a)
      BY <1>1, <1>3, <2>1, <2>2, <2>4, <2>5, <2>6, <3>1, <3>2 DEF Appended
    <3> QED
      BY <1>1, <2>1, <3>3
  <2>7. CASE s # pieces
    <3> DEFINE x == pieces \ s
    <3>1. a.blocks = Append(grown, x) /\ x \in SUBSET Pieces
      BY <2>3, <2>7
    <3>2. /\ a.blocks \in Seq(SUBSET Pieces) /\ Len(a.blocks) = n + 1 /\ DOMAIN a.blocks = 1 .. n + 1
          /\ a.blocks[n + 1] = x /\ \A b \in 1 .. n : a.blocks[b] = grown[b]
      BY <2>2, <3>1
    <3>3. \A b \in 1 .. n : bs[b] \subseteq grown[b]
      BY <1>1, <2>2
    <3>4. \A p \in pieces : a.at[p] = IF p \in s THEN n ELSE n + 1
      BY <2>3
    <3>5. \A p \in pieces : a.at[p] \in 1 .. n + 1 /\ p \in a.blocks[a.at[p]] /\ n <= a.at[p]
      BY <1>1, <2>1, <2>2, <3>2, <3>4
    <3>6. Appended(bs, closed, pieces, a)
      BY <1>1, <1>3, <2>1, <2>2, <2>4, <2>5, <3>2, <3>3, <3>5 DEF Appended
    <3> QED
      BY <1>1, <2>1, <3>6
  <2> QED
    BY <2>6, <2>7
<1>4. ASSUME pieces # {}, NEW s \in SUBSET pieces, s # {},
             a = [blocks |-> IF s = pieces THEN Append(bs, s) ELSE bs \o <<s, pieces \ s>>,
                  at     |-> [p \in pieces |-> IF p \in s THEN n + 1 ELSE n + 2]]
      PROVE  Appended(bs, closed, pieces, a) /\ (bs = <<>> => Packed(pieces, a))
  <2>1. /\ a.at = [p \in pieces |-> IF p \in s THEN n + 1 ELSE n + 2]
        /\ a.blocks = IF s = pieces THEN Append(bs, s) ELSE bs \o <<s, pieces \ s>>
    BY <1>4
  <2>2. a.at = [p \in DOMAIN a.at |-> a.at[p]] /\ DOMAIN a.at = pieces /\ \A p \in pieces : a.at[p] \in Nat
    BY <1>1, <2>1
  <2>3. a.at \in DictType
    BY <2>2, DictIs
  <2>4. CASE s = pieces
    <3>1. /\ a.blocks \in Seq(SUBSET Pieces) /\ Len(a.blocks) = n + 1 /\ DOMAIN a.blocks = 1 .. n + 1
          /\ a.blocks[n + 1] = s /\ \A b \in 1 .. n : a.blocks[b] = bs[b]
      BY <2>1, <2>4
    <3>2. \A p \in pieces : a.at[p] = n + 1
      BY <2>1, <2>4
    <3>3. Appended(bs, closed, pieces, a)
      BY <1>1, <1>4, <2>2, <2>3, <2>4, <3>1, <3>2 DEF Appended
    <3>4. ASSUME bs = <<>> PROVE Packed(pieces, a)
      <4>1. n = 0
        BY <1>1, <3>4
      <4> QED
        BY <1>4, <2>4, <3>1, <3>2, <4>1 DEF Packed
    <3> QED
      BY <3>3, <3>4
  <2>5. CASE s # pieces
    <3> DEFINE x == pieces \ s
               t == <<s, x>>
    <3>1. a.blocks = bs \o t /\ x \in SUBSET Pieces /\ x # {} /\ \A p \in pieces : p \in s <=> p \notin x
      BY <2>1, <2>5
    <3>2. t \in Seq(SUBSET Pieces) /\ Len(t) = 2 /\ t[1] = s /\ t[2] = x
      BY <3>1
    <3> HIDE DEF t, x
    <3>3. /\ a.blocks \in Seq(SUBSET Pieces) /\ Len(a.blocks) = Len(bs) + Len(t)
          /\ \A i \in 1 .. Len(bs) + Len(t) : a.blocks[i] = IF i <= Len(bs) THEN bs[i] ELSE t[i - Len(bs)]
      <4>1. /\ bs \o t \in Seq(SUBSET Pieces) /\ Len(bs \o t) = Len(bs) + Len(t)
            /\ \A i \in 1 .. Len(bs) + Len(t) : (bs \o t)[i] = IF i <= Len(bs) THEN bs[i] ELSE t[i - Len(bs)]
        BY <3>2, ConcatProperties
      <4> QED
        BY <3>1, <4>1
    <3>4. /\ Len(a.blocks) = n + 2 /\ DOMAIN a.blocks = 1 .. n + 2
          /\ a.blocks[n + 1] = s /\ a.blocks[n + 2] = x /\ \A b \in 1 .. n : a.blocks[b] = bs[b]
      <4>1. Len(a.blocks) = n + 2
        BY <1>1, <3>2, <3>3
      <4>2. DOMAIN a.blocks = 1 .. n + 2
        BY <1>1, <3>3, <4>1, LenProperties
      <4>3. \A i \in 1 .. n + 2 : a.blocks[i] = IF i <= n THEN bs[i] ELSE t[i - n]
        BY <1>1, <3>2, <3>3
      <4>4. a.blocks[n + 1] = t[1] /\ a.blocks[n + 2] = t[2]
        <5>1. n + 1 - n = 1 /\ n + 2 - n = 2 /\ n + 1 \in 1 .. n + 2 /\ n + 2 \in 1 .. n + 2
              /\ ~(n + 1 <= n) /\ ~(n + 2 <= n)
          BY <1>1
        <5> QED
          BY <4>3, <5>1
      <4>5. \A b \in 1 .. n : a.blocks[b] = bs[b]
        BY <1>1, <4>3
      <4> QED
        BY <3>2, <4>1, <4>2, <4>4, <4>5
    <3>5. \A p \in pieces : a.at[p] = IF p \in s THEN n + 1 ELSE n + 2
      BY <2>1
    <3>6. \A p \in pieces : a.at[p] \in 1 .. n + 2 /\ p \in a.blocks[a.at[p]] /\ n < a.at[p]
      BY <1>1, <3>1, <3>4, <3>5
    <3>7. Appended(bs, closed, pieces, a)
      BY <1>1, <1>4, <2>2, <2>3, <3>3, <3>4, <3>6 DEF Appended
    <3>8. ASSUME bs = <<>> PROVE Packed(pieces, a)
      <4>1. n = 0
        BY <1>1, <3>8
      <4>2. \A p : p \in x <=> p \in pieces /\ p \notin s
        BY DEF x
      <4>3. \A b \in DOMAIN a.blocks : b = 1 \/ b = 2
        BY <3>4, <4>1
      <4> QED
        BY <1>4, <3>1, <3>4, <3>5, <4>1, <4>2, <4>3 DEF Packed
    <3> QED
      BY <3>7, <3>8
  <2> QED
    BY <2>4, <2>5
<1>5. ASSUME pieces # {} PROVE
        \/ \E s \in SUBSET pieces : /\ s # {} /\ ~closed
              /\ a = [blocks |-> LET grown == [bs EXCEPT ![n] = @ \cup s]
                                 IN  IF s = pieces THEN grown ELSE Append(grown, pieces \ s),
                      at     |-> [p \in pieces |-> IF p \in s THEN n ELSE n + 1]]
        \/ \E s \in SUBSET pieces : /\ s # {}
              /\ a = [blocks |-> IF s = pieces THEN Append(bs, s) ELSE bs \o <<s, pieces \ s>>,
                      at     |-> [p \in pieces |-> IF p \in s THEN n + 1 ELSE n + 2]]
  <2> DEFINE joined(s) ==
               LET grown == [bs EXCEPT ![n] = @ \cup s]
               IN  [blocks |-> IF s = pieces THEN grown ELSE Append(grown, pieces \ s),
                    at     |-> [p \in pieces |-> IF p \in s THEN n ELSE n + 1]]
             split(s) ==
               [blocks |-> IF s = pieces THEN Append(bs, s) ELSE bs \o <<s, pieces \ s>>,
                at     |-> [p \in pieces |-> IF p \in s THEN n + 1 ELSE n + 2]]
             here == IF closed THEN {} ELSE (SUBSET pieces) \ {{}}
  <2>1. a \in {joined(s) : s \in here} \cup {split(s) : s \in (SUBSET pieces) \ {{}}}
    BY <1>1, <1>5 DEF Appends
  <2>2. ASSUME NEW s \in here PROVE s \in SUBSET pieces /\ s # {} /\ ~closed
    OBVIOUS
  <2>3. ASSUME NEW s \in (SUBSET pieces) \ {{}} PROVE s \in SUBSET pieces /\ s # {}
    OBVIOUS
  <2> QED
    BY <2>1, <2>2, <2>3
<1> QED
  BY <1>2, <1>3, <1>4, <1>5

-----------------------------------------------------------------------------
(* The members of a set of places, in order. *)

IsInOrder(K, S) ==
    /\ DOMAIN K = 1 .. Cardinality(S) /\ Cardinality(S) \in Nat
    /\ \A k \in DOMAIN K : K[k] \in S
    /\ \A j, k \in DOMAIN K : j < k => K[j] < K[k]
    /\ \A s \in S : \E k \in DOMAIN K : K[k] = s
    /\ Len(K) = Cardinality(S) /\ (K = <<>> <=> S = {})

Below(S, i) == {j \in S : j < i}

LEMMA BelowIs ==
    ASSUME NEW n \in Nat, NEW S \in SUBSET (1 .. n), NEW i \in S
    PROVE  /\ IsFiniteSet(S) /\ Cardinality(S) \in Nat /\ Cardinality(Below(S, i)) \in Nat
           /\ Cardinality(Below(S, i)) < Cardinality(S)
           /\ \A j \in S : j < i => Cardinality(Below(S, j)) < Cardinality(Below(S, i))
<1>1. IsFiniteSet(1 .. n)
  BY FS_Interval
<1>2. IsFiniteSet(S)
  BY <1>1, FS_Subset
<1>3. ASSUME NEW T \in SUBSET S PROVE IsFiniteSet(T) /\ Cardinality(T) \in Nat
  BY <1>2, <1>3, FS_Subset, FS_CardinalityType
<1>4. ASSUME NEW T \in SUBSET S, NEW U \in SUBSET T, U # T PROVE Cardinality(U) < Cardinality(T)
  <2>1. IsFiniteSet(T) /\ Cardinality(T) \in Nat /\ Cardinality(U) \in Nat /\ U \in SUBSET S
    BY <1>3, <1>4
  <2>2. Cardinality(U) <= Cardinality(T) /\ (Cardinality(U) = Cardinality(T) => U = T)
    BY <2>1, FS_Subset
  <2> QED
    BY <1>4, <2>1, <2>2
<1>5. \A j \in S : j \in Nat
  OBVIOUS
<1>6. Below(S, i) \in SUBSET S /\ i \notin Below(S, i)
  BY <1>5 DEF Below
<1>7. Cardinality(Below(S, i)) < Cardinality(S)
  BY <1>4, <1>6
<1>8. ASSUME NEW j \in S, j < i PROVE Cardinality(Below(S, j)) < Cardinality(Below(S, i))
  <2>1. i \in Nat /\ j \in Nat
    BY <1>5
  <2>2. ASSUME NEW x \in Below(S, j) PROVE x \in Below(S, i)
    BY <1>5, <1>8, <2>1, <2>2 DEF Below
  <2>3. j \in Below(S, i) /\ j \notin Below(S, j)
    BY <1>8, <2>1 DEF Below
  <2> QED
    BY <1>4, <1>6, <2>2, <2>3
<1> QED
  BY <1>2, <1>3, <1>6, <1>7, <1>8

\* A set of places has a first one.
LEMMA FirstPlace ==
    ASSUME NEW S \in SUBSET Nat, S # {}
    PROVE  \E i \in S : \A j \in S : i <= j
<1> DEFINE less == {p \in Nat \X Nat : p[1] < p[2]}
<1>1. OpToRel(<, Nat) = less
  BY Zenon DEF OpToRel
<1>2. IsWellFoundedOn(less, Nat)
  BY <1>1, NatLessThanWellFounded
<1>3. PICK i \in S : \A j \in S : ~(<<j, i>> \in less)
  BY <1>2, WFMin
<1>4. ASSUME NEW j \in S PROVE i <= j
  <2>1. i \in Nat /\ j \in Nat /\ ~(<<j, i>> \in less)
    BY <1>3
  <2> QED
    BY <2>1 DEF less
<1> QED
  BY <1>4

\* Every rank below the number of members is taken.
LEMMA RankTaken ==
    ASSUME NEW n \in Nat, NEW S \in SUBSET (1 .. n), NEW k \in Nat, k < Cardinality(S)
    PROVE  \E i \in S : Cardinality(Below(S, i)) = k
<1>1. IsFiniteSet(S) /\ Cardinality(S) \in Nat
  <2>1. IsFiniteSet(1 .. n)
    BY FS_Interval
  <2> QED
    BY <2>1, FS_Subset, FS_CardinalityType
<1>2. S # {}
  BY FS_EmptySet
<1>3. PICK l \in S : \A j \in S : j <= l
  BY <1>2, LastPlace
<1>4. \A i \in S : i \in Nat /\ Cardinality(Below(S, i)) \in Nat
  BY BelowIs
<1>5. ASSUME NEW i \in S, NEW B, B = Below(S, i) \cup {i}
      PROVE  Cardinality(B) = Cardinality(Below(S, i)) + 1
  <2>1. IsFiniteSet(Below(S, i)) /\ i \notin Below(S, i)
    BY <1>1, <1>4, FS_Subset DEF Below
  <2> QED
    BY <1>5, <2>1, FS_AddElement
<1>6. S = Below(S, l) \cup {l}
  <2>1. ASSUME NEW j \in S PROVE j < l \/ j = l
    BY <1>3, <1>4
  <2> QED
    BY <2>1 DEF Below
<1>7. Cardinality(S) = Cardinality(Below(S, l)) + 1
  BY <1>5, <1>6
<1> DEFINE T == {i \in S : k <= Cardinality(Below(S, i))}
<1>8. l \in T /\ T \in SUBSET Nat
  <2>1. k <= Cardinality(Below(S, l))
    BY <1>1, <1>4, <1>7
  <2> QED
    BY <1>4, <2>1
<1>9. PICK i \in T : \A j \in T : i <= j
  <2>1. T # {}
    BY <1>8
  <2> HIDE DEF T
  <2> QED
    BY <1>8, <2>1, FirstPlace
<1>10. CASE Below(S, i) = {}
  <2>1. Cardinality(Below(S, i)) = 0
    BY <1>10, FS_EmptySet
  <2> QED
    BY <1>9, <2>1
<1>11. CASE Below(S, i) # {}
  <2>1. Below(S, i) \in SUBSET (1 .. n)
    BY DEF Below
  <2>2. PICK t \in Below(S, i) : \A j \in Below(S, i) : j <= t
    BY <1>11, <2>1, LastPlace
  <2>3. t \in S /\ t < i /\ t \in Nat /\ i \in Nat
    BY <1>4, <1>9, <2>2 DEF Below
  <2>4. t \notin T
    BY <1>9, <2>3
  <2>5. Cardinality(Below(S, t)) < k
    BY <1>4, <2>3, <2>4
  <2>6. Below(S, i) = Below(S, t) \cup {t}
    <3>1. ASSUME NEW j \in Below(S, i) PROVE j \in Below(S, t) \cup {t}
      <4>1. j \in S /\ j \in Nat /\ j <= t
        BY <1>4, <2>2 DEF Below
      <4> QED
        BY <2>3, <4>1 DEF Below
    <3>2. ASSUME NEW j \in Below(S, t) PROVE j \in Below(S, i)
      <4>1. j \in S /\ j \in Nat /\ j < t
        BY <1>4 DEF Below
      <4> QED
        BY <2>3, <4>1 DEF Below
    <3> QED
      BY <2>2, <3>1, <3>2
  <2>7. Cardinality(Below(S, i)) = Cardinality(Below(S, t)) + 1
    BY <1>5, <2>3, <2>6
  <2> QED
    BY <1>4, <1>9, <2>3, <2>5, <2>7
<1> QED
  BY <1>10, <1>11

LEMMA InOrderIs ==
    ASSUME NEW n \in Nat, NEW S \in SUBSET (1 .. n)
    PROVE  IsInOrder(InOrder(S), S)
<1> DEFINE c == Cardinality(S)
           K == InOrder(S)
<1>1. IsFiniteSet(S) /\ c \in Nat
  <2>1. IsFiniteSet(1 .. n)
    BY FS_Interval
  <2> QED
    BY <2>1, FS_Subset, FS_CardinalityType
<1>2. K = [k \in 1 .. c |-> CHOOSE i \in S : Cardinality(Below(S, i)) = k - 1]
  BY DEF InOrder, Below
<1>3. DOMAIN K = 1 .. c /\ Len(K) = c
  BY <1>1, <1>2
<1>4. ASSUME NEW k \in 1 .. c PROVE K[k] \in S /\ Cardinality(Below(S, K[k])) = k - 1
  <2>1. k - 1 \in Nat /\ k - 1 < Cardinality(S)
    BY <1>1
  <2>2. \E i \in S : Cardinality(Below(S, i)) = k - 1
    BY <2>1, RankTaken
  <2>3. K[k] = CHOOSE i \in S : Cardinality(Below(S, i)) = k - 1
    BY <1>2
  <2> QED
    BY <2>2, <2>3
<1> HIDE DEF K
<1>5. \A i \in S : /\ i \in Nat /\ Cardinality(Below(S, i)) \in Nat /\ Cardinality(Below(S, i)) < c
                   /\ \A j \in S : j < i => Cardinality(Below(S, j)) < Cardinality(Below(S, i))
  <2>1. ASSUME NEW i \in S
        PROVE  /\ Cardinality(Below(S, i)) \in Nat /\ Cardinality(Below(S, i)) < Cardinality(S)
               /\ \A j \in S : j < i => Cardinality(Below(S, j)) < Cardinality(Below(S, i))
    BY BelowIs
  <2> QED
    BY <2>1
<1>6. ASSUME NEW j \in 1 .. c, NEW k \in 1 .. c, j < k PROVE K[j] < K[k]
  <2>1. K[j] \in S /\ K[k] \in S /\ Cardinality(Below(S, K[j])) = j - 1 /\ Cardinality(Below(S, K[k])) = k - 1
    BY <1>4
  <2>2. ~(k - 1 < j - 1) /\ ~(k - 1 = j - 1)
    BY <1>1, <1>6
  <2>3. ~(K[k] < K[j])
    BY <1>5, <2>1, <2>2
  <2>4. K[k] # K[j]
    BY <2>1, <2>2
  <2> QED
    <3>1. K[j] \in Nat /\ K[k] \in Nat
      BY <1>5, <2>1
    <3> QED
      BY <2>3, <2>4, <3>1
<1>7. ASSUME NEW s \in S PROVE \E k \in 1 .. c : K[k] = s
  <2> DEFINE k == Cardinality(Below(S, s)) + 1
  <2>1. k \in 1 .. c
    BY <1>1, <1>5
  <2>2. K[k] \in S /\ Cardinality(Below(S, K[k])) = Cardinality(Below(S, s))
    BY <1>4, <1>5, <2>1
  <2>3. ~(K[k] < s) /\ ~(s < K[k])
    <3>1. Cardinality(Below(S, s)) \in Nat
      BY <1>5
    <3>2. ~(Cardinality(Below(S, K[k])) < Cardinality(Below(S, s))) /\ ~(Cardinality(Below(S, s)) < Cardinality(Below(S, K[k])))
      BY <2>2, <3>1
    <3> QED
      BY <1>5, <2>2, <3>2
  <2>4. K[k] = s
    <3>1. K[k] \in Nat /\ s \in Nat
      BY <1>5, <2>2
    <3> HIDE DEF k
    <3> QED
      BY <2>3, <3>1
  <2> QED
    BY <2>1, <2>4
<1>8. K = <<>> <=> S = {}
  <2>1. S = {} <=> c = 0
    BY <1>1, FS_EmptySet
  <2>2. c = 0 => K = <<>>
    BY <1>1, <1>2 DEF K
  <2>3. K = <<>> => c = 0
    BY <1>3
  <2> QED
    BY <2>1, <2>2, <2>3
<1> QED
  BY <1>1, <1>3, <1>4, <1>6, <1>7, <1>8 DEF IsInOrder, K

-----------------------------------------------------------------------------
(* What callers see. *)

LEMMA KnownReads ==
    ASSUME manifest \in ManifestType, Sound(manifest, holes), blocks \in Seq(SUBSET Pieces),
           FoldsOn(manifest, blocks, sealed, forgotten, window), NEW p, Knows(manifest, window, p)
    PROVE  /\ Known(p) /\ Reads(manifest, blocks, forgotten, Located(p), p)
           /\ Located(p) \in DOMAIN blocks /\ p \in blocks[Located(p)] /\ Located(p) \notin manifest.punched
<1>1. Known(p)
  BY DEF Known, Knows
<1>2. Reads(manifest, blocks, forgotten, Located(p), p)
  <2>1. CASE p \in DOMAIN window
    <3>1. /\ window[p] \in DOMAIN blocks /\ p \in blocks[window[p]] /\ window[p] \notin manifest.punched
          /\ forgotten \subseteq manifest.punched
      BY <2>1 DEF FoldsOn
    <3>2. <<manifest.gen, window[p]>> \notin holes
      BY <3>1 DEF Sound, Whole
    <3> QED
      BY <2>1, <3>1, <3>2 DEF Reads, Located
  <2>2. CASE p \notin DOMAIN window
    <3> DEFINE i == Max(Locating(manifest, p))
    <3>1. Locating(manifest, p) # {}
      BY <2>2 DEF Knows
    <3>2. i \in DOMAIN manifest.parts /\ p \in DOMAIN manifest.parts[i].dict /\ manifest.parts[i].dict[p] \notin manifest.punched
      BY <3>1, LocatingIs
    <3> HIDE DEF i
    <3>3. Reads(manifest, blocks, forgotten, manifest.parts[i].dict[p], p)
      BY <3>2, MappingReads
    <3> QED
      BY <2>2, <3>3 DEF Located, i
  <2> QED
    BY <2>1, <2>2
<1> QED
  BY <1>1, <1>2 DEF Reads

\* What callers see is what the rows say, or nothing.
Seen ==
    IF opened THEN Shows(manifest, mem)
    ELSE IF Admits(current.content, wal) THEN Shows(current.content, Replayed(current.content, wal))
    ELSE Refused

ViewSeen == TypeOK /\ AuthorityInv /\ HandleInv /\ FoldInv /\ LogInv => View = Seen

LEMMA ViewIs == ViewSeen
<1> SUFFICES ASSUME TypeOK, AuthorityInv, HandleInv, FoldInv, LogInv PROVE View = Seen
  BY DEF ViewSeen
<1>1. CASE opened
  <2> DEFINE have == {p \in Pieces : Known(p) /\ Reads(manifest, blocks, forgotten, Located(p), p)}
  <2>1. /\ manifest \in ManifestType /\ Sound(manifest, holes) /\ blocks \in Seq(SUBSET Pieces) /\ mem \in Rows
        /\ FoldsOn(manifest, blocks, sealed, forgotten, window)
        /\ \A p \in Named(mem) : Knows(manifest, window, p)
    BY <1>1 DEF TypeOK, AuthorityInv, HandleInv, FoldInv, FoldType
  <2>2. ASSUME NEW p \in Named(mem) PROVE p \in have
    <3>1. p \in Pieces
      BY <2>1, NamedPieces
    <3> QED
      BY <2>1, <3>1, KnownReads
  <2>3. \A i \in DOMAIN manifest.parts : \A id \in Visible(manifest.parts, i) : \A p \in manifest.parts[i].rows[id] :
            Reads(manifest, blocks, forgotten, manifest.parts[i].dict[p], p)
    BY <2>1, VisibleReads
  <2> HIDE DEF have
  <2>4. Named(mem) \subseteq have
    BY <2>2
  <2>5. BytesOf(manifest, mem, have, blocks, forgotten) = Shows(manifest, mem)
    BY <2>1, <2>3, <2>4, BytesAre
  <2> QED
    BY <1>1, <2>5 DEF View, Seen, have
<1>2. CASE ~opened
  <2>1. /\ current.content \in ManifestType /\ Sound(current.content, holes) /\ wal \in LogType
        /\ Carried(current.content, current.content.next_seq + 1, wal)
    BY DEF TypeOK, AuthorityInv, LogInv
  <2> QED
    BY <1>2, <2>1, RecoveredIs DEF View, Seen
<1> QED
  BY <1>1, <1>2

LEMMA ViewIsNext == ViewSeen'
BY ViewIs, PTL

-----------------------------------------------------------------------------
(* The intervals of parts. *)

Chain(parts, n) ==
    /\ n = IF Len(parts) = 0 THEN 0 ELSE parts[Len(parts)].hi
    /\ \A i \in DOMAIN parts : /\ parts[i].lo = IF i = 1 THEN 1 ELSE parts[i - 1].hi + 1
                               /\ parts[i].lo <= parts[i].hi

LEMMA SoundIs ==
    ASSUME NEW m \in ManifestType, NEW hs
    PROVE  Sound(m, hs) <=> /\ Chain(m.parts, m.next_seq) /\ m.punched \subseteq DOMAIN m.blocks
                            /\ Mapped(m) /\ Backed(m) /\ Whole(m, hs)
<1>1. /\ m.parts \in Seq(PartType) /\ m.blocks \in Seq(SUBSET Pieces)
      /\ DOMAIN m.parts = 1 .. Len(m.parts) /\ Len(m.parts) \in Nat
  BY ManifestIs
<1>2. \A i \in DOMAIN m.parts : m.parts[i].rows \in Rows /\ m.parts[i].hi \in Nat /\ m.parts[i].lo \in Nat
  BY <1>1, PartIs
<1>3. Mapped(m) => \A i \in DOMAIN m.parts : \A p \in DOMAIN m.parts[i].dict : m.parts[i].dict[p] \in DOMAIN m.blocks
  BY DEF Mapped
<1>4. \A i \in DOMAIN m.parts : (i - 1 = 0 <=> i = 1)
  BY <1>1
<1>5. ASSUME NEW i \in DOMAIN m.parts
      PROVE  (m.parts[i].lo = (IF i - 1 = 0 THEN 0 ELSE m.parts[i - 1].hi) + 1)
               <=> (m.parts[i].lo = IF i = 1 THEN 1 ELSE m.parts[i - 1].hi + 1)
  BY <1>4
<1>6. ASSUME NEW i \in DOMAIN m.parts
      PROVE  (m.parts[i].lo <= IF i = 0 THEN 0 ELSE m.parts[i].hi) <=> (m.parts[i].lo <= m.parts[i].hi)
  BY <1>1
<1>7. Mapped(m) => (IsManifest(m) <=> Chain(m.parts, m.next_seq) /\ m.punched \subseteq DOMAIN m.blocks)
  BY <1>1, <1>2, <1>3, <1>5, <1>6 DEF IsManifest, Chain
<1> QED
  BY <1>7 DEF Sound

LEMMA HiGrows ==
    ASSUME NEW P \in Seq(PartType), NEW n, Chain(P, n), NEW i \in DOMAIN P, NEW j \in DOMAIN P, i <= j
    PROVE  P[i].hi <= P[j].hi
<1>1. DOMAIN P = 1 .. Len(P) /\ Len(P) \in Nat /\ \A k \in DOMAIN P : P[k].hi \in Nat /\ P[k].lo \in Nat
  BY PartIs
<1> DEFINE S == {k \in i .. Len(P) : P[k].hi < P[i].hi}
<1>2. ASSUME S # {} PROVE FALSE
  <2>1. S \in SUBSET Nat
    BY <1>1
  <2> HIDE DEF S
  <2>2. PICK k \in S : \A l \in S : k <= l
    BY <1>2, <2>1, FirstPlace
  <2> USE DEF S
  <2>3. k \in i .. Len(P) /\ P[k].hi < P[i].hi
    BY <2>2
  <2>4. k # i
    BY <1>1, <2>3
  <2>5. k \in DOMAIN P /\ k # 1 /\ k - 1 \in i .. Len(P) /\ k - 1 \in DOMAIN P /\ k - 1 < k
    BY <1>1, <2>3, <2>4
  <2>6. k - 1 \notin S
    <3>1. k \in Nat /\ ~(k <= k - 1)
      BY <1>1, <2>3
    <3> QED
      BY <2>2, <3>1
  <2>7. ~(P[k - 1].hi < P[i].hi)
    BY <2>5, <2>6
  <2>8. P[k].lo = P[k - 1].hi + 1 /\ P[k].lo <= P[k].hi
    BY <2>5 DEF Chain
  <2> QED
    BY <1>1, <2>3, <2>5, <2>7, <2>8
<1>3. j \in i .. Len(P)
  BY <1>1
<1>4. ~(P[j].hi < P[i].hi)
  BY <1>2, <1>3
<1> QED
  BY <1>1, <1>4

-----------------------------------------------------------------------------
(* What each publication is of: a flush. *)

\* What every handle with a fold knows of both.
FoldFacts ==
    /\ manifest \in ManifestType /\ Sound(manifest, holes)
    /\ blocks \in Seq(SUBSET Pieces) /\ mem \in Rows /\ window \in DictType
    /\ FoldsOn(manifest, blocks, sealed, forgotten, window)
    /\ \A p \in Named(mem) : Knows(manifest, window, p)

LEMMA FlushedIs ==
    ASSUME FoldFacts
    PROVE  /\ Flushed \in ManifestType /\ Sound(Flushed, holes)
           /\ Flushed.next_seq = manifest.next_seq + 1
           /\ Flushed.blocks = blocks /\ Flushed.punched = manifest.punched /\ Flushed.gen = manifest.gen
           /\ Shows(Flushed, NoRows) = Shows(manifest, mem)
           /\ \A p \in Pieces : Locating(manifest, p) # {} => Locating(Flushed, p) # {}
<1> DEFINE seq == manifest.next_seq + 1
           x == [lo |-> seq, hi |-> seq, rows |-> mem, dict |-> [p \in Named(mem) |-> Located(p)]]
           P == manifest.parts
           Q == Append(P, x)
<1> PICK n : n = Len(P)
  OBVIOUS
<1> PICK m : m = Flushed
  OBVIOUS
<1>1. /\ manifest \in ManifestType /\ blocks \in Seq(SUBSET Pieces) /\ mem \in Rows
      /\ P \in Seq(PartType) /\ n \in Nat /\ n = Len(P) /\ DOMAIN P = 1 .. n /\ manifest.next_seq \in Nat /\ seq \in Nat
      /\ DOMAIN blocks = 1 .. Len(blocks) /\ Len(blocks) \in Nat
      /\ DOMAIN manifest.blocks = 1 .. Len(manifest.blocks) /\ Len(manifest.blocks) \in Nat
      /\ manifest.punched \in SUBSET Nat
  BY ManifestIs DEF FoldFacts
<1>2. m = [manifest EXCEPT !.blocks = blocks, !.next_seq = seq, !.parts = Q]
  BY <1>1 DEF Flushed, Seals, ManifestType
<1>3. /\ m.next_seq = seq /\ m.parts = Q /\ m.gen = manifest.gen
      /\ m.blocks = blocks /\ m.punched = manifest.punched
  BY <1>1, <1>2 DEF ManifestType
<1>4. \A p \in Named(mem) : Located(p) \in DOMAIN blocks /\ p \in blocks[Located(p)] /\ Located(p) \notin manifest.punched
  BY KnownReads DEF FoldFacts
<1>5. x.dict \in DictType /\ DOMAIN x.dict = Named(mem) /\ \A p \in Named(mem) : x.dict[p] = Located(p)
  <2>1. Named(mem) \subseteq Pieces
    BY <1>1, NamedPieces
  <2>2. \A p \in Named(mem) : Located(p) \in Nat
    BY <1>1, <1>4
  <2> DEFINE d == x.dict
  <2>3. d = [p \in DOMAIN d |-> d[p]] /\ DOMAIN d = Named(mem) /\ \A p \in Named(mem) : d[p] = Located(p)
    OBVIOUS
  <2> HIDE DEF d
  <2>4. d \in DictType
    BY <2>1, <2>2, <2>3, DictIs
  <2> QED
    BY <2>3, <2>4 DEF d
<1>6. x \in PartType /\ x.rows = mem /\ x.lo = seq /\ x.hi = seq
  BY <1>1, <1>5 DEF PartType
<1> HIDE DEF x
<1>7. /\ Q \in Seq(PartType) /\ Len(Q) = n + 1 /\ DOMAIN Q = 1 .. n + 1 /\ Q[n + 1] = x
      /\ \A i \in 1 .. n : Q[i] = P[i]
  BY <1>1, <1>6
<1> HIDE DEF Q
<1>8. m \in ManifestType
  <2>1. blocks \in FoldType
    BY <1>1 DEF FoldType
  <2> QED
    BY <1>1, <1>2, <1>7, <2>1 DEF ManifestType
<1>9. /\ Chain(P, manifest.next_seq) /\ manifest.punched \subseteq DOMAIN manifest.blocks
      /\ Mapped(manifest) /\ Backed(manifest) /\ Whole(manifest, holes)
  BY <1>1, SoundIs DEF FoldFacts
<1>10. /\ Len(manifest.blocks) <= Len(blocks)
       /\ \A b \in DOMAIN manifest.blocks : b \in DOMAIN blocks /\ blocks[b] = manifest.blocks[b]
  BY <1>1 DEF FoldFacts, FoldsOn
<1>11. Chain(Q, seq)
  <2>1. \A i \in 1 .. n : Q[i].lo = (IF i = 1 THEN 1 ELSE Q[i - 1].hi + 1) /\ Q[i].lo <= Q[i].hi
    <3>1. \A i \in 1 .. n : i # 1 => i - 1 \in 1 .. n
      BY <1>1
    <3> QED
      BY <1>1, <1>7, <1>9, <3>1 DEF Chain
  <2>2. Q[n + 1].lo = IF n + 1 = 1 THEN 1 ELSE Q[n + 1 - 1].hi + 1
    <3>1. manifest.next_seq = IF n = 0 THEN 0 ELSE P[n].hi
      BY <1>1, <1>9 DEF Chain
    <3>2. n + 1 - 1 = n /\ (n + 1 = 1 <=> n = 0) /\ (n # 0 => n \in 1 .. n)
      BY <1>1
    <3> QED
      BY <1>1, <1>6, <1>7, <3>1, <3>2
  <2>3. \A i \in 1 .. n + 1 : i \in 1 .. n \/ i = n + 1
    BY <1>1
  <2>4. Q[n + 1].lo <= Q[n + 1].hi /\ Q[n + 1].hi = seq
    BY <1>1, <1>6, <1>7
  <2>5. \A i \in 1 .. n + 1 : Q[i].lo = (IF i = 1 THEN 1 ELSE Q[i - 1].hi + 1) /\ Q[i].lo <= Q[i].hi
    BY <2>1, <2>2, <2>3, <2>4
  <2>6. Len(Q) # 0 /\ Q[Len(Q)].hi = seq
    BY <1>1, <1>7, <2>4
  <2> QED
    BY <1>7, <2>5, <2>6 DEF Chain
<1>12. Mapped(m)
  <2>1. \A i \in 1 .. n : \A p \in DOMAIN P[i].dict : P[i].dict[p] \in DOMAIN blocks /\ p \in blocks[P[i].dict[p]]
    BY <1>1, <1>9, <1>10 DEF Mapped
  <2>2. \A i \in 1 .. n + 1 : i \in 1 .. n \/ i = n + 1
    BY <1>1
  <2> QED
    BY <1>3, <1>4, <1>5, <1>7, <2>1, <2>2 DEF Mapped
<1>13. Backed(m)
  <2>1. ASSUME NEW i \in DOMAIN Q, NEW id \in Visible(Q, i), NEW p \in Q[i].rows[id]
        PROVE  p \in DOMAIN Q[i].dict /\ Q[i].dict[p] \notin manifest.punched
    <3>1. LastWith(Q, id, i) /\ Q[i].rows[id] # Deleted
      BY <1>7, VisibleIs
    <3>2. CASE i = n + 1
      <4>1. id \in DOMAIN mem /\ mem[id] # Deleted /\ p \in mem[id]
        BY <1>6, <1>7, <2>1, <3>1, <3>2 DEF LastWith
      <4>2. p \in Named(mem)
        BY <4>1, NamedIs
      <4> QED
        BY <1>4, <1>5, <1>7, <3>2, <4>2
    <3>3. CASE i \in 1 .. n
      <4>1. \A j \in 1 .. n : j \in DOMAIN Q
        BY <1>1, <1>7
      <4>2. LastWith(P, id, i)
        BY <1>1, <1>7, <3>1, <3>3, <4>1 DEF LastWith
      <4>3. id \in Visible(P, i)
        BY <1>1, <1>7, <3>1, <3>3, <4>2, VisibleIs
      <4> QED
        BY <1>1, <1>7, <1>9, <3>3, <4>3 DEF Backed
    <3> QED
      BY <1>1, <1>7, <3>2, <3>3
  <2> QED
    BY <1>3, <2>1 DEF Backed
<1>14. Whole(m, holes)
  BY <1>3, <1>9 DEF Whole
<1>15. Sound(m, holes)
  <2>1. m.punched \subseteq DOMAIN m.blocks
    BY <1>3, <1>9, <1>10
  <2> QED
    BY <1>3, <1>8, <1>11, <1>12, <1>13, <1>14, <2>1, SoundIs
<1>16. Shows(m, NoRows) = Shows(manifest, mem)
  <2>1. \A y \in PartType : y.rows \in Rows
    BY DEF PartType
  <2>2. NewestRows(Append(P, x)) = Over(NewestRows(P), x.rows)
    BY <1>1, <1>6, <2>1, FlushedRows
  <2>3. NewestRows(P) \in Rows
    BY <1>1, PartIs
  <2>4. Over(Over(NewestRows(P), mem), NoRows) = Over(NewestRows(P), mem)
    BY <1>1, <2>3, OverIs, OverNone
  <2> QED
    BY <1>3, <1>6, <2>2, <2>4 DEF Shows, Q
<1>17. ASSUME NEW p \in Pieces, Locating(manifest, p) # {} PROVE Locating(m, p) # {}
  <2>1. PICK i \in DOMAIN P : p \in DOMAIN P[i].dict /\ P[i].dict[p] \notin manifest.punched
    BY <1>17 DEF Locating
  <2>2. i \in DOMAIN Q /\ Q[i] = P[i]
    BY <1>1, <1>7
  <2> QED
    BY <1>3, <2>1, <2>2 DEF Locating
<1> QED
  BY <1>3, <1>8, <1>15, <1>16, <1>17

-----------------------------------------------------------------------------
(* ... a merge ... *)

LEMMA MergedDictIs ==
    ASSUME NEW P \in Seq(PartType), NEW lo \in Nat \ {0}, NEW len \in Nat \ {0, 1}, lo + len - 1 <= Len(P)
    PROVE  /\ MergedDict(P, lo, len) \in DictType
           /\ \A p \in DOMAIN MergedDict(P, lo, len) :
                \E i \in lo .. lo + len - 1 : /\ p \in DOMAIN P[i].dict /\ P[i].dict[p] \notin manifest.punched
                                              /\ MergedDict(P, lo, len)[p] = P[i].dict[p]
           /\ \A i \in lo .. lo + len - 1 : \A p \in DOMAIN P[i].dict :
                P[i].dict[p] \notin manifest.punched => p \in DOMAIN MergedDict(P, lo, len)
<1> DEFINE usable(p) == {i \in lo .. lo + len - 1 : p \in DOMAIN P[i].dict
                                                     /\ P[i].dict[p] \notin manifest.punched}
           d == MergedDict(P, lo, len)
<1>1. /\ DOMAIN P = 1 .. Len(P) /\ Len(P) \in Nat
      /\ \A i \in 1 .. Len(P) : P[i].dict \in DictType
      /\ \A i \in lo .. lo + len - 1 : i \in 1 .. Len(P)
  BY PartIs
<1>2. d = [p \in {q \in Pieces : usable(q) # {}} |-> P[Max(usable(p))].dict[p]]
  BY DEF MergedDict
<1>3. ASSUME NEW p \in DOMAIN d
      PROVE  p \in Pieces /\ \E i \in lo .. lo + len - 1 :
               /\ p \in DOMAIN P[i].dict /\ P[i].dict[p] \notin manifest.punched
               /\ d[p] = P[i].dict[p]
  <2>1. p \in Pieces /\ usable(p) # {} /\ d[p] = P[Max(usable(p))].dict[p]
    BY <1>2
  <2>2. usable(p) \in SUBSET (1 .. Len(P))
    BY <1>1
  <2>3. Max(usable(p)) \in usable(p)
    <3> HIDE DEF usable
    <3> QED
      BY <1>1, <2>1, <2>2, MaxIs
  <2> QED
    BY <2>1, <2>3
<1>4. ASSUME NEW i \in lo .. lo + len - 1, NEW p \in DOMAIN P[i].dict, P[i].dict[p] \notin manifest.punched
      PROVE  p \in DOMAIN d
  <2>1. p \in Pieces
    BY <1>1, DictIs
  <2>2. i \in usable(p)
    BY <1>4
  <2> QED
    BY <1>2, <2>1, <2>2
<1>5. d = [p \in DOMAIN d |-> d[p]]
  BY <1>2
<1> HIDE DEF d
<1>6. d \in DictType
  <2>1. DOMAIN d \subseteq Pieces
    BY <1>3
  <2>2. \A p \in DOMAIN d : d[p] \in Nat
    BY <1>1, <1>3, DictIs
  <2> QED
    BY <1>5, <2>1, <2>2, DictIs
<1> QED
  BY <1>3, <1>4, <1>6 DEF d

LEMMA MergedParts ==
    ASSUME manifest \in ManifestType, Chain(manifest.parts, manifest.next_seq),
           NEW lo \in Nat \ {0}, NEW len \in Nat \ {0, 1}, lo + len - 1 <= Len(manifest.parts),
           NEW x, x = [lo |-> manifest.parts[lo].lo, hi |-> manifest.parts[lo + len - 1].hi,
                       rows |-> MergedRows(manifest.parts, lo, len), dict |-> MergedDict(manifest.parts, lo, len)],
           NEW Q, Q = Spliced(manifest.parts, x, lo, len)
    PROVE  /\ x \in PartType /\ Q \in Seq(PartType) /\ IsSpliced(Q, manifest.parts, x, lo, len)
           /\ Len(Q) = Len(manifest.parts) - len + 1 /\ Chain(Q, manifest.next_seq)
<1> PICK P : P = manifest.parts
  OBVIOUS
<1> PICK n : n = Len(P)
  OBVIOUS
<1>0. P = manifest.parts /\ P \in Seq(PartType) /\ Chain(P, manifest.next_seq)
  BY ManifestIs
<1>1. /\ n \in Nat /\ n = Len(P) /\ DOMAIN P = 1 .. n
      /\ \A i \in 1 .. n : P[i].lo \in Nat /\ P[i].hi \in Nat
      /\ lo \in Nat /\ len \in Nat /\ lo >= 1 /\ len >= 2 /\ lo + len - 1 <= n
  BY <1>0, PartIs
<1>N. n \in Nat /\ lo \in Nat /\ len \in Nat /\ lo >= 1 /\ len >= 2 /\ lo + len - 1 <= n
  BY <1>1
<1>2. x \in PartType /\ x.lo = P[lo].lo /\ x.hi = P[lo + len - 1].hi
  <2>1. \A y \in PartType : y.rows \in Rows
    BY DEF PartType
  <2>2. MergedRows(P, lo, len) \in Rows
    BY <1>0, <1>1, <2>1, MergedType
  <2>3. MergedDict(P, lo, len) \in DictType
    BY <1>0, <1>1, MergedDictIs
  <2>4. P[lo].lo \in Nat /\ P[lo + len - 1].hi \in Nat
    BY <1>1
  <2> QED
    BY <1>0, <2>2, <2>3, <2>4 DEF PartType
<1>3. Q \in Seq(PartType) /\ IsSpliced(Q, P, x, lo, len)
  <2>1. Spliced(P, x, lo, len) \in Seq(PartType) /\ IsSpliced(Spliced(P, x, lo, len), P, x, lo, len)
    BY <1>0, <1>1, <1>2, Splice
  <2> QED
    BY <1>0, <2>1
<1>4. /\ DOMAIN Q = 1 .. n - len + 1 /\ Q[lo] = x
      /\ \A i \in 1 .. lo - 1 : Q[i] = P[i]
      /\ \A i \in lo + 1 .. n - len + 1 : Q[i] = P[i + len - 1]
  BY <1>1, <1>3 DEF IsSpliced
<1>5. Len(Q) = n - len + 1
  <2>1. DOMAIN Q = 1 .. Len(Q) /\ Len(Q) \in Nat
    BY <1>3
  <2>2. n - len + 1 \in Nat
    BY <1>1
  <2> QED
    BY <1>4, <2>1, <2>2
<1>6. \A i \in 1 .. n : /\ P[i].lo = IF i = 1 THEN 1 ELSE P[i - 1].hi + 1
                        /\ P[i].lo <= P[i].hi
  BY <1>0, <1>1 DEF Chain
<1>7. P[lo].lo <= P[lo + len - 1].hi
  <2>1. P[lo].hi <= P[lo + len - 1].hi
    <3>1. lo \in DOMAIN P /\ lo + len - 1 \in DOMAIN P /\ lo <= lo + len - 1
      BY <1>1
    <3> QED
      BY <1>0, <3>1, HiGrows
  <2>2. lo \in 1 .. n /\ lo + len - 1 \in 1 .. n
    BY <1>1
  <2> PICK a, b, c : a = P[lo].lo /\ b = P[lo].hi /\ c = P[lo + len - 1].hi
    OBVIOUS
  <2>3. a \in Nat /\ b \in Nat /\ c \in Nat /\ a <= b /\ b <= c
    BY <1>1, <1>6, <2>1, <2>2
  <2>4. a <= c
    BY ONLY <2>3
  <2> QED
    BY <2>4
<1>8. ASSUME NEW k \in 1 .. n - len + 1
      PROVE  Q[k].lo = (IF k = 1 THEN 1 ELSE Q[k - 1].hi + 1) /\ Q[k].lo <= Q[k].hi
  <2>1. CASE k < lo
    <3>1. k \in 1 .. n /\ k \in 1 .. lo - 1 /\ (k # 1 => k - 1 \in 1 .. lo - 1)
      BY <1>N, <2>1
    <3>2. Q[k] = P[k] /\ (k # 1 => Q[k - 1] = P[k - 1])
      BY <1>4, <3>1
    <3>3. P[k].lo = (IF k = 1 THEN 1 ELSE P[k - 1].hi + 1) /\ P[k].lo <= P[k].hi
      BY ONLY <1>6, <3>1
    <3> QED
      BY <3>2, <3>3
  <2>2. CASE k = lo
    <3>1. lo \in 1 .. n /\ (lo # 1 => lo - 1 \in 1 .. lo - 1)
      BY <1>N
    <3>2. lo # 1 => Q[lo - 1] = P[lo - 1]
      BY <1>4, <3>1
    <3>3. P[lo].lo = IF lo = 1 THEN 1 ELSE P[lo - 1].hi + 1
      BY <1>6, <3>1
    <3>4. Q[lo].lo = IF lo = 1 THEN 1 ELSE Q[lo - 1].hi + 1
      BY <1>2, <1>4, <3>2, <3>3
    <3>5. Q[lo].lo <= Q[lo].hi
      BY <1>2, <1>4, <1>7
    <3> QED
      BY ONLY <2>2, <3>4, <3>5
  <2>3. CASE k = lo + 1
    <3>1. /\ k \in lo + 1 .. n - len + 1 /\ k - 1 = lo /\ k # 1 /\ k + len - 1 \in 1 .. n /\ k + len - 1 # 1
          /\ k + len - 1 - 1 = lo + len - 1
      <4>1. k = lo + 1 /\ k \in 1 .. n - len + 1
        BY <1>8, <2>3
      <4> QED
        BY ONLY <1>N, <4>1
    <3>2. Q[k] = P[k + len - 1] /\ Q[k - 1] = x
      BY <1>4, <3>1
    <3>3. P[k + len - 1].lo = P[lo + len - 1].hi + 1 /\ P[k + len - 1].lo <= P[k + len - 1].hi
      BY <1>6, <3>1
    <3> QED
      BY <1>2, <3>1, <3>2, <3>3
  <2>4. CASE k > lo + 1
    <3>1. /\ k \in lo + 1 .. n - len + 1 /\ k - 1 \in lo + 1 .. n - len + 1
          /\ k # 1 /\ k + len - 1 \in 1 .. n /\ k + len - 1 # 1
          /\ k - 1 + len - 1 = k + len - 1 - 1
      <4>1. k \in Nat /\ k >= lo + 2 /\ k <= n - len + 1
        BY <1>N, <2>4
      <4> QED
        BY ONLY <1>N, <4>1
    <3>2. Q[k] = P[k + len - 1] /\ Q[k - 1] = P[k + len - 1 - 1]
      BY <1>4, <3>1
    <3>3. P[k + len - 1].lo = P[k + len - 1 - 1].hi + 1 /\ P[k + len - 1].lo <= P[k + len - 1].hi
      <4> PICK j : j = k + len - 1
        OBVIOUS
      <4>1. j \in 1 .. n /\ j # 1
        BY <3>1
      <4>2. P[j].lo = P[j - 1].hi + 1 /\ P[j].lo <= P[j].hi
        BY <1>6, <4>1
      <4> QED
        BY <4>2
    <3> QED
      BY <3>1, <3>2, <3>3
  <2>5. k < lo \/ k = lo \/ k = lo + 1 \/ k > lo + 1
    BY <1>N
  <2> QED
    BY <2>5, <2>1, <2>2, <2>3, <2>4
<1>9. manifest.next_seq = Q[Len(Q)].hi /\ Len(Q) # 0
  <2>1. n # 0 /\ manifest.next_seq = P[n].hi
    BY <1>0, <1>1 DEF Chain
  <2>2. CASE lo + len - 1 = n
    <3>1. n - len + 1 = lo /\ lo # 0
      BY <1>N, <2>2
    <3>2. Len(Q) = lo /\ Q[lo].hi = P[n].hi
      BY <1>2, <1>4, <1>5, <2>2, <3>1
    <3> QED
      BY <2>1, <3>1, <3>2
  <2>3. CASE lo + len - 1 # n
    <3> PICK c : c = n - len + 1
      OBVIOUS
    <3>1. c \in lo + 1 .. c /\ c + len - 1 = n /\ c # 0
      <4>1. c = n - len + 1 /\ lo + len - 1 # n
        BY <2>3
      <4> QED
        BY ONLY <1>N, <4>1
    <3>2. Q[c] = P[n]
      <4>1. c \in lo + 1 .. n - len + 1
        BY <3>1
      <4>2. Q[c] = P[c + len - 1]
        BY <1>4, <4>1
      <4> QED
        BY <3>1, <4>2
    <3> QED
      BY <1>5, <2>1, <3>1, <3>2
  <2> QED
    BY <2>2, <2>3
<1>10. Chain(Q, manifest.next_seq)
  BY <1>4, <1>5, <1>8, <1>9 DEF Chain
<1> QED
  BY <1>0, <1>1, <1>2, <1>3, <1>5, <1>10

\* Where a row decides after a merge: in its own part, or in the merged one.
Decided(P, Q, lo, len, id) ==
    /\ \A k \in DOMAIN Q : id \in Visible(Q, k) =>
         \E i \in DOMAIN P : /\ id \in Visible(P, i) /\ Q[k].rows[id] = P[i].rows[id]
                             /\ Q[k] = P[i] \/ (k = lo /\ i \in lo .. lo + len - 1)
    /\ \A i \in DOMAIN P : id \in Visible(P, i) =>
         \E k \in DOMAIN Q : /\ id \in Visible(Q, k) /\ Q[k].rows[id] = P[i].rows[id]
                             /\ Q[k] = P[i] \/ (k = lo /\ i \in lo .. lo + len - 1)

LEMMA MergedDecides ==
    ASSUME \A y \in PartType : y.rows \in Rows, NEW P \in Seq(PartType),
           NEW lo \in Nat \ {0}, NEW len \in Nat \ {0, 1}, lo + len - 1 <= Len(P),
           NEW x \in PartType, x.rows = MergedRows(P, lo, len), NEW Q \in Seq(PartType), Q = Spliced(P, x, lo, len),
           NEW id
    PROVE  Decided(P, Q, lo, len, id)
<1>1. P \in Seq(PartType) /\ DOMAIN P = 1 .. Len(P) /\ Len(P) \in Nat
  OBVIOUS
<1>2. lo + len - 1 <= Len(P) /\ x.rows = MergedRows(P, lo, len) /\ len \in Nat \ {0}
  OBVIOUS
<1>3. IsSpliced(Q, P, x, lo, len)
  BY <1>1, <1>2, Splice
<1>4. /\ DOMAIN Q = 1 .. Len(P) - len + 1 /\ Q[lo] = x
      /\ \A i \in 1 .. lo - 1 : Q[i] = P[i]
      /\ \A i \in lo + 1 .. Len(P) - len + 1 : Q[i] = P[i + len - 1]
  BY <1>3 DEF IsSpliced
<1>5. ASSUME NEW i, LastWith(P, id, i)
      PROVE  \/ i < lo /\ LastWith(Q, id, i) /\ Q[i] = P[i]
             \/ lo <= i /\ i <= lo + len - 1 /\ LastWith(Q, id, lo) /\ Q[lo] = x /\ x.rows[id] = P[i].rows[id]
             \/ i > lo + len - 1 /\ LastWith(Q, id, i - len + 1) /\ Q[i - len + 1] = P[i]
             \/ P[i].rows[id] = Deleted /\ id \notin DOMAIN NewestRows(Q)
  <2> PICK T : T = PartType
    OBVIOUS
  <2>1. P \in Seq(T) /\ \A y \in T : y.rows \in Rows
    OBVIOUS
  <2>2. x \in T /\ x.rows = MergedRows(P, lo, len) /\ Q = Spliced(P, x, lo, len) /\ lo + len - 1 <= Len(P)
    OBVIOUS
  <2>3. LastWith(P, id, i)
    BY <1>5
  <2> QED
    BY ONLY <2>1, <2>2, <2>3, lo \in Nat \ {0}, len \in Nat \ {0, 1}, MergedLast
<1>6. \A k : LastWith(Q, id, k) => id \in DOMAIN NewestRows(Q) /\ NewestRows(Q)[id] = Q[k].rows[id]
  BY LastIs
<1>7. \A j, k : LastWith(Q, id, j) /\ LastWith(Q, id, k) => j = k
  <2>1. \A k : LastWith(Q, id, k) => Owner(Q, id) = k
    BY OwnerIs
  <2> QED
    BY <2>1
<1>8. ASSUME NEW i \in DOMAIN P, id \in Visible(P, i)
      PROVE  \E k \in DOMAIN Q : /\ id \in Visible(Q, k) /\ Q[k].rows[id] = P[i].rows[id]
                                 /\ Q[k] = P[i] \/ (k = lo /\ i \in lo .. lo + len - 1)
  <2>1. LastWith(P, id, i) /\ P[i].rows[id] # Deleted
    BY <1>1, <1>8, VisibleIs
  <2>2. CASE i < lo /\ LastWith(Q, id, i) /\ Q[i] = P[i]
    <3>1. i \in DOMAIN Q /\ id \in Visible(Q, i)
      BY <2>1, <2>2, VisibleIs DEF LastWith
    <3> QED
      BY <2>2, <3>1
  <2>3. CASE lo <= i /\ i <= lo + len - 1 /\ LastWith(Q, id, lo) /\ Q[lo] = x /\ x.rows[id] = P[i].rows[id]
    <3>1. lo \in DOMAIN Q /\ id \in Visible(Q, lo)
      BY <2>1, <2>3, VisibleIs DEF LastWith
    <3>2. i \in lo .. lo + len - 1
      BY <1>1, <2>3
    <3> QED
      BY <2>3, <3>1, <3>2
  <2>4. CASE i > lo + len - 1 /\ LastWith(Q, id, i - len + 1) /\ Q[i - len + 1] = P[i]
    <3>1. i - len + 1 \in DOMAIN Q /\ id \in Visible(Q, i - len + 1)
      BY <2>1, <2>4, VisibleIs DEF LastWith
    <3> QED
      BY <2>4, <3>1
  <2> QED
    BY <1>5, <2>1, <2>2, <2>3, <2>4
<1>9. ASSUME NEW k \in DOMAIN Q, id \in Visible(Q, k)
      PROVE  \E i \in DOMAIN P : /\ id \in Visible(P, i) /\ Q[k].rows[id] = P[i].rows[id]
                                 /\ Q[k] = P[i] \/ (k = lo /\ i \in lo .. lo + len - 1)
  <2>1. LastWith(Q, id, k) /\ Q[k].rows[id] # Deleted
    BY <1>9, VisibleIs
  <2>2. \E j \in DOMAIN P : id \in DOMAIN P[j].rows
    <3>1. CASE k < lo
      <4>1. k \in 1 .. lo - 1 /\ k \in DOMAIN P
        BY <1>1, <1>4, <3>1
      <4> QED
        BY <1>4, <2>1, <4>1 DEF LastWith
    <3>2. CASE k = lo
      <4>1. id \in DOMAIN MergedRows(P, lo, len)
        BY <1>2, <1>4, <2>1, <3>2 DEF LastWith
      <4>2. id \in DOMAIN Newest(P, lo .. lo + len - 1)
        BY <4>1 DEF MergedRows
      <4>3. \E j \in lo .. lo + len - 1 : id \in DOMAIN P[j].rows
        BY <4>2, NewestDomain
      <4>4. \A j \in lo .. lo + len - 1 : j \in DOMAIN P
        BY <1>1, <1>2
      <4> QED
        BY <4>3, <4>4
    <3>3. CASE k > lo
      <4>1. k \in lo + 1 .. Len(P) - len + 1 /\ k + len - 1 \in DOMAIN P
        BY <1>1, <1>4, <3>3
      <4> QED
        BY <1>4, <2>1, <4>1 DEF LastWith
    <3> QED
      BY <1>4, <3>1, <3>2, <3>3
  <2>3. PICK i : LastWith(P, id, i)
    BY <1>1, <2>2, OwnerIs
  <2>4. i \in DOMAIN P
    BY <2>3 DEF LastWith
  <2>5. CASE i < lo /\ LastWith(Q, id, i) /\ Q[i] = P[i]
    <3>1. k = i
      BY <1>7, <2>1, <2>5
    <3> QED
      BY <1>1, <2>1, <2>3, <2>4, <2>5, <3>1, VisibleIs
  <2>6. CASE lo <= i /\ i <= lo + len - 1 /\ LastWith(Q, id, lo) /\ Q[lo] = x /\ x.rows[id] = P[i].rows[id]
    <3>1. k = lo
      BY <1>7, <2>1, <2>6
    <3>2. i \in lo .. lo + len - 1
      BY <1>1, <2>4, <2>6
    <3>3. id \in Visible(P, i)
      BY <1>1, <2>1, <2>3, <2>4, <2>6, <3>1, VisibleIs
    <3> QED
      BY <2>4, <2>6, <3>1, <3>2, <3>3
  <2>7. CASE i > lo + len - 1 /\ LastWith(Q, id, i - len + 1) /\ Q[i - len + 1] = P[i]
    <3>1. k = i - len + 1
      BY <1>7, <2>1, <2>7
    <3> QED
      BY <1>1, <2>1, <2>3, <2>4, <2>7, <3>1, VisibleIs
  <2>8. id \in DOMAIN NewestRows(Q)
    BY <1>6, <2>1
  <2> QED
    BY <1>5, <2>3, <2>5, <2>6, <2>7, <2>8
<1> QED
  BY <1>8, <1>9 DEF Decided

LEMMA MergedIs ==
    ASSUME FoldFacts, NEW lo \in Nat \ {0}, NEW len \in Nat \ {0, 1}, lo + len - 1 <= Len(manifest.parts)
    PROVE  LET m == Merged(lo, len)
           IN  /\ m \in ManifestType /\ Sound(m, holes) /\ Maintained(manifest, m)
               /\ \A p \in Pieces : Locating(manifest, p) # {} => Locating(m, p) # {}
               /\ m.blocks = blocks /\ m.punched = manifest.punched /\ m.gen = manifest.gen
               /\ Anchored(manifest, window) => Anchored(m, window)
<1> PICK P : P = manifest.parts
  OBVIOUS
<1> PICK x : x = [lo |-> P[lo].lo, hi |-> P[lo + len - 1].hi,
                  rows |-> MergedRows(P, lo, len), dict |-> MergedDict(P, lo, len)]
  OBVIOUS
<1> PICK Q : Q = Spliced(P, x, lo, len)
  OBVIOUS
<1> PICK m : m = Merged(lo, len)
  OBVIOUS
<1>1. /\ manifest \in ManifestType /\ blocks \in Seq(SUBSET Pieces) /\ Sound(manifest, holes)
      /\ manifest.next_seq \in Nat /\ manifest.gen \in Nat /\ manifest.punched \in SUBSET Nat
      /\ P \in Seq(PartType) /\ P = manifest.parts /\ Len(P) \in Nat /\ DOMAIN P = 1 .. Len(P)
      /\ window \in DictType
  BY ManifestIs DEF FoldFacts
<1>2. m = [manifest EXCEPT !.blocks = blocks, !.parts = Q]
  BY <1>1 DEF Merged, Seals, ManifestType
<1>3. /\ m.next_seq = manifest.next_seq /\ m.parts = Q /\ m.gen = manifest.gen
      /\ m.blocks = blocks /\ m.punched = manifest.punched
  BY <1>1, <1>2 DEF ManifestType
<1>4. /\ Chain(P, manifest.next_seq) /\ manifest.punched \subseteq DOMAIN manifest.blocks
      /\ Mapped(manifest) /\ Backed(manifest) /\ Whole(manifest, holes)
  BY <1>1, SoundIs
<1>5. /\ x \in PartType /\ Q \in Seq(PartType) /\ IsSpliced(Q, P, x, lo, len)
      /\ Len(Q) = Len(P) - len + 1 /\ Chain(Q, manifest.next_seq)
  BY <1>1, <1>4, MergedParts
<1>6. x.rows = MergedRows(P, lo, len) /\ x.dict = MergedDict(P, lo, len)
  OBVIOUS
<1>7. /\ DOMAIN Q = 1 .. Len(P) - len + 1 /\ Q[lo] = x
      /\ \A i \in 1 .. lo - 1 : Q[i] = P[i]
      /\ \A i \in lo + 1 .. Len(P) - len + 1 : Q[i] = P[i + len - 1]
  BY <1>5 DEF IsSpliced
<1>8. /\ lo + len - 1 <= Len(P)
      /\ \A p \in DOMAIN x.dict :
           \E i \in lo .. lo + len - 1 : /\ p \in DOMAIN P[i].dict /\ P[i].dict[p] \notin manifest.punched
                                         /\ x.dict[p] = P[i].dict[p]
      /\ \A i \in lo .. lo + len - 1 : \A p \in DOMAIN P[i].dict :
           P[i].dict[p] \notin manifest.punched => p \in DOMAIN x.dict
  <2>1. lo + len - 1 <= Len(P) /\ P \in Seq(PartType)
    BY <1>1
  <2>2. /\ \A p \in DOMAIN MergedDict(P, lo, len) :
             \E i \in lo .. lo + len - 1 : /\ p \in DOMAIN P[i].dict /\ P[i].dict[p] \notin manifest.punched
                                           /\ MergedDict(P, lo, len)[p] = P[i].dict[p]
        /\ \A i \in lo .. lo + len - 1 : \A p \in DOMAIN P[i].dict :
             P[i].dict[p] \notin manifest.punched => p \in DOMAIN MergedDict(P, lo, len)
    <3>1. lo \in Nat \ {0} /\ len \in Nat \ {0, 1}
      OBVIOUS
    <3>2. /\ MergedDict(P, lo, len) \in DictType
          /\ \A p \in DOMAIN MergedDict(P, lo, len) :
               \E i \in lo .. lo + len - 1 : /\ p \in DOMAIN P[i].dict /\ P[i].dict[p] \notin manifest.punched
                                             /\ MergedDict(P, lo, len)[p] = P[i].dict[p]
          /\ \A i \in lo .. lo + len - 1 : \A p \in DOMAIN P[i].dict :
               P[i].dict[p] \notin manifest.punched => p \in DOMAIN MergedDict(P, lo, len)
      BY ONLY <2>1, <3>1, MergedDictIs
    <3> QED
      BY ONLY <3>2
  <2> QED
    BY <1>6, <2>1, <2>2
<1>N. Len(P) \in Nat /\ lo \in Nat /\ len \in Nat /\ lo >= 1 /\ len >= 2 /\ lo + len - 1 <= Len(P)
  BY <1>1
<1>9. \A i \in lo .. lo + len - 1 : i \in DOMAIN P
  BY <1>1, <1>N
<1>10. m \in ManifestType
  <2>1. blocks \in FoldType
    BY <1>1 DEF FoldType
  <2> QED
    BY <1>1, <1>2, <1>5, <2>1 DEF ManifestType
\* Every part of Q but the merged one is a part of P, and the other way round.
<1>11. ASSUME NEW k \in DOMAIN Q, k # lo PROVE \E i \in DOMAIN P : Q[k] = P[i]
  <2>1. CASE k < lo
    <3>1. k \in 1 .. lo - 1 /\ k \in 1 .. Len(P)
      BY <1>N, <1>7, <2>1
    <3> QED
      BY <1>1, <1>7, <3>1
  <2>2. CASE k > lo
    <3>1. k \in lo + 1 .. Len(P) - len + 1 /\ k + len - 1 \in 1 .. Len(P)
      <4>1. k \in 1 .. Len(P) - len + 1
        BY <1>7
      <4> PICK n : n = Len(P)
        OBVIOUS
      <4>2. /\ n \in Nat /\ lo \in Nat /\ len \in Nat /\ lo >= 1 /\ len >= 2 /\ lo + len - 1 <= n
            /\ k \in 1 .. n - len + 1 /\ k > lo
        BY <1>N, <2>2, <4>1
      <4>3. k \in lo + 1 .. n - len + 1 /\ k + len - 1 \in 1 .. n
        BY ONLY <4>2
      <4> QED
        BY <4>3
    <3> QED
      BY <1>1, <1>7, <3>1
  <2> QED
    BY <1>N, <1>7, <1>11, <2>1, <2>2
<1>12. ASSUME NEW i \in DOMAIN P, i \notin lo .. lo + len - 1 PROVE \E k \in DOMAIN Q : Q[k] = P[i]
  <2>1. CASE i < lo
    <3>1. i \in 1 .. lo - 1 /\ i \in 1 .. Len(P) - len + 1
      BY <1>N, <1>1, <2>1
    <3> QED
      BY <1>7, <3>1
  <2>2. CASE i > lo + len - 1
    <3> PICK k : k = i - len + 1
      OBVIOUS
    <3>1. k \in lo + 1 .. Len(P) - len + 1 /\ k + len - 1 = i /\ k \in 1 .. Len(P) - len + 1
      <4> PICK n : n = Len(P)
        OBVIOUS
      <4>1. /\ n \in Nat /\ lo \in Nat /\ len \in Nat /\ lo >= 1 /\ len >= 2 /\ lo + len - 1 <= n
            /\ i \in 1 .. n /\ i > lo + len - 1 /\ k = i - len + 1
        BY <1>N, <1>1, <2>2
      <4>2. k \in lo + 1 .. n - len + 1 /\ k + len - 1 = i /\ k \in 1 .. n - len + 1
        BY ONLY <4>1
      <4> QED
        BY <4>2
    <3>2. Q[k] = P[k + len - 1]
      BY <1>7, <3>1
    <3> QED
      BY <1>7, <3>1, <3>2
  <2> QED
    BY <1>N, <1>1, <1>12, <2>1, <2>2
<1>13. ASSUME NEW k \in DOMAIN Q, NEW p \in DOMAIN Q[k].dict
       PROVE  \E i \in DOMAIN P : p \in DOMAIN P[i].dict /\ P[i].dict[p] = Q[k].dict[p]
                                  /\ (k = lo => P[i].dict[p] \notin manifest.punched)
  <2>1. CASE k = lo
    BY <1>7, <1>8, <1>9, <2>1
  <2>2. CASE k # lo
    BY <1>11, <2>2
  <2> QED
    BY <2>1, <2>2
<1>14. lo \in DOMAIN Q /\ \A p \in DOMAIN Q[lo].dict : Q[lo].dict[p] \notin manifest.punched
  <2>1. lo \in DOMAIN Q
    BY <1>N, <1>7
  <2>2. ASSUME NEW p \in DOMAIN Q[lo].dict PROVE Q[lo].dict[p] \notin manifest.punched
    <3>1. \E i \in DOMAIN P : p \in DOMAIN P[i].dict /\ P[i].dict[p] = Q[lo].dict[p]
                             /\ (lo = lo => P[i].dict[p] \notin manifest.punched)
      BY <1>13, <2>1
    <3> QED
      BY <3>1
  <2> QED
    BY <2>1, <2>2
<1>15. ASSUME NEW i \in DOMAIN P, NEW p \in DOMAIN P[i].dict, P[i].dict[p] \notin manifest.punched
       PROVE  \E k \in DOMAIN Q : p \in DOMAIN Q[k].dict /\ Q[k].dict[p] \notin manifest.punched
  <2>1. CASE i \in lo .. lo + len - 1
    <3>1. p \in DOMAIN Q[lo].dict
      BY <1>7, <1>8, <1>15, <2>1
    <3> QED
      BY <1>14, <3>1
  <2>2. CASE i \notin lo .. lo + len - 1
    BY <1>12, <1>15, <2>2
  <2> QED
    BY <2>1, <2>2
<1>16. /\ \A b \in DOMAIN manifest.blocks : b \in DOMAIN blocks /\ blocks[b] = manifest.blocks[b]
  <2>1. DOMAIN blocks = 1 .. Len(blocks) /\ Len(blocks) \in Nat
    BY <1>1
  <2>2. DOMAIN manifest.blocks = 1 .. Len(manifest.blocks) /\ Len(manifest.blocks) \in Nat
    BY <1>1, ManifestIs
  <2> QED
    BY <2>1, <2>2 DEF FoldFacts, FoldsOn
<1>17. Mapped(m)
  <2>1. ASSUME NEW k \in DOMAIN Q, NEW p \in DOMAIN Q[k].dict
        PROVE  Q[k].dict[p] \in DOMAIN blocks /\ p \in blocks[Q[k].dict[p]]
    <3>1. PICK i \in DOMAIN P : p \in DOMAIN P[i].dict /\ P[i].dict[p] = Q[k].dict[p]
      BY <1>13
    <3>2. P[i].dict[p] \in DOMAIN manifest.blocks /\ p \in manifest.blocks[P[i].dict[p]]
      BY <1>1, <1>4, <3>1 DEF Mapped
    <3> QED
      BY <1>16, <3>1, <3>2
  <2> QED
    BY <1>3, <2>1 DEF Mapped
<1>18. ASSUME NEW id PROVE Decided(P, Q, lo, len, id)
  <2>1. \A y \in PartType : y.rows \in Rows
    BY DEF PartType
  <2>2. lo + len - 1 <= Len(P)
    BY <1>1
  <2> QED
    BY <1>1, <1>5, <1>6, <2>1, <2>2, MergedDecides
<1>19. Backed(m)
  <2>1. ASSUME NEW k \in DOMAIN Q, NEW id \in Visible(Q, k), NEW p \in Q[k].rows[id]
        PROVE  p \in DOMAIN Q[k].dict /\ Q[k].dict[p] \notin manifest.punched
    <3>0. Decided(P, Q, lo, len, id)
      BY <1>18
    <3>1. PICK i \in DOMAIN P : /\ id \in Visible(P, i) /\ Q[k].rows[id] = P[i].rows[id]
                                /\ Q[k] = P[i] \/ (k = lo /\ i \in lo .. lo + len - 1)
      BY <3>0 DEF Decided
    <3>2. p \in DOMAIN P[i].dict /\ P[i].dict[p] \notin manifest.punched
      BY <1>1, <1>4, <3>1 DEF Backed
    <3>3. CASE k = lo /\ i \in lo .. lo + len - 1
      <4>1. p \in DOMAIN Q[lo].dict
        BY <1>7, <1>8, <3>2, <3>3
      <4> QED
        BY <1>14, <3>3, <4>1
    <3> QED
      BY <3>1, <3>2, <3>3
  <2> QED
    BY <1>3, <2>1 DEF Backed
<1>20. Sound(m, holes)
  <2>1. m.punched \subseteq DOMAIN m.blocks
    BY <1>3, <1>4, <1>16
  <2>2. Whole(m, holes)
    BY <1>3, <1>4 DEF Whole
  <2> QED
    BY <1>3, <1>5, <1>10, <1>17, <1>19, <2>1, <2>2, SoundIs
<1>21. SameView(manifest, m)
  <2>1. \A y \in PartType : y.rows \in Rows
    BY DEF PartType
  <2> PICK T : T = PartType
    OBVIOUS
  <2>3. \A y \in T : y.rows \in Rows
    BY <2>1
  <2>4. /\ P \in Seq(T) /\ x \in T /\ lo + len - 1 <= Len(P)
        /\ x.rows = MergedRows(P, lo, len) /\ Q = Spliced(P, x, lo, len)
    BY <1>1, <1>5, <1>6
  <2>2. Q \in Seq(T) /\ \A f \in Rows : Shown(Over(NewestRows(Q), f)) = Shown(Over(NewestRows(P), f))
    BY ONLY <2>3, <2>4, lo \in Nat \ {0}, len \in Nat \ {0, 1}, MergedShows
  <2> QED
    BY <1>1, <1>3, <2>2 DEF SameView, Shows
<1>22. ASSUME NEW p \in Pieces PROVE Locating(m, p) # {} <=> Locating(manifest, p) # {}
  <2>1. ASSUME Locating(m, p) # {} PROVE Locating(manifest, p) # {}
    <3>1. PICK k \in DOMAIN Q : p \in DOMAIN Q[k].dict /\ Q[k].dict[p] \notin manifest.punched
      BY <1>3, <2>1 DEF Locating
    <3>2. PICK i \in DOMAIN P : p \in DOMAIN P[i].dict /\ P[i].dict[p] = Q[k].dict[p]
                              /\ (k = lo => P[i].dict[p] \notin manifest.punched)
      BY ONLY <1>13, <3>1
    <3> QED
      BY <1>1, <3>1, <3>2 DEF Locating
  <2>2. ASSUME Locating(manifest, p) # {} PROVE Locating(m, p) # {}
    <3>1. PICK i \in DOMAIN P : p \in DOMAIN P[i].dict /\ P[i].dict[p] \notin manifest.punched
      BY <1>1, <2>2 DEF Locating
    <3>2. PICK k \in DOMAIN Q : p \in DOMAIN Q[k].dict /\ Q[k].dict[p] \notin manifest.punched
      BY <1>15, <3>1
    <3> QED
      BY <1>3, <3>2 DEF Locating
  <2> QED
    BY <2>1, <2>2
<1>23. ASSUME Anchored(manifest, window) PROVE Anchored(m, window)
  <2>1. ASSUME NEW p \in DOMAIN window, NEW k \in DOMAIN Q, p \in DOMAIN Q[k].dict PROVE Q[k].dict[p] = window[p]
    <3>1. PICK i \in DOMAIN P : p \in DOMAIN P[i].dict /\ P[i].dict[p] = Q[k].dict[p]
      BY <1>13, <2>1
    <3> QED
      BY <1>1, <1>23, <3>1 DEF Anchored
  <2>2. ASSUME NEW p \in DOMAIN window PROVE <<window[p], p>> \in LivePieces(Q)
    <3>1. <<window[p], p>> \in LivePieces(P)
      BY <1>1, <1>23 DEF Anchored
    <3>2. PICK i \in DOMAIN P : \E id \in Visible(P, i) : \E q \in P[i].rows[id] : <<window[p], p>> = <<P[i].dict[q], q>>
      BY <3>1, LiveIs
    <3>3. PICK id \in Visible(P, i) : p \in P[i].rows[id]
      BY <3>2
    <3>0. Decided(P, Q, lo, len, id)
      BY <1>18
    <3>4. PICK k \in DOMAIN Q : id \in Visible(Q, k) /\ Q[k].rows[id] = P[i].rows[id]
      BY <3>0, <3>3 DEF Decided
    <3>5. p \in DOMAIN Q[k].dict
      BY <1>3, <1>19, <3>3, <3>4 DEF Backed
    <3>6. <<window[p], p>> = <<Q[k].dict[p], p>>
      BY <2>1, <3>5
    <3> QED
      BY <3>3, <3>4, <3>6, LiveIs
  <2> QED
    BY <1>3, <2>1, <2>2 DEF Anchored
<1> QED
  BY <1>3, <1>10, <1>20, <1>21, <1>22, <1>23 DEF Maintained

-----------------------------------------------------------------------------
(* ... a declaration of dead blocks ... *)

LEMMA DeclaredIs ==
    ASSUME FoldFacts
    PROVE  /\ Declared \in ManifestType /\ Sound(Declared, holes) /\ Maintained(manifest, Declared)
           /\ Declared.parts = manifest.parts /\ Declared.blocks = blocks /\ Declared.gen = manifest.gen
           /\ Declared.punched = manifest.punched \cup Dead
           /\ Anchored(manifest, window) =>
                /\ Anchored(Declared, window)
                /\ \A p \in DOMAIN window : window[p] \notin Declared.punched /\ Locating(Declared, p) # {}
<1> PICK m : m = Declared
  OBVIOUS
<1>1. /\ manifest \in ManifestType /\ blocks \in Seq(SUBSET Pieces) /\ Sound(manifest, holes)
      /\ manifest.punched \in SUBSET Nat
      /\ DOMAIN blocks = 1 .. Len(blocks) /\ Len(blocks) \in Nat
      /\ DOMAIN manifest.blocks = 1 .. Len(manifest.blocks) /\ Len(manifest.blocks) \in Nat
  BY ManifestIs DEF FoldFacts
<1>2. m = [manifest EXCEPT !.blocks = blocks, !.punched = manifest.punched \cup Dead]
  BY <1>1 DEF Declared, Seals, ManifestType
<1>3. /\ m.next_seq = manifest.next_seq /\ m.parts = manifest.parts /\ m.gen = manifest.gen
      /\ m.blocks = blocks /\ m.punched = manifest.punched \cup Dead
  BY <1>1, <1>2 DEF ManifestType
<1>4. /\ Dead \subseteq DOMAIN blocks
      /\ \A l \in LivePieces(manifest.parts) : l[1] \notin Dead
  BY DEF Dead
<1>5. m \in ManifestType
  <2>1. manifest.punched \cup Dead \in SUBSET Nat /\ blocks \in FoldType
    BY <1>1, <1>4 DEF FoldType
  <2> QED
    BY <1>1, <1>2, <2>1 DEF ManifestType
<1>6. /\ Chain(manifest.parts, manifest.next_seq) /\ manifest.punched \subseteq DOMAIN manifest.blocks
      /\ Mapped(manifest) /\ Backed(manifest) /\ Whole(manifest, holes)
  BY <1>1, SoundIs
<1>7. \A b \in DOMAIN manifest.blocks : b \in DOMAIN blocks /\ blocks[b] = manifest.blocks[b]
  BY <1>1 DEF FoldFacts, FoldsOn
<1>8. Mapped(m)
  BY <1>3, <1>6, <1>7 DEF Mapped
<1>9. Backed(m)
  <2>1. ASSUME NEW i \in DOMAIN m.parts, NEW id \in Visible(m.parts, i), NEW p \in m.parts[i].rows[id]
        PROVE  p \in DOMAIN m.parts[i].dict /\ m.parts[i].dict[p] \notin m.punched
    <3>1. p \in DOMAIN m.parts[i].dict /\ m.parts[i].dict[p] \notin manifest.punched
      BY <1>3, <1>6 DEF Backed
    <3>2. <<m.parts[i].dict[p], p>> \in LivePieces(manifest.parts)
      BY <1>3, LiveIs
    <3>3. m.parts[i].dict[p] \notin Dead
      BY <1>4, <3>2
    <3> QED
      BY <1>3, <3>1, <3>3
  <2> QED
    BY <2>1 DEF Backed
<1>10. Sound(m, holes)
  <2>1. Whole(m, holes)
    BY <1>3, <1>6 DEF Whole
  <2>2. m.punched \subseteq DOMAIN m.blocks
    BY <1>3, <1>4, <1>6, <1>7
  <2> QED
    BY <1>3, <1>5, <1>6, <1>8, <1>9, <2>1, <2>2, SoundIs
<1>11. Maintained(manifest, m)
  <2>1. \A p \in Pieces : Locating(m, p) # {} => Locating(manifest, p) # {}
    BY <1>3 DEF Locating
  <2> QED
    BY <1>3, <2>1 DEF Maintained, SameView, Shows
<1>12. ASSUME Anchored(manifest, window)
       PROVE  /\ Anchored(m, window)
              /\ \A p \in DOMAIN window : window[p] \notin m.punched /\ Locating(m, p) # {}
  <2>1. Anchored(m, window)
    BY <1>3, <1>12 DEF Anchored
  <2>2. ASSUME NEW p \in DOMAIN window PROVE window[p] \notin m.punched /\ Locating(m, p) # {}
    <3>1. <<window[p], p>> \in LivePieces(m.parts)
      BY <2>1 DEF Anchored
    <3>2. window[p] \notin Dead
      BY <1>3, <1>4, <3>1
    <3>3. window[p] \notin m.punched
      BY <1>3, <3>2 DEF FoldFacts, FoldsOn
    <3>4. PICK i \in DOMAIN m.parts : \E id \in Visible(m.parts, i) : \E q \in m.parts[i].rows[id] :
              <<window[p], p>> = <<m.parts[i].dict[q], q>>
      BY <3>1, LiveIs
    <3>5. p \in DOMAIN m.parts[i].dict /\ m.parts[i].dict[p] = window[p]
      BY <1>9, <3>4 DEF Backed
    <3> QED
      BY <3>3, <3>5 DEF Locating
  <2> QED
    BY <2>1, <2>2
<1> QED
  BY <1>3, <1>5, <1>10, <1>11, <1>12

-----------------------------------------------------------------------------
(* ... and a refold. *)

\* Two stacks of parts whose deciding records are the same show the same.
LEMMA SameLive ==
    ASSUME NEW P \in Seq(PartType), NEW Q \in Seq(PartType),
           \A id : \A k \in DOMAIN Q : id \in Visible(Q, k) =>
               \E i \in DOMAIN P : id \in Visible(P, i) /\ Q[k].rows[id] = P[i].rows[id],
           \A id : \A i \in DOMAIN P : id \in Visible(P, i) =>
               \E k \in DOMAIN Q : id \in Visible(Q, k) /\ Q[k].rows[id] = P[i].rows[id],
           NEW f \in Rows
    PROVE  Shown(Over(NewestRows(Q), f)) = Shown(Over(NewestRows(P), f))
<1> PICK u, v : u = NewestRows(P) /\ v = NewestRows(Q)
  OBVIOUS
<1>1. u \in Rows /\ v \in Rows
  BY PartIs
<1> PICK a, b : a = Over(u, f) /\ b = Over(v, f)
  OBVIOUS
<1>2. /\ DOMAIN a = DOMAIN u \cup DOMAIN f /\ DOMAIN b = DOMAIN v \cup DOMAIN f
      /\ \A id \in DOMAIN f : a[id] = f[id] /\ b[id] = f[id]
      /\ \A id \in DOMAIN u : id \notin DOMAIN f => a[id] = u[id]
      /\ \A id \in DOMAIN v : id \notin DOMAIN f => b[id] = v[id]
  <2>1. /\ Over(u, f) \in Rows /\ DOMAIN Over(u, f) = DOMAIN u \cup DOMAIN f
        /\ \A id \in DOMAIN f : Over(u, f)[id] = f[id]
        /\ \A id \in DOMAIN u : id \notin DOMAIN f => Over(u, f)[id] = u[id]
    BY <1>1, OverIs
  <2>2. /\ Over(v, f) \in Rows /\ DOMAIN Over(v, f) = DOMAIN v \cup DOMAIN f
        /\ \A id \in DOMAIN f : Over(v, f)[id] = f[id]
        /\ \A id \in DOMAIN v : id \notin DOMAIN f => Over(v, f)[id] = v[id]
    BY <1>1, OverIs
  <2> QED
    BY <2>1, <2>2
<1>3. ASSUME NEW id \in Ids
      PROVE  (IF id \notin DOMAIN b \/ b[id] = Deleted THEN Absent ELSE b[id])
             = (IF id \notin DOMAIN a \/ a[id] = Deleted THEN Absent ELSE a[id])
  <2>1. CASE id \in DOMAIN f
    BY <1>2, <2>1
  <2>2. CASE id \notin DOMAIN f /\ id \in LiveIds(P)
    <3>1. PICK i \in DOMAIN P : id \in Visible(P, i)
      BY <2>2, Decides
    <3>2. PICK k \in DOMAIN Q : id \in Visible(Q, k) /\ Q[k].rows[id] = P[i].rows[id]
      BY <3>1
    <3>3. id \in DOMAIN u /\ u[id] = P[i].rows[id]
      BY <3>1, Decides
    <3>4. id \in DOMAIN v /\ v[id] = Q[k].rows[id]
      BY <3>2, Decides
    <3> QED
      BY <1>2, <2>2, <3>2, <3>3, <3>4
  <2>3. CASE id \notin DOMAIN f /\ id \notin LiveIds(P)
    <3>1. id \notin DOMAIN u \/ u[id] = Deleted
      BY <2>3, Decides
    <3>2. id \notin LiveIds(Q)
      <4>1. ASSUME id \in LiveIds(Q) PROVE FALSE
        <5>1. PICK k \in DOMAIN Q : id \in Visible(Q, k)
          BY <4>1, Decides
        <5>2. PICK i \in DOMAIN P : id \in Visible(P, i)
          BY <5>1
        <5> QED
          BY <2>3, <5>2, Decides
      <4> QED
        BY <4>1
    <3>3. id \notin DOMAIN v \/ v[id] = Deleted
      BY <3>2, Decides
    <3> QED
      BY <1>2, <2>3, <3>1, <3>3
  <2> QED
    BY <2>1, <2>2, <2>3
<1> QED
  BY <1>3 DEF Shown

LEMMA WantedIs ==
    ASSUME manifest \in ManifestType
    PROVE  /\ Wanted \in SUBSET Pieces
           /\ \A p : p \in Wanted <=> \E i \in DOMAIN manifest.parts : \E id \in Visible(manifest.parts, i) :
                                          p \in manifest.parts[i].rows[id]
<1> PICK P : P = manifest.parts
  OBVIOUS
<1>1. P = manifest.parts /\ P \in Seq(PartType)
  BY ManifestIs
<1>2. ASSUME NEW p, p \in Wanted
      PROVE  \E i \in DOMAIN P : \E id \in Visible(P, i) : p \in P[i].rows[id]
  <2>1. PICK l \in LivePieces(P) : p = l[2]
    BY <1>1, <1>2 DEF Wanted
  <2>2. PICK i \in DOMAIN P : \E id \in Visible(P, i) : \E q \in P[i].rows[id] : l = <<P[i].dict[q], q>>
    BY <2>1, LiveIs
  <2> QED
    BY <2>1, <2>2
<1>3. ASSUME NEW i \in DOMAIN P, NEW id \in Visible(P, i), NEW p \in P[i].rows[id]
      PROVE  p \in Wanted /\ p \in Pieces
  <2>1. <<P[i].dict[p], p>> \in LivePieces(P)
    BY LiveIs
  <2>2. P[i].rows[id] \in Values
    <3>1. \A j \in DOMAIN P : id \in Visible(P, j) => P[j].rows[id] \in Values
      BY <1>1, Decides
    <3> QED
      BY <3>1
  <2>3. p \in Pieces
    BY <2>2, ContentAssumption DEF ContentAssumption
  <2>4. <<P[i].dict[p], p>>[2] = p
    OBVIOUS
  <2>5. p \in {l[2] : l \in LivePieces(P)}
    BY <2>1, <2>4
  <2> QED
    BY <1>1, <2>3, <2>5 DEF Wanted
<1>4. ASSUME NEW p \in Wanted PROVE p \in Pieces
  BY <1>2, <1>3
<1> QED
  BY <1>1, <1>2, <1>3, <1>4

\* The parts of a refolded manifest: one per part of P that keeps a record, in
\* the same order, or one empty part.
Keeps(P, Q, at, S, K, c) ==
    /\ S = {i \in DOMAIN P : Visible(P, i) # {}} /\ K = InOrder(S) /\ c = Cardinality(S)
    /\ c = 0 => Q = <<[lo |-> P[1].lo, hi |-> P[Len(P)].hi, rows |-> NoRows, dict |-> None]>>
    /\ c # 0 => Q = [k \in 1 .. c |->
                      [lo   |-> IF k = 1 THEN P[1].lo ELSE P[K[k - 1]].hi + 1,
                       hi   |-> IF k = c THEN P[Len(P)].hi ELSE P[K[k]].hi,
                       rows |-> VisibleRows(P, K[k]),
                       dict |-> [p \in Named(VisibleRows(P, K[k])) |-> at[p]]]]

LEMMA KeepsIs ==
    ASSUME manifest \in ManifestType, NEW at
    PROVE  \E S, K, c : Keeps(manifest.parts, RefoldedParts(at), at, S, K, c)
<1> PICK P : P = manifest.parts
  OBVIOUS
<1> PICK S : S = {i \in DOMAIN P : Visible(P, i) # {}}
  OBVIOUS
<1> PICK K : K = InOrder(S)
  OBVIOUS
<1> PICK c : c = Cardinality(S)
  OBVIOUS
<1>1. DOMAIN P = 1 .. Len(P) /\ Len(P) \in Nat
  BY ManifestIs
<1>2. S \in SUBSET (1 .. Len(P))
  BY <1>1
<1>3. IsInOrder(K, S)
  BY <1>1, <1>2, InOrderIs
<1>4. DOMAIN K = 1 .. c /\ Len(K) = c /\ c \in Nat
  BY <1>3 DEF IsInOrder
<1>5. K = <<>> <=> c = 0
  <2>1. S = {} <=> c = 0
    <3>1. IsFiniteSet(1 .. Len(P))
      BY <1>1, FS_Interval
    <3>2. IsFiniteSet(S)
      BY <1>2, <3>1, FS_Subset
    <3> QED
      BY <3>2, FS_EmptySet
  <2> QED
    BY <1>3, <2>1 DEF IsInOrder
<1>6. RefoldedParts(at) =
        IF K = <<>>
        THEN <<[lo |-> P[1].lo, hi |-> P[Len(P)].hi, rows |-> NoRows, dict |-> None]>>
        ELSE [k \in DOMAIN K |->
               [lo |-> IF k = 1 THEN P[1].lo ELSE P[K[k - 1]].hi + 1,
                hi |-> IF k = Len(K) THEN P[Len(P)].hi ELSE P[K[k]].hi,
                rows |-> VisibleRows(P, K[k]),
                dict |-> [p \in Named(VisibleRows(P, K[k])) |-> at[p]]]]
  BY DEF RefoldedParts
<1> PICK Q : Q = RefoldedParts(at)
  OBVIOUS
<1>7. Keeps(P, Q, at, S, K, c)
  <2>1. c = 0 => Q = <<[lo |-> P[1].lo, hi |-> P[Len(P)].hi, rows |-> NoRows, dict |-> None]>>
    BY <1>5, <1>6
  <2>2. c # 0 => Q = [k \in 1 .. c |->
                      [lo   |-> IF k = 1 THEN P[1].lo ELSE P[K[k - 1]].hi + 1,
                       hi   |-> IF k = c THEN P[Len(P)].hi ELSE P[K[k]].hi,
                       rows |-> VisibleRows(P, K[k]),
                       dict |-> [p \in Named(VisibleRows(P, K[k])) |-> at[p]]]]
    BY <1>4, <1>5, <1>6
  <2> QED
    BY <2>1, <2>2 DEF Keeps
<1> QED
  BY <1>7

\* A row of a part that shows, alone.
LEMMA VisibleRowsAre ==
    ASSUME NEW P \in Seq(PartType), NEW i \in DOMAIN P
    PROVE  /\ VisibleRows(P, i) \in Rows /\ DOMAIN VisibleRows(P, i) = Visible(P, i)
           /\ \A id \in Visible(P, i) : VisibleRows(P, i)[id] = P[i].rows[id] /\ P[i].rows[id] # Deleted
           /\ \A p : p \in Named(VisibleRows(P, i)) <=> \E id \in Visible(P, i) : p \in P[i].rows[id]
           /\ Named(VisibleRows(P, i)) \subseteq Pieces
<1> PICK r : r = VisibleRows(P, i)
  OBVIOUS
<1>1. /\ r = [id \in DOMAIN r |-> r[id]] /\ DOMAIN r = Visible(P, i)
      /\ \A id \in Visible(P, i) : r[id] = P[i].rows[id] /\ P[i].rows[id] # Deleted
  BY DEF VisibleRows, Visible
<1>2. \A id \in Visible(P, i) : id \in Ids /\ P[i].rows[id] \in Values
  BY Decides
<1>3. r \in Rows
  BY <1>1, <1>2, RowsAre
<1>4. \A p : p \in Named(r) <=> \E id \in Visible(P, i) : p \in P[i].rows[id]
  BY <1>1, NamedIs
<1> QED
  BY <1>1, <1>3, <1>4, NamedPieces

LEMMA NoneNamed == Named(NoRows) = {}
<1>1. DOMAIN NoRows = {}
  BY NoRowsIs
<1> QED
  BY <1>1 DEF Named

\* Nothing is left beside the deciding records: no other row, and no mapping that
\* no row needs.
Cleared(parts) ==
    \A i \in DOMAIN parts : DOMAIN parts[i].rows = Visible(parts, i) /\ DOMAIN parts[i].dict = Named(parts[i].rows)

\* What refolded parts are made of: the deciding records, each with its pieces
\* where the copy has them.
Refolding(P, Q, at, next) ==
    /\ Q \in Seq(PartType) /\ Chain(Q, next) /\ Cleared(Q)
    /\ \A k \in DOMAIN Q : \A id \in Visible(Q, k) :
          \E i \in DOMAIN P : id \in Visible(P, i) /\ Q[k].rows[id] = P[i].rows[id]
    /\ \A i \in DOMAIN P : \A id \in Visible(P, i) :
          \E k \in DOMAIN Q : id \in Visible(Q, k) /\ Q[k].rows[id] = P[i].rows[id]
    /\ \A k \in DOMAIN Q : \A id \in Visible(Q, k) : \A p \in Q[k].rows[id] : p \in DOMAIN Q[k].dict
    /\ \A k \in DOMAIN Q : \A p \in DOMAIN Q[k].dict :
          Q[k].dict[p] = at[p] /\ \E i \in DOMAIN P : \E id \in Visible(P, i) : p \in P[i].rows[id]

\* The first interval begins where the first part does, every other after the
\* part kept before it.
Joined(P, Q, K, c) ==
    /\ DOMAIN Q = 1 .. c
    /\ \A k \in 1 .. c : /\ Q[k].lo = IF k = 1 THEN P[1].lo ELSE P[K[k - 1]].hi + 1
                         /\ Q[k].hi = IF k = c THEN P[Len(P)].hi ELSE P[K[k]].hi

LEMMA IntervalsJoin ==
    ASSUME NEW P \in Seq(PartType), NEW next, Chain(P, next), NEW S \in SUBSET (DOMAIN P), S # {}, NEW K, IsInOrder(K, S),
           NEW c, c = Cardinality(S), NEW Q \in Seq(PartType), Joined(P, Q, K, c)
    PROVE  Chain(Q, next)
<1> PICK n : n = Len(P)
  OBVIOUS
<1>0. /\ DOMAIN Q = 1 .. c
      /\ \A k \in 1 .. c : /\ Q[k].lo = IF k = 1 THEN P[1].lo ELSE P[K[k - 1]].hi + 1
                           /\ Q[k].hi = IF k = c THEN P[n].hi ELSE P[K[k]].hi
  BY DEF Joined
<1>1. /\ n \in Nat /\ n = Len(P) /\ DOMAIN P = 1 .. n
      /\ \A i \in 1 .. n : P[i].lo \in Nat /\ P[i].hi \in Nat
      /\ \A i \in 1 .. n : P[i].lo = (IF i = 1 THEN 1 ELSE P[i - 1].hi + 1) /\ P[i].lo <= P[i].hi
      /\ next = IF n = 0 THEN 0 ELSE P[n].hi
  BY PartIs DEF Chain
<1>2. /\ c \in Nat /\ DOMAIN K = 1 .. c
      /\ \A k \in 1 .. c : K[k] \in 1 .. n
      /\ \A j, k \in 1 .. c : j < k => K[j] < K[k]
  BY <1>1 DEF IsInOrder
<1>3. c # 0
  <2>1. \E s \in S : TRUE
    OBVIOUS
  <2> QED
    BY <1>2, <2>1 DEF IsInOrder
<1>4. Len(Q) = c
  BY <1>0, <1>2, LenProperties
<1>5. n # 0 /\ 1 \in 1 .. n /\ n \in 1 .. n
  <2>1. K[1] \in 1 .. n
    BY <1>2, <1>3
  <2> QED
    BY <1>1, <2>1
<1>6. ASSUME NEW i \in 1 .. n, NEW j \in 1 .. n, i <= j PROVE P[i].hi <= P[j].hi
  BY <1>1, <1>6, HiGrows
<1>7. ASSUME NEW k \in 1 .. c PROVE P[K[k]].hi <= Q[k].hi
  <2>1. CASE k = c
    <3>1. K[k] \in 1 .. n /\ K[k] <= n
      BY <1>1, <1>2
    <3>2. P[K[k]].hi <= P[n].hi
      BY <1>5, <1>6, <3>1
    <3> QED
      BY <1>0, <1>1, <2>1, <3>2
  <2>2. CASE k # c
    <3>1. P[K[k]].hi \in Nat
      BY <1>1, <1>2
    <3> QED
      BY <1>0, <2>2, <3>1
  <2> QED
    BY <2>1, <2>2
<1>8. ASSUME NEW k \in 1 .. c
      PROVE  Q[k].lo = (IF k = 1 THEN 1 ELSE Q[k - 1].hi + 1) /\ Q[k].lo <= Q[k].hi
  <2>1. K[k] \in 1 .. n /\ P[K[k]].hi <= Q[k].hi /\ P[K[k]].hi \in Nat
    BY <1>1, <1>2, <1>7
  <2>2. Q[k].hi \in Nat
    <3>1. Q[k].hi = P[n].hi \/ Q[k].hi = P[K[k]].hi
      BY <1>0, <1>1
    <3> QED
      BY <1>1, <1>5, <2>1, <3>1
  <2>3. CASE k = 1
    <3>1. P[1].lo = 1 /\ P[1].lo <= P[1].hi /\ P[1].hi \in Nat
      BY <1>1, <1>5
    <3>2. P[1].hi <= P[K[k]].hi
      <4>1. 1 <= K[k]
        BY <2>1
      <4> QED
        BY <1>5, <1>6, <2>1, <4>1
    <3> PICK a, b, d : a = P[1].hi /\ b = P[K[k]].hi /\ d = Q[k].hi
      OBVIOUS
    <3>3. 1 <= d
      BY <2>1, <2>2, <3>1, <3>2
    <3> QED
      BY <1>0, <2>3, <3>1, <3>3
  <2>4. CASE k # 1
    <3> PICK j : j = k - 1
      OBVIOUS
    <3> PICK i : i = K[j]
      OBVIOUS
    <3> PICK h : h = i + 1
      OBVIOUS
    <3>1. j \in 1 .. c /\ j < k /\ j # c /\ k \in Nat
      BY <1>2, <2>4
    <3>2. i \in 1 .. n /\ i < K[k] /\ i \in Nat /\ K[k] \in Nat
      BY <1>1, <1>2, <2>1, <3>1
    <3>3. Q[j].hi = P[i].hi /\ Q[k].lo = P[i].hi + 1
      BY <1>0, <2>4, <3>1
    <3>4. h \in 1 .. n /\ h <= K[k] /\ h # 1 /\ h - 1 = i
      <4> PICK b : b = K[k]
        OBVIOUS
      <4>1. n \in Nat /\ i \in Nat /\ 1 <= i /\ i < b /\ b \in Nat /\ b <= n /\ h = i + 1
        BY <1>1, <2>1, <3>2
      <4>2. h \in 1 .. n /\ h <= b /\ h # 1 /\ h - 1 = i
        BY ONLY <4>1
      <4> QED
        BY <4>2
    <3>5. P[h].lo = P[i].hi + 1 /\ P[h].lo <= P[h].hi
      <4>1. P[h].lo = P[h - 1].hi + 1 /\ P[h].lo <= P[h].hi
        BY <1>1, <3>4
      <4> QED
        BY <3>4, <4>1
    <3>6. P[h].hi <= P[K[k]].hi
      BY <1>6, <2>1, <3>4
    <3> PICK a, b, d, e : a = P[i].hi /\ b = P[h].hi /\ d = P[K[k]].hi /\ e = Q[k].hi
      OBVIOUS
    <3>7. a \in Nat /\ b \in Nat /\ d \in Nat /\ e \in Nat /\ a + 1 <= b /\ b <= d /\ d <= e
      BY <1>1, <2>1, <2>2, <3>2, <3>4, <3>5, <3>6
    <3>8. a + 1 <= e
      BY ONLY <3>7
    <3> QED
      BY <2>4, <3>3, <3>8
  <2> QED
    BY <2>3, <2>4
<1>9. next = Q[c].hi
  BY <1>0, <1>1, <1>2, <1>3, <1>5
<1> QED
  BY <1>0, <1>3, <1>4, <1>8, <1>9 DEF Chain

\* x keeps of the part y the records of the ids vis, with pieces where at has them.
Kept(x, y, vis, at) ==
    /\ x \in PartType
    /\ DOMAIN x.rows = vis /\ \A id \in vis : x.rows[id] = y.rows[id] /\ x.rows[id] # Deleted
    /\ \A p : p \in DOMAIN x.dict <=> \E id \in vis : p \in y.rows[id]
    /\ \A p \in DOMAIN x.dict : x.dict[p] = at[p]

LEMMA KeptIs ==
    ASSUME NEW P \in Seq(PartType), NEW i \in DOMAIN P, NEW lo \in Nat, NEW hi \in Nat, NEW at \in DictType,
           \A id \in Visible(P, i) : P[i].rows[id] \subseteq DOMAIN at,
           NEW x, x = [lo |-> lo, hi |-> hi, rows |-> VisibleRows(P, i),
                       dict |-> [p \in Named(VisibleRows(P, i)) |-> at[p]]]
    PROVE  Kept(x, P[i], Visible(P, i), at) /\ x.lo = lo /\ x.hi = hi
<1> PICK r : r = VisibleRows(P, i)
  OBVIOUS
<1> PICK d : d = [p \in Named(r) |-> at[p]]
  OBVIOUS
<1>1. /\ r \in Rows /\ DOMAIN r = Visible(P, i)
      /\ \A id \in Visible(P, i) : r[id] = P[i].rows[id] /\ P[i].rows[id] # Deleted
      /\ \A p : p \in Named(r) <=> \E id \in Visible(P, i) : p \in P[i].rows[id]
      /\ Named(r) \subseteq Pieces
  BY VisibleRowsAre
<1>2. d = [p \in DOMAIN d |-> d[p]] /\ DOMAIN d = Named(r) /\ \A p \in Named(r) : d[p] = at[p]
  OBVIOUS
<1>3. \A p \in Named(r) : at[p] \in Nat
  BY <1>1, DictIs
<1>4. d \in DictType
  BY <1>1, <1>2, <1>3, DictIs
<1>5. x = [lo |-> lo, hi |-> hi, rows |-> r, dict |-> d]
  OBVIOUS
<1>6. x \in PartType /\ x.rows = r /\ x.dict = d /\ x.lo = lo /\ x.hi = hi
  BY <1>1, <1>4, <1>5 DEF PartType
<1> QED
  BY <1>1, <1>2, <1>6 DEF Kept

LEMMA RefoldingIs ==
    ASSUME manifest \in ManifestType, Chain(manifest.parts, manifest.next_seq), manifest.parts # <<>>,
           NEW at \in DictType, DOMAIN at = Wanted
    PROVE  Refolding(manifest.parts, RefoldedParts(at), at, manifest.next_seq)
<1> PICK P, Q : P = manifest.parts /\ Q = RefoldedParts(at)
  OBVIOUS
<1>0. Chain(P, manifest.next_seq) /\ manifest.next_seq \in Nat /\ P # <<>>
  BY ManifestIs
<1>1. /\ P \in Seq(PartType) /\ P = manifest.parts /\ Q = RefoldedParts(at) /\ DOMAIN P = 1 .. Len(P)
      /\ Len(P) \in Nat /\ Len(P) # 0
      /\ \A i \in 1 .. Len(P) : P[i].lo \in Nat /\ P[i].hi \in Nat
  <2>1. P \in Seq(PartType) /\ DOMAIN P = 1 .. Len(P) /\ Len(P) \in Nat
    BY ManifestIs
  <2>2. Len(P) # 0
    BY <1>0, <2>1
  <2>3. \A i \in 1 .. Len(P) : P[i].lo \in Nat /\ P[i].hi \in Nat
    BY <2>1, PartIs
  <2> QED
    BY <2>1, <2>2, <2>3
<1>2. PICK S, K, c : Keeps(P, Q, at, S, K, c)
  BY <1>1, KeepsIs
<1>3. S \in SUBSET (1 .. Len(P)) /\ S = {i \in DOMAIN P : Visible(P, i) # {}}
  BY <1>1, <1>2 DEF Keeps
<1>4. IsInOrder(K, S) /\ c = Cardinality(S)
  BY <1>1, <1>2, <1>3, InOrderIs DEF Keeps
<1>5. /\ c \in Nat /\ DOMAIN K = 1 .. c
      /\ \A k \in 1 .. c : K[k] \in S
      /\ \A j, k \in 1 .. c : j < k => K[j] < K[k]
      /\ \A s \in S : \E k \in 1 .. c : K[k] = s
  BY <1>4 DEF IsInOrder
<1>6. NoRows \in Rows /\ DOMAIN NoRows = {} /\ None \in DictType /\ DOMAIN None = {}
  BY NoRowsIs, NoneIs
<1>7. 1 \in 1 .. Len(P) /\ Len(P) \in 1 .. Len(P)
  BY <1>1
<1>8. CASE c = 0
  <2> PICK x : x = [lo |-> P[1].lo, hi |-> P[Len(P)].hi, rows |-> NoRows, dict |-> None]
    OBVIOUS
  <2>1. Q = <<x>>
    BY <1>2, <1>8 DEF Keeps
  <2>2. x \in PartType /\ x.rows = NoRows /\ x.dict = None /\ x.lo = P[1].lo /\ x.hi = P[Len(P)].hi
    BY <1>1, <1>6, <1>7 DEF PartType
  <2>3. Q \in Seq(PartType) /\ Len(Q) = 1 /\ DOMAIN Q = {1} /\ Q[1] = x
    BY <2>1, <2>2
  <2>4. Chain(Q, manifest.next_seq)
    <3>1. P[1].lo = 1 /\ manifest.next_seq = P[Len(P)].hi /\ P[1].lo <= P[1].hi
      BY <1>0, <1>1, <1>7 DEF Chain
    <3>2. P[1].hi <= P[Len(P)].hi
      BY <1>0, <1>1, <1>7, HiGrows
    <3>3. P[1].hi \in Nat /\ P[Len(P)].hi \in Nat
      BY <1>1, <1>7
    <3>4. x.lo <= x.hi
      BY <2>2, <3>1, <3>2, <3>3
    <3> QED
      BY <2>2, <2>3, <3>1, <3>4 DEF Chain
  <2>5. \A k \in DOMAIN Q : Visible(Q, k) = {} /\ DOMAIN Q[k].dict = {}
    BY <1>6, <2>2, <2>3 DEF Visible
  <2>6. \A i \in DOMAIN P : Visible(P, i) = {}
    <3>1. IsFiniteSet(S)
      <4>1. IsFiniteSet(1 .. Len(P))
        BY <1>1, FS_Interval
      <4> QED
        BY <1>3, <4>1, FS_Subset
    <3>2. S = {}
      BY <1>4, <1>8, <3>1, FS_EmptySet
    <3> QED
      BY <1>3, <3>2
  <2>7. Cleared(Q)
    BY <1>6, <2>2, <2>3, <2>5, NoneNamed DEF Cleared
  <2> QED
    BY <1>1, <2>3, <2>4, <2>5, <2>6, <2>7 DEF Refolding
<1>9. CASE c # 0
  <2>1. /\ DOMAIN Q = 1 .. c /\ Q = [k \in 1 .. c |-> Q[k]]
        /\ \A k \in 1 .. c : Q[k] = [lo   |-> IF k = 1 THEN P[1].lo ELSE P[K[k - 1]].hi + 1,
                                     hi   |-> IF k = c THEN P[Len(P)].hi ELSE P[K[k]].hi,
                                     rows |-> VisibleRows(P, K[k]),
                                     dict |-> [p \in Named(VisibleRows(P, K[k])) |-> at[p]]]
    BY <1>2, <1>9 DEF Keeps
  <2>2. \A k \in 1 .. c : K[k] \in 1 .. Len(P) /\ K[k] \in DOMAIN P
    BY <1>1, <1>3, <1>5
  <2>3. ASSUME NEW k \in 1 .. c
        PROVE  /\ Q[k].lo = IF k = 1 THEN P[1].lo ELSE P[K[k - 1]].hi + 1
               /\ Q[k].hi = IF k = c THEN P[Len(P)].hi ELSE P[K[k]].hi
               /\ Kept(Q[k], P[K[k]], Visible(P, K[k]), at)
    <3> PICK i, x : i = K[k] /\ x = Q[k]
      OBVIOUS
    <3> PICK lo : lo = IF k = 1 THEN P[1].lo ELSE P[K[k - 1]].hi + 1
      OBVIOUS
    <3> PICK hi : hi = IF k = c THEN P[Len(P)].hi ELSE P[K[k]].hi
      OBVIOUS
    <3>1. lo \in Nat
      <4>1. CASE k = 1
        BY <1>1, <1>7, <4>1
      <4>2. CASE k # 1
        <5> PICK j : j = K[k - 1]
          OBVIOUS
        <5>1. k - 1 \in 1 .. c
          BY <1>5, <4>2
        <5>2. P[j].hi \in Nat
          BY <1>1, <2>2, <5>1
        <5>3. lo = P[j].hi + 1
          BY <4>2
        <5> QED
          BY <5>2, <5>3
      <4> QED
        BY <4>1, <4>2
    <3>2. hi \in Nat
      BY <1>1, <1>7, <2>2
    <3>3. x = [lo |-> lo, hi |-> hi, rows |-> VisibleRows(P, i),
               dict |-> [p \in Named(VisibleRows(P, i)) |-> at[p]]]
      BY <2>1
    <3>4. i \in DOMAIN P /\ P \in Seq(PartType)
      BY <1>1, <2>2
    <3>5. \A id \in Visible(P, i) : P[i].rows[id] \subseteq DOMAIN at
      <4>1. \A id \in Visible(P, i) : \A p \in P[i].rows[id] : p \in Wanted
        BY <1>1, <3>4, WantedIs
      <4> QED
        BY <4>1
    <3>6. Kept(x, P[i], Visible(P, i), at) /\ x.lo = lo /\ x.hi = hi
      BY ONLY <3>1, <3>2, <3>3, <3>4, <3>5, at \in DictType, KeptIs
    <3> QED
      BY <3>6
  <2>7. Q \in Seq(PartType)
    <3>1. Q \in [1 .. c -> PartType]
      BY <2>1, <2>3 DEF Kept
    <3> QED
      BY <1>5, <3>1
  <2>8. Chain(Q, manifest.next_seq)
    <3>1. S # {} /\ S \in SUBSET (DOMAIN P)
      BY <1>1, <1>3, <1>5, <1>9
    <3> PICK next : next = manifest.next_seq
      OBVIOUS
    <3>2. Joined(P, Q, K, c)
      BY <2>1, <2>3 DEF Joined
    <3>3. P \in Seq(PartType) /\ Chain(P, next)
      BY <1>0, <1>1
    <3>4. Chain(Q, next)
      BY ONLY <1>4, <2>7, <3>1, <3>2, <3>3, IntervalsJoin
    <3> QED
      BY <3>4
  <2>9. ASSUME NEW k \in 1 .. c, NEW id PROVE id \in Visible(Q, k) <=> id \in Visible(P, K[k])
    <3>1. ASSUME id \in Visible(Q, k) PROVE id \in Visible(P, K[k])
      BY <2>3, <3>1 DEF Visible, Kept
    <3>2. ASSUME id \in Visible(P, K[k]) PROVE id \in Visible(Q, k)
      <4>1. id \in DOMAIN Q[k].rows /\ Q[k].rows[id] # Deleted
        BY <2>3, <3>2 DEF Kept
      <4>2. ASSUME NEW j \in DOMAIN Q, id \in DOMAIN Q[j].rows PROVE j = k
        <5>1. j \in 1 .. c /\ id \in Visible(P, K[j])
          BY <2>1, <2>3, <4>2 DEF Kept
        <5>2. Owner(P, id) = K[j] /\ Owner(P, id) = K[k]
          BY <3>2, <5>1 DEF Visible
        <5>3. ~(j < k) /\ ~(k < j)
          <6>1. K[j] = K[k] /\ K[j] \in Nat
            BY <2>2, <5>1, <5>2
          <6>2. ~(K[j] < K[k]) /\ ~(K[k] < K[j])
            BY <6>1
          <6> QED
            BY <1>5, <5>1, <6>2
        <5> QED
          BY <1>5, <5>1, <5>3
      <4>3. LastWith(Q, id, k)
        BY <2>1, <4>1, <4>2 DEF LastWith
      <4>4. k \in DOMAIN Q
        BY <2>1
      <4> QED
        BY <2>7, <4>1, <4>3, <4>4, VisibleIs
    <3> QED
      BY <3>1, <3>2
  <2>10. ASSUME NEW k \in DOMAIN Q, NEW id \in Visible(Q, k)
         PROVE  /\ \E i \in DOMAIN P : id \in Visible(P, i) /\ Q[k].rows[id] = P[i].rows[id]
                /\ \A p \in Q[k].rows[id] : p \in DOMAIN Q[k].dict
    <3>1. k \in 1 .. c /\ id \in Visible(P, K[k])
      BY <2>1, <2>9
    <3>2. Q[k].rows[id] = P[K[k]].rows[id]
      BY <2>3, <3>1 DEF Kept
    <3>3. \A p \in Q[k].rows[id] : p \in DOMAIN Q[k].dict
      BY <2>3, <3>1, <3>2 DEF Kept
    <3> QED
      BY <2>2, <3>1, <3>2, <3>3
  <2>11. ASSUME NEW i \in DOMAIN P, NEW id \in Visible(P, i)
         PROVE  \E k \in DOMAIN Q : id \in Visible(Q, k) /\ Q[k].rows[id] = P[i].rows[id]
    <3>1. i \in S
      BY <1>3
    <3>2. PICK k \in 1 .. c : K[k] = i
      BY <1>5, <3>1
    <3>3. id \in Visible(Q, k) /\ Q[k].rows[id] = P[i].rows[id]
      BY <2>3, <2>9, <3>2 DEF Kept
    <3> QED
      BY <2>1, <3>3
  <2>12. ASSUME NEW k \in DOMAIN Q, NEW p \in DOMAIN Q[k].dict
         PROVE  Q[k].dict[p] = at[p] /\ \E i \in DOMAIN P : \E id \in Visible(P, i) : p \in P[i].rows[id]
    <3>1. k \in 1 .. c
      BY <2>1
    <3>2. Q[k].dict[p] = at[p] /\ \E id \in Visible(P, K[k]) : p \in P[K[k]].rows[id]
      BY <2>3, <3>1 DEF Kept
    <3> QED
      BY <2>2, <3>1, <3>2
  <2>13. Cleared(Q)
    <3>1. ASSUME NEW k \in DOMAIN Q PROVE DOMAIN Q[k].rows = Visible(Q, k) /\ DOMAIN Q[k].dict = Named(Q[k].rows)
      <4>1. k \in 1 .. c
        BY <2>1
      <4>2. DOMAIN Q[k].rows = Visible(P, K[k]) /\ \A id \in Visible(P, K[k]) : Q[k].rows[id] = P[K[k]].rows[id]
        BY <2>3, <4>1 DEF Kept
      <4>3. DOMAIN Q[k].rows = Visible(Q, k)
        BY <2>9, <4>1, <4>2 DEF Visible
      <4> PICK r : r = VisibleRows(P, K[k])
        OBVIOUS
      <4> PICK d : d = [p \in Named(r) |-> at[p]]
        OBVIOUS
      <4> PICK lo : lo = IF k = 1 THEN P[1].lo ELSE P[K[k - 1]].hi + 1
        OBVIOUS
      <4> PICK hi : hi = IF k = c THEN P[Len(P)].hi ELSE P[K[k]].hi
        OBVIOUS
      <4>4. Q[k] = [lo |-> lo, hi |-> hi, rows |-> r, dict |-> d]
        BY <2>1, <4>1
      <4>5. Q[k].rows = r /\ Q[k].dict = d
        BY <4>4
      <4>6. DOMAIN d = Named(r)
        OBVIOUS
      <4> QED
        BY <4>3, <4>5, <4>6
    <3> QED
      BY <3>1 DEF Cleared
  <2> QED
    BY <1>1, <2>7, <2>8, <2>10, <2>11, <2>12, <2>13 DEF Refolding
<1> QED
  BY <1>8, <1>9

LEMMA AnchoredLocates ==
    ASSUME NEW m \in ManifestType, Backed(m), NEW w, Anchored(m, w), NEW p \in DOMAIN w
    PROVE  Locating(m, p) # {} /\ w[p] \notin m.punched
<1>1. <<w[p], p>> \in LivePieces(m.parts)
  BY DEF Anchored
<1>2. PICK i \in DOMAIN m.parts : \E id \in Visible(m.parts, i) : \E q \in m.parts[i].rows[id] :
          <<w[p], p>> = <<m.parts[i].dict[q], q>>
  BY <1>1, LiveIs
<1>3. p \in DOMAIN m.parts[i].dict /\ m.parts[i].dict[p] = w[p] /\ m.parts[i].dict[p] \notin m.punched
  BY <1>2 DEF Backed
<1> QED
  BY <1>3 DEF Locating

\* Every block of m holds pieces, and only pieces that records need there.
Tight(m) == \A b \in DOMAIN m.blocks : m.blocks[b] # {} /\ \A p \in m.blocks[b] : <<b, p>> \in LivePieces(m.parts)

LEMMA RefoldedIs ==
    ASSUME FoldFacts, holes \subseteq Nat \X Nat, manifest.parts # <<>>, NEW copy \in Copies
    PROVE  LET m == Refolded(copy)
               w == Remapped(m)
           IN  /\ m \in ManifestType /\ Sound(m, holes) /\ Maintained(manifest, m)
               /\ m.blocks = copy.blocks /\ m.punched = {}
               /\ w \in DictType /\ FoldsOn(m, m.blocks, TRUE, {}, w) /\ Anchored(m, w) /\ Tight(m)
               /\ Cleared(m.parts)
<1> PICK P : P = manifest.parts
  OBVIOUS
<1> PICK at, bs : at = copy.at /\ bs = copy.blocks
  OBVIOUS
<1> PICK Q : Q = RefoldedParts(at)
  OBVIOUS
<1> PICK m : m = Refolded(copy)
  OBVIOUS
<1>1. /\ manifest \in ManifestType /\ Sound(manifest, holes)
      /\ manifest.next_seq \in Nat /\ manifest.gen \in Nat
      /\ P \in Seq(PartType) /\ P = manifest.parts /\ DOMAIN P = 1 .. Len(P) /\ Len(P) \in Nat
  BY ManifestIs DEF FoldFacts
<1>2. /\ Chain(P, manifest.next_seq) /\ Backed(manifest) /\ Whole(manifest, holes)
  BY <1>1, SoundIs
<1>3. /\ Wanted \in SUBSET Pieces
      /\ \A p : p \in Wanted <=> \E i \in DOMAIN P : \E id \in Visible(P, i) : p \in P[i].rows[id]
  BY <1>1, WantedIs
<1>4. Appended(<<>>, TRUE, Wanted, copy) /\ Packed(Wanted, copy)
  <2>1. copy \in Appends(<<>>, TRUE, Wanted)
    BY DEF Copies
  <2>2. <<>> \in Seq(SUBSET Pieces) /\ TRUE \in BOOLEAN
    OBVIOUS
  <2> PICK e : e = <<>>
    OBVIOUS
  <2>3. Appended(e, TRUE, Wanted, copy) /\ (e = <<>> => Packed(Wanted, copy))
    BY <1>3, <2>1, <2>2, AppendsIs
  <2> QED
    BY <2>3
<1>5. /\ bs \in Seq(SUBSET Pieces) /\ at \in DictType /\ DOMAIN at = Wanted
      /\ \A p \in Wanted : at[p] \in DOMAIN bs /\ p \in bs[at[p]]
      /\ \A b \in DOMAIN bs : bs[b] # {} /\ \A p : p \in bs[b] <=> p \in Wanted /\ at[p] = b
      /\ DOMAIN bs = 1 .. Len(bs) /\ Len(bs) \in Nat
  BY <1>4 DEF Appended, Packed
<1>6. Refolding(P, Q, at, manifest.next_seq)
  BY <1>1, <1>2, <1>5, RefoldingIs
<1>7. m = [manifest EXCEPT !.parts = Q, !.gen = manifest.gen + 1, !.blocks = bs, !.punched = {}]
  BY <1>1 DEF Refolded, ManifestType
<1>8. /\ m.next_seq = manifest.next_seq /\ m.parts = Q /\ m.gen = manifest.gen + 1
      /\ m.blocks = bs /\ m.punched = {}
  BY <1>1, <1>7 DEF ManifestType
<1>9. /\ Q \in Seq(PartType) /\ Chain(Q, manifest.next_seq) /\ Cleared(Q)
      /\ \A k \in DOMAIN Q : \A id \in Visible(Q, k) :
            \E i \in DOMAIN P : id \in Visible(P, i) /\ Q[k].rows[id] = P[i].rows[id]
      /\ \A i \in DOMAIN P : \A id \in Visible(P, i) :
            \E k \in DOMAIN Q : id \in Visible(Q, k) /\ Q[k].rows[id] = P[i].rows[id]
      /\ \A k \in DOMAIN Q : \A id \in Visible(Q, k) : \A p \in Q[k].rows[id] : p \in DOMAIN Q[k].dict
      /\ \A k \in DOMAIN Q : \A p \in DOMAIN Q[k].dict : Q[k].dict[p] = at[p] /\ p \in Wanted
  BY <1>3, <1>6 DEF Refolding
<1>10. m \in ManifestType
  <2>1. bs \in FoldType
    BY <1>5 DEF FoldType
  <2> PICK g, none : g = manifest.gen + 1 /\ none = {}
    OBVIOUS
  <2>2. g \in Nat /\ none \in SUBSET Nat
    BY <1>1
  <2>3. m = [manifest EXCEPT !.parts = Q, !.gen = g, !.blocks = bs, !.punched = none]
    BY <1>7
  <2>4. manifest \in ManifestType /\ Q \in Seq(PartType)
    BY <1>1, <1>9
  <2> QED
    BY ONLY <2>1, <2>2, <2>3, <2>4 DEF ManifestType
<1>11. Mapped(m)
  BY <1>5, <1>8, <1>9 DEF Mapped
<1>12. Backed(m)
  BY <1>8, <1>9 DEF Backed
<1>13. Sound(m, holes)
  <2>1. ASSUME NEW h \in holes PROVE h[1] <= m.gen /\ h[1] # m.gen
    <3>1. h[1] \in Nat
      OBVIOUS
    <3>2. h[1] <= manifest.gen
      BY <1>2 DEF Whole
    <3> QED
      BY <1>1, <1>8, <3>1, <3>2
  <2>2. Whole(m, holes)
    BY <2>1 DEF Whole
  <2>3. m.punched \subseteq DOMAIN m.blocks /\ Chain(m.parts, m.next_seq)
    BY <1>8, <1>9
  <2> QED
    BY <1>10, <1>11, <1>12, <2>2, <2>3, SoundIs
<1>14. SameView(manifest, m)
  <2>1. ASSUME NEW f \in Rows PROVE Shown(Over(NewestRows(Q), f)) = Shown(Over(NewestRows(P), f))
    <3>1. \A id : \A k \in DOMAIN Q : id \in Visible(Q, k) =>
            \E i \in DOMAIN P : id \in Visible(P, i) /\ Q[k].rows[id] = P[i].rows[id]
      BY <1>9
    <3>2. \A id : \A i \in DOMAIN P : id \in Visible(P, i) =>
            \E k \in DOMAIN Q : id \in Visible(Q, k) /\ Q[k].rows[id] = P[i].rows[id]
      BY <1>9
    <3> QED
      BY <1>1, <1>9, <3>1, <3>2, SameLive
  <2> QED
    BY <1>1, <1>8, <2>1 DEF SameView, Shows
<1>15. ASSUME NEW p \in Pieces, Locating(m, p) # {} PROVE Locating(manifest, p) # {}
  <2>1. PICK k \in DOMAIN Q : p \in DOMAIN Q[k].dict
    BY <1>8, <1>15 DEF Locating
  <2>2. PICK i \in DOMAIN P : \E id \in Visible(P, i) : p \in P[i].rows[id]
    BY <1>3, <1>9, <2>1
  <2>3. p \in DOMAIN P[i].dict /\ P[i].dict[p] \notin manifest.punched
    BY <1>1, <1>2, <2>2 DEF Backed
  <2> QED
    BY <1>1, <2>3 DEF Locating
<1>16. \A l : l \in LivePieces(Q) <=> \E p \in Wanted : l = <<at[p], p>>
  <2>1. ASSUME NEW l \in LivePieces(Q) PROVE \E p \in Wanted : l = <<at[p], p>>
    <3>1. PICK k \in DOMAIN Q : \E id \in Visible(Q, k) : \E p \in Q[k].rows[id] : l = <<Q[k].dict[p], p>>
      BY LiveIs
    <3> QED
      BY <1>9, <3>1
  <2>2. ASSUME NEW p \in Wanted PROVE <<at[p], p>> \in LivePieces(Q)
    <3>1. PICK i \in DOMAIN P : \E id \in Visible(P, i) : p \in P[i].rows[id]
      BY <1>3
    <3>2. PICK id \in Visible(P, i) : p \in P[i].rows[id]
      BY <3>1
    <3>3. PICK k \in DOMAIN Q : id \in Visible(Q, k) /\ Q[k].rows[id] = P[i].rows[id]
      BY <1>9, <3>2
    <3>4. p \in Q[k].rows[id] /\ Q[k].dict[p] = at[p]
      BY <1>9, <3>2, <3>3
    <3> QED
      BY <3>3, <3>4, LiveIs
  <2> QED
    BY <2>1, <2>2
<1>17. Tight(m)
  BY <1>5, <1>8, <1>16 DEF Tight
<1> PICK w : w = Remapped(m)
  OBVIOUS
<1>18. DOMAIN w = Wanted /\ w = [p \in DOMAIN w |-> w[p]] /\ \A p \in Wanted : w[p] = at[p]
  <2>1. w = [p \in UNION {bs[b] : b \in DOMAIN bs} |-> CHOOSE b \in DOMAIN bs : p \in bs[b]]
    BY <1>8 DEF Remapped
  <2>2. UNION {bs[b] : b \in DOMAIN bs} = Wanted
    BY <1>5
  <2>3. ASSUME NEW p \in Wanted PROVE (CHOOSE b \in DOMAIN bs : p \in bs[b]) = at[p]
    <3>1. \A b \in DOMAIN bs : p \in bs[b] <=> b = at[p]
      BY <1>5
    <3>2. at[p] \in DOMAIN bs
      BY <1>5
    <3> QED
      BY <3>1, <3>2
  <2> QED
    BY <2>1, <2>2, <2>3
<1>19. w \in DictType
  <2>1. \A p \in DOMAIN w : w[p] \in Nat
    BY <1>5, <1>18
  <2> QED
    BY <1>3, <1>18, <2>1, DictIs
<1>20. FoldsOn(m, m.blocks, TRUE, {}, w)
  BY <1>5, <1>8, <1>18 DEF FoldsOn
<1>21. Anchored(m, w)
  BY <1>8, <1>9, <1>16, <1>18 DEF Anchored
<1>22. Maintained(manifest, m)
  BY <1>8, <1>14, <1>15 DEF Maintained
<1> QED
  BY <1>8, <1>9, <1>10, <1>13, <1>17, <1>19, <1>20, <1>21, <1>22

-----------------------------------------------------------------------------
(* What the invariant says to readers and to a log. *)

LEMMA Manifests ==
    ASSUME TypeOK, AuthorityInv
    PROVE  /\ current.content \in ManifestType /\ Sound(current.content, holes)
           /\ floor.content \in ManifestType /\ Sound(floor.content, holes)
BY DEF TypeOK, AuthorityInv

LEMMA HandleFacts ==
    ASSUME TypeOK, AuthorityInv, HandleInv, FoldInv, opened
    PROVE  FoldFacts
BY DEF TypeOK, AuthorityInv, HandleInv, FoldInv, FoldFacts, FoldType

LEMMA LiveReads ==
    ASSUME NEW m \in ManifestType, Sound(m, holes), NEW bs, NEW closed, NEW gone, NEW w, FoldsOn(m, bs, closed, gone, w),
           bs \in Seq(SUBSET Pieces), NEW l \in LivePieces(m.parts)
    PROVE  Reads(m, bs, gone, l[1], l[2]) /\ l[1] \in DOMAIN m.blocks
<1>1. PICK i \in DOMAIN m.parts : \E id \in Visible(m.parts, i) : \E p \in m.parts[i].rows[id] :
          l = <<m.parts[i].dict[p], p>>
  BY LiveIs
<1>2. PICK id \in Visible(m.parts, i) : \E p \in m.parts[i].rows[id] : l = <<m.parts[i].dict[p], p>>
  BY <1>1
<1>3. PICK p \in m.parts[i].rows[id] : l = <<m.parts[i].dict[p], p>>
  BY <1>2
<1>4. Reads(m, bs, gone, m.parts[i].dict[p], p)
  BY VisibleReads
<1>5. m.parts[i].dict[p] \in DOMAIN m.blocks
  BY DEF Sound, Mapped, Backed
<1> QED
  BY <1>3, <1>4, <1>5

\* The report of liveness answers over a fold that goes on from its manifest.
LEMMA ReportAnswers ==
    ASSUME FoldFacts
    PROVE  ContentLiveness.answers
<1>1. /\ manifest \in ManifestType /\ Sound(manifest, holes) /\ blocks \in Seq(SUBSET Pieces)
      /\ FoldsOn(manifest, blocks, sealed, forgotten, window)
  BY DEF FoldFacts
<1>2. \A l \in LivePieces(manifest.parts) :
          Reads(manifest, blocks, forgotten, l[1], l[2]) /\ l[1] \in DOMAIN manifest.blocks
  BY <1>1, LiveReads
<1>3. ASSUME NEW l \in LivePieces(manifest.parts) PROVE l[1] \in Inventory
  <2>1. l[1] \in DOMAIN blocks /\ l[1] \notin manifest.punched \cup forgotten
    BY <1>2 DEF Reads
  <2>2. ASSUME ~sealed PROVE l[1] # Len(blocks)
    <3>1. Len(manifest.blocks) < Len(blocks) /\ DOMAIN manifest.blocks = 1 .. Len(manifest.blocks)
          /\ Len(manifest.blocks) \in Nat /\ Len(blocks) \in Nat
      BY <1>1, <2>2, ManifestIs DEF FoldsOn
    <3> QED
      BY <1>2, <3>1
  <2> QED
    BY <2>1, <2>2 DEF Inventory
<1> DEFINE live  == LivePieces(manifest.parts)
           hosts == {l[1] : l \in live}
<1>4. hosts \subseteq Inventory
  BY <1>3
<1>5. ContentLiveness.answers <=> /\ \A l \in live : Reads(manifest, blocks, forgotten, l[1], l[2])
                                  /\ hosts \subseteq Inventory
  BY DEF ContentLiveness
<1> QED
  BY <1>2, <1>4, <1>5

LEMMA AuthorityReads ==
    ASSUME TypeOK, AuthorityInv, HandleInv, FoldInv
    PROVE  AuthorityReadable
<1>1. ASSUME NEW m \in {current.content, floor.content}
      PROVE  /\ IsManifest(m) /\ ScansClean(m)
             /\ \A l \in LivePieces(m.parts) : Reads(m, m.blocks, {}, l[1], l[2])
  <2>1. m \in ManifestType /\ Sound(m, holes)
    BY Manifests
  <2>2. m.blocks \in Seq(SUBSET Pieces)
    BY <2>1, ManifestIs
  <2>3. IsManifest(m) /\ ScansClean(m)
    BY <2>1 DEF Sound, Whole, ScansClean
  <2> QED
    BY <2>1, <2>2, <2>3, OwnFold, LiveReads
<1>2. opened => ContentLiveness.answers
  BY HandleFacts, ReportAnswers
<1> QED
  BY <1>1, <1>2 DEF AuthorityReadable

\* A log of one sequence opens over the manifest that follows it, cut anywhere.
LEMMA CutsOpen ==
    ASSUME NEW l \in LogType, NEW m \in ManifestType, Sound(m, holes), NEW n \in {m.next_seq, m.next_seq + 1},
           Carried(m, n, l), \A i \in DOMAIN l : l[i].seq = n, NEW k \in 0 .. Len(l)
    PROVE  Opens(m, SubSeq(l, 1, k))
<1> PICK c : c = SubSeq(l, 1, k)
  OBVIOUS
<1>1. c \in LogType /\ Carried(m, n, c)
  BY CutIs, CarriedCut
<1>2. \A i \in DOMAIN c : c[i].seq = n
  <2>1. DOMAIN SubSeq(l, 1, k) = 1 .. k /\ \A i \in 1 .. k : i \in DOMAIN l /\ SubSeq(l, 1, k)[i] = l[i]
    BY CutIs
  <2> QED
    BY <2>1
<1>3. Admits(m, c)
  BY <1>1, <1>2, AdmitsFresh
<1> QED
  BY <1>3, OpensIs

LEMMA FreshLogOpens ==
    ASSUME TypeOK, AuthorityInv, HandleInv, LogInv
    PROVE  FreshLogReopens
<1>1. wal \in LogType /\ wal_synced \in 0 .. Len(wal) /\ Len(wal) \in Nat
  BY LogIs DEF TypeOK
<1>2. \A k \in wal_synced .. Len(wal) : k \in 0 .. Len(wal)
  BY <1>1
<1>3. ASSUME NEW m \in {current.content, floor.content}, \A i \in DOMAIN wal : Pending(m, wal[i]),
             NEW k \in wal_synced .. Len(wal)
      PROVE  Opens(m, SubSeq(wal, 1, k))
  <2>1. m \in ManifestType /\ Sound(m, holes) /\ Carried(m, m.next_seq + 1, wal)
    BY Manifests DEF LogInv
  <2> PICK n : n = m.next_seq + 1
    OBVIOUS
  <2>2. \A i \in DOMAIN wal : wal[i].seq = n
    BY <1>3 DEF Pending
  <2>3. n \in {m.next_seq, m.next_seq + 1} /\ Carried(m, n, wal)
    BY <2>1
  <2> QED
    BY <1>1, <1>2, <2>1, <2>2, <2>3, CutsOpen
<1>4. ASSUME NEW m \in {current.content, floor.content}, \A i \in DOMAIN wal : Redundant(m, wal[i]),
             phase \in {"flush", "settle"}, NEW k \in wal_synced .. Len(wal)
      PROVE  Opens(m, SubSeq(wal, 1, k))
  <2>1. m \in ManifestType /\ Sound(m, holes) /\ m.next_seq \in Nat
    BY Manifests, ManifestIs
  <2>2. Carried(current.content, current.content.next_seq, wal)
    BY <1>4 DEF LogInv
  <2>3. CASE m = current.content
    <3> PICK n : n = m.next_seq
      OBVIOUS
    <3>1. \A i \in DOMAIN wal : wal[i].seq = n
      BY <1>4 DEF Redundant
    <3>2. n \in {m.next_seq, m.next_seq + 1} /\ Carried(m, n, wal)
      BY <2>2, <2>3
    <3> QED
      BY <1>1, <1>2, <2>1, <3>1, <3>2, CutsOpen
  <2>4. CASE m # current.content
    <3>1. phase = "flush" /\ manifest = floor.content /\ mem # NoRows /\ m = floor.content
      BY <1>4, <2>4 DEF HandleInv, Ready
    <3>2. Replayed(m, wal) = mem
      BY <3>1 DEF HandleInv, LogInv, Covers, Usable
    <3>3. PICK i \in DOMAIN wal : Pending(m, wal[i])
      BY <1>1, <3>1, <3>2, ReplayedNone
    <3> QED
      BY <1>4, <2>1, <3>3 DEF Redundant, Pending
  <2> QED
    BY <2>3, <2>4
<1> QED
  BY <1>3, <1>4 DEF FreshLogReopens

-----------------------------------------------------------------------------
(* What steps have in common. *)

Answered == [Promise!Next]_<<View, promised>>

LEMMA NotRefused == Refused \notin Maps
BY ContentAssumption DEF ContentAssumption, Maps

LEMMA MaintainedSelf ==
    ASSUME NEW m
    PROVE  Maintained(m, m)
BY DEF Maintained, SameView

\* What a log carries for a manifest, it carries for the one it was made of.
LEMMA CarriedBack ==
    ASSUME NEW l \in LogType, NEW m, NEW n, Maintained(m, n), NEW s, Carried(n, s, l)
    PROVE  Carried(m, s, l)
<1>1. ASSUME NEW i \in DOMAIN l, l[i].seq = s, NEW p \in Named(l[i].rows)
      PROVE  (\E j \in 1 .. i : l[j].seq = s /\ p \in l[j].novel) \/ Locating(m, p) # {}
  <2>1. l[i].rows \in Rows
    BY LogIs
  <2>2. p \in Pieces
    BY <2>1, NamedPieces
  <2>3. (\E j \in 1 .. i : l[j].seq = s /\ p \in l[j].novel) \/ Locating(n, p) # {}
    BY <1>1 DEF Carried
  <2> QED
    BY <2>2, <2>3 DEF Maintained
<1> QED
  BY <1>1 DEF Carried

\* ... and for one that locates as much.
LEMMA CarriedOn ==
    ASSUME NEW l \in LogType, NEW m, NEW n, \A p \in Pieces : Locating(m, p) # {} => Locating(n, p) # {},
           NEW s, Carried(m, s, l)
    PROVE  Carried(n, s, l)
<1>1. ASSUME NEW i \in DOMAIN l, l[i].seq = s, NEW p \in Named(l[i].rows)
      PROVE  (\E j \in 1 .. i : l[j].seq = s /\ p \in l[j].novel) \/ Locating(n, p) # {}
  <2>1. l[i].rows \in Rows
    BY LogIs
  <2>2. p \in Pieces
    BY <2>1, NamedPieces
  <2>3. (\E j \in 1 .. i : l[j].seq = s /\ p \in l[j].novel) \/ Locating(m, p) # {}
    BY <1>1 DEF Carried
  <2> QED
    BY <2>2, <2>3
<1> QED
  BY <1>1 DEF Carried

\* A log without a frame of a sequence carries all that those frames need.
LEMMA CarriedNone ==
    ASSUME NEW l, NEW m, NEW s, \A i \in DOMAIN l : l[i].seq # s
    PROVE  Carried(m, s, l)
BY DEF Carried

LEMMA SeenIs ==
    ASSUME ContentInv
    PROVE  View = Seen /\ View \in Maps \cup {Refused} /\ (opened => View \in Maps /\ View \in promised)
<1>1. TypeOK /\ AuthorityInv /\ HandleInv /\ FoldInv /\ LogInv /\ PromisedInv
  BY DEF ContentInv
<1>2. View = Seen
  BY <1>1, ViewIs DEF ViewSeen
<1>3. opened => View \in Maps
  <2>1. opened => manifest \in ManifestType /\ mem \in Rows
    BY <1>1 DEF TypeOK
  <2> QED
    BY <1>2, <2>1, ShowsIs DEF Seen
<1>4. ~opened => View \in Maps \cup {Refused}
  <2>1. current.content \in ManifestType /\ wal \in LogType
    BY <1>1 DEF TypeOK
  <2>2. Replayed(current.content, wal) \in Rows
    BY <2>1, LogIs
  <2> QED
    BY <1>2, <2>1, <2>2, ShowsIs DEF Seen
<1>5. opened => View \in promised
  BY <1>1, <1>3, NotRefused DEF PromisedInv
<1> QED
  BY <1>2, <1>3, <1>4, <1>5

\* A step that callers see nothing of.
LEMMA Quiet ==
    ASSUME ContentInv, TypeOK', AuthorityInv', FloorInv', HandleInv', FoldInv', LogInv', promised' = promised,
           Seen' = Seen,
           Stands(current'.content, wal', wal_synced', promised), Stands(floor'.content, wal', wal_synced', promised)
    PROVE  ContentInv' /\ View' = View /\ Answered
<1>1. View' = Seen'
  BY ViewIsNext DEF ViewSeen
<1>2. View = Seen
  BY SeenIs
<1>3. View' = View
  BY <1>1, <1>2
<1>4. View \in promised \cup {Refused}
  BY DEF ContentInv, PromisedInv
<1>5. PromisedInv'
  BY <1>3, <1>4 DEF PromisedInv
<1>6. Answered
  BY <1>3 DEF Answered
<1> QED
  BY <1>3, <1>5, <1>6 DEF ContentInv

\* What a publication would be, while nothing of the handle it is made of moves.
LEMMA Unmoved ==
    ASSUME UNCHANGED <<manifest, mem, blocks, forgotten, window>>, NEW kind, NEW m
    PROVE  (Ready(kind, m))' <=> Ready(kind, m)
<1>1. \A p : Located(p)' = Located(p)
  BY DEF Located
<1>2. Flushed' = Flushed
  BY <1>1 DEF Flushed, Seals
<1>3. \A lo, len : Merged(lo, len)' = Merged(lo, len)
  BY DEF Merged, MergedDict, Seals
<1>4. Declared' = Declared
  BY DEF Declared, Dead, Seals
<1>5. Copies' = Copies
  <2>1. Wanted' = Wanted
    BY DEF Wanted
  <2>2. \A p : OldLocation(p)' = OldLocation(p)
    BY DEF OldLocation
  <2> QED
    BY <2>1, <2>2 DEF Copies
<1>6. \A copy : Refolded(copy)' = Refolded(copy)
  BY DEF Refolded, RefoldedParts
<1> QED
  BY <1>2, <1>3, <1>4, <1>5, <1>6 DEF Ready

LEMMA ReadyNothing ==
    ASSUME NEW kind \in {"idle", "punching", "settle"}, NEW m
    PROVE  Ready(kind, m)
BY DEF Ready

\* The handle of a usable store between publications.
LEMMA IdleIs ==
    ASSUME ContentInv, EnsureWriterUsable
    PROVE  /\ FoldFacts /\ opened /\ phase = "idle" /\ ~requires_reopen /\ Usable
           /\ manifest = current.content /\ (acknowledged => floor.content = current.content)
           /\ Covers(manifest, wal, window, mem) /\ View = Shows(manifest, mem)
           /\ (mem = NoRows => Anchored(manifest, window))
<1>1. opened /\ phase = "idle" /\ ~requires_reopen /\ Usable
  BY DEF EnsureWriterUsable, Usable
<1>2. TypeOK /\ AuthorityInv /\ HandleInv /\ FoldInv /\ LogInv
  BY DEF ContentInv
<1>3. FoldFacts
  BY <1>1, <1>2, HandleFacts
<1>4. View = Shows(manifest, mem)
  BY <1>1, SeenIs DEF Seen
<1> QED
  BY <1>1, <1>2, <1>3, <1>4 DEF HandleInv, FoldInv, LogInv

-----------------------------------------------------------------------------
(* Mutations. *)

LEMMA OverDict ==
    ASSUME NEW f \in DictType, NEW g \in DictType
    PROVE  /\ Over(f, g) \in DictType /\ DOMAIN Over(f, g) = DOMAIN f \cup DOMAIN g
           /\ \A p \in DOMAIN g : Over(f, g)[p] = g[p]
           /\ \A p \in DOMAIN f : p \notin DOMAIN g => Over(f, g)[p] = f[p]
<1> PICK o : o = Over(f, g)
  OBVIOUS
<1>1. /\ DOMAIN o = DOMAIN f \cup DOMAIN g /\ o = [p \in DOMAIN o |-> o[p]]
      /\ \A p \in DOMAIN g : o[p] = g[p]
      /\ \A p \in DOMAIN f : p \notin DOMAIN g => o[p] = f[p]
  BY DEF Over
<1>2. /\ DOMAIN f \subseteq Pieces /\ DOMAIN g \subseteq Pieces
      /\ \A p \in DOMAIN f : f[p] \in Nat
      /\ \A p \in DOMAIN g : g[p] \in Nat
  BY DictIs
<1>3. \A p \in DOMAIN o : p \in Pieces /\ o[p] \in Nat
  BY <1>1, <1>2
<1>4. DOMAIN o \subseteq Pieces
  BY <1>3
<1>5. o \in DictType
  BY <1>1, <1>3, <1>4, DictIs
<1> QED
  BY <1>1, <1>5

\* Pieces that are folded keep the fold going on from the manifest, and are in
\* the window then.
LEMMA FoldsIs ==
    ASSUME FoldFacts, sealed \in BOOLEAN, NEW pieces \in SUBSET Pieces, Folds(pieces)
    PROVE  /\ blocks' \in Seq(SUBSET Pieces) /\ sealed' \in BOOLEAN /\ window' \in DictType
           /\ DOMAIN window' = DOMAIN window \cup pieces
           /\ FoldsOn(manifest, blocks', sealed', forgotten, window') /\ forgotten' = forgotten
<1> PICK new : new = {p \in pieces : ~Known(p)}
  OBVIOUS
<1>1. PICK a \in Appends(blocks, sealed, new) :
        /\ blocks' = a.blocks
        /\ sealed' = (sealed /\ new = {})
        /\ window' = Over(Over([p \in pieces \ new |-> Located(p)], a.at), window)
        /\ UNCHANGED forgotten
  BY DEF Folds
<1> PICK hits : hits = [p \in pieces \ new |-> Located(p)]
  OBVIOUS
<1> PICK mb, n, bs : mb = Len(manifest.blocks) /\ n = Len(blocks) /\ bs = a.blocks
  OBVIOUS
<1>2. /\ manifest \in ManifestType /\ Sound(manifest, holes)
      /\ blocks \in Seq(SUBSET Pieces) /\ window \in DictType
      /\ FoldsOn(manifest, blocks, sealed, forgotten, window)
      /\ DOMAIN blocks = 1 .. n /\ n \in Nat /\ DOMAIN manifest.blocks = 1 .. mb /\ mb \in Nat
  BY ManifestIs DEF FoldFacts
<1>3. /\ mb <= n /\ (~sealed => mb < n) /\ \A b \in 1 .. mb : blocks[b] = manifest.blocks[b]
      /\ forgotten \subseteq manifest.punched
      /\ \A p \in DOMAIN window : window[p] \in DOMAIN blocks /\ p \in blocks[window[p]] /\ window[p] \notin manifest.punched
  BY <1>2 DEF FoldsOn
<1>4. Appended(blocks, sealed, new, a)
  <2>1. sealed \/ 0 < Len(blocks)
    BY <1>2, <1>3
  <2>2. new \in SUBSET Pieces
    OBVIOUS
  <2>3. Appended(blocks, sealed, new, a) /\ (blocks = <<>> => Packed(new, a))
    BY <1>1, <1>2, <2>1, <2>2, AppendsIs
  <2> QED
    BY <2>3
<1>5. /\ bs \in Seq(SUBSET Pieces) /\ n <= Len(bs) /\ DOMAIN bs = 1 .. Len(bs) /\ Len(bs) \in Nat
      /\ \A b \in 1 .. n : (sealed \/ b < n => bs[b] = blocks[b]) /\ blocks[b] \subseteq bs[b]
      /\ a.at \in DictType /\ DOMAIN a.at = new
      /\ \A p \in new : /\ a.at[p] \in DOMAIN bs /\ p \in bs[a.at[p]] /\ n <= a.at[p] /\ (sealed => n < a.at[p])
      /\ (new = {} => bs = blocks) /\ (sealed /\ new # {} => n < Len(bs))
  BY <1>2, <1>4 DEF Appended
<1>6. \A p \in pieces \ new : Located(p) \in DOMAIN blocks /\ p \in blocks[Located(p)] /\ Located(p) \notin manifest.punched
  <2>1. ASSUME NEW p \in pieces \ new PROVE Knows(manifest, window, p)
    BY DEF Known, Knows
  <2> QED
    BY <1>2, <2>1, KnownReads
<1>7. hits \in DictType /\ DOMAIN hits = pieces \ new /\ \A p \in pieces \ new : hits[p] = Located(p)
  <2>1. hits = [p \in DOMAIN hits |-> hits[p]] /\ DOMAIN hits = pieces \ new /\ \A p \in pieces \ new : hits[p] = Located(p)
    OBVIOUS
  <2>2. \A p \in DOMAIN hits : hits[p] \in Nat
    BY <1>2, <1>6, <2>1
  <2>3. DOMAIN hits \subseteq Pieces
    BY <2>1
  <2>4. hits \in DictType
    BY <2>1, <2>2, <2>3, DictIs
  <2> QED
    BY <2>1, <2>4
<1> PICK o, w : o = Over(hits, a.at) /\ w = Over(o, window)
  OBVIOUS
<1>8. /\ o \in DictType /\ DOMAIN o = pieces
      /\ \A p \in new : o[p] = a.at[p]
      /\ \A p \in pieces \ new : o[p] = Located(p)
  <2> PICK t : t = a.at
    OBVIOUS
  <2>1. hits \in DictType /\ t \in DictType /\ o = Over(hits, t)
    BY <1>5, <1>7
  <2>2. /\ Over(hits, t) \in DictType /\ DOMAIN Over(hits, t) = DOMAIN hits \cup DOMAIN t
        /\ \A p \in DOMAIN t : Over(hits, t)[p] = t[p]
        /\ \A p \in DOMAIN hits : p \notin DOMAIN t => Over(hits, t)[p] = hits[p]
    BY ONLY <2>1, OverDict
  <2> QED
    BY <1>5, <1>7, <2>1, <2>2
<1>9. /\ w \in DictType /\ DOMAIN w = pieces \cup DOMAIN window
      /\ \A p \in DOMAIN window : w[p] = window[p]
      /\ \A p \in pieces : p \notin DOMAIN window => w[p] = o[p]
  <2>1. /\ Over(o, window) \in DictType /\ DOMAIN Over(o, window) = DOMAIN o \cup DOMAIN window
        /\ \A p \in DOMAIN window : Over(o, window)[p] = window[p]
        /\ \A p \in DOMAIN o : p \notin DOMAIN window => Over(o, window)[p] = o[p]
    BY <1>2, <1>8, OverDict
  <2> QED
    BY <1>8, <2>1
<1>10. \A b \in 1 .. n : b \in DOMAIN bs
  BY <1>2, <1>5
<1>11. ASSUME NEW p \in new PROVE a.at[p] \notin manifest.punched
  <2>1. \A b \in manifest.punched : b \in 1 .. mb
    BY <1>2, SoundIs
  <2>2. a.at[p] \in Nat /\ mb < a.at[p]
    BY <1>2, <1>3, <1>5
  <2>3. ~(a.at[p] \in 1 .. mb)
    BY <1>2, <2>2
  <2> QED
    BY <2>1, <2>3
<1>12. ASSUME NEW p \in DOMAIN w PROVE w[p] \in DOMAIN bs /\ p \in bs[w[p]] /\ w[p] \notin manifest.punched
  <2>1. CASE p \in DOMAIN window
    BY <1>2, <1>3, <1>5, <1>9, <1>10, <2>1
  <2>2. CASE p \notin DOMAIN window /\ p \in new
    BY <1>5, <1>8, <1>9, <1>11, <2>2
  <2>3. CASE p \notin DOMAIN window /\ p \in pieces \ new
    BY <1>2, <1>5, <1>6, <1>8, <1>9, <1>10, <2>3
  <2> QED
    BY <1>9, <2>1, <2>2, <2>3
<1>13. /\ mb <= Len(bs) /\ \A b \in 1 .. mb : bs[b] = manifest.blocks[b]
       /\ ~(sealed /\ new = {}) => mb < Len(bs)
  <2>1. \A b \in 1 .. mb : b \in 1 .. n /\ (sealed \/ b < n)
    BY <1>2, <1>3
  <2>2. mb <= Len(bs)
    BY <1>2, <1>3, <1>5
  <2>3. ~(sealed /\ new = {}) => mb < Len(bs)
    BY <1>2, <1>3, <1>5
  <2> QED
    BY <1>3, <1>5, <2>1, <2>2, <2>3
<1>14. FoldsOn(manifest, bs, sealed /\ new = {}, forgotten, w)
  BY <1>2, <1>3, <1>12, <1>13 DEF FoldsOn
<1>15. blocks' = bs /\ window' = w /\ sealed' = (sealed /\ new = {}) /\ forgotten' = forgotten
  BY <1>1
<1> QED
  BY <1>5, <1>9, <1>14, <1>15

\* What of a mutation holds whether its frame is written or not.
LEMMA StagesFolds ==
    ASSUME ContentInv, CanStage, NEW pieces \in SUBSET Pieces, Folds(pieces),
           UNCHANGED <<container, holes, wal_synced, opened, manifest, acknowledged, job>>
    PROVE  /\ blocks' \in FoldType /\ sealed' \in BOOLEAN /\ window' \in DictType /\ forgotten' = forgotten
           /\ DOMAIN window' = DOMAIN window \cup pieces
           /\ FoldsOn(manifest, blocks', sealed', forgotten, window')
           /\ \A p : Knows(manifest, window, p) \/ p \in pieces => Knows(manifest, window', p)
           /\ AuthorityInv' /\ FloorInv'
           /\ requires_reopen' \in BOOLEAN => HandleInv'
<1>1. FoldFacts /\ opened /\ phase = "idle" /\ ~requires_reopen /\ Usable
      /\ manifest = current.content /\ (acknowledged => floor.content = current.content)
  BY IdleIs DEF CanStage
<1>2. TypeOK /\ AuthorityInv /\ FloorInv /\ HandleInv
  BY DEF ContentInv
<1>3. /\ blocks' \in Seq(SUBSET Pieces) /\ sealed' \in BOOLEAN /\ window' \in DictType
      /\ DOMAIN window' = DOMAIN window \cup pieces
      /\ FoldsOn(manifest, blocks', sealed', forgotten, window') /\ forgotten' = forgotten
  <2>1. sealed \in BOOLEAN
    BY <1>2 DEF TypeOK
  <2> QED
    BY <1>1, <2>1, FoldsIs
<1>4. AuthorityInv' /\ FloorInv'
  BY <1>2 DEF AuthorityInv, FloorInv, container
<1>5. /\ opened' /\ phase' = "idle" /\ manifest' = manifest /\ current' = current /\ floor' = floor
      /\ acknowledged' = acknowledged /\ attempted' = attempted
  BY <1>1 DEF container, job
<1>6. requires_reopen' \in BOOLEAN => HandleInv'
  BY <1>1, <1>5 DEF HandleInv, Usable, Ready
<1>7. blocks' \in FoldType
  BY <1>3 DEF FoldType
<1>8. \A p : Knows(manifest, window, p) \/ p \in pieces => Knows(manifest, window', p)
  BY <1>3 DEF Knows
<1> QED
  BY <1>3, <1>4, <1>6, <1>7, <1>8

LEMMA MutationRefused ==
    ASSUME ContentInv, CanStage, NEW pieces \in SUBSET Pieces, Folds(pieces), requires_reopen' = TRUE,
           UNCHANGED <<container, holes, wal_synced, opened, manifest, acknowledged, job>>,
           UNCHANGED <<wal, mem, promised>>
    PROVE  ContentInv' /\ Answered
<1>1. TypeOK /\ FoldInv /\ LogInv /\ PromisedInv
  BY DEF ContentInv
<1>2. /\ blocks' \in FoldType /\ sealed' \in BOOLEAN /\ window' \in DictType /\ forgotten' = forgotten
      /\ FoldsOn(manifest, blocks', sealed', forgotten, window')
      /\ \A p : Knows(manifest, window, p) => Knows(manifest, window', p)
      /\ AuthorityInv' /\ FloorInv' /\ HandleInv'
  BY StagesFolds
<1>3. opened /\ phase = "idle"
  BY DEF CanStage, EnsureWriterUsable
<1>4. TypeOK'
  BY <1>1, <1>2 DEF TypeOK, container, job
<1>5. FoldInv'
  BY <1>1, <1>2, <1>3 DEF FoldInv, Usable
<1>6. LogInv'
  BY <1>1, <1>3 DEF LogInv, Usable, container, job
<1>7. Seen' = Seen
  BY <1>3 DEF Seen, container
<1>8. Stands(current'.content, wal', wal_synced', promised) /\ Stands(floor'.content, wal', wal_synced', promised)
  BY <1>1 DEF PromisedInv, container
<1> QED
  BY <1>2, <1>4, <1>5, <1>6, <1>7, <1>8, Quiet

\* A frame that carries what nothing knew yet.
LEMMA FrameCarries ==
    ASSUME NEW l \in LogType, NEW m \in ManifestType, NEW w, NEW rows, Covers(m, l, w, rows), Carried(m, m.next_seq + 1, l),
           NEW f \in FrameType, f.seq = m.next_seq + 1, f.novel = {p \in Named(f.rows) : ~Knows(m, w, p)},
           NEW v, DOMAIN v = DOMAIN w \cup Named(f.rows)
    PROVE  Carried(m, m.next_seq + 1, Append(l, f)) /\ Covers(m, Append(l, f), v, Over(rows, f.rows))
<1> PICK n, a, s : n = Len(l) /\ a = Append(l, f) /\ s = m.next_seq + 1
  OBVIOUS
<1>1. /\ n \in Nat /\ DOMAIN l = 1 .. n /\ a \in LogType /\ DOMAIN a = 1 .. n + 1 /\ a[n + 1] = f
      /\ \A i \in 1 .. n : a[i] = l[i]
      /\ s \in Nat /\ s = m.next_seq + 1 /\ f.seq = s
  BY AppendIs, LogIs, ManifestIs
<1>2. /\ Replayed(m, l) = rows
      /\ \A i \in 1 .. n : l[i].seq <= s
      /\ \A i \in 1 .. n : l[i].seq = s => \A p \in l[i].novel : Knows(m, w, p)
      /\ \A p \in DOMAIN w : Locating(m, p) # {} \/ \E i \in 1 .. n : l[i].seq = s /\ p \in l[i].novel
  BY <1>1 DEF Covers, PendingAt, Pending
<1>3. \A i \in 1 .. n + 1 : i \in 1 .. n \/ i = n + 1
  BY <1>1
<1>4. \A i \in 1 .. n : i \in 1 .. n + 1
  BY <1>1
<1>5. ASSUME NEW p \in DOMAIN v
      PROVE  Locating(m, p) # {} \/ \E i \in 1 .. n + 1 : a[i].seq = s /\ p \in a[i].novel
  <2>1. CASE p \in DOMAIN w
    BY <1>1, <1>2, <1>4, <2>1
  <2>2. CASE p \notin DOMAIN w /\ p \in f.novel
    <3>1. n + 1 \in 1 .. n + 1
      BY <1>1
    <3> QED
      BY <1>1, <2>2, <3>1
  <2>3. CASE p \notin DOMAIN w /\ p \notin f.novel
    BY <2>3 DEF Knows
  <2> QED
    BY <2>1, <2>2, <2>3
<1>6. Carried(m, s, a)
  <2>1. ASSUME NEW i \in 1 .. n + 1, a[i].seq = s, NEW p \in Named(a[i].rows)
        PROVE  (\E j \in 1 .. i : a[j].seq = s /\ p \in a[j].novel) \/ Locating(m, p) # {}
    <3>1. CASE i \in 1 .. n
      <4>1. (\E j \in 1 .. i : l[j].seq = s /\ p \in l[j].novel) \/ Locating(m, p) # {}
        BY <1>1, <2>1, <3>1 DEF Carried
      <4>2. \A j \in 1 .. i : j \in 1 .. n
        BY <1>1, <3>1
      <4> QED
        BY <1>1, <4>1, <4>2
    <3>2. CASE i = n + 1
      BY <1>1, <1>5, <2>1, <3>2
    <3> QED
      BY <1>3, <3>1, <3>2
  <2>2. ASSUME NEW i \in 1 .. n, l[i].seq = s PROVE l[i].novel \cap f.novel = {}
    BY <1>2, <2>2
  <2>3. ASSUME NEW i \in 1 .. n + 1, NEW j \in 1 .. n + 1, i # j, a[i].seq = s, a[j].seq = s
        PROVE  a[i].novel \cap a[j].novel = {}
    <3>1. CASE i \in 1 .. n /\ j \in 1 .. n
      BY <1>1, <2>3, <3>1 DEF Carried
    <3>2. CASE i = n + 1 /\ j \in 1 .. n
      BY <1>1, <2>2, <2>3, <3>2
    <3>3. CASE i \in 1 .. n /\ j = n + 1
      BY <1>1, <2>2, <2>3, <3>3
    <3> QED
      BY <1>3, <2>3, <3>1, <3>2, <3>3
  <2> QED
    BY <1>1, <2>1, <2>3 DEF Carried
<1>7. Replayed(m, a) = Over(rows, f.rows)
  <2>1. \A u \in FrameType : u.rows \in Rows \ {NoRows}
    BY DEF FrameType
  <2>2. Pending(m, f) /\ l \in Seq(FrameType)
    BY DEF Pending, LogType
  <2>3. Append(l, f) \in Seq(FrameType) /\ Replayed(m, Append(l, f)) = Over(Replayed(m, l), f.rows)
    BY <2>1, <2>2, ReplayedMore
  <2> QED
    BY <1>2, <2>3
<1>8. Covers(m, a, v, Over(rows, f.rows))
  <2>1. \A i \in 1 .. n + 1 : a[i].seq <= s
    BY <1>1, <1>2, <1>3
  <2>2. \A i \in 1 .. n + 1 : a[i].seq = s => \A p \in a[i].novel : Knows(m, v, p)
    <3>1. \A p : Knows(m, w, p) => Knows(m, v, p)
      BY DEF Knows
    <3>2. \A p \in f.novel : Knows(m, v, p)
      BY DEF Knows
    <3> QED
      BY <1>1, <1>2, <1>3, <3>1, <3>2
  <2> QED
    BY <1>1, <1>5, <1>7, <2>1, <2>2 DEF Covers, PendingAt, Pending
<1> QED
  BY <1>6, <1>8

LEMMA CarriedMore ==
    ASSUME NEW l \in LogType, NEW f \in FrameType, NEW m, NEW s, f.seq # s, Carried(m, s, l)
    PROVE  Carried(m, s, Append(l, f))
<1> PICK n, a : n = Len(l) /\ a = Append(l, f)
  OBVIOUS
<1>1. /\ n \in Nat /\ DOMAIN l = 1 .. n /\ DOMAIN a = 1 .. n + 1 /\ a[n + 1] = f
      /\ \A i \in 1 .. n : a[i] = l[i]
  BY AppendIs, LogIs
<1>2. \A i \in 1 .. n + 1 : a[i].seq = s => i \in 1 .. n
  BY <1>1
<1>3. ASSUME NEW i \in 1 .. n + 1, a[i].seq = s, NEW p \in Named(a[i].rows)
      PROVE  (\E j \in 1 .. i : a[j].seq = s /\ p \in a[j].novel) \/ Locating(m, p) # {}
  <2>1. i \in 1 .. n /\ a[i] = l[i]
    BY <1>1, <1>2, <1>3
  <2>2. (\E j \in 1 .. i : l[j].seq = s /\ p \in l[j].novel) \/ Locating(m, p) # {}
    BY <1>1, <1>3, <2>1 DEF Carried
  <2>3. \A j \in 1 .. i : j \in 1 .. n
    BY <1>1, <2>1
  <2> QED
    BY <1>1, <2>2, <2>3
<1>4. ASSUME NEW i \in 1 .. n + 1, NEW j \in 1 .. n + 1, i # j, a[i].seq = s, a[j].seq = s
      PROVE  a[i].novel \cap a[j].novel = {}
  BY <1>1, <1>2, <1>4 DEF Carried
<1> QED
  BY <1>1, <1>3, <1>4 DEF Carried

LEMMA StandsMore ==
    ASSUME NEW l \in LogType, NEW f \in FrameType, NEW n \in 0 .. Len(l), NEW m, NEW views, Stands(m, l, n, views),
           NEW v, Admits(m, Append(l, f)) => Shows(m, Replayed(m, Append(l, f))) = v
    PROVE  Stands(m, Append(l, f), n, views \cup {v})
<1> PICK a : a = Append(l, f)
  OBVIOUS
<1>1. Len(l) \in Nat /\ a \in LogType /\ Len(a) = Len(l) + 1
  BY AppendIs, LogIs
<1>2. ASSUME NEW k \in n .. Len(a), Admits(m, SubSeq(a, 1, k))
      PROVE  Shows(m, Replayed(m, SubSeq(a, 1, k))) \in views \cup {v}
  <2>1. CASE k <= Len(l)
    <3>1. k \in 0 .. Len(l) /\ k \in n .. Len(l)
      BY <1>1, <2>1
    <3>2. SubSeq(a, 1, k) = SubSeq(l, 1, k)
      BY <3>1, CutOfAppend
    <3> QED
      BY <1>2, <3>1, <3>2 DEF Stands
  <2>2. CASE ~(k <= Len(l))
    <3>1. k = Len(a)
      BY <1>1, <2>2
    <3>2. SubSeq(a, 1, k) = a
      BY <1>1, <3>1, WholeCut
    <3> QED
      BY <1>2, <3>2
  <2> QED
    BY <2>1, <2>2
<1> QED
  BY <1>2 DEF Stands

LEMMA MutationStaged ==
    ASSUME ContentInv, CanStage, NEW rows \in Rows \ {NoRows}, Folds(Named(rows)),
           wal' = Append(wal, [seq |-> manifest.next_seq + 1, rows |-> rows,
                               novel |-> {p \in Named(rows) : ~Known(p)}]),
           mem' = Over(mem, rows), promised' = promised \cup {View'}, UNCHANGED requires_reopen,
           UNCHANGED <<container, holes, wal_synced, opened, manifest, acknowledged, job>>
    PROVE  ContentInv' /\ Answered
<1> PICK f : f = [seq |-> manifest.next_seq + 1, rows |-> rows, novel |-> {p \in Named(rows) : ~Known(p)}]
  OBVIOUS
<1>1. /\ opened /\ phase = "idle" /\ ~requires_reopen /\ Usable
      /\ manifest = current.content /\ Covers(manifest, wal, window, mem)
  BY IdleIs DEF CanStage
<1>2. /\ TypeOK /\ AuthorityInv /\ FloorInv /\ FoldInv /\ LogInv /\ PromisedInv
      /\ wal \in LogType /\ manifest \in ManifestType /\ mem \in Rows /\ wal_synced \in 0 .. Len(wal)
  BY DEF ContentInv, TypeOK
<1>3. Named(rows) \in SUBSET Pieces
  BY NamedPieces
<1>4. /\ blocks' \in FoldType /\ sealed' \in BOOLEAN /\ window' \in DictType /\ forgotten' = forgotten
      /\ DOMAIN window' = DOMAIN window \cup Named(rows)
      /\ FoldsOn(manifest, blocks', sealed', forgotten, window')
      /\ \A p : Knows(manifest, window, p) \/ p \in Named(rows) => Knows(manifest, window', p)
      /\ AuthorityInv' /\ FloorInv' /\ HandleInv'
  <2>1. requires_reopen' \in BOOLEAN
    BY <1>2 DEF TypeOK
  <2> QED
    BY <1>3, <2>1, StagesFolds
<1>5. /\ f \in FrameType /\ f.rows = rows /\ f.seq = manifest.next_seq + 1
      /\ f.novel = {p \in Named(f.rows) : ~Knows(manifest, window, p)} /\ wal' = Append(wal, f)
  <2>1. manifest.next_seq + 1 \in Nat
    BY <1>2, ManifestIs
  <2>2. {p \in Named(rows) : ~Known(p)} \in SUBSET Pieces
    BY <1>3
  <2>3. f \in FrameType
    BY <2>1, <2>2 DEF FrameType
  <2> QED
    BY <2>3 DEF Known, Knows
<1>6. Carried(manifest, manifest.next_seq + 1, wal') /\ Covers(manifest, wal', window', mem')
  <2> PICK v : v = window'
    OBVIOUS
  <2>1. Carried(manifest, manifest.next_seq + 1, wal)
    BY <1>1, <1>2 DEF LogInv
  <2>2. DOMAIN v = DOMAIN window \cup Named(f.rows)
    BY <1>4, <1>5
  <2>3. Carried(manifest, manifest.next_seq + 1, Append(wal, f)) /\ Covers(manifest, Append(wal, f), v, Over(mem, f.rows))
    BY <1>1, <1>2, <1>5, <2>1, <2>2, FrameCarries
  <2> QED
    BY <1>5, <2>3
<1>7. wal' \in LogType /\ Len(wal') = Len(wal) + 1 /\ wal'[Len(wal')] = f /\ Len(wal') \in DOMAIN wal' /\ Len(wal) \in Nat
  BY <1>2, <1>5, AppendIs, LogIs
<1>8. mem' \in Rows /\ mem' # NoRows /\ Named(mem') \subseteq Named(mem) \cup Named(rows)
  <2>1. /\ mem' \in Rows /\ DOMAIN mem' = DOMAIN mem \cup DOMAIN rows
        /\ \A id \in DOMAIN rows : mem'[id] = rows[id]
        /\ \A id \in DOMAIN mem : id \notin DOMAIN rows => mem'[id] = mem[id]
    BY <1>2, OverIs
  <2>2. DOMAIN rows # {}
    BY NoRowsIs
  <2>3. mem' # NoRows
    BY <2>1, <2>2, NoRowsIs
  <2>4. ASSUME NEW p \in Named(mem') PROVE p \in Named(mem) \cup Named(rows)
    <3>1. PICK id \in DOMAIN mem' : mem'[id] # Deleted /\ p \in mem'[id]
      BY <2>4, NamedIs
    <3> QED
      BY <2>1, <3>1, NamedIs
  <2> QED
    BY <2>1, <2>3, <2>4
<1>9. TypeOK'
  <2>1. wal_synced \in 0 .. Len(wal')
    BY <1>2, <1>7
  <2> QED
    BY <1>2, <1>4, <1>7, <1>8, <2>1 DEF TypeOK, container, job
<1>10. FoldInv'
  <2>1. \A p \in Named(mem) : Knows(manifest, window, p)
    BY <1>1, <1>2 DEF FoldInv
  <2>2. \A p \in Named(mem') : Knows(manifest, window', p)
    BY <1>4, <1>8, <2>1
  <2> QED
    BY <1>4, <1>8, <2>2 DEF FoldInv, Usable
<1>11. Carried(floor.content, floor.content.next_seq + 1, wal')
  <2>1. /\ Carried(floor.content, floor.content.next_seq + 1, wal)
        /\ floor.content.next_seq \in Nat /\ current.content.next_seq \in Nat
    BY <1>2, Manifests, ManifestIs DEF LogInv
  <2>2. CASE floor.content.next_seq + 1 = current.content.next_seq
    <3> PICK s : s = floor.content.next_seq + 1
      OBVIOUS
    <3>1. f.seq # s
      BY <1>1, <1>5, <2>1, <2>2
    <3> QED
      BY <1>2, <1>5, <2>1, <3>1, CarriedMore
  <2>3. CASE Maintained(floor.content, current.content)
    <3> PICK m, n, l, s : m = floor.content /\ n = current.content /\ l = wal' /\ s = manifest.next_seq + 1
      OBVIOUS
    <3>1. Maintained(m, n) /\ Carried(n, s, l) /\ l \in LogType /\ s = floor.content.next_seq + 1
      BY <1>1, <1>6, <1>7, <2>3 DEF Maintained
    <3>2. Carried(m, s, l)
      BY <3>1, CarriedBack
    <3> QED
      BY <3>1, <3>2
  <2> QED
    BY <1>2, <2>2, <2>3 DEF FloorInv
<1>12. LogInv'
  BY <1>1, <1>6, <1>11 DEF LogInv, Usable, container, job
<1>13. View' = Shows(manifest, mem') /\ View' \in Maps
  <2>1. View' = Seen'
    BY <1>4, <1>9, <1>10, <1>12, ViewIsNext DEF ViewSeen
  <2>2. View' = Shows(manifest, mem')
    BY <1>1, <2>1 DEF Seen
  <2> QED
    BY <1>2, <1>8, <2>2, ShowsIs
<1> PICK v : v = View'
  OBVIOUS
<1>14. Stands(current.content, wal', wal_synced, promised \cup {v})
  <2>1. Shows(current.content, Replayed(current.content, Append(wal, f))) = v
    BY <1>1, <1>5, <1>6, <1>13 DEF Covers
  <2>2. Stands(current.content, wal, wal_synced, promised)
    BY <1>2 DEF PromisedInv
  <2> PICK m : m = current.content
    OBVIOUS
  <2>3. Stands(m, Append(wal, f), wal_synced, promised \cup {v})
    BY <1>2, <1>5, <2>1, <2>2, StandsMore
  <2> QED
    BY <1>5, <2>3
<1>15. Stands(floor.content, wal', wal_synced, promised \cup {v})
  <2>1. Stands(floor.content, wal, wal_synced, promised)
    BY <1>2 DEF PromisedInv
  <2>2. ASSUME Admits(floor.content, Append(wal, f))
        PROVE  Shows(floor.content, Replayed(floor.content, Append(wal, f))) = v
    <3>1. CASE floor.content.next_seq + 1 = current.content.next_seq
      <4>1. f.seq = floor.content.next_seq \/ f.seq = floor.content.next_seq + 1
        BY <1>5, <1>7, <2>2 DEF Admits, Replays, Redundant, Pending
      <4>2. floor.content.next_seq \in Nat /\ current.content.next_seq \in Nat
        BY <1>2, Manifests, ManifestIs
      <4> QED
        BY <1>1, <1>5, <3>1, <4>1, <4>2
    <3>2. CASE Maintained(floor.content, current.content)
      <4>1. Replayed(floor.content, Append(wal, f)) = Replayed(current.content, Append(wal, f))
        BY <3>2, SameSequence DEF Maintained
      <4>2. Replayed(current.content, Append(wal, f)) = mem'
        BY <1>1, <1>5, <1>6 DEF Covers
      <4>3. Shows(floor.content, mem') = Shows(current.content, mem')
        BY <1>8, <3>2 DEF Maintained, SameView
      <4> QED
        BY <1>1, <1>13, <4>1, <4>2, <4>3
    <3> QED
      BY <1>2, <3>1, <3>2 DEF FloorInv
  <2> PICK m : m = floor.content
    OBVIOUS
  <2>3. Stands(m, Append(wal, f), wal_synced, promised \cup {v})
    BY <1>2, <1>5, <2>1, <2>2, StandsMore
  <2> QED
    BY <1>5, <2>3
<1>16. PromisedInv'
  BY <1>14, <1>15 DEF PromisedInv, container
<1>17. Answered
  <2>1. View \in Maps /\ View # Refused
    BY <1>1, SeenIs, NotRefused
  <2> QED
    BY <1>13, <2>1 DEF Answered, Promise!Next, Promise!Accept
<1> QED
  BY <1>4, <1>9, <1>10, <1>12, <1>16, <1>17 DEF ContentInv

LEMMA StagesKeeps ==
    ASSUME ContentInv, NEW rows \in Rows \ {NoRows}, Stages(rows)
    PROVE  ContentInv' /\ Answered
<1>1. /\ CanStage /\ Named(rows) \in SUBSET Pieces
      /\ UNCHANGED <<container, holes, wal_synced, opened, manifest, acknowledged, job>>
  BY NamedPieces DEF Stages
<1>2. CASE /\ Folds(Named(rows))
           /\ wal' = Append(wal, [seq |-> manifest.next_seq + 1, rows |-> rows,
                                  novel |-> {p \in Named(rows) : ~Known(p)}])
           /\ mem' = Over(mem, rows) /\ promised' = promised \cup {View'} /\ UNCHANGED requires_reopen
  BY <1>1, <1>2, MutationStaged
<1>3. CASE /\ \E some \in SUBSET Named(rows) : Folds(some)
           /\ requires_reopen' = TRUE /\ UNCHANGED <<wal, mem, promised>>
  <2>1. PICK some \in SUBSET Named(rows) : Folds(some)
    BY <1>3
  <2>2. some \in SUBSET Pieces
    BY <1>1, <2>1
  <2> QED
    BY <1>1, <1>3, <2>1, <2>2, MutationRefused
<1> QED
  BY <1>2, <1>3 DEF Stages

\* A step that moves nothing but counters.
LEMMA Stutters ==
    ASSUME ContentInv, UNCHANGED <<container, holes, log, handle, job, promised>>
    PROVE  ContentInv' /\ View' = View /\ Answered
<1>1. TypeOK /\ AuthorityInv /\ FloorInv /\ HandleInv /\ FoldInv /\ LogInv /\ PromisedInv
  BY DEF ContentInv
<1>2. UNCHANGED <<current, floor, holes, wal, wal_synced, opened, manifest, mem, requires_reopen, acknowledged,
                  blocks, sealed, forgotten, window, phase, attempted, promised>>
  BY DEF container, log, handle, fold, job
<1>3. TypeOK' /\ AuthorityInv' /\ FloorInv'
  BY <1>1, <1>2 DEF TypeOK, AuthorityInv, FloorInv
<1>4. HandleInv'
  <2> PICK kind, m : kind = phase /\ m = attempted
    OBVIOUS
  <2>1. (Ready(kind, m))'
    BY <1>1, <1>2, Unmoved DEF HandleInv
  <2>2. Ready(phase, attempted)'
    BY <1>2, <2>1
  <2>3. Dead' = Dead
    BY <1>2 DEF Dead
  <2> QED
    BY <1>1, <1>2, <2>2, <2>3 DEF HandleInv, Usable
<1>5. FoldInv' /\ LogInv'
  BY <1>1, <1>2 DEF FoldInv, LogInv, Usable
<1>6. Seen' = Seen
  BY <1>2 DEF Seen
<1>7. Stands(current'.content, wal', wal_synced', promised) /\ Stands(floor'.content, wal', wal_synced', promised)
  BY <1>1, <1>2 DEF PromisedInv
<1> QED
  BY <1>2, <1>3, <1>4, <1>5, <1>6, <1>7, Quiet

\* A handle that goes on only to be reopened.
LEMMA Poisons ==
    ASSUME ContentInv, opened, requires_reopen' = TRUE, phase' = "idle",
           UNCHANGED <<container, holes, log, opened, manifest, mem, acknowledged, fold, attempted, promised>>
    PROVE  ContentInv' /\ View' = View /\ Answered
<1>1. TypeOK /\ AuthorityInv /\ FloorInv /\ HandleInv /\ FoldInv /\ LogInv /\ PromisedInv
  BY DEF ContentInv
<1>2. UNCHANGED <<current, floor, holes, wal, wal_synced, opened, manifest, mem, acknowledged,
                  blocks, sealed, forgotten, window, attempted, promised>>
  BY DEF container, log, fold
<1>3. TypeOK' /\ AuthorityInv' /\ FloorInv'
  BY <1>1, <1>2 DEF TypeOK, AuthorityInv, FloorInv
<1>4. HandleInv'
  BY <1>1, <1>2 DEF HandleInv, Usable, Ready
<1>5. FoldInv' /\ LogInv'
  BY <1>1, <1>2 DEF FoldInv, LogInv, Usable
<1>6. Seen' = Seen
  BY <1>2 DEF Seen
<1>7. Stands(current'.content, wal', wal_synced', promised) /\ Stands(floor'.content, wal', wal_synced', promised)
  BY <1>1, <1>2 DEF PromisedInv
<1> QED
  BY <1>2, <1>3, <1>4, <1>5, <1>6, <1>7, Quiet

-----------------------------------------------------------------------------
(* Acknowledgement. *)

LEMMA AcknowledgedIs ==
    ASSUME ContentInv, EnsureWriterUsable, AcknowledgesCurrent
    PROVE  current' = current /\ floor' \in [seq : Nat, content : ManifestType] /\ floor'.content = current.content
<1>1. acknowledged => floor.content = current.content
  BY IdleIs
<1>2. current \in [seq : Nat, content : ManifestType] /\ floor \in [seq : Nat, content : ManifestType]
  BY DEF ContentInv, TypeOK
<1> QED
  BY <1>1, <1>2 DEF AcknowledgesCurrent, Container!Acknowledge, container

\* The whole log shows what it covers.
LEMMA StandsWhole ==
    ASSUME NEW l \in LogType, NEW m, NEW w, NEW rows, Covers(m, l, w, rows), NEW views, Shows(m, rows) \in views
    PROVE  Stands(m, l, Len(l), views)
<1>1. Len(l) \in Nat /\ SubSeq(l, 1, Len(l)) = l
  BY LogIs, WholeCut
<1>2. \A k \in Len(l) .. Len(l) : k = Len(l)
  <2> PICK n : n = Len(l)
    OBVIOUS
  <2>1. n \in Nat
    BY <1>1
  <2>2. \A k \in n .. n : k = n
    BY <2>1
  <2> QED
    BY <2>2
<1>3. Shows(m, Replayed(m, l)) \in views
  BY DEF Covers
<1>4. ASSUME NEW k \in Len(l) .. Len(l) PROVE Shows(m, Replayed(m, SubSeq(l, 1, k))) \in views
  <2>1. SubSeq(l, 1, k) = l
    BY <1>1, <1>2
  <2> QED
    BY <1>3, <2>1
<1> QED
  BY <1>4 DEF Stands

LEMMA Synced ==
    ASSUME ContentInv, EnsureWriterUsable, AcknowledgesCurrent, acknowledged' = TRUE,
           wal_synced' = Len(wal), promised' = {View},
           UNCHANGED <<holes, wal, opened, manifest, mem, requires_reopen, fold, job>>
    PROVE  ContentInv' /\ View' = View /\ Answered
<1>1. TypeOK /\ AuthorityInv /\ FloorInv /\ HandleInv /\ FoldInv /\ LogInv
  BY DEF ContentInv
<1>2. /\ opened /\ phase = "idle" /\ ~requires_reopen /\ Usable
      /\ manifest = current.content /\ Covers(manifest, wal, window, mem) /\ View = Shows(manifest, mem)
  BY IdleIs
<1>3. /\ current' = current /\ floor' \in [seq : Nat, content : ManifestType] /\ floor'.content = current.content
      /\ UNCHANGED <<holes, wal, opened, manifest, mem, requires_reopen, blocks, sealed, forgotten, window,
                     phase, attempted>>
  BY AcknowledgedIs DEF fold, job
<1>4. wal \in LogType /\ wal_synced' \in 0 .. Len(wal)
  <2>1. wal \in LogType
    BY <1>1 DEF TypeOK
  <2>2. Len(wal) \in Nat
    BY <2>1, LogIs
  <2> QED
    BY <2>1, <2>2
<1>5. TypeOK'
  BY <1>1, <1>3, <1>4 DEF TypeOK
<1>6. AuthorityInv' /\ FloorInv'
  <2>1. Maintained(current.content, current.content)
    BY MaintainedSelf
  <2> QED
    BY <1>1, <1>3, <2>1 DEF AuthorityInv, FloorInv
<1>7. HandleInv'
  BY <1>1, <1>2, <1>3 DEF HandleInv, Usable, Ready
<1>8. FoldInv' /\ LogInv'
  BY <1>1, <1>2, <1>3 DEF FoldInv, LogInv, Usable
<1>9. View' = View
  <2>1. View' = Seen'
    BY <1>5, <1>6, <1>7, <1>8, ViewIsNext DEF ViewSeen
  <2> QED
    BY <1>2, <1>3, <2>1 DEF Seen
<1>10. Stands(current.content, wal, Len(wal), {View})
  <2> PICK m, v : m = current.content /\ v = View
    OBVIOUS
  <2>1. Covers(m, wal, window, mem) /\ Shows(m, mem) \in {v}
    BY <1>2
  <2>2. Stands(m, wal, Len(wal), {v})
    BY <1>4, <2>1, StandsWhole
  <2> QED
    BY <2>2
<1>11. PromisedInv'
  BY <1>3, <1>9, <1>10 DEF PromisedInv
<1>12. Answered
  BY <1>9 DEF Answered, Promise!Next, Promise!Acknowledge
<1> QED
  BY <1>5, <1>6, <1>7, <1>8, <1>9, <1>11, <1>12 DEF ContentInv

LEMMA SyncKeeps ==
    ASSUME ContentInv, Sync
    PROVE  ContentInv' /\ View' = View /\ Answered
<1>1. EnsureWriterUsable /\ UNCHANGED <<holes, wal, opened, manifest, mem, requires_reopen, fold, job>>
  BY DEF Sync
<1>2. CASE AcknowledgesCurrent /\ acknowledged' = TRUE /\ wal_synced' = Len(wal) /\ promised' = {View}
  BY <1>1, <1>2, Synced
<1>3. CASE UNCHANGED <<container, acknowledged, wal_synced, promised>>
  BY <1>1, <1>3, Stutters DEF log, handle
<1> QED
  BY <1>2, <1>3 DEF Sync

-----------------------------------------------------------------------------
(* Publications. *)

LEMMA NotPublished ==
    ASSUME ContentInv, EnsureWriterUsable, NEW kind, requires_reopen' = (kind # "refold"),
           UNCHANGED <<container, job, holes, log, opened, manifest, mem, acknowledged, fold, promised>>
    PROVE  ContentInv' /\ View' = View /\ Answered
<1>1. opened /\ phase = "idle" /\ ~requires_reopen /\ requires_reopen \in BOOLEAN
  BY DEF EnsureWriterUsable, ContentInv, TypeOK
<1>2. CASE kind = "refold"
  <2>1. requires_reopen' = requires_reopen
    BY <1>1, <1>2
  <2> QED
    BY <2>1, Stutters DEF handle
<1>3. CASE kind # "refold"
  <2>1. requires_reopen' = TRUE /\ phase' = "idle" /\ attempted' = attempted
    BY <1>1, <1>3 DEF job
  <2> QED
    BY <1>1, <2>1, Poisons
<1> QED
  BY <1>2, <1>3

LEMMA Published ==
    ASSUME ContentInv, EnsureWriterUsable, NEW kind \in {"flush", "merge", "punch", "refold"},
           NEW m \in ManifestType, Sound(m, holes), Ready(kind, m),
           manifest.next_seq + 1 = m.next_seq \/ Maintained(manifest, m),
           Carried(m, m.next_seq + 1, wal), kind = "flush" => Carried(m, m.next_seq, wal),
           Stands(m, wal, wal_synced, promised),
           Container!Publish(m), phase' = kind, attempted' = m,
           UNCHANGED <<requires_reopen, holes, log, opened, manifest, mem, acknowledged, fold, promised>>
    PROVE  ContentInv' /\ View' = View /\ Answered
<1>1. TypeOK /\ AuthorityInv /\ FloorInv /\ HandleInv /\ FoldInv /\ LogInv /\ PromisedInv
  BY DEF ContentInv
<1>2. opened /\ phase = "idle" /\ ~requires_reopen /\ manifest = current.content
  BY IdleIs
<1>3. /\ UNCHANGED <<holes, wal, wal_synced, opened, manifest, mem, requires_reopen, acknowledged,
                     blocks, sealed, forgotten, window, promised>>
      /\ current' = [seq |-> current.seq + 1, content |-> m] /\ floor' = current
      /\ current'.content = m /\ floor'.content = manifest
  BY <1>2 DEF log, fold, Container!Publish
<1>4. TypeOK'
  <2>1. current.seq \in Nat
    BY <1>1 DEF TypeOK
  <2>2. current.seq + 1 \in Nat
    BY <2>1
  <2>3. current' \in [seq : Nat, content : ManifestType]
    BY <1>3, <2>2
  <2> QED
    BY <1>1, <1>3, <2>3 DEF TypeOK
<1>5. AuthorityInv' /\ FloorInv'
  BY <1>1, <1>2, <1>3 DEF AuthorityInv, FloorInv
<1>6. HandleInv'
  <2>1. (Ready(kind, m))'
    BY <1>3, Unmoved
  <2>2. Ready(phase, attempted)'
    BY <2>1
  <2> QED
    BY <1>2, <1>3, <2>2 DEF HandleInv, Usable
<1>7. FoldInv' /\ LogInv'
  BY <1>1, <1>2, <1>3 DEF FoldInv, LogInv, Usable
<1>8. Seen' = Seen
  BY <1>2, <1>3 DEF Seen
<1>9. Stands(current'.content, wal', wal_synced', promised) /\ Stands(floor'.content, wal', wal_synced', promised)
  BY <1>1, <1>2, <1>3 DEF PromisedInv
<1> QED
  BY <1>3, <1>4, <1>5, <1>6, <1>7, <1>8, <1>9, Quiet

LEMMA FlushKeeps ==
    ASSUME ContentInv, FlushPublishes
    PROVE  ContentInv' /\ View' = View /\ Answered
<1> PICK m : m = Flushed
  OBVIOUS
<1>1. /\ FoldFacts /\ opened /\ manifest = current.content
      /\ Covers(manifest, wal, window, mem) /\ View = Shows(manifest, mem) /\ EnsureWriterUsable /\ mem # NoRows
  BY IdleIs DEF FlushPublishes
<1>2. /\ m \in ManifestType /\ Sound(m, holes) /\ m.next_seq = manifest.next_seq + 1
      /\ Shows(m, NoRows) = Shows(manifest, mem)
      /\ \A p \in Pieces : Locating(manifest, p) # {} => Locating(m, p) # {}
  BY <1>1, FlushedIs
<1>3. /\ wal \in LogType /\ wal_synced \in 0 .. Len(wal) /\ Len(wal) \in Nat /\ manifest \in ManifestType
      /\ manifest.next_seq \in Nat /\ \A i \in DOMAIN wal : wal[i].seq \in Nat
  <2>1. wal \in LogType /\ wal_synced \in 0 .. Len(wal) /\ manifest \in ManifestType
    BY DEF ContentInv, TypeOK
  <2> QED
    BY <2>1, LogIs, ManifestIs
<1>4. \A i \in DOMAIN wal : wal[i].seq # m.next_seq + 1
  <2>1. \A i \in DOMAIN wal : wal[i].seq <= manifest.next_seq + 1
    BY <1>1 DEF Covers
  <2> QED
    BY <1>2, <1>3, <2>1
<1>5. Carried(m, m.next_seq + 1, wal)
  BY <1>4, CarriedNone
<1>6. Carried(m, m.next_seq, wal)
  <2> PICK n, s : n = manifest /\ s = m.next_seq
    OBVIOUS
  <2>1. Carried(n, s, wal) /\ \A p \in Pieces : Locating(n, p) # {} => Locating(m, p) # {}
    BY <1>1, <1>2 DEF ContentInv, LogInv
  <2>2. Carried(m, s, wal)
    BY <1>3, <2>1, CarriedOn
  <2> QED
    BY <2>2
<1>7. Stands(m, wal, wal_synced, promised)
  <2>1. ASSUME NEW k \in wal_synced .. Len(wal)
        PROVE  Shows(m, Replayed(m, SubSeq(wal, 1, k))) \in promised
    <3> PICK c : c = SubSeq(wal, 1, k)
      OBVIOUS
    <3>1. k \in 0 .. Len(wal)
      BY <1>3
    <3>2. c \in LogType /\ DOMAIN c = 1 .. k /\ \A i \in 1 .. k : i \in DOMAIN wal /\ c[i] = wal[i]
      BY <1>3, <3>1, CutIs
    <3>3. \A i \in DOMAIN c : ~Pending(m, c[i])
      BY <1>4, <3>2 DEF Pending
    <3>4. Replayed(m, c) = NoRows
      BY <3>2, <3>3, ReplayedNone
    <3>5. View \in promised
      BY <1>1, SeenIs
    <3> QED
      BY <1>1, <1>2, <3>4, <3>5
  <2> QED
    BY <2>1 DEF Stands
<1>8. Publishes(m, "flush")
  BY DEF FlushPublishes
<1>9. CASE Container!Publish(m) /\ phase' = "flush" /\ attempted' = m /\ UNCHANGED requires_reopen
  <2>1. Ready("flush", m)
    BY <1>1 DEF Ready
  <2>2. manifest.next_seq + 1 = m.next_seq
    BY <1>2
  <2>3. UNCHANGED <<requires_reopen, holes, log, opened, manifest, mem, acknowledged, fold, promised>>
    BY <1>8, <1>9 DEF Publishes
  <2> QED
    BY <1>1, <1>2, <1>5, <1>6, <1>7, <1>9, <2>1, <2>2, <2>3, Published
<1>10. CASE requires_reopen' = ("flush" # "refold") /\ UNCHANGED <<container, job>>
  <2>1. UNCHANGED <<container, job, holes, log, opened, manifest, mem, acknowledged, fold, promised>>
    BY <1>8, <1>10 DEF Publishes
  <2> QED
    BY <1>1, <1>10, <2>1, NotPublished
<1> QED
  BY <1>8, <1>9, <1>10 DEF Publishes

\* A publication that nothing is seen of.
LEMMA MaintenancePublishes ==
    ASSUME ContentInv, EnsureWriterUsable, NEW kind \in {"merge", "punch", "refold"},
           NEW m \in ManifestType, Sound(m, holes), Ready(kind, m), Maintained(manifest, m),
           mem = NoRows \/ (\A p \in Pieces : Locating(manifest, p) # {} => Locating(m, p) # {}),
           Publishes(m, kind)
    PROVE  ContentInv' /\ View' = View /\ Answered
<1>1. manifest = current.content /\ Covers(manifest, wal, window, mem) /\ m.next_seq = manifest.next_seq
  BY IdleIs DEF Maintained
<1>2. /\ wal \in LogType /\ wal_synced \in 0 .. Len(wal) /\ Len(wal) \in Nat /\ manifest \in ManifestType
      /\ Stands(manifest, wal, wal_synced, promised) /\ Carried(manifest, m.next_seq + 1, wal)
  <2>1. wal \in LogType /\ wal_synced \in 0 .. Len(wal) /\ manifest \in ManifestType
    BY DEF ContentInv, TypeOK
  <2> QED
    BY <1>1, <2>1, LogIs DEF ContentInv, PromisedInv, LogInv
<1>3. Carried(m, m.next_seq + 1, wal)
  <2> PICK n, s : n = manifest /\ s = m.next_seq + 1
    OBVIOUS
  <2>1. CASE mem = NoRows
    <3>1. Replayed(n, wal) = NoRows
      BY <1>1, <2>1 DEF Covers
    <3>2. \A i \in DOMAIN wal : ~Pending(n, wal[i])
      BY <1>2, <3>1, ReplayedNone
    <3>3. \A i \in DOMAIN wal : wal[i].seq # s
      BY <1>1, <3>2 DEF Pending
    <3>4. Carried(m, s, wal)
      BY <3>3, CarriedNone
    <3> QED
      BY <3>4
  <2>2. CASE \A p \in Pieces : Locating(n, p) # {} => Locating(m, p) # {}
    <3>1. Carried(n, s, wal)
      BY <1>2
    <3>2. Carried(m, s, wal)
      BY <1>2, <2>2, <3>1, CarriedOn
    <3> QED
      BY <3>2
  <2> QED
    BY <2>1, <2>2
<1>4. Stands(m, wal, wal_synced, promised)
  <2>1. ASSUME NEW k \in wal_synced .. Len(wal), Admits(m, SubSeq(wal, 1, k))
        PROVE  Shows(m, Replayed(m, SubSeq(wal, 1, k))) \in promised
    <3> PICK n, c : n = manifest /\ c = SubSeq(wal, 1, k)
      OBVIOUS
    <3>1. k \in 0 .. Len(wal)
      BY <1>2
    <3>2. c \in LogType
      BY <1>2, <3>1, CutIs
    <3>3. Admits(n, c) /\ Shows(n, Replayed(n, c)) = Shows(m, Replayed(m, c))
      <4>1. Maintained(n, m) /\ Admits(m, c)
        BY <2>1
      <4>2. Admits(n, c) /\ Replayed(n, c) = Replayed(m, c) /\ Shows(n, Replayed(n, c)) = Shows(m, Replayed(m, c))
        BY <3>2, <4>1, AdmitsBack
      <4> QED
        BY <4>2
    <3>4. Shows(n, Replayed(n, c)) \in promised
      BY <1>2, <3>3 DEF Stands
    <3> QED
      BY <3>3, <3>4
  <2> QED
    BY <2>1 DEF Stands
<1>5. CASE Container!Publish(m) /\ phase' = kind /\ attempted' = m /\ UNCHANGED requires_reopen
  <2>1. UNCHANGED <<requires_reopen, holes, log, opened, manifest, mem, acknowledged, fold, promised>>
    BY <1>5 DEF Publishes
  <2>2. kind \in {"flush", "merge", "punch", "refold"} /\ kind # "flush"
    OBVIOUS
  <2> QED
    BY <1>3, <1>4, <1>5, <2>1, <2>2, Published
<1>6. CASE requires_reopen' = (kind # "refold") /\ UNCHANGED <<container, job>>
  <2>1. UNCHANGED <<container, job, holes, log, opened, manifest, mem, acknowledged, fold, promised>>
    BY <1>6 DEF Publishes
  <2> QED
    BY <1>6, <2>1, NotPublished
<1> QED
  BY <1>5, <1>6 DEF Publishes

LEMMA MergeKeeps ==
    ASSUME ContentInv, NEW lo \in Nat \ {0}, NEW len \in Nat \ {0}, MergeRange(lo, len)
    PROVE  ContentInv' /\ View' = View /\ Answered
<1> PICK m, n : m = Merged(lo, len) /\ n = Len(manifest.parts)
  OBVIOUS
<1>1. FoldFacts /\ EnsureWriterUsable /\ len >= 2 /\ lo + len - 1 <= n /\ manifest \in ManifestType
  BY IdleIs DEF MergeRange, FoldFacts
<1>2. n \in Nat /\ lo \in Nat \ {0} /\ len \in Nat \ {0, 1} /\ lo \in 1 .. n /\ len \in 1 .. n
  <2>1. n \in Nat
    BY <1>1, ManifestIs
  <2> QED
    BY <1>1, <2>1
<1>3. /\ m \in ManifestType /\ Sound(m, holes) /\ Maintained(manifest, m)
      /\ \A p \in Pieces : Locating(manifest, p) # {} => Locating(m, p) # {}
  BY <1>1, <1>2, MergedIs
<1>4. Ready("merge", m)
  BY <1>1, <1>2 DEF Ready
<1>5. Publishes(m, "merge")
  BY DEF MergeRange
<1> QED
  BY <1>1, <1>3, <1>4, <1>5, MaintenancePublishes

LEMMA DeclarationKeeps ==
    ASSUME ContentInv, PunchDeclares
    PROVE  ContentInv' /\ View' = View /\ Answered
<1> PICK m : m = Declared
  OBVIOUS
<1>1. FoldFacts /\ EnsureWriterUsable /\ mem = NoRows
  BY IdleIs DEF PunchDeclares, Punchable
<1>2. m \in ManifestType /\ Sound(m, holes) /\ Maintained(manifest, m)
  BY <1>1, DeclaredIs
<1>3. Ready("punch", m) /\ Publishes(m, "punch")
  BY <1>1 DEF Ready, PunchDeclares
<1> QED
  BY <1>1, <1>2, <1>3, MaintenancePublishes

LEMMA RefoldKeeps ==
    ASSUME ContentInv, Refold
    PROVE  ContentInv' /\ View' = View /\ Answered
<1>1. FoldFacts /\ EnsureWriterUsable /\ mem = NoRows /\ manifest.parts # <<>> /\ holes \subseteq Nat \X Nat
  BY IdleIs DEF Refold, ContentInv, TypeOK
<1>2. PICK copy \in Copies : Publishes(Refolded(copy), "refold")
  BY DEF Refold
<1> PICK m : m = Refolded(copy)
  OBVIOUS
<1>3. m \in ManifestType /\ Sound(m, holes) /\ Maintained(manifest, m)
  BY <1>1, RefoldedIs
<1>4. Ready("refold", m) /\ Publishes(m, "refold")
  BY <1>1, <1>2 DEF Ready
<1> QED
  BY <1>1, <1>3, <1>4, MaintenancePublishes

-----------------------------------------------------------------------------
(* Outcomes. *)

Publishing == opened /\ phase \in {"flush", "merge", "punch", "refold"}

LEMMA PublishedIs ==
    ASSUME ContentInv, Publishing
    PROVE  /\ Usable /\ ~requires_reopen /\ FoldFacts /\ manifest = floor.content /\ attempted = current.content
           /\ attempted \in ManifestType /\ Sound(attempted, holes) /\ Ready(phase, attempted)
           /\ Covers(manifest, wal, window, mem) /\ View = Shows(manifest, mem)
           /\ (mem = NoRows => Anchored(manifest, window))
<1>1. TypeOK /\ AuthorityInv /\ HandleInv /\ FoldInv /\ LogInv
  BY DEF ContentInv
<1>2. opened /\ ~requires_reopen /\ Usable
  BY <1>1 DEF Publishing, HandleInv, Usable
<1>3. FoldFacts
  BY <1>1, <1>2, HandleFacts
<1>4. manifest = floor.content /\ attempted = current.content /\ Ready(phase, attempted)
  BY <1>1 DEF Publishing, HandleInv
<1>5. attempted \in ManifestType /\ Sound(attempted, holes)
  BY <1>1, <1>4, Manifests
<1>6. View = Shows(manifest, mem)
  BY <1>2, SeenIs DEF Seen
<1> QED
  BY <1>1, <1>2, <1>3, <1>4, <1>5, <1>6 DEF FoldInv, LogInv

\* A log with nothing to replay covers any window that parts answer for.
LEMMA CoversNothing ==
    ASSUME NEW l \in LogType, NEW m \in ManifestType, NEW w, \A i \in DOMAIN l : l[i].seq <= m.next_seq,
           \A p \in DOMAIN w : Locating(m, p) # {}
    PROVE  Covers(m, l, w, NoRows)
<1>1. \A i \in DOMAIN l : l[i].seq \in Nat
  BY LogIs
<1>2. m.next_seq \in Nat
  BY ManifestIs
<1>3. \A i \in DOMAIN l : ~Pending(m, l[i]) /\ l[i].seq <= m.next_seq + 1
  BY <1>1, <1>2 DEF Pending
<1>4. Replayed(m, l) = NoRows
  BY <1>3, ReplayedNone
<1>5. PendingAt(m, l) = {}
  BY <1>3 DEF PendingAt
<1> QED
  BY <1>3, <1>4, <1>5 DEF Covers

LEMMA QuietLog ==
    ASSUME NEW l \in LogType, NEW m \in ManifestType, NEW w, Covers(m, l, w, NoRows)
    PROVE  \A i \in DOMAIN l : l[i].seq <= m.next_seq
<1>1. \A i \in DOMAIN l : l[i].seq \in Nat /\ l[i].seq <= m.next_seq + 1
  BY LogIs DEF Covers
<1>2. m.next_seq \in Nat
  BY ManifestIs
<1>3. \A i \in DOMAIN l : l[i].seq # m.next_seq + 1
  <2>1. Replayed(m, l) = NoRows
    BY DEF Covers
  <2>2. \A i \in DOMAIN l : ~Pending(m, l[i])
    BY <2>1, ReplayedNone
  <2> QED
    BY <2>2 DEF Pending
<1> QED
  BY <1>1, <1>2, <1>3

\* What a handle has that has adopted what it published.
Adopted(m, bs, gone, w, rows) ==
    /\ bs \in FoldType /\ gone \subseteq Nat /\ w \in DictType /\ rows \in Rows
    /\ FoldsOn(m, bs, TRUE, gone, w)
    /\ \A p \in Named(rows) : Knows(m, w, p)
    /\ rows = NoRows => Anchored(m, w)
    /\ Covers(m, wal, w, rows)
    /\ Shows(m, rows) = Shows(manifest, mem)

LEMMA AdoptsFlush ==
    ASSUME ContentInv, Publishing, phase = "flush"
    PROVE  Adopted(attempted, blocks, forgotten, None, NoRows)
<1> PICK m : m = attempted
  OBVIOUS
<1>1. /\ FoldFacts /\ m \in ManifestType /\ m = Flushed /\ Covers(manifest, wal, window, mem)
  BY PublishedIs DEF Ready
<1>2. /\ m.next_seq = manifest.next_seq + 1 /\ m.blocks = blocks /\ m.punched = manifest.punched
      /\ Shows(m, NoRows) = Shows(manifest, mem)
  BY <1>1, FlushedIs
<1>3. /\ blocks \in FoldType /\ forgotten \subseteq manifest.punched /\ None \in DictType /\ DOMAIN None = {}
      /\ forgotten \subseteq Nat /\ wal \in LogType
  BY <1>1, NoneIs DEF FoldFacts, FoldType, FoldsOn, ContentInv, TypeOK
<1>4. FoldsOn(m, blocks, TRUE, forgotten, None)
  <2>1. Len(blocks) <= Len(blocks)
    <3>1. Len(blocks) \in Nat
      BY <1>1, LenProperties DEF FoldFacts
    <3> QED
      BY <3>1
  <2> QED
    BY <1>2, <1>3, <2>1 DEF FoldsOn
<1>5. Covers(m, wal, None, NoRows)
  <2>1. \A i \in DOMAIN wal : wal[i].seq <= m.next_seq
    BY <1>1, <1>2 DEF Covers
  <2> QED
    BY <1>1, <1>3, <2>1, CoversNothing
<1>6. Anchored(m, None)
  BY <1>3 DEF Anchored
<1> QED
  BY <1>2, <1>3, <1>4, <1>5, <1>6, NoneNamed, NoRowsIs DEF Adopted

LEMMA AdoptsMerge ==
    ASSUME ContentInv, Publishing, phase = "merge"
    PROVE  Adopted(attempted, blocks, forgotten, window, mem)
<1> PICK m : m = attempted
  OBVIOUS
<1>1. /\ FoldFacts /\ m \in ManifestType /\ manifest \in ManifestType /\ Covers(manifest, wal, window, mem)
      /\ (mem = NoRows => Anchored(manifest, window))
  BY PublishedIs DEF FoldFacts
<1>2. PICK lo \in 1 .. Len(manifest.parts), len \in 1 .. Len(manifest.parts) :
          len >= 2 /\ lo + len - 1 <= Len(manifest.parts) /\ m = Merged(lo, len)
  BY PublishedIs DEF Ready
<1>3. /\ Maintained(manifest, m) /\ m.blocks = blocks /\ m.punched = manifest.punched
      /\ \A p \in Pieces : Locating(manifest, p) # {} => Locating(m, p) # {}
      /\ Anchored(manifest, window) => Anchored(m, window)
  <2>1. Len(manifest.parts) \in Nat
    BY <1>1, ManifestIs
  <2>2. lo \in Nat \ {0} /\ len \in Nat \ {0, 1}
    BY <1>2, <2>1
  <2> QED
    BY <1>1, <1>2, <2>2, MergedIs
<1>4. /\ blocks \in FoldType /\ forgotten \subseteq Nat /\ window \in DictType /\ mem \in Rows /\ wal \in LogType
      /\ DOMAIN window \subseteq Pieces
  <2>1. window \in DictType
    BY <1>1 DEF FoldFacts
  <2>2. DOMAIN window \subseteq Pieces
    BY <2>1, DictIs
  <2> QED
    BY <1>1, <2>2 DEF FoldFacts, FoldType, ContentInv, TypeOK
<1>5. FoldsOn(m, blocks, TRUE, forgotten, window)
  <2>1. FoldsOn(manifest, blocks, sealed, forgotten, window)
    BY <1>1 DEF FoldFacts
  <2>2. Len(blocks) <= Len(blocks)
    <3>1. Len(blocks) \in Nat
      BY <1>1, LenProperties DEF FoldFacts
    <3> QED
      BY <3>1
  <2> QED
    BY <1>3, <2>1, <2>2 DEF FoldsOn
<1>6. \A p \in Pieces : Knows(manifest, window, p) => Knows(m, window, p)
  BY <1>3 DEF Knows
<1>7. \A p \in Named(mem) : Knows(m, window, p)
  <2>1. Named(mem) \subseteq Pieces
    BY <1>4, NamedPieces
  <2> QED
    BY <1>1, <1>6, <2>1 DEF FoldFacts
<1>8. Covers(m, wal, window, mem)
  <2>1. m.next_seq = manifest.next_seq
    BY <1>3 DEF Maintained
  <2>2. Replayed(m, wal) = mem
    BY <1>1, <2>1, SameSequence DEF Covers
  <2>3. PendingAt(m, wal) = PendingAt(manifest, wal)
    BY <2>1 DEF PendingAt, Pending
  <2>4. \A i \in PendingAt(m, wal) : \A p \in wal[i].novel : Knows(m, window, p)
    <3>1. ASSUME NEW i \in PendingAt(m, wal), NEW p \in wal[i].novel PROVE Knows(m, window, p)
      <4>1. i \in DOMAIN wal
        BY <3>1 DEF PendingAt
      <4>2. wal[i].novel \in SUBSET Pieces
        BY <1>4, <4>1, LogIs
      <4>3. Knows(manifest, window, p)
        BY <1>1, <2>3, <3>1 DEF Covers
      <4> QED
        BY <1>6, <4>2, <4>3
    <3> QED
      BY <3>1
  <2>5. \A p \in DOMAIN window : Locating(m, p) # {} \/ \E i \in PendingAt(m, wal) : p \in wal[i].novel
    BY <1>1, <1>3, <1>4, <2>3 DEF Covers
  <2> QED
    BY <1>1, <2>1, <2>2, <2>4, <2>5 DEF Covers
<1>9. Shows(m, mem) = Shows(manifest, mem)
  BY <1>3, <1>4 DEF Maintained, SameView
<1> QED
  BY <1>1, <1>3, <1>4, <1>5, <1>7, <1>8, <1>9 DEF Adopted

LEMMA AdoptsQuiet ==
    ASSUME ContentInv, Publishing, mem = NoRows, Maintained(manifest, attempted),
           NEW bs \in FoldType, NEW gone \in SUBSET Nat, NEW w \in DictType,
           FoldsOn(attempted, bs, TRUE, gone, w), Anchored(attempted, w)
    PROVE  Adopted(attempted, bs, gone, w, NoRows)
<1> PICK m : m = attempted
  OBVIOUS
<1>1. m \in ManifestType /\ Sound(m, holes) /\ Covers(manifest, wal, window, NoRows) /\ manifest \in ManifestType
  BY PublishedIs DEF FoldFacts
<1>2. \A p \in DOMAIN w : Locating(m, p) # {}
  BY <1>1, AnchoredLocates DEF Sound
<1>3. wal \in LogType
  BY DEF ContentInv, TypeOK
<1>4. Covers(m, wal, w, NoRows)
  <2>1. \A i \in DOMAIN wal : wal[i].seq <= manifest.next_seq
    BY <1>1, <1>3, QuietLog
  <2>2. \A i \in DOMAIN wal : wal[i].seq <= m.next_seq
    BY <2>1 DEF Maintained
  <2> QED
    BY <1>1, <1>2, <1>3, <2>2, CoversNothing
<1>5. Shows(m, NoRows) = Shows(manifest, mem)
  BY NoRowsIs DEF Maintained, SameView
<1> QED
  BY <1>4, <1>5, NoneNamed, NoRowsIs DEF Adopted

LEMMA AdoptsPunch ==
    ASSUME ContentInv, Publishing, phase = "punch"
    PROVE  Adopted(attempted, blocks, forgotten, window, NoRows)
<1> PICK m : m = attempted
  OBVIOUS
<1>1. FoldFacts /\ mem = NoRows /\ m = Declared /\ Anchored(manifest, window)
  BY PublishedIs DEF Ready
<1>2. /\ Maintained(manifest, m) /\ m.blocks = blocks /\ m.punched = manifest.punched \cup Dead
      /\ Anchored(m, window) /\ \A p \in DOMAIN window : window[p] \notin m.punched
  BY <1>1, DeclaredIs
<1>3. FoldsOn(m, blocks, TRUE, forgotten, window)
  <2>1. FoldsOn(manifest, blocks, sealed, forgotten, window)
    BY <1>1 DEF FoldFacts
  <2>2. Len(blocks) <= Len(blocks)
    <3>1. Len(blocks) \in Nat
      BY <1>1, LenProperties DEF FoldFacts
    <3> QED
      BY <3>1
  <2> QED
    BY <1>2, <2>1, <2>2 DEF FoldsOn
<1>4. blocks \in FoldType /\ forgotten \in SUBSET Nat /\ window \in DictType
  BY DEF ContentInv, TypeOK
<1> QED
  BY <1>1, <1>2, <1>3, <1>4, AdoptsQuiet

LEMMA AdoptsRefold ==
    ASSUME ContentInv, Publishing, phase = "refold"
    PROVE  /\ Adopted(attempted, attempted.blocks, {}, Remapped(attempted), NoRows) /\ mem = NoRows
           /\ Tight(attempted) /\ Cleared(attempted.parts)
           /\ attempted.punched = {} /\ attempted.gen # manifest.gen
<1>1. FoldFacts /\ mem = NoRows /\ manifest.parts # <<>>
  BY PublishedIs DEF Ready
<1>2. PICK copy \in Copies : attempted = Refolded(copy)
  BY PublishedIs DEF Ready
<1> PICK m, w : m = Refolded(copy) /\ w = Remapped(m)
  OBVIOUS
<1>3. /\ m \in ManifestType /\ Sound(m, holes) /\ Maintained(manifest, m)
      /\ m.blocks = copy.blocks /\ m.punched = {}
      /\ w \in DictType /\ FoldsOn(m, m.blocks, TRUE, {}, w) /\ Anchored(m, w) /\ Tight(m)
      /\ Cleared(m.parts)
  <2>1. holes \subseteq Nat \X Nat
    BY DEF ContentInv, TypeOK
  <2> QED
    BY <1>1, <2>1, RefoldedIs
<1>4. m.gen # manifest.gen
  <2>1. manifest.gen \in Nat /\ manifest \in ManifestType
    BY <1>1, ManifestIs DEF FoldFacts
  <2>2. m.gen = manifest.gen + 1
    BY <2>1 DEF Refolded, ManifestType
  <2> QED
    BY <2>1, <2>2
<1>5. m.blocks \in FoldType
  BY <1>3, ManifestIs DEF FoldType
<1>6. Adopted(attempted, m.blocks, {}, w, NoRows)
  <2> PICK bs : bs = m.blocks
    OBVIOUS
  <2>1. bs \in FoldType /\ {} \in SUBSET Nat /\ attempted = m
    BY <1>2, <1>5
  <2>2. Adopted(attempted, bs, {}, w, NoRows)
    BY <1>1, <1>3, <2>1, AdoptsQuiet
  <2> QED
    BY <2>2
<1> QED
  BY <1>1, <1>2, <1>3, <1>4, <1>6

LEMMA AdoptsIs ==
    ASSUME ContentInv, Publishing, Adopts
    PROVE  /\ manifest' = attempted /\ Adopted(attempted, blocks', forgotten', window', mem')
           /\ sealed' = TRUE /\ opened' = opened /\ requires_reopen' = requires_reopen
           /\ phase \in {"flush", "punch"} => mem' = NoRows
<1>1. /\ manifest' = attempted /\ sealed' = TRUE /\ opened' = opened /\ requires_reopen' = requires_reopen
      /\ mem' = IF phase = "flush" THEN NoRows ELSE mem
  BY DEF Adopts
<1>2. CASE phase = "flush"
  <2>1. blocks' = blocks /\ forgotten' = forgotten /\ window' = None /\ mem' = NoRows
    BY <1>2 DEF Adopts
  <2> QED
    BY <1>1, <1>2, <2>1, AdoptsFlush
<1>3. CASE phase = "merge"
  <2>1. blocks' = blocks /\ forgotten' = forgotten /\ window' = window /\ mem' = mem
    BY <1>3 DEF Adopts
  <2> QED
    BY <1>1, <1>3, <2>1, AdoptsMerge
<1>4. CASE phase = "punch"
  <2>1. blocks' = blocks /\ forgotten' = forgotten /\ window' = window /\ mem' = NoRows
    BY <1>4, PublishedIs DEF Adopts, Ready
  <2> QED
    BY <1>1, <1>4, <2>1, AdoptsPunch
<1>5. CASE phase = "refold"
  <2>1. blocks' = attempted.blocks /\ forgotten' = {} /\ window' = Remapped(attempted) /\ mem' = NoRows
    BY <1>5, AdoptsRefold DEF Adopts
  <2> QED
    BY <1>1, <1>5, <2>1, AdoptsRefold
<1> QED
  BY <1>2, <1>3, <1>4, <1>5 DEF Publishing

LEMMA DeclaredDead ==
    ASSUME ContentInv, Publishing, phase = "punch", Adopts
    PROVE  (Dead \subseteq manifest.punched)'
<1>1. FoldFacts /\ attempted = Declared
  BY PublishedIs DEF Ready
<1>2. attempted.parts = manifest.parts /\ attempted.punched = manifest.punched \cup Dead
  BY <1>1, DeclaredIs
<1>3. manifest' = attempted /\ blocks' = blocks /\ forgotten' = forgotten
  BY DEF Adopts
<1>4. Dead' = Dead
  BY <1>2, <1>3 DEF Dead
<1> QED
  BY <1>2, <1>3, <1>4

LEMMA BarrierPasses ==
    ASSUME ContentInv, Publishing, Adopts, UNCHANGED <<holes, log, attempted>>, current' = current,
           \/ acknowledged' = TRUE /\ floor' = current /\ phase' \in {"idle", "punching", "settle"}
           \/ acknowledged' = FALSE /\ floor' = floor /\ phase' = "idle",
           phase' = "punching" => phase = "punch", phase' = "settle" => phase = "flush"
    PROVE  /\ TypeOK' /\ AuthorityInv' /\ FloorInv' /\ HandleInv' /\ FoldInv' /\ LogInv'
           /\ Seen' = Seen
<1>1. TypeOK /\ AuthorityInv /\ FloorInv /\ LogInv
  BY DEF ContentInv
<1>2. /\ opened /\ ~requires_reopen /\ attempted = current.content /\ attempted \in ManifestType
      /\ manifest = floor.content
  BY PublishedIs DEF Publishing
<1>3. /\ manifest' = attempted /\ sealed' = TRUE /\ opened' = opened /\ requires_reopen' = requires_reopen
      /\ phase \in {"flush", "punch"} => mem' = NoRows
      /\ UNCHANGED <<holes, wal, wal_synced, attempted>>
  BY AdoptsIs DEF log
<1>4. /\ blocks' \in FoldType /\ forgotten' \subseteq Nat /\ window' \in DictType /\ mem' \in Rows
      /\ FoldsOn(attempted, blocks', TRUE, forgotten', window')
      /\ \A p \in Named(mem') : Knows(attempted, window', p)
      /\ mem' = NoRows => Anchored(attempted, window')
      /\ Covers(attempted, wal, window', mem')
      /\ Shows(attempted, mem') = Shows(manifest, mem)
  BY AdoptsIs DEF Adopted
<1>5. TypeOK'
  BY <1>1, <1>2, <1>3, <1>4 DEF TypeOK
<1>6. AuthorityInv' /\ FloorInv'
  <2>1. Maintained(current.content, current.content)
    BY MaintainedSelf
  <2> QED
    BY <1>1, <1>3, <2>1 DEF AuthorityInv, FloorInv
<1>7. HandleInv'
  <2>1. phase' = "punching" => (Dead \subseteq manifest.punched)'
    BY DeclaredDead
  <2>2. /\ phase' \in {"idle", "punching", "settle"} /\ opened' /\ ~requires_reopen'
        /\ manifest' = current'.content /\ (acknowledged' => floor'.content = current'.content)
        /\ phase' \in {"punching", "settle"} => floor'.content = current'.content /\ mem' = NoRows
    BY <1>2, <1>3
  <2> QED
    BY <2>1, <2>2 DEF HandleInv, Usable, Ready
<1>8. FoldInv'
  BY <1>3, <1>4 DEF FoldInv
<1>9. LogInv'
  BY <1>1, <1>2, <1>3, <1>4 DEF LogInv
<1>10. Seen' = Seen
  BY <1>2, <1>3, <1>4 DEF Seen
<1> QED
  BY <1>5, <1>6, <1>7, <1>8, <1>9, <1>10

\* Over the manifest of a flush, whatever is left of its log shows the same.
LEMMA FlushedStands ==
    ASSUME ContentInv, Publishing, phase = "flush"
    PROVE  Stands(current.content, wal, wal_synced, {View})
<1> PICK m : m = attempted
  OBVIOUS
<1>1. m = current.content /\ FoldFacts /\ m = Flushed /\ Covers(manifest, wal, window, mem) /\ View = Shows(manifest, mem)
      /\ m \in ManifestType /\ manifest \in ManifestType
  BY PublishedIs DEF Ready, FoldFacts
<1>2. m.next_seq = manifest.next_seq + 1 /\ Shows(m, NoRows) = View
  BY <1>1, FlushedIs
<1>3. wal \in LogType /\ wal_synced \in 0 .. Len(wal) /\ Len(wal) \in Nat
  <2>1. wal \in LogType /\ wal_synced \in 0 .. Len(wal)
    BY DEF ContentInv, TypeOK
  <2> QED
    BY <2>1, LogIs
<1>4. \A i \in DOMAIN wal : ~Pending(m, wal[i])
  <2>1. m.next_seq \in Nat /\ \A i \in DOMAIN wal : wal[i].seq \in Nat /\ wal[i].seq <= m.next_seq
    BY <1>1, <1>2, <1>3, LogIs, ManifestIs DEF Covers
  <2> QED
    BY <2>1 DEF Pending
<1>5. ASSUME NEW k \in wal_synced .. Len(wal)
      PROVE  Shows(m, Replayed(m, SubSeq(wal, 1, k))) = View
  <2> PICK c : c = SubSeq(wal, 1, k)
    OBVIOUS
  <2>1. k \in 0 .. Len(wal)
    BY <1>3
  <2>2. c \in LogType /\ DOMAIN c = 1 .. k /\ \A i \in 1 .. k : i \in DOMAIN wal /\ c[i] = wal[i]
    BY <1>3, <2>1, CutIs
  <2>3. \A i \in DOMAIN c : ~Pending(m, c[i])
    BY <1>4, <2>2
  <2>4. Replayed(m, c) = NoRows
    BY <2>2, <2>3, ReplayedNone
  <2> QED
    BY <1>2, <2>4
<1> QED
  BY <1>1, <1>5 DEF Stands

LEMMA BarrierKeeps ==
    ASSUME ContentInv, FinalBarrier
    PROVE  ContentInv' /\ View' = View /\ Answered
<1>1. Publishing /\ UNCHANGED <<holes, log, attempted>>
  BY DEF FinalBarrier, Publishing
<1>2. PromisedInv /\ opened
  BY <1>1 DEF ContentInv, Publishing
<1>3. CASE /\ Container!Acknowledge /\ Adopts /\ acknowledged' = TRUE
           /\ phase' = CASE phase = "flush" -> "settle" [] phase = "punch" -> "punching" [] OTHER -> "idle"
           /\ promised' = IF phase = "flush" THEN {View} ELSE promised
  <2>1. /\ current' = current /\ floor' = current /\ phase' \in {"idle", "punching", "settle"}
        /\ (phase' = "punching" => phase = "punch") /\ (phase' = "settle" => phase = "flush")
    <3>1. phase = "flush" \/ phase = "punch" \/ (phase # "flush" /\ phase # "punch")
      OBVIOUS
    <3> QED
      BY <1>3, <3>1 DEF Container!Acknowledge
  <2>2. TypeOK' /\ AuthorityInv' /\ FloorInv' /\ HandleInv' /\ FoldInv' /\ LogInv' /\ Seen' = Seen
    BY <1>1, <1>3, <2>1, BarrierPasses
  <2>3. UNCHANGED <<wal, wal_synced>>
    BY <1>1 DEF log
  <2>4. CASE phase = "flush"
    <3>1. Stands(current.content, wal, wal_synced, {View})
      BY <1>1, <2>4, FlushedStands
    <3>2. View' = View
      <4>1. View' = Seen'
        BY <2>2, ViewIsNext DEF ViewSeen
      <4>2. View = Seen
        BY SeenIs
      <4> QED
        BY <2>2, <4>1, <4>2
    <3>3. promised' = {View}
      BY <1>3, <2>4
    <3>4. PromisedInv'
      BY <2>1, <2>3, <3>1, <3>2, <3>3 DEF PromisedInv
    <3>5. Answered
      BY <3>2, <3>3 DEF Answered, Promise!Next, Promise!Acknowledge
    <3> QED
      BY <2>2, <3>2, <3>4, <3>5 DEF ContentInv
  <2>5. CASE phase # "flush"
    <3>1. promised' = promised
      BY <1>3, <2>5
    <3>2. Stands(current'.content, wal', wal_synced', promised) /\ Stands(floor'.content, wal', wal_synced', promised)
      BY <1>2, <2>1, <2>3 DEF PromisedInv
    <3> QED
      BY <2>2, <3>1, <3>2, Quiet
  <2> QED
    BY <2>4, <2>5
<1>4. CASE Adopts /\ acknowledged' = FALSE /\ phase' = "idle" /\ UNCHANGED <<container, promised>>
  <2>1. UNCHANGED <<current, floor, wal, wal_synced, promised>>
    BY <1>1, <1>4 DEF log, container
  <2>2. TypeOK' /\ AuthorityInv' /\ FloorInv' /\ HandleInv' /\ FoldInv' /\ LogInv' /\ Seen' = Seen
    BY <1>1, <1>4, <2>1, BarrierPasses
  <2>3. Stands(current'.content, wal', wal_synced', promised) /\ Stands(floor'.content, wal', wal_synced', promised)
    BY <1>2, <2>1 DEF PromisedInv
  <2> QED
    BY <2>1, <2>2, <2>3, Quiet
<1>5. CASE /\ requires_reopen' = TRUE /\ UNCHANGED <<opened, manifest, mem, acknowledged, fold>>
           /\ phase' = "idle" /\ UNCHANGED <<container, promised>>
  BY <1>1, <1>2, <1>5, Poisons
<1> QED
  BY <1>3, <1>4, <1>5 DEF FinalBarrier

\* After a refold every block holds live pieces only.
LEMMA RefoldedTight ==
    ASSUME ContentInv, FinalBarrier, phase = "refold", manifest' = attempted
    PROVE  ContentLiveness'.reclaimable = {} /\ ContentLiveness'.stranded = 0
<1> PICK m : m = attempted
  OBVIOUS
<1>1. Publishing /\ m \in ManifestType /\ Sound(m, holes)
  BY PublishedIs DEF FinalBarrier, Publishing
<1>2. Tight(m) /\ m.punched = {} /\ m.gen # manifest.gen
  BY <1>1, AdoptsRefold
<1>3. manifest' # manifest
  BY <1>2
<1>4. Adopts
  BY <1>3 DEF FinalBarrier
<1>5. blocks' = m.blocks /\ forgotten' = {} /\ manifest' = m /\ sealed' = TRUE
  BY <1>4 DEF Adopts
<1> DEFINE live  == LivePieces(m.parts)
           hosts == {l[1] : l \in live}
<1>6. \A l \in live : l[1] \in DOMAIN m.blocks
  <2>1. m.blocks \in Seq(SUBSET Pieces)
    BY <1>1, ManifestIs
  <2> QED
    BY <1>1, <2>1, OwnFold, LiveReads
<1>7. DOMAIN m.blocks \subseteq hosts
  <2>1. ASSUME NEW b \in DOMAIN m.blocks PROVE b \in hosts
    <3>1. PICK p : p \in m.blocks[b]
      BY <1>2 DEF Tight
    <3>2. <<b, p>> \in live /\ <<b, p>>[1] = b
      BY <1>2, <3>1 DEF Tight
    <3> QED
      BY <3>2
  <2> QED
    BY <2>1
<1>8. {l \in hosts \X Pieces : l[2] \in m.blocks[l[1]]} \ live = {}
  <2>1. ASSUME NEW l \in hosts \X Pieces, l[2] \in m.blocks[l[1]] PROVE l \in live
    <3>1. l[1] \in DOMAIN m.blocks
      BY <1>6, <2>1
    <3>2. <<l[1], l[2]>> \in live
      BY <1>2, <2>1, <3>1 DEF Tight
    <3> QED
      BY <2>1, <3>2
  <2> QED
    BY <2>1
<1>9. Inventory' = DOMAIN m.blocks
  BY <1>2, <1>5 DEF Inventory
<1>10. /\ ContentLiveness'.reclaimable = DOMAIN m.blocks \ hosts
       /\ ContentLiveness'.stranded = Cardinality({l \in hosts \X Pieces : l[2] \in m.blocks[l[1]]} \ live)
  BY <1>5, <1>9 DEF ContentLiveness
<1> QED
  BY <1>7, <1>8, <1>10, FS_EmptySet

LEMMA NoLog ==
    /\ <<>> \in LogType /\ Len(<<>>) = 0 /\ SubSeq(<<>>, 1, 0) = <<>>
    /\ \A m : Replayed(m, <<>>) = NoRows
    /\ \A m, s : Carried(m, s, <<>>)
<1>1. <<>> \in LogType /\ Len(<<>>) = 0
  BY DEF LogType
<1>2. SubSeq(<<>>, 1, 0) = <<>>
  <2>1. SubSeq(<<>>, 1, Len(<<>>)) = <<>>
    BY <1>1, WholeCut
  <2> QED
    BY <1>1, <2>1
<1>3. \A m : Replayed(m, <<>>) = NoRows
  <2>1. ASSUME NEW m PROVE Replayed(m, <<>>) = NoRows
    <3>1. \A i \in DOMAIN <<>> : ~Pending(m, <<>>[i])
      OBVIOUS
    <3> QED
      BY <1>1, <3>1, ReplayedNone
  <2> QED
    BY <2>1
<1>4. \A m, s : Carried(m, s, <<>>)
  BY CarriedNone
<1> QED
  BY <1>1, <1>2, <1>3, <1>4

LEMMA StandsNoLog ==
    ASSUME NEW m, NEW views, Shows(m, NoRows) \in views
    PROVE  Stands(m, <<>>, 0, views)
<1>1. \A k \in 0 .. 0 : k = 0
  OBVIOUS
<1>2. \A k \in 0 .. Len(<<>>) : Replayed(m, SubSeq(<<>>, 1, k)) = NoRows
  <2>1. ASSUME NEW k \in 0 .. Len(<<>>) PROVE Replayed(m, SubSeq(<<>>, 1, k)) = NoRows
    <3>1. k = 0
      BY <1>1, NoLog
    <3>2. SubSeq(<<>>, 1, k) = <<>>
      BY <3>1, NoLog
    <3> QED
      BY <3>2, NoLog
  <2> QED
    BY <2>1
<1> QED
  BY <1>2 DEF Stands

\* The log goes when the manifest holds all it staged.
LEMMA LogSettles ==
    ASSUME ContentInv, opened, ~requires_reopen, mem = NoRows, manifest = current.content,
           current' = current, floor' \in [seq : Nat, content : ManifestType], floor'.content = current.content,
           acknowledged' \in BOOLEAN, phase' = "idle", TruncatesLog
    PROVE  ContentInv' /\ View' = View /\ Answered
<1>1. TypeOK /\ AuthorityInv /\ FloorInv /\ FoldInv /\ manifest \in ManifestType /\ Sound(manifest, holes)
  BY DEF ContentInv, TypeOK, AuthorityInv
<1>2. /\ UNCHANGED <<holes, opened, manifest, mem, requires_reopen, blocks, sealed, forgotten, window,
                     attempted, promised>>
      /\ wal' = <<>> /\ wal_synced' = 0
  BY DEF TruncatesLog, fold
<1>3. TypeOK'
  <2>1. wal' \in LogType /\ wal_synced' \in 0 .. Len(wal')
    BY <1>2, NoLog
  <2> QED
    BY <1>1, <1>2, <2>1 DEF TypeOK
<1>4. AuthorityInv' /\ FloorInv'
  <2>1. Maintained(current.content, current.content)
    BY MaintainedSelf
  <2> QED
    BY <1>1, <1>2, <2>1 DEF AuthorityInv, FloorInv
<1>5. HandleInv'
  BY <1>2 DEF HandleInv, Usable, Ready
<1>6. FoldInv'
  BY <1>1, <1>2 DEF FoldInv, Usable
<1>7. LogInv'
  <2>1. Anchored(manifest, window)
    BY <1>1 DEF FoldInv, Usable
  <2>2. \A p \in DOMAIN window : Locating(manifest, p) # {}
    BY <1>1, <2>1, AnchoredLocates DEF Sound
  <2>3. \A i \in DOMAIN <<>> : <<>>[i].seq <= manifest.next_seq
    OBVIOUS
  <2>4. Covers(manifest, <<>>, window, NoRows)
    BY <1>1, <2>2, <2>3, NoLog, CoversNothing
  <2> QED
    BY <1>2, <2>4, NoLog DEF LogInv, Usable
<1>8. Seen' = Seen
  BY <1>2 DEF Seen
<1>9. Stands(current'.content, wal', wal_synced', promised) /\ Stands(floor'.content, wal', wal_synced', promised)
  <2>1. Shows(manifest, NoRows) \in promised
    BY SeenIs DEF Seen
  <2>2. Stands(manifest, <<>>, 0, promised)
    BY <2>1, StandsNoLog
  <2> QED
    BY <1>2, <2>2
<1> QED
  BY <1>2, <1>3, <1>4, <1>5, <1>6, <1>7, <1>8, <1>9, Quiet

LEMMA TruncationKeeps ==
    ASSUME ContentInv, FlushTruncates
    PROVE  ContentInv' /\ View' = View /\ Answered
<1>1. TypeOK /\ HandleInv
  BY DEF ContentInv
<1>2. opened /\ phase = "settle" /\ phase' = "idle" /\ TruncatesLog /\ UNCHANGED <<container, acknowledged>>
  BY DEF FlushTruncates
<1>3. ~requires_reopen /\ mem = NoRows /\ manifest = current.content /\ floor.content = current.content
  BY <1>1, <1>2 DEF HandleInv
<1>4. /\ current' = current /\ floor' \in [seq : Nat, content : ManifestType] /\ floor'.content = current.content
      /\ acknowledged' \in BOOLEAN
  BY <1>1, <1>2, <1>3 DEF TypeOK, container
<1> QED
  BY <1>2, <1>3, <1>4, LogSettles

LEMMA SettlementKeeps ==
    ASSUME ContentInv, FlushSettles
    PROVE  ContentInv' /\ View' = View /\ Answered
<1>1. EnsureWriterUsable /\ mem = NoRows /\ AcknowledgesCurrent /\ acknowledged' = TRUE /\ TruncatesLog /\ phase' = phase
  BY DEF FlushSettles
<1>2. opened /\ ~requires_reopen /\ phase' = "idle" /\ manifest = current.content
  BY <1>1, IdleIs
<1>3. current' = current /\ floor' \in [seq : Nat, content : ManifestType] /\ floor'.content = current.content
  BY <1>1, AcknowledgedIs
<1>4. acknowledged' \in BOOLEAN
  BY <1>1
<1> QED
  BY <1>1, <1>2, <1>3, <1>4, LogSettles

LEMMA PunchKeeps ==
    ASSUME ContentInv, PunchesDeclared
    PROVE  ContentInv' /\ View' = View /\ Answered
<1>1. /\ EnsureWriterUsable /\ mem = NoRows /\ Dead \subseteq manifest.punched
      /\ UNCHANGED <<holes, log, opened, manifest, mem, requires_reopen, fold, attempted, promised>>
  BY DEF PunchesDeclared, Punchable
<1>2. CASE UNCHANGED <<container, acknowledged, phase>>
  BY <1>1, <1>2, Stutters DEF handle, job
<1>3. CASE AcknowledgesCurrent /\ acknowledged' = TRUE /\ phase' = "punching"
  <2>1. /\ opened /\ ~requires_reopen /\ manifest = current.content
        /\ current' = current /\ floor' \in [seq : Nat, content : ManifestType] /\ floor'.content = current.content
    BY <1>1, <1>3, IdleIs, AcknowledgedIs
  <2>2. UNCHANGED <<holes, wal, wal_synced, opened, manifest, mem, requires_reopen,
                    blocks, sealed, forgotten, window, attempted, promised>>
    BY <1>1 DEF log, fold
  <2>3. TypeOK /\ AuthorityInv /\ FloorInv /\ FoldInv /\ LogInv /\ PromisedInv
    BY DEF ContentInv
  <2>4. TypeOK'
    BY <1>3, <2>1, <2>2, <2>3 DEF TypeOK
  <2>5. AuthorityInv' /\ FloorInv'
    <3>1. Maintained(current.content, current.content)
      BY MaintainedSelf
    <3> QED
      BY <2>1, <2>2, <2>3, <3>1 DEF AuthorityInv, FloorInv
  <2>6. HandleInv'
    <3>1. Dead' = Dead
      BY <2>2 DEF Dead
    <3> QED
      BY <1>1, <1>3, <2>1, <2>2, <3>1 DEF HandleInv, Usable, Ready
  <2>7. FoldInv' /\ LogInv'
    BY <1>3, <2>1, <2>2, <2>3 DEF FoldInv, LogInv, Usable
  <2>8. Seen' = Seen
    BY <2>1, <2>2 DEF Seen
  <2>9. Stands(current'.content, wal', wal_synced', promised) /\ Stands(floor'.content, wal', wal_synced', promised)
    BY <2>1, <2>2, <2>3 DEF PromisedInv
  <2> QED
    BY <2>2, <2>4, <2>5, <2>6, <2>7, <2>8, <2>9, Quiet
<1> QED
  BY <1>1, <1>2, <1>3 DEF PunchesDeclared

LEMMA BlocksKeep ==
    ASSUME ContentInv, PunchBlocks
    PROVE  ContentInv' /\ View' = View /\ Answered /\ ContentLiveness'.reclaimable = {}
<1>1. TypeOK /\ AuthorityInv /\ FloorInv /\ HandleInv /\ FoldInv /\ LogInv /\ PromisedInv
  BY DEF ContentInv
<1>2. PICK done \in SUBSET Dead : /\ holes' = holes \cup {<<manifest.gen, b>> : b \in done}
                                  /\ forgotten' = forgotten \cup done
  BY DEF PunchBlocks
<1>3. /\ opened /\ phase = "punching" /\ phase' = "idle"
      /\ UNCHANGED <<current, floor, wal, wal_synced, opened, manifest, mem, requires_reopen, acknowledged,
                     blocks, sealed, window, attempted, promised>>
  BY DEF PunchBlocks, container, log
<1>4. /\ ~requires_reopen /\ manifest = current.content /\ floor.content = current.content /\ mem = NoRows
      /\ Dead \subseteq manifest.punched
  BY <1>1, <1>3 DEF HandleInv
<1>5. manifest \in ManifestType /\ manifest.gen \in Nat /\ Sound(manifest, holes) /\ manifest.punched \in SUBSET Nat
  BY <1>1, <1>4, Manifests, ManifestIs
<1>6. holes' \subseteq Nat \X Nat /\ Whole(manifest, holes')
  <2>1. ASSUME NEW h \in holes' PROVE h \in Nat \X Nat /\ h[1] <= manifest.gen /\ (h[1] = manifest.gen => h[2] \in manifest.punched)
    <3>1. CASE h \in holes
      BY <1>1, <1>5, <3>1 DEF TypeOK, Sound, Whole
    <3>2. CASE h \notin holes
      <4>1. PICK b \in done : h = <<manifest.gen, b>>
        BY <1>2, <2>1, <3>2
      <4>2. b \in manifest.punched /\ b \in Nat
        BY <1>4, <1>5, <4>1
      <4>3. manifest.gen <= manifest.gen
        BY <1>5
      <4> QED
        BY <1>5, <4>1, <4>2, <4>3
    <3> QED
      BY <3>1, <3>2
  <2> QED
    BY <2>1 DEF Whole
<1>7. forgotten' \subseteq manifest.punched /\ forgotten' \subseteq Nat
  <2>1. FoldsOn(manifest, blocks, sealed, forgotten, window)
    BY <1>1, <1>3 DEF FoldInv
  <2> QED
    BY <1>2, <1>4, <1>5, <2>1 DEF FoldsOn
<1>8. TypeOK'
  BY <1>1, <1>3, <1>6, <1>7 DEF TypeOK
<1>9. AuthorityInv' /\ FloorInv'
  BY <1>1, <1>3, <1>4, <1>5, <1>6 DEF AuthorityInv, FloorInv, Sound
<1>10. HandleInv'
  BY <1>3, <1>4 DEF HandleInv, Usable, Ready
<1>11. FoldInv' /\ LogInv'
  <2>1. FoldsOn(manifest, blocks, sealed, forgotten', window)
    BY <1>1, <1>3, <1>7 DEF FoldInv, FoldsOn
  <2>2. /\ \A p \in Named(mem) : Knows(manifest, window, p)
        /\ Anchored(manifest, window) /\ Covers(manifest, wal, window, mem)
    BY <1>1, <1>3, <1>4 DEF FoldInv, LogInv, Usable
  <2>3. FoldInv'
    BY <1>3, <2>1, <2>2 DEF FoldInv
  <2>4. LogInv'
    BY <1>1, <1>3, <2>2 DEF LogInv
  <2> QED
    BY <2>3, <2>4
<1>12. Seen' = Seen
  BY <1>3 DEF Seen
<1>13. Stands(current'.content, wal', wal_synced', promised) /\ Stands(floor'.content, wal', wal_synced', promised)
  BY <1>1, <1>3 DEF PromisedInv
<1>14. ContentInv' /\ View' = View /\ Answered
  BY <1>3, <1>8, <1>9, <1>10, <1>11, <1>12, <1>13, Quiet
<1>15. ContentLiveness'.reclaimable = {}
  <2> DEFINE hosts == {l[1] : l \in LivePieces(manifest.parts)}
  <2>1. ASSUME NEW b \in Inventory' PROVE b \in hosts
    <3>1. b \in DOMAIN blocks /\ b \notin forgotten /\ b \notin manifest.punched
      BY <1>2, <1>3, <2>1 DEF Inventory
    <3>2. b \notin Dead
      BY <1>4, <3>1
    <3> QED
      BY <3>1, <3>2 DEF Dead
  <2>2. Inventory' \ hosts = {}
    BY <2>1
  <2>3. ContentLiveness'.reclaimable = Inventory' \ hosts
    BY <1>3 DEF ContentLiveness
  <2> QED
    BY <2>2, <2>3
<1> QED
  BY <1>14, <1>15

-----------------------------------------------------------------------------
(* Crashes and opening. *)

LEMMA EmptyStore ==
    /\ NoManifest \in ManifestType /\ <<>> \in FoldType /\ None \in DictType
    /\ NoManifest.next_seq = 0 /\ NoManifest.parts = <<>> /\ NoManifest.blocks = <<>> /\ NoManifest.punched = {}
    /\ \A hs : hs = {} => Sound(NoManifest, hs)
<1>1. <<>> \in FoldType /\ <<>> \in Seq(PartType) /\ Len(<<>>) = 0
  BY DEF FoldType
<1>2. NoManifest \in ManifestType
  BY <1>1 DEF NoManifest, ManifestType
<1>3. NoManifest.next_seq = 0 /\ NoManifest.parts = <<>> /\ NoManifest.blocks = <<>> /\ NoManifest.punched = {}
  BY DEF NoManifest
<1>4. ASSUME NEW hs, hs = {} PROVE Sound(NoManifest, hs)
  <2>1. DOMAIN NoManifest.parts = {}
    BY <1>3
  <2>2. Chain(NoManifest.parts, NoManifest.next_seq)
    BY <1>1, <1>3, <2>1 DEF Chain
  <2>3. Mapped(NoManifest) /\ Backed(NoManifest) /\ Whole(NoManifest, hs)
    BY <1>4, <2>1 DEF Mapped, Backed, Whole
  <2> QED
    BY <1>2, <1>3, <2>2, <2>3, SoundIs
<1> QED
  BY <1>1, <1>2, <1>3, <1>4, NoneIs

LEMMA StandsCut ==
    ASSUME NEW l \in LogType, NEW k \in 0 .. Len(l), NEW n \in 0 .. k, NEW m, NEW views, Stands(m, l, n, views)
    PROVE  Stands(m, SubSeq(l, 1, k), n, views)
<1> PICK c, z : c = SubSeq(l, 1, k) /\ z = Len(l)
  OBVIOUS
<1>1. Len(c) = k /\ z \in Nat /\ k \in 0 .. z
  BY CutIs
<1>2. ASSUME NEW j \in n .. k PROVE j \in 0 .. k /\ j \in n .. z
  BY <1>1
<1>3. ASSUME NEW j \in n .. Len(c), Admits(m, SubSeq(c, 1, j))
      PROVE  Shows(m, Replayed(m, SubSeq(c, 1, j))) \in views
  <2>1. j \in 0 .. k /\ j \in n .. Len(l)
    BY <1>1, <1>2
  <2>2. SubSeq(SubSeq(l, 1, k), 1, j) = SubSeq(l, 1, j)
    BY <2>1, CutOfCut
  <2>3. Admits(m, SubSeq(l, 1, j))
    BY <1>3, <2>2
  <2>4. Shows(m, Replayed(m, SubSeq(l, 1, j))) \in views
    BY <2>1, <2>3 DEF Stands
  <2> QED
    BY <2>2, <2>4
<1> QED
  BY <1>3 DEF Stands

\* The store as a crash leaves it, over whatever state the container has then.
LEMMA Crashed ==
    ASSUME ContentInv, Closed, Cut,
           current' \in {current, floor}, FloorInv',
           floor' \in {current', floor}, wal_synced' \in 0 .. Len(wal')
    PROVE  /\ TypeOK' /\ AuthorityInv' /\ HandleInv' /\ FoldInv' /\ LogInv' /\ View' = Seen'
           /\ Seen' = IF Admits(current'.content, wal') THEN Shows(current'.content, Replayed(current'.content, wal'))
                      ELSE Refused
           /\ Seen' \in promised \cup {Refused}
<1>1. TypeOK /\ AuthorityInv /\ FloorInv /\ HandleInv /\ LogInv /\ PromisedInv
  BY DEF ContentInv
<1>2. PICK k \in wal_synced .. Len(wal) : wal' = SubSeq(wal, 1, k)
  BY DEF Cut
<1>3. /\ holes' = holes /\ ~opened' /\ opened' \in BOOLEAN /\ manifest' = NoManifest /\ mem' = NoRows
      /\ requires_reopen' = FALSE /\ acknowledged' = FALSE
      /\ blocks' = <<>> /\ sealed' = TRUE /\ forgotten' = {} /\ window' = None
      /\ phase' = "idle" /\ attempted' = NoManifest
  BY DEF Closed, Cut
<1>4. wal \in LogType /\ k \in 0 .. Len(wal) /\ wal' \in LogType
  <2>1. wal \in LogType /\ wal_synced \in 0 .. Len(wal)
    BY <1>1 DEF TypeOK
  <2> PICK n : n = Len(wal)
    OBVIOUS
  <2>2. n \in Nat
    BY <2>1, LogIs
  <2>3. k \in 0 .. n
    BY <2>1, <2>2
  <2> QED
    BY <1>2, <2>1, <2>3, CutIs
<1>5. TypeOK'
  BY <1>1, <1>3, <1>4, EmptyStore, NoRowsIs DEF TypeOK
<1>6. AuthorityInv'
  BY <1>1, <1>3 DEF AuthorityInv
<1>7. HandleInv' /\ FoldInv'
  BY <1>3 DEF HandleInv, FoldInv, Usable, Ready
<1>8. LogInv'
  <2>1. ASSUME NEW m \in {current.content, floor.content} PROVE Carried(m, m.next_seq + 1, wal')
    <3> PICK s : s = m.next_seq + 1
      OBVIOUS
    <3>1. Carried(m, s, wal)
      BY <1>1 DEF LogInv
    <3>2. Carried(m, s, SubSeq(wal, 1, k))
      BY <1>4, <3>1, CarriedCut
    <3> QED
      BY <1>2, <3>2
  <2>2. current'.content \in {current.content, floor.content} /\ floor'.content \in {current.content, floor.content}
    OBVIOUS
  <2> QED
    BY <1>3, <2>1, <2>2 DEF LogInv, Usable
<1>9. View' = Seen'
  BY <1>5, <1>6, <1>7, <1>8, ViewIsNext DEF ViewSeen
<1>10. Seen' = IF Admits(current'.content, wal') THEN Shows(current'.content, Replayed(current'.content, wal'))
               ELSE Refused
  BY <1>3 DEF Seen
<1>11. Seen' \in promised \cup {Refused}
  <2> PICK m : m = current'.content
    OBVIOUS
  <2>1. Stands(m, wal, wal_synced, promised)
    BY <1>1 DEF PromisedInv
  <2>2. Admits(m, SubSeq(wal, 1, k)) => Shows(m, Replayed(m, SubSeq(wal, 1, k))) \in promised
    BY <2>1 DEF Stands
  <2> QED
    BY <1>2, <1>10, <2>2
<1> QED
  BY <1>5, <1>6, <1>7, <1>8, <1>9, <1>10, <1>11

LEMMA DeathKeeps ==
    ASSUME ContentInv, ProcessDeath
    PROVE  ContentInv' /\ Answered
<1>1. Closed /\ Cut /\ UNCHANGED <<current, floor, wal_synced, promised>>
  BY DEF ProcessDeath, container
<1>2. TypeOK /\ FloorInv /\ PromisedInv
  BY DEF ContentInv
<1>3. FloorInv'
  BY <1>1, <1>2 DEF FloorInv
<1>4. PICK k \in wal_synced .. Len(wal) : wal' = SubSeq(wal, 1, k)
  BY <1>1 DEF Cut
<1>5. wal \in LogType /\ k \in 0 .. Len(wal) /\ wal_synced \in 0 .. k /\ Len(wal') = k
  <2>1. wal \in LogType /\ wal_synced \in 0 .. Len(wal)
    BY <1>2 DEF TypeOK
  <2> PICK n : n = Len(wal)
    OBVIOUS
  <2>2. n \in Nat
    BY <2>1, LogIs
  <2>3. k \in 0 .. n /\ wal_synced \in 0 .. k
    BY <2>1, <2>2
  <2> QED
    BY <1>4, <2>1, <2>3, CutIs
<1>6. wal_synced' \in 0 .. Len(wal')
  BY <1>1, <1>5
<1>7. /\ TypeOK' /\ AuthorityInv' /\ HandleInv' /\ FoldInv' /\ LogInv' /\ View' = Seen'
      /\ Seen' \in promised \cup {Refused}
  BY <1>1, <1>3, <1>6, Crashed
<1>8. ASSUME NEW m \in {current.content, floor.content}
      PROVE  Stands(m, wal', wal_synced, promised)
  <2>1. Stands(m, wal, wal_synced, promised)
    BY <1>2 DEF PromisedInv
  <2>2. Stands(m, SubSeq(wal, 1, k), wal_synced, promised)
    BY <1>5, <2>1, StandsCut
  <2> QED
    BY <1>4, <2>2
<1>9. PromisedInv'
  BY <1>1, <1>7, <1>8 DEF PromisedInv
<1>10. Answered
  BY <1>1, <1>7 DEF Answered, Promise!Next, Promise!Crash
<1> QED
  BY <1>3, <1>7, <1>9, <1>10 DEF ContentInv

LEMMA LossKeeps ==
    ASSUME ContentInv, PowerLoss
    PROVE  ContentInv' /\ Answered
<1>1. /\ Closed /\ Cut /\ current' \in {current, floor} /\ floor' = current'
      /\ wal_synced' = Len(wal') /\ promised' = {View'}
  BY DEF PowerLoss, Container!PowerLoss
<1>2. FloorInv'
  <2>1. Maintained(current'.content, current'.content)
    BY MaintainedSelf
  <2> QED
    BY <1>1, <2>1 DEF FloorInv
<1>3. wal' \in LogType /\ wal_synced' \in 0 .. Len(wal')
  <2>1. wal \in LogType /\ wal_synced \in 0 .. Len(wal)
    BY DEF ContentInv, TypeOK
  <2>2. PICK k \in wal_synced .. Len(wal) : wal' = SubSeq(wal, 1, k)
    BY <1>1 DEF Cut
  <2> PICK n : n = Len(wal)
    OBVIOUS
  <2>3. n \in Nat
    BY <2>1, LogIs
  <2>4. k \in 0 .. n
    BY <2>1, <2>3
  <2>5. wal' \in LogType
    BY <2>1, <2>2, <2>4, CutIs
  <2>6. Len(wal') \in Nat
    BY <2>5, LenProperties DEF LogType
  <2> QED
    BY <1>1, <2>5, <2>6
<1>4. /\ TypeOK' /\ AuthorityInv' /\ HandleInv' /\ FoldInv' /\ LogInv' /\ View' = Seen'
      /\ Seen' = IF Admits(current'.content, wal') THEN Shows(current'.content, Replayed(current'.content, wal'))
                 ELSE Refused
      /\ Seen' \in promised \cup {Refused}
  BY <1>1, <1>2, <1>3, Crashed
<1>5. Stands(current'.content, wal', Len(wal'), {View'})
  <2> PICK m, l, v : m = current'.content /\ l = wal' /\ v = View'
    OBVIOUS
  <2> PICK n : n = Len(l)
    OBVIOUS
  <2>1. n \in Nat /\ SubSeq(l, 1, n) = l
    BY <1>3, LogIs, WholeCut
  <2>2. \A k \in n .. n : k = n
    BY <2>1
  <2>3. Admits(m, l) => Shows(m, Replayed(m, l)) = v
    BY <1>4
  <2>4. Stands(m, l, n, {v})
    BY <2>1, <2>2, <2>3 DEF Stands
  <2> QED
    BY <2>4
<1>6. PromisedInv'
  BY <1>1, <1>5 DEF PromisedInv
<1>7. Answered
  BY <1>1, <1>4 DEF Answered, Promise!Next, Promise!Crash
<1> QED
  BY <1>2, <1>4, <1>6, <1>7 DEF ContentInv

\* What an open makes of the log: a fold that goes on from the manifest's, and a
\* window for the pieces that only the log has.
LEMMA OpenedIs ==
    ASSUME TypeOK, AuthorityInv, LogInv, NEW m, m = current.content, Admits(m, wal), NEW new,
           new = {p \in Novel(wal, PendingAt(m, wal)) : Locating(m, p) = {}},
           NEW a \in Appends(m.blocks, TRUE, new)
    PROVE  /\ a.blocks \in FoldType /\ a.at \in DictType /\ DOMAIN a.at = new
           /\ FoldsOn(m, a.blocks, a.at = None, {}, a.at)
           /\ \A p \in Named(Replayed(m, wal)) : Knows(m, a.at, p)
           /\ (Replayed(m, wal) = NoRows => Anchored(m, a.at))
           /\ Covers(m, wal, a.at, Replayed(m, wal))
<1> PICK bs, w, n, b0, s : bs = a.blocks /\ w = a.at /\ n = Len(m.blocks) /\ b0 = m.blocks /\ s = m.next_seq + 1
  OBVIOUS
<1>1. /\ m \in ManifestType /\ Sound(m, holes) /\ wal \in LogType /\ Carried(m, s, wal)
      /\ b0 \in Seq(SUBSET Pieces) /\ DOMAIN b0 = 1 .. n /\ n \in Nat /\ m.next_seq \in Nat
  <2>1. m \in ManifestType /\ Sound(m, holes) /\ wal \in LogType /\ Carried(m, s, wal)
    BY Manifests DEF TypeOK, LogInv
  <2> QED
    BY <2>1, ManifestIs
<1>2. /\ PendingAt(m, wal) \subseteq DOMAIN wal
      /\ \A i \in DOMAIN wal : /\ wal[i].novel \in SUBSET Pieces /\ wal[i].seq \in Nat
                               /\ (i \in PendingAt(m, wal) <=> wal[i].seq = s)
  BY <1>1, LogIs DEF PendingAt, Pending
<1>3. \A p : p \in new <=> (\E i \in PendingAt(m, wal) : p \in wal[i].novel) /\ Locating(m, p) = {}
  BY DEF Novel
<1>4. new \in SUBSET Pieces
  BY <1>2, <1>3
<1>5. Appended(b0, TRUE, new, a)
  <2>1. a \in Appends(b0, TRUE, new)
    OBVIOUS
  <2>2. Appended(b0, TRUE, new, a) /\ (b0 = <<>> => Packed(new, a))
    BY <1>1, <1>4, <2>1, AppendsIs
  <2> QED
    BY <2>2
<1>6. /\ bs \in Seq(SUBSET Pieces) /\ n <= Len(bs) /\ \A b \in 1 .. n : bs[b] = b0[b]
      /\ w \in DictType /\ DOMAIN w = new
      /\ \A p \in new : w[p] \in DOMAIN bs /\ p \in bs[w[p]] /\ n < w[p]
      /\ (new # {} => n < Len(bs))
  BY <1>1, <1>5 DEF Appended
<1>7. new = {} => w = None
  <2>1. None \in DictType /\ DOMAIN None = {}
    BY NoneIs
  <2>2. w = [p \in DOMAIN w |-> w[p]]
    BY <1>6, DictIs
  <2> QED
    BY <1>6, <2>1, <2>2 DEF None
<1>8. \A p \in new : w[p] \notin m.punched
  <2>1. \A b \in m.punched : b \in 1 .. n
    BY <1>1, SoundIs
  <2>2. \A p \in new : w[p] \in Nat /\ ~(w[p] \in 1 .. n)
    BY <1>1, <1>6
  <2> QED
    BY <2>1, <2>2
<1>9. FoldsOn(m, bs, w = None, {}, w)
  BY <1>1, <1>6, <1>7, <1>8 DEF FoldsOn
<1>10. ASSUME NEW p, NEW i \in PendingAt(m, wal), p \in wal[i].novel PROVE Knows(m, w, p)
  BY <1>3, <1>6, <1>10 DEF Knows
<1>11. \A p \in Named(Replayed(m, wal)) : Knows(m, w, p)
  <2>1. ASSUME NEW p \in Named(Replayed(m, wal)) PROVE Knows(m, w, p)
    <3>1. PICK i \in PendingAt(m, wal) : p \in Named(wal[i].rows)
      BY <1>1, NamedByFrames
    <3>2. i \in DOMAIN wal /\ wal[i].seq = s
      BY <1>2, <3>1
    <3>3. (\E j \in 1 .. i : wal[j].seq = s /\ p \in wal[j].novel) \/ Locating(m, p) # {}
      BY <1>1, <3>1, <3>2 DEF Carried
    <3>4. CASE Locating(m, p) # {}
      BY <3>4 DEF Knows
    <3>5. CASE \E j \in 1 .. i : wal[j].seq = s /\ p \in wal[j].novel
      <4>1. PICK j \in 1 .. i : wal[j].seq = s /\ p \in wal[j].novel
        BY <3>5
      <4>2. j \in DOMAIN wal
        <5> PICK z : z = Len(wal)
          OBVIOUS
        <5>1. DOMAIN wal = 1 .. z /\ z \in Nat
          BY <1>1, LogIs
        <5> QED
          BY <3>2, <5>1
      <4> QED
        BY <1>2, <1>10, <4>1, <4>2
    <3> QED
      BY <3>3, <3>4, <3>5
  <2> QED
    BY <2>1
<1>12. Replayed(m, wal) = NoRows => Anchored(m, w)
  <2>1. ASSUME Replayed(m, wal) = NoRows PROVE Anchored(m, w)
    <3>1. PendingAt(m, wal) = {}
      BY <1>1, <2>1, ReplayedNone
    <3>2. DOMAIN w = {}
      BY <1>3, <1>6, <3>1
    <3> QED
      BY <3>2 DEF Anchored
  <2> QED
    BY <2>1
<1>13. Covers(m, wal, w, Replayed(m, wal))
  <2>1. \A i \in DOMAIN wal : wal[i].seq <= m.next_seq + 1
    BY <1>1, <1>2 DEF Admits, Replays, Redundant, Pending
  <2> QED
    BY <1>3, <1>6, <1>10, <2>1 DEF Covers
<1>14. bs \in FoldType
  BY <1>6 DEF FoldType
<1> QED
  BY <1>6, <1>9, <1>11, <1>12, <1>13, <1>14

LEMMA OpenKeeps ==
    ASSUME ContentInv, Open
    PROVE  ContentInv' /\ Answered
<1> PICK m : m = current.content
  OBVIOUS
<1>1. TypeOK /\ AuthorityInv /\ FloorInv /\ HandleInv /\ FoldInv /\ LogInv /\ PromisedInv
  BY DEF ContentInv
<1>2. /\ ~opened /\ opened' = TRUE /\ manifest' = m /\ mem' = Replayed(m, wal) /\ forgotten' = {}
      /\ UNCHANGED <<current, floor, holes, wal, wal_synced, requires_reopen, acknowledged, phase, attempted, promised>>
      /\ Opens(m, wal)
  BY DEF Open, container, log, job
<1>3. PICK a \in Appends(m.blocks, TRUE, {p \in Novel(wal, PendingAt(m, wal)) : Locating(m, p) = {}}) :
          blocks' = a.blocks /\ window' = a.at /\ sealed' = (a.at = None)
  BY DEF Open
<1>4. phase = "idle" /\ ~acknowledged /\ ~requires_reopen
  BY <1>1, <1>2 DEF HandleInv
<1>5. m \in ManifestType /\ Sound(m, holes) /\ wal \in LogType /\ Admits(m, wal) /\ Replayed(m, wal) \in Rows
  <2>1. m \in ManifestType /\ Sound(m, holes) /\ wal \in LogType
    BY <1>1, Manifests DEF TypeOK
  <2>2. Admits(m, wal)
    BY <1>2, <2>1, OpensIs
  <2> QED
    BY <2>1, <2>2, LogIs
<1>6. /\ a.blocks \in FoldType /\ a.at \in DictType
      /\ FoldsOn(m, a.blocks, a.at = None, {}, a.at)
      /\ \A p \in Named(Replayed(m, wal)) : Knows(m, a.at, p)
      /\ (Replayed(m, wal) = NoRows => Anchored(m, a.at))
      /\ Covers(m, wal, a.at, Replayed(m, wal))
  <2> PICK new : new = {p \in Novel(wal, PendingAt(m, wal)) : Locating(m, p) = {}}
    OBVIOUS
  <2>1. a \in Appends(m.blocks, TRUE, new)
    OBVIOUS
  <2> QED
    BY <1>1, <1>5, <2>1, OpenedIs
<1>7. TypeOK'
  <2>1. sealed' \in BOOLEAN /\ forgotten' \subseteq Nat
    BY <1>2, <1>3
  <2> QED
    BY <1>1, <1>2, <1>3, <1>5, <1>6, <2>1 DEF TypeOK
<1>8. AuthorityInv' /\ FloorInv'
  BY <1>1, <1>2 DEF AuthorityInv, FloorInv
<1>9. HandleInv'
  BY <1>2, <1>4 DEF HandleInv, Usable, Ready
<1>10. FoldInv' /\ LogInv'
  <2>1. FoldInv'
    BY <1>2, <1>3, <1>6 DEF FoldInv
  <2>2. LogInv'
    BY <1>1, <1>2, <1>3, <1>4, <1>6 DEF LogInv
  <2> QED
    BY <2>1, <2>2
<1>11. Seen' = Seen
  BY <1>2, <1>5 DEF Seen
<1>12. Stands(current'.content, wal', wal_synced', promised) /\ Stands(floor'.content, wal', wal_synced', promised)
  BY <1>1, <1>2 DEF PromisedInv
<1> QED
  BY <1>2, <1>7, <1>8, <1>9, <1>10, <1>11, <1>12, Quiet

-----------------------------------------------------------------------------
LEMMA InitialState ==
    ASSUME Init
    PROVE  ContentInv /\ Promise!Init
<1>1. /\ current = [seq |-> 0, content |-> NoManifest] /\ floor = current /\ holes = {}
      /\ wal = <<>> /\ wal_synced = 0 /\ opened = TRUE /\ manifest = NoManifest /\ mem = NoRows
      /\ requires_reopen = FALSE /\ acknowledged = TRUE /\ blocks = <<>> /\ sealed = TRUE
      /\ forgotten = {} /\ window = None /\ phase = "idle" /\ attempted = NoManifest /\ promised = {View}
  BY DEF Init, Container!Init
<1>2. /\ NoManifest \in ManifestType /\ <<>> \in FoldType /\ None \in DictType /\ DOMAIN None = {}
      /\ NoManifest.parts = <<>> /\ NoManifest.blocks = <<>>
      /\ Sound(NoManifest, holes)
  BY <1>1, EmptyStore, NoneIs
<1>3. TypeOK
  <2>1. 0 \in Nat /\ 0 \in 0 .. 0
    OBVIOUS
  <2>2. wal \in LogType /\ wal_synced \in 0 .. Len(wal)
    BY <1>1, <2>1, NoLog
  <2> QED
    BY <1>1, <1>2, <2>1, <2>2, NoRowsIs DEF TypeOK
<1>4. AuthorityInv /\ FloorInv
  <2>1. Maintained(NoManifest, NoManifest)
    BY MaintainedSelf
  <2> QED
    BY <1>1, <1>2, <2>1 DEF AuthorityInv, FloorInv
<1>5. HandleInv
  BY <1>1 DEF HandleInv, Usable, Ready
<1>6. FoldInv
  <2>1. FoldsOn(NoManifest, NoManifest.blocks, TRUE, {}, None)
    BY <1>2, OwnFold
  <2>2. Anchored(NoManifest, None)
    BY <1>2 DEF Anchored
  <2> QED
    BY <1>1, <1>2, <2>1, <2>2, NoneNamed DEF FoldInv
<1>7. LogInv
  <2>1. \A i \in DOMAIN <<>> : <<>>[i].seq <= NoManifest.next_seq
    OBVIOUS
  <2>2. Covers(NoManifest, <<>>, None, NoRows)
    BY <1>2, <2>1, NoLog, CoversNothing
  <2> QED
    BY <1>1, <2>2, NoLog DEF LogInv
<1>8. View = Shows(NoManifest, NoRows)
  BY <1>1, <1>3, <1>4, <1>5, <1>6, <1>7, ViewIs DEF ViewSeen, Seen
<1>9. PromisedInv
  <2>1. Shows(NoManifest, NoRows) \in promised
    BY <1>1, <1>8
  <2>2. Stands(NoManifest, <<>>, 0, promised)
    BY <2>1, StandsNoLog
  <2> QED
    BY <1>1, <2>2 DEF PromisedInv
<1>10. Shows(NoManifest, NoRows) = [id \in Ids |-> Absent]
  <2>1. NewestRows(<<>>) \in Rows /\ DOMAIN NewestRows(<<>>) = {}
    <3>1. <<>> \in Seq(PartType)
      OBVIOUS
    <3>2. NewestRows(<<>>) \in Rows
      BY <3>1, PartIs
    <3>3. \A id : id \notin DOMAIN NewestRows(<<>>)
      BY NewestDomain DEF NewestRows
    <3> QED
      BY <3>2, <3>3
  <2>2. Over(NewestRows(<<>>), NoRows) = NoRows
    BY <2>1, NoRowsIs, OverNone
  <2>3. Shown(NoRows) = [id \in Ids |-> Absent]
    BY NoRowsIs DEF Shown
  <2> QED
    BY <1>2, <2>2, <2>3 DEF Shows
<1>11. Promise!Init
  BY <1>1, <1>8, <1>10 DEF Promise!Init
<1> QED
  BY <1>3, <1>4, <1>5, <1>6, <1>7, <1>9, <1>11 DEF ContentInv

\* What flushes and maintenance let callers see, and leave behind.
Invisible ==
    /\ Flushes \/ Maintains \/ FinalBarrier => View' = View
    /\ PunchBlocks => ContentLiveness'.reclaimable = {}
    /\ FinalBarrier /\ phase = "refold" /\ manifest' = attempted =>
          ContentLiveness'.reclaimable = {} /\ ContentLiveness'.stranded = 0

LEMMA UpkeepKeeps ==
    ASSUME ContentInv, Flushes \/ Maintains \/ FinalBarrier
    PROVE  ContentInv' /\ View' = View /\ Answered
<1>1. CASE Flushes
  BY <1>1, FlushKeeps, TruncationKeeps, SettlementKeeps DEF Flushes
<1>2. CASE \E lo, len \in 1 .. MaxCommits : MergeRange(lo, len)
  <2>1. PICK lo, len \in 1 .. MaxCommits : MergeRange(lo, len)
    BY <1>2
  <2>2. lo \in Nat \ {0} /\ len \in Nat \ {0}
    BY ContentAssumption DEF ContentAssumption
  <2> QED
    BY <2>1, <2>2, MergeKeeps
<1>3. CASE PunchDeclares \/ PunchesDeclared \/ PunchBlocks \/ Refold
  BY <1>3, DeclarationKeeps, PunchKeeps, BlocksKeep, RefoldKeeps
<1>4. CASE FinalBarrier
  BY <1>4, BarrierKeeps
<1> QED
  BY <1>1, <1>2, <1>3, <1>4 DEF Maintains

LEMMA StepKeeps ==
    ASSUME ContentInv, [Next]_vars
    PROVE  ContentInv' /\ Answered
<1>1. CASE UNCHANGED vars
  BY <1>1, Stutters DEF vars
<1>2. CASE Mutates
  BY <1>2, StagesKeeps DEF Mutates
<1>3. CASE Sync
  BY <1>3, SyncKeeps
<1>4. CASE Flushes \/ Maintains \/ FinalBarrier
  BY <1>4, UpkeepKeeps
<1>5. CASE ProcessDeath
  BY <1>5, DeathKeeps
<1>6. CASE PowerLoss
  BY <1>6, LossKeeps
<1>7. CASE Open
  BY <1>7, OpenKeeps
<1> QED
  BY <1>1, <1>2, <1>3, <1>4, <1>5, <1>6, <1>7 DEF Next

LEMMA StepInvisible ==
    ASSUME ContentInv, [Next]_vars
    PROVE  Invisible
BY UpkeepKeeps, BlocksKeep, RefoldedTight DEF Invisible

\* In every reachable state of a store of records made of pieces, whatever call
\* fails and wherever a crash falls, ContentInv holds: every dictionary of the
\* current manifest and its undurable predecessor is right, the handle's fold and
\* window go on from its manifest, and the log carries what its frames name.
THEOREM ContentInductive == Spec => []ContentInv
<1>1. Init => ContentInv
  BY InitialState
<1>2. ContentInv /\ [Next]_vars => ContentInv'
  BY StepKeeps
<1> QED
  BY <1>1, <1>2, PTL DEF Spec

\* No flush, merge, punch or refold frees, punches or forgets a block that the
\* current manifest or its undurable predecessor needs, both pass
\* Manifest::validate and scan to the end, and content_liveness always answers
\* (store/mod.rs: punch_unreferenced, content_liveness; refold.rs).
THEOREM AuthorityIsReadable == Spec => []AuthorityReadable
<1>1. ContentInv => AuthorityReadable
  BY AuthorityReads DEF ContentInv
<1> QED
  BY <1>1, ContentInductive, PTL

\* A log of one publication opens over the manifest it follows, or the one that
\* has just taken it in, cut anywhere behind its acknowledged frames: the pieces
\* its frames name without carrying them are held wherever verify_replay_identities
\* asks for them.
THEOREM FreshLogAlwaysReopens == Spec => []FreshLogReopens
<1>1. ContentInv => FreshLogReopens
  BY FreshLogOpens DEF ContentInv
<1> QED
  BY <1>1, ContentInductive, PTL

\* The store keeps the promise of DurableMap with every byte of its records:
\* deduplication, merging, punching, refolding and replay never turn a record
\* into an unreadable one, and crashes take back nothing acknowledged.
THEOREM ContentRefinement == Spec => ImplementsDurableMap
<1>1. Init => Promise!Init
  BY InitialState
<1>2. ContentInv /\ [Next]_vars => [Promise!Next]_<<View, promised>>
  BY StepKeeps DEF Answered
<1> QED
  BY <1>1, <1>2, ContentInductive, PTL DEF Spec, ImplementsDurableMap, Promise!Spec

\* Maintenance changes no byte of what callers see, however it ends; a punch
\* leaves no dead block that the report of liveness counts, and an adopted refold
\* neither a dead block nor a dead piece (store/mod.rs, refold.rs).
THEOREM MaintenanceIsInvisible == Spec => MaintenanceInvisible
<1>1. ContentInv /\ [Next]_vars => Invisible
  BY StepInvisible
<1> QED
  BY <1>1, ContentInductive, PTL DEF Spec, MaintenanceInvisible, Invisible

=============================================================================
