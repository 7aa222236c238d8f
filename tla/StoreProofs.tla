----------------------------- MODULE StoreProofs -----------------------------
(***************************************************************************)
(* Every reachable state of Store, whatever the constants, satisfies       *)
(* StoreInvariant!StoreInv: the log covers mem, a synchronised log opens   *)
(* after any power loss, and the store implements DurableMap.              *)
(***************************************************************************)
EXTENDS StoreInvariant, RecordsProofs

-----------------------------------------------------------------------------
(* Manifests, logs and what is shown of them. *)

LEMMA ManifestRows ==
    ASSUME NEW P \in Seq(PartType)
    PROVE  /\ NewestRows(P) \in Rows /\ Len(P) \in Nat /\ DOMAIN P = 1 .. Len(P)
           /\ \A i \in 1 .. Len(P) : P[i] \in PartType /\ P[i].rows \in Rows
<1>1. \A y \in PartType : y.rows \in Rows
  BY DEF PartType
<1> QED
  BY <1>1, PartRows

LEMMA LogRows ==
    ASSUME NEW log \in LogType, NEW m
    PROVE  /\ Replayed(m, log) \in Rows /\ Len(log) \in Nat /\ DOMAIN log = 1 .. Len(log)
           /\ \A i \in DOMAIN log : log[i] \in UnitType /\ log[i].rows \in Rows \ {NoRows} /\ log[i].seq \in Nat
<1>1. Len(log) \in Nat /\ DOMAIN log = 1 .. Len(log) /\ \A i \in DOMAIN log : log[i] \in UnitType
  BY DEF LogType
<1>2. \A u \in UnitType : u.rows \in Rows \ {NoRows} /\ u.seq \in Nat
  BY DEF UnitType
<1> QED
  BY <1>1, <1>2, ReplayedRows DEF LogType

LEMMA ReplayedNone ==
    ASSUME NEW log \in LogType, NEW m
    PROVE  Replayed(m, log) = NoRows <=> \A i \in DOMAIN log : ~Pending(m, log[i])
<1>1. \A u \in UnitType : u.rows \in Rows \ {NoRows}
  BY DEF UnitType
<1> QED
  BY <1>1, ReplayedRows DEF LogType

LEMMA ReplayedAppend ==
    ASSUME NEW log \in LogType, NEW u \in UnitType, NEW m, Pending(m, u)
    PROVE  /\ Append(log, u) \in LogType
           /\ Replayed(m, Append(log, u)) = Over(Replayed(m, log), u.rows)
<1>1. \A v \in UnitType : v.rows \in Rows \ {NoRows}
  BY DEF UnitType
<1> QED
  BY <1>1, ReplayedMore DEF LogType

LEMMA ViewIs ==
    ASSUME NEW m \in ManifestType, NEW rows \in Rows
    PROVE  Shows(m, rows) \in Maps
BY ManifestRows, OverIs, ShownIs DEF Shows, ManifestType

\* A flushed part shows what mem did.
LEMMA FlushedShows ==
    ASSUME NEW m \in ManifestType, NEW q \in PartType, NEW f, f.parts = Append(m.parts, q)
    PROVE  Shows(f, NoRows) = Shows(m, q.rows)
<1>1. m.parts \in Seq(PartType) /\ \A y \in PartType : y.rows \in Rows
  BY DEF ManifestType, PartType
<1>2. NewestRows(Append(m.parts, q)) = Over(NewestRows(m.parts), q.rows)
  BY <1>1, FlushedRows
<1>3. NewestRows(m.parts) \in Rows /\ q.rows \in Rows
  BY <1>1, PartRows
<1>4. Over(Over(NewestRows(m.parts), q.rows), NoRows) = Over(NewestRows(m.parts), q.rows)
  BY <1>3, OverIs, OverNone
<1> QED
  BY <1>2, <1>4 DEF Shows

\* A merge shows what its parts showed, whatever is replayed over them.
LEMMA MergedManifest ==
    ASSUME manifest \in ManifestType, NEW lo \in Nat \ {0}, NEW len \in Nat \ {0, 1},
           lo + len - 1 <= Len(manifest.parts)
    PROVE  /\ Merged(lo, len) \in ManifestType /\ Merged(lo, len).next_seq = manifest.next_seq
           /\ SameView(Merged(lo, len), manifest)
<1> DEFINE P == manifest.parts
           x == [lo |-> P[lo].lo, hi |-> P[lo + len - 1].hi, rows |-> MergedRows(P, lo, len)]
           Q == Spliced(P, x, lo, len)
<1>1. P \in Seq(PartType) /\ manifest.next_seq \in Nat /\ \A y \in PartType : y.rows \in Rows
  BY DEF ManifestType, PartType
<1>2. Merged(lo, len) = [manifest EXCEPT !.parts = Q]
  BY DEF Merged
<1>3. Merged(lo, len).parts = Q /\ Merged(lo, len).next_seq = manifest.next_seq
  BY <1>2 DEF ManifestType
<1>4. x \in PartType /\ x.rows = MergedRows(P, lo, len)
  <2>1. P[lo] \in PartType /\ P[lo + len - 1] \in PartType
    BY <1>1
  <2>2. MergedRows(P, lo, len) \in Rows
    BY <1>1, MergedType
  <2> QED
    BY <2>1, <2>2 DEF PartType
<1> HIDE DEF P, x
<1>5. lo + len - 1 <= Len(P)
  BY DEF P
<1>6. Q \in Seq(PartType) /\ \A f \in Rows : Shown(Over(NewestRows(Q), f)) = Shown(Over(NewestRows(P), f))
  BY <1>1, <1>4, <1>5, MergedShows
<1> HIDE DEF Q
<1>7. SameView(Merged(lo, len), manifest)
  BY <1>3, <1>6 DEF SameView, Shows, P
<1>8. Merged(lo, len) \in ManifestType
  BY <1>1, <1>2, <1>6 DEF ManifestType
<1> QED
  BY <1>3, <1>7, <1>8

-----------------------------------------------------------------------------
(* What a crash leaves of the log. *)

LEMMA CutIs ==
    ASSUME NEW l \in LogType, NEW n \in Nat, NEW c \in Log!Cuts(l, n)
    PROVE  /\ c \in LogType /\ Len(c) \in n .. Len(l) /\ DOMAIN c = 1 .. Len(c) /\ DOMAIN l = 1 .. Len(l)
           /\ c = SubSeq(l, 1, Len(c)) /\ \A i \in DOMAIN c : i \in DOMAIN l /\ c[i] = l[i]
<1>1. l \in Seq(UnitType) /\ Len(l) \in Nat
  BY DEF LogType
<1>2. PICK k \in n .. Len(l) : c = SubSeq(l, 1, k)
  BY DEF Log!Cuts
<1>3. \A i \in 1 .. k : l[i] \in UnitType
  BY <1>1, <1>2
<1>4. c \in Seq(UnitType) /\ Len(c) = k - 1 + 1 /\ \A i \in 1 .. k - 1 + 1 : c[i] = l[1 + i - 1]
  BY <1>1, <1>2, <1>3, SubSeqProperties
<1>5. Len(c) = k /\ DOMAIN c = 1 .. k /\ DOMAIN l = 1 .. Len(l)
  BY <1>1, <1>4, LenProperties
<1>6. \A i \in 1 .. k : i \in 1 .. Len(l) /\ c[i] = l[i]
  BY <1>1, <1>4
<1> QED
  BY <1>1, <1>2, <1>4, <1>5, <1>6 DEF LogType

LEMMA SequencesEqual ==
    ASSUME NEW l \in LogType, NEW m \in LogType, Len(l) = Len(m), \A i \in 1 .. Len(l) : l[i] = m[i]
    PROVE  l = m
BY SeqEqual DEF LogType

\* A log is a cut of itself, and a cut that keeps all of it is nothing else.
LEMMA WholeCut ==
    ASSUME NEW l \in LogType, NEW n \in Nat, n <= Len(l)
    PROVE  /\ l \in Log!Cuts(l, n)
           /\ \A c \in Log!Cuts(l, n) : Len(c) = Len(l) => c = l
<1>1. l \in Seq(UnitType) /\ Len(l) \in Nat /\ Len(l) \in n .. Len(l)
  BY DEF LogType
<1>2. SubSeq(l, 1, Len(l)) \in Log!Cuts(l, n)
  BY <1>1 DEF Log!Cuts
<1>3. ASSUME NEW c \in Log!Cuts(l, n), Len(c) = Len(l) PROVE c = l
  BY <1>3, CutIs, SequencesEqual
<1>4. SubSeq(l, 1, Len(l)) \in LogType /\ Len(SubSeq(l, 1, Len(l))) = Len(l)
  BY <1>1, SubSeqProperties DEF LogType
<1> QED
  BY <1>2, <1>3, <1>4

\* What is cut twice is cut once.
LEMMA CutOfCut ==
    ASSUME NEW l \in LogType, NEW n \in Nat, NEW c \in Log!Cuts(l, n), NEW d \in Log!Cuts(c, n)
    PROVE  d \in Log!Cuts(l, n)
<1>1. /\ c \in LogType /\ Len(c) \in n .. Len(l) /\ DOMAIN c = 1 .. Len(c)
      /\ \A i \in DOMAIN c : i \in DOMAIN l /\ c[i] = l[i]
  BY CutIs
<1>2. /\ d \in LogType /\ Len(d) \in n .. Len(c) /\ DOMAIN d = 1 .. Len(d)
      /\ \A i \in DOMAIN d : i \in DOMAIN c /\ d[i] = c[i]
  BY <1>1, CutIs
<1>3. Len(l) \in Nat /\ Len(c) \in Nat /\ Len(d) \in Nat /\ Len(d) \in n .. Len(l)
  BY <1>1, <1>2 DEF LogType
<1> DEFINE e == SubSeq(l, 1, Len(d))
<1>4. e \in Log!Cuts(l, n)
  BY <1>3 DEF Log!Cuts
<1>5. Len(e) = Len(d)
  BY <1>3, SubSeqProperties DEF LogType
<1> HIDE DEF e
<1>6. e \in LogType /\ DOMAIN e = 1 .. Len(e) /\ \A i \in DOMAIN e : e[i] = l[i]
  BY <1>4, CutIs
<1>7. \A i \in 1 .. Len(d) : d[i] = e[i]
  BY <1>1, <1>2, <1>5, <1>6
<1>8. d = e
  BY <1>2, <1>5, <1>6, <1>7, SequencesEqual
<1> QED
  BY <1>4, <1>8

\* A cut of a longer log is that log, or a cut of the shorter one.
LEMMA CutOfAppend ==
    ASSUME NEW l \in LogType, NEW u \in UnitType, NEW n \in Nat, n <= Len(l),
           NEW c \in Log!Cuts(Append(l, u), n)
    PROVE  c = Append(l, u) \/ c \in Log!Cuts(l, n)
<1> DEFINE a == Append(l, u)
<1>1. /\ a \in LogType /\ Len(l) \in Nat /\ Len(a) = Len(l) + 1 /\ DOMAIN l = 1 .. Len(l)
      /\ \A i \in 1 .. Len(l) : a[i] = l[i]
  BY DEF LogType
<1>5. c \in Log!Cuts(a, n)
  OBVIOUS
<1> HIDE DEF a
<1>2. /\ c \in LogType /\ Len(c) \in n .. Len(a) /\ DOMAIN c = 1 .. Len(c)
      /\ \A i \in DOMAIN c : c[i] = a[i]
  BY <1>1, <1>5, CutIs
<1>3. CASE Len(c) = Len(a)
  <2>1. n <= Len(a)
    BY <1>1
  <2> QED
    BY <1>1, <1>3, <1>5, <2>1, WholeCut DEF a
<1>4. CASE Len(c) # Len(a)
  <2>0. Len(a) \in Nat /\ Len(c) \in Nat /\ n <= Len(c) /\ Len(c) <= Len(a)
    BY <1>1, <1>2
  <2>1. Len(c) \in n .. Len(l) /\ Len(c) \in Nat
    BY <1>1, <1>4, <2>0
  <2> DEFINE e == SubSeq(l, 1, Len(c))
  <2>2. e \in Log!Cuts(l, n)
    BY <2>1 DEF Log!Cuts
  <2>3. Len(e) = Len(c)
    BY <1>1, <2>1, SubSeqProperties DEF LogType
  <2> HIDE DEF e
  <2>4. e \in LogType /\ DOMAIN e = 1 .. Len(e) /\ \A i \in DOMAIN e : e[i] = l[i]
    BY <2>2, CutIs
  <2>5. \A i \in 1 .. Len(c) : c[i] = e[i]
    BY <1>1, <1>2, <2>1, <2>3, <2>4
  <2> QED
    BY <1>2, <2>2, <2>3, <2>4, <2>5, SequencesEqual
<1> QED
  BY <1>3, <1>4

LEMMA EmptyLog ==
    /\ <<>> \in LogType /\ Len(<<>>) = 0 /\ DOMAIN <<>> = {}
    /\ \A c \in Log!Cuts(<<>>, 0) : c = <<>>
    /\ \A m : Replays(m, <<>>) /\ Replayed(m, <<>>) = NoRows
<1>1. <<>> \in LogType /\ Len(<<>>) = 0 /\ DOMAIN <<>> = {}
  BY DEF LogType
<1>2. ASSUME NEW c \in Log!Cuts(<<>>, 0) PROVE c = <<>>
  <2>1. c \in LogType /\ Len(c) \in 0 .. Len(<<>>)
    BY <1>1, CutIs
  <2> QED
    BY <1>1, <2>1 DEF LogType
<1>3. ASSUME NEW m PROVE Replays(m, <<>>) /\ Replayed(m, <<>>) = NoRows
  BY <1>1, ReplayedNone DEF Replays
<1> QED
  BY <1>1, <1>2, <1>3

\* A log left by a power loss is cut from the log, or from one cleared without
\* its barrier.
LEMMA LostIs ==
    ASSUME NEW log
    PROVE  log \in Log!Lost <=> \/ log \in Log!Cuts(wal, wal_synced)
                                \/ \E g \in wal_cleared : log \in Log!Cuts(g.log, g.acked)
<1> DEFINE w == [log |-> wal, acked |-> wal_synced]
<1>1. Log!Lost = UNION {Log!Cuts(g.log, g.acked) : g \in {w} \cup wal_cleared}
  BY DEF Log!Lost
<1>2. w.log = wal /\ w.acked = wal_synced
  OBVIOUS
<1> HIDE DEF w
<1>3. log \in Log!Lost <=> \E g \in {w} \cup wal_cleared : log \in Log!Cuts(g.log, g.acked)
  BY <1>1
<1>4. log \in Log!Lost <=> \/ log \in Log!Cuts(w.log, w.acked)
                          \/ \E g \in wal_cleared : log \in Log!Cuts(g.log, g.acked)
  BY <1>3
<1> QED
  BY <1>2, <1>4

\* The same of the state that a step leads to.
LostMeans == \A log : log \in Log!Lost <=> \/ log \in Log!Cuts(wal, wal_synced)
                                           \/ \E g \in wal_cleared : log \in Log!Cuts(g.log, g.acked)

LEMMA LostNext ==
    ASSUME NEW log
    PROVE  log \in (Log!Lost)' <=> \/ log \in Log!Cuts(wal', wal_synced')
                                   \/ \E g \in wal_cleared' : log \in Log!Cuts(g.log, g.acked)
<1>1. LostMeans
  BY LostIs DEF LostMeans
<1>2. LostMeans'
  BY <1>1, PTL
<1> QED
  BY <1>2 DEF LostMeans

LEMMA LostTypes ==
    ASSUME TypeOK, NEW log \in Log!Lost
    PROVE  log \in LogType
<1>1. wal \in LogType /\ wal_synced \in Nat /\ \A g \in wal_cleared : g.log \in LogType /\ g.acked \in Nat
  BY DEF TypeOK
<1> QED
  BY <1>1, LostIs, CutIs

\* Such a log has no unit that its like did not have.
LEMMA LostBelow ==
    ASSUME TypeOK, NEW n \in Nat, \A i \in DOMAIN wal : wal[i].seq <= n,
           \A g \in wal_cleared : \A i \in DOMAIN g.log : g.log[i].seq <= n,
           NEW log \in Log!Lost, NEW i \in DOMAIN log
    PROVE  log[i].seq <= n
<1>1. wal \in LogType /\ wal_synced \in Nat /\ \A g \in wal_cleared : g.log \in LogType /\ g.acked \in Nat
  BY DEF TypeOK
<1>2. CASE log \in Log!Cuts(wal, wal_synced)
  <2>1. i \in DOMAIN wal /\ log[i] = wal[i]
    BY <1>1, <1>2, CutIs
  <2> QED
    BY <2>1
<1>3. CASE \E g \in wal_cleared : log \in Log!Cuts(g.log, g.acked)
  <2>1. PICK g \in wal_cleared : log \in Log!Cuts(g.log, g.acked)
    BY <1>3
  <2>2. i \in DOMAIN g.log /\ log[i] = g.log[i]
    BY <1>1, <2>1, CutIs
  <2> QED
    BY <2>1, <2>2
<1> QED
  BY <1>2, <1>3, LostIs

\* Replayed over a manifest that it holds nothing beyond, a log changes nothing.
LEMMA NothingBeyond ==
    ASSUME NEW m \in ManifestType, NEW log \in LogType, \A i \in DOMAIN log : log[i].seq <= m.next_seq
    PROVE  Replayed(m, log) = NoRows /\ Recovered(m, log) = Shows(m, NoRows)
<1>1. m.next_seq \in Nat /\ \A i \in DOMAIN log : log[i].seq \in Nat
  BY LogRows DEF ManifestType
<1>2. \A i \in DOMAIN log : ~Pending(m, log[i])
  BY <1>1 DEF Pending
<1> QED
  BY <1>2, ReplayedNone DEF Recovered

-----------------------------------------------------------------------------
(* What each step keeps, and how its caller sees it. *)

Answered == [Promise!Next]_<<View, promised>>

LEMMA Contents ==
    ASSUME TypeOK, FloorInv
    PROVE  /\ current.content \in ManifestType /\ floor.content \in ManifestType
           /\ current.content.next_seq \in Nat /\ floor.content.next_seq \in Nat
           /\ floor.content.next_seq <= current.content.next_seq
           /\ manifest \in ManifestType /\ manifest.next_seq \in Nat
           /\ wal \in LogType /\ Len(wal) \in Nat /\ DOMAIN wal = 1 .. Len(wal)
           /\ wal_synced \in Nat /\ wal_synced <= Len(wal)
           /\ \A i \in DOMAIN wal : wal[i] \in UnitType /\ wal[i].seq \in Nat
<1>1. /\ current.content \in ManifestType /\ floor.content \in ManifestType /\ manifest \in ManifestType
      /\ wal \in LogType /\ wal_synced \in 0 .. Len(wal)
  BY DEF TypeOK
<1>2. current.content.next_seq \in Nat /\ floor.content.next_seq \in Nat /\ manifest.next_seq \in Nat
  BY <1>1 DEF ManifestType
<1>3. floor.content.next_seq <= current.content.next_seq
  BY <1>2 DEF FloorInv
<1>4. Len(wal) \in Nat /\ DOMAIN wal = 1 .. Len(wal) /\ \A i \in DOMAIN wal : wal[i] \in UnitType /\ wal[i].seq \in Nat
  BY <1>1, LogRows
<1>5. wal_synced \in Nat /\ wal_synced <= Len(wal)
  BY <1>1, <1>4
<1> QED
  BY <1>1, <1>2, <1>3, <1>4, <1>5

\* What an open store shows is promised.
LEMMA OpenShows ==
    ASSUME StoreAssumption, TypeOK, PromisedInv, opened
    PROVE  View = Shows(manifest, mem) /\ View \in Maps /\ View # Refused /\ View \in promised
<1>1. manifest \in ManifestType /\ mem \in Rows
  BY DEF TypeOK
<1>2. View = Shows(manifest, mem)
  BY DEF View
<1>3. Shows(manifest, mem) \in Maps
  BY <1>1, ViewIs
<1>4. Refused \notin Maps
  BY DEF StoreAssumption, Maps
<1> QED
  BY <1>2, <1>3, <1>4 DEF PromisedInv

\* Between two calls of a usable handle.
LEMMA IdleFacts ==
    ASSUME StoreInv, EnsureWriterUsable
    PROVE  /\ opened /\ phase = "idle" /\ ~requires_reopen /\ Usable
           /\ manifest = current.content /\ (acknowledged => floor.content = current.content)
           /\ Replayed(manifest, wal) = mem
           /\ \A i \in DOMAIN wal : wal[i].seq <= manifest.next_seq + 1
           /\ (~framed => wal = <<>>)
BY DEF StoreInv, EnsureWriterUsable, Usable, HandleInv, LogInv

\* A step that leaves the files, the handle and the job alone.
LEMMA Stands ==
    ASSUME StoreInv, UNCHANGED <<files, handle, job, promised>>
    PROVE  StoreInv' /\ Answered
<1> USE DEF files, container, logv, handle, job
<1>1. TypeOK'
  BY DEF StoreInv, TypeOK
<1>2. FloorInv'
  BY DEF StoreInv, FloorInv
<1>3. HandleInv'
  BY DEF StoreInv, HandleInv, Usable
<1>4. LogInv'
  BY DEF StoreInv, LogInv, Usable
<1>5. ClearedInv'
  BY DEF StoreInv, ClearedInv
<1>6. SyncedInv'
  BY DEF StoreInv, SyncedInv
<1>7. View' = View
  BY DEF View
<1>8. (Log!Lost)' = Log!Lost
  BY DEF Log!Lost
<1>9. PromisedInv'
  BY <1>7, <1>8 DEF StoreInv, PromisedInv
<1>10. Answered
  BY <1>7 DEF Answered
<1> QED
  BY <1>1, <1>2, <1>3, <1>4, <1>5, <1>6, <1>9, <1>10 DEF StoreInv

LEMMA InitialState ==
    ASSUME StoreAssumption, Init
    PROVE  StoreInv /\ Promise!Init
<1> USE DEF Init, Container!Init, Log!Init
<1>1. NoManifest \in ManifestType /\ NoManifest.next_seq = 0 /\ NoManifest.parts = <<>>
  BY DEF NoManifest, ManifestType
<1>2. NoRows \in Rows
  BY NoRowsIs
<1>3. TypeOK
  <2>1. current \in [seq : Nat, content : ManifestType] /\ floor \in [seq : Nat, content : ManifestType]
    BY <1>1
  <2>2. wal \in LogType /\ wal_synced \in 0 .. Len(wal)
    BY EmptyLog
  <2>3. manifest \in ManifestType /\ attempted \in ManifestType /\ mem \in Rows
    BY <1>1, <1>2
  <2> QED
    BY <2>1, <2>2, <2>3 DEF TypeOK
<1>4. FloorInv
  BY DEF FloorInv, SameView
<1>5. Replayed(NoManifest, <<>>) = NoRows
  BY EmptyLog
<1>6. LogInv
  BY <1>5, EmptyLog DEF LogInv
<1>7. HandleInv
  BY DEF HandleInv, Usable
<1>8. ClearedInv /\ SyncedInv
  BY DEF ClearedInv, SyncedInv
<1>9. NewestRows(<<>>) = NoRows
  <2>1. DOMAIN <<>> = {} /\ {} \in SUBSET (1 .. 0) /\ 0 \in Nat
    OBVIOUS
  <2>2. \A i \in {} : <<>>[i].rows \in Rows
    OBVIOUS
  <2>3. Newest(<<>>, {}) = NoRows
    BY <2>1, <2>2, NewestNone
  <2> QED
    BY <2>1, <2>3 DEF NewestRows
<1>10. Shows(NoManifest, NoRows) = Shown(NoRows)
  BY <1>1, <1>2, <1>9, OverNone DEF Shows
<1>11. Shown(NoRows) = [id \in Ids |-> Absent]
  BY NoRowsIs DEF Shown
<1>12. View = Shown(NoRows)
  BY <1>10 DEF View
<1>13. ASSUME NEW log \in Log!Lost PROVE Recovered(NoManifest, log) = Shown(NoRows)
  <2>1. log = <<>>
    BY LostIs, EmptyLog
  <2> QED
    BY <1>5, <1>10, <2>1 DEF Recovered
<1>14. PromisedInv
  BY <1>12, <1>13 DEF PromisedInv
<1>15. Promise!Init
  BY <1>11, <1>12 DEF Promise!Init
<1> QED
  BY <1>3, <1>4, <1>6, <1>7, <1>8, <1>14, <1>15 DEF StoreInv

LEMMA AcceptsKeeps ==
    ASSUME StoreAssumption, StoreInv, EnsureWriterUsable, NEW rows \in Rows \ {NoRows}, Accepts(rows)
    PROVE  StoreInv' /\ Answered
<1> DEFINE u == [seq |-> PendingSequence, rows |-> rows]
           c == current.content
           f == floor.content
<1>1. TypeOK /\ FloorInv /\ HandleInv /\ LogInv /\ ClearedInv /\ SyncedInv /\ PromisedInv
  BY DEF StoreInv
<1>2. /\ opened /\ phase = "idle" /\ ~requires_reopen
      /\ manifest = c /\ (acknowledged => f = c)
      /\ Replayed(manifest, wal) = mem
      /\ \A i \in DOMAIN wal : wal[i].seq <= manifest.next_seq + 1
  BY IdleFacts
<1>3. /\ c \in ManifestType /\ f \in ManifestType /\ c.next_seq \in Nat /\ f.next_seq \in Nat
      /\ manifest \in ManifestType /\ manifest.next_seq \in Nat
      /\ wal \in LogType /\ Len(wal) \in Nat /\ DOMAIN wal = 1 .. Len(wal)
      /\ wal_synced \in Nat /\ wal_synced <= Len(wal)
      /\ \A i \in DOMAIN wal : wal[i] \in UnitType /\ wal[i].seq \in Nat
  BY <1>1, Contents
<1>4. View = Shows(manifest, mem) /\ View \in Maps /\ View # Refused /\ View \in promised
  BY <1>1, <1>2, OpenShows
<1>5. u \in UnitType /\ u.seq = manifest.next_seq + 1 /\ u.rows = rows /\ Pending(manifest, u)
  BY <1>3 DEF UnitType, PendingSequence, Pending
<1> HIDE DEF u
<1>6. /\ wal' = Append(wal, u) /\ UNCHANGED <<wal_synced, wal_cleared>>
      /\ mem' = Over(mem, rows) /\ framed' = TRUE /\ promised' = promised \cup {Shows(manifest, mem')}
      /\ UNCHANGED <<current, floor, opened, manifest, requires_reopen, acknowledged, phase, attempted>>
  BY DEF Accepts, Log!Accept, container, job, u
<1>7. /\ wal' \in LogType /\ Len(wal') = Len(wal) + 1 /\ DOMAIN wal' = 1 .. Len(wal) + 1
      /\ wal'[Len(wal) + 1] = u /\ \A i \in 1 .. Len(wal) : wal'[i] = wal[i]
  BY <1>3, <1>5, <1>6 DEF LogType
<1>8. mem' \in Rows
  BY <1>1, <1>6, OverIs DEF TypeOK
<1>9. TypeOK'
  <2>1. wal_synced' \in 0 .. Len(wal')
    BY <1>3, <1>6, <1>7
  <2> QED
    BY <1>1, <1>6, <1>7, <1>8, <2>1 DEF TypeOK
<1>10. FloorInv'
  BY <1>1, <1>6 DEF FloorInv
<1>11. HandleInv'
  BY <1>1, <1>2, <1>6 DEF HandleInv, Usable
<1>12. Replayed(manifest, wal') = mem'
  BY <1>2, <1>3, <1>5, <1>6, ReplayedAppend
<1>13. LogInv'
  <2>1. \A i \in DOMAIN wal' : wal'[i].seq <= manifest.next_seq + 1
    BY <1>2, <1>3, <1>5, <1>7
  <2> QED
    BY <1>6, <1>12, <2>1 DEF LogInv
<1>14. ClearedInv'
  BY <1>1, <1>6 DEF ClearedInv
<1>15. SyncedInv'
  <2>1. \A i \in 1 .. wal_synced : wal'[i] = wal[i]
    BY <1>3, <1>7
  <2> QED
    BY <1>1, <1>2, <1>6, <2>1 DEF SyncedInv
<1>16. View' = Shows(manifest, mem')
  BY <1>2, <1>6 DEF View
<1>17. ASSUME NEW m \in {c, f}, NEW log \in (Log!Lost)', Replays(m, log)
       PROVE  Recovered(m, log) \in promised'
  <2>1. log = wal' \/ log \in Log!Lost
    <3>1. log \in Log!Cuts(wal', wal_synced) \/ \E g \in wal_cleared : log \in Log!Cuts(g.log, g.acked)
      BY <1>6, <1>17, LostNext
    <3>2. log \in Log!Cuts(wal', wal_synced) => log = wal' \/ log \in Log!Cuts(wal, wal_synced)
      BY <1>3, <1>5, <1>6, CutOfAppend
    <3> QED
      BY <3>1, <3>2, LostIs
  <2>2. CASE log \in Log!Lost
    BY <1>1, <1>6, <1>17, <2>2 DEF PromisedInv
  <2>3. CASE log = wal'
    <3>1. m.next_seq = c.next_seq
      <4>1. Redundant(m, u) \/ Pending(m, u)
        BY <1>7, <1>17, <1>3, <2>3 DEF Replays
      <4>2. u.seq = c.next_seq + 1
        BY <1>2, <1>5
      <4> QED
        BY <1>1, <1>3, <4>1, <4>2 DEF Redundant, Pending, FloorInv
    <3>2. Replayed(m, log) = mem'
      BY <1>2, <1>12, <2>3, <3>1, SameSequence
    <3>3. Shows(m, mem') = Shows(c, mem')
      BY <1>1, <1>8, <3>1 DEF FloorInv, SameView
    <3> QED
      BY <1>2, <1>6, <3>2, <3>3 DEF Recovered
  <2> QED
    BY <2>1, <2>2, <2>3
<1>18. PromisedInv'
  BY <1>6, <1>16, <1>17 DEF PromisedInv
<1>19. View' \in Maps
  BY <1>3, <1>8, <1>16, ViewIs
<1>20. Answered
  BY <1>4, <1>6, <1>16, <1>19 DEF Answered, Promise!Next, Promise!Accept, Maps
<1> QED
  BY <1>9, <1>10, <1>11, <1>13, <1>14, <1>15, <1>18, <1>20 DEF StoreInv

\* A handle that must be reopened.
LEMMA AppendRefusedKeeps ==
    ASSUME StoreInv, EnsureWriterUsable, AppendRefused
    PROVE  StoreInv' /\ Answered
<1>1. TypeOK /\ FloorInv /\ HandleInv /\ LogInv /\ ClearedInv /\ SyncedInv /\ PromisedInv
  BY DEF StoreInv
<1>2. opened /\ phase = "idle" /\ manifest = current.content
  BY IdleFacts
<1>3. /\ requires_reopen' = TRUE
      /\ UNCHANGED <<current, floor, wal, wal_synced, wal_cleared, opened, manifest, mem, framed, acknowledged,
                     phase, attempted, promised>>
  BY DEF AppendRefused, Poisoned, files, container, logv, job
<1>4. TypeOK'
  BY <1>1, <1>3 DEF TypeOK
<1>5. FloorInv' /\ ClearedInv' /\ SyncedInv'
  BY <1>1, <1>3 DEF FloorInv, ClearedInv, SyncedInv
<1>6. HandleInv' /\ LogInv'
  BY <1>1, <1>2, <1>3 DEF HandleInv, LogInv, Usable
<1>7. View' = View /\ (Log!Lost)' = Log!Lost
  BY <1>3 DEF View, Log!Lost
<1>8. PromisedInv'
  BY <1>1, <1>3, <1>7 DEF PromisedInv
<1> QED
  BY <1>3, <1>4, <1>5, <1>6, <1>7, <1>8 DEF StoreInv, Answered

LEMMA MutatesKeeps ==
    ASSUME StoreAssumption, StoreInv, Mutates
    PROVE  StoreInv' /\ Answered
<1>1. ASSUME NEW id \in Ids, NEW r \in Values \cup {Deleted} PROVE [i \in {id} |-> r] \in Rows \ {NoRows}
  <2> DEFINE g == [i \in {id} |-> r]
  <2>1. g = [x \in DOMAIN g |-> g[x]] /\ DOMAIN g = {id} /\ g[id] = r
    OBVIOUS
  <2> HIDE DEF g
  <2>2. g \in Rows
    BY <2>1, RowsAre
  <2>3. g # NoRows
    BY <2>1, NoRowsIs
  <2> QED
    BY <2>2, <2>3 DEF g
<1>2. ASSUME NEW id \in Ids, Delete(id) PROVE StoreInv' /\ Answered
  <2>1. EnsureWriterUsable
    BY <1>2 DEF Delete, CanStage
  <2>2. CASE Accepts([i \in {id} |-> Deleted])
    BY <1>1, <2>1, <2>2, AcceptsKeeps
  <2>3. CASE UNCHANGED <<files, handle, job, promised>>
    BY <2>3, Stands
  <2> QED
    BY <1>2, <2>2, <2>3 DEF Delete
<1>3. ASSUME NEW id \in Ids, NEW v \in Values, Put(id, v) PROVE StoreInv' /\ Answered
  <2>1. EnsureWriterUsable
    BY <1>3 DEF Put, CanStage
  <2> QED
    BY <1>1, <1>3, <2>1, AcceptsKeeps, AppendRefusedKeeps DEF Put
<1>4. ASSUME NEW rows \in Rows \ {NoRows}, Apply(rows) PROVE StoreInv' /\ Answered
  <2>1. EnsureWriterUsable
    BY <1>4 DEF Apply, CanStage
  <2> QED
    BY <1>4, <2>1, AcceptsKeeps, AppendRefusedKeeps DEF Apply
<1> QED
  BY <1>2, <1>3, <1>4 DEF Mutates

\* The container only gives up what a power loss could have taken back.
LEMMA FloorRises ==
    ASSUME TypeOK, FloorInv, current' = current, floor' \in {floor, current}
    PROVE  /\ FloorInv'
           /\ floor' \in [seq : Nat, content : ManifestType]
           /\ floor'.content \in {floor.content, current.content}
           /\ floor'.content.next_seq \in Nat /\ floor.content.next_seq <= floor'.content.next_seq
<1>1. floor' \in [seq : Nat, content : ManifestType] /\ floor'.content \in {floor.content, current.content}
  BY DEF TypeOK
<1>2. floor'.content.next_seq \in Nat /\ floor.content.next_seq <= floor'.content.next_seq
  BY <1>1, Contents
<1>3. FloorInv'
  <2>1. CASE floor' = floor
    BY <2>1 DEF FloorInv
  <2>2. CASE floor' = current
    BY <2>2 DEF FloorInv, SameView
  <2> QED
    BY <2>1, <2>2
<1> QED
  BY <1>1, <1>2, <1>3

LEMMA AcknowledgesCurrentIs ==
    ASSUME StoreInv, EnsureWriterUsable, AcknowledgesCurrent
    PROVE  current' = current /\ floor' \in {floor, current} /\ floor'.content = current.content
<1>1. acknowledged => floor.content = current.content
  BY IdleFacts
<1> QED
  BY <1>1 DEF AcknowledgesCurrent, Container!Acknowledge, container

LEMMA ClearedBelow ==
    ASSUME TypeOK, FloorInv, ClearedInv, NEW n \in Nat, floor.content.next_seq <= n
    PROVE  \A g \in wal_cleared : \A i \in DOMAIN g.log : g.log[i].seq <= n
<1>1. ASSUME NEW g \in wal_cleared, NEW i \in DOMAIN g.log PROVE g.log[i].seq <= n
  <2>1. g.log \in LogType
    BY DEF TypeOK
  <2>2. g.log[i].seq \in Nat
    BY <2>1, LogRows
  <2>3. g.log[i].seq <= floor.content.next_seq
    BY DEF ClearedInv
  <2> QED
    BY Contents, <2>2, <2>3
<1> QED
  BY <1>1

LEMMA SyncKeeps ==
    ASSUME StoreAssumption, StoreInv, Sync
    PROVE  StoreInv' /\ Answered
<1> DEFINE c == current.content
           f == floor.content
<1>1. TypeOK /\ FloorInv /\ HandleInv /\ LogInv /\ ClearedInv /\ SyncedInv /\ PromisedInv
  BY DEF StoreInv
<1>2. EnsureWriterUsable
  BY DEF Sync
<1>3. /\ opened /\ phase = "idle" /\ ~requires_reopen
      /\ manifest = c /\ (acknowledged => f = c)
      /\ Replayed(manifest, wal) = mem
      /\ \A i \in DOMAIN wal : wal[i].seq <= manifest.next_seq + 1
  BY <1>2, IdleFacts
<1>4. /\ c \in ManifestType /\ f \in ManifestType /\ c.next_seq \in Nat /\ f.next_seq \in Nat
      /\ f.next_seq <= c.next_seq
      /\ wal \in LogType /\ Len(wal) \in Nat /\ DOMAIN wal = 1 .. Len(wal)
      /\ wal_synced \in Nat /\ wal_synced <= Len(wal)
      /\ \A i \in DOMAIN wal : wal[i].seq \in Nat
  BY <1>1, Contents
<1>5. View = Shows(manifest, mem) /\ View \in Maps /\ View # Refused /\ View \in promised
  BY <1>1, <1>3, OpenShows
<1>6. UNCHANGED <<sidecar, opened, manifest, mem, framed, requires_reopen, phase, attempted>>
  BY DEF Sync, job
<1>7. View' = View
  BY <1>3, <1>6 DEF View
<1>8. CASE AcknowledgesCurrent /\ acknowledged' = TRUE
  <2>1. current' = current /\ floor' \in {floor, current} /\ floor'.content = c
    BY <1>2, <1>8, AcknowledgesCurrentIs
  <2>2. FloorInv' /\ floor' \in [seq : Nat, content : ManifestType]
    BY <1>1, <2>1, FloorRises
  <2>3. HandleInv'
    BY <1>1, <1>3, <1>6, <1>8, <2>1 DEF HandleInv, Usable
  <2>4. CASE Log!Acknowledge /\ promised' = {View}
    <3>1. wal' = wal /\ wal_synced' = Len(wal) /\ wal_cleared' = {}
      BY <2>4 DEF Log!Acknowledge
    <3>2. TypeOK'
      <4>1. wal_synced' \in 0 .. Len(wal')
        BY <1>4, <3>1
      <4> QED
        BY <1>1, <1>6, <1>8, <2>1, <2>2, <3>1, <4>1 DEF TypeOK
    <3>3. LogInv' /\ ClearedInv'
      BY <1>1, <1>3, <1>6, <3>1 DEF LogInv, ClearedInv, Usable
    <3>4. SyncedInv'
      BY <1>3, <1>4, <2>1, <3>1 DEF SyncedInv
    <3>5. ASSUME NEW log \in (Log!Lost)' PROVE log = wal
      <4>1. log \in Log!Cuts(wal, Len(wal))
        BY <3>1, <3>5, LostNext
      <4>2. Len(log) = Len(wal)
        BY <1>4, <4>1, CutIs
      <4> QED
        BY <1>4, <4>1, <4>2, WholeCut
    <3>6. Recovered(c, wal) = View
      BY <1>3, <1>5 DEF Recovered
    <3>7. PromisedInv'
      BY <1>7, <2>1, <2>4, <3>5, <3>6 DEF PromisedInv
    <3>8. Answered
      BY <1>7, <2>4 DEF Answered, Promise!Next, Promise!Acknowledge
    <3> QED
      BY <2>2, <2>3, <3>2, <3>3, <3>4, <3>7, <3>8 DEF StoreInv
  <2>5. CASE UNCHANGED <<logv, promised>>
    <3>1. UNCHANGED <<wal, wal_synced, wal_cleared, promised>>
      BY <2>5 DEF logv
    <3>2. TypeOK'
      BY <1>1, <1>6, <1>8, <2>1, <2>2, <3>1 DEF TypeOK
    <3>3. LogInv'
      BY <1>1, <1>6, <3>1 DEF LogInv, Usable
    <3>4. ClearedInv'
      <4>1. \A g \in wal_cleared : \A i \in DOMAIN g.log : g.log[i].seq <= c.next_seq
        BY <1>1, <1>4, ClearedBelow
      <4> QED
        BY <2>1, <3>1, <4>1 DEF ClearedInv
    <3>5. SyncedInv'
      BY <1>3, <1>4, <2>1, <3>1 DEF SyncedInv
    <3>6. (Log!Lost)' = Log!Lost
      BY <3>1 DEF Log!Lost
    <3>7. PromisedInv'
      BY <1>1, <1>7, <2>1, <3>1, <3>6 DEF PromisedInv
    <3>8. Answered
      BY <1>7, <3>1 DEF Answered
    <3> QED
      BY <2>2, <2>3, <3>2, <3>3, <3>4, <3>5, <3>7, <3>8 DEF StoreInv
  <2> QED
    BY <1>8, <2>4, <2>5 DEF Sync
<1>9. CASE UNCHANGED <<container, logv, acknowledged, promised>>
  <2>1. UNCHANGED <<files, handle, job, promised>>
    BY <1>6, <1>9 DEF files, handle, job
  <2> QED
    BY <2>1, Stands
<1> QED
  BY <1>8, <1>9 DEF Sync

\* A publication of m, given what m shows.
LEMMA PublishesKeeps ==
    ASSUME StoreAssumption, StoreInv, EnsureWriterUsable, NEW m \in ManifestType, NEW kind \in {"flush", "merge"},
           kind = "flush" => m.next_seq = manifest.next_seq + 1 /\ Shows(m, NoRows) = Shows(manifest, mem),
           kind = "merge" => m.next_seq = manifest.next_seq /\ SameView(m, manifest),
           Publishes(m, kind)
    PROVE  StoreInv' /\ Answered
<1> DEFINE c == current.content
           f == floor.content
<1>1. TypeOK /\ FloorInv /\ HandleInv /\ LogInv /\ ClearedInv /\ SyncedInv /\ PromisedInv
  BY DEF StoreInv
<1>2. /\ opened /\ phase = "idle" /\ ~requires_reopen
      /\ manifest = c /\ Replayed(manifest, wal) = mem
      /\ \A i \in DOMAIN wal : wal[i].seq <= manifest.next_seq + 1
  BY IdleFacts
<1>3. /\ c \in ManifestType /\ f \in ManifestType /\ c.next_seq \in Nat /\ f.next_seq \in Nat
      /\ f.next_seq <= c.next_seq
      /\ wal \in LogType /\ Len(wal) \in Nat /\ DOMAIN wal = 1 .. Len(wal)
      /\ wal_synced \in Nat /\ wal_synced <= Len(wal)
      /\ \A i \in DOMAIN wal : wal[i].seq \in Nat
  BY <1>1, Contents
<1>4. View = Shows(manifest, mem) /\ View \in promised
  BY <1>1, <1>2, OpenShows
<1>5. UNCHANGED <<wal, wal_synced, wal_cleared, promised>>
  BY DEF Publishes, logv
<1>6. (Log!Lost)' = Log!Lost
  BY <1>5 DEF Log!Lost
<1>7. \A g \in wal_cleared : \A i \in DOMAIN g.log : g.log[i].seq <= c.next_seq
  BY <1>1, <1>3, ClearedBelow
<1>8. m.next_seq \in Nat
  BY DEF ManifestType
<1>9. CASE /\ current' = [seq |-> current.seq + 1, content |-> m] /\ floor' = current
           /\ phase' = kind /\ attempted' = m /\ UNCHANGED handle
  <2>1. current'.content = m /\ floor'.content = c /\ UNCHANGED <<opened, manifest, mem, framed, requires_reopen, acknowledged>>
    BY <1>9 DEF handle
  <2>2. TypeOK'
    BY <1>1, <1>5, <1>9, <2>1 DEF TypeOK
  <2>3. FloorInv'
    BY <1>2, <1>3, <1>8, <2>1 DEF FloorInv, SameView
  <2>4. HandleInv'
    BY <1>1, <1>2, <1>9, <2>1 DEF HandleInv, Usable
  <2>5. LogInv' /\ ClearedInv'
    BY <1>1, <1>5, <1>7, <2>1 DEF LogInv, ClearedInv, Usable
  <2>6. SyncedInv'
    BY <1>2, <1>3, <1>5, <2>1 DEF SyncedInv
  <2>7. View' = View
    BY <1>2, <2>1 DEF View
  <2>8. ASSUME NEW log \in Log!Lost, Replays(m, log) PROVE Recovered(m, log) \in promised
    <3>1. log \in LogType
      BY <1>1, LostTypes
    <3>2. CASE kind = "flush"
      <4>1. \A i \in DOMAIN wal : wal[i].seq <= m.next_seq
        BY <1>2, <3>2
      <4>2. \A g \in wal_cleared : \A i \in DOMAIN g.log : g.log[i].seq <= m.next_seq
        <5>1. f.next_seq <= m.next_seq
          BY <1>2, <1>3, <3>2
        <5> QED
          BY <1>1, <1>8, <5>1, ClearedBelow
      <4>3. \A i \in DOMAIN log : log[i].seq <= m.next_seq
        BY <1>1, <1>8, <4>1, <4>2, LostBelow
      <4>4. Recovered(m, log) = Shows(m, NoRows)
        BY <3>1, <4>3, NothingBeyond
      <4> QED
        BY <1>4, <3>2, <4>4
    <3>3. CASE kind = "merge"
      <4>1. Replayed(m, log) = Replayed(c, log) /\ (Replays(m, log) <=> Replays(c, log))
        BY <1>2, <3>3, SameSequence
      <4>2. Replayed(c, log) \in Rows
        BY <3>1, LogRows
      <4>3. Recovered(m, log) = Recovered(c, log)
        BY <1>2, <3>3, <4>1, <4>2 DEF Recovered, SameView
      <4> QED
        BY <1>1, <2>8, <4>1, <4>3 DEF PromisedInv
    <3> QED
      BY <3>2, <3>3
  <2>9. PromisedInv'
    BY <1>1, <1>5, <1>6, <2>1, <2>7, <2>8 DEF PromisedInv
  <2> QED
    BY <1>5, <2>2, <2>3, <2>4, <2>5, <2>6, <2>7, <2>9 DEF StoreInv, Answered
<1>10. CASE floor' \in {floor, current} /\ UNCHANGED current /\ Poisoned /\ UNCHANGED job
  <2>1. requires_reopen' = TRUE /\ UNCHANGED <<opened, manifest, mem, framed, acknowledged, phase, attempted>>
    BY <1>10 DEF Poisoned, job
  <2>2. /\ FloorInv' /\ floor' \in [seq : Nat, content : ManifestType] /\ floor'.content \in {f, c}
        /\ floor'.content.next_seq \in Nat /\ f.next_seq <= floor'.content.next_seq
    BY <1>1, <1>10, FloorRises
  <2>3. TypeOK'
    BY <1>1, <1>5, <1>10, <2>1, <2>2 DEF TypeOK
  <2>4. HandleInv' /\ LogInv'
    BY <1>1, <1>2, <1>10, <2>1 DEF HandleInv, LogInv, Usable
  <2>5. ClearedInv'
    BY <1>1, <1>5, <1>7, <2>2 DEF ClearedInv
  <2>6. SyncedInv'
    BY <1>1, <1>2, <1>3, <1>5, <2>2 DEF SyncedInv
  <2>7. View' = View
    BY <1>2, <2>1 DEF View
  <2>8. PromisedInv'
    BY <1>1, <1>5, <1>6, <1>10, <2>2, <2>7 DEF PromisedInv
  <2> QED
    BY <1>5, <2>2, <2>3, <2>4, <2>5, <2>6, <2>7, <2>8 DEF StoreInv, Answered
<1> QED
  BY <1>9, <1>10 DEF Publishes

LEMMA FlushPublishesKeeps ==
    ASSUME StoreAssumption, StoreInv, FlushPublishes
    PROVE  StoreInv' /\ Answered
<1> DEFINE q == [lo |-> PendingSequence, hi |-> PendingSequence, rows |-> mem]
<1>1. EnsureWriterUsable /\ Publishes(Flushed, "flush")
  BY DEF FlushPublishes
<1>2. manifest \in ManifestType /\ mem \in Rows
  BY DEF StoreInv, TypeOK
<1>3. manifest.next_seq \in Nat /\ manifest.parts \in Seq(PartType) /\ PendingSequence \in Nat
  BY <1>2 DEF ManifestType, PendingSequence
<1>4. q \in PartType /\ q.rows = mem
  BY <1>2, <1>3 DEF PartType
<1> HIDE DEF q
<1>5. Flushed = [next_seq |-> PendingSequence, parts |-> Append(manifest.parts, q)]
  BY DEF Flushed, q
<1>6. Flushed.next_seq = manifest.next_seq + 1 /\ Flushed.parts = Append(manifest.parts, q)
  BY <1>5 DEF PendingSequence
<1>7. Flushed \in ManifestType
  BY <1>3, <1>4, <1>5 DEF ManifestType
<1>8. Shows(Flushed, NoRows) = Shows(manifest, mem)
  BY <1>2, <1>4, <1>6, FlushedShows
<1> QED
  BY <1>1, <1>6, <1>7, <1>8, PublishesKeeps

LEMMA MergeRangeKeeps ==
    ASSUME StoreAssumption, StoreInv, NEW lo \in 1 .. MaxCommits, NEW len \in 1 .. MaxCommits, MergeRange(lo, len)
    PROVE  StoreInv' /\ Answered
<1>1. EnsureWriterUsable /\ len >= 2 /\ lo + len - 1 <= Len(manifest.parts)
  BY DEF MergeRange
<1>2. lo \in Nat \ {0} /\ len \in Nat \ {0, 1}
  BY <1>1 DEF StoreAssumption
<1>3. manifest \in ManifestType
  BY DEF StoreInv, TypeOK
<1>4. /\ Merged(lo, len) \in ManifestType /\ Merged(lo, len).next_seq = manifest.next_seq
      /\ SameView(Merged(lo, len), manifest)
  BY <1>1, <1>2, <1>3, MergedManifest
<1>5. CASE Publishes(Merged(lo, len), "merge")
  BY <1>1, <1>4, <1>5, PublishesKeeps
<1>6. CASE UNCHANGED <<files, handle, job, promised>>
  BY <1>6, Stands
<1> QED
  BY <1>5, <1>6 DEF MergeRange

LEMMA FinalBarrierKeeps ==
    ASSUME StoreAssumption, StoreInv, FinalBarrier
    PROVE  StoreInv' /\ Answered
<1> DEFINE c == current.content
           f == floor.content
<1>1. TypeOK /\ FloorInv /\ HandleInv /\ LogInv /\ ClearedInv /\ SyncedInv /\ PromisedInv
  BY DEF StoreInv
<1>2. /\ opened /\ phase \in {"flush", "merge"} /\ ~requires_reopen
      /\ manifest = f /\ attempted = c
      /\ Replayed(manifest, wal) = mem
      /\ \A i \in DOMAIN wal : wal[i].seq <= manifest.next_seq + 1
  BY <1>1 DEF FinalBarrier, HandleInv, LogInv, Usable
<1>3. /\ c \in ManifestType /\ f \in ManifestType /\ c.next_seq \in Nat /\ f.next_seq \in Nat
      /\ f.next_seq <= c.next_seq
      /\ wal \in LogType /\ Len(wal) \in Nat /\ DOMAIN wal = 1 .. Len(wal)
      /\ wal_synced \in Nat /\ wal_synced <= Len(wal)
      /\ \A i \in DOMAIN wal : wal[i].seq \in Nat
  BY <1>1, Contents
<1>4. View = Shows(manifest, mem) /\ View \in promised
  BY <1>1, <1>2, OpenShows
<1>5. UNCHANGED <<wal, wal_synced, wal_cleared, attempted>>
  BY DEF FinalBarrier, logv
<1>6. (Log!Lost)' = Log!Lost
  BY <1>5 DEF Log!Lost
<1>7. phase = "flush" => c.next_seq = f.next_seq + 1 /\ Shows(c, NoRows) = View
  BY <1>1, <1>2, <1>4 DEF HandleInv
<1>8. phase = "merge" => c.next_seq = f.next_seq /\ SameView(c, f)
  BY <1>1, <1>2 DEF HandleInv
<1>9. mem \in Rows /\ NoRows \in Rows
  BY <1>1, NoRowsIs DEF TypeOK
\* Adopted, the published manifest shows what the handle showed before it.
<1>10. ASSUME Adopts
       PROVE  /\ manifest' = c /\ opened' /\ ~requires_reopen' /\ UNCHANGED <<opened, framed, requires_reopen>>
              /\ mem' \in Rows /\ (phase = "flush" => mem' = NoRows) /\ Shows(c, mem') = View
              /\ Replayed(c, wal) = mem'
  <2>1. /\ manifest' = c /\ opened' /\ ~requires_reopen' /\ UNCHANGED <<opened, framed, requires_reopen>>
        /\ mem' = IF phase = "flush" THEN NoRows ELSE mem
    BY <1>2, <1>10 DEF Adopts
  <2>2. CASE phase = "flush"
    <3>1. \A i \in DOMAIN wal : wal[i].seq <= c.next_seq
      BY <1>2, <1>7, <2>2
    <3>2. Replayed(c, wal) = NoRows
      BY <1>3, <3>1, NothingBeyond
    <3> QED
      BY <1>7, <1>9, <2>1, <2>2, <3>2
  <2>3. CASE phase = "merge"
    <3>1. Replayed(c, wal) = mem
      BY <1>2, <1>8, <2>3, SameSequence
    <3>2. Shows(c, mem) = View
      BY <1>2, <1>4, <1>8, <1>9, <2>3 DEF SameView
    <3> QED
      BY <1>9, <2>1, <2>3, <3>1, <3>2
  <2> QED
    BY <1>2, <2>1, <2>2, <2>3
<1>11. \A i \in DOMAIN wal : wal[i].seq <= c.next_seq + 1
  BY <1>2, <1>3
<1>12. CASE /\ Container!Acknowledge /\ Adopts /\ acknowledged' = TRUE
            /\ phase' = (IF phase = "flush" THEN "settle" ELSE "idle")
            /\ promised' = (IF phase = "flush" THEN {View} ELSE promised)
  <2>1. current' = current /\ floor' = current
    BY <1>12 DEF Container!Acknowledge
  <2>2. FloorInv' /\ floor' \in [seq : Nat, content : ManifestType]
    BY <1>1, <2>1, FloorRises
  <2>3. TypeOK'
    BY <1>1, <1>2, <1>3, <1>5, <1>10, <1>12, <2>1, <2>2 DEF TypeOK
  <2>4. HandleInv'
    BY <1>1, <1>2, <1>10, <1>12, <2>1 DEF HandleInv, Usable
  <2>5. LogInv'
    <3>1. ~framed => wal = <<>>
      BY <1>1, <1>2 DEF LogInv, Usable
    <3> QED
      BY <1>5, <1>10, <1>11, <1>12, <3>1 DEF LogInv
  <2>6. ClearedInv'
    <3>1. \A g \in wal_cleared : \A i \in DOMAIN g.log : g.log[i].seq <= c.next_seq
      BY <1>1, <1>3, ClearedBelow
    <3> QED
      BY <1>5, <2>1, <3>1 DEF ClearedInv
  <2>7. SyncedInv'
    BY <1>3, <1>5, <1>11, <2>1 DEF SyncedInv
  <2>8. View' = View
    BY <1>10, <1>12 DEF View
  <2>9. ASSUME NEW log \in Log!Lost, Replays(c, log) PROVE Recovered(c, log) \in promised'
    <3>1. CASE phase = "flush"
      <4>1. \A i \in DOMAIN wal : wal[i].seq <= c.next_seq
        BY <1>2, <1>7, <3>1
      <4>2. \A g \in wal_cleared : \A i \in DOMAIN g.log : g.log[i].seq <= c.next_seq
        BY <1>1, <1>3, ClearedBelow
      <4>3. log \in LogType /\ \A i \in DOMAIN log : log[i].seq <= c.next_seq
        BY <1>1, <1>3, <4>1, <4>2, LostBelow, LostTypes
      <4>4. Recovered(c, log) = View
        BY <1>3, <1>7, <3>1, <4>3, NothingBeyond
      <4> QED
        BY <1>12, <3>1, <4>4
    <3>2. CASE phase = "merge"
      BY <1>1, <1>12, <2>9, <3>2 DEF PromisedInv
    <3> QED
      BY <1>2, <3>1, <3>2
  <2>10. PromisedInv'
    BY <1>4, <1>6, <1>12, <2>1, <2>8, <2>9 DEF PromisedInv
  <2>11. Answered
    BY <1>12, <2>8 DEF Answered, Promise!Next, Promise!Acknowledge
  <2> QED
    BY <2>2, <2>3, <2>4, <2>5, <2>6, <2>7, <2>10, <2>11 DEF StoreInv
<1>13. CASE phase' = "idle" /\ UNCHANGED <<container, promised>> /\ Adopts /\ acknowledged' = FALSE
  <2>1. current' = current /\ floor' = floor /\ promised' = promised
    BY <1>13 DEF container
  <2>2. TypeOK'
    BY <1>1, <1>2, <1>3, <1>5, <1>10, <1>13, <2>1 DEF TypeOK
  <2>3. FloorInv' /\ ClearedInv'
    BY <1>1, <1>5, <2>1 DEF FloorInv, ClearedInv
  <2>8. SyncedInv'
    BY <1>1, <1>2, <1>5, <2>1 DEF SyncedInv
  <2>4. HandleInv'
    BY <1>1, <1>2, <1>10, <1>13, <2>1 DEF HandleInv, Usable
  <2>5. LogInv'
    <3>1. ~framed => wal = <<>>
      BY <1>1, <1>2 DEF LogInv, Usable
    <3> QED
      BY <1>5, <1>10, <1>11, <1>13, <3>1 DEF LogInv
  <2>6. View' = View
    BY <1>10, <1>13 DEF View
  <2>7. PromisedInv'
    BY <1>1, <1>6, <2>1, <2>6 DEF PromisedInv
  <2> QED
    BY <2>1, <2>2, <2>3, <2>4, <2>5, <2>6, <2>7, <2>8 DEF StoreInv, Answered
<1>14. CASE phase' = "idle" /\ UNCHANGED <<container, promised>> /\ Poisoned
  <2>1. /\ current' = current /\ floor' = floor /\ promised' = promised
        /\ requires_reopen' = TRUE /\ UNCHANGED <<opened, manifest, mem, framed, acknowledged>>
    BY <1>14 DEF container, Poisoned
  <2>2. TypeOK'
    BY <1>1, <1>5, <1>14, <2>1 DEF TypeOK
  <2>3. FloorInv' /\ ClearedInv' /\ SyncedInv'
    BY <1>1, <1>5, <2>1 DEF FloorInv, ClearedInv, SyncedInv
  <2>4. HandleInv' /\ LogInv'
    BY <1>1, <1>2, <1>14, <2>1 DEF HandleInv, LogInv, Usable
  <2>5. View' = View
    BY <1>2, <2>1 DEF View
  <2>6. PromisedInv'
    BY <1>1, <1>6, <2>1, <2>5 DEF PromisedInv
  <2> QED
    BY <2>1, <2>2, <2>3, <2>4, <2>5, <2>6 DEF StoreInv, Answered
<1> QED
  BY <1>12, <1>13, <1>14 DEF FinalBarrier

\* A log of which nothing is beyond the manifest, cleared in any of the ways
\* a clearing can go.
LEMMA Emptied ==
    ASSUME StoreAssumption, StoreInv, Usable, manifest = current.content, mem = NoRows,
           current' = current, floor'.content = current.content,
           Log!Clear \/ Log!ClearUnsynced \/ Log!Forget \/ UNCHANGED logv
    PROVE  /\ wal' \in LogType /\ wal_synced' \in 0 .. Len(wal')
           /\ \A g \in wal_cleared' : g \in [log : LogType, acked : Nat] /\ g.acked <= Len(g.log)
           /\ Replayed(manifest, wal') = NoRows
           /\ \A i \in DOMAIN wal' : wal'[i].seq <= manifest.next_seq
           /\ wal = <<>> => wal' = <<>>
           /\ ClearedInv' /\ SyncedInv'
           /\ \A log \in (Log!Lost)' : Recovered(manifest, log) = View
           /\ Recovered(manifest, wal') = View
<1>1. TypeOK /\ FloorInv /\ LogInv /\ ClearedInv /\ PromisedInv
  BY DEF StoreInv
<1>2. /\ opened /\ Replayed(manifest, wal) = NoRows
      /\ \A i \in DOMAIN wal : wal[i].seq <= manifest.next_seq + 1
  BY <1>1 DEF LogInv, Usable
<1>3. /\ floor.content.next_seq \in Nat
      /\ floor.content.next_seq <= manifest.next_seq
      /\ manifest \in ManifestType /\ manifest.next_seq \in Nat
      /\ wal \in LogType /\ Len(wal) \in Nat /\ DOMAIN wal = 1 .. Len(wal)
      /\ wal_synced \in Nat /\ wal_synced <= Len(wal)
      /\ \A i \in DOMAIN wal : wal[i].seq \in Nat
  BY <1>1, Contents
<1>4. View = Shows(manifest, NoRows)
  BY <1>1, <1>2, OpenShows
<1>5. \A i \in DOMAIN wal : wal[i].seq <= manifest.next_seq
  <2>1. \A i \in DOMAIN wal : ~Pending(manifest, wal[i])
    BY <1>2, <1>3, ReplayedNone
  <2> QED
    BY <1>2, <1>3, <2>1 DEF Pending
<1>6. \A g \in wal_cleared : \A i \in DOMAIN g.log : g.log[i].seq <= manifest.next_seq
  BY <1>1, <1>3, ClearedBelow
<1>7. /\ wal' \in LogType /\ wal_synced' \in 0 .. Len(wal') /\ (wal = <<>> => wal' = <<>>)
      /\ \A i \in DOMAIN wal' : i \in DOMAIN wal /\ wal'[i] = wal[i]
  <2>1. CASE wal' = <<>> /\ wal_synced' = 0
    BY <2>1, EmptyLog
  <2>2. CASE Log!Forget
    <3>1. wal' \in Log!Cuts(wal, wal_synced) /\ wal_synced' = wal_synced
      BY <2>2 DEF Log!Forget
    <3>2. /\ wal' \in LogType /\ Len(wal') \in wal_synced .. Len(wal)
          /\ \A i \in DOMAIN wal' : i \in DOMAIN wal /\ wal'[i] = wal[i]
      BY <1>3, <3>1, CutIs
    <3>3. wal = <<>> => wal' = <<>>
      <4>1. ASSUME wal = <<>> PROVE wal' = <<>>
        <5>1. wal_synced = 0
          BY <1>3, <4>1, EmptyLog
        <5> QED
          BY <3>1, <4>1, <5>1, EmptyLog
      <4> QED
        BY <4>1
    <3> QED
      BY <1>3, <3>1, <3>2, <3>3
  <2>3. CASE UNCHANGED logv
    BY <1>3, <2>3 DEF logv
  <2> QED
    BY <2>1, <2>2, <2>3 DEF Log!Clear, Log!ClearUnsynced
<1>8. \A i \in DOMAIN wal' : wal'[i].seq <= manifest.next_seq
  BY <1>5, <1>7
<1>9. Replayed(manifest, wal') = NoRows /\ Recovered(manifest, wal') = View
  BY <1>3, <1>4, <1>7, <1>8, NothingBeyond
<1>10. ASSUME NEW g \in wal_cleared'
       PROVE  /\ g \in [log : LogType, acked : Nat] /\ g.acked <= Len(g.log)
              /\ \A i \in DOMAIN g.log : g.log[i].seq <= manifest.next_seq
  <2>1. CASE g \in wal_cleared
    BY <1>1, <1>6, <2>1 DEF TypeOK
  <2>2. CASE g = [log |-> wal, acked |-> wal_synced]
    <3>1. g.log = wal /\ g.acked = wal_synced
      BY <2>2
    <3> QED
      BY <1>3, <1>5, <2>2, <3>1
  <2> QED
    BY <2>1, <2>2 DEF Log!Clear, Log!ClearUnsynced, Log!Forget, logv
<1>11. ClearedInv'
  BY <1>10 DEF ClearedInv
<1>12. SyncedInv'
  <2>1. ASSUME NEW i \in 1 .. wal_synced' PROVE wal'[i].seq <= manifest.next_seq + 1
    <3>1. i \in DOMAIN wal'
      BY <1>7, LogRows
    <3> QED
      BY <1>3, <1>7, <1>8, <3>1
  <2> QED
    BY <2>1 DEF SyncedInv
<1>13. ASSUME NEW log \in (Log!Lost)' PROVE Recovered(manifest, log) = View
  <2>1. CASE log \in Log!Cuts(wal', wal_synced')
    <3>1. log \in LogType /\ \A i \in DOMAIN log : i \in DOMAIN wal' /\ log[i] = wal'[i]
      BY <1>7, <2>1, CutIs
    <3> QED
      BY <1>3, <1>4, <1>8, <3>1, NothingBeyond
  <2>2. CASE \E g \in wal_cleared' : log \in Log!Cuts(g.log, g.acked)
    <3>1. PICK g \in wal_cleared' : log \in Log!Cuts(g.log, g.acked)
      BY <2>2
    <3>2. g.log \in LogType /\ g.acked \in Nat
      BY <1>10
    <3>3. log \in LogType /\ \A i \in DOMAIN log : i \in DOMAIN g.log /\ log[i] = g.log[i]
      BY <3>1, <3>2, CutIs
    <3>4. \A i \in DOMAIN log : log[i].seq <= manifest.next_seq
      BY <1>10, <3>3
    <3> QED
      BY <1>3, <1>4, <3>3, <3>4, NothingBeyond
  <2> QED
    BY <2>1, <2>2, LostNext
<1> QED
  BY <1>7, <1>8, <1>9, <1>10, <1>11, <1>12, <1>13

\* A usable handle whose log has been cleared, or not, goes on.
LEMMA EmptiedKeeps ==
    ASSUME StoreAssumption, StoreInv, Usable, manifest = current.content, mem = NoRows, phase \in {"idle", "settle"},
           current' = current, floor' \in {floor, current}, floor'.content = current.content,
           Log!Clear \/ Log!ClearUnsynced \/ Log!Forget \/ UNCHANGED logv,
           (framed' = FALSE /\ wal' = <<>>) \/ UNCHANGED framed, acknowledged' \in BOOLEAN, phase' = "idle",
           UNCHANGED <<opened, manifest, mem, requires_reopen, attempted, promised>>
    PROVE  StoreInv' /\ Answered
<1>1. TypeOK /\ FloorInv /\ HandleInv /\ LogInv /\ PromisedInv
  BY DEF StoreInv
<1>2. /\ wal' \in LogType /\ wal_synced' \in 0 .. Len(wal')
      /\ \A g \in wal_cleared' : g \in [log : LogType, acked : Nat] /\ g.acked <= Len(g.log)
      /\ Replayed(manifest, wal') = NoRows
      /\ \A i \in DOMAIN wal' : wal'[i].seq <= manifest.next_seq
      /\ wal = <<>> => wal' = <<>>
      /\ ClearedInv' /\ SyncedInv'
      /\ \A log \in (Log!Lost)' : Recovered(manifest, log) = View
  BY Emptied
<1>3. FloorInv' /\ floor' \in [seq : Nat, content : ManifestType]
  BY <1>1, FloorRises
<1>4. TypeOK'
  BY <1>1, <1>2, <1>3 DEF TypeOK
<1>5. HandleInv'
  BY <1>1 DEF HandleInv, Usable
<1>6. LogInv'
  <2>1. \A i \in DOMAIN wal' : wal'[i].seq <= manifest.next_seq + 1
    <3>1. \A i \in DOMAIN wal' : wal'[i].seq \in Nat
      BY <1>2, LogRows
    <3> QED
      BY <1>1, <1>2, <3>1, Contents
  <2>2. ~framed' => wal' = <<>>
    BY <1>1, <1>2 DEF LogInv
  <2> QED
    BY <1>2, <2>1, <2>2 DEF LogInv
<1>7. View' = View /\ View \in promised
  <2>1. opened
    BY DEF Usable
  <2> QED
    BY <1>1, <2>1, OpenShows DEF View
<1>8. PromisedInv'
  BY <1>2, <1>7 DEF PromisedInv
<1> QED
  BY <1>2, <1>3, <1>4, <1>5, <1>6, <1>7, <1>8 DEF StoreInv, Answered

LEMMA TruncatesIs ==
    ASSUME Truncates
    PROVE  /\ Log!Clear \/ Log!ClearUnsynced \/ Log!Forget \/ UNCHANGED logv
           /\ (framed' = FALSE /\ wal' = <<>>) \/ UNCHANGED framed
BY DEF Truncates, Log!Clear, Log!ClearUnsynced

LEMMA FlushTruncatesKeeps ==
    ASSUME StoreAssumption, StoreInv, FlushTruncates
    PROVE  StoreInv' /\ Answered
<1>1. opened /\ phase = "settle" /\ Truncates /\ phase' = "idle"
  BY DEF FlushTruncates
<1>2. UNCHANGED <<current, floor, opened, manifest, mem, requires_reopen, acknowledged, attempted, promised>>
  BY DEF FlushTruncates, container
<1>3. Usable /\ manifest = current.content /\ floor.content = current.content /\ mem = NoRows
  BY <1>1 DEF StoreInv, HandleInv, Usable
<1>4. acknowledged' \in BOOLEAN
  BY <1>2 DEF StoreInv, TypeOK
<1> QED
  BY <1>1, <1>2, <1>3, <1>4, TruncatesIs, EmptiedKeeps

LEMMA FlushSettlesKeeps ==
    ASSUME StoreAssumption, StoreInv, FlushSettles
    PROVE  StoreInv' /\ Answered
<1>1. EnsureWriterUsable /\ mem = NoRows
  BY DEF FlushSettles
<1>2. Usable /\ manifest = current.content /\ phase = "idle"
  BY <1>1, IdleFacts
<1>3. UNCHANGED <<sidecar, opened, manifest, mem, requires_reopen, phase, attempted, promised>>
  BY DEF FlushSettles, job
<1>4. CASE AcknowledgesCurrent /\ acknowledged' = TRUE /\ Truncates
  <2>1. current' = current /\ floor' \in {floor, current} /\ floor'.content = current.content
    BY <1>1, <1>4, AcknowledgesCurrentIs
  <2> QED
    BY <1>1, <1>2, <1>3, <1>4, <2>1, TruncatesIs, EmptiedKeeps
<1>5. CASE UNCHANGED <<container, logv, framed, acknowledged>>
  <2>1. UNCHANGED <<files, handle, job, promised>>
    BY <1>3, <1>5 DEF files, handle, job
  <2> QED
    BY <2>1, Stands
<1> QED
  BY <1>4, <1>5 DEF FlushSettles

-----------------------------------------------------------------------------
(* Closing, crashing and opening. *)

\* The handle is gone; what is left is what a later open recovers.
LEMMA ClosedKeeps ==
    ASSUME Closed
    PROVE  /\ ~opened' /\ HandleInv' /\ LogInv'
           /\ TypeOK' <=> /\ current' \in [seq : Nat, content : ManifestType]
                          /\ floor' \in [seq : Nat, content : ManifestType]
                          /\ wal' \in LogType /\ wal_synced' \in 0 .. Len(wal')
                          /\ \A g \in wal_cleared' : g \in [log : LogType, acked : Nat] /\ g.acked <= Len(g.log)
           /\ View' = IF Replays(current'.content, wal') THEN Recovered(current'.content, wal') ELSE Refused
<1>1. /\ opened' = FALSE /\ manifest' = NoManifest /\ mem' = NoRows /\ framed' = FALSE /\ requires_reopen' = FALSE
      /\ acknowledged' = FALSE /\ phase' = "idle" /\ attempted' = NoManifest
  BY DEF Closed
<1>2. NoManifest \in ManifestType /\ NoRows \in Rows
  BY NoRowsIs DEF NoManifest, ManifestType
<1>3. HandleInv' /\ LogInv'
  BY <1>1 DEF HandleInv, LogInv, Usable
<1>4. View' = IF Replays(current'.content, wal') THEN Recovered(current'.content, wal') ELSE Refused
  BY <1>1 DEF View
<1>5. TypeOK' <=> /\ current' \in [seq : Nat, content : ManifestType]
                  /\ floor' \in [seq : Nat, content : ManifestType]
                  /\ wal' \in LogType /\ wal_synced' \in 0 .. Len(wal')
                  /\ \A g \in wal_cleared' : g \in [log : LogType, acked : Nat] /\ g.acked <= Len(g.log)
  BY <1>1, <1>2 DEF TypeOK
<1> QED
  BY <1>1, <1>3, <1>4, <1>5

LEMMA CloseKeeps ==
    ASSUME StoreAssumption, StoreInv, Close
    PROVE  StoreInv' /\ Answered
<1>1. TypeOK /\ FloorInv /\ HandleInv /\ LogInv /\ ClearedInv /\ SyncedInv /\ PromisedInv
  BY DEF StoreInv
<1>2. EnsureWriterUsable /\ mem = NoRows /\ Closed
  BY DEF Close
<1>3. /\ opened /\ Usable /\ manifest = current.content /\ Replayed(manifest, wal) = mem
      /\ ~framed => wal = <<>>
  BY <1>2, IdleFacts
<1>4. View = Shows(manifest, mem) /\ View \in Maps /\ View # Refused /\ View \in promised
  BY <1>1, <1>3, OpenShows
\* The log cleared in some way, or not at all, and the container acknowledged.
<1>5. CASE /\ AcknowledgesCurrent
           /\ Log!Clear \/ Log!ClearUnsynced \/ Log!Forget \/ UNCHANGED logv
           /\ (promised' = {View} /\ wal' = <<>>) \/ UNCHANGED promised
  <2>1. current' = current /\ floor' \in {floor, current} /\ floor'.content = current.content
    BY <1>2, <1>5, AcknowledgesCurrentIs
  <2>2. FloorInv' /\ floor' \in [seq : Nat, content : ManifestType]
    BY <1>1, <2>1, FloorRises
  <2>3. /\ wal' \in LogType /\ wal_synced' \in 0 .. Len(wal')
        /\ \A g \in wal_cleared' : g \in [log : LogType, acked : Nat] /\ g.acked <= Len(g.log)
        /\ ClearedInv' /\ SyncedInv'
        /\ \A log \in (Log!Lost)' : Recovered(manifest, log) = View
        /\ Recovered(manifest, wal') = View
    BY <1>2, <1>3, <1>5, <2>1, Emptied
  <2>4. TypeOK'
    BY <1>1, <1>2, <2>1, <2>2, <2>3, ClosedKeeps DEF TypeOK
  <2>5. View' \in {View, Refused} /\ (wal' = <<>> => View' = View)
    BY <1>2, <1>3, <2>1, <2>3, ClosedKeeps, EmptyLog
  <2>6. View \in promised'
    BY <1>4, <1>5
  <2>7. PromisedInv'
    BY <1>3, <2>1, <2>3, <2>5, <2>6 DEF PromisedInv
  <2>8. Answered
    BY <1>4, <1>5, <2>5 DEF Answered, Promise!Next, Promise!Acknowledge, Promise!Crash
  <2> QED
    BY <1>2, <2>2, <2>3, <2>4, <2>7, <2>8, ClosedKeeps DEF StoreInv
<1>6. CASE UNCHANGED <<files, promised>>
  <2>1. UNCHANGED <<current, floor, wal, wal_synced, wal_cleared, promised>>
    BY <1>6 DEF files, container, logv
  <2>2. TypeOK'
    BY <1>1, <1>2, <2>1, ClosedKeeps DEF TypeOK
  <2>3. FloorInv' /\ ClearedInv'
    BY <1>1, <2>1 DEF FloorInv, ClearedInv
  <2>4. SyncedInv'
    BY <1>1, <1>3, <2>1 DEF SyncedInv
  <2>5. View' \in {View, Refused}
    BY <1>2, <1>3, <1>4, <2>1, ClosedKeeps DEF Recovered
  <2>6. (Log!Lost)' = Log!Lost
    BY <2>1 DEF Log!Lost
  <2>7. PromisedInv'
    BY <1>1, <1>4, <2>1, <2>5, <2>6 DEF PromisedInv
  <2>8. Answered
    BY <1>4, <2>1, <2>5 DEF Answered, Promise!Next, Promise!Crash
  <2> QED
    BY <1>2, <2>2, <2>3, <2>4, <2>7, <2>8, ClosedKeeps DEF StoreInv
<1>7. CloseSettles => /\ AcknowledgesCurrent /\ Log!Clear /\ promised' = {View} /\ wal' = <<>>
  BY DEF CloseSettles, Log!Clear
<1>8. CloseFails => \/ /\ AcknowledgesCurrent /\ UNCHANGED promised
                       /\ Log!Clear \/ Log!ClearUnsynced \/ Log!Forget \/ UNCHANGED logv
                    \/ UNCHANGED <<files, promised>>
  BY DEF CloseFails
<1> QED
  BY <1>5, <1>6, <1>7, <1>8 DEF Close

LEMMA ProcessDeathKeeps ==
    ASSUME StoreAssumption, StoreInv, ProcessDeath
    PROVE  StoreInv' /\ Answered
<1>1. TypeOK /\ FloorInv /\ ClearedInv /\ SyncedInv /\ PromisedInv
  BY DEF StoreInv
<1>2. /\ opened /\ Closed /\ wal' \in Log!Cuts(wal, wal_synced)
      /\ UNCHANGED <<current, floor, wal_synced, wal_cleared, promised>>
  BY DEF ProcessDeath, Log!Forget, container
<1>3. /\ wal \in LogType /\ Len(wal) \in Nat /\ DOMAIN wal = 1 .. Len(wal)
      /\ wal_synced \in Nat /\ wal_synced <= Len(wal)
  BY <1>1, Contents
<1>4. /\ wal' \in LogType /\ Len(wal') \in wal_synced .. Len(wal) /\ DOMAIN wal' = 1 .. Len(wal')
      /\ \A i \in DOMAIN wal' : wal'[i] = wal[i]
  BY <1>2, <1>3, CutIs
<1>5. wal_synced \in 0 .. Len(wal') /\ \A i \in 1 .. wal_synced : i \in DOMAIN wal'
  BY <1>3, <1>4
<1>6. TypeOK'
  BY <1>1, <1>2, <1>4, <1>5, ClosedKeeps DEF TypeOK
<1>7. FloorInv' /\ ClearedInv'
  BY <1>1, <1>2 DEF FloorInv, ClearedInv
<1>8. SyncedInv'
  BY <1>1, <1>2, <1>4, <1>5 DEF SyncedInv
<1>9. ASSUME NEW log \in (Log!Lost)' PROVE log \in Log!Lost
  <2>1. log \in Log!Cuts(wal', wal_synced) \/ \E g \in wal_cleared : log \in Log!Cuts(g.log, g.acked)
    BY <1>2, <1>9, LostNext
  <2>2. log \in Log!Cuts(wal', wal_synced) => log \in Log!Cuts(wal, wal_synced)
    BY <1>2, <1>3, CutOfCut
  <2> QED
    BY <2>1, <2>2, LostIs
<1>10. View' \in promised \cup {Refused}
  <2>1. wal' \in Log!Lost
    BY <1>2, LostIs
  <2>2. Replays(current.content, wal') => Recovered(current.content, wal') \in promised
    BY <1>1, <2>1 DEF PromisedInv
  <2> QED
    BY <1>2, <2>2, ClosedKeeps
<1>11. PromisedInv'
  BY <1>1, <1>2, <1>9, <1>10 DEF PromisedInv
<1>12. Answered
  BY <1>2, <1>10 DEF Answered, Promise!Next, Promise!Crash
<1> QED
  BY <1>2, <1>6, <1>7, <1>8, <1>11, <1>12, ClosedKeeps DEF StoreInv

LEMMA PowerLossKeeps ==
    ASSUME StoreAssumption, StoreInv, PowerLoss
    PROVE  StoreInv' /\ Answered
<1>1. TypeOK /\ FloorInv /\ PromisedInv
  BY DEF StoreInv
<1>2. /\ Closed /\ current' \in {current, floor} /\ floor' = current'
      /\ wal' \in Log!Lost /\ wal_synced' = Len(wal') /\ wal_cleared' = {}
      /\ promised' = {View'}
  BY DEF PowerLoss, Container!PowerLoss, Log!Lose
<1>3. wal' \in LogType /\ Len(wal') \in Nat /\ DOMAIN wal' = 1 .. Len(wal') /\ \A i \in DOMAIN wal' : wal'[i].seq \in Nat
  <2>1. wal' \in LogType
    BY <1>1, <1>2, LostTypes
  <2> QED
    BY <2>1, LogRows
<1>4. /\ current' \in [seq : Nat, content : ManifestType] /\ current'.content \in {current.content, floor.content}
      /\ current'.content.next_seq \in Nat
  BY <1>1, <1>2, Contents DEF TypeOK
<1>5. TypeOK'
  <2>1. wal_synced' \in 0 .. Len(wal')
    BY <1>2, <1>3
  <2> QED
    BY <1>2, <1>3, <1>4, <2>1, ClosedKeeps
<1>6. FloorInv'
  BY <1>2 DEF FloorInv, SameView
<1>7. ClearedInv'
  BY <1>2 DEF ClearedInv
<1>8. SyncedInv'
  <2>1. ASSUME Replays(current'.content, wal'), NEW i \in 1 .. Len(wal')
        PROVE  wal'[i].seq <= current'.content.next_seq + 1
    BY <1>3, <1>4, <2>1 DEF Replays, Redundant, Pending
  <2>2. ~opened'
    BY <1>2, ClosedKeeps
  <2> QED
    BY <1>2, <2>1, <2>2 DEF SyncedInv
<1>9. View' \in promised \cup {Refused}
  BY <1>1, <1>2, <1>4, ClosedKeeps DEF PromisedInv
<1>10. ASSUME NEW log \in (Log!Lost)' PROVE log = wal'
  <2>1. log \in Log!Cuts(wal', Len(wal'))
    BY <1>2, <1>10, LostNext
  <2>2. Len(log) = Len(wal')
    BY <1>3, <2>1, CutIs
  <2> QED
    BY <1>3, <2>1, <2>2, WholeCut
<1>11. PromisedInv'
  <2>1. Replays(current'.content, wal') => Recovered(current'.content, wal') = View'
    BY <1>2, ClosedKeeps
  <2> QED
    BY <1>2, <1>10, <2>1 DEF PromisedInv
<1>12. Answered
  BY <1>2, <1>9 DEF Answered, Promise!Next, Promise!Crash
<1> QED
  BY <1>2, <1>5, <1>6, <1>7, <1>8, <1>11, <1>12, ClosedKeeps DEF StoreInv

LEMMA OpenKeeps ==
    ASSUME StoreAssumption, StoreInv, Open
    PROVE  StoreInv' /\ Answered
<1> DEFINE c == current.content
<1>1. TypeOK /\ FloorInv /\ HandleInv /\ ClearedInv /\ SyncedInv /\ PromisedInv
  BY DEF StoreInv
<1>2. /\ ~opened /\ Replays(c, wal) /\ opened' = TRUE /\ manifest' = c /\ mem' = Replayed(c, wal)
      /\ framed' = (wal # <<>>) /\ wal_cleared' \subseteq wal_cleared
      /\ UNCHANGED <<current, floor, wal, wal_synced, requires_reopen, acknowledged, phase, attempted, promised>>
  BY DEF Open, container, job
<1>3. ~requires_reopen /\ phase = "idle" /\ ~acknowledged
  BY <1>1, <1>2 DEF HandleInv
<1>4. /\ c \in ManifestType /\ c.next_seq \in Nat /\ wal \in LogType /\ \A i \in DOMAIN wal : wal[i].seq \in Nat
  BY <1>1, Contents
<1>5. mem' \in Rows
  BY <1>2, <1>4, LogRows
<1>6. TypeOK'
  BY <1>1, <1>2, <1>4, <1>5 DEF TypeOK
<1>7. FloorInv' /\ ClearedInv'
  BY <1>1, <1>2 DEF FloorInv, ClearedInv
<1>8. HandleInv'
  BY <1>2, <1>3, <1>4 DEF HandleInv, Usable
<1>9. LogInv'
  <2>1. \A i \in DOMAIN wal : wal[i].seq <= c.next_seq + 1
    BY <1>2, <1>4 DEF Replays, Redundant, Pending
  <2> QED
    BY <1>2, <2>1 DEF LogInv
<1>10. SyncedInv'
  BY <1>1, <1>2 DEF SyncedInv
<1>11. View' = View
  BY <1>2 DEF View, Recovered
<1>12. ASSUME NEW log \in (Log!Lost)' PROVE log \in Log!Lost
  BY <1>2, <1>12, LostNext, LostIs
<1>13. PromisedInv'
  BY <1>1, <1>2, <1>11, <1>12 DEF PromisedInv
<1> QED
  BY <1>2, <1>6, <1>7, <1>8, <1>9, <1>10, <1>11, <1>13 DEF StoreInv, Answered

-----------------------------------------------------------------------------
(* The theorems. *)

LEMMA StepKeeps ==
    ASSUME StoreAssumption, StoreInv, [Next]_vars
    PROVE  StoreInv' /\ Answered
<1>1. CASE UNCHANGED vars
  <2>1. UNCHANGED <<files, handle, job, promised>>
    BY <1>1 DEF vars
  <2> QED
    BY <2>1, Stands
<1>2. CASE Mutates
  BY <1>2, MutatesKeeps
<1>3. CASE Sync
  BY <1>3, SyncKeeps
<1>4. CASE Maintains
  <2>1. CASE FlushPublishes
    BY <2>1, FlushPublishesKeeps
  <2>2. CASE FinalBarrier
    BY <2>2, FinalBarrierKeeps
  <2>3. CASE FlushTruncates
    BY <2>3, FlushTruncatesKeeps
  <2>4. CASE FlushSettles
    BY <2>4, FlushSettlesKeeps
  <2>5. ASSUME NEW lo \in 1 .. MaxCommits, NEW len \in 1 .. MaxCommits, MergeRange(lo, len)
        PROVE  StoreInv' /\ Answered
    BY <2>5, MergeRangeKeeps
  <2> QED
    BY <1>4, <2>1, <2>2, <2>3, <2>4, <2>5 DEF Maintains
<1>5. CASE Close
  BY <1>5, CloseKeeps
<1>6. CASE ProcessDeath
  BY <1>6, ProcessDeathKeeps
<1>7. CASE PowerLoss
  BY <1>7, PowerLossKeeps
<1>8. CASE Open
  BY <1>8, OpenKeeps
<1> QED
  BY <1>1, <1>2, <1>3, <1>4, <1>5, <1>6, <1>7, <1>8 DEF Next

\* In every reachable state of the single writer, whatever fails and whenever
\* the process dies or the power goes, the store is as StoreInv says: its types,
\* what its handle knows of the container, what its log holds, and what a loss
\* may leave of both.
THEOREM StoreInductive == Spec => []StoreInv
<1> USE StoreAssumption
<1>1. Init => StoreInv
  BY InitialState
<1>2. StoreInv /\ [Next]_vars => StoreInv'
  BY StepKeeps
<1> QED
  BY <1>1, <1>2, PTL DEF Spec

\* Between the calls of a usable handle, the log's units beyond the manifest
\* leave exactly mem (store/mod.rs: append_group, flush, settle, replay): no
\* accepted mutation is missing from the log and no published one is left to be
\* applied a second time, after any failures and crashes.
THEOREM LogCovers == Spec => []LogCoversMem
<1>1. StoreInv => LogCoversMem
  BY DEF StoreInv, LogInv, LogCoversMem, Usable
<1> QED
  BY <1>1, StoreInductive, PTL

\* A synchronised log of the next publication's units opens after any power
\* loss: Store::sync makes the manifest durable before the frames that follow
\* it, so no loss leaves a frame behind a manifest it does not follow.
THEOREM SyncedOpensFresh == Spec => []SyncedReopensFresh
<1>1. ASSUME StoreInv, Settled, \A i \in DOMAIN wal : Pending(manifest, wal[i]), NEW l \in Losses
      PROVE  Replays(l.manifest, l.log)
  <2> DEFINE c == current.content
             f == floor.content
             m == l.manifest
  <2>1. TypeOK /\ FloorInv /\ HandleInv /\ SyncedInv
    BY <1>1 DEF StoreInv
  <2>2. opened /\ wal_synced = Len(wal) /\ wal_cleared = {}
    BY <1>1 DEF Settled
  <2>3. m \in {c, f} /\ l.log \in Log!Lost
    BY DEF Losses
  <2>4. /\ c.next_seq \in Nat /\ f.next_seq \in Nat /\ manifest.next_seq \in Nat
        /\ wal \in LogType /\ Len(wal) \in Nat /\ DOMAIN wal = 1 .. Len(wal)
    BY <2>1, Contents
  <2>5. l.log = wal
    <3>1. l.log \in Log!Cuts(wal, Len(wal))
      BY <2>2, <2>3, LostIs
    <3>2. Len(l.log) = Len(wal)
      BY <2>4, <3>1, CutIs
    <3> QED
      BY <2>4, <3>1, <3>2, WholeCut
  <2>6. manifest.next_seq = c.next_seq \/ manifest.next_seq + 1 = c.next_seq
    BY <2>1, <2>2 DEF HandleInv
  <2>7. f.next_seq = c.next_seq \/ f.next_seq + 1 = c.next_seq
    BY <2>1 DEF FloorInv
  <2>8. \A i \in DOMAIN wal : wal[i].seq = manifest.next_seq + 1 /\ wal[i].seq <= f.next_seq + 1
    BY <1>1, <2>1, <2>2, <2>4 DEF SyncedInv, Pending
  <2>9. \A i \in DOMAIN wal : m.next_seq = manifest.next_seq \/ m.next_seq = manifest.next_seq + 1
    BY <2>3, <2>4, <2>6, <2>7, <2>8
  <2>10. \A i \in DOMAIN wal : Redundant(m, wal[i]) \/ Pending(m, wal[i])
    BY <2>8, <2>9 DEF Redundant, Pending
  <2>11. ASSUME NEW i \in DOMAIN wal, NEW j \in DOMAIN wal, Pending(m, wal[i]) PROVE Pending(m, wal[j])
    BY <2>8, <2>11 DEF Pending
  <2> QED
    BY <2>5, <2>10, <2>11 DEF Replays
<1>2. StoreInv => SyncedReopensFresh
  BY <1>1 DEF SyncedReopensFresh, ReopensAfterLoss
<1> QED
  BY <1>2, StoreInductive, PTL

\* The store implements DurableMap: mutations change what callers see one whole
\* batch at a time; a crash takes it back to no earlier than the last sync,
\* flush or close, and never to a map it was not since; every flush, merge,
\* settlement and open leaves it alone.
THEOREM StoreRefinement == Spec => ImplementsDurableMap
<1> USE StoreAssumption
<1>1. Init => Promise!Init
  BY InitialState
<1>2. StoreInv /\ [Next]_vars => [Promise!Next]_<<View, promised>>
  BY StepKeeps DEF Answered
<1> QED
  BY <1>1, <1>2, StoreInductive, PTL DEF Spec, ImplementsDurableMap, Promise!Spec

=============================================================================
