--------------------------- MODULE RecordsProofs ----------------------------
(***************************************************************************)
(* Facts about the operators of Records, whatever the ids and values: what *)
(* the newest row of an id is, that a flush and a merge change nothing a   *)
(* reader sees, and what a log leaves in mem.                              *)
(***************************************************************************)
EXTENDS Records, SequenceTheorems, WellFoundedInduction, TLAPS

-----------------------------------------------------------------------------
(* Rows. *)

\* A set of places has a last one.
LEMMA LastPlace ==
    ASSUME NEW n \in Nat, NEW S \in SUBSET (1 .. n), S # {}
    PROVE  \E i \in S : \A j \in S : j <= i
<1> DEFINE T == {n - i : i \in S}
           less == {p \in Nat \X Nat : p[1] < p[2]}
<1>1. T \subseteq Nat
  OBVIOUS
<1>2. T # {}
  OBVIOUS
<1> HIDE DEF T
<1>6. OpToRel(<, Nat) = less
  BY Zenon DEF OpToRel
<1>7. IsWellFoundedOn(less, Nat)
  BY <1>6, NatLessThanWellFounded
<1> HIDE DEF less
<1>8. PICK t \in T : \A u \in T : ~(<<u, t>> \in less)
  BY <1>1, <1>2, <1>7, WFMin
<1>3. ASSUME NEW u \in T PROVE t <= u
  <2>1. t \in Nat /\ u \in Nat /\ <<u, t>> \notin less
    BY <1>1, <1>8
  <2>2. u < t => <<u, t>> \in less
    BY <2>1 DEF less
  <2> QED
    BY <2>1, <2>2
<1> USE DEF T
<1>4. PICK i \in S : t = n - i
  OBVIOUS
<1>5. ASSUME NEW j \in S PROVE j <= i
  <2>1. n - j \in T
    OBVIOUS
  <2>2. t <= n - j
    BY <1>3, <2>1
  <2> QED
    BY <1>4, <2>2
<1> QED
  BY <1>5

LEMMA NewestIs ==
    ASSUME NEW s, NEW ps \in SUBSET Nat, NEW id, NEW i \in ps,
           id \in DOMAIN s[i].rows, \A j \in ps : id \in DOMAIN s[j].rows => j <= i
    PROVE  id \in DOMAIN Newest(s, ps) /\ Newest(s, ps)[id] = s[i].rows[id]
<1> DEFINE H == {j \in ps : id \in DOMAIN s[j].rows}
<1>1. i \in H /\ \A j \in H : j \in Nat /\ i >= j
  OBVIOUS
<1>2. id \in UNION {DOMAIN s[j].rows : j \in ps}
  OBVIOUS
<1>3. id \in DOMAIN Newest(s, ps) /\ Newest(s, ps)[id] = s[Max(H)].rows[id]
  BY <1>2 DEF Newest
<1> HIDE DEF H
<1>4. Max(H) \in H /\ \A j \in H : Max(H) >= j
  BY <1>1 DEF Max
<1>5. ASSUME NEW m \in H, \A j \in H : m >= j PROVE m = i
  <2>1. m \in Nat /\ i \in Nat /\ i >= m /\ m >= i
    BY <1>1, <1>5
  <2> QED
    BY <2>1
<1>6. Max(H) = i
  BY <1>4, <1>5
<1> QED
  BY <1>3, <1>6

LEMMA NewestHas ==
    ASSUME NEW s, NEW n \in Nat, NEW ps \in SUBSET (1 .. n), NEW id \in DOMAIN Newest(s, ps)
    PROVE  \E i \in ps : /\ id \in DOMAIN s[i].rows /\ Newest(s, ps)[id] = s[i].rows[id]
                         /\ \A j \in ps : id \in DOMAIN s[j].rows => j <= i
<1> DEFINE H == {j \in ps : id \in DOMAIN s[j].rows}
<1>1. H # {} /\ H \in SUBSET (1 .. n)
  BY DEF Newest
<1>2. PICK i \in H : \A j \in H : j <= i
  <2> HIDE DEF H
  <2> QED
    BY <1>1, LastPlace
<1>3. i \in ps /\ id \in DOMAIN s[i].rows /\ \A j \in ps : id \in DOMAIN s[j].rows => j <= i
  BY <1>2
<1>4. ps \in SUBSET Nat
  OBVIOUS
<1>5. Newest(s, ps)[id] = s[i].rows[id]
  BY <1>3, <1>4, NewestIs
<1> QED
  BY <1>3, <1>5

LEMMA NewestDomain ==
    ASSUME NEW s, NEW ps, NEW id
    PROVE  id \in DOMAIN Newest(s, ps) <=> \E i \in ps : id \in DOMAIN s[i].rows
BY DEF Newest

LEMMA RowsAre ==
    ASSUME NEW f
    PROVE  f \in Rows <=> /\ f = [x \in DOMAIN f |-> f[x]] /\ DOMAIN f \subseteq Ids
                          /\ \A x \in DOMAIN f : f[x] \in Values \cup {Deleted}
<1>1. ASSUME f \in Rows
      PROVE  /\ f = [x \in DOMAIN f |-> f[x]] /\ DOMAIN f \subseteq Ids
             /\ \A x \in DOMAIN f : f[x] \in Values \cup {Deleted}
  <2>1. PICK ids \in SUBSET Ids : f \in [ids -> Values \cup {Deleted}]
    BY <1>1 DEF Rows
  <2> QED
    BY <2>1
<1>2. ASSUME f = [x \in DOMAIN f |-> f[x]], DOMAIN f \subseteq Ids,
             \A x \in DOMAIN f : f[x] \in Values \cup {Deleted}
      PROVE  f \in Rows
  <2>1. f \in [DOMAIN f -> Values \cup {Deleted}]
    BY <1>2
  <2> QED
    BY <1>2, <2>1 DEF Rows
<1> QED
  BY <1>1, <1>2

LEMMA RowsEqual ==
    ASSUME NEW f \in Rows, NEW g \in Rows, DOMAIN f = DOMAIN g, \A x \in DOMAIN f : f[x] = g[x]
    PROVE  f = g
<1>1. f = [x \in DOMAIN f |-> f[x]] /\ g = [x \in DOMAIN g |-> g[x]]
  BY RowsAre
<1>2. [x \in DOMAIN f |-> f[x]] = [x \in DOMAIN g |-> g[x]]
  OBVIOUS
<1> QED
  BY <1>1, <1>2

LEMMA NoRowsIs == NoRows \in Rows /\ DOMAIN NoRows = {} /\ \A f \in Rows : DOMAIN f = {} => f = NoRows
<1>1. DOMAIN NoRows = {} /\ NoRows = [x \in DOMAIN NoRows |-> NoRows[x]]
  BY DEF NoRows
<1>2. NoRows \in Rows
  BY <1>1, RowsAre
<1> QED
  BY <1>1, <1>2, RowsEqual

LEMMA NewestType ==
    ASSUME NEW s, NEW n \in Nat, NEW ps \in SUBSET (1 .. n), \A i \in ps : s[i].rows \in Rows
    PROVE  Newest(s, ps) \in Rows
<1> DEFINE f == Newest(s, ps)
<1>1. f = [x \in DOMAIN f |-> f[x]]
  BY DEF Newest
<1>3. ASSUME NEW id \in DOMAIN f
      PROVE  \E i \in ps : id \in DOMAIN s[i].rows /\ f[id] = s[i].rows[id]
  <2>1. id \in DOMAIN Newest(s, ps)
    OBVIOUS
  <2>2. \E i \in ps : /\ id \in DOMAIN s[i].rows /\ Newest(s, ps)[id] = s[i].rows[id]
                      /\ \A j \in ps : id \in DOMAIN s[j].rows => j <= i
    BY ZenonT(60), <2>1, NewestHas
  <2> QED
    BY <2>2
<1> HIDE DEF f
<1>2. ASSUME NEW id \in DOMAIN f PROVE id \in Ids /\ f[id] \in Values \cup {Deleted}
  <2>1. PICK i \in ps : id \in DOMAIN s[i].rows /\ f[id] = s[i].rows[id]
    BY <1>2, <1>3
  <2> QED
    BY <2>1, RowsAre
<1> QED
  BY <1>1, <1>2, RowsAre DEF f

LEMMA OverIs ==
    ASSUME NEW f \in Rows, NEW g \in Rows
    PROVE  /\ Over(f, g) \in Rows /\ DOMAIN Over(f, g) = DOMAIN f \cup DOMAIN g
           /\ \A id \in DOMAIN g : Over(f, g)[id] = g[id]
           /\ \A id \in DOMAIN f : id \notin DOMAIN g => Over(f, g)[id] = f[id]
<1>1. /\ DOMAIN Over(f, g) = DOMAIN f \cup DOMAIN g
      /\ \A id \in DOMAIN g : Over(f, g)[id] = g[id]
      /\ \A id \in DOMAIN f : id \notin DOMAIN g => Over(f, g)[id] = f[id]
      /\ Over(f, g) = [x \in DOMAIN Over(f, g) |-> Over(f, g)[x]]
  BY DEF Over
<1>2. \A id \in DOMAIN Over(f, g) : id \in Ids /\ Over(f, g)[id] \in Values \cup {Deleted}
  BY <1>1, RowsAre
<1> QED
  BY <1>1, <1>2, RowsAre

LEMMA OverNone ==
    ASSUME NEW f \in Rows
    PROVE  Over(f, NoRows) = f /\ Over(NoRows, f) = f
<1>1. /\ Over(f, NoRows) \in Rows /\ DOMAIN Over(f, NoRows) = DOMAIN f
      /\ \A id \in DOMAIN f : Over(f, NoRows)[id] = f[id]
  BY NoRowsIs, OverIs
<1>2. /\ Over(NoRows, f) \in Rows /\ DOMAIN Over(NoRows, f) = DOMAIN f
      /\ \A id \in DOMAIN f : Over(NoRows, f)[id] = f[id]
  BY NoRowsIs, OverIs
<1> QED
  BY <1>1, <1>2, RowsEqual

\* A sequence with one more place, of which the rows are looked at or not.
LEMMA NewestAppend ==
    ASSUME NEW T, NEW s \in Seq(T), NEW x \in T, \A y \in T : y.rows \in Rows,
           NEW ps \in SUBSET (1 .. Len(s))
    PROVE  /\ Newest(Append(s, x), ps) = Newest(s, ps)
           /\ Newest(Append(s, x), ps \cup {Len(s) + 1}) = Over(Newest(s, ps), x.rows)
<1> DEFINE n == Len(s)
           a == Append(s, x)
           qs == ps \cup {n + 1}
<1>1. n \in Nat /\ a[n + 1] = x /\ \A i \in 1 .. n : a[i] = s[i] /\ s[i] \in T
  OBVIOUS
<1>2. ps \in SUBSET (1 .. n) /\ ps \in SUBSET Nat
  OBVIOUS
<1>3. n + 1 \in Nat /\ qs \in SUBSET (1 .. n + 1) /\ qs \in SUBSET Nat
      /\ \A j \in qs : (j \in ps \/ j = n + 1) /\ j <= n + 1
  <2>1. n \in Nat
    BY <1>1
  <2> HIDE DEF n, a
  <2>2. \A j \in qs : (j \in ps \/ j = n + 1) /\ j \in 1 .. n + 1
    BY <1>2, <2>1
  <2> HIDE DEF qs
  <2>3. n + 1 \in Nat /\ \A j \in qs : j \in Nat /\ j <= n + 1
    BY <2>1, <2>2
  <2> QED
    BY <2>2, <2>3
<1>4. n + 1 \in qs /\ ps \subseteq qs
  OBVIOUS
<1> HIDE DEF n, a, qs
<1>5. \A i \in ps : a[i].rows = s[i].rows /\ s[i].rows \in Rows
  BY <1>1, <1>2
<1>6. x.rows \in Rows /\ \A j \in qs : a[j].rows \in Rows
  BY <1>1, <1>3, <1>5
<1>7. Newest(a, ps) \in Rows /\ Newest(s, ps) \in Rows
  BY <1>1, <1>2, <1>5, NewestType
<1>8. Newest(a, qs) \in Rows
  BY <1>3, <1>6, NewestType
<1>9. ASSUME NEW id \in DOMAIN Newest(s, ps)
      PROVE  \E i \in ps : /\ id \in DOMAIN s[i].rows /\ Newest(s, ps)[id] = s[i].rows[id]
                           /\ \A j \in ps : id \in DOMAIN s[j].rows => j <= i
  <2>1. n \in Nat /\ ps \in SUBSET (1 .. n)
    BY <1>1, <1>2
  <2> QED
    BY ZenonT(60), <2>1, <1>9, NewestHas
<1>10. Newest(a, ps) = Newest(s, ps)
  <2>1. ASSUME NEW id PROVE id \in DOMAIN Newest(a, ps) <=> id \in DOMAIN Newest(s, ps)
    <3>1. id \in DOMAIN Newest(a, ps) <=> \E i \in ps : id \in DOMAIN a[i].rows
      BY NewestDomain
    <3>2. id \in DOMAIN Newest(s, ps) <=> \E i \in ps : id \in DOMAIN s[i].rows
      BY NewestDomain
    <3> QED
      BY <1>5, <3>1, <3>2
  <2>2. ASSUME NEW id \in DOMAIN Newest(s, ps) PROVE Newest(a, ps)[id] = Newest(s, ps)[id]
    <3>1. PICK i \in ps : /\ id \in DOMAIN s[i].rows /\ Newest(s, ps)[id] = s[i].rows[id]
                          /\ \A j \in ps : id \in DOMAIN s[j].rows => j <= i
      BY <1>9
    <3>2. id \in DOMAIN a[i].rows /\ \A j \in ps : id \in DOMAIN a[j].rows => j <= i
      BY <1>5, <3>1
    <3>3. Newest(a, ps)[id] = a[i].rows[id]
      BY <1>2, <3>2, NewestIs
    <3> QED
      BY <1>5, <3>1, <3>3
  <2>3. DOMAIN Newest(a, ps) = DOMAIN Newest(s, ps)
    BY <2>1
  <2> QED
    BY <1>7, <2>2, <2>3, RowsEqual
<1>11. Newest(a, qs) = Over(Newest(s, ps), x.rows)
  <2> DEFINE l == Newest(a, qs)
             r == Over(Newest(s, ps), x.rows)
  <2>1. /\ r \in Rows /\ DOMAIN r = DOMAIN Newest(s, ps) \cup DOMAIN x.rows
        /\ \A id \in DOMAIN x.rows : r[id] = x.rows[id]
        /\ \A id \in DOMAIN Newest(s, ps) : id \notin DOMAIN x.rows => r[id] = Newest(s, ps)[id]
    BY <1>6, <1>7, OverIs
  <2>2. \A id : id \in DOMAIN l <=> \E j \in qs : id \in DOMAIN a[j].rows
    BY NewestDomain
  <2>3. \A id : id \in DOMAIN Newest(s, ps) <=> \E j \in ps : id \in DOMAIN s[j].rows
    BY NewestDomain
  <2>4. ASSUME NEW id \in DOMAIN x.rows PROVE l[id] = x.rows[id]
    <3>1. id \in DOMAIN a[n + 1].rows /\ \A j \in qs : id \in DOMAIN a[j].rows => j <= n + 1
      BY <1>1, <1>3
    <3>2. l[id] = a[n + 1].rows[id]
      BY <1>3, <1>4, <3>1, NewestIs
    <3> QED
      BY <1>1, <3>2
  <2>5. ASSUME NEW id \in DOMAIN Newest(s, ps), id \notin DOMAIN x.rows PROVE l[id] = Newest(s, ps)[id]
    <3>1. PICK i \in ps : /\ id \in DOMAIN s[i].rows /\ Newest(s, ps)[id] = s[i].rows[id]
                          /\ \A j \in ps : id \in DOMAIN s[j].rows => j <= i
      BY <1>9
    <3>2. i \in qs /\ id \in DOMAIN a[i].rows /\ \A j \in qs : id \in DOMAIN a[j].rows => j <= i
      BY <1>1, <1>3, <1>4, <1>5, <2>5, <3>1
    <3>3. l[id] = a[i].rows[id]
      BY <1>3, <3>2, NewestIs
    <3> QED
      BY <1>5, <3>1, <3>3
  <2> HIDE DEF l, r
  <2>6. \A id : id \in DOMAIN l <=> id \in DOMAIN r
    BY <1>1, <1>3, <1>4, <1>5, <2>1, <2>2, <2>3
  <2>7. l \in Rows /\ DOMAIN l = DOMAIN r
    BY <1>8, <2>6 DEF l
  <2>8. \A id \in DOMAIN l : l[id] = r[id]
    BY <2>1, <2>4, <2>5, <2>7
  <2>9. l = r
    BY <2>1, <2>7, <2>8, RowsEqual
  <2> QED
    BY <2>9 DEF l, r
<1> QED
  BY <1>10, <1>11 DEF n, a, qs

LEMMA NewestNone ==
    ASSUME NEW s, NEW n \in Nat, NEW ps \in SUBSET (1 .. n), \A i \in ps : s[i].rows \in Rows
    PROVE  /\ Newest(s, {}) = NoRows
           /\ (\A i \in ps : s[i].rows # NoRows) /\ Newest(s, ps) = NoRows => ps = {}
<1>1. Newest(s, {}) = NoRows
  <2>1. Newest(s, {}) \in Rows
    BY NewestType
  <2>2. DOMAIN Newest(s, {}) = {}
    BY DEF Newest
  <2> QED
    BY <2>1, <2>2, NoRowsIs
<1>2. ASSUME NEW i \in ps, s[i].rows # NoRows PROVE Newest(s, ps) # NoRows
  <2>1. PICK id : id \in DOMAIN s[i].rows
    BY <1>2, NoRowsIs
  <2> QED
    BY <2>1, NewestDomain, NoRowsIs
<1> QED
  BY <1>1, <1>2

-----------------------------------------------------------------------------
(* What is shown. *)

LEMMA ShownIs ==
    ASSUME NEW f \in Rows
    PROVE  /\ Shown(f) \in Maps
           /\ \A id \in Ids : Shown(f)[id] = IF id \notin DOMAIN f \/ f[id] = Deleted THEN Absent ELSE f[id]
<1>1. \A id \in DOMAIN f : f[id] \in Values \cup {Deleted}
  BY RowsAre
<1> QED
  BY <1>1 DEF Shown, Maps

\* Rows that agree but for tombstones show the same, whatever is staged over them.
LEMMA SameShown ==
    ASSUME NEW a \in Rows, NEW b \in Rows, NEW f \in Rows,
           \A id \in Ids : Shown(a)[id] = Shown(b)[id]
    PROVE  Shown(Over(a, f)) = Shown(Over(b, f))
<1> DEFINE oa == Over(a, f)
           ob == Over(b, f)
<1>1. /\ oa \in Rows /\ DOMAIN oa = DOMAIN a \cup DOMAIN f
      /\ \A id \in DOMAIN f : oa[id] = f[id]
      /\ \A id \in DOMAIN a : id \notin DOMAIN f => oa[id] = a[id]
  BY OverIs
<1>2. /\ ob \in Rows /\ DOMAIN ob = DOMAIN b \cup DOMAIN f
      /\ \A id \in DOMAIN f : ob[id] = f[id]
      /\ \A id \in DOMAIN b : id \notin DOMAIN f => ob[id] = b[id]
  BY OverIs
<1> HIDE DEF oa, ob
<1>3. ASSUME NEW id \in Ids
      PROVE  (IF id \notin DOMAIN oa \/ oa[id] = Deleted THEN Absent ELSE oa[id])
               = (IF id \notin DOMAIN ob \/ ob[id] = Deleted THEN Absent ELSE ob[id])
  <2>1. (IF id \notin DOMAIN a \/ a[id] = Deleted THEN Absent ELSE a[id])
          = (IF id \notin DOMAIN b \/ b[id] = Deleted THEN Absent ELSE b[id])
    <3>1. Shown(a)[id] = Shown(b)[id]
      OBVIOUS
    <3>2. Shown(a)[id] = IF id \notin DOMAIN a \/ a[id] = Deleted THEN Absent ELSE a[id]
      BY ShownIs
    <3>3. Shown(b)[id] = IF id \notin DOMAIN b \/ b[id] = Deleted THEN Absent ELSE b[id]
      BY ShownIs
    <3> QED
      BY <3>1, <3>2, <3>3
  <2>2. CASE id \in DOMAIN f
    BY <1>1, <1>2, <2>2
  <2>3. CASE id \notin DOMAIN f
    <3>1. (id \in DOMAIN oa <=> id \in DOMAIN a) /\ (id \in DOMAIN ob <=> id \in DOMAIN b)
      BY <1>1, <1>2, <2>3
    <3>2. (id \in DOMAIN a => oa[id] = a[id]) /\ (id \in DOMAIN b => ob[id] = b[id])
      BY <1>1, <1>2, <2>3
    <3> QED
      BY <2>1, <3>1, <3>2
  <2> QED
    BY <2>2, <2>3
<1>4. Shown(oa) = Shown(ob)
  BY <1>3 DEF Shown
<1> QED
  BY <1>4 DEF oa, ob

-----------------------------------------------------------------------------
(* Parts: the last one with a row of an id, at every flush and merge. *)

LastWith(parts, id, i) ==
    /\ i \in DOMAIN parts /\ id \in DOMAIN parts[i].rows
    /\ \A j \in DOMAIN parts : id \in DOMAIN parts[j].rows => j <= i

LEMMA PartRows ==
    ASSUME NEW T, NEW P \in Seq(T), \A y \in T : y.rows \in Rows
    PROVE  /\ NewestRows(P) \in Rows /\ Len(P) \in Nat /\ DOMAIN P = 1 .. Len(P)
           /\ \A i \in 1 .. Len(P) : P[i] \in T /\ P[i].rows \in Rows
<1>1. Len(P) \in Nat /\ DOMAIN P = 1 .. Len(P) /\ \A i \in 1 .. Len(P) : P[i] \in T
  OBVIOUS
<1>2. Newest(P, 1 .. Len(P)) \in Rows
  BY <1>1, NewestType
<1> QED
  BY <1>1, <1>2 DEF NewestRows

LEMMA LastIs ==
    ASSUME NEW T, NEW P \in Seq(T), \A y \in T : y.rows \in Rows, NEW id
    PROVE  /\ id \in DOMAIN NewestRows(P) <=> \E i \in DOMAIN P : LastWith(P, id, i)
           /\ \A i : LastWith(P, id, i) => id \in DOMAIN NewestRows(P) /\ NewestRows(P)[id] = P[i].rows[id]
<1>1. Len(P) \in Nat /\ DOMAIN P = 1 .. Len(P) /\ DOMAIN P \in SUBSET Nat
  OBVIOUS
<1>2. ASSUME id \in DOMAIN NewestRows(P) PROVE \E i \in DOMAIN P : LastWith(P, id, i)
  <2> DEFINE ps == DOMAIN P
  <2>1. ps \in SUBSET (1 .. Len(P)) /\ id \in DOMAIN Newest(P, ps) /\ Len(P) \in Nat
    BY <1>1, <1>2 DEF NewestRows
  <2> HIDE DEF ps
  <2>2. PICK i \in ps : /\ id \in DOMAIN P[i].rows
                        /\ \A j \in ps : id \in DOMAIN P[j].rows => j <= i
    BY <2>1, NewestHas
  <2> QED
    BY <2>2 DEF LastWith, ps
<1>3. ASSUME NEW i, LastWith(P, id, i)
      PROVE  id \in DOMAIN NewestRows(P) /\ NewestRows(P)[id] = P[i].rows[id]
  <2> DEFINE ps == DOMAIN P
  <2>1. /\ ps \in SUBSET Nat /\ i \in ps /\ id \in DOMAIN P[i].rows
        /\ \A j \in ps : id \in DOMAIN P[j].rows => j <= i
    BY <1>1, <1>3 DEF LastWith
  <2> HIDE DEF ps
  <2>2. id \in DOMAIN Newest(P, ps) /\ Newest(P, ps)[id] = P[i].rows[id]
    BY <2>1, NewestIs
  <2> QED
    BY <2>2 DEF NewestRows, ps
<1> QED
  BY <1>2, <1>3

\* A flushed part is the last one with any row it has.
LEMMA FlushedRows ==
    ASSUME NEW T, NEW P \in Seq(T), NEW x \in T, \A y \in T : y.rows \in Rows
    PROVE  /\ NewestRows(Append(P, x)) = Over(NewestRows(P), x.rows)
           /\ Append(P, x) \in Seq(T)
<1> DEFINE n == Len(P)
<1>1. /\ n \in Nat /\ DOMAIN P = 1 .. n /\ DOMAIN Append(P, x) = 1 .. n + 1 /\ 1 .. n + 1 = (1 .. n) \cup {n + 1}
      /\ 1 .. n \in SUBSET (1 .. Len(P))
  OBVIOUS
<1>2. Newest(Append(P, x), (1 .. n) \cup {Len(P) + 1}) = Over(Newest(P, 1 .. n), x.rows)
  <2> DEFINE ps == 1 .. n
  <2>1. ps \in SUBSET (1 .. Len(P))
    OBVIOUS
  <2> HIDE DEF ps, n
  <2>2. Newest(Append(P, x), ps \cup {Len(P) + 1}) = Over(Newest(P, ps), x.rows)
    BY <2>1, NewestAppend
  <2> QED
    BY <2>2 DEF ps
<1>3. (1 .. n) \cup {Len(P) + 1} = DOMAIN Append(P, x) /\ 1 .. n = DOMAIN P
  BY <1>1
<1>4. Append(P, x) \in Seq(T)
  OBVIOUS
<1> QED
  BY <1>2, <1>3, <1>4 DEF NewestRows

LEMMA MergedType ==
    ASSUME NEW T, NEW P \in Seq(T), \A y \in T : y.rows \in Rows,
           NEW lo \in Nat \ {0}, NEW len \in Nat \ {0, 1}, lo + len - 1 <= Len(P)
    PROVE  MergedRows(P, lo, len) \in Rows
<1> DEFINE rs   == lo .. lo + len - 1
           rows == Newest(P, rs)
           left == MergedRows(P, lo, len)
<1>1. Len(P) \in Nat /\ rs \in SUBSET (1 .. Len(P)) /\ \A i \in 1 .. Len(P) : P[i].rows \in Rows
  <2>1. \A i \in rs : i \in 1 .. Len(P)
    OBVIOUS
  <2> QED
    BY <2>1
<1>2. left = [id \in DOMAIN left |-> left[id]] /\ DOMAIN left \subseteq DOMAIN rows /\ \A id \in DOMAIN left : left[id] = rows[id]
  BY DEF MergedRows
<1> HIDE DEF rs, left
<1>3. rows \in Rows
  BY <1>1, NewestType
<1> HIDE DEF rows
<1>4. left \in Rows
  BY <1>2, <1>3, RowsAre
<1> QED
  BY <1>4 DEF left

\* A run of a sequence replaced by one element.
IsSpliced(S, P, x, lo, len) ==
    /\ DOMAIN S = 1 .. Len(P) - len + 1 /\ S[lo] = x
    /\ \A i \in 1 .. lo - 1 : S[i] = P[i]
    /\ \A i \in lo + 1 .. Len(P) - len + 1 : S[i] = P[i + len - 1]

LEMMA Splice ==
    ASSUME NEW T, NEW P \in Seq(T), NEW x \in T, NEW lo \in Nat \ {0}, NEW len \in Nat \ {0},
           lo + len - 1 <= Len(P)
    PROVE  /\ Spliced(P, x, lo, len) \in Seq(T)
           /\ IsSpliced(Spliced(P, x, lo, len), P, x, lo, len)
<1> DEFINE A == SubSeq(P, 1, lo - 1)
           B == SubSeq(P, lo + len, Len(P))
           X == <<x>>
           L == A \o X
<1>1. Len(P) \in Nat /\ \A i \in 1 .. Len(P) : P[i] \in T
  OBVIOUS
<1>2. A \in Seq(T) /\ Len(A) = lo - 1 /\ \A i \in 1 .. lo - 1 : A[i] = P[i]
  <2>1. \A i \in 1 .. lo - 1 : P[i] \in T
    BY <1>1
  <2>2. 1 \in Int /\ lo - 1 \in Int
    OBVIOUS
  <2>3. /\ A \in Seq(T) /\ Len(A) = IF 1 <= lo - 1 THEN lo - 1 - 1 + 1 ELSE 0
        /\ \A i \in 1 .. lo - 1 - 1 + 1 : A[i] = P[1 + i - 1]
    BY <2>1, <2>2, SubSeqProperties
  <2> QED
    BY <2>3
<1>3. B \in Seq(T) /\ Len(B) = Len(P) - lo - len + 1 /\ \A i \in 1 .. Len(P) - lo - len + 1 : B[i] = P[lo + len + i - 1]
  <2>1. \A i \in lo + len .. Len(P) : P[i] \in T
    BY <1>1
  <2>2. lo + len \in Int /\ Len(P) \in Int
    BY <1>1
  <2>3. /\ B \in Seq(T) /\ Len(B) = IF lo + len <= Len(P) THEN Len(P) - (lo + len) + 1 ELSE 0
        /\ \A i \in 1 .. Len(P) - (lo + len) + 1 : B[i] = P[lo + len + i - 1]
    BY <2>1, <2>2, SubSeqProperties
  <2> QED
    BY <1>1, <2>3
<1>4. X \in Seq(T) /\ Len(X) = 1 /\ X[1] = x
  OBVIOUS
<1> HIDE DEF A, B, X
<1>5. L \in Seq(T) /\ Len(L) = lo /\ L[lo] = x /\ \A i \in 1 .. lo - 1 : L[i] = P[i]
  <2>1. /\ L \in Seq(T) /\ Len(L) = Len(A) + Len(X)
        /\ \A i \in 1 .. Len(A) + Len(X) : L[i] = IF i <= Len(A) THEN A[i] ELSE X[i - Len(A)]
    BY <1>2, <1>4, ConcatProperties
  <2> QED
    BY <1>2, <1>4, <2>1
<1>9. Spliced(P, x, lo, len) = L \o B
  BY DEF L, A, B, X, Spliced
<1> HIDE DEF L
<1> DEFINE Q == L \o B
<1>6. /\ Q \in Seq(T) /\ Len(Q) = Len(L) + Len(B)
      /\ \A i \in 1 .. Len(L) + Len(B) : Q[i] = IF i <= Len(L) THEN L[i] ELSE B[i - Len(L)]
  BY <1>3, <1>5, ConcatProperties
<1> HIDE DEF Q
<1>7. Len(Q) = Len(P) - len + 1 /\ Q[lo] = x /\ \A i \in 1 .. lo - 1 : Q[i] = P[i]
  BY <1>1, <1>3, <1>5, <1>6
<1>8. ASSUME NEW i \in lo + 1 .. Len(Q) PROVE Q[i] = P[i + len - 1]
  <2>1. i - lo \in 1 .. Len(P) - lo - len + 1 /\ lo + len + (i - lo) - 1 = i + len - 1
    BY <1>1, <1>7
  <2>2. Q[i] = B[i - lo]
    BY <1>3, <1>5, <1>6
  <2> QED
    BY <1>3, <2>1, <2>2
<1> QED
  <2>1. DOMAIN Q = 1 .. Len(Q)
    BY <1>6, LenProperties
  <2>2. DOMAIN Q = 1 .. Len(P) - len + 1
    BY <1>7, <2>1
  <2>3. \A i \in lo + 1 .. Len(P) - len + 1 : Q[i] = P[i + len - 1]
    BY <1>7, <1>8
  <2>4. Spliced(P, x, lo, len) = Q
    BY <1>9 DEF Q
  <2>5. IsSpliced(Q, P, x, lo, len)
    BY <1>7, <2>2, <2>3 DEF IsSpliced
  <2> QED
    BY <1>6, <2>4, <2>5

\* Where a row decides after a merge: in the same part as before, moved if it
\* lay behind the run, or in the merged one; or it was a tombstone, and is gone.
LEMMA MergedLast ==
    ASSUME NEW T, NEW P \in Seq(T), \A y \in T : y.rows \in Rows,
           NEW lo \in Nat \ {0}, NEW len \in Nat \ {0, 1}, lo + len - 1 <= Len(P),
           NEW x \in T, x.rows = MergedRows(P, lo, len), NEW Q, Q = Spliced(P, x, lo, len),
           NEW id, NEW i, LastWith(P, id, i)
    PROVE  \/ i < lo /\ LastWith(Q, id, i) /\ Q[i] = P[i]
           \/ lo <= i /\ i <= lo + len - 1 /\ LastWith(Q, id, lo) /\ Q[lo] = x /\ x.rows[id] = P[i].rows[id]
           \/ i > lo + len - 1 /\ LastWith(Q, id, i - len + 1) /\ Q[i - len + 1] = P[i]
           \/ P[i].rows[id] = Deleted /\ id \notin DOMAIN NewestRows(Q)
<1> DEFINE n     == Len(P)
           hi    == lo + len - 1
           rs    == lo .. hi
           rows  == Newest(P, rs)
           total == lo = 1 /\ len = n
           kept  == {a \in DOMAIN rows : total => rows[a] # Deleted}
           qs    == 1 .. n - len + 1
<1>1. /\ n \in Nat /\ DOMAIN P = 1 .. n /\ i \in 1 .. n /\ id \in DOMAIN P[i].rows
      /\ \A j \in 1 .. n : id \in DOMAIN P[j].rows => j <= i
  BY DEF LastWith
<1>2. /\ Q \in Seq(T) /\ DOMAIN Q = qs /\ Q[lo] = x
      /\ \A k \in 1 .. lo - 1 : Q[k] = P[k]
      /\ \A k \in lo + 1 .. n - len + 1 : Q[k] = P[k + len - 1]
  <2>1. len \in Nat \ {0}
    OBVIOUS
  <2>2. Q \in Seq(T) /\ IsSpliced(Q, P, x, lo, len)
    BY <2>1, Splice
  <2> QED
    BY <2>2 DEF IsSpliced
<1>3. x.rows = [a \in kept |-> rows[a]]
  BY DEF MergedRows
<1>4. DOMAIN x.rows = kept /\ \A a \in kept : x.rows[a] = rows[a]
  BY <1>3
<1>5. rs \in SUBSET Nat /\ lo \in Nat /\ len \in Nat /\ len >= 2 /\ hi = lo + len - 1 /\ hi <= n /\ hi \in Nat
  BY <1>1
<1>6. \A k : k \in rs <=> k \in Nat /\ lo <= k /\ k <= hi
  BY <1>5
<1> HIDE DEF rs, rows
<1>7. \A a : a \in DOMAIN rows <=> \E r \in rs : a \in DOMAIN P[r].rows
  BY NewestDomain DEF rows
<1> HIDE DEF kept
<1>8. ASSUME id \in kept PROVE lo <= i
  <2>1. PICK r \in rs : id \in DOMAIN P[r].rows
    BY <1>7, <1>8 DEF kept
  <2> QED
    BY <1>1, <1>5, <1>6, <2>1
<1> HIDE DEF hi, n
<1>9. ASSUME NEW k \in qs, id \in DOMAIN Q[k].rows
      PROVE  \/ k < lo /\ k <= i
             \/ k = lo /\ id \in kept
             \/ k > lo /\ k + len - 1 <= i
  <2>1. k \in Nat /\ k >= 1 /\ k <= n - len + 1
    BY <1>1, <1>5
  <2>2. CASE k < lo
    <3>1. k \in 1 .. n /\ Q[k] = P[k]
      BY <1>1, <1>2, <1>5, <2>1, <2>2
    <3> QED
      BY <1>1, <1>9, <2>2, <3>1
  <2>3. CASE k = lo
    BY <1>2, <1>4, <1>9, <2>3
  <2>4. CASE k > lo
    <3>1. k + len - 1 \in 1 .. n /\ Q[k] = P[k + len - 1]
      BY <1>1, <1>2, <1>5, <2>1, <2>4
    <3> QED
      BY <1>1, <1>9, <2>4, <3>1
  <2> QED
    BY <1>5, <2>1, <2>2, <2>3, <2>4
<1>10. \A k \in qs : k \in Nat
  BY <1>1, <1>5
<1>11. CASE i < lo
  <2>1. i \in qs /\ Q[i] = P[i]
    BY <1>1, <1>2, <1>5, <1>11
  <2>2. ASSUME NEW k \in qs, id \in DOMAIN Q[k].rows PROVE k <= i
    BY <1>1, <1>5, <1>8, <1>9, <1>10, <1>11, <2>2
  <2>3. LastWith(Q, id, i)
    BY <1>1, <1>2, <2>1, <2>2 DEF LastWith
  <2> QED
    BY <1>11, <2>1, <2>3
<1>12. CASE lo <= i /\ i <= hi
  <2>1. i \in rs /\ \A j \in rs : id \in DOMAIN P[j].rows => j <= i
    BY <1>1, <1>5, <1>6, <1>12
  <2>2. id \in DOMAIN rows /\ rows[id] = P[i].rows[id]
    BY <1>1, <1>5, <2>1, NewestIs DEF rows
  <2>3. ASSUME NEW k \in qs, id \in DOMAIN Q[k].rows PROVE k <= lo
    BY <1>1, <1>5, <1>9, <1>10, <1>12, <2>3
  <2>4. CASE id \in kept
    <3>1. lo \in qs
      BY <1>1, <1>5
    <3>2. LastWith(Q, id, lo)
      BY <1>2, <1>4, <2>3, <2>4, <3>1 DEF LastWith
    <3> QED
      BY <1>2, <1>4, <1>5, <1>12, <2>2, <2>4, <3>2
  <2>5. CASE id \notin kept
    <3>1. total /\ rows[id] = Deleted
      BY <2>2, <2>5 DEF kept
    <3>2. qs = {lo}
      BY <1>1, <1>5, <3>1
    <3>3. id \in DOMAIN NewestRows(Q) <=> \E k \in DOMAIN Q : id \in DOMAIN Q[k].rows
      BY NewestDomain DEF NewestRows
    <3>4. id \notin DOMAIN NewestRows(Q)
      BY <1>2, <1>4, <2>5, <3>2, <3>3
    <3> QED
      BY <2>2, <3>1, <3>4
  <2> QED
    BY <2>4, <2>5
<1>13. CASE i > hi
  <2> DEFINE q == i - len + 1
  <2>1. q \in qs /\ q \in lo + 1 .. n - len + 1 /\ q + len - 1 = i
    BY <1>1, <1>5, <1>13
  <2>2. Q[q] = P[i]
    BY <1>2, <2>1
  <2>3. ASSUME NEW k \in qs, id \in DOMAIN Q[k].rows PROVE k <= q
    BY <1>1, <1>5, <1>9, <1>10, <1>13, <2>1, <2>3
  <2> HIDE DEF q
  <2>4. LastWith(Q, id, q)
    BY <1>1, <1>2, <2>1, <2>2, <2>3 DEF LastWith
  <2> QED
    BY <1>5, <1>13, <2>2, <2>4 DEF q
<1> QED
  BY <1>1, <1>5, <1>11, <1>12, <1>13

\* A merge shows what its parts showed, whatever is replayed over them.
LEMMA MergedShows ==
    ASSUME NEW T, NEW P \in Seq(T), \A y \in T : y.rows \in Rows,
           NEW lo \in Nat \ {0}, NEW len \in Nat \ {0, 1}, lo + len - 1 <= Len(P),
           NEW x \in T, x.rows = MergedRows(P, lo, len), NEW Q, Q = Spliced(P, x, lo, len)
    PROVE  /\ Q \in Seq(T) /\ \A f \in Rows : Shown(Over(NewestRows(Q), f)) = Shown(Over(NewestRows(P), f))
<1>1. Len(P) \in Nat /\ DOMAIN P = 1 .. Len(P) /\ len \in Nat \ {0}
  OBVIOUS
<1>2. /\ Q \in Seq(T) /\ DOMAIN Q = 1 .. Len(P) - len + 1 /\ Q[lo] = x
      /\ \A k \in 1 .. lo - 1 : Q[k] = P[k]
      /\ \A k \in lo + 1 .. Len(P) - len + 1 : Q[k] = P[k + len - 1]
  <2>1. Q \in Seq(T) /\ IsSpliced(Q, P, x, lo, len)
    BY <1>1, Splice
  <2> QED
    BY <2>1 DEF IsSpliced
<1>3. NewestRows(P) \in Rows /\ NewestRows(Q) \in Rows
  BY <1>2, PartRows
<1>4. ASSUME NEW id \in DOMAIN NewestRows(Q) PROVE id \in DOMAIN NewestRows(P)
  <2>1. PICK k \in DOMAIN Q : id \in DOMAIN Q[k].rows
    BY NewestDomain DEF NewestRows
  <2>2. \E j \in DOMAIN P : id \in DOMAIN P[j].rows
    <3>1. k \in Nat /\ k >= 1 /\ k <= Len(P) - len + 1
      BY <1>1, <1>2
    <3>2. CASE k < lo
      BY <1>1, <1>2, <2>1, <3>1, <3>2
    <3>3. CASE k > lo
      <4>1. k \in lo + 1 .. Len(P) - len + 1 /\ k + len - 1 \in 1 .. Len(P)
        BY <1>1, <3>1, <3>3
      <4> QED
        BY <1>1, <1>2, <2>1, <4>1
    <3>4. CASE k = lo
      <4>1. id \in DOMAIN Newest(P, lo .. lo + len - 1)
        BY <1>2, <2>1, <3>4 DEF MergedRows
      <4>2. PICK r \in lo .. lo + len - 1 : id \in DOMAIN P[r].rows
        BY <4>1, NewestDomain
      <4> QED
        BY <1>1, <4>2
    <3> QED
      BY <3>1, <3>2, <3>3, <3>4
  <2> QED
    BY <2>2, NewestDomain DEF NewestRows
<1>5. ASSUME NEW id \in DOMAIN NewestRows(P)
      PROVE  \/ id \in DOMAIN NewestRows(Q) /\ NewestRows(Q)[id] = NewestRows(P)[id]
             \/ id \notin DOMAIN NewestRows(Q) /\ NewestRows(P)[id] = Deleted
  <2>1. PICK i : LastWith(P, id, i)
    BY LastIs
  <2>2. NewestRows(P)[id] = P[i].rows[id]
    BY <2>1, LastIs
  <2>3. \/ i < lo /\ LastWith(Q, id, i) /\ Q[i] = P[i]
        \/ lo <= i /\ i <= lo + len - 1 /\ LastWith(Q, id, lo) /\ Q[lo] = x /\ x.rows[id] = P[i].rows[id]
        \/ i > lo + len - 1 /\ LastWith(Q, id, i - len + 1) /\ Q[i - len + 1] = P[i]
        \/ P[i].rows[id] = Deleted /\ id \notin DOMAIN NewestRows(Q)
    BY <2>1, MergedLast
  <2>4. Q \in Seq(T)
    BY <1>2
  <2>5. \A k : LastWith(Q, id, k) => id \in DOMAIN NewestRows(Q) /\ NewestRows(Q)[id] = Q[k].rows[id]
    BY <2>4, LastIs
  <2> QED
    BY <2>2, <2>3, <2>5
<1>6. ASSUME NEW id \in Ids PROVE Shown(NewestRows(Q))[id] = Shown(NewestRows(P))[id]
  <2> DEFINE a == NewestRows(Q)
             b == NewestRows(P)
  <2>1. Shown(a)[id] = IF id \notin DOMAIN a \/ a[id] = Deleted THEN Absent ELSE a[id]
    BY <1>3, ShownIs
  <2>2. Shown(b)[id] = IF id \notin DOMAIN b \/ b[id] = Deleted THEN Absent ELSE b[id]
    BY <1>3, ShownIs
  <2> QED
    BY <1>4, <1>5, <2>1, <2>2
<1>7. ASSUME NEW f \in Rows PROVE Shown(Over(NewestRows(Q), f)) = Shown(Over(NewestRows(P), f))
  BY <1>3, <1>6, SameShown
<1> QED
  BY <1>2, <1>7

-----------------------------------------------------------------------------
(* Logs. *)

LEMMA ReplayedRows ==
    ASSUME NEW U, NEW log \in Seq(U), \A u \in U : u.rows \in Rows \ {NoRows}, NEW m
    PROVE  /\ Replayed(m, log) \in Rows
           /\ Replayed(m, log) = NoRows <=> \A i \in DOMAIN log : ~Pending(m, log[i])
<1> DEFINE ps == PendingAt(m, log)
<1>1. /\ Len(log) \in Nat /\ DOMAIN log = 1 .. Len(log) /\ ps \in SUBSET (1 .. Len(log))
      /\ \A i \in DOMAIN log : log[i] \in U
  BY DEF PendingAt
<1>2. \A i \in ps : log[i].rows \in Rows /\ log[i].rows # NoRows
  BY <1>1
<1>3. ps = {} <=> \A i \in DOMAIN log : ~Pending(m, log[i])
  BY DEF PendingAt
<1> HIDE DEF ps
<1>4. Newest(log, {}) = NoRows /\ (Newest(log, ps) = NoRows => ps = {}) /\ Newest(log, ps) \in Rows
  BY <1>1, <1>2, NewestNone, NewestType
<1> QED
  BY <1>3, <1>4 DEF Replayed, ps

LEMMA ReplayedMore ==
    ASSUME NEW U, NEW log \in Seq(U), NEW u \in U, \A v \in U : v.rows \in Rows \ {NoRows}, NEW m, Pending(m, u)
    PROVE  /\ Append(log, u) \in Seq(U)
           /\ Replayed(m, Append(log, u)) = Over(Replayed(m, log), u.rows)
<1> DEFINE a == Append(log, u)
           ps == PendingAt(m, log)
           qs == PendingAt(m, a)
<1>1. /\ Len(log) \in Nat /\ DOMAIN log = 1 .. Len(log)
      /\ DOMAIN a = 1 .. Len(log) + 1 /\ a[Len(log) + 1] = u /\ \A i \in 1 .. Len(log) : a[i] = log[i]
      /\ a \in Seq(U)
  OBVIOUS
<1>2. ps \in SUBSET (1 .. Len(log))
  BY <1>1 DEF PendingAt
<1>3. qs = ps \cup {Len(log) + 1}
  <2> HIDE DEF a
  <2>1. ASSUME NEW i PROVE i \in qs <=> i \in ps \/ i = Len(log) + 1
    <3>1. i \in 1 .. Len(log) + 1 <=> i \in 1 .. Len(log) \/ i = Len(log) + 1
      BY <1>1
    <3> QED
      BY <1>1, <3>1 DEF PendingAt
  <2> QED
    BY <2>1
<1>4. \A y \in U : y.rows \in Rows
  OBVIOUS
<1> HIDE DEF ps, qs
<1>5. Newest(a, ps \cup {Len(log) + 1}) = Over(Newest(log, ps), u.rows)
  BY <1>1, <1>2, <1>4, NewestAppend
<1> QED
  BY <1>1, <1>3, <1>5 DEF Replayed, ps, qs

LEMMA SameSequence ==
    ASSUME NEW m, NEW n, m.next_seq = n.next_seq, NEW log
    PROVE  Replayed(m, log) = Replayed(n, log) /\ (Replays(m, log) <=> Replays(n, log))
BY DEF Replayed, Replays, PendingAt, Pending, Redundant
=============================================================================
