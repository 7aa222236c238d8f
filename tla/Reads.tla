------------------------------- MODULE Reads -------------------------------
(***************************************************************************)
(* The reads of a store (src/store/read.rs, the read half of               *)
(* src/store/mod.rs) over its committed parts, oldest first, and its       *)
(* memtable, newer than all of them; and the merge of a run of parts       *)
(* (src/part/merge.rs), which must not change what any of them answers.    *)
(*                                                                         *)
(* mem is a function from the staged ids to a record, or to Deleted for a  *)
(* staged deletion.  A reader's view is the same with no memtable.         *)
(***************************************************************************)
EXTENDS Part

Deleted == [id |-> <<>>, tomb |-> TRUE, attrs |-> <<>>, contents |-> <<>>]

Absent == [id |-> <<>>, tomb |-> FALSE, attrs |-> <<>>, contents |-> <<>>]

NoMem == [id \in {} |-> Deleted]

Sorted(ids) == SetToSortSeq(ids, Before)

Newest(indices) == CHOOSE i \in indices : \A j \in indices : j <= i

Tombstone(id) == [Deleted EXCEPT !.id = id]

----------------------------------------------------------------------------
(* The merge.                                                              *)

(* The groups of the k-way walk over the id columns: every id once, in     *)
(* order, as the row of the newest part that holds it.                     *)
WinningRow(parts, id, rows) == RowAt(parts[Newest(DOMAIN rows)], rows[Newest(DOMAIN rows)])

GroupsOf(parts, listed) ==
  LET ids == Sorted(UNION {Range(listed[i]) : i \in DOMAIN parts})
      holding(id) == {i \in DOMAIN parts : id \in Range(listed[i])}
      rows(id) == [i \in holding(id) |-> CHOOSE r \in DOMAIN listed[i] : listed[i][r] = id]
  IN  [k \in DOMAIN ids |-> WinningRow(parts, ids[k], rows(ids[k]))]

MergeGroups(parts) == GroupsOf(parts, [i \in DOMAIN parts |-> IdsOf(parts[i])])

(* Every piece any input knows, at the location the newest input gives it. *)
MergePieces(parts) ==
  LET hashes(i) == {parts[i].dict[k].hash : k \in DOMAIN parts[i].dict}
      location(i, h) == parts[i].dict[Ordinal(parts[i].dict, h)].loc
  IN  [h \in UNION {hashes(i) : i \in DOMAIN parts} |->
         location(Newest({i \in DOMAIN parts : h \in hashes(i)}), h)]

(* Two passes: the first finds the names, the columns and the values that  *)
(* survive, the second streams the surviving rows into the builder.        *)
Streamed(pieces, rows) ==
  LET kept == SelectSeq(rows, LAMBDA r : ~r.tomb)
      attrs == UNION {ToSet(r.attrs) : r \in ToSet(kept)}
      names == SetToSortSeq({c.name : c \in UNION {ToSet(r.contents) : r \in ToSet(kept)}}, <)
      keys == SetToSortSeq({ColumnKey(a) : a \in attrs}, KeyBefore)
      dict(key) == IF HasDictionary(key[2])
                   THEN SortedData({a[2] : a \in {b \in attrs : ColumnKey(b) = key}}) ELSE <<>>
      opened == OpenBuilder(pieces, names, keys, [c \in DOMAIN keys |-> dict(keys[c])])
      pushed(r) == IF r.tomb THEN Tombstone(r.id) ELSE r
  IN  FinishBuilder(FoldLeft(LAMBDA b, r : PushRow(b, pushed(r)), opened, rows))

Surviving(groups, drop) == SelectSeq(groups, LAMBDA r : ~(drop /\ r.tomb))

Merge(parts, drop) == Streamed(MergePieces(parts), Surviving(MergeGroups(parts), drop))

----------------------------------------------------------------------------
(* One id.                                                                 *)

(* <<part, row>> of the newest version, <<>> when there is none or it is a *)
(* tombstone; rows gives the row each part holds the id at, zero for none. *)
NewestRow(parts, rows) ==
  LET newest == Newest({i \in DOMAIN rows : rows[i] # 0})
  IN  IF Range(rows) \subseteq {0} THEN <<>>
      ELSE IF IsTombstone(parts[newest], rows[newest]) THEN <<>> ELSE <<newest, rows[newest]>>

Locate(parts, id) == NewestRow(parts, [i \in DOMAIN parts |-> Find(parts[i], id)])

RecordAt(parts, found) == IF found = <<>> THEN Absent ELSE RowAt(parts[found[1]], found[2])

Get(parts, mem, id) ==
  IF id \in DOMAIN mem THEN (IF mem[id].tomb THEN Absent ELSE mem[id]) ELSE RecordAt(parts, Locate(parts, id))

(* Where a piece is: the fold's window of recent pieces, then the parts,   *)
(* newest first; zero when nowhere.                                        *)
NewestLocation(found) == IF Range(found) \subseteq {0} THEN 0 ELSE found[Newest({i \in DOMAIN found : found[i] # 0})]

LocatePiece(parts, window, h) ==
  IF h \in DOMAIN window THEN window[h] ELSE NewestLocation([i \in DOMAIN parts |-> LookupPiece(parts[i], h)])

(* Byte-exact content of one name: a staged record's pieces are located    *)
(* through the window, a committed one's by its own part.                  *)
RebuildContent(parts, window, record, name) ==
  LET place(h) == LocatePiece(parts, window, h)
      held == SelectSeq(record.contents, LAMBDA c : c.name = name)
  IN  [k \in DOMAIN held |-> Fetched(Written(held[k].ops), place)]

CommittedContent(parts, found, name) ==
  IF found = <<>> THEN <<>> ELSE ReconstructContent(parts[found[1]], found[2], name)

ContentOf(parts, mem, window, id, name) ==
  IF id \in DOMAIN mem THEN RebuildContent(parts, window, mem[id], name)
  ELSE CommittedContent(parts, Locate(parts, id), name)

----------------------------------------------------------------------------
(* All the ids.                                                            *)

(* The rows of each part that are the newest version of their id and not a *)
(* tombstone.                                                              *)
Visibility(parts) ==
  LET listed == [i \in DOMAIN parts |-> IdsOf(parts[i])]
      newer(i) == UNION {ToSet(listed[j]) : j \in {k \in DOMAIN parts : k > i}}
  IN  [i \in DOMAIN parts |->
         {r \in DOMAIN listed[i] : listed[i][r] \notin newer(i) /\ ~IsTombstone(parts[i], r)}]

CommittedIds(parts) ==
  LET visible == Visibility(parts)
  IN  UNION {{IdAt(parts[i], r) : r \in visible[i]} : i \in DOMAIN parts}

Ids(parts, mem) ==
  LET staged == {id \in DOMAIN mem : ~mem[id].tomb}
  IN  Sorted({id \in CommittedIds(parts) : id \in DOMAIN mem => id \in staged} \cup staged)

----------------------------------------------------------------------------
(* A range of ids.                                                         *)

InBounds(id, from, to) == (from # <<>> => ~Before(id, from)) /\ (to # <<>> => Before(id, to))

PhysicalScope(parts, mem, from, to) ==
  LET rows(i) == Cardinality(RowsInRange(parts[i], from, to))
  IN  [considered |-> Len(parts),
       withRows |-> Cardinality({i \in DOMAIN parts : rows(i) # 0}),
       rows |-> FoldLeft(LAMBDA n, i : n + rows(i), 0, Upto(Len(parts))),
       staged |-> Cardinality({id \in DOMAIN mem : InBounds(id, from, to)})]

Listed(part, from, to) == [row \in RowsInRange(part, from, to) |-> IdAt(part, row)]

(* Equal ids are one group, decided by the overlay, else by the newest     *)
(* part; held is the set of <<part, row>> that hold the id.                *)
Group(parts, mem, id, held) ==
  LET newest == CHOOSE h \in held : \A g \in held : g[1] <= h[1]
      staged == id \in DOMAIN mem
  IN  [id |-> id, entries |-> Cardinality(held) + (IF staged THEN 1 ELSE 0),
       origin |-> IF staged THEN (IF mem[id].tomb THEN <<>> ELSE <<0, 0>>)
                  ELSE IF IsTombstone(parts[newest[1]], newest[2]) THEN <<>> ELSE newest]

WalkOf(parts, mem, listed, ids) ==
  LET rowIn(i, id) == CHOOSE r \in DOMAIN listed[i] : listed[i][r] = id
      held(id) == {<<i, rowIn(i, id)>> : i \in {j \in DOMAIN parts : id \in Range(listed[j])}}
  IN  [k \in DOMAIN ids |-> Group(parts, mem, ids[k], held(ids[k]))]

NoBatch == [rows |-> <<>>, used |-> 0, walked |-> 0, through |-> <<>>, more |-> FALSE, exhausted |-> FALSE]

(* A group is resolved whole or not at all: one that would pass the        *)
(* ceiling ends the batch, unless it is the first and an oversized one is  *)
(* allowed.                                                                *)
Resolve(ask, count, b, group) ==
  IF b.exhausted \/ Len(b.rows) = ask.limit THEN b
  ELSE IF group.entries > ask.budget - b.used /\ (b.used > 0 \/ ~ask.oversized) THEN [b EXCEPT !.exhausted = TRUE]
  ELSE [b EXCEPT !.rows = IF group.origin = <<>> THEN @ ELSE Append(@, [id |-> group.id, origin |-> group.origin]),
                 !.used = @ + group.entries, !.walked = @ + 1, !.through = group.id,
                 !.exhausted = b.walked + 1 < count /\ b.used + group.entries >= ask.budget]

ResolveAll(ask, groups) ==
  LET last == FoldLeft(LAMBDA b, g : Resolve(ask, Len(groups), b, g), NoBatch, groups)
  IN  [last EXCEPT !.more = last.exhausted \/ last.walked < Len(groups)]

(* The k-way walk over the parts' ranges and the overlay.                  *)
ScanRows(parts, mem, ask) ==
  LET staged == {id \in DOMAIN mem : InBounds(id, ask.from, ask.to)}
      ids(listed) == Sorted(UNION {Range(listed[i]) : i \in DOMAIN parts} \cup staged)
      walk(listed) == WalkOf(parts, mem, listed, IF ask.reverse THEN Reverse(ids(listed)) ELSE ids(listed))
  IN  IF ask.limit = 0 THEN NoBatch
      ELSE ResolveAll(ask, walk([i \in DOMAIN parts |-> Listed(parts[i], ask.from, ask.to)]))

(* The same walk without a ceiling.                                        *)
ScanIds(parts, mem, from, to, limit, reverse) ==
  LET ask == [from |-> from, to |-> to, limit |-> limit, reverse |-> reverse, budget |-> 1000, oversized |-> TRUE]
      batch == ScanRows(parts, mem, ask)
  IN  [k \in DOMAIN batch.rows |-> batch.rows[k].id]

(* The fields of a resolved row that a scan decodes.                       *)
ProjectRow(part, row, attrs, contents) ==
  [attrs |-> AttrsSelected(part, row, attrs), contents |-> ContentsSelected(part, row, contents)]

Project(parts, mem, candidate, attrs, contents) ==
  IF candidate.origin[1] = 0
  THEN [attrs |-> SelectSeq(mem[candidate.id].attrs, LAMBDA a : a[1] \in attrs),
        contents |-> SelectSeq(mem[candidate.id].contents, LAMBDA c : c.name \in contents)]
  ELSE ProjectRow(parts[candidate.origin[1]], candidate.origin[2], attrs, contents)

----------------------------------------------------------------------------
(* Predicates: [kind, name, op, value] where kind is "id", "attr",         *)
(* "hasAttr" or "hasContent"; the op of the last two is "present" or       *)
(* "absent".                                                               *)

Ordered(op, less, equal) ==
  CASE op = "eq" -> equal [] op = "ne" -> ~equal
    [] op = "lt" -> less [] op = "le" -> less \/ equal
    [] op = "gt" -> ~(less \/ equal) [] op = "ge" -> ~less

(* Floats are equal when their bits are, and ordered as IEEE orders them.  *)
Compared(v, op, w) ==
  IF Tag(v) = NullTag THEN op = "eq"
  ELSE IF Tag(v) = FloatTag /\ op \in {"eq", "ne"} THEN (op = "eq") = (v = w)
  ELSE Comparable(v, w) /\ Ordered(op, Number(v) < Number(w), Number(v) = Number(w))

(* The first occurrence of the name and type decides.                      *)
Matches(id, record, p) ==
  LET named(a) == a[1] = p.name
      typed == SelectSeq(record.attrs, LAMBDA a : named(a) /\ Tag(a[2]) = Tag(p.value))
  IN  CASE p.kind = "id" -> Ordered(p.op, Before(id, p.value), id = p.value)
        [] p.kind = "attr" -> typed # <<>> /\ Compared(typed[1][2], p.op, p.value)
        [] p.kind = "hasAttr" -> (p.op = "present") = (\E a \in ToSet(record.attrs) : named(a))
        [] p.kind = "hasContent" -> (p.op = "present") = (\E c \in ToSet(record.contents) : c.name = p.name)

(* Whether the part's metadata leaves room for a row that matches; what it *)
(* holds cannot disprove an absence or an id.                              *)
PartMayMatch(part, predicates) ==
  \A i \in DOMAIN predicates :
    LET p == predicates[i]
    IN  /\ p.kind = "attr" => AttrMayMatch(part, p.name, p.op, p.value)
        /\ p.kind = "hasAttr" /\ p.op = "present" => HasAttributeName(part, p.name)
        /\ p.kind = "hasContent" /\ p.op = "present" => HasContentName(part, p.name)

CandidateMayMatch(parts, candidate, predicates) ==
  candidate.origin[1] # 0 => PartMayMatch(parts[candidate.origin[1]], predicates)
=============================================================================
