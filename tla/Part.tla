------------------------------- MODULE Part -------------------------------
(***************************************************************************)
(* A part, the immutable column file a flush or a merge writes             *)
(* (src/part): how its rows become columns, in the two builders the code   *)
(* has, what open demands of the columns, and how a row, an id, a range, a *)
(* piece or the answer to "may anything in here match" is read back.       *)
(*                                                                         *)
(* A part is a record of its sections.  Rows count from one; bytes are     *)
(* abstracted to the values they encode, byte offsets to the positions of  *)
(* entries; what is stored as a difference (a front-coded id, a row        *)
(* ordinal) is stored as a difference here.  Ids are tuples of numbers in  *)
(* lexicographic order, which is the order of their bytes.                 *)
(***************************************************************************)
EXTENDS Integers, Sequences, FiniteSets, SequencesExt

CONSTANTS Restart,      \* ids between two full ids of the id column (RESTART, 16)
          Probes        \* Probes[h]: the filter bits of the piece h

ASSUME RestartAssumption == Restart \in Nat \ {0}

----------------------------------------------------------------------------
(* Ids, values and rows.  A value is <<type tag, datum>>; a float's datum  *)
(* is its number, or one of the two that equality and order treat apart.   *)

Before(a, b) ==
  \E k \in 0 .. Len(b) - 1 :
    /\ k <= Len(a) /\ SubSeq(a, 1, k) = SubSeq(b, 1, k)
    /\ k < Len(a) => a[k + 1] < b[k + 1]

StrTag == 0
IntTag == 1
FloatTag == 2
BytesTag == 5
NullTag == 7
NegativeZero == -1
NaN == 99

Tag(v) == v[1]

Number(v) == IF v = <<FloatTag, NegativeZero>> THEN 0 ELSE v[2]

IsNaN(v) == v = <<FloatTag, NaN>>

Comparable(v, w) == Tag(v) = Tag(w) /\ ~IsNaN(v) /\ ~IsNaN(w)

HasDictionary(tag) == tag \in {StrTag, BytesTag}

(* A record: its id, its attributes in the caller's order with duplicates, *)
(* and its contents by name, each a program of literals <<"lit", n>> and   *)
(* pieces <<"piece", h>>.                                                  *)
Written(ops) == SelectSeq(ops, LAMBDA op : op # <<"lit", 0>>)

PieceOps(record) ==
  SelectSeq(FlattenSeq([i \in DOMAIN record.contents |-> record.contents[i].ops]), LAMBDA op : op[1] = "piece")

PiecesOf(record) == {op[2] : op \in ToSet(PieceOps(record))}

ColumnKey(attr) == <<attr[1], Tag(attr[2])>>

KeyBefore(a, b) == a[1] < b[1] \/ (a[1] = b[1] /\ a[2] < b[2])

Deltas(s) == [i \in DOMAIN s |-> IF i = 1 THEN s[1] ELSE s[i] - s[i - 1]]

Sums(d) == [i \in DOMAIN d |-> FoldLeft(LAMBDA x, y : x + y, 0, SubSeq(d, 1, i))]

Upto(n) == [i \in 1 .. n |-> i]

(* The half-open binary search of the code: the first position in 0 .. n   *)
(* at which Goes no longer holds.                                          *)
Bisect(n, Goes(_)) ==
  LET From[lo \in 0 .. n, hi \in 0 .. n] ==
        IF lo >= hi THEN lo
        ELSE LET mid == (lo + hi) \div 2
             IN  IF Goes(mid) THEN From[mid + 1, hi] ELSE From[lo, mid]
  IN  From[0, n]

----------------------------------------------------------------------------
(* The id column.                                                          *)

IdEntry(previous, id, restart) ==
  LET shared == IF restart THEN 0 ELSE Len(LongestCommonPrefix({previous, id}))
  IN  [shared |-> shared, suffix |-> SubSeq(id, shared + 1, Len(id))]

IdStream(ids) ==
  [i \in DOMAIN ids |-> IdEntry(IF i = 1 THEN <<>> ELSE ids[i - 1], ids[i], (i - 1) % Restart = 0)]

Groups(n) == (n + Restart - 1) \div Restart

IdRestarts(ids) == [g \in 1 .. Groups(Len(ids)) |-> (g - 1) * Restart + 1]

Decoded(stream, from, to) ==
  FoldLeft(LAMBDA id, entry : SubSeq(id, 1, entry.shared) \o entry.suffix, <<>>, SubSeq(stream, from, to))

IdAt(part, row) == Decoded(part.stream, part.restarts[((row - 1) \div Restart) + 1], row)

IdsOf(part) == [row \in 1 .. part.n |-> Decoded(part.stream, 1, row)]

First(rows, none) == IF rows = {} THEN none ELSE CHOOSE r \in rows : \A q \in rows : r <= q

(* Zero when no row has the id: the walk of its group stops at the first   *)
(* id not below it.                                                        *)
RowIfEqual(part, id, row) == IF row # 0 /\ IdAt(part, row) = id THEN row ELSE 0

FindIn(part, id, group) ==
  LET walked == {row \in (group - 1) * Restart + 1 .. group * Restart : row <= part.n /\ ~Before(IdAt(part, row), id)}
  IN  IF group = 0 THEN 0 ELSE RowIfEqual(part, id, First(walked, 0))

Find(part, id) ==
  FindIn(part, id, Bisect(Len(part.restarts), LAMBDA g : ~Before(id, IdAt(part, g * Restart + 1))))

\* (Mutant: the walk starts at the group the bound may already have passed.)
LowerBoundSkips(part, id) ==
  LET group == Bisect(Len(part.restarts), LAMBDA g : Before(IdAt(part, g * Restart + 1), id))
      reached == {row \in group * Restart + 1 .. part.n : ~Before(IdAt(part, row), id)}
  IN  First(reached, part.n + 1)

(* The first row whose id is not below the bound.                          *)
LowerBound(part, id) ==
  LET group == Bisect(Len(part.restarts), LAMBDA g : Before(IdAt(part, g * Restart + 1), id))
      start == (IF group = 0 THEN 0 ELSE group - 1) * Restart + 1
      reached == {row \in start .. part.n : ~Before(IdAt(part, row), id)}
  IN  First(reached, part.n + 1)

(* The empty tuple stands for an open bound.                               *)
RowsInRange(part, from, to) ==
  LET lo == IF from = <<>> THEN 1 ELSE LowerBound(part, from)
      hi == IF to = <<>> THEN part.n + 1 ELSE LowerBound(part, to)
  IN  lo .. hi - 1

IsTombstone(part, row) == \E t \in DOMAIN part.tombs : Sums(part.tombs)[t] = row

----------------------------------------------------------------------------
(* The zone of a column: the least and the greatest value seen, unless the *)
(* type has none or a NaN was seen.                                        *)

NewZone(tag) == [seen |-> FALSE, poisoned |-> HasDictionary(tag) \/ tag = NullTag, lo |-> 0, hi |-> 0]

ZoneAdd(zone, v) ==
  IF IsNaN(v) \/ Tag(v) \in {BytesTag, NullTag}
  THEN [zone EXCEPT !.seen = TRUE, !.poisoned = TRUE]
  ELSE [zone EXCEPT !.seen = TRUE,
          !.lo = IF ~zone.seen \/ Number(v) < @ THEN Number(v) ELSE @,
          !.hi = IF ~zone.seen \/ Number(v) > @ THEN Number(v) ELSE @]

ZoneEncoded(zone) == IF zone.seen /\ ~zone.poisoned THEN <<zone.lo, zone.hi>> ELSE <<>>

----------------------------------------------------------------------------
(* The piece dictionary, in the order of the fold, with a permutation in   *)
(* the order of the hashes and a filter.  pieces is a function from hashes *)
(* to locations.                                                           *)

FoldOrder(pieces) == SetToSortSeq(DOMAIN pieces, LAMBDA h, g : pieces[h] < pieces[g])

Ordinal(dict, h) == CHOOSE i \in DOMAIN dict : dict[i].hash = h

HashOrder(dict) == SetToSortSeq(DOMAIN dict, LAMBDA i, j : dict[i].hash < dict[j].hash)

Bloom(dict) == UNION {Probes[dict[i].hash] : i \in DOMAIN dict}

Dictionary(pieces) ==
  LET order == FoldOrder(pieces) IN [i \in DOMAIN order |-> [hash |-> order[i], loc |-> pieces[order[i]]]]

LookupPiece(part, h) ==
  LET at == Bisect(Len(part.hsort), LAMBDA i : part.dict[part.hsort[i + 1]].hash < h) + 1
  IN  IF ~(Probes[h] \subseteq part.bloom) \/ at > Len(part.hsort) THEN 0
      ELSE LET entry == part.dict[part.hsort[at]] IN IF entry.hash = h THEN entry.loc ELSE 0

FindPiece(part, h) ==
  IF LookupPiece(part, h) # 0 THEN LookupPiece(part, h)
  ELSE LET held == {i \in DOMAIN part.dict : part.dict[i].hash = h}
       IN  IF held = {} THEN 0 ELSE part.dict[CHOOSE i \in held : TRUE].loc

EncodeProgram(ops, dict) ==
  LET ordinal(op) == IF op[1] = "piece" THEN <<"piece", Ordinal(dict, op[2])>> ELSE op
      kept == Written(ops)
  IN  [i \in DOMAIN kept |-> ordinal(kept[i])]

DecodeProgram(program, dict) ==
  [i \in DOMAIN program |->
     IF program[i][1] = "piece" THEN <<"piece", dict[program[i][2]].hash>> ELSE program[i]]

----------------------------------------------------------------------------
(* The batch builder: every column from all the rows at once               *)
(* (build_full_resolved_into).  A row is a record with its tombstone flag. *)

Dense(rids, n) == rids = Upto(n)

StoredRids(rids, n) == IF Dense(rids, n) THEN <<>> ELSE Deltas(rids)

ByKey(rows, key) ==
  FlattenSeq([r \in DOMAIN rows |->
    LET mine == SelectSeq(rows[r].attrs, LAMBDA a : ColumnKey(a) = key)
    IN  [k \in DOMAIN mine |-> [row |-> r, value |-> mine[k][2]]]])

SortedData(values) == SetToSortSeq({v[2] : v \in values}, <)

StoredValue(v, dict) ==
  IF Tag(v) = NullTag THEN <<>>
  ELSE IF HasDictionary(Tag(v)) THEN CHOOSE i \in DOMAIN dict : dict[i] = v[2] ELSE v[2]

AttrColumn(rows, key) ==
  LET occ == ByKey(rows, key)
      rids == [i \in DOMAIN occ |-> occ[i].row]
      dict == IF HasDictionary(key[2]) THEN SortedData({occ[i].value : i \in DOMAIN occ}) ELSE <<>>
  IN  [key |-> key, occurrences |-> Len(occ), dense |-> Dense(rids, Len(rows)),
       rids |-> StoredRids(rids, Len(rows)), dict |-> dict,
       vals |-> [i \in DOMAIN occ |-> StoredValue(occ[i].value, dict)],
       zone |-> ZoneEncoded(FoldLeft(LAMBDA z, o : ZoneAdd(z, o.value), NewZone(key[2]), occ))]

ContentColumn(rows, name, dict) ==
  LET holding == SelectSeq(Upto(Len(rows)), LAMBDA r : \E c \in ToSet(rows[r].contents) : c.name = name)
      held(r) == CHOOSE c \in ToSet(rows[r].contents) : c.name = name
  IN  [name |-> name, dense |-> Dense(holding, Len(rows)), rids |-> StoredRids(holding, Len(rows)),
       programs |-> [i \in DOMAIN holding |-> EncodeProgram(held(holding[i]).ops, dict)]]

BuildContents(rows, dict) ==
  LET names == SetToSortSeq({c.name : c \in UNION {ToSet(rows[r].contents) : r \in DOMAIN rows}}, <)
  IN  [i \in DOMAIN names |-> ContentColumn(rows, names[i], dict)]

BuildAttrs(rows) ==
  LET keys == SetToSortSeq({ColumnKey(a) : a \in UNION {ToSet(rows[r].attrs) : r \in DOMAIN rows}}, KeyBefore)
      column(a) == CHOOSE c \in DOMAIN keys : keys[c] = ColumnKey(a)
  IN  [cols |-> [c \in DOMAIN keys |-> AttrColumn(rows, keys[c])],
       layout |-> [r \in DOMAIN rows |-> [k \in DOMAIN rows[r].attrs |-> column(rows[r].attrs[k])]]]

Build(rows, pieces) ==
  LET ids == [r \in DOMAIN rows |-> rows[r].id]
      dict == Dictionary(pieces)
      attrs == BuildAttrs(rows)
  IN  [n |-> Len(rows), stream |-> IdStream(ids), restarts |-> IdRestarts(ids),
       tombs |-> Deltas(SelectSeq(Upto(Len(rows)), LAMBDA r : rows[r].tomb)),
       dict |-> dict, hsort |-> HashOrder(dict), bloom |-> Bloom(dict),
       contents |-> BuildContents(rows, dict), cols |-> attrs.cols,
       layout |-> IF attrs.cols = <<>> THEN <<>> ELSE attrs.layout]

----------------------------------------------------------------------------
(* The streaming builder of a merge (builder.rs): the dictionary, the      *)
(* names and the columns are declared first, then each row is appended to  *)
(* the spools, which never look back further than the last row.            *)

OpenBuilder(pieces, names, keys, dicts) ==
  [n |-> 0, previous |-> <<>>, stream |-> <<>>, restarts |-> <<>>, tombs |-> <<>>, lastTomb |-> 0,
   dict |-> Dictionary(pieces),
   contents |-> [i \in DOMAIN names |->
     [name |-> names[i], occurrences |-> 0, dense |-> TRUE, last |-> 0, rids |-> <<>>, programs |-> <<>>]],
   cols |-> [c \in DOMAIN keys |->
     [key |-> keys[c], occurrences |-> 0, dense |-> TRUE, last |-> 0, rids |-> <<>>, vals |-> <<>>,
      dict |-> dicts[c], zone |-> NewZone(keys[c][2])]],
   layout |-> <<>>]

PushContent(builder, row, content) ==
  LET i == CHOOSE j \in DOMAIN builder.contents : builder.contents[j].name = content.name
  IN  [builder EXCEPT !.contents[i] =
         [@ EXCEPT !.dense = @ /\ builder.contents[i].occurrences + 1 = row,
                   !.rids = Append(@, row - builder.contents[i].last), !.last = row,
                   !.programs = Append(@, EncodeProgram(content.ops, builder.dict)),
                   !.occurrences = @ + 1]]

\* (Mutant: a column that gives a row two values is still taken for dense.)
PushAttrDense(builder, row, attr) ==
  LET c == CHOOSE d \in DOMAIN builder.cols : builder.cols[d].key = ColumnKey(attr)
      col == builder.cols[c]
  IN  [builder EXCEPT
         !.cols[c] = [@ EXCEPT !.dense = @ /\ col.occurrences + 1 >= row,
                               !.rids = Append(@, row - col.last), !.last = row,
                               !.occurrences = @ + 1, !.zone = ZoneAdd(@, attr[2]),
                               !.vals = Append(@, StoredValue(attr[2], col.dict))],
         !.layout[row] = Append(@, c)]

PushAttr(builder, row, attr) ==
  LET c == CHOOSE d \in DOMAIN builder.cols : builder.cols[d].key = ColumnKey(attr)
      col == builder.cols[c]
  IN  [builder EXCEPT
         !.cols[c] = [@ EXCEPT !.dense = @ /\ col.occurrences + 1 = row,
                               !.rids = Append(@, row - col.last), !.last = row,
                               !.occurrences = @ + 1, !.zone = ZoneAdd(@, attr[2]),
                               !.vals = Append(@, StoredValue(attr[2], col.dict))],
         !.layout[row] = Append(@, c)]

PushRow(builder, record) ==
  LET row == builder.n + 1
      restart == builder.n % Restart = 0
      placed == [builder EXCEPT !.n = row, !.previous = record.id,
                   !.stream = Append(@, IdEntry(builder.previous, record.id, restart)),
                   !.restarts = IF restart THEN Append(@, row) ELSE @,
                   !.tombs = IF record.tomb THEN Append(@, row - builder.lastTomb) ELSE @,
                   !.lastTomb = IF record.tomb THEN row ELSE @,
                   !.layout = Append(@, <<>>)]
      filled == FoldLeft(LAMBDA b, c : PushContent(b, row, c), placed, record.contents)
  IN  FoldLeft(LAMBDA b, a : PushAttr(b, row, a), filled, record.attrs)

FinishBuilder(builder) ==
  LET n == builder.n
      whole(column) == column.dense /\ column.occurrences = n
  IN  [n |-> n, stream |-> builder.stream, restarts |-> builder.restarts, tombs |-> builder.tombs,
       dict |-> builder.dict, hsort |-> HashOrder(builder.dict), bloom |-> Bloom(builder.dict),
       contents |-> [i \in DOMAIN builder.contents |->
         LET c == builder.contents[i]
         IN  [name |-> c.name, dense |-> whole(c), rids |-> IF whole(c) THEN <<>> ELSE c.rids,
              programs |-> c.programs]],
       cols |-> [i \in DOMAIN builder.cols |->
         LET c == builder.cols[i]
         IN  [key |-> c.key, occurrences |-> c.occurrences, dense |-> whole(c),
              rids |-> IF whole(c) THEN <<>> ELSE c.rids, dict |-> c.dict, vals |-> c.vals,
              zone |-> ZoneEncoded(c.zone)]],
       layout |-> IF builder.cols = <<>> THEN <<>> ELSE builder.layout]

----------------------------------------------------------------------------
(* Reading rows back.                                                      *)

RidsOf(column, n) == IF column.dense THEN Upto(n) ELSE Sums(column.rids)

ValueAt(column, i) ==
  <<column.key[2],
    IF column.key[2] = NullTag THEN 0
    ELSE IF HasDictionary(column.key[2]) THEN column.dict[column.vals[i]] ELSE column.vals[i]>>

Position(rids, row) == Bisect(Len(rids), LAMBDA k : rids[k + 1] < row) + 1

(* A row follows its layout; the k-th time it names a column it takes the  *)
(* k-th of the column's occurrences at that row.                           *)
AttrsOf(part, row, named) ==
  LET used(k) == Cardinality({j \in 1 .. k - 1 : named[j] = named[k]})
      value(column, k) == <<column.key[1], ValueAt(column, Position(RidsOf(column, part.n), row) + used(k))>>
  IN  [k \in DOMAIN named |-> value(part.cols[named[k]], k)]

AttrsSelected(part, row, names) ==
  IF part.cols = <<>> THEN <<>>
  ELSE AttrsOf(part, row, SelectSeq(part.layout[row], LAMBDA c : part.cols[c].key[1] \in names))

(* Zero when the row has no occurrence in the column.                      *)
OccurrenceIn(rids, row, i) == IF i <= Len(rids) /\ rids[i] = row THEN i ELSE 0

OccurrenceAt(column, row) ==
  IF column.dense THEN row ELSE OccurrenceIn(Sums(column.rids), row, Position(Sums(column.rids), row))

ContentsSelected(part, row, names) ==
  LET holding == SelectSeq(part.contents, LAMBDA c : c.name \in names /\ OccurrenceAt(c, row) # 0)
      content(c) == [name |-> c.name, ops |-> DecodeProgram(c.programs[OccurrenceAt(c, row)], part.dict)]
  IN  [k \in DOMAIN holding |-> content(holding[k])]

(* The program of one named value, in a sequence that is empty when the     *)
(* row has none.                                                           *)
Content(part, row, name) ==
  LET held == SelectSeq(part.contents, LAMBDA c : c.name = name /\ OccurrenceAt(c, row) # 0)
  IN  [k \in DOMAIN held |-> DecodeProgram(held[k].programs[OccurrenceAt(held[k], row)], part.dict)]

(* What a program reads: its literals, and pieces by their place in the    *)
(* fold as this part gives it.                                             *)
Fetched(ops, place(_)) == [i \in DOMAIN ops |-> IF ops[i][1] = "piece" THEN <<"at", place(ops[i][2])>> ELSE ops[i]]

ReconstructContent(part, row, name) ==
  LET place(h) == FindPiece(part, h)
      value == Content(part, row, name)
  IN  [k \in DOMAIN value |-> Fetched(value[k], place)]

AllNames(part) == {c.key[1] : c \in ToSet(part.cols)} \cup {c.name : c \in ToSet(part.contents)}

RowAt(part, row) ==
  [id |-> IdAt(part, row), tomb |-> IsTombstone(part, row),
   attrs |-> AttrsSelected(part, row, AllNames(part)), contents |-> ContentsSelected(part, row, AllNames(part))]

----------------------------------------------------------------------------
(* Pruning by what a part says of its columns: its names, its dictionaries *)
(* and its zones.  A doubt answers TRUE.                                   *)

\* (Mutant: floats differ as numbers do.)
ZoneMayMatchNumbers(zone, op, v) ==
  LET lo == zone[1] hi == zone[2] x == Number(v)
  IN  CASE op = "eq" -> ~IsNaN(v) /\ lo <= x /\ x <= hi
        [] op = "ne" -> lo # x \/ hi # x
        [] op = "lt" -> IsNaN(v) \/ lo < x
        [] op = "le" -> IsNaN(v) \/ lo <= x
        [] op = "gt" -> IsNaN(v) \/ hi > x
        [] op = "ge" -> IsNaN(v) \/ hi >= x

ZoneMayMatch(zone, op, v) ==
  LET lo == zone[1] hi == zone[2] x == Number(v)
  IN  CASE op = "eq" -> ~IsNaN(v) /\ lo <= x /\ x <= hi
        [] op = "ne" -> Tag(v) = FloatTag \/ lo # x \/ hi # x
        [] op = "lt" -> IsNaN(v) \/ lo < x
        [] op = "le" -> IsNaN(v) \/ lo <= x
        [] op = "gt" -> IsNaN(v) \/ hi > x
        [] op = "ge" -> IsNaN(v) \/ hi >= x

DictMayMatch(dict, op, x) ==
  CASE op = "eq" -> \E i \in DOMAIN dict : dict[i] = x
    [] op = "ne" -> Len(dict) # 1 \/ dict[1] # x
    [] op = "lt" -> dict # <<>> /\ dict[1] < x
    [] op = "le" -> dict # <<>> /\ dict[1] <= x
    [] op = "gt" -> dict # <<>> /\ dict[Len(dict)] > x
    [] op = "ge" -> dict # <<>> /\ dict[Len(dict)] >= x

(* A zone is believed only when every value of its column lies within it.  *)
ReadZone(column) ==
  LET within(v) == ~IsNaN(v) /\ column.zone[1] <= Number(v) /\ Number(v) <= column.zone[2]
  IN  IF column.zone # <<>> /\ \A i \in DOMAIN column.vals : within(ValueAt(column, i)) THEN column.zone ELSE <<>>

ColumnMayMatch(column, op, v) ==
  IF Tag(v) = StrTag THEN DictMayMatch(column.dict, op, v[2])
  ELSE ReadZone(column) # <<>> => ZoneMayMatch(ReadZone(column), op, v)

AttrMayMatch(part, name, op, v) ==
  \E c \in DOMAIN part.cols : part.cols[c].key = <<name, Tag(v)>> /\ ColumnMayMatch(part.cols[c], op, v)

HasAttributeName(part, name) == \E c \in DOMAIN part.cols : part.cols[c].key[1] = name

HasContentName(part, name) == \E c \in DOMAIN part.contents : part.contents[c].name = name

----------------------------------------------------------------------------
(* What open demands of a part before it serves a byte of it.              *)

Strictly(s, Lt(_, _)) == \A i \in DOMAIN s : i > 1 => Lt(s[i - 1], s[i])

IdsValid(part) ==
  LET ids == IdsOf(part)
  IN  /\ part.restarts = [g \in 1 .. Groups(part.n) |-> (g - 1) * Restart + 1]
      /\ Len(part.stream) = part.n
      /\ \A i \in 1 .. part.n :
           /\ (i - 1) % Restart = 0 => part.stream[i].shared = 0
           /\ i > 1 => part.stream[i].shared <= Len(ids[i - 1])
           /\ ids[i] # <<>>
      /\ Strictly(ids, Before)

DictionaryValid(part) ==
  /\ Strictly(part.dict, LAMBDA e, f : e.loc < f.loc)
  /\ \A i, j \in DOMAIN part.dict : part.dict[i].hash = part.dict[j].hash => i = j
  /\ ToSet(part.hsort) = DOMAIN part.dict /\ Len(part.hsort) = Len(part.dict)
  /\ Strictly(part.hsort, LAMBDA i, j : part.dict[i].hash < part.dict[j].hash)
  /\ \A i \in DOMAIN part.dict : Probes[part.dict[i].hash] \subseteq part.bloom

RidsValid(column, count, n) ==
  IF column.dense THEN column.rids = <<>> /\ count = n
  ELSE Len(column.rids) = count /\ \A i \in 1 .. count : Sums(column.rids)[i] \in 1 .. n

ContentsValid(part) ==
  /\ Strictly(part.contents, LAMBDA c, d : c.name < d.name)
  /\ \A i \in DOMAIN part.contents :
       LET c == part.contents[i]
       IN  /\ c.programs # <<>> /\ RidsValid(c, Len(c.programs), part.n)
           /\ \A k \in DOMAIN c.rids : k > 1 => c.rids[k] > 0

LayoutValid(part) ==
  /\ Len(part.layout) = part.n
  /\ \A c \in DOMAIN part.cols :
       LET rows == FlattenSeq([r \in 1 .. part.n |->
                      [k \in DOMAIN SelectSeq(part.layout[r], LAMBDA d : d = c) |-> r]])
       IN  RidsOf(part.cols[c], part.n) = rows

ColumnsValid(part) ==
  /\ Strictly(part.cols, LAMBDA c, d : KeyBefore(c.key, d.key))
  /\ \A i \in DOMAIN part.cols :
       LET c == part.cols[i]
       IN  /\ c.occurrences > 0 /\ Len(c.vals) = c.occurrences /\ RidsValid(c, c.occurrences, part.n)
           /\ Strictly(c.dict, <) /\ (c.dict # <<>>) = HasDictionary(c.key[2])
  /\ part.cols # <<>> => LayoutValid(part)

TombstonesValid(part) ==
  \A i \in DOMAIN part.tombs : part.tombs[i] > 0 /\ Sums(part.tombs)[i] <= part.n

Opens(part) ==
  /\ IdsValid(part) /\ DictionaryValid(part) /\ ContentsValid(part) /\ ColumnsValid(part) /\ TombstonesValid(part)
=============================================================================
