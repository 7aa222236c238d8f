------------------------------- MODULE Query -------------------------------
(***************************************************************************)
(* SQL over the committed parts (src/query): one table whose columns are   *)
(* those of all the parts together, read one part at a time as batches of  *)
(* rows.  Filters pushed down by the query engine are inexact: the scan    *)
(* may return rows that do not match, which the engine drops, and must     *)
(* return every row that does.  The engine itself is external.             *)
(*                                                                         *)
(* Rows count from one, and a scan's cursor is the next row.  A cell is    *)
(* <<>> where the table has a null, <<value>> otherwise.  A name is a      *)
(* tuple of numbers; a suffix of a name is one number.                     *)
(***************************************************************************)
EXTENDS Scan

CONSTANTS BatchRows,    \* BATCH_ROWS, 8192
          BatchBytes,   \* BATCH_BYTES
          Spelling,     \* Spelling[k]: how the attribute key k is spelled
          Queries       \* what clients ask

----------------------------------------------------------------------------
(* The table.                                                              *)

IdField == [name |-> <<0>>, kind |-> "id", key |-> 0, tag |-> 0]

(* body, or content.<name>.                                                *)
ContentField(name) == [name |-> IF name = 1 THEN <<100>> ELSE <<101, name>>, kind |-> "content", key |-> name, tag |-> 0]

TypeSuffix(tag) == 10 + tag

OrdinalSuffix(n) == 20 + n

(* A key of one type keeps its name if that is free, else it is named with *)
(* its type, else with an ordinal too.                                     *)
FreeName(used, natural, typed) ==
  IF natural \notin used THEN natural
  ELSE IF typed \notin used THEN typed
  ELSE Append(typed, OrdinalSuffix(Least({n \in 2 .. Cardinality(used) + 2 : Append(typed, OrdinalSuffix(n)) \notin used})))

AttrField(fields, key, types, tag) ==
  LET typed == Append(Spelling[key], TypeSuffix(tag))
      natural == IF types = {tag} /\ tag # NullTag THEN Spelling[key] ELSE typed
  IN  [name |-> FreeName({f.name : f \in ToSet(fields)}, natural, typed), kind |-> "attr", key |-> key, tag |-> tag]

ColumnKeys(ps) == UNION {{c.key : c \in ToSet(ps[i].cols)} : i \in DOMAIN ps}

ContentNames(ps) == UNION {{c.name : c \in ToSet(ps[i].contents)} : i \in DOMAIN ps}

KeysInOrder(keys) ==
  SetToSortSeq(keys, LAMBDA a, b : Before(Spelling[a[1]], Spelling[b[1]]) \/ (a[1] = b[1] /\ a[2] < b[2]))

AddFields(fields, keys, inOrder) ==
  FoldLeft(LAMBDA fs, k : Append(fs, AttrField(fs, k[1], {j[2] : j \in {h \in keys : h[1] = k[1]}}, k[2])), fields, inOrder)

(* Lens::new.                                                              *)
Fields(ps) ==
  LET names == SetToSortSeq(ContentNames(ps), <)
      keys == ColumnKeys(ps)
  IN  AddFields(<<IdField>> \o [i \in DOMAIN names |-> ContentField(names[i])], keys, KeysInOrder(keys))

----------------------------------------------------------------------------
(* Filters.  The engine's is column <op> literal in either order.          *)

Flip(op) ==
  CASE op = "lt" -> "gt" [] op = "le" -> "ge" [] op = "gt" -> "lt" [] op = "ge" -> "le" [] OTHER -> op

(* Schema::index_of.                                                       *)
FieldNamed(fields, name) == fields[First({i \in DOMAIN fields : fields[i].name = name}, 0)]

ToPred(fields, filter) ==
  [field |-> FieldNamed(fields, filter.name), op |-> IF filter.reversed THEN Flip(filter.op) ELSE filter.op, value |-> filter.value]

(* A doubt, a literal of another type or not a number, disproves nothing.  *)
ZoneDisproves(op, v, zone) ==
  LET lo == zone[1] hi == zone[2] x == Number(v)
  IN  ~IsNaN(v) /\ CASE op = "eq" -> x < lo \/ x > hi
                     [] op = "ne" -> x = lo /\ x = hi
                     [] op = "lt" -> x <= lo
                     [] op = "le" -> x < lo
                     [] op = "gt" -> x >= hi
                     [] op = "ge" -> x > hi

ColumnOf(part, field) == First({c \in DOMAIN part.cols : part.cols[c].key = <<field.key, field.tag>>}, 0)

Disproved(column, p) ==
  Tag(p.value) = p.field.tag /\ ReadZone(column) # <<>> /\ ZoneDisproves(p.op, p.value, ReadZone(column))

(* cmp_ok: floats compare as IEEE has it.                                  *)
CompareNumbers(op, v, w) ==
  IF IsNaN(v) \/ IsNaN(w) THEN op = "ne" ELSE Ordered(op, Number(v) < Number(w), Number(v) = Number(w))

(* A dictionary's ordinals compare as its values; a literal it lacks has   *)
(* the ordinal it would be inserted at.                                    *)
CompareOrdinals(op, ordinal, at, exact) ==
  IF exact THEN Ordered(op, ordinal < at, ordinal = at)
  ELSE CASE op = "eq" -> FALSE [] op = "ne" -> TRUE
         [] op \in {"lt", "le"} -> ordinal < at [] op \in {"gt", "ge"} -> ordinal >= at

InsertionPoint(dict, x) == Bisect(Len(dict), LAMBDA k : dict[k + 1] < x) + 1

Passes(column, k, op, v, at) ==
  CASE Tag(v) # column.key[2] -> TRUE
    [] Tag(v) = NullTag -> op = "eq"
    [] HasDictionary(Tag(v)) -> CompareOrdinals(op, column.vals[k], at, at <= Len(column.dict) /\ column.dict[at] = v[2])
    [] OTHER -> CompareNumbers(op, ValueAt(column, k), v)

(* A row is marked if any of its occurrences passes.                       *)
Marked(column, rids, p) ==
  LET at == IF HasDictionary(column.key[2]) /\ Tag(p.value) = column.key[2] THEN InsertionPoint(column.dict, p.value[2]) ELSE 0
  IN  {rids[k] : k \in {j \in DOMAIN rids : Passes(column, j, p.op, p.value, at)}}

MarkedIn(part, column, p) == IF Disproved(column, p) THEN {} ELSE Marked(column, RidsOf(column, part.n), p)

(* Predicates on the id or on content are left to the engine; a part that  *)
(* has no such column has no row that matches.                             *)
Test(part, p) ==
  IF p.field.kind # "attr" THEN 1 .. part.n
  ELSE IF ColumnOf(part, p.field) = 0 THEN {}
  ELSE MarkedIn(part, part.cols[ColumnOf(part, p.field)], p)

----------------------------------------------------------------------------
(* The scan of one part.                                                   *)

NoLimit == 1000

(* Lens::scan and with_fetch.                                              *)
OpenScan(part, visible, projection, preds, fetch) ==
  [part |-> part, visible |-> visible, projection |-> projection, fetch |-> fetch,
   eligible |-> {r \in visible : \A i \in DOMAIN preds : r \in Test(part, preds[i])}]

Start == [row |-> 1, rows |-> 0, hidden |-> 0, filtered |-> 0, skipped |-> 0, folds |-> 0, shadowed |-> 0,
          batches |-> <<>>]

WindowEnd(scn, row) == Least({row + BatchRows, scn.part.n + 1})

Select(scn, lo, cap) == SetToSortSeq(scn.eligible \cap lo .. cap - 1, <)

VisibleIn(scn, lo, hi) == Cardinality(scn.visible \cap lo .. hi - 1)

(* A window of which no row survives is consumed whole.                    *)
SkipWindow(scn, s, cap) ==
  [s EXCEPT !.row = cap, !.skipped = @ + 1, !.filtered = @ + VisibleIn(scn, s.row, cap),
            !.hidden = @ + (cap - s.row) - VisibleIn(scn, s.row, cap)]

SkipWindows(scn, s) ==
  FoldLeft(LAMBDA t, i : IF t.row > scn.part.n \/ Select(scn, t.row, WindowEnd(scn, t.row)) # <<>> THEN t
                         ELSE SkipWindow(scn, t, WindowEnd(scn, t.row)),
           s, Upto(scn.part.n))

ProjectedContents(scn) == {f.key : f \in {g \in ToSet(scn.projection) : g.kind = "content"}}

(* The contents a row brings, and their bytes.                             *)
Rebuilt(scn, row) == ContentsSelected(scn.part, row, ProjectedContents(scn))

BytesOf(contents) == FoldLeft(LAMBDA n, c : n + ContentLength(c), 0, contents)

BytesThrough(scn, take, i) == FoldLeft(LAMBDA n, r : n + BytesOf(Rebuilt(scn, r)), 0, SubSeq(take, 1, i))

(* At least one row lands, however large it is.                            *)
WithinBytes(scn, take) ==
  IF ProjectedContents(scn) = {} THEN take
  ELSE SubSeq(take, 1, First({i \in DOMAIN take : BytesThrough(scn, take, i) >= BatchBytes}, Len(take)))

(* scatter: a row shows the first of its occurrences.                      *)
FirstOccurrence(column, rids, row) ==
  LET k == OccurrenceIn(rids, row, Position(rids, row)) IN IF k = 0 THEN <<>> ELSE <<ValueAt(column, k)>>

Shadowed(rids, lo, hi) == Len(SelectSeq(rids, LAMBDA r : r \in lo .. hi - 1)) - Cardinality({r \in ToSet(rids) : r \in lo .. hi - 1})

Cell(scn, row, field) ==
  LET held == SelectSeq(Rebuilt(scn, row), LAMBDA c : c.name = field.key)
      c == ColumnOf(scn.part, field)
  IN  CASE field.kind = "id" -> <<IdAt(scn.part, row)>>
        [] field.kind = "content" -> IF held = <<>> THEN <<>> ELSE <<held[1].ops>>
        [] OTHER -> IF c = 0 THEN <<>>
                    ELSE FirstOccurrence(scn.part.cols[c], RidsOf(scn.part.cols[c], scn.part.n), row)

ShadowedIn(scn, field, lo, hi) ==
  LET c == ColumnOf(scn.part, field)
  IN  IF field.kind # "attr" \/ c = 0 THEN 0 ELSE Shadowed(RidsOf(scn.part.cols[c], scn.part.n), lo, hi)

(* What a batch closed at hi consumed; rows selected behind it are         *)
(* selected again by the next call.                                        *)
Emit(scn, s, take, hi) ==
  LET seen == VisibleIn(scn, s.row, hi)
  IN  [s EXCEPT !.row = hi, !.rows = @ + Len(take), !.hidden = @ + (hi - s.row) - seen, !.filtered = @ + seen - Len(take),
                !.folds = FoldLeft(LAMBDA n, r : n + Len(Rebuilt(scn, r)), s.folds, take),
                !.shadowed = FoldLeft(LAMBDA n, f : n + ShadowedIn(scn, f, s.row, hi), s.shadowed, scn.projection),
                !.batches = Append(@, [rows |-> [i \in DOMAIN take |-> [f \in DOMAIN scn.projection |-> Cell(scn, take[i], scn.projection[f])]],
                                       bytes |-> BytesThrough(scn, take, Len(take)),
                                       spared |-> BytesThrough(scn, take, Len(take) - 1)])]

\* (Mutant: the next batch starts behind the window, not behind the last row taken.)
CloseWindow(scn, s, take) == [Emit(scn, s, take, take[Len(take)] + 1) EXCEPT !.row = WindowEnd(scn, s.row)]

Close(scn, s, take) == Emit(scn, s, take, take[Len(take)] + 1)

Limited(scn, s, selected) == SubSeq(selected, 1, Least({Len(selected), scn.fetch - s.rows}))

Deliver(scn, s) ==
  IF s.row > scn.part.n THEN s
  ELSE Close(scn, s, WithinBytes(scn, Limited(scn, s, Select(scn, s.row, WindowEnd(scn, s.row)))))

NextBatch(scn, s) == IF s.rows >= scn.fetch \/ s.row > scn.part.n THEN s ELSE Deliver(scn, SkipWindows(scn, s))

Drain(scn) == FoldLeft(LAMBDA s, i : NextBatch(scn, s), Start, Upto(scn.part.n + 1))

(* execute: one partition for each part, each with the whole limit.        *)
Execute(ps, fields, visible, query, fetch) ==
  LET preds == [i \in DOMAIN query.filters |-> ToPred(fields, query.filters[i])]
      projection == [i \in DOMAIN query.projection |-> FieldNamed(fields, query.projection[i])]
  IN  [i \in DOMAIN ps |-> Drain(OpenScan(ps[i], visible[i], projection, preds, fetch))]

----------------------------------------------------------------------------
(* Properties.                                                             *)

(* What a client means by a query: columns of the records, by key and type. *)
NameOf(fields, column) == (CHOOSE f \in ToSet(fields) : <<f.kind, f.key, f.tag>> = column).name

Has(fields, column) == \E f \in ToSet(fields) : <<f.kind, f.key, f.tag>> = column

Posed(fields, query) ==
  LET filters == SelectSeq(query.filters, LAMBDA f : Has(fields, f.column))
      columns == SelectSeq(query.columns, LAMBDA c : Has(fields, c))
  IN  [filters |-> [i \in DOMAIN filters |-> [name |-> NameOf(fields, filters[i].column), op |-> filters[i].op,
                                              value |-> filters[i].value, reversed |-> filters[i].reversed]],
       projection |-> [i \in DOMAIN columns |-> NameOf(fields, columns[i])], columns |-> columns, asked |-> filters]

(* The first value of a record under a key and type, and whether it passes *)
(* a filter; of another type than the literal, the engine decides.         *)
CellOf(record, column) ==
  LET typed == SelectSeq(record.attrs, LAMBDA a : ColumnKey(a) = <<column[2], column[3]>>)
      held == SelectSeq(record.contents, LAMBDA c : c.name = column[2])
  IN  CASE column[1] = "id" -> <<record.id>>
        [] column[1] = "content" -> IF held = <<>> THEN <<>> ELSE <<Written(held[1].ops)>>
        [] OTHER -> IF typed = <<>> THEN <<>> ELSE <<typed[1][2]>>

Holds(op, v, w) ==
  IF Tag(v) # Tag(w) THEN TRUE
  ELSE IF Tag(v) = NullTag THEN op = "eq"
  ELSE CompareNumbers(op, v, w)

Selects(filter, record) ==
  LET cell == CellOf(record, filter.column)
      op == IF filter.reversed THEN Flip(filter.op) ELSE filter.op
  IN  filter.column[1] = "attr" => cell # <<>> /\ Holds(op, cell[1], filter.value)

BatchesOf(results) == FlattenSeq([i \in DOMAIN results |-> results[i].batches])

RowsOf(batches) == FlattenSeq([i \in DOMAIN batches |-> batches[i].rows])

Expected(records, columns, id) == [c \in DOMAIN columns |-> CellOf(records[id], columns[c])]

(* Every row of every part is delivered, filtered or hidden, once; content *)
(* is rebuilt for the rows delivered and no other; batches keep the bound. *)
Accounted(ps, results) ==
  \A i \in DOMAIN ps :
    /\ results[i].rows + results[i].filtered + results[i].hidden = ps[i].n /\ results[i].row = ps[i].n + 1
    /\ \A k \in DOMAIN results[i].batches :
         results[i].batches[k].rows # <<>> /\ results[i].batches[k].spared < BatchBytes

FoldsExact(posed, results) ==
  LET contents == {c \in DOMAIN posed.columns : posed.columns[c][1] = "content"}
      present(rows) == Cardinality({<<k, c>> \in (DOMAIN rows) \X contents : rows[k][c] # <<>>})
  IN  \A i \in DOMAIN results : results[i].folds = present(RowsOf(results[i].batches))

RowsExact(records, posed, rows) ==
  LET of(id) == {k \in DOMAIN rows : rows[k][1] = <<id>>}
      live == {id \in DOMAIN records : ~records[id].tomb}
  IN  /\ \A id \in DOMAIN records : Cardinality(of(id)) <= IF id \in live THEN 1 ELSE 0
      /\ \A id \in live : (\A i \in DOMAIN posed.asked : Selects(posed.asked[i], records[id])) => of(id) # {}
      /\ \A id \in live : \A k \in of(id) : rows[k] = Expected(records, posed.columns, id)

FetchExact(whole, limited, fetch) ==
  \A i \in DOMAIN whole :
    LET all == RowsOf(whole[i].batches)
    IN  RowsOf(limited[i].batches) = SubSeq(all, 1, Least({fetch, Len(all)}))

NamesUnique(fields) == \A i, j \in DOMAIN fields : fields[i].name = fields[j].name => i = j

QueryExact(ps, records, fields, visible, query) ==
  LET posed == Posed(fields, query)
      whole == Execute(ps, fields, visible, posed, NoLimit)
  IN  /\ RowsExact(records, posed, RowsOf(BatchesOf(whole)))
      /\ Accounted(ps, whole) /\ FoldsExact(posed, whole)
      /\ FetchExact(whole, Execute(ps, fields, visible, posed, query.fetch), query.fetch)

(* A query gets every live record that satisfies its filters, once, with   *)
(* the values its newest version shows, whatever versions and deletions    *)
(* other parts hold, whichever filter was pushed down to zones,            *)
(* dictionaries and columns, and wherever windows, byte bounds and limits  *)
(* close a batch (query/mod.rs 697-835); no two columns share a name.      *)
QueriesExact ==
  (Quiet /\ mem = NoMem) =>
    LET fields == Fields(parts)
        visible == Visibility(parts)
    IN  /\ NamesUnique(fields)
        /\ \A q \in Queries : QueryExact(parts, committed, fields, visible, q)
=============================================================================
