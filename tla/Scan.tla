------------------------------- MODULE Scan -------------------------------
(***************************************************************************)
(* The structured scan (src/scan.rs): a client pages through the records   *)
(* that satisfy its predicates, each page bounded in rows, in rows         *)
(* examined, in entries resolved and in bytes rebuilt, and each but the    *)
(* last returning a cursor that the next page resumes from.  Between two   *)
(* pages nothing is held: the writer may stage, flush and merge, so a      *)
(* page may read other parts than the page before it.                      *)
(*                                                                         *)
(* The store is the part of src/store/mod.rs a scan depends on: staging    *)
(* with piece deduplication, the flush and the merge.  Logs, publication   *)
(* and crashes are the subject of the modules Store and Container.         *)
(***************************************************************************)
EXTENDS Reads, TLC

CONSTANTS IdSet,      \* the ids records are stored under
          Inputs,     \* the records stored, and the tombstones of the ids deleted
          Requests,   \* the requests a client makes
          Batch,      \* candidates fetched, and rows projected, at once (64)
          MaxWrites,  \* bound: puts and deletes
          MaxParts,   \* bound: parts
          Budgets,    \* the budgets compactions are asked for
          AutoCompactAt, \* the parts at which the store compacts by itself (8)
          MaxDuring   \* bound: steps of the store while a scan is open

VARIABLES parts,      \* the committed parts, oldest first
          mem,        \* the memtable
          fold,       \* window: recent pieces and their locations; tail: the last location used
          writes,     \* how many puts and deletes were made
          truth,      \* ghost: the last write of every id
          committed,  \* ghost: the same at the last flush
          scan        \* the client's scan

vars == <<parts, mem, fold, writes, truth, committed, scan>>

NoScan == [status |-> "idle", view |-> <<>>, request |-> <<>>, cursor |-> <<>>,
           pages |-> <<>>, start |-> <<>>, touched |-> {}, during |-> 0]

Init ==
  /\ parts = <<>> /\ mem = NoMem /\ fold = [window |-> [h \in {} |-> 0], tail |-> 0]
  /\ writes = 0 /\ truth = [id \in IdSet |-> Deleted] /\ committed = truth
  /\ scan = NoScan

----------------------------------------------------------------------------
(* One page.                                                               *)

After(id) == Append(id, 0)

Fingerprint(request) == <<request.from, request.to, request.reverse, request.predicates>>

Least(S) == CHOOSE x \in S : \A y \in S : x <= y

ContentLength(content) == FoldLeft(LAMBDA n, op : n + (IF op[1] = "lit" THEN op[2] ELSE 1), 0, content.ops)

RebuiltBytes(record, request) ==
  FoldLeft(LAMBDA n, c : n + (IF c.name \in request.loaded THEN ContentLength(c) ELSE 0), 0, record.contents)

Named(request, kinds) == {p.name : p \in {q \in ToSet(request.predicates) : q.kind \in kinds}}

NeededAttrs(request) == request.attrs \cup Named(request, {"attr", "hasAttr"})

NeededContents(request) == request.contents \cup request.loaded \cup Named(request, {"hasContent"})

MatchesAll(id, record, predicates) == \A i \in DOMAIN predicates : Matches(id, record, predicates[i])

Shown(record, request) ==
  [attrs |-> SelectSeq(record.attrs, LAMBDA a : a[1] \in request.attrs),
   contents |-> {[name |-> c.name, length |-> ContentLength(c)] :
                   c \in {d \in ToSet(record.contents) : d.name \in request.contents \cup request.loaded}}]

(* Rows are projected a chunk at a time, never more than the page still    *)
(* wants.                                                                  *)
ChunkSize(page, request, left) ==
  Least({left, Batch, IF Len(page.rows) < request.limit THEN request.limit - Len(page.rows) ELSE 1})

\* (Mutant: the row that waits for the next page counts as consumed.)
ExamineDeferring(request, fetched, page, candidate, record, mayMatch) ==
  LET chunk == IF page.ahead # 0 THEN page.ahead ELSE ChunkSize(page, request, fetched - page.processed)
      counted == [page EXCEPT !.processed = @ + 1, !.examined = @ + 1, !.ahead = chunk - 1]
      bytes == RebuiltBytes(record, request)
  IN  IF page.stop # "no" THEN page
      ELSE IF ~(mayMatch /\ MatchesAll(candidate.id, record, request.predicates))
           THEN [counted EXCEPT !.last = candidate.id]
      ELSE IF page.rows # <<>> /\ page.bytes + bytes > request.bytes THEN [counted EXCEPT !.stop = "bytes", !.last = candidate.id]
      ELSE [counted EXCEPT !.rows = Append(@, [id |-> candidate.id, shown |-> Shown(record, request)]),
                           !.bytes = @ + bytes, !.last = candidate.id,
                           !.stop = IF Len(page.rows) + 1 = request.limit THEN "full" ELSE "no"]

(* One candidate of a batch of that many.  A row the metadata of its part  *)
(* or the predicates reject is consumed; one that would pass the byte      *)
(* ceiling ends the page unconsumed, unless it is the page's first.        *)
Examine(request, fetched, page, candidate, record, mayMatch) ==
  LET chunk == IF page.ahead # 0 THEN page.ahead ELSE ChunkSize(page, request, fetched - page.processed)
      counted == [page EXCEPT !.processed = @ + 1, !.examined = @ + 1, !.ahead = chunk - 1]
      bytes == RebuiltBytes(record, request)
  IN  IF page.stop # "no" THEN page
      ELSE IF ~(mayMatch /\ MatchesAll(candidate.id, record, request.predicates))
           THEN [counted EXCEPT !.last = candidate.id]
      ELSE IF page.rows # <<>> /\ page.bytes + bytes > request.bytes THEN [counted EXCEPT !.stop = "bytes"]
      ELSE [counted EXCEPT !.rows = Append(@, [id |-> candidate.id, shown |-> Shown(record, request)]),
                           !.bytes = @ + bytes, !.last = candidate.id,
                           !.stop = IF Len(page.rows) + 1 = request.limit THEN "full" ELSE "no"]

(* A batch consumed to its end advances past the deletions that follow its *)
(* last row; then the page ends or goes on behind the last row consumed.   *)
Settle(request, batch, read) ==
  LET fetched == Len(batch.rows)
      passed == IF read.processed = fetched /\ read.stop # "bytes" /\ batch.through # <<>>
                THEN [read EXCEPT !.last = batch.through] ELSE read
  IN  IF read.stop = "bytes" THEN [passed EXCEPT !.more = TRUE, !.done = TRUE]
      ELSE IF read.stop = "full" \/ read.examined = request.examined \/ batch.exhausted \/ ~batch.more \/ fetched = 0
      THEN [passed EXCEPT !.more = read.processed < fetched \/ batch.more, !.done = TRUE]
      ELSE IF request.reverse THEN [passed EXCEPT !.to = passed.last] ELSE [passed EXCEPT !.from = After(passed.last)]

Consume(ps, ms, request, page, batch) ==
  LET record(c) == Project(ps, ms, c, NeededAttrs(request), NeededContents(request))
      examine(p, c) == Examine(request, Len(batch.rows), p, c, record(c), CandidateMayMatch(ps, c, request.predicates))
  IN  Settle(request, batch,
        FoldLeft(examine, [page EXCEPT !.processed = 0, !.ahead = 0, !.used = @ + batch.used], batch.rows))

(* One fetch of candidates and what becomes of them.                       *)
Fetch(ps, ms, request, page) ==
  LET wanted == request.limit - Len(page.rows)
      ask == [from |-> page.from, to |-> page.to, reverse |-> request.reverse,
              limit |-> Least({request.examined - page.examined, IF wanted < Batch THEN Batch ELSE wanted}),
              budget |-> request.budget - page.used, oversized |-> page.used = 0]
  IN  Consume(ps, ms, request, page, ScanRows(ps, ms, ask))

OpenPage(request, cursor) ==
  [rows |-> <<>>, examined |-> 0, used |-> 0, bytes |-> 0, processed |-> 0, ahead |-> 0, last |-> cursor,
   from |-> IF cursor # <<>> /\ ~request.reverse THEN After(cursor) ELSE request.from,
   to |-> IF cursor # <<>> /\ request.reverse THEN cursor ELSE request.to,
   stop |-> "no", more |-> FALSE, done |-> FALSE]

Returned(page) ==
  [rows |-> page.rows, examined |-> page.examined, bytes |-> page.bytes, stop |-> page.stop,
   ahead |-> page.ahead, next |-> IF page.more THEN page.last ELSE <<>>]

ScanPage(ps, ms, request, opened) ==
  LET empty == opened.from # <<>> /\ opened.to # <<>> /\ ~Before(opened.from, opened.to)
      fetch(p, i) == IF p.done THEN p ELSE Fetch(ps, ms, request, p)
  IN  Returned(IF empty THEN opened ELSE FoldLeft(fetch, opened, Upto(request.examined)))

----------------------------------------------------------------------------
(* The writer.                                                             *)

(* A step of the store, and the ids it writes, that an open scan may see.  *)
During(ids) ==
  \/ scan.status = "idle" /\ UNCHANGED scan
  \/ /\ scan.status = "open" /\ scan.during < MaxDuring
     /\ scan' = [scan EXCEPT !.during = @ + 1,
                   !.touched = IF scan.request.source = "writer" THEN @ \cup ids ELSE @]

Stage(record) ==
  /\ writes < MaxWrites /\ writes' = writes + 1
  /\ mem' = [id \in DOMAIN mem \cup {record.id} |-> IF id = record.id THEN record ELSE mem[id]]
  /\ truth' = [truth EXCEPT ![record.id] = record]
  /\ During({record.id})
  /\ UNCHANGED <<parts, committed>>

(* A piece that neither the window nor a part knows is appended, in the    *)
(* order in which the record's programs name them.                         *)
Put(record) ==
  LET ops == PieceOps(record)
      novel == SelectSeq(Upto(Len(ops)), LAMBDA i :
                 LocatePiece(parts, fold.window, ops[i][2]) = 0 /\ \A j \in 1 .. i - 1 : ops[j] # ops[i])
      placed == [h \in {ops[i][2] : i \in ToSet(novel)} |->
                   fold.tail + CHOOSE k \in DOMAIN novel : ops[novel[k]][2] = h]
  IN  /\ ~record.tomb /\ Stage(record)
      /\ fold' = [window |-> placed @@ fold.window, tail |-> fold.tail + Len(novel)]

Delete(record) == record.tomb /\ Stage(record) /\ UNCHANGED fold

(* Every staged write becomes a row, a deletion a tombstone's.             *)
Flush ==
  LET ids == Sorted(DOMAIN mem)
      rows == [k \in DOMAIN ids |-> mem[ids[k]]]
      pieces == UNION {PiecesOf(r) : r \in ToSet(rows)}
  IN  /\ mem # NoMem /\ Len(parts) < MaxParts
      /\ parts' = Append(parts, Build(rows, [h \in pieces |-> LocatePiece(parts, fold.window, h)]))
      /\ mem' = NoMem /\ committed' = truth /\ During({})
      /\ UNCHANGED <<fold, writes, truth>>

(* A run of parts becomes one, without its tombstones when the run is the  *)
(* whole list.                                                             *)
Compact(lo, hi) ==
  /\ lo < hi
  /\ parts' = SubSeq(parts, 1, lo - 1)
              \o <<Merge(SubSeq(parts, lo, hi), lo = 1 /\ hi = Len(parts))>>
              \o SubSeq(parts, hi + 1, Len(parts))
  /\ UNCHANGED <<mem, fold, writes, truth, committed>>

(* A part costs its rows and the length of its member, which is that of    *)
(* its sections.                                                           *)
Cost(part) ==
  LET lengths(columns, field) == FoldLeft(LAMBDA n, c : n + Len(c[field]), 0, columns)
  IN  [rows |-> part.n,
       bytes |-> Len(part.stream) + Len(part.restarts) + Len(part.tombs) + 2 * Len(part.dict)
                 + lengths(part.contents, "rids") + lengths(part.contents, "programs")
                 + lengths(part.cols, "rids") + lengths(part.cols, "vals") + lengths(part.cols, "dict")]

ValidBudget(budget) == budget.parts >= 2 /\ budget.rows > 0 /\ budget.bytes > 0

Plan(start, run) == [start |-> start, parts |-> run.parts, rows |-> run.rows, bytes |-> run.bytes]

\* (Mutant: the part that passes the budget is still taken.)
AdmitLast(budget, run, cost) ==
  LET rows == run.rows + cost.rows
      bytes == run.bytes + cost.bytes
  IN  IF run.over \/ run.parts = budget.parts THEN run
      ELSE [parts |-> run.parts + 1, rows |-> rows, bytes |-> bytes, over |-> rows > budget.rows \/ bytes > budget.bytes]

(* The next part of a run: the first that passes the budget ends it.       *)
Admit(budget, run, cost) ==
  LET rows == run.rows + cost.rows
      bytes == run.bytes + cost.bytes
  IN  IF run.over \/ run.parts = budget.parts THEN run
      ELSE IF rows > budget.rows \/ bytes > budget.bytes THEN [run EXCEPT !.over = TRUE]
      ELSE [parts |-> run.parts + 1, rows |-> rows, bytes |-> bytes, over |-> FALSE]

RunFrom(costs, start, budget) ==
  LET admit(run, cost) == Admit(budget, run, cost)
  IN  FoldLeft(admit, [parts |-> 0, rows |-> 0, bytes |-> 0, over |-> FALSE], SubSeq(costs, start, Len(costs)))

(* The neighbours a refusal names.                                         *)
SmallestPair(costs) ==
  LET pair(i) == Plan(i, [parts |-> 2, rows |-> costs[i].rows + costs[i + 1].rows, bytes |-> costs[i].bytes + costs[i + 1].bytes])
      smaller(p, q) == \/ p.bytes < q.bytes
                       \/ p.bytes = q.bytes /\ p.rows < q.rows
                       \/ p.bytes = q.bytes /\ p.rows = q.rows /\ p.start < q.start
      pairs == {pair(i) : i \in 1 .. Len(costs) - 1}
  IN  CHOOSE p \in pairs : \A q \in pairs \ {p} : smaller(p, q)

Outcome(kind, plan) == [kind |-> kind, plan |-> plan]

PlanCompaction(costs, budget) ==
  LET wider(best, start) ==
        LET run == RunFrom(costs, start, budget)
        IN  IF run.parts >= 2 /\ (best = <<>> \/ run.parts > best[1].parts) THEN <<Plan(start, run)>> ELSE best
      widest == FoldLeft(wider, <<>>, Upto(Len(costs) - 1))
  IN  IF Len(costs) < 2 THEN Outcome("nothing", <<>>)
      ELSE IF widest # <<>> THEN Outcome("plan", widest[1])
      ELSE Outcome("too small", SmallestPair(costs))

Costs == [i \in DOMAIN parts |-> Cost(parts[i])]

(* The runs, first and last part, each call merges: the one it is told,    *)
(* the oldest ones from a trigger on, all of them, or what fits a budget.  *)
MergeRange == {run \in (DOMAIN parts) \X (DOMAIN parts) : run[1] < run[2]}

MaybeCompact(trigger, run) == {r \in {<<1, Least({run, Len(parts)})>>} : Len(parts) >= trigger}

AutoCompact == {r \in {<<1, Len(parts)>>} : Len(parts) >= AutoCompactAt}

CompactBounded(budget) ==
  LET outcome == PlanCompaction(Costs, budget)
      plan == outcome.plan
  IN  IF ValidBudget(budget) /\ outcome.kind = "plan" THEN {<<plan.start, plan.start + plan.parts - 1>>} ELSE {}

Runs == MergeRange \cup AutoCompact \cup UNION {MaybeCompact(t, r) : t, r \in DOMAIN parts}
        \cup UNION {CompactBounded(b) : b \in Budgets}

(* The store is closed and opened: the window of recent pieces is empty.   *)
Reopen ==
  /\ mem = NoMem /\ DOMAIN fold.window # {} /\ scan.status = "idle"
  /\ fold' = [fold EXCEPT !.window = [h \in {} |-> 0]]
  /\ UNCHANGED <<parts, mem, writes, truth, committed, scan>>

----------------------------------------------------------------------------
(* The client.                                                             *)

(* A reader's scan stays on the parts it was opened on.                    *)
Ask(request) ==
  /\ scan.status = "idle" /\ scan' = [NoScan EXCEPT !.status = "open", !.request = request,
                !.view = IF request.source = "reader" THEN parts ELSE <<>>,
                !.start = IF request.source = "reader" THEN committed ELSE truth]
  /\ UNCHANGED <<parts, mem, fold, writes, truth, committed>>

Got(request, page) ==
  [scan EXCEPT !.pages = Append(@, [request |-> request, cursor |-> scan.cursor, page |-> page]),
               !.request = request, !.cursor = page.next,
               !.status = IF page.next = <<>> THEN "ended" ELSE "open"]

(* The client may change limits and projection between pages; a cursor of  *)
(* other bounds, direction or predicates is refused.                       *)
Page(request) ==
  /\ scan.status = "open" /\ request.source = scan.request.source
  /\ Fingerprint(request) = Fingerprint(scan.request)
  /\ scan' = LET reader == request.source = "reader"
             IN  Got(request, ScanPage(IF reader THEN scan.view ELSE parts, IF reader THEN NoMem ELSE mem,
                                       request, OpenPage(request, scan.cursor)))
  /\ UNCHANGED <<parts, mem, fold, writes, truth, committed>>

(* The client has its last page.  The store goes on only after this, which *)
(* no page can tell.                                                       *)
Leave ==
  /\ scan.status = "ended" /\ scan' = NoScan
  /\ UNCHANGED <<parts, mem, fold, writes, truth, committed>>

Next ==
  \/ \E r \in Inputs : Put(r) \/ Delete(r)
  \/ Flush
  \/ Len(parts) > 1 /\ During({}) /\ \E run \in Runs : Compact(run[1], run[2])
  \/ Reopen
  \/ \E r \in Requests : Ask(r) \/ Page(r)
  \/ Leave

Spec == Init /\ [][Next]_vars

----------------------------------------------------------------------------
(* Properties.  The reference is the last write of every id.               *)

Quiet == scan.status = "idle"

Live(view) == {id \in IdSet : ~view[id].tomb}

(* A record but for the empty literals an encoded program leaves out.      *)
Meaning(r) ==
  [tomb |-> r.tomb, attrs |-> r.attrs, contents |-> {[name |-> c.name, ops |-> Written(c.ops)] : c \in ToSet(r.contents)}]

Bounds == UNION {{q.from, q.to} : q \in Requests}

(* The pieces that the dictionaries and the window put at a place.         *)
PiecesAt(at) ==
  UNION {{e.hash : e \in {d \in ToSet(parts[i].dict) : d.loc = at}} : i \in DOMAIN parts}
  \cup {h \in DOMAIN fold.window : fold.window[h] = at}

(* What was read of a value is what was written under that name.           *)
IsContent(read, record, name) ==
  LET held == SelectSeq(record.contents, LAMBDA c : c.name = name)
      same(got, op) == got = op \/ (got[1] = "at" /\ op[1] = "piece" /\ PiecesAt(got[2]) = {op[2]})
      equal(got, ops) == Len(got) = Len(ops) /\ \A i \in DOMAIN got : same(got[i], ops[i])
  IN  Len(read) = Len(held) /\ \A k \in DOMAIN read : equal(read[k], Written(held[k].ops))

(* Every way the store has of answering which records there are gives the  *)
(* same answer: the lookup of one id (mod.rs 4658, read.rs 266), the list  *)
(* of all (read.rs 140, 467), the id scan of any range, direction and      *)
(* limit (read.rs 297) and the row count of explain (read.rs 118), for the *)
(* writer and for a reader of the committed parts.  Every piece a record   *)
(* refers to is found where the part that holds it says it is, and content *)
(* read by its name (mod.rs 4736) is put together of the very literals and *)
(* pieces that were written, from places that hold no other piece.         *)
ReadersAgree ==
  Quiet =>
    /\ \A id \in IdSet :
         /\ Meaning(Get(parts, mem, id)) = Meaning(IF truth[id].tomb THEN Absent ELSE truth[id])
         /\ Meaning(Get(parts, NoMem, id)) = Meaning(IF committed[id].tomb THEN Absent ELSE committed[id])
         /\ \A name \in {1, 2} :
              /\ IsContent(ContentOf(parts, mem, fold.window, id, name), truth[id], name)
              /\ IsContent(CommittedContent(parts, Locate(parts, id), name), committed[id], name)
         /\ \A h \in PiecesOf(truth[id]) : LocatePiece(parts, fold.window, h) \in 1 .. fold.tail
    /\ Ids(parts, mem) = Sorted(Live(truth)) /\ CommittedIds(parts) = Live(committed)
    /\ \A from, to \in Bounds : (from = <<>> \/ to = <<>> \/ ~Before(to, from)) =>
         LET within == Sorted({id \in Live(truth) : InBounds(id, from, to)})
             rows(i) == {r \in 1 .. parts[i].n : InBounds(IdsOf(parts[i])[r], from, to)}
         IN  /\ ScanIds(parts, mem, from, to, 9, FALSE) = within
             /\ ScanIds(parts, mem, from, to, 9, TRUE) = Reverse(within)
             /\ ScanIds(parts, mem, from, to, 1, FALSE) = SubSeq(within, 1, Least({1, Len(within)}))
             /\ \A i \in DOMAIN parts : ToSet(Upto(parts[i].n)) \cap RowsInRange(parts[i], from, to) = rows(i)
             /\ PhysicalScope(parts, mem, from, to).rows = Cardinality(UNION {{i} \X rows(i) : i \in DOMAIN parts})
    /\ \A i \in DOMAIN parts : \A entry \in ToSet(parts[i].dict) : FindPiece(parts[i], entry.hash) = entry.loc

(* What a part's names, dictionaries and zones say never hides a row that  *)
(* satisfies the predicate (part/mod.rs 1830, attrs.rs 528): the float     *)
(* that is not a number, the two zeros and a column of several types       *)
(* included.                                                               *)
PruningSound ==
  Quiet =>
    \A i \in DOMAIN parts : \A r \in 1 .. parts[i].n :
      LET row == RowAt(parts[i], r)
      IN  \A p \in UNION {ToSet(q.predicates) : q \in Requests} :
            ~row.tomb /\ Matches(row.id, row, p) => PartMayMatch(parts[i], <<p>>)

(* Merging parts in any run, one after the other or all at once, gives the *)
(* very part that a flush of the surviving records would have written: the *)
(* streaming builder (builder.rs) and the batch one (part/mod.rs 301)      *)
(* agree column by column, and with every piece an input knew kept; and    *)
(* every part satisfies all that open demands of one (part/mod.rs          *)
(* 696-1063), so the store can be opened again.                            *)
MergeIsBuild ==
  Quiet =>
    /\ \A i \in DOMAIN parts : Opens(parts[i])
    /\ \A lo, hi \in DOMAIN parts : \A drop \in BOOLEAN : lo < hi =>
         LET run == SubSeq(parts, lo, hi)
         IN  Merge(run, drop) = Build(Surviving(MergeGroups(run), drop), MergePieces(run))

(* A bounded compaction takes the longest run of neighbours within its     *)
(* budget, the oldest of several, and with it the tombstones of the whole  *)
(* list alone; it is refused only where no two neighbours fit, and the     *)
(* budget its refusal asks for is then enough.  So a client that goes on   *)
(* with one budget always gets to one part or to a refusal it can act on   *)
(* (mod.rs 4505).                                                          *)
CompactionsFit ==
  Quiet =>
    \A budget \in Budgets :
      LET costs == Costs
          rows(start, n) == FoldLeft(LAMBDA k, c : k + c.rows, 0, SubSeq(costs, start, start + n - 1))
          bytes(start, n) == FoldLeft(LAMBDA k, c : k + c.bytes, 0, SubSeq(costs, start, start + n - 1))
          fits(start, n) == n \in 2 .. budget.parts /\ rows(start, n) <= budget.rows /\ bytes(start, n) <= budget.bytes
          runs == {run \in (DOMAIN costs) \X (DOMAIN costs) : run[1] + run[2] - 1 <= Len(costs) /\ fits(run[1], run[2])}
          outcome == PlanCompaction(costs, budget)
      IN  /\ outcome.kind = "nothing" <=> Len(parts) < 2
          /\ outcome.kind = "plan" <=> runs # {}
          /\ outcome.kind = "plan" =>
               /\ <<outcome.plan.start, outcome.plan.parts>> \in runs
               /\ \A run \in runs : run[2] <= outcome.plan.parts
                                    /\ (run[2] = outcome.plan.parts => run[1] >= outcome.plan.start)
          /\ outcome.kind = "too small" =>
               PlanCompaction(costs, [parts |-> 2, rows |-> outcome.plan.rows, bytes |-> outcome.plan.bytes]).kind = "plan"

(* The rows of the pages so far, in the order the client got them.         *)
RowsSoFar == FlattenSeq([k \in DOMAIN scan.pages |-> scan.pages[k].page.rows])

Wanted(request) ==
  {id \in Live(scan.start) : InBounds(id, request.from, request.to)
                             /\ MatchesAll(id, scan.start[id], request.predicates)}

Precedes(a, b) == IF scan.request.reverse THEN Before(b, a) ELSE Before(a, b)

(* The pages together: each record once, in order, none that the scan did  *)
(* not ask for, and none missed up to the cursor, whatever the limits and  *)
(* whatever was flushed and merged in between; a record written during the *)
(* scan may be in either state.  Every cursor is beyond the one before, so *)
(* that a client that continues gets to the end; a page keeps its limits;  *)
(* and a full page has decoded no row beyond its last (scan.rs 703-710).   *)
PagesExact ==
  scan.pages # <<>> =>
    LET rows == RowsSoFar
        settled == Wanted(scan.request) \ scan.touched
        reached(id) == scan.cursor = <<>> \/ id = scan.cursor \/ Precedes(id, scan.cursor)
    IN  /\ \A k \in DOMAIN rows : k > 1 => Precedes(rows[k - 1].id, rows[k].id)
        /\ \A k \in DOMAIN rows : rows[k].id \in settled \cup scan.touched
        /\ \A id \in settled : reached(id) => \E k \in DOMAIN rows : rows[k].id = id
        /\ \A k \in DOMAIN scan.pages :
             LET asked == scan.pages[k].request
                 page == scan.pages[k].page
             IN  /\ Len(page.rows) <= asked.limit /\ page.examined <= asked.examined
                 /\ page.bytes > asked.bytes => Len(page.rows) = 1
                 /\ page.stop # "bytes" => page.ahead = 0
                 /\ scan.pages[k].cursor # <<>> /\ page.next # <<>> => Precedes(scan.pages[k].cursor, page.next)
                 /\ \A row \in ToSet(page.rows) :
                      row.id \notin scan.touched => row.shown = Shown(scan.start[row.id], asked)
=============================================================================
