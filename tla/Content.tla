------------------------------ MODULE Content ------------------------------
(***************************************************************************)
(* What the store's records are made of (src/src/store/mod.rs, refold.rs,  *)
(* fold/mod.rs).  A record names pieces; a piece's bytes lie in one block  *)
(* of the fold, found through the dedup window or the dictionary of a      *)
(* part, and a log frame carries only the bytes no one held before.  The   *)
(* module follows every piece through flush, merge, punch and refold, and  *)
(* through the replay of a log whose frames name pieces they do not carry. *)
(* The container is taken at its promise (Publication); failed barriers of *)
(* the log and its truncations are the matter of Store.                    *)
(***************************************************************************)
EXTENDS Records

CONSTANTS Pieces,       \* the parts a record is made of: a value is a set of them
          Unreadable,   \* a record whose bytes cannot be had
          Refused,      \* what a store that does not open shows
          Failing,      \* the calls that may report failure
          MaxCommits,   \* bound: publications
          MaxPending,   \* bound: frames in the log
          MaxWork,      \* bound: publications and frames in the log, when a frame is added
          MaxFailures,  \* bound: failed calls
          MaxCrashes    \* bound: power losses and process deaths

ASSUME ContentAssumption ==
    /\ Values \subseteq SUBSET Pieces
    /\ Unreadable \notin Values \cup {Absent} /\ Refused \notin [Ids -> Values \cup {Absent}]
    /\ Failing \subseteq {"fold", "prepare", "publish", "acknowledge"}
    /\ MaxCommits \in Nat /\ MaxPending \in Nat /\ MaxWork \in Nat /\ MaxFailures \in Nat /\ MaxCrashes \in Nat

VARIABLES current, floor,   \* the container: manifests with the blocks they name
          holes,            \* blocks whose bytes were deallocated, by generation
          wal, wal_synced,  \* frames of the log, how many are acknowledged
          opened, manifest, mem, requires_reopen, acknowledged,
                            \* the handle, and its fold:
          blocks,           \* all blocks, the open one last
          sealed,           \* the last one takes no more pieces
          forgotten,        \* blocks dropped from the block directory
          window,           \* the dedup window: pieces to blocks
          phase, attempted, \* where a publication stands
          promised,         \* history: views since the last acknowledgement
          failures, crashes

container == <<current, floor>>
log       == <<wal, wal_synced>>
fold      == <<blocks, sealed, forgotten, window>>
handle    == <<opened, manifest, mem, requires_reopen, acknowledged, fold>>
job       == <<phase, attempted>>
bounds    == <<failures, crashes>>
vars      == <<container, holes, log, handle, job, promised, bounds>>

-----------------------------------------------------------------------------
(* Manifests, and the pieces their rows name. *)

\* An empty dictionary or window.
None == [p \in {} |-> 0]

\* The pieces that rows name.
Named(rows) == UNION {rows[id] : id \in {i \in DOMAIN rows : rows[i] # Deleted}}

NoManifest == [next_seq |-> 0, parts |-> <<>>, gen |-> 0, blocks |-> <<>>, punched |-> {}]

\* read::locate: the newest part that has a row of id decides, if any does.
Owners(parts, id) == {i \in DOMAIN parts : id \in DOMAIN parts[i].rows}
Owner(parts, id)  == Max(Owners(parts, id))

NewestRow(parts, id) == parts[Owner(parts, id)].rows[id]

\* read::visibility: the ids whose deciding row lies in part i and is a record.
Visible(parts, i) ==
    {id \in DOMAIN parts[i].rows : Owner(parts, id) = i /\ parts[i].rows[id] # Deleted}

VisibleRows(parts, i) == [id \in Visible(parts, i) |-> parts[i].rows[id]]

LiveIds(parts) == UNION {Visible(parts, i) : i \in DOMAIN parts}

\* live_fold_pieces: the locations that visible rows need, each through the
\* dictionary of its own part.
LivePieces(parts) ==
    UNION {{<<parts[i].dict[p], p>> : p \in Named(VisibleRows(parts, i))} : i \in DOMAIN parts}

\* Fold::read_verified of a piece in block b, of a fold with the blocks bs
\* whose directory lacks the blocks gone.
Reads(m, bs, gone, b, p) ==
    /\ b \in DOMAIN bs /\ p \in bs[b]
    /\ b \notin m.punched \cup gone /\ <<m.gen, b>> \notin holes

\* locate_verified_piece: the window, then the newest part whose mapping is not
\* declared punched.
Locating(m, p) ==
    {i \in DOMAIN m.parts : p \in DOMAIN m.parts[i].dict /\ m.parts[i].dict[p] \notin m.punched}

Located(p) ==
    IF p \in DOMAIN window THEN window[p] ELSE manifest.parts[Max(Locating(manifest, p))].dict[p]

Known(p) == p \in DOMAIN window \/ Locating(manifest, p) # {}

-----------------------------------------------------------------------------
(* What a log adds to a manifest. *)

\* The pieces whose bytes the frames at the places fs carry.
Novel(l, fs) == UNION {l[i].novel : i \in fs}

\* verify_replay_identities, condition by condition: the order of sequences
\* (Replays), no piece carried twice, every piece carried before it is named or
\* held by a part.
NovelOnce(l) == \A i, j \in DOMAIN l : i # j => l[i].novel \cap l[j].novel = {}

Held(m, p) ==
    /\ Locating(m, p) # {}
    /\ Reads(m, m.blocks, {}, m.parts[Max(Locating(m, p))].dict[p], p)

References(m, l) ==
    \A i \in DOMAIN l : \A p \in Named(l[i].rows) :
        p \in Novel(l, 1 .. i) \/ Held(m, p)

\* The scan of the fold steps over damaged blocks only where they are declared.
ScansClean(m) == \A b \in DOMAIN m.blocks : <<m.gen, b>> \in holes => b \in m.punched

Opens(m, l) == ScansClean(m) /\ Replays(m, l) /\ NovelOnce(l) /\ References(m, l)

-----------------------------------------------------------------------------
(* What a reader sees. *)

\* Rows staged over a manifest; have are the pieces that staged rows can be read from.
BytesOf(m, staged, have, bs, gone) ==
    [id \in Ids |->
       IF id \in DOMAIN staged
       THEN IF staged[id] = Deleted THEN Absent
            ELSE IF staged[id] \subseteq have THEN staged[id] ELSE Unreadable
       ELSE IF id \notin LiveIds(m.parts) THEN Absent
            ELSE LET row  == NewestRow(m.parts, id)
                     dict == m.parts[Owner(m.parts, id)].dict
                 IN  IF \A p \in row : Reads(m, bs, gone, dict[p], p) THEN row ELSE Unreadable]

Recovered(m, l) ==
    IF Opens(m, l)
    THEN BytesOf(m, Replayed(m, l),
                 Novel(l, PendingAt(m, l)) \cup {p \in Pieces : Held(m, p)}, m.blocks, {})
    ELSE Refused

View ==
    IF opened
    THEN BytesOf(manifest, mem,
                 {p \in Pieces : Known(p) /\ Reads(manifest, blocks, forgotten, Located(p), p)},
                 blocks, forgotten)
    ELSE Recovered(current.content, wal)

-----------------------------------------------------------------------------
Container == INSTANCE Publication WITH Content <- {NoManifest}, Nothing <- NoManifest

Init ==
    /\ Container!Init /\ holes = {}
    /\ wal = <<>> /\ wal_synced = 0
    /\ opened = TRUE /\ manifest = NoManifest /\ mem = NoRows
    /\ requires_reopen = FALSE /\ acknowledged = TRUE
    /\ blocks = <<>> /\ sealed = TRUE /\ forgotten = {} /\ window = None
    /\ phase = "idle" /\ attempted = NoManifest
    /\ promised = {View}
    /\ failures = 0 /\ crashes = 0

Fails(call) ==
    /\ call \in Failing
    /\ failures < MaxFailures /\ failures' = failures + 1
    /\ UNCHANGED crashes

Succeeds == UNCHANGED bounds

Crashes == crashes < MaxCrashes /\ crashes' = crashes + 1 /\ UNCHANGED failures

EnsureWriterUsable == opened /\ phase = "idle" /\ ~requires_reopen

-----------------------------------------------------------------------------
(* Mutations. *)

\* Fold::put_hashed of pieces the window lacks: some join the open block, the
\* others the next one, if the open one is sealed on the way.
Appends(bs, closed, pieces) ==
    IF pieces = {} THEN {[blocks |-> bs, at |-> None]}
    ELSE LET n    == Len(bs)
             here == IF closed THEN {} ELSE (SUBSET pieces) \ {{}}
             joined(s) ==
                 LET grown == [bs EXCEPT ![n] = @ \cup s]
                 IN  [blocks |-> IF s = pieces THEN grown ELSE Append(grown, pieces \ s),
                      at     |-> [p \in pieces |-> IF p \in s THEN n ELSE n + 1]]
             \* all of them in one new block, or in two
             split(s) ==
                 [blocks |-> IF s = pieces THEN Append(bs, s) ELSE bs \o <<s, pieces \ s>>,
                  at     |-> [p \in pieces |-> IF p \in s THEN n + 1 ELSE n + 2]]
         IN  {joined(s) : s \in here} \cup {split(s) : s \in (SUBSET pieces) \ {{}}}

\* fold_piece of each piece: a hit is noted in the window, the rest is appended.
Folds(pieces) ==
    LET new == {p \in pieces : ~Known(p)}
    IN  \E a \in Appends(blocks, sealed, new) :
            /\ blocks' = a.blocks
            /\ sealed' = (sealed /\ new = {})
            /\ window' = Over(Over([p \in pieces \ new |-> Located(p)], a.at), window)
            /\ UNCHANGED forgotten

CanStage ==
    /\ EnsureWriterUsable
    /\ Len(wal) < MaxPending /\ manifest.next_seq < MaxCommits /\ current.seq + Len(wal) < MaxWork

\* (Mutant: a refused mutation leaves the handle as it is.)
StagesUnpoisoned(rows) ==
    /\ CanStage
    /\ UNCHANGED <<container, holes, wal_synced, opened, manifest, acknowledged, job>>
    /\ \/ /\ Folds(Named(rows))
          /\ wal' = Append(wal, [seq |-> manifest.next_seq + 1, rows |-> rows,
                                 novel |-> {p \in Named(rows) : ~Known(p)}])
          /\ mem' = Over(mem, rows)
          /\ promised' = promised \cup {View'}
          /\ Succeeds
          /\ UNCHANGED requires_reopen
       \/ /\ Fails("fold")
          /\ \E some \in SUBSET Named(rows) : Folds(some)
          /\ UNCHANGED <<wal, mem, promised, requires_reopen>>

\* put, put_record, delete and apply: the pieces are folded, one frame names
\* them all and carries the new ones, then mem has the rows.  When folding or
\* the append is refused half way, pieces are in the fold that no frame owns.
Stages(rows) ==
    /\ CanStage
    /\ UNCHANGED <<container, holes, wal_synced, opened, manifest, acknowledged, job>>
    /\ \/ /\ Folds(Named(rows))
          /\ wal' = Append(wal, [seq |-> manifest.next_seq + 1, rows |-> rows,
                                 novel |-> {p \in Named(rows) : ~Known(p)}])
          /\ mem' = Over(mem, rows)
          /\ promised' = promised \cup {View'}
          /\ Succeeds
          /\ UNCHANGED requires_reopen
       \/ /\ Fails("fold") /\ Named(rows) # {}
          /\ \E some \in SUBSET Named(rows) : Folds(some)
          /\ requires_reopen' = TRUE
          /\ UNCHANGED <<wal, mem, promised>>

AcknowledgesCurrent ==
    IF acknowledged THEN UNCHANGED container ELSE Container!Acknowledge

Sync ==
    /\ EnsureWriterUsable
    /\ \/ /\ AcknowledgesCurrent /\ acknowledged' = TRUE
          /\ wal_synced' = Len(wal) /\ promised' = {View}
          /\ Succeeds
       \/ /\ ~acknowledged /\ Fails("acknowledge")
          /\ UNCHANGED <<container, acknowledged, wal_synced, promised>>
    /\ UNCHANGED <<holes, wal, opened, manifest, mem, requires_reopen, fold, job>>

-----------------------------------------------------------------------------
(* Publications.  Each seals the fold and names all its blocks. *)

Seals(m) == [m EXCEPT !.blocks = blocks]

Publishes(m, kind) ==
    /\ current.seq < MaxCommits
    /\ \/ /\ Container!Publish(m)
          /\ phase' = kind /\ attempted' = m
          /\ Succeeds
          /\ UNCHANGED requires_reopen
       \/ /\ Fails("prepare")
          /\ requires_reopen' = (kind # "refold")
          /\ UNCHANGED <<container, job>>
    /\ UNCHANGED <<holes, log, opened, manifest, mem, acknowledged, fold, promised>>

Flushed ==
    LET seq == manifest.next_seq + 1
    IN  [Seals(manifest) EXCEPT
           !.next_seq = seq,
           !.parts = Append(@, [lo |-> seq, hi |-> seq, rows |-> mem,
                                dict |-> [p \in Named(mem) |-> Located(p)]])]

FlushPublishes ==
    /\ EnsureWriterUsable /\ mem # NoRows
    /\ \A p \in Named(mem) : Known(p)
    /\ Publishes(Flushed, "flush")

\* The dictionary of a merged run keeps every piece an input locates in a block
\* that is not punched, the newest mapping of each.
MergedDict(parts, lo, len) ==
    LET usable(p) == {i \in lo .. lo + len - 1 : p \in DOMAIN parts[i].dict
                                                   /\ parts[i].dict[p] \notin manifest.punched}
    IN  [p \in {q \in Pieces : usable(q) # {}} |-> parts[Max(usable(p))].dict[p]]

Merged(lo, len) ==
    LET parts == manifest.parts
        part  == [lo |-> parts[lo].lo, hi |-> parts[lo + len - 1].hi,
                  rows |-> MergedRows(parts, lo, len), dict |-> MergedDict(parts, lo, len)]
    IN  [Seals(manifest) EXCEPT !.parts = Spliced(@, part, lo, len)]

\* location_is_usable asks the block directory before the punched ranges: a
\* block this handle punched is an error, and the merge is abandoned.
MergeBuilds(lo, len) ==
    \A i \in lo .. lo + len - 1 : \A p \in DOMAIN manifest.parts[i].dict :
        manifest.parts[i].dict[p] \notin forgotten

MergeRange(lo, len) ==
    /\ EnsureWriterUsable
    /\ len >= 2 /\ lo + len - 1 <= Len(manifest.parts)
    /\ MergeBuilds(lo, len)
    /\ Publishes(Merged(lo, len), "merge")

\* Every block of the directory in which no visible row needs a piece.
Dead == DOMAIN blocks \ (forgotten \cup {l[1] : l \in LivePieces(manifest.parts)})

\* (Mutant: staged records are not asked.)
PunchableStaged == EnsureWriterUsable /\ Dead # {}

Punchable == EnsureWriterUsable /\ mem = NoRows /\ Dead # {}

\* (Mutant: the holes follow a declaration nobody acknowledged.)
PunchesDeclaredEarly ==
    /\ Punchable /\ Dead \subseteq manifest.punched
    /\ phase' = "punching"
    /\ UNCHANGED <<container, holes, log, opened, manifest, mem, requires_reopen, acknowledged,
                   fold, attempted, promised, bounds>>

Declared == [Seals(manifest) EXCEPT !.punched = @ \cup Dead]

\* punch_unreferenced declares the dead blocks in a manifest of their own ...
PunchDeclares ==
    /\ Punchable /\ ~(Dead \subseteq manifest.punched)
    /\ Publishes(Declared, "punch")

\* ... or finds them declared, and sees that a power loss cannot take that back.
PunchesDeclared ==
    /\ Punchable /\ Dead \subseteq manifest.punched
    /\ \/ /\ AcknowledgesCurrent /\ acknowledged' = TRUE
          /\ phase' = "punching"
          /\ Succeeds
       \/ /\ ~acknowledged /\ Fails("acknowledge")
          /\ UNCHANGED <<container, acknowledged, phase>>
    /\ UNCHANGED <<holes, log, opened, manifest, mem, requires_reopen, fold, attempted, promised>>

\* Fold::punch_blocks, up to where it is cancelled.
PunchBlocks ==
    /\ opened /\ phase = "punching"
    /\ \E done \in SUBSET Dead :
          /\ holes' = holes \cup {<<manifest.gen, b>> : b \in done}
          /\ forgotten' = forgotten \cup done
    /\ phase' = "idle"
    /\ Succeeds
    /\ UNCHANGED <<container, log, opened, manifest, mem, requires_reopen, acknowledged,
                   blocks, sealed, window, attempted, promised>>

-----------------------------------------------------------------------------
(* The liveness report. *)

\* Fold::block_inventory, but for what is declared punched; the open block has no
\* frame yet.
Inventory == DOMAIN blocks \ (forgotten \cup manifest.punched \cup IF sealed THEN {} ELSE {Len(blocks)})

\* content_liveness, a piece counted as one byte: it fails where a live piece does
\* not read back or its block is not in the inventory.
ContentLiveness ==
    LET live  == LivePieces(manifest.parts)
        hosts == {l[1] : l \in live}
    IN  [answers     |-> /\ \A l \in live : Reads(manifest, blocks, forgotten, l[1], l[2])
                         /\ hosts \subseteq Inventory,
         reclaimable |-> Inventory \ hosts,
         stranded    |-> Cardinality({l \in hosts \X Pieces : l[2] \in blocks[l[1]]} \ live)]

-----------------------------------------------------------------------------
(* Refold. *)

\* plan_refold: each wanted piece, at the location its oldest owner gives.
Wanted == {l[2] : l \in LivePieces(manifest.parts)}

OldLocation(p) ==
    LET owners == {i \in DOMAIN manifest.parts : p \in Named(VisibleRows(manifest.parts, i))}
    IN  manifest.parts[Min(owners)].dict[p]

\* (Mutant: whatever a dictionary names is copied.)
CopiesDictionaries ==
    Appends(<<>>, TRUE, UNION {DOMAIN manifest.parts[i].dict : i \in DOMAIN manifest.parts})

\* The new generation: the wanted pieces in fold order, in one block or two.
Copies ==
    {a \in Appends(<<>>, TRUE, Wanted) :
       \A p, q \in Wanted : OldLocation(p) < OldLocation(q) => a.at[p] <= a.at[q]}

\* The members of a set of places in order.
InOrder(ps) == [k \in 1 .. Cardinality(ps) |-> CHOOSE i \in ps : Cardinality({j \in ps : j < i}) = k - 1]

\* The parts that keep rows; the interval of an eliminated part goes to the next
\* survivor, or to the last.  If none survives, one empty part spans them all.
RefoldedParts(at) ==
    LET old  == manifest.parts
        kept == InOrder({i \in DOMAIN old : Visible(old, i) # {}})
        lo(k) == IF k = 1 THEN old[1].lo ELSE old[kept[k - 1]].hi + 1
        hi(k) == IF k = Len(kept) THEN old[Len(old)].hi ELSE old[kept[k]].hi
    IN  IF kept = <<>>
        THEN <<[lo |-> old[1].lo, hi |-> old[Len(old)].hi, rows |-> NoRows, dict |-> None]>>
        ELSE [k \in DOMAIN kept |->
               [lo |-> lo(k), hi |-> hi(k), rows |-> VisibleRows(old, kept[k]),
                dict |-> [p \in Named(VisibleRows(old, kept[k])) |-> at[p]]]]

Refolded(copy) ==
    [manifest EXCEPT !.parts = RefoldedParts(copy.at), !.gen = @ + 1, !.blocks = copy.blocks, !.punched = {}]

Refold ==
    /\ EnsureWriterUsable /\ mem = NoRows /\ manifest.parts # <<>>
    /\ \A l \in LivePieces(manifest.parts) : Reads(manifest, blocks, forgotten, l[1], l[2])
    /\ \E copy \in Copies : Publishes(Refolded(copy), "refold")

-----------------------------------------------------------------------------
(* Outcomes. *)

\* (Mutant: the window outlives the flush it was for.)
AdoptsKeepsWindow ==
    /\ manifest' = attempted
    /\ mem' = IF phase = "flush" THEN NoRows ELSE mem
    /\ IF phase = "refold"
       THEN blocks' = attempted.blocks /\ forgotten' = {} /\ window' = None
       ELSE UNCHANGED <<blocks, forgotten, window>>
    /\ sealed' = TRUE
    /\ UNCHANGED <<opened, requires_reopen>>

\* The pieces of a refolded generation, which stay in its fold's window.
Remapped(m) == LET at(p) == CHOOSE b \in DOMAIN m.blocks : p \in m.blocks[b]
               IN  [p \in UNION {m.blocks[b] : b \in DOMAIN m.blocks} |-> at(p)]

\* The handle takes over what it published; a flush releases the window, a
\* refold brings a fold of its own.
Adopts ==
    /\ manifest' = attempted
    /\ mem' = IF phase = "flush" THEN NoRows ELSE mem
    /\ IF phase = "refold"
       THEN blocks' = attempted.blocks /\ forgotten' = {} /\ window' = Remapped(attempted)
       ELSE /\ window' = IF phase = "flush" THEN None ELSE window
            /\ UNCHANGED <<blocks, forgotten>>
    /\ sealed' = TRUE
    /\ UNCHANGED <<opened, requires_reopen>>

\* The last barrier of a publication, and how each operation goes on from it.
FinalBarrier ==
    /\ opened /\ phase \in {"flush", "merge", "punch", "refold"}
    /\ \/ /\ Container!Acknowledge
          /\ Adopts /\ acknowledged' = TRUE
          /\ phase' = CASE phase = "flush" -> "settle" [] phase = "punch" -> "punching"
                        [] OTHER -> "idle"
          /\ promised' = IF phase = "flush" THEN {View} ELSE promised
          /\ Succeeds
       \/ /\ Fails("publish")
          /\ \/ Adopts /\ acknowledged' = FALSE
             \/ requires_reopen' = TRUE /\ UNCHANGED <<opened, manifest, mem, acknowledged, fold>>
          /\ phase' = "idle"
          /\ UNCHANGED <<container, promised>>
    /\ UNCHANGED <<holes, log, attempted>>

TruncatesLog ==
    /\ wal' = <<>> /\ wal_synced' = 0
    /\ UNCHANGED <<holes, opened, manifest, mem, requires_reopen, fold, attempted, promised>>

FlushTruncates ==
    /\ opened /\ phase = "settle" /\ phase' = "idle"
    /\ TruncatesLog
    /\ UNCHANGED <<container, acknowledged, bounds>>

\* A flush with nothing to publish settles the log an earlier one left.
FlushSettles ==
    /\ EnsureWriterUsable /\ mem = NoRows /\ wal # <<>>
    /\ AcknowledgesCurrent /\ acknowledged' = TRUE
    /\ TruncatesLog
    /\ UNCHANGED <<phase, bounds>>

-----------------------------------------------------------------------------
(* Crashes and opening. *)

Closed ==
    /\ opened' = FALSE
    /\ manifest' = NoManifest /\ mem' = NoRows
    /\ requires_reopen' = FALSE /\ acknowledged' = FALSE
    /\ blocks' = <<>> /\ sealed' = TRUE /\ forgotten' = {} /\ window' = None
    /\ phase' = "idle" /\ attempted' = NoManifest

\* The log is cut between frames, behind what was acknowledged.  A process death
\* keeps what reached the file, which the buffer decides: any of these cuts.
Cut ==
    /\ \E k \in wal_synced .. Len(wal) : wal' = SubSeq(wal, 1, k)
    /\ UNCHANGED holes

ProcessDeath ==
    /\ opened /\ Closed
    /\ Cut
    /\ Crashes
    /\ UNCHANGED <<container, wal_synced, promised>>

PowerLoss ==
    /\ Container!PowerLoss
    /\ Closed
    /\ Cut /\ wal_synced' = Len(wal')
    /\ promised' = {View'}
    /\ Crashes

\* open_file: novel bytes of frames to be replayed go into the fold again, those
\* a part locates do not.
Open ==
    /\ ~opened /\ Opens(current.content, wal)
    /\ LET m       == current.content
           pending == PendingAt(m, wal)
       IN  /\ opened' = TRUE /\ manifest' = m
           /\ mem' = Replayed(m, wal)
           /\ \E a \in Appends(m.blocks, TRUE, {p \in Novel(wal, pending) : Locating(m, p) = {}}) :
                 blocks' = a.blocks /\ window' = a.at /\ sealed' = (a.at = None)
           /\ forgotten' = {}
    /\ Succeeds
    /\ UNCHANGED <<container, holes, log, requires_reopen, acknowledged, job, promised>>

-----------------------------------------------------------------------------
Mutates == \E rows \in Rows \ {NoRows} : Stages(rows)

Flushes == FlushPublishes \/ FlushTruncates \/ FlushSettles

Maintains ==
    \/ \E lo, len \in 1 .. MaxCommits : MergeRange(lo, len)
    \/ PunchDeclares \/ PunchesDeclared \/ PunchBlocks
    \/ Refold

Next ==
    \/ Mutates \/ Sync \/ Flushes \/ Maintains \/ FinalBarrier
    \/ ProcessDeath \/ PowerLoss \/ Open

Spec == Init /\ [][Next]_vars

-----------------------------------------------------------------------------
(* Properties. *)

\* Manifest::validate over the parts, every dictionary and every punched range
\* within the fold.
IsManifest(m) ==
    LET hi(i) == IF i = 0 THEN 0 ELSE m.parts[i].hi
    IN  /\ m.blocks \in Seq(SUBSET Pieces) /\ m.punched \subseteq DOMAIN m.blocks
        /\ m.next_seq = hi(Len(m.parts))
        /\ \A i \in DOMAIN m.parts :
              /\ m.parts[i].lo = hi(i - 1) + 1 /\ m.parts[i].lo <= hi(i)
              /\ m.parts[i].rows \in Rows
              /\ \A p \in DOMAIN m.parts[i].dict : m.parts[i].dict[p] \in DOMAIN m.blocks

\* Whatever state a reader selects, or a power loss leaves selected, its manifest
\* passes Manifest::validate, a refolded one included, its fold scans to the end
\* and every record it shows can be read byte for byte through the dictionary of
\* its own part: no operation frees, punches or forgets a block that the current
\* manifest or its undurable predecessor needs.  Nor is the liveness report ever
\* refused by the handle that did all that.
AuthorityReadable ==
    /\ \A m \in {current.content, floor.content} :
          IsManifest(m) /\ ScansClean(m) /\ \A l \in LivePieces(m.parts) : Reads(m, m.blocks, {}, l[1], l[2])
    /\ opened /\ phase = "idle" /\ mem = NoRows => ContentLiveness.answers

\* A log that follows one manifest only, cut anywhere behind its acknowledged
\* frames, opens over it: whatever was deduplicated against a part, the window
\* or an earlier frame is still held when the frame is replayed.  The same
\* during a flush, for the log and the manifest that has just published it.
FreshLogReopens ==
    \A m \in {current.content, floor.content} :
        (\/ \A i \in DOMAIN wal : Pending(m, wal[i])
         \/ phase \in {"flush", "settle"} /\ \A i \in DOMAIN wal : Redundant(m, wal[i]))
        => \A k \in wal_synced .. Len(wal) : Opens(m, SubSeq(wal, 1, k))

\* The map of ids to bytes, as callers and crashes see it, keeps the promise of
\* the store: what was acknowledged comes back with every byte of it.
Promise == INSTANCE DurableMap WITH Views <- Maps,
                                    Empty <- [id \in Ids |-> Absent],
                                    view <- View
ImplementsDurableMap == Promise!Spec

\* No flush, merge, punch or refold changes a byte of what callers see, whether
\* it succeeds, fails or stops half way.  And maintenance leaves what the report
\* of liveness says it must: no dead block after a punch, and after a refold none
\* and no dead piece beside a live one.
MaintenanceInvisible ==
    [][/\ Flushes \/ Maintains \/ FinalBarrier => View' = View
       /\ PunchBlocks => ContentLiveness'.reclaimable = {}
       /\ FinalBarrier /\ phase = "refold" /\ manifest' = attempted =>
             ContentLiveness'.reclaimable = {} /\ ContentLiveness'.stranded = 0]_vars

=============================================================================
