------------------------------ MODULE Retention ------------------------------
(***************************************************************************)
(* What a store file holds beside its current state, and how it is checked *)
(* and recovered (src/src/store/mod.rs): MANIFEST and its retained copies, *)
(* the parts and fold generations any of them names, the sweep that frees  *)
(* the others, the views at retained revisions, verification, manifest     *)
(* promotion, and a backup put in the place of its store.                  *)
(* A publication is one step (Container.tla), the log is left out          *)
(* (Store.tla).  Each flush that puts a record writes one block; records   *)
(* are told apart by the publication that wrote them, its stamp, and so    *)
(* are the bytes of manifests and parts.                                   *)
(***************************************************************************)
EXTENDS Integers, SequencesExt, TLC

CONSTANTS Ids,
          ManifestRetain,  \* MANIFEST_RETAIN
          SegmentBlocks,   \* blocks a fold segment has room for
          MaxStamps,       \* bound: publications
          MaxDamage        \* bound: members that rot or are overwritten

ASSUME RetentionAssumption ==
    /\ ManifestRetain \in Nat \ {0} /\ SegmentBlocks \in Nat \ {0}
    /\ MaxStamps \in Nat /\ MaxDamage \in Nat

VARIABLES manifest, retained,   \* MANIFEST, and MANIFEST.<commit> by its commit
          parts,                \* part members, by name
          fold,                 \* the blocks of each generation, in the order of their ids
          sidecars,             \* fold segments that have a directory member
          opened, held,         \* the writer and the manifest it holds
          shown,                \* history: what each publication showed
          hurt, damage          \* history: damage not repaired since, and how often

members == <<manifest, retained, parts, fold, sidecars>>
handle  == <<opened, held>>
damages == <<hurt, damage>>
vars    == <<members, handle, shown, damages>>

Absent     == 0    \* no record; also the row of a tombstone
Gone       == -1   \* a record whose piece was punched
Unreadable == -2
NoDigest   == 0
Garbage    == -1   \* the digest of bytes that are no manifest

-----------------------------------------------------------------------------
(* Manifests. *)

\* Manifest::default, which no file holds.
Origin == [commit |-> 0, parts |-> <<>>, gen |-> 0, tail |-> 0, punched |-> {},
           prev |-> NoDigest, stamp |-> 0]

File(m) == [m |-> m, ok |-> TRUE]
Digest(file) == IF file.ok THEN file.m.stamp ELSE Garbage

NextSeq(m) == IF m.parts = <<>> THEN 0 ELSE m.parts[Len(m.parts)].name.hi

NamesOf(m) == {m.parts[i].name : i \in DOMAIN m.parts}

\* Manifest::validate.
Valid(m) ==
    /\ m.commit > 0 /\ (m.commit = 1 <=> m.prev = NoDigest)
    /\ \A i \in DOMAIN m.parts :
          LET n == m.parts[i].name
          IN  /\ n.refold \in {0, m.gen} /\ n.lo <= n.hi
              /\ n.lo = (IF i = 1 THEN 1 ELSE m.parts[i - 1].name.hi + 1)
    /\ IsInjective([i \in DOMAIN m.parts |-> m.parts[i].name])

Parses(file) == file.ok /\ Valid(file.m)

HasManifest == manifest # File(Origin)
Current == manifest.m

\* Every member is named by the current manifest or a retained one.
NamespaceValid ==
    LET authorities == {Current} \cup {retained[c].m : c \in DOMAIN retained}
    IN  /\ \A c \in DOMAIN retained : Parses(retained[c]) /\ retained[c].m.commit = c
        /\ DOMAIN parts \subseteq UNION {NamesOf(m) : m \in authorities}
        /\ DOMAIN fold \subseteq (IF HasManifest THEN {m.gen : m \in authorities} ELSE {})
        /\ {s[1] : s \in sidecars} \subseteq DOMAIN fold

-----------------------------------------------------------------------------
(* Opening the fold and the parts that a manifest names. *)

SegmentOf(n) == IF n = 0 THEN 0 ELSE (n - 1) \div SegmentBlocks

\* A sidecar is offered for a segment that the tail does not cut, and spares its scan.
Whole(g, s, tail) == Min({(s + 1) * SegmentBlocks, Len(fold[g])}) <= tail

Described(g, b, tail) == <<g, SegmentOf(b)>> \in sidecars /\ Whole(g, SegmentOf(b), tail)

\* A scan steps over a damaged block only where it is declared punched.
Sound(g, b, punched) == b \notin punched => fold[g][b].state = "ok"

NoOrphans(g) == \A s \in sidecars : s[1] = g => s[2] <= SegmentOf(Len(fold[g]))

\* The fold of a generation up to a tail, under a declaration of punched blocks.
FoldOpens(m, punched) ==
    /\ m.gen \in DOMAIN fold /\ m.tail <= Len(fold[m.gen])
    /\ NoOrphans(m.gen)
    /\ \A b \in 1 .. m.tail : ~Described(m.gen, b, m.tail) => Sound(m.gen, b, punched)

\* What is declared punched at a retained revision is what is declared now.
Declared(m) == Current.punched

PartsOpen(m) == NamesOf(m) \subseteq DOMAIN parts

\* open_read_container_handle.
OpensCurrent ==
    IF ~HasManifest THEN DOMAIN retained \cup DOMAIN parts \cup DOMAIN fold = {}
    ELSE /\ Parses(manifest) /\ NamespaceValid
         /\ FoldOpens(Current, Current.punched)
         /\ Len(fold[Current.gen]) = Current.tail
         /\ \A b \in Current.punched : b <= Current.tail
         /\ PartsOpen(Current)

-----------------------------------------------------------------------------
(* What is read through a manifest. *)

\* A piece, by its stamp and the block its part's dictionary gives for it.
Piece(m, punched, stamp, b) ==
    IF b \in punched THEN Gone
    ELSE IF b <= m.tail /\ fold[m.gen][b] = [stamp |-> stamp, state |-> "ok"] THEN stamp
    ELSE Unreadable

Owners(m, id) == {i \in DOMAIN m.parts : id \in DOMAIN parts[m.parts[i].name].rows}

Owner(m, id) == parts[m.parts[Max(Owners(m, id))].name]

\* The deciding row of each id.
Deciding(m) == [id \in Ids |-> IF Owners(m, id) = {} THEN Absent ELSE Owner(m, id).rows[id]]

ViewAt(m, punched) ==
    [id \in Ids |->
       LET row == Deciding(m)[id]
       IN  IF Owners(m, id) # {} /\ ~Owner(m, id).ok THEN Unreadable
           ELSE IF row = Absent THEN Absent ELSE Piece(m, punched, row, Owner(m, id).dict[row])]

View == ViewAt(Current, Current.punched)

\* Every part has the digest its manifest pins.
DigestsMatch(m) ==
    \A i \in DOMAIN m.parts :
        LET part == parts[m.parts[i].name] IN part.ok /\ part.digest = m.parts[i].digest

\* verify_piece_dictionary of every part: each entry is declared punched or reads back.
DictionariesVerify(m, punched) ==
    \A n \in NamesOf(m) : \A stamp \in DOMAIN parts[n].dict :
        Piece(m, punched, stamp, parts[n].dict[stamp]) # Unreadable

\* Fold::scrub: the frames of every sealed segment, to its end.
Scrubs(m, punched) ==
    \A b \in 1 .. m.tail : SegmentOf(b) < SegmentOf(m.tail) => Sound(m.gen, b, punched)

-----------------------------------------------------------------------------
(* The retained chain. *)

\* File is the predecessor that m names.
Precedes(file, m) ==
    /\ m.prev = Digest(file) /\ file.m.commit = m.commit - 1 /\ file.m.gen = m.gen
    /\ NextSeq(file.m) <= NextSeq(m) /\ file.m.tail <= m.tail

Chained(m, deep) == PartsOpen(m) /\ (deep => DigestsMatch(m))

\* verify_chain_container_scoped; a backup has no retained copy, only MANIFEST.
ChainVerifies(deep) ==
    LET commits == DOMAIN retained
    IN  /\ HasManifest => Parses(manifest)
        /\ NamespaceValid
        /\ Cardinality(commits) <= ManifestRetain
        /\ \A c \in commits :
              /\ HasManifest => retained[c].m.gen = Current.gen
              /\ c # Min(commits) => c - 1 \in commits /\ Precedes(retained[c - 1], retained[c].m)
              /\ Chained(retained[c].m, deep)
        /\ IF commits # {} THEN manifest = retained[Max(commits)] ELSE Chained(Current, deep)

\* open_retained_from_container, under the current declaration.
RetainedFoldOpens(c) ==
    LET m == retained[c].m
    IN  m.gen = Current.gen /\ FoldOpens(m, Declared(m)) /\ PartsOpen(m)

\* open_read_container_at.
RetainedOpens(c) ==
    /\ Parses(retained[c]) /\ Parses(manifest) /\ NamespaceValid
    /\ ChainVerifies(TRUE) /\ RetainedFoldOpens(c)

RetainedView(c) == ViewAt(retained[c].m, Declared(retained[c].m))

Readable(view) == Unreadable \notin {view[id] : id \in Ids}

RetainedVerifies ==
    \A c \in DOMAIN retained :
        /\ RetainedFoldOpens(c)
        /\ DictionariesVerify(retained[c].m, Declared(retained[c].m))
        /\ Readable(RetainedView(c))

\* Member checksums, but for segments that hold a punched block.
MembersVerify ==
    /\ manifest.ok /\ \A c \in DOMAIN retained : retained[c].ok
    /\ \A n \in DOMAIN parts : parts[n].ok
    /\ \A g \in DOMAIN fold : \A b \in DOMAIN fold[g] :
          fold[g][b].state # "ok" =>
              g = Current.gen /\ SegmentOf(b) \in {SegmentOf(p) : p \in Current.punched}

\* verify_container_artifact.
Verifies ==
    /\ MembersVerify /\ ChainVerifies(TRUE) /\ OpensCurrent
    /\ HasManifest =>
          /\ RetainedVerifies
          /\ Scrubs(Current, Current.punched) /\ DictionariesVerify(Current, Current.punched)
          /\ Readable(View) /\ Gone \notin {View[id] : id \in Ids}

-----------------------------------------------------------------------------
(* The writer. *)

Init ==
    /\ manifest = File(Origin) /\ retained = <<>> /\ parts = <<>> /\ fold = <<>>
    /\ sidecars = {}
    /\ opened = FALSE /\ held = Origin
    /\ shown = <<>> /\ hurt = FALSE /\ damage = 0

\* Opening checks the chain; deep opening reads every part as well.
WriterOpens(deep) == OpensCurrent /\ ChainVerifies(deep) /\ (deep => Verifies)

Open(deep) ==
    /\ ~opened /\ WriterOpens(deep)
    /\ opened' = TRUE /\ held' = Current
    /\ UNCHANGED <<members, shown, damages>>

\* Closed, dropped, killed, or refused a publication, because the sweep cannot read
\* a retained copy: the handle must be reopened.
Close == opened /\ opened' = FALSE /\ held' = Origin /\ UNCHANGED <<members, shown, damages>>

Clock == Len(shown)

\* The copies that commit_into_container does not prune.
Pruned(commit) == {c \in DOMAIN retained : c + ManifestRetain > commit}

\* (Mutant: the sweep asks the live manifest only.)
SweptToLive(kept, m) == {m}

\* The manifests that sweep_unreachable_container keeps members for.
Swept(kept, m) == {m} \cup {retained[c].m : c \in kept}

\* commit_into_container and the sweep: MANIFEST and its retained copy, chained to
\* whatever bytes MANIFEST held, and every member that kept manifests name.
Publishes(m, kept, newParts, newFold, done) ==
    LET next  == [m EXCEPT !.commit = held.commit + 1, !.stamp = Clock + 1,
                           !.prev = IF HasManifest THEN Digest(manifest) ELSE NoDigest]
        named == Swept(kept, next)
        gens  == {n.gen : n \in named}
        first == IF next.gen = held.gen THEN SegmentOf(held.tail) ELSE 0
    IN  /\ Clock < MaxStamps
        /\ \A c \in kept : Parses(retained[c])
        /\ manifest' = File(next)
        /\ retained' = [c \in kept \cup {next.commit} |->
                          IF c = next.commit THEN File(next) ELSE retained[c]]
        /\ parts' = Restrict(newParts, UNION {NamesOf(n) : n \in named} \cap DOMAIN newParts)
        /\ fold' = Restrict(newFold, gens)
        /\ sidecars' = {s \in sidecars : s[1] \in gens}
                       \cup ({next.gen} \X (first .. SegmentOf(next.tail)))
        /\ IF done THEN opened' = TRUE /\ held' = next ELSE opened' = FALSE /\ held' = Origin
        /\ shown' = Append(shown, Deciding(Current)')
        /\ UNCHANGED damages

Name(r, lo, hi) == [refold |-> r, lo |-> lo, hi |-> hi]

Reference(n) == [name |-> n, digest |-> Clock + 1]

NewPart(rows, dict) == [rows |-> rows, dict |-> dict, digest |-> Clock + 1, ok |-> TRUE]

\* The blocks the writer's fold has.
Blocks == IF held.gen \in DOMAIN fold THEN fold[held.gen] ELSE <<>>

NewBlock == [stamp |-> Clock + 1, state |-> "ok"]

\* flush: one row, a record or a tombstone.
Flush(id, put) ==
    LET n      == Name(0, NextSeq(held) + 1, NextSeq(held) + 1)
        row    == IF put THEN Clock + 1 ELSE Absent
        blocks == IF put THEN Append(Blocks, NewBlock) ELSE Blocks
        dict   == IF put THEN (Clock + 1) :> Len(blocks) ELSE <<>>
    IN  /\ opened
        /\ Publishes([held EXCEPT !.parts = Append(@, Reference(n)), !.tail = Len(blocks)],
                     Pruned(held.commit + 1), n :> NewPart(id :> row, dict) @@ parts,
                     held.gen :> blocks @@ fold, TRUE)

\* Every dictionary entry of these parts reads back or is declared punched.
Mergeable(names) ==
    \A n \in names : parts[n].ok /\ \A stamp \in DOMAIN parts[n].dict :
        Piece(held, held.punched, stamp, parts[n].dict[stamp]) # Unreadable

UsableDict(names) ==
    LET stamps == {s \in UNION {DOMAIN parts[n].dict : n \in names} :
                     \E n \in names : s \in DOMAIN parts[n].dict
                                      /\ parts[n].dict[s] \notin held.punched}
    IN  [s \in stamps |-> parts[CHOOSE n \in names : s \in DOMAIN parts[n].dict].dict[s]]

\* merge_range over the parts i .. j; tombstones go when the run is everything.
MergeRange(i, j) ==
    LET run   == SubSeq(held.parts, i, j)
        names == {run[k].name : k \in DOMAIN run}
        n     == Name(0, run[1].name.lo, run[Len(run)].name.hi)
        over(id) == Max({k \in DOMAIN run : id \in DOMAIN parts[run[k].name].rows})
        newest == [id \in UNION {DOMAIN parts[x].rows : x \in names} |->
                     parts[run[over(id)].name].rows[id]]
        total == i = 1 /\ j = Len(held.parts)
        rows  == Restrict(newest, {id \in DOMAIN newest : total => newest[id] # Absent})
    IN  /\ opened /\ i < j /\ j <= Len(held.parts)
        /\ names \subseteq DOMAIN parts /\ Mergeable(names)
        /\ Publishes([held EXCEPT !.parts = SubSeq(@, 1, i - 1) \o <<Reference(n)>>
                                            \o SubSeq(@, j + 1, Len(@))],
                     Pruned(held.commit + 1), n :> NewPart(rows, UsableDict(names)) @@ parts,
                     fold, TRUE)

\* (Mutant: the rows of the newest part only.)
LiveInNewest ==
    {Owner(held, id).dict[Deciding(held)[id]] :
        id \in {x \in Ids : Deciding(held)[x] # Absent /\ Max(Owners(held, x)) = Len(held.parts)}}

\* The blocks that visible records need.
Live ==
    {Owner(held, id).dict[Deciding(held)[id]] : id \in {x \in Ids : Deciding(held)[x] # Absent}}

Unneeded == (1 .. held.tail) \ Live

Punched(blocks, holes) ==
    [b \in DOMAIN blocks |-> IF b \in holes THEN [blocks[b] EXCEPT !.state = "hole"] ELSE blocks[b]]

\* punch_unreferenced: a declaration, unless all is declared, and then the holes;
\* where it stops between two of them the next call goes on.
Punch(holes) ==
    /\ opened /\ Unneeded # {} /\ holes \subseteq Unneeded /\ Readable(ViewAt(held, {}))
    /\ IF Unneeded \subseteq held.punched
       THEN /\ fold' = held.gen :> Punched(Blocks, holes) @@ fold
            /\ UNCHANGED <<manifest, retained, parts, sidecars, handle, shown, damages>>
       ELSE Publishes([held EXCEPT !.punched = @ \cup Unneeded], Pruned(held.commit + 1), parts,
                      held.gen :> Punched(Blocks, holes) @@ fold, holes = Unneeded)

\* What a refold leaves of the retained copies: none but its own.
Purged(commit) == {}

\* refold: the parts that keep records, in a new generation; they take over the
\* intervals of the others, and if there are none one empty part has them all.
Refold ==
    LET old   == held.parts
        row   == Deciding(held)
        ids(i) == {id \in Ids : row[id] # Absent /\ Max(Owners(held, id)) = i}
        kept  == SelectSeq([i \in DOMAIN old |-> i], LAMBDA i : ids(i) # {})
        gen   == held.gen + 1
        lo(k) == IF k = 1 THEN 1 ELSE old[kept[k - 1]].name.hi + 1
        hi(k) == IF k = Len(kept) THEN NextSeq(held) ELSE old[kept[k]].name.hi
        names == IF kept = <<>> THEN <<Name(gen, 1, NextSeq(held))>>
                 ELSE [k \in DOMAIN kept |-> Name(gen, lo(k), hi(k))]
        at    == SetToSortSeq(Live, <)
        rows(k) == IF kept = <<>> THEN <<>> ELSE [id \in ids(kept[k]) |-> row[id]]
        moved(k) == [s \in {rows(k)[id] : id \in DOMAIN rows(k)} |->
                       CHOOSE b \in DOMAIN at : fold[held.gen][at[b]].stamp = s]
    IN  /\ opened /\ old # <<>> /\ Readable(ViewAt(held, {}))
        /\ Publishes([held EXCEPT !.parts = [k \in DOMAIN names |-> Reference(names[k])],
                                  !.gen = gen, !.tail = Len(at), !.punched = {}],
                     Purged(held.commit + 1),
                     [n \in {names[k] : k \in DOMAIN names} |->
                        LET k == CHOOSE k \in DOMAIN names : names[k] = n
                        IN  NewPart(rows(k), moved(k))] @@ parts,
                     gen :> [b \in DOMAIN at |-> fold[held.gen][at[b]]] @@ fold, TRUE)

-----------------------------------------------------------------------------
(* Damage. *)

\* A member rots, or the bytes of a retained manifest land in the place of another.
Damaged ==
    /\ damage < MaxDamage /\ damage' = damage + 1 /\ hurt' = TRUE
    /\ UNCHANGED <<sidecars, handle, shown>>

RotManifest ==
    /\ HasManifest /\ manifest' = [manifest EXCEPT !.ok = FALSE]
    /\ Damaged /\ UNCHANGED <<retained, parts, fold>>

RotRetained(c) ==
    /\ retained' = [retained EXCEPT ![c].ok = FALSE]
    /\ Damaged /\ UNCHANGED <<manifest, parts, fold>>

Misplaced(c) ==
    /\ \/ manifest' = retained[c] /\ UNCHANGED retained
       \/ \E d \in DOMAIN retained \ {c} :
             retained' = [retained EXCEPT ![d] = retained[c]] /\ UNCHANGED manifest
    /\ Damaged /\ UNCHANGED <<parts, fold>>

RotPart(n) ==
    /\ parts' = [parts EXCEPT ![n].ok = FALSE]
    /\ Damaged /\ UNCHANGED <<manifest, retained, fold>>

RotBlock(g, b) ==
    /\ fold[g][b].state = "ok" /\ fold' = [fold EXCEPT ![g][b].state = "rot"]
    /\ Damaged /\ UNCHANGED <<manifest, retained, parts>>

-----------------------------------------------------------------------------
(* Manifest promotion. *)

\* validate_recovery_candidate_container: the fold up to the candidate's own tail
\* under its own declaration, its parts, and every visible record.
Usable(m) ==
    /\ FoldOpens(m, m.punched) /\ PartsOpen(m) /\ DigestsMatch(m)
    /\ Scrubs(m, m.punched) /\ DictionariesVerify(m, m.punched)
    /\ LET view == ViewAt(m, m.punched) IN Readable(view) /\ Gone \notin {view[id] : id \in Ids}

\* An intact chain is refused: promotion is no way to roll back.
Healthy == HasManifest /\ Parses(manifest) /\ ChainVerifies(TRUE)

\* Names that contradict their contents, or two generations, are not damage to work around.
Consistent ==
    /\ \A c \in DOMAIN retained : Parses(retained[c]) => retained[c].m.commit = c
    /\ \A c, d \in DOMAIN retained :
          Parses(retained[c]) /\ Parses(retained[d]) => retained[c].m.gen = retained[d].m.gen

Candidates == {c \in DOMAIN retained : Parses(retained[c]) /\ Usable(retained[c].m)}

\* validate_surviving_promotion_history: the longest run below c of adjacent,
\* linked and usable copies.
Survivors(c) ==
    {k \in DOMAIN retained : k <= c /\ \A j \in k .. c - 1 :
        /\ j \in DOMAIN retained /\ Parses(retained[j])
        /\ Precedes(retained[j], retained[j + 1].m) /\ Usable(retained[j].m)}

\* (Mutant: the directory of a segment beyond the tail stays.)
SidecarsLeft(m) == {s \in sidecars : s[1] = m.gen}

\* Sidecars of the generation up to the tail, but for a segment the tail cuts.
SidecarsKept(m) ==
    {s \in sidecars : s[1] = m.gen /\ s[2] <= SegmentOf(m.tail) /\ Whole(m.gen, s[2], m.tail)}

\* The nearest usable copy becomes MANIFEST as it is; newer copies, older ones that
\* do not survive, what no survivor names and the fold beyond the tail go with it.
Promote(allowed) ==
    /\ ~opened /\ ~Healthy /\ Consistent
    /\ Candidates # {}
    /\ LET c    == Max(Candidates)
           m    == retained[c].m
           kept == Survivors(c)
       IN  /\ Max(DOMAIN retained) - c <= allowed
           /\ manifest' = retained[c]
           /\ retained' = Restrict(retained, kept)
           /\ parts' = Restrict(parts, DOMAIN parts \cap UNION {NamesOf(retained[k].m) : k \in kept})
           /\ fold' = m.gen :> SubSeq(fold[m.gen], 1, m.tail)
           /\ sidecars' = SidecarsKept(m)
    /\ hurt' = FALSE /\ UNCHANGED damage
    /\ UNCHANGED <<handle, shown>>

-----------------------------------------------------------------------------
(* Backup and restore. *)

\* The store is replaced by a backup of it that was verified twice, as it was
\* written and as it was restored: current authority without retained copies.
RestoreBackup ==
    /\ ~opened /\ HasManifest /\ OpensCurrent
    /\ manifest' = manifest /\ retained' = <<>>
    /\ parts' = Restrict(parts, NamesOf(Current))
    /\ fold' = Restrict(fold, {Current.gen})
    /\ sidecars' = {s \in sidecars : s[1] = Current.gen}
    /\ Verifies'
    /\ hurt' = FALSE /\ UNCHANGED damage
    /\ UNCHANGED <<handle, shown>>

-----------------------------------------------------------------------------
Publications ==
    \/ \E id \in Ids, put \in BOOLEAN : Flush(id, put)
    \/ \E i, j \in DOMAIN held.parts : MergeRange(i, j)
    \/ \E holes \in SUBSET (1 .. held.tail) : Punch(holes)
    \/ Refold

Rots ==
    \/ RotManifest
    \/ \E c \in DOMAIN retained : RotRetained(c) \/ Misplaced(c)
    \/ \E n \in DOMAIN parts : RotPart(n)
    \/ \E g \in DOMAIN fold : \E b \in DOMAIN fold[g] : RotBlock(g, b)

Next ==
    \/ \E deep \in BOOLEAN : Open(deep)
    \/ Close \/ Publications
    \/ Rots
    \/ \E allowed \in 0 .. ManifestRetain : Promote(allowed)
    \/ RestoreBackup

Spec == Init /\ [][Next]_vars

-----------------------------------------------------------------------------
\* Never are more than ManifestRetain manifests kept; and a store nobody damaged, in
\* whatever order it was published to, compacted,
\* punched, refolded, promoted and restored, passes complete verification, and
\* every retained revision opens.
IntactVerifies ==
    /\ Cardinality(DOMAIN retained) <= ManifestRetain
    /\ ~hurt => Verifies /\ \A c \in DOMAIN retained : RetainedOpens(c)

\* What opens shows what its publication showed: nothing of a later or an abandoned
\* revision, and nothing missing but records whose block was punched since.
RetainedExact ==
    \A c \in DOMAIN retained : RetainedOpens(c) =>
        \A id \in Ids :
            LET now  == RetainedView(c)[id]
                then == shown[retained[c].m.stamp][id]
            IN  \/ now = then
                \/ now = Gone /\ Deciding(Current)[id] # then
                \/ now = Unreadable /\ hurt

\* A promotion leaves a store that passes complete verification and shows what the
\* promoted revision showed when it was published.
PromotionHeals ==
    [][hurt /\ ~hurt' => Verifies' /\ View' = shown[Current'.stamp]]_vars

=============================================================================
