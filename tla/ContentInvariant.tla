-------------------------- MODULE ContentInvariant --------------------------
(***************************************************************************)
(* What is true between any two steps of Content, strong enough that each  *)
(* step keeps it: the induction hypothesis of ContentProofs.               *)
(***************************************************************************)
EXTENDS Content

DictType == UNION {[ps -> Nat] : ps \in SUBSET Pieces}
PartType == [lo : Nat, hi : Nat, rows : Rows, dict : DictType]
FoldType == Seq(SUBSET Pieces)
ManifestType ==
    [next_seq : Nat, parts : Seq(PartType), gen : Nat, blocks : FoldType, punched : SUBSET Nat]
FrameType == [seq : Nat, rows : Rows \ {NoRows}, novel : SUBSET Pieces]
LogType == Seq(FrameType)

TypeOK ==
    /\ current \in [seq : Nat, content : ManifestType] /\ floor \in [seq : Nat, content : ManifestType]
    /\ holes \subseteq Nat \X Nat
    /\ wal \in LogType /\ wal_synced \in 0 .. Len(wal)
    /\ opened \in BOOLEAN /\ requires_reopen \in BOOLEAN /\ acknowledged \in BOOLEAN /\ sealed \in BOOLEAN
    /\ manifest \in ManifestType /\ mem \in Rows
    /\ blocks \in FoldType /\ forgotten \subseteq Nat /\ window \in DictType
    /\ phase \in {"idle", "flush", "merge", "punch", "refold", "punching", "settle"}
    /\ attempted \in ManifestType

Usable == opened /\ ~requires_reopen

-----------------------------------------------------------------------------
(* Manifests. *)

\* Every mapping of a dictionary is right.
Mapped(m) ==
    \A i \in DOMAIN m.parts : \A p \in DOMAIN m.parts[i].dict :
        m.parts[i].dict[p] \in DOMAIN m.blocks /\ p \in m.blocks[m.parts[i].dict[p]]

\* Every piece of a record that shows is mapped by the part of its row, to a
\* block that is not punched.
Backed(m) ==
    \A i \in DOMAIN m.parts : \A id \in Visible(m.parts, i) : \A p \in m.parts[i].rows[id] :
        p \in DOMAIN m.parts[i].dict /\ m.parts[i].dict[p] \notin m.punched

\* Of the blocks hs that are gone from the file, m declares its own punched, and
\* none is of a later fold.
Whole(m, hs) == \A h \in hs : h[1] <= m.gen /\ (h[1] = m.gen => h[2] \in m.punched)

Sound(m, hs) == IsManifest(m) /\ Mapped(m) /\ Backed(m) /\ Whole(m, hs)

AuthorityInv == Sound(current.content, holes) /\ Sound(floor.content, holes)

SameView(m, n) == \A rows \in Rows : Shows(m, rows) = Shows(n, rows)

\* A publication of n over m that is no flush: nothing is seen of it, and no
\* piece becomes known by it.
Maintained(m, n) ==
    /\ m.next_seq = n.next_seq /\ SameView(m, n)
    /\ \A p \in Pieces : Locating(n, p) # {} => Locating(m, p) # {}

\* A power loss can take back one publication.
FloorInv ==
    \/ floor.content.next_seq + 1 = current.content.next_seq
    \/ Maintained(floor.content, current.content)

-----------------------------------------------------------------------------
(* The handle. *)

\* m is what a publication of the kind makes of the handle.
Ready(kind, m) ==
    /\ kind = "flush" => mem # NoRows /\ m = Flushed
    /\ kind = "merge" =>
         \E lo, len \in 1 .. Len(manifest.parts) :
            len >= 2 /\ lo + len - 1 <= Len(manifest.parts) /\ m = Merged(lo, len)
    /\ kind = "punch" => mem = NoRows /\ m = Declared
    /\ kind = "refold" =>
         mem = NoRows /\ manifest.parts # <<>> /\ \E copy \in Copies : m = Refolded(copy)

HandleInv ==
    /\ requires_reopen => opened /\ phase = "idle"
    /\ ~opened => phase = "idle" /\ ~acknowledged
    /\ opened => manifest \in {current.content, floor.content}
    /\ Usable /\ phase = "idle" =>
         manifest = current.content /\ (acknowledged => floor.content = current.content)
    /\ phase \in {"flush", "merge", "punch", "refold"} =>
         manifest = floor.content /\ attempted = current.content
    /\ Ready(phase, attempted)
    /\ phase \in {"punching", "settle"} =>
         manifest = current.content /\ floor.content = current.content /\ mem = NoRows
    /\ phase = "punching" => Dead \subseteq manifest.punched

\* The fold bs goes on from the blocks of m, the window w leads to bytes in it.
FoldsOn(m, bs, closed, gone, w) ==
    /\ Len(m.blocks) <= Len(bs) /\ \A b \in DOMAIN m.blocks : bs[b] = m.blocks[b]
    /\ ~closed => Len(m.blocks) < Len(bs)
    /\ gone \subseteq m.punched
    /\ \A p \in DOMAIN w : w[p] \in DOMAIN bs /\ p \in bs[w[p]] /\ w[p] \notin m.punched

Knows(m, w, p) == p \in DOMAIN w \/ Locating(m, p) # {}

\* The window leads only where visible rows need the piece, and every part
\* agrees.
Anchored(m, w) ==
    \A p \in DOMAIN w :
        /\ <<w[p], p>> \in LivePieces(m.parts)
        /\ \A i \in DOMAIN m.parts : p \in DOMAIN m.parts[i].dict => m.parts[i].dict[p] = w[p]

\* With nothing staged, no window leads to a block that may be punched.
FoldInv ==
    opened =>
      /\ FoldsOn(manifest, blocks, sealed, forgotten, window)
      /\ \A p \in Named(mem) : Knows(manifest, window, p)
      /\ Usable /\ mem = NoRows => Anchored(manifest, window)

-----------------------------------------------------------------------------
(* The log. *)

\* The frames of the sequence n carry what they name and m does not have, and
\* carry it once.
Carried(m, n, l) ==
    /\ \A i \in DOMAIN l : l[i].seq = n =>
         \A p \in Named(l[i].rows) :
           (\E j \in 1 .. i : l[j].seq = n /\ p \in l[j].novel) \/ Locating(m, p) # {}
    /\ \A i, j \in DOMAIN l :
         i # j /\ l[i].seq = n /\ l[j].seq = n => l[i].novel \cap l[j].novel = {}

\* The log holds the staged rows, nothing of a later publication, and of pieces
\* what the window has beyond the manifest.
Covers(m, l, w, rows) ==
    /\ Replayed(m, l) = rows
    /\ \A i \in DOMAIN l : l[i].seq <= m.next_seq + 1
    /\ \A i \in PendingAt(m, l) : \A p \in l[i].novel : Knows(m, w, p)
    /\ \A p \in DOMAIN w : Locating(m, p) # {} \/ \E i \in PendingAt(m, l) : p \in l[i].novel

LogInv ==
    /\ Carried(current.content, current.content.next_seq + 1, wal)
    /\ Carried(floor.content, floor.content.next_seq + 1, wal)
    /\ phase \in {"flush", "settle"} => Carried(current.content, current.content.next_seq, wal)
    /\ Usable => Covers(manifest, wal, window, mem)

\* What Opens asks of a log, over a manifest that is sound.
Admits(m, l) ==
    /\ Replays(m, l) /\ NovelOnce(l)
    /\ \A i \in DOMAIN l : \A p \in Named(l[i].rows) : p \in Novel(l, 1 .. i) \/ Locating(m, p) # {}

\* Any cut of the log behind the frame n shows one of the views over m.
Stands(m, l, n, views) ==
    \A k \in n .. Len(l) :
        Admits(m, SubSeq(l, 1, k)) => Shows(m, Replayed(m, SubSeq(l, 1, k))) \in views

\* What callers see is promised, and so is what any crash leaves of it.
PromisedInv ==
    /\ View \in promised \cup {Refused}
    /\ Stands(current.content, wal, wal_synced, promised)
    /\ Stands(floor.content, wal, wal_synced, promised)

ContentInv == TypeOK /\ AuthorityInv /\ FloorInv /\ HandleInv /\ FoldInv /\ LogInv /\ PromisedInv

=============================================================================
