----------------------------- MODULE FoldRepair -----------------------------
(***************************************************************************)
(* A fold in files of its own (src/src/fold/mod.rs, open_at; segstore.rs,  *)
(* DirSegments), the form builders stage and tests use: the segment files  *)
(* are what a crash left of them, and opening cuts them back to the tail   *)
(* that a manifest promised, or, without one, to the last good frame.  The *)
(* appends are those of FoldPipe: a full segment is synchronised before    *)
(* the next is created, the active one when the writer synchronises.       *)
(* Unlinks reach the disk in the order they were issued.                   *)
(***************************************************************************)
EXTENDS FoldOpen

CONSTANT MaxImage   \* bound: frames in the files a crash leaves

ASSUME FoldRepairAssumption == MaxImage \in Nat

Dense(files) == \A s \in DOMAIN files : 0 .. s \subseteq DOMAIN files

Newest(files) == CHOOSE s \in DOMAIN files : \A t \in DOMAIN files : t <= s

Prefix(files, tail, s) == IF s = tail.seg THEN SubSeq(files[s], 1, tail.off) ELSE files[s]

\* set_len: a file that is too short grows by bytes that are no frame.
SetLen(file, n) ==
    [i \in 1 .. n |-> IF i \in DOMAIN file THEN file[i] ELSE [id |-> MaxBlocks, header |-> "unreadable", sum |-> FALSE]]

\* (Mutant: it is enough that the newest file is not older than the tail.)
CommittedPrefixNewest(files, tail, punched) ==
    \/ tail.seg < Newest(files)
    \/ tail.seg = Newest(files) /\ tail.off <= Len(files[tail.seg])

\* validate_committed_fold_prefix, and again under the lock: every byte up to the
\* tail is there and scans.
CommittedPrefix(files, tail, punched) ==
    /\ tail.seg \in DOMAIN files /\ tail.off <= Len(files[tail.seg])
    /\ \A s \in 0 .. tail.seg : ScanTail(Prefix(files, tail, s), punched).good = Len(Prefix(files, tail, s))

\* The directory of every segment again: a full one's from the file beside it if
\* that describes it, and else written anew, as far as that succeeds; the
\* active one is scanned.
Rebuilt(files, sides, punched) ==
    LET all   == OpenFold(files, [s \in (DOMAIN sides) \ {Newest(files)} |-> sides[s]], punched, FALSE)
        again == all.scanned \ {Newest(files)}
    IN  [opens |-> all.opens, dir |-> all.dir, next_block |-> all.next_block, files |-> files,
         sides |-> [s \in DOMAIN sides \cup again |-> IF s \in again THEN Sidecar(s, files[s]) ELSE sides[s]]]

Unrepaired(files, sides) == [opens |-> FALSE, dir |-> << >>, next_block |-> 0, files |-> files, sides |-> sides]

\* open_at with a committed tail: nothing is touched before the prefix is proved;
\* then later segments go, newest first, and the one of the tail is cut.
OpenCommitted(files, sides, tail, punched) ==
    IF Dense(files) /\ CommittedPrefix(files, tail, punched)
    THEN Rebuilt([s \in 0 .. tail.seg |-> IF s = tail.seg THEN SetLen(files[s], tail.off) ELSE files[s]],
                 sides, punched)
    ELSE Unrepaired(files, sides)

\* open: the last good frame of the active segment is the tail.
OpenScanned(files, sides, punched) ==
    LET last == Newest(files)
        scan == ScanTail(files[last], punched)
    IN  IF Dense(files) /\ scan.stop # "refused"
        THEN Rebuilt([files EXCEPT ![last] = SubSeq(@, 1, scan.good)], sides, punched)
        ELSE Unrepaired(files, sides)

\* open_read_with_limits: a reader without a manifest takes all there is.
OpenRead(files, sides, punched) == IF DOMAIN files = {} THEN Fails ELSE OpenFold(files, sides, punched, FALSE)

\* open_read_at_with_limits: a reader of the prefix a manifest promised, beside a
\* writer that goes on or over what a crash left; nothing is cut or written.  A
\* directory is offered for the tail's segment too: it describes that or is ignored.
OpenReadAt(files, sides, tail, punched) ==
    IF tail.seg \in DOMAIN files /\ tail.off <= Len(files[tail.seg])
    THEN OpenRead([s \in {t \in DOMAIN files : t <= tail.seg} |-> Prefix(files, tail, s)], sides, punched)
    ELSE Fails

\* Fold::scrub_window_with_control over the frames from .. to of a segment: what
\* ends early is residue only at the end of the active one.
ScrubWindow(file, is_active, from, to, punched) ==
    LET scan == ScanTail(SubSeq(file, from, to), punched)
    IN  IF scan.stop = "refused" \/ (scan.good < to - from + 1 /\ ~(is_active /\ to = Len(file)))
        THEN "corrupt"
        ELSE IF scan.good < to - from + 1 THEN "residue" ELSE "whole"

Scrub(file, is_active, punched) == ScrubWindow(file, is_active, 1, Len(file), punched)

----------------------------------------------------------------------------
(* What a crash leaves. *)

Rests == pc = "idle" /\ jobs = <<>> /\ hand = {} /\ done = <<>> /\ Len(frames) \in 1 .. MaxImage

\* Frames synchronised, by sync or when their segment was full.
Durable == Max({synced.frames} \cup {i \in DOMAIN frames : frames[i].seg < active})

SegmentsOf(s) ==
    [seg \in 0 .. active |->
        LET here == SelectSeq(s, LAMBDA f : f.seg = seg) IN [i \in DOMAIN here |-> Frame(here[i].id)]]

Adds(files, frame) == [files EXCEPT ![active] = Append(@, frame)]

\* Appends cut in the order they were issued, the last one torn.
CutImages ==
    UNION {LET files == SegmentsOf(SubSeq(frames, 1, n))
               image(f) == [files |-> f, whole |-> n]
           IN  {image(files)} \cup
               (IF n < Len(frames) \/ poisoned
                THEN {image(Adds(files, [id |-> MaxBlocks, header |-> h, sum |-> FALSE])) : h \in {"long", "whole"}}
                ELSE {}) : n \in Durable .. Len(frames)}

\* Any of the appends since the last barrier missing, with others behind it.
HoledImages ==
    LET files == SegmentsOf(frames)
        ids   == {frames[i].id : i \in Durable + 1 .. Len(frames)}
    IN  {[s \in DOMAIN files |-> [i \in DOMAIN files[s] |->
             IF files[s][i].id \in lost THEN [files[s][i] EXCEPT !.header = "unreadable", !.sum = FALSE]
             ELSE files[s][i]]] : lost \in SUBSET ids}

\* The files at any point of a repair: later segments unlinked, newest first.
UnderRepair(files, tail) == {[s \in 0 .. last |-> files[s]] : last \in tail.seg .. Newest(files)}

\* The files with bytes below the tail missing or spoilt.
Losses(files, tail) ==
    {[files EXCEPT ![tail.seg] = SubSeq(@, 1, n)] : n \in 0 .. tail.off - 1}
    \cup {[files EXCEPT ![at[1]][at[2]].header = "unreadable", ![at[1]][at[2]].sum = FALSE] :
            at \in UNION {{s} \X (DOMAIN Prefix(files, tail, s)) : s \in 0 .. tail.seg}}

Shows(opened, true) == opened.opens /\ opened.dir = true /\ opened.next_block = Cardinality(DOMAIN true)

Gives(repair, true, files) == Shows(repair, true) /\ repair.files = files

\* With a tail over the frames s: repaired at once, interrupted, or refused.
RepairsTo(image, besides, s, tail) ==
    /\ \A beside \in besides : \A files \in UnderRepair(image, tail) :
          /\ Gives(OpenCommitted(files, beside, tail, {}), DirectoryOf(s), FilesOf(s))
          /\ Shows(OpenReadAt(files, beside, tail, {}), DirectoryOf(s))
    /\ Gives(OpenCommitted(Punch(image, {0}), << >>, tail, {<<0, 0>>}), DirectoryOf(s), Punch(FilesOf(s), {0}))
    /\ \A lost \in Losses(image, tail) :
          OpenCommitted(lost, << >>, tail, {}) = Unrepaired(lost, << >>) /\ ~OpenReadAt(lost, << >>, tail, {}).opens

\* Without a tail: the whole frames, and the same again; a reader takes all or nothing.
RepairsAlone(image, besides, n) ==
    \A beside \in besides :
        LET once == OpenScanned(image, beside, {})
            Same(opened) == opened.opens /\ opened.dir = once.dir /\ opened.next_block = once.next_block
        IN  /\ once.opens /\ once.dir = DirectoryOf(SubSeq(frames, 1, n))
            /\ once.files = SegmentsOf(SubSeq(frames, 1, n))
            /\ OpenScanned(once.files, once.sides, {}) = once
            /\ Same(OpenRead(once.files, once.sides, {}))
            /\ OpenRead(image, beside, {}).opens => Same(OpenRead(image, beside, {}))

\* Two windows pass exactly what one over the whole segment passes.
ScrubsInWindows(files) ==
    \A s \in DOMAIN files : \A k \in DOMAIN files[s] :
        LET at(i, j) == ScrubWindow(files[s], s = active, i, j, {})
        IN  (Scrub(files[s], s = active, {}) = "whole") <=> (at(1, k) = "whole" /\ at(k + 1, Len(files[s])) = "whole")

(* Whatever a crash leaves of the appends since the last barrier, a fold with  *)
(* a committed tail opens with exactly the blocks of that tail and its files   *)
(* cut back to it, whichever tail it is, whatever stands beside the segments,  *)
(* and whether or not an earlier repair was interrupted; with bytes missing    *)
(* below the tail it is refused and nothing is touched.  Readers of the tail   *)
(* see the same blocks before, during and after the repair.  Without a tail,   *)
(* torn appends cost only themselves, and a second opening changes nothing.    *)
RepairsTail ==
    Rests =>
        LET full  == [s \in 0 .. active - 1 |-> Sidecar(s, Entries(s))]
            stale == [s \in 0 .. active |-> Sidecar(s, Entries(0))]
            besides == {full, << >>, stale}
        IN  /\ \A image \in {i.files : i \in CutImages} \cup HoledImages :
                 /\ \A n \in {m \in EarlierTails : m <= synced.frames} :
                       RepairsTo(image, besides, SubSeq(frames, 1, n), TailOf(SubSeq(frames, 1, n)))
                 /\ ScrubsInWindows(image)
            /\ \A image \in CutImages : RepairsAlone(image.files, besides, image.whole)
=============================================================================
