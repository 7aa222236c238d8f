------------------------------ MODULE FoldOpen ------------------------------
(***************************************************************************)
(* How a fold opens again (src/src/fold/mod.rs, segment.rs): the directory *)
(* of blocks is rebuilt from the frames of every segment, or taken from    *)
(* the directory written beside a segment where that describes the segment *)
(* exactly.  A block that was punched on a declaration is stepped over; a  *)
(* segment that ends before its committed length is refused.               *)
(*                                                                         *)
(* What opens is what the writer of FoldPipe has published: its frames,    *)
(* each of length one, and the directories it staged with them.            *)
(***************************************************************************)
EXTENDS FoldPipe

(* A frame's header is whole, unreadable, or promises more than is there;  *)
(* its checksum covers header and payload.                                 *)
Frame(id) == [id |-> id, header |-> "whole", sum |-> TRUE]

Sidecar(seg, listed) ==
    [seg |-> seg, tail |-> Len(listed), entries |-> [i \in DOMAIN listed |-> <<listed[i].id, i - 1>>]]

IsDeclared(punched, id) == \E range \in punched : id \in range[1] .. range[2]

----------------------------------------------------------------------------
(* One segment. *)

\* (Mutant: a declared block is damage like any other.)
ScanFrameUndeclared(scan, frame, last, punched) ==
    LET keeps == [scan EXCEPT !.good = @ + 1, !.entries = Append(@, <<frame.id, scan.good>>)]
    IN  IF scan.stop # "no" THEN scan
        ELSE IF frame.header = "long" THEN [scan EXCEPT !.stop = "end"]
        ELSE IF frame.header = "unreadable"
             THEN [scan EXCEPT !.stop = IF frame.sum \/ ~last THEN "refused" ELSE "end"]
        ELSE IF frame.sum THEN keeps
        ELSE [scan EXCEPT !.stop = IF last THEN "end" ELSE "refused"]

\* scan_frames_window: what fails at the very end may be a torn append; with bytes
\* behind it, it is damage, and so is an unreadable header that has its checksum.
ScanFrame(scan, frame, last, punched) ==
    LET keeps == [scan EXCEPT !.good = @ + 1, !.entries = Append(@, <<frame.id, scan.good>>)]
    IN  IF scan.stop # "no" THEN scan
        ELSE IF frame.header = "long" THEN [scan EXCEPT !.stop = "end"]
        ELSE IF frame.header = "unreadable"
             THEN [scan EXCEPT !.stop = IF frame.sum \/ ~last THEN "refused" ELSE "end"]
        ELSE IF frame.sum \/ IsDeclared(punched, frame.id) THEN keeps
        ELSE [scan EXCEPT !.stop = IF last THEN "end" ELSE "refused"]

ScanTail(file, punched) ==
    LET step(scan, i) == ScanFrame(scan, file[i], i = Len(file), punched)
    IN  FoldLeft(step, [good |-> 0, entries |-> <<>>, stop |-> "no", scanned |-> TRUE],
                 [i \in DOMAIN file |-> i])

\* A directory of another segment or of another length is not looked at further.
Parses(sidecar, seg, file) == sidecar.seg = seg /\ sidecar.tail = Len(file)

\* validate_dir_sidecar_entries: the chain of headers is what the entries say.
Chains(entries, file) ==
    /\ Len(entries) = Len(file)
    /\ \A i \in DOMAIN file : file[i].header = "whole" /\ entries[i] = <<file[i].id, i - 1>>

OpenSegment(seg, file, sides, punched) ==
    IF seg \in DOMAIN sides /\ Parses(sides[seg], seg, file) /\ Chains(sides[seg].entries, file)
    THEN [good |-> Len(file), entries |-> sides[seg].entries, stop |-> "no", scanned |-> FALSE]
    ELSE ScanTail(file, punched)

----------------------------------------------------------------------------
(* The fold. *)

\* validate_punched_ranges, where the directory's length is one more than its
\* greatest id: only an older state may be declared blocks it does not have.
PunchedValid(punched, dir, length, allow_future) ==
    \A range \in punched :
        \/ allow_future /\ range[1] >= length
        \/ /\ allow_future \/ range[2] < length
           /\ \A b \in range[1] .. range[2] : b < length => b \in DOMAIN dir

\* install_block_location for every entry of every segment.
Install(segs) ==
    LET located == UNION {{<<e[1], <<s, e[2]>>>> : e \in ToSet(segs[s].entries)} : s \in DOMAIN segs}
        ids     == {l[1] : l \in located}
    IN  [unique |-> Cardinality(ids) = Cardinality(located),
         dir |-> [id \in ids |-> (CHOOSE l \in located : l[1] = id)[2]],
         next |-> IF ids = {} THEN 0 ELSE 1 + CHOOSE id \in ids : \A other \in ids : other <= id]

\* The segments are dense and each is good to its end.
OpenFold(files, sides, punched, allow_future) ==
    LET segs == [s \in DOMAIN files |-> OpenSegment(s, files[s], sides, punched)]
        all  == Install(segs)
    IN  [opens |-> /\ \A s \in DOMAIN files : 0 .. s \subseteq DOMAIN files
                   /\ \A s \in DOMAIN files : segs[s].stop # "refused" /\ segs[s].good = Len(files[s])
                   /\ all.unique /\ PunchedValid(punched, all.dir, all.next, allow_future),
         dir |-> all.dir, next_block |-> all.next,
         scanned |-> {s \in DOMAIN files : segs[s].scanned}]

Fails == [opens |-> FALSE, dir |-> << >>, next_block |-> 0, scanned |-> {}]

EndsAt(files, tail) ==
    tail.seg \in DOMAIN files /\ Len(files[tail.seg]) = tail.off /\ \A s \in DOMAIN files : s <= tail.seg

\* open_container_writer: tail and container agree, and everything is scanned.
OpenWriter(files, tail, punched) == IF EndsAt(files, tail) THEN OpenFold(files, << >>, punched, FALSE) ELSE Fails

\* open_fold_from_container: a reader of the current manifest.
OpenCurrent(files, sides, tail, punched) ==
    IF EndsAt(files, tail) /\ DOMAIN sides \subseteq DOMAIN files THEN OpenFold(files, sides, punched, FALSE) ELSE Fails

\* open_retained_from_container: an earlier tail over segments that grew since,
\* with today's declarations.  A directory is offered for whole segments only.
OpenRetained(files, sides, tail, punched) ==
    LET below == {s \in DOMAIN files : s <= tail.seg}
        whole == {s \in below : s < tail.seg \/ Len(files[s]) = tail.off}
        cut   == [s \in below |-> IF s = tail.seg THEN SubSeq(files[s], 1, tail.off) ELSE files[s]]
    IN  IF tail.seg \in below /\ tail.off <= Len(files[tail.seg])
        THEN OpenFold(cut, [s \in whole \cap DOMAIN sides |-> sides[s]], punched, TRUE)
        ELSE Fails

\* verify_location_shape: the block is in the directory, and there is its header.
VerifyLocationShape(opened, files, id) ==
    /\ id \in DOMAIN opened.dir
    /\ LET at == opened.dir[id]
       IN  /\ at[1] \in DOMAIN files /\ at[2] < Len(files[at[1]])
           /\ files[at[1]][at[2] + 1].header = "whole" /\ files[at[1]][at[2] + 1].id = id

----------------------------------------------------------------------------
(* What is published, and what becomes of it. *)

Published ==
    /\ pc = "idle" /\ ~poisoned /\ ~open_block
    /\ frames # <<>> /\ synced = [frames |-> Len(frames), blocks |-> next_block]

FilesOf(s) ==
    [seg \in 0 .. s[Len(s)].seg |->
        LET here == SelectSeq(s, LAMBDA f : f.seg = seg) IN [i \in DOMAIN here |-> Frame(here[i].id)]]

TailOf(s) == LET last == s[Len(s)].seg IN [seg |-> last, off |-> Len(SelectSeq(s, LAMBDA f : f.seg = last))]

DirectoryOf(s) ==
    [id \in {s[i].id : i \in DOMAIN s} |->
        LET i == CHOOSE j \in DOMAIN s : s[j].id = id
        IN  <<s[i].seg, Cardinality({j \in 1 .. i - 1 : s[j].seg = s[i].seg})>>]

\* Blocks whose payload a punch has taken, wholly or in part.
Punch(files, ids) ==
    [s \in DOMAIN files |-> [i \in DOMAIN files[s] |->
        [files[s][i] EXCEPT !.sum = @ /\ files[s][i].id \notin ids]]]

\* One frame damaged, or a segment lost.
Damages(files) ==
    {[files EXCEPT ![at[1]][at[2]] = [@ EXCEPT !.header = damage[1], !.sum = damage[2]]] :
        at \in UNION {{s} \X (DOMAIN files[s]) : s \in DOMAIN files},
        damage \in {<<"whole", FALSE>>, <<"unreadable", FALSE>>, <<"unreadable", TRUE>>, <<"long", FALSE>>}}
    \cup {[t \in (DOMAIN files) \ {s} |-> files[t]] : s \in DOMAIN files}

\* The tails an earlier sync may have returned.
EarlierTails == {n \in 1 .. Len(frames) : \E m \in 1 .. n : {frames[i].id : i \in 1 .. n} = 0 .. m - 1}

\* An outcome of opening gives exactly the directory true, and the next id.
Exact(open, true) == open.opens /\ open.dir = true /\ open.next_block = Cardinality(DOMAIN true)

\* With a declared range, and whatever its punch took gone.
ExactPunched(files, sides, other, tail, true, punched) ==
    /\ Exact(OpenWriter(files, tail, punched), true)
    /\ \A beside \in {sides, << >>, other} : Exact(OpenCurrent(files, beside, tail, punched), true)
    /\ LET open == OpenCurrent(files, sides, tail, punched)
       IN  \A b \in 0 .. MaxBlocks : VerifyLocationShape(open, files, b) <=> b \in DOMAIN true
    /\ \A n \in EarlierTails :
          LET s == SubSeq(frames, 1, n)
          IN  Exact(OpenRetained(files, sides, TailOf(s), punched), DirectoryOf(s))

RefusedOrExact(damaged, sides, tail, true) ==
    /\ ~OpenWriter(damaged, tail, {}).opens /\ ~OpenCurrent(damaged, << >>, tail, {}).opens
    /\ LET open == OpenCurrent(damaged, sides, tail, {}) IN open.opens => Exact(open, true)

OpensAsWritten(files, sides, other, tail, true) ==
    /\ OpenCurrent(files, sides, tail, {}).scanned = {}
    /\ \A first, last \in DOMAIN true : first <= last =>
         \A gone \in {{first}, first .. last} :
            ExactPunched(Punch(files, gone), sides, other, tail, true, {<<first, last>>})
    /\ \A damaged \in Damages(files) : RefusedOrExact(damaged, sides, tail, true)

(* What a sync has published opens as it was written: the writer, and a reader *)
(* with the directories, without them or with others, get the directory of the *)
(* handle that wrote it and its next id, whatever residue a declared punch     *)
(* left; the reader with its directories reads no payload; a location is good  *)
(* exactly if its block was sealed by then.  So does a retained manifest over  *)
(* segments that have grown since, whatever was declared of later blocks.      *)
(* Undeclared damage is refused by whoever scans, and no reader is ever given  *)
(* another directory than the true one.                                        *)
OpensExactly ==
    Published =>
        OpensAsWritten(
            FilesOf(frames),
            [s \in DOMAIN sidecars |-> Sidecar(s, sidecars[s])],
            [s \in DOMAIN sidecars |->
                Sidecar(s, SubSeq(sidecars[s], 2, Len(sidecars[s])) \o <<[seg |-> s, id |-> MaxBlocks]>>)],
            TailOf(frames),
            DirectoryOf(frames))
=============================================================================
