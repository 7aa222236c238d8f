------------------------- MODULE FoldPipeInvariant -------------------------
(***************************************************************************)
(* The inductive invariant of FoldPipe: where every block is between its   *)
(* sealing and its segment, and how much may be under way in each state of *)
(* the writer.                                                             *)
(***************************************************************************)
EXTENDS FoldPipe

\* What the pool has and the writer has not taken back.
Load == Len(jobs) + Cardinality(hand) + Len(done)

\* The pool's count covers its load.  A drain leaves what fits in the first queue
\* and the hands of the threads; at most one block is added before the next.
Loaded ==
    /\ IsFiniteSet(hand)
    /\ Load <= outstanding
    /\ Load <= 3 * Threads + 1
    /\ pc \notin {"take", "drain"} => Load <= 3 * Threads

\* The blocks that are somewhere between the writer's two ends.
Pipeline == Ids(jobs) \cup hand \cup Ids(done) \cup Ids(taken)
            \cup (IF pc = "submit" THEN {next_block - 1} ELSE {})

\* Every block on its way is in one place of the pipeline, once, and readable; a
\* failure alone leaves blocks readable that are no longer on their way.
Tracked ==
    /\ IsInjective(jobs) /\ IsInjective(done) /\ IsInjective(taken)
    /\ Ids(jobs) \cap hand = {} /\ Ids(jobs) \cap Ids(done) = {}
    /\ Ids(jobs) \cap Ids(taken) = {} /\ hand \cap Ids(done) = {}
    /\ hand \cap Ids(taken) = {} /\ Ids(done) \cap Ids(taken) = {}
    /\ pc = "submit" =>
          next_block - 1 \notin Ids(jobs) \cup hand \cup Ids(done) \cup Ids(taken)
    /\ Pipeline \subseteq inflight
    /\ ~poisoned => inflight \subseteq Pipeline

\* What each state of the writer knows: a drained pool when it writes for sync, a
\* block to submit, nothing in its hands between calls.
Phases ==
    /\ pc = "submit" => next_block # 0
    /\ pc = "take" => goal # "sync"
    /\ pc = "write" /\ goal = "sync" => jobs = <<>> /\ hand = {} /\ done = <<>>
    /\ pc \notin {"take", "drain", "write"} => taken = <<>>
    /\ poisoned => pc \in {"idle", "joining", "closed"}

IInv == TypeOK /\ Loaded /\ Tracked /\ Phases /\ EveryBlockOnce /\ TailCoversBlocks

=============================================================================
