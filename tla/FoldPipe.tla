------------------------------ MODULE FoldPipe ------------------------------
(***************************************************************************)
(* How a sealed block of the fold gets to its segment (src/src/fold/pipe.rs*)
(* and the append side of fold/mod.rs).  The writer gives a block its id   *)
(* and hands it to a pool of threads through a bounded queue; they         *)
(* compress, in any order, and hand it back through another bounded queue; *)
(* the writer appends what has come back whenever it passes by, and waits  *)
(* for all of it when it synchronises.  Nobody drains the second queue     *)
(* while the writer waits at the first one, or for the threads to end.     *)
(***************************************************************************)
EXTENDS Naturals, Sequences, FiniteSets, SequencesExt

CONSTANTS Threads,    \* how many threads compress
          MaxBlocks   \* bound: blocks sealed

ASSUME FoldPipeAssumption == Threads \in Nat \ {0} /\ MaxBlocks \in Nat

VARIABLES next_block, open_block,  \* the id of the open block; whether it holds pieces
          inflight,                \* blocks sealed and not yet in a segment
          active, frames,          \* the active segment; every frame appended, in order
          sidecars,                \* the directory written for each segment
          poisoned,
          jobs, hand, done,        \* blocks queued, with a thread, and handed back
          outstanding, taken,      \* the pool's count; blocks taken back, not yet written
          pc, goal,                \* where the writer is, and on whose behalf
          synced                   \* what the last sync returned: frames, and blocks sealed

pool    == <<jobs, hand, done, outstanding>>
storage == <<active, frames, sidecars>>
vars    == <<next_block, open_block, inflight, storage, poisoned, pool, taken, pc, goal, synced>>

JobCapacity  == 2 * Threads

\* (Mutant: as many as wait for compression.)
DoneCapacityTight == 2 * Threads

DoneCapacity == 4 * Threads

-----------------------------------------------------------------------------
Init ==
    /\ next_block = 0 /\ open_block = FALSE /\ inflight = {}
    /\ active = 0 /\ frames = <<>> /\ sidecars = << >>
    /\ poisoned = FALSE
    /\ jobs = <<>> /\ hand = {} /\ done = <<>> /\ outstanding = 0 /\ taken = <<>>
    /\ pc = "idle" /\ goal = "return"
    /\ synced = [frames |-> 0, blocks |-> 0]

\* The directory of a segment: its blocks at their offsets.
Entries(seg) == SelectSeq(frames, LAMBDA f : f.seg = seg)

Usable == pc = "idle" /\ ~poisoned

\* seal_block: the id is taken, reads go to inflight, submission comes next.
Seal(for) ==
    /\ next_block < MaxBlocks
    /\ next_block' = next_block + 1 /\ open_block' = FALSE
    /\ inflight' = inflight \cup {next_block}
    /\ pc' = "submit" /\ goal' = for

\* A piece joins the open block, which is sealed if that fills it.
Gather(fills) ==
    IF fills THEN Seal("return")
    ELSE /\ open_block' = TRUE
         /\ pc' = "take" /\ goal' = "return"
         /\ UNCHANGED <<next_block, inflight>>

\* put_hashed of a piece the window lacks.
Put ==
    /\ Usable
    /\ \/ \E fills \in BOOLEAN : Gather(fills)
       \/ open_block /\ Seal("gather")
    /\ UNCHANGED <<storage, poisoned, pool, taken, synced>>

Sync ==
    /\ Usable
    /\ \/ open_block /\ Seal("sync")
       \/ /\ ~open_block
          /\ pc' = "drain" /\ goal' = "sync"
          /\ UNCHANGED <<next_block, open_block, inflight>>
    /\ UNCHANGED <<storage, poisoned, pool, taken, synced>>

HasRoom == Len(jobs) < JobCapacity

\* Pool::submit blocks while the queue is full.
Submit ==
    /\ pc = "submit" /\ HasRoom
    /\ jobs' = Append(jobs, next_block - 1) /\ outstanding' = outstanding + 1
    /\ pc' = IF goal = "sync" THEN "drain" ELSE "take"
    /\ UNCHANGED <<next_block, open_block, inflight, storage, poisoned, hand, done, taken, goal,
                   synced>>

TakesOne ==
    /\ done # <<>>
    /\ taken' = Append(taken, Head(done)) /\ done' = Tail(done)
    /\ outstanding' = outstanding - 1
    /\ UNCHANGED <<jobs, hand, pc>>

StopsTaking == pc' = "write" /\ UNCHANGED <<pool, taken>>

\* Pool::try_take, until the queue is found empty.
TryTake ==
    /\ pc = "take"
    /\ TakesOne \/ (done = <<>> /\ StopsTaking)
    /\ UNCHANGED <<next_block, open_block, inflight, storage, poisoned, goal, synced>>

\* (Mutant: what has not come back yet is left for the next time.)
NoneLeftWaiting == done = <<>>

NoneLeft == outstanding = 0

\* Pool::take_all, until nothing is outstanding.
TakeAll ==
    /\ pc = "drain"
    /\ (~NoneLeft /\ TakesOne) \/ (NoneLeft /\ StopsTaking)
    /\ UNCHANGED <<next_block, open_block, inflight, storage, poisoned, goal, synced>>

\* Reports failure: what was taken and not written is dropped, and the handle is
\* of no more use.
Poisons == poisoned' = TRUE /\ pc' = "idle" /\ taken' = <<>>

\* (Mutant: the block leaves inflight before it is written.)
WriteFailsForgotten ==
    /\ Poisons
    /\ inflight' = inflight \ {Head(taken)}
    /\ UNCHANGED storage

\* Reads of the block still come from inflight.
WriteFails == Poisons /\ UNCHANGED <<storage, inflight>>

\* The directory of the active segment, as it is now.
Describes ==
    sidecars' = [s \in 0 .. active |-> IF s = active THEN Entries(active) ELSE sidecars[s]]

\* roll, where the block does not fit: the full segment gets its directory.
Rolls ==
    /\ Entries(active) # <<>>
    /\ active' = active + 1 /\ Describes

\* write_block: appended to the active segment, and served from there.
WriteBlock ==
    /\ pc = "write" /\ taken # <<>>
    /\ \/ /\ Rolls \/ UNCHANGED <<active, sidecars>>
          /\ frames' = Append(frames, [seg |-> active', id |-> Head(taken)])
          /\ inflight' = inflight \ {Head(taken)}
          /\ taken' = Tail(taken)
          /\ UNCHANGED <<poisoned, pc>>
       \/ WriteFails
    /\ UNCHANGED <<next_block, open_block, pool, goal, synced>>

Written == pc = "write" /\ taken = <<>>

ReturnsTail ==
    /\ synced' = [frames |-> Len(frames), blocks |-> next_block]
    /\ pc' = "idle" /\ UNCHANGED <<poisoned, taken>>

\* sync makes the segment durable, stages its directory and returns the tail.
Syncs == ReturnsTail /\ Describes

Synchronised ==
    /\ Written /\ goal = "sync"
    /\ Syncs \/ (Poisons /\ UNCHANGED <<sidecars, synced>>)
    /\ UNCHANGED <<next_block, open_block, inflight, active, frames, pool, goal>>

\* put_hashed goes on to its piece, or returns.
PutGoesOn ==
    /\ Written
    /\ \/ goal = "gather" /\ \E fills \in BOOLEAN : Gather(fills)
       \/ goal = "return" /\ pc' = "idle" /\ UNCHANGED <<next_block, open_block, inflight, goal>>
    /\ UNCHANGED <<storage, poisoned, pool, taken, synced>>

\* Drop closes the job queue and waits for every thread, taking nothing back.
Drop ==
    /\ pc = "idle" /\ pc' = "joining"
    /\ UNCHANGED <<next_block, open_block, inflight, storage, poisoned, pool, taken, goal, synced>>

Joined ==
    /\ pc = "joining" /\ jobs = <<>> /\ hand = {}
    /\ pc' = "closed"
    /\ UNCHANGED <<next_block, open_block, inflight, storage, poisoned, pool, taken, goal, synced>>

-----------------------------------------------------------------------------
(* The threads. *)

Receives ==
    /\ jobs # <<>> /\ Cardinality(hand) < Threads
    /\ hand' = hand \cup {Head(jobs)} /\ jobs' = Tail(jobs)
    /\ UNCHANGED <<next_block, open_block, inflight, storage, poisoned, done, outstanding, taken,
                   pc, goal, synced>>

\* A thread that finds the second queue full blocks in its send.
Sends(b) ==
    /\ b \in hand /\ Len(done) < DoneCapacity
    /\ done' = Append(done, b) /\ hand' = hand \ {b}
    /\ UNCHANGED <<next_block, open_block, inflight, storage, poisoned, jobs, outstanding, taken,
                   pc, goal, synced>>

-----------------------------------------------------------------------------
Blocks == 0 .. MaxBlocks

Goes == Submit \/ TryTake \/ TakeAll \/ WriteBlock \/ Synchronised \/ PutGoesOn \/ Joined

Works == Receives \/ \E b \in Blocks : Sends(b)

Next == Put \/ Sync \/ Drop \/ Goes \/ Works

\* A call that has begun runs on, and so does every thread: nothing else is
\* asked of the scheduler, and nobody has to call.
Fairness ==
    /\ WF_vars(Goes) /\ WF_vars(Receives)
    /\ \A b \in Blocks : WF_vars(Sends(b))

Spec == Init /\ [][Next]_vars /\ Fairness

-----------------------------------------------------------------------------
(* Properties. *)

Ids(s) == {s[i] : i \in DOMAIN s}
Stored == {frames[i].id : i \in DOMAIN frames}

\* Every variable is in its domain, the queues within their capacities.
TypeOK ==
    /\ next_block \in 0 .. MaxBlocks /\ inflight \subseteq Blocks
    /\ {open_block, poisoned} \subseteq BOOLEAN
    /\ active \in Nat /\ frames \in Seq([seg : Nat, id : Blocks])
    /\ jobs \in Seq(Blocks) /\ Len(jobs) <= JobCapacity
    /\ hand \subseteq Blocks /\ Cardinality(hand) <= Threads
    /\ done \in Seq(Blocks) /\ Len(done) <= DoneCapacity
    /\ outstanding \in Nat /\ taken \in Seq(Blocks)
    /\ pc \in {"idle", "submit", "take", "drain", "write", "joining", "closed"}
    /\ goal \in {"return", "gather", "sync"}
    /\ synced \in [frames : Nat, blocks : Nat]

\* A piece can be read from the moment put returned, and at every moment after:
\* its block is in memory until it is in a segment, where it is written once,
\* in whatever order the threads finish and whatever fails.
EveryBlockOnce ==
    /\ inflight \cup Stored = 0 .. next_block - 1
    /\ inflight \cap Stored = {}
    /\ IsInjective([i \in DOMAIN frames |-> frames[i].id])

\* No location is beyond a tail that was not returned: the frames of the tail
\* hold every block sealed before it, however far the threads had come.
TailCoversBlocks ==
    /\ synced.frames <= Len(frames)
    /\ {frames[i].id : i \in 1 .. synced.frames} = 0 .. synced.blocks - 1

\* No thread ever finds the second queue full, although nobody drains it while
\* the writer submits or joins: what is outstanding between two drains fits.
SendsNeverBlock == hand # {} => Len(done) < DoneCapacity

\* Every call returns: neither back pressure nor the wait for outstanding blocks
\* nor the join of the threads is for ever.
CallsReturn == pc \notin {"idle", "closed"} ~> pc \in {"idle", "closed"}

=============================================================================
