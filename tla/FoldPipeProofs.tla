--------------------------- MODULE FoldPipeProofs ---------------------------
(***************************************************************************)
(* Every reachable state of FoldPipe, for any number of threads and blocks,*)
(* satisfies FoldPipeInvariant!IInv: the second queue never fills, no block*)
(* is lost or written twice, and a tail covers what was sealed before it.  *)
(***************************************************************************)
EXTENDS FoldPipeInvariant, FiniteSetTheorems, TLAPS

(* Queues. *)

\* Putting an element at the end of a queue.
LEMMA AppendOf ==
    ASSUME NEW S, NEW s \in Seq(S), NEW x \in S
    PROVE  /\ Append(s, x) \in Seq(S) /\ Len(Append(s, x)) = Len(s) + 1
           /\ Ids(Append(s, x)) = Ids(s) \cup {x}
           /\ IsInjective(s) /\ x \notin Ids(s) => IsInjective(Append(s, x))
<1>1. /\ Append(s, x) \in Seq(S) /\ Len(Append(s, x)) = Len(s) + 1
      /\ DOMAIN s = 1 .. Len(s) /\ DOMAIN Append(s, x) = 1 .. Len(s) + 1
      /\ \A i \in 1 .. Len(s) : Append(s, x)[i] = s[i]
      /\ Append(s, x)[Len(s) + 1] = x
      /\ Len(s) \in Nat
  OBVIOUS
<1>2. Ids(Append(s, x)) = Ids(s) \cup {x}
  <2>1. ASSUME NEW y \in Ids(Append(s, x)) PROVE y \in Ids(s) \cup {x}
    <3>1. PICK i \in 1 .. Len(s) + 1 : y = Append(s, x)[i]
      BY <1>1 DEF Ids
    <3>2. CASE i = Len(s) + 1
      BY <3>1, <3>2, <1>1
    <3>3. CASE i # Len(s) + 1
      <4>1. i \in 1 .. Len(s)
        BY <3>3, <1>1
      <4>. QED BY <3>1, <4>1, <1>1 DEF Ids
    <3>. QED BY <3>2, <3>3
  <2>2. ASSUME NEW y \in Ids(s) PROVE y \in Ids(Append(s, x))
    <3>1. PICK i \in 1 .. Len(s) : y = s[i]
      BY <1>1 DEF Ids
    <3>2. i \in 1 .. Len(s) + 1
      BY <1>1
    <3>. QED BY <3>1, <3>2, <1>1 DEF Ids
  <2>3. x \in Ids(Append(s, x))
    <3>1. Len(s) + 1 \in 1 .. Len(s) + 1
      BY <1>1
    <3>. QED BY <3>1, <1>1 DEF Ids
  <2>. QED BY <2>1, <2>2, <2>3
<1>3. ASSUME IsInjective(s), x \notin Ids(s) PROVE IsInjective(Append(s, x))
  <2>1. \A i \in 1 .. Len(s) : s[i] # x
    BY <1>3, <1>1 DEF Ids
  <2>2. \A i, j \in 1 .. Len(s) : s[i] = s[j] => i = j
    BY <1>3, <1>1 DEF IsInjective
  <2>3. \A i \in 1 .. Len(s) + 1 : i = Len(s) + 1 \/ i \in 1 .. Len(s)
    BY <1>1
  <2>. QED BY <2>1, <2>2, <2>3, <1>1 DEF IsInjective
<1>. QED BY <1>1, <1>2, <1>3

\* Taking the first element off a queue that holds each of its elements once.
LEMMA TailOf ==
    ASSUME NEW S, NEW s \in Seq(S), s # <<>>, IsInjective(s)
    PROVE  /\ Tail(s) \in Seq(S) /\ Len(Tail(s)) = Len(s) - 1 /\ Len(s) \in Nat \ {0}
           /\ Head(s) \in S /\ Head(s) \in Ids(s)
           /\ Ids(Tail(s)) = Ids(s) \ {Head(s)}
           /\ IsInjective(Tail(s))
<1>1. /\ Tail(s) \in Seq(S) /\ Len(Tail(s)) = Len(s) - 1 /\ Len(s) \in Nat \ {0}
      /\ Head(s) = s[1] /\ 1 \in DOMAIN s /\ Head(s) \in S
      /\ DOMAIN s = 1 .. Len(s) /\ DOMAIN Tail(s) = 1 .. Len(s) - 1
      /\ \A i \in 1 .. Len(s) - 1 : Tail(s)[i] = s[i + 1]
  OBVIOUS
<1>2. \A i, j \in 1 .. Len(s) : s[i] = s[j] => i = j
  BY <1>1 DEF IsInjective
<1>3. \A i \in 1 .. Len(s) - 1 : i + 1 \in 1 .. Len(s) /\ i + 1 # 1
  BY <1>1
<1>4. Ids(Tail(s)) = Ids(s) \ {Head(s)}
  <2>1. ASSUME NEW y \in Ids(Tail(s)) PROVE y \in Ids(s) \ {Head(s)}
    <3>1. PICK i \in 1 .. Len(s) - 1 : y = s[i + 1]
      BY <1>1 DEF Ids
    <3>2. y # s[1]
      BY <3>1, <1>2, <1>3, <1>1
    <3>. QED BY <3>1, <3>2, <1>3, <1>1 DEF Ids
  <2>2. ASSUME NEW y \in Ids(s) \ {Head(s)} PROVE y \in Ids(Tail(s))
    <3>1. PICK i \in 1 .. Len(s) : y = s[i] /\ i # 1
      BY <1>1 DEF Ids
    <3>2. i - 1 \in 1 .. Len(s) - 1 /\ (i - 1) + 1 = i
      BY <3>1, <1>1
    <3>3. Tail(s)[i - 1] = y
      BY <3>1, <3>2, <1>1
    <3>. QED BY <3>2, <3>3, <1>1 DEF Ids
  <2>. QED BY <2>1, <2>2
<1>5. IsInjective(Tail(s))
  <2>1. ASSUME NEW i \in 1 .. Len(s) - 1, NEW j \in 1 .. Len(s) - 1, Tail(s)[i] = Tail(s)[j]
        PROVE  i = j
    <3>1. s[i + 1] = s[j + 1]
      BY <2>1, <1>1
    <3>2. i + 1 = j + 1
      BY <3>1, <1>2, <1>3
    <3>. QED BY <3>2
  <2>. QED BY <2>1, <1>1 DEF IsInjective
<1>6. Head(s) \in Ids(s)
  BY <1>1 DEF Ids
<1>. QED BY <1>1, <1>4, <1>5, <1>6

\* An empty queue.
LEMMA EmptyQueue == Ids(<<>>) = {} /\ IsInjective(<<>>) /\ Len(<<>>) = 0
BY DEF Ids, IsInjective

-----------------------------------------------------------------------------
(* The beginning. *)

LEMMA InitHolds == Init => IInv
<1>. SUFFICES ASSUME Init PROVE IInv
  OBVIOUS
<1>. USE FoldPipeAssumption DEF Init
<1>1. IsFiniteSet(hand) /\ Cardinality(hand) = 0
  BY FS_EmptySet
<1>2. /\ Ids(jobs) = {} /\ Ids(done) = {} /\ Ids(taken) = {} /\ Stored = {}
      /\ DOMAIN frames = {} /\ Len(jobs) = 0 /\ Len(done) = 0 /\ Len(frames) = 0
  BY DEF Ids, Stored
<1>3. TypeOK
  <2>1. \A S : <<>> \in Seq(S)
    OBVIOUS
  <2>2. 0 <= JobCapacity /\ 0 <= DoneCapacity /\ 0 <= Threads /\ 0 \in 0 .. MaxBlocks
    BY DEF JobCapacity, DoneCapacity
  <2>. QED BY <1>1, <1>2, <2>1, <2>2 DEF TypeOK
<1>4. Loaded
  BY <1>1, <1>2 DEF Loaded, Load
<1>5. Tracked
  BY <1>2, EmptyQueue DEF Tracked, Pipeline
<1>6. Phases
  BY DEF Phases
<1>7. EveryBlockOnce
  <2>1. 0 .. next_block - 1 = {}
    OBVIOUS
  <2>2. IsInjective([i \in DOMAIN frames |-> frames[i].id])
    BY <1>2 DEF IsInjective
  <2>. QED BY <1>2, <2>1, <2>2 DEF EveryBlockOnce
<1>8. TailCoversBlocks
  BY <1>2 DEF TailCoversBlocks
<1>. QED BY <1>3, <1>4, <1>5, <1>6, <1>7, <1>8 DEF IInv

-----------------------------------------------------------------------------
(* The writer, before the pool. *)

\* A tail that was returned stays covered while nothing is written.
LEMMA TailStands ==
    ASSUME TailCoversBlocks, UNCHANGED <<frames, synced>>
    PROVE  TailCoversBlocks'
BY DEF TailCoversBlocks

\* No block changes places while nothing is sealed or written.
LEMMA BlocksStand ==
    ASSUME EveryBlockOnce, UNCHANGED <<frames, inflight, next_block>>
    PROVE  EveryBlockOnce'
BY DEF EveryBlockOnce, Stored

\* Sealing adds one block to the pipeline, readable and new.
LEMMA SealKeeps ==
    ASSUME IInv, NEW for \in {"return", "gather", "sync"}, Seal(for),
           pc \in {"idle", "write"}, ~poisoned, taken = <<>>,
           UNCHANGED <<storage, poisoned, pool, taken, synced>>
    PROVE  IInv'
<1>. USE FoldPipeAssumption
<1>1. /\ next_block \in Nat /\ next_block < MaxBlocks /\ next_block' = next_block + 1
      /\ inflight' = inflight \cup {next_block} /\ next_block' - 1 = next_block
      /\ pc' = "submit" /\ goal' = for /\ open_block' = FALSE
      /\ UNCHANGED <<jobs, hand, done, outstanding, taken, frames, active, sidecars, synced, poisoned>>
  BY DEF Seal, IInv, TypeOK, pool, storage
<1>2. inflight \cup Stored = 0 .. next_block - 1 /\ inflight \cap Stored = {}
  BY DEF IInv, EveryBlockOnce
<1>3. next_block \notin inflight /\ next_block \notin Stored
  BY <1>1, <1>2
<1>4. TypeOK'
  <2>1. next_block' \in 0 .. MaxBlocks /\ next_block \in Blocks
    BY <1>1 DEF Blocks
  <2>. QED BY <1>1, <2>1 DEF IInv, TypeOK
<1>5. Loaded'
  BY <1>1 DEF IInv, Loaded, Load
<1>6. Tracked'
  <2>1. Pipeline = Ids(jobs) \cup hand \cup Ids(done) \cup Ids(taken)
    BY DEF Pipeline
  <2>2. Pipeline' = Pipeline \cup {next_block}
    BY <1>1, <2>1 DEF Pipeline, Ids
  <2>3. next_block \notin Pipeline
    BY <1>3 DEF IInv, Tracked
  <2>4. Ids(jobs)' = Ids(jobs) /\ Ids(done)' = Ids(done) /\ Ids(taken)' = Ids(taken)
    BY <1>1 DEF Ids
  <2>. QED BY <1>1, <2>1, <2>2, <2>3, <2>4 DEF IInv, Tracked
<1>7. Phases'
  BY <1>1 DEF IInv, Phases
<1>8. EveryBlockOnce'
  <2>1. Stored' = Stored
    BY <1>1 DEF Stored
  <2>2. 0 .. next_block' - 1 = (0 .. next_block - 1) \cup {next_block}
    BY <1>1
  <2>3. inflight' \cup Stored' = 0 .. next_block' - 1 /\ inflight' \cap Stored' = {}
    BY <1>1, <1>2, <1>3, <2>1, <2>2
  <2>. QED BY <1>1, <2>3 DEF IInv, EveryBlockOnce
<1>9. TailCoversBlocks'
  BY <1>1, TailStands DEF IInv
<1>. QED BY <1>4, <1>5, <1>6, <1>7, <1>8, <1>9 DEF IInv

\* Where nothing moves but the writer, between its own states with empty hands.
LEMMA WriterMoves ==
    ASSUME IInv, taken = <<>>, pc \notin {"submit", "take", "drain"},
           pc' \in {"idle", "take", "drain", "joining", "closed"},
           pc' = "take" => goal' # "sync", goal' \in {"return", "gather", "sync"},
           poisoned => pc' \in {"idle", "joining", "closed"}, open_block' \in BOOLEAN,
           UNCHANGED <<next_block, inflight, storage, poisoned, pool, taken, synced>>
    PROVE  IInv'
<1>1. UNCHANGED <<jobs, hand, done, outstanding, frames, active, sidecars>>
  BY DEF pool, storage
<1>2. TypeOK'
  BY <1>1 DEF IInv, TypeOK
<1>3. Loaded'
  BY <1>1 DEF IInv, Loaded, Load
<1>4. Tracked'
  <2>1. Ids(jobs)' = Ids(jobs) /\ Ids(done)' = Ids(done) /\ Ids(taken)' = Ids(taken)
    BY <1>1 DEF Ids
  <2>2. Pipeline' = Pipeline
    BY <1>1, <2>1 DEF Pipeline
  <2>. QED BY <1>1, <2>1, <2>2 DEF IInv, Tracked
<1>5. Phases'
  BY <1>1 DEF IInv, Phases
<1>6. EveryBlockOnce' /\ TailCoversBlocks'
  BY <1>1, TailStands, BlocksStand DEF IInv
<1>. QED BY <1>2, <1>3, <1>4, <1>5, <1>6 DEF IInv

\* A piece joins the open block.
LEMMA GatherKeeps ==
    ASSUME IInv, NEW fills \in BOOLEAN, Gather(fills),
           pc \in {"idle", "write"}, ~poisoned, taken = <<>>,
           UNCHANGED <<storage, poisoned, pool, taken, synced>>
    PROVE  IInv'
<1>1. CASE fills
  BY <1>1, SealKeeps DEF Gather
<1>2. CASE ~fills
  <2>1. /\ pc' = "take" /\ goal' = "return" /\ open_block' = TRUE
        /\ UNCHANGED <<next_block, inflight>>
    BY <1>2 DEF Gather
  <2>. QED BY <2>1, WriterMoves
<1>. QED BY <1>1, <1>2

LEMMA PutKeeps == ASSUME IInv, Put PROVE IInv'
<1>1. /\ pc = "idle" /\ ~poisoned /\ taken = <<>>
      /\ UNCHANGED <<storage, poisoned, pool, taken, synced>>
  BY DEF Put, Usable, IInv, Phases
<1>2. CASE \E fills \in BOOLEAN : Gather(fills)
  BY <1>1, <1>2, GatherKeeps
<1>3. CASE open_block /\ Seal("gather")
  BY <1>1, <1>3, SealKeeps
<1>. QED BY <1>2, <1>3 DEF Put

LEMMA SyncKeeps == ASSUME IInv, Sync PROVE IInv'
<1>1. /\ pc = "idle" /\ ~poisoned /\ taken = <<>>
      /\ UNCHANGED <<storage, poisoned, pool, taken, synced>>
  BY DEF Sync, Usable, IInv, Phases
<1>2. CASE open_block /\ Seal("sync")
  BY <1>1, <1>2, SealKeeps
<1>3. CASE pc' = "drain" /\ goal' = "sync" /\ UNCHANGED <<next_block, open_block, inflight>>
  <2>1. open_block' \in BOOLEAN
    BY <1>3 DEF IInv, TypeOK
  <2>. QED BY <1>1, <1>3, <2>1, WriterMoves
<1>. QED BY <1>2, <1>3 DEF Sync

LEMMA DropKeeps == ASSUME IInv, Drop PROVE IInv'
<1>1. /\ taken = <<>> /\ pc \notin {"submit", "take", "drain"} /\ pc' = "joining"
      /\ goal' \in {"return", "gather", "sync"} /\ open_block' \in BOOLEAN
      /\ UNCHANGED <<next_block, inflight, storage, poisoned, pool, taken, synced>>
  BY DEF Drop, IInv, TypeOK, Phases
<1>. QED BY <1>1, WriterMoves

LEMMA JoinedKeeps == ASSUME IInv, Joined PROVE IInv'
<1>1. /\ taken = <<>> /\ pc \notin {"submit", "take", "drain"} /\ pc' = "closed"
      /\ goal' \in {"return", "gather", "sync"} /\ open_block' \in BOOLEAN
      /\ UNCHANGED <<next_block, inflight, storage, poisoned, pool, taken, synced>>
  BY DEF Joined, IInv, TypeOK, Phases
<1>. QED BY <1>1, WriterMoves

-----------------------------------------------------------------------------
(* The pool. *)

\* Between two drains one block is submitted: the load stays within one more
\* than what fits in the first queue and with the threads.
LEMMA SubmitKeeps == ASSUME IInv, Submit PROVE IInv'
<1>. USE FoldPipeAssumption
<1> DEFINE b == next_block - 1
<1>1. /\ pc = "submit" /\ Len(jobs) < JobCapacity
      /\ jobs' = Append(jobs, b) /\ outstanding' = outstanding + 1
      /\ pc' \in {"take", "drain"} /\ (pc' = "take" => goal # "sync")
      /\ UNCHANGED <<next_block, open_block, inflight, active, frames, sidecars, poisoned, hand,
                     done, taken, goal, synced>>
  BY DEF Submit, HasRoom, storage
<1>2. b \in Blocks
  BY <1>1 DEF IInv, TypeOK, Phases, Blocks
<1>3. /\ jobs \in Seq(Blocks) /\ jobs' \in Seq(Blocks) /\ Len(jobs') = Len(jobs) + 1
      /\ Ids(jobs') = Ids(jobs) \cup {b}
      /\ IsInjective(jobs) /\ b \notin Ids(jobs) => IsInjective(jobs')
  BY <1>1, <1>2, AppendOf DEF IInv, TypeOK
<1>4. TypeOK'
  <2>1. Len(jobs) \in Nat /\ Len(jobs') <= JobCapacity
    BY <1>1, <1>3 DEF JobCapacity
  <2>. QED BY <1>1, <1>3, <2>1 DEF IInv, TypeOK
<1>5. Loaded'
  <2>1. Len(jobs) \in Nat /\ Len(done) \in Nat /\ Cardinality(hand) \in Nat
    BY <1>3, FS_CardinalityType DEF IInv, TypeOK, Loaded
  <2>. QED BY <1>1, <1>3, <2>1 DEF IInv, TypeOK, Loaded, Load
<1>6. Tracked'
  <2>1. Pipeline = Ids(jobs) \cup hand \cup Ids(done) \cup Ids(taken) \cup {b}
    BY <1>1 DEF Pipeline
  <2>2. /\ Ids(jobs)' = Ids(jobs) \cup {b} /\ Ids(done)' = Ids(done) /\ Ids(taken)' = Ids(taken)
        /\ hand' = hand
    BY <1>1, <1>3 DEF Ids
  <2>3. Pipeline' = Pipeline
    BY <1>1, <2>1, <2>2 DEF Pipeline
  <2>4. b \notin Ids(jobs) \cup hand \cup Ids(done) \cup Ids(taken)
    BY <1>1 DEF IInv, Tracked
  <2>. QED BY <1>1, <1>3, <2>2, <2>3, <2>4 DEF IInv, Tracked
<1>7. Phases'
  BY <1>1 DEF IInv, Phases
<1>8. EveryBlockOnce' /\ TailCoversBlocks'
  BY <1>1, TailStands, BlocksStand DEF IInv
<1>. QED BY <1>4, <1>5, <1>6, <1>7, <1>8 DEF IInv

\* The writer takes a block back.
LEMMA TakesOneKeeps ==
    ASSUME IInv, TakesOne, pc \in {"take", "drain"},
           UNCHANGED <<next_block, open_block, inflight, storage, poisoned, goal, synced>>
    PROVE  IInv'
<1>. USE FoldPipeAssumption
<1> DEFINE b == Head(done)
<1>1. /\ done # <<>> /\ taken' = Append(taken, b) /\ done' = Tail(done)
      /\ outstanding' = outstanding - 1
      /\ UNCHANGED <<jobs, hand, pc, goal, next_block, open_block, inflight, active, frames,
                     sidecars, poisoned, synced>>
  BY DEF TakesOne, storage
<1>2. /\ done' \in Seq(Blocks) /\ Len(done') = Len(done) - 1 /\ Len(done) \in Nat \ {0}
      /\ b \in Blocks /\ b \in Ids(done) /\ Ids(done') = Ids(done) \ {b} /\ IsInjective(done')
  BY <1>1, TailOf DEF IInv, TypeOK, Tracked
<1>3. /\ taken' \in Seq(Blocks) /\ Ids(taken') = Ids(taken) \cup {b}
      /\ b \notin Ids(taken) => IsInjective(taken')
  BY <1>1, <1>2, AppendOf DEF IInv, TypeOK, Tracked
<1>4. Len(jobs) \in Nat /\ Cardinality(hand) \in Nat
  BY FS_CardinalityType DEF IInv, TypeOK, Loaded
<1>5. TypeOK'
  <2>1. outstanding' \in Nat
    BY <1>1, <1>2, <1>4 DEF IInv, TypeOK, Loaded, Load
  <2>2. Len(done') <= DoneCapacity
    BY <1>2 DEF IInv, TypeOK, DoneCapacity
  <2>. QED BY <1>1, <1>2, <1>3, <2>1, <2>2 DEF IInv, TypeOK
<1>6. Loaded'
  BY <1>1, <1>2, <1>4 DEF IInv, TypeOK, Loaded, Load
<1>7. Tracked'
  <2>1. /\ Ids(jobs)' = Ids(jobs) /\ Ids(done)' = Ids(done) \ {b} /\ hand' = hand
        /\ Ids(taken)' = Ids(taken) \cup {b}
    BY <1>1, <1>2, <1>3 DEF Ids
  <2>2. b \notin Ids(jobs) \cup hand \cup Ids(taken)
    BY <1>2 DEF IInv, Tracked
  <2>3. Pipeline' = Pipeline
    BY <1>1, <1>2, <2>1 DEF Pipeline
  <2>. QED BY <1>1, <1>2, <1>3, <2>1, <2>2, <2>3 DEF IInv, Tracked
<1>8. Phases'
  BY <1>1 DEF IInv, Phases
<1>9. EveryBlockOnce' /\ TailCoversBlocks'
  BY <1>1, TailStands, BlocksStand DEF IInv
<1>. QED BY <1>5, <1>6, <1>7, <1>8, <1>9 DEF IInv

\* The writer has drained the second queue and turns to its segment.
LEMMA StopsTakingKeeps ==
    ASSUME IInv, StopsTaking, pc \in {"take", "drain"}, Load <= 3 * Threads,
           goal = "sync" => jobs = <<>> /\ hand = {} /\ done = <<>>,
           UNCHANGED <<next_block, open_block, inflight, storage, poisoned, goal, synced>>
    PROVE  IInv'
<1>1. /\ pc' = "write"
      /\ UNCHANGED <<jobs, hand, done, outstanding, taken, frames, active, sidecars>>
  BY DEF StopsTaking, pool, storage
<1>2. TypeOK'
  BY <1>1 DEF IInv, TypeOK
<1>3. Loaded'
  BY <1>1 DEF IInv, Loaded, Load
<1>4. Tracked'
  <2>1. Ids(jobs)' = Ids(jobs) /\ Ids(done)' = Ids(done) /\ Ids(taken)' = Ids(taken)
    BY <1>1 DEF Ids
  <2>2. Pipeline' = Pipeline
    BY <1>1, <2>1 DEF Pipeline
  <2>. QED BY <1>1, <2>1, <2>2 DEF IInv, Tracked
<1>5. Phases'
  BY <1>1 DEF IInv, Phases
<1>6. EveryBlockOnce' /\ TailCoversBlocks'
  BY <1>1, TailStands, BlocksStand DEF IInv
<1>. QED BY <1>2, <1>3, <1>4, <1>5, <1>6 DEF IInv

\* With the second queue empty, the load is bounded by the first one and the
\* threads.
LEMMA TryTakeKeeps == ASSUME IInv, TryTake PROVE IInv'
<1>. USE FoldPipeAssumption
<1>1. /\ pc = "take" /\ goal # "sync"
      /\ UNCHANGED <<next_block, open_block, inflight, storage, poisoned, goal, synced>>
  BY DEF TryTake, IInv, Phases
<1>2. CASE TakesOne
  BY <1>1, <1>2, TakesOneKeeps
<1>3. CASE done = <<>> /\ StopsTaking
  <2>1. Len(jobs) \in Nat /\ Cardinality(hand) \in Nat
    BY FS_CardinalityType DEF IInv, TypeOK, Loaded
  <2>2. Load <= 3 * Threads
    BY <1>3, <2>1, EmptyQueue DEF Load, IInv, TypeOK, JobCapacity
  <2>. QED BY <1>1, <1>3, <2>2, StopsTakingKeeps
<1>. QED BY <1>2, <1>3 DEF TryTake

\* With nothing outstanding, the pool is empty.
LEMMA TakeAllKeeps == ASSUME IInv, TakeAll PROVE IInv'
<1>. USE FoldPipeAssumption
<1>1. /\ pc = "drain"
      /\ UNCHANGED <<next_block, open_block, inflight, storage, poisoned, goal, synced>>
  BY DEF TakeAll
<1>2. CASE TakesOne
  BY <1>1, <1>2, TakesOneKeeps
<1>3. CASE NoneLeft /\ StopsTaking
  <2>1. /\ Len(jobs) \in Nat /\ Cardinality(hand) \in Nat /\ Len(done) \in Nat
        /\ jobs \in Seq(Blocks) /\ done \in Seq(Blocks) /\ IsFiniteSet(hand)
    BY FS_CardinalityType DEF IInv, TypeOK, Loaded
  <2>2. Load <= 0
    BY <1>3 DEF NoneLeft, IInv, Loaded
  <2>3. Len(jobs) = 0 /\ Cardinality(hand) = 0 /\ Len(done) = 0
    BY <2>1, <2>2 DEF Load
  <2>4. jobs = <<>> /\ done = <<>> /\ hand = {}
    BY <2>1, <2>3, FS_EmptySet
  <2>5. Load <= 3 * Threads
    BY <2>3 DEF Load
  <2>. QED BY <1>1, <1>3, <2>4, <2>5, StopsTakingKeeps
<1>. QED BY <1>2, <1>3 DEF TakeAll

\* A thread takes a block from the first queue.
LEMMA ReceivesKeeps == ASSUME IInv, Receives PROVE IInv'
<1>. USE FoldPipeAssumption
<1> DEFINE b == Head(jobs)
<1>1. /\ jobs # <<>> /\ Cardinality(hand) < Threads
      /\ hand' = hand \cup {b} /\ jobs' = Tail(jobs)
      /\ UNCHANGED <<next_block, open_block, inflight, active, frames, sidecars, poisoned, done,
                     outstanding, taken, pc, goal, synced>>
  BY DEF Receives, storage
<1>2. /\ jobs' \in Seq(Blocks) /\ Len(jobs') = Len(jobs) - 1 /\ Len(jobs) \in Nat \ {0}
      /\ b \in Blocks /\ b \in Ids(jobs) /\ Ids(jobs') = Ids(jobs) \ {b} /\ IsInjective(jobs')
  BY <1>1, TailOf DEF IInv, TypeOK, Tracked
<1>3. b \notin hand /\ IsFiniteSet(hand)
  BY <1>2 DEF IInv, Tracked, Loaded
<1>4. /\ IsFiniteSet(hand') /\ Cardinality(hand') = Cardinality(hand) + 1
      /\ Cardinality(hand) \in Nat /\ Len(done) \in Nat
  <2>1. IsFiniteSet(hand \cup {b}) /\ Cardinality(hand \cup {b}) = Cardinality(hand) + 1
    BY <1>3, FS_AddElement
  <2>2. Cardinality(hand) \in Nat
    BY <1>3, FS_CardinalityType
  <2>3. Len(done) \in Nat
    BY DEF IInv, TypeOK
  <2>. QED BY <1>1, <2>1, <2>2, <2>3
<1>5. TypeOK'
  <2>1. Len(jobs') <= JobCapacity
    BY <1>2 DEF IInv, TypeOK, JobCapacity
  <2>2. Cardinality(hand') <= Threads
    BY <1>1, <1>4
  <2>. QED BY <1>1, <1>2, <2>1, <2>2 DEF IInv, TypeOK
<1>6. Loaded'
  <2>1. Load' = Load
    BY <1>1, <1>2, <1>4 DEF Load
  <2>. QED BY <1>1, <1>4, <2>1 DEF IInv, Loaded
<1>7. Tracked'
  <2>1. /\ Ids(jobs)' = Ids(jobs) \ {b} /\ Ids(done)' = Ids(done) /\ Ids(taken)' = Ids(taken)
        /\ hand' = hand \cup {b}
    BY <1>1, <1>2 DEF Ids
  <2>2. Pipeline' = Pipeline
    BY <1>1, <1>2, <2>1 DEF Pipeline
  <2>. QED BY <1>1, <1>2, <2>1, <2>2 DEF IInv, Tracked
<1>8. Phases'
  BY <1>1 DEF IInv, Phases
<1>9. EveryBlockOnce' /\ TailCoversBlocks'
  BY <1>1, TailStands, BlocksStand DEF IInv
<1>. QED BY <1>5, <1>6, <1>7, <1>8, <1>9 DEF IInv

\* A thread hands a block back.
LEMMA SendsKeeps == ASSUME IInv, NEW b \in Blocks, Sends(b) PROVE IInv'
<1>. USE FoldPipeAssumption
<1>1. /\ b \in hand /\ Len(done) < DoneCapacity
      /\ done' = Append(done, b) /\ hand' = hand \ {b}
      /\ UNCHANGED <<next_block, open_block, inflight, active, frames, sidecars, poisoned, jobs,
                     outstanding, taken, pc, goal, synced>>
  BY DEF Sends, storage
<1>2. /\ done' \in Seq(Blocks) /\ Len(done') = Len(done) + 1 /\ Len(done) \in Nat
      /\ Ids(done') = Ids(done) \cup {b}
      /\ b \notin Ids(done) => IsInjective(done')
  BY <1>1, AppendOf DEF IInv, TypeOK, Tracked
<1>3. /\ IsFiniteSet(hand') /\ Cardinality(hand') = Cardinality(hand) - 1
      /\ Cardinality(hand) \in Nat /\ Cardinality(hand') \in Nat /\ Len(jobs) \in Nat
  BY <1>1, FS_RemoveElement, FS_CardinalityType DEF IInv, TypeOK, Loaded
<1>4. TypeOK'
  <2>1. Len(done') <= DoneCapacity
    BY <1>1, <1>2 DEF DoneCapacity
  <2>2. Cardinality(hand') <= Threads
    BY <1>3 DEF IInv, TypeOK
  <2>. QED BY <1>1, <1>2, <2>1, <2>2 DEF IInv, TypeOK
<1>5. Loaded'
  <2>1. Load' = Load
    BY <1>1, <1>2, <1>3 DEF Load
  <2>. QED BY <1>1, <1>3, <2>1 DEF IInv, Loaded
<1>6. Tracked'
  <2>1. /\ Ids(jobs)' = Ids(jobs) /\ Ids(done)' = Ids(done) \cup {b} /\ Ids(taken)' = Ids(taken)
        /\ hand' = hand \ {b}
    BY <1>1, <1>2 DEF Ids
  <2>2. b \notin Ids(jobs) \cup Ids(done) \cup Ids(taken)
    BY <1>1 DEF IInv, Tracked
  <2>3. Pipeline' = Pipeline
    BY <1>1, <2>1 DEF Pipeline
  <2>. QED BY <1>1, <1>2, <2>1, <2>2, <2>3 DEF IInv, Tracked
<1>7. Phases'
  BY <1>1 DEF IInv, Phases
<1>8. EveryBlockOnce' /\ TailCoversBlocks'
  BY <1>1, TailStands, BlocksStand DEF IInv
<1>. QED BY <1>4, <1>5, <1>6, <1>7, <1>8 DEF IInv

-----------------------------------------------------------------------------
(* The segment. *)

\* A failure drops what was taken; its blocks stay readable from inflight.
LEMMA PoisonsKeeps ==
    ASSUME IInv, Poisons, pc = "write",
           UNCHANGED <<next_block, open_block, inflight, frames, active, pool, goal, synced>>
    PROVE  IInv'
<1>1. /\ poisoned' = TRUE /\ pc' = "idle" /\ taken' = <<>>
      /\ UNCHANGED <<jobs, hand, done, outstanding>>
  BY DEF Poisons, pool
<1>2. TypeOK'
  <2>1. <<>> \in Seq(Blocks)
    OBVIOUS
  <2>. QED BY <1>1, <2>1 DEF IInv, TypeOK
<1>3. Loaded'
  BY <1>1 DEF IInv, Loaded, Load
<1>4. Tracked'
  <2>1. Ids(jobs)' = Ids(jobs) /\ Ids(done)' = Ids(done) /\ Ids(taken)' = {}
    BY <1>1, EmptyQueue DEF Ids
  <2>2. Pipeline' \subseteq Pipeline
    BY <1>1, <2>1 DEF Pipeline
  <2>. QED BY <1>1, <2>1, <2>2, EmptyQueue DEF IInv, Tracked
<1>5. Phases'
  BY <1>1 DEF IInv, Phases
<1>6. EveryBlockOnce' /\ TailCoversBlocks'
  BY <1>1, TailStands, BlocksStand DEF IInv
<1>. QED BY <1>2, <1>3, <1>4, <1>5, <1>6 DEF IInv

\* A block moves from the pipeline to the end of the frames.
LEMMA BlockWritten ==
    ASSUME IInv, pc = "write", taken # <<>>, active' \in Nat,
           frames' = Append(frames, [seg |-> active', id |-> Head(taken)]),
           inflight' = inflight \ {Head(taken)}, taken' = Tail(taken),
           UNCHANGED <<next_block, open_block, poisoned, pool, pc, goal, synced>>
    PROVE  IInv'
<1> DEFINE b == Head(taken)
           F == [seg : Nat, id : Blocks]
           f == [seg |-> active', id |-> b]
<1>1. UNCHANGED <<jobs, hand, done, outstanding>>
  BY DEF pool
<1>2. /\ taken' \in Seq(Blocks) /\ b \in Blocks /\ b \in Ids(taken)
      /\ Ids(taken') = Ids(taken) \ {b} /\ IsInjective(taken')
  BY TailOf DEF IInv, TypeOK, Tracked
<1>3. /\ frames \in Seq(F) /\ f \in F /\ f.id = b
      /\ frames' \in Seq(F) /\ Len(frames') = Len(frames) + 1 /\ Len(frames) \in Nat
      /\ DOMAIN frames = 1 .. Len(frames) /\ DOMAIN frames' = 1 .. Len(frames) + 1
      /\ \A i \in 1 .. Len(frames) : frames'[i] = frames[i]
      /\ frames'[Len(frames) + 1] = f
  <2>1. frames \in Seq(F) /\ f \in F
    BY <1>2 DEF IInv, TypeOK
  <2>. QED BY <2>1
<1>4. b \in inflight /\ b \notin Stored
  BY <1>2 DEF IInv, Tracked, Pipeline, EveryBlockOnce
<1>5. TypeOK'
  BY <1>1, <1>2, <1>3 DEF IInv, TypeOK
<1>6. Loaded'
  BY <1>1 DEF IInv, Loaded, Load
<1>7. Tracked'
  <2>1. Ids(jobs)' = Ids(jobs) /\ Ids(done)' = Ids(done) /\ Ids(taken)' = Ids(taken) \ {b}
    BY <1>1, <1>2 DEF Ids
  <2>2. b \notin Ids(jobs) \cup hand \cup Ids(done)
    BY <1>2 DEF IInv, Tracked
  <2>3. Pipeline' = Pipeline \ {b}
    BY <1>1, <2>1, <2>2 DEF Pipeline
  <2>. QED BY <1>1, <1>2, <2>1, <2>3 DEF IInv, Tracked
<1>8. Phases'
  BY <1>1 DEF IInv, Phases
<1>9. EveryBlockOnce'
  <2>1. Stored' = Stored \cup {b}
    <3>1. ASSUME NEW y \in Stored' PROVE y \in Stored \cup {b}
      <4>1. PICK i \in 1 .. Len(frames) + 1 : y = frames'[i].id
        BY <1>3 DEF Stored
      <4>2. i \in 1 .. Len(frames) \/ i = Len(frames) + 1
        BY <1>3
      <4>. QED BY <4>1, <4>2, <1>3 DEF Stored
    <3>2. ASSUME NEW y \in Stored PROVE y \in Stored'
      <4>1. PICK i \in 1 .. Len(frames) : y = frames[i].id
        BY <1>3 DEF Stored
      <4>2. i \in 1 .. Len(frames) + 1
        BY <1>3
      <4>. QED BY <4>1, <4>2, <1>3 DEF Stored
    <3>3. b \in Stored'
      <4>1. Len(frames) + 1 \in 1 .. Len(frames) + 1
        BY <1>3
      <4>. QED BY <4>1, <1>3 DEF Stored
    <3>. QED BY <3>1, <3>2, <3>3
  <2>2. IsInjective([i \in DOMAIN frames' |-> frames'[i].id])
    <3>1. \A i, j \in 1 .. Len(frames) : frames[i].id = frames[j].id => i = j
      BY <1>3 DEF IInv, EveryBlockOnce, IsInjective
    <3>2. \A i \in 1 .. Len(frames) : frames[i].id # b
      BY <1>3, <1>4 DEF Stored
    <3>3. \A i \in 1 .. Len(frames) + 1 : i \in 1 .. Len(frames) \/ i = Len(frames) + 1
      BY <1>3
    <3>4. \A i, j \in 1 .. Len(frames) + 1 : frames'[i].id = frames'[j].id => i = j
      BY <1>3, <3>1, <3>2, <3>3
    <3>. QED BY <1>3, <3>4 DEF IsInjective
  <2>. QED BY <1>4, <2>1, <2>2 DEF IInv, EveryBlockOnce
<1>10. TailCoversBlocks'
  <2>1. synced.frames \in Nat /\ synced.frames <= Len(frames)
    BY DEF IInv, TypeOK, TailCoversBlocks
  <2>2. \A i \in 1 .. synced.frames : frames'[i] = frames[i]
    BY <1>3, <2>1
  <2>3. synced.frames <= Len(frames')
    BY <1>3, <2>1
  <2>. QED BY <2>2, <2>3 DEF IInv, TailCoversBlocks
<1>. QED BY <1>5, <1>6, <1>7, <1>8, <1>9, <1>10 DEF IInv

LEMMA WriteBlockKeeps == ASSUME IInv, WriteBlock PROVE IInv'
<1>1. /\ pc = "write" /\ taken # <<>>
      /\ UNCHANGED <<next_block, open_block, pool, goal, synced>>
  BY DEF WriteBlock
<1>2. CASE WriteFails
  BY <1>1, <1>2, PoisonsKeeps DEF WriteFails, storage
<1>3. CASE ~WriteFails
  <2>1. /\ Rolls \/ UNCHANGED <<active, sidecars>>
        /\ frames' = Append(frames, [seg |-> active', id |-> Head(taken)])
        /\ inflight' = inflight \ {Head(taken)}
        /\ taken' = Tail(taken)
        /\ UNCHANGED <<poisoned, pc>>
    BY <1>3 DEF WriteBlock
  <2>2. active' \in Nat
    BY <2>1 DEF Rolls, IInv, TypeOK
  <2>. QED BY <1>1, <2>1, <2>2, BlockWritten
<1>. QED BY <1>2, <1>3

\* The pool is drained and everything written: what the tail covers is all there is.
LEMMA SynchronisedKeeps == ASSUME IInv, Synchronised PROVE IInv'
<1>1. /\ pc = "write" /\ goal = "sync" /\ taken = <<>>
      /\ UNCHANGED <<next_block, open_block, inflight, active, frames, pool, goal>>
  BY DEF Synchronised, Written
<1>2. CASE Poisons /\ UNCHANGED <<sidecars, synced>>
  BY <1>1, <1>2, PoisonsKeeps
<1>3. CASE Syncs
  <2>1. /\ synced' = [frames |-> Len(frames), blocks |-> next_block] /\ pc' = "idle"
        /\ UNCHANGED <<poisoned, taken, jobs, hand, done, outstanding>>
    BY <1>1, <1>3 DEF Syncs, ReturnsTail, pool
  <2>2. Len(frames) \in Nat /\ next_block \in Nat /\ DOMAIN frames = 1 .. Len(frames)
    BY FoldPipeAssumption DEF IInv, TypeOK
  <2>3. ~poisoned /\ jobs = <<>> /\ hand = {} /\ done = <<>>
    BY <1>1 DEF IInv, Phases
  <2>4. inflight = {}
    BY <1>1, <2>3, EmptyQueue DEF IInv, Tracked, Pipeline
  <2>5. TypeOK'
    BY <1>1, <2>1, <2>2 DEF IInv, TypeOK
  <2>6. Loaded'
    BY <1>1, <2>1 DEF IInv, Loaded, Load
  <2>7. Tracked'
    <3>1. Ids(jobs)' = Ids(jobs) /\ Ids(done)' = Ids(done) /\ Ids(taken)' = Ids(taken)
      BY <2>1 DEF Ids
    <3>2. Pipeline' = Pipeline
      BY <1>1, <2>1, <3>1 DEF Pipeline
    <3>. QED BY <1>1, <2>1, <3>1, <3>2 DEF IInv, Tracked
  <2>8. Phases'
    BY <1>1, <2>1 DEF IInv, Phases
  <2>9. EveryBlockOnce'
    BY <1>1, BlocksStand DEF IInv
  <2>10. TailCoversBlocks'
    <3>1. Stored = 0 .. next_block - 1
      BY <2>4 DEF IInv, EveryBlockOnce
    <3>2. Stored = {frames[i].id : i \in 1 .. Len(frames)}
      BY <2>2 DEF Stored
    <3>. QED BY <1>1, <2>1, <2>2, <3>1, <3>2 DEF TailCoversBlocks
  <2>. QED BY <2>5, <2>6, <2>7, <2>8, <2>9, <2>10 DEF IInv
<1>. QED BY <1>2, <1>3 DEF Synchronised

LEMMA PutGoesOnKeeps == ASSUME IInv, PutGoesOn PROVE IInv'
<1>1. /\ pc = "write" /\ taken = <<>> /\ ~poisoned
      /\ UNCHANGED <<storage, poisoned, pool, taken, synced>>
  BY DEF PutGoesOn, Written, IInv, Phases
<1>2. CASE \E fills \in BOOLEAN : Gather(fills)
  BY <1>1, <1>2, GatherKeeps
<1>3. CASE pc' = "idle" /\ UNCHANGED <<next_block, open_block, inflight, goal>>
  <2>1. goal' \in {"return", "gather", "sync"} /\ open_block' \in BOOLEAN
    BY <1>3 DEF IInv, TypeOK
  <2>. QED BY <1>1, <1>3, <2>1, WriterMoves
<1>. QED BY <1>2, <1>3 DEF PutGoesOn

-----------------------------------------------------------------------------
(* The theorems. *)

LEMMA StutterKeeps == ASSUME IInv, UNCHANGED vars PROVE IInv'
<1>1. UNCHANGED <<next_block, open_block, inflight, active, frames, sidecars, poisoned, jobs, hand,
                  done, outstanding, taken, pc, goal, synced>>
  BY DEF vars, storage, pool
<1>2. Ids(jobs)' = Ids(jobs) /\ Ids(done)' = Ids(done) /\ Ids(taken)' = Ids(taken)
  BY <1>1 DEF Ids
<1>3. TypeOK' /\ Loaded' /\ Phases'
  BY <1>1 DEF IInv, TypeOK, Loaded, Load, Phases
<1>4. Tracked'
  BY <1>1, <1>2 DEF IInv, Tracked, Pipeline
<1>5. EveryBlockOnce' /\ TailCoversBlocks'
  BY <1>1, TailStands, BlocksStand DEF IInv
<1>. QED BY <1>3, <1>4, <1>5 DEF IInv

LEMMA NextKeeps == ASSUME IInv, [Next]_vars PROVE IInv'
<1>1. CASE Put          BY <1>1, PutKeeps
<1>2. CASE Sync         BY <1>2, SyncKeeps
<1>3. CASE Drop         BY <1>3, DropKeeps
<1>4. CASE Submit       BY <1>4, SubmitKeeps
<1>5. CASE TryTake      BY <1>5, TryTakeKeeps
<1>6. CASE TakeAll      BY <1>6, TakeAllKeeps
<1>7. CASE WriteBlock   BY <1>7, WriteBlockKeeps
<1>8. CASE Synchronised BY <1>8, SynchronisedKeeps
<1>9. CASE PutGoesOn    BY <1>9, PutGoesOnKeeps
<1>10. CASE Joined      BY <1>10, JoinedKeeps
<1>11. CASE Receives    BY <1>11, ReceivesKeeps
<1>12. CASE \E b \in Blocks : Sends(b)
  BY <1>12, SendsKeeps
<1>13. CASE UNCHANGED vars
  BY <1>13, StutterKeeps
<1>. QED BY <1>1, <1>2, <1>3, <1>4, <1>5, <1>6, <1>7, <1>8, <1>9, <1>10, <1>11, <1>12, <1>13
         DEF Next, Goes, Works

\* Every reachable state satisfies the invariant: the writer and the threads keep
\* every block in one place and their load within the two queues.
THEOREM Inductive == Spec => []IInv
<1>1. Init => IInv
  BY InitHolds
<1>2. IInv /\ [Next]_vars => IInv'
  BY NextKeeps
<1>. QED BY <1>1, <1>2, PTL DEF Spec

\* Every block can be read at every moment and is written once, in whatever order
\* the threads finish and whatever fails (inflight and the segments).
THEOREM BlocksNeverLost == Spec => []EveryBlockOnce
<1>1. IInv => EveryBlockOnce
  BY DEF IInv
<1>. QED BY <1>1, Inductive, PTL

\* What sync returned covers every block sealed before it (take_all, then write).
THEOREM TailsCover == Spec => []TailCoversBlocks
<1>1. IInv => TailCoversBlocks
  BY DEF IInv
<1>. QED BY <1>1, Inductive, PTL

\* A thread never finds the second queue full, whatever the number of threads:
\* at most three blocks per thread and one are in the pool, and it has room for
\* four.  Hence neither back pressure nor the join on drop can stand still.
THEOREM NoSendBlocks == Spec => []SendsNeverBlock
<1>1. IInv => SendsNeverBlock
  <2>. SUFFICES ASSUME IInv, hand # {} PROVE Len(done) < DoneCapacity
    BY DEF SendsNeverBlock
  <2>1. /\ Len(jobs) \in Nat /\ Len(done) \in Nat /\ Cardinality(hand) \in Nat \ {0}
        /\ Load <= 3 * Threads + 1
    BY FS_CardinalityType, FS_EmptySet DEF IInv, TypeOK, Loaded
  <2>. QED BY <2>1, FoldPipeAssumption DEF Load, DoneCapacity
<1>. QED BY <1>1, Inductive, PTL

=============================================================================
