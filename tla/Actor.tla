-------------------------------- MODULE Actor --------------------------------
(***************************************************************************)
(* The Node binding's writer: one thread owns the store and carries out,   *)
(* one after another, the commands that tasks of other threads put into a  *)
(* bounded queue (src/bindings/node/src/actor.rs).  A task looks at the    *)
(* state of the handle and then sends, in two steps; a close changes the   *)
(* state, waits for room, and lets the thread end; the thread may die in a *)
(* command.  Of the store only what the callers are promised is kept here: *)
(* the writes it applied, and how many of them the log and the published   *)
(* parts hold (Store.tla has the store itself).                            *)
(***************************************************************************)
EXTENDS Integers, SequencesExt, FiniteSets

CONSTANTS Capacity,  \* the room of the queue
          MaxCalls   \* bound: calls made through the handle

ASSUME ActorAssumption == Capacity \in Nat \ {0} /\ MaxCalls \in Nat

VARIABLES state,   \* "open", "closing" (CLOSING_OR_CLOSED), or "dropped": no handle is left
          queue,   \* the calls whose commands wait
          worker,  \* what the thread does, and for which call
          store,   \* the store, or what it left behind
          calls    \* every call, in the order they began

vars == <<state, queue, worker, store, calls>>

-----------------------------------------------------------------------------
(* Calls.  Sync stands for flush and backup too; maintain for compact,     *)
(* compact_bounded, verify, the punch, the refold and the estimates, which *)
(* all publish first; scan for every call that only reads the writer's     *)
(* view; durable_write for erase, whose tombstones are one batch, synced   *)
(* before its flush, merge and refold (with no id present it only reads).  *)
(* A deadline or a cancelled token ends a command at one of its            *)
(* checkpoints, which leaves what a failure there leaves.                  *)

Kinds == {"write", "durable_write", "sync", "scan", "snapshot", "maintain", "close", "undurable_close"}

Closes == {"close", "undurable_close"}
Writes == {"write", "durable_write"}
\* Calls whose success promises that what was written before is durable.
Settling == {"durable_write", "sync", "snapshot", "maintain", "close"}

Answers(c, answer) == calls' = [calls EXCEPT ![c].at = "answered", ![c].answer = answer]

\* The writes answered by now: what a call that begins now may count on.
Acknowledged == {c \in DOMAIN calls : calls[c].kind \in Writes /\ calls[c].answer = "ok"}

-----------------------------------------------------------------------------
(* The store. *)

Writer == [held |-> TRUE, applied |-> <<>>, logged |-> 0, kept |-> {}]

\* After sync: the log holds every write.
Synced(s) == [s EXCEPT !.logged = Len(s.applied)]

\* A writer that is dropped leaves its log for the next open, which may miss
\* what was not synchronised; the file lock goes with it.
Released(s) ==
    {[s EXCEPT !.held = FALSE, !.kept = ToSet(SubSeq(s.applied, 1, n))] : n \in s.logged .. Len(s.applied)}

\* How a command ends: the store after it, the answer, and the writes it saw.
End(s, answer, view) == [store |-> s, answer |-> answer, view |-> view]
Fails(s) == End(s, "failed", {})
Ok(s) == End(s, "ok", {})

\* A mutant: the durable flag is not passed on.
ApplyUnsynced(s, c) == {Fails(s), Ok([s EXCEPT !.applied = Append(@, c)])}

\* apply: an operation that cannot be encoded or logged leaves nothing; a write
\* whose sync fails, or an erasure that fails later, is refused and yet applied.
Apply(s, c) ==
    LET done == [s EXCEPT !.applied = Append(@, c)]
    IN  {Fails(s)} \cup
        (IF calls[c].kind = "durable_write" THEN {Fails(done), Ok(Synced(done))} ELSE {Ok(done)})

\* publish_pending, and the checkpoint or the operation after it.
PublishPending(s) == {Fails(s), Fails(Synced(s)), Ok(Synced(s))}

\* Snapshot: a reader does not replay the log, so everything is flushed before
\* one is opened.
Snapshot(s) == {Fails(s), Fails(Synced(s)), End(Synced(s), "ok", ToSet(s.applied))}

\* A mutant: the reply is sent and the store dropped when the function returns.
CloseStoreLate(s, durable) == IF durable THEN {Fails(s), Ok(Synced(s))} ELSE {Ok(s)}

\* Close: the store is gone, and its lock with it, before the reply.
CloseStore(s, durable) ==
    IF durable
    THEN {Fails(r) : r \in Released(s) \cup Released(Synced(s))} \cup {Ok(r) : r \in Released(Synced(s))}
    ELSE {Ok(r) : r \in Released(s)}

\* The ways the command of call c can end on the store s.
Ends(s, c) ==
    LET k == calls[c].kind
    IN  CASE k \in Writes       -> Apply(s, c)
          [] k = "sync"         -> {Fails(s), Ok(Synced(s))}
          [] k = "scan"         -> {Fails(s), End(s, "ok", ToSet(s.applied))}
          [] k = "snapshot"     -> Snapshot(s)
          [] k = "maintain"     -> PublishPending(s)
          [] OTHER              -> CloseStore(s, k = "close")

-----------------------------------------------------------------------------
Idle == [at |-> "idle", call |-> 0]

\* open_with_capacity_and_options: the call returns when the thread has the store.
Init ==
    /\ state = "open" /\ queue = <<>> /\ worker = Idle
    /\ store = Writer /\ calls = <<>>

Call(kind, at, answer) ==
    [kind |-> kind, at |-> at, answer |-> answer, view |-> {}, before |-> Acknowledged]

\* submit, first half: the state is loaded.
\* close: the state is exchanged, and only one close ever succeeds at that.
Begin(kind) ==
    /\ Len(calls) < MaxCalls /\ state # "dropped"
    /\ calls' = Append(calls, IF state = "open" THEN Call(kind, "loaded", "none")
                                                ELSE Call(kind, "answered", "closed"))
    /\ state' = IF kind \in Closes THEN "closing" ELSE state
    /\ UNCHANGED <<queue, worker, store>>

\* The receiver was dropped: the thread has left run.
Disconnected == worker.at \in {"dropping", "gone"}

Enqueue(c) ==
    /\ queue' = Append(queue, c)
    /\ calls' = [calls EXCEPT ![c].at = "pending"]

\* submit, second half: try_send.
TrySend(c) ==
    /\ calls[c].at = "loaded" /\ calls[c].kind \notin Closes
    /\ IF Disconnected THEN Answers(c, "exited") /\ UNCHANGED queue
       ELSE IF Len(queue) = Capacity THEN Answers(c, "busy") /\ UNCHANGED queue
       ELSE Enqueue(c)
    /\ UNCHANGED <<state, worker, store>>

\* A mutant: a close tries again whatever refuses it, a queue that is gone as well.
SendCloseRetries(c) ==
    /\ calls[c].at = "loaded" /\ calls[c].kind \in Closes
    /\ ~Disconnected /\ Len(queue) < Capacity /\ Enqueue(c)
    /\ UNCHANGED <<state, worker, store>>

\* close: a blocking send on another thread, which waits for room.
SendClose(c) ==
    /\ calls[c].at = "loaded" /\ calls[c].kind \in Closes
    /\ \/ Disconnected /\ Answers(c, "exited") /\ UNCHANGED queue
       \/ ~Disconnected /\ Len(queue) < Capacity /\ Enqueue(c)
    /\ UNCHANGED <<state, worker, store>>

\* The future that waits for a reply is resumed after its sender was dropped.
\* A close does not look at the state, which it has changed itself.
Receive(c) ==
    /\ calls[c].at = "dropped"
    /\ Answers(c, IF state # "open" /\ calls[c].kind \notin Closes THEN "closed" ELSE "exited")
    /\ UNCHANGED <<state, queue, worker, store>>

\* The last handle is collected; a call in flight holds one.
DropHandle ==
    /\ state # "dropped" /\ \A c \in DOMAIN calls : calls[c].at = "answered"
    /\ state' = "dropped"
    /\ UNCHANGED <<queue, worker, store, calls>>

-----------------------------------------------------------------------------
(* The thread. *)

\* run: recv.
Take ==
    /\ worker.at = "idle" /\ queue # <<>>
    /\ worker' = [at |-> "running", call |-> Head(queue)] /\ queue' = Tail(queue)
    /\ UNCHANGED <<state, store, calls>>

\* run: the command is carried out and its reply sent; after a close run returns.
Carry ==
    /\ worker.at = "running"
    /\ LET c == worker.call
       IN  /\ \E e \in Ends(store, c) :
                 /\ store' = e.store
                 /\ calls' = [calls EXCEPT ![c].at = "answered", ![c].answer = e.answer, ![c].view = e.view]
           /\ worker' = IF calls[c].kind \in Closes THEN [worker EXCEPT !.at = "leaving"] ELSE Idle
    /\ UNCHANGED <<state, queue>>

\* The thread panics in a command; what the command did so far stays.
Panics ==
    /\ worker.at = "running"
    /\ \E e \in Ends(store, worker.call) : store' = e.store
    /\ calls' = [calls EXCEPT ![worker.call].at = "dropped"]
    /\ worker' = [at |-> "leaving", call |-> worker.call]
    /\ UNCHANGED <<state, queue>>

\* recv fails once nobody is left to send.
Abandoned ==
    /\ worker.at = "idle" /\ queue = <<>> /\ state = "dropped"
    /\ worker' = [at |-> "leaving", call |-> 0]
    /\ UNCHANGED <<state, queue, store, calls>>

\* run returns: the receiver goes first, and with it the commands that wait and
\* the senders of their replies ...
DropReceiver ==
    /\ worker.at = "leaving"
    /\ worker' = [worker EXCEPT !.at = "dropping"] /\ queue' = <<>>
    /\ calls' = [c \in DOMAIN calls |-> IF c \in ToSet(queue) THEN [calls[c] EXCEPT !.at = "dropped"] ELSE calls[c]]
    /\ UNCHANGED <<state, store>>

\* ... then the store, if no close took it.
DropStore ==
    /\ worker.at = "dropping"
    /\ worker' = [worker EXCEPT !.at = "gone"]
    /\ IF store.held THEN store' \in Released(store) ELSE UNCHANGED store
    /\ UNCHANGED <<state, queue, calls>>

Tasks(c) == TrySend(c) \/ SendClose(c) \/ Receive(c)
Thread == Take \/ Carry \/ Panics \/ Abandoned \/ DropReceiver \/ DropStore

Next ==
    \/ \E kind \in Kinds : Begin(kind)
    \/ \E c \in DOMAIN calls : Tasks(c)
    \/ DropHandle
    \/ Thread

\* The thread is scheduled, and so is every task of the Tokio pool.  A close
\* that waits for room needs no more: no call begins to send once it is under
\* way, so the room it finds is not taken from it for ever.
Fairness == WF_vars(Thread) /\ \A c \in 1 .. MaxCalls : WF_vars(c \in DOMAIN calls /\ Tasks(c))

Spec == Init /\ [][Next]_vars /\ Fairness

-----------------------------------------------------------------------------
(* Properties. *)

Answered(c) == calls[c].at = "answered"
Succeeded(c) == Answered(c) /\ calls[c].answer = "ok"

\* What a caller was told comes true.  A scan or a snapshot shows every write
\* that was answered before it was asked for; and when the writer has let the
\* store go - closed, collected or dead - the next open finds every write that
\* was durable, or was answered before a sync, a flush, a snapshot, a
\* maintenance call or a close that succeeded (actor.rs, run).
PromisesKept ==
    /\ \A c \in DOMAIN calls : Succeeded(c) /\ calls[c].kind \in {"scan", "snapshot"} =>
          calls[c].before \subseteq calls[c].view
    /\ ~store.held => \A c \in DOMAIN calls : Succeeded(c) /\ calls[c].kind \in Settling =>
          calls[c].before \cup ({c} \cap Acknowledged) \subseteq store.kept

\* A refusal means that nothing was done: a call that was told the queue is full
\* or the store closed left no write, unless the thread died in it.  And a close
\* that was answered by the thread has given the file lock back, so that an open
\* right after it is not refused.
RefusalsAreFinal ==
    /\ \A c \in DOMAIN calls : Answered(c) /\ calls[c].answer \in {"busy", "closed"} =>
          c \notin ToSet(store.applied) \/ worker.call = c
    /\ \A c \in DOMAIN calls : calls[c].kind \in Closes /\ Answered(c) /\ calls[c].answer \in {"ok", "failed"} =>
          ~store.held

\* Every call is answered, whatever the queue, a close or the death of the
\* thread do to it.
CallsAnswered == \A c \in 1 .. MaxCalls : c \in DOMAIN calls ~> c \in DOMAIN calls /\ Answered(c)

=============================================================================
