----------------------------- MODULE ActorProofs -----------------------------
(***************************************************************************)
(* Every reachable state of Actor, whatever the room of the queue and the  *)
(* number of calls, satisfies ActorInvariant!ActorInv: what a caller was   *)
(* told comes true, and what was refused was not done.                     *)
(***************************************************************************)
EXTENDS ActorInvariant, SequenceTheorems, TLAPS

-----------------------------------------------------------------------------
(* The writes applied so far. *)

LEMMA FirstOf ==
    ASSUME NEW s \in Seq(Nat), NEW n \in 0 .. Len(s)
    PROVE  /\ ToSet(SubSeq(s, 1, n)) = First(s, n)
           /\ ToSet(s) = First(s, Len(s))
           /\ First(s, n) \subseteq First(s, Len(s))
           /\ First(s, n) \subseteq Nat
<1>1. /\ Len(SubSeq(s, 1, n)) = n /\ \A i \in 1 .. n : SubSeq(s, 1, n)[i] = s[i]
      /\ DOMAIN SubSeq(s, 1, n) = 1 .. n /\ DOMAIN s = 1 .. Len(s)
  OBVIOUS
<1>2. ToSet(SubSeq(s, 1, n)) = First(s, n)
  BY <1>1 DEF ToSet, First
<1> QED
  BY <1>1, <1>2 DEF ToSet, First

LEMMA FirstAppend ==
    ASSUME NEW s \in Seq(Nat), NEW x \in Nat, NEW n \in 0 .. Len(s)
    PROVE  /\ Append(s, x) \in Seq(Nat) /\ Len(Append(s, x)) = Len(s) + 1
           /\ First(Append(s, x), n) = First(s, n)
           /\ First(Append(s, x), Len(s) + 1) = First(s, Len(s)) \cup {x}
<1>1. /\ Append(s, x) \in Seq(Nat) /\ Len(Append(s, x)) = Len(s) + 1
      /\ \A i \in 1 .. Len(s) : Append(s, x)[i] = s[i]
      /\ Append(s, x)[Len(s) + 1] = x /\ Len(s) \in Nat
  OBVIOUS
<1>2. First(Append(s, x), n) = First(s, n)
  BY <1>1 DEF First
<1>3. ASSUME NEW y \in First(Append(s, x), Len(s) + 1) PROVE y \in First(s, Len(s)) \cup {x}
  <2>1. PICK i \in 1 .. Len(s) + 1 : y = Append(s, x)[i]
    BY <1>3 DEF First
  <2>2. CASE i = Len(s) + 1
    BY <1>1, <2>1, <2>2
  <2>3. CASE i # Len(s) + 1
    BY <1>1, <2>1, <2>3 DEF First
  <2> QED
    BY <2>2, <2>3
<1>4. ASSUME NEW y \in First(s, Len(s)) PROVE y \in First(Append(s, x), Len(s) + 1)
  <2>1. PICK i \in 1 .. Len(s) : y = s[i]
    BY <1>4 DEF First
  <2>2. i \in 1 .. Len(s) + 1 /\ y = Append(s, x)[i]
    BY <1>1, <2>1
  <2> QED
    BY <2>2 DEF First
<1>5. x \in First(Append(s, x), Len(s) + 1)
  BY <1>1 DEF First
<1> QED
  BY <1>1, <1>2, <1>3, <1>4, <1>5

-----------------------------------------------------------------------------
(* Steps that leave the store alone. *)

\* What such a step does to the calls: it adds some, or ends or moves some that
\* had no answer, and tells nobody that a command was carried out.
QuietStep ==
    /\ UNCHANGED store
    /\ DOMAIN calls \subseteq DOMAIN calls'
    /\ \A c \in DOMAIN calls' :
         \/ c \in DOMAIN calls /\ calls'[c] = calls[c]
         \/ /\ calls'[c].answer \notin {"ok", "failed"} /\ calls'[c].before \subseteq Acknowledged
            /\ c \in DOMAIN calls => calls[c].at # "answered"
    /\ worker.at \in {"leaving", "dropping", "gone"} =>
         worker'.call = worker.call /\ worker'.at \in {"leaving", "dropping", "gone"}

LEMMA QuietKeeps ==
    ASSUME ActorInv, QuietStep
    PROVE  AppliedInv' /\ AnswersInv'
<1>1. Acknowledged' = Acknowledged
  BY DEF QuietStep, Acknowledged, ActorInv, PlacesInv
<1>2. AppliedInv'
  <2>1. ASSUME NEW i \in 1 .. Len(store'.applied)
        PROVE  LET c == store'.applied[i]
               IN  /\ c \in DOMAIN calls'
                   /\ \/ calls'[c].at = "answered" /\ calls'[c].answer \in {"ok", "failed"}
                      \/ worker'.call = c /\ worker'.at \in {"leaving", "dropping", "gone"}
    BY <2>1 DEF QuietStep, ActorInv, AppliedInv
  <2> QED
    BY <1>1, <2>1 DEF AppliedInv, ActorInv, QuietStep
<1>3. AnswersInv'
  <2> SUFFICES ASSUME NEW c \in DOMAIN calls'
               PROVE  /\ calls'[c].before \subseteq Acknowledged
                      /\ calls'[c].answer = "ok" =>
                           /\ calls'[c].kind \in Settling =>
                                calls'[c].before \cup ({c} \cap Acknowledged)
                                  \subseteq First(store.applied, store.logged)
                           /\ calls'[c].kind \in {"scan", "snapshot"} => calls'[c].before \subseteq calls'[c].view
                      /\ (calls'[c].kind \in Closes /\ calls'[c].answer \in {"ok", "failed"}) => ~store.held
    BY <1>1 DEF AnswersInv, QuietStep
  <2>1. CASE c \in DOMAIN calls /\ calls'[c] = calls[c]
    BY <2>1 DEF ActorInv, AnswersInv
  <2>2. CASE calls'[c].answer \notin {"ok", "failed"} /\ calls'[c].before \subseteq Acknowledged
    BY <2>2
  <2> QED
    BY <2>1, <2>2 DEF QuietStep
<1> QED
  BY <1>2, <1>3

LEMMA Types ==
    ASSUME ActorInv
    PROVE  /\ calls \in Seq(CallType) /\ DOMAIN calls = 1 .. Len(calls) /\ Len(calls) \in Nat
           /\ calls \in [1 .. Len(calls) -> CallType]
           /\ \A c \in DOMAIN calls : calls[c] \in CallType
           /\ queue \in Seq(Nat) /\ Len(queue) \in Nat /\ DOMAIN queue = 1 .. Len(queue)
           /\ store \in StoreType /\ store.applied \in Seq(Nat) /\ Len(store.applied) \in Nat
           /\ store.logged \in Nat
           /\ Acknowledged \subseteq DOMAIN calls /\ Acknowledged \subseteq Nat
BY DEF ActorInv, TypeOK, StoreType, Acknowledged

LEMMA BeginKeeps ==
    ASSUME ActorInv, NEW kind \in Kinds, Begin(kind)
    PROVE  ActorInv'
<1>1. PICK x : /\ calls' = Append(calls, x) /\ x.kind = kind /\ x.view = {} /\ x.before = Acknowledged
               /\ x.answer \in {"none", "closed"} /\ x.at \in {"loaded", "answered"}
               /\ x.at = "answered" \/ x.answer = "none"
               /\ x \in [kind : {kind}, at : {"loaded", "answered"}, answer : {"none", "closed"},
                         view : {{}}, before : {Acknowledged}]
  BY DEF Begin, Call
<1>2. x \in CallType
  BY <1>1, Types DEF CallType
<1>3. /\ calls' \in Seq(CallType) /\ Len(calls') = Len(calls) + 1
      /\ DOMAIN calls' = 1 .. Len(calls) + 1 /\ Len(calls) \in Nat
      /\ \A c \in DOMAIN calls : calls'[c] = calls[c]
      /\ calls'[Len(calls) + 1] = x
  BY <1>1, <1>2, Types
<1>4. UNCHANGED <<queue, worker, store>> /\ state' \in {"open", "closing", "dropped"}
  BY DEF Begin, ActorInv, TypeOK
<1>5. \A c \in DOMAIN calls' : c \in DOMAIN calls \/ (c = Len(calls) + 1 /\ c \notin DOMAIN calls)
  BY <1>3, Types
<1>6. QuietStep
  BY <1>1, <1>3, <1>4, <1>5, Types DEF QuietStep
<1>7. TypeOK'
  BY <1>3, <1>4 DEF TypeOK, ActorInv
<1>8. PlacesInv'
  BY <1>1, <1>3, <1>4, <1>5, Types DEF PlacesInv, ActorInv
<1>9. StoreInv'
  BY <1>4 DEF StoreInv, ActorInv
<1> QED
  BY <1>6, <1>7, <1>8, <1>9, QuietKeeps DEF ActorInv

\* One call changes.
LEMMA OneCall ==
    ASSUME ActorInv, NEW c \in DOMAIN calls, NEW x \in CallType, calls' = [calls EXCEPT ![c] = x]
    PROVE  /\ calls' \in Seq(CallType) /\ DOMAIN calls' = DOMAIN calls
           /\ calls'[c] = x /\ \A d \in DOMAIN calls : d # c => calls'[d] = calls[d]
BY Types

\* A call that waited for nothing but its task is answered without the thread.
LEMMA TurnedAway ==
    ASSUME ActorInv, NEW c \in DOMAIN calls, calls[c].at \in {"loaded", "dropped"},
           NEW answer \in {"busy", "closed", "exited"}, Answers(c, answer),
           UNCHANGED <<state, queue, worker, store>>
    PROVE  ActorInv'
<1> DEFINE x == [calls[c] EXCEPT !.at = "answered", !.answer = answer]
<1>1. calls' = [calls EXCEPT ![c] = x]
  BY Types DEF Answers
<1>2. x \in CallType /\ x.at = "answered" /\ x.answer = answer /\ x.before = calls[c].before
  BY Types DEF CallType
<1> HIDE DEF x
<1>3. /\ calls' \in Seq(CallType) /\ DOMAIN calls' = DOMAIN calls
      /\ calls'[c] = x /\ \A d \in DOMAIN calls : d # c => calls'[d] = calls[d]
  BY <1>1, <1>2, OneCall
<1>4. calls[c].before \subseteq Acknowledged
  BY DEF ActorInv, AnswersInv
<1>5. QuietStep
  BY <1>2, <1>3, <1>4 DEF QuietStep
<1>6. TypeOK' /\ StoreInv'
  BY <1>3 DEF TypeOK, StoreInv, ActorInv
<1>7. PlacesInv'
  <2>1. \A d \in DOMAIN calls : calls[d].at = "pending" => d # c /\ calls'[d] = calls[d]
    BY <1>3
  <2>2. /\ \A i \in 1 .. Len(queue) : queue[i] \in DOMAIN calls' /\ calls'[queue[i]].at = "pending"
        /\ \A i, j \in 1 .. Len(queue) : queue[i] = queue[j] => i = j
    BY <1>3, <2>1 DEF PlacesInv, ActorInv
  <2>3. worker.at = "running" =>
          /\ worker.call \in DOMAIN calls' /\ calls'[worker.call].at = "pending"
          /\ \A i \in 1 .. Len(queue) : queue[i] # worker.call
    BY <1>3, <2>1 DEF PlacesInv, ActorInv
  <2>4. ASSUME NEW d \in DOMAIN calls, calls'[d].at # "answered" PROVE calls'[d].answer = "none"
    BY <1>2, <1>3, <2>4 DEF PlacesInv, ActorInv
  <2> QED
    BY <1>3, <2>2, <2>3, <2>4 DEF PlacesInv
<1> QED
  BY <1>5, <1>6, <1>7, QuietKeeps DEF ActorInv

LEMMA EnqueueKeeps ==
    ASSUME ActorInv, NEW c \in DOMAIN calls, calls[c].at = "loaded", Enqueue(c),
           UNCHANGED <<state, worker, store>>
    PROVE  ActorInv'
<1> DEFINE x == [calls[c] EXCEPT !.at = "pending"]
<1>1. calls' = [calls EXCEPT ![c] = x]
  BY Types DEF Enqueue
<1>2. x \in CallType /\ x.at = "pending" /\ x.answer = calls[c].answer /\ x.before = calls[c].before
      /\ calls[c].answer = "none"
  BY Types DEF CallType, ActorInv, PlacesInv
<1> HIDE DEF x
<1>3. /\ calls' \in Seq(CallType) /\ DOMAIN calls' = DOMAIN calls
      /\ calls'[c] = x /\ \A d \in DOMAIN calls : d # c => calls'[d] = calls[d]
  BY <1>1, <1>2, OneCall
<1>4. calls[c].before \subseteq Acknowledged
  BY DEF ActorInv, AnswersInv
<1>5. QuietStep
  BY <1>2, <1>3, <1>4 DEF QuietStep
<1>6. /\ queue' \in Seq(Nat) /\ Len(queue') = Len(queue) + 1 /\ queue'[Len(queue) + 1] = c
      /\ \A i \in 1 .. Len(queue) : queue'[i] = queue[i]
  BY Types DEF Enqueue
<1>7. TypeOK' /\ StoreInv'
  BY <1>3, <1>6 DEF TypeOK, StoreInv, ActorInv
<1>8. \A i \in 1 .. Len(queue) : queue[i] # c
  BY DEF PlacesInv, ActorInv
<1>9. \A i \in 1 .. Len(queue') : i \in 1 .. Len(queue) \/ i = Len(queue) + 1
  BY <1>6, Types
<1>10. PlacesInv'
  <2>1. /\ \A i \in 1 .. Len(queue') : queue'[i] \in DOMAIN calls' /\ calls'[queue'[i]].at = "pending"
        /\ \A i, j \in 1 .. Len(queue') : queue'[i] = queue'[j] => i = j
    <3>1. ASSUME NEW i \in 1 .. Len(queue')
          PROVE  queue'[i] \in DOMAIN calls' /\ calls'[queue'[i]].at = "pending"
      <4>1. CASE i = Len(queue) + 1
        BY <1>2, <1>3, <1>6, <4>1
      <4>2. CASE i \in 1 .. Len(queue)
        <5>1. queue'[i] = queue[i] /\ queue[i] # c /\ queue[i] \in DOMAIN calls /\ calls[queue[i]].at = "pending"
          BY <1>6, <1>8, <4>2 DEF PlacesInv, ActorInv
        <5> QED
          BY <1>3, <5>1
      <4> QED
        BY <1>9, <4>1, <4>2
    <3>2. ASSUME NEW i \in 1 .. Len(queue'), NEW j \in 1 .. Len(queue'), queue'[i] = queue'[j] PROVE i = j
      BY <1>6, <1>8, <1>9, <3>2 DEF PlacesInv, ActorInv
    <3> QED
      BY <3>1, <3>2
  <2>2. worker'.at = "running" =>
         /\ worker'.call \in DOMAIN calls' /\ calls'[worker'.call].at = "pending"
         /\ \A i \in 1 .. Len(queue') : queue'[i] # worker'.call
    <3>1. worker.at = "running" =>
            /\ worker.call \in DOMAIN calls /\ worker.call # c /\ calls[worker.call].at = "pending"
            /\ \A i \in 1 .. Len(queue) : queue[i] # worker.call
      BY DEF PlacesInv, ActorInv
    <3>2. worker.at = "running" => \A i \in 1 .. Len(queue') : queue'[i] # worker.call
      BY <1>6, <1>9, <3>1
    <3> QED
      BY <1>3, <3>1, <3>2
  <2>3. ASSUME NEW d \in DOMAIN calls, calls'[d].at # "answered" PROVE calls'[d].answer = "none"
    BY <1>2, <1>3, <2>3 DEF PlacesInv, ActorInv
  <2> QED
    BY <1>3, <2>1, <2>2, <2>3 DEF PlacesInv
<1> QED
  BY <1>5, <1>7, <1>10, QuietKeeps DEF ActorInv

LEMMA TasksKeep ==
    ASSUME ActorInv, NEW c \in DOMAIN calls, Tasks(c)
    PROVE  ActorInv'
<1>1. CASE TrySend(c)
  BY <1>1, TurnedAway, EnqueueKeeps DEF TrySend
<1>2. CASE SendClose(c)
  BY <1>2, TurnedAway, EnqueueKeeps DEF SendClose
<1>3. CASE Receive(c)
  BY <1>3, TurnedAway DEF Receive
<1> QED
  BY <1>1, <1>2, <1>3 DEF Tasks

LEMMA DropHandleKeeps ==
    ASSUME ActorInv, DropHandle
    PROVE  ActorInv'
<1>1. UNCHANGED <<queue, worker, store, calls>> /\ state' = "dropped"
  BY DEF DropHandle
<1>2. QuietStep
  BY <1>1 DEF QuietStep
<1> QED
  BY <1>1, <1>2, QuietKeeps DEF ActorInv, TypeOK, PlacesInv, StoreInv

LEMMA TakeKeeps ==
    ASSUME ActorInv, Take
    PROVE  ActorInv'
<1>1. /\ worker.at = "idle" /\ queue # <<>> /\ worker' = [at |-> "running", call |-> Head(queue)]
      /\ queue' = Tail(queue) /\ UNCHANGED <<state, store, calls>>
  BY DEF Take
<1>2. /\ queue' \in Seq(Nat) /\ Len(queue') = Len(queue) - 1 /\ Len(queue) \in Nat /\ Len(queue) >= 1
      /\ worker'.call = queue[1] /\ queue[1] \in Nat
      /\ \A i \in 1 .. Len(queue') : queue'[i] = queue[i + 1] /\ i + 1 \in 1 .. Len(queue)
  BY <1>1, Types
<1>3. QuietStep
  BY <1>1 DEF QuietStep
<1>4. TypeOK'
  BY <1>1, <1>2 DEF ActorInv, TypeOK
<1>5. PlacesInv'
  <2>1. /\ \A i \in 1 .. Len(queue') : queue'[i] \in DOMAIN calls' /\ calls'[queue'[i]].at = "pending"
        /\ \A i, j \in 1 .. Len(queue') : queue'[i] = queue'[j] => i = j
    BY <1>1, <1>2 DEF ActorInv, PlacesInv
  <2>2. /\ worker'.call \in DOMAIN calls' /\ calls'[worker'.call].at = "pending"
        /\ \A i \in 1 .. Len(queue') : queue'[i] # worker'.call
    BY <1>1, <1>2 DEF ActorInv, PlacesInv
  <2> QED
    BY <1>1, <2>1, <2>2 DEF ActorInv, PlacesInv
<1>6. StoreInv'
  BY <1>1 DEF ActorInv, StoreInv
<1> QED
  BY <1>3, <1>4, <1>5, <1>6, QuietKeeps DEF ActorInv

LEMMA AbandonedKeeps ==
    ASSUME ActorInv, Abandoned
    PROVE  ActorInv'
<1>1. /\ worker.at = "idle" /\ worker' = [at |-> "leaving", call |-> 0]
      /\ UNCHANGED <<state, queue, store, calls>>
  BY DEF Abandoned
<1>2. QuietStep
  BY <1>1 DEF QuietStep
<1> QED
  BY <1>1, <1>2, QuietKeeps DEF ActorInv, TypeOK, PlacesInv, StoreInv

\* The commands that wait are dropped with the queue.
LEMMA DropReceiverKeeps ==
    ASSUME ActorInv, DropReceiver
    PROVE  ActorInv'
<1>1. /\ worker.at = "leaving" /\ worker' = [worker EXCEPT !.at = "dropping"] /\ queue' = <<>>
      /\ UNCHANGED <<state, store>>
      /\ calls' = [c \in 1 .. Len(calls) |-> IF c \in ToSet(queue) THEN [calls[c] EXCEPT !.at = "dropped"]
                                             ELSE calls[c]]
  BY Types DEF DropReceiver
<1>2. ASSUME NEW c \in 1 .. Len(calls)
      PROVE  /\ calls'[c] \in CallType /\ calls'[c].answer = calls[c].answer
             /\ calls'[c].before = calls[c].before
             /\ \/ calls'[c] = calls[c]
                \/ calls'[c].at = "dropped" /\ calls[c].at = "pending"
  <2>1. CASE c \notin ToSet(queue)
    BY <1>1, <2>1, Types
  <2>2. CASE c \in ToSet(queue)
    <3>1. calls[c].at = "pending" /\ calls[c] \in CallType
      BY <2>2, Types DEF ToSet, ActorInv, PlacesInv
    <3>2. calls'[c] = [calls[c] EXCEPT !.at = "dropped"]
      BY <1>1, <2>2
    <3> QED
      BY <3>1, <3>2 DEF CallType
  <2> QED
    BY <2>1, <2>2
<1>3. calls' \in Seq(CallType) /\ DOMAIN calls' = 1 .. Len(calls) /\ DOMAIN calls = 1 .. Len(calls)
  <2>1. calls' \in [1 .. Len(calls) -> CallType]
    BY <1>1, <1>2
  <2>2. Len(calls) \in Nat /\ DOMAIN calls = 1 .. Len(calls)
    BY Types
  <2>3. calls' \in UNION {[1 .. n -> CallType] : n \in Nat}
    BY <2>1, <2>2
  <2>4. calls' \in Seq(CallType)
    BY <2>3, SeqDef
  <2> QED
    BY <2>1, <2>2, <2>4
<1>4. worker'.at = "dropping" /\ worker'.call = worker.call /\ worker' \in [at : {"dropping"}, call : Nat]
  BY <1>1 DEF ActorInv, TypeOK
<1>5. QuietStep
  BY <1>1, <1>2, <1>3, <1>4 DEF QuietStep, ActorInv, PlacesInv, AnswersInv
<1>6. TypeOK' /\ StoreInv'
  BY <1>1, <1>3, <1>4 DEF ActorInv, TypeOK, StoreInv
<1>7. PlacesInv'
  <2>1. Len(queue') = 0 /\ 1 .. Len(queue') = {}
    BY <1>1
  <2>2. \A c \in DOMAIN calls' : calls'[c].at # "answered" => calls'[c].answer = "none"
    BY <1>2, <1>3 DEF ActorInv, PlacesInv
  <2> QED
    BY <1>4, <2>1, <2>2 DEF PlacesInv
<1> QED
  BY <1>5, <1>6, <1>7, QuietKeeps DEF ActorInv

-----------------------------------------------------------------------------
(* How a command ends. *)

LEMMA SyncedOf ==
    ASSUME NEW s \in StoreType
    PROVE  /\ Synced(s) \in StoreType /\ Synced(s).held = s.held /\ Synced(s).applied = s.applied
           /\ Synced(s).logged = Len(s.applied) /\ Synced(s).kept = s.kept
<1>1. Len(s.applied) \in Nat
  BY DEF StoreType
<1> QED
  BY <1>1 DEF StoreType, Synced

LEMMA AppendedOf ==
    ASSUME NEW s \in StoreType, NEW c \in Nat
    PROVE  LET t == [s EXCEPT !.applied = Append(@, c)]
           IN  /\ t \in StoreType /\ t.held = s.held /\ t.applied = Append(s.applied, c)
               /\ t.logged = s.logged /\ t.kept = s.kept
<1>1. s.applied \in Seq(Nat)
  BY DEF StoreType
<1>2. Append(s.applied, c) \in Seq(Nat)
  BY <1>1
<1> QED
  BY <1>2 DEF StoreType

LEMMA ReleasedOf ==
    ASSUME NEW s \in StoreType, s.logged <= Len(s.applied), NEW r \in Released(s)
    PROVE  /\ r \in StoreType /\ ~r.held /\ r.applied = s.applied /\ r.logged = s.logged
           /\ First(s.applied, s.logged) \subseteq r.kept
<1>1. s.applied \in Seq(Nat) /\ s.logged \in Nat /\ Len(s.applied) \in Nat
  BY DEF StoreType
<1>2. PICK n \in s.logged .. Len(s.applied) :
         r = [s EXCEPT !.held = FALSE, !.kept = ToSet(SubSeq(s.applied, 1, n))]
  BY DEF Released
<1>3. n \in 0 .. Len(s.applied) /\ s.logged <= n
  BY <1>1, <1>2
<1>4. ToSet(SubSeq(s.applied, 1, n)) = First(s.applied, n) /\ First(s.applied, n) \subseteq Nat
  BY <1>1, <1>3, FirstOf
<1>5. First(s.applied, s.logged) \subseteq First(s.applied, n)
  BY <1>1, <1>3 DEF First
<1> QED
  BY <1>2, <1>4, <1>5 DEF StoreType

\* What is certain of the end e of the command of call c: the store lost
\* nothing, and what the answer promises is so.
EndOf(e, c) ==
    /\ e.store \in StoreType /\ e.answer \in {"ok", "failed"} /\ e.view \in SUBSET Nat
    /\ e.store.logged <= Len(e.store.applied) /\ store.logged <= e.store.logged
    /\ \/ e.store.applied = store.applied
       \/ e.store.applied = Append(store.applied, c)
    /\ e.store.held <=> calls[c].kind \notin Closes
    /\ ~e.store.held => First(e.store.applied, e.store.logged) \subseteq e.store.kept
    /\ e.answer = "ok" =>
         /\ calls[c].kind \in Writes => e.store.applied = Append(store.applied, c)
         /\ calls[c].kind \in Settling => e.store.logged = Len(e.store.applied)
         /\ calls[c].kind \in {"scan", "snapshot"} => e.view = First(store.applied, Len(store.applied))

LEMMA EndsOf ==
    ASSUME ActorInv, worker.at = "running", NEW e \in Ends(store, worker.call)
    PROVE  EndOf(e, worker.call)
<1> DEFINE c == worker.call
           k == calls[c].kind
<1>1. /\ store \in StoreType /\ store.held /\ store.logged <= Len(store.applied)
      /\ c \in DOMAIN calls /\ c \in Nat /\ k \in Kinds
      /\ store.applied \in Seq(Nat) /\ Len(store.applied) \in Nat /\ store.logged \in Nat
  BY Types DEF ActorInv, StoreInv, PlacesInv, CallType
<1>2. ToSet(store.applied) = First(store.applied, Len(store.applied))
      /\ ToSet(store.applied) \subseteq Nat
  BY <1>1, FirstOf
<1>3. /\ Synced(store) \in StoreType /\ Synced(store).held /\ Synced(store).applied = store.applied
      /\ Synced(store).logged = Len(store.applied)
  BY <1>1, SyncedOf
<1>4. CASE k \in Writes
  <2> DEFINE done == [store EXCEPT !.applied = Append(@, c)]
  <2>1. /\ done \in StoreType /\ done.held /\ done.applied = Append(store.applied, c)
        /\ done.logged = store.logged
    BY <1>1, AppendedOf
  <2>2. /\ Synced(done) \in StoreType /\ Synced(done).held /\ Synced(done).applied = Append(store.applied, c)
        /\ Synced(done).logged = Len(Append(store.applied, c))
    BY <2>1, SyncedOf
  <2>3. Len(Append(store.applied, c)) = Len(store.applied) + 1
    BY <1>1
  <2>4. e \in {Fails(store)} \cup (IF k = "durable_write" THEN {Fails(done), Ok(Synced(done))} ELSE {Ok(done)})
    <3>1. Ends(store, c) = Apply(store, c)
      BY <1>4 DEF Ends, Writes
    <3>2. e \in Apply(store, c)
      BY <3>1
    <3> QED
      BY <3>2 DEF Apply
  <2> HIDE DEF done
  <2>5. CASE e = Fails(store)
    BY <1>1, <1>4, <2>5 DEF EndOf, Fails, End, Writes, Closes
  <2>6. CASE e = Fails(done)
    BY <1>1, <1>4, <2>1, <2>3, <2>6 DEF EndOf, Fails, End, Writes, Closes
  <2>7. CASE e = Ok(Synced(done))
    BY <1>1, <1>4, <2>2, <2>3, <2>7 DEF EndOf, Ok, End, Writes, Closes
  <2>8. CASE e = Ok(done) /\ k = "write"
    BY <1>1, <2>1, <2>3, <2>8 DEF EndOf, Ok, End, Closes, Settling
  <2> QED
    BY <1>4, <2>4, <2>5, <2>6, <2>7, <2>8 DEF Writes
<1>5. CASE k \in {"sync", "maintain"}
  <2>1. e \in {Fails(store), Fails(Synced(store)), Ok(Synced(store))}
    BY <1>5 DEF Ends, PublishPending, Writes
  <2> QED
    BY <1>1, <1>3, <1>5, <2>1 DEF EndOf, Fails, Ok, End, Writes, Closes
<1>6. CASE k \in {"scan", "snapshot"}
  <2>1. \/ e = End(store, "ok", ToSet(store.applied)) /\ k = "scan"
        \/ e = Fails(store) \/ e = Fails(Synced(store)) \/ e = End(Synced(store), "ok", ToSet(store.applied))
    BY <1>6 DEF Ends, Snapshot, Writes
  <2> QED
    BY <1>1, <1>2, <1>3, <1>6, <2>1 DEF EndOf, Fails, End, Writes, Closes, Settling
<1>7. CASE k \in Closes
  <2>1. \/ \E r \in Released(store) : e = Fails(r) \/ (e = Ok(r) /\ k # "close")
        \/ \E r \in Released(Synced(store)) : e = Fails(r) \/ e = Ok(r)
    BY <1>7 DEF Ends, CloseStore, Closes, Writes
  <2>2. ASSUME NEW r \in Released(store)
        PROVE  /\ r \in StoreType /\ ~r.held /\ r.applied = store.applied /\ r.logged = store.logged
               /\ First(store.applied, store.logged) \subseteq r.kept
    BY <1>1, <2>2, ReleasedOf
  <2>3. ASSUME NEW r \in Released(Synced(store))
        PROVE  /\ r \in StoreType /\ ~r.held /\ r.applied = store.applied /\ r.logged = Len(store.applied)
               /\ First(store.applied, Len(store.applied)) \subseteq r.kept
    BY <1>1, <1>3, <2>3, ReleasedOf
  <2>4. CASE \E r \in Released(store) : e = Fails(r) \/ (e = Ok(r) /\ k # "close")
    BY <1>1, <1>7, <2>2, <2>4 DEF EndOf, Fails, Ok, End, Writes, Closes, Settling
  <2>5. CASE \E r \in Released(Synced(store)) : e = Fails(r) \/ e = Ok(r)
    BY <1>1, <1>7, <2>3, <2>5 DEF EndOf, Fails, Ok, End, Writes, Closes, Settling
  <2> QED
    BY <2>1, <2>4, <2>5
<1> QED
  BY <1>1, <1>4, <1>5, <1>6, <1>7 DEF Kinds, Writes, Closes

\* Nothing the store held is lost by the end of a command.
LEMMA Grows ==
    ASSUME ActorInv, worker.at = "running", NEW e, EndOf(e, worker.call)
    PROVE  /\ First(store.applied, store.logged) \subseteq First(e.store.applied, e.store.logged)
           /\ First(store.applied, Len(store.applied)) \subseteq First(e.store.applied, Len(e.store.applied))
           /\ e.store.applied = Append(store.applied, worker.call) =>
                worker.call \in First(e.store.applied, Len(e.store.applied))
           /\ \A i \in 1 .. Len(e.store.applied) :
                \/ i \in 1 .. Len(store.applied) /\ e.store.applied[i] = store.applied[i]
                \/ e.store.applied[i] = worker.call
<1>1. /\ store.applied \in Seq(Nat) /\ Len(store.applied) \in Nat /\ store.logged \in 0 .. Len(store.applied)
      /\ worker.call \in Nat /\ e.store.logged \in Nat /\ store.logged <= e.store.logged
      /\ e.store.logged <= Len(e.store.applied)
  BY Types DEF ActorInv, StoreInv, PlacesInv, EndOf, StoreType
<1>2. CASE e.store.applied = store.applied
  <2>1. Len(Append(store.applied, worker.call)) = Len(store.applied) + 1
    BY <1>1
  <2> QED
    BY <1>1, <1>2, <2>1 DEF First
<1>3. CASE e.store.applied = Append(store.applied, worker.call)
  <2>1. /\ Len(e.store.applied) = Len(store.applied) + 1
        /\ First(e.store.applied, store.logged) = First(store.applied, store.logged)
        /\ First(e.store.applied, Len(store.applied) + 1) = First(store.applied, Len(store.applied)) \cup {worker.call}
    <3>1. /\ Len(Append(store.applied, worker.call)) = Len(store.applied) + 1
          /\ First(Append(store.applied, worker.call), store.logged) = First(store.applied, store.logged)
          /\ First(Append(store.applied, worker.call), Len(store.applied) + 1)
               = First(store.applied, Len(store.applied)) \cup {worker.call}
      BY <1>1, FirstAppend
    <3> QED
      BY <1>3, <3>1
  <2>2. First(e.store.applied, store.logged) \subseteq First(e.store.applied, e.store.logged)
    BY <1>1 DEF First
  <2>3. \A i \in 1 .. Len(e.store.applied) :
           \/ i \in 1 .. Len(store.applied) /\ e.store.applied[i] = store.applied[i]
           \/ e.store.applied[i] = worker.call
    BY <1>1, <1>3, <2>1
  <2> QED
    BY <2>1, <2>2, <2>3
<1> QED
  BY <1>2, <1>3 DEF EndOf

\* The step of a command that ended as e: call c is now x, the thread left or not.
Ended(e, c, x) ==
    /\ store' = e.store /\ calls' = [calls EXCEPT ![c] = x]
    /\ x \in CallType /\ x.kind = calls[c].kind /\ x.before = calls[c].before
    /\ worker'.call \in Nat
    /\ \/ /\ x.at = "answered" /\ x.answer = e.answer /\ x.view = e.view
          /\ worker'.at = IF x.kind \in Closes THEN "leaving" ELSE "idle"
       \/ /\ x.at = "dropped" /\ x.answer = "none"
          /\ worker'.at = "leaving" /\ worker'.call = c

\* However the command ends, whether or not the thread lives to answer it.
LEMMA EndedKeeps ==
    ASSUME ActorInv, worker.at = "running", NEW e, EndOf(e, worker.call),
           NEW x, Ended(e, worker.call, x),
           worker' \in [at : {"idle", "leaving"}, call : Nat], UNCHANGED <<state, queue>>
    PROVE  ActorInv'
<1> DEFINE c == worker.call
<1>1. /\ c \in DOMAIN calls /\ calls[c] \in CallType /\ calls[c].at = "pending" /\ calls[c].answer = "none"
      /\ store.held /\ DOMAIN calls = 1 .. Len(calls)
      /\ \A i \in 1 .. Len(queue) : queue[i] # c
  BY Types DEF ActorInv, PlacesInv, StoreInv
<1>2. /\ calls' \in Seq(CallType) /\ DOMAIN calls' = DOMAIN calls
      /\ calls'[c] = x /\ \A d \in DOMAIN calls : d # c => calls'[d] = calls[d]
  BY <1>1, OneCall DEF Ended
<1>3. /\ First(store.applied, store.logged) \subseteq First(store'.applied, store'.logged)
      /\ First(store.applied, Len(store.applied)) \subseteq First(store'.applied, Len(store'.applied))
      /\ store'.applied = Append(store.applied, c) => c \in First(store'.applied, Len(store'.applied))
      /\ \A i \in 1 .. Len(store'.applied) :
           \/ i \in 1 .. Len(store.applied) /\ store'.applied[i] = store.applied[i]
           \/ store'.applied[i] = c
  BY Grows DEF Ended
<1>4. /\ store' \in StoreType /\ store'.logged <= Len(store'.applied)
      /\ store'.held <=> calls[c].kind \notin Closes
      /\ ~store'.held => First(store'.applied, store'.logged) \subseteq store'.kept
  BY DEF Ended, EndOf
<1>5. TypeOK'
  BY <1>2, <1>4 DEF TypeOK, ActorInv
<1>6. PlacesInv'
  <2>1. \A d \in DOMAIN calls : d # c => calls'[d] = calls[d] /\ calls[d] \in CallType
    BY <1>2, Types
  <2>2. /\ \A i \in 1 .. Len(queue) : queue[i] \in DOMAIN calls' /\ calls'[queue[i]].at = "pending"
        /\ \A i, j \in 1 .. Len(queue) : queue[i] = queue[j] => i = j
    BY <1>1, <1>2 DEF PlacesInv, ActorInv
  <2>3. ASSUME NEW d \in DOMAIN calls, calls'[d].at # "answered" PROVE calls'[d].answer = "none"
    BY <1>2, <2>3 DEF PlacesInv, ActorInv, Ended
  <2>4. worker'.at # "running"
    BY DEF Ended
  <2> QED
    BY <1>2, <2>2, <2>3, <2>4 DEF PlacesInv
<1>7. StoreInv'
  BY <1>1, <1>4 DEF StoreInv, Ended
<1>8. /\ Acknowledged \subseteq Acknowledged' /\ \A d \in Acknowledged' : d # c => d \in Acknowledged
      /\ c \in Acknowledged' => x.answer = "ok" /\ x.kind \in Writes /\ store'.applied = Append(store.applied, c)
  <2>1. \A d \in DOMAIN calls : d # c => (d \in Acknowledged <=> d \in Acknowledged')
    BY <1>2 DEF Acknowledged
  <2>2. c \notin Acknowledged
    BY <1>1 DEF Acknowledged
  <2>3. c \in Acknowledged' => x.answer = "ok" /\ x.kind \in Writes
    BY <1>2 DEF Acknowledged
  <2> QED
    BY <1>1, <1>2, <2>1, <2>2, <2>3 DEF Acknowledged, Ended, EndOf
<1>9. AppliedInv'
  <2>1. ASSUME NEW i \in 1 .. Len(store'.applied)
        PROVE  LET d == store'.applied[i]
               IN  /\ d \in DOMAIN calls'
                   /\ \/ calls'[d].at = "answered" /\ calls'[d].answer \in {"ok", "failed"}
                      \/ worker'.call = d /\ worker'.at \in {"leaving", "dropping", "gone"}
    <3>1. CASE store'.applied[i] = c
      BY <1>1, <1>2, <3>1 DEF Ended, EndOf
    <3>2. CASE i \in 1 .. Len(store.applied) /\ store'.applied[i] = store.applied[i] /\ store.applied[i] # c
      BY <1>2, <3>2 DEF ActorInv, AppliedInv
    <3> QED
      BY <1>3, <2>1, <3>1, <3>2
  <2>2. Acknowledged' \subseteq First(store'.applied, Len(store'.applied))
    BY <1>3, <1>8 DEF ActorInv, AppliedInv
  <2> QED
    BY <2>1, <2>2 DEF AppliedInv
<1>10. AnswersInv'
  <2> SUFFICES ASSUME NEW d \in DOMAIN calls
               PROVE  /\ calls'[d].before \subseteq Acknowledged'
                      /\ calls'[d].answer = "ok" =>
                           /\ calls'[d].kind \in Settling =>
                                calls'[d].before \cup ({d} \cap Acknowledged')
                                  \subseteq First(store'.applied, store'.logged)
                           /\ calls'[d].kind \in {"scan", "snapshot"} => calls'[d].before \subseteq calls'[d].view
                      /\ (calls'[d].kind \in Closes /\ calls'[d].answer \in {"ok", "failed"}) => ~store'.held
    BY <1>2 DEF AnswersInv
  <2>1. CASE d # c
    BY <1>1, <1>2, <1>3, <1>8, <2>1 DEF ActorInv, AnswersInv
  <2>2. CASE d = c
    <3>1. calls'[c] = x /\ x.before \subseteq Acknowledged
      BY <1>1, <1>2 DEF ActorInv, AnswersInv, Ended
    <3>2. x.before \subseteq First(store.applied, Len(store.applied))
      BY <3>1 DEF ActorInv, AppliedInv
    <3>3. x.answer = "ok" /\ x.kind \in Settling =>
            x.before \cup ({c} \cap Acknowledged') \subseteq First(store'.applied, store'.logged)
      BY <1>3, <1>8, <3>2 DEF Ended, EndOf
    <3>4. x.answer = "ok" /\ x.kind \in {"scan", "snapshot"} => x.before \subseteq x.view
      BY <3>2 DEF Ended, EndOf
    <3> QED
      BY <1>4, <1>8, <2>2, <3>1, <3>3, <3>4 DEF Ended
  <2> QED
    BY <2>1, <2>2
<1> QED
  BY <1>5, <1>6, <1>7, <1>9, <1>10 DEF ActorInv

LEMMA CarryKeeps ==
    ASSUME ActorInv, Carry
    PROVE  ActorInv'
<1> DEFINE c == worker.call
<1>1. PICK e \in Ends(store, c) :
        /\ store' = e.store
        /\ calls' = [calls EXCEPT ![c].at = "answered", ![c].answer = e.answer, ![c].view = e.view]
  BY DEF Carry
<1>2. worker.at = "running" /\ UNCHANGED <<state, queue>> /\ c \in DOMAIN calls /\ calls[c] \in CallType
      /\ worker' = IF calls[c].kind \in Closes THEN [worker EXCEPT !.at = "leaving"] ELSE Idle
  BY Types DEF Carry, ActorInv, PlacesInv
<1>3. EndOf(e, c)
  BY <1>1, <1>2, EndsOf
<1> DEFINE x == [calls[c] EXCEPT !.at = "answered", !.answer = e.answer, !.view = e.view]
<1>4. calls' = [calls EXCEPT ![c] = x]
  BY <1>1, <1>2, Types
<1>5. x \in CallType /\ x.at = "answered" /\ x.answer = e.answer /\ x.view = e.view
      /\ x.kind = calls[c].kind /\ x.before = calls[c].before
  BY <1>2, <1>3 DEF CallType, EndOf
<1>6. /\ worker' \in [at : {"idle", "leaving"}, call : Nat] /\ worker'.call \in Nat
      /\ worker'.at = IF calls[c].kind \in Closes THEN "leaving" ELSE "idle"
  BY <1>2 DEF Idle, ActorInv, TypeOK
<1> HIDE DEF x
<1>7. Ended(e, c, x)
  BY <1>1, <1>4, <1>5, <1>6 DEF Ended
<1> QED
  BY <1>2, <1>3, <1>6, <1>7, EndedKeeps

LEMMA PanicsKeeps ==
    ASSUME ActorInv, Panics
    PROVE  ActorInv'
<1> DEFINE c == worker.call
<1>1. PICK e \in Ends(store, c) : store' = e.store
  BY DEF Panics
<1>2. worker.at = "running" /\ UNCHANGED <<state, queue>> /\ c \in DOMAIN calls /\ calls[c] \in CallType
      /\ calls[c].answer = "none" /\ c \in Nat /\ worker' = [at |-> "leaving", call |-> c]
      /\ calls' = [calls EXCEPT ![c].at = "dropped"]
  BY Types DEF Panics, ActorInv, PlacesInv
<1>3. EndOf(e, c)
  BY <1>1, <1>2, EndsOf
<1> DEFINE x == [calls[c] EXCEPT !.at = "dropped"]
<1>4. calls' = [calls EXCEPT ![c] = x]
  BY <1>2, Types
<1>5. x \in CallType /\ x.at = "dropped" /\ x.answer = "none"
      /\ x.kind = calls[c].kind /\ x.before = calls[c].before
  BY <1>2 DEF CallType
<1>6. worker' \in [at : {"idle", "leaving"}, call : Nat] /\ worker'.call = c /\ worker'.at = "leaving"
  BY <1>2
<1> HIDE DEF x
<1>7. Ended(e, c, x)
  BY <1>1, <1>2, <1>4, <1>5, <1>6 DEF Ended
<1> QED
  BY <1>2, <1>3, <1>6, <1>7, EndedKeeps

LEMMA DropStoreKeeps ==
    ASSUME ActorInv, DropStore
    PROVE  ActorInv'
<1>1. /\ worker.at = "dropping" /\ worker' = [worker EXCEPT !.at = "gone"] /\ UNCHANGED <<state, queue, calls>>
      /\ store.held => store' \in Released(store)
      /\ ~store.held => store' = store
  BY DEF DropStore
<1>2. store \in StoreType /\ store.logged <= Len(store.applied)
  BY DEF ActorInv, TypeOK, StoreInv
<1>3. /\ store' \in StoreType /\ ~store'.held /\ store'.applied = store.applied /\ store'.logged = store.logged
      /\ First(store'.applied, store'.logged) \subseteq store'.kept
  BY <1>1, <1>2, ReleasedOf DEF ActorInv, StoreInv
<1>4. worker' \in [at : {"gone"}, call : Nat] /\ worker'.call = worker.call /\ worker'.at = "gone"
  BY <1>1 DEF ActorInv, TypeOK
<1>5. Acknowledged' = Acknowledged
  BY <1>1 DEF Acknowledged
<1>6. AppliedInv' /\ AnswersInv'
  BY <1>1, <1>3, <1>4, <1>5 DEF ActorInv, AppliedInv, AnswersInv
<1>7. TypeOK' /\ PlacesInv' /\ StoreInv'
  BY <1>1, <1>2, <1>3, <1>4 DEF ActorInv, TypeOK, PlacesInv, StoreInv
<1> QED
  BY <1>6, <1>7 DEF ActorInv

-----------------------------------------------------------------------------
(* The theorems. *)

LEMMA InitHolds == Init => ActorInv
<1> SUFFICES ASSUME Init PROVE ActorInv
  OBVIOUS
<1>1. calls = <<>> /\ DOMAIN calls = {} /\ queue = <<>> /\ Len(queue) = 0 /\ worker = Idle
      /\ store = Writer /\ state = "open"
  BY DEF Init
<1>2. Acknowledged = {}
  BY <1>1 DEF Acknowledged
<1>3. 1 .. Len(store.applied) = {} /\ 1 .. Len(queue) = {} /\ 1 .. store.logged = {}
  BY <1>1 DEF Writer
<1> QED
  BY <1>1, <1>2, <1>3
     DEF ActorInv, TypeOK, StoreType, PlacesInv, StoreInv, AppliedInv, AnswersInv, First, Idle, Writer

LEMMA NextKeeps ==
    ASSUME ActorInv, [Next]_vars
    PROVE  ActorInv'
<1>1. ASSUME NEW kind \in Kinds, Begin(kind) PROVE ActorInv'
  BY <1>1, BeginKeeps
<1>2. ASSUME NEW c \in DOMAIN calls, Tasks(c) PROVE ActorInv'
  BY <1>2, TasksKeep
<1>3. CASE DropHandle
  BY <1>3, DropHandleKeeps
<1>4. CASE Thread
  BY <1>4, TakeKeeps, CarryKeeps, PanicsKeeps, AbandonedKeeps, DropReceiverKeeps, DropStoreKeeps DEF Thread
<1>5. CASE UNCHANGED vars
  BY <1>5 DEF vars, ActorInv, TypeOK, PlacesInv, StoreInv, AppliedInv, AnswersInv, Acknowledged
<1> QED
  BY <1>1, <1>2, <1>3, <1>4, <1>5 DEF Next

\* Between any two steps the calls are where ActorInv says and the store holds
\* what they were told (actor.rs, run and submit): whatever the room of the
\* queue, the number of calls, and wherever the thread dies.
THEOREM ActorInductive == Spec => []ActorInv
<1>1. Init => ActorInv
  BY InitHolds
<1>2. ActorInv /\ [Next]_vars => ActorInv'
  BY NextKeeps
<1> QED
  BY <1>1, <1>2, PTL DEF Spec

\* What a caller was told comes true: a scan or a snapshot shows what was
\* answered before it was asked for, and what was promised to be durable is
\* there at the next open.
THEOREM PromisesAreKept == Spec => []PromisesKept
<1>1. ActorInv => PromisesKept
  BY DEF ActorInv, AnswersInv, StoreInv, PromisesKept, Succeeded, Answered
<1> QED
  BY <1>1, ActorInductive, PTL

\* A call that was refused left no write, unless the thread died in it, and an
\* answered close has given the file lock back.
THEOREM RefusalsStand == Spec => []RefusalsAreFinal
<1>1. ActorInv => RefusalsAreFinal
  <2> SUFFICES ASSUME ActorInv PROVE RefusalsAreFinal
    OBVIOUS
  <2>1. ASSUME NEW c \in ToSet(store.applied)
        PROVE  calls[c].answer \in {"ok", "failed"} \/ worker.call = c
    <3>1. c \in First(store.applied, Len(store.applied))
      BY <2>1, Types, FirstOf
    <3> QED
      BY <3>1 DEF First, ActorInv, AppliedInv
  <2> QED
    BY <2>1 DEF ActorInv, AnswersInv, RefusalsAreFinal, Answered
<1> QED
  BY <1>1, ActorInductive, PTL
=============================================================================
