--------------------------- MODULE ActorInvariant ---------------------------
(***************************************************************************)
(* What is true between any two steps of Actor, strong enough that each    *)
(* step keeps it: the induction hypothesis of ActorProofs.                 *)
(***************************************************************************)
EXTENDS Actor

CallType ==
    [kind : Kinds, at : {"loaded", "pending", "dropped", "answered"},
     answer : {"none", "ok", "failed", "busy", "closed", "exited"},
     view : SUBSET Nat, before : SUBSET Nat]

StoreType == [held : BOOLEAN, applied : Seq(Nat), logged : Nat, kept : SUBSET Nat]

TypeOK ==
    /\ state \in {"open", "closing", "dropped"}
    /\ queue \in Seq(Nat)
    /\ worker \in [at : {"idle", "running", "leaving", "dropping", "gone"}, call : Nat]
    /\ store \in StoreType
    /\ calls \in Seq(CallType)

\* What the first n writes applied were.
First(s, n) == {s[i] : i \in 1 .. n}

\* A call is in one place: in the queue once, or with the thread, or neither.
PlacesInv ==
    /\ \A i \in 1 .. Len(queue) : queue[i] \in DOMAIN calls /\ calls[queue[i]].at = "pending"
    /\ \A i, j \in 1 .. Len(queue) : queue[i] = queue[j] => i = j
    /\ worker.at = "running" =>
         /\ worker.call \in DOMAIN calls /\ calls[worker.call].at = "pending"
         /\ \A i \in 1 .. Len(queue) : queue[i] # worker.call
    /\ \A c \in DOMAIN calls : calls[c].at # "answered" => calls[c].answer = "none"

\* The thread has the store until it leaves, and what the log holds of a store
\* that was let go is kept.
StoreInv ==
    /\ store.logged <= Len(store.applied)
    /\ worker.at \in {"idle", "running"} => store.held
    /\ ~store.held => First(store.applied, store.logged) \subseteq store.kept

\* What was applied was called for, and answered by the thread unless it died
\* in it; what was answered as written was applied.
AppliedInv ==
    /\ \A i \in 1 .. Len(store.applied) :
         LET c == store.applied[i]
         IN  /\ c \in DOMAIN calls
             /\ \/ calls[c].at = "answered" /\ calls[c].answer \in {"ok", "failed"}
                \/ worker.call = c /\ worker.at \in {"leaving", "dropping", "gone"}
    /\ Acknowledged \subseteq First(store.applied, Len(store.applied))

\* What each caller was told, with what was answered before it asked.
AnswersInv ==
    \A c \in DOMAIN calls :
      /\ calls[c].before \subseteq Acknowledged
      /\ calls[c].answer = "ok" =>
           /\ calls[c].kind \in Settling =>
                calls[c].before \cup ({c} \cap Acknowledged) \subseteq First(store.applied, store.logged)
           /\ calls[c].kind \in {"scan", "snapshot"} => calls[c].before \subseteq calls[c].view
      /\ (calls[c].kind \in Closes /\ calls[c].answer \in {"ok", "failed"}) => ~store.held

ActorInv == TypeOK /\ PlacesInv /\ StoreInv /\ AppliedInv /\ AnswersInv
=============================================================================
