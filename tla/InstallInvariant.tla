-------------------------- MODULE InstallInvariant --------------------------
(***************************************************************************)
(* What is true between any two steps of Install on a POSIX system, strong *)
(* enough that each step keeps it: the induction hypothesis of             *)
(* InstallProofs.  A process is at a place of a program of Install, given  *)
(* by the number of its next call.                                         *)
(***************************************************************************)
EXTENDS Install

\* The names there are; no anchor or candidate, which the other protocol uses.
Public == {Store, Wal, Copied}
Staged(p) == {Stage(o, p) : o \in {"creating", "backing-up", "restoring"}}
PosixNames == Public \cup {Staging} \cup UNION {Staged(p) : p \in Processes}

\* The call p makes next is the i-th of the program.
From(program, i) == SubSeq(program, i, Len(program))
At(p, program, i) == todo[p] = From(program, i)

OpenStore    == <<<<"open", Store>>>> \o Opening
BirthOpen(p) == Birth(p) \o Opening
NewLog       == <<<<"create", Wal>>, <<"birth", Wal>>, <<"sync">>, <<"log">>>>

Holds(p, f) == f \in DOMAIN locked /\ locked[f] = p
Locked(p) == Holds(p, handle[p].store)

\* The lock on what the name of the store stands for is p's, and p opened that.
Owns(p)  == Store \in DOMAIN names /\ Holds(p, names[Store])
Owned(p) == Owns(p) /\ names[Store] = handle[p].store

LogEmpty == Wal \in DOMAIN names => files[names[Wal]].rev = 0

WholeIf(n) == n \in DOMAIN names => files[names[n]].whole

\* A compacted copy has the revision of the store.
Compacted ==
    Staging \in DOMAIN names =>
        files[names[Staging]].whole /\ files[names[Staging]].rev = files[names[Store]].rev

-----------------------------------------------------------------------------
(* Where a process is: before the i-th call of a program. *)

OpenAt(p, i) ==
    /\ At(p, OpenStore, i) /\ handle[p].wal = Free
    /\ (i = 3 => Locked(p)) /\ (i >= 4 => Owned(p))

BirthAt(p, i) ==
    /\ At(p, BirthOpen(p), i) /\ handle[p].wal = Free
    /\ (i = 4 => WholeIf(Stage("creating", p)))
    /\ (i = 7 => Locked(p)) /\ (i >= 8 => Owned(p))

Sweeping(p) ==
    LET t == todo[p]
    IN  /\ Len(t) >= 2 /\ t[Len(t)] = <<"wal">> /\ t[Len(t) - 1] = <<"sync">>
        /\ \A i \in 1 .. Len(t) - 2 : \E n \in Transient \cup {Anchor} : t[i] = <<"unlink", n>>
        /\ handle[p].wal = Free /\ Owned(p)

LogAt(p, i) ==
    /\ At(p, NewLog, i) /\ handle[p].wal = Free /\ Owned(p)
    /\ (i = 1 <=> Wal \notin DOMAIN names) /\ (i = 2 => LogEmpty)

ReclaimAt(p, i) ==
    /\ At(p, Reclaim, i) /\ handle[p].wal = Free
    /\ (i = 3 => Locked(p)) /\ (i \in 4 .. 18 => Owned(p)) /\ (i \in 19 .. 20 => Owns(p))
    /\ (i \in 7 .. 18 => LogEmpty) /\ (i \in 16 .. 18 => Compacted)
    /\ (i = 18 => Staging \in DOMAIN names /\ Holds(p, names[Staging]))

RestoreAt(p, i) ==
    /\ At(p, RestoreFile(p), i) /\ handle[p].wal = Free
    /\ (i = 5 => WholeIf(Stage("restoring", p)))

\* The writer has its files.
Writer(p) == Owned(p) /\ Wal \in DOMAIN names /\ handle[p].wal = names[Wal]

\* A backup is made beside the work.
BackupAt(p, i) ==
    /\ At(p, Backup(p), i) /\ Writer(p)
    /\ (i = 7 => WholeIf(Stage("backing-up", p)))

CloseAt(p, i) ==
    /\ At(p, Closing, i)
    /\ (i = 1 => Owned(p) /\ Wal \in DOMAIN names /\ LogEmpty)

Placed(p) ==
    \/ Idle(p)
    \/ \E i \in 1 .. 6 : OpenAt(p, i)
    \/ \E i \in 1 .. 10 : BirthAt(p, i)
    \/ Sweeping(p)
    \/ \E i \in 1 .. 4 : LogAt(p, i)
    \/ \E i \in 1 .. 21 : ReclaimAt(p, i)
    \/ \E i \in 1 .. 7 : RestoreAt(p, i)
    \/ todo[p] = <<>> /\ Writer(p)
    \/ \E i \in 1 .. 8 : BackupAt(p, i)
    \/ \E i \in 1 .. 3 : CloseAt(p, i)
    \/ Is(p, "done")

-----------------------------------------------------------------------------
(* Files, and what names stand for, now and after a power loss. *)

FileType == [rev : Nat, whole : BOOLEAN]

TypeOK ==
    /\ platform = "posix" /\ pending = [p \in Processes |-> <<>>]
    /\ DOMAIN files \subseteq Nat \ {0} /\ files \in [DOMAIN files -> FileType]
    /\ handle \in [Processes -> [store : DOMAIN files \cup {Free}, other : DOMAIN files \cup {Free},
                                 wal : DOMAIN files \cup {Free}]]
    /\ DOMAIN todo = Processes /\ \A p \in Processes : todo[p] \in Seq(ToSet(todo[p]))
    /\ locked \in [DOMAIN locked -> Processes]
    /\ unsettled \in BOOLEAN
    /\ acked \in Nat /\ promised \in Nat

MapOK(d) ==
    /\ DOMAIN d \subseteq PosixNames /\ d \in [DOMAIN d -> DOMAIN files]
    /\ \A m, n \in DOMAIN d : d[m] = d[n] => m = n

MapsInv ==
    /\ names \in disk /\ IsFiniteSet(disk)
    /\ \A d \in disk : MapOK(d)

\* What is being staged has no other name, and no log is a store.
ApartInv ==
    /\ \A d \in disk : \A n \in DOMAIN names \ Public : \A m \in Public \cap DOMAIN d : d[m] # names[n]
    /\ \A d, e \in disk : Wal \in DOMAIN d /\ Store \in DOMAIN e => d[Wal] # e[Store]

WholeInv == \A d \in disk : \A n \in {Store, Copied} \cap DOMAIN d : files[d[n]].whole

\* A log comes after its store, and the name of a store stays.
OrderInv ==
    \A d \in disk : /\ Wal \in DOMAIN d => Store \in DOMAIN d
                    /\ Store \in DOMAIN d => Store \in DOMAIN names

-----------------------------------------------------------------------------
(* Revisions. *)

\* What another file has under the name of the store is no less than promised,
\* with or without the log.
RevisionInv ==
    /\ acked = Recovered(names) /\ promised <= acked
    /\ \A d \in disk : Recovered(d) >= promised
    /\ \A d \in disk : Store \in DOMAIN d /\ d[Store] # names[Store] => files[d[Store]].rev >= promised

\* The owner of the store is about to make its names durable.
Unsynced(p) == Owns(p) /\ (Is(p, "sync") \/ (At(p, NewLog, 2) /\ Wal \in DOMAIN names))

SettledInv ==
    ~unsettled =>
        /\ Settled(disk, names) => promised = acked
        /\ Wal \in DOMAIN names => Settled(disk, names) \/ \E p \in Processes : Unsynced(p)
        /\ (\A p \in Processes : ~Is(p, "sync")) => promised = acked

PosixInv ==
    /\ TypeOK /\ MapsInv /\ ApartInv /\ WholeInv /\ OrderInv /\ RevisionInv /\ SettledInv
    /\ \A p \in Processes : Placed(p)

\* The platform does not change.
InstallInv == platform \in {"posix", "windows"} /\ (~Windows => PosixInv)

=============================================================================
