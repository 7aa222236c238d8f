------------------------------- MODULE Install -------------------------------
(***************************************************************************)
(* The names of a store file and how files come to them: the birth of a    *)
(* store, writer open and close, reclaim under its two protocols, the      *)
(* restoration from a reclaim anchor, backup and restore, and the removal  *)
(* of what a crash left (src/src/store/mod.rs, container.rs, debris.rs),   *)
(* over the file system layer (vfs.rs, sys.rs) on a POSIX system and on    *)
(* Windows.  Each operation is a sequence of calls that processes          *)
(* interleave, and a process may be killed, or fail, between any two.      *)
(***************************************************************************)
EXTENDS Integers, SequencesExt

CONSTANTS Processes,
          MaxRev,      \* bound: revisions of the store
          MaxStarts,   \* bound: operations started
          MaxKills,    \* bound: processes killed
          MaxLosses,   \* bound: power losses
          Free         \* stands for no file

ASSUME InstallAssumption ==
    MaxRev \in Nat /\ MaxStarts \in Nat /\ IsFiniteSet(Processes) /\ Free \notin Nat \ {0}

VARIABLES platform,
          names, disk,   \* what names stand for, and what a power loss may leave of that
          pending,       \* names a process created and has not published (Windows)
          files,         \* what files hold
          locked,        \* by whom a file is locked
          todo, handle,  \* the calls a process has still to make, and its files
          acked, promised, unsettled,  \* history: revisions that must not be lost
          counts         \* history: starts, kills and losses

space   == <<names, disk, pending, files>>
history == <<acked, promised, unsettled, counts>>
vars    == <<platform, space, locked, todo, handle, history>>

Windows == platform = "windows"

Wal == <<"wal">>
Store == <<"store">>
Copied == <<"backup">>
\* reclaim_names, and the staging names of births, backups and restores.
Staging == <<"reclaiming">>
Anchor == <<"reclaimed">>
Candidate == <<"reclaim-candidate">>
CandidateTmp == <<"reclaim-candidate.tmp">>
\* A file that was not published under its name in time.
Temporary == <<"publish">>
Stage(operation, p) == <<operation, p>>

-----------------------------------------------------------------------------
(* The file system layer. *)

File(rev, whole) == [rev |-> rev, whole |-> whole]

Named(map) == {map[n] : n \in DOMAIN map}

Used == (Named(names) \cup UNION {Named(d) : d \in disk})
        \cup (UNION {Named(pending[p]) \cup {handle[p].store, handle[p].other, handle[p].wal} : p \in Processes})

\* A file nobody knows of.
Fresh == Min(1 .. (Cardinality(Used) + 1) \ (Used \ {Free}))

Put(map, n, f) == [m \in DOMAIN map \cup {n} |-> IF m = n THEN f ELSE map[m]]

Over(map, under) ==
    [n \in DOMAIN map \cup DOMAIN under |-> IF n \in DOMAIN map THEN map[n] ELSE under[n]]

Without(map, ns) == Restrict(map, DOMAIN map \ ns)

\* Names as process p sees them: publish::resolve.
View(p) == Over(pending[p], names)

Exists(p, n) == n \in DOMAIN View(p)

\* A change that is on disk when the call returns.
Through(change(_)) == names' = change(names) /\ disk' = {change(d) : d \in disk}

\* POSIX: changes stay in the order they were made and become durable together.
Posix(change(_)) == names' = change(names) /\ disk' = disk \cup {change(names)}

\* vfs::create_new_staging: the name itself, nothing pending.
CreateStaging(p, n) ==
    LET change(map) == Put(map, n, Fresh)
    IN  IF Windows THEN names' = change(names) /\ UNCHANGED <<disk, pending>>
                   ELSE Posix(change) /\ UNCHANGED pending

\* vfs::create_new and open_or_create: under a temporary name until the directory syncs.
CreateNew(p, n) ==
    LET change(map) == Put(map, n, Fresh)
    IN  IF Windows THEN pending' = [pending EXCEPT ![p] = Put(@, n, Fresh)] /\ UNCHANGED <<names, disk>>
                   ELSE Posix(change) /\ UNCHANGED pending

\* On Windows no call makes a deletion durable, and a power loss brings the name back.
Unlink(p, n) ==
    LET change(map) == Without(map, {n})
    IN  IF Windows THEN names' = change(names) /\ UNCHANGED disk /\ pending' = [pending EXCEPT ![p] = Without(@, {n})]
                   ELSE Posix(change) /\ UNCHANGED pending

Moves(map, f, from, to) == Put(Without(map, {from}), to, f)

\* rename_noreplace is write-through on Windows, for a pending name as well.
RenameNoreplace(p, from, to) ==
    LET f == View(p)[from]
        change(map) == Moves(map, f, from, to)
    IN  IF Windows THEN Through(change) /\ pending' = [pending EXCEPT ![p] = Without(@, {from})]
                   ELSE Posix(change) /\ UNCHANGED pending

\* rename over an open destination: on Windows a power loss may ever after leave the old
\* name, the new one, or neither (replace_open_durability).
RenameReplaceOpen(p, from, to) ==
    LET f == View(p)[from]
        change(map) == Moves(map, f, from, to)
    IN  IF Windows THEN /\ names' = change(names)
                        /\ disk' = disk \cup {change(d) : d \in disk}
                                        \cup {Without(d, {from, to}) : d \in disk}
                        /\ pending' = [pending EXCEPT ![p] = Without(@, {from})]
                   ELSE Posix(change) /\ UNCHANGED pending

\* A directory's fsync, or the publication of what the process created in it.
SyncDir(p) ==
    IF Windows THEN /\ names' = Over(pending[p], names) /\ disk' = {Over(pending[p], d) : d \in disk}
                    /\ pending' = [pending EXCEPT ![p] = <<>>]
               ELSE disk' = {names} /\ UNCHANGED <<names, pending>>

-----------------------------------------------------------------------------
(* Operations as sequences of calls. *)

Birth(p) ==
    <<<<"stage", Stage("creating", p)>>, <<"open", Stage("creating", p)>>,
      <<"birth", Stage("creating", p)>>, <<"install", Stage("creating", p), Store>>, <<"sync">>>>

\* lock_writer_current: the lock is on the file, so its name is asked again.
LockWriterCurrent == <<<<"lock">>, <<"same", Store>>>>

\* copy_container_bytes.
Copy(from, to) == <<<<"unlink", to>>, <<"create", to>>, <<"fill", to, from>>>>

\* A copy under its own name, locked before it gets the name of the store.
Candidates ==
    Copy(Anchor, CandidateTmp) \o
    <<<<"sync">>, <<"install", CandidateTmp, Candidate>>, <<"sync">>,
      <<"lockother", Candidate>>, <<"verify", Candidate>>>>

\* restore_store_from_reclaim_anchor.
RestoreFromAnchor ==
    <<<<"lockanchor", Anchor>>, <<"verify", Anchor>>, <<"same", Anchor>>,
      <<"unlink", CandidateTmp>>, <<"unlink", Candidate>>>>
    \o Candidates
    \o <<<<"install", Candidate, Store>>, <<"sync">>, <<"unlock", Anchor>>,
         <<"unlink", Anchor>>, <<"sync">>, <<"unlock", Store>>, <<"open", Store>>>>

\* open_file_with_options, from the lock on.
Opening == LockWriterCurrent \o <<<<"verify", Store>>, <<"sweep">>, <<"wal">>>>

\* ReclaimProtocol::for_this_platform.
ByAnchor == Windows

\* The compacted container; a staging file is a whole, empty store at first.
FreshCopy ==
    <<<<"stage", Staging>>, <<"birth", Staging>>, <<"sync">>, <<"fill", Staging, Store>>,
      <<"verify", Staging>>>>

\* reclaim_with.
Reclaim ==
    <<<<"open", Store>>>> \o LockWriterCurrent
    \o <<<<"verify", Store>>, <<"same", Store>>, <<"nolog">>, <<"free">>, <<"unlink", Staging>>, <<"unlink", Anchor>>,
         <<"unlink", CandidateTmp>>, <<"unlink", Candidate>>>>
    \o FreshCopy
    \o (IF ByAnchor
        THEN <<<<"install", Staging, Anchor>>, <<"sync">>>> \o Candidates
             \o <<<<"replace", Candidate, Store>>, <<"sync">>, <<"verify", Store>>,
                  <<"unlink", Anchor>>, <<"sync">>, <<"done">>>>
        ELSE <<<<"lockother", Staging>>, <<"replace", Staging, Store>>, <<"sync">>,
               <<"verify", Store>>, <<"done">>>>)

\* (Mutant: a copy gets its name before it is complete.)
InstallingEarly(staged, from, to) ==
    <<<<"install", staged, to>>, <<"fill", to, from>>, <<"verify", to>>, <<"sync">>>>

\* A copy beside the destination that is installed when whole.
Installing(staged, from, to) ==
    <<<<"fill", staged, from>>, <<"verify", staged>>, <<"install", staged, to>>, <<"sync">>>>

RestoreFile(p) ==
    <<<<"vacant", Store>>, <<"stage", Stage("restoring", p)>>>>
    \o Installing(Stage("restoring", p), Copied, Store) \o <<<<"done">>>>

Backup(p) ==
    <<<<"vacant", Copied>>, <<"stage", Stage("backing-up", p)>>,
      <<"birth", Stage("backing-up", p)>>, <<"sync">>>>
    \o Installing(Stage("backing-up", p), Store, Copied)

\* close, once flushed.
Closing == <<<<"unlink", Wal>>, <<"sync">>, <<"done">>>>

-----------------------------------------------------------------------------
(* What a crash leaves beside a store: debris.rs. *)

Transient ==
    {Staging, CandidateTmp, Candidate, Temporary}
    \cup {Stage(o, p) : o \in {"creating", "backing-up", "restoring"}, p \in Processes}

\* Debris of the store: what was staged for the backup lies beside that.
Debris(map) ==
    {n \in (Transient \cup {Anchor}) \cap DOMAIN map :
       /\ n = Anchor => Store \in DOMAIN map
       /\ n \notin {Stage("backing-up", p) : p \in Processes}}

\* names_refusing_creation.
RefuseCreation(map) ==
    (Debris(map) \ {Stage("creating", p) : p \in Processes}) \cup (DOMAIN map \cap {Wal})

-----------------------------------------------------------------------------
Nobody == [store |-> Free, other |-> Free, wal |-> Free]

Init ==
    /\ platform \in {"posix", "windows"}
    /\ \E b \in BOOLEAN :
          /\ names = IF b THEN Put(<<>>, Copied, 1) ELSE <<>>
          /\ files = IF b THEN Put(<<>>, 1, File(1, TRUE)) ELSE <<>>
    /\ disk = {names}
    /\ pending = [p \in Processes |-> <<>>]
    /\ locked = <<>>
    /\ todo = [p \in Processes |-> <<>>] /\ handle = [p \in Processes |-> Nobody]
    /\ acked = 0 /\ promised = 0 /\ unsettled = FALSE
    /\ counts = [starts |-> 0, kills |-> 0, losses |-> 0]

Idle(p) == todo[p] = <<>> /\ handle[p] = Nobody
Ready(p) == todo[p] = <<>> /\ handle[p].wal # Free

Start(p, calls) ==
    /\ todo' = [todo EXCEPT ![p] = calls]
    /\ counts.starts < MaxStarts /\ counts' = [counts EXCEPT !.starts = @ + 1]
    /\ UNCHANGED <<platform, space, locked, handle, acked, promised, unsettled>>

\* open_file_with_options up to the container: a birth, a restoration, or the file.
StartOpen(p) ==
    /\ Idle(p)
    /\ \/ Store \in DOMAIN names /\ Start(p, <<<<"open", Store>>>> \o Opening)
       \/ /\ Store \notin DOMAIN names /\ Anchor \in DOMAIN names
          /\ Start(p, RestoreFromAnchor \o Opening)
       \/ /\ {Store, Anchor} \cap DOMAIN names = {} /\ RefuseCreation(names) = {}
          /\ Start(p, Birth(p) \o Opening)

StartReclaim(p) == Idle(p) /\ Store \in DOMAIN names /\ Start(p, Reclaim)
\* Restored where there is no store, as a restore is meant.
StartRestore(p) ==
    Idle(p) /\ Copied \in DOMAIN names /\ {Store, Anchor, Wal} \cap DOMAIN names = {}
    /\ Start(p, RestoreFile(p))
StartBackup(p) == Ready(p) /\ Start(p, Backup(p))

-----------------------------------------------------------------------------
(* The calls. *)

Is(p, call) == todo[p] # <<>> /\ Head(todo[p])[1] = call
Arg(p, i) == Head(todo[p])[i + 1]

Goes(p, calls) == todo' = [todo EXCEPT ![p] = calls \o Tail(@)]
GoesOn(p) == Goes(p, <<>>)

Released(p) == Restrict(locked, {f \in DOMAIN locked : locked[f] # p})

\* The operation fails: its handles go, and what it staged, best-effort.
Refused(p) ==
    /\ todo' = [todo EXCEPT ![p] = <<>>] /\ handle' = [handle EXCEPT ![p] = Nobody]
    /\ locked' = Released(p)
    /\ pending' = [pending EXCEPT ![p] = <<>>]
    /\ UNCHANGED <<platform, names, disk, files, history>>

\* The handle alone changes, unless the call is refused.
Handles(p, allowed, h, locks) ==
    IF allowed
    THEN /\ GoesOn(p) /\ handle' = [handle EXCEPT ![p] = h] /\ locked' = locks
         /\ UNCHANGED <<platform, space, history>>
    ELSE Refused(p)

Opens(p) ==
    /\ Is(p, "open")
    /\ Handles(p, Arg(p, 1) \in DOMAIN names,
               [handle[p] EXCEPT !.store = IF Arg(p, 1) \in DOMAIN names THEN names[Arg(p, 1)] ELSE Free],
               locked)

\* lock_exclusive is advisory and on the file.
Lockable(p, f) == f \in DOMAIN locked => locked[f] = p

Locks(p) ==
    /\ Is(p, "lock")
    /\ LET f == handle[p].store IN Handles(p, Lockable(p, f), handle[p], Put(locked, f, p))

\* (Mutant: the name is not asked again under the lock.)
CurrentUnasked(p, n) == TRUE

\* same_file.
IsCurrent(p, n) ==
    n \in DOMAIN names /\ names[n] = IF n = Anchor THEN handle[p].other ELSE handle[p].store

AsksName(p) == Is(p, "same") /\ Handles(p, IsCurrent(p, Arg(p, 1)), handle[p], locked)

\* A second file is opened and locked: the anchor, or what will be the store.
LocksOther(p) ==
    /\ Is(p, "lockother") \/ Is(p, "lockanchor")
    /\ LET n == Arg(p, 1)
           f == IF Exists(p, n) THEN View(p)[n] ELSE Free
       IN  Handles(p, f # Free /\ Lockable(p, f), [handle[p] EXCEPT !.other = f], Put(locked, f, p))

Unlocks(p) == Is(p, "unlock") /\ Handles(p, TRUE, [handle[p] EXCEPT !.other = Free],
                                         Without(locked, {names[Arg(p, 1)]}))

Verifies(p) ==
    /\ Is(p, "verify")
    /\ Handles(p, Exists(p, Arg(p, 1)) /\ files[View(p)[Arg(p, 1)]].whole, handle[p], locked)

\* Reclaim is refused while the log holds anything.
AsksLog(p) ==
    Is(p, "nolog") /\ Handles(p, Wal \in DOMAIN names => files[names[Wal]].rev = 0, handle[p], locked)

\* Nothing to reclaim: the operation ends here.
AsksFree(p) ==
    /\ Is(p, "free")
    /\ \/ Handles(p, TRUE, handle[p], locked)
       \/ Goes(p, <<<<"done">>>>) /\ UNCHANGED <<platform, space, locked, handle, history>>

AsksVacant(p) == Is(p, "vacant") /\ Handles(p, Arg(p, 1) \notin DOMAIN names, handle[p], locked)

Names(p, calls) ==
    Goes(p, calls) /\ UNCHANGED <<platform, locked, handle, history>>

\* An exclusive creation; a numbered name is always free.
Stages(p) ==
    /\ Is(p, "stage")
    /\ LET n == Arg(p, 1)
       IN  IF n = Staging /\ n \in DOMAIN names THEN Refused(p)
           ELSE CreateStaging(p, n) /\ files' = Put(files, Fresh, File(0, FALSE)) /\ Names(p, <<>>)

Creates(p) ==
    /\ Is(p, "create")
    /\ IF Exists(p, Arg(p, 1)) THEN Refused(p)
       ELSE CreateNew(p, Arg(p, 1)) /\ files' = Put(files, Fresh, File(0, FALSE)) /\ Names(p, <<>>)

\* Bytes are written and synchronised: an empty store, or a copy.
Writes(p) ==
    /\ Is(p, "birth") \/ Is(p, "fill")
    /\ LET n   == Arg(p, 1)
           rev == IF Is(p, "birth") THEN 0 ELSE files[View(p)[Arg(p, 2)]].rev
       IN  IF Exists(p, n) /\ (Is(p, "fill") => Exists(p, Arg(p, 2)))
           THEN files' = Put(files, View(p)[n], File(rev, TRUE)) /\ UNCHANGED <<names, disk, pending>>
                /\ Names(p, <<>>)
           ELSE Refused(p)

Unlinks(p) ==
    /\ Is(p, "unlink")
    /\ IF Exists(p, Arg(p, 1)) THEN Unlink(p, Arg(p, 1)) ELSE UNCHANGED <<names, disk, pending>>
    /\ UNCHANGED files /\ Names(p, <<>>)

Log(d) == IF Wal \in DOMAIN d THEN files[d[Wal]].rev ELSE 0

\* The revision that the next writer opens, -1 where it refuses.
Recovered(d) ==
    LET authority == {Store, Anchor} \cap DOMAIN d
        n == IF Store \in authority THEN Store ELSE Anchor
    IN  IF authority = {} THEN 0
        ELSE IF files[d[n]].whole THEN Max({files[d[n]].rev, Log(d)}) ELSE -1

\* No power loss takes the store, or its log, from its name.
Settled(left, map) ==
    \A d \in left : \A n \in {Store, Wal} \cap DOMAIN map : n \in DOMAIN d /\ d[n] = map[n]

\* What was acknowledged before is promised once the names it is read by are durable.
\* A pending name that somebody took meanwhile is not published: the rename refuses.
Syncs(p) ==
    /\ Is(p, "sync")
    /\ IF DOMAIN pending[p] \cap DOMAIN names # {} THEN Refused(p)
       ELSE /\ SyncDir(p) /\ UNCHANGED files /\ GoesOn(p)
            /\ unsettled' = (unsettled /\ Windows)
            /\ promised' = IF Settled(disk', names') THEN acked ELSE promised
            /\ UNCHANGED <<platform, locked, handle, acked, counts>>

\* What a restore installs counts as acknowledged.
Installs(p) ==
    /\ Is(p, "install")
    /\ IF Exists(p, Arg(p, 1)) /\ Arg(p, 2) \notin DOMAIN names
       THEN /\ RenameNoreplace(p, Arg(p, 1), Arg(p, 2)) /\ GoesOn(p)
            /\ acked' = Max({acked, Recovered(names')})
            /\ promised' = IF Settled(disk', names') THEN acked' ELSE promised
            /\ UNCHANGED <<platform, files, locked, handle, unsettled, counts>>
       ELSE Refused(p)

Replaces(p) ==
    /\ Is(p, "replace") /\ RenameReplaceOpen(p, Arg(p, 1), Arg(p, 2)) /\ UNCHANGED files
    /\ GoesOn(p) /\ unsettled' = (unsettled \/ Windows)
    /\ UNCHANGED <<platform, locked, handle, acked, promised, counts>>

\* remove_beside_present_store: what one scan finds, and a barrier if that was anything.
Sweeps(p) ==
    /\ Is(p, "sweep")
    /\ LET found == SetToSeq(Debris(names))
       IN  Names(p, [i \in DOMAIN found |-> <<"unlink", found[i]>>]
                    \o IF found = <<>> THEN <<>> ELSE <<<<"sync">>>>)
    /\ UNCHANGED space

\* (Mutant: a created log is not made durable.)
OpenedUnsynced(p) ==
    IF Exists(p, Wal) THEN <<<<"log">>>> ELSE <<<<"create", Wal>>, <<"birth", Wal>>, <<"log">>>>

\* Wal::open_recovered: a created log is made durable with its directory.
Opened(p) ==
    IF Exists(p, Wal) THEN <<<<"log">>>>
    ELSE <<<<"create", Wal>>, <<"birth", Wal>>, <<"sync">>, <<"log">>>>

OpensWal(p) == Is(p, "wal") /\ Names(p, Opened(p)) /\ UNCHANGED space

HoldsLog(p) == Is(p, "log") /\ Handles(p, TRUE, [handle[p] EXCEPT !.wal = View(p)[Wal]], locked)

Done(p) ==
    /\ Is(p, "done") /\ todo' = [todo EXCEPT ![p] = <<>>]
    /\ handle' = [handle EXCEPT ![p] = Nobody] /\ locked' = Released(p)
    /\ UNCHANGED <<platform, space, history>>

Calls(p) ==
    \/ Opens(p) \/ Locks(p) \/ AsksName(p) \/ LocksOther(p) \/ Unlocks(p) \/ Verifies(p)
    \/ AsksLog(p) \/ AsksFree(p) \/ AsksVacant(p) \/ Stages(p) \/ Creates(p) \/ Writes(p) \/ Unlinks(p)
    \/ Syncs(p) \/ Installs(p) \/ Replaces(p) \/ Sweeps(p) \/ OpensWal(p) \/ HoldsLog(p) \/ Done(p)

-----------------------------------------------------------------------------
(* A writer at work. *)

Rev(p) == Max({files[handle[p].store].rev, files[handle[p].wal].rev})

\* A put and a sync: the log is durable, under its name if that is.
Acknowledge(p) ==
    /\ Ready(p) /\ Rev(p) < MaxRev
    /\ files' = [files EXCEPT ![handle[p].wal].rev = Rev(p) + 1]
    /\ acked' = Rev(p) + 1
    /\ promised' = IF Settled(disk, Put(Put(<<>>, Store, handle[p].store), Wal, handle[p].wal))
                               THEN Rev(p) + 1 ELSE promised
    /\ UNCHANGED <<platform, names, disk, pending, locked, todo, handle, unsettled, counts>>

\* flush and close: the store takes over what the log held.
CloseStore(p) ==
    /\ Ready(p) /\ todo' = [todo EXCEPT ![p] = Closing]
    /\ files' = [files EXCEPT ![handle[p].store].rev = Rev(p), ![handle[p].wal].rev = 0]
    /\ UNCHANGED <<platform, names, disk, pending, locked, handle, history>>

-----------------------------------------------------------------------------
(* Ends. *)

\* A process is killed, or a call of its fails: its locks go, what it had pending stays
\* under temporary names.
Kill(p) ==
    /\ ~Idle(p) /\ counts.kills < MaxKills /\ counts' = [counts EXCEPT !.kills = @ + 1]
    /\ todo' = [todo EXCEPT ![p] = <<>>] /\ handle' = [handle EXCEPT ![p] = Nobody]
    /\ locked' = Released(p)
    /\ names' = IF pending[p] = <<>> THEN names
                ELSE Put(names, Temporary, CHOOSE f \in Named(pending[p]) : TRUE)
    /\ pending' = [pending EXCEPT ![p] = <<>>]
    /\ unsettled' = (unsettled \/ (~Windows /\ ~Settled(disk, names)))
    /\ UNCHANGED <<platform, disk, files, acked, promised>>

\* A rename that is about to happen: one onto a name that is taken is refused.
Renaming(p) == Is(p, "replace") \/ (Is(p, "install") /\ Arg(p, 2) \notin DOMAIN names)

\* What a power loss in the middle of a rename leaves on Windows besides.
Neither ==
    {Without(d, {Arg(p, 1), Arg(p, 2)}) : d \in disk, p \in {q \in Processes : Windows /\ Renaming(q)}}

PowerLoss ==
    /\ counts.losses < MaxLosses /\ counts' = [counts EXCEPT !.losses = @ + 1]
    /\ \E d \in disk \cup Neither :
          /\ names' = d /\ disk' = {d}
          /\ files' = [f \in DOMAIN files |-> IF f \in Named(d) THEN files[f] ELSE File(0, FALSE)]
          /\ acked' = Recovered(d) /\ promised' = Recovered(d)
    /\ pending' = [p \in Processes |-> <<>>] /\ locked' = <<>> /\ unsettled' = FALSE
    /\ todo' = [p \in Processes |-> <<>>] /\ handle' = [p \in Processes |-> Nobody]
    /\ UNCHANGED platform

-----------------------------------------------------------------------------
Starts(p) == StartOpen(p) \/ StartReclaim(p) \/ StartRestore(p) \/ StartBackup(p)

Next ==
    \/ \E p \in Processes :
          Starts(p) \/ Calls(p) \/ Acknowledge(p) \/ CloseStore(p) \/ Kill(p)
    \/ PowerLoss

Spec == Init /\ [][Next]_vars

-----------------------------------------------------------------------------
\* Whatever a power loss leaves of the names, the next writer opens or restores a store
\* with every revision that was acknowledged under durable names; and but for a process
\* that ended between a change of names and its barrier, or a replace that Windows may
\* take back, that is every revision acknowledged.
AcknowledgedSurvives ==
    /\ \A d \in disk \cup (IF unsettled THEN {} ELSE Neither) : Recovered(d) >= promised
    /\ ~unsettled /\ (\A p \in Processes : ~Is(p, "sync")) => promised = acked

\* A name that is opened, restored or copied from is whole on every disk, however far the
\* operation that installs it has come.
InstalledWhole ==
    \A d \in disk \cup Neither \cup {names} :
        \A n \in {Store, Anchor, Candidate, Copied} \cap DOMAIN d : files[d[n]].whole

\* Two processes never write to the store at once, and who writes to it has the file
\* that its name stands for, at the newest revision.
OneWriter ==
    \A p \in Processes : Ready(p) =>
        /\ \A q \in Processes \ {p} : ~Ready(q)
        /\ Store \in DOMAIN names /\ names[Store] = handle[p].store
        /\ Rev(p) = acked

=============================================================================
