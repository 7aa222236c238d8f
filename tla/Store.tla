------------------------------- MODULE Store -------------------------------
(***************************************************************************)
(* The single writer of src/src/store/mod.rs over its two durable parts,   *)
(* each taken at its promise: the container (Publication), whose state is  *)
(* the manifest, and the write-ahead log (DurableLog).  Mutations go to    *)
(* the log and to `mem'; a flush publishes mem as a part and drops the log;*)
(* a merge rewrites a run of parts; opening replays what the log holds     *)
(* beyond the manifest.  A batch is one frame, of the rows it leaves.      *)
(***************************************************************************)
EXTENDS Records

CONSTANTS Refused,      \* what a store that does not open shows
          Failing,      \* the calls that may report failure
          MaxCommits,   \* bound: publications
          MaxPending,   \* bound: units in the log
          MaxFailures,  \* bound: failed calls
          MaxCrashes    \* bound: power losses and process deaths

Calls == {"append", "prepare", "publish", "acknowledge", "sync", "truncate", "unlink"}

ASSUME StoreAssumption ==
    /\ Failing \subseteq Calls
    /\ Refused \notin [Ids -> Values \cup {Absent}]
    /\ MaxCommits \in Nat /\ MaxPending \in Nat /\ MaxFailures \in Nat /\ MaxCrashes \in Nat

VARIABLES current, floor,                   \* the container
          wal, wal_synced, wal_cleared,     \* the log file, its buffer included
          sidecar,                          \* the log file's name is there
          opened, manifest, mem, framed, requires_reopen, acknowledged,
                                            \* the handle
          phase, attempted,                 \* where its publication stands
          promised,                         \* history: views since the last acknowledgement
          failures, crashes

container == <<current, floor>>
logv      == <<wal, wal_synced, wal_cleared>>
files     == <<container, logv, sidecar>>
handle    == <<opened, manifest, mem, framed, requires_reopen, acknowledged>>
job       == <<phase, attempted>>
bounds    == <<failures, crashes>>
vars      == <<files, handle, job, promised, bounds>>

-----------------------------------------------------------------------------
(* The log's frames, and manifests. *)

Unit == [seq : 1 .. MaxCommits + 1, rows : Rows \ {NoRows}]

NoManifest == [next_seq |-> 0, parts |-> <<>>]

Recovered(m, log) == Shows(m, Replayed(m, log))

View ==
    IF opened THEN Shows(manifest, mem)
    ELSE IF Replays(current.content, wal) THEN Recovered(current.content, wal) ELSE Refused

-----------------------------------------------------------------------------
Container == INSTANCE Publication WITH Content <- {NoManifest}, Nothing <- NoManifest

Log == INSTANCE DurableLog WITH Units <- Unit, log <- wal, acked <- wal_synced,
                                cleared <- wal_cleared

Init ==
    /\ Container!Init /\ Log!Init /\ sidecar = TRUE
    /\ opened = TRUE /\ manifest = NoManifest /\ mem = NoRows /\ framed = FALSE
    /\ requires_reopen = FALSE /\ acknowledged = TRUE
    /\ phase = "idle" /\ attempted = NoManifest
    /\ promised = {Shown(NoRows)}
    /\ failures = 0 /\ crashes = 0

Fails(call) ==
    /\ call \in Failing
    /\ failures < MaxFailures /\ failures' = failures + 1
    /\ UNCHANGED crashes

Succeeds == UNCHANGED bounds

Crashes == crashes < MaxCrashes /\ crashes' = crashes + 1 /\ UNCHANGED failures

EnsureWriterUsable == opened /\ phase = "idle" /\ ~requires_reopen

Poisoned ==
    /\ requires_reopen' = TRUE
    /\ UNCHANGED <<opened, manifest, mem, framed, acknowledged>>

-----------------------------------------------------------------------------
(* Mutations. *)

PendingSequence == manifest.next_seq + 1

\* One append to the log and one change of mem.
Accepts(rows) ==
    /\ Log!Accept([seq |-> PendingSequence, rows |-> rows])
    /\ mem' = Over(mem, rows)
    /\ framed' = TRUE
    /\ promised' = promised \cup {Shows(manifest, mem')}
    /\ Succeeds
    /\ UNCHANGED <<container, sidecar, opened, manifest, requires_reopen, acknowledged, job>>

CanStage == EnsureWriterUsable /\ Len(wal) < MaxPending /\ PendingSequence <= MaxCommits

AppendRefused == Fails("append") /\ Poisoned /\ UNCHANGED <<files, job, promised>>

\* put, put_record and apply; a refused append leaves pieces no frame owns,
\* so the handle must be reopened.
Put(id, v)  == CanStage /\ (Accepts([i \in {id} |-> v]) \/ AppendRefused)
Apply(rows) == CanStage /\ (Accepts(rows) \/ AppendRefused)

\* (Mutant: the tombstone goes into mem before the log has it.)
DeleteMemFirst(id) ==
    /\ CanStage
    /\ \/ Accepts([i \in {id} |-> Deleted])
       \/ /\ Fails("append") /\ mem' = Over(mem, [i \in {id} |-> Deleted])
          /\ UNCHANGED <<files, opened, manifest, framed, requires_reopen, acknowledged,
                         job, promised>>

\* A refused tombstone leaves nothing behind.
Delete(id) ==
    /\ CanStage
    /\ \/ Accepts([i \in {id} |-> Deleted])
       \/ Fails("append") /\ UNCHANGED <<files, handle, job, promised>>

\* Establishes that a power loss cannot take back the selected manifest.
AcknowledgesCurrent ==
    IF acknowledged THEN UNCHANGED container ELSE Container!Acknowledge

\* (Mutant: the frames are made durable, the manifest they follow is not.)
SyncLogOnly ==
    /\ EnsureWriterUsable
    /\ Log!Acknowledge
    /\ promised' = {View}
    /\ Succeeds
    /\ UNCHANGED <<container, sidecar, handle, job>>

Sync ==
    /\ EnsureWriterUsable
    /\ \/ /\ AcknowledgesCurrent /\ acknowledged' = TRUE
          /\ \/ Log!Acknowledge /\ promised' = {View} /\ Succeeds
             \/ UNCHANGED <<logv, promised>> /\ Fails("sync")
       \/ /\ ~acknowledged /\ Fails("acknowledge")
          /\ UNCHANGED <<container, logv, acknowledged, promised>>
    /\ UNCHANGED <<sidecar, opened, manifest, mem, framed, requires_reopen, job>>

-----------------------------------------------------------------------------
(* Publications: flush and merge. *)

Flushed ==
    [next_seq |-> PendingSequence,
     parts |-> Append(manifest.parts, [lo |-> PendingSequence, hi |-> PendingSequence, rows |-> mem])]

\* The run's newest rows become one part; tombstones go only when the run is
\* the whole list.
Merged(lo, len) ==
    LET parts == manifest.parts
        part  == [lo |-> parts[lo].lo, hi |-> parts[lo + len - 1].hi, rows |-> MergedRows(parts, lo, len)]
    IN  [manifest EXCEPT !.parts = Spliced(@, part, lo, len)]

\* Everything up to the slot write.  A failure on the way refuses every later
\* mutation of this handle.
Publishes(m, kind) ==
    /\ current.seq < MaxCommits
    /\ \/ /\ current' = [seq |-> current.seq + 1, content |-> m] /\ floor' = current
          /\ phase' = kind /\ attempted' = m
          /\ Succeeds
          /\ UNCHANGED handle
       \/ /\ floor' \in {floor, current} /\ UNCHANGED current
          /\ Poisoned
          /\ Fails("prepare")
          /\ UNCHANGED job
    /\ UNCHANGED <<logv, sidecar, promised>>

FlushPublishes == EnsureWriterUsable /\ mem # NoRows /\ Publishes(Flushed, "flush")

\* A merged part that cannot be built is abandoned and the handle goes on.
MergeRange(lo, len) ==
    /\ EnsureWriterUsable
    /\ len >= 2 /\ lo + len - 1 <= Len(manifest.parts)
    /\ \/ Publishes(Merged(lo, len), "merge")
       \/ Fails("prepare") /\ UNCHANGED <<files, handle, job, promised>>

\* (Mutant: mem survives its own publication.)
AdoptsKeepsMem ==
    /\ manifest' = attempted
    /\ UNCHANGED <<mem, opened, framed, requires_reopen>>

\* The handle takes over the manifest it published.
Adopts ==
    /\ manifest' = attempted
    /\ mem' = IF phase = "flush" THEN NoRows ELSE mem
    /\ UNCHANGED <<opened, framed, requires_reopen>>

FinalBarrier ==
    /\ opened /\ phase \in {"flush", "merge"}
    /\ \/ /\ Container!Acknowledge
          /\ Adopts /\ acknowledged' = TRUE
          /\ phase' = IF phase = "flush" THEN "settle" ELSE "idle"
          /\ promised' = IF phase = "flush" THEN {View} ELSE promised
          /\ Succeeds
       \/ /\ Fails("publish")
          /\ \/ Adopts /\ acknowledged' = FALSE
             \/ Poisoned
          /\ phase' = "idle"
          /\ UNCHANGED <<container, promised>>
    /\ UNCHANGED <<logv, sidecar, attempted>>

\* Wal::truncate: done, done without its barrier, or not done but for the
\* buffer.
Truncates ==
    \/ Log!Clear /\ framed' = FALSE /\ Succeeds
    \/ Log!ClearUnsynced /\ framed' = FALSE /\ Fails("truncate")
    \/ Log!Forget /\ UNCHANGED framed /\ Fails("truncate")

FlushTruncates ==
    /\ opened /\ phase = "settle"
    /\ Truncates
    /\ phase' = "idle"
    /\ UNCHANGED <<container, sidecar, opened, manifest, mem, requires_reopen, acknowledged,
                   attempted, promised>>

\* A flush with nothing to publish settles what an earlier one left.
FlushSettles ==
    /\ EnsureWriterUsable /\ mem = NoRows /\ framed
    /\ \/ AcknowledgesCurrent /\ acknowledged' = TRUE /\ Truncates
       \/ /\ ~acknowledged /\ Fails("acknowledge")
          /\ UNCHANGED <<container, logv, framed, acknowledged>>
    /\ UNCHANGED <<sidecar, opened, manifest, mem, requires_reopen, job, promised>>

-----------------------------------------------------------------------------
(* Closing, crashing and opening. *)

Closed ==
    /\ opened' = FALSE
    /\ manifest' = NoManifest /\ mem' = NoRows /\ framed' = FALSE
    /\ requires_reopen' = FALSE /\ acknowledged' = FALSE
    /\ phase' = "idle" /\ attempted' = NoManifest

\* close, once its flush is done: the log is settled and its file removed.
CloseSettles ==
    /\ AcknowledgesCurrent
    /\ Log!Clear
    /\ sidecar' = FALSE
    /\ promised' = {View}
    /\ Succeeds

\* A close that fails leaves what it had done.
CloseFails ==
    /\ UNCHANGED promised
    /\ \/ /\ ~acknowledged /\ Fails("acknowledge")
          /\ UNCHANGED files
       \/ /\ framed /\ Fails("truncate")
          /\ AcknowledgesCurrent
          /\ Log!ClearUnsynced \/ Log!Forget
          /\ UNCHANGED sidecar
       \/ /\ Fails("unlink")
          /\ AcknowledgesCurrent
          /\ \/ framed /\ Log!Clear
             \/ ~framed /\ UNCHANGED logv
          /\ sidecar' \in {sidecar, FALSE}

Close ==
    /\ EnsureWriterUsable /\ mem = NoRows
    /\ CloseSettles \/ CloseFails
    /\ Closed

\* The process dies, or drops its handle unclosed.
ProcessDeath ==
    /\ opened
    /\ Closed
    /\ Log!Forget
    /\ Crashes
    /\ UNCHANGED <<container, sidecar, promised>>

PowerLoss ==
    /\ Container!PowerLoss
    /\ Log!Lose
    /\ Closed
    /\ promised' = {View'}
    /\ Crashes
    /\ UNCHANGED sidecar

\* open_file_with_options; a log that does not follow the manifest is refused.
Open ==
    /\ ~opened
    /\ Replays(current.content, wal)
    /\ opened' = TRUE
    /\ manifest' = current.content
    /\ mem' = Replayed(current.content, wal)
    /\ framed' = (wal # <<>>)
    /\ sidecar' = TRUE
    /\ wal_cleared' = IF sidecar THEN wal_cleared ELSE {}
    /\ Succeeds
    /\ UNCHANGED <<container, wal, wal_synced, requires_reopen, acknowledged, job, promised>>

-----------------------------------------------------------------------------
Mutates ==
    \/ \E id \in Ids : Delete(id) \/ \E v \in Values : Put(id, v)
    \/ \E rows \in Rows \ {NoRows} : Apply(rows)

Maintains ==
    \/ FlushPublishes \/ FinalBarrier \/ FlushTruncates \/ FlushSettles
    \/ \E lo, len \in 1 .. MaxCommits : MergeRange(lo, len)

Next == Mutates \/ Sync \/ Maintains \/ Close \/ ProcessDeath \/ PowerLoss \/ Open

Spec == Init /\ [][Next]_vars

-----------------------------------------------------------------------------
(* Properties. *)

\* What a power loss now may leave of the two files.
Losses == [manifest : {current.content, floor.content}, log : Log!Lost]

\* Every one of them opens.
ReopensAfterLoss == \A l \in Losses : Replays(l.manifest, l.log)

\* An open store whose log is synced, and whose log truncations are durable, opens
\* after any power loss: sync acknowledged the manifest the units follow.
Settled == opened /\ wal_synced = Len(wal) /\ wal_cleared = {}
SyncedReopens == Settled => ReopensAfterLoss

\* So does one whose log holds units of the next publication only: no unit can
\* reach the disk behind a manifest it does not follow.
SyncedReopensFresh ==
    (Settled /\ \A i \in DOMAIN wal : Pending(manifest, wal[i])) => ReopensAfterLoss

\* Between calls of a usable handle, the log's units beyond the manifest leave
\* exactly mem: nothing accepted is missing from it, and nothing published,
\* refused or cleared would be applied again.
LogCoversMem ==
    (opened /\ phase = "idle" /\ ~requires_reopen) => Replayed(manifest, wal) = mem

\* The store as its callers see it implements the promise.
Promise == INSTANCE DurableMap WITH Views <- [Ids -> Values \cup {Absent}],
                                    Empty <- [id \in Ids |-> Absent],
                                    view <- View
ImplementsDurableMap == Promise!Spec

=============================================================================
