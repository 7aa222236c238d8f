--------------------------- MODULE StoreInvariant ---------------------------
(***************************************************************************)
(* What is true between any two steps of Store, strong enough that each    *)
(* step keeps it: the induction hypothesis of StoreProofs.                 *)
(***************************************************************************)
EXTENDS Store

PartType == [lo : Nat, hi : Nat, rows : Rows]
ManifestType == [next_seq : Nat, parts : Seq(PartType)]
UnitType == [seq : Nat, rows : Rows \ {NoRows}]
LogType == Seq(UnitType)

TypeOK ==
    /\ current \in [seq : Nat, content : ManifestType] /\ floor \in [seq : Nat, content : ManifestType]
    /\ wal \in LogType /\ wal_synced \in 0 .. Len(wal)
    /\ \A g \in wal_cleared : g \in [log : LogType, acked : Nat] /\ g.acked <= Len(g.log)
    /\ opened \in BOOLEAN /\ framed \in BOOLEAN /\ requires_reopen \in BOOLEAN /\ acknowledged \in BOOLEAN
    /\ manifest \in ManifestType /\ mem \in Rows
    /\ phase \in {"idle", "flush", "merge", "settle"} /\ attempted \in ManifestType

\* Two manifests that show the same, whatever is replayed over them.
SameView(m, n) == \A rows \in Rows : Shows(m, rows) = Shows(n, rows)

\* A power loss can take back one publication, and nothing that was merged.
FloorInv ==
    /\ floor.content.next_seq = current.content.next_seq => SameView(floor.content, current.content)
    /\ \/ floor.content.next_seq = current.content.next_seq
       \/ floor.content.next_seq + 1 = current.content.next_seq

Usable == opened /\ ~requires_reopen

\* What the handle believes of the container, at each point of a publication.
HandleInv ==
    /\ requires_reopen => opened /\ phase = "idle"
    /\ ~opened => phase = "idle" /\ ~acknowledged
    /\ opened => \/ manifest.next_seq = current.content.next_seq
                 \/ manifest.next_seq + 1 = current.content.next_seq
    /\ Usable /\ phase = "idle" =>
         manifest = current.content /\ (acknowledged => floor.content = current.content)
    /\ phase \in {"flush", "merge"} => manifest = floor.content /\ attempted = current.content
    /\ phase = "flush" =>
         attempted.next_seq = manifest.next_seq + 1 /\ Shows(attempted, NoRows) = Shows(manifest, mem)
    /\ phase = "merge" => attempted.next_seq = manifest.next_seq /\ SameView(attempted, manifest)
    /\ phase = "settle" => manifest = current.content /\ floor.content = current.content /\ mem = NoRows

\* The log of a usable handle holds what mem does, and nothing of a later publication.
LogInv ==
    Usable =>
      /\ Replayed(manifest, wal) = mem
      /\ \A i \in DOMAIN wal : wal[i].seq <= manifest.next_seq + 1
      /\ ~framed => wal = <<>>

\* A log that was cleared belongs to publications that no power loss takes back.
ClearedInv == \A g \in wal_cleared : \A i \in DOMAIN g.log : g.log[i].seq <= floor.content.next_seq

\* No unit is durable before the manifest it follows.
SyncedInv ==
    opened \/ Replays(current.content, wal) =>
      \A i \in 1 .. wal_synced : wal[i].seq <= floor.content.next_seq + 1

\* What callers see is promised, and so is what any power loss leaves of it.
PromisedInv ==
    /\ View \in promised \cup {Refused}
    /\ \A m \in {current.content, floor.content}, log \in Log!Lost :
         Replays(m, log) => Recovered(m, log) \in promised

StoreInv == TypeOK /\ FloorInv /\ HandleInv /\ LogInv /\ ClearedInv /\ SyncedInv /\ PromisedInv

=============================================================================
