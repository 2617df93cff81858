------------------------------ MODULE StorageBatch ------------------------------
(***************************************************************************)
(* StorageBatch, bee-storage-rocksdb/src/access/batch.rs: a client builds *)
(* a RocksDB WriteBatch with try_insert / try_delete on the metadata and  *)
(* milestone-index column families, then applies it with a durability    *)
(* flag.  apply writes the batch with sync = false and the write-ahead    *)
(* log disabled unless durability is set.                                 *)
(*                                                                         *)
(* RocksDB is not in this source; its documented behaviour is the         *)
(* environment.  A write batch is applied atomically and in order of the *)
(* writes.  The memtable may be flushed to a table file at any time,      *)
(* which persists every write so far.  A WAL record is written to the OS  *)
(* page cache and reaches the disk only when the OS writes it back, since *)
(* sync is false.  A process crash loses the memtable: recovery keeps the *)
(* flushed writes and replays the WAL from the page cache.  A power loss *)
(* loses the page cache too: only the written-back WAL is replayed.       *)
(***************************************************************************)
EXTENDS Naturals, Sequences, SequencesExt, FiniteSets

CONSTANTS
    Clients,        \* tasks that build and apply batches concurrently
    Keys,           \* hashes
    Vals,           \* metadata or milestone index values
    CrashKinds,     \* subset of {"process", "power"}
    MaxOps,         \* ops one batch holds at most
    MaxBatches,     \* batches written since the last recovery, at most
    MaxCrashes,     \* crashes at most
    None            \* no WriteBatch is being built

CFs == {"TRANSACTION_HASH_TO_METADATA", "MILESTONE_HASH_TO_INDEX"}

Deleted == "deleted"

VARIABLES
    batch,      \* per client: the WriteBatch being built, or None
    log,        \* the batches written, in write order: [ops, wal, durability]
    flushed,    \* log[1..flushed] are in table files
    synced,     \* the WAL records of log[1..synced] are on disk
    crashes

vars == <<batch, log, flushed, synced, crashes>>

Op == [cf : CFs, key : Keys, val : Vals \cup {Deleted}]

TypeOK ==
    /\ batch \in [Clients -> Seq(Op) \cup {None}]
    /\ log \in Seq([ops : Seq(Op), wal : BOOLEAN, durability : BOOLEAN])
    /\ flushed \in 0..Len(log) /\ synced \in 0..Len(log)
    /\ crashes \in 0..MaxCrashes

Init ==
    /\ batch = [c \in Clients |-> None]
    /\ log = <<>>
    /\ flushed = 0
    /\ synced = 0
    /\ crashes = 0

\* Batch::create_batch: an empty WriteBatch.
CreateBatch(c) ==
    /\ batch[c] = None
    /\ batch' = [batch EXCEPT ![c] = <<>>]
    /\ UNCHANGED <<log, flushed, synced, crashes>>

\* WriteBatch::put_cf / delete_cf (a delete is a Deleted value): the op is
\* appended to the batch; neither fails.
PutCf(c, cf, k, v) ==
    /\ batch[c] # None /\ Len(batch[c]) < MaxOps
    /\ batch' = [batch EXCEPT ![c] = Append(@, [cf |-> cf, key |-> k, val |-> v])]
    /\ UNCHANGED <<log, flushed, synced, crashes>>

\* The two BatchBuilder impls: try_insert puts the serialized value under
\* the serialized hash in the type's column family, try_delete deletes the
\* hash there; both return Ok(self).  The key and value buffers are
\* scratch space, cleared before each use.
TryInsertMetadata(c, k, v) == PutCf(c, "TRANSACTION_HASH_TO_METADATA", k, v)
TryDeleteMetadata(c, k) == PutCf(c, "TRANSACTION_HASH_TO_METADATA", k, Deleted)
TryInsertIndex(c, k, v) == PutCf(c, "MILESTONE_HASH_TO_INDEX", k, v)
TryDeleteIndex(c, k) == PutCf(c, "MILESTONE_HASH_TO_INDEX", k, Deleted)

\* write_options.disable_wal(!durability).
WalEnabled(durability) == durability

\* apply: write_opt with sync = false writes the batch atomically, after
\* every batch written before it; the WriteBatch is consumed.
Apply(c, durability) ==
    /\ batch[c] # None /\ Len(log) < MaxBatches
    /\ log' = Append(log, [ops |-> batch[c], wal |-> WalEnabled(durability),
                           durability |-> durability])
    /\ batch' = [batch EXCEPT ![c] = None]
    /\ UNCHANGED <<flushed, synced, crashes>>

\* apply: write_opt returns an error, `?` returns it; nothing is written.
ApplyErr(c) ==
    /\ batch[c] # None
    /\ batch' = [batch EXCEPT ![c] = None]
    /\ UNCHANGED <<log, flushed, synced, crashes>>

\* RocksDB flushes the memtable.
Flush ==
    /\ flushed < Len(log)
    /\ flushed' = Len(log)
    /\ UNCHANGED <<batch, log, synced, crashes>>

\* The OS writes back WAL pages, in file order.
Writeback ==
    /\ \E n \in synced + 1..Len(log) : synced' = n
    /\ UNCHANGED <<batch, log, flushed, crashes>>

\* The batches recovery keeps after a crash of the given kind.
Kept(kind) ==
    {i \in 1..Len(log) :
        \/ i <= flushed
        \/ log[i].wal /\ (kind = "process" \/ i <= synced)}

\* The crash ends every task; on restart the store holds the kept
\* batches, all of them persisted.
Crash(kind) ==
    /\ crashes < MaxCrashes
    /\ LET idx == SetToSortSeq(Kept(kind), <) IN
       /\ log' = [j \in 1..Len(idx) |-> log[idx[j]]]
       /\ flushed' = Len(idx)
       /\ synced' = Len(idx)
    /\ batch' = [c \in Clients |-> None]
    /\ crashes' = crashes + 1

Next ==
    \/ \E c \in Clients :
          \/ CreateBatch(c) \/ ApplyErr(c)
          \/ \E k \in Keys :
                \/ TryDeleteMetadata(c, k) \/ TryDeleteIndex(c, k)
                \/ \E v \in Vals : TryInsertMetadata(c, k, v) \/ TryInsertIndex(c, k, v)
          \/ \E d \in BOOLEAN : Apply(c, d)
    \/ Flush \/ Writeback
    \/ \E kind \in CrashKinds : Crash(kind)

Spec == Init /\ [][Next]_vars

-----------------------------------------------------------------------------
(* Properties.                                                             *)

\* The batches a crash of the given kind loses although apply(true)
\* returned Ok for them.
LostDurable(kind) ==
    {i \in 1..Len(log) : log[i].durability /\ i \notin Kept(kind)}

\* A batch applied with durability = true survives a power loss as well
\* (what the flag's name promises; apply sets sync = false).
DurableSurvivesPowerLoss ==
    [][Crash("power") => LostDurable("power") = {}]_vars

=============================================================================
