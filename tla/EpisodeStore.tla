---------------------------- MODULE EpisodeStore ----------------------------
(***************************************************************************)
(* The episode storage of the data-collection plugin (StorageManager and   *)
(* EpisodeIndex in data_collection/storage.rs): the index in memory, the    *)
(* index file, and the episode directories the packager wrote.              *)
(*                                                                         *)
(* Every method runs alone (&mut self), but it is a sequence of file        *)
(* operations: removing a directory, truncating the index file             *)
(* (File::create) and writing it.  The process may die between any two of   *)
(* them, and a file operation may fail.  Episodes are numbered in the order *)
(* they are packaged, which is also the order of created_at.                *)
(***************************************************************************)
EXTENDS Naturals, FiniteSets, FiniteSetsExt

CONSTANTS N,            \* bound: episodes ever packaged
          Size,         \* 1..N -> bytes of an episode (file_size_bytes)
          Strategies,   \* cleanup strategies met in the run
          Quality,      \* 1..N -> quality.overall_score, in some units
          MaxBytes,     \* max_storage_bytes, 0 = unlimited
          MaxEpisodes,  \* max_episodes, 0 = unlimited
          AutoCleanup,  \* auto_cleanup
          Aging,        \* max_age_seconds is set: episodes expire
          DiskErrors,   \* file operations may fail
          MaxFaults     \* bound: crashes and failed file operations

Episodes == 1..N

CleanupStrategy == {"OldestFirst", "LargestFirst", "LowestQualityFirst", "UploadedFirst"}

ASSUME StoreAssumption ==
  /\ N \in Nat /\ MaxBytes \in Nat /\ MaxEpisodes \in Nat /\ MaxFaults \in Nat
  /\ Size \in [Episodes -> Nat \ {0}] /\ Quality \in [Episodes -> Nat]
  /\ Strategies \subseteq CleanupStrategy
  /\ AutoCleanup \in BOOLEAN /\ Aging \in BOOLEAN /\ DiskErrors \in BOOLEAN

VARIABLES
  strategy,        \* cleanup_strategy of this installation
  open,            \* a StorageManager exists
  index, uploaded, \* EpisodeIndex.episodes and their uploaded flags
  total,           \* EpisodeIndex.total_size_bytes
  index_dirty,
  disk,            \* episodes with a directory under root_dir
  file,            \* the index file
  op, pc,          \* the method that runs and its next file operation
  expired,         \* episodes cleanup_expired has yet to delete
  res,             \* what the last method returned
  packaged,        \* how many episodes were packaged so far
  faults,          \* how many faults happened so far
  marked           \* history: mark_uploaded returned Ok since the last rebuild

memVars == <<index, uploaded, total, index_dirty>>
opVars  == <<op, pc, expired, res>>
vars == <<strategy, open, memVars, disk, file, opVars, packaged, faults, marked>>

-----------------------------------------------------------------------------
SumSizes(S) == MapThenSumSet(LAMBDA e : Size[e], S)

Absent == [kind |-> "absent", index |-> {}, uploaded |-> {}, total |-> 0]
Torn   == [kind |-> "torn", index |-> {}, uploaded |-> {}, total |-> 0]
Snapshot == [kind |-> "saved", index |-> index, uploaded |-> uploaded, total |-> total]

NoOp == [kind |-> "none", ep |-> 0]
Ops  == {"store", "delete", "expire", "mark", "rebuild", "flush"}
Idle == pc = "idle"

Init ==
  /\ strategy \in Strategies
  /\ open = FALSE
  /\ index = {} /\ uploaded = {} /\ total = 0 /\ index_dirty = FALSE
  /\ disk = {} /\ file = Absent
  /\ op = NoOp /\ pc = "idle" /\ expired = {} /\ res = "none"
  /\ packaged = 0 /\ faults = 0 /\ marked = {}

Fault == DiskErrors /\ faults < MaxFaults /\ faults' = faults + 1

\* The method ends; only what store_episode returned is looked at again.
Return(r) ==
  /\ pc' = "idle" /\ expired' = {}
  /\ IF op.kind \in {"store", "added"} THEN res' = r /\ op' = op
     ELSE res' = "none" /\ op' = NoOp

-----------------------------------------------------------------------------
(* Opening, crashing, repairing *)

\* StorageManager::new: a missing index file means an empty index, an
\* unreadable one is an error and no manager exists.
New ==
  /\ ~open
  /\ IF file.kind = "torn"
       THEN UNCHANGED <<open, memVars>>
       ELSE /\ open' = TRUE
            /\ index' = file.index /\ uploaded' = file.uploaded
            /\ total' = file.total /\ index_dirty' = FALSE
  /\ UNCHANGED <<strategy, disk, file, opVars, packaged, faults, marked>>

\* The process dies, wherever it is.
Crash ==
  /\ open /\ faults < MaxFaults /\ faults' = faults + 1
  /\ open' = FALSE
  /\ index' = {} /\ uploaded' = {} /\ total' = 0 /\ index_dirty' = FALSE
  /\ op' = NoOp /\ pc' = "idle" /\ expired' = {} /\ res' = "none"
  /\ UNCHANGED <<strategy, disk, file, packaged, marked>>

\* Drop: the last flush, whose result is ignored, then the process ends.
Drop ==
  /\ open /\ Idle
  /\ open' = FALSE
  /\ \/ file' = (IF index_dirty THEN Snapshot ELSE file) /\ UNCHANGED faults
     \/ index_dirty /\ Fault /\ file' \in {file, Torn}
  /\ index' = {} /\ uploaded' = {} /\ total' = 0 /\ index_dirty' = FALSE
  /\ op' = NoOp /\ res' = "none"
  /\ UNCHANGED <<strategy, disk, pc, expired, packaged, marked>>

\* Nothing in the program repairs a torn index file: somebody removes it.
DiscardIndex ==
  /\ ~open /\ file.kind = "torn"
  /\ file' = Absent /\ marked' = {}
  /\ UNCHANGED <<strategy, open, memVars, disk, opVars, packaged, faults>>

\* The packager wrote the directory of the next episode (packager.rs), as
\* finish_episode has it do before store_episode.
Package ==
  /\ open /\ Idle /\ packaged < N
  /\ packaged' = packaged + 1
  /\ disk' = disk \cup {packaged'}
  /\ res' = "packaged"
  /\ UNCHANGED <<strategy, open, memVars, file, op, pc, expired, faults, marked>>

-----------------------------------------------------------------------------
(* The methods: each call sets op and the first thing to do *)

Call(kind, e, where) ==
  /\ open /\ Idle
  /\ op' = [kind |-> kind, ep |-> e] /\ pc' = where /\ res' = "none"

\* Any set of oldest episodes may have reached max_age_seconds.
Ages == IF Aging THEN {S \in SUBSET index : \A a \in S, b \in index : b <= a => b \in S}
        ELSE {{}}

\* store_episode for an episode the packager just wrote: clean up, or check.
Store ==
  /\ res = "packaged" /\ packaged \notin index
  /\ Call("store", packaged, "limits")
  /\ expired' \in IF AutoCleanup THEN Ages ELSE {{}}
  /\ UNCHANGED <<strategy, open, memVars, disk, file, packaged, faults, marked>>

Delete(e) ==
  /\ e \in index
  /\ Call("delete", e, "remove") /\ expired' = {}
  /\ UNCHANGED <<strategy, open, memVars, disk, file, packaged, faults, marked>>

CleanupExpired ==
  /\ Aging
  /\ Call("expire", 0, "limits") /\ expired' \in Ages
  /\ UNCHANGED <<strategy, open, memVars, disk, file, packaged, faults, marked>>

MarkUploaded(e) ==
  /\ e \in index
  /\ Call("mark", e, "truncate") /\ expired' = {}
  /\ uploaded' = uploaded \cup {e} /\ index_dirty' = TRUE
  /\ UNCHANGED <<strategy, open, index, total, disk, file, packaged, faults, marked>>

\* rebuild_index scans the directories; every entry starts as not uploaded.
RebuildIndex ==
  /\ Call("rebuild", 0, "truncate") /\ expired' = {}
  /\ index' = disk /\ uploaded' = {} /\ total' = SumSizes(disk) /\ index_dirty' = TRUE
  /\ marked' = {}
  /\ UNCHANGED <<strategy, open, disk, file, packaged, faults>>

\* A directory cannot be read: the entries found so far stay, unsaved.
RebuildFails ==
  /\ open /\ Idle /\ Fault
  /\ \E found \in SUBSET disk : index' = found /\ total' = SumSizes(found)
  /\ uploaded' = {} /\ marked' = {}
  /\ op' = NoOp /\ res' = "none"
  /\ UNCHANGED <<strategy, open, index_dirty, disk, file, pc, expired, packaged>>

Flush ==
  /\ index_dirty /\ Call("flush", 0, "truncate") /\ expired' = {}
  /\ UNCHANGED <<strategy, open, memVars, disk, file, packaged, faults, marked>>

-----------------------------------------------------------------------------
(* Their steps *)

TooLarge(e) == MaxBytes > 0 /\ total + Size[e] > MaxBytes
TooMany     == MaxEpisodes > 0 /\ Cardinality(index) >= MaxEpisodes

\* Mutant: the check of the episode count is missing.
OverBytes == op.kind = "store" /\ TooLarge(op.ep)

OverLimit == op.kind = "store" /\ (TooLarge(op.ep) \/ TooMany)

\* cleanup_one: the candidates of each strategy; sort_by on the values of a
\* HashMap leaves the order of equal entries open.
Victims ==
  LET oldest(S) == {e \in S : \A f \in S : e <= f}
      up == index \cap uploaded
  IN  CASE strategy = "OldestFirst" -> oldest(index)
        [] strategy = "LargestFirst" -> {e \in index : \A f \in index : Size[f] <= Size[e]}
        [] strategy = "LowestQualityFirst" -> {e \in index : \A f \in index : Quality[e] <= Quality[f]}
        [] strategy = "UploadedFirst" -> IF up # {} THEN oldest(up) ELSE oldest(index)

\* enforce_limits / check_limits: what the next round of the loops deletes.
ToDelete ==
  IF expired # {} THEN expired
  ELSE IF OverLimit /\ AutoCleanup THEN Victims ELSE {}

\* Mutant: the index is saved once, after the last deletion.
RemoveUnsaved(v) ==
  /\ pc = "limits" /\ v \in ToDelete
  /\ index' = index \ {v} /\ uploaded' = uploaded \ {v} /\ total' = total - Size[v]
  /\ disk' = disk \ {v} /\ expired' = expired \ {v} /\ index_dirty' = TRUE
  /\ UNCHANGED <<strategy, open, file, op, pc, res, packaged, faults, marked>>

\* delete_episode: the entry leaves the index, then the directory goes.  If
\* remove_dir_all fails the method returns before index_dirty is set.
RemoveFiles(v) ==
  /\ \/ pc = "limits" /\ v \in ToDelete
     \/ pc = "remove" /\ v = op.ep
  /\ index' = index \ {v} /\ uploaded' = uploaded \ {v} /\ total' = total - Size[v]
  /\ disk' = disk \ {v}
  /\ expired' = expired \ {v}
  /\ index_dirty' = TRUE /\ pc' = "truncate"
  /\ UNCHANGED <<strategy, open, file, op, res, packaged, faults, marked>>

RemoveFilesFails(v) ==
  /\ \/ pc = "limits" /\ v \in ToDelete
     \/ pc = "remove" /\ v = op.ep
  /\ v \in disk /\ Fault
  /\ index' = index \ {v} /\ uploaded' = uploaded \ {v} /\ total' = total - Size[v]
  /\ Return("io")
  /\ UNCHANGED <<strategy, open, index_dirty, disk, file, packaged, marked>>

\* cleanup_one found nothing to delete, or cleaning up is turned off.
StorageFull ==
  /\ pc = "limits" /\ ToDelete = {} /\ OverLimit
  /\ Return("full")
  /\ UNCHANGED <<strategy, open, memVars, disk, file, packaged, faults, marked>>

\* The episode fits: EpisodeIndex::add, then save.
Add ==
  /\ pc = "limits" /\ ToDelete = {} /\ ~OverLimit /\ op.kind = "store"
  /\ index' = index \cup {op.ep} /\ total' = total + Size[op.ep] /\ index_dirty' = TRUE
  /\ pc' = "truncate" /\ op' = [op EXCEPT !.kind = "added"]
  /\ UNCHANGED <<strategy, open, uploaded, disk, file, expired, res, packaged, faults, marked>>

ExpireDone ==
  /\ pc = "limits" /\ op.kind = "expire" /\ expired = {}
  /\ Return("ok")
  /\ UNCHANGED <<strategy, open, memVars, disk, file, packaged, faults, marked>>

\* save_index: File::create empties the file, the writer fills it.
Truncate ==
  /\ pc = "truncate"
  /\ file' = Torn /\ pc' = "write"
  /\ UNCHANGED <<strategy, open, memVars, disk, op, expired, res, packaged, faults, marked>>

\* After the save the loops of store_episode and cleanup_expired go on.
Resume == IF op.kind \in {"store", "expire"}
            THEN pc' = "limits" /\ UNCHANGED <<op, expired, res>>
            ELSE Return("ok")

Write ==
  /\ pc = "write"
  /\ file' = Snapshot /\ index_dirty' = FALSE
  /\ Resume
  /\ marked' = IF op.kind = "mark" THEN marked \cup {op.ep} ELSE marked
  /\ UNCHANGED <<strategy, open, index, uploaded, total, disk, packaged, faults>>

\* An error of File::create or of the serializer is returned; index_dirty
\* stays set.
SaveFails ==
  /\ pc \in {"truncate", "write"} /\ Fault
  /\ Return("io")
  /\ UNCHANGED <<strategy, open, memVars, disk, file, packaged, marked>>

\* What BufWriter still holds when it is dropped is written without looking
\* at the outcome: the file stays torn and the save counts as done.
WriteLost ==
  /\ pc = "write" /\ Fault
  /\ index_dirty' = FALSE
  /\ Resume
  /\ marked' = IF op.kind = "mark" THEN marked \cup {op.ep} ELSE marked
  /\ UNCHANGED <<strategy, open, index, uploaded, total, disk, file, packaged>>

StoreSteps ==
  \/ \E v \in Episodes : RemoveFiles(v) \/ RemoveFilesFails(v)
  \/ StorageFull \/ Add \/ ExpireDone \/ Truncate \/ Write \/ SaveFails \/ WriteLost

-----------------------------------------------------------------------------
(* Properties *)

\* The shapes of the index, its file and the method that runs.
StoreTypeOK ==
  /\ strategy \in Strategies
  /\ open \in BOOLEAN /\ index_dirty \in BOOLEAN
  /\ index \subseteq Episodes /\ uploaded \subseteq index /\ total \in Nat
  /\ disk \subseteq 1..packaged
  /\ file \in [kind : {"absent", "torn", "saved"}, index : SUBSET Episodes,
               uploaded : SUBSET Episodes, total : Nat]
  /\ op \in [kind : Ops \cup {"none", "added"}, ep : 0..N]
  /\ pc \in {"idle", "limits", "remove", "truncate", "write"}
  /\ expired \subseteq index
  /\ res \in {"none", "ok", "io", "full", "packaged"}
  /\ packaged \in 0..N /\ faults \in 0..MaxFaults /\ marked \subseteq Episodes

\* total_size_bytes is the sum of the indexed sizes, through evictions that
\* fail half way, crashes, reloads and rebuilds; the limits rest on it.
TotalIsSum == total = SumSizes(index)

\* A store that succeeded leaves the index within both limits.
StoredWithinLimits ==
  (op.kind = "added" /\ pc # "limits") =>
    /\ MaxBytes > 0 => total <= MaxBytes
    /\ MaxEpisodes > 0 => Cardinality(index) <= MaxEpisodes

\* With auto_cleanup a store is refused only once nothing is left to delete:
\* an episode larger than the limit has cost every stored episode.
FullMeansEmpty == (AutoCleanup /\ res = "full") => index = {}

\* The storage stays within its limits, and refuses an episode only when
\* nothing is left to delete, through failing and interrupted methods
\* (store_episode, enforce_limits).
WithinBudget == TotalIsSum /\ StoredWithinLimits /\ FullMeansEmpty

\* Each crash or failed file operation leaves at most one entry whose
\* directory is gone: deletions are saved one by one.
StalePerFault == Cardinality(index \ disk) <= faults

\* An episode mark_uploaded returned Ok for stays marked, across crashes and
\* restarts, as long as it is indexed and the index is not rebuilt.
UploadedKept == Idle => (index \cap marked) \subseteq uploaded

\* Without faults an index that is not marked dirty is the one on disk, so
\* the flush on stop and on drop loses nothing.
SavedUnlessDirty ==
  (open /\ Idle /\ ~index_dirty /\ faults = 0) =>
    /\ file.index = index /\ file.uploaded = uploaded /\ file.total = total

\* Index, index file and directories agree up to the faults that happened:
\* at most one entry without files for each, no mark forgotten, and nothing
\* unsaved without the dirty flag (delete_episode, mark_uploaded, save_index).
DiskFollowsIndex == StalePerFault /\ UploadedKept /\ SavedUnlessDirty
=============================================================================
