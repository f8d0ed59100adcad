--------------------------- MODULE EpisodeProofs ---------------------------
(***************************************************************************)
(* Proofs about the episode storage and the plugin around it, for any      *)
(* number of episodes and faults, any sizes and any limits.                 *)
(*                                                                         *)
(* The storage properties depend only on the storage's variables.  Every    *)
(* step of the plugin is a step of StoreNext on them (StorePart), so the    *)
(* inductive invariant StoreInv is carried through StoreNext's actions and  *)
(* the plugin's own invariant through the plugin's actions.                 *)
(***************************************************************************)
EXTENDS EpisodePlugin, FiniteSetTheorems, WellFoundedInduction, TLAPS

\* The plugin drops what the last storage method returned.
ClearOp ==
  /\ Idle /\ op' = NoOp /\ res' = "none"
  /\ UNCHANGED <<strategy, open, memVars, disk, file, pc, expired, packaged, faults, marked>>

\* What the plugin's steps do to the storage.
StoreNext ==
  \/ New \/ Crash \/ Drop \/ DiscardIndex \/ Package
  \/ Store \/ CleanupExpired \/ RebuildIndex \/ RebuildFails \/ Flush
  \/ \E e \in Episodes : Delete(e) \/ MarkUploaded(e)
  \/ StoreSteps \/ ClearOp

-----------------------------------------------------------------------------
(* The inductive invariant of the storage *)

Shape ==
  /\ strategy \in CleanupStrategy
  /\ open \in BOOLEAN /\ index_dirty \in BOOLEAN
  /\ packaged \in 0..N /\ faults \in Nat
  /\ index \subseteq 1..packaged /\ disk \subseteq 1..packaged
  /\ file.index \subseteq 1..packaged /\ marked \subseteq 1..packaged
  /\ expired \subseteq index
  /\ op \in [kind : Ops \cup {"none", "added"}, ep : 0..N]
  /\ pc \in {"idle", "limits", "remove", "truncate", "write"}

\* Where the running method is, and what it knows about its episode.
Running ==
  /\ ~open => (op = NoOp /\ pc = "idle" /\ res = "none")
  /\ pc = "idle" => expired = {}
  /\ pc = "limits" => op.kind \in {"store", "expire"}
  /\ pc = "remove" => op.kind = "delete"
  /\ op.kind = "mark" => (pc \in {"truncate", "write"} /\ op.ep \in index)
  /\ op.kind = "store" => (op.ep \in disk /\ op.ep \notin index)
  /\ res = "packaged" => (pc = "idle" /\ packaged \in disk /\ packaged \notin index)
  /\ pc = "write" => file = Torn

\* Until a method starts to change the index, a clean index is the file's.
Saved ==
  (open /\ ~index_dirty /\ faults = 0 /\ pc \in {"idle", "limits", "remove"}) =>
    /\ file.index = index /\ file.uploaded = uploaded /\ file.total = total

\* Marked episodes are marked in memory and in the file, and an episode that
\* is about to be indexed was never marked.
Marks ==
  /\ (index \cap marked) \subseteq uploaded
  /\ (file.index \cap marked) \subseteq file.uploaded
  /\ op.kind = "mark" => op.ep \in uploaded
  /\ op.kind = "store" => op.ep \notin marked
  /\ res = "packaged" => packaged \notin marked

\* The file may be one deletion behind while that deletion is being saved.
Stale ==
  /\ Cardinality(index \ disk) <= faults
  /\ Cardinality(file.index \ disk) <= faults + (IF pc = "truncate" THEN 1 ELSE 0)

StoreInv == Shape /\ Running /\ Saved /\ Marks /\ Stale

-----------------------------------------------------------------------------
(* Proofs about the storage *)

\* What enforce_limits or cleanup_expired deletes next is in the index.
LEMMA VictimsIndexed ==
  ASSUME strategy \in CleanupStrategy, expired \subseteq index
  PROVE  ToDelete \subseteq index
BY DEF ToDelete, Victims, CleanupStrategy

\* How a save that returns Ok ends, by the method it belongs to.
SaveEnd ==
  /\ op.kind = "mark" => marked' = marked \cup {op.ep}
  /\ op.kind # "mark" => marked' = marked
  /\ op.kind \in {"store", "expire"} =>
       (pc' = "limits" /\ op' = op /\ expired' = expired /\ res' = res)
  /\ op.kind = "added" => (pc' = "idle" /\ op' = op /\ expired' = {} /\ res' = "ok")
  /\ op.kind \notin {"store", "expire", "added"} =>
       (pc' = "idle" /\ op' = NoOp /\ expired' = {} /\ res' = "none")

\* save_index returned Ok: the method goes on or returns.
LEMMA SaveEnds == Write \/ WriteLost => SaveEnd
<1> SUFFICES ASSUME Write \/ WriteLost PROVE SaveEnd
  OBVIOUS
<1>1. Resume /\ marked' = IF op.kind = "mark" THEN marked \cup {op.ep} ELSE marked
  BY DEF Write, WriteLost
<1> QED
  BY <1>1 DEF Resume, Return, SaveEnd

\* What is left of a rebuild that failed.
LEMMA RebuildFailsDoes ==
  ASSUME RebuildFails, faults \in Nat
  PROVE  /\ open /\ pc = "idle" /\ pc' = pc /\ open' = open
         /\ index' \subseteq disk /\ disk' = disk /\ file' = file
         /\ uploaded' = {} /\ marked' = {} /\ expired' = expired /\ index_dirty' = index_dirty
         /\ op' = NoOp /\ res' = "none" /\ strategy' = strategy /\ packaged' = packaged
         /\ faults' \in Nat /\ faults' = faults + 1
BY DEF RebuildFails, Fault, Idle

\* The shapes are kept.
LEMMA ShapeStep == StoreInv /\ StoreNext => Shape'
<1> SUFFICES ASSUME StoreInv, StoreNext PROVE Shape'
  OBVIOUS
<1> USE StoreAssumption DEF Shape, Running, Idle, NoOp, Torn, Ops, memVars, opVars, Episodes, StoreInv
<1>1. CASE New
  BY <1>1 DEF New
<1>2. CASE Crash
  <2>1. open' \in BOOLEAN /\ index_dirty' \in BOOLEAN
    BY <1>2 DEF Crash
  <2>2. op' \in [kind : Ops \cup {"none", "added"}, ep : 0..N]
    BY <1>2 DEF Crash
  <2>3. faults' \in Nat /\ pc' = "idle"
    BY <1>2 DEF Crash
  <2>4. /\ strategy' \in CleanupStrategy /\ packaged' \in 0..N
        /\ index' \subseteq 1..packaged' /\ disk' \subseteq 1..packaged'
        /\ file'.index \subseteq 1..packaged' /\ marked' \subseteq 1..packaged'
        /\ expired' \subseteq index'
    BY <1>2 DEF Crash
  <2> QED
    BY <2>1, <2>2, <2>3, <2>4
<1>3. CASE Drop
  <2>1. open' \in BOOLEAN /\ index_dirty' \in BOOLEAN
    BY <1>3 DEF Drop, Fault, Snapshot, Torn
  <2>2. op' \in [kind : Ops \cup {"none", "added"}, ep : 0..N]
    BY <1>3 DEF Drop, Fault, Snapshot, Torn
  <2>3. faults' \in Nat /\ pc' = "idle"
    BY <1>3 DEF Drop, Fault, Snapshot, Torn
  <2>4. /\ strategy' \in CleanupStrategy /\ packaged' \in 0..N
        /\ index' \subseteq 1..packaged' /\ disk' \subseteq 1..packaged'
        /\ file'.index \subseteq 1..packaged' /\ marked' \subseteq 1..packaged'
        /\ expired' \subseteq index'
    BY <1>3 DEF Drop, Fault, Snapshot, Torn
  <2> QED
    BY <2>1, <2>2, <2>3, <2>4
<1>4. CASE DiscardIndex
  BY <1>4 DEF DiscardIndex, Absent
<1>5. CASE Package
  BY <1>5 DEF Package
<1>6. CASE Store
  BY <1>6 DEF Store, Call, Ages
<1>7. CASE CleanupExpired
  BY <1>7 DEF CleanupExpired, Call, Ages
<1>8. CASE RebuildIndex \/ RebuildFails
  <2>1. CASE RebuildIndex
    BY <2>1 DEF RebuildIndex, Call
  <2>2. CASE RebuildFails
    <3>1. op' \in [kind : Ops \cup {"none", "added"}, ep : 0..N]
      BY <2>2, RebuildFailsDoes
    <3>2. /\ index' \subseteq 1..packaged' /\ disk' \subseteq 1..packaged' /\ expired' \subseteq index'
          /\ file'.index \subseteq 1..packaged' /\ marked' \subseteq 1..packaged'
      BY <2>2, RebuildFailsDoes
    <3>3. strategy' \in CleanupStrategy /\ open' \in BOOLEAN /\ index_dirty' \in BOOLEAN
      BY <2>2, RebuildFailsDoes
    <3>4. packaged' \in 0..N /\ faults' \in Nat /\ pc' = "idle"
      BY <2>2, RebuildFailsDoes
    <3> QED
      BY <3>1, <3>2, <3>3, <3>4
  <2> QED
    BY <1>8, <2>1, <2>2
<1>9. CASE Flush
  BY <1>9 DEF Flush, Call
<1>10. ASSUME NEW e \in Episodes, Delete(e) PROVE Shape'
  BY <1>10 DEF Delete, Call
<1>11. ASSUME NEW e \in Episodes, MarkUploaded(e) PROVE Shape'
  BY <1>11 DEF MarkUploaded, Call
<1>12. ASSUME NEW v \in Episodes, RemoveFiles(v) PROVE Shape'
  BY <1>12, VictimsIndexed DEF RemoveFiles
<1>13. ASSUME NEW v \in Episodes, RemoveFilesFails(v) PROVE Shape'
  BY <1>13, VictimsIndexed DEF RemoveFilesFails, Return, Fault
<1>14. CASE StorageFull
  BY <1>14 DEF StorageFull, Return
<1>15. CASE Add
  BY <1>15 DEF Add
<1>16. CASE ExpireDone
  BY <1>16 DEF ExpireDone, Return
<1>17. CASE Truncate
  BY <1>17 DEF Truncate
<1>18. CASE Write
  <2>1. SaveEnd
    BY <1>18, SaveEnds
  <2>2. expired' \subseteq expired /\ op' \in {op, NoOp} /\ pc' \in {"limits", "idle"}
    BY <2>1 DEF SaveEnd
  <2>3. marked' \subseteq marked \cup index
    BY <2>1 DEF SaveEnd
  <2>4. op' \in [kind : Ops \cup {"none", "added"}, ep : 0..N] /\ index_dirty' = FALSE
    BY <1>18, <2>2 DEF Write, Snapshot
  <2>5. UNCHANGED <<strategy, open, index, disk, packaged>> /\ faults' \in Nat
    BY <1>18 DEF Write, Snapshot
  <2>6. file'.index \subseteq 1..packaged
    BY <1>18 DEF Write, Snapshot
  <2>7. marked' \subseteq 1..packaged /\ expired' \subseteq index
    BY <2>2, <2>3
  <2> QED
    BY <2>2, <2>4, <2>5, <2>6, <2>7
<1>19. CASE SaveFails
  BY <1>19 DEF SaveFails, Return, Fault
<1>20. CASE WriteLost
  <2>1. SaveEnd
    BY <1>20, SaveEnds
  <2>2. expired' \subseteq expired /\ op' \in {op, NoOp} /\ pc' \in {"limits", "idle"}
    BY <2>1 DEF SaveEnd
  <2>3. marked' \subseteq marked \cup index
    BY <2>1 DEF SaveEnd
  <2>4. op' \in [kind : Ops \cup {"none", "added"}, ep : 0..N] /\ index_dirty' = FALSE
    BY <1>20, <2>2 DEF WriteLost, Fault
  <2>5. UNCHANGED <<strategy, open, index, disk, packaged>> /\ faults' \in Nat
    BY <1>20 DEF WriteLost, Fault
  <2>6. file'.index \subseteq 1..packaged
    BY <1>20 DEF WriteLost, Fault
  <2>7. marked' \subseteq 1..packaged /\ expired' \subseteq index
    BY <2>2, <2>3
  <2> QED
    BY <2>2, <2>4, <2>5, <2>6, <2>7
<1>21. CASE ClearOp
  BY <1>21 DEF ClearOp
<1> HIDE DEF Shape, Running, Idle, NoOp, Torn, Ops, memVars, opVars, Episodes, StoreInv
<1> QED
  BY <1>1, <1>2, <1>3, <1>4, <1>5, <1>6, <1>7, <1>8, <1>9, <1>10, <1>11,
     <1>12, <1>13, <1>14, <1>15, <1>16, <1>17, <1>18, <1>19, <1>20, <1>21 DEF StoreNext, StoreSteps

\* What the running method relies on stays true until it ends.
LEMMA RunningStep == StoreInv /\ StoreNext => Running'
<1> SUFFICES ASSUME StoreInv, StoreNext PROVE Running'
  OBVIOUS
<1> USE StoreAssumption DEF Shape, Running, Idle, NoOp, Torn, Ops, memVars, opVars, Episodes, StoreInv
<1>1. CASE New
  BY <1>1 DEF New
<1>2. CASE Crash
  BY <1>2 DEF Crash
<1>3. CASE Drop
  BY <1>3 DEF Drop, Fault, Snapshot, Torn
<1>4. CASE DiscardIndex
  BY <1>4 DEF DiscardIndex, Absent
<1>5. CASE Package
  BY <1>5 DEF Package
<1>6. CASE Store
  BY <1>6 DEF Store, Call, Ages
<1>7. CASE CleanupExpired
  BY <1>7 DEF CleanupExpired, Call, Ages
<1>8. CASE RebuildIndex \/ RebuildFails
  <2>1. CASE RebuildIndex
    BY <2>1 DEF RebuildIndex, Call
  <2>2. CASE RebuildFails
    <3>1. op' = NoOp /\ pc' = "idle" /\ res' = "none" /\ expired' = {}
      BY <2>2, RebuildFailsDoes
    <3> QED
      BY <3>1
  <2> QED
    BY <1>8, <2>1, <2>2
<1>9. CASE Flush
  BY <1>9 DEF Flush, Call
<1>10. ASSUME NEW e \in Episodes, Delete(e) PROVE Running'
  BY <1>10 DEF Delete, Call
<1>11. ASSUME NEW e \in Episodes, MarkUploaded(e) PROVE Running'
  BY <1>11 DEF MarkUploaded, Call
<1>12. ASSUME NEW v \in Episodes, RemoveFiles(v) PROVE Running'
  BY <1>12, VictimsIndexed DEF RemoveFiles
<1>13. ASSUME NEW v \in Episodes, RemoveFilesFails(v) PROVE Running'
  BY <1>13, VictimsIndexed DEF RemoveFilesFails, Return, Fault
<1>14. CASE StorageFull
  BY <1>14 DEF StorageFull, Return
<1>15. CASE Add
  BY <1>15 DEF Add
<1>16. CASE ExpireDone
  BY <1>16 DEF ExpireDone, Return
<1>17. CASE Truncate
  BY <1>17 DEF Truncate
<1>18. CASE Write
  <2>1. SaveEnd
    BY <1>18, SaveEnds
  <2> QED
    BY <1>18, <2>1 DEF SaveEnd, Write, Snapshot
<1>19. CASE SaveFails
  BY <1>19 DEF SaveFails, Return, Fault
<1>20. CASE WriteLost
  <2>1. SaveEnd
    BY <1>20, SaveEnds
  <2> QED
    BY <1>20, <2>1 DEF SaveEnd, WriteLost, Fault
<1>21. CASE ClearOp
  BY <1>21 DEF ClearOp
<1> HIDE DEF Shape, Running, Idle, NoOp, Torn, Ops, memVars, opVars, Episodes, StoreInv
<1> QED
  BY <1>1, <1>2, <1>3, <1>4, <1>5, <1>6, <1>7, <1>8, <1>9, <1>10, <1>11,
     <1>12, <1>13, <1>14, <1>15, <1>16, <1>17, <1>18, <1>19, <1>20, <1>21 DEF StoreNext, StoreSteps

\* A clean index is the one in the file.
LEMMA SavedStep == StoreInv /\ StoreNext => Saved'
<1> SUFFICES ASSUME StoreInv, StoreNext PROVE Saved'
  OBVIOUS
<1> USE StoreAssumption DEF Shape, Running, Idle, NoOp, Torn, Ops, memVars, opVars, Episodes, StoreInv, Saved
<1>1. CASE New
  BY <1>1 DEF New
<1>2. CASE Crash
  BY <1>2 DEF Crash
<1>3. CASE Drop
  BY <1>3 DEF Drop, Fault, Snapshot, Torn
<1>4. CASE DiscardIndex
  BY <1>4 DEF DiscardIndex, Absent
<1>5. CASE Package
  BY <1>5 DEF Package
<1>6. CASE Store
  BY <1>6 DEF Store, Call, Ages
<1>7. CASE CleanupExpired
  BY <1>7 DEF CleanupExpired, Call, Ages
<1>8. CASE RebuildIndex \/ RebuildFails
  <2>1. CASE RebuildIndex
    BY <2>1 DEF RebuildIndex, Call
  <2>2. CASE RebuildFails
    BY <2>2, RebuildFailsDoes
  <2> QED
    BY <1>8, <2>1, <2>2
<1>9. CASE Flush
  BY <1>9 DEF Flush, Call
<1>10. ASSUME NEW e \in Episodes, Delete(e) PROVE Saved'
  BY <1>10 DEF Delete, Call
<1>11. ASSUME NEW e \in Episodes, MarkUploaded(e) PROVE Saved'
  BY <1>11 DEF MarkUploaded, Call
<1>12. ASSUME NEW v \in Episodes, RemoveFiles(v) PROVE Saved'
  BY <1>12, VictimsIndexed DEF RemoveFiles
<1>13. ASSUME NEW v \in Episodes, RemoveFilesFails(v) PROVE Saved'
  BY <1>13, VictimsIndexed DEF RemoveFilesFails, Return, Fault
<1>14. CASE StorageFull
  BY <1>14 DEF StorageFull, Return
<1>15. CASE Add
  BY <1>15 DEF Add
<1>16. CASE ExpireDone
  BY <1>16 DEF ExpireDone, Return
<1>17. CASE Truncate
  BY <1>17 DEF Truncate
<1>18. CASE Write
  <2>1. SaveEnd
    BY <1>18, SaveEnds
  <2> QED
    BY <1>18, <2>1 DEF SaveEnd, Write, Snapshot
<1>19. CASE SaveFails
  BY <1>19 DEF SaveFails, Return, Fault
<1>20. CASE WriteLost
  <2>1. SaveEnd
    BY <1>20, SaveEnds
  <2> QED
    BY <1>20, <2>1 DEF SaveEnd, WriteLost, Fault
<1>21. CASE ClearOp
  BY <1>21 DEF ClearOp
<1> HIDE DEF Shape, Running, Idle, NoOp, Torn, Ops, memVars, opVars, Episodes, StoreInv, Saved
<1> QED
  BY <1>1, <1>2, <1>3, <1>4, <1>5, <1>6, <1>7, <1>8, <1>9, <1>10, <1>11,
     <1>12, <1>13, <1>14, <1>15, <1>16, <1>17, <1>18, <1>19, <1>20, <1>21 DEF StoreNext, StoreSteps

\* Marks survive in memory and in the file.
LEMMA MarksStep == StoreInv /\ StoreNext => Marks'
<1> SUFFICES ASSUME StoreInv, StoreNext PROVE Marks'
  OBVIOUS
<1> USE StoreAssumption DEF Shape, Running, Idle, NoOp, Torn, Ops, memVars, opVars, Episodes, StoreInv, Marks
<1>1. CASE New
  BY <1>1 DEF New
<1>2. CASE Crash
  BY <1>2 DEF Crash
<1>3. CASE Drop
  BY <1>3 DEF Drop, Fault, Snapshot, Torn
<1>4. CASE DiscardIndex
  BY <1>4 DEF DiscardIndex, Absent
<1>5. CASE Package
  BY <1>5 DEF Package
<1>6. CASE Store
  BY <1>6 DEF Store, Call, Ages
<1>7. CASE CleanupExpired
  BY <1>7 DEF CleanupExpired, Call, Ages
<1>8. CASE RebuildIndex \/ RebuildFails
  <2>1. CASE RebuildIndex
    BY <2>1 DEF RebuildIndex, Call
  <2>2. CASE RebuildFails
    BY <2>2, RebuildFailsDoes
  <2> QED
    BY <1>8, <2>1, <2>2
<1>9. CASE Flush
  BY <1>9 DEF Flush, Call
<1>10. ASSUME NEW e \in Episodes, Delete(e) PROVE Marks'
  BY <1>10 DEF Delete, Call
<1>11. ASSUME NEW e \in Episodes, MarkUploaded(e) PROVE Marks'
  BY <1>11 DEF MarkUploaded, Call
<1>12. ASSUME NEW v \in Episodes, RemoveFiles(v) PROVE Marks'
  BY <1>12, VictimsIndexed DEF RemoveFiles
<1>13. ASSUME NEW v \in Episodes, RemoveFilesFails(v) PROVE Marks'
  BY <1>13, VictimsIndexed DEF RemoveFilesFails, Return, Fault
<1>14. CASE StorageFull
  BY <1>14 DEF StorageFull, Return
<1>15. CASE Add
  BY <1>15 DEF Add
<1>16. CASE ExpireDone
  BY <1>16 DEF ExpireDone, Return
<1>17. CASE Truncate
  BY <1>17 DEF Truncate
<1>18. CASE Write
  <2>1. SaveEnd
    BY <1>18, SaveEnds
  <2>2. (index \cap marked') \subseteq uploaded
    BY <2>1 DEF SaveEnd
  <2>3. op'.kind # "mark" /\ (op'.kind = "store" => (op' = op /\ marked' = marked))
    BY <2>1 DEF SaveEnd
  <2>4. res' # "packaged"
    BY <1>18, <2>1 DEF SaveEnd, Write, Snapshot
  <2> QED
    BY <1>18, <2>2, <2>3, <2>4 DEF Write, Snapshot
<1>19. CASE SaveFails
  BY <1>19 DEF SaveFails, Return, Fault
<1>20. CASE WriteLost
  <2>1. SaveEnd
    BY <1>20, SaveEnds
  <2>2. (index \cap marked') \subseteq uploaded
    BY <2>1 DEF SaveEnd
  <2>3. op'.kind # "mark" /\ (op'.kind = "store" => (op' = op /\ marked' = marked))
    BY <2>1 DEF SaveEnd
  <2>4. res' # "packaged"
    BY <1>20, <2>1 DEF SaveEnd, WriteLost, Fault
  <2> QED
    BY <1>20, <2>2, <2>3, <2>4 DEF WriteLost, Fault
<1>21. CASE ClearOp
  BY <1>21 DEF ClearOp
<1> HIDE DEF Shape, Running, Idle, NoOp, Torn, Ops, memVars, opVars, Episodes, StoreInv, Marks
<1> QED
  BY <1>1, <1>2, <1>3, <1>4, <1>5, <1>6, <1>7, <1>8, <1>9, <1>10, <1>11,
     <1>12, <1>13, <1>14, <1>15, <1>16, <1>17, <1>18, <1>19, <1>20, <1>21 DEF StoreNext, StoreSteps

-----------------------------------------------------------------------------
(* Entries whose directory is gone *)

\* The index loses such entries, or is read from the file.
IndexMoves ==
  \/ (index' \ disk') \subseteq (index \ disk)
  \/ pc = "idle" /\ (index' \ disk') \subseteq (file.index \ disk)

\* The file is written, is left alone, or falls one deletion behind.
FileMoves ==
  /\ faults' \in Nat /\ faults <= faults'
  /\ \/ (file'.index \ disk') \subseteq (index \ disk)
     \/ /\ (file'.index \ disk') \subseteq (file.index \ disk)
        /\ pc = "truncate" => (pc' = "truncate" \/ faults' = faults + 1)
     \/ /\ \E v \in Episodes : (file'.index \ disk') \subseteq (file.index \ disk) \cup {v}
        /\ pc # "truncate" /\ pc' = "truncate"

\* What a step does to the entries without a directory.
LEMMA StaleMoves == StoreInv /\ StoreNext => IndexMoves /\ FileMoves
<1> SUFFICES ASSUME StoreInv, StoreNext PROVE IndexMoves /\ FileMoves
  OBVIOUS
<1> USE StoreAssumption DEF Shape, Running, Idle, NoOp, Torn, Ops, memVars, opVars, Episodes, StoreInv, IndexMoves, FileMoves
<1>1. CASE New
  BY <1>1 DEF New
<1>2. CASE Crash
  BY <1>2 DEF Crash
<1>3. CASE Drop
  BY <1>3 DEF Drop, Fault, Snapshot, Torn
<1>4. CASE DiscardIndex
  BY <1>4 DEF DiscardIndex, Absent
<1>5. CASE Package
  BY <1>5 DEF Package
<1>6. CASE Store
  BY <1>6 DEF Store, Call, Ages
<1>7. CASE CleanupExpired
  BY <1>7 DEF CleanupExpired, Call, Ages
<1>8. CASE RebuildIndex \/ RebuildFails
  <2>1. CASE RebuildIndex
    BY <2>1 DEF RebuildIndex, Call
  <2>2. CASE RebuildFails
    BY <2>2, RebuildFailsDoes
  <2> QED
    BY <1>8, <2>1, <2>2
<1>9. CASE Flush
  BY <1>9 DEF Flush, Call
<1>10. ASSUME NEW e \in Episodes, Delete(e) PROVE IndexMoves /\ FileMoves
  BY <1>10 DEF Delete, Call
<1>11. ASSUME NEW e \in Episodes, MarkUploaded(e) PROVE IndexMoves /\ FileMoves
  BY <1>11 DEF MarkUploaded, Call
<1>12. ASSUME NEW v \in Episodes, RemoveFiles(v) PROVE IndexMoves /\ FileMoves
  BY <1>12, VictimsIndexed DEF RemoveFiles
<1>13. ASSUME NEW v \in Episodes, RemoveFilesFails(v) PROVE IndexMoves /\ FileMoves
  BY <1>13, VictimsIndexed DEF RemoveFilesFails, Return, Fault
<1>14. CASE StorageFull
  BY <1>14 DEF StorageFull, Return
<1>15. CASE Add
  BY <1>15 DEF Add
<1>16. CASE ExpireDone
  BY <1>16 DEF ExpireDone, Return
<1>17. CASE Truncate
  BY <1>17 DEF Truncate
<1>18. CASE Write
  BY <1>18 DEF Write, Snapshot
<1>19. CASE SaveFails
  BY <1>19 DEF SaveFails, Return, Fault
<1>20. CASE WriteLost
  BY <1>20 DEF WriteLost, Fault
<1>21. CASE ClearOp
  BY <1>21 DEF ClearOp
<1> HIDE DEF Shape, Running, Idle, NoOp, Torn, Ops, memVars, opVars, Episodes, StoreInv, IndexMoves, FileMoves
<1> QED
  BY <1>1, <1>2, <1>3, <1>4, <1>5, <1>6, <1>7, <1>8, <1>9, <1>10, <1>11,
     <1>12, <1>13, <1>14, <1>15, <1>16, <1>17, <1>18, <1>19, <1>20, <1>21 DEF StoreNext, StoreSteps

\* A part of a finite set is not larger.
LEMMA Smaller ==
  ASSUME NEW A, NEW B, NEW n \in Nat, IsFiniteSet(A), B \subseteq A, Cardinality(A) <= n
  PROVE  Cardinality(B) <= n
BY FS_Subset, FS_CardinalityType

\* One more element makes a set at most one larger.
LEMMA OneMore ==
  ASSUME NEW A, NEW B, NEW v, NEW n \in Nat,
         IsFiniteSet(A), B \subseteq A \cup {v}, Cardinality(A) <= n
  PROVE  Cardinality(B) <= n + 1
<1>1. IsFiniteSet(A \cup {v}) /\ Cardinality(A \cup {v}) \in {Cardinality(A), Cardinality(A) + 1}
  BY FS_AddElement
<1>2. Cardinality(A \cup {v}) <= n + 1
  BY <1>1, FS_CardinalityType
<1> QED
  BY <1>1, <1>2, Smaller

\* No step leaves more entries without a directory than there were faults.
LEMMA StaleStep == StoreInv /\ StoreNext => Stale'
<1> SUFFICES ASSUME StoreInv, StoreNext PROVE Stale'
  OBVIOUS
<1>1. IndexMoves /\ FileMoves
  BY StaleMoves
<1>2. IsFiniteSet(1..packaged)
  BY FS_Interval DEF StoreInv, Shape
<1>3. IsFiniteSet(index \ disk) /\ IsFiniteSet(file.index \ disk)
  BY <1>2, FS_Subset DEF StoreInv, Shape
<1>4. faults \in Nat /\ faults' \in Nat /\ faults <= faults'
  BY <1>1 DEF FileMoves, StoreInv, Shape
<1>5. Cardinality(index' \ disk') <= faults
  <2>1. CASE (index' \ disk') \subseteq (index \ disk)
    BY <2>1, <1>3, <1>4, Smaller DEF StoreInv, Stale
  <2>2. CASE pc = "idle" /\ (index' \ disk') \subseteq (file.index \ disk)
    BY <2>2, <1>3, <1>4, Smaller DEF StoreInv, Stale
  <2> QED
    BY <1>1, <2>1, <2>2 DEF IndexMoves
<1>6. Cardinality(index' \ disk') <= faults'
  <2>1. Cardinality(index' \ disk') \in Nat
    BY <1>1, <1>3, FS_Subset, FS_CardinalityType DEF IndexMoves
  <2> QED
    BY <2>1, <1>4, <1>5
<1>7. Cardinality(file'.index \ disk') <= faults' + (IF pc' = "truncate" THEN 1 ELSE 0)
  <2>1. CASE (file'.index \ disk') \subseteq (index \ disk)
    <3>1. Cardinality(file'.index \ disk') \in Nat /\ Cardinality(file'.index \ disk') <= faults
      BY <2>1, <1>3, <1>4, Smaller, FS_Subset, FS_CardinalityType DEF StoreInv, Stale
    <3> QED
      BY <3>1, <1>4
  <2>2. CASE /\ (file'.index \ disk') \subseteq (file.index \ disk)
             /\ pc = "truncate" => (pc' = "truncate" \/ faults' = faults + 1)
    <3> DEFINE n == faults + (IF pc = "truncate" THEN 1 ELSE 0)
    <3>1. n \in Nat /\ Cardinality(file.index \ disk) <= n
      BY <1>4 DEF StoreInv, Stale
    <3>2. Cardinality(file'.index \ disk') \in Nat
      BY <2>2, <1>3, FS_Subset, FS_CardinalityType
    <3> HIDE DEF n
    <3>3. Cardinality(file'.index \ disk') <= n
      BY <2>2, <3>1, <1>3, Smaller
    <3> QED
      BY <3>2, <3>3, <2>2, <1>4 DEF n
  <2>3. ASSUME NEW v \in Episodes,
               (file'.index \ disk') \subseteq (file.index \ disk) \cup {v},
               pc # "truncate", pc' = "truncate"
        PROVE  Cardinality(file'.index \ disk') <= faults' + 1
    <3>1. Cardinality(file.index \ disk) <= faults
      BY <2>3, <1>4 DEF StoreInv, Stale
    <3>2. Cardinality(file'.index \ disk') <= faults + 1
      BY <2>3, <3>1, <1>3, <1>4, OneMore
    <3>3. Cardinality(file'.index \ disk') \in Nat
      <4>1. IsFiniteSet((file.index \ disk) \cup {v})
        BY <1>3, FS_AddElement
      <4> QED
        BY <4>1, <2>3, FS_Subset, FS_CardinalityType
    <3> QED
      BY <3>2, <3>3, <1>4
  <2> QED
    BY <1>1, <2>1, <2>2, <2>3 DEF FileMoves
<1> QED
  BY <1>6, <1>7 DEF Stale

-----------------------------------------------------------------------------
(* Sums of sizes *)

\* A set of naturals has a least element.
LEMMA LeastNatural ==
  ASSUME NEW T \in SUBSET Nat, T # {}
  PROVE  \E m \in T : \A i \in T : m <= i
<1> DEFINE Less == OpToRel(<, Nat)
<1>1. IsWellFoundedOn(Less, Nat)
  BY NatLessThanWellFounded, Zenon
<1>2. \A x, y \in Nat : y < x => <<y, x>> \in Less
  BY DEF OpToRel
<1> HIDE DEF Less
<1>3. PICK x \in T : \A y \in T : ~ (<<y, x>> \in Less)
  BY <1>1, WFMin
<1>4. ASSUME NEW i \in T PROVE x <= i
  <2>1. ~(i < x)
    BY <1>2, <1>3
  <2> QED
    BY <2>1
<1> QED
  BY <1>4

\* Induction, over a set of naturals.
LEMMA EveryNatural ==
  ASSUME NEW P \in SUBSET Nat, 0 \in P, \A n \in P : n + 1 \in P
  PROVE  Nat \subseteq P
<1>1. ASSUME Nat \ P # {} PROVE FALSE
  <2>1. PICK x \in Nat \ P : \A y \in Nat \ P : x <= y
    BY <1>1, LeastNatural
  <2>2. x # 0 /\ x - 1 \in Nat
    BY <2>1
  <2>3. x - 1 \in P
    BY <2>1, <2>2
  <2> QED
    BY <2>1, <2>3
<1> QED
  BY <1>1

\* The element a sum takes next, and one round of the sum.
Pick(T) == CHOOSE x \in T : TRUE
Round(f, T) == IF T = {} THEN 0 ELSE Size[Pick(T)] + f[T \ {Pick(T)}]
Sums(S) == CHOOSE f : f = [T \in SUBSET S |-> Round(f, T)]

LEMMA SumUnfolds == ASSUME NEW S PROVE SumSizes(S) = Sums(S)[S]
BY DEF SumSizes, MapThenSumSet, MapThenFoldSet, Sums, Round, Pick

\* Sets of episodes are finite.
LEMMA SomeEpisodes ==
  ASSUME NEW T \in SUBSET Episodes
  PROVE  IsFiniteSet(T) /\ Cardinality(T) \in Nat
<1>1. IsFiniteSet(Episodes)
  <2>1. N \in Int /\ 1 \in Int
    BY StoreAssumption
  <2> QED
    BY <2>1, FS_Interval DEF Episodes
<1>2. IsFiniteSet(T)
  BY <1>1, FS_Subset
<1> QED
  BY <1>2, FS_CardinalityType

\* What is left when an element is taken.
LEMMA OneLess ==
  ASSUME NEW T \in SUBSET Episodes, NEW x \in T
  PROVE  /\ T \ {x} \in SUBSET Episodes
         /\ Cardinality(T) \in Nat /\ Cardinality(T \ {x}) \in Nat
         /\ Cardinality(T \ {x}) = Cardinality(T) - 1
<1>1. IsFiniteSet(T) /\ Cardinality(T) \in Nat /\ Cardinality(T \ {x}) \in Nat
  BY SomeEpisodes
<1> QED
  BY <1>1, FS_RemoveElement

\* The first element to be taken is there.
LEMMA Picked ==
  ASSUME NEW T \in SUBSET Episodes, T # {}
  PROVE  Pick(T) \in T /\ Size[Pick(T)] \in Nat
BY StoreAssumption DEF Pick

\* The recursion has a solution.
LEMMA SumsExist ==
  ASSUME NEW S \in SUBSET Episodes
  PROVE  \E f \in [SUBSET S -> Nat] : f = [T \in SUBSET S |-> Round(f, T)]
<1> DEFINE Good(n, f) == \A T \in SUBSET S : Cardinality(T) <= n => f[T] = Round(f, T)
           P == {n \in Nat : \E f \in [SUBSET S -> Nat] : Good(n, f)}
<1>0. ASSUME NEW T \in SUBSET S
      PROVE  IsFiniteSet(T) /\ Cardinality(T) \in Nat /\ T \in SUBSET Episodes
  <2>1. T \in SUBSET Episodes
    OBVIOUS
  <2> QED
    BY <2>1, SomeEpisodes
<1>1. 0 \in P
  <2> DEFINE f == [T \in SUBSET S |-> 0]
  <2>1. ASSUME NEW T \in SUBSET S, Cardinality(T) <= 0 PROVE T = {}
    BY <1>0, <2>1, FS_EmptySet
  <2>2. \A T \in SUBSET S : Cardinality(T) <= 0 => f[T] = Round(f, T)
    BY <2>1 DEF Round
  <2>3. f \in [SUBSET S -> Nat]
    OBVIOUS
  <2> HIDE DEF f
  <2> QED
    BY <2>2, <2>3
<1>2. ASSUME NEW n \in P PROVE n + 1 \in P
  <2>1. PICK f \in [SUBSET S -> Nat] : Good(n, f)
    BY <1>2
  <2> DEFINE g == [T \in SUBSET S |-> Round(f, T)]
  <2>2. ASSUME NEW T \in SUBSET S PROVE Round(f, T) \in Nat
    <3>1. CASE T = {}
      BY <3>1 DEF Round
    <3>2. CASE T # {}
      <4>1. Pick(T) \in T /\ Size[Pick(T)] \in Nat /\ T \ {Pick(T)} \in SUBSET S
        BY <1>0, <3>2, Picked
      <4>2. f[T \ {Pick(T)}] \in Nat
        BY <4>1
      <4> QED
        BY <3>2, <4>1, <4>2 DEF Round
    <3> QED
      BY <3>1, <3>2
  <2>3. g \in [SUBSET S -> Nat]
    BY <2>2
  <2>4. ASSUME NEW T \in SUBSET S, Cardinality(T) <= n PROVE g[T] = f[T]
    BY <2>1, <2>4
  <2>5. ASSUME NEW T \in SUBSET S, Cardinality(T) <= n + 1 PROVE g[T] = Round(g, T)
    <3>1. CASE T = {}
      BY <3>1 DEF Round
    <3>2. CASE T # {}
      <4>1. Pick(T) \in T /\ T \ {Pick(T)} \in SUBSET S
        BY <1>0, <3>2, Picked
      <4>2. Cardinality(T \ {Pick(T)}) <= n
        BY <1>0, <4>1, <2>5, OneLess
      <4>3. g[T \ {Pick(T)}] = f[T \ {Pick(T)}]
        BY <4>1, <4>2, <2>4
      <4> QED
        BY <3>2, <4>3 DEF Round
    <3> QED
      BY <3>1, <3>2
  <2> HIDE DEF g
  <2> QED
    BY <2>3, <2>5
<1>3. Nat \subseteq P
  <2> P \in SUBSET Nat
    OBVIOUS
  <2> HIDE DEF P
  <2> QED
    BY <1>1, <1>2, EveryNatural
<1>4. Cardinality(S) \in P
  BY <1>0, <1>3
<1>5. PICK f \in [SUBSET S -> Nat] : Good(Cardinality(S), f)
  BY <1>4
<1>6. \A T \in SUBSET S : Cardinality(T) <= Cardinality(S)
  BY <1>0, FS_Subset
<1>7. \A T \in SUBSET S : f[T] = Round(f, T)
  BY <1>5, <1>6
<1>8. f = [T \in SUBSET S |-> Round(f, T)]
  BY <1>5, <1>7
<1> QED
  BY <1>8

\* The sums of the subsets of S.
LEMMA SumsDef ==
  ASSUME NEW S \in SUBSET Episodes
  PROVE  /\ Sums(S) \in [SUBSET S -> Nat]
         /\ \A T \in SUBSET S : Sums(S)[T] = Round(Sums(S), T)
<1> DEFINE f == Sums(S)
<1>1. \E h : h = [T \in SUBSET S |-> Round(h, T)]
  BY SumsExist
<1>2. f = [T \in SUBSET S |-> Round(f, T)]
  BY <1>1 DEF Sums
<1>3. PICK h \in [SUBSET S -> Nat] : h = [T \in SUBSET S |-> Round(h, T)]
  BY SumsExist
<1> HIDE DEF f
<1>4. \A T \in SUBSET S : f[T] = Round(f, T) /\ h[T] = Round(h, T)
  BY <1>2, <1>3
<1> DEFINE P == {n \in Nat : \A T \in SUBSET S : Cardinality(T) <= n => f[T] = h[T]}
<1>0. ASSUME NEW T \in SUBSET S
      PROVE  IsFiniteSet(T) /\ Cardinality(T) \in Nat /\ T \in SUBSET Episodes
  <2>1. T \in SUBSET Episodes
    OBVIOUS
  <2> QED
    BY <2>1, SomeEpisodes
<1>5. 0 \in P
  <2>1. ASSUME NEW T \in SUBSET S, Cardinality(T) <= 0 PROVE T = {}
    BY <1>0, <2>1, FS_EmptySet
  <2> QED
    BY <1>4, <2>1 DEF Round
<1>6. ASSUME NEW n \in P PROVE n + 1 \in P
  <2>1. ASSUME NEW T \in SUBSET S, Cardinality(T) <= n + 1, T # {} PROVE f[T] = h[T]
    <3>1. Pick(T) \in T /\ T \ {Pick(T)} \in SUBSET S
      BY <1>0, <2>1, Picked
    <3>2. Cardinality(T \ {Pick(T)}) <= n
      BY <1>0, <3>1, <2>1, OneLess
    <3>3. f[T \ {Pick(T)}] = h[T \ {Pick(T)}]
      BY <1>6, <3>1, <3>2
    <3> QED
      BY <1>4, <3>3 DEF Round
  <2>2. f[{}] = h[{}]
    BY <1>4 DEF Round
  <2>3. \A T \in SUBSET S : Cardinality(T) <= n + 1 => f[T] = h[T]
    BY <2>1, <2>2
  <2> QED
    BY <2>3
<1>7. Nat \subseteq P
  <2> P \in SUBSET Nat
    OBVIOUS
  <2> HIDE DEF P
  <2> QED
    BY <1>5, <1>6, EveryNatural
<1>8. \A T \in SUBSET S : f[T] = h[T]
  BY <1>0, <1>7
<1>9. f = [T \in SUBSET S |-> h[T]]
  <2>1. f = [T \in SUBSET S |-> f[T]]
    BY <1>2
  <2> QED
    BY <2>1, <1>8
<1> QED
  BY <1>3, <1>4, <1>9 DEF f

\* All sums agree with those of the subsets of Episodes.
LEMMA SumSizesDef ==
  ASSUME NEW S \in SUBSET Episodes
  PROVE  SumSizes(S) = Sums(Episodes)[S]
<1> DEFINE f == Sums(S)
           h == Sums(Episodes)
<1>1. \A T \in SUBSET S : f[T] = Round(f, T) /\ h[T] = Round(h, T)
  BY SumsDef
<1> HIDE DEF f, h
<1> DEFINE P == {n \in Nat : \A T \in SUBSET S : Cardinality(T) <= n => f[T] = h[T]}
<1>0. ASSUME NEW T \in SUBSET S
      PROVE  IsFiniteSet(T) /\ Cardinality(T) \in Nat /\ T \in SUBSET Episodes
  <2>1. T \in SUBSET Episodes
    OBVIOUS
  <2> QED
    BY <2>1, SomeEpisodes
<1>2. 0 \in P
  <2>1. ASSUME NEW T \in SUBSET S, Cardinality(T) <= 0 PROVE T = {}
    BY <1>0, <2>1, FS_EmptySet
  <2> QED
    BY <1>1, <2>1 DEF Round
<1>3. ASSUME NEW n \in P PROVE n + 1 \in P
  <2>1. ASSUME NEW T \in SUBSET S, Cardinality(T) <= n + 1, T # {} PROVE f[T] = h[T]
    <3>1. Pick(T) \in T /\ T \ {Pick(T)} \in SUBSET S
      BY <1>0, <2>1, Picked
    <3>2. Cardinality(T \ {Pick(T)}) <= n
      BY <1>0, <3>1, <2>1, OneLess
    <3>3. f[T \ {Pick(T)}] = h[T \ {Pick(T)}]
      BY <1>3, <3>1, <3>2
    <3> QED
      BY <1>1, <3>3 DEF Round
  <2>2. f[{}] = h[{}]
    BY <1>1 DEF Round
  <2>3. \A T \in SUBSET S : Cardinality(T) <= n + 1 => f[T] = h[T]
    BY <2>1, <2>2
  <2> QED
    BY <2>3
<1>4. Nat \subseteq P
  <2> P \in SUBSET Nat
    OBVIOUS
  <2> HIDE DEF P
  <2> QED
    BY <1>2, <1>3, EveryNatural
<1>5. f[S] = h[S]
  BY <1>0, <1>4
<1> QED
  BY <1>5, SumUnfolds DEF f, h

\* An element contributes its size, whichever was picked first.
LEMMA SumsSplit ==
  ASSUME NEW S \in SUBSET Episodes, NEW v \in S
  PROVE  Sums(Episodes)[S] = Size[v] + Sums(Episodes)[S \ {v}]
<1> DEFINE h == Sums(Episodes)
<1>1. h \in [SUBSET Episodes -> Nat] /\ \A T \in SUBSET Episodes : h[T] = Round(h, T)
  BY SumsDef
<1> HIDE DEF h
<1> DEFINE Splits(T) == \A x \in T : h[T] = Size[x] + h[T \ {x}]
           P == {n \in Nat : \A T \in SUBSET Episodes : Cardinality(T) <= n => Splits(T)}
<1>2. 0 \in P
  <2>1. ASSUME NEW T \in SUBSET Episodes, Cardinality(T) <= 0 PROVE T = {}
    BY SomeEpisodes, <2>1, FS_EmptySet
  <2> QED
    BY <2>1
<1>3. ASSUME NEW n \in P PROVE n + 1 \in P
  <2>1. ASSUME NEW T \in SUBSET Episodes, Cardinality(T) <= n + 1, NEW x \in T
        PROVE  h[T] = Size[x] + h[T \ {x}]
    <3> DEFINE y == Pick(T)
    <3>1. y \in T /\ h[T] = Size[y] + h[T \ {y}]
      BY <1>1, Picked DEF Round
    <3>2. CASE y = x
      BY <3>1, <3>2
    <3>3. CASE y # x
      <4> HIDE DEF y
      <4>1. /\ T \ {y} \in SUBSET Episodes /\ Cardinality(T \ {y}) <= n
            /\ T \ {x} \in SUBSET Episodes /\ Cardinality(T \ {x}) <= n
        BY <2>1, <3>1, OneLess
      <4>2. h[T \ {y}] = Size[x] + h[(T \ {y}) \ {x}]
        BY <1>3, <3>3, <4>1
      <4>3. h[T \ {x}] = Size[y] + h[(T \ {x}) \ {y}]
        BY <1>3, <3>1, <3>3, <4>1
      <4>4. (T \ {y}) \ {x} = (T \ {x}) \ {y} /\ (T \ {x}) \ {y} \in SUBSET Episodes
        OBVIOUS
      <4>5. PICK a \in Nat : a = h[(T \ {x}) \ {y}]
        BY <1>1, <4>4
      <4>6. h[T \ {y}] = Size[x] + a /\ h[T \ {x}] = Size[y] + a
        BY <4>2, <4>3, <4>4, <4>5
      <4>7. Size[x] \in Nat /\ Size[y] \in Nat
        BY <3>1, StoreAssumption
      <4> QED
        BY <3>1, <4>6, <4>7
    <3> QED
      BY <3>2, <3>3
  <2> QED
    BY <2>1
<1>4. Nat \subseteq P
  <2> P \in SUBSET Nat
    OBVIOUS
  <2> HIDE DEF P
  <2> QED
    BY <1>2, <1>3, EveryNatural
<1>5. Cardinality(S) \in Nat
  BY SomeEpisodes
<1>6. Cardinality(S) \in P
  BY <1>4, <1>5
<1>7. Splits(S)
  BY <1>5, <1>6
<1> QED
  BY <1>7 DEF h

\* SumSizes is the sum: nothing for no episode, and each episode once.
LEMMA SumOfSizes ==
  /\ SumSizes({}) = 0
  /\ \A S \in SUBSET Episodes : SumSizes(S) \in Nat
  /\ \A S \in SUBSET Episodes : \A v \in S : SumSizes(S) = SumSizes(S \ {v}) + Size[v]
<1> DEFINE h == Sums(Episodes)
<1>1. h \in [SUBSET Episodes -> Nat] /\ \A T \in SUBSET Episodes : h[T] = Round(h, T)
  BY SumsDef
<1>2. h[{}] = 0
  BY <1>1 DEF Round
<1>3. ASSUME NEW S \in SUBSET Episodes, NEW v \in S
      PROVE  SumSizes(S) = SumSizes(S \ {v}) + Size[v]
  <2>1. SumSizes(S) = h[S] /\ SumSizes(S \ {v}) = h[S \ {v}] /\ S \ {v} \in SUBSET Episodes
    BY SumSizesDef
  <2>2. h[S] = Size[v] + h[S \ {v}]
    BY SumsSplit
  <2>3. h[S \ {v}] \in Nat /\ Size[v] \in Nat
    BY <1>1, <2>1, StoreAssumption
  <2> HIDE DEF h
  <2> QED
    BY <2>1, <2>2, <2>3
<1>4. SumSizes({}) = h[{}] /\ \A S \in SUBSET Episodes : SumSizes(S) = h[S]
  BY SumSizesDef
<1> HIDE DEF h
<1> QED
  BY <1>1, <1>2, <1>3, <1>4

-----------------------------------------------------------------------------
(* The budget *)

\* The byte counts of the index and of its file are sums of sizes; a deletion
\* deletes an entry; "full" is only ever the result of a finished method.
Budget ==
  /\ total = SumSizes(index) /\ file.total = SumSizes(file.index)
  /\ pc = "remove" => op.ep \in index
  /\ pc # "idle" => res # "full"
  /\ StoredWithinLimits /\ FullMeansEmpty

\* cleanup_one finds a victim while there is an episode.
LEMMA VictimsExist ==
  ASSUME strategy \in CleanupStrategy, index \in SUBSET Episodes, index # {}
  PROVE  Victims # {}
<1> USE StoreAssumption
<1>1. ASSUME NEW S \in SUBSET Episodes, S # {} PROVE \E e \in S : \A f \in S : e <= f
  BY <1>1, LeastNatural DEF Episodes
<1>2. \E e \in index : \A f \in index : Quality[e] <= Quality[f]
  <2> DEFINE T == {Quality[e] : e \in index}
  <2>1. T \in SUBSET Nat /\ T # {}
    OBVIOUS
  <2>2. PICK m \in T : \A i \in T : m <= i
    BY <2>1, LeastNatural
  <2> QED
    BY <2>2
<1>3. \E e \in index : \A f \in index : Size[f] <= Size[e]
  <2> DEFINE B == SumSizes(index)
             T == {B - Size[e] : e \in index}
  <2>1. ASSUME NEW e \in index PROVE B - Size[e] \in Nat /\ Size[e] \in Nat
    <3>1. B = SumSizes(index \ {e}) + Size[e] /\ SumSizes(index \ {e}) \in Nat /\ Size[e] \in Nat
      BY SumOfSizes
    <3> QED
      BY <3>1
  <2>2. B \in Nat
    BY SumOfSizes
  <2> HIDE DEF B
  <2>3. T \in SUBSET Nat /\ T # {}
    BY <2>1
  <2>4. PICK m \in T : \A i \in T : m <= i
    BY <2>3, LeastNatural
  <2>5. PICK e \in index : m = B - Size[e]
    BY <2>4
  <2>6. ASSUME NEW f \in index PROVE Size[f] <= Size[e]
    <3>1. B - Size[e] <= B - Size[f]
      BY <2>4, <2>5
    <3> QED
      BY <3>1, <2>1, <2>2
  <2> QED
    BY <2>6
<1>4. CASE strategy = "OldestFirst"
  BY <1>1, <1>4 DEF Victims
<1>5. CASE strategy = "LargestFirst"
  BY <1>3, <1>5 DEF Victims
<1>6. CASE strategy = "LowestQualityFirst"
  BY <1>2, <1>6 DEF Victims
<1>7. CASE strategy = "UploadedFirst"
  BY <1>1, <1>7 DEF Victims
<1> QED
  BY <1>4, <1>5, <1>6, <1>7 DEF CleanupStrategy

\* What an entry that leaves or joins the index does to the sum.
LEMMA SumMoves ==
  ASSUME Shape, total = SumSizes(index)
  PROVE  /\ total \in Nat /\ index \in SUBSET Episodes
         /\ \A v \in index : total - Size[v] = SumSizes(index \ {v})
         /\ \A v \in Episodes \ index : total + Size[v] = SumSizes(index \cup {v})
<1>1. index \in SUBSET Episodes
  BY StoreAssumption DEF Shape, Episodes
<1>2. ASSUME NEW v \in index PROVE total - Size[v] = SumSizes(index \ {v})
  <2>1. total = SumSizes(index \ {v}) + Size[v] /\ SumSizes(index \ {v}) \in Nat
    BY <1>1, SumOfSizes
  <2>2. Size[v] \in Nat
    BY <1>1, StoreAssumption
  <2> QED
    BY <2>1, <2>2
<1>3. ASSUME NEW v \in Episodes \ index PROVE total + Size[v] = SumSizes(index \cup {v})
  <2> DEFINE S == index \cup {v}
  <2>1. S \in SUBSET Episodes /\ v \in S /\ S \ {v} = index
    BY <1>1
  <2> HIDE DEF S
  <2>2. SumSizes(S) = SumSizes(S \ {v}) + Size[v]
    BY <2>1, SumOfSizes
  <2> QED
    BY <2>1, <2>2 DEF S
<1> QED
  BY <1>1, <1>2, <1>3, SumOfSizes

\* The budget is kept by every step of the storage.
LEMMA BudgetStep == StoreInv /\ Budget /\ StoreNext => Budget'
<1> SUFFICES ASSUME StoreInv, Budget, StoreNext PROVE Budget'
  OBVIOUS
<1>a. /\ total \in Nat /\ index \in SUBSET Episodes
      /\ \A v \in index : total - Size[v] = SumSizes(index \ {v})
      /\ \A v \in Episodes \ index : total + Size[v] = SumSizes(index \cup {v})
  BY SumMoves DEF StoreInv, Budget
<1>b. SumSizes({}) = 0
  BY SumOfSizes
<1>c. Shape /\ Running
  BY DEF StoreInv
<1> USE DEF Budget, StoredWithinLimits, FullMeansEmpty, Running, Idle, NoOp, memVars, opVars
<1>1. CASE New
  BY <1>c, <1>1 DEF New
<1>2. CASE Crash
  BY <1>b, <1>c, <1>2 DEF Crash
<1>3. CASE Drop
  BY <1>b, <1>c, <1>3 DEF Drop, Fault, Snapshot, Torn
<1>4. CASE DiscardIndex
  BY <1>b, <1>c, <1>4 DEF DiscardIndex, Absent
<1>5. CASE Package
  BY <1>c, <1>5 DEF Package
<1>6. CASE Store
  BY <1>c, <1>6 DEF Store, Call
<1>7. CASE CleanupExpired
  BY <1>c, <1>7 DEF CleanupExpired, Call
<1>8. CASE RebuildIndex \/ RebuildFails
  BY <1>c, <1>8 DEF RebuildIndex, RebuildFails, Fault, Call
<1>9. CASE Flush
  BY <1>c, <1>9 DEF Flush, Call
<1>10. ASSUME NEW e \in Episodes, Delete(e) PROVE Budget'
  BY <1>c, <1>10 DEF Delete, Call
<1>11. ASSUME NEW e \in Episodes, MarkUploaded(e) PROVE Budget'
  BY <1>c, <1>11 DEF MarkUploaded, Call
<1>12. ASSUME NEW v \in Episodes, RemoveFiles(v) PROVE Budget'
  <2>1. v \in index
    BY <1>c, <1>12, VictimsIndexed DEF RemoveFiles, Shape
  <2>2. total' = SumSizes(index') /\ file' = file
    BY <1>a, <1>12, <2>1 DEF RemoveFiles
  <2> QED
    BY <1>c, <1>12, <2>2 DEF RemoveFiles
<1>13. ASSUME NEW v \in Episodes, RemoveFilesFails(v) PROVE Budget'
  <2>1. v \in index
    BY <1>c, <1>13, VictimsIndexed DEF RemoveFilesFails, Shape
  <2>2. total' = SumSizes(index') /\ file' = file
    BY <1>a, <1>13, <2>1 DEF RemoveFilesFails
  <2> QED
    BY <1>c, <1>13, <2>2 DEF RemoveFilesFails, Return
<1>14. CASE StorageFull
  <2>1. AutoCleanup => index = {}
    <3>1. AutoCleanup => Victims = {}
      BY <1>14 DEF StorageFull, ToDelete
    <3> QED
      BY <1>a, <1>c, <3>1, VictimsExist DEF Shape
  <2>2. op.kind = "store"
    BY <1>14 DEF StorageFull, OverLimit
  <2> QED
    BY <1>c, <1>14, <2>1, <2>2 DEF StorageFull, Return
<1>15. CASE Add
  <2>1. op.ep \in Episodes /\ op.ep \notin index /\ op.kind = "store"
    BY StoreAssumption, <1>c, <1>15 DEF Add, Shape, Episodes
  <2>2. total' = SumSizes(index') /\ file' = file
    BY <1>a, <1>15, <2>1 DEF Add
  <2>3. MaxBytes > 0 => total' <= MaxBytes
    <3>1. Size[op.ep] \in Nat /\ MaxBytes \in Nat
      BY StoreAssumption, <2>1
    <3> QED
      BY <1>a, <1>15, <2>1, <3>1 DEF Add, OverLimit, TooLarge
  <2>4. MaxEpisodes > 0 => Cardinality(index') <= MaxEpisodes
    <3>1. IsFiniteSet(index) /\ Cardinality(index) \in Nat
      BY <1>a, SomeEpisodes
    <3>2. index' = index \cup {op.ep} /\ (MaxEpisodes > 0 => ~(Cardinality(index) >= MaxEpisodes))
      BY <1>15, <2>1 DEF Add, OverLimit, TooMany
    <3>3. Cardinality(index') = Cardinality(index) + 1
      BY <2>1, <3>1, <3>2, FS_AddElement
    <3> QED
      BY <3>1, <3>2, <3>3, StoreAssumption
  <2>5. pc' = "truncate" /\ res' = res /\ pc # "idle"
    BY <1>15 DEF Add
  <2> QED
    BY <2>2, <2>3, <2>4, <2>5
<1>16. CASE ExpireDone
  BY <1>c, <1>16 DEF ExpireDone, Return
<1>17. CASE Truncate
  BY <1>b, <1>c, <1>17 DEF Truncate, Torn
<1>18. CASE Write
  <2>1. SaveEnd
    BY <1>18, SaveEnds
  <2>2. /\ pc' \in {"idle", "limits"} /\ res' # "full" /\ op'.kind \in {op.kind, "none"}
        /\ op'.kind = "added" => op' = op
    BY <1>18, <2>1 DEF SaveEnd, Write
  <2> QED
    BY <1>18, <2>2 DEF Write, Snapshot
<1>19. CASE SaveFails
  BY <1>c, <1>19 DEF SaveFails, Return
<1>20. CASE WriteLost
  <2>1. SaveEnd
    BY <1>20, SaveEnds
  <2>2. /\ pc' \in {"idle", "limits"} /\ res' # "full" /\ op'.kind \in {op.kind, "none"}
        /\ op'.kind = "added" => op' = op
    BY <1>20, <2>1 DEF SaveEnd, WriteLost
  <2> QED
    BY <1>20, <2>2 DEF WriteLost
<1>21. CASE ClearOp
  BY <1>c, <1>21 DEF ClearOp
<1> HIDE DEF Budget, StoredWithinLimits, FullMeansEmpty, Running, Idle, NoOp, memVars, opVars
<1> QED
  BY <1>1, <1>2, <1>3, <1>4, <1>5, <1>6, <1>7, <1>8, <1>9, <1>10, <1>11,
     <1>12, <1>13, <1>14, <1>15, <1>16, <1>17, <1>18, <1>19, <1>20, <1>21 DEF StoreNext, StoreSteps

-----------------------------------------------------------------------------
(* The plugin *)

\* Every step of the plugin is a step of the storage or leaves it alone.
LEMMA StorePart == [Next]_allVars => StoreNext \/ UNCHANGED vars
<1> SUFFICES ASSUME [Next]_allVars PROVE StoreNext \/ UNCHANGED vars
  OBVIOUS
<1>1. ASSUME NEW start \in BOOLEAN, Initialize(start) PROVE StoreNext
  BY <1>1 DEF Initialize, StoreNext
<1>2. CASE Start \/ StartEpisode \/ UploadCall
  BY <1>2 DEF Start, StartEpisode, UploadCall
<1>3. CASE Stop \/ StopAfterFinish
  BY <1>3 DEF Stop, StopAfterFinish, Stopped, StoreNext
<1>4. CASE PluginCrash \/ PluginDrop \/ OperatorDiscards
  BY <1>4 DEF PluginCrash, PluginDrop, OperatorDiscards, StoreNext
<1>5. ASSUME NEW stop \in BOOLEAN, FinishBegin(stop) PROVE StoreNext \/ UNCHANGED vars
  BY <1>5 DEF FinishBegin, StoreNext
<1>6. CASE FinishStore
  BY <1>6 DEF FinishStore, StoreNext
<1>7. CASE FinishFails \/ FinishOk
  BY <1>7 DEF FinishFails, FinishOk, ClearOp, StoreNext
<1>8. CASE StoreCall
  BY <1>8 DEF StoreCall, StoreNext
<1>9. CASE StoreStep
  BY <1>9 DEF StoreStep, StoreNext
<1>10. CASE UNCHANGED allVars
  BY <1>10 DEF allVars
<1> QED
  BY <1>1, <1>2, <1>3, <1>4, <1>5, <1>6, <1>7, <1>8, <1>9, <1>10 DEF Next

\* The storage starts empty.
LEMMA StoreInit == PluginInit => StoreInv
<1> SUFFICES ASSUME PluginInit PROVE StoreInv
  OBVIOUS
<1> USE StoreAssumption DEF PluginInit, Init, NoOp, Absent
<1>1. Shape
  <2>1. strategy \in CleanupStrategy /\ op \in [kind : Ops \cup {"none", "added"}, ep : 0..N]
    BY DEF Ops
  <2>2. open \in BOOLEAN /\ index_dirty \in BOOLEAN
    BY Zenon
  <2>3. packaged \in 0..N /\ faults \in Nat
    OBVIOUS
  <2> QED
    BY <2>1, <2>2, <2>3 DEF Shape
<1>2. Running /\ Saved /\ Marks
  BY DEF Running, Saved, Marks
<1>3. Stale
  <2>1. index \ disk = {} /\ file.index \ disk = {} /\ faults = 0
    OBVIOUS
  <2> QED
    BY <2>1, FS_EmptySet DEF Stale
<1> QED
  BY <1>1, <1>2, <1>3 DEF StoreInv

\* The storage's invariant is kept by every step of the plugin.
LEMMA StoreStepInv == StoreInv /\ [Next]_allVars => StoreInv'
<1> SUFFICES ASSUME StoreInv, [Next]_allVars PROVE StoreInv'
  OBVIOUS
<1>1. CASE StoreNext
  BY <1>1, ShapeStep, RunningStep, SavedStep, MarksStep, StaleStep DEF StoreInv
<1>2. CASE UNCHANGED vars
  BY <1>2 DEF StoreInv, Shape, Running, Saved, Marks, Stale, vars, memVars, opVars
<1> QED
  BY <1>1, <1>2, StorePart

\* finish_episode runs, or has failed, while the state is Packaging, and a stop that waits
\* for it has no active episode left.
PlugInv ==
  /\ open \in BOOLEAN /\ running \in BOOLEAN /\ active \in BOOLEAN /\ stopping \in BOOLEAN
  /\ active <=> state = "Recording"
  /\ running <=> state \in {"Running", "Recording", "Packaging"}
  /\ running => open
  /\ fin # "none" <=> state = "Packaging"
  /\ stopping => ~active

\* The steps of the storage's methods leave open alone.
LEMMA OpenKept == StoreStep \/ StoreCall => open' = open
<1>1. StoreCall => open' = open
  BY DEF StoreCall, Delete, MarkUploaded, CleanupExpired, RebuildIndex, RebuildFails
<1>2. StoreSteps => open' = open
  BY DEF StoreSteps, RemoveFiles, RemoveFilesFails, StorageFull, Add, ExpireDone, Truncate,
         Write, SaveFails, WriteLost
<1> QED
  BY <1>1, <1>2 DEF StoreStep

\* The plugin's invariant is kept by every step.
LEMMA PlugStep == PlugInv /\ [Next]_allVars => PlugInv'
<1> SUFFICES ASSUME PlugInv, [Next]_allVars PROVE PlugInv'
  OBVIOUS
<1> USE DEF PlugInv, Free, plugVars
<1>1. ASSUME NEW start \in BOOLEAN, Initialize(start) PROVE PlugInv'
  BY <1>1 DEF Initialize, New
<1>2. CASE Start
  BY <1>2 DEF Start, vars
<1>3. CASE Stop
  BY <1>3 DEF Stop, Stopped, Flush, vars
<1>4. CASE StartEpisode
  BY <1>4 DEF StartEpisode, vars
<1>5. CASE PluginCrash
  BY <1>5 DEF PluginCrash, Crash, Gone
<1>6. CASE PluginDrop
  BY <1>6 DEF PluginDrop, Drop, Gone
<1>7. CASE OperatorDiscards
  BY <1>7 DEF OperatorDiscards, DiscardIndex
<1>8. ASSUME NEW stop \in BOOLEAN, FinishBegin(stop) PROVE PlugInv'
  BY <1>8 DEF FinishBegin, Package, vars
<1>9. CASE FinishStore
  BY <1>9 DEF FinishStore, Store
<1>10. CASE FinishFails
  BY <1>10 DEF FinishFails
<1>11. CASE FinishOk
  BY <1>11 DEF FinishOk
<1>12. CASE StopAfterFinish
  BY <1>12 DEF StopAfterFinish, Stopped, Flush, vars
<1>13. CASE StoreCall
  BY <1>13, OpenKept DEF StoreCall
<1>14. CASE StoreStep
  BY <1>14, OpenKept DEF StoreStep
<1>15. CASE UploadCall
  BY <1>15 DEF UploadCall, vars
<1>16. CASE UNCHANGED allVars
  BY <1>16 DEF allVars, vars
<1> HIDE DEF PlugInv, Free, plugVars
<1> QED
  BY <1>1, <1>2, <1>3, <1>4, <1>5, <1>6, <1>7, <1>8, <1>9, <1>10, <1>11, <1>12,
     <1>13, <1>14, <1>15, <1>16 DEF Next

-----------------------------------------------------------------------------
(* The upload queue *)

Jobs == [ep : Nat, priority : Int]

\* What QueueInOrder says, of any sequence of jobs.
InOrder(q) ==
  \A i, j \in 1..Len(q) : i < j => q[i].ep # q[j].ep /\ q[i].priority >= q[j].priority

\* A job of the queue.
LEMMA JobAt ==
  ASSUME NEW q \in Seq(Jobs), NEW i \in 1..Len(q)
  PROVE  q[i] \in Jobs /\ q[i].priority \in Int /\ Len(q) \in Nat /\ DOMAIN q = 1..Len(q)
<1>1. q[i] \in Jobs /\ Len(q) \in Nat /\ DOMAIN q = 1..Len(q)
  OBVIOUS
<1> QED
  BY <1>1 DEF Jobs

\* One round of retain.
KeepOne(q, e, f, i) ==
  IF i = 0 THEN << >> ELSE IF q[i].ep # e THEN Append(f[i - 1], q[i]) ELSE f[i - 1]
Kept(q, e) == CHOOSE f : f = [i \in 0..Len(q) |-> KeepOne(q, e, f, i)]

LEMMA RetainedUnfolds ==
  ASSUME NEW q, NEW e PROVE Retained(q, e) = Kept(q, e)[Len(q)]
BY DEF Retained, Kept, KeepOne

\* The recursion has a solution.
LEMMA KeptExists ==
  ASSUME NEW q \in Seq(Jobs), NEW e
  PROVE  \E f \in [0..Len(q) -> Seq(Jobs)] : f = [i \in 0..Len(q) |-> KeepOne(q, e, f, i)]
<1> DEFINE D == 0..Len(q)
           Good(n, f) == \A i \in D : i <= n => f[i] = KeepOne(q, e, f, i)
           P == {n \in Nat : \E f \in [D -> Seq(Jobs)] : Good(n, f)}
<1>1. 0 \in P
  <2> DEFINE f == [i \in D |-> << >>]
  <2>1. f \in [D -> Seq(Jobs)]
    OBVIOUS
  <2>2. Good(0, f)
    BY DEF KeepOne
  <2> HIDE DEF f
  <2> QED
    BY <2>1, <2>2
<1>2. ASSUME NEW n \in P PROVE n + 1 \in P
  <2>1. PICK f \in [D -> Seq(Jobs)] : Good(n, f)
    BY <1>2
  <2> DEFINE g == [i \in D |-> KeepOne(q, e, f, i)]
  <2>2. ASSUME NEW i \in D PROVE KeepOne(q, e, f, i) \in Seq(Jobs)
    <3>1. CASE i = 0
      BY <3>1 DEF KeepOne
    <3>2. CASE i # 0
      <4>1. i \in 1..Len(q) /\ i - 1 \in D
        BY <3>2
      <4>2. q[i] \in Jobs
        BY <4>1, JobAt
      <4>3. f[i - 1] \in Seq(Jobs)
        BY <4>1
      <4>4. Append(f[i - 1], q[i]) \in Seq(Jobs)
        BY <4>2, <4>3
      <4> QED
        BY <3>2, <4>3, <4>4 DEF KeepOne
    <3> QED
      BY <3>1, <3>2
  <2>3. g \in [D -> Seq(Jobs)]
    BY <2>2
  <2>4. ASSUME NEW i \in D, i <= n PROVE g[i] = f[i]
    BY <2>1, <2>4
  <2>5. ASSUME NEW i \in D, i <= n + 1 PROVE g[i] = KeepOne(q, e, g, i)
    <3>1. CASE i = 0
      BY <3>1 DEF KeepOne
    <3>2. CASE i # 0
      <4>1. i - 1 \in D /\ i - 1 <= n
        BY <3>2, <2>5
      <4>2. g[i - 1] = f[i - 1]
        BY <4>1, <2>4
      <4> QED
        BY <3>2, <4>2 DEF KeepOne
    <3> QED
      BY <3>1, <3>2
  <2> HIDE DEF g
  <2> QED
    BY <2>3, <2>5
<1>3. Nat \subseteq P
  <2> P \in SUBSET Nat
    OBVIOUS
  <2> HIDE DEF P
  <2> QED
    BY <1>1, <1>2, EveryNatural
<1>4. PICK f \in [D -> Seq(Jobs)] : Good(Len(q), f)
  BY <1>3
<1>5. f = [i \in D |-> KeepOne(q, e, f, i)]
  BY <1>4
<1> QED
  BY <1>5

\* The jobs of the other episodes stay in order.
LEMMA RetainedInOrder ==
  ASSUME NEW q \in Seq(Jobs), NEW e, InOrder(q)
  PROVE  Retained(q, e) \in Seq(Jobs) /\ InOrder(Retained(q, e))
<1> DEFINE f == Kept(q, e)
<1>1. \E h : h = [i \in 0..Len(q) |-> KeepOne(q, e, h, i)]
  BY KeptExists
<1>2. f = [i \in 0..Len(q) |-> KeepOne(q, e, f, i)]
  BY <1>1 DEF Kept
<1> HIDE DEF f
<1>3. \A i \in 0..Len(q) : f[i] = KeepOne(q, e, f, i)
  BY <1>2
<1> DEFINE Right(n) == /\ f[n] \in Seq(Jobs) /\ InOrder(f[n])
                       /\ \A k \in 1..Len(f[n]) : \E j \in 1..n : f[n][k] = q[j]
           P == {n \in Nat : n <= Len(q) => Right(n)}
<1>4. 0 \in P
  <2>1. f[0] = << >>
    BY <1>3 DEF KeepOne
  <2>2. InOrder(<< >>) /\ << >> \in Seq(Jobs) /\ Len(<< >>) = 0
    BY DEF InOrder
  <2>3. Right(0)
    BY <2>1, <2>2
  <2> QED
    BY <2>3
<1>5. ASSUME NEW n \in P, n + 1 <= Len(q) PROVE Right(n + 1)
  <2>1. Right(n) /\ n + 1 \in 1..Len(q) /\ n \in Nat
    BY <1>5
  <2>2. PICK s \in Seq(Jobs) : s = f[n]
    BY <2>1
  <2>3. InOrder(s) /\ \A k \in 1..Len(s) : \E j \in 1..n : s[k] = q[j]
    BY <2>1, <2>2
  <2>4. CASE q[n + 1].ep = e
    <3>1. f[n + 1] = s
      BY <1>3, <2>1, <2>2, <2>4 DEF KeepOne
    <3> QED
      BY <2>1, <2>2, <2>3, <3>1
  <2>5. CASE q[n + 1].ep # e
    <3>0. n + 1 \in 0..Len(q) /\ n + 1 # 0 /\ (n + 1) - 1 = n
      BY <2>1
    <3>1. f[n + 1] = Append(s, q[n + 1])
      <4>1. f[n + 1] = KeepOne(q, e, f, n + 1)
        BY <1>3, <3>0
      <4> QED
        BY <4>1, <2>2, <2>5, <3>0 DEF KeepOne
    <3>2. PICK x \in Jobs : x = q[n + 1]
      BY <2>1
    <3> DEFINE t == Append(s, x)
    <3>3. /\ t \in Seq(Jobs) /\ Len(t) = Len(s) + 1 /\ t[Len(s) + 1] = x
          /\ \A k \in 1..Len(s) : t[k] = s[k]
      OBVIOUS
    <3> HIDE DEF t
    <3>4. ASSUME NEW k \in 1..Len(t) PROVE \E j \in 1..(n + 1) : t[k] = q[j]
      <4>1. CASE k \in 1..Len(s)
        <5>1. PICK j \in 1..n : s[k] = q[j]
          BY <4>1, <2>3
        <5>2. j \in 1..(n + 1) /\ t[k] = q[j]
          BY <5>1, <4>1, <3>3, <2>1
        <5> QED
          BY <5>2
      <4>2. CASE k = Len(s) + 1
        BY <4>2, <2>1, <3>2, <3>3
      <4>3. k \in 1..(Len(s) + 1) /\ Len(s) \in Nat
        BY <3>3
      <4> QED
        BY <4>1, <4>2, <4>3
    <3>5. ASSUME NEW i \in 1..Len(t), NEW k \in 1..Len(t), i < k
          PROVE  t[i].ep # t[k].ep /\ t[i].priority >= t[k].priority
      <4>0. Len(s) \in Nat /\ i \in 1..(Len(s) + 1) /\ k \in 1..(Len(s) + 1)
        BY <3>3
      <4>1. CASE k <= Len(s)
        <5>1. i \in 1..Len(s) /\ k \in 1..Len(s)
          BY <3>5, <4>0, <4>1
        <5>2. t[i] = s[i] /\ t[k] = s[k]
          BY <3>3, <5>1
        <5> QED
          BY <2>3, <3>5, <5>1, <5>2 DEF InOrder
      <4>2. CASE k = Len(s) + 1
        <5>1. i \in 1..Len(s) /\ t[i] = s[i] /\ t[k] = q[n + 1]
          BY <3>2, <3>3, <3>5, <4>2
        <5>2. PICK j \in 1..n : s[i] = q[j]
          BY <2>3, <5>1
        <5>3. j \in 1..Len(q) /\ n + 1 \in 1..Len(q) /\ j < n + 1
          BY <2>1
        <5> QED
          BY <5>1, <5>2, <5>3 DEF InOrder
      <4> QED
        BY <4>0, <4>1, <4>2
    <3>6. InOrder(t)
      BY <3>5 DEF InOrder
    <3> QED
      BY <3>1, <3>2, <3>3, <3>4, <3>6 DEF t
  <2> QED
    BY <2>4, <2>5
<1>6. ASSUME NEW n \in P PROVE n + 1 \in P
  <2>1. n + 1 <= Len(q) => Right(n + 1)
    BY <1>5
  <2>2. n + 1 \in Nat
    OBVIOUS
  <2> QED
    BY <2>1, <2>2
<1>7. Nat \subseteq P
  <2> P \in SUBSET Nat
    OBVIOUS
  <2> HIDE DEF P
  <2> QED
    BY <1>4, <1>6, EveryNatural
<1>8. Right(Len(q))
  BY <1>7
<1> QED
  BY <1>8, RetainedUnfolds DEF f

\* Without its last job a queue is in order.
LEMMA FrontInOrder ==
  ASSUME NEW q \in Seq(Jobs), q # << >>, InOrder(q)
  PROVE  Front(q) \in Seq(Jobs) /\ InOrder(Front(q))
BY DEF Front, InOrder

\* The jobs that go before a new one are the first ones.
LEMMA AheadIsPrefix ==
  ASSUME NEW q \in Seq(Jobs), InOrder(q), NEW p \in Int
  PROVE  LET ahead == {i \in DOMAIN q : q[i].priority >= p}
             c == Cardinality(ahead)
         IN  c \in 0..Len(q) /\ ahead = 1..c
<1> DEFINE ahead == {i \in DOMAIN q : q[i].priority >= p}
           T == {i \in 1..(Len(q) + 1) : i \notin ahead}
<1>1. T \in SUBSET Nat /\ Len(q) + 1 \in T
  OBVIOUS
<1>2. PICK m \in T : \A i \in T : m <= i
  BY <1>1, LeastNatural
<1>3. m \in 1..(Len(q) + 1) /\ m \notin ahead
  BY <1>2
<1>4. ASSUME NEW i \in 1..(m - 1) PROVE i \in ahead
  BY <1>2, <1>3
<1>5. ASSUME NEW i \in ahead PROVE i \in 1..(m - 1)
  <2>0. i \in 1..Len(q) /\ q[i].priority >= p
    OBVIOUS
  <2>1. i \in 1..Len(q) /\ q[i].priority >= p /\ q[i].priority \in Int
    BY <2>0, JobAt
  <2>2. CASE i > m
    <3>0. m \in 1..Len(q)
      BY <1>3, <2>1, <2>2
    <3>1. m \in 1..Len(q) /\ q[m].priority >= q[i].priority /\ q[m].priority \in Int
      BY <3>0, <2>1, <2>2, JobAt DEF InOrder
    <3>2. q[m].priority >= p
      BY <2>1, <3>1
    <3> QED
      BY <1>3, <3>0, <3>2
  <2>3. i # m
    BY <1>3
  <2> QED
    BY <1>3, <2>1, <2>2, <2>3
<1>6. ahead = 1..(m - 1)
  BY <1>4, <1>5
<1>7. Cardinality(1..(m - 1)) = m - 1
  <2>1. 1 \in Int /\ m - 1 \in Int /\ m - 1 >= 0
    BY <1>3
  <2> QED
    BY <2>1, FS_Interval
<1> HIDE DEF ahead, T
<1>8. Cardinality(ahead) = m - 1 /\ m - 1 \in 0..Len(q)
  BY <1>3, <1>6, <1>7
<1> QED
  BY <1>6, <1>8 DEF ahead

\* One sequence of jobs after another.
LEMMA Joined ==
  ASSUME NEW a \in Seq(Jobs), NEW b \in Seq(Jobs)
  PROVE  /\ a \o b \in Seq(Jobs) /\ Len(a \o b) = Len(a) + Len(b)
         /\ \A i \in 1..Len(a) : (a \o b)[i] = a[i]
         /\ \A i \in (Len(a) + 1)..(Len(a) + Len(b)) : (a \o b)[i] = b[i - Len(a)]
OBVIOUS

\* enqueue keeps the queue in order.
LEMMA PushedInOrder ==
  ASSUME NEW q \in Seq(Jobs), InOrder(q), NEW job \in Jobs
  PROVE  Pushed(q, job) \in Seq(Jobs) /\ InOrder(Pushed(q, job))
<1> DEFINE ahead == {i \in DOMAIN q : q[i].priority >= job.priority}
           c == Cardinality(ahead)
<1>1. CASE \E i \in DOMAIN q : q[i].ep = job.ep
  BY <1>1 DEF Pushed
<1>2. CASE ~ \E i \in DOMAIN q : q[i].ep = job.ep
  <2>1. c \in 0..Len(q) /\ ahead = 1..c
    <3>1. job.priority \in Int
      BY DEF Jobs
    <3> QED
      BY <3>1, AheadIsPrefix
  <2>2. Pushed(q, job) = InsertAt(q, c + 1, job)
    BY <1>2 DEF Pushed
  <2>3. /\ \A i \in 1..c : q[i].priority >= job.priority
        /\ \A i \in (c + 1)..Len(q) : job.priority >= q[i].priority
        /\ \A i \in 1..Len(q) : q[i].ep # job.ep
    <3>1. ASSUME NEW i \in (c + 1)..Len(q) PROVE job.priority >= q[i].priority
      <4>0. c \in Nat /\ i \in 1..Len(q) /\ i > c
        BY <2>1
      <4>1. i \in DOMAIN q /\ i \notin ahead
        <5> HIDE DEF ahead, c
        <5>1. i \notin 1..c
          BY <4>0
        <5> QED
          BY <4>0, <5>1, <2>1
      <4>2. q[i].priority \in Int /\ job.priority \in Int
        BY <4>0, JobAt DEF Jobs
      <4>3. ~(q[i].priority >= job.priority)
        BY <4>1
      <4> QED
        BY <4>2, <4>3
    <3> QED
      BY <1>2, <2>1, <3>1
  <2> HIDE DEF c, ahead
  <2> DEFINE t == InsertAt(q, c + 1, job)
  <2>4. /\ t \in Seq(Jobs) /\ Len(t) = Len(q) + 1
        /\ \A i \in 1..c : t[i] = q[i]
        /\ t[c + 1] = job
        /\ \A i \in (c + 2)..(Len(q) + 1) : t[i] = q[i - 1]
    <3> DEFINE a == SubSeq(q, 1, c)
               b == SubSeq(q, c + 1, Len(q))
               one == <<job>>
    <3>0. c \in Nat /\ Len(q) \in Nat /\ c <= Len(q)
      BY <2>1
    <3>1. a \in Seq(Jobs) /\ Len(a) = c /\ \A i \in 1..c : a[i] = q[i]
      BY <3>0
    <3>2. /\ b \in Seq(Jobs) /\ Len(b) = Len(q) - c
          /\ \A i \in 1..(Len(q) - c) : b[i] = q[c + i]
      BY <3>0
    <3>3. one \in Seq(Jobs) /\ Len(one) = 1 /\ one[1] = job
      OBVIOUS
    <3>4. t = (a \o one) \o b
      <4>1. (c + 1) - 1 = c
        BY <3>0
      <4> QED
        BY <4>1 DEF InsertAt
    <3> HIDE DEF a, b, one, t
    <3> DEFINE d == a \o one
    <3>5. /\ d \in Seq(Jobs) /\ Len(d) = c + 1 /\ d[c + 1] = job
          /\ \A i \in 1..c : d[i] = q[i]
      <4>1. /\ d \in Seq(Jobs) /\ Len(d) = Len(a) + Len(one)
            /\ \A i \in 1..Len(a) : d[i] = a[i]
            /\ \A i \in (Len(a) + 1)..(Len(a) + Len(one)) : d[i] = one[i - Len(a)]
        BY <3>1, <3>3, Joined
      <4> HIDE DEF d
      <4>2. /\ d \in Seq(Jobs) /\ Len(d) = c + 1 /\ \A i \in 1..c : d[i] = q[i]
            /\ d[c + 1] = one[(c + 1) - c]
        BY <4>1, <3>0, <3>1, <3>3
      <4>3. (c + 1) - c = 1
        BY <3>0
      <4> QED
        BY <3>3, <4>2, <4>3
    <3> HIDE DEF d
    <3>6. /\ t \in Seq(Jobs) /\ Len(t) = Len(q) + 1
          /\ \A i \in 1..(c + 1) : t[i] = d[i]
          /\ \A i \in (c + 2)..(Len(q) + 1) : t[i] = b[i - (c + 1)]
      <4>1. t = d \o b
        BY <3>4 DEF d
      <4>2. /\ t \in Seq(Jobs) /\ Len(t) = Len(d) + Len(b)
            /\ \A i \in 1..Len(d) : t[i] = d[i]
            /\ \A i \in (Len(d) + 1)..(Len(d) + Len(b)) : t[i] = b[i - Len(d)]
        BY <3>2, <3>5, <4>1, Joined
      <4>3. Len(d) = c + 1 /\ Len(d) + Len(b) = Len(q) + 1 /\ Len(d) + 1 = c + 2
        BY <3>0, <3>2, <3>5
      <4> QED
        BY <4>2, <4>3
    <3>7. ASSUME NEW i \in (c + 2)..(Len(q) + 1) PROVE t[i] = q[i - 1]
      <4>1. i - (c + 1) \in 1..(Len(q) - c) /\ c + (i - (c + 1)) = i - 1
        BY <3>0
      <4> QED
        BY <3>2, <3>6, <4>1
    <3> QED
      BY <3>0, <3>5, <3>6, <3>7
  <2> HIDE DEF t
  <2>5. ASSUME NEW i \in 1..Len(t), NEW j \in 1..Len(t), i < j
        PROVE  t[i].ep # t[j].ep /\ t[i].priority >= t[j].priority
    <3>1. CASE i <= c /\ j <= c
      BY <2>1, <2>4, <2>5, <3>1 DEF InOrder
    <3>2. CASE i <= c /\ j = c + 1
      BY <2>1, <2>3, <2>4, <2>5, <3>2
    <3>3. CASE i <= c /\ j > c + 1
      <4>1. t[i] = q[i] /\ t[j] = q[j - 1] /\ i < j - 1 /\ i \in 1..Len(q) /\ j - 1 \in 1..Len(q)
        BY <2>1, <2>4, <2>5, <3>3
      <4> QED
        BY <4>1 DEF InOrder
    <3>4. CASE i = c + 1
      <4>1. t[i] = job /\ t[j] = q[j - 1] /\ j - 1 \in (c + 1)..Len(q) /\ j - 1 \in 1..Len(q)
        BY <2>1, <2>4, <2>5, <3>4
      <4> QED
        BY <2>3, <4>1
    <3>5. CASE i > c + 1
      <4>1. /\ t[i] = q[i - 1] /\ t[j] = q[j - 1] /\ i - 1 < j - 1
            /\ i - 1 \in 1..Len(q) /\ j - 1 \in 1..Len(q)
        BY <2>1, <2>4, <2>5, <3>5
      <4> QED
        BY <4>1 DEF InOrder
    <3> QED
      BY <2>1, <2>4, <2>5, <3>1, <3>2, <3>3, <3>4, <3>5
  <2>6. InOrder(t)
    BY <2>5 DEF InOrder
  <2> QED
    BY <2>2, <2>4, <2>6 DEF t
<1> QED
  BY <1>1, <1>2

\* The queue is a sequence of jobs, in order.
QueueInv == queue \in Seq(Jobs) /\ InOrder(queue)

\* process_next leaves what it does not take in order.
LEMMA ProcessKeeps ==
  ASSUME NEW q \in Seq(Jobs), InOrder(q), NEW exists, Process(q, exists)
  PROVE  QueueInv'
BY FrontInOrder DEF Process, QueueInv

\* upload_episode queues the episode and processes one job.
LEMMA UploadKeeps ==
  ASSUME QueueInv, NEW e \in Nat, NEW exists, UploadEpisode(e, exists)
  PROVE  QueueInv'
<1>1. CASE e \notin exists
  BY <1>1 DEF UploadEpisode, upVars, QueueInv
<1>2. CASE e \in exists
  <2>1. Job(e, 0) \in Jobs
    BY DEF Job, Jobs
  <2>2. Pushed(queue, Job(e, 0)) \in Seq(Jobs) /\ InOrder(Pushed(queue, Job(e, 0)))
    BY <2>1, PushedInOrder DEF QueueInv
  <2>3. Process(Pushed(queue, Job(e, 0)), exists)
    BY <1>2 DEF UploadEpisode
  <2> QED
    BY <2>2, <2>3, ProcessKeeps
<1> QED
  BY <1>1, <1>2

\* Every step of the plugin keeps the queue in order.
LEMMA QueueStep == StoreInv /\ QueueInv /\ [Next]_allVars => QueueInv'
<1> SUFFICES ASSUME StoreInv, QueueInv, [Next]_allVars PROVE QueueInv'
  OBVIOUS
<1>0. N \in Nat /\ op.ep \in Nat /\ index \subseteq Nat /\ Episodes \subseteq Nat
  BY StoreAssumption DEF StoreInv, Shape, Episodes
<1>1. ASSUME UNCHANGED upVars PROVE QueueInv'
  BY <1>1 DEF upVars, QueueInv
<1>2. ASSUME Gone PROVE QueueInv'
  BY <1>2 DEF Gone, QueueInv, InOrder
<1>3. CASE FinishOk
  <2>1. CASE AutoUpload
    BY <1>0, <1>3, <2>1, UploadKeeps DEF FinishOk
  <2>2. CASE ~AutoUpload
    BY <1>1, <1>3, <2>2 DEF FinishOk
  <2> QED
    BY <2>1, <2>2
<1>4. CASE UploadCall
  <2>1. ASSUME NEW e \in index, NEW p \in Priorities, Enqueue(e, p) PROVE QueueInv'
    <3>1. Job(e, p) \in Jobs
      BY <1>0, UploadAssumption DEF Job, Jobs
    <3> QED
      BY <2>1, <3>1, PushedInOrder DEF Enqueue, QueueInv
  <2>2. CASE ProcessNext(disk)
    BY <2>2, ProcessKeeps DEF ProcessNext, QueueInv
  <2>3. CASE CancelAll
    BY <2>3 DEF CancelAll, QueueInv, InOrder
  <2>4. ASSUME NEW e \in Episodes, Cancel(e) PROVE QueueInv'
    BY <2>4, RetainedInOrder DEF Cancel, QueueInv
  <2> QED
    BY <1>4, <2>1, <2>2, <2>3, <2>4 DEF UploadCall
<1>5. ASSUME NEW start \in BOOLEAN, Initialize(start) PROVE QueueInv'
  BY <1>1, <1>5 DEF Initialize
<1>6. CASE Start \/ Stop \/ StartEpisode \/ OperatorDiscards
  BY <1>1, <1>6 DEF Start, Stop, Stopped, StartEpisode, OperatorDiscards
<1>7. CASE PluginCrash \/ PluginDrop
  BY <1>2, <1>7 DEF PluginCrash, PluginDrop
<1>8. ASSUME NEW stop \in BOOLEAN, FinishBegin(stop) PROVE QueueInv'
  BY <1>1, <1>8 DEF FinishBegin
<1>9. CASE FinishStore \/ FinishFails \/ StopAfterFinish \/ StoreCall \/ StoreStep
  BY <1>1, <1>9 DEF FinishStore, FinishFails, StopAfterFinish, Stopped, StoreCall, StoreStep
<1>10. CASE UNCHANGED allVars
  BY <1>1, <1>10 DEF allVars
<1> QED
  BY <1>3, <1>4, <1>5, <1>6, <1>7, <1>8, <1>9, <1>10 DEF Next

-----------------------------------------------------------------------------
(* Theorems *)

\* The storage's inductive invariant holds throughout.
LEMMA StoreInvariant == Spec => []StoreInv
BY StoreInit, StoreStepInv, PTL DEF Spec

\* A crash or a failed file operation costs at most one entry without a
\* directory, for any number of episodes and faults (delete_episode saves the
\* index after every directory it removes).
THEOREM StaleBounded == Spec => []StalePerFault
<1>1. StoreInv => StalePerFault
  BY DEF StoreInv, Stale, StalePerFault
<1> QED
  BY <1>1, StoreInvariant, PTL

\* What mark_uploaded acknowledged survives crashes, restarts and evictions
\* for as long as the episode is indexed and the index is not rebuilt.
THEOREM MarksKept == Spec => []UploadedKept
<1>1. StoreInv => UploadedKept
  BY DEF StoreInv, Marks, UploadedKept
<1> QED
  BY <1>1, StoreInvariant, PTL

\* Without faults a clean index is the saved one, so the flush that stop and
\* drop skip would have written nothing new.
THEOREM CleanIsSaved == Spec => []SavedUnlessDirty
<1>1. StoreInv => SavedUnlessDirty
  BY DEF StoreInv, Saved, SavedUnlessDirty, Idle
<1> QED
  BY <1>1, StoreInvariant, PTL

\* The plugin's reported state agrees with what it does, whichever step of
\* finish_episode, start or stop failed, except that Packaging stays after a
\* finish_episode that has failed (and only then) until the next start, stop or
\* episode.
THEOREM StateAgreement == Spec => []StateAgrees
<1>1. PluginInit => PlugInv
  BY DEF PluginInit, Init, PlugInv
<1>2. PlugInv => StateAgrees
  BY DEF PlugInv, StateAgrees
<1> QED
  BY <1>1, <1>2, PlugStep, PTL DEF Spec

\* Index, index file and directories agree up to the faults that happened, for
\* every number of episodes, crashes and failing operations.
THEOREM DiskFollows == Spec => []DiskFollowsIndex
BY StaleBounded, MarksKept, CleanIsSaved, PTL DEF DiskFollowsIndex

\* The storage stays within both limits after every store that succeeded, and
\* with auto_cleanup refuses an episode only when nothing is left to delete, for
\* every number, size and quality of episodes, every strategy and every fault:
\* total_size_bytes, which store_episode compares with max_storage_bytes, is the
\* sum of the indexed sizes throughout.
THEOREM AlwaysWithinBudget == Spec => []WithinBudget
<1>1. PluginInit => Budget
  <2> SUFFICES ASSUME PluginInit PROVE Budget
    OBVIOUS
  <2>1. index = {} /\ total = 0 /\ file.index = {} /\ file.total = 0 /\ op.kind = "none"
        /\ pc = "idle" /\ res = "none"
    BY DEF PluginInit, Init, Absent, NoOp
  <2> QED
    BY <2>1, SumOfSizes DEF Budget, StoredWithinLimits, FullMeansEmpty
<1>2. StoreInv /\ Budget /\ [Next]_allVars => Budget'
  <2> SUFFICES ASSUME StoreInv, Budget, [Next]_allVars PROVE Budget'
    OBVIOUS
  <2>1. CASE StoreNext
    BY <2>1, BudgetStep
  <2>2. CASE UNCHANGED vars
    BY <2>2 DEF Budget, StoredWithinLimits, FullMeansEmpty, vars, memVars, opVars
  <2> QED
    BY <2>1, <2>2, StorePart
<1>3. Budget => WithinBudget
  BY DEF Budget, WithinBudget, TotalIsSum
<1> QED
  BY <1>1, <1>2, <1>3, StoreInvariant, PTL DEF Spec

\* The upload queue holds each episode once and in descending priority, for any
\* number of jobs and priorities, however jobs are queued, taken and cancelled
\* (enqueue's duplicate check and sort_by, cancel's retain).
THEOREM QueueAlwaysInOrder == Spec => []QueueInOrder
<1>1. PluginInit => QueueInv
  BY DEF PluginInit, UpInit, QueueInv, InOrder
<1>2. QueueInv => QueueInOrder
  BY DEF QueueInv, InOrder, QueueInOrder
<1> QED
  BY <1>1, <1>2, QueueStep, StoreInvariant, PTL DEF Spec
=============================================================================
