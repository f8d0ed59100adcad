--------------------------- MODULE EpisodePlugin ---------------------------
(***************************************************************************)
(* The data-collection plugin (DataCollectionPlugin in                      *)
(* data_collection/plugin.rs) with its storage and its upload queue: start  *)
(* and stop, the active episode, and finish_episode, which packages, stores *)
(* and uploads and may return at every one of these steps.                  *)
(***************************************************************************)
EXTENDS EpisodeStore, UploadQueue

CONSTANTS AutoUpload    \* auto_upload, with an upload configuration

ASSUME PluginAssumption == AutoUpload \in BOOLEAN

VARIABLES
  state,      \* PluginState
  running,
  active,     \* active_episode is Some
  fin,        \* how far finish_episode is, or that the last one has failed
  stopping    \* finish_episode was called by stop

plugVars == <<state, running, active, fin, stopping>>
allVars == <<vars, upVars, plugVars>>

PluginState == {"Created", "Initialized", "Running", "Recording", "Packaging", "Stopped"}

PluginInit ==
  /\ Init /\ UpInit
  /\ state = "Created" /\ running = FALSE /\ active = FALSE
  /\ fin = "none" /\ stopping = FALSE

\* A caller holds the plugin (&mut self) and no method is running.
Free == open /\ Idle /\ fin \in {"none", "failed"} /\ ~stopping

-----------------------------------------------------------------------------
(* Life cycle *)

\* initialize opens the storage; if that fails the plugin stays Created.
\* start on a new plugin initializes it first, and auto_start starts it.
Initialize(start) ==
  /\ state = "Created" /\ New
  /\ IF file.kind = "torn" THEN UNCHANGED <<state, running>>
     ELSE state' = (IF start THEN "Running" ELSE "Initialized") /\ running' = start
  /\ UNCHANGED <<upVars, active, fin, stopping>>

\* Mutant: start does not look for an episode being recorded.
StartAnyway ==
  /\ Free /\ state \notin {"Created", "Running"}
  /\ state' = "Running" /\ running' = TRUE /\ fin' = "none"
  /\ UNCHANGED <<vars, upVars, active, stopping>>

\* start, once initialized, after a stop or after a finish_episode that failed.
Start ==
  /\ Free /\ state \notin {"Created", "Running", "Recording"}
  /\ state' = "Running" /\ running' = TRUE /\ fin' = "none"
  /\ UNCHANGED <<vars, upVars, active, stopping>>

\* The end of stop: the storage is flushed last.
Stopped ==
  /\ running' = FALSE /\ state' = "Stopped" /\ stopping' = FALSE /\ fin' = "none"
  /\ IF index_dirty THEN Flush ELSE UNCHANGED vars
  /\ UNCHANGED <<upVars, active>>

Stop == Free /\ running /\ ~active /\ Stopped

\* process_triggers or start_episode_manual
StartEpisode ==
  /\ Free /\ running /\ ~active
  /\ packaged < N
  /\ active' = TRUE /\ state' = "Recording" /\ fin' = "none"
  /\ UNCHANGED <<vars, upVars, running, stopping>>

\* The process ends or dies: only the files survive.
Gone ==
  /\ queue' = << >> /\ cancel_flag' = FALSE /\ sent' = {}
  /\ state' = "Created" /\ running' = FALSE /\ active' = FALSE
  /\ fin' = "none" /\ stopping' = FALSE

PluginCrash == Crash /\ Gone
PluginDrop == Free /\ Drop /\ Gone
OperatorDiscards == DiscardIndex /\ UNCHANGED <<upVars, plugVars>>

-----------------------------------------------------------------------------
(* finish_episode *)

\* From finish_episode, check_episode_timeout or stop: the active episode is
\* taken and packaging begins; without samples it ends with an error at once.
FinishBegin(stop) ==
  /\ Free /\ active /\ (stop => running)
  /\ active' = FALSE /\ state' = "Packaging"
  /\ UNCHANGED <<upVars, running>>
  /\ \/ Package /\ fin' = "packaged" /\ stopping' = stop
     \/ fin' = "failed" /\ UNCHANGED <<vars, stopping>>

FinishStore ==
  /\ fin = "packaged" /\ Store /\ fin' = "store"
  /\ UNCHANGED <<upVars, state, running, active, stopping>>

\* Packaging failed after it created the file, or the episode was not stored:
\* the error is returned (?) and the state stays Packaging.
FinishFails ==
  /\ Idle
  /\ \/ fin = "packaged" /\ DiskErrors
     \/ fin = "store" /\ res # "ok"
  /\ fin' = "failed" /\ stopping' = FALSE /\ op' = NoOp /\ res' = "none"
  /\ UNCHANGED <<strategy, open, memVars, disk, file, pc, expired, packaged, faults, marked>>
  /\ UNCHANGED <<upVars, state, running, active>>

\* Stored: upload if configured, ignoring the outcome.
FinishOk ==
  /\ Idle /\ fin = "store" /\ res = "ok"
  /\ IF AutoUpload THEN UploadEpisode(op.ep, disk) ELSE UNCHANGED upVars
  /\ fin' = "none" /\ state' = "Running" /\ op' = NoOp /\ res' = "none"
  /\ UNCHANGED <<strategy, open, memVars, disk, file, pc, expired, packaged, faults, marked>>
  /\ UNCHANGED <<running, active, stopping>>

StopAfterFinish == Idle /\ fin = "none" /\ stopping /\ Stopped

-----------------------------------------------------------------------------
(* Callers that use the storage and the upload manager directly *)

StoreCall ==
  /\ Free
  /\ \/ \E e \in Episodes : Delete(e) \/ MarkUploaded(e)
     \/ CleanupExpired \/ RebuildIndex \/ RebuildFails
  /\ UNCHANGED <<upVars, plugVars>>

StoreStep == StoreSteps /\ UNCHANGED <<upVars, plugVars>>

UploadCall ==
  /\ Free
  /\ \/ \E e \in index, p \in Priorities : Enqueue(e, p)
     \/ ProcessNext(disk)
     \/ CancelAll
     \/ \E e \in Episodes : Cancel(e)
  /\ UNCHANGED <<vars, plugVars>>

Next ==
  \/ \E start \in BOOLEAN : Initialize(start)
  \/ Start \/ Stop \/ StartEpisode
  \/ PluginCrash \/ PluginDrop \/ OperatorDiscards
  \/ \E stop \in BOOLEAN : FinishBegin(stop)
  \/ FinishStore \/ FinishFails \/ FinishOk \/ StopAfterFinish
  \/ StoreCall \/ StoreStep \/ UploadCall

Spec == PluginInit /\ [][Next]_allVars

-----------------------------------------------------------------------------
(* Properties *)

\* The variables of the three parts keep their shapes.
TypeOK ==
  /\ StoreTypeOK /\ UpTypeOK(Episodes)
  /\ state \in PluginState /\ running \in BOOLEAN /\ active \in BOOLEAN
  /\ fin \in {"none", "packaged", "store", "failed"} /\ stopping \in BOOLEAN

\* The reported state agrees with what the plugin does: Recording exactly while
\* an episode is active, running exactly from a start to the stop that ends it,
\* and Packaging exactly while finish_episode runs or, with nothing being
\* packaged, after one that has failed, until the next start, stop or episode
\* (finish_episode returns its errors without setting the state again).
StateAgrees ==
  /\ (state = "Recording") = active
  /\ (state = "Packaging") = (fin # "none")
  /\ running = (state \in {"Running", "Recording", "Packaging"})
  /\ running => open

\* "Plugin packaging an episode" (plugin.rs:78): Packaging is reported only
\* while an episode is being packaged or stored.
\* The code does not keep it: README, "Statements the code does not keep".
PackagingIsBusy == state = "Packaging" => fin # "failed"
=============================================================================
