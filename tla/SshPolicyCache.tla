--------------------------- MODULE SshPolicyCache ---------------------------
(***************************************************************************)
(* PolicyManager: the cached SSH policy with its ages, the copy on disk,   *)
(* refreshes by callers, in the background and on a timer, and the         *)
(* reader-writer lock around the cache, which serves its waiters in order. *)
(***************************************************************************)
EXTENDS Naturals, Sequences, FiniteSets, SequencesExt

CONSTANTS Tasks,                          \* tasks that call the manager
          MaxAge, Grace, HardExpiry,      \* of PolicyCache
          PolHorizon,                     \* bound on the clock
          NoPolicy

ASSUME PolConstants ==
  {MaxAge, Grace, HardExpiry, PolHorizon} \subseteq Nat

VARIABLES
  pclock,
  cache,     \* NoPolicy or fetched_at of the cached policy
  disk,      \* is there a readable copy in cache_file
  holders,   \* tasks holding the lock for reading
  waiting,   \* tasks queued for the lock, with what they want
  stamp,     \* per task: fetched_at of the entry it is about to store
  pc         \* per task: what it is about to do

polVars == <<pclock, cache, disk, holders, waiting, stamp, pc>>

PolInit ==
  /\ pclock = 0 /\ cache = NoPolicy /\ disk \in BOOLEAN
  /\ holders = {} /\ waiting = <<>> /\ stamp = [t \in Tasks |-> 0]
  /\ pc = [t \in Tasks |-> "idle"]

\* PolicyCache::validity
Validity ==
  LET age == pclock - cache IN
  IF age < MaxAge THEN "fresh"
  ELSE IF age < MaxAge + Grace THEN "stale"
  ELSE IF age < HardExpiry THEN "expired" ELSE "invalid"

\* RwLock::read and write (external): a reader gets in when nobody waits, a
\* writer when nobody holds it; the others wait their turn.
Queue(t, want) == waiting' = Append(waiting, <<t, want>>)

Turn(t, want) == waiting # <<>> /\ Head(waiting) = <<t, want>>

AskRead(t, from, to) ==
  /\ pc[t] = from /\ pc' = [pc EXCEPT ![t] = to] /\ Queue(t, "read")
  /\ UNCHANGED <<pclock, cache, disk, holders, stamp>>

GetRead(t, from, to) ==
  /\ pc[t] = from /\ Turn(t, "read")
  /\ pc' = [pc EXCEPT ![t] = to]
  /\ waiting' = Tail(waiting) /\ holders' = holders \cup {t}
  /\ UNCHANGED <<pclock, cache, disk, stamp>>

\* get_policy asks for the lock, looks, and lets go of it.
GetPolicy(t) == AskRead(t, "idle", "look")

LookLocked(t) == GetRead(t, "look", "held")

\* A stale policy refreshed under the read lock.
LookBad(t) ==
  /\ pc[t] = "held"
  /\ IF cache = NoPolicy \/ Validity \in {"expired", "invalid", "stale"}
     THEN /\ pc' = [pc EXCEPT ![t] = "fetch"]
          /\ holders' = IF cache # NoPolicy /\ Validity = "stale" THEN holders ELSE holders \ {t}
     ELSE pc' = [pc EXCEPT ![t] = "done"] /\ holders' = holders \ {t}
  /\ UNCHANGED <<pclock, cache, disk, waiting, stamp>>

\* fresh and stale answer at once, stale with a refresh spawned (a task that is
\* idle stands for it).
Look(t) ==
  /\ pc[t] = "held" /\ holders' = holders \ {t}
  /\ IF cache = NoPolicy \/ Validity \in {"expired", "invalid"}
     THEN pc' = [pc EXCEPT ![t] = "fetch"]
     ELSE LET spare == IF Validity = "stale" THEN {u \in Tasks : pc[u] = "idle"} ELSE {} IN
          IF spare = {} THEN pc' = [pc EXCEPT ![t] = "done"]
          ELSE \E u \in spare : pc' = [pc EXCEPT ![t] = "done", ![u] = "refresh"]
  /\ UNCHANGED <<pclock, cache, disk, waiting, stamp>>

\* The timer of start_background_refresh, trigger_background_refresh, or a
\* caller of refresh.
Refresh(t) ==
  /\ pc[t] = "idle" /\ pc' = [pc EXCEPT ![t] = "refresh"]
  /\ UNCHANGED <<pclock, cache, disk, holders, waiting, stamp>>

\* The backend answers (external), and refresh makes the entry and then asks for
\* the write lock, or it fails: then get_policy asks for the read lock again, a bare refresh ends.
Fetch(t, ok) ==
  /\ pc[t] \in {"fetch", "refresh"}
  /\ IF ok \/ pc[t] = "fetch"
     THEN /\ pc' = [pc EXCEPT ![t] = IF ok THEN "store" ELSE "check"]
          /\ Queue(t, IF ok THEN "write" ELSE "read")
     ELSE pc' = [pc EXCEPT ![t] = "done"] /\ UNCHANGED waiting
  /\ stamp' = IF ok THEN [stamp EXCEPT ![t] = pclock] ELSE stamp
  /\ UNCHANGED <<pclock, cache, disk, holders>>

\* The write lock of refresh; also the one get_policy wants for the copy from
\* disk (swap), which it never gets, being among the holders.
Store(t) ==
  /\ pc[t] \in {"store", "swap"} /\ Turn(t, "write") /\ holders = {}
  /\ cache' = stamp[t] /\ stamp' = [stamp EXCEPT ![t] = 0]
  /\ waiting' = Tail(waiting)
  /\ pc' = [pc EXCEPT ![t] = IF @ = "store" THEN "save" ELSE "done"]
  /\ UNCHANGED <<pclock, disk, holders>>

\* save_to_disk: a failure leaves what was there, or nothing readable.
SaveToDisk(t, ok) ==
  /\ pc[t] = "save"
  /\ disk' \in IF ok THEN {TRUE} ELSE {disk, FALSE}
  /\ pc' = [pc EXCEPT ![t] = "done"]
  /\ UNCHANGED <<pclock, cache, holders, waiting, stamp>>

\* After a failed refresh: the cached policy unless it is invalid, the copy on
\* disk (load_from_disk), or the error.  Only the second keeps the read lock.
CheckLocked(t) == GetRead(t, "check", "checked")

Fallback(t) ==
  /\ pc[t] = "checked"
  /\ IF disk /\ (cache = NoPolicy \/ Validity = "invalid")
     THEN /\ pc' = [pc EXCEPT ![t] = "swap"] /\ Queue(t, "write")
          /\ stamp' = [stamp EXCEPT ![t] = pclock]
          /\ UNCHANGED holders
     ELSE /\ pc' = [pc EXCEPT ![t] = "done"] /\ holders' = holders \ {t}
          /\ UNCHANGED <<waiting, stamp>>
  /\ UNCHANGED <<pclock, cache, disk>>

\* The caller is done with the answer, and may call again.
Return(t) ==
  /\ pc[t] = "done" /\ pc' = [pc EXCEPT ![t] = "idle"]
  /\ UNCHANGED <<pclock, cache, disk, holders, waiting, stamp>>

\* clear_cache, when nobody is at the lock.
ClearCache ==
  /\ cache # NoPolicy /\ holders = {} /\ waiting = <<>>
  /\ cache' = NoPolicy
  /\ UNCHANGED <<pclock, disk, holders, waiting, stamp, pc>>

PolTick ==
  /\ pclock < PolHorizon /\ pclock' = pclock + 1
  /\ UNCHANGED <<cache, disk, holders, waiting, stamp, pc>>

TaskStep(t) ==
  \/ LookLocked(t) \/ Look(t) \/ Store(t) \/ CheckLocked(t) \/ Fallback(t) \/ Return(t)
  \/ \E ok \in BOOLEAN : Fetch(t, ok) \/ SaveToDisk(t, ok)

PolNext == PolTick \/ ClearCache \/ \E t \in Tasks : GetPolicy(t) \/ Refresh(t) \/ TaskStep(t)

PolFairness == \A t \in Tasks : WF_polVars(TaskStep(t))

-----------------------------------------------------------------------------
(* Properties *)

\* Every call of get_policy and every refresh comes to an end, unless some call
\* has fallen back on the copy on disk: that one asks for the write lock while it
\* holds the read lock, and takes all the others with it (get_policy).
CallsReturn ==
  \A t \in Tasks : pc[t] \in {"look", "fetch", "refresh"}
    ~> (pc[t] = "done" \/ \E u \in Tasks : pc[u] = "swap")

\* The comment in get_policy says to try to load from disk cache: a call
\* that does comes back with an answer.
DiskCopyAnswers == \A t \in Tasks : pc[t] = "swap" ~> pc[t] = "done"
=============================================================================
