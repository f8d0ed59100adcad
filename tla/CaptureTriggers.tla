-------------------------- MODULE CaptureTriggers ---------------------------
(***************************************************************************)
(* TriggerManager and the triggers of data_collection/trigger_impl.rs, as  *)
(* DataCollectionPlugin::process_triggers uses them.  One caller holds the *)
(* plugin and evaluates; other threads hold a trigger by its Arc and       *)
(* request, cancel, enable and disable it in the middle of an evaluation.  *)
(*                                                                         *)
(* The failure trigger stands for the anomaly and signal triggers too:     *)
(* each of them fires on a condition of the context alone.                 *)
(***************************************************************************)
EXTENDS Naturals, FiniteSets, Sequences

CONSTANTS Cooldown, Interval,  \* of the manager, of the periodic trigger
          MaxTime,
          MaxInputs,           \* bound: requests, starts of teleoperation and resets together
          Switchable,          \* the triggers other threads enable and disable
          NoTime               \* not yet fired, no evaluation, no request

VARIABLES
  now, teleop,      \* what the next context will say
  mgrOn, on,        \* the manager's flag, the triggers that are enabled
  lastTimes,        \* last_trigger_times
  wasActive, lastFire, pending,  \* of the teleop, periodic and manual trigger
  asking,           \* how far request or cancel of the manual trigger is
  eval,             \* the evaluation under way
  recording,        \* the trigger whose episode is recorded
  fired,            \* per trigger: when it fired last, since the last reset
  tally             \* how often things happened

trigVars == <<now, teleop, mgrOn, on, lastTimes, wasActive, lastFire, pending, asking, eval,
              recording, fired, tally>>

TriggerIds == {"teleop", "failure", "periodic", "manual"}

Evaluations == [todo : SUBSET TriggerIds, ts : Nat, active : BOOLEAN,
                failure : BOOLEAN, events : SUBSET TriggerIds]

ASSUME TriggerConstants ==
  /\ Cooldown \in Nat /\ Interval \in Nat /\ MaxTime \in Nat /\ MaxInputs \in Nat
  /\ NoTime \notin Nat /\ NoTime \notin TriggerIds /\ NoTime \notin Evaluations

\* Low, Normal, High, Critical
Priority(t) == CASE t = "periodic" -> 1 [] t = "manual" -> 2 [] t = "teleop" -> 3 [] t = "failure" -> 4

NeverFired == [t \in TriggerIds |-> NoTime]

TrigInit ==
  /\ now = 0 /\ teleop = FALSE /\ mgrOn = TRUE /\ on = TriggerIds
  /\ lastTimes = NeverFired /\ wasActive = FALSE /\ lastFire = NoTime /\ pending = FALSE
  /\ asking = "no" /\ eval = NoTime /\ recording = NoTime
  /\ fired = NeverFired
  /\ tally = [edges |-> 0, asked |-> 0, resets |-> 0, teleop |-> 0, manual |-> 0]

-----------------------------------------------------------------------------
(* Other threads, and the robot *)

Inputs == tally.asked + tally.edges + tally.resets

TeleopChanges ==
  /\ Inputs < MaxInputs
  /\ teleop' = ~teleop
  /\ tally' = IF teleop THEN tally ELSE [tally EXCEPT !.edges = @ + 1]
  /\ UNCHANGED <<now, mgrOn, on, lastTimes, wasActive, lastFire, pending, asking, eval, recording, fired>>

TimePasses ==
  /\ now < MaxTime /\ now' = now + 1
  /\ UNCHANGED <<teleop, mgrOn, on, lastTimes, wasActive, lastFire, pending, asking, eval, recording, fired, tally>>

\* request writes the reason and then sets pending.
Request ==
  /\ asking = "no" /\ Inputs < MaxInputs
  /\ asking' = "request" /\ tally' = [tally EXCEPT !.asked = @ + 1]
  /\ UNCHANGED <<now, teleop, mgrOn, on, lastTimes, wasActive, lastFire, pending, eval, recording, fired>>

RequestEnds ==
  /\ asking = "request" /\ asking' = "no" /\ pending' = TRUE
  /\ UNCHANGED <<now, teleop, mgrOn, on, lastTimes, wasActive, lastFire, eval, recording, fired, tally>>

CancelRequest ==
  /\ asking = "no" /\ pending /\ pending' = FALSE
  /\ UNCHANGED <<now, teleop, mgrOn, on, lastTimes, wasActive, lastFire, asking, eval, recording, fired, tally>>

SetEnabled(t) ==
  /\ on' = IF t \in on THEN on \ {t} ELSE on \cup {t}
  /\ UNCHANGED <<now, teleop, mgrOn, lastTimes, wasActive, lastFire, pending, asking, eval, recording, fired, tally>>

SetManager ==
  /\ mgrOn' = ~mgrOn
  /\ UNCHANGED <<now, teleop, on, lastTimes, wasActive, lastFire, pending, asking, eval, recording, fired, tally>>

-----------------------------------------------------------------------------
(* process_triggers *)

\* Not while an episode is recorded; the context is what the caller saw.
BeginEvaluate(failure) ==
  /\ eval = NoTime /\ recording = NoTime
  /\ eval' = IF mgrOn THEN [todo |-> TriggerIds, ts |-> now, active |-> teleop,
                            failure |-> failure, events |-> {}]
             ELSE NoTime
  /\ UNCHANGED <<now, teleop, mgrOn, on, lastTimes, wasActive, lastFire, pending, asking, recording, fired, tally>>

Waits(t) == lastTimes[t] # NoTime /\ eval.ts < lastTimes[t] + Cooldown

\* A rising edge since the last evaluation that reached the trigger.
TeleopFires == eval.active /\ ~wasActive

PeriodicFires == lastFire # NoTime => eval.ts >= lastFire + Interval

FailureFires == eval.failure

Fires(t) ==
  CASE t = "teleop" -> TeleopFires
    [] t = "failure" -> FailureFires
    [] t = "periodic" -> PeriodicFires
    [] t = "manual" -> pending

\* The manual trigger swaps its flag: a request is consumed.
Consumed(t) == pending /\ t # "manual"

\* One trigger, in the order of the map: skipped if disabled or cooling down
\* (it then sees nothing of this context), else evaluated.
EvaluateOne(t) ==
  /\ eval # NoTime /\ t \in eval.todo
  /\ IF t \notin on \/ Waits(t)
     THEN /\ eval' = [eval EXCEPT !.todo = @ \ {t}]
          /\ UNCHANGED <<wasActive, lastFire, pending, fired, tally>>
     ELSE /\ wasActive' = IF t = "teleop" THEN eval.active ELSE wasActive
          /\ pending' = Consumed(t)
          /\ IF Fires(t)
             THEN /\ eval' = [eval EXCEPT !.todo = @ \ {t}, !.events = @ \cup {t}]
                  /\ lastFire' = IF t = "periodic" THEN eval.ts ELSE lastFire
                  /\ fired' = [fired EXCEPT ![t] = eval.ts]
                  /\ tally' = IF t \in {"teleop", "manual"} THEN [tally EXCEPT ![t] = @ + 1] ELSE tally
             ELSE /\ eval' = [eval EXCEPT !.todo = @ \ {t}]
                  /\ UNCHANGED <<lastFire, fired, tally>>
  /\ UNCHANGED <<now, teleop, mgrOn, on, lastTimes, asking, recording>>

RecordedBad(events, first) == {first}

\* record_trigger_fired: all events, not only the one that starts an episode.
Recorded(events, first) == events

\* Sorted by priority, most urgent first.
First(events) == {t \in events : \A u \in events : Priority(u) <= Priority(t)}

EndEvaluate ==
  /\ eval # NoTime /\ eval.todo = {}
  /\ IF eval.events = {} THEN UNCHANGED <<lastTimes, recording>>
     ELSE \E t \in First(eval.events) :
            /\ recording' = t
            /\ lastTimes' = [u \in TriggerIds |-> IF u \in Recorded(eval.events, t) THEN eval.ts ELSE lastTimes[u]]
  /\ eval' = NoTime
  /\ UNCHANGED <<now, teleop, mgrOn, on, wasActive, lastFire, pending, asking, fired, tally>>

EpisodeEnds ==
  /\ recording # NoTime /\ recording' = NoTime
  /\ UNCHANGED <<now, teleop, mgrOn, on, lastTimes, wasActive, lastFire, pending, asking, eval, fired, tally>>

ResetAll ==
  /\ eval = NoTime /\ Inputs < MaxInputs
  /\ wasActive' = FALSE /\ lastFire' = NoTime /\ pending' = FALSE
  /\ lastTimes' = NeverFired /\ fired' = NeverFired
  /\ tally' = [tally EXCEPT !.resets = @ + 1]
  /\ UNCHANGED <<now, teleop, mgrOn, on, asking, eval, recording>>

TrigNext ==
  \/ TeleopChanges \/ TimePasses \/ Request \/ RequestEnds \/ CancelRequest \/ SetManager
  \/ EndEvaluate \/ EpisodeEnds \/ ResetAll
  \/ \E b \in BOOLEAN : BeginEvaluate(b)
  \/ \E t \in TriggerIds : EvaluateOne(t)
  \/ \E t \in Switchable : SetEnabled(t)

TrigSpec == TrigInit /\ [][TrigNext]_trigVars

-----------------------------------------------------------------------------
(* Properties *)

\* A trigger fires no more often than it has a reason to: the manual one once
\* for a request, whatever request, cancel and evaluate do to its flag at once,
\* the teleop one once for a start of teleoperation, or once more after a reset
\* (TeleopTrigger::evaluate, ManualTrigger::evaluate).
FiresHaveReasons ==
  tally.manual <= tally.asked /\ tally.teleop <= tally.edges + tally.resets

\* Two firings of one trigger are a cooldown apart, also when the first did not
\* start the episode, because a more urgent one did (record_trigger_fired).
SpacedFires ==
  \A t \in TriggerIds : fired[t] # NoTime /\ fired'[t] # NoTime /\ fired'[t] # fired[t] =>
    fired'[t] >= fired[t] + Cooldown

\* The episode is that of the most urgent trigger that fired in the evaluation
\* (evaluate sorts by priority, process_triggers takes the first).
UrgentStartsEpisode ==
  recording = NoTime /\ recording' # NoTime =>
    \A t \in eval.events : Priority(t) <= Priority(recording')

\* Triggers fire for their reasons, a cooldown apart, and the urgent one wins
\* (evaluate, record_trigger_fired, process_triggers).
TriggersFireRight == [][FiresHaveReasons' /\ SpacedFires /\ UrgentStartsEpisode]_trigVars
=============================================================================
