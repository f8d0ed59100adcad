--------------------------- MODULE CaptureProofs ---------------------------
(***************************************************************************)
(* What the data-collection plugin captures: its triggers, the frames it   *)
(* enriches and the rings it packages, and what the sandbox logs.          *)
(***************************************************************************)
EXTENDS CaptureTriggers, PluginHost, FrameEnricher, EpisodePackager, FiniteSetTheorems, SequenceTheorems, WellFoundedInduction, TLAPS

-----------------------------------------------------------------------------
(* Triggers *)

TrigTypes ==
  /\ now \in Nat /\ teleop \in BOOLEAN /\ wasActive \in BOOLEAN /\ pending \in BOOLEAN
  /\ asking \in {"no", "request"}
  /\ lastTimes \in [TriggerIds -> Nat \cup {NoTime}] /\ fired \in [TriggerIds -> Nat \cup {NoTime}]
  /\ eval \in Evaluations \cup {NoTime}
  /\ recording \in TriggerIds \cup {NoTime}
  /\ tally \in [edges : Nat, asked : Nat, resets : Nat, teleop : Nat, manual : Nat]

\* What a trigger fired for last is in last_trigger_times, or in the events of
\* the evaluation that will put it there.
FiredInv ==
  /\ eval = NoTime => fired = lastTimes
  /\ eval # NoTime =>
       /\ eval.todo \cap eval.events = {}
       /\ \A t \in TriggerIds : fired[t] = IF t \in eval.events THEN eval.ts ELSE lastTimes[t]

\* A request that is being made or is pending has not been used.
AskedInv ==
  /\ tally.manual <= tally.asked
  /\ pending => tally.manual + 1 <= tally.asked
  /\ asking = "request" => tally.manual + 1 <= tally.asked
  /\ pending /\ asking = "request" => tally.manual + 2 <= tally.asked

\* The teleop trigger will see this evaluation's context.
Shown == eval # NoTime /\ "teleop" \in eval.todo

\* Teleoperation started, and the trigger has yet to see it: now, or in the
\* context of the evaluation under way.
StartUnseen ==
  \/ ~wasActive /\ teleop
  \/ Shown /\ eval.active /\ ~wasActive
  \/ Shown /\ ~eval.active /\ teleop

TeleopInv ==
  /\ tally.teleop <= tally.edges + tally.resets
  /\ StartUnseen => tally.teleop + 1 <= tally.edges + tally.resets

TrigInv == TrigTypes /\ FiredInv /\ AskedInv /\ TeleopInv

\* What the step under way may do to fired and recording.
TrigGood == SpacedFires /\ UrgentStartsEpisode

\* A step that is no evaluation's keeps what has fired.
LEMMA NothingFires ==
  ASSUME TrigTypes, fired' = fired, recording' \in {recording, NoTime}
  PROVE  TrigGood
BY DEF TrigGood, SpacedFires, UrgentStartsEpisode

\* The robot, the clock and the other threads.
LEMMA InputsKeep ==
  ASSUME TrigInv, TeleopChanges \/ TimePasses \/ Request \/ RequestEnds \/ CancelRequest \/ SetManager
                  \/ EpisodeEnds \/ \E t \in Switchable : SetEnabled(t)
  PROVE  TrigInv' /\ TrigGood
<1> USE DEF TrigInv, TrigTypes, FiredInv, AskedInv, TeleopInv, StartUnseen, Shown
<1>1. CASE TeleopChanges
  <2>1. TrigTypes' /\ FiredInv'
    BY <1>1 DEF TeleopChanges
  <2>2. AskedInv'
    BY <1>1 DEF TeleopChanges
  <2>3. TeleopInv'
    BY <1>1 DEF TeleopChanges
  <2> QED
    BY <1>1, <2>1, <2>2, <2>3, NothingFires DEF TeleopChanges
<1>2. CASE TimePasses
  BY <1>2, NothingFires DEF TimePasses
<1>3. CASE Request
  BY <1>3, NothingFires DEF Request
<1>4. CASE RequestEnds
  BY <1>4, NothingFires DEF RequestEnds
<1>5. CASE CancelRequest
  BY <1>5, NothingFires DEF CancelRequest
<1>6. CASE SetManager
  BY <1>6, NothingFires DEF SetManager
<1>7. CASE EpisodeEnds
  BY <1>7, NothingFires DEF EpisodeEnds
<1>8. CASE \E t \in Switchable : SetEnabled(t)
  BY <1>8, NothingFires DEF SetEnabled
<1> QED
  BY <1>1, <1>2, <1>3, <1>4, <1>5, <1>6, <1>7, <1>8

\* An evaluation begins with the context of this moment.
LEMMA BeginKeeps ==
  ASSUME TrigInv, NEW failure \in BOOLEAN, BeginEvaluate(failure)
  PROVE  TrigInv' /\ TrigGood
<1> DEFINE new == [todo |-> TriggerIds, ts |-> now, active |-> teleop, failure |-> failure, events |-> {}]
<1>1. eval = NoTime /\ eval' \in {new, NoTime} /\ new \in Evaluations
  BY DEF BeginEvaluate, TrigInv, TrigTypes, Evaluations
<1>2. UNCHANGED <<now, teleop, lastTimes, wasActive, pending, asking, recording, fired, tally>>
  BY DEF BeginEvaluate
<1>3. TrigTypes' /\ AskedInv'
  BY <1>1, <1>2 DEF TrigInv, TrigTypes, AskedInv
<1>4. FiredInv'
  BY <1>1, <1>2, TriggerConstants DEF TrigInv, FiredInv
<1>5. TeleopInv'
  BY <1>1, <1>2, TriggerConstants DEF TrigInv, TeleopInv, StartUnseen, Shown
<1> QED
  BY <1>2, <1>3, <1>4, <1>5, NothingFires DEF TrigInv

\* One trigger is skipped or evaluated.
LEMMA EvaluateKeeps ==
  ASSUME TrigInv, NEW t \in TriggerIds, EvaluateOne(t)
  PROVE  TrigInv' /\ TrigGood
<1>1. /\ eval \in Evaluations /\ eval # NoTime /\ t \in eval.todo /\ TrigTypes
      /\ UNCHANGED <<now, teleop, lastTimes, asking, recording>>
  BY DEF EvaluateOne, TrigInv, TrigTypes
<1> DEFINE less == [eval EXCEPT !.todo = @ \ {t}]
           more == [eval EXCEPT !.todo = @ \ {t}, !.events = @ \cup {t}]
<1>2. /\ less \in Evaluations /\ less.todo = eval.todo \ {t} /\ less.events = eval.events
      /\ less.ts = eval.ts /\ less.active = eval.active
      /\ more \in Evaluations /\ more.todo = eval.todo \ {t} /\ more.events = eval.events \cup {t}
      /\ more.ts = eval.ts /\ more.active = eval.active
  BY <1>1 DEF Evaluations
<1>3. less # NoTime /\ more # NoTime
  BY <1>2, TriggerConstants
<1> HIDE DEF less, more
<1>4. CASE t \notin on \/ Waits(t)
  <2>1. eval' = less /\ UNCHANGED <<wasActive, pending, fired, tally>>
    BY <1>4 DEF EvaluateOne, less
  <2>2. TrigTypes' /\ AskedInv'
    BY <1>1, <1>2, <2>1 DEF TrigInv, TrigTypes, AskedInv
  <2>3. FiredInv'
    BY <1>1, <1>2, <1>3, <2>1 DEF TrigInv, FiredInv
  <2>4. TeleopInv'
    BY <1>1, <1>2, <1>3, <2>1 DEF TrigInv, TeleopInv, StartUnseen, Shown
  <2> QED
    BY <1>1, <2>1, <2>2, <2>3, <2>4, NothingFires DEF TrigInv
<1>5. CASE ~(t \notin on \/ Waits(t)) /\ ~Fires(t)
  <2>1. /\ eval' = less /\ UNCHANGED <<fired, tally>>
        /\ wasActive' = (IF t = "teleop" THEN eval.active ELSE wasActive)
        /\ pending' = (pending /\ t # "manual")
    BY <1>5 DEF EvaluateOne, Consumed, less
  <2>2. TrigTypes'
    BY <1>1, <1>2, <2>1 DEF TrigTypes, Evaluations
  <2>3. AskedInv'
    BY <1>1, <2>1 DEF TrigInv, AskedInv
  <2>4. FiredInv'
    BY <1>1, <1>2, <1>3, <2>1 DEF TrigInv, FiredInv
  <2>5. TeleopInv'
    BY <1>1, <1>2, <1>3, <2>1 DEF TrigInv, TeleopInv, StartUnseen, Shown, Evaluations, TrigTypes
  <2> QED
    BY <1>1, <2>1, <2>2, <2>3, <2>4, <2>5, NothingFires DEF TrigInv
<1>6. CASE ~(t \notin on \/ Waits(t)) /\ Fires(t)
  <2>1. /\ eval' = more /\ fired' = [fired EXCEPT ![t] = eval.ts]
        /\ wasActive' = (IF t = "teleop" THEN eval.active ELSE wasActive)
        /\ pending' = (pending /\ t # "manual")
        /\ tally' = (IF t \in {"teleop", "manual"} THEN [tally EXCEPT ![t] = @ + 1] ELSE tally)
    BY <1>6 DEF EvaluateOne, Consumed, more
  <2>2. /\ tally' \in [edges : Nat, asked : Nat, resets : Nat, teleop : Nat, manual : Nat]
        /\ tally'.edges = tally.edges /\ tally'.asked = tally.asked /\ tally'.resets = tally.resets
        /\ tally'.teleop = (IF t = "teleop" THEN tally.teleop + 1 ELSE tally.teleop)
        /\ tally'.manual = (IF t = "manual" THEN tally.manual + 1 ELSE tally.manual)
    BY <1>1, <2>1 DEF TrigTypes
  <2>3. TrigTypes'
    BY <1>1, <1>2, <2>1, <2>2 DEF TrigTypes, Evaluations
  <2>4. AskedInv'
    <3>1. t = "manual" => pending
      BY <1>6 DEF Fires
    <3>2. tally.manual \in Nat /\ tally.asked \in Nat /\ AskedInv
      BY <1>1 DEF TrigInv, TrigTypes
    <3>3. CASE t = "manual"
      <4>1. ~pending' /\ tally'.manual = tally.manual + 1 /\ tally'.asked = tally.asked
            /\ asking' = asking /\ pending
        BY <1>1, <2>1, <2>2, <3>1, <3>3
      <4> QED
        BY <3>2, <4>1 DEF AskedInv
    <3>4. CASE t # "manual"
      <4>1. pending' = pending /\ tally'.manual = tally.manual /\ tally'.asked = tally.asked
            /\ asking' = asking
        BY <1>1, <2>1, <2>2, <3>4 DEF TrigTypes
      <4> QED
        BY <3>2, <4>1 DEF AskedInv
    <3> QED
      BY <3>3, <3>4
  <2>5. FiredInv'
    BY <1>1, <1>2, <1>3, <2>1 DEF TrigInv, FiredInv, TrigTypes
  <2>6. TeleopInv'
    <3>1. t = "teleop" => (eval.active /\ ~wasActive)
      BY <1>6 DEF Fires, TeleopFires
    <3> QED
      BY <1>1, <1>2, <1>3, <2>1, <2>2, <3>1 DEF TrigInv, TeleopInv, StartUnseen, Shown, TrigTypes
  <2>7. SpacedFires
    <3>1. fired[t] = lastTimes[t] /\ (lastTimes[t] # NoTime => ~(eval.ts < lastTimes[t] + Cooldown))
      BY <1>1, <1>6 DEF TrigInv, FiredInv, Waits
    <3>2. eval.ts \in Nat /\ (lastTimes[t] # NoTime => lastTimes[t] \in Nat)
      BY <1>1 DEF TrigTypes, Evaluations
    <3>3. \A u \in TriggerIds : u # t => fired'[u] = fired[u]
      BY <1>1, <2>1 DEF TrigTypes
    <3>4. fired'[t] = eval.ts
      BY <1>1, <2>1 DEF TrigTypes
    <3> QED
      BY <3>1, <3>2, <3>3, <3>4, TriggerConstants DEF SpacedFires
  <2> QED
    BY <1>1, <2>3, <2>4, <2>5, <2>6, <2>7 DEF TrigInv, TrigGood, UrgentStartsEpisode
<1> QED
  BY <1>4, <1>5, <1>6

\* The evaluation ends: the most urgent event starts the episode.
LEMMA EndKeeps ==
  ASSUME TrigInv, EndEvaluate
  PROVE  TrigInv' /\ TrigGood
<1>1. /\ eval # NoTime /\ eval.todo = {} /\ eval' = NoTime /\ eval \in Evaluations /\ TrigTypes
      /\ UNCHANGED <<now, teleop, wasActive, pending, asking, fired, tally>>
  BY DEF EndEvaluate, TrigInv, TrigTypes
<1>2. AskedInv' /\ TeleopInv'
  BY <1>1 DEF TrigInv, AskedInv, TeleopInv, StartUnseen, Shown
<1>3. CASE eval.events = {}
  <2>1. UNCHANGED <<lastTimes, recording>>
    BY <1>3 DEF EndEvaluate
  <2>2. TrigTypes'
    BY <1>1, <2>1 DEF TrigTypes
  <2>3. fired = lastTimes
    BY <1>1, <1>3 DEF TrigInv, FiredInv, TrigTypes
  <2> QED
    BY <1>1, <1>2, <2>1, <2>2, <2>3, NothingFires DEF TrigInv, FiredInv
<1>4. CASE eval.events # {}
  <2>1. PICK t \in First(eval.events) :
          /\ recording' = t
          /\ lastTimes' = [u \in TriggerIds |-> IF u \in eval.events THEN eval.ts ELSE lastTimes[u]]
    BY <1>4 DEF EndEvaluate, Recorded
  <2>2. t \in eval.events /\ t \in TriggerIds /\ eval.ts \in Nat
    BY <1>1 DEF First, Evaluations
  <2>3. TrigTypes'
    BY <1>1, <2>1, <2>2 DEF TrigTypes
  <2>4. fired = lastTimes'
    BY <1>1, <2>1 DEF TrigInv, FiredInv, TrigTypes
  <2>5. UrgentStartsEpisode
    BY <2>1 DEF UrgentStartsEpisode, First
  <2> QED
    BY <1>1, <1>2, <2>3, <2>4, <2>5 DEF TrigInv, FiredInv, TrigGood, SpacedFires
<1> QED
  BY <1>3, <1>4

\* reset_all forgets what fired.
LEMMA ResetKeeps ==
  ASSUME TrigInv, ResetAll
  PROVE  TrigInv' /\ TrigGood
<1>1. /\ eval = NoTime /\ eval' = NoTime /\ wasActive' = FALSE /\ pending' = FALSE
      /\ lastTimes' = NeverFired /\ fired' = NeverFired
      /\ tally' = [tally EXCEPT !.resets = @ + 1]
      /\ UNCHANGED <<now, teleop, asking, recording>> /\ TrigTypes
  BY DEF ResetAll, TrigInv
<1>2. TrigTypes' /\ FiredInv'
  <2>1. tally' \in [edges : Nat, asked : Nat, resets : Nat, teleop : Nat, manual : Nat]
    BY <1>1 DEF TrigTypes
  <2>2. NeverFired \in [TriggerIds -> Nat \cup {NoTime}]
    BY DEF NeverFired
  <2>3. TrigTypes'
    BY <1>1, <2>1, <2>2 DEF TrigTypes
  <2> QED
    BY <1>1, <2>3 DEF FiredInv
<1>3. AskedInv'
  BY <1>1 DEF TrigInv, AskedInv, TrigTypes
<1>4. TeleopInv'
  BY <1>1 DEF TrigInv, TeleopInv, StartUnseen, Shown, TrigTypes
<1>5. TrigGood
  BY <1>1 DEF TrigGood, SpacedFires, UrgentStartsEpisode, NeverFired
<1> QED
  BY <1>2, <1>3, <1>4, <1>5 DEF TrigInv

\* In every behaviour of the triggers, whichever threads request, cancel, enable
\* and disable meanwhile: a trigger fires no more often than it was given a
\* reason to, two firings of one are a cooldown apart, and the most urgent one
\* starts the episode (evaluate, record_trigger_fired, process_triggers).
THEOREM TriggersAlwaysFireRight == TrigSpec => TriggersFireRight
<1>1. TrigInit => TrigInv
  <2> SUFFICES ASSUME TrigInit PROVE TrigInv
    OBVIOUS
  <2>1. TrigTypes
    BY DEF TrigInit, TrigTypes, NeverFired
  <2> QED
    BY <2>1 DEF TrigInit, TrigInv, FiredInv, AskedInv, TeleopInv, StartUnseen, Shown
<1>2. TrigInv /\ TrigNext => TrigInv' /\ TrigGood
  BY InputsKeep, BeginKeeps, EvaluateKeeps, EndKeeps, ResetKeeps DEF TrigNext
<1>3. TrigInv /\ UNCHANGED trigVars => TrigInv'
  BY DEF TrigInv, TrigTypes, FiredInv, AskedInv, TeleopInv, StartUnseen, Shown, trigVars
<1>4. TrigInv' => FiresHaveReasons'
  BY DEF TrigInv, AskedInv, TeleopInv, FiresHaveReasons
<1>5. TrigInv /\ [TrigNext]_trigVars
        => TrigInv' /\ [FiresHaveReasons' /\ SpacedFires /\ UrgentStartsEpisode]_trigVars
  BY <1>2, <1>3, <1>4 DEF TrigGood
<1> QED
  BY <1>1, <1>5, PTL DEF TrigSpec, TriggersFireRight

-----------------------------------------------------------------------------
(* The log of the sandbox *)

Messages == [from : Int, to : Int, ptr : Int, len : Int]

HostInv ==
  /\ log \in Seq(Messages) /\ logged \in Nat
  /\ LogsWhatWasNamed

\* A slice that is valid is the one the pointer and the length name: a sum that
\* wraps, and a negative number taken for a usize, end beyond the memory.
LEMMA ValidIsNamed ==
  ASSUME NEW ptr \in I32, NEW len \in I32,
         SliceIsValid(Usize(ptr), Usize(Wrap(ptr + len)))
  PROVE  /\ ptr >= 0 /\ len >= 0
         /\ Usize(ptr) = ptr /\ Usize(Wrap(ptr + len)) = ptr + len
         /\ ptr + len <= MemorySize
<1>1. Half \in Nat \ {0} /\ MemorySize \in 0..(Half - 1)
  BY HostConstants
<1>2. PICK p \in Int : p = ptr /\ p >= -Half /\ p < Half
  BY <1>1 DEF I32
<1>3. PICK l \in Int : l = len /\ l >= -Half /\ l < Half
  BY <1>1 DEF I32
<1>4. PICK w \in Int : /\ w = Wrap(p + l)
                       /\ \/ p + l >= -Half /\ p + l < Half /\ w = p + l
                          \/ p + l >= Half /\ w = p + l - 2 * Half
                          \/ p + l < -Half /\ w = p + l + 2 * Half
  <2>1. PICK b \in Nat \ {0} : b = 2 * Half
    BY <1>1
  <2>2. PICK a \in Int : a = p + l + Half
    BY <1>1
  <2>3. Wrap(p + l) = (a % b) - Half
    BY <2>1, <2>2 DEF Wrap
  <2>4. CASE a >= 0 /\ a < b
    <3>1. a % b = a
      BY <2>4
    <3> QED
      BY <1>1, <2>1, <2>2, <2>3, <2>4, <3>1
  <2>5. CASE a < 0
    <3>1. a >= -b
      BY <1>1, <1>2, <1>3, <2>1, <2>2
    <3>2. a % b = a + b
      BY <2>5, <3>1
    <3> QED
      BY <1>1, <2>1, <2>2, <2>3, <2>5, <3>2
  <2>6. CASE a >= b
    <3>1. a < 2 * b
      BY <1>1, <1>2, <1>3, <2>1, <2>2
    <3>2. a % b = a - b
      BY <2>6, <3>1
    <3> QED
      BY <1>1, <2>1, <2>2, <2>3, <2>6, <3>2
  <2> QED
    BY <2>4, <2>5, <2>6
<1>5. PICK q \in Nat : q = 4 * Half * Half /\ q >= 2 * Half
  BY <1>1
<1>6. ASSUME NEW n \in Int, n >= -Half, n < Half, Usize(n) <= MemorySize
      PROVE  n >= 0 /\ Usize(n) = n
  BY <1>1, <1>5, <1>6 DEF Usize
<1>7. w >= -Half /\ w < Half
  BY <1>1, <1>2, <1>3, <1>4
<1>8. PICK u \in Int : u = Usize(p)
  BY <1>5 DEF Usize
<1>9. PICK v \in Int : v = Usize(w)
  BY <1>5 DEF Usize
<1>10. u <= v /\ v <= MemorySize
  BY <1>2, <1>3, <1>4, <1>8, <1>9 DEF SliceIsValid
<1>11. u <= MemorySize
  BY <1>1, <1>10
<1>12. w >= 0 /\ v = w
  BY <1>6, <1>7, <1>9, <1>10
<1>13. p >= 0 /\ u = p
  BY <1>2, <1>6, <1>8, <1>11
<1>14. w = p + l /\ l >= 0 /\ w <= MemorySize
  BY <1>1, <1>2, <1>3, <1>4, <1>10, <1>12, <1>13
<1>15. Usize(ptr) = ptr /\ Usize(Wrap(ptr + len)) = ptr + len
  BY <1>2, <1>3, <1>4, <1>8, <1>9, <1>12, <1>13, <1>14
<1> QED
  BY <1>2, <1>3, <1>13, <1>14, <1>15

\* Whatever pointers and lengths a plugin passes, as i32 of any width, what is
\* logged is the range of its memory it named, and the newest LogLimit messages
\* are kept (link_host_functions).
THEOREM AlwaysLogsWhatWasNamed == HostSpec => []LogsWhatWasNamed
<1>1. HostInit => HostInv
  BY HostConstants DEF HostInit, HostInv, LogsWhatWasNamed
<1>2. HostInv /\ [HostNext]_hostVars => HostInv'
  <2> SUFFICES ASSUME HostInv, [HostNext]_hostVars PROVE HostInv'
    OBVIOUS
  <2>1. ASSUME NEW ptr \in I32, NEW len \in I32, HostLog(ptr, len) PROVE HostInv'
    <3> DEFINE from == Usize(ptr)
               to == Usize(Wrap(ptr + len))
               m == [from |-> from, to |-> to, ptr |-> ptr, len |-> len]
               all == Append(log, m)
    <3>1. CASE ~SliceIsValid(from, to)
      BY <2>1, <3>1 DEF HostLog, HostInv, LogsWhatWasNamed
    <3>2. CASE SliceIsValid(from, to)
      <4>1. /\ ptr >= 0 /\ len >= 0 /\ from = ptr /\ to = ptr + len /\ to <= MemorySize
            /\ ptr \in Int /\ len \in Int
        BY <3>2, ValidIsNamed DEF I32
      <4>2. /\ m \in Messages /\ m.ptr >= 0 /\ m.len >= 0
            /\ m.from = m.ptr /\ m.to = m.ptr + m.len /\ m.to <= MemorySize
        BY <4>1 DEF Messages
      <4>3. /\ logged < LogLimit + 1 /\ logged' = logged + 1
            /\ log' = IF Len(all) > LogLimit THEN Tail(all) ELSE all
        BY <2>1, <3>2 DEF HostLog
      <4> HIDE DEF m, from, to
      <4>4. PICK s \in Seq(Messages) : s = log
        BY DEF HostInv
      <4>5. /\ Len(s) = (IF logged < LogLimit THEN logged ELSE LogLimit)
            /\ \A i \in 1..Len(s) : /\ s[i].ptr >= 0 /\ s[i].len >= 0
                                    /\ s[i].from = s[i].ptr /\ s[i].to = s[i].ptr + s[i].len
                                    /\ s[i].to <= MemorySize
        BY <4>4 DEF HostInv, LogsWhatWasNamed
      <4> DEFINE t == Append(s, m)
      <4>6. /\ t \in Seq(Messages) /\ Len(t) = Len(s) + 1 /\ t[Len(s) + 1] = m
            /\ \A i \in 1..Len(s) : t[i] = s[i]
        BY <4>2
      <4> HIDE DEF t
      <4>7. \A i \in 1..Len(t) : /\ t[i].ptr >= 0 /\ t[i].len >= 0
                                 /\ t[i].from = t[i].ptr /\ t[i].to = t[i].ptr + t[i].len
                                 /\ t[i].to <= MemorySize
        <5>1. ASSUME NEW i \in 1..Len(t) PROVE i \in 1..Len(s) \/ i = Len(s) + 1
          BY <4>6
        <5> QED
          BY <5>1, <4>2, <4>5, <4>6
      <4>8. logged \in Nat /\ LogLimit \in Nat /\ Len(s) \in Nat
        BY HostConstants DEF HostInv
      <4>9. CASE Len(t) > LogLimit
        <5>1. log' = Tail(t)
          BY <4>3, <4>4, <4>9 DEF t
        <5>0. Len(t) \in Nat /\ Len(t) > 0 /\ t # << >>
          BY <4>6, <4>8
        <5>2. PICK r \in Seq(Messages) : r = Tail(t)
          <6>1. Tail(t) \in Seq(Messages)
            BY <4>6, <5>0
          <6> QED
            BY <6>1, Zenon
        <5>3. Len(r) = Len(t) - 1 /\ \A i \in 1..Len(r) : r[i] = t[i + 1] /\ i + 1 \in 1..Len(t)
          BY <4>6, <5>2
        <5>4. Len(r) = (IF logged + 1 < LogLimit THEN logged + 1 ELSE LogLimit)
          BY <4>5, <4>6, <4>8, <4>9, <5>3
        <5>5. \A i \in 1..Len(r) : /\ r[i].ptr >= 0 /\ r[i].len >= 0
                                   /\ r[i].from = r[i].ptr /\ r[i].to = r[i].ptr + r[i].len
                                   /\ r[i].to <= MemorySize
          BY <4>7, <5>3
        <5>6. log' = r /\ DOMAIN r = 1..Len(r)
          BY <5>1, <5>2
        <5>7. LogsWhatWasNamed'
          BY <4>3, <5>4, <5>5, <5>6 DEF LogsWhatWasNamed
        <5>8. log' \in Seq(Messages)
          BY <5>2, <5>6, Zenon
        <5>9. logged' \in Nat
          BY <4>3, <4>8
        <5> QED
          BY <5>7, <5>8, <5>9 DEF HostInv
      <4>10. CASE ~(Len(t) > LogLimit)
        <5>1. log' = t
          BY <4>3, <4>4, <4>10 DEF t
        <5>2. Len(t) = (IF logged + 1 < LogLimit THEN logged + 1 ELSE LogLimit)
          BY <4>5, <4>6, <4>8, <4>10
        <5> QED
          BY <4>3, <4>6, <4>7, <4>8, <5>1, <5>2 DEF HostInv, LogsWhatWasNamed
      <4> QED
        BY <4>9, <4>10
    <3> QED
      BY <3>1, <3>2
  <2>2. ASSUME UNCHANGED <<log, logged>> PROVE HostInv'
    BY <2>2 DEF HostInv, LogsWhatWasNamed
  <2> QED
    BY <2>1, <2>2 DEF HostNext, KvSet, KvDelete, hostVars
<1>3. HostInv => LogsWhatWasNamed
  BY DEF HostInv
<1> QED
  BY <1>1, <1>2, <1>3, PTL DEF HostSpec

-----------------------------------------------------------------------------
(* Frames *)

\* A set of naturals has a least element.
LEMMA LeastNatural ==
  ASSUME NEW T \in SUBSET Nat, T # {}
  PROVE  \E m \in T : \A i \in T : m <= i
<1> DEFINE Less == OpToRel(<, Nat)
<1>1. IsWellFoundedOn(Less, Nat)
  BY NatLessThanWellFounded, Zenon
<1>2. \A x, y \in Nat : y < x => <<y, x>> \in Less
  BY DEF OpToRel
<1> HIDE DEF Less
<1>3. PICK x \in T : \A y \in T : ~ (<<y, x>> \in Less)
  BY <1>1, WFMin
<1>4. ASSUME NEW i \in T PROVE x <= i
  <2>1. ~(i < x)
    BY <1>2, <1>3
  <2> QED
    BY <2>1
<1> QED
  BY <1>4

\* Induction, over a set of naturals.
LEMMA EveryNatural ==
  ASSUME NEW P \in SUBSET Nat, 0 \in P, \A n \in P : n + 1 \in P
  PROVE  Nat \subseteq P
<1>1. ASSUME Nat \ P # {} PROVE FALSE
  <2>1. PICK x \in Nat \ P : \A y \in Nat \ P : x <= y
    BY <1>1, LeastNatural
  <2>2. x # 0 /\ x - 1 \in Nat
    BY <2>1
  <2>3. x - 1 \in P
    BY <2>1, <2>2
  <2> QED
    BY <2>1, <2>3
<1> QED
  BY <1>1

InTime(s) == \A i, j \in 1..Len(s) : i < j => s[i] <= s[j]

\* One round of trim_old_entries.
TrimOne(s, t, f, i) ==
  IF i = 0 THEN << >> ELSE IF s[i] + Duration >= t THEN Append(f[i - 1], s[i]) ELSE f[i - 1]
Trims(s, t) == CHOOSE f : f = [i \in 0..Len(s) |-> TrimOne(s, t, f, i)]

LEMMA TrimmedUnfolds ==
  ASSUME NEW s, NEW t PROVE Trimmed(s, t) = Trims(s, t)[Len(s)]
BY DEF Trimmed, Trims, TrimOne

\* The recursion has a solution.
TrimSolved(S, s, t) ==
  \E f \in [0..Len(s) -> Seq(S)] : f = [i \in 0..Len(s) |-> TrimOne(s, t, f, i)]

LEMMA TrimsExist ==
  ASSUME NEW S, NEW s \in Seq(S), NEW t
  PROVE  TrimSolved(S, s, t)
<1> DEFINE D == 0..Len(s)
           Good(n, f) == \A i \in D : i <= n => f[i] = TrimOne(s, t, f, i)
           P == {n \in Nat : \E f \in [D -> Seq(S)] : Good(n, f)}
<1>1. 0 \in P
  <2> DEFINE f == [i \in D |-> << >>]
  <2>1. f \in [D -> Seq(S)]
    OBVIOUS
  <2>2. Good(0, f)
    BY DEF TrimOne
  <2> HIDE DEF f
  <2> QED
    BY <2>1, <2>2
<1>2. ASSUME NEW n \in P PROVE n + 1 \in P
  <2>1. PICK f \in [D -> Seq(S)] : Good(n, f)
    BY <1>2
  <2> DEFINE g == [i \in D |-> TrimOne(s, t, f, i)]
  <2>2. ASSUME NEW i \in D PROVE TrimOne(s, t, f, i) \in Seq(S)
    <3>1. CASE i = 0
      BY <3>1 DEF TrimOne
    <3>2. CASE i # 0
      <4>1. i \in 1..Len(s) /\ i - 1 \in D
        BY <3>2
      <4>2. s[i] \in S /\ f[i - 1] \in Seq(S)
        BY <4>1
      <4>3. Append(f[i - 1], s[i]) \in Seq(S)
        BY <4>2
      <4> QED
        BY <3>2, <4>2, <4>3 DEF TrimOne
    <3> QED
      BY <3>1, <3>2
  <2>3. g \in [D -> Seq(S)]
    BY <2>2
  <2>4. ASSUME NEW i \in D, i <= n PROVE g[i] = f[i]
    BY <2>1, <2>4
  <2>5. ASSUME NEW i \in D, i <= n + 1 PROVE g[i] = TrimOne(s, t, g, i)
    <3>1. CASE i = 0
      BY <3>1 DEF TrimOne
    <3>2. CASE i # 0
      <4>1. i - 1 \in D /\ i - 1 <= n
        BY <3>2, <2>5
      <4>2. g[i - 1] = f[i - 1]
        BY <4>1, <2>4
      <4> QED
        BY <3>2, <4>2 DEF TrimOne
    <3> QED
      BY <3>1, <3>2
  <2> HIDE DEF g
  <2> QED
    BY <2>3, <2>5
<1>3. Nat \subseteq P
  <2> P \in SUBSET Nat
    OBVIOUS
  <2> HIDE DEF P
  <2> QED
    BY <1>1, <1>2, EveryNatural
<1>4. PICK f \in [D -> Seq(S)] : Good(Len(s), f)
  BY <1>3
<1>5. f = [i \in D |-> TrimOne(s, t, f, i)]
  BY <1>4
<1> QED
  BY <1>5 DEF TrimSolved

\* Trimming keeps the order, and the newest state if that is not too old.
LEMMA TrimmedFacts ==
  ASSUME NEW S, NEW s \in Seq(S), NEW t, InTime(s), s # << >>, s[Len(s)] + Duration >= t
  PROVE  /\ Trimmed(s, t) \in Seq(S) /\ InTime(Trimmed(s, t)) /\ Trimmed(s, t) # << >>
         /\ Trimmed(s, t)[Len(Trimmed(s, t))] = s[Len(s)]
<1> DEFINE f == Trims(s, t)
<1>1. \E h : h = [i \in 0..Len(s) |-> TrimOne(s, t, h, i)]
  <2>1. TrimSolved(S, s, t)
    BY TrimsExist
  <2> QED
    BY <2>1 DEF TrimSolved
<1>2. f = [i \in 0..Len(s) |-> TrimOne(s, t, f, i)]
  BY <1>1 DEF Trims
<1> HIDE DEF f
<1>3. \A i \in 0..Len(s) : f[i] = TrimOne(s, t, f, i)
  BY <1>2
<1> DEFINE Right(n) == /\ f[n] \in Seq(S) /\ InTime(f[n])
                       /\ \A k \in 1..Len(f[n]) : \E j \in 1..n : f[n][k] = s[j]
           P == {n \in Nat : n <= Len(s) => Right(n)}
<1>4. 0 \in P
  <2>1. f[0] = << >>
    BY <1>3 DEF TrimOne
  <2>2. InTime(<< >>) /\ << >> \in Seq(S) /\ Len(<< >>) = 0
    BY DEF InTime
  <2>3. Right(0)
    BY <2>1, <2>2
  <2> QED
    BY <2>3
<1>5. ASSUME NEW n \in P, n + 1 <= Len(s)
      PROVE  /\ Right(n + 1)
             /\ s[n + 1] + Duration >= t => f[n + 1] = Append(f[n], s[n + 1]) /\ f[n] \in Seq(S)
  <2>1. Right(n) /\ n + 1 \in 1..Len(s) /\ n \in Nat
    BY <1>5
  <2>2. PICK r \in Seq(S) : r = f[n]
    BY <2>1
  <2>3. InTime(r) /\ \A k \in 1..Len(r) : \E j \in 1..n : r[k] = s[j]
    BY <2>1, <2>2
  <2>0. /\ n + 1 \in 0..Len(s) /\ n + 1 # 0 /\ (n + 1) - 1 = n
        /\ f[n + 1] = TrimOne(s, t, f, n + 1)
    BY <1>3, <2>1
  <2>4. CASE ~(s[n + 1] + Duration >= t)
    <3>1. f[n + 1] = r
      BY <2>0, <2>2, <2>4 DEF TrimOne
    <3> QED
      BY <2>1, <2>2, <2>3, <2>4, <3>1
  <2>5. CASE s[n + 1] + Duration >= t
    <3>1. f[n + 1] = Append(r, s[n + 1])
      BY <2>0, <2>2, <2>5 DEF TrimOne
    <3>2. PICK x \in S : x = s[n + 1]
      BY <2>1
    <3> DEFINE v == Append(r, x)
    <3>3. /\ v \in Seq(S) /\ Len(v) = Len(r) + 1 /\ v[Len(r) + 1] = x
          /\ \A k \in 1..Len(r) : v[k] = r[k]
      OBVIOUS
    <3> HIDE DEF v
    <3>4. ASSUME NEW k \in 1..Len(v) PROVE \E j \in 1..(n + 1) : v[k] = s[j]
      <4>1. CASE k \in 1..Len(r)
        <5>1. PICK j \in 1..n : r[k] = s[j]
          BY <4>1, <2>3
        <5>2. j \in 1..(n + 1) /\ v[k] = s[j]
          BY <5>1, <4>1, <3>3, <2>1
        <5> QED
          BY <5>2
      <4>2. CASE k = Len(r) + 1
        BY <4>2, <2>1, <3>2, <3>3
      <4>3. k \in 1..(Len(r) + 1) /\ Len(r) \in Nat
        BY <3>3
      <4> QED
        BY <4>1, <4>2, <4>3
    <3>5. ASSUME NEW i \in 1..Len(v), NEW k \in 1..Len(v), i < k PROVE v[i] <= v[k]
      <4>0. Len(r) \in Nat /\ i \in 1..(Len(r) + 1) /\ k \in 1..(Len(r) + 1)
        BY <3>3
      <4>1. CASE k <= Len(r)
        <5>1. i \in 1..Len(r) /\ k \in 1..Len(r)
          BY <3>5, <4>0, <4>1
        <5>2. v[i] = r[i] /\ v[k] = r[k]
          BY <3>3, <5>1
        <5> QED
          BY <2>3, <3>5, <5>1, <5>2 DEF InTime
      <4>2. CASE k = Len(r) + 1
        <5>1. i \in 1..Len(r) /\ v[i] = r[i] /\ v[k] = s[n + 1]
          BY <3>2, <3>3, <3>5, <4>0, <4>2
        <5>2. PICK j \in 1..n : r[i] = s[j]
          BY <2>3, <5>1
        <5>3. j \in 1..Len(s) /\ n + 1 \in 1..Len(s) /\ j < n + 1
          BY <2>1
        <5> QED
          BY <5>1, <5>2, <5>3 DEF InTime
      <4> QED
        BY <4>0, <4>1, <4>2
    <3>6. InTime(v)
      BY <3>5 DEF InTime
    <3>7. f[n + 1] = v
      BY <3>1, <3>2 DEF v
    <3>8. Right(n + 1)
      BY <3>3, <3>4, <3>6, <3>7
    <3> QED
      BY <2>2, <3>1, <3>8
  <2> QED
    BY <2>4, <2>5
<1>6. ASSUME NEW n \in P PROVE n + 1 \in P
  <2>1. n + 1 <= Len(s) => Right(n + 1)
    BY <1>5
  <2>2. n + 1 \in Nat
    OBVIOUS
  <2> QED
    BY <2>1, <2>2
<1>7. Nat \subseteq P
  <2> P \in SUBSET Nat
    OBVIOUS
  <2> HIDE DEF P
  <2> QED
    BY <1>4, <1>6, EveryNatural
<1>8. PICK m \in Nat : Len(s) = m + 1 /\ m <= Len(s)
  <2>1. Len(s) \in Nat /\ Len(s) # 0
    OBVIOUS
  <2>2. PICK k \in Nat : k = Len(s) - 1
    BY <2>1
  <2>3. Len(s) = k + 1 /\ k <= Len(s)
    BY <2>1, <2>2
  <2> QED
    BY <2>3, Zenon
<1>9. m \in P /\ m + 1 <= Len(s) /\ s[m + 1] \in S
  <2>1. m \in P
    BY <1>7, Zenon
  <2>2. m + 1 \in 1..Len(s) /\ m + 1 <= Len(s)
    BY <1>8
  <2>3. s[m + 1] \in S
    BY <2>2
  <2> QED
    BY <2>1, <2>2, <2>3
<1>10. s[m + 1] + Duration >= t
  BY <1>8
<1>11. Right(m + 1) /\ f[m + 1] = Append(f[m], s[m + 1]) /\ f[m] \in Seq(S)
  BY <1>5, <1>9, <1>10
<1>12. PICK r \in Seq(S) : r = f[m]
  BY <1>11
<1>13. PICK x \in S : x = s[m + 1]
  BY <1>9
<1>14. Append(r, x) # << >> /\ Append(r, x)[Len(Append(r, x))] = x
  OBVIOUS
<1>15. Trimmed(s, t) = f[m + 1]
  BY <1>8, TrimmedUnfolds DEF f
<1>16. Trimmed(s, t) = Append(r, x)
  BY <1>11, <1>12, <1>13, <1>15
<1>17. Trimmed(s, t) \in Seq(S) /\ InTime(Trimmed(s, t))
  BY <1>11, <1>15
<1> HIDE DEF P, Right
<1> QED
  BY <1>8, <1>13, <1>14, <1>16, <1>17

\* One sequence after another.
LEMMA Joined ==
  ASSUME NEW S, NEW a \in Seq(S), NEW b \in Seq(S)
  PROVE  /\ a \o b \in Seq(S) /\ Len(a \o b) = Len(a) + Len(b)
         /\ \A i \in 1..Len(a) : (a \o b)[i] = a[i]
         /\ \A i \in (Len(a) + 1)..(Len(a) + Len(b)) : (a \o b)[i] = b[i - Len(a)]
OBVIOUS

Inserted(q, c, x) == SubSeq(q, 1, c) \o <<x>> \o SubSeq(q, c + 1, Len(q))

\* Where the elements of a sequence are after an insertion.
Makes(t, S, q, c, x) ==
  /\ t \in Seq(S) /\ Len(t) = Len(q) + 1
  /\ \A i \in 1..c : t[i] = q[i]
  /\ t[c + 1] = x
  /\ \A i \in (c + 2)..(Len(q) + 1) : t[i] = q[i - 1]

LEMMA InsertedFacts ==
  ASSUME NEW S, NEW q \in Seq(S), NEW x \in S, NEW c \in 0..Len(q)
  PROVE  Makes(Inserted(q, c, x), S, q, c, x)
<1> DEFINE t == Inserted(q, c, x)
           a == SubSeq(q, 1, c)
           b == SubSeq(q, c + 1, Len(q))
           one == <<x>>
<1>0. c \in Nat /\ Len(q) \in Nat /\ c <= Len(q)
  OBVIOUS
<1>1. a \in Seq(S) /\ Len(a) = c /\ \A i \in 1..c : a[i] = q[i]
  BY <1>0
<1>2. b \in Seq(S) /\ Len(b) = Len(q) - c /\ \A i \in 1..(Len(q) - c) : b[i] = q[c + i]
  BY <1>0
<1>3. one \in Seq(S) /\ Len(one) = 1 /\ one[1] = x
  OBVIOUS
<1>4. t = (a \o one) \o b
  BY DEF Inserted
<1> HIDE DEF a, b, one, t
<1> DEFINE d == a \o one
<1>5. d \in Seq(S) /\ Len(d) = c + 1 /\ d[c + 1] = x /\ \A i \in 1..c : d[i] = q[i]
  <2>1. /\ d \in Seq(S) /\ Len(d) = Len(a) + Len(one)
        /\ \A i \in 1..Len(a) : d[i] = a[i]
        /\ \A i \in (Len(a) + 1)..(Len(a) + Len(one)) : d[i] = one[i - Len(a)]
    BY <1>1, <1>3, Joined
  <2> HIDE DEF d
  <2>2. /\ d \in Seq(S) /\ Len(d) = c + 1 /\ \A i \in 1..c : d[i] = q[i]
        /\ d[c + 1] = one[(c + 1) - c]
    BY <2>1, <1>0, <1>1, <1>3
  <2>3. (c + 1) - c = 1
    BY <1>0
  <2> QED
    BY <1>3, <2>2, <2>3
<1>6. /\ t \in Seq(S) /\ Len(t) = Len(q) + 1
      /\ \A i \in 1..(c + 1) : t[i] = d[i]
      /\ \A i \in (c + 2)..(Len(q) + 1) : t[i] = b[i - (c + 1)]
  <2>1. t = d \o b
    BY <1>4
  <2> HIDE DEF d
  <2>2. /\ t \in Seq(S) /\ Len(t) = Len(d) + Len(b)
        /\ \A i \in 1..Len(d) : t[i] = d[i]
        /\ \A i \in (Len(d) + 1)..(Len(d) + Len(b)) : t[i] = b[i - Len(d)]
    BY <1>2, <1>5, <2>1, Joined
  <2>3. Len(d) = c + 1 /\ Len(d) + Len(b) = Len(q) + 1 /\ Len(d) + 1 = c + 2
    BY <1>0, <1>2, <1>5
  <2> QED
    BY <2>2, <2>3
<1>7. ASSUME NEW i \in (c + 2)..(Len(q) + 1) PROVE t[i] = q[i - 1]
  <2>1. i - (c + 1) \in 1..(Len(q) - c) /\ c + (i - (c + 1)) = i - 1
    BY <1>0
  <2> QED
    BY <1>2, <1>6, <2>1
<1> HIDE DEF d
<1>8. (\A i \in 1..c : t[i] = q[i]) /\ t[c + 1] = x
  BY <1>0, <1>5, <1>6
<1> QED
  BY <1>6, <1>7, <1>8 DEF t, Makes

Stamps == Nat

\* The buffer is sorted by time.
EnrInv == joints \in Seq(Stamps) /\ InTime(joints)

\* A state of the buffer.
LEMMA StateAt ==
  ASSUME EnrInv, NEW i \in 1..Len(joints)
  PROVE  joints[i] \in Nat /\ Len(joints) \in Nat /\ DOMAIN joints = 1..Len(joints)
<1>1. joints[i] \in Stamps /\ Len(joints) \in Nat /\ DOMAIN joints = 1..Len(joints)
  BY DEF EnrInv
<1> QED
  BY <1>1 DEF Stamps

\* binary_search finds a place: what is before it is not later than t, what is
\* after it not earlier, and without a state at t strictly so.
LEMMA PlaceFacts ==
  ASSUME EnrInv, NEW t \in Nat, NEW i \in PlaceFor(t)
  PROVE  /\ Len(joints) \in Nat /\ i \in 1..(Len(joints) + 1)
         /\ \A k \in 1..Len(joints) : (k < i => joints[k] <= t) /\ (k >= i => joints[k] >= t)
         /\ i \in Found(t) => i \in 1..Len(joints) /\ joints[i] = t
         /\ i \notin Found(t) =>
              \A k \in 1..Len(joints) : (k < i => joints[k] < t) /\ (k >= i => joints[k] > t)
<1>0. Len(joints) \in Nat /\ DOMAIN joints = 1..Len(joints)
  BY DEF EnrInv
<1>1. \A k \in 1..Len(joints) : joints[k] \in Nat
  BY StateAt
<1>2. \A k, m \in 1..Len(joints) : k < m => joints[k] <= joints[m]
  BY DEF EnrInv, InTime
<1>3. CASE i \in Found(t)
  <2>1. i \in 1..Len(joints) /\ joints[i] = t
    BY <1>0, <1>3 DEF Found
  <2>2. ASSUME NEW k \in 1..Len(joints), k < i PROVE joints[k] <= t
    BY <1>2, <2>1, <2>2
  <2>3. ASSUME NEW k \in 1..Len(joints), k >= i PROVE joints[k] >= t
    <3>1. CASE k = i
      BY <2>1, <3>1
    <3>2. CASE k # i
      <4>1. joints[i] <= joints[k]
        BY <1>2, <2>1, <2>3, <3>2
      <4> QED
        BY <1>1, <2>1, <4>1
    <3> QED
      BY <3>1, <3>2
  <2>4. i \in 1..(Len(joints) + 1)
    BY <1>0, <2>1
  <2> QED
    BY <1>0, <1>3, <2>1, <2>2, <2>3, <2>4
<1>4. CASE i \notin Found(t)
  <2>1. /\ i \in 1..(Len(joints) + 1)
        /\ i > 1 => joints[i - 1] < t
        /\ i <= Len(joints) => joints[i] > t
    BY <1>4 DEF PlaceFor
  <2>2. ASSUME NEW k \in 1..Len(joints), k < i PROVE joints[k] < t
    <3>1. i - 1 \in 1..Len(joints) /\ i > 1 /\ (k = i - 1 \/ k < i - 1)
      BY <1>0, <2>1, <2>2
    <3>2. joints[k] <= joints[i - 1]
      <4>1. joints[k] \in Nat
        BY <1>1
      <4> QED
        BY <1>2, <3>1, <4>1
    <3>3. joints[i - 1] < t /\ joints[i - 1] \in Nat /\ joints[k] \in Nat
      BY <1>1, <2>1, <3>1
    <3> QED
      BY <3>2, <3>3
  <2>3. ASSUME NEW k \in 1..Len(joints), k >= i PROVE joints[k] > t
    <3>1. i \in 1..Len(joints) /\ i <= Len(joints) /\ (k = i \/ i < k)
      BY <1>0, <2>1, <2>3
    <3>2. joints[i] <= joints[k]
      <4>1. joints[k] \in Nat
        BY <1>1
      <4> QED
        BY <1>2, <3>1, <4>1
    <3>3. joints[i] > t /\ joints[i] \in Nat /\ joints[k] \in Nat
      BY <1>1, <2>1, <3>1
    <3> QED
      BY <3>2, <3>3
  <2>4. \A k \in 1..Len(joints) : (k < i => joints[k] <= t) /\ (k >= i => joints[k] >= t)
    BY <1>1, <2>2, <2>3
  <2> QED
    BY <1>0, <1>4, <2>1, <2>2, <2>3, <2>4
<1> QED
  BY <1>3, <1>4

\* A state that arrives, late or not, leaves the buffer sorted and ending with
\* the newest state.
LEMMA AddKeeps ==
  ASSUME EnrInv, NEW t \in Nat, AddJointState(t)
  PROVE  EnrInv' /\ NewestKept
<1>1. PICK i \in PlaceFor(t) : joints' = Trimmed(Shortened(WithState(i, t)), t)
  BY DEF AddJointState
<1>2. PICK q \in Seq(Stamps) : q = joints
  BY DEF EnrInv
<1>3. /\ Len(q) \in Nat /\ i \in 1..(Len(q) + 1) /\ InTime(q)
      /\ \A k \in 1..Len(q) : (k < i => q[k] <= t) /\ (k >= i => q[k] >= t)
      /\ \A k \in 1..Len(q) : q[k] \in Nat
  BY <1>2, PlaceFacts, StateAt DEF EnrInv
<1>4. PICK c \in Nat : c = i - 1 /\ c \in 0..Len(q) /\ c + 1 = i
  BY <1>3
<1> DEFINE d == Inserted(q, c, t)
<1>5. WithState(i, t) = d
  BY <1>2, <1>4 DEF WithState, Inserted
<1>6. /\ d \in Seq(Stamps) /\ Len(d) = Len(q) + 1
      /\ \A k \in 1..c : d[k] = q[k]
      /\ d[c + 1] = t
      /\ \A k \in (c + 2)..(Len(q) + 1) : d[k] = q[k - 1]
  <2>1. t \in Stamps
    BY DEF Stamps
  <2>2. c \in 0..Len(q)
    BY <1>4
  <2>3. Makes(d, Stamps, q, c, t)
    BY <2>1, <2>2, InsertedFacts
  <2> HIDE DEF d
  <2> QED
    BY <2>3 DEF Makes
<1> HIDE DEF d
<1>7. InTime(d)
  <2> SUFFICES ASSUME NEW k \in 1..Len(d), NEW m \in 1..Len(d), k < m PROVE d[k] <= d[m]
    BY DEF InTime
  <2>1. k \in 1..(Len(q) + 1) /\ m \in 1..(Len(q) + 1) /\ k < m /\ Len(q) \in Nat
    BY <1>3, <1>6
  <2>2. CASE m <= c
    <3>1. k \in 1..c /\ m \in 1..c /\ k \in 1..Len(q) /\ m \in 1..Len(q)
      BY <1>4, <2>1, <2>2
    <3> QED
      BY <1>3, <1>6, <2>1, <3>1 DEF InTime
  <2>3. CASE k <= c /\ m = c + 1
    <3>1. k \in 1..c /\ k \in 1..Len(q) /\ k < i
      BY <1>4, <2>1, <2>3
    <3> QED
      BY <1>3, <1>6, <2>3, <3>1
  <2>4. CASE k <= c /\ m > c + 1
    <3>1. k \in 1..c /\ k \in 1..Len(q) /\ m \in (c + 2)..(Len(q) + 1) /\ m - 1 \in 1..Len(q) /\ k < m - 1
      BY <1>4, <2>1, <2>4
    <3> QED
      BY <1>3, <1>6, <3>1 DEF InTime
  <2>5. CASE k = c + 1
    <3>1. m \in (c + 2)..(Len(q) + 1) /\ m - 1 \in 1..Len(q) /\ m - 1 >= i
      BY <1>4, <2>1, <2>5
    <3>2. d[k] = t /\ d[m] = q[m - 1] /\ q[m - 1] >= t /\ q[m - 1] \in Nat
      BY <1>3, <1>6, <2>5, <3>1
    <3> QED
      BY <3>2
  <2>6. CASE k > c + 1
    <3>1. /\ k \in (c + 2)..(Len(q) + 1) /\ m \in (c + 2)..(Len(q) + 1)
          /\ k - 1 \in 1..Len(q) /\ m - 1 \in 1..Len(q) /\ k - 1 < m - 1
      BY <1>4, <2>1, <2>6
    <3> QED
      BY <1>3, <1>6, <3>1 DEF InTime
  <2> QED
    BY <1>4, <2>1, <2>2, <2>3, <2>4, <2>5, <2>6
<1>8. /\ Len(d) \in Nat /\ Len(d) > 0 /\ d # << >> /\ d[Len(d)] \in Nat /\ d[Len(d)] >= t
      /\ Len(q) > 0 => d[Len(d)] >= q[Len(q)]
  <2>0. Len(d) \in Nat /\ Len(d) > 0 /\ d # << >> /\ Len(d) = Len(q) + 1
    BY <1>3, <1>6
  <2>1. CASE c = Len(q)
    <3>1. d[Len(d)] = t
      BY <1>6, <2>0, <2>1
    <3>2. ASSUME Len(q) > 0 PROVE q[Len(q)] <= t
      <4>1. Len(q) \in 1..Len(q) /\ Len(q) < i
        BY <1>3, <1>4, <2>1, <3>2
      <4> QED
        BY <1>3, <4>1
    <3>3. ASSUME Len(q) > 0 PROVE q[Len(q)] \in Nat
      <4>1. Len(q) \in 1..Len(q)
        BY <1>3, <3>3
      <4> QED
        BY <1>3, <4>1
    <3> QED
      BY <2>0, <3>1, <3>2, <3>3
  <2>2. CASE c < Len(q)
    <3>1. Len(q) + 1 \in (c + 2)..(Len(q) + 1) /\ (Len(q) + 1) - 1 = Len(q)
          /\ Len(q) \in 1..Len(q) /\ Len(q) >= i
      BY <1>3, <1>4, <2>2
    <3>2. d[Len(d)] = q[Len(q)]
      BY <1>6, <2>0, <3>1
    <3>3. q[Len(q)] \in Nat /\ q[Len(q)] >= t
      BY <1>3, <3>1
    <3> QED
      BY <2>0, <3>2, <3>3
  <2> QED
    BY <1>4, <2>1, <2>2
<1>9. PICK e \in Seq(Stamps) :
        e = Shortened(d) /\ InTime(e) /\ e # << >> /\ e[Len(e)] = d[Len(d)]
  <2>1. CASE ~(Len(d) > MaxStates)
    <3>1. Shortened(d) = d
      BY <2>1 DEF Shortened
    <3> QED
      BY <1>6, <1>7, <1>8, <3>1
  <2>2. CASE Len(d) > MaxStates
    <3>1. Shortened(d) = Tail(d)
      BY <2>2 DEF Shortened
    <3>2. Tail(d) \in Seq(Stamps)
      BY <1>6, <1>8
    <3>3. PICK e \in Seq(Stamps) : e = Tail(d)
      BY <3>2, Zenon
    <3>4. /\ Len(e) = Len(d) - 1 /\ Len(d) \in Nat /\ Len(d) > 1
          /\ \A k \in 1..Len(e) : e[k] = d[k + 1]
      BY <1>6, <1>8, <2>2, <3>3, EnricherConstants
    <3>5. InTime(e)
      <4> SUFFICES ASSUME NEW k \in 1..Len(e), NEW m \in 1..Len(e), k < m PROVE e[k] <= e[m]
        BY DEF InTime
      <4>1. k + 1 \in 1..Len(d) /\ m + 1 \in 1..Len(d) /\ k + 1 < m + 1
        BY <3>4
      <4> QED
        BY <1>7, <3>4, <4>1 DEF InTime
    <3>6. Len(e) \in 1..Len(e) /\ Len(e) + 1 = Len(d) /\ e # << >>
      BY <3>4
    <3>7. e[Len(e)] = d[Len(d)]
      BY <3>4, <3>6
    <3> QED
      BY <3>1, <3>3, <3>5, <3>6, <3>7
  <2> QED
    BY <2>1, <2>2
<1>10. e[Len(e)] + Duration >= t
  <2>1. PICK x \in Nat : x = e[Len(e)] /\ x >= t
    BY <1>8, <1>9
  <2> QED
    BY <2>1, EnricherConstants
<1>11. joints' = Trimmed(e, t)
  BY <1>1, <1>5, <1>9
<1>12. /\ joints' \in Seq(Stamps) /\ InTime(joints') /\ joints' # << >>
       /\ joints'[Len(joints')] = e[Len(e)]
  BY <1>9, <1>10, <1>11, TrimmedFacts
<1>13. NewestKept
  <2> SUFFICES ASSUME joints # << >> PROVE joints'[Len(joints')] >= joints[Len(joints)]
    BY DEF NewestKept
  <2>1. Len(q) > 0
    BY <1>2, <1>3
  <2> QED
    BY <1>2, <1>8, <1>9, <1>12, <2>1
<1> QED
  BY <1>12, <1>13 DEF EnrInv, InTime

\* What FromNeighbours says of a frame's fields.
Right(kept, ts, from, to, gap) ==
  LET before == {u \in kept : u <= ts}
      after == {u \in kept : u >= ts}
  IN /\ IF before = {} THEN from = to
        ELSE from \in before /\ \A u \in before : u <= from
     /\ IF after = {} THEN to = from
        ELSE to \in after /\ \A u \in after : u >= to
     /\ \A u \in kept : gap <= Distance(u, ts)
     /\ \E u \in kept : gap = Distance(u, ts)

\* interpolate_joint_state uses the right states.
LEMMA InterpolatedRight ==
  ASSUME EnrInv, NEW t \in Nat, joints # << >>, NEW i \in PlaceFor(t)
  PROVE  Right({joints[k] : k \in DOMAIN joints}, t,
               Interpolated(t, i).from, Interpolated(t, i).to, Interpolated(t, i).gap)
<1> DEFINE kept == {joints[k] : k \in DOMAIN joints}
<1>1. /\ Len(joints) \in Nat /\ i \in 1..(Len(joints) + 1)
      /\ \A k \in 1..Len(joints) : (k < i => joints[k] <= t) /\ (k >= i => joints[k] >= t)
      /\ i \in Found(t) => i \in 1..Len(joints) /\ joints[i] = t
      /\ i \notin Found(t) =>
           \A k \in 1..Len(joints) : (k < i => joints[k] < t) /\ (k >= i => joints[k] > t)
  BY PlaceFacts
<1>2. Len(joints) >= 1 /\ DOMAIN joints = 1..Len(joints)
  BY <1>1 DEF EnrInv
<1>3. \A k \in 1..Len(joints) : joints[k] \in Nat
  BY StateAt
<1>4. \A k, m \in 1..Len(joints) : k <= m => joints[k] <= joints[m]
  <2> SUFFICES ASSUME NEW k \in 1..Len(joints), NEW m \in 1..Len(joints), k <= m
               PROVE  joints[k] <= joints[m]
    OBVIOUS
  <2>1. CASE k = m
    BY <1>3, <2>1
  <2>2. CASE k < m
    BY <2>2 DEF EnrInv, InTime
  <2> QED
    BY <2>1, <2>2
<1>5. \A u \in kept : u \in Nat /\ \E k \in 1..Len(joints) : u = joints[k]
  BY <1>2, <1>3
<1>6. \A k \in 1..Len(joints) : joints[k] \in kept
  BY <1>2
<1> HIDE DEF kept
<1>7. CASE i \in Found(t)
  <2>1. Interpolated(t, i).from = t /\ Interpolated(t, i).to = t /\ Interpolated(t, i).gap = 0
    BY <1>7 DEF Interpolated
  <2>2. t \in kept /\ Distance(t, t) = 0
    BY <1>1, <1>6, <1>7 DEF Distance
  <2>3. \A u \in kept : Distance(u, t) \in Nat
    BY <1>5 DEF Distance
  <2>4. Right(kept, t, t, t, 0)
    BY <2>2, <2>3 DEF Right
  <2> QED
    BY <2>1, <2>4 DEF kept
<1>8. CASE i \notin Found(t) /\ i = 1
  <2>1. PICK f \in Nat : f = joints[1] /\ f \in kept /\ f > t /\ \A u \in kept : u >= f
    <3>1. 1 \in 1..Len(joints)
      BY <1>1, <1>2
    <3>2. joints[1] \in Nat /\ joints[1] \in kept /\ joints[1] > t
      BY <1>1, <1>3, <1>6, <1>8, <3>1
    <3>3. ASSUME NEW u \in kept PROVE u >= joints[1]
      <4>1. PICK k \in 1..Len(joints) : u = joints[k]
        BY <1>5
      <4>2. joints[1] <= joints[k] /\ joints[k] \in Nat
        BY <1>3, <1>4, <3>1
      <4> QED
        BY <3>2, <4>1, <4>2
    <3> QED
      BY <3>2, <3>3
  <2>2. Interpolated(t, i).from = f /\ Interpolated(t, i).to = f /\ Interpolated(t, i).gap = Distance(f, t)
    BY <1>8, <2>1 DEF Interpolated
  <2>3. Distance(f, t) = f - t /\ \A u \in kept : Distance(u, t) = u - t /\ u > t
    BY <1>5, <2>1 DEF Distance
  <2>4. \A u \in kept : Distance(f, t) <= Distance(u, t)
    BY <1>5, <2>1, <2>3
  <2>5. \A u \in kept : ~(u <= t) /\ u >= t
    BY <1>5, <2>3
  <2>6. Right(kept, t, f, f, Distance(f, t))
    BY <2>1, <2>4, <2>5 DEF Right
  <2> QED
    BY <2>2, <2>6 DEF kept
<1>9. CASE i \notin Found(t) /\ i # 1 /\ i > Len(joints)
  <2>1. PICK f \in Nat : f = joints[i - 1] /\ f \in kept /\ f < t /\ \A u \in kept : u <= f
    <3>1. i - 1 \in 1..Len(joints) /\ i - 1 < i /\ i - 1 = Len(joints)
      BY <1>1, <1>2, <1>9
    <3>2. joints[i - 1] \in Nat /\ joints[i - 1] \in kept /\ joints[i - 1] < t
      BY <1>1, <1>3, <1>6, <1>9, <3>1
    <3>3. ASSUME NEW u \in kept PROVE u <= joints[i - 1]
      <4>1. PICK k \in 1..Len(joints) : u = joints[k]
        BY <1>5
      <4>2. k <= i - 1
        BY <3>1
      <4> QED
        BY <1>4, <3>1, <4>1, <4>2
    <3> QED
      BY <3>2, <3>3
  <2>2. Interpolated(t, i).from = f /\ Interpolated(t, i).to = f /\ Interpolated(t, i).gap = Distance(f, t)
    BY <1>9, <2>1 DEF Interpolated
  <2>3. Distance(f, t) = t - f /\ \A u \in kept : Distance(u, t) = t - u /\ u < t
    BY <1>5, <2>1 DEF Distance
  <2>4. \A u \in kept : Distance(f, t) <= Distance(u, t)
    BY <1>5, <2>1, <2>3
  <2>5. \A u \in kept : u <= t /\ ~(u >= t)
    BY <1>5, <2>3
  <2>6. Right(kept, t, f, f, Distance(f, t))
    BY <2>1, <2>4, <2>5 DEF Right
  <2> QED
    BY <2>2, <2>6 DEF kept
<1>10. CASE i \notin Found(t) /\ i # 1 /\ i <= Len(joints)
  <2>1. i - 1 \in 1..Len(joints) /\ i - 1 < i /\ i \in 1..Len(joints)
    BY <1>1, <1>10
  <2>2. PICK f \in Nat : f = joints[i - 1]
    BY <1>3, <2>1
  <2>3. PICK g \in Nat : g = joints[i]
    BY <1>3, <2>1
  <2>4. f \in kept /\ g \in kept /\ f < t /\ g > t
    BY <1>1, <1>6, <1>10, <2>1, <2>2, <2>3
  <2>5. ASSUME NEW u \in kept PROVE (u <= f /\ u < t) \/ (u >= g /\ u > t)
    <3>1. PICK k \in 1..Len(joints) : u = joints[k]
      BY <1>5
    <3>2. CASE k < i
      <4>1. k <= i - 1
        BY <2>1, <3>2
      <4>2. joints[k] <= joints[i - 1] /\ joints[k] < t
        BY <1>1, <1>4, <1>10, <2>1, <3>2, <4>1
      <4> QED
        BY <2>2, <3>1, <4>2
    <3>3. CASE k >= i
      <4>1. joints[i] <= joints[k] /\ joints[k] > t /\ joints[k] \in Nat
        BY <1>1, <1>3, <1>4, <1>10, <2>1, <3>3
      <4> QED
        BY <2>3, <3>1, <4>1
    <3> QED
      BY <2>1, <3>2, <3>3
  <2> DEFINE gap == IF Distance(f, t) < Distance(g, t) THEN Distance(f, t) ELSE Distance(g, t)
  <2>6. Interpolated(t, i).from = f /\ Interpolated(t, i).to = g /\ Interpolated(t, i).gap = gap
    <3>1. ~(i > Len(joints))
      BY <1>1, <1>10
    <3> QED
      BY <1>10, <2>2, <2>3, <3>1 DEF Interpolated, Neighbours
  <2>7. Distance(f, t) = t - f /\ Distance(g, t) = g - t
    BY <2>4 DEF Distance
  <2>8. ASSUME NEW u \in kept PROVE gap <= Distance(u, t)
    <3>1. u \in Nat
      BY <1>5
    <3>2. Distance(u, t) = IF u < t THEN t - u ELSE u - t
      BY DEF Distance
    <3> QED
      BY <2>5, <2>7, <3>1, <3>2
  <2>9. gap = Distance(f, t) \/ gap = Distance(g, t)
    OBVIOUS
  <2> HIDE DEF gap
  <2>10. /\ f <= t /\ ~(g <= t) /\ g >= t /\ ~(f >= t)
         /\ \A u \in kept : (u <= t => u <= f) /\ (u >= t => u >= g)
    BY <1>5, <2>4, <2>5
  <2>11. Right(kept, t, f, g, gap)
    BY <2>4, <2>8, <2>9, <2>10 DEF Right
  <2> QED
    BY <2>6, <2>11 DEF kept
<1> QED
  BY <1>1, <1>7, <1>8, <1>9, <1>10

\* A frame is enriched from its neighbours.
LEMMA EnrichKeeps ==
  ASSUME EnrInv, NEW t \in Nat, EnrichFrame(t)
  PROVE  FromNeighbours'
<1>1. CASE joints = << >>
  BY <1>1 DEF EnrichFrame, FromNeighbours
<1>2. CASE joints # << >>
  <2> DEFINE kept == {joints[k] : k \in DOMAIN joints}
  <2>1. PICK i \in PlaceFor(t) :
          frame' = [ts |-> t, from |-> Interpolated(t, i).from, to |-> Interpolated(t, i).to,
                    gap |-> Interpolated(t, i).gap, ok |-> Interpolated(t, i).gap <= MaxGap, kept |-> kept]
    BY <1>2 DEF EnrichFrame
  <2>2. Right(kept, t, Interpolated(t, i).from, Interpolated(t, i).to, Interpolated(t, i).gap)
    BY <1>2, InterpolatedRight
  <2> HIDE DEF kept
  <2>3. /\ frame'.ts = t /\ frame'.kept = kept /\ frame'.from = Interpolated(t, i).from
        /\ frame'.to = Interpolated(t, i).to /\ frame'.gap = Interpolated(t, i).gap
    BY <2>1
  <2>4. Right(frame'.kept, frame'.ts, frame'.from, frame'.to, frame'.gap)
    BY <2>2, <2>3
  <2> QED
    BY <2>4 DEF FromNeighbours, Right
<1> QED
  BY <1>1, <1>2

\* Whatever joint states arrive late, out of order, twice or too many: a frame
\* is given the states of the buffer that enclose its time and the gap to the
\* nearest one, and the newest state is never lost to an older one, for any
\* buffer size, duration and times (interpolate_joint_state,
\* add_joint_state_map, trim_old_entries).
THEOREM FramesAlwaysFromNearest == EnrSpec => FramesFromNearest
<1>1. EnrInit => EnrInv /\ FromNeighbours
  BY DEF EnrInit, EnrInv, InTime, FromNeighbours
<1>2. EnrInv /\ FromNeighbours /\ EnrNext => EnrInv' /\ FromNeighbours' /\ NewestKept
  <2> SUFFICES ASSUME EnrInv, FromNeighbours, EnrNext PROVE EnrInv' /\ FromNeighbours' /\ NewestKept
    OBVIOUS
  <2>1. ASSUME NEW t \in 1..Horizon, AddJointState(t) PROVE EnrInv' /\ FromNeighbours' /\ NewestKept
    <3>1. t \in Nat
      BY EnricherConstants
    <3>2. frame' = frame
      BY <2>1 DEF AddJointState
    <3> QED
      BY <2>1, <3>1, <3>2, AddKeeps DEF FromNeighbours
  <2>2. ASSUME NEW t \in 1..Horizon, EnrichFrame(t) PROVE EnrInv' /\ FromNeighbours' /\ NewestKept
    <3>1. t \in Nat
      BY EnricherConstants
    <3>2. joints' = joints
      BY <2>2 DEF EnrichFrame
    <3>3. NewestKept
      <4>1. joints # << >> => Len(joints) \in 1..Len(joints)
        BY DEF EnrInv
      <4>2. joints # << >> => joints[Len(joints)] \in Nat
        BY <4>1, StateAt
      <4> QED
        BY <3>2, <4>2 DEF NewestKept
    <3> QED
      BY <2>2, <3>1, <3>2, <3>3, EnrichKeeps DEF EnrInv, InTime
  <2>3. CASE ClearBuffer
    BY <2>3 DEF ClearBuffer, EnrInv, InTime, FromNeighbours, NewestKept
  <2> QED
    BY <2>1, <2>2, <2>3 DEF EnrNext
<1>3. EnrInv /\ FromNeighbours /\ UNCHANGED enrVars => EnrInv' /\ FromNeighbours'
  BY DEF EnrInv, InTime, FromNeighbours, enrVars
<1>4. EnrInv /\ FromNeighbours /\ [EnrNext]_enrVars
        => (EnrInv /\ FromNeighbours)' /\ [FromNeighbours' /\ NewestKept]_enrVars
  BY <1>2, <1>3
<1> QED
  BY <1>1, <1>4, PTL DEF EnrSpec, FramesFromNearest

-----------------------------------------------------------------------------
(* Rings *)

RingTypes ==
  /\ ring \in [Streams -> [slots : [Slots -> Samples \cup {NoSample}], written : Nat, pos : Nat]]
  /\ push \in [Producers -> Pushes \cup {NoSample}]
  /\ sweep \in Sweeps \cup {NoSample}
  /\ sweeps \in Nat /\ clock \in Nat

\* A sample was numbered by its own stream, below the number given next.
NumberedInv ==
  /\ \A s \in Streams, i \in Slots : ring[s].slots[i] # NoSample =>
       ring[s].slots[i].stream = s /\ ring[s].slots[i].seq < ring[s].written
  /\ \A p \in Producers : push[p] # NoSample => push[p].smp.seq < ring[push[p].smp.stream].written

\* Two samples with one number are one sample.
SlotsUnique ==
  \A s \in Streams : \A i, j \in Slots :
    /\ ring[s].slots[i] # NoSample /\ ring[s].slots[j] # NoSample
    /\ ring[s].slots[i].seq = ring[s].slots[j].seq
    => ring[s].slots[i] = ring[s].slots[j]

\* A sample on its way is in no slot yet, and nobody else's.
OnWayUnique ==
  \A p \in Producers : push[p] # NoSample =>
    /\ \A i \in Slots : LET y == ring[push[p].smp.stream].slots[i] IN
         y # NoSample => y.seq # push[p].smp.seq
    /\ \A q \in Producers : push[q] # NoSample /\ q # p =>
         ~(push[q].smp.stream = push[p].smp.stream /\ push[q].smp.seq = push[p].smp.seq)

RingInv == RingTypes /\ NumberedInv /\ SlotsUnique /\ OnWayUnique

LEMMA RingInvInit == RingInit => RingInv
  BY RingConstants DEF RingInit, RingInv, RingTypes, NumberedInv, SlotsUnique, OnWayUnique, Slots

LEMMA TakeSeqRing ==
  ASSUME RingInv, NEW p \in Producers, NEW s \in Streams, TakeSeq(p, s)
  PROVE  RingInv'
<1> DEFINE new == [stream |-> s, ts |-> clock + 1, seq |-> ring[s].written]
<1>1. /\ RingTypes /\ new \in Samples /\ push[p] = NoSample /\ clock' = clock + 1
      /\ push' = [push EXCEPT ![p] = [smp |-> new, at |-> Capacity]]
      /\ ring' = [ring EXCEPT ![s].written = @ + 1]
      /\ UNCHANGED <<sweep, sweeps>>
  BY DEF TakeSeq, RingInv, RingTypes, Samples
<1>2. [smp |-> new, at |-> Capacity] \in Pushes /\ [smp |-> new, at |-> Capacity] # NoSample
  BY <1>1, RingConstants DEF Pushes
<1>3. RingTypes'
  <2>1. ring' \in [Streams -> [slots : [Slots -> Samples \cup {NoSample}], written : Nat, pos : Nat]]
    BY <1>1 DEF RingTypes
  <2>2. push' \in [Producers -> Pushes \cup {NoSample}]
    BY <1>1, <1>2 DEF RingTypes
  <2> QED  BY <1>1, <2>1, <2>2 DEF RingTypes
<1>4. /\ \A t \in Streams : ring'[t].slots = ring[t].slots
      /\ \A t \in Streams : t # s => ring'[t].written = ring[t].written
      /\ ring'[s].written = ring[s].written + 1
      /\ \A t \in Streams : ring[t].written \in Nat
  BY <1>1 DEF RingTypes
<1>5. /\ \A q \in Producers : q # p => push'[q] = push[q]
      /\ push'[p] # NoSample /\ push'[p].smp = new
  BY <1>1, <1>2 DEF RingTypes
<1>6. \A q \in Producers : push[q] # NoSample => push[q].smp \in Samples
  BY <1>1 DEF RingTypes, Pushes
<1>7. \A t \in Streams, i \in Slots : ring[t].slots[i] # NoSample => ring[t].slots[i] \in Samples
  BY <1>1 DEF RingTypes
<1>8. NumberedInv'
  BY <1>4, <1>5, <1>6, <1>7 DEF RingInv, NumberedInv, Samples
<1>9. SlotsUnique'
  BY <1>4 DEF RingInv, SlotsUnique
<1>10. OnWayUnique'
  <2> SUFFICES ASSUME NEW q \in Producers, push'[q] # NoSample
               PROVE  /\ \A i \in Slots : LET y == ring'[push'[q].smp.stream].slots[i] IN
                           y # NoSample => y.seq # push'[q].smp.seq
                      /\ \A r \in Producers : push'[r] # NoSample /\ r # q =>
                           ~(push'[r].smp.stream = push'[q].smp.stream /\ push'[r].smp.seq = push'[q].smp.seq)
    BY DEF OnWayUnique
  <2>1. CASE q = p
    <3>1. \A i \in Slots : LET y == ring'[s].slots[i] IN y # NoSample => y.seq # new.seq
      BY <1>4, <1>7 DEF RingInv, NumberedInv, Samples
    <3>2. \A r \in Producers : push[r] # NoSample => ~(push[r].smp.stream = s /\ push[r].smp.seq = new.seq)
      BY <1>4, <1>6 DEF RingInv, NumberedInv, Samples
    <3> QED  BY <2>1, <3>1, <3>2, <1>5
  <2>2. CASE q # p
    <3>1. push'[q] = push[q] /\ push[q].smp \in Samples /\ push[q] # NoSample
      BY <2>2, <1>5, <1>6
    <3>2. \A i \in Slots : LET y == ring'[push'[q].smp.stream].slots[i] IN
                           y # NoSample => y.seq # push'[q].smp.seq
      BY <3>1, <1>4 DEF RingInv, OnWayUnique, Samples
    <3>3. ~(new.stream = push[q].smp.stream /\ new.seq = push[q].smp.seq)
      BY <3>1, <1>4, <1>6 DEF RingInv, NumberedInv, Samples
    <3>4. \A r \in Producers : push'[r] # NoSample /\ r # q =>
                           ~(push'[r].smp.stream = push'[q].smp.stream /\ push'[r].smp.seq = push'[q].smp.seq)
      BY <3>1, <3>3, <1>5 DEF RingInv, OnWayUnique
    <3> QED  BY <3>2, <3>4
  <2> QED  BY <2>1, <2>2
<1> QED  BY <1>3, <1>8, <1>9, <1>10 DEF RingInv

LEMMA TakeSlotRing ==
  ASSUME RingInv, NEW p \in Producers, TakeSlot(p)
  PROVE  RingInv'
<1> DEFINE s == push[p].smp.stream
           new == [push[p] EXCEPT !.at = ring[s].pos % Capacity]
<1>1. /\ RingTypes /\ push[p] # NoSample /\ push[p] \in Pushes /\ s \in Streams
      /\ push' = [push EXCEPT ![p] = new]
      /\ ring' = [ring EXCEPT ![s].pos = @ + 1]
      /\ UNCHANGED <<sweep, sweeps, clock>>
  BY DEF TakeSlot, RingInv, RingTypes, Pushes, Samples
<1>2. ring[s].pos % Capacity \in 0 .. Capacity
  BY <1>1, RingConstants DEF RingTypes
<1>3. new \in Pushes /\ new # NoSample /\ new.smp = push[p].smp
  BY <1>1, <1>2, RingConstants DEF Pushes
<1>4. RingTypes'
  <2>1. ring' \in [Streams -> [slots : [Slots -> Samples \cup {NoSample}], written : Nat, pos : Nat]]
    BY <1>1 DEF RingTypes
  <2>2. push' \in [Producers -> Pushes \cup {NoSample}]
    BY <1>1, <1>3 DEF RingTypes
  <2> QED  BY <1>1, <2>1, <2>2 DEF RingTypes
<1>5. \A t \in Streams : ring'[t].slots = ring[t].slots /\ ring'[t].written = ring[t].written
  BY <1>1 DEF RingTypes
<1>6. /\ \A q \in Producers : q # p => push'[q] = push[q]
      /\ push'[p] = new
  BY <1>1 DEF RingTypes
<1>7. \A q \in Producers : (push'[q] # NoSample) <=> (push[q] # NoSample)
  BY <1>1, <1>3, <1>6
<1>8. \A q \in Producers : push[q] # NoSample => push'[q].smp = push[q].smp /\ push[q].smp.stream \in Streams
  BY <1>1, <1>3, <1>6 DEF RingTypes, Pushes, Samples
<1>9. NumberedInv'
  BY <1>5, <1>7, <1>8 DEF RingInv, NumberedInv
<1>10. SlotsUnique'
  BY <1>5 DEF RingInv, SlotsUnique
<1>11. OnWayUnique'
  BY <1>5, <1>7, <1>8 DEF RingInv, OnWayUnique
<1> QED  BY <1>4, <1>9, <1>10, <1>11 DEF RingInv

LEMMA WriteSlotRing ==
  ASSUME RingInv, NEW p \in Producers, WriteSlot(p)
  PROVE  RingInv'
<1> DEFINE x == push[p].smp
           s == x.stream
           at == push[p].at
<1>1. /\ RingTypes /\ push[p] # NoSample /\ push[p] \in Pushes /\ x \in Samples /\ s \in Streams /\ at \in Slots
      /\ push' = [push EXCEPT ![p] = NoSample]
      /\ ring' = [ring EXCEPT ![s].slots[at] = x]
      /\ UNCHANGED <<sweep, sweeps, clock>>
  BY RingConstants DEF WriteSlot, RingInv, RingTypes, Pushes, Samples, Slots
<1>2. RingTypes'
  <2>1. ring' \in [Streams -> [slots : [Slots -> Samples \cup {NoSample}], written : Nat, pos : Nat]]
    BY <1>1 DEF RingTypes
  <2>2. push' \in [Producers -> Pushes \cup {NoSample}]
    BY <1>1 DEF RingTypes
  <2> QED  BY <1>1, <2>1, <2>2 DEF RingTypes
<1>3. /\ \A t \in Streams : ring'[t].written = ring[t].written
      /\ \A t \in Streams : t # s => ring'[t].slots = ring[t].slots
      /\ \A i \in Slots : i # at => ring'[s].slots[i] = ring[s].slots[i]
      /\ ring'[s].slots[at] = x
  BY <1>1 DEF RingTypes
<1>4. \A q \in Producers : push'[q] # NoSample => push'[q] = push[q] /\ q # p
  BY <1>1 DEF RingTypes
<1>5. \A q \in Producers : push[q] # NoSample => push[q].smp \in Samples
  BY <1>1 DEF RingTypes, Pushes
<1>a. \A t \in Streams, i \in Slots :
         ring'[t].slots[i] = ring[t].slots[i] \/ (t = s /\ i = at /\ ring'[t].slots[i] = x)
  BY <1>3
<1>b. x.seq < ring[s].written
  BY <1>1 DEF RingInv, NumberedInv
<1>6. NumberedInv'
  <2>1. \A t \in Streams, i \in Slots : ring'[t].slots[i] # NoSample =>
          ring'[t].slots[i].stream = t /\ ring'[t].slots[i].seq < ring'[t].written
    <3> SUFFICES ASSUME NEW t \in Streams, NEW i \in Slots, ring'[t].slots[i] # NoSample
                 PROVE  ring'[t].slots[i].stream = t /\ ring'[t].slots[i].seq < ring[t].written
      BY <1>3
    <3>1. CASE ring'[t].slots[i] = ring[t].slots[i]
      BY <3>1 DEF RingInv, NumberedInv
    <3>2. CASE t = s /\ i = at /\ ring'[t].slots[i] = x
      BY <3>2, <1>b
    <3> QED  BY <3>1, <3>2, <1>a
  <2>2. \A q \in Producers : push'[q] # NoSample => push'[q].smp.seq < ring'[push'[q].smp.stream].written
    BY <1>3, <1>4, <1>5 DEF RingInv, NumberedInv, Samples
  <2> QED  BY <2>1, <2>2 DEF NumberedInv
<1>7. \A i \in Slots : ring[s].slots[i] # NoSample => ring[s].slots[i].seq # x.seq
  BY <1>1 DEF RingInv, OnWayUnique
<1>8. SlotsUnique'
  <2> SUFFICES ASSUME NEW t \in Streams, NEW i \in Slots, NEW j \in Slots,
                      ring'[t].slots[i] # NoSample, ring'[t].slots[j] # NoSample,
                      ring'[t].slots[i].seq = ring'[t].slots[j].seq
               PROVE  ring'[t].slots[i] = ring'[t].slots[j]
    BY DEF SlotsUnique
  <2>1. CASE ring'[t].slots[i] = ring[t].slots[i] /\ ring'[t].slots[j] = ring[t].slots[j]
    BY <2>1 DEF RingInv, SlotsUnique
  <2>2. CASE t = s /\ ring'[t].slots[i] = x
    BY <2>2, <1>a, <1>7
  <2>3. CASE t = s /\ ring'[t].slots[j] = x
    BY <2>3, <1>a, <1>7
  <2> QED  BY <2>1, <2>2, <2>3, <1>a
<1>9. OnWayUnique'
  <2> SUFFICES ASSUME NEW q \in Producers, push'[q] # NoSample
               PROVE  /\ \A i \in Slots : LET y == ring'[push'[q].smp.stream].slots[i] IN
                           y # NoSample => y.seq # push'[q].smp.seq
                      /\ \A r \in Producers : push'[r] # NoSample /\ r # q =>
                           ~(push'[r].smp.stream = push'[q].smp.stream /\ push'[r].smp.seq = push'[q].smp.seq)
    BY DEF OnWayUnique
  <2>1. push'[q] = push[q] /\ q # p /\ push[q] # NoSample /\ push[q].smp.stream \in Streams
    BY <1>4, <1>5 DEF Samples
  <2>2. ~(push[q].smp.stream = s /\ push[q].smp.seq = x.seq)
    BY <2>1, <1>1 DEF RingInv, OnWayUnique
  <2>3. \A i \in Slots : LET y == ring[push[q].smp.stream].slots[i] IN
          y # NoSample => y.seq # push[q].smp.seq
    BY <2>1 DEF RingInv, OnWayUnique
  <2>4. \A i \in Slots : LET y == ring'[push'[q].smp.stream].slots[i] IN
                           y # NoSample => y.seq # push'[q].smp.seq
    <3> SUFFICES ASSUME NEW i \in Slots, ring'[push[q].smp.stream].slots[i] # NoSample
                 PROVE  ring'[push[q].smp.stream].slots[i].seq # push[q].smp.seq
      BY <2>1
    <3> QED  BY <2>1, <2>2, <2>3, <1>a
  <2> QED  BY <2>1, <2>4, <1>4 DEF RingInv, OnWayUnique
<1> QED  BY <1>2, <1>6, <1>8, <1>9 DEF RingInv

\* A sweep only empties slots.
Emptied ==
  /\ \A t \in Streams : ring'[t].written = ring[t].written
  /\ \A t \in Streams, i \in Slots : ring'[t].slots[i] \in {NoSample, ring[t].slots[i]}

LEMMA EmptiedRing ==
  ASSUME RingInv, RingTypes', Emptied, push' = push
  PROVE  RingInv'
<1>1. \A q \in Producers : push[q] # NoSample => push[q].smp.stream \in Streams
  BY DEF RingInv, RingTypes, Pushes, Samples
<1>2. \A t \in Streams, i \in Slots : ring'[t].slots[i] # NoSample => ring'[t].slots[i] = ring[t].slots[i]
  BY DEF Emptied
<1>3. NumberedInv'
  BY <1>1, <1>2 DEF RingInv, NumberedInv, Emptied
<1>4. SlotsUnique'
  BY <1>2 DEF RingInv, SlotsUnique
<1>5. OnWayUnique'
  <2>1. \A p \in Producers : push[p] # NoSample =>
          \A i \in Slots : LET y == ring'[push[p].smp.stream].slots[i] IN y # NoSample => y.seq # push[p].smp.seq
    BY <1>1, <1>2 DEF RingInv, OnWayUnique
  <2> QED  BY <2>1 DEF RingInv, OnWayUnique
<1> QED  BY <1>3, <1>4, <1>5 DEF RingInv

LEMMA SweepSlotRing ==
  ASSUME RingInv, SweepSlot
  PROVE  RingInv' /\ Emptied /\ push' = push
<1> DEFINE s == sweep.s
           i == sweep.i
           old == ring[s].slots[i]
           new == IF sweep.kind = "clear" \/ Expired(old) THEN NoSample ELSE old
<1>1. /\ RingTypes /\ sweep \in Sweeps /\ s \in Streams /\ i \in Slots
      /\ ring' = [ring EXCEPT ![s].slots[i] = new]
      /\ sweep' = [sweep EXCEPT !.i = @ + 1]
      /\ UNCHANGED <<push, sweeps, clock>>
  BY RingConstants DEF SweepSlot, RingInv, RingTypes, Sweeps, Slots
<1>2. old \in Samples \cup {NoSample} /\ new \in {NoSample, old}
  BY <1>1 DEF RingTypes
<1> HIDE DEF new
<1>3. ring' \in [Streams -> [slots : [Slots -> Samples \cup {NoSample}], written : Nat, pos : Nat]]
  BY <1>1, <1>2 DEF RingTypes
<1>4. sweep' \in Sweeps
  BY <1>1, RingConstants DEF Sweeps, Slots
<1>5. Emptied
  BY <1>1, <1>2 DEF RingTypes, Emptied
<1> QED  BY <1>1, <1>3, <1>4, <1>5, EmptiedRing DEF RingTypes

LEMMA SweepRingRing ==
  ASSUME RingInv, SweepRing
  PROVE  RingInv' /\ Emptied /\ push' = push
<1>1. /\ RingTypes /\ sweep \in Sweeps /\ sweep.s \in Streams
      /\ UNCHANGED <<push, sweeps, clock>>
      /\ ring' = [ring EXCEPT ![sweep.s] = Reset(@)] \/ ring' = ring
  BY DEF SweepRing, RingInv, RingTypes, Sweeps
<1>2. ring' \in [Streams -> [slots : [Slots -> Samples \cup {NoSample}], written : Nat, pos : Nat]]
  BY <1>1 DEF RingTypes, Reset
<1>3. sweep' \in Sweeps \cup {NoSample}
  <2>1. CASE sweep.todo = {}
    BY <2>1 DEF SweepRing
  <2>2. CASE sweep.todo # {}
    <3>1. PICK s \in sweep.todo : sweep' = [sweep EXCEPT !.s = s, !.i = 0, !.todo = @ \ {s}]
      BY <2>2 DEF SweepRing
    <3>2. s \in Streams /\ sweep.todo \ {s} \in SUBSET Streams /\ 0 \in 0 .. Capacity
      BY <1>1, RingConstants DEF Sweeps
    <3> QED  BY <1>1, <3>1, <3>2 DEF Sweeps
  <2> QED  BY <2>1, <2>2
<1>4. Emptied
  <2>1. CASE ring' = ring
    BY <2>1 DEF Emptied
  <2>2. CASE ring' = [ring EXCEPT ![sweep.s] = Reset(@)]
    <3>1. ASSUME NEW t \in Streams
          PROVE  ring'[t] = IF t = sweep.s THEN Reset(ring[t]) ELSE ring[t]
      BY <1>1, <2>2 DEF RingTypes
    <3>2. ASSUME NEW t \in Streams
          PROVE  /\ Reset(ring[t]).written = ring[t].written
                 /\ \A i \in Slots : Reset(ring[t]).slots[i] \in {NoSample, ring[t].slots[i]}
      BY <1>1 DEF RingTypes, Reset
    <3> QED  BY <3>1, <3>2 DEF Emptied
  <2> QED  BY <1>1, <2>1, <2>2
<1> QED  BY <1>1, <1>2, <1>3, <1>4, EmptiedRing DEF RingTypes

LEMMA BeginSweepRing ==
  ASSUME RingInv, NEW k \in {"clear", "evict"}, BeginSweep(k)
  PROVE  RingInv' /\ Emptied /\ push' = push
<1>1. RingTypes /\ UNCHANGED <<ring, push, clock>> /\ sweeps' = sweeps + 1
  BY DEF BeginSweep, RingInv
<1>2. PICK s \in Streams : sweep' = [kind |-> k, s |-> s, i |-> 0, todo |-> Streams \ {s}, now |-> clock]
  BY DEF BeginSweep
<1>3. sweep' \in Sweeps
  BY <1>1, <1>2, RingConstants DEF Sweeps, RingTypes
<1>4. Emptied
  BY <1>1 DEF Emptied
<1> QED  BY <1>1, <1>3, <1>4, EmptiedRing DEF RingTypes

LEMMA RingUnchanged == RingInv /\ UNCHANGED ringVars => RingInv'
  BY DEF ringVars, RingInv, RingTypes, NumberedInv, SlotsUnique, OnWayUnique

LEMMA RingStep ==
  ASSUME RingInv, RingNext
  PROVE  RingInv'
  BY TakeSeqRing, TakeSlotRing, WriteSlotRing, SweepSlotRing, SweepRingRing, BeginSweepRing DEF RingNext

LEMMA RingInvUnique == RingInv => SequencesUnique
<1> SUFFICES ASSUME RingInv PROVE SequencesUnique
  OBVIOUS
<1> DEFINE held == UNION {Held(s) : s \in Streams}
           onWay == {push[p].smp : p \in {q \in Producers : push[q] # NoSample}}
<1>1. \A x \in held : \E i \in Slots : x.stream \in Streams /\ x = ring[x.stream].slots[i] /\ x # NoSample
  <2> SUFFICES ASSUME NEW s \in Streams, NEW x \in Held(s)
               PROVE  \E i \in Slots : x.stream \in Streams /\ x = ring[x.stream].slots[i] /\ x # NoSample
    OBVIOUS
  <2> QED  BY DEF Held, RingInv, NumberedInv
<1>2. \A x \in onWay : \E p \in Producers : push[p] # NoSample /\ x = push[p].smp
  OBVIOUS
<1> HIDE DEF held, onWay
<1>3. ASSUME NEW x \in held, NEW y \in held, x.stream = y.stream, x.seq = y.seq
      PROVE  x = y
  <2>1. PICK i \in Slots : x.stream \in Streams /\ x = ring[x.stream].slots[i] /\ x # NoSample
    BY <1>1, <1>3
  <2>2. PICK j \in Slots : y = ring[x.stream].slots[j] /\ y # NoSample
    BY <1>1, <1>3
  <2> QED  BY <1>3, <2>1, <2>2 DEF RingInv, SlotsUnique
<1>4. ASSUME NEW x \in held, NEW y \in onWay, x.stream = y.stream, x.seq = y.seq
      PROVE  FALSE
  <2>1. PICK i \in Slots : x.stream \in Streams /\ x = ring[x.stream].slots[i] /\ x # NoSample
    BY <1>1, <1>4
  <2>2. PICK p \in Producers : push[p] # NoSample /\ y = push[p].smp
    BY <1>2, <1>4
  <2> QED  BY <1>4, <2>1, <2>2 DEF RingInv, OnWayUnique
<1>5. ASSUME NEW x \in onWay, NEW y \in onWay, x.stream = y.stream, x.seq = y.seq
      PROVE  x = y
  <2>1. PICK p \in Producers : push[p] # NoSample /\ x = push[p].smp
    BY <1>2, <1>5
  <2>2. PICK q \in Producers : push[q] # NoSample /\ y = push[q].smp
    BY <1>2, <1>5
  <2> QED  BY <1>5, <2>1, <2>2 DEF RingInv, OnWayUnique
<1>6. \A x, y \in held \cup onWay : x.stream = y.stream /\ x.seq = y.seq => x = y
  BY <1>3, <1>4, <1>5
<1> QED  BY <1>6, Zenon DEF SequencesUnique, held, onWay

-----------------------------------------------------------------------------
(* The window of an episode *)

\* A slot the packager has read: of a stream that is done, or behind the
\* position in the stream being read.
Passed(s, i) == s \notin pk.todo \/ (pk.i > 0 /\ pk.cur = s /\ i < pk.i)

\* While the rings are read, what stayed lies in a slot of its ring and is in
\* the window, and where the reading has passed it was collected.
CollectInv ==
  pk.pc = "collect" =>
    /\ pk.i \in Slots /\ pk.todo \subseteq Streams
    /\ \A x \in stable : x.stream \in Streams /\ InWindow(x) /\ x # NoSample
    /\ \A x \in stable : \E i \in Slots : ring[x.stream].slots[i] = x
    /\ \A x \in stable, i \in Slots :
         ring[x.stream].slots[i] = x /\ Passed(x.stream, i) => x \in pk.got

\* From then on everything that stayed is collected.
CollectedInv == pk.pc = "write" \/ result \in {"ok", "error"} => stable \subseteq pk.got

\* A file gets its footer at the end of the one packaging.
FooterInv ==
  /\ pk.pc \in {"idle", "collect", "write"}
  /\ pk.pc # "idle" => result = "none"
  /\ mcap.footer => pk.pc = "idle" /\ result \in {"ok", "error"}

\* The two records have their fields.
RecordsInv ==
  /\ pk = [pc |-> pk.pc, from |-> pk.from, to |-> pk.to, todo |-> pk.todo,
           cur |-> pk.cur, i |-> pk.i, got |-> pk.got, seq |-> pk.seq]
  /\ mcap = [channels |-> mcap.channels, chunk |-> mcap.chunk, chunks |-> mcap.chunks,
             index |-> mcap.index, count |-> mcap.count, footer |-> mcap.footer]

PackInv == RingInv /\ RecordsInv /\ CollectInv /\ CollectedInv /\ FooterInv

LEMMA PackInvInit == PackInit => PackInv
<1> SUFFICES ASSUME PackInit PROVE PackInv
  OBVIOUS
<1>1. RingInv
  BY RingInvInit DEF PackInit
<1>2. pk.pc = "idle" /\ mcap.footer = FALSE /\ result = "none"
  BY DEF PackInit, NoPack, NewFile
<1>3. RecordsInv
  BY DEF PackInit, NoPack, NewFile, RecordsInv
<1> QED  BY <1>1, <1>2, <1>3 DEF PackInv, CollectInv, CollectedInv, FooterInv

LEMMA BeginPackageKeeps ==
  ASSUME PackInv, NEW back \in PreRolls, BeginPackage(back)
  PROVE  PackInv'
<1>1. /\ pk'.pc = "collect" /\ pk'.i = 0 /\ pk'.todo = Streams
      /\ stable' = UNION {{x \in Held(s) : x.ts >= pk'.from /\ x.ts <= pk'.to} : s \in Streams}
      /\ UNCHANGED <<ringVars, mcap, result>> /\ result = "none"
  BY DEF BeginPackage, NoPack
<1>2. RingInv'
  BY <1>1, RingUnchanged DEF PackInv
<1>3. \A x \in stable' : \E s \in Streams : x \in Held(s) /\ x.ts >= pk'.from /\ x.ts <= pk'.to
  BY <1>1
<1>4. \A x \in stable' : x.stream \in Streams /\ InWindow(x)' /\ x # NoSample
                          /\ \E i \in Slots : ring[x.stream].slots[i] = x
  <2> SUFFICES ASSUME NEW x \in stable'
               PROVE  x.stream \in Streams /\ InWindow(x)' /\ x # NoSample
                          /\ \E i \in Slots : ring[x.stream].slots[i] = x
    OBVIOUS
  <2>1. PICK s \in Streams : x \in Held(s) /\ x.ts >= pk'.from /\ x.ts <= pk'.to
    BY <1>3
  <2>2. PICK i \in Slots : ring[s].slots[i] = x /\ x # NoSample
    BY <2>1 DEF Held
  <2>3. x.stream = s
    BY <2>2 DEF PackInv, RingInv, NumberedInv
  <2> QED  BY <2>1, <2>2, <2>3 DEF InWindow
<1>5. \A s \in Streams, i \in Slots : ~Passed(s, i)'
  BY <1>1 DEF Passed
<1>6. CollectInv'
  BY <1>1, <1>4, <1>5, RingConstants DEF CollectInv, ringVars, Slots
<1>7. CollectedInv' /\ FooterInv'
  BY <1>1 DEF PackInv, CollectedInv, FooterInv
<1>8. RecordsInv'
  BY DEF BeginPackage, NoPack, PackInv, RecordsInv
<1> QED  BY <1>2, <1>6, <1>7, <1>8 DEF PackInv

LEMMA CollectSlotKeeps ==
  ASSUME PackInv, NEW s \in Streams, CollectSlot(s)
  PROVE  PackInv'
<1> DEFINE x == ring[s].slots[pk.i]
           got == IF x # NoSample /\ InWindow(x) THEN pk.got \cup {x} ELSE pk.got
<1>1. /\ pk.pc = "collect" /\ s \in pk.todo /\ (pk.i > 0 => s = pk.cur)
      /\ UNCHANGED <<ringVars, mcap, result, stable>>
      /\ pk' = IF pk.i < Capacity - 1 THEN [[pk EXCEPT !.got = got] EXCEPT !.i = @ + 1, !.cur = s]
               ELSE [[pk EXCEPT !.got = got] EXCEPT !.i = 0, !.cur = NoSample, !.todo = @ \ {s}]
  BY DEF CollectSlot
<1>2. /\ pk.i \in Slots /\ RecordsInv /\ RingInv /\ pk'.got = got
      /\ pk'.pc = "collect" /\ pk'.from = pk.from /\ pk'.to = pk.to
  BY <1>1 DEF PackInv, CollectInv, RecordsInv
<1>3. RecordsInv'
  BY <1>1, <1>2 DEF RecordsInv
<1>4. RingInv'
  BY <1>1, <1>2, RingUnchanged
<1>5. FooterInv' /\ CollectedInv'
  BY <1>1, <1>2 DEF PackInv, FooterInv, CollectedInv
<1>6. \/ pk.i < Capacity - 1 /\ pk'.i = pk.i + 1 /\ pk'.cur = s /\ pk'.todo = pk.todo
      \/ pk.i = Capacity - 1 /\ pk'.i = 0 /\ pk'.todo = pk.todo \ {s}
  BY <1>1, <1>2, RingConstants DEF RecordsInv, Slots
<1>7. \A t \in Streams, i \in Slots : Passed(t, i)' => Passed(t, i) \/ (t = s /\ i = pk.i)
  BY <1>1, <1>2, <1>6, RingConstants DEF Passed, Slots
<1>8. CollectInv'
  <2>1. pk'.i \in Slots /\ pk'.todo \subseteq Streams
    BY <1>1, <1>2, <1>6, RingConstants DEF PackInv, CollectInv, Slots
  <2>2. \A y \in stable : y.stream \in Streams /\ InWindow(y) /\ InWindow(y)' /\ y # NoSample
    BY <1>1, <1>2 DEF PackInv, CollectInv, InWindow
  <2>3. \A y \in stable : \E i \in Slots : ring[y.stream].slots[i] = y
    BY <1>1 DEF PackInv, CollectInv
  <2>4. ASSUME NEW y \in stable, NEW i \in Slots, ring[y.stream].slots[i] = y, Passed(y.stream, i)'
        PROVE  y \in pk'.got
    <3>1. CASE Passed(y.stream, i)
      BY <3>1, <2>4, <1>1, <1>2 DEF PackInv, CollectInv
    <3>2. CASE y.stream = s /\ i = pk.i
      BY <3>2, <2>2, <2>4, <1>2
    <3> QED  BY <3>1, <3>2, <1>7, <2>2, <2>4
  <2> QED  BY <2>1, <2>2, <2>3, <2>4, <1>1 DEF CollectInv, ringVars
<1> QED  BY <1>3, <1>4, <1>5, <1>8 DEF PackInv

LEMMA CreateFileKeeps ==
  ASSUME PackInv, CreateFile
  PROVE  PackInv'
<1>1. /\ pk.pc = "collect" /\ pk.todo = {} /\ UNCHANGED <<ringVars, stable>> /\ result = "none" /\ RecordsInv
  BY DEF CreateFile, PackInv, FooterInv
<1>2. RingInv'
  BY <1>1, RingUnchanged DEF PackInv
<1>3. \/ pk' = NoPack /\ result' = "no data" /\ mcap' = mcap
      \/ /\ pk' = [pk EXCEPT !.pc = "write", !.seq = Filtered(Sorted(pk.got))]
         /\ mcap' = StartFile /\ result' = result
  BY DEF CreateFile
<1> DEFINE Outcome == /\ pk'.pc \in {"idle", "write"} /\ RecordsInv'
                      /\ pk'.pc = "write" => pk'.got = pk.got /\ mcap'.footer = FALSE /\ result' = "none"
                      /\ pk'.pc = "idle" => mcap' = mcap /\ result' = "no data"
<1>4. Outcome
  <2>1. CASE pk' = NoPack /\ result' = "no data" /\ mcap' = mcap
    BY <1>1, <2>1 DEF RecordsInv, NoPack
  <2>2. CASE /\ pk' = [pk EXCEPT !.pc = "write", !.seq = Filtered(Sorted(pk.got))]
             /\ mcap' = StartFile /\ result' = result
    <3>1. pk'.pc = "write" /\ pk'.got = pk.got /\ pk' = [pc |-> pk'.pc, from |-> pk'.from, to |-> pk'.to,
            todo |-> pk'.todo, cur |-> pk'.cur, i |-> pk'.i, got |-> pk'.got, seq |-> pk'.seq]
      BY <1>1, <2>2 DEF RecordsInv
    <3>2. mcap'.footer = FALSE /\ mcap' = [channels |-> mcap'.channels, chunk |-> mcap'.chunk,
            chunks |-> mcap'.chunks, index |-> mcap'.index, count |-> mcap'.count, footer |-> mcap'.footer]
      BY <2>2 DEF StartFile, NewFile
    <3> QED  BY <1>1, <2>2, <3>1, <3>2 DEF RecordsInv
  <2> QED  BY <1>3, <2>1, <2>2
<1>5. CollectInv'
  BY <1>4 DEF CollectInv
<1>6. stable \subseteq pk.got
  <2> SUFFICES ASSUME NEW x \in stable PROVE x \in pk.got
    OBVIOUS
  <2>1. PICK i \in Slots : ring[x.stream].slots[i] = x
    BY <1>1 DEF PackInv, CollectInv
  <2>2. Passed(x.stream, i)
    BY <1>1 DEF Passed
  <2> QED  BY <1>1, <2>1, <2>2 DEF PackInv, CollectInv
<1>7. CollectedInv' /\ FooterInv'
  BY <1>1, <1>4, <1>6 DEF PackInv, CollectedInv, FooterInv
<1> QED  BY <1>2, <1>4, <1>5, <1>7 DEF PackInv

LEMMA WriteSampleKeeps ==
  ASSUME PackInv, WriteSample
  PROVE  PackInv'
<1> DEFINE f == Message(mcap, Head(pk.seq))
<1>1. /\ pk.pc = "write" /\ pk' = [pk EXCEPT !.seq = Tail(@)] /\ RecordsInv
      /\ mcap' \in {f, FlushChunk(f)} /\ UNCHANGED <<ringVars, result, stable>>
  BY DEF WriteSample, PackInv
<1>2. /\ f.footer = mcap.footer
      /\ f = [channels |-> f.channels, chunk |-> f.chunk, chunks |-> f.chunks,
              index |-> f.index, count |-> f.count, footer |-> f.footer]
  <2> DEFINE chunk == Append(mcap.chunk, Head(pk.seq))
             count == [mcap.count EXCEPT ![Head(pk.seq).stream] = @ + 1]
  <2>1. f = [mcap EXCEPT !.chunk = chunk, !.count = count]
    BY DEF Message
  <2> HIDE DEF chunk, count, f
  <2> QED  BY <1>1, <2>1 DEF RecordsInv
<1> HIDE DEF f
<1>3. RecordsInv' /\ mcap'.footer = mcap.footer
  BY <1>1, <1>2 DEF FlushChunk, RecordsInv
<1>4. pk'.pc = "write" /\ pk'.got = pk.got
  BY <1>1 DEF RecordsInv
<1>5. RingInv'
  BY <1>1, RingUnchanged DEF PackInv
<1> QED  BY <1>1, <1>3, <1>4, <1>5 DEF PackInv, CollectInv, CollectedInv, FooterInv

LEMMA PackageEnds ==
  ASSUME PackInv, FinishPackage \/ WriteFails
  PROVE  PackInv'
<1>1. /\ pk.pc = "write" /\ pk' = [pk EXCEPT !.pc = "idle"] /\ RecordsInv
      /\ UNCHANGED <<ringVars, stable>> /\ result' \in {"ok", "error"} /\ result = "none"
  BY DEF FinishPackage, WriteFails, PackInv, FooterInv
<1>2. pk'.pc = "idle" /\ pk'.got = pk.got
  BY <1>1 DEF RecordsInv
<1>3. RecordsInv'
  <2>1. CASE FinishPackage
    <3>1. PICK written \in BOOLEAN : mcap' = FinishFile(written)
      BY <2>1 DEF FinishPackage
    <3> QED  BY <1>1, <3>1 DEF FinishFile, Summary, FlushChunk, RecordsInv
  <2>2. CASE WriteFails
    BY <2>2, <1>1 DEF WriteFails, RecordsInv
  <2> QED  BY <2>1, <2>2
<1>4. RingInv'
  BY <1>1, RingUnchanged DEF PackInv
<1> QED  BY <1>1, <1>2, <1>3, <1>4 DEF PackInv, CollectInv, CollectedInv, FooterInv

\* A step of the rings writes at most one slot, with a sample that was in none.
LEMMA RingStepSlots ==
  ASSUME RingInv, RingNext, NEW s \in Streams, NEW i \in Slots, NEW x,
         \E j \in Slots : ring[s].slots[j] = x,
         x # NoSample, ring'[s].slots[i] = x
  PROVE  ring[s].slots[i] = x
<1>1. CASE \E p \in Producers : TakeSlot(p) \/ \E t \in Streams : TakeSeq(p, t)
  <2>1. ASSUME NEW p \in Producers, TakeSlot(p)
        PROVE  ring'[s].slots = ring[s].slots
    BY <2>1 DEF TakeSlot, RingInv, RingTypes
  <2>2. ASSUME NEW p \in Producers, NEW t \in Streams, TakeSeq(p, t)
        PROVE  ring'[s].slots = ring[s].slots
    BY <2>2 DEF TakeSeq, RingInv, RingTypes
  <2> QED  BY <1>1, <2>1, <2>2
<1>2. CASE (\E k \in {"clear", "evict"} : BeginSweep(k)) \/ SweepSlot \/ SweepRing
  <2>1. Emptied
    BY <1>2, BeginSweepRing, SweepSlotRing, SweepRingRing
  <2> QED  BY <2>1 DEF Emptied
<1>3. ASSUME NEW p \in Producers, WriteSlot(p)
      PROVE  ring[s].slots[i] = x
  <2>1. /\ push[p] # NoSample /\ push[p].smp \in Samples
        /\ ring' = [ring EXCEPT ![push[p].smp.stream].slots[push[p].at] = push[p].smp]
    BY <1>3 DEF WriteSlot, RingInv, RingTypes, Pushes
  <2>2. ring'[s].slots[i] = ring[s].slots[i] \/ (push[p].smp.stream = s /\ ring'[s].slots[i] = push[p].smp)
    BY <2>1 DEF RingInv, RingTypes, Samples
  <2>3. CASE push[p].smp.stream = s /\ x = push[p].smp
    BY <2>1, <2>3 DEF RingInv, OnWayUnique
  <2> QED  BY <2>2, <2>3
<1> QED  BY <1>1, <1>2, <1>3 DEF RingNext

LEMMA RingsKeep ==
  ASSUME PackInv, RingNext,
         stable' = {x \in stable : x \in {ring'[x.stream].slots[i] : i \in Slots}},
         UNCHANGED <<pk, mcap, result>>
  PROVE  PackInv'
<1>1. RingInv'
  BY RingStep DEF PackInv
<1>2. RecordsInv' /\ FooterInv' /\ CollectedInv'
  BY DEF PackInv, RecordsInv, FooterInv, CollectedInv
<1>3. CollectInv'
  <2> SUFFICES ASSUME pk.pc = "collect" PROVE CollectInv'
    BY DEF CollectInv
  <2>1. pk'.i \in Slots /\ pk'.todo \subseteq Streams
    BY DEF PackInv, CollectInv
  <2>2. \A x \in stable' : x \in stable /\ x.stream \in Streams /\ InWindow(x)' /\ x # NoSample
    BY DEF PackInv, CollectInv, InWindow
  <2>3. \A x \in stable' : \E i \in Slots : ring'[x.stream].slots[i] = x
    OBVIOUS
  <2>4. ASSUME NEW x \in stable', NEW i \in Slots, ring'[x.stream].slots[i] = x, Passed(x.stream, i)'
        PROVE  x \in pk'.got
    <3>1. x.stream \in Streams /\ x # NoSample /\ x \in stable
      BY <2>2
    <3>2. \E j \in Slots : ring[x.stream].slots[j] = x
      BY <3>1 DEF PackInv, CollectInv
    <3>3. ring[x.stream].slots[i] = x
      BY <2>4, <3>1, <3>2, RingStepSlots DEF PackInv
    <3>4. Passed(x.stream, i)
      BY <2>4 DEF Passed
    <3> QED  BY <3>1, <3>3, <3>4 DEF PackInv, CollectInv
  <2> QED  BY <2>1, <2>2, <2>3, <2>4 DEF CollectInv
<1> QED  BY <1>1, <1>2, <1>3 DEF PackInv

LEMMA PackStep == PackInv /\ [PackNext]_packVars => PackInv'
<1> SUFFICES ASSUME PackInv, [PackNext]_packVars PROVE PackInv'
  OBVIOUS
<1>1. CASE PackNext
  BY <1>1, BeginPackageKeeps, CollectSlotKeeps, CreateFileKeeps, WriteSampleKeeps, PackageEnds, RingsKeep
  DEF PackNext
<1>2. CASE UNCHANGED packVars
  <2>1. RingInv'
    BY <1>2, RingUnchanged DEF packVars, PackInv
  <2> QED  BY <1>2, <2>1 DEF packVars, ringVars, PackInv, RecordsInv, CollectInv, CollectedInv, FooterInv, InWindow, Passed
<1> QED  BY <1>1, <1>2

\* However pushes, clears and evictions run into each other, no two samples of
\* a stream carry one number, in the ring or on the way to it.
THEOREM SequencesAlwaysUnique == PackSpec => []SequencesUnique
<1>1. PackInv => SequencesUnique
  BY RingInvUnique DEF PackInv
<1> QED  BY <1>1, PackInvInit, PackStep, PTL DEF PackSpec

\* A file with its footer holds every sample of the window that stayed in its
\* ring while the rings were read (get_range, do_package).
THEOREM EpisodeAlwaysHoldsWindow == PackSpec => []EpisodeHoldsWindow
<1>1. PackInv => EpisodeHoldsWindow
  BY DEF PackInv, CollectedInv, FooterInv, EpisodeHoldsWindow
<1> QED  BY <1>1, PackInvInit, PackStep, PTL DEF PackSpec

-----------------------------------------------------------------------------
(* The samples in the order of time *)

\* The samples of a finite set, each once and in the order of time.
LEMMA SortedExists ==
  ASSUME NEW S, \A x \in S : x.ts \in Nat
  PROVE  \A G \in SUBSET S : IsFiniteSet(G) =>
           \E q \in Bijection(1..Cardinality(G), G) : InTimeOrder(q)
<1> DEFINE CanSort(n, G) == \E q \in Bijection(1..n, G) : InTimeOrder(q)
           P == {n \in Nat : \A G \in SUBSET S : IsFiniteSet(G) /\ Cardinality(G) = n => CanSort(n, G)}
<1>1. 0 \in P
  <2>1. ASSUME NEW G \in SUBSET S, IsFiniteSet(G), Cardinality(G) = 0 PROVE CanSort(0, G)
    <3>1. G = {}
      BY <2>1, FS_EmptySet
    <3> DEFINE q == [i \in 1..0 |-> 0]
    <3>2. q \in Bijection(1..0, G) /\ InTimeOrder(q)
      BY <3>1 DEF Bijection, Injection, Surjection, IsInjective, InTimeOrder
    <3> QED
      BY <3>2
  <2> HIDE DEF CanSort
  <2> QED
    BY <2>1
<1>2. ASSUME NEW n \in P PROVE n + 1 \in P
  <2>0. n \in Nat
    OBVIOUS
  <2>1. ASSUME NEW G \in SUBSET S, IsFiniteSet(G), Cardinality(G) = n + 1 PROVE CanSort(n + 1, G)
    <3>1. PICK m \in G : \A x \in G : m.ts <= x.ts
      <4> DEFINE T == {x.ts : x \in G}
      <4>1. T \in SUBSET Nat
        OBVIOUS
      <4>2. G # {}
        BY <2>0, <2>1, FS_EmptySet
      <4>3. PICK t \in T : \A i \in T : t <= i
        <5>1. T # {}
          BY <4>2
        <5> HIDE DEF T
        <5> QED
          BY <4>1, <5>1, LeastNatural
      <4>4. PICK m \in G : t = m.ts
        BY <4>3
      <4> QED
        BY <4>3, <4>4
    <3> DEFINE H == G \ {m}
    <3>2. H \in SUBSET S /\ IsFiniteSet(H) /\ Cardinality(H) = n
      BY <2>0, <2>1, <3>1, FS_RemoveElement
    <3> HIDE DEF H
    <3>3. CanSort(n, H)
      <4> HIDE DEF CanSort
      <4> QED
        BY <1>2, <3>2
    <3>4. PICK p \in Bijection(1..n, H) : InTimeOrder(p)
      BY <3>3
    <3>5. /\ p \in [1..n -> H]
          /\ \A i, j \in 1..n : p[i] = p[j] => i = j
          /\ \A x \in H : \E i \in 1..n : p[i] = x
          /\ \A i, j \in 1..n : i < j => p[i].ts <= p[j].ts
      BY <3>4 DEF Bijection, Injection, Surjection, IsInjective, InTimeOrder
    <3> DEFINE q == [i \in 1..(n + 1) |-> IF i = 1 THEN m ELSE p[i - 1]]
    <3>6. \A i \in 1..(n + 1) : i # 1 => i - 1 \in 1..n /\ p[i - 1] \in H
      BY <2>0, <3>5
    <3>7. q \in [1..(n + 1) -> G]
      BY <3>1, <3>6 DEF H
    <3>8. /\ 1 \in 1..(n + 1) /\ q[1] = m
          /\ \A i \in 1..(n + 1) : i # 1 => q[i] = p[i - 1]
      BY <2>0
    <3> HIDE DEF q
    <3>9. ASSUME NEW i \in 1..(n + 1), NEW j \in 1..(n + 1), q[i] = q[j] PROVE i = j
      <4>1. CASE i = 1 \/ j = 1
        BY <3>6, <3>8, <3>9, <4>1 DEF H
      <4>2. CASE i # 1 /\ j # 1
        <5>1. i - 1 = j - 1
          BY <3>5, <3>6, <3>8, <3>9, <4>2
        <5> QED
          BY <2>0, <5>1
      <4> QED
        BY <4>1, <4>2
    <3>10. ASSUME NEW x \in G PROVE \E i \in 1..(n + 1) : q[i] = x
      <4>1. CASE x = m
        BY <3>8, <4>1
      <4>2. CASE x # m
        <5>1. PICK i \in 1..n : p[i] = x
          BY <3>5, <4>2 DEF H
        <5>2. i + 1 \in 1..(n + 1) /\ i + 1 # 1 /\ (i + 1) - 1 = i
          BY <2>0
        <5> QED
          BY <3>8, <5>1, <5>2
      <4> QED
        BY <4>1, <4>2
    <3>11. ASSUME NEW i \in 1..(n + 1), NEW j \in 1..(n + 1), i < j PROVE q[i].ts <= q[j].ts
      <4>1. j # 1 /\ q[j] = p[j - 1] /\ q[j] \in G
        BY <2>0, <3>6, <3>8, <3>11 DEF H
      <4>2. CASE i = 1
        BY <3>1, <3>8, <4>1, <4>2
      <4>3. CASE i # 1
        <5>1. i - 1 \in 1..n /\ j - 1 \in 1..n /\ i - 1 < j - 1
          BY <2>0, <3>6, <3>11, <4>1, <4>3
        <5> QED
          BY <3>5, <3>8, <4>1, <4>3, <5>1
      <4> QED
        BY <4>2, <4>3
    <3>12. q \in Bijection(1..(n + 1), G)
      BY <3>7, <3>9, <3>10 DEF Bijection, Injection, Surjection, IsInjective
    <3>13. InTimeOrder(q)
      <4>1. DOMAIN q = 1..(n + 1)
        BY <3>7
      <4> QED
        BY <3>11, <4>1 DEF InTimeOrder
    <3> QED
      BY <3>12, <3>13
  <2> HIDE DEF CanSort
  <2> QED
    BY <2>0, <2>1
<1>3. Nat \subseteq P
  <2> P \in SUBSET Nat
    OBVIOUS
  <2> HIDE DEF P
  <2> QED
    BY <1>1, <1>2, EveryNatural
<1>4. ASSUME NEW G \in SUBSET S, IsFiniteSet(G) PROVE CanSort(Cardinality(G), G)
  <2>1. Cardinality(G) \in Nat
    BY <1>4, FS_CardinalityType
  <2> HIDE DEF CanSort
  <2> QED
    BY <1>3, <1>4, <2>1
<1> QED
  BY <1>4

\* What sort_by_key gives: every sample once, in the order of time.
Sorts(q, G) ==
  /\ q \in Seq(G) /\ Len(q) = Cardinality(G)
  /\ \A i, j \in 1..Len(q) : q[i] = q[j] => i = j
  /\ \A x \in G : \E i \in 1..Len(q) : q[i] = x
  /\ \A i, j \in 1..Len(q) : i < j => q[i].ts <= q[j].ts

LEMMA SortedSorts ==
  ASSUME NEW S, \A x \in S : x.ts \in Nat, NEW G \in SUBSET S, IsFiniteSet(G)
  PROVE  Sorts(Sorted(G), G)
<1> DEFINE n == Cardinality(G)
           q == Sorted(G)
<1>1. n \in Nat
  BY FS_CardinalityType
<1>2. \E s \in Bijection(1..n, G) : InTimeOrder(s)
  BY SortedExists
<1>3. q \in Bijection(1..n, G) /\ InTimeOrder(q)
  BY <1>2 DEF Sorted
<1> HIDE DEF n, q
<1>4. /\ q \in [1..n -> G]
      /\ \A i, j \in 1..n : q[i] = q[j] => i = j
      /\ \A x \in G : \E i \in 1..n : q[i] = x
  BY <1>3 DEF Bijection, Injection, Surjection, IsInjective
<1>5. DOMAIN q = 1..n
  BY <1>4
<1>6. \A i, j \in 1..n : i < j => q[i].ts <= q[j].ts
  BY <1>3, <1>5 DEF InTimeOrder
<1>7. q \in Seq(G)
  BY <1>1, <1>4, SeqDef
<1>8. Len(q) = n
  BY <1>1, <1>5, <1>7
<1> QED
  BY <1>4, <1>6, <1>7, <1>8 DEF Sorts, n, q

-----------------------------------------------------------------------------
(* Chunks, one after another *)

\* One round of the recursion of FlattenSeq.
FlatOne(cs, f, i) == IF i = 1 THEN cs[i] ELSE f[i - 1] \o cs[i]
Flats(cs) == CHOOSE f : f = [i \in 1..Len(cs) |-> FlatOne(cs, f, i)]

LEMMA FlattenUnfolds ==
  ASSUME NEW cs
  PROVE  FlattenSeq(cs) = IF Len(cs) = 0 THEN cs ELSE Flats(cs)[Len(cs)]
BY DEF FlattenSeq, Flats, FlatOne

LEMMA FlatsExist ==
  ASSUME NEW cs, NEW L \in Nat
  PROVE  \E f : f = [i \in 1..L |-> FlatOne(cs, f, i)]
<1> DEFINE D == 1..L
           IsFun(f) == f = [i \in D |-> f[i]]
           Good(n, f) == \A i \in D : i <= n => f[i] = FlatOne(cs, f, i)
           P == {n \in Nat : \E f : IsFun(f) /\ Good(n, f)}
<1>1. 0 \in P
  <2> DEFINE f == [i \in D |-> 0]
  <2>1. IsFun(f) /\ Good(0, f)
    OBVIOUS
  <2> HIDE DEF f, IsFun, Good
  <2> QED
    BY <2>1
<1>2. ASSUME NEW n \in P PROVE n + 1 \in P
  <2>0. n \in Nat /\ n + 1 \in Nat
    OBVIOUS
  <2>1. PICK f : IsFun(f) /\ Good(n, f)
    <3> HIDE DEF IsFun, Good
    <3> QED
      BY <1>2
  <2> DEFINE g == [i \in D |-> FlatOne(cs, f, i)]
  <2>2. IsFun(g)
    OBVIOUS
  <2>3. \A i \in D : g[i] = FlatOne(cs, f, i)
    OBVIOUS
  <2>4. \A i \in D : i <= n => g[i] = f[i]
    BY <2>1, <2>3
  <2> HIDE DEF g, IsFun
  <2>5. ASSUME NEW i \in D, i <= n + 1 PROVE g[i] = FlatOne(cs, g, i)
    <3>1. CASE i = 1
      BY <2>3, <3>1 DEF FlatOne
    <3>2. CASE i # 1
      <4>1. i - 1 \in D /\ i - 1 <= n
        BY <2>0, <2>5, <3>2
      <4>2. g[i - 1] = f[i - 1]
        BY <2>4, <4>1
      <4> QED
        BY <2>3, <3>2, <4>2 DEF FlatOne
    <3> QED
      BY <3>1, <3>2
  <2>6. Good(n + 1, g)
    BY <2>5
  <2> HIDE DEF Good
  <2> QED
    BY <2>0, <2>2, <2>6
<1>3. Nat \subseteq P
  <2> P \in SUBSET Nat
    OBVIOUS
  <2> HIDE DEF P
  <2> QED
    BY <1>1, <1>2, EveryNatural
<1>4. PICK f : IsFun(f) /\ Good(L, f)
  <2> HIDE DEF IsFun, Good
  <2> QED
    BY <1>3
<1>5. \A i \in D : f[i] = FlatOne(cs, f, i)
  BY <1>4
<1>6. f = [i \in D |-> FlatOne(cs, f, i)]
  <2>1. f = [i \in D |-> f[i]]
    BY <1>4
  <2> QED
    BY <1>5, <2>1
<1> QED
  BY <1>6

\* What the rounds give.
LEMMA FlatsRounds ==
  ASSUME NEW cs, Len(cs) \in Nat
  PROVE  /\ Len(cs) > 0 => Flats(cs)[1] = cs[1]
         /\ \A i \in 1..(Len(cs) - 1) : Flats(cs)[i + 1] = Flats(cs)[i] \o cs[i + 1]
<1> DEFINE L == Len(cs)
           f == Flats(cs)
<1>1. f = [i \in 1..L |-> FlatOne(cs, f, i)]
  <2>1. \E g : g = [i \in 1..L |-> FlatOne(cs, g, i)]
    BY FlatsExist
  <2> QED
    BY <2>1 DEF Flats
<1> HIDE DEF f
<1>2. \A i \in 1..L : f[i] = FlatOne(cs, f, i)
  BY <1>1
<1>3. L > 0 => f[1] = cs[1]
  BY <1>2 DEF FlatOne
<1>4. ASSUME NEW i \in 1..(L - 1) PROVE f[i + 1] = f[i] \o cs[i + 1]
  <2>1. i + 1 \in 1..L /\ i + 1 # 1 /\ (i + 1) - 1 = i
    OBVIOUS
  <2> QED
    BY <1>2, <2>1 DEF FlatOne
<1> QED
  BY <1>3, <1>4 DEF f

LEMMA FlattenTyped ==
  ASSUME NEW S, NEW cs \in Seq(Seq(S))
  PROVE  FlattenSeq(cs) \in Seq(S)
<1> DEFINE L == Len(cs)
           f == Flats(cs)
           P == {n \in Nat : n + 1 <= L => f[n + 1] \in Seq(S)}
<1>0. L \in Nat /\ \A i \in 1..L : cs[i] \in Seq(S)
  OBVIOUS
<1>1. /\ L > 0 => f[1] = cs[1]
      /\ \A i \in 1..(L - 1) : f[i + 1] = f[i] \o cs[i + 1]
  BY <1>0, FlatsRounds
<1> HIDE DEF f, L
<1>2. 0 \in P
  BY <1>0, <1>1
<1>3. ASSUME NEW n \in P PROVE n + 1 \in P
  <2>1. CASE (n + 1) + 1 <= L
    <3>1. n \in Nat /\ n + 1 \in 1..(L - 1) /\ (n + 1) + 1 \in 1..L /\ n + 1 <= L
      BY <1>0, <2>1
    <3>2. f[n + 1] \in Seq(S) /\ cs[(n + 1) + 1] \in Seq(S)
      BY <1>0, <1>3, <3>1
    <3>3. f[n + 1] \o cs[(n + 1) + 1] \in Seq(S)
      BY <3>2, ConcatProperties
    <3>4. f[(n + 1) + 1] = f[n + 1] \o cs[(n + 1) + 1]
      BY <1>1, <3>1, Zenon
    <3>5. f[(n + 1) + 1] \in Seq(S)
      BY <3>3, <3>4, Zenon
    <3> QED
      BY <3>1, <3>5
  <2>2. CASE ~((n + 1) + 1 <= L)
    BY <2>2
  <2> QED
    BY <2>1, <2>2
<1>4. Nat \subseteq P
  <2> P \in SUBSET Nat
    OBVIOUS
  <2> HIDE DEF P
  <2> QED
    BY <1>2, <1>3, EveryNatural
<1>5. CASE L = 0
  <2>1. cs = << >>
    BY <1>5 DEF L
  <2>2. FlattenSeq(cs) = cs
    BY <1>5, FlattenUnfolds DEF L
  <2>3. << >> \in Seq(S)
    BY EmptySeq
  <2>4. FlattenSeq(cs) = << >>
    BY <2>1, <2>2, Zenon
  <2> QED
    BY <2>3, <2>4, Zenon
<1>6. CASE L # 0
  <2>1. L - 1 \in Nat /\ (L - 1) + 1 = L
    BY <1>0, <1>6
  <2>2. f[L] \in Seq(S)
    BY <1>4, <2>1
  <2>3. FlattenSeq(cs) = f[L]
    BY <1>6, FlattenUnfolds DEF L, f
  <2> QED
    BY <2>2, <2>3
<1> QED
  BY <1>5, <1>6

LEMMA FlattenAppend ==
  ASSUME NEW S, NEW cs \in Seq(Seq(S)), NEW c \in Seq(S)
  PROVE  FlattenSeq(Append(cs, c)) = FlattenSeq(cs) \o c
<1> DEFINE L == Len(cs)
           ds == Append(cs, c)
           f == Flats(cs)
           g == Flats(ds)
           P == {n \in Nat : n + 1 <= L => f[n + 1] = g[n + 1]}
<1>0. /\ L \in Nat /\ ds \in Seq(Seq(S)) /\ Len(ds) = L + 1
      /\ \A i \in 1..L : ds[i] = cs[i]
      /\ ds[L + 1] = c
  BY AppendProperties
<1>1. /\ L > 0 => f[1] = cs[1]
      /\ \A i \in 1..(L - 1) : f[i + 1] = f[i] \o cs[i + 1]
  BY <1>0, FlatsRounds
<1>2. /\ g[1] = ds[1]
      /\ \A i \in 1..L : g[i + 1] = g[i] \o ds[i + 1]
  <2>1. Len(ds) \in Nat /\ Len(ds) > 0 /\ Len(ds) - 1 = L
    BY <1>0
  <2> HIDE DEF ds, L, g
  <2>2. /\ Len(ds) > 0 => Flats(ds)[1] = ds[1]
        /\ \A i \in 1..(Len(ds) - 1) : Flats(ds)[i + 1] = Flats(ds)[i] \o ds[i + 1]
    BY <2>1, FlatsRounds
  <2> QED
    BY <2>1, <2>2 DEF g
<1> HIDE DEF f, g, ds, L
<1>3. 0 \in P
  BY <1>0, <1>1, <1>2
<1>4. ASSUME NEW n \in P PROVE n + 1 \in P
  <2>1. CASE (n + 1) + 1 <= L
    <3>1. /\ n \in Nat /\ n + 1 \in 1..(L - 1) /\ n + 1 \in 1..L /\ (n + 1) + 1 \in 1..L /\ n + 1 <= L
          /\ n + 1 \in Nat
      BY <1>0, <2>1
    <3>2. f[n + 1] = g[n + 1] /\ cs[(n + 1) + 1] = ds[(n + 1) + 1]
      BY <1>0, <1>4, <3>1
    <3>3. f[(n + 1) + 1] = g[(n + 1) + 1]
      BY <1>1, <1>2, <3>1, <3>2
    <3> QED
      BY <3>1, <3>3
  <2>2. CASE ~((n + 1) + 1 <= L)
    BY <2>2
  <2> QED
    BY <2>1, <2>2
<1>5. Nat \subseteq P
  <2> P \in SUBSET Nat
    OBVIOUS
  <2> HIDE DEF P
  <2> QED
    BY <1>3, <1>4, EveryNatural
<1>6. FlattenSeq(ds) = g[L + 1]
  <2>1. Len(ds) = L + 1 /\ L + 1 # 0
    BY <1>0
  <2> QED
    BY <2>1, FlattenUnfolds DEF g
<1>7. CASE L = 0
  <2>1. FlattenSeq(cs) = << >>
    <3>1. cs = << >>
      BY <1>7 DEF L
    <3> QED
      BY <1>7, <3>1, FlattenUnfolds DEF L
  <2>2. g[L + 1] = c
    BY <1>0, <1>2, <1>7
  <2> QED
    BY <1>6, <2>1, <2>2, ConcatEmptySeq DEF ds
<1>8. CASE L # 0
  <2>1. L - 1 \in Nat /\ (L - 1) + 1 = L /\ L \in 1..L
    BY <1>0, <1>8
  <2>2. f[L] = g[L]
    BY <1>5, <2>1
  <2>3. FlattenSeq(cs) = f[L]
    BY <1>8, FlattenUnfolds DEF L, f
  <2>4. g[L + 1] = g[L] \o c
    BY <1>0, <1>2, <2>1
  <2> QED
    BY <1>6, <2>2, <2>3, <2>4 DEF ds
<1> QED
  BY <1>7, <1>8


-----------------------------------------------------------------------------
(* What is written *)

\* The next sample goes from the rest to the end of what is written.
Moves(S, a, b, r) ==
  /\ Append(b, Head(r)) \in Seq(S) /\ Tail(r) \in Seq(S) /\ Head(r) \in S
  /\ (a \o Append(b, Head(r))) \o Tail(r) = (a \o b) \o r
  /\ Len(a \o Append(b, Head(r))) = Len(a \o b) + 1
  /\ Head(r) = ((a \o b) \o r)[Len(a \o b) + 1]

LEMMA NextSample ==
  ASSUME NEW S, NEW a \in Seq(S), NEW b \in Seq(S), NEW r \in Seq(S), r # << >>
  PROVE  Moves(S, a, b, r)
<1> DEFINE x == Head(r)
           t == Tail(r)
<1>1. x \in S /\ t \in Seq(S)
  BY HeadTailProperties
<1>2. r = << x >> \o t /\ x = r[1] /\ Len(r) \in Nat /\ Len(r) > 0 /\ << x >> \in Seq(S)
  OBVIOUS
<1> HIDE DEF x, t
<1>3. Append(b, x) = b \o << x >> /\ Append(b, x) \in Seq(S)
  BY <1>1, <1>2, AppendIsConcat, AppendProperties
<1>4. a \o (b \o << x >>) = (a \o b) \o << x >> /\ a \o b \in Seq(S)
  BY <1>2, ConcatAssociative, ConcatProperties
<1>5. ((a \o b) \o << x >>) \o t = (a \o b) \o (<< x >> \o t)
  BY <1>1, <1>2, <1>4, ConcatAssociative
<1>6. (a \o Append(b, x)) \o t = (a \o b) \o r
  BY <1>2, <1>3, <1>4, <1>5, Zenon
<1>7. Len((a \o b) \o << x >>) = Len(a \o b) + 1
  BY <1>2, <1>4
<1>8. Len(a \o Append(b, x)) = Len(a \o b) + 1
  BY <1>3, <1>4, <1>7
<1> DEFINE w == a \o b
<1>9. w \in Seq(S)
  BY <1>4
<1> HIDE DEF w
<1>10. (w \o r)[Len(w) + 1] = r[1]
  BY <1>2, <1>9
<1> QED
  BY <1>1, <1>2, <1>3, <1>6, <1>8, <1>10 DEF x, t, w, Moves

\* A piece of a sequence in the order of time is in the order of time.
LEMMA PieceInOrder ==
  ASSUME NEW S, NEW a \in Seq(S), NEW b \in Seq(S), NEW r \in Seq(S), NEW q, q = (a \o b) \o r,
         \A i, j \in 1..Len(q) : i < j => q[i].ts <= q[j].ts
  PROVE  \A i, j \in 1..Len(b) : i < j => b[i].ts <= b[j].ts
<1> SUFFICES ASSUME NEW i \in 1..Len(b), NEW j \in 1..Len(b), i < j PROVE b[i].ts <= b[j].ts
  OBVIOUS
<1>1. /\ Len(a) \in Nat /\ Len(b) \in Nat /\ Len(r) \in Nat
      /\ a \o b \in Seq(S) /\ Len(a \o b) = Len(a) + Len(b)
  OBVIOUS
<1>2. Len(q) = (Len(a) + Len(b)) + Len(r)
  BY <1>1, ConcatProperties
<1>3. \A k \in 1..Len(b) : (a \o b)[Len(a) + k] = b[k]
  OBVIOUS
<1>4. \A k \in 1..(Len(a) + Len(b)) : q[k] = (a \o b)[k]
  BY <1>1, <1>2, ConcatProperties
<1>5. \A k \in 1..Len(b) : q[Len(a) + k] = b[k] /\ Len(a) + k \in 1..Len(q)
  BY <1>1, <1>2, <1>3, <1>4
<1>6. Len(a) + i < Len(a) + j
  BY <1>1
<1>7. q[Len(a) + i].ts <= q[Len(a) + j].ts
  BY <1>5, <1>6
<1> QED
  BY <1>5, <1>7

\* The places of the first n samples that a stream has.
OfStream(q, n, s) == {k \in 1..n : q[k].stream = s}

LEMMA CountOne ==
  ASSUME NEW q, NEW n \in Nat, NEW s
  PROVE  /\ Cardinality(OfStream(q, n, s)) \in Nat
         /\ Cardinality(OfStream(q, n + 1, s)) =
              IF q[n + 1].stream = s THEN Cardinality(OfStream(q, n, s)) + 1 ELSE Cardinality(OfStream(q, n, s))
<1> DEFINE T == OfStream(q, n, s)
<1>1. IsFiniteSet(T) /\ n + 1 \notin T
  <2>1. IsFiniteSet(1..n)
    BY FS_Interval
  <2>2. T \in SUBSET (1..n) /\ n + 1 \notin 1..n
    BY DEF OfStream
  <2> QED
    BY <2>1, <2>2, FS_Subset
<1>2. OfStream(q, n + 1, s) = IF q[n + 1].stream = s THEN T \cup {n + 1} ELSE T
  <2>1. 1..(n + 1) = (1..n) \cup {n + 1}
    OBVIOUS
  <2> QED
    BY <2>1 DEF OfStream
<1> HIDE DEF T
<1>3. Cardinality(T \cup {n + 1}) = Cardinality(T) + 1
  BY <1>1, FS_AddElement
<1>4. Cardinality(T) \in Nat
  BY <1>1, FS_CardinalityType
<1> QED
  BY <1>2, <1>3, <1>4 DEF T

\* All samples written, their number by stream is that of the set.
LEMMA CountAll ==
  ASSUME NEW G, NEW q, Sorts(q, G), NEW s
  PROVE  Cardinality(OfStream(q, Len(q), s)) = Cardinality({x \in G : x.stream = s})
<1> DEFINE A == OfStream(q, Len(q), s)
           B == {x \in G : x.stream = s}
           f == [k \in A |-> q[k]]
<1>1. Len(q) \in Nat /\ \A k \in 1..Len(q) : q[k] \in G
  BY DEF Sorts
<1>2. IsFiniteSet(A)
  <2>1. IsFiniteSet(1..Len(q))
    BY <1>1, FS_Interval
  <2>2. A \in SUBSET (1..Len(q))
    BY DEF OfStream
  <2> QED
    BY <2>1, <2>2, FS_Subset
<1>3. f \in [A -> B]
  BY <1>1 DEF OfStream
<1>4. \A i, j \in A : f[i] = f[j] => i = j
  BY DEF OfStream, Sorts
<1>5. \A x \in B : \E k \in A : f[k] = x
  BY DEF OfStream, Sorts
<1> HIDE DEF f, A, B
<1>6. f \in Bijection(A, B)
  BY <1>3, <1>4, <1>5 DEF Bijection, Injection, Surjection, IsInjective
<1>7. ExistsBijection(A, B)
  BY <1>6 DEF ExistsBijection
<1>8. Cardinality(B) = Cardinality(A)
  BY <1>2, <1>7, FS_Bijection
<1> QED
  BY <1>8 DEF A, B

-----------------------------------------------------------------------------
(* The file of an episode *)

WrittenSamples(f) == FlattenSeq(f.chunks) \o f.chunk

Entries == [first : Nat, last : Nat]

\* The samples of a chunk lie between the bounds of its index entry.
Bounds(entry, chunk) == \A k \in 1..Len(chunk) : chunk[k].ts \in entry.first .. entry.last

\* The file holds a front of q and rest is the remainder: the chunks are indexed
\* and the statistics count what is written.
HoldsFront(f, S, q, rest) ==
  /\ f.chunk \in Seq(S) /\ f.chunks \in Seq(Seq(S)) /\ rest \in Seq(S)
  /\ WrittenSamples(f) \o rest = q
  /\ f.index \in Seq(Entries) /\ Len(f.index) = Len(f.chunks)
  /\ \A n \in 1..Len(f.chunks) : Bounds(f.index[n], f.chunks[n])
  /\ f.count \in [Streams -> Nat]
  /\ \A s \in Streams : f.count[s] = Cardinality(OfStream(q, Len(WrittenSamples(f)), s))

\* The fields of an McapWriter.
IsFile(f) == f = [channels |-> f.channels, chunk |-> f.chunk, chunks |-> f.chunks,
                  index |-> f.index, count |-> f.count, footer |-> f.footer]

\* write_message keeps it.
LEMMA MessageKeepsFront ==
  ASSUME NEW f, NEW S, NEW q, NEW rest, IsFile(f), HoldsFront(f, S, q, rest), rest # << >>,
         \A x \in S : x.stream \in Streams
  PROVE  /\ HoldsFront(Message(f, Head(rest)), S, q, Tail(rest))
         /\ IsFile(Message(f, Head(rest))) /\ Message(f, Head(rest)).footer = f.footer
<1> DEFINE x == Head(rest)
           a == FlattenSeq(f.chunks)
           b == f.chunk
           count == [f.count EXCEPT ![x.stream] = @ + 1]
           g == Message(f, x)
<1>0. /\ b \in Seq(S) /\ rest \in Seq(S) /\ f.chunks \in Seq(Seq(S))
      /\ (a \o b) \o rest = q
      /\ f.index \in Seq(Entries) /\ Len(f.index) = Len(f.chunks)
      /\ \A n \in 1..Len(f.chunks) : Bounds(f.index[n], f.chunks[n])
      /\ f.count \in [Streams -> Nat]
      /\ \A s \in Streams : f.count[s] = Cardinality(OfStream(q, Len(a \o b), s))
  BY DEF HoldsFront, WrittenSamples
<1>1. a \in Seq(S)
  BY <1>0, FlattenTyped
<1>2. /\ Append(b, x) \in Seq(S) /\ Tail(rest) \in Seq(S) /\ x \in S
      /\ (a \o Append(b, x)) \o Tail(rest) = q
      /\ Len(a \o Append(b, x)) = Len(a \o b) + 1
      /\ x = q[Len(a \o b) + 1]
  <2> HIDE DEF a, b, g, count
  <2>1. Moves(S, a, b, rest)
    <3>1. a \in Seq(S) /\ b \in Seq(S) /\ rest \in Seq(S)
      BY <1>0, <1>1
    <3> QED
      BY <3>1, NextSample
  <2>2. (a \o b) \o rest = q
    BY <1>0
  <2> HIDE DEF x
  <2> QED
    BY <2>1, <2>2, Zenon DEF x, Moves
<1>3. g = [f EXCEPT !.chunk = Append(b, x), !.count = count]
  BY DEF Message
<1> HIDE DEF a, b, x, count, g
<1>4. /\ g.chunk = Append(b, x) /\ g.chunks = f.chunks /\ g.index = f.index /\ g.count = count
      /\ g.footer = f.footer /\ IsFile(g)
  BY <1>3 DEF IsFile
<1>5. x.stream \in Streams /\ Len(a \o b) \in Nat
  BY <1>0, <1>1, <1>2, ConcatProperties
<1>6. count \in [Streams -> Nat]
  BY <1>0, <1>5 DEF count
<1>7. ASSUME NEW s \in Streams PROVE count[s] = Cardinality(OfStream(q, Len(a \o b) + 1, s))
  <2>1. f.count[s] = Cardinality(OfStream(q, Len(a \o b), s)) /\ f.count[s] \in Nat
    BY <1>0
  <2>2. Cardinality(OfStream(q, Len(a \o b) + 1, s)) = IF x.stream = s THEN f.count[s] + 1 ELSE f.count[s]
    <3>1. PICK n \in Nat : n = Len(a \o b)
      BY <1>5
    <3>2. q[n + 1] = x
      BY <1>2, <3>1
    <3>3. Cardinality(OfStream(q, n + 1, s)) =
            IF q[n + 1].stream = s THEN Cardinality(OfStream(q, n, s)) + 1 ELSE Cardinality(OfStream(q, n, s))
      BY CountOne
    <3> QED
      BY <2>1, <3>1, <3>2, <3>3
  <2>3. count[s] = IF x.stream = s THEN f.count[s] + 1 ELSE f.count[s]
    BY <1>0, <1>5 DEF count
  <2> QED
    BY <2>2, <2>3
<1>8. WrittenSamples(g) = a \o Append(b, x)
  BY <1>4 DEF WrittenSamples, a
<1>9. HoldsFront(g, S, q, Tail(rest))
  BY <1>0, <1>2, <1>4, <1>6, <1>7, <1>8 DEF HoldsFront
<1> QED
  BY <1>4, <1>9 DEF g, x

\* flush_chunk keeps it, and leaves no chunk.
LEMMA FlushKeepsFront ==
  ASSUME NEW f, NEW S, NEW q, NEW rest, IsFile(f), HoldsFront(f, S, q, rest),
         \A x \in S : x.ts \in Nat,
         \A i, j \in 1..Len(q) : i < j => q[i].ts <= q[j].ts
  PROVE  /\ HoldsFront(FlushChunk(f), S, q, rest) /\ FlushChunk(f).chunk = << >>
         /\ IsFile(FlushChunk(f)) /\ FlushChunk(f).footer = f.footer
<1>1. CASE f.chunk = << >>
  <2>1. FlushChunk(f) = f
    BY <1>1 DEF FlushChunk
  <2> QED
    BY <1>1, <2>1
<1>2. CASE f.chunk # << >>
  <2> DEFINE a == FlattenSeq(f.chunks)
             b == f.chunk
             entry == [first |-> Head(b).ts, last |-> b[Len(b)].ts]
             g == FlushChunk(f)
  <2>0. /\ b \in Seq(S) /\ rest \in Seq(S) /\ f.chunks \in Seq(Seq(S))
        /\ (a \o b) \o rest = q
        /\ f.index \in Seq(Entries) /\ Len(f.index) = Len(f.chunks)
        /\ \A n \in 1..Len(f.chunks) : Bounds(f.index[n], f.chunks[n])
        /\ f.count \in [Streams -> Nat]
        /\ \A s \in Streams : f.count[s] = Cardinality(OfStream(q, Len(a \o b), s))
    BY DEF HoldsFront, WrittenSamples
  <2>1. a \in Seq(S)
    BY <2>0, FlattenTyped
  <2>2. g = [f EXCEPT !.chunks = Append(f.chunks, b), !.chunk = << >>, !.index = Append(f.index, entry)]
    BY <1>2 DEF FlushChunk
  <2>3. /\ Len(b) \in Nat /\ Len(b) > 0 /\ Head(b) = b[1]
        /\ \A k \in 1..Len(b) : b[k] \in S /\ b[k].ts \in Nat
    BY <1>2, <2>0
  <2> HIDE DEF a, b, g
  <2>4. \A i, j \in 1..Len(b) : i < j => b[i].ts <= b[j].ts
    <3> HIDE DEF entry
    <3>1. q = (a \o b) \o rest
      BY <2>0
    <3>2. a \in Seq(S) /\ b \in Seq(S) /\ rest \in Seq(S)
      BY <2>0, <2>1
    <3> QED
      BY <3>1, <3>2, PieceInOrder
  <2>5. entry \in Entries /\ Bounds(entry, b)
    <3>1. 1 \in 1..Len(b) /\ Len(b) \in 1..Len(b)
      BY <2>3
    <3>2. entry.first = b[1].ts /\ entry.last = b[Len(b)].ts /\ b[1].ts \in Nat /\ b[Len(b)].ts \in Nat
      BY <2>3, <3>1
    <3>3. entry \in Entries
      BY <2>3, <3>1, <3>2 DEF Entries
    <3>4. ASSUME NEW k \in 1..Len(b) PROVE b[k].ts \in entry.first .. entry.last
      <4>1. b[1].ts <= b[k].ts
        BY <2>3, <2>4, <3>1
      <4>2. b[k].ts <= b[Len(b)].ts
        BY <2>3, <2>4, <3>1
      <4> QED
        BY <2>3, <3>2, <4>1, <4>2
    <3> QED
      BY <3>3, <3>4 DEF Bounds
  <2> HIDE DEF entry
  <2>6. /\ g.chunk = << >> /\ g.chunks = Append(f.chunks, b) /\ g.index = Append(f.index, entry)
        /\ g.count = f.count /\ g.footer = f.footer /\ IsFile(g)
    BY <2>2 DEF IsFile
  <2>7. g.chunks \in Seq(Seq(S)) /\ g.index \in Seq(Entries) /\ Len(g.index) = Len(g.chunks)
    BY <2>0, <2>5, <2>6, AppendProperties
  <2>8. ASSUME NEW n \in 1..Len(g.chunks) PROVE Bounds(g.index[n], g.chunks[n])
    <3>0. Len(f.chunks) \in Nat /\ Len(g.chunks) = Len(f.chunks) + 1
      BY <2>0, <2>6, AppendProperties
    <3>1. CASE n = Len(f.chunks) + 1
      <4>1. g.index[n] = entry /\ g.chunks[n] = b
        BY <2>0, <2>5, <2>6, <3>1, AppendProperties
      <4> QED
        BY <2>5, <4>1
    <3>2. CASE n \in 1..Len(f.chunks)
      <4>1. g.index[n] = f.index[n] /\ g.chunks[n] = f.chunks[n]
        BY <2>0, <2>5, <2>6, <3>2, AppendProperties
      <4> QED
        BY <2>0, <3>2, <4>1
    <3> QED
      BY <3>0, <3>1, <3>2
  <2>9. WrittenSamples(g) = a \o b
    <3>1. FlattenSeq(g.chunks) = a \o b
      BY <2>0, <2>6, FlattenAppend DEF a
    <3>2. a \o b \in Seq(S)
      BY <2>0, <2>1, ConcatProperties
    <3>3. (a \o b) \o << >> = a \o b
      BY <3>2, ConcatEmptySeq
    <3> QED
      BY <2>6, <3>1, <3>3 DEF WrittenSamples
  <2>10. g.chunk \in Seq(S)
    BY <2>6, EmptySeq
  <2>11. HoldsFront(g, S, q, rest)
    BY <2>0, <2>6, <2>7, <2>8, <2>9, <2>10 DEF HoldsFront
  <2> QED
    BY <2>6, <2>11 DEF g
<1> QED
  BY <1>1, <1>2

\* A new file holds the empty front.
LEMMA StartHoldsFront ==
  ASSUME NEW S, NEW q \in Seq(S)
  PROVE  HoldsFront(StartFile, S, q, q)
<1> DEFINE f == StartFile
<1>1. f.chunk = << >> /\ f.chunks = << >> /\ f.index = << >> /\ f.count = [s \in Streams |-> 0]
  BY DEF StartFile, NewFile
<1> HIDE DEF f
<1>2. << >> \in Seq(S) /\ << >> \in Seq(Seq(S)) /\ << >> \in Seq(Entries) /\ Len(<< >>) = 0
  BY EmptySeq
<1>3. FlattenSeq(<< >>) = << >>
  BY <1>2, FlattenUnfolds
<1>4. WrittenSamples(f) = << >>
  BY <1>1, <1>2, <1>3, ConcatEmptySeq DEF WrittenSamples
<1>5. << >> \o q = q
  BY ConcatEmptySeq
<1>6. ASSUME NEW s \in Streams PROVE f.count[s] = Cardinality(OfStream(q, 0, s))
  <2>1. OfStream(q, 0, s) = {}
    BY DEF OfStream
  <2> QED
    BY <1>1, <2>1, FS_EmptySet
<1>7. f.count \in [Streams -> Nat]
  BY <1>1
<1>8. \A n \in 1..Len(f.chunks) : Bounds(f.index[n], f.chunks[n])
  BY <1>1, <1>2
<1> QED
  BY <1>1, <1>2, <1>4, <1>5, <1>6, <1>7, <1>8 DEF HoldsFront, f

\* What was collected is a finite set of samples.
GotSamples == pk.got \in SUBSET Samples /\ IsFiniteSet(pk.got)

\* While the file is written it holds a front of the sorted samples; with its
\* footer it holds them all, in chunks.
FileInv ==
  /\ pk.pc = "collect" => GotSamples
  /\ pk.pc = "write" => GotSamples /\ HoldsFront(mcap, Samples, Sorted(pk.got), pk.seq)
  /\ mcap.footer => GotSamples /\ HoldsFront(mcap, Samples, Sorted(pk.got), << >>) /\ mcap.chunk = << >>

LEMMA SampleFacts == \A x \in Samples : x.ts \in Nat /\ x.stream \in Streams
BY DEF Samples

LEMMA GotSorted ==
  ASSUME GotSamples
  PROVE  Sorts(Sorted(pk.got), pk.got)
BY SampleFacts, SortedSorts DEF GotSamples

\* While a packaging runs the file has no footer.
LEMMA NoFooterYet ==
  ASSUME PackInv, pk.pc # "idle" \/ result = "none"
  PROVE  ~mcap.footer
BY DEF PackInv, FooterInv

LEMMA BeginFile ==
  ASSUME PackInv, FileInv, NEW back \in PreRolls, BeginPackage(back)
  PROVE  FileInv'
<1>1. pk'.pc = "collect" /\ pk'.got = {} /\ mcap' = mcap /\ result = "none"
  BY DEF BeginPackage, NoPack
<1>2. ~mcap.footer
  BY <1>1, NoFooterYet
<1>3. GotSamples'
  BY <1>1, FS_EmptySet DEF GotSamples
<1> QED
  BY <1>1, <1>2, <1>3 DEF FileInv

LEMMA CollectFile ==
  ASSUME PackInv, FileInv, NEW s \in Streams, CollectSlot(s)
  PROVE  FileInv'
<1> DEFINE x == ring[s].slots[pk.i]
<1>1. pk.pc = "collect" /\ mcap' = mcap /\ GotSamples /\ RecordsInv /\ pk.i \in Slots
  BY DEF CollectSlot, FileInv, PackInv, CollectInv
<1>2. ~mcap.footer
  BY <1>1, NoFooterYet
<1>3. pk'.pc = "collect" /\ (pk'.got = pk.got \/ (x # NoSample /\ pk'.got = pk.got \cup {x}))
  BY <1>1 DEF CollectSlot, RecordsInv
<1>4. x \in Samples \cup {NoSample}
  BY <1>1 DEF PackInv, RingInv, RingTypes
<1> HIDE DEF x
<1>5. GotSamples'
  <2>1. CASE pk'.got = pk.got
    BY <1>1, <2>1 DEF GotSamples
  <2>2. CASE x # NoSample /\ pk'.got = pk.got \cup {x}
    <3>1. IsFiniteSet(pk.got \cup {x})
      BY <1>1, FS_AddElement DEF GotSamples
    <3> QED
      BY <1>1, <1>4, <2>2, <3>1 DEF GotSamples
  <2> QED
    BY <1>3, <2>1, <2>2
<1> QED
  BY <1>1, <1>2, <1>3, <1>5 DEF FileInv

LEMMA CreateKeepsFile ==
  ASSUME PackInv, FileInv, CreateFile
  PROVE  FileInv'
<1>1. pk.pc = "collect" /\ GotSamples /\ RecordsInv
  BY DEF CreateFile, FileInv, PackInv
<1>2. ~mcap.footer
  BY <1>1, NoFooterYet
<1>3. CASE pk' = NoPack /\ mcap' = mcap
  <2>1. pk'.pc = "idle"
    BY <1>3 DEF NoPack
  <2> QED
    BY <1>2, <1>3, <2>1 DEF FileInv
<1>4. CASE pk' = [pk EXCEPT !.pc = "write", !.seq = Filtered(Sorted(pk.got))] /\ mcap' = StartFile
  <2> DEFINE q == Sorted(pk.got)
  <2>1. Sorts(q, pk.got)
    BY <1>1, GotSorted
  <2> HIDE DEF q
  <2>2. q \in Seq(Samples)
    <3>1. q \in Seq(pk.got) /\ pk.got \subseteq Samples
      BY <1>1, <2>1 DEF Sorts, GotSamples
    <3> QED
      BY <3>1, SeqMonotonic
  <2>3. Filtered(q) = q
    BY <2>2 DEF Filtered, FaceBlur
  <2>4. pk'.pc = "write" /\ pk'.got = pk.got /\ pk'.seq = q
    BY <1>1, <1>4, <2>3 DEF RecordsInv, q
  <2>5. HoldsFront(StartFile, Samples, q, q)
    BY <2>2, StartHoldsFront
  <2>6. ~mcap'.footer
    BY <1>4 DEF StartFile, NewFile
  <2>7. Sorted(pk'.got) = q /\ GotSamples'
    BY <1>1, <2>4 DEF q, GotSamples
  <2> QED
    BY <1>4, <2>4, <2>5, <2>6, <2>7 DEF FileInv
<1> QED
  BY <1>3, <1>4 DEF CreateFile

LEMMA WriteKeepsFile ==
  ASSUME PackInv, FileInv, WriteSample
  PROVE  FileInv'
<1> DEFINE q == Sorted(pk.got)
           f == Message(mcap, Head(pk.seq))
<1>1. /\ pk.pc = "write" /\ GotSamples /\ RecordsInv /\ pk.seq # << >>
      /\ mcap' \in {f, FlushChunk(f)} /\ pk' = [pk EXCEPT !.seq = Tail(@)]
      /\ HoldsFront(mcap, Samples, q, pk.seq)
  BY DEF WriteSample, FileInv, PackInv
<1>2. ~mcap.footer
  BY <1>1, NoFooterYet
<1>3. IsFile(mcap)
  BY <1>1 DEF RecordsInv, IsFile
<1>4. Sorts(q, pk.got)
  BY <1>1, GotSorted
<1>5. HoldsFront(f, Samples, q, Tail(pk.seq)) /\ IsFile(f) /\ f.footer = mcap.footer
  <2> HIDE DEF q
  <2> QED
    BY <1>1, <1>3, SampleFacts, MessageKeepsFront
<1> HIDE DEF f, q
<1>6. HoldsFront(FlushChunk(f), Samples, q, Tail(pk.seq)) /\ FlushChunk(f).footer = f.footer
  BY <1>4, <1>5, SampleFacts, FlushKeepsFront DEF Sorts
<1>7. HoldsFront(mcap', Samples, q, Tail(pk.seq)) /\ ~mcap'.footer
  BY <1>1, <1>2, <1>5, <1>6
<1>8. pk'.pc = "write" /\ pk'.got = pk.got /\ pk'.seq = Tail(pk.seq)
  BY <1>1 DEF RecordsInv
<1>9. Sorted(pk'.got) = q /\ GotSamples'
  BY <1>1, <1>8 DEF q, GotSamples
<1> QED
  BY <1>7, <1>8, <1>9 DEF FileInv

LEMMA FinishKeepsFile ==
  ASSUME PackInv, FileInv, FinishPackage
  PROVE  FileInv'
<1> DEFINE q == Sorted(pk.got)
           f == FlushChunk(mcap)
<1>1. /\ pk.pc = "write" /\ GotSamples /\ RecordsInv /\ pk.seq = << >>
      /\ pk' = [pk EXCEPT !.pc = "idle"]
      /\ HoldsFront(mcap, Samples, q, << >>)
  BY DEF FinishPackage, FileInv, PackInv
<1>2. PICK written \in BOOLEAN : mcap' = [f EXCEPT !.footer = written]
  BY DEF FinishPackage, FinishFile, Summary
<1>3. IsFile(mcap)
  BY <1>1 DEF RecordsInv, IsFile
<1>4. Sorts(q, pk.got)
  BY <1>1, GotSorted
<1> HIDE DEF q
<1>5. HoldsFront(f, Samples, q, << >>) /\ f.chunk = << >> /\ IsFile(f)
  BY <1>1, <1>3, <1>4, SampleFacts, FlushKeepsFront DEF Sorts
<1> HIDE DEF f
<1>6. mcap'.chunk = f.chunk /\ mcap'.chunks = f.chunks /\ mcap'.index = f.index /\ mcap'.count = f.count
  BY <1>2, <1>5 DEF IsFile
<1>7. HoldsFront(mcap', Samples, q, << >>) /\ mcap'.chunk = << >>
  BY <1>5, <1>6 DEF HoldsFront, WrittenSamples
<1>8. pk'.pc = "idle" /\ pk'.got = pk.got
  BY <1>1 DEF RecordsInv
<1>9. Sorted(pk'.got) = q /\ GotSamples'
  BY <1>1, <1>8 DEF q, GotSamples
<1> QED
  BY <1>7, <1>8, <1>9 DEF FileInv

LEMMA FileStep ==
  ASSUME PackInv, FileInv, [PackNext]_packVars
  PROVE  FileInv'
<1>1. CASE UNCHANGED <<pk, mcap>>
  BY <1>1 DEF FileInv, GotSamples
<1>2. CASE WriteFails
  <2>1. pk.pc = "write" /\ RecordsInv /\ mcap' = mcap /\ pk' = [pk EXCEPT !.pc = "idle"]
    BY <1>2 DEF WriteFails, PackInv
  <2>2. ~mcap.footer
    BY <2>1, NoFooterYet
  <2>3. pk'.pc = "idle"
    BY <2>1 DEF RecordsInv
  <2> QED
    BY <2>1, <2>2, <2>3 DEF FileInv
<1>3. CASE UNCHANGED packVars
  BY <1>1, <1>3 DEF packVars
<1>4. CASE PackNext
  BY <1>1, <1>2, <1>4, BeginFile, CollectFile, CreateKeepsFile, WriteKeepsFile, FinishKeepsFile DEF PackNext
<1> QED
  BY <1>3, <1>4

LEMMA FileIsRight ==
  ASSUME FileInv
  PROVE  FileIsEpisode
<1> SUFFICES ASSUME mcap.footer PROVE FileIsEpisode
  BY DEF FileIsEpisode
<1> DEFINE q == Sorted(pk.got)
           msgs == FlattenSeq(mcap.chunks)
<1>1. GotSamples /\ HoldsFront(mcap, Samples, q, << >>) /\ mcap.chunk = << >>
  BY DEF FileInv
<1>2. Sorts(q, pk.got)
  BY <1>1, GotSorted
<1> HIDE DEF q
<1>3. msgs = q /\ WrittenSamples(mcap) = q
  <2>1. msgs \in Seq(Samples)
    BY <1>1, FlattenTyped DEF HoldsFront
  <2>2. WrittenSamples(mcap) = msgs /\ msgs \o << >> = msgs
    BY <1>1, <2>1, ConcatEmptySeq DEF WrittenSamples
  <2>3. WrittenSamples(mcap) \o << >> = q
    BY <1>1 DEF HoldsFront
  <2> QED
    BY <2>2, <2>3
<1> HIDE DEF msgs
<1>4. /\ Len(q) = Cardinality(pk.got) /\ Len(q) \in Nat /\ DOMAIN q = 1..Len(q)
      /\ {q[k] : k \in DOMAIN q} = pk.got
      /\ \A k \in 1 .. Len(q) - 1 : q[k].ts <= q[k + 1].ts
  <2>1. q \in Seq(pk.got) /\ Len(q) = Cardinality(pk.got)
    BY <1>2 DEF Sorts
  <2>2. Len(q) \in Nat /\ DOMAIN q = 1..Len(q) /\ \A k \in 1..Len(q) : q[k] \in pk.got
    BY <2>1
  <2>3. \A x \in pk.got : \E k \in 1..Len(q) : q[k] = x
    BY <1>2 DEF Sorts
  <2>4. ASSUME NEW k \in 1 .. Len(q) - 1 PROVE q[k].ts <= q[k + 1].ts
    <3>1. k \in 1..Len(q) /\ k + 1 \in 1..Len(q) /\ k < k + 1
      BY <2>2
    <3> QED
      BY <1>2, <3>1 DEF Sorts
  <2> QED
    BY <2>1, <2>2, <2>3, <2>4
<1>5. Len(mcap.index) = Len(mcap.chunks)
  BY <1>1 DEF HoldsFront
<1>6. ASSUME NEW n \in DOMAIN mcap.chunks, NEW k \in DOMAIN mcap.chunks[n]
      PROVE  mcap.chunks[n][k].ts \in mcap.index[n].first .. mcap.index[n].last
  <2>1. mcap.chunks \in Seq(Seq(Samples))
    BY <1>1 DEF HoldsFront
  <2>2. n \in 1..Len(mcap.chunks) /\ mcap.chunks[n] \in Seq(Samples)
    BY <2>1
  <2>3. k \in 1..Len(mcap.chunks[n])
    BY <2>2
  <2>4. Bounds(mcap.index[n], mcap.chunks[n])
    BY <1>1, <2>2 DEF HoldsFront
  <2> QED
    BY <2>3, <2>4 DEF Bounds
<1>7. ASSUME NEW s \in Streams PROVE mcap.count[s] = Cardinality({x \in pk.got : x.stream = s})
  <2>1. mcap.count[s] = Cardinality(OfStream(q, Len(q), s))
    BY <1>1, <1>3 DEF HoldsFront
  <2> QED
    BY <1>2, <2>1, CountAll
<1> QED
  BY <1>3, <1>4, <1>5, <1>6, <1>7 DEF FileIsEpisode, msgs

\* What is written is the episode: while pushes, evictions and clears go on, a
\* file with its footer holds the samples of its window, every one that stayed,
\* each once, in the order of time, in chunks their index bounds, counted by
\* channel, for any streams, capacity, producers and chunk size (push, get_range,
\* do_package, write_message, flush_chunk, finish).
THEOREM EpisodeAlwaysIsWindow == PackSpec => []EpisodeIsWindow
<1>1. PackInit => FileInv
  BY DEF PackInit, NoPack, NewFile, FileInv
<1>2. PackInv /\ FileInv => EpisodeIsWindow
  BY RingInvUnique, FileIsRight DEF PackInv, CollectedInv, FooterInv, EpisodeHoldsWindow, EpisodeIsWindow
<1>3. PackInv /\ FileInv /\ [PackNext]_packVars => FileInv'
  BY FileStep
<1> QED
  BY <1>1, <1>2, <1>3, PackInvInit, PackStep, PTL DEF PackSpec
=============================================================================
