--------------------------- MODULE PluginRuntimes ---------------------------
(***************************************************************************)
(* PluginRuntimeManager: three maps of runtimes behind three asynchronous  *)
(* read-write locks, and the calls that register, unregister, broadcast to *)
(* and query the plugins.  A call takes its locks one after the other and  *)
(* gives them back when it returns.                                        *)
(***************************************************************************)
EXTENDS Naturals, Sequences, FiniteSets

CONSTANTS Calls,    \* calls under way, each made once
          Runtimes, \* plugin ids
          NoCall

VARIABLES maps,     \* per kind: the ids in the map
          call,     \* per call: [op, id, got], got counts the locks it holds
          reached   \* per call: the ids its dispatch loop went over

rtVars == <<maps, call, reached>>

Kinds == {"event", "policy", "qos"}

RtInit ==
  /\ maps = [k \in Kinds |-> {}]
  /\ call = [c \in Calls |-> NoCall]
  /\ reached = [c \in Calls |-> {}]

\* A query that also wants to tell the event plugins.
LocksBad(op) ==
  CASE op = "unregister" -> <<"event", "policy", "qos">>
    [] op = "query" -> <<"policy", "event">>
    [] op \in {"register_event", "broadcast"} -> <<"event">>
    [] op = "register_policy" -> <<"policy">>
    [] op \in {"register_qos", "classify"} -> <<"qos">>

\* The locks of an operation, in the order in which it takes them.
Locks(op) ==
  CASE op = "unregister" -> <<"event", "policy", "qos">>
    [] op \in {"register_event", "broadcast"} -> <<"event">>
    [] op \in {"register_policy", "query"} -> <<"policy">>
    [] op \in {"register_qos", "classify"} -> <<"qos">>

Writes(op) == op \notin {"broadcast", "query", "classify"}

Holds(c, k) == call[c] # NoCall /\ \E n \in 1 .. call[c].got : Locks(call[c].op)[n] = k

Ended(c) == call[c] # NoCall /\ call[c].op = "ended"

Begin(c, op, id) ==
  /\ call[c] = NoCall
  /\ call' = [call EXCEPT ![c] = [op |-> op, id |-> id, got |-> 0]]
  /\ UNCHANGED <<maps, reached>>

\* A lock is had when no other call is in the way.
TakeLock(c) ==
  /\ call[c] # NoCall /\ ~Ended(c) /\ call[c].got < Len(Locks(call[c].op))
  /\ LET k == Locks(call[c].op)[call[c].got + 1] IN
     \A d \in Calls \ {c} : ~Ended(d) /\ Holds(d, k) => ~Writes(call[c].op) /\ ~Writes(call[d].op)
  /\ call' = [call EXCEPT ![c].got = @ + 1]
  /\ UNCHANGED <<maps, reached>>

\* A dispatched event reaches the plugin's entry and is only logged there.
Dispatch(id) == {id}

\* A policy plugin has no choice to make and lets every connection pass, so
\* the next one is asked too.
Ask(id) == {id}

\* The loop of a broadcast: a fresh store for each plugin, failures are logged.
DispatchAll(c) == reached' = [reached EXCEPT ![c] = UNION {Dispatch(id) : id \in maps["event"]}]

\* The policy plugins are asked in turn.
QueryAll(c) == reached' = [reached EXCEPT ![c] = UNION {Ask(id) : id \in maps["policy"]}]

\* The first QoS plugin classifies the packet.
ClassifyFirst(c) ==
  reached' = [reached EXCEPT ![c] = IF maps["qos"] = {} THEN {} ELSE {CHOOSE i \in maps["qos"] : TRUE}]

RegisterIn(k, id) == maps' = [maps EXCEPT ![k] = @ \cup {id}]

UnregisterFrom(id) == maps' = [k \in Kinds |-> maps[k] \ {id}]

\* With all its locks a call does its work and returns.
Finish(c) ==
  /\ call[c] # NoCall /\ ~Ended(c) /\ call[c].got = Len(Locks(call[c].op))
  /\ call' = [call EXCEPT ![c].op = "ended"]
  /\ CASE call[c].op = "broadcast" -> DispatchAll(c) /\ UNCHANGED maps
       [] call[c].op = "query" -> QueryAll(c) /\ UNCHANGED maps
       [] call[c].op = "classify" -> ClassifyFirst(c) /\ UNCHANGED maps
       [] call[c].op = "unregister" -> UnregisterFrom(call[c].id) /\ UNCHANGED reached
       [] OTHER -> RegisterIn(Locks(call[c].op)[1], call[c].id) /\ UNCHANGED reached

RtOps == {"register_event", "register_policy", "register_qos", "unregister", "broadcast",
          "query", "classify"}

RtNext == \E c \in Calls : \/ TakeLock(c) \/ Finish(c)
                           \/ \E op \in RtOps, id \in Runtimes : Begin(c, op, id)

RtSpec == RtInit /\ [][RtNext]_rtVars

RtFairness == \A c \in Calls : WF_rtVars(TakeLock(c) \/ Finish(c))

-----------------------------------------------------------------------------
(* Properties *)

\* Every call returns: unregister holds one lock while it waits for the next,
\* and no other call waits in the opposite order (unregister).
RuntimeCallsReturn == \A c \in Calls : call[c] # NoCall ~> Ended(c)
=============================================================================
