------------------------------ MODULE SshFleet ------------------------------
(***************************************************************************)
(* FleetExecutor::execute, one task per target behind a semaphore.         *)
(***************************************************************************)
EXTENDS Naturals, Sequences, FiniteSets, FiniteSetsExt

CONSTANTS Peers,         \* what list_peers returns, in order: [id, online]
          MaxParallels,  \* values of max_parallel
          Targets,       \* FleetTargets: the peers each selects
          Missing        \* no device id, no result

ASSUME FleetConstants ==
  /\ MaxParallels \subseteq Nat
  /\ DOMAIN Peers \subseteq Nat
  /\ \A s \in Targets : s \subseteq DOMAIN Peers
  /\ Missing \notin [by: DOMAIN Peers, status: {"succeeded", "failed", "timed_out", "unreachable"}]

VARIABLES
  op,        \* [todo, max, phase]: targets not yet spawned
  node,      \* per target: its task
  permits,   \* of the semaphore
  results    \* by node id, with the target that wrote it

fleetVars == <<op, node, permits, results>>

\* node_id is the device id, or empty for a peer without one.
NodeId(p) == Peers[p].id

FleetInit ==
  /\ \E max \in MaxParallels :
       op = [todo |-> {}, max |-> max, phase |-> "idle"] /\ permits = max
  /\ node = [p \in DOMAIN Peers |-> [at |-> "none", how |-> Missing]]
  /\ results = [i \in {NodeId(p) : p \in DOMAIN Peers} |-> Missing]

\* resolve_targets, and the answer for no target at all.
Execute(chosen) ==
  /\ op.phase = "idle"
  /\ op' = [op EXCEPT !.todo = chosen, !.phase = IF chosen = {} THEN "done" ELSE "spawning"]
  /\ UNCHANGED <<node, permits, results>>

\* The loop waits for a permit before it spawns the next task.
SpawnNode ==
  /\ op.phase = "spawning" /\ permits > 0
  /\ LET p == Min(op.todo) IN
     /\ node' = [node EXCEPT ![p].at = "connecting"]
     /\ op' = [op EXCEPT !.todo = @ \ {p}, !.phase = IF op.todo = {p} THEN "joining" ELSE @]
  /\ permits' = permits - 1
  /\ UNCHANGED results

\* execute_on_node: connect and exec under the timeout, then the answer.
NodeConnects(p, how) ==
  /\ node[p].at = "connecting"
  /\ node' = [node EXCEPT ![p] =
       IF how = "ok" THEN [@ EXCEPT !.at = "executing"] ELSE [at |-> "finished", how |-> how]]
  /\ permits' = IF how = "ok" THEN permits ELSE permits + 1
  /\ UNCHANGED <<op, results>>

\* The connection is closed after the result is known, without a timeout.
NodeExecutes(p, how) ==
  /\ node[p].at = "executing"
  /\ node' = [node EXCEPT ![p] = [at |-> "closing", how |-> how]]
  /\ UNCHANGED <<op, permits, results>>

NodeClosesBad(p) ==
  /\ node[p].at = "closing"
  /\ node' = [node EXCEPT ![p].at = "finished"]
  /\ UNCHANGED <<op, permits, results>>

NodeCloses(p) ==
  /\ node[p].at = "closing"
  /\ node' = [node EXCEPT ![p].at = "finished"]
  /\ permits' = permits + 1
  /\ UNCHANGED <<op, results>>

\* The results are collected in the order of the targets once all are spawned;
\* one id keeps one result.
Collect(p) ==
  /\ op.phase = "joining" /\ node[p].at = "finished"
  /\ \A q \in DOMAIN Peers : q < p => node[q].at \in {"none", "reported"}
  /\ results' = [results EXCEPT ![NodeId(p)] = [by |-> p, status |-> node[p].how]]
  /\ node' = [node EXCEPT ![p].at = "reported"]
  /\ op' = [op EXCEPT !.phase =
       IF \A q \in DOMAIN Peers \ {p} : node[q].at \in {"none", "reported"} THEN "done" ELSE @]
  /\ UNCHANGED permits

\* The steps that end by themselves: connect and exec have their timeouts.
FleetStep ==
  \/ SpawnNode
  \/ \E p \in DOMAIN Peers :
       \/ Collect(p)
       \/ \E how \in {"ok", "unreachable", "timed_out"} : NodeConnects(p, how)
       \/ \E how \in {"succeeded", "failed", "timed_out", "unreachable"} : NodeExecutes(p, how)

FleetNext ==
  FleetStep \/ (\E p \in DOMAIN Peers : NodeCloses(p)) \/ \E chosen \in Targets : Execute(chosen)

\* Nothing bounds session.close(), so no fairness is assumed of NodeCloses.
FleetFairness == WF_fleetVars(FleetStep)

-----------------------------------------------------------------------------
(* Properties *)

\* When execute returns, every target with a device id of its own has its own
\* result.  Peers without a device id share one key, and one result.
EveryTargetReported ==
  op.phase = "done" =>
    \A p \in DOMAIN Peers :
      node[p].at # "none" /\ (\A q \in DOMAIN Peers \ {p} : NodeId(q) # NodeId(p))
      => results[NodeId(p)] # Missing /\ results[NodeId(p)].by = p

\* execute returns, if max_parallel is not 0, and with the results of its
\* targets: the permits of nodes that fail or time out come back.  Only a peer
\* whose session.close() never returns holds it up, for good: that call is
\* awaited with the permit in hand and without a timeout (execute).
FleetEnds ==
  op.phase = "spawning" /\ op.max > 0
  ~> \/ op.phase = "done" /\ EveryTargetReported
     \/ \E p \in DOMAIN Peers : [](node[p].at = "closing")
=============================================================================
