---------------------------- MODULE EndpointSet ----------------------------
(***************************************************************************)
(* The endpoint table of one peer (omninervous::EndpointSet, an external   *)
(* crate), modelled from how omni-core/src/manager.rs uses it: addresses   *)
(* are inserted, probed, answered or failed; the ranking of the table      *)
(* (source priority, latency) is left open, so "best" is a SET of possible *)
(* answers and every caller draws one of them.                             *)
(***************************************************************************)
EXTENDS Naturals, FiniteSets

CONSTANTS Addrs,        \* socket addresses
          RelayProbes   \* probes after which an endpoint counts as tried

ASSUME RelayProbesAssumption == RelayProbes \in Nat

EndpointState == {"absent", "new", "probing", "working", "failed"}

\* The probe counter only matters up to RelayProbes, where it saturates.
Endpoint == [st : EndpointState, probes : 0..RelayProbes]

Endpoints == [Addrs -> Endpoint]

EmptyEndpoints == [a \in Addrs |-> [st |-> "absent", probes |-> 0]]

Present(eps) == {a \in Addrs : eps[a].st # "absent"}

Working(eps) == {a \in Addrs : eps[a].st = "working"}

HasWorking(eps) == Working(eps) # {}

\* Insert an address; an address already known keeps its state.
Upsert(eps, a) ==
  [eps EXCEPT ![a].st = IF @ = "absent" THEN "new" ELSE @]

\* A ping to a is (re)sent: one more probe.  Whether this demotes an endpoint
\* that already works is not visible in this repository: both are allowed.
MarkProbing(eps, a, demote) ==
  IF eps[a].st = "absent" THEN eps
  ELSE [eps EXCEPT ![a] =
         [st |-> IF @.st = "working" /\ ~demote THEN "working" ELSE "probing",
          probes |-> IF @.probes < RelayProbes THEN @.probes + 1 ELSE RelayProbes]]

MarkFailed(eps, a) ==
  [eps EXCEPT ![a].st = IF @ = "absent" THEN "absent" ELSE "failed"]

RecordPong(eps, a) == [eps EXCEPT ![a].st = "working"]

\* best_addr(): a working endpoint when there is one, otherwise one that has
\* not failed, otherwise none (the empty set).
BestChoices(eps) ==
  IF HasWorking(eps) THEN Working(eps)
  ELSE {a \in Addrs : eps[a].st \in {"new", "probing"}}

\* needs_relay(): nothing works and every endpoint has failed or has been
\* probed often enough (manager.rs:2418 "requires >= 3").
NeedsRelay(eps) ==
  /\ ~HasWorking(eps)
  /\ \A a \in Present(eps) :
       eps[a].st = "failed" \/ eps[a].probes >= RelayProbes
=============================================================================
