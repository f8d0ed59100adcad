------------------------------ MODULE PeerLink ------------------------------
(***************************************************************************)
(* The master dispatcher of one edge node (ConnectionManager::start_loops  *)
(* in omni-core/src/manager.rs): the table of peers, the disco pings in    *)
(* flight, the relay sessions and the WireGuard endpoints configured from  *)
(* them.  The dispatcher is one task; every action below is one arm of its *)
(* select loop, run to completion, and the one-second tick is a loop of    *)
(* steps (TickStart, TickRetry/TickTimeout per expired ping, TickEnd)      *)
(* during which no other arm runs.                                         *)
(*                                                                         *)
(* The network and the other nodes are the environment: any pong, ping,    *)
(* relay acknowledgement or nucleus update may be lost, duplicated,        *)
(* delayed past a timeout or reordered, and a peer may come back under     *)
(* another key, address or NAT type.                                       *)
(***************************************************************************)
EXTENDS Naturals, FiniteSets, EndpointSet, NatStrategy

CONSTANTS Vips,          \* virtual IPs of the other nodes (keys of peer_states)
          Keys,          \* WireGuard public keys
          Nats,          \* Option<NatType> values met in the run
          MaxRetries,    \* LocalDiscoConfig.max_retries
          RelayEnabled,  \* LocalDiscoConfig.relay_enabled
          RelayKnown,    \* a relay server address and our own VIP are known
          LegacyRelay,   \* the relay may answer without naming a target key
          Batches,       \* bound: how many times pings are sent
          NoKey, NoAddr, RelayAddr, NoPing   \* model values

ASSUME ConstAssumption ==
  /\ MaxRetries \in Nat
  /\ RelayEnabled \in BOOLEAN
  /\ RelayKnown \in BOOLEAN
  /\ LegacyRelay \in BOOLEAN
  /\ Nats \subseteq NatType \cup {NoNat}
  /\ Batches \in Nat
  /\ NoKey \notin Keys
  /\ NoAddr \notin Addrs
  /\ RelayAddr \notin Addrs \cup {NoAddr}

VARIABLES
  our_nat,   \* proto.get_nat_type(): what STUN has told us so far
  peer,      \* peer_states: Vips -> PeerState ("Absent" = no entry)
  pings,     \* pending_pings: tx_id -> PendingDiscoPing
  sent,      \* number of ping batches sent so far (freshness of tx ids)
  sessions,  \* keys with an entry in relay_sessions
  wg,        \* OmniTun.known_peers: key -> endpoint last given to add_peer
  binds,     \* keys for which a RELAY_BIND has been sent
  tick,      \* the dispatcher is inside the disco_check_interval arm
  todo,      \* expired pings the running tick has not looked at yet
  heard      \* history: <<vip, key, addr>> of pongs matched to a ping

vars == <<our_nat, peer, pings, sent, sessions, wg, binds, tick, todo, heard>>

-----------------------------------------------------------------------------
(* State *)

PeerConnectionState == {"Init", "DirectTry", "DirectOk", "RelayTry", "RelayOk", "Failed"}

PeerEntry ==
  [st : PeerConnectionState, key : Keys, nat : NatType \cup {NoNat},
   strategy : ConnectionStrategy, eps : Endpoints, using_relay : BOOLEAN]

NoPeer == [st |-> "Absent", key |-> NoKey, nat |-> NoNat, strategy |-> "Direct",
           eps |-> EmptyEndpoints, using_relay |-> FALSE]

PeerState == PeerEntry \cup {NoPeer}

\* tx ids are random; a batch number and the target stand for one.
TxId == (1..Batches) \X Addrs

Target(tx) == tx[2]

PendingDiscoPing == [vip : Vips, retries : 0..MaxRetries]

Pending == {tx \in TxId : pings[tx] # NoPing}

Known(v) == peer[v].st # "Absent"

Init ==
  /\ our_nat \in Nats
  /\ peer = [v \in Vips |-> NoPeer]
  /\ pings = [tx \in TxId |-> NoPing]
  /\ sent = 0
  /\ sessions = {}
  /\ wg = [k \in Keys |-> NoAddr]
  /\ binds = {}
  /\ tick = FALSE
  /\ todo = {}
  /\ heard = {}

-----------------------------------------------------------------------------
(* Methods of PeerState *)

NewPeer(k, st, nat, strategy, eps) ==
  [st |-> st, key |-> k, nat |-> nat, strategy |-> strategy,
   eps |-> eps, using_relay |-> FALSE]

\* add_endpoint with an Option<SocketAddr>
AddEndpoint(p, a) == IF a = NoAddr THEN p ELSE [p EXCEPT !.eps = Upsert(@, a)]

\* No endpoint of source Relay is ever inserted, so a pong means direct.
RecordPongFrom(p, a) ==
  [p EXCEPT !.eps = RecordPong(@, a), !.st = "DirectOk", !.using_relay = FALSE]

MarkEndpointFailed(p, a) ==
  LET eps == MarkFailed(p.eps, a)
  IN  [p EXCEPT !.eps = eps, !.st = IF NeedsRelay(eps) THEN "RelayTry" ELSE @]

MarkRelayed(p) == [p EXCEPT !.st = "RelayOk", !.using_relay = TRUE]

\* Endpoint change seen in an update: every endpoint fails, disco restarts.
ResetPeer(p) ==
  [p EXCEPT !.eps = [a \in Addrs |-> MarkFailed(p.eps, a)[a]],
            !.st = "Init", !.using_relay = FALSE]

UpdateStrategy(p, theirs) ==
  IF p.nat = theirs THEN p
  ELSE [p EXCEPT !.nat = theirs, !.strategy = SelectStrategy(our_nat, theirs)]

\* add_peer(best_endpoint) when there is one: one of the possible results.
ConfigureBest(k, eps) ==
  IF BestChoices(eps) = {} THEN UNCHANGED wg
  ELSE \E b \in BestChoices(eps) : wg' = [wg EXCEPT ![k] = b]

\* send_to succeeded for the addresses in ok: each gets a fresh tx id.
SendPings(v, ok) ==
  /\ sent < Batches
  /\ sent' = sent + 1
  /\ pings' = [tx \in TxId |->
                 IF tx[1] = sent + 1 /\ Target(tx) \in ok
                 THEN [vip |-> v, retries |-> 0] ELSE pings[tx]]

ProbeAll(p, ok) ==
  [p EXCEPT !.eps = [a \in Addrs |-> IF a \in ok THEN MarkProbing(p.eps, a, TRUE)[a] ELSE p.eps[a]],
            !.st = "DirectTry"]

Forget(v) == {h \in heard : h[1] # v}

-----------------------------------------------------------------------------
(* DISCO_PING and DISCO_PONG *)

\* Ping of a peer we know, under the key we know it by: learn the address.
\* (Under another key the handler only answers and changes nothing.)
RecvPingKnown(v, k, src) ==
  /\ ~tick
  /\ Known(v) /\ peer[v].key = k
  /\ peer' = [peer EXCEPT ![v] = AddEndpoint(@, src)]
  /\ ConfigureBest(k, peer'[v].eps)
  /\ UNCHANGED <<our_nat, pings, sent, sessions, binds, tick, todo, heard>>

\* Ping of a peer not in the table: add it and ping back (the send may fail).
RecvPingNew(v, k, src, ok) ==
  /\ ~tick
  /\ ~Known(v)
  /\ ok \subseteq {src}
  /\ peer' = [peer EXCEPT ![v] =
                NewPeer(k, "DirectTry", NoNat, "Direct", Upsert(EmptyEndpoints, src))]
  /\ wg' = [wg EXCEPT ![k] = src]
  /\ SendPings(v, ok)
  /\ UNCHANGED <<our_nat, sessions, binds, tick, todo, heard>>

\* Mutant: the responder key is not compared.
PongAcceptedAnyKey(p, k) == p.st # "Absent"

\* The key check of the pong handler.
PongAccepted(p, k) == p.st # "Absent" /\ p.key = k

\* A pong whose tx id is pending: the ping is consumed whatever the verdict.
\* (A pong with an unknown tx id, late or duplicate, is ignored.)
RecvPong(tx, k, src) ==
  /\ ~tick
  /\ tx \in Pending
  /\ pings' = [pings EXCEPT ![tx] = NoPing]
  /\ heard' = heard \cup {<<pings[tx].vip, k, src>>}
  /\ LET v == pings[tx].vip
     IN  IF PongAccepted(peer[v], k)
         THEN /\ peer' = [peer EXCEPT ![v] = RecordPongFrom(@, src)]
              /\ ConfigureBest(peer[v].key, peer'[v].eps)
         ELSE UNCHANGED <<peer, wg>>
  /\ UNCHANGED <<our_nat, sent, sessions, binds, tick, todo>>

-----------------------------------------------------------------------------
(* RELAY_BIND_ACK *)

\* An ack names the key of a bind we sent, or (legacy server) no key at all,
\* in which case the key of some peer waiting for a relay is taken.
AckKey(k) ==
  /\ binds # {}
  /\ \/ k \in binds
     \/ LegacyRelay /\ \E u \in Vips : peer[u].st = "RelayTry" /\ peer[u].key = k

\* Mutant: the session goes to a peer that waits, whatever its key.
AckPeerAnyKey(v, k) == Known(v)

\* The first entry of the map with that key: any, if several VIPs share it.
AckPeer(v, k) == Known(v) /\ peer[v].key = k

\* Mutant: the state of the peer is not checked.
WaitsForRelayAny(p) == p.st # "Absent"

WaitsForRelay(p) == p.st = "RelayTry"

RecvBindAck(v, k) ==
  /\ ~tick
  /\ AckKey(k) /\ AckPeer(v, k)
  /\ WaitsForRelay(peer[v])
  /\ peer' = [peer EXCEPT ![v] = MarkRelayed(@)]
  /\ sessions' = sessions \cup {k}
  /\ wg' = [wg EXCEPT ![k] = RelayAddr]
  /\ UNCHANGED <<our_nat, pings, sent, binds, tick, todo, heard>>

RecvBindNack(v, k) ==
  /\ ~tick
  /\ AckKey(k) /\ AckPeer(v, k)
  /\ WaitsForRelay(peer[v])
  /\ peer' = [peer EXCEPT ![v].st = "Failed"]
  /\ UNCHANGED <<our_nat, pings, sent, sessions, wg, binds, tick, todo, heard>>

-----------------------------------------------------------------------------
(* NAT detection runs beside the dispatcher. *)

NatDetected(nat) ==
  /\ nat # our_nat
  /\ our_nat' = nat
  /\ UNCHANGED <<peer, pings, sent, sessions, wg, binds, tick, todo, heard>>

-----------------------------------------------------------------------------
(* Updates from the nucleus (REGISTER_ACK, HEARTBEAT_ACK, PEER_INFO, ...).   *)
(* One step per peer of an update: an update of several peers is several    *)
(* consecutive steps.                                                       *)

\* entry(vip).or_insert_with: an entry that exists keeps its key.
EntryFor(v, k, ep, theirs) ==
  IF Known(v) THEN peer[v]
  ELSE NewPeer(k, "Init", theirs, SelectStrategy(our_nat, theirs),
               IF ep = NoAddr THEN EmptyEndpoints ELSE Upsert(EmptyEndpoints, ep))

\* The peer re-registered elsewhere although we hold a working endpoint: the
\* possible outcomes of comparing best_endpoint with the new address.
EndpointMoved(p, ep) ==
  IF ep = NoAddr \/ ~HasWorking(p.eps) THEN {FALSE}
  ELSE {b # ep : b \in BestChoices(p.eps)}

\* The entry after the address, NAT and strategy bookkeeping of the update.
Updated(p, moved, ep, mapped, theirs) ==
  UpdateStrategy(
    AddEndpoint(AddEndpoint(IF moved THEN ResetPeer(p) ELSE p, ep), mapped),
    theirs)

\* Ping every known endpoint (any of the sends may fail), with WireGuard
\* configured for the first of them beforehand.
PingAll(v, p) ==
  \E first \in Present(p.eps), ok \in SUBSET Present(p.eps) :
    /\ peer' = [peer EXCEPT ![v] = ProbeAll(p, ok)]
    /\ wg' = [wg EXCEPT ![p.key] = first]
    /\ SendPings(v, ok)

\* What the strategy does with a peer that has no working endpoint.
StartProbing(v, p) ==
  \/ /\ p.strategy = "RelayOnly"
     /\ peer' = [peer EXCEPT ![v] = [p EXCEPT !.st = "RelayTry"]]
     /\ UNCHANGED <<pings, sent, wg>>
  \/ /\ p.strategy \in {"PortPrediction", "SimultaneousOpen"}
     /\ Present(p.eps) = {}
     /\ peer' = [peer EXCEPT ![v] = [p EXCEPT !.st = "DirectTry"]]
     /\ UNCHANGED <<pings, sent, wg>>
  \/ /\ p.strategy = "Direct"
     /\ Present(p.eps) = {}
     /\ peer' = [peer EXCEPT ![v] = p]
     /\ wg' = [wg EXCEPT ![p.key] = NoAddr]
     /\ UNCHANGED <<pings, sent>>
  \/ /\ p.strategy # "RelayOnly"
     /\ Present(p.eps) # {}
     /\ PingAll(v, p)

PeerUpdate(v, k, ep, mapped, theirs) ==
  /\ ~tick
  /\ \E moved \in EndpointMoved(EntryFor(v, k, ep, theirs), ep) :
       LET p == Updated(EntryFor(v, k, ep, theirs), moved, ep, mapped, theirs)
       IN  /\ heard' = IF moved THEN Forget(v) ELSE heard
           /\ IF HasWorking(p.eps)
              THEN /\ peer' = [peer EXCEPT ![v] = p]
                   /\ ConfigureBest(p.key, p.eps)
                   /\ UNCHANGED <<pings, sent>>
              ELSE StartProbing(v, p)
  /\ UNCHANGED <<our_nat, sessions, binds, tick, todo>>

\* removed_vips of a heartbeat ack: only the table entry goes.
RemovePeer(v) ==
  /\ ~tick
  /\ Known(v)
  /\ peer' = [peer EXCEPT ![v] = NoPeer]
  /\ heard' = Forget(v)
  /\ UNCHANGED <<our_nat, pings, sent, sessions, wg, binds, tick, todo>>

-----------------------------------------------------------------------------
(* The one-second tick *)

\* Any of the pending pings may be older than ping_timeout.
TickStart(expired) ==
  /\ ~tick
  /\ expired \subseteq Pending
  /\ tick' = TRUE
  /\ todo' = expired
  /\ UNCHANGED <<our_nat, peer, pings, sent, sessions, wg, binds, heard>>

\* Mutant: one retry too many.
MoreRetriesOffByOne(tx) == pings[tx].retries <= MaxRetries

MoreRetries(tx) == pings[tx].retries < MaxRetries

\* Mutant: the retry is not counted.
CountRetryForgotten(ping) == ping

CountRetry(ping) == [ping EXCEPT !.retries = @ + 1]

TickRetry(tx, demote) ==
  /\ tick /\ tx \in todo /\ MoreRetries(tx)
  /\ todo' = todo \ {tx}
  /\ pings' = [pings EXCEPT ![tx] = CountRetry(@)]
  /\ LET v == pings[tx].vip
     IN  peer' = [peer EXCEPT ![v].eps =
                    IF Known(v) THEN MarkProbing(@, Target(tx), demote) ELSE @]
  /\ UNCHANGED <<our_nat, sent, sessions, wg, binds, tick, heard>>

\* Mutant: the peer falls back although another endpoint may work.
GiveUpAtOnce(p, a) ==
  [p EXCEPT !.eps = MarkFailed(@, a), !.st = IF RelayEnabled THEN "RelayTry" ELSE "Failed"]

\* Retries used up: the endpoint fails, and the peer falls back if it must.
GiveUp(p, a) ==
  LET q == MarkEndpointFailed(p, a)
  IN  IF ~NeedsRelay(q.eps) THEN q
      ELSE [q EXCEPT !.st = IF RelayEnabled THEN "RelayTry" ELSE "Failed"]

TickTimeout(tx) ==
  /\ tick /\ tx \in todo /\ ~MoreRetries(tx)
  /\ todo' = todo \ {tx}
  /\ pings' = [pings EXCEPT ![tx] = NoPing]
  /\ LET v == pings[tx].vip
     IN  IF ~Known(v) THEN UNCHANGED <<peer, wg>>
         ELSE /\ peer' = [peer EXCEPT ![v] = GiveUp(@, Target(tx))]
              /\ IF NeedsRelay(peer'[v].eps) /\ ~RelayEnabled
                 THEN IF BestChoices(peer'[v].eps) = {}
                      THEN wg' = [wg EXCEPT ![peer[v].key] = NoAddr]
                      ELSE ConfigureBest(peer[v].key, peer'[v].eps)
                 ELSE UNCHANGED wg
  /\ UNCHANGED <<our_nat, sent, sessions, binds, tick, heard>>

\* A relay client exists only when relaying is enabled, has an address and the
\* node a virtual IPv4 (RelayKnown stands for both).
CanBind == RelayEnabled /\ RelayKnown

\* Mutant: only peers with an address are considered.
PeersNeedingRelayWithEndpoints == {v \in Vips : WaitsForRelay(peer[v]) /\ Present(peer[v].eps) # {}}

PeersNeedingRelay == {v \in Vips : WaitsForRelay(peer[v])}

\* A RELAY_BIND per waiting peer; those in out could be sent, a failed one is
\* only logged.
TickEnd(out) ==
  /\ tick /\ todo = {}
  /\ out \subseteq (IF CanBind THEN PeersNeedingRelay ELSE {})
  /\ tick' = FALSE
  /\ binds' = binds \cup {peer[v].key : v \in out}
  /\ UNCHANGED <<our_nat, peer, pings, sent, sessions, wg, todo, heard>>

-----------------------------------------------------------------------------

OptAddr == Addrs \cup {NoAddr}

RecvPing ==
  \E v \in Vips, k \in Keys, src \in Addrs :
    \/ RecvPingKnown(v, k, src)
    \/ \E ok \in SUBSET {src} : RecvPingNew(v, k, src, ok)

RecvPongs == \E tx \in TxId, k \in Keys, src \in Addrs : RecvPong(tx, k, src)

RecvAcks == \E v \in Vips, k \in Keys : RecvBindAck(v, k) \/ RecvBindNack(v, k)

NucleusUpdate ==
  \E v \in Vips, k \in Keys, ep, mapped \in OptAddr, theirs \in Nats :
    PeerUpdate(v, k, ep, mapped, theirs)

Stun == \E nat \in Nats : NatDetected(nat)

Departure == \E v \in Vips : RemovePeer(v)

Tick ==
  \/ \E expired \in SUBSET TxId : TickStart(expired)
  \/ \E tx \in TxId, demote \in BOOLEAN : TickRetry(tx, demote)
  \/ \E tx \in TxId : TickTimeout(tx)
  \/ \E out \in SUBSET Vips : TickEnd(out)

Next == RecvPing \/ RecvPongs \/ RecvAcks \/ NucleusUpdate \/ Stun \/ Departure \/ Tick

Spec == Init /\ [][Next]_vars

\* The timer: the interval keeps firing, select! does not starve it, and a
\* ping that stays unanswered is eventually older than ping_timeout.  The
\* socket: a RELAY_BIND that is sent again at every tick does not fail for ever.
Fairness ==
  /\ \A tx \in TxId :
       /\ SF_vars(\E expired \in SUBSET TxId : tx \in expired /\ TickStart(expired))
       /\ WF_vars(TickTimeout(tx) \/ \E demote \in BOOLEAN : TickRetry(tx, demote))
  /\ SF_vars(\E expired \in SUBSET TxId : TickStart(expired))
  /\ WF_vars(\E out \in SUBSET Vips : TickEnd(out))
  /\ \A v \in Vips : SF_vars(\E out \in SUBSET Vips : v \in out /\ TickEnd(out))

FairSpec == Spec /\ Fairness

-----------------------------------------------------------------------------
(* Properties *)

\* Every table keeps its shape; retries never exceed max_retries, and a tick
\* only looks at pings that are still in flight.
TypeOK ==
  /\ our_nat \in Nats
  /\ peer \in [Vips -> PeerState]
  /\ pings \in [TxId -> PendingDiscoPing \cup {NoPing}]
  /\ sent \in 0..Batches
  /\ sessions \subseteq Keys
  /\ wg \in [Keys -> Addrs \cup {NoAddr, RelayAddr}]
  /\ binds \subseteq Keys
  /\ tick \in BOOLEAN
  /\ todo \subseteq Pending
  /\ tick \/ todo = {}
  /\ heard \subseteq Vips \X Keys \X Addrs

\* A peer is reported directly connected, and an endpoint of it working, only
\* if one of our pings to that VIP was answered under the key the table holds
\* for it, since the entry was created or last reset: stale pongs, pongs under
\* another key and pongs for a removed peer never establish a connection.
DirectIsVerified ==
  \A v \in Vips :
    /\ peer[v].st = "DirectOk" => \E a \in Addrs : <<v, peer[v].key, a>> \in heard
    /\ \A a \in Working(peer[v].eps) : <<v, peer[v].key, a>> \in heard

\* A peer with a working endpoint is in DirectOk: no timeout, relay answer or
\* nucleus update leaves it probing, relayed or failed.
WorkingIsDirect ==
  \A v \in Vips : HasWorking(peer[v].eps) => peer[v].st = "DirectOk"

\* using_relay agrees with the state wherever traffic is established, and a
\* relayed peer has a relay session under its own key.
RelayFlagAgrees ==
  \A v \in Vips :
    /\ peer[v].st = "DirectOk" => ~peer[v].using_relay
    /\ peer[v].st = "RelayOk" => peer[v].using_relay /\ peer[v].key \in sessions

\* The state that is reported of a peer is that of its paths: a working endpoint
\* is never hidden by a timeout or a relay answer, and the relay flag and the
\* sessions go with the state (record_pong, the timeout arm, the relay arms).
StateFollowsPaths == WorkingIsDirect /\ RelayFlagAgrees

Alone(v) == \A u \in Vips \ {v} : peer[u].key # peer[v].key

\* The traffic of a directly connected peer stays on its own addresses: no
\* answer of the relay, late, meant for another peer or (a legacy server)
\* naming none, no timeout and no update points WireGuard at the relay or at
\* nothing while the peer is DirectOk, and a peer that becomes DirectOk is
\* taken off the relay in that step.  Two VIPs under one key share one
\* WireGuard peer and are exempt (the relay arm, the pong arm, the updates).
DirectTrafficStays ==
  [][\A v \in Vips : peer'[v].st = "DirectOk" /\ Alone(v)' =>
       \/ peer[v].st = "DirectOk" /\ wg'[peer'[v].key] = wg[peer[v].key]
       \/ wg'[peer'[v].key] \in Present(peer'[v].eps)]_vars

\* The connection state moves only along the fallback order: relayed and
\* failed are entered from RelayTry (or, with relaying disabled, when every
\* endpoint was tried), so an answer of the relay that arrives after a late
\* pong never displaces a direct path; RelayTry itself is entered only when
\* no endpoint works.
RelayIsLastResort ==
  [][\A v \in Vips : peer'[v].st # peer[v].st =>
       /\ peer'[v].st = "RelayOk" => peer[v].st = "RelayTry"
       /\ peer'[v].st = "Failed" =>
            \/ peer[v].st = "RelayTry"
            \/ ~RelayEnabled /\ NeedsRelay(peer'[v].eps)
       /\ peer'[v].st = "RelayTry" =>
            \/ NeedsRelay(peer'[v].eps)
            \/ peer'[v].strategy = "RelayOnly" /\ ~HasWorking(peer'[v].eps)
    ]_vars

\* Every ping in flight is eventually answered or given up: the retries end.
PingsResolve == \A tx \in TxId : (tx \in Pending) ~> (tx \notin Pending)

\* A peer waiting for a relay gets a RELAY_BIND sent (or stops waiting).
RelayIsRequested ==
  \A v \in Vips, k \in Keys :
    (WaitsForRelay(peer[v]) /\ peer[v].key = k /\ CanBind)
      ~> (k \in binds \/ ~(WaitsForRelay(peer[v]) /\ peer[v].key = k))

\* "Update strategy if NAT types changed" (manager.rs:2116): an update leaves
\* the peer with the strategy the matrix gives for both current NAT types.
\* The code does not keep it: README, "Statements the code does not keep".
StrategyFollowsNats ==
  [][\A v \in Vips, k \in Keys, ep, mapped \in OptAddr, theirs \in Nats :
       PeerUpdate(v, k, ep, mapped, theirs)
         => peer'[v].strategy = SelectStrategy(our_nat, peer'[v].nat)]_vars
=============================================================================
