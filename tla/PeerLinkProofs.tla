--------------------------- MODULE PeerLinkProofs ---------------------------
(***************************************************************************)
(* Proofs about the dispatcher of PeerLink, for any number of peers, keys, *)
(* addresses and pings.                                                    *)
(***************************************************************************)
EXTENDS PeerLink, TLAPS

-----------------------------------------------------------------------------
(* What the endpoint table and the PeerState methods return. *)

\* Every operation on an endpoint table (EndpointSet, external) yields one.
LEMMA EndpointOps ==
  ASSUME NEW eps \in Endpoints, NEW a \in Addrs, NEW d \in BOOLEAN
  PROVE  /\ EmptyEndpoints \in Endpoints
         /\ Upsert(eps, a) \in Endpoints
         /\ MarkProbing(eps, a, d) \in Endpoints
         /\ MarkFailed(eps, a) \in Endpoints
         /\ RecordPong(eps, a) \in Endpoints
         /\ BestChoices(eps) \subseteq Addrs
BY RelayProbesAssumption
   DEF Endpoints, Endpoint, EndpointState, EmptyEndpoints, Upsert, MarkProbing,
       MarkFailed, RecordPong, BestChoices, Working, HasWorking

\* Every PeerState method maps entries of the peer table to entries.
LEMMA PeerOps ==
  ASSUME NEW p \in PeerEntry, NEW a \in Addrs, NEW ok \in SUBSET Addrs
  PROVE  /\ AddEndpoint(p, a) \in PeerEntry /\ AddEndpoint(p, NoAddr) \in PeerEntry
         /\ RecordPongFrom(p, a) \in PeerEntry
         /\ MarkEndpointFailed(p, a) \in PeerEntry
         /\ GiveUp(p, a) \in PeerEntry
         /\ MarkRelayed(p) \in PeerEntry
         /\ ResetPeer(p) \in PeerEntry
         /\ ProbeAll(p, ok) \in PeerEntry
<1>1. p.eps \in Endpoints
  BY DEF PeerEntry
<1>2. /\ Upsert(p.eps, a) \in Endpoints /\ MarkFailed(p.eps, a) \in Endpoints
      /\ RecordPong(p.eps, a) \in Endpoints /\ EmptyEndpoints \in Endpoints
  BY <1>1, EndpointOps
<1>3. /\ AddEndpoint(p, a) \in PeerEntry /\ AddEndpoint(p, NoAddr) \in PeerEntry
      /\ RecordPongFrom(p, a) \in PeerEntry
      /\ MarkRelayed(p) \in PeerEntry
  BY <1>2 DEF AddEndpoint, RecordPongFrom, MarkRelayed, PeerEntry, PeerConnectionState
<1>4. MarkEndpointFailed(p, a) \in PeerEntry /\ GiveUp(p, a) \in PeerEntry
  BY <1>2 DEF MarkEndpointFailed, GiveUp, PeerEntry, PeerConnectionState
<1>5. ResetPeer(p) \in PeerEntry
  <2>1. \A b \in Addrs : MarkFailed(p.eps, b) \in Endpoints
    BY <1>1, EndpointOps
  <2>2. [b \in Addrs |-> MarkFailed(p.eps, b)[b]] \in Endpoints
    BY <2>1 DEF Endpoints
  <2> QED BY <2>2 DEF ResetPeer, PeerEntry, PeerConnectionState
<1>6. ProbeAll(p, ok) \in PeerEntry
  <2>1. \A b \in ok : MarkProbing(p.eps, b, TRUE) \in Endpoints
    BY <1>1, EndpointOps
  <2>2. [b \in Addrs |-> IF b \in ok THEN MarkProbing(p.eps, b, TRUE)[b] ELSE p.eps[b]] \in Endpoints
    BY <1>1, <2>1 DEF Endpoints
  <2> QED BY <2>2 DEF ProbeAll, PeerEntry, PeerConnectionState
<1> QED BY <1>3, <1>4, <1>5, <1>6

LEMMA StrategyType ==
  ASSUME NEW a, NEW b PROVE SelectStrategy(a, b) \in ConnectionStrategy
BY DEF SelectStrategy, ConnectionStrategy

\* The entry a nucleus update works on, before and after its bookkeeping.
LEMMA UpdateOps ==
  ASSUME TypeOK, NEW v \in Vips, NEW k \in Keys, NEW ep \in OptAddr,
         NEW mapped \in OptAddr, NEW theirs \in Nats, NEW moved \in BOOLEAN
  PROVE  /\ EntryFor(v, k, ep, theirs) \in PeerEntry
         /\ Updated(EntryFor(v, k, ep, theirs), moved, ep, mapped, theirs) \in PeerEntry
<1>1. EmptyEndpoints \in Endpoints /\ (ep # NoAddr => Upsert(EmptyEndpoints, ep) \in Endpoints)
  <2>1. EmptyEndpoints \in Endpoints
    BY RelayProbesAssumption DEF EmptyEndpoints, Endpoints, Endpoint, EndpointState
  <2>2. ep # NoAddr => Upsert(EmptyEndpoints, ep) \in Endpoints
    BY <2>1, EndpointOps DEF OptAddr
  <2> QED BY <2>1, <2>2
<1>2. theirs \in NatType \cup {NoNat}
  BY ConstAssumption
<1>3. EntryFor(v, k, ep, theirs) \in PeerEntry
  BY <1>1, <1>2, StrategyType DEF TypeOK, Known, PeerState, NoPeer, EntryFor, NewPeer, PeerEntry, PeerConnectionState
<1> DEFINE p0 == EntryFor(v, k, ep, theirs)
           p1 == IF moved THEN ResetPeer(p0) ELSE p0
           p2 == AddEndpoint(p1, ep)
           p3 == AddEndpoint(p2, mapped)
<1> HIDE DEF p0
<1>4. p0 \in PeerEntry
  BY <1>3 DEF p0
<1>5. p1 \in PeerEntry
  <2>1. CASE Addrs = {}
    BY <1>4, <2>1 DEF PeerEntry, Endpoints, ResetPeer, PeerConnectionState
  <2>2. CASE Addrs # {}
    BY <1>4, <2>2, PeerOps
  <2> QED BY <2>1, <2>2
<1> HIDE DEF p1
<1>6. p2 \in PeerEntry
  BY <1>5, PeerOps DEF OptAddr, AddEndpoint
<1> HIDE DEF p2
<1>7. p3 \in PeerEntry
  BY <1>6, PeerOps DEF OptAddr, AddEndpoint
<1> HIDE DEF p3
<1>8. UpdateStrategy(p3, theirs) \in PeerEntry
  BY <1>7, <1>2, StrategyType DEF UpdateStrategy, PeerEntry
<1> QED BY <1>3, <1>8 DEF Updated, p3, p2, p1, p0

-----------------------------------------------------------------------------
(* Type correctness *)

\* add_peer(best) and a batch of pings keep their tables well formed.
LEMMA TableOps ==
  ASSUME TypeOK, NEW k \in Keys \cup {NoKey}, NEW eps \in Endpoints, NEW v \in Vips, NEW ok \in SUBSET Addrs
  PROVE  /\ ConfigureBest(k, eps) => wg' \in [Keys -> Addrs \cup {NoAddr, RelayAddr}]
         /\ SendPings(v, ok) => /\ sent' \in 0..Batches
                                /\ pings' \in [TxId -> PendingDiscoPing \cup {NoPing}]
<1>1. BestChoices(eps) \subseteq Addrs
  BY DEF BestChoices, Working
<1>2. ConfigureBest(k, eps) => wg' \in [Keys -> Addrs \cup {NoAddr, RelayAddr}]
  BY <1>1 DEF ConfigureBest, TypeOK
<1>3. SendPings(v, ok) => sent' \in 0..Batches
  BY ConstAssumption DEF SendPings, TypeOK
<1>4. SendPings(v, ok) => pings' \in [TxId -> PendingDiscoPing \cup {NoPing}]
  BY ConstAssumption DEF SendPings, TypeOK, PendingDiscoPing
<1> QED BY <1>2, <1>3, <1>4

\* An entry of the table is a PeerEntry; every table value has endpoints.
LEMMA KnownEntry ==
  ASSUME TypeOK, NEW v \in Vips
  PROVE  /\ Known(v) => peer[v] \in PeerEntry /\ peer[v].key \in Keys
         /\ peer[v].eps \in Endpoints
         /\ peer[v].st = "RelayTry" => Known(v)
<1>1. EmptyEndpoints \in Endpoints
  BY RelayProbesAssumption DEF EmptyEndpoints, Endpoints, Endpoint, EndpointState
<1> QED BY <1>1 DEF TypeOK, PeerState, NoPeer, PeerEntry, Known

LEMMA TypeInit == Init => TypeOK
<1> SUFFICES ASSUME Init PROVE TypeOK
  OBVIOUS
<1>1. peer \in [Vips -> PeerState] /\ pings \in [TxId -> PendingDiscoPing \cup {NoPing}]
  BY DEF Init, PeerState
<1>2. sent \in 0..Batches /\ wg \in [Keys -> Addrs \cup {NoAddr, RelayAddr}]
  BY ConstAssumption DEF Init
<1>3. our_nat \in Nats /\ tick \in BOOLEAN /\ todo = {} /\ heard = {} /\ sessions = {} /\ binds = {}
  BY DEF Init
<1> QED BY <1>1, <1>2, <1>3 DEF TypeOK

LEMMA TypeStep == TypeOK /\ [Next]_vars => TypeOK'
<1> SUFFICES ASSUME TypeOK, [Next]_vars PROVE TypeOK'
  OBVIOUS
<1>1. ASSUME NEW v \in Vips, NEW k \in Keys, NEW src \in Addrs, RecvPingKnown(v, k, src)
      PROVE  TypeOK'
  <2>1. peer[v] \in PeerEntry
    BY <1>1, KnownEntry DEF RecvPingKnown
  <2>2. AddEndpoint(peer[v], src) \in PeerEntry
    BY <2>1, PeerOps
  <2>3. peer' \in [Vips -> PeerState] /\ peer'[v] = AddEndpoint(peer[v], src)
    BY <1>1, <2>2 DEF RecvPingKnown, TypeOK, PeerState
  <2>4. peer'[v].eps \in Endpoints
    BY <2>2, <2>3 DEF PeerEntry
  <2>5. wg' \in [Keys -> Addrs \cup {NoAddr, RelayAddr}]
    BY <1>1, <2>4, TableOps DEF RecvPingKnown
  <2> QED BY <1>1, <2>3, <2>5 DEF RecvPingKnown, TypeOK, Pending
<1>2. ASSUME NEW v \in Vips, NEW k \in Keys, NEW src \in Addrs, NEW ok \in SUBSET {src},
             RecvPingNew(v, k, src, ok)
      PROVE  TypeOK'
  <2>1. Upsert(EmptyEndpoints, src) \in Endpoints
    BY RelayProbesAssumption DEF EmptyEndpoints, Endpoints, Endpoint, EndpointState, Upsert
  <2>2. peer' \in [Vips -> PeerState]
    <3>1. NewPeer(k, "DirectTry", NoNat, "Direct", Upsert(EmptyEndpoints, src)) \in PeerEntry
      BY <2>1 DEF NewPeer, PeerEntry, PeerConnectionState, ConnectionStrategy
    <3> QED BY <1>2, <3>1 DEF RecvPingNew, TypeOK, PeerState
  <2>3. sent' \in 0..Batches /\ pings' \in [TxId -> PendingDiscoPing \cup {NoPing}]
    <3>1. SendPings(v, ok) BY <1>2 DEF RecvPingNew
    <3>2. EmptyEndpoints \in Endpoints
      BY RelayProbesAssumption DEF EmptyEndpoints, Endpoints, Endpoint, EndpointState
    <3> QED BY <3>1, <3>2, TableOps
  <2> QED BY <1>2, <2>2, <2>3 DEF RecvPingNew, TypeOK, Pending
<1>3. ASSUME NEW tx \in TxId, NEW k \in Keys, NEW src \in Addrs, RecvPong(tx, k, src)
      PROVE  TypeOK'
  <2>1. pings[tx] \in PendingDiscoPing /\ pings[tx].vip \in Vips
    BY <1>3 DEF RecvPong, Pending, TypeOK, PendingDiscoPing
  <2>2. /\ pings' \in [TxId -> PendingDiscoPing \cup {NoPing}]
        /\ heard' \subseteq Vips \X Keys \X Addrs
    BY <1>3, <2>1 DEF RecvPong, TypeOK
  <2> DEFINE v == pings[tx].vip
  <2>4. CASE PongAccepted(peer[v], k)
    <3>0. peer[v] \in PeerEntry /\ RecordPongFrom(peer[v], src) \in PeerEntry
      BY <2>1, <2>4, PeerOps, KnownEntry DEF PongAccepted, Known
    <3>1. peer' \in [Vips -> PeerState] /\ peer'[v] \in PeerEntry
      BY <1>3, <2>1, <3>0, <2>4 DEF RecvPong, TypeOK, PeerState
    <3>2. wg' \in [Keys -> Addrs \cup {NoAddr, RelayAddr}]
      <4>1. ConfigureBest(peer[v].key, peer'[v].eps)
        BY <1>3, <2>4 DEF RecvPong
      <4>2. peer'[v].eps \in Endpoints /\ peer[v].key \in Keys \cup {NoKey}
        BY <3>1, <3>0 DEF PeerEntry
      <4> QED BY <4>1, <4>2, TableOps, <2>1
    <3> QED BY <1>3, <2>2, <3>1, <3>2 DEF RecvPong, TypeOK, Pending
  <2>5. CASE ~PongAccepted(peer[v], k)
    BY <1>3, <2>2, <2>5 DEF RecvPong, TypeOK, Pending
  <2> QED BY <2>4, <2>5
<1>4. ASSUME NEW v \in Vips, NEW k \in Keys, RecvBindAck(v, k) PROVE TypeOK'
  <2>1. peer[v] \in PeerEntry
    BY <1>4, KnownEntry DEF RecvBindAck, AckPeer
  <2>2. MarkRelayed(peer[v]) \in PeerEntry
    BY <2>1 DEF MarkRelayed, PeerEntry, PeerConnectionState
  <2> QED BY <1>4, <2>2 DEF RecvBindAck, TypeOK, Pending, PeerState
<1>5. ASSUME NEW v \in Vips, NEW k \in Keys, RecvBindNack(v, k) PROVE TypeOK'
  <2>1. peer' \in [Vips -> PeerState]
    <3>1. peer[v] \in PeerEntry
      BY <1>5, KnownEntry DEF RecvBindNack, AckPeer
    <3>2. [peer[v] EXCEPT !.st = "Failed"] \in PeerEntry
      BY <3>1 DEF PeerEntry, PeerConnectionState
    <3> QED BY <1>5, <3>2 DEF RecvBindNack, TypeOK, PeerState
  <2> QED BY <1>5, <2>1 DEF RecvBindNack, TypeOK, Pending
<1>6. ASSUME NEW nat \in Nats, NatDetected(nat) PROVE TypeOK'
  BY <1>6 DEF NatDetected, TypeOK, Pending
<1>7. ASSUME NEW v \in Vips, NEW k \in Keys, NEW ep \in OptAddr, NEW mapped \in OptAddr,
             NEW theirs \in Nats, PeerUpdate(v, k, ep, mapped, theirs)
      PROVE  TypeOK'
  <2> DEFINE p0 == EntryFor(v, k, ep, theirs)
  <2>1. PICK moved \in EndpointMoved(p0, ep) :
          LET p == Updated(p0, moved, ep, mapped, theirs)
          IN  /\ heard' = IF moved THEN Forget(v) ELSE heard
              /\ IF HasWorking(p.eps)
                 THEN /\ peer' = [peer EXCEPT ![v] = p]
                      /\ ConfigureBest(p.key, p.eps)
                      /\ UNCHANGED <<pings, sent>>
                 ELSE StartProbing(v, p)
    BY <1>7 DEF PeerUpdate
  <2>2. moved \in BOOLEAN
    BY DEF EndpointMoved
  <2> DEFINE p == Updated(p0, moved, ep, mapped, theirs)
  <2>3. p \in PeerEntry
    BY <2>2, UpdateOps
  <2>4. p.eps \in Endpoints /\ p.key \in Keys \cup {NoKey}
    BY <2>3 DEF PeerEntry
  <2> HIDE DEF p, p0
  <2>5. heard' \subseteq Vips \X Keys \X Addrs
    BY <2>1 DEF Forget, TypeOK
  <2>6. /\ peer' \in [Vips -> PeerState]
        /\ wg' \in [Keys -> Addrs \cup {NoAddr, RelayAddr}]
        /\ sent' \in 0..Batches
        /\ pings' \in [TxId -> PendingDiscoPing \cup {NoPing}]
    <3>1. CASE HasWorking(p.eps)
      BY <2>1, <2>3, <2>4, <3>1, TableOps DEF TypeOK, PeerState, p
    <3>2. CASE ~HasWorking(p.eps)
      <4>1. StartProbing(v, p)
        BY <2>1, <3>2 DEF p
      <4>2. CASE PingAll(v, p)
        <5>1. PICK first \in Present(p.eps), ok \in SUBSET Present(p.eps) :
                /\ peer' = [peer EXCEPT ![v] = ProbeAll(p, ok)]
                /\ wg' = [wg EXCEPT ![p.key] = first]
                /\ SendPings(v, ok)
          BY <4>2 DEF PingAll
        <5>2. first \in Addrs /\ ok \in SUBSET Addrs
          BY DEF Present
        <5>3. ProbeAll(p, ok) \in PeerEntry
          BY <2>3, <5>2, PeerOps
        <5> QED BY <5>1, <5>2, <5>3, <2>4, TableOps DEF TypeOK, PeerState
      <4>3. CASE ~PingAll(v, p)
        <5>1. [p EXCEPT !.st = "RelayTry"] \in PeerEntry /\ [p EXCEPT !.st = "DirectTry"] \in PeerEntry
          BY <2>3 DEF PeerEntry, PeerConnectionState
        <5> QED BY <4>1, <4>3, <5>1, <2>3 DEF StartProbing, TypeOK, PeerState
      <4> QED BY <4>2, <4>3
    <3> QED BY <3>1, <3>2
  <2> QED BY <1>7, <2>5, <2>6 DEF PeerUpdate, TypeOK, Pending
<1>8. ASSUME NEW v \in Vips, RemovePeer(v) PROVE TypeOK'
  <2>1. NoPeer \in PeerState
    BY DEF PeerState
  <2> QED BY <1>8, <2>1 DEF RemovePeer, TypeOK, Pending, Forget
<1>9. ASSUME NEW expired \in SUBSET TxId, TickStart(expired) PROVE TypeOK'
  BY <1>9 DEF TickStart, TypeOK, Pending
<1>10. ASSUME NEW tx \in TxId, NEW demote \in BOOLEAN, TickRetry(tx, demote) PROVE TypeOK'
  <2>1. pings[tx] \in PendingDiscoPing /\ pings[tx].vip \in Vips
    BY <1>10 DEF TickRetry, Pending, TypeOK, PendingDiscoPing
  <2>2. pings' \in [TxId -> PendingDiscoPing \cup {NoPing}]
    BY <1>10, <2>1, ConstAssumption DEF TickRetry, CountRetry, MoreRetries, TypeOK, PendingDiscoPing
  <2> DEFINE v == pings[tx].vip
  <2>3. peer[v].eps \in Endpoints /\ Target(tx) \in Addrs
    BY <2>1, KnownEntry DEF TxId, Target
  <2>4. MarkProbing(peer[v].eps, Target(tx), demote) \in Endpoints
    BY <2>3, EndpointOps
  <2>5. peer' \in [Vips -> PeerState]
    <3>1. CASE Known(v)
      <4>1. peer[v] \in PeerEntry
        BY <2>1, <3>1, KnownEntry
      <4>2. [peer[v] EXCEPT !.eps = MarkProbing(peer[v].eps, Target(tx), demote)] \in PeerEntry
        BY <4>1, <2>4 DEF PeerEntry
      <4> QED BY <1>10, <2>1, <3>1, <4>2 DEF TickRetry, TypeOK, PeerState
    <3>2. CASE ~Known(v)
      <4>1. peer[v] = NoPeer
        BY <2>1, <3>2 DEF Known, TypeOK, PeerState, PeerEntry, PeerConnectionState
      <4>2. [peer[v] EXCEPT !.eps = peer[v].eps] = NoPeer
        BY <4>1 DEF NoPeer
      <4> QED BY <1>10, <2>1, <3>2, <4>2 DEF TickRetry, TypeOK, PeerState
    <3> QED BY <3>1, <3>2
  <2>6. todo' \subseteq Pending'
    BY <1>10 DEF TickRetry, TypeOK, Pending
  <2> QED BY <1>10, <2>2, <2>5, <2>6 DEF TickRetry, TypeOK
<1>11. ASSUME NEW tx \in TxId, TickTimeout(tx) PROVE TypeOK'
  <2>1. pings[tx] \in PendingDiscoPing /\ pings[tx].vip \in Vips
    BY <1>11 DEF TickTimeout, Pending, TypeOK, PendingDiscoPing
  <2>2. pings' \in [TxId -> PendingDiscoPing \cup {NoPing}]
    BY <1>11 DEF TickTimeout, TypeOK
  <2>3. todo' \subseteq Pending'
    BY <1>11 DEF TickTimeout, TypeOK, Pending
  <2> DEFINE v == pings[tx].vip
  <2>4. Target(tx) \in Addrs
    BY DEF TxId, Target
  <2>6. CASE ~Known(v)
    BY <1>11, <2>2, <2>3, <2>6 DEF TickTimeout, TypeOK
  <2>7. CASE Known(v)
    <3>0. peer[v] \in PeerEntry /\ GiveUp(peer[v], Target(tx)) \in PeerEntry
      BY <2>1, <2>4, <2>7, PeerOps, KnownEntry
    <3>1. peer' \in [Vips -> PeerState] /\ peer'[v] \in PeerEntry
      BY <1>11, <2>1, <3>0, <2>7 DEF TickTimeout, TypeOK, PeerState
    <3>2. peer'[v].eps \in Endpoints /\ peer[v].key \in Keys \cup {NoKey}
      BY <3>1, <3>0 DEF PeerEntry
    <3>3. \/ UNCHANGED wg
          \/ wg' = [wg EXCEPT ![peer[v].key] = NoAddr]
          \/ ConfigureBest(peer[v].key, peer'[v].eps)
      BY <1>11, <2>7 DEF TickTimeout
    <3>4. wg' \in [Keys -> Addrs \cup {NoAddr, RelayAddr}]
      BY <3>2, <3>3, <2>1, TableOps DEF TypeOK
    <3> QED BY <1>11, <2>2, <2>3, <3>1, <3>4 DEF TickTimeout, TypeOK
  <2> QED BY <2>6, <2>7
<1>12. ASSUME NEW out \in SUBSET Vips, TickEnd(out) PROVE TypeOK'
  <2>1. \A u \in Vips : WaitsForRelay(peer[u]) => peer[u].key \in Keys
    BY KnownEntry DEF WaitsForRelay
  <2> QED BY <1>12, <2>1 DEF TickEnd, PeersNeedingRelay, TypeOK, Pending
<1>13. CASE UNCHANGED vars
  BY <1>13 DEF vars, TypeOK, Pending
<1> QED
  BY <1>1, <1>2, <1>3, <1>4, <1>5, <1>6, <1>7, <1>8, <1>9, <1>10, <1>11, <1>12, <1>13
     DEF Next, RecvPing, RecvPongs, RecvAcks, NucleusUpdate, Stun, Departure, Tick

\* Type correctness of the dispatcher for every instance: the tables keep
\* their shape and no ping is retried more than max_retries times.
THEOREM TypeCorrect == Spec => []TypeOK
BY TypeInit, TypeStep, PTL DEF Spec

-----------------------------------------------------------------------------
(* The inductive invariant, entry by entry: H is the set of matched pongs,  *)
(* S the set of keys with a relay session.                                  *)

GoodPeer(v, p, H, S) ==
  /\ p.st = "DirectOk" => \E a \in Addrs : <<v, p.key, a>> \in H
  /\ \A a \in Working(p.eps) : <<v, p.key, a>> \in H
  /\ HasWorking(p.eps) => p.st = "DirectOk"
  /\ p.st = "DirectOk" => ~p.using_relay
  /\ p.st = "RelayOk" => p.using_relay /\ p.key \in S

IInv == \A v \in Vips : GoodPeer(v, peer[v], heard, sessions)

\* How each operation changes the set of working endpoints.
LEMMA WorkingOps ==
  ASSUME NEW eps \in Endpoints, NEW a \in Addrs, NEW d \in BOOLEAN
  PROVE  /\ Working(Upsert(eps, a)) = Working(eps)
         /\ Working(MarkProbing(eps, a, d)) \subseteq Working(eps)
         /\ Working(MarkFailed(eps, a)) = Working(eps) \ {a}
         /\ Working(RecordPong(eps, a)) = Working(eps) \cup {a}
         /\ Working(EmptyEndpoints) = {}
BY DEF Working, Endpoints, Endpoint, Upsert, MarkProbing, MarkFailed, RecordPong, EmptyEndpoints

\* Every PeerState method keeps a good entry good, under the conditions the
\* handlers check before they call it.
LEMMA GoodOps ==
  ASSUME NEW v \in Vips, NEW p \in PeerEntry, NEW H, NEW S, GoodPeer(v, p, H, S),
         NEW a \in Addrs, NEW ok \in SUBSET Addrs, NEW d \in BOOLEAN, NEW theirs
  PROVE  /\ GoodPeer(v, AddEndpoint(p, a), H, S)
         /\ GoodPeer(v, UpdateStrategy(p, theirs), H, S)
         /\ GoodPeer(v, [p EXCEPT !.eps = MarkProbing(p.eps, a, d)], H, S)
         /\ <<v, p.key, a>> \in H => GoodPeer(v, RecordPongFrom(p, a), H, S)
         /\ GoodPeer(v, GiveUp(p, a), H, S)
         /\ p.st = "RelayTry" /\ p.key \in S => GoodPeer(v, MarkRelayed(p), H, S)
         /\ ~HasWorking(p.eps) => GoodPeer(v, ProbeAll(p, ok), H, S)
         /\ \A st \in {"RelayTry", "DirectTry", "Failed"} :
              ~HasWorking(p.eps) => GoodPeer(v, [p EXCEPT !.st = st], H, S)
<1>0. p.eps \in Endpoints
  BY DEF PeerEntry
<1>1. GoodPeer(v, AddEndpoint(p, a), H, S)
  BY <1>0, WorkingOps DEF GoodPeer, AddEndpoint, PeerEntry, HasWorking
<1>2. GoodPeer(v, UpdateStrategy(p, theirs), H, S)
  BY DEF GoodPeer, UpdateStrategy, PeerEntry
<1>3. GoodPeer(v, [p EXCEPT !.eps = MarkProbing(p.eps, a, d)], H, S)
  BY <1>0, WorkingOps DEF GoodPeer, PeerEntry, HasWorking
<1>4. <<v, p.key, a>> \in H => GoodPeer(v, RecordPongFrom(p, a), H, S)
  BY <1>0, WorkingOps DEF GoodPeer, RecordPongFrom, PeerEntry
<1>5. GoodPeer(v, GiveUp(p, a), H, S)
  <2> DEFINE q == MarkEndpointFailed(p, a)
  <2>1. Working(MarkFailed(p.eps, a)) \subseteq Working(p.eps)
    BY <1>0, WorkingOps
  <2>2. q.eps = MarkFailed(p.eps, a) /\ q.key = p.key /\ q.using_relay = p.using_relay
    BY DEF MarkEndpointFailed, PeerEntry
  <2>3. q.st = IF NeedsRelay(q.eps) THEN "RelayTry" ELSE p.st
    BY DEF MarkEndpointFailed, PeerEntry
  <2>4. CASE NeedsRelay(q.eps)
    <3>1. ~HasWorking(q.eps)
      BY <2>4 DEF NeedsRelay
    <3> QED BY <2>2, <2>4, <3>1 DEF GoodPeer, GiveUp, MarkEndpointFailed, PeerEntry, HasWorking
  <2>5. CASE ~NeedsRelay(q.eps)
    <3>1. GiveUp(p, a) = q
      BY <2>5 DEF GiveUp
    <3>2. GoodPeer(v, q, H, S)
      BY <2>1, <2>2, <2>3, <2>5 DEF GoodPeer, HasWorking
    <3> QED BY <3>1, <3>2
  <2> QED BY <2>4, <2>5
<1>6. p.st = "RelayTry" /\ p.key \in S => GoodPeer(v, MarkRelayed(p), H, S)
  BY DEF GoodPeer, MarkRelayed, PeerEntry, HasWorking
<1>7. ~HasWorking(p.eps) => GoodPeer(v, ProbeAll(p, ok), H, S)
  <2> SUFFICES ASSUME ~HasWorking(p.eps) PROVE GoodPeer(v, ProbeAll(p, ok), H, S)
    OBVIOUS
  <2>1. \A b \in Addrs : MarkProbing(p.eps, b, TRUE)[b].st # "working"
    BY <1>0 DEF MarkProbing, HasWorking, Working, Endpoints, Endpoint
  <2>2. Working(ProbeAll(p, ok).eps) = {}
    BY <2>1 DEF ProbeAll, Working, HasWorking, PeerEntry
  <2>3. ProbeAll(p, ok).st = "DirectTry"
    BY DEF ProbeAll, PeerEntry
  <2> QED BY <2>2, <2>3 DEF GoodPeer, HasWorking
<1>8. \A st \in {"RelayTry", "DirectTry", "Failed"} :
        ~HasWorking(p.eps) => GoodPeer(v, [p EXCEPT !.st = st], H, S)
  BY DEF GoodPeer, PeerEntry, HasWorking
<1> QED BY <1>1, <1>2, <1>3, <1>4, <1>5, <1>6, <1>7, <1>8

\* More matched pongs or more sessions never spoil an entry; forgetting the
\* pongs of one peer does not touch the others.
LEMMA GoodMonotone ==
  ASSUME NEW v \in Vips, NEW p, NEW H, NEW S, GoodPeer(v, p, H, S), NEW H2, NEW S2,
         S \subseteq S2, \A k, a : <<v, k, a>> \in H => <<v, k, a>> \in H2
  PROVE  GoodPeer(v, p, H2, S2)
BY DEF GoodPeer

\* The absent entry and a freshly reset one are good whatever was heard.
LEMMA GoodFresh ==
  ASSUME NEW v \in Vips, NEW H, NEW S
  PROVE  /\ GoodPeer(v, NoPeer, H, S)
         /\ \A p \in PeerEntry : GoodPeer(v, ResetPeer(p), H, S)
<1>1. Working(EmptyEndpoints) = {}
  BY DEF Working, EmptyEndpoints
<1>2. GoodPeer(v, NoPeer, H, S)
  BY <1>1 DEF GoodPeer, NoPeer, HasWorking
<1>3. ASSUME NEW p \in PeerEntry PROVE GoodPeer(v, ResetPeer(p), H, S)
  <2>1. p.eps \in Endpoints
    BY DEF PeerEntry
  <2>2. \A a \in Addrs : MarkFailed(p.eps, a)[a].st # "working"
    BY <2>1 DEF MarkFailed, Endpoints, Endpoint
  <2>3. Working(ResetPeer(p).eps) = {} /\ ResetPeer(p).st = "Init"
    BY <2>2 DEF ResetPeer, Working, PeerEntry
  <2> QED BY <2>3 DEF GoodPeer, HasWorking
<1> QED BY <1>2, <1>3

\* The entry an update starts from, and the entry after its bookkeeping.
LEMMA GoodUpdate ==
  ASSUME TypeOK, IInv, NEW v \in Vips, NEW k \in Keys, NEW ep \in OptAddr,
         NEW mapped \in OptAddr, NEW theirs \in Nats, NEW moved \in BOOLEAN
  PROVE  GoodPeer(v, Updated(EntryFor(v, k, ep, theirs), moved, ep, mapped, theirs),
                  IF moved THEN Forget(v) ELSE heard, sessions)
<1> DEFINE H == IF moved THEN Forget(v) ELSE heard
           p0 == EntryFor(v, k, ep, theirs)
           p1 == IF moved THEN ResetPeer(p0) ELSE p0
           p2 == AddEndpoint(p1, ep)
           p3 == AddEndpoint(p2, mapped)
<1>1. GoodPeer(v, p0, heard, sessions)
  <2>1. CASE Known(v)
    BY <2>1 DEF IInv, EntryFor
  <2>2. CASE ~Known(v)
    <3>1. EmptyEndpoints \in Endpoints
      BY RelayProbesAssumption DEF EmptyEndpoints, Endpoints, Endpoint, EndpointState
    <3>2. Working(p0.eps) = {} /\ p0.st = "Init"
      BY <2>2, <3>1, WorkingOps DEF EntryFor, NewPeer, OptAddr, Working, EmptyEndpoints
    <3> QED BY <3>2 DEF GoodPeer, HasWorking
  <2> QED BY <2>1, <2>2
<1>2. p0 \in PeerEntry
  BY UpdateOps
<1> HIDE DEF p0
<1>3. GoodPeer(v, p1, H, sessions)
  BY <1>1, <1>2, GoodFresh
<1>4. p1 \in PeerEntry
  <2>1. CASE Addrs = {}
    BY <1>2, <2>1 DEF PeerEntry, Endpoints, ResetPeer, PeerConnectionState
  <2>2. CASE Addrs # {}
    BY <1>2, <2>2, PeerOps
  <2> QED BY <2>1, <2>2
<1> HIDE DEF p1, H
<1>5. p2 \in PeerEntry /\ GoodPeer(v, p2, H, sessions)
  <2>1. CASE ep = NoAddr
    BY <1>3, <1>4, <2>1 DEF AddEndpoint
  <2>2. CASE ep \in Addrs
    BY <1>3, <1>4, <2>2, GoodOps, PeerOps
  <2> QED BY <2>1, <2>2 DEF OptAddr
<1> HIDE DEF p2
<1>6. p3 \in PeerEntry /\ GoodPeer(v, p3, H, sessions)
  <2>1. CASE mapped = NoAddr
    BY <1>5, <2>1 DEF AddEndpoint
  <2>2. CASE mapped \in Addrs
    BY <1>5, <2>2, GoodOps, PeerOps
  <2> QED BY <2>1, <2>2 DEF OptAddr
<1> HIDE DEF p3
<1>7. GoodPeer(v, UpdateStrategy(p3, theirs), H, sessions)
  BY <1>6 DEF GoodPeer, UpdateStrategy, PeerEntry
<1> QED BY <1>7 DEF Updated, p3, p2, p1, p0, H

LEMMA IInvStep == TypeOK /\ IInv /\ [Next]_vars => IInv'
<1> SUFFICES ASSUME TypeOK, IInv, [Next]_vars PROVE IInv'
  OBVIOUS
<1>1. ASSUME NEW v \in Vips, NEW k \in Keys, NEW src \in Addrs, RecvPingKnown(v, k, src)
      PROVE  IInv'
  <2>1. peer[v] \in PeerEntry /\ GoodPeer(v, peer[v], heard, sessions)
    BY <1>1, KnownEntry DEF RecvPingKnown, IInv
  <2>2. GoodPeer(v, AddEndpoint(peer[v], src), heard, sessions)
    BY <2>1, GoodOps
  <2> QED BY <1>1, <2>2 DEF RecvPingKnown, IInv, TypeOK
<1>2. ASSUME NEW v \in Vips, NEW k \in Keys, NEW src \in Addrs, NEW ok \in SUBSET {src},
             RecvPingNew(v, k, src, ok)
      PROVE  IInv'
  <2>1. EmptyEndpoints \in Endpoints
    BY RelayProbesAssumption DEF EmptyEndpoints, Endpoints, Endpoint, EndpointState
  <2>2. Working(Upsert(EmptyEndpoints, src)) = {}
    BY <2>1, WorkingOps
  <2>3. GoodPeer(v, NewPeer(k, "DirectTry", NoNat, "Direct", Upsert(EmptyEndpoints, src)), heard, sessions)
    BY <2>2 DEF GoodPeer, NewPeer, HasWorking
  <2> QED BY <1>2, <2>3 DEF RecvPingNew, IInv, TypeOK
<1>3. ASSUME NEW tx \in TxId, NEW k \in Keys, NEW src \in Addrs, RecvPong(tx, k, src)
      PROVE  IInv'
  <2>1. pings[tx].vip \in Vips
    BY <1>3 DEF RecvPong, Pending, TypeOK, PendingDiscoPing
  <2> DEFINE v == pings[tx].vip
  <2>2. heard' = heard \cup {<<v, k, src>>} /\ sessions' = sessions
    BY <1>3 DEF RecvPong
  <2>3. \A u \in Vips : GoodPeer(u, peer[u], heard', sessions')
    BY <2>2, GoodMonotone DEF IInv
  <2>4. CASE PongAccepted(peer[v], k)
    <3>1. peer[v] \in PeerEntry /\ peer[v].key = k
      BY <2>1, <2>4, KnownEntry DEF PongAccepted, Known
    <3>2. GoodPeer(v, RecordPongFrom(peer[v], src), heard', sessions')
      BY <2>1, <2>2, <2>3, <3>1, GoodOps
    <3>3. peer' = [peer EXCEPT ![v] = RecordPongFrom(peer[v], src)]
      BY <1>3, <2>4 DEF RecvPong
    <3> QED BY <2>1, <2>3, <3>2, <3>3 DEF IInv, TypeOK
  <2>5. CASE ~PongAccepted(peer[v], k)
    BY <1>3, <2>3, <2>5 DEF RecvPong, IInv
  <2> QED BY <2>4, <2>5
<1>4. ASSUME NEW v \in Vips, NEW k \in Keys, RecvBindAck(v, k) PROVE IInv'
  <2>1. peer[v] \in PeerEntry /\ peer[v].key = k /\ peer[v].st = "RelayTry"
    BY <1>4, KnownEntry DEF RecvBindAck, AckPeer, WaitsForRelay
  <2>2. \A u \in Vips : GoodPeer(u, peer[u], heard, sessions \cup {k})
    BY GoodMonotone DEF IInv
  <2>3. GoodPeer(v, MarkRelayed(peer[v]), heard, sessions \cup {k})
    BY <2>1, <2>2 DEF GoodPeer, MarkRelayed, PeerEntry, HasWorking
  <2> QED BY <1>4, <2>2, <2>3 DEF RecvBindAck, IInv, TypeOK
<1>5. ASSUME NEW v \in Vips, NEW k \in Keys, RecvBindNack(v, k) PROVE IInv'
  <2>1. peer[v] \in PeerEntry /\ peer[v].st = "RelayTry" /\ GoodPeer(v, peer[v], heard, sessions)
    BY <1>5, KnownEntry DEF RecvBindNack, AckPeer, WaitsForRelay, IInv
  <2>2. GoodPeer(v, [peer[v] EXCEPT !.st = "Failed"], heard, sessions)
    BY <2>1 DEF GoodPeer, PeerEntry, HasWorking
  <2> QED BY <1>5, <2>2 DEF RecvBindNack, IInv, TypeOK
<1>6. ASSUME NEW nat \in Nats, NatDetected(nat) PROVE IInv'
  BY <1>6 DEF NatDetected, IInv
<1>7. ASSUME NEW v \in Vips, NEW k \in Keys, NEW ep \in OptAddr, NEW mapped \in OptAddr,
             NEW theirs \in Nats, PeerUpdate(v, k, ep, mapped, theirs)
      PROVE  IInv'
  <2> DEFINE p0 == EntryFor(v, k, ep, theirs)
  <2>1. PICK moved \in EndpointMoved(p0, ep) :
          LET p == Updated(p0, moved, ep, mapped, theirs)
          IN  /\ heard' = IF moved THEN Forget(v) ELSE heard
              /\ IF HasWorking(p.eps)
                 THEN /\ peer' = [peer EXCEPT ![v] = p]
                      /\ ConfigureBest(p.key, p.eps)
                      /\ UNCHANGED <<pings, sent>>
                 ELSE StartProbing(v, p)
    BY <1>7 DEF PeerUpdate
  <2>2. moved \in BOOLEAN
    BY DEF EndpointMoved
  <2> DEFINE p == Updated(p0, moved, ep, mapped, theirs)
  <2>3. p \in PeerEntry /\ GoodPeer(v, p, heard', sessions')
    <3>1. sessions' = sessions
      BY <1>7 DEF PeerUpdate
    <3> QED BY <2>1, <2>2, <3>1, UpdateOps, GoodUpdate
  <2> HIDE DEF p, p0
  <2>4. \A u \in Vips \ {v} : GoodPeer(u, peer[u], heard', sessions')
    <3>1. sessions' = sessions
      BY <1>7 DEF PeerUpdate
    <3>2. \A u \in Vips \ {v} : \A c, a : <<u, c, a>> \in heard => <<u, c, a>> \in heard'
      BY <2>1 DEF Forget
    <3> QED BY <3>1, <3>2, GoodMonotone DEF IInv
  <2>5. \E q : peer' = [peer EXCEPT ![v] = q] /\ GoodPeer(v, q, heard', sessions')
    <3>1. CASE HasWorking(p.eps)
      BY <2>1, <2>3, <3>1 DEF p
    <3>2. CASE ~HasWorking(p.eps)
      <4>1. StartProbing(v, p)
        BY <2>1, <3>2 DEF p
      <4>2. CASE PingAll(v, p)
        <5>1. PICK first \in Present(p.eps), ok \in SUBSET Present(p.eps) :
                peer' = [peer EXCEPT ![v] = ProbeAll(p, ok)]
          BY <4>2 DEF PingAll
        <5>2. first \in Addrs /\ ok \in SUBSET Addrs
          BY DEF Present
        <5>3. GoodPeer(v, ProbeAll(p, ok), heard', sessions')
          BY <2>3, <3>2, <5>2, GoodOps
        <5> QED BY <5>1, <5>3
      <4>3. CASE ~PingAll(v, p)
        <5>1. \A st \in {"RelayTry", "DirectTry"} :
                GoodPeer(v, [p EXCEPT !.st = st], heard', sessions')
          BY <2>3, <3>2 DEF GoodPeer, PeerEntry, HasWorking
        <5> QED BY <4>1, <4>3, <5>1, <2>3 DEF StartProbing
      <4> QED BY <4>2, <4>3
    <3> QED BY <3>1, <3>2
  <2> QED BY <2>4, <2>5 DEF IInv, TypeOK
<1>8. ASSUME NEW v \in Vips, RemovePeer(v) PROVE IInv'
  <2>1. \A u \in Vips \ {v} : GoodPeer(u, peer[u], heard', sessions')
    <3>1. \A u \in Vips \ {v} : \A c, a : <<u, c, a>> \in heard => <<u, c, a>> \in heard'
      BY <1>8 DEF RemovePeer, Forget
    <3> QED BY <1>8, <3>1, GoodMonotone DEF IInv, RemovePeer
  <2> QED BY <1>8, <2>1, GoodFresh DEF RemovePeer, IInv, TypeOK
<1>9. ASSUME NEW expired \in SUBSET TxId, TickStart(expired) PROVE IInv'
  BY <1>9 DEF TickStart, IInv
<1>10. ASSUME NEW tx \in TxId, NEW demote \in BOOLEAN, TickRetry(tx, demote) PROVE IInv'
  <2>1. pings[tx].vip \in Vips /\ Target(tx) \in Addrs
    BY <1>10 DEF TickRetry, Pending, TypeOK, PendingDiscoPing, TxId, Target
  <2> DEFINE v == pings[tx].vip
  <2>2. CASE Known(v)
    <3>1. GoodPeer(v, [peer[v] EXCEPT !.eps = MarkProbing(peer[v].eps, Target(tx), demote)], heard, sessions)
      BY <2>1, <2>2, KnownEntry, GoodOps DEF IInv
    <3> QED BY <1>10, <2>1, <2>2, <3>1 DEF TickRetry, IInv, TypeOK
  <2>3. CASE ~Known(v)
    <3>1. GoodPeer(v, [peer[v] EXCEPT !.eps = peer[v].eps], heard, sessions)
      BY <2>1 DEF IInv, GoodPeer
    <3> QED BY <1>10, <2>1, <2>3, <3>1 DEF TickRetry, IInv, TypeOK
  <2> QED BY <2>2, <2>3
<1>11. ASSUME NEW tx \in TxId, TickTimeout(tx) PROVE IInv'
  <2>1. pings[tx].vip \in Vips /\ Target(tx) \in Addrs
    BY <1>11 DEF TickTimeout, Pending, TypeOK, PendingDiscoPing, TxId, Target
  <2> DEFINE v == pings[tx].vip
  <2>2. CASE Known(v)
    <3>1. GoodPeer(v, GiveUp(peer[v], Target(tx)), heard, sessions)
      BY <2>1, <2>2, KnownEntry, GoodOps DEF IInv
    <3> QED BY <1>11, <2>1, <2>2, <3>1 DEF TickTimeout, IInv, TypeOK
  <2>3. CASE ~Known(v)
    BY <1>11, <2>3 DEF TickTimeout, IInv
  <2> QED BY <2>2, <2>3
<1>12. ASSUME NEW out \in SUBSET Vips, TickEnd(out) PROVE IInv'
  BY <1>12 DEF TickEnd, IInv
<1>13. CASE UNCHANGED vars
  BY <1>13 DEF vars, IInv
<1> QED
  BY <1>1, <1>2, <1>3, <1>4, <1>5, <1>6, <1>7, <1>8, <1>9, <1>10, <1>11, <1>12, <1>13
     DEF Next, RecvPing, RecvPongs, RecvAcks, NucleusUpdate, Stun, Departure, Tick

LEMMA IInvAlways == Spec => []IInv
<1>1. Init => IInv
  BY GoodFresh DEF Init, IInv
<1> QED BY <1>1, IInvStep, TypeCorrect, PTL DEF Spec

-----------------------------------------------------------------------------
(* The safety theorems *)

\* No connection is reported, and no endpoint trusted, without an answer to
\* one of our own pings under the key the peer table holds (pong handler,
\* manager.rs:1803-1872), whatever is lost, late, duplicated or re-keyed.
THEOREM DirectVerified == Spec => []DirectIsVerified
<1>1. IInv => DirectIsVerified
  BY DEF IInv, GoodPeer, DirectIsVerified
<1> QED BY <1>1, IInvAlways, PTL

\* A peer with a working endpoint is always in DirectOk (record_pong, the
\* timeout arm and the update handler agree on what "working" means).
THEOREM WorkingDirect == Spec => []WorkingIsDirect
<1>1. IInv => WorkingIsDirect
  BY DEF IInv, GoodPeer, WorkingIsDirect
<1> QED BY <1>1, IInvAlways, PTL

\* using_relay and relay_sessions agree with the connection state.
THEOREM RelayFlag == Spec => []RelayFlagAgrees
<1>1. IInv => RelayFlagAgrees
  BY DEF IInv, GoodPeer, RelayFlagAgrees
<1> QED BY <1>1, IInvAlways, PTL

\* The reported state follows the paths: what a timeout, a relay answer or an
\* update does to an entry never hides a working endpoint, and the relay flag
\* goes with the state, whatever their order and number.
THEOREM PathsFollowed == Spec => []StateFollowsPaths
BY WorkingDirect, RelayFlag, PTL DEF StateFollowsPaths

-----------------------------------------------------------------------------
(* The traffic of a directly connected peer *)

\* A peer is DirectOk only with an address in its table.
PresentInv == \A v \in Vips : peer[v].st = "DirectOk" => Present(peer[v].eps) # {}

\* What DirectTrafficStays says of one peer and one step.
Stays(v) ==
  peer'[v].st = "DirectOk" /\ Alone(v)' =>
    \/ peer[v].st = "DirectOk" /\ wg'[peer'[v].key] = wg[peer[v].key]
    \/ wg'[peer'[v].key] \in Present(peer'[v].eps)

\* What must hold of the entry q that a step puts in the place of p.
Placed(p, q) ==
  q.st = "DirectOk" =>
    /\ q.key \in Keys /\ Present(q.eps) # {}
    /\ \/ p.st = "DirectOk" /\ q.key = p.key /\ wg' = wg
       \/ wg'[q.key] \in Present(q.eps)

\* No operation takes an address out of the table, and the best endpoint is
\* in it.
LEMMA PresentOps ==
  ASSUME NEW eps \in Endpoints, NEW a \in Addrs
  PROVE  /\ Present(Upsert(eps, a)) = Present(eps) \cup {a}
         /\ \A d \in BOOLEAN : Present(MarkProbing(eps, a, d)) = Present(eps)
         /\ Present(MarkFailed(eps, a)) = Present(eps)
         /\ Present(RecordPong(eps, a)) = Present(eps) \cup {a}
         /\ Working(eps) \subseteq Present(eps)
         /\ BestChoices(eps) \subseteq Present(eps)
BY DEF Present, Endpoints, Endpoint, Upsert, MarkProbing, MarkFailed, RecordPong,
       BestChoices, Working, HasWorking

\* A step that rewrites one entry, and WireGuard at most under that entry's
\* key, has only that entry to answer for.
LEMMA OnePlaced ==
  ASSUME TypeOK, PresentInv, NEW v \in Vips, NEW q, NEW x,
         peer' = [peer EXCEPT ![v] = q],
         wg' = wg \/ wg' = [wg EXCEPT ![q.key] = x],
         Placed(peer[v], q)
  PROVE  PresentInv' /\ \A u \in Vips : Stays(u)
<1>1. peer'[v] = q /\ \A u \in Vips \ {v} : peer'[u] = peer[u]
  BY DEF TypeOK
<1>2. PresentInv'
  BY <1>1 DEF PresentInv, Placed
<1>3. Stays(v)
  BY <1>1 DEF Stays, Placed
<1>4. ASSUME NEW u \in Vips \ {v} PROVE Stays(u)
  <2> SUFFICES ASSUME peer[u].st = "DirectOk", peer[u].key # q.key
               PROVE  wg'[peer[u].key] = wg[peer[u].key]
    BY <1>1 DEF Stays, Alone
  <2>1. peer[u].key \in Keys
    BY KnownEntry DEF Known
  <2> QED BY <2>1 DEF TypeOK
<1> QED BY <1>2, <1>3, <1>4

\* An update that leaves the entry DirectOk leaves its addresses in it.
LEMMA UpdatedPresent ==
  ASSUME TypeOK, NEW v \in Vips, NEW k \in Keys, NEW ep \in OptAddr,
         NEW mapped \in OptAddr, NEW theirs \in Nats, NEW moved \in BOOLEAN,
         Updated(EntryFor(v, k, ep, theirs), moved, ep, mapped, theirs).st = "DirectOk"
  PROVE  /\ peer[v].st = "DirectOk"
         /\ Present(peer[v].eps) \subseteq
              Present(Updated(EntryFor(v, k, ep, theirs), moved, ep, mapped, theirs).eps)
<1> DEFINE p0 == EntryFor(v, k, ep, theirs)
           p1 == IF moved THEN ResetPeer(p0) ELSE p0
           p2 == AddEndpoint(p1, ep)
           p3 == AddEndpoint(p2, mapped)
           p4 == UpdateStrategy(p3, theirs)
<1>0. p4.st = "DirectOk"
  BY DEF Updated
<1>1. p0 \in PeerEntry /\ (~Known(v) => p0.st = "Init") /\ (Known(v) => p0 = peer[v])
  BY UpdateOps DEF EntryFor, NewPeer
<1> HIDE DEF p0
<1>2. p1.st = "DirectOk" => p1 = p0
  BY <1>1 DEF ResetPeer, PeerEntry
<1>3. DOMAIN p1 = DOMAIN p0
  BY <1>1 DEF ResetPeer, PeerEntry
<1> HIDE DEF p1
<1>4. p2.st = p1.st /\ DOMAIN p2 = DOMAIN p0
      /\ p2.eps = IF ep = NoAddr THEN p1.eps ELSE Upsert(p1.eps, ep)
  BY <1>1, <1>3 DEF AddEndpoint, PeerEntry
<1> HIDE DEF p2
<1>5. p3.st = p2.st /\ DOMAIN p3 = DOMAIN p0
      /\ p3.eps = IF mapped = NoAddr THEN p2.eps ELSE Upsert(p2.eps, mapped)
  BY <1>1, <1>4 DEF AddEndpoint, PeerEntry
<1> HIDE DEF p3
<1>6. p4.st = p3.st /\ p4.eps = p3.eps
  BY <1>1, <1>5 DEF UpdateStrategy, PeerEntry
<1> HIDE DEF p4
<1>7. p1 = p0 /\ p0.st = "DirectOk" /\ p0 = peer[v]
  BY <1>0, <1>1, <1>2, <1>4, <1>5, <1>6
<1>8. p0.eps \in Endpoints
  BY <1>1 DEF PeerEntry
<1>9. p2.eps \in Endpoints /\ Present(p0.eps) \subseteq Present(p2.eps)
  <2>1. CASE ep = NoAddr
    BY <1>4, <1>7, <1>8, <2>1
  <2>2. CASE ep \in Addrs
    BY <1>4, <1>7, <1>8, <2>2, PresentOps, EndpointOps, ConstAssumption
  <2> QED BY <2>1, <2>2 DEF OptAddr
<1>10. Present(p2.eps) \subseteq Present(p3.eps)
  <2>1. CASE mapped = NoAddr
    BY <1>5, <2>1
  <2>2. CASE mapped \in Addrs
    BY <1>5, <1>9, <2>2, PresentOps, ConstAssumption
  <2> QED BY <2>1, <2>2 DEF OptAddr
<1> QED BY <1>6, <1>7, <1>9, <1>10 DEF Updated, p4, p3, p2, p1, p0

LEMMA StaysStep == TypeOK /\ PresentInv /\ [Next]_vars => PresentInv' /\ \A u \in Vips : Stays(u)
<1> SUFFICES ASSUME TypeOK, PresentInv, [Next]_vars PROVE PresentInv' /\ \A u \in Vips : Stays(u)
  OBVIOUS
<1> DEFINE Goal == PresentInv' /\ \A u \in Vips : Stays(u)
<1>0. ASSUME UNCHANGED <<peer, wg>> PROVE Goal
  BY <1>0 DEF PresentInv, Stays
<1> HIDE DEF Goal
<1>1. ASSUME NEW v \in Vips, NEW k \in Keys, NEW src \in Addrs, RecvPingKnown(v, k, src)
      PROVE  Goal
  <2> DEFINE q == AddEndpoint(peer[v], src)
  <2>1. /\ peer[v] \in PeerEntry /\ peer' = [peer EXCEPT ![v] = q] /\ peer'[v] = q
        /\ ConfigureBest(k, q.eps) /\ peer[v].key = k
    BY <1>1, KnownEntry DEF RecvPingKnown, TypeOK
  <2>2. peer[v].eps \in Endpoints /\ q \in PeerEntry /\ src # NoAddr
    BY <2>1, PeerOps, ConstAssumption DEF PeerEntry
  <2>3. q.st = peer[v].st /\ q.key = k /\ q.eps = Upsert(peer[v].eps, src) /\ q.eps \in Endpoints
    BY <2>1, <2>2 DEF AddEndpoint, PeerEntry
  <2>4. src \in Present(q.eps) /\ BestChoices(q.eps) \subseteq Present(q.eps)
    <3>1. src \in Present(q.eps)
      BY <2>2, <2>3, PresentOps
    <3>2. BestChoices(q.eps) \subseteq Present(q.eps)
      BY <2>3, PresentOps
    <3> QED BY <3>1, <3>2
  <2> HIDE DEF q
  <2>5. PICK x : wg' = wg \/ (wg' = [wg EXCEPT ![q.key] = x] /\ x \in Present(q.eps))
    BY <2>1, <2>3, <2>4 DEF ConfigureBest
  <2>6. Placed(peer[v], q)
    BY <2>1, <2>3, <2>4, <2>5 DEF Placed, TypeOK
  <2> QED BY <2>1, <2>5, <2>6, OnePlaced DEF Goal
<1>2. ASSUME NEW v \in Vips, NEW k \in Keys, NEW src \in Addrs, NEW ok \in SUBSET {src},
             RecvPingNew(v, k, src, ok)
      PROVE  Goal
  <2> DEFINE q == NewPeer(k, "DirectTry", NoNat, "Direct", Upsert(EmptyEndpoints, src))
  <2>1. /\ peer' = [peer EXCEPT ![v] = q] /\ q.st = "DirectTry" /\ q.key = k
        /\ wg' = [wg EXCEPT ![k] = src]
    BY <1>2 DEF RecvPingNew, NewPeer
  <2> HIDE DEF q
  <2> QED BY <2>1, OnePlaced DEF Placed, Goal
<1>3. ASSUME NEW tx \in TxId, NEW k \in Keys, NEW src \in Addrs, RecvPong(tx, k, src)
      PROVE  Goal
  <2> DEFINE v == pings[tx].vip
             q == RecordPongFrom(peer[v], src)
  <2>1. v \in Vips
    BY <1>3 DEF RecvPong, Pending, TypeOK, PendingDiscoPing
  <2>2. CASE PongAccepted(peer[v], k)
    <3>1. peer[v] \in PeerEntry
      BY <2>1, <2>2, KnownEntry DEF PongAccepted, Known
    <3>2. q.eps = RecordPong(peer[v].eps, src) /\ q.key = peer[v].key /\ q.key \in Keys
          /\ peer[v].eps \in Endpoints
      BY <3>1 DEF RecordPongFrom, PeerEntry
    <3>3. peer' = [peer EXCEPT ![v] = q] /\ peer'[v] = q /\ ConfigureBest(q.key, q.eps)
      BY <1>3, <2>1, <2>2, <3>2 DEF RecvPong, TypeOK
    <3>4. src \in Working(q.eps) /\ BestChoices(q.eps) = Working(q.eps)
          /\ Working(q.eps) \subseteq Present(q.eps)
      <4>1. src \in Working(q.eps) /\ q.eps \in Endpoints
        BY <3>2 DEF RecordPong, Working, Endpoints, Endpoint, EndpointState
      <4>2. Working(q.eps) \subseteq Present(q.eps)
        BY <4>1, PresentOps
      <4> QED BY <4>1, <4>2 DEF BestChoices, HasWorking
    <3> HIDE DEF q
    <3>5. PICK x \in Present(q.eps) : wg' = [wg EXCEPT ![q.key] = x]
      BY <3>3, <3>4 DEF ConfigureBest
    <3>6. Placed(peer[v], q)
      BY <3>2, <3>5 DEF Placed, TypeOK
    <3> QED BY <2>1, <3>3, <3>5, <3>6, OnePlaced DEF Goal
  <2>3. CASE ~PongAccepted(peer[v], k)
    BY <1>0, <1>3, <2>3 DEF RecvPong
  <2> QED BY <2>2, <2>3
<1>4. ASSUME NEW v \in Vips, NEW k \in Keys, RecvBindAck(v, k) PROVE Goal
  <2> DEFINE q == MarkRelayed(peer[v])
  <2>1. peer[v].st = "RelayTry" /\ peer[v] \in PeerEntry /\ peer[v].key = k
    BY <1>4, KnownEntry DEF RecvBindAck, WaitsForRelay, AckPeer
  <2>2. /\ peer' = [peer EXCEPT ![v] = q] /\ q.st = "RelayOk" /\ q.key = k
        /\ wg' = [wg EXCEPT ![k] = RelayAddr]
    BY <1>4, <2>1 DEF RecvBindAck, MarkRelayed, PeerEntry
  <2> HIDE DEF q
  <2> QED BY <2>2, OnePlaced DEF Placed, Goal
<1>5. ASSUME NEW v \in Vips, NEW k \in Keys, RecvBindNack(v, k) PROVE Goal
  <2> DEFINE q == [peer[v] EXCEPT !.st = "Failed"]
  <2>1. peer[v].st = "RelayTry" /\ peer[v] \in PeerEntry
    BY <1>5, KnownEntry DEF RecvBindNack, WaitsForRelay
  <2>2. peer' = [peer EXCEPT ![v] = q] /\ q.st = "Failed" /\ wg' = wg
    BY <1>5, <2>1 DEF RecvBindNack, PeerEntry
  <2> HIDE DEF q
  <2> QED BY <2>2, OnePlaced DEF Placed, Goal
<1>6. ASSUME NEW nat \in Nats, NatDetected(nat) PROVE Goal
  BY <1>0, <1>6 DEF NatDetected
<1>7. ASSUME NEW v \in Vips, NEW k \in Keys, NEW ep \in OptAddr, NEW mapped \in OptAddr,
             NEW theirs \in Nats, PeerUpdate(v, k, ep, mapped, theirs)
      PROVE  Goal
  <2>1. PICK moved \in EndpointMoved(EntryFor(v, k, ep, theirs), ep) :
          LET p == Updated(EntryFor(v, k, ep, theirs), moved, ep, mapped, theirs)
          IN  \/ HasWorking(p.eps) /\ peer' = [peer EXCEPT ![v] = p] /\ ConfigureBest(p.key, p.eps)
              \/ ~HasWorking(p.eps) /\ StartProbing(v, p)
    BY <1>7 DEF PeerUpdate
  <2> DEFINE p == Updated(EntryFor(v, k, ep, theirs), moved, ep, mapped, theirs)
  <2>2. moved \in BOOLEAN
    BY DEF EndpointMoved
  <2>3. p \in PeerEntry /\ p.key \in Keys /\ p.eps \in Endpoints
    BY <2>2, UpdateOps DEF PeerEntry
  <2>4. p.st = "DirectOk" => Present(p.eps) # {}
    BY <2>2, UpdatedPresent DEF PresentInv
  <2>5. \/ HasWorking(p.eps) /\ peer' = [peer EXCEPT ![v] = p] /\ ConfigureBest(p.key, p.eps)
        \/ ~HasWorking(p.eps) /\ StartProbing(v, p)
    BY <2>1
  <2> HIDE DEF p
  <2>6. CASE HasWorking(p.eps) /\ peer' = [peer EXCEPT ![v] = p] /\ ConfigureBest(p.key, p.eps)
    <3>1. BestChoices(p.eps) # {} /\ BestChoices(p.eps) \subseteq Present(p.eps)
      BY <2>3, <2>6, PresentOps, EndpointOps DEF BestChoices, HasWorking, Working
    <3>2. PICK x \in Present(p.eps) : wg' = [wg EXCEPT ![p.key] = x]
      BY <2>6, <3>1 DEF ConfigureBest
    <3>3. Placed(peer[v], p)
      BY <2>3, <3>2 DEF Placed, TypeOK
    <3> QED BY <2>6, <3>2, <3>3, OnePlaced DEF Goal
  <2>7. CASE \E st \in {"RelayTry", "DirectTry"} :
               peer' = [peer EXCEPT ![v] = [p EXCEPT !.st = st]] /\ wg' = wg
    <3>1. PICK st \in {"RelayTry", "DirectTry"} :
            peer' = [peer EXCEPT ![v] = [p EXCEPT !.st = st]] /\ wg' = wg
      BY <2>7
    <3> DEFINE q == [p EXCEPT !.st = st]
    <3>2. q.st = st
      BY <2>3 DEF PeerEntry
    <3> HIDE DEF q
    <3> QED BY <3>1, <3>2, OnePlaced DEF Placed, Goal, q
  <2>8. CASE /\ Present(p.eps) = {} /\ peer' = [peer EXCEPT ![v] = p]
             /\ wg' = [wg EXCEPT ![p.key] = NoAddr]
    BY <2>4, <2>8, OnePlaced DEF Placed, Goal
  <2>9. CASE PingAll(v, p)
    <3>1. PICK first \in Present(p.eps), ok \in SUBSET Present(p.eps) :
            peer' = [peer EXCEPT ![v] = ProbeAll(p, ok)] /\ wg' = [wg EXCEPT ![p.key] = first]
      BY <2>9 DEF PingAll
    <3>2. ProbeAll(p, ok).st = "DirectTry" /\ ProbeAll(p, ok).key = p.key
      BY <2>3 DEF ProbeAll, PeerEntry
    <3> QED BY <3>1, <3>2, OnePlaced DEF Placed, Goal
  <2> QED BY <2>5, <2>6, <2>7, <2>8, <2>9 DEF StartProbing
<1>8. ASSUME NEW v \in Vips, RemovePeer(v) PROVE Goal
  BY <1>8, OnePlaced DEF RemovePeer, NoPeer, Placed, Goal
<1>9. ASSUME NEW expired \in SUBSET TxId, TickStart(expired) PROVE Goal
  BY <1>0, <1>9 DEF TickStart
<1>10. ASSUME NEW tx \in TxId, NEW demote \in BOOLEAN, TickRetry(tx, demote) PROVE Goal
  <2> DEFINE v == pings[tx].vip
             e == IF Known(v) THEN MarkProbing(peer[v].eps, Target(tx), demote) ELSE peer[v].eps
             q == [peer[v] EXCEPT !.eps = e]
  <2>1. v \in Vips /\ Target(tx) \in Addrs
    BY <1>10 DEF TickRetry, Pending, TypeOK, PendingDiscoPing, TxId, Target
  <2>2. peer' = [peer EXCEPT ![v] = q] /\ wg' = wg
    BY <1>10, <2>1 DEF TickRetry
  <2>3. Present(e) = Present(peer[v].eps)
    BY <2>1, KnownEntry, PresentOps
  <2>4. q.st = peer[v].st /\ q.key = peer[v].key /\ q.eps = e
    BY <2>1 DEF TypeOK, PeerState, PeerEntry, NoPeer
  <2>5. peer[v].st = "DirectOk" => peer[v].key \in Keys
    BY <2>1, KnownEntry DEF Known
  <2> HIDE DEF q, e
  <2>6. Placed(peer[v], q)
    BY <2>1, <2>2, <2>3, <2>4, <2>5 DEF Placed, PresentInv
  <2> QED BY <2>1, <2>2, <2>6, OnePlaced DEF Goal
<1>11. ASSUME NEW tx \in TxId, TickTimeout(tx) PROVE Goal
  <2> DEFINE v == pings[tx].vip
             a == Target(tx)
             m == MarkEndpointFailed(peer[v], a)
             q == GiveUp(peer[v], a)
  <2>1. v \in Vips /\ a \in Addrs
    BY <1>11 DEF TickTimeout, Pending, TypeOK, PendingDiscoPing, TxId, Target
  <2>2. CASE ~Known(v)
    BY <1>0, <1>11, <2>2 DEF TickTimeout
  <2>3. CASE Known(v)
    <3>1. peer[v] \in PeerEntry /\ peer[v].key \in Keys /\ peer[v].eps \in Endpoints
      BY <2>1, <2>3, KnownEntry
    <3>2. /\ m.eps = MarkFailed(peer[v].eps, a) /\ m.key = peer[v].key
          /\ ~NeedsRelay(m.eps) => m.st = peer[v].st
      BY <3>1 DEF MarkEndpointFailed, PeerEntry
    <3>3. DOMAIN m = DOMAIN peer[v]
      BY <3>1 DEF MarkEndpointFailed, PeerEntry
    <3> HIDE DEF m
    <3>4. q = IF ~NeedsRelay(m.eps) THEN m
              ELSE [m EXCEPT !.st = IF RelayEnabled THEN "RelayTry" ELSE "Failed"]
      BY DEF GiveUp, m
    <3>5. /\ peer' = [peer EXCEPT ![v] = q] /\ peer'[v] = q
          /\ ~NeedsRelay(q.eps) => wg' = wg
          /\ \E x : wg' = wg \/ wg' = [wg EXCEPT ![peer[v].key] = x]
      BY <1>11, <2>1, <2>3 DEF TickTimeout, ConfigureBest, TypeOK
    <3> HIDE DEF q
    <3>6. q.key = peer[v].key /\ q.eps = m.eps
          /\ (NeedsRelay(m.eps) => q.st \in {"RelayTry", "Failed"})
      BY <3>1, <3>2, <3>3, <3>4 DEF PeerEntry
    <3>7. Present(q.eps) = Present(peer[v].eps)
      BY <2>1, <3>1, <3>2, <3>6, PresentOps
    <3>8. Placed(peer[v], q)
      <4> SUFFICES ASSUME q.st = "DirectOk" PROVE Placed(peer[v], q)
        BY DEF Placed
      <4>1. ~NeedsRelay(m.eps) /\ q.st = peer[v].st /\ wg' = wg
        BY <3>2, <3>4, <3>5, <3>6
      <4> QED BY <2>1, <3>1, <3>6, <3>7, <4>1 DEF Placed, PresentInv
    <3>9. PICK x : wg' = wg \/ wg' = [wg EXCEPT ![q.key] = x]
      BY <3>5, <3>6
    <3> QED BY <2>1, <3>5, <3>8, <3>9, OnePlaced DEF Goal
  <2> QED BY <2>2, <2>3
<1>12. ASSUME NEW out \in SUBSET Vips, TickEnd(out) PROVE Goal
  BY <1>0, <1>12 DEF TickEnd
<1>13. CASE UNCHANGED vars
  BY <1>0, <1>13 DEF vars, Goal
<1> QED
  BY <1>1, <1>2, <1>3, <1>4, <1>5, <1>6, <1>7, <1>8, <1>9, <1>10, <1>11, <1>12, <1>13
     DEF Goal, Next, RecvPing, RecvPongs, RecvAcks, NucleusUpdate, Stun, Departure, Tick

\* The traffic of a DirectOk peer never leaves its own addresses, and a peer
\* that becomes DirectOk is taken off the relay in the same step, whatever
\* relay answers, named or legacy, arrive late, twice or for another peer.
THEOREM DirectTrafficAlwaysStays == Spec => DirectTrafficStays
<1>1. Init => PresentInv
  BY DEF Init, PresentInv, NoPeer
<1>2. TypeOK /\ PresentInv /\ [Next]_vars
      => /\ PresentInv'
         /\ [\A v \in Vips : peer'[v].st = "DirectOk" /\ Alone(v)' =>
               \/ peer[v].st = "DirectOk" /\ wg'[peer'[v].key] = wg[peer[v].key]
               \/ wg'[peer'[v].key] \in Present(peer'[v].eps)]_vars
  BY StaysStep DEF Stays
<1> QED BY <1>1, <1>2, TypeCorrect, PTL DEF Spec, DirectTrafficStays

-----------------------------------------------------------------------------
(* The fallback order *)

\* What may happen to the connection state of one entry in one step.
Falls(p, q) ==
  q.st # p.st =>
    /\ q.st = "RelayOk" => p.st = "RelayTry"
    /\ q.st = "Failed" => p.st = "RelayTry" \/ (~RelayEnabled /\ NeedsRelay(q.eps))
    /\ q.st = "RelayTry" =>
         NeedsRelay(q.eps) \/ (q.strategy = "RelayOnly" /\ ~HasWorking(q.eps))

\* A step that rewrites one entry of the table has only that entry to answer for.
LEMMA OneEntry ==
  ASSUME TypeOK, NEW v \in Vips, NEW q, peer' = [peer EXCEPT ![v] = q], Falls(peer[v], q)
  PROVE  \A u \in Vips : Falls(peer[u], peer'[u])
BY DEF TypeOK, Falls

\* An update leaves the state of the entry it works on alone, unless the
\* peer has moved and disco restarts.
LEMMA UpdatedState ==
  ASSUME TypeOK, NEW v \in Vips, NEW k \in Keys, NEW ep \in OptAddr,
         NEW mapped \in OptAddr, NEW theirs \in Nats, NEW moved \in BOOLEAN
  PROVE  Updated(EntryFor(v, k, ep, theirs), moved, ep, mapped, theirs).st \in {peer[v].st, "Init"}
<1> DEFINE p0 == EntryFor(v, k, ep, theirs)
           p1 == IF moved THEN ResetPeer(p0) ELSE p0
           p2 == AddEndpoint(p1, ep)
           p3 == AddEndpoint(p2, mapped)
<1>1. p0 \in PeerEntry /\ p0.st \in {peer[v].st, "Init"}
  BY UpdateOps DEF EntryFor, NewPeer
<1> HIDE DEF p0
<1>2. p1.st \in {peer[v].st, "Init"} /\ DOMAIN p1 = DOMAIN p0
  BY <1>1 DEF ResetPeer, PeerEntry
<1> HIDE DEF p1
<1>3. p2.st = p1.st
  BY <1>1, <1>2 DEF AddEndpoint, PeerEntry
<1>4. DOMAIN p2 = DOMAIN p0
  BY <1>1, <1>2 DEF AddEndpoint, PeerEntry
<1> HIDE DEF p2
<1>5. p3.st = p2.st /\ DOMAIN p3 = DOMAIN p0
  BY <1>1, <1>4 DEF AddEndpoint, PeerEntry
<1> HIDE DEF p3
<1>6. UpdateStrategy(p3, theirs).st = p3.st
  BY <1>1, <1>5 DEF UpdateStrategy, PeerEntry
<1> QED BY <1>2, <1>3, <1>5, <1>6 DEF Updated, p3, p2, p1, p0

\* No step of the dispatcher leaves the fallback order.
LEMMA FallsStep == TypeOK /\ [Next]_vars => \A u \in Vips : Falls(peer[u], peer'[u])
<1> SUFFICES ASSUME TypeOK, [Next]_vars PROVE \A u \in Vips : Falls(peer[u], peer'[u])
  OBVIOUS
<1> DEFINE Goal == \A u \in Vips : Falls(peer[u], peer'[u])
<1>0. ASSUME UNCHANGED peer PROVE Goal
  BY <1>0 DEF Falls
<1>1. ASSUME NEW v \in Vips, NEW k \in Keys, NEW src \in Addrs, RecvPingKnown(v, k, src)
      PROVE  Goal
  <2>1. peer[v] \in PeerEntry /\ peer' = [peer EXCEPT ![v] = AddEndpoint(peer[v], src)]
    BY <1>1, KnownEntry DEF RecvPingKnown
  <2>2. AddEndpoint(peer[v], src).st = peer[v].st
    BY <2>1 DEF AddEndpoint, PeerEntry
  <2> QED BY <2>1, <2>2, OneEntry DEF Falls
<1>2. ASSUME NEW v \in Vips, NEW k \in Keys, NEW src \in Addrs, NEW ok \in SUBSET {src},
             RecvPingNew(v, k, src, ok)
      PROVE  Goal
  <2> DEFINE q == NewPeer(k, "DirectTry", NoNat, "Direct", Upsert(EmptyEndpoints, src))
  <2>1. peer' = [peer EXCEPT ![v] = q] /\ q.st = "DirectTry"
    BY <1>2 DEF RecvPingNew, NewPeer
  <2> QED BY <2>1, OneEntry DEF Falls
<1>3. ASSUME NEW tx \in TxId, NEW k \in Keys, NEW src \in Addrs, RecvPong(tx, k, src)
      PROVE  Goal
  <2> DEFINE v == pings[tx].vip
             q == RecordPongFrom(peer[v], src)
  <2>1. v \in Vips
    BY <1>3 DEF RecvPong, Pending, TypeOK, PendingDiscoPing
  <2>2. CASE PongAccepted(peer[v], k)
    <3>1. peer[v] \in PeerEntry
      BY <2>1, <2>2, KnownEntry DEF PongAccepted, Known
    <3>2. peer' = [peer EXCEPT ![v] = q] /\ q.st = "DirectOk"
      BY <1>3, <2>2, <3>1 DEF RecvPong, RecordPongFrom, PeerEntry
    <3> QED BY <2>1, <3>2, OneEntry DEF Falls
  <2>3. CASE ~PongAccepted(peer[v], k)
    BY <1>0, <1>3, <2>3 DEF RecvPong
  <2> QED BY <2>2, <2>3
<1>4. ASSUME NEW v \in Vips, NEW k \in Keys, RecvBindAck(v, k) PROVE Goal
  <2>1. peer[v].st = "RelayTry" /\ peer[v] \in PeerEntry
    BY <1>4, KnownEntry DEF RecvBindAck, WaitsForRelay
  <2>2. peer' = [peer EXCEPT ![v] = MarkRelayed(peer[v])] /\ MarkRelayed(peer[v]).st = "RelayOk"
    BY <1>4, <2>1 DEF RecvBindAck, MarkRelayed, PeerEntry
  <2> QED BY <2>1, <2>2, OneEntry DEF Falls
<1>5. ASSUME NEW v \in Vips, NEW k \in Keys, RecvBindNack(v, k) PROVE Goal
  <2> DEFINE q == [peer[v] EXCEPT !.st = "Failed"]
  <2>1. peer[v].st = "RelayTry" /\ peer[v] \in PeerEntry
    BY <1>5, KnownEntry DEF RecvBindNack, WaitsForRelay
  <2>2. peer' = [peer EXCEPT ![v] = q] /\ q.st = "Failed"
    BY <1>5, <2>1 DEF RecvBindNack, PeerEntry
  <2> QED BY <2>1, <2>2, OneEntry DEF Falls
<1>6. ASSUME NEW nat \in Nats, NatDetected(nat) PROVE Goal
  BY <1>0, <1>6 DEF NatDetected
<1>7. ASSUME NEW v \in Vips, NEW k \in Keys, NEW ep \in OptAddr, NEW mapped \in OptAddr,
             NEW theirs \in Nats, PeerUpdate(v, k, ep, mapped, theirs)
      PROVE  Goal
  <2>1. PICK moved \in EndpointMoved(EntryFor(v, k, ep, theirs), ep) :
          LET p == Updated(EntryFor(v, k, ep, theirs), moved, ep, mapped, theirs)
          IN  \/ HasWorking(p.eps) /\ peer' = [peer EXCEPT ![v] = p]
              \/ ~HasWorking(p.eps) /\ StartProbing(v, p)
    BY <1>7 DEF PeerUpdate
  <2> DEFINE p == Updated(EntryFor(v, k, ep, theirs), moved, ep, mapped, theirs)
  <2>2. moved \in BOOLEAN
    BY DEF EndpointMoved
  <2>3. p \in PeerEntry /\ p.st \in {peer[v].st, "Init"}
    BY <2>2, UpdateOps, UpdatedState
  <2>4. \/ HasWorking(p.eps) /\ peer' = [peer EXCEPT ![v] = p]
        \/ ~HasWorking(p.eps) /\ StartProbing(v, p)
    BY <2>1
  <2> HIDE DEF p
  <2>5. CASE peer' = [peer EXCEPT ![v] = p]
    BY <2>3, <2>5, OneEntry DEF Falls
  <2>6. CASE /\ ~HasWorking(p.eps) /\ p.strategy = "RelayOnly"
             /\ peer' = [peer EXCEPT ![v] = [p EXCEPT !.st = "RelayTry"]]
    <3> DEFINE q == [p EXCEPT !.st = "RelayTry"]
    <3>1. q.strategy = "RelayOnly" /\ ~HasWorking(q.eps)
      BY <2>3, <2>6 DEF PeerEntry
    <3>2. q.st = "RelayTry" /\ Falls(peer[v], q)
      BY <3>1, <2>3 DEF PeerEntry, Falls
    <3> QED BY <2>6, <3>2, OneEntry
  <2>7. CASE peer' = [peer EXCEPT ![v] = [p EXCEPT !.st = "DirectTry"]]
    <3> DEFINE q == [p EXCEPT !.st = "DirectTry"]
    <3>1. q.st = "DirectTry"
      BY <2>3 DEF PeerEntry
    <3> QED BY <2>7, <3>1, OneEntry DEF Falls
  <2>8. CASE PingAll(v, p)
    <3>1. PICK ok \in SUBSET Present(p.eps) : peer' = [peer EXCEPT ![v] = ProbeAll(p, ok)]
      BY <2>8 DEF PingAll
    <3>2. ProbeAll(p, ok).st = "DirectTry"
      BY <2>3 DEF ProbeAll, PeerEntry
    <3> QED BY <3>1, <3>2, OneEntry DEF Falls
  <2> QED BY <2>4, <2>5, <2>6, <2>7, <2>8 DEF StartProbing
<1>8. ASSUME NEW v \in Vips, RemovePeer(v) PROVE Goal
  BY <1>8, OneEntry DEF RemovePeer, NoPeer, Falls
<1>9. ASSUME NEW expired \in SUBSET TxId, TickStart(expired) PROVE Goal
  BY <1>0, <1>9 DEF TickStart
<1>10. ASSUME NEW tx \in TxId, NEW demote \in BOOLEAN, TickRetry(tx, demote) PROVE Goal
  <2> DEFINE v == pings[tx].vip
             e == IF Known(v) THEN MarkProbing(peer[v].eps, Target(tx), demote) ELSE peer[v].eps
             q == [peer[v] EXCEPT !.eps = e]
  <2>1. v \in Vips
    BY <1>10 DEF TickRetry, Pending, TypeOK, PendingDiscoPing
  <2>2. peer' = [peer EXCEPT ![v] = q]
    BY <1>10, <2>1 DEF TickRetry
  <2>3. q.st = peer[v].st
    BY <2>1 DEF TypeOK, PeerState, PeerEntry, NoPeer
  <2> QED BY <2>1, <2>2, <2>3, OneEntry DEF Falls
<1>11. ASSUME NEW tx \in TxId, TickTimeout(tx) PROVE Goal
  <2> DEFINE v == pings[tx].vip
             a == Target(tx)
             m == MarkEndpointFailed(peer[v], a)
             q == GiveUp(peer[v], a)
  <2>1. v \in Vips
    BY <1>11 DEF TickTimeout, Pending, TypeOK, PendingDiscoPing
  <2>2. CASE ~Known(v)
    BY <1>0, <1>11, <2>2 DEF TickTimeout
  <2>3. CASE Known(v)
    <3>1. peer[v] \in PeerEntry
      BY <2>1, <2>3, KnownEntry
    <3>2. m.eps = MarkFailed(peer[v].eps, a) /\ (~NeedsRelay(m.eps) => m.st = peer[v].st)
      BY <3>1 DEF MarkEndpointFailed, PeerEntry
    <3>3. DOMAIN m = DOMAIN peer[v]
      BY <3>1 DEF MarkEndpointFailed, PeerEntry
    <3> HIDE DEF m
    <3>4. q = IF ~NeedsRelay(m.eps) THEN m
              ELSE [m EXCEPT !.st = IF RelayEnabled THEN "RelayTry" ELSE "Failed"]
      BY DEF GiveUp, m
    <3> HIDE DEF q
    <3>5. ASSUME ~NeedsRelay(m.eps) PROVE Falls(peer[v], q)
      BY <3>2, <3>4, <3>5 DEF Falls
    <3>6. ASSUME NeedsRelay(m.eps) PROVE Falls(peer[v], q)
      <4>1. q.eps = m.eps /\ q.st = IF RelayEnabled THEN "RelayTry" ELSE "Failed"
        BY <3>1, <3>3, <3>4, <3>6 DEF PeerEntry
      <4> QED BY <4>1, <3>6 DEF Falls
    <3>7. Falls(peer[v], q)
      BY <3>5, <3>6
    <3>8. peer' = [peer EXCEPT ![v] = q]
      BY <1>11, <2>3 DEF TickTimeout, q
    <3> QED BY <2>1, <3>7, <3>8, OneEntry
  <2> QED BY <2>2, <2>3
<1>12. ASSUME NEW out \in SUBSET Vips, TickEnd(out) PROVE Goal
  BY <1>0, <1>12 DEF TickEnd
<1>13. CASE UNCHANGED vars
  BY <1>0, <1>13 DEF vars
<1> QED
  BY <1>1, <1>2, <1>3, <1>4, <1>5, <1>6, <1>7, <1>8, <1>9, <1>10, <1>11, <1>12, <1>13
     DEF Next, RecvPing, RecvPongs, RecvAcks, NucleusUpdate, Stun, Departure, Tick

\* A late relay answer never displaces a direct path, and a relay is asked
\* for only when nothing works, in every step of every behaviour.
THEOREM LastResort == Spec => RelayIsLastResort
<1>1. TypeOK /\ [Next]_vars =>
        [\A v \in Vips : peer'[v].st # peer[v].st =>
           /\ peer'[v].st = "RelayOk" => peer[v].st = "RelayTry"
           /\ peer'[v].st = "Failed" =>
                \/ peer[v].st = "RelayTry"
                \/ ~RelayEnabled /\ NeedsRelay(peer'[v].eps)
           /\ peer'[v].st = "RelayTry" =>
                \/ NeedsRelay(peer'[v].eps)
                \/ peer'[v].strategy = "RelayOnly" /\ ~HasWorking(peer'[v].eps)]_vars
  BY FallsStep DEF Falls
<1> QED BY <1>1, TypeCorrect, PTL DEF Spec, RelayIsLastResort

-----------------------------------------------------------------------------
(* The end of a ping *)

\* The ids in use are those of the batches sent.
NumberedPings == \A tx \in Pending : tx[1] <= sent

\* What a step may do to a ping in flight: leave it, answer or give it up, or
\* count one more retry for it.
PingAges(tx) ==
  \/ pings'[tx] = pings[tx] /\ (tx \in todo => tx \in todo')
  \/ pings'[tx] = NoPing /\ (tx \in todo => pings[tx].retries = MaxRetries)
  \/ /\ tx \in todo \ todo'
     /\ pings'[tx].vip = pings[tx].vip /\ pings'[tx].retries = pings[tx].retries + 1

PingsOnlyAge == [][\A tx \in Pending : PingAges(tx)]_vars

PingInv == TypeOK /\ NumberedPings

\* A batch is sent outside a tick and uses no id that is in flight.
LEMMA BatchIsFresh ==
  ASSUME PingInv, NEW v \in Vips, NEW ok, SendPings(v, ok), todo' = todo
  PROVE  NumberedPings' /\ \A tx \in Pending : PingAges(tx)
<1>1. sent \in Nat /\ sent' = sent + 1
  BY ConstAssumption DEF PingInv, TypeOK, SendPings
<1>2. \A tx \in TxId : tx[1] \in Nat
  BY ConstAssumption DEF TxId
<1>3. \A tx \in TxId : tx[1] # sent + 1 => pings'[tx] = pings[tx]
  BY DEF SendPings
<1>4. \A tx \in Pending : tx \in TxId /\ tx[1] # sent + 1
  BY <1>1, <1>2 DEF PingInv, NumberedPings, Pending
<1>5. \A tx \in Pending : PingAges(tx)
  BY <1>3, <1>4 DEF PingAges
<1>6. ASSUME NEW tx \in Pending' PROVE tx[1] <= sent'
  <2>1. tx \in TxId /\ (tx[1] # sent + 1 => tx \in Pending)
    BY <1>3, <1>6 DEF Pending
  <2>2. tx[1] = sent + 1 \/ tx[1] <= sent
    BY <2>1 DEF PingInv, NumberedPings
  <2> QED
    BY <1>1, <1>2, <2>1, <2>2
<1> QED
  BY <1>5, <1>6 DEF NumberedPings

LEMMA NoPingTouched ==
  ASSUME PingInv, UNCHANGED <<pings, sent>>, todo \subseteq todo'
  PROVE  NumberedPings' /\ \A tx \in Pending : PingAges(tx)
BY DEF PingInv, NumberedPings, Pending, PingAges

LEMMA PingStep == PingInv /\ [Next]_vars => NumberedPings' /\ \A tx \in Pending : PingAges(tx)
<1> SUFFICES ASSUME PingInv, [Next]_vars
             PROVE  NumberedPings' /\ \A tx \in Pending : PingAges(tx)
  OBVIOUS
<1>0. /\ pings \in [TxId -> PendingDiscoPing \cup {NoPing}] /\ todo \subseteq Pending
      /\ (tick \/ todo = {}) /\ NumberedPings
  BY DEF PingInv, TypeOK
<1>1. ASSUME NEW v \in Vips, NEW k \in Keys, NEW src \in Addrs,
             RecvPingKnown(v, k, src) \/ \E ok \in SUBSET {src} : RecvPingNew(v, k, src, ok)
      PROVE  NumberedPings' /\ \A tx \in Pending : PingAges(tx)
  BY <1>1, NoPingTouched, BatchIsFresh DEF RecvPingKnown, RecvPingNew
<1>2. ASSUME NEW tx \in TxId, NEW k \in Keys, NEW src \in Addrs, RecvPong(tx, k, src)
      PROVE  NumberedPings' /\ \A t \in Pending : PingAges(t)
  <2>1. pings' = [pings EXCEPT ![tx] = NoPing] /\ UNCHANGED <<sent, todo>> /\ todo = {}
    BY <1>0, <1>2 DEF RecvPong
  <2> QED
    BY <1>0, <2>1 DEF NumberedPings, Pending, PingAges
<1>3. ASSUME NEW v \in Vips, NEW k \in Keys, RecvBindAck(v, k) \/ RecvBindNack(v, k)
      PROVE  NumberedPings' /\ \A tx \in Pending : PingAges(tx)
  BY <1>3, NoPingTouched DEF RecvBindAck, RecvBindNack
<1>4. CASE NucleusUpdate
  <2>0. ASSUME NEW v \in Vips, NEW p, StartProbing(v, p)
        PROVE  UNCHANGED <<pings, sent>> \/ \E ok \in SUBSET Addrs : SendPings(v, ok)
    <3>1. Present(p.eps) \subseteq Addrs
      BY DEF Present
    <3> QED
      BY <2>0, <3>1 DEF StartProbing, PingAll
  <2>1. todo' = todo /\ (UNCHANGED <<pings, sent>> \/ \E v \in Vips, ok \in SUBSET Addrs : SendPings(v, ok))
    BY <1>4, <2>0 DEF NucleusUpdate, PeerUpdate
  <2> QED
    BY <2>1, NoPingTouched, BatchIsFresh
<1>5. CASE Stun \/ Departure
  BY <1>5, NoPingTouched DEF Stun, Departure, NatDetected, RemovePeer
<1>6. ASSUME NEW expired \in SUBSET TxId, TickStart(expired)
      PROVE  NumberedPings' /\ \A tx \in Pending : PingAges(tx)
  <2>1. UNCHANGED <<pings, sent>> /\ todo = {}
    BY <1>0, <1>6 DEF TickStart
  <2> QED
    BY <2>1, NoPingTouched
<1>7. ASSUME NEW tx \in TxId, NEW demote \in BOOLEAN, TickRetry(tx, demote)
      PROVE  NumberedPings' /\ \A t \in Pending : PingAges(t)
  <2>1. /\ pings' = [pings EXCEPT ![tx] = [pings[tx] EXCEPT !.retries = pings[tx].retries + 1]]
        /\ sent' = sent /\ todo' = todo \ {tx} /\ tx \in todo
    BY <1>7 DEF TickRetry, CountRetry
  <2>2. pings[tx] \in PendingDiscoPing /\ tx \in Pending
    BY <1>0, <2>1 DEF Pending
  <2>3. pings'[tx].vip = pings[tx].vip /\ pings'[tx].retries = pings[tx].retries + 1
    BY <1>0, <2>1, <2>2 DEF PendingDiscoPing
  <2>4. \A t \in TxId \ {tx} : pings'[t] = pings[t]
    BY <1>0, <2>1
  <2>5. NumberedPings'
    BY <1>0, <2>1, <2>2, <2>4 DEF NumberedPings, Pending
  <2> QED
    BY <2>1, <2>3, <2>4, <2>5 DEF PingAges, Pending
<1>8. ASSUME NEW tx \in TxId, TickTimeout(tx)
      PROVE  NumberedPings' /\ \A t \in Pending : PingAges(t)
  <2>1. /\ pings' = [pings EXCEPT ![tx] = NoPing] /\ sent' = sent /\ todo' = todo \ {tx}
        /\ tx \in todo /\ ~(pings[tx].retries < MaxRetries)
    BY <1>8 DEF TickTimeout, MoreRetries
  <2>2. pings[tx].retries = MaxRetries
    BY <1>0, <2>1, ConstAssumption DEF Pending, PendingDiscoPing
  <2> QED
    BY <1>0, <2>1, <2>2 DEF NumberedPings, Pending, PingAges
<1>9. CASE (\E out \in SUBSET Vips : TickEnd(out)) \/ UNCHANGED vars
  BY <1>9, NoPingTouched DEF TickEnd, vars
<1> QED
  BY <1>1, <1>2, <1>3, <1>4, <1>5, <1>6, <1>7, <1>8, <1>9
     DEF Next, RecvPing, RecvPongs, RecvAcks, Tick

\* A ping comes nearer to its end and never starts again: a tick passes over no ping it
\* has found expired, counts a retry for it or, at max_retries, gives it up, and no
\* ping sent meanwhile takes its id (the timeout arm of the dispatcher).  With retries
\* bounded (TypeCorrect), PingsResolve only needs that the timer keeps firing.
THEOREM PingsAlwaysAge == Spec => PingsOnlyAge
<1>1. Init => NumberedPings
  BY DEF Init, NumberedPings, Pending
<1>2. TypeOK /\ NumberedPings /\ [Next]_vars
      => NumberedPings' /\ [\A tx \in Pending : PingAges(tx)]_vars
  BY PingStep DEF PingInv
<1> QED
  BY <1>1, <1>2, TypeCorrect, PTL DEF Spec, PingsOnlyAge
=============================================================================
