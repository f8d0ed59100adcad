----------------------------- MODULE TunDevice ------------------------------
(***************************************************************************)
(* The TUN device and its WireGuard peers: OmniTun (omni-tun lib.rs) and   *)
(* the parts of ConnectionManager that create, reuse and drop it.  On      *)
(* Windows disconnect keeps the device and the next join takes it over.    *)
(* Addresses are sequences of Segments numbers of SegmentBits bits, so     *)
(* that the network arithmetic of IPv6 is checked for every prefix.        *)
(***************************************************************************)
EXTENDS Naturals, Sequences

CONSTANTS Nets,         \* networks that can be joined
          Vip6Of(_),    \* the IPv6 address the API gives this device in a network
          TunPeers,     \* public keys
          Endpoints,    \* what a peer is set with: an address, or None
          SegmentBits, Segments,
          NoNet, NoEndpoint

\* 1 << n
PowerOfTwo[n \in Nat] == IF n = 0 THEN 1 ELSE 2 * PowerOfTwo[n - 1]

ASSUME TunConstants ==
  /\ SegmentBits \in Nat \ {0} /\ Segments \in Nat \ {0}
  /\ \A n \in Nets : Vip6Of(n) \in [1..Segments -> 0..(PowerOfTwo[SegmentBits] - 1)]

VARIABLES onWindows,    \* the platform the program was built for
          joinedNet,    \* the network of virtual_ip, NoNet when not connected
          device,       \* self.tun: the network its interface was set up for
          looping,      \* its packet loop runs
          vipRoute,     \* who carries the VIP network: "none", "other" or "tun"
          route6,       \* the IPv6 network route through the device
          wgPeers,      \* peers of the interface: what each was set with
          known,        \* known_peers of the dispatcher's OmniTun
          expired,      \* peers whose last handshake is over WG_TUNNEL_EXPIRY_SECS old
          unset         \* peers whose last set_peer failed, as the log says

tunVars == <<onWindows, joinedNet, device, looping, vipRoute, route6, wgPeers, known, expired, unset>>

NoPeers == [p \in TunPeers |-> NoEndpoint]
NoRoute6 == [net |-> <<>>, bits |-> 0]

TunInit ==
  /\ onWindows \in BOOLEAN
  /\ joinedNet = NoNet /\ device = NoNet /\ looping = FALSE
  /\ vipRoute \in {"none", "other"} /\ route6 = NoRoute6
  /\ wgPeers = NoPeers /\ known = NoPeers /\ expired = {} /\ unset = {}

-----------------------------------------------------------------------------
(* The network of an IPv6 address *)

\* seg & mask, the mask having its low bits clear.
Masked(seg, low) == seg - (seg % PowerOfTwo[low])

NetworkAddress(addr, bits) ==
  [i \in 1..Segments |->
     CASE i - 1 < bits \div SegmentBits -> addr[i]
       [] i - 1 = bits \div SegmentBits /\ bits % SegmentBits > 0 ->
            Masked(addr[i], SegmentBits - (bits % SegmentBits))
       [] OTHER -> 0]

-----------------------------------------------------------------------------
(* perform_join: the device *)

\* A route that is there already is taken for success, whoever's it is; any
\* other failure is only logged.
AddVipRoute == vipRoute' \in IF vipRoute = "none" THEN {"tun", "none"} ELSE {vipRoute}

\* The route follows the address: without the address there is none.
AddIpv6(n, bits) == route6' \in {NoRoute6, [net |-> NetworkAddress(Vip6Of(n), bits), bits |-> bits]}

\* A loop that cannot be started is only logged.
SetupDualStack(n) ==
  /\ device' = n /\ looping' \in BOOLEAN
  /\ AddVipRoute
  /\ \E bits \in 0..(SegmentBits * Segments) : AddIpv6(n, bits)

\* Setup fails: three times on Windows, once elsewhere.
SetupFails == UNCHANGED <<joinedNet, device, looping, vipRoute, route6, known, unset>>

\* Windows takes the device of the last connection as it is, and starts its
\* loop again only if that has ended.
TakeOver == looping' \in {looping, TRUE} /\ UNCHANGED <<device, vipRoute, route6>>

JoinTun(n) ==
  /\ joinedNet = NoNet
  /\ \/ /\ IF onWindows /\ device # NoNet THEN TakeOver ELSE SetupDualStack(n)
        /\ joinedNet' = n
        /\ known' = NoPeers /\ unset' = {}
     \/ ~(onWindows /\ device # NoNet) /\ SetupFails
  /\ UNCHANGED <<onWindows, wgPeers, expired>>

\* The packet loop ends by itself: the adapter was removed or disabled.
LoopEnds ==
  /\ looping /\ looping' = FALSE
  /\ UNCHANGED <<onWindows, joinedNet, device, vipRoute, route6, wgPeers, known, expired, unset>>

Gone == IF vipRoute = "tun" THEN "none" ELSE vipRoute

\* disconnect: soft_shutdown on Windows, shutdown and cleanup_adapters elsewhere.
LeaveTun ==
  /\ joinedNet # NoNet /\ joinedNet' = NoNet
  /\ wgPeers' = NoPeers /\ expired' = {}
  /\ IF onWindows THEN UNCHANGED <<device, looping, vipRoute, route6>>
     ELSE device' = NoNet /\ looping' = FALSE /\ vipRoute' = Gone /\ route6' = NoRoute6
  /\ UNCHANGED <<onWindows, known, unset>>

\* The process ends, and its device with it; cleanup_adapters of the next
\* join removes what is left of it on Windows.
TunKilled ==
  /\ device # NoNet
  /\ joinedNet' = NoNet /\ device' = NoNet /\ looping' = FALSE
  /\ vipRoute' = Gone /\ route6' = NoRoute6
  /\ wgPeers' = NoPeers /\ known' = NoPeers /\ expired' = {} /\ unset' = {}
  /\ UNCHANGED onWindows

-----------------------------------------------------------------------------
(* add_peer *)

\* Mutant: a peer the table has keeps its first endpoint.
RememberFirst(p, e) == [known EXCEPT ![p] = IF @ = NoEndpoint THEN e ELSE @]

Remember(p, e) == [known EXCEPT ![p] = e]

\* Every session is dropped, and the other peers are set again from known_peers,
\* those in failing without success.
AfterReset(p, failing) ==
  [q \in TunPeers |-> IF q = p \/ q \in failing THEN NoEndpoint ELSE known[q]]

\* The peer is recorded before it is set; setting it may fail.
AddPeer(p, e, failing) ==
  /\ joinedNet # NoNet
  /\ LET reset == wgPeers[p] # NoEndpoint /\ p \in expired
         rest  == IF reset THEN AfterReset(p, failing) ELSE wgPeers
         lost  == IF reset THEN {q \in failing \ {p} : known[q] # NoEndpoint} ELSE unset
     IN /\ wgPeers' = IF p \in failing THEN rest ELSE [rest EXCEPT ![p] = e]
        /\ expired' = IF reset THEN {} ELSE expired
        /\ unset' = IF p \in failing THEN lost \cup {p} ELSE lost \ {p}
  /\ known' = Remember(p, e)
  /\ UNCHANGED <<onWindows, joinedNet, device, looping, vipRoute, route6>>

\* Five minutes without a handshake.
Expires(p) ==
  /\ wgPeers[p] # NoEndpoint /\ p \notin expired
  /\ expired' = expired \cup {p}
  /\ UNCHANGED <<onWindows, joinedNet, device, looping, vipRoute, route6, wgPeers, known, unset>>

\* A handshake renews it.
Handshake(p) ==
  /\ p \in expired /\ wgPeers[p] # NoEndpoint /\ looping
  /\ expired' = expired \ {p}
  /\ UNCHANGED <<onWindows, joinedNet, device, looping, vipRoute, route6, wgPeers, known, unset>>

TunNext ==
  \/ \E n \in Nets : JoinTun(n)
  \/ LoopEnds \/ LeaveTun \/ TunKilled
  \/ \E p \in TunPeers, e \in Endpoints, failing \in SUBSET TunPeers : AddPeer(p, e, failing)
  \/ \E p \in TunPeers : Expires(p) \/ Handshake(p)

TunSpec == TunInit /\ [][TunNext]_tunVars

-----------------------------------------------------------------------------
(* Properties *)

\* Whatever sessions expire and are reset on another peer's account, every peer
\* the dispatcher has added stays set with the endpoint it gave last, unless the
\* log says that setting it failed (add_peer's known_peers).
PeersSurviveReset ==
  joinedNet # NoNet => \A p \in TunPeers \ unset : wgPeers[p] = known[p]

\* An address as one number.
Number(addr) ==
  LET V[i \in 0..Segments] == IF i = 0 THEN 0 ELSE V[i - 1] * PowerOfTwo[SegmentBits] + addr[i]
  IN  V[Segments]

\* The IPv6 route is the network of the device's own address: the address with
\* all but its first bits cleared (ipv6_network_address at segment boundaries).
RouteIsOwnNetwork ==
  route6 # NoRoute6 =>
    LET size == PowerOfTwo[SegmentBits * Segments - route6.bits]
    IN Number(route6.net) = (Number(Vip6Of(device)) \div size) * size

\* The device carries the peers it was given and the route of its own network
\* (add_peer and its reset, ipv6_network_address).
DeviceIsRight == PeersSurviveReset /\ RouteIsOwnNetwork

\* "Reconfiguring existing TUN for new connection..." (perform_join, Windows): a
\* connected device has the address of the network that was joined.
\* The code does not keep it: README, "Statements the code does not keep".
DeviceHasVip == joinedNet # NoNet => device = joinedNet
=============================================================================
