----------------------------- MODULE MCServices -----------------------------
(***************************************************************************)
(* The services around a connection for TLC: exit-node routing, the token  *)
(* file, the browser login, the background service, the updater, the TUN   *)
(* device, the port mapping and the discovery of peers.  They share no     *)
(* state that the models keep, so a behaviour is that of one of them,      *)
(* which Init chooses.                                                     *)
(***************************************************************************)
EXTENDS ExitRouting, TokenFile, BrowserLogin, CliService, SelfUpdate, TunDevice, PortMapping, PeerDiscovery

CONSTANT Parts  \* the services a run looks at

VARIABLE part   \* the service that runs

MCExitNodes == {[ip |-> "e1", v6 |-> TRUE], [ip |-> "e2", v6 |-> FALSE]}
MCVersions == {<<1, 0, 1, FALSE>>, <<1, 1, 0, TRUE>>, <<1, 1, 0, FALSE>>, <<2, 0, 0, FALSE>>}
MCVip6Of(n) == IF n = "n1" THEN <<1, 3>> ELSE <<2, 1>>

allVars == <<rouVars, tokVars, logVars, svcVars, updVars, tunVars, portVars, discVars>>
servicesVars == <<part, allVars>>

ServicesInit ==
  /\ part \in Parts
  /\ RouInit /\ TokInit /\ LogInit /\ SvcInit /\ UpdInit /\ TunInit /\ PortInit /\ DiscInit
  \* what a service that does not run starts with is of no interest
  /\ part = "routing" \/ (os = "linux" /\ ~resolved)
  /\ part = "service" \/ platform = "plain"
  /\ part = "update" \/ (target = "unix" /\ latest = <<1, 0, 1, FALSE>> /\ exe.v = latest)
  /\ part = "tun" \/ (~onWindows /\ vipRoute = "none")
  /\ part = "discovery" \/ present = {}

ServicesNext ==
  \/ /\ part = "routing" /\ RouNext
     /\ UNCHANGED <<part, tokVars, logVars, svcVars, updVars, tunVars, portVars, discVars>>
  \/ /\ part = "token" /\ TokNext
     /\ UNCHANGED <<part, rouVars, logVars, svcVars, updVars, tunVars, portVars, discVars>>
  \/ /\ part = "login" /\ LogNext
     /\ UNCHANGED <<part, rouVars, tokVars, svcVars, updVars, tunVars, portVars, discVars>>
  \/ /\ part = "service" /\ SvcNext
     /\ UNCHANGED <<part, rouVars, tokVars, logVars, updVars, tunVars, portVars, discVars>>
  \/ /\ part = "update" /\ UpdNext
     /\ UNCHANGED <<part, rouVars, tokVars, logVars, svcVars, tunVars, portVars, discVars>>
  \/ /\ part = "tun" /\ TunNext
     /\ UNCHANGED <<part, rouVars, tokVars, logVars, svcVars, updVars, portVars, discVars>>
  \/ /\ part = "ports" /\ PortNext
     /\ UNCHANGED <<part, rouVars, tokVars, logVars, svcVars, updVars, tunVars, discVars>>
  \/ /\ part = "discovery" /\ DiscNext
     /\ UNCHANGED <<part, rouVars, tokVars, logVars, svcVars, updVars, tunVars, portVars>>

ServicesSpec == ServicesInit /\ [][ServicesNext]_servicesVars

\* The discovery task goes on and the API follows the nucleus: get_devices
\* answers, though the client has no timeout (omni-api client.rs).  The network is
\* fair: no datagram stays under way for ever, and of endlessly many queries
\* for a device, and answers to them, some arrive.
DiscFairness ==
  /\ WF_discVars(part = "discovery" /\ Fetch)
  /\ WF_discVars(part = "discovery" /\ EndRound)
  /\ \A n \in Nodes :
       /\ WF_discVars(part = "discovery" /\ ApiLists(n))
       /\ WF_discVars(part = "discovery" /\ QueryPeer(n))
       /\ SF_discVars(part = "discovery" /\ QueryPeer(n) /\ n \in queries')
       /\ SF_discVars(part = "discovery" /\ AnswerQuery(n))
       /\ SF_discVars(part = "discovery" /\ Receive(Telling({n}, {})))
  /\ WF_discVars(part = "discovery" /\ \E m \in wire : Receive(m) \/ Lose(m))

\* Of a login that does not run no action is enabled.
ServicesLive == ServicesSpec /\ LogFairness /\ DiscFairness
=============================================================================
