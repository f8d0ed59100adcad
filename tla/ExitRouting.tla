----------------------------- MODULE ExitRouting ----------------------------
(***************************************************************************)
(* Exit-node routing: RoutingManager (omni-core routing.rs) and the places *)
(* where ConnectionManager calls it.  Each command changes the host's      *)
(* routing table or resolver and may fail; the process may be killed       *)
(* between two of them.  Interfaces are "lan" and "tun"; the default       *)
(* routes are the system's own, one through the exit node, or missing.     *)
(***************************************************************************)
EXTENDS Naturals

CONSTANTS ExitNodes, \* exit nodes a user may select
          Systems,   \* of {"linux", "macos", "windows"}
          NoExit

\* Exit nodes are addresses.
ASSUME ExitConstants == \A e \in ExitNodes : e # NoExit /\ e.ip \notin {"own", "none"}

VARIABLES os,        \* the platform the program was built for
          resolved,  \* resolvectl is installed (Linux)
          up,        \* Connected: the TUN device is there
          exitIp,    \* exit_node_ip and exit_node_ip_v6 of the manager
          pc,        \* the next command of setup_exit_node or restore_exit_node
          chosen,    \* the exit node being set up
          iface,     \* the primary interface setup has found
          def4, def6,\* default routes: "own", "none" or an exit node
          pin,       \* host route to the nucleus: "none" or the interface
          dns,       \* the resolver's configuration: "own" or "ours"
          bak        \* resolv.conf.omniedge_bak: "none", "own" or "ours"

tables == <<def4, def6, pin, dns, bak>>
rouVars == <<os, resolved, up, exitIp, pc, chosen, iface, tables>>

RouInit ==
  /\ os \in Systems
  /\ resolved \in IF os = "linux" THEN BOOLEAN ELSE {FALSE}
  /\ up = FALSE /\ exitIp = NoExit /\ pc = "idle" /\ chosen = NoExit /\ iface = "lan"
  /\ def4 = "own" /\ def6 = "own" /\ pin = "none" /\ dns = "own" /\ bak = "none"

-----------------------------------------------------------------------------
(* setup_exit_node: what fails with ? ends it, and the caller ignores it. *)

Done == pc' = "idle"

\* get_primary_interface follows the route to 8.8.8.8; on Windows the metric decides.
Primary == IF os = "windows" THEN {"lan", "tun"}
           ELSE IF def4 = "none" THEN {} ELSE {IF def4 = "own" THEN "lan" ELSE "tun"}

Detect ==
  /\ pc = "detect"
  /\ \/ /\ \E i \in Primary : iface' = i
        /\ pc' = IF os = "windows" THEN "del4" ELSE "pin"
     \/ Done /\ UNCHANGED iface
  /\ UNCHANGED <<os, resolved, up, exitIp, chosen, tables>>

\* Mutant: the failure is ignored, as that of the next command is.
PinIgnored ==
  /\ pc = "pin" /\ pc' = "del4"
  /\ pin' \in {pin, IF pin = "none" THEN iface ELSE pin}
  /\ UNCHANGED <<os, resolved, up, exitIp, chosen, iface, def4, def6, dns, bak>>

\* The nucleus stays reachable by the gateway of the primary interface; a route
\* that exists already is an error.
Pin ==
  /\ pc = "pin"
  /\ \/ pin = "none" /\ pin' = iface /\ pc' = "del4"
     \/ Done /\ UNCHANGED pin
  /\ UNCHANGED <<os, resolved, up, exitIp, chosen, iface, def4, def6, dns, bak>>

DeleteDefault4 ==
  /\ pc = "del4" /\ pc' = "add4"
  /\ def4' \in {def4, "none"}
  /\ UNCHANGED <<os, resolved, up, exitIp, chosen, iface, def6, pin, dns, bak>>

AddDefault4 ==
  /\ pc = "add4"
  /\ \/ def4 = "none" /\ def4' = chosen.ip /\ pc' = IF chosen.v6 THEN "del6" ELSE "dns"
     \/ Done /\ UNCHANGED def4
  /\ UNCHANGED <<os, resolved, up, exitIp, chosen, iface, def6, pin, dns, bak>>

DeleteDefault6 ==
  /\ pc = "del6" /\ pc' = "add6"
  /\ def6' \in {def6, "none"}
  /\ UNCHANGED <<os, resolved, up, exitIp, chosen, iface, def4, pin, dns, bak>>

\* A failure is only logged.
AddDefault6 ==
  /\ pc = "add6" /\ pc' = "dns"
  /\ def6' \in {def6} \cup (IF def6 = "none" THEN {chosen.ip} ELSE {})
  /\ UNCHANGED <<os, resolved, up, exitIp, chosen, iface, def4, pin, dns, bak>>

\* With resolvectl the link's servers are replaced; without, resolv.conf is
\* backed up unless it is a link, and overwritten.
SetupDns ==
  /\ pc = "dns" /\ Done
  /\ dns' \in {dns, "ours"}
  /\ bak' \in IF os = "linux" /\ ~resolved THEN {bak, dns} ELSE {bak}
  /\ UNCHANGED <<os, resolved, up, exitIp, chosen, iface, def4, def6, pin>>

-----------------------------------------------------------------------------
(* restore_exit_node *)

\* The IPv6 default route is deleted whatever it is; IPv4's stays.
RestoreDefault6 ==
  /\ pc = "restore6" /\ pc' = "restoredns"
  /\ def6' \in {def6, "none"}
  /\ UNCHANGED <<os, resolved, up, exitIp, chosen, iface, def4, pin, dns, bak>>

RestoreDns ==
  /\ pc = "restoredns" /\ Done
  /\ IF os = "linux" /\ ~(resolved /\ Primary # {})
     THEN IF bak = "none" THEN UNCHANGED <<dns, bak>>
          ELSE \/ dns' = bak /\ bak' = "none"
               \/ UNCHANGED <<dns, bak>>
     ELSE dns' \in {dns, "own"} /\ UNCHANGED bak
  /\ UNCHANGED <<os, resolved, up, exitIp, chosen, iface, def4, def6, pin>>

-----------------------------------------------------------------------------
(* The manager *)

Setup(e) == pc' = "detect" /\ chosen' = e

\* connect with the exit node it is given: routes are set up once connected.
ConnectVia(e) ==
  /\ pc = "idle" /\ ~up
  /\ up' = TRUE /\ exitIp' = e
  /\ IF e = NoExit THEN UNCHANGED <<pc, chosen>> ELSE Setup(e)
  /\ UNCHANGED <<os, resolved, iface, tables>>

\* set_exit_node of a connected manager; the restore of NoExit leaves exitIp
\* empty, and disconnect will not restore again.  A connected manager has its
\* protocol client, so the case without one does not occur.
SetExitNode(e) ==
  /\ pc = "idle" /\ exitIp' = e
  /\ IF ~up THEN UNCHANGED <<pc, chosen>>
     ELSE IF e = NoExit THEN pc' = "restore6" /\ UNCHANGED chosen ELSE Setup(e)
  /\ UNCHANGED <<os, resolved, up, iface, tables>>

\* The routes through the TUN device go with it.
WithoutTun(r) == IF r \in {e.ip : e \in ExitNodes} THEN "none" ELSE r

RouDisconnect ==
  /\ pc = "idle" /\ up /\ up' = FALSE
  /\ def4' = WithoutTun(def4) /\ def6' = WithoutTun(def6)
  /\ pc' = IF exitIp # NoExit THEN "restore6" ELSE "idle"
  /\ UNCHANGED <<os, resolved, exitIp, chosen, iface, pin, dns, bak>>

\* The process is killed: nothing is restored.
Killed ==
  /\ up \/ pc # "idle"
  /\ up' = FALSE /\ pc' = "idle" /\ exitIp' = NoExit /\ chosen' = NoExit
  /\ def4' = WithoutTun(def4) /\ def6' = WithoutTun(def6)
  /\ UNCHANGED <<os, resolved, iface, pin, dns, bak>>

\* DHCP and router advertisements put back what is missing.
NetworkRenews ==
  /\ def4' = (IF def4 = "none" THEN "own" ELSE def4)
  /\ def6' = (IF def6 = "none" THEN "own" ELSE def6)
  /\ <<def4, def6>> # <<def4, def6>>'
  /\ UNCHANGED <<os, resolved, up, exitIp, pc, chosen, iface, pin, dns, bak>>

RouNext ==
  \/ Detect \/ Pin \/ DeleteDefault4 \/ AddDefault4 \/ DeleteDefault6 \/ AddDefault6 \/ SetupDns
  \/ RestoreDefault6 \/ RestoreDns
  \/ \E e \in ExitNodes \cup {NoExit} : ConnectVia(e) \/ SetExitNode(e)
  \/ RouDisconnect \/ Killed \/ NetworkRenews

RouSpec == RouInit /\ [][RouNext]_rouVars

-----------------------------------------------------------------------------
(* Properties *)

\* Whatever fails, is switched, killed and renewed, the nucleus is never routed
\* into the tunnel it carries: on Linux and macOS a default route through an
\* exit node comes with a host route by the local gateway (setup_linux,
\* setup_macos; on Windows there is no such route).
NucleusOutsideTunnel ==
  os # "windows" => pin # "tun" /\ (def4 \in {e.ip : e \in ExitNodes} => pin = "lan")

\* restore_linux and restore_macos delete the IPv6 default route and say "This
\* is safe - if there was no IPv6 exit route, this just fails silently": the
\* system's own default survives a restore.
\* The code does not keep it: README, "Statements the code does not keep".
RestoreSparesOwnIpv6 == [][pc = "restore6" /\ def6 = "own" => def6' = "own"]_rouVars
=============================================================================
