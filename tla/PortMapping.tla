---------------------------- MODULE PortMapping -----------------------------
(***************************************************************************)
(* The external port: the port mapper of a connection, its refresh task    *)
(* (start_loops), and what OmniProto advertises to the nucleus.  The       *)
(* mapper itself (omninervous) is external: it holds a mapping for the     *)
(* socket it was made for and may lose it, get another port, or fail.      *)
(***************************************************************************)
EXTENDS Naturals

CONSTANTS Ports,      \* external ports the gateway hands out, positive
          NoPort

ASSUME PortConstants == Ports \subseteq Nat \ {0} /\ NoPort \notin Nat

VARIABLES live,       \* connected: the refresh task runs
          probed,     \* port_mapper holds a mapper
          held,       \* current_mapping() of the mapper
          shown,      \* port_mapping, what the connection info shows
          advertised, \* external_port of the protocol client: 0 is "none any more"
          recorded,   \* what the nucleus has recorded
          task        \* the refresh task: "wait", "asked", "register"

portVars == <<live, probed, held, shown, advertised, recorded, task>>

PortInit ==
  /\ live = FALSE /\ probed = FALSE
  /\ held = NoPort /\ shown = NoPort /\ advertised = NoPort /\ recorded = NoPort
  /\ task = "wait"

\* A REGISTER datagram may be lost or its send fail; no error stops the caller.
Registered(p) == recorded' \in {recorded, p}

\* init_port_mapper: the new mapper is kept only when the probe answers in time;
\* before that the previous connection's stays.  request_mapping of the library
\* is taken to hold a mapping for the port it answers.
ProbeFails ==
  /\ advertised' = NoPort
  /\ UNCHANGED <<probed, held, shown>>

ProbeAnswers ==
  /\ probed' = TRUE
  /\ \/ \E p \in Ports : held' = p /\ shown' = p /\ advertised' = p
     \/ held' = NoPort /\ advertised' = NoPort /\ UNCHANGED shown

\* perform_join up to the initial REGISTER, with a protocol client of its own.
JoinMapped ==
  /\ ~live /\ live' = TRUE
  /\ ProbeFails \/ ProbeAnswers
  /\ Registered(advertised')
  /\ task' = "wait"

-----------------------------------------------------------------------------
(* The refresh task: the lock on the mapper is held to the end of a round. *)

\* check_and_refresh: not due, renewed with the same or another port, or failed.
BeginRefresh ==
  /\ live /\ task = "wait" /\ probed /\ task' = "asked"
  /\ UNCHANGED <<live, probed, held, shown, advertised, recorded>>

Unrefreshed ==
  /\ task = "asked" /\ task' = "wait"
  /\ UNCHANGED <<live, probed, held, shown, advertised, recorded>>

\* The new port goes to the client if it differs from the one before the call.
Refreshed(p) ==
  /\ task = "asked" /\ held # NoPort
  /\ held' = p /\ shown' = p
  /\ IF advertised # p THEN advertised' = p /\ task' = "register"
     ELSE task' = "wait" /\ UNCHANGED advertised
  /\ UNCHANGED <<live, probed, recorded>>

\* Mutant: only the mapping is cleared.
RefreshFailsQuietly ==
  /\ task = "asked" /\ task' = "wait"
  /\ shown' = NoPort /\ held' \in {held, NoPort}
  /\ UNCHANGED <<live, probed, advertised, recorded>>

RefreshFails ==
  /\ task = "asked"
  /\ shown' = NoPort /\ held' \in {held, NoPort}
  /\ IF advertised # NoPort THEN advertised' = 0 /\ task' = "register"
     ELSE task' = "wait" /\ UNCHANGED advertised
  /\ UNCHANGED <<live, probed, recorded>>

Reregister ==
  /\ task = "register" /\ task' = "wait"
  /\ Registered(advertised)
  /\ UNCHANGED <<live, probed, held, shown, advertised>>

-----------------------------------------------------------------------------

\* disconnect waits for the task, which may be in a refresh, and then for the
\* mapper's lock; a release that fails leaves the mapping shown.
ReleaseMapping ==
  /\ live /\ task = "wait" /\ live' = FALSE
  /\ \/ held' = NoPort /\ shown' = IF probed THEN NoPort ELSE shown
     \/ probed /\ UNCHANGED <<held, shown>>
  /\ advertised' = NoPort
  /\ UNCHANGED <<probed, recorded, task>>

\* The nucleus forgets a device it has not heard from.
NucleusForgets ==
  /\ recorded # NoPort /\ recorded' = NoPort
  /\ UNCHANGED <<live, probed, held, shown, advertised, task>>

PortNext ==
  \/ JoinMapped \/ BeginRefresh \/ Unrefreshed
  \/ \E p \in Ports : Refreshed(p)
  \/ RefreshFails \/ Reregister \/ ReleaseMapping \/ NucleusForgets

PortSpec == PortInit /\ [][PortNext]_portVars

-----------------------------------------------------------------------------
(* Properties *)

\* Over refreshes that change the port or fail, failed probes and failed
\* releases, the port OmniProto advertises is the one the connection info shows,
\* or 0 once the mapping is lost (perform_join, the refresh loop).
AdvertisedIsShown == live /\ advertised \in Ports => shown = advertised
=============================================================================
