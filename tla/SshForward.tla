----------------------------- MODULE SshForward -----------------------------
(***************************************************************************)
(* Port forwarding over an SSH connection: Forwarder with its local,       *)
(* remote and dynamic (SOCKS) forwards, the listener task of each, the     *)
(* connections it accepts, and the ports the server side holds open.  The  *)
(* bytes that flow are left out.                                           *)
(***************************************************************************)
EXTENDS Naturals, FiniteSets

CONSTANTS Fwds,        \* forward ids, in the order next_id hands them out
          FwdConns,    \* slots for accepted connections
          Ports,       \* ports of the remote side; 0 asks for any of them
          FwdTotal,    \* bound on the connections counted per forward
          Unset

ASSUME FwdConstants ==
  /\ 0 \notin Ports /\ FwdTotal \in Nat /\ IsFiniteSet(FwdConns)
  /\ Unset \notin Fwds \cup Ports /\ Unset \notin [total: Nat, active: Nat]

VARIABLES
  fwd,        \* per forward: kind, the listener task, the port asked for and got
  listed,     \* ids in local_handles, remote_handles or dynamic_handles
  stats,      \* ForwardStats by id: connections and active_connections
  fconn,      \* accepted connections: the forward they came through, the stage
  bound       \* remote ports the server listens on for us (external)

fwdVars == <<fwd, listed, stats, fconn, bound>>

FwdInit ==
  /\ fwd = [f \in Fwds |-> [kind |-> "none", task |-> "none", asked |-> Unset,
                            got |-> Unset, cancelFailed |-> FALSE]]
  /\ listed = {}
  /\ stats = [f \in Fwds |-> Unset]
  /\ fconn = [c \in FwdConns |-> [of |-> Unset, stage |-> "none"]]
  /\ bound = {}

Register(f) ==
  /\ listed' = listed \cup {f}
  /\ stats' = [stats EXCEPT ![f] = [total |-> 0, active |-> 0]]

\* start_local and start_dynamic: bind, register, spawn the accept loop.
StartListener(f, kind) ==
  /\ fwd[f].kind = "none"
  /\ fwd' = [fwd EXCEPT ![f].kind = kind, ![f].task = "accepting"]
  /\ Register(f)
  /\ UNCHANGED <<fconn, bound>>

\* start_remote: tcpip_forward first; the server picks the port for port 0.
StartRemote(f, port) ==
  /\ fwd[f].kind = "none"
  /\ \E got \in IF port = 0 THEN Ports \ bound ELSE {port} \ bound :
       /\ bound' = bound \cup {got}
       /\ fwd' = [fwd EXCEPT ![f].kind = "remote", ![f].task = "waiting",
                             ![f].asked = port, ![f].got = got]
  /\ Register(f)
  /\ UNCHANGED fconn

\* The handle is cancelled or dropped: the task gets the signal.
Cancel(f) ==
  /\ fwd[f].task \in {"accepting", "waiting"}
  /\ fwd' = [fwd EXCEPT ![f].task = "told"]
  /\ UNCHANGED <<listed, stats, fconn, bound>>

\* The accept loop breaks and takes the forward off the list.  Connections and
\* statistics stay.
ListenerEnds(f) ==
  /\ fwd[f].task = "told" /\ fwd[f].kind # "remote"
  /\ fwd' = [fwd EXCEPT ![f].task = "ended"]
  /\ listed' = listed \ {f}
  /\ UNCHANGED <<stats, fconn, bound>>

CancelPortBad(f) == IF fwd[f].got = CHOOSE p \in Ports : TRUE THEN fwd[f].got ELSE 0

\* cancel_tcpip_forward is called with the port that was asked for.
CancelPort(f) == fwd[f].asked

RemoteEnds(f, ok) ==
  /\ fwd[f].task = "told" /\ fwd[f].kind = "remote"
  /\ bound' = IF ok THEN bound \ {CancelPort(f)} ELSE bound
  /\ fwd' = [fwd EXCEPT ![f].task = "ended", ![f].cancelFailed = ~ok]
  /\ listed' = listed \ {f}
  /\ UNCHANGED <<stats, fconn>>

\* The listener counts the connection and spawns its task.  The select may
\* still take a connection when the signal is there too.
AcceptFwd(f, c) ==
  /\ fwd[f].task \in {"accepting", "told"} /\ fwd[f].kind # "remote"
  /\ fconn[c].stage = "none"
  /\ stats' = [stats EXCEPT ![f].total = @ + 1, ![f].active = @ + 1]
  /\ fconn' = [fconn EXCEPT ![c] = [of |-> f,
       stage |-> IF fwd[f].kind = "dynamic" THEN "socks" ELSE "dialling"]]
  /\ UNCHANGED <<fwd, listed, bound>>

\* handle_socks_connection up to the tunnel: a greeting or a request it does
\* not support ends it.
SocksRequest(c, ok) ==
  /\ fconn[c].stage = "socks"
  /\ fconn' = [fconn EXCEPT ![c].stage = IF ok THEN "dialling" ELSE "ending"]
  /\ UNCHANGED <<fwd, listed, stats, bound>>

\* open_direct_tcpip
Dial(c, ok) ==
  /\ fconn[c].stage = "dialling"
  /\ fconn' = [fconn EXCEPT ![c].stage = IF ok THEN "piping" ELSE "ending"]
  /\ UNCHANGED <<fwd, listed, stats, bound>>

\* Either side ends, or a read or write fails: the loop stops both directions.
PipeEnds(c) ==
  /\ fconn[c].stage = "piping"
  /\ fconn' = [fconn EXCEPT ![c].stage = "ending"]
  /\ UNCHANGED <<fwd, listed, stats, bound>>

\* The connection task counts itself out, after an error as well.
ConnEnds(c) ==
  /\ fconn[c].stage = "ending"
  /\ stats' = [stats EXCEPT ![fconn[c].of].active = IF @ > 0 THEN @ - 1 ELSE 0]
  /\ fconn' = [fconn EXCEPT ![c] = [of |-> Unset, stage |-> "none"]]
  /\ UNCHANGED <<fwd, listed, bound>>

\* FwdTotal bounds the connections counted.
FwdNext ==
  \/ \E f \in Fwds :
       \/ StartListener(f, "local") \/ StartListener(f, "dynamic") \/ Cancel(f)
       \/ ListenerEnds(f) \/ \E ok \in BOOLEAN : RemoteEnds(f, ok)
       \/ \E p \in Ports \cup {0} : StartRemote(f, p)
       \/ \E c \in FwdConns : stats[f] # Unset /\ stats[f].total < FwdTotal /\ AcceptFwd(f, c)
  \/ \E c \in FwdConns : \/ PipeEnds(c) \/ ConnEnds(c)
                         \/ \E ok \in BOOLEAN : SocksRequest(c, ok) \/ Dial(c, ok)

-----------------------------------------------------------------------------
(* Properties *)

\* active_connections of a forward is the number of its connection tasks that
\* have not finished, before and after it is cancelled (start_local,
\* start_dynamic).
ActiveIsExact ==
  \A f \in Fwds : stats[f] # Unset =>
    stats[f].active = Cardinality({c \in FwdConns : fconn[c].of = f})

\* While a listener may accept, its forward is on the list: nothing is accepted
\* for a forward the user no longer sees (start_local, start_dynamic).
AcceptingIsListed ==
  \A f \in Fwds : fwd[f].task \in {"accepting", "told"} => f \in listed

\* A remote forward that ended has given its port back, unless the server
\* refused or the port had been left to the server: then the port that was
\* asked for, 0, is cancelled and the one in use stays (start_remote).
PortGivenBack ==
  \A f \in Fwds :
    /\ fwd[f].kind = "remote" /\ fwd[f].task = "ended" /\ ~fwd[f].cancelFailed
    /\ fwd[f].asked # 0
    => \/ fwd[f].got \notin bound
       \/ \E g \in Fwds \ {f} : fwd[g].got = fwd[f].got

\* In whatever order a forward, its listener and its connections end, the
\* counter, the list and the server's ports follow (start_local, start_dynamic,
\* start_remote).
ForwardsAccounted == ActiveIsExact /\ AcceptingIsListed /\ PortGivenBack
=============================================================================
