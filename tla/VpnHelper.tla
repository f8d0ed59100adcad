----------------------------- MODULE VpnHelper -----------------------------
(***************************************************************************)
(* The life of a VPN connection as the desktop application sees it: the     *)
(* privileged helper (omni-helper) with its commands start_vpn, stop_vpn    *)
(* and status, the ConnectionManager it guards with a mutex (connect,       *)
(* join, disconnect in omni-core/src/manager.rs), the background tasks of a *)
(* connection, and the desktop clients that poll the status.               *)
(*                                                                         *)
(* connect_with_token and disconnect run under the mutex but await between  *)
(* their steps, so status requests, start_vpn's check of the state and the  *)
(* background tasks interleave with every one of them.  Ids name requests;  *)
(* the connection a start_vpn request sets up carries the request's name.   *)
(* The steps are those of Linux and macOS, where disconnect closes the TUN. *)
(***************************************************************************)
EXTENDS Naturals, Sequences, FiniteSets

CONSTANTS Ids,          \* helper requests (bound: each is used once)
          Clients,      \* desktop clients
          Nets,         \* virtual networks
          NoId, NoNet,  \* "None"
          PortmapEnabled, \* NetworkConfig.portmap_enabled
          SlowTasks,    \* a background task may outlive the 3 s wait
          GatewayErrs   \* the gateway may refuse to release a mapping

ASSUME HelperAssumption ==
  /\ NoId \notin Ids /\ NoNet \notin Nets
  /\ PortmapEnabled \in BOOLEAN /\ SlowTasks \in BOOLEAN /\ GatewayErrs \in BOOLEAN

VARIABLES
  client,   \* Clients -> what a desktop client is doing
  shown,    \* Clients -> network the UI shows as connected
  req,      \* Ids -> arguments of the request
  stage,    \* Ids -> progress of the request through the helper
  queue,    \* requests waiting for the manager's mutex, first come first served
  op, step, \* the request holding the mutex and where it is
  state,    \* ConnectionState
  nid, vip, \* current_network_id; the network virtual_ip belongs to
  tun,      \* the connection whose TUN and proto the manager holds
  shutdown_tx, handles,  \* the connection they belong to
  ifaces,   \* TUN interfaces that exist
  tasks,    \* background tasks still running: <<connection, kind>>
  signalled,\* connections whose tasks have been told to stop
  peers,    \* connections with entries in peer_states or pending_pings
  sessions, \* connections with entries in relay_sessions
  mapper, mapping,       \* port_mapper, port_mapping: whose local port
  leases,   \* mappings the gateway holds
  refresher,\* the portmap task holding the port_mapper lock
  failed    \* history: starts that ended with an error

reqVars  == <<client, shown, req, stage, queue>>
opVars   == <<op, step>>
connVars == <<state, nid, vip, tun, shutdown_tx, handles, ifaces>>
taskVars == <<tasks, signalled, peers, sessions>>
mapVars  == <<mapper, mapping, leases, refresher>>
vars == <<reqVars, opVars, connVars, taskVars, mapVars, failed>>

-----------------------------------------------------------------------------
ConnectionState ==
  {"Disconnected", "Authenticated", "Joining", "Connecting", "Connected", "Stopping", "Error"}

Kinds == IF PortmapEnabled THEN {"dispatcher", "portmap"} ELSE {"dispatcher"}

StartArgs == [kind : {"start"}, who : Clients, net : Nets]
StopArgs  == [kind : {"stop"}, who : Clients]
NoReq     == [kind |-> "none"]
Request   == StartArgs \cup StopArgs \cup {NoReq}

ClientState == [pc : {"idle", "polling", "stopping"}, net : Nets \cup {NoNet}]
Idle == [pc |-> "idle", net |-> NoNet]

DownSteps == {"stop", "join_tasks", "close_tun", "clear", "release", "finish"}
UpSteps   == {"authenticated", "joining", "join_api", "portmap", "proto", "tun", "loops"}
Steps     == {"none", "begin"} \cup DownSteps \cup UpSteps

Init ==
  /\ client = [c \in Clients |-> Idle]
  /\ shown = [c \in Clients |-> NoNet]
  /\ req = [i \in Ids |-> NoReq]
  /\ stage = [i \in Ids |-> "new"]
  /\ queue = << >>
  /\ op = NoId /\ step = "none"
  /\ state = "Disconnected"
  /\ nid = NoNet /\ vip = NoNet
  /\ tun = NoId /\ shutdown_tx = NoId /\ handles = NoId
  /\ ifaces = {}
  /\ tasks = {} /\ signalled = {} /\ peers = {} /\ sessions = {}
  /\ mapper = NoId /\ mapping = NoId /\ leases = {} /\ refresher = NoId
  /\ failed = {}

-----------------------------------------------------------------------------
(* Commands of the helper and the client side of them *)

\* start_vpn answers at once when a connection exists or is being made.
AlreadyUp == state \in {"Connected", "Connecting"}

\* The desktop's connect: send start_vpn, then poll.  Otherwise the helper
\* spawns a task for the request and answers "initiated".
Connect(c, i, n) ==
  /\ client[c].pc = "idle"
  /\ stage[i] = "new"
  /\ client' = [client EXCEPT ![c] = [pc |-> "polling", net |-> n]]
  /\ req' = [req EXCEPT ![i] = [kind |-> "start", who |-> c, net |-> n]]
  /\ stage' = [stage EXCEPT ![i] = IF AlreadyUp THEN "done" ELSE "spawned"]
  /\ UNCHANGED <<shown, queue, opVars, connVars, taskVars, mapVars, failed>>

\* The spawned task reaches manager.lock().
SpawnedLocks(i) ==
  /\ stage[i] = "spawned"
  /\ stage' = [stage EXCEPT ![i] = "waiting"]
  /\ queue' = Append(queue, i)
  /\ UNCHANGED <<client, shown, req, opVars, connVars, taskVars, mapVars, failed>>

\* stop_vpn locks the manager in the handler itself; the client waits for it.
Stop(c, i) ==
  /\ client[c].pc = "idle"
  /\ stage[i] = "new"
  /\ client' = [client EXCEPT ![c] = [pc |-> "stopping", net |-> NoNet]]
  /\ req' = [req EXCEPT ![i] = [kind |-> "stop", who |-> c]]
  /\ stage' = [stage EXCEPT ![i] = "waiting"]
  /\ queue' = Append(queue, i)
  /\ UNCHANGED <<shown, opVars, connVars, taskVars, mapVars, failed>>

\* A status poll that sees Connected: the UI shows its network as connected.
PollConnected(c) ==
  /\ client[c].pc = "polling"
  /\ state = "Connected"
  /\ shown' = [shown EXCEPT ![c] = client[c].net]
  /\ client' = [client EXCEPT ![c] = Idle]
  /\ UNCHANGED <<req, stage, queue, opVars, connVars, taskVars, mapVars, failed>>

\* 60 s of polling without Connected: the UI reports an error.
PollTimeout(c) ==
  /\ client[c].pc = "polling"
  /\ state # "Connected"
  /\ shown' = [shown EXCEPT ![c] = NoNet]
  /\ client' = [client EXCEPT ![c] = Idle]
  /\ UNCHANGED <<req, stage, queue, opVars, connVars, taskVars, mapVars, failed>>

\* The mutex is granted in the order of arrival.
Grant ==
  /\ op = NoId /\ queue # << >>
  /\ op' = Head(queue)
  /\ queue' = Tail(queue)
  /\ stage' = [stage EXCEPT ![Head(queue)] = "running"]
  /\ step' = IF req[Head(queue)].kind = "stop" THEN "stop" ELSE "begin"
  /\ UNCHANGED <<client, shown, req, connVars, taskVars, mapVars, failed>>

At(s) == op # NoId /\ step = s

Goto(s) == step' = s /\ UNCHANGED <<op, stage>>

Unlock == op' = NoId /\ step' = "none" /\ stage' = [stage EXCEPT ![op] = "done"]

-----------------------------------------------------------------------------
(* disconnect *)

StateOnStop == "Stopping"

\* Mutant: the channel is dropped without a message to the tasks of the past.
SignalNobody == signalled

\* shutdown_tx.take() and send.
SignalTasks == signalled \cup ({shutdown_tx} \ {NoId})

DownStop ==
  /\ At("stop")
  /\ state' = StateOnStop
  /\ signalled' = SignalTasks
  /\ shutdown_tx' = NoId
  /\ Goto("join_tasks")
  /\ UNCHANGED <<client, shown, req, queue, nid, vip, tun, handles, ifaces,
                 tasks, peers, sessions, mapVars, failed>>

TasksEnded == \A t \in tasks : t[1] # handles

\* Mutant: no timeout.
JoinedAll == TasksEnded

JoinedOrTimedOut == TasksEnded \/ SlowTasks

\* join_all of the handles, or the 3 s timeout: the handles are gone either way.
DownJoinTasks ==
  /\ At("join_tasks")
  /\ JoinedOrTimedOut
  /\ handles' = NoId
  /\ Goto("close_tun")
  /\ UNCHANGED <<client, shown, req, queue, state, nid, vip, tun, shutdown_tx, ifaces,
                 taskVars, mapVars, failed>>

DownCloseTun ==
  /\ At("close_tun")
  /\ ifaces' = ifaces \ {tun}
  /\ tun' = NoId
  /\ Goto("clear")
  /\ UNCHANGED <<client, shown, req, queue, state, nid, vip, shutdown_tx, handles,
                 taskVars, mapVars, failed>>

\* Mutant: the virtual IP stays.
ForgetNetworkOnly == nid' = NoNet /\ vip' = vip

ForgetAddresses == nid' = NoNet /\ vip' = NoNet

DownClear ==
  /\ At("clear")
  /\ ForgetAddresses
  /\ peers' = {}
  /\ Goto("release")
  /\ UNCHANGED <<client, shown, req, queue, state, tun, shutdown_tx, handles, ifaces,
                 tasks, signalled, sessions, mapVars, failed>>

\* release_port_mapping: an error is logged and leaves the mapping in place.
ReleaseMapping(ok) ==
  /\ ok \/ (GatewayErrs /\ mapper # NoId)
  /\ refresher = NoId
  /\ IF ok /\ mapper # NoId
     THEN mapping' = NoId /\ leases' = leases \ {mapper}
     ELSE UNCHANGED <<mapping, leases>>
  /\ UNCHANGED <<mapper, refresher>>

DownRelease(ok) ==
  /\ At("release")
  /\ ReleaseMapping(ok)
  /\ Goto("finish")
  /\ UNCHANGED <<client, shown, req, queue, connVars, taskVars, failed>>

\* Mutant: relay_sessions is not cleared.
KeepSessions == sessions' = sessions

ClearSessions == sessions' = {}

\* Relay state and adapters go, the routes are restored as far as they can be
\* (ExitRouting), then Disconnected.
DownFinish ==
  /\ At("finish")
  /\ ClearSessions
  /\ state' = "Disconnected"
  /\ UNCHANGED <<req, queue, nid, vip, tun, shutdown_tx, handles, ifaces,
                 tasks, signalled, peers, mapVars, failed>>

\* disconnect returns to the stop_vpn handler, which answers its client ...
StopAnswered(c) ==
  /\ DownFinish
  /\ req[op].kind = "stop" /\ req[op].who = c
  /\ client' = [client EXCEPT ![c] = Idle]
  /\ shown' = [shown EXCEPT ![c] = NoNet]
  /\ Unlock

\* ... or to connect_with_token, which goes on.
StartGoesOn ==
  /\ DownFinish
  /\ req[op].kind = "start"
  /\ Goto("authenticated")
  /\ UNCHANGED <<client, shown>>

-----------------------------------------------------------------------------
(* connect_with_token and perform_join *)

\* is_connected(): a TUN is held.
IsConnected == tun # NoId

UpBegin ==
  /\ At("begin")
  /\ Goto(IF IsConnected THEN "stop" ELSE "authenticated")
  /\ UNCHANGED <<client, shown, req, queue, connVars, taskVars, mapVars, failed>>

UpAuthenticated ==
  /\ At("authenticated")
  /\ state' = "Authenticated"
  /\ Goto("joining")
  /\ UNCHANGED <<client, shown, req, queue, nid, vip, tun, shutdown_tx, handles, ifaces,
                 taskVars, mapVars, failed>>

UpJoining ==
  /\ At("joining")
  /\ state' = "Joining"
  /\ nid' = req[op].net
  /\ Goto("join_api")
  /\ UNCHANGED <<client, shown, req, queue, vip, tun, shutdown_tx, handles, ifaces,
                 taskVars, mapVars, failed>>

\* The API accepts the join.
UpJoined ==
  /\ At("join_api")
  /\ state' = "Connecting"
  /\ Goto("portmap")
  /\ UNCHANGED <<client, shown, req, queue, nid, vip, tun, shutdown_tx, handles, ifaces,
                 taskVars, mapVars, failed>>

\* Port mapping: no gateway (the old mapper stays), a mapper without a
\* mapping, or a mapper with a mapping.  Never an error of the join.
UpPortmap ==
  /\ At("portmap")
  /\ \/ UNCHANGED <<mapper, mapping, leases>>
     \/ /\ PortmapEnabled /\ refresher = NoId
        /\ mapper' = op
        /\ \/ UNCHANGED <<mapping, leases>>
           \/ mapping' = op /\ leases' = leases \cup {op}
  /\ Goto("proto")
  /\ UNCHANGED <<client, shown, req, queue, connVars, taskVars, refresher, failed>>

UpProto ==
  /\ At("proto")
  /\ Goto("tun")
  /\ UNCHANGED <<client, shown, req, queue, connVars, taskVars, mapVars, failed>>

\* TUN set up; proto, TUN, virtual IP and shutdown channel stored; the loops
\* start (start_loops replaces the task handles).
UpTun ==
  /\ At("tun")
  /\ ifaces' = ifaces \cup {op}
  /\ tun' = op
  /\ vip' = req[op].net
  /\ shutdown_tx' = op
  /\ handles' = op
  /\ tasks' = tasks \cup {<<op, k>> : k \in Kinds}
  /\ Goto("loops")
  /\ UNCHANGED <<client, shown, req, queue, state, nid, signalled, peers, sessions,
                 mapVars, failed>>

\* Connected; what then becomes of the routes is module ExitRouting.
UpConnected ==
  /\ At("loops")
  /\ state' = "Connected"
  /\ Unlock
  /\ UNCHANGED <<client, shown, req, queue, nid, vip, tun, shutdown_tx, handles, ifaces,
                 taskVars, mapVars, failed>>

\* An error of the API call, of parsing its answer, of OmniProto::new or of
\* the TUN setup ends the request: the state goes back to Authenticated and
\* everything else stays as it is.
UpFails ==
  /\ At("join_api") \/ At("portmap") \/ At("proto") \/ At("tun")
  /\ state' = "Authenticated"
  /\ failed' = failed \cup {op}
  /\ Unlock
  /\ UNCHANGED <<client, shown, req, queue, nid, vip, tun, shutdown_tx, handles, ifaces,
                 taskVars, mapVars>>

-----------------------------------------------------------------------------
(* Background tasks of connection g.  A task that has been told to stop may *)
(* still be in the middle of an arm of its loop.                            *)

DispatcherLearns(g) ==
  /\ <<g, "dispatcher">> \in tasks
  /\ \/ peers' = peers \cup {g} /\ UNCHANGED sessions
     \/ sessions' = sessions \cup {g} /\ UNCHANGED peers
  /\ UNCHANGED <<reqVars, opVars, connVars, tasks, signalled, mapVars, failed>>

\* The 30 minute refresh: takes the port_mapper lock across the exchange.
RefreshStart(g) ==
  /\ <<g, "portmap">> \in tasks
  /\ refresher = NoId /\ mapper # NoId
  /\ refresher' = g
  /\ UNCHANGED <<reqVars, opVars, connVars, taskVars, mapper, mapping, leases, failed>>

\* check_and_refresh: still valid or no mapping, refreshed, or lost.
RefreshEnd(g) ==
  /\ refresher = g
  /\ refresher' = NoId
  /\ \/ UNCHANGED <<mapping, leases>>
     \/ mapper \in leases /\ mapping' = mapper /\ UNCHANGED leases
     \/ mapping' = NoId /\ leases' \in {leases, leases \ {mapper}}
  /\ UNCHANGED <<reqVars, opVars, connVars, taskVars, mapper, failed>>

\* The shutdown message is looked at between two arms only.
BetweenArms(g, k) == ~(k = "portmap" /\ refresher = g)

TaskExits(g, k) ==
  /\ <<g, k>> \in tasks /\ g \in signalled
  /\ BetweenArms(g, k)
  /\ tasks' = tasks \ {<<g, k>>}
  /\ UNCHANGED <<reqVars, opVars, connVars, signalled, peers, sessions, mapVars, failed>>

-----------------------------------------------------------------------------
Requests ==
  \/ \E c \in Clients, i \in Ids, n \in Nets : Connect(c, i, n)
  \/ \E i \in Ids : SpawnedLocks(i)
  \/ \E c \in Clients, i \in Ids : Stop(c, i)
  \/ \E c \in Clients : PollConnected(c) \/ PollTimeout(c)
  \/ Grant

Disconnecting ==
  \/ DownStop \/ DownJoinTasks \/ DownCloseTun \/ DownClear
  \/ \E ok \in BOOLEAN : DownRelease(ok)
  \/ \E c \in Clients : StopAnswered(c)
  \/ StartGoesOn

Connecting ==
  \/ UpBegin \/ UpAuthenticated \/ UpJoining \/ UpJoined \/ UpPortmap
  \/ UpProto \/ UpTun \/ UpConnected \/ UpFails

Background ==
  \E g \in Ids :
    \/ DispatcherLearns(g) \/ RefreshStart(g) \/ RefreshEnd(g)
    \/ \E k \in Kinds : TaskExits(g, k)

Next == Requests \/ Disconnecting \/ Connecting \/ Background

Spec == Init /\ [][Next]_vars

\* disconnect keeps running once it has the mutex: its own steps, a wait that
\* a timer bounds, and a lock (tokio's RwLock is fair) that a refresh holds
\* for one bounded exchange with the gateway.  Nothing is assumed of the API,
\* of the background tasks or of the clients.
Fairness ==
  /\ WF_vars(DownStop) /\ WF_vars(DownJoinTasks) /\ WF_vars(DownCloseTun)
  /\ WF_vars(DownClear)
  /\ WF_vars(StartGoesOn \/ \E c \in Clients : StopAnswered(c))
  /\ SF_vars(\E ok \in BOOLEAN : DownRelease(ok))
  /\ \A g \in Ids : WF_vars(RefreshEnd(g))

FairSpec == Spec /\ Fairness

-----------------------------------------------------------------------------
(* Properties *)

\* Every variable keeps its shape; a request is queued once; the lock of the
\* port mapper is held only by a task that is still running.
TypeOK ==
  /\ client \in [Clients -> ClientState]
  /\ shown \in [Clients -> Nets \cup {NoNet}]
  /\ req \in [Ids -> Request]
  /\ stage \in [Ids -> {"new", "spawned", "waiting", "running", "done"}]
  /\ queue \in Seq(Ids)
  /\ op \in Ids \cup {NoId} /\ step \in Steps
  /\ state \in ConnectionState
  /\ nid \in Nets \cup {NoNet} /\ vip \in Nets \cup {NoNet}
  /\ {tun, shutdown_tx, handles, mapper, mapping, refresher} \subseteq Ids \cup {NoId}
  /\ ifaces \subseteq Ids /\ signalled \subseteq Ids /\ peers \subseteq Ids
  /\ sessions \subseteq Ids /\ leases \subseteq Ids /\ failed \subseteq Ids
  /\ tasks \subseteq Ids \X Kinds
  /\ refresher # NoId => <<refresher, "portmap">> \in tasks

\* However start and stop requests overlap, at most one TUN interface exists
\* ("to prevent duplicate TUN interfaces", manager.rs:919), and it is the one
\* the manager can still close.
OneTun == ifaces \subseteq {tun}

\* Every background task belongs to the connection the manager holds or has
\* been told to stop: no reconnect, failed join or timed out wait leaves a
\* dispatcher or a refresh loop behind that nothing will ever end.
NoOrphanTasks == \A t \in tasks : t[1] = tun \/ t[1] \in signalled

\* However requests overlap, fail or time out, there is one connection: one
\* interface, and no task that nothing will end (connect_with_token,
\* disconnect, their waits).
OneConnection == OneTun /\ NoOrphanTasks

\* A helper that reports Connected has the interface, the address of the
\* network it reports, a shutdown channel and handles for this connection,
\* and its dispatcher runs.
ConnectedIsWhole ==
  state = "Connected" =>
    /\ tun # NoId /\ ifaces = {tun}
    /\ shutdown_tx = tun /\ handles = tun
    /\ nid # NoNet /\ vip = nid
    /\ <<tun, "dispatcher">> \in tasks

\* A helper that reports Disconnected holds no interface, network or address.
DownIsClosed ==
  state = "Disconnected" =>
    /\ tun = NoId /\ ifaces = {} /\ shutdown_tx = NoId /\ handles = NoId
    /\ nid = NoNet /\ vip = NoNet

\* What the helper reports is what it holds: a whole connection, or none, with
\* a join failing at any of its steps and requests overlapping (set_state in
\* perform_join and disconnect, and what they do before it).
ReportedIsHeld == ConnectedIsWhole /\ DownIsClosed

\* When every task stops within the wait, nothing a former connection learnt
\* is visible after the disconnect or in the next connection.
NothingOutlives ==
  /\ state = "Disconnected" => tasks = {} /\ peers = {} /\ sessions = {}
  /\ state = "Connected" => peers \cup sessions \subseteq {tun}

\* disconnect always ends, with hung background tasks too.
TeardownCompletes == (state = "Stopping") ~> (state = "Disconnected")

\* "State is already updated to Failed by ConnectionManager"
\* (omni-helper/src/lib.rs:188): a start that fails leaves an error state for
\* the pollers to see.
\* The code does not keep it: README, "Statements the code does not keep".
FailureIsReported == [][\A i \in failed' \ failed : state' = "Error"]_vars

\* "Verify connection actually succeeded by checking state" (App.tsx:436): the
\* network the UI shows as connected is the one the helper is connected to.
ShownIsConnected ==
  [][\A c \in Clients : shown'[c] # shown[c] /\ shown'[c] # NoNet => nid = shown'[c]]_vars
=============================================================================
