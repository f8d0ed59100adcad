--------------------------- MODULE VpnHelperProofs ---------------------------
(***************************************************************************)
(* Safety of VpnHelper for every number of requests, clients and networks,  *)
(* with tasks that may outlive the wait and gateways that may refuse.       *)
(***************************************************************************)
EXTENDS MCVpnHelper, TLAPS

(* The inductive invariant. *)

\* Requests are queued once, the holder of the mutex is the running one, and
\* only a start goes through the steps of a join.
ReqInv ==
  /\ \A j \in 1..Len(queue) : stage[queue[j]] = "waiting" /\ req[queue[j]].kind \in {"start", "stop"}
  /\ \A j, k \in 1..Len(queue) : queue[j] = queue[k] => j = k
  /\ \A i \in Ids : stage[i] = "spawned" => req[i].kind = "start"
  /\ \A i \in Ids : stage[i] = "running" => i = op
  /\ op = NoId <=> step = "none"
  /\ op # NoId => stage[op] = "running" /\ req[op].kind \in {"start", "stop"}
  /\ step \in UpSteps \cup {"begin"} => req[op].kind = "start"

Ran == {i \in Ids : stage[i] \in {"running", "done"}}

\* Connections are named by requests that have run; the request holding the
\* mutex has not made its connection before the loops start.
FreshInv ==
  /\ signalled \subseteq Ran
  /\ tun \in Ran \cup {NoId}
  /\ op # NoId /\ step # "loops" => op \notin signalled /\ op # tun

\* What the manager holds of a connection, step by step.
ConnInv ==
  /\ ifaces = {tun} \ {NoId}
  /\ shutdown_tx = IF step \in {"join_tasks", "close_tun"} THEN NoId ELSE tun
  /\ handles = IF step = "close_tun" THEN NoId ELSE tun
  /\ step \in {"clear", "release", "finish"} \cup (UpSteps \ {"loops"}) => tun = NoId
  /\ step = "loops" => tun = op

\* The tasks of the connection run until they are told to stop.
TaskInv ==
  /\ tun # NoId /\ step \in {"join_tasks", "close_tun"} => tun \in signalled
  /\ tun # NoId /\ step \notin {"join_tasks", "close_tun"} =>
       tun \notin signalled /\ <<tun, "dispatcher">> \in tasks
  /\ \A t \in tasks : t[1] = tun \/ t[1] \in signalled

\* The addresses belong to the network of the connection.
AddrInv ==
  /\ step \in {"join_api", "portmap", "proto", "tun"} => nid = req[op].net
  /\ tun # NoId => nid # NoNet /\ vip = nid
  /\ tun = NoId /\ step # "clear" => vip = NoNet
  /\ step \in {"release", "finish"} => nid = NoNet
  /\ state = "Disconnected" => nid = NoNet

\* The reported state agrees with the step.
StateInv ==
  /\ state = "Connected" => tun # NoId /\ step \in {"none", "begin", "stop"}
  /\ state = "Disconnected" => tun = NoId /\ step \in {"none", "begin", "stop", "authenticated"}
  /\ state = "Stopping" <=> step \in DownSteps \ {"stop"}

IInv == TypeOK /\ ReqInv /\ FreshInv /\ ConnInv /\ TaskInv /\ AddrInv /\ StateInv

-----------------------------------------------------------------------------
\* A fresh helper satisfies the invariant.
LEMMA InitInv == Init => IInv
<1> SUFFICES ASSUME Init PROVE IInv
  OBVIOUS
<1> USE HelperAssumption DEF Init
<1>1. TypeOK
  <2>1. NoReq \in Request
    BY DEF Request
  <2>2. Idle \in ClientState
    BY DEF Idle, ClientState
  <2>3. client \in [Clients -> ClientState] /\ req \in [Ids -> Request]
    BY <2>1, <2>2
  <2>4. state \in ConnectionState /\ step \in Steps
    BY DEF Steps, ConnectionState
  <2>5. shown \in [Clients -> Nets \cup {NoNet}]
    OBVIOUS
  <2>6. stage \in [Ids -> {"new", "spawned", "waiting", "running", "done"}]
    OBVIOUS
  <2>7. queue \in Seq(Ids)
    OBVIOUS
  <2>8. /\ op \in Ids \cup {NoId} /\ nid \in Nets \cup {NoNet} /\ vip \in Nets \cup {NoNet}
        /\ {tun, shutdown_tx, handles, mapper, mapping, refresher} \subseteq Ids \cup {NoId}
    OBVIOUS
  <2>9. /\ ifaces \subseteq Ids /\ signalled \subseteq Ids /\ peers \subseteq Ids
        /\ sessions \subseteq Ids /\ leases \subseteq Ids /\ failed \subseteq Ids
        /\ tasks \subseteq Ids \X Kinds
    OBVIOUS
  <2>10. refresher = NoId
    OBVIOUS
  <2> HIDE DEF Init
  <2> QED
    BY <2>3, <2>4, <2>5, <2>6, <2>7, <2>8, <2>9, <2>10 DEF TypeOK
<1>2. ReqInv /\ FreshInv /\ ConnInv /\ TaskInv
  BY DEF ReqInv, FreshInv, Ran, ConnInv, TaskInv, UpSteps
<1>3. AddrInv /\ StateInv
  BY DEF AddrInv, StateInv, DownSteps
<1> QED
  BY <1>1, <1>2, <1>3 DEF IInv

\* Types are kept: one case per action of the helper and the manager.
LEMMA TypeOKStep == IInv /\ [Next]_vars => TypeOK'
<1> SUFFICES ASSUME IInv, [Next]_vars PROVE TypeOK'
  OBVIOUS
<1> TypeOK /\ ReqInv
  BY DEF IInv
<1> USE HelperAssumption
    DEF TypeOK, ReqInv, ClientState, Idle, Request, StartArgs, StopArgs,
        NoReq, Steps, DownSteps, UpSteps, ConnectionState, Kinds,
        reqVars, opVars, connVars, taskVars, mapVars
<1>1. ASSUME NEW c \in Clients, NEW i \in Ids, NEW n \in Nets, Connect(c, i, n) PROVE TypeOK'
  BY <1>1 DEF Connect, AlreadyUp
<1>2. ASSUME NEW i \in Ids, SpawnedLocks(i) PROVE TypeOK'
  BY <1>2 DEF SpawnedLocks
<1>3. ASSUME NEW c \in Clients, NEW i \in Ids, Stop(c, i) PROVE TypeOK'
  BY <1>3 DEF Stop
<1>4. ASSUME NEW c \in Clients, PollConnected(c) PROVE TypeOK'
  BY <1>4 DEF PollConnected
<1>5. ASSUME NEW c \in Clients, PollTimeout(c) PROVE TypeOK'
  BY <1>5 DEF PollTimeout
<1>6. CASE Grant
  BY <1>6 DEF Grant
<1>7. CASE DownStop
  BY <1>7 DEF DownStop, At, Goto, StateOnStop, SignalTasks
<1>8. CASE DownJoinTasks
  BY <1>8 DEF DownJoinTasks, At, Goto, JoinedOrTimedOut, TasksEnded
<1>9. CASE DownCloseTun
  BY <1>9 DEF DownCloseTun, At, Goto
<1>10. CASE DownClear
  BY <1>10 DEF DownClear, At, Goto, ForgetAddresses
<1>11. ASSUME NEW ok \in BOOLEAN, DownRelease(ok) PROVE TypeOK'
  BY <1>11 DEF DownRelease, At, Goto, ReleaseMapping
<1>12. ASSUME NEW c \in Clients, StopAnswered(c) PROVE TypeOK'
  BY <1>12 DEF StopAnswered, DownFinish, At, Unlock, ClearSessions
<1>13. CASE StartGoesOn
  BY <1>13 DEF StartGoesOn, DownFinish, At, Goto, ClearSessions
<1>14. CASE UpBegin
  BY <1>14 DEF UpBegin, At, Goto, IsConnected
<1>15. CASE UpAuthenticated
  BY <1>15 DEF UpAuthenticated, At, Goto
<1>16. CASE UpJoining
  BY <1>16 DEF UpJoining, At, Goto
<1>17. CASE UpJoined
  BY <1>17 DEF UpJoined, At, Goto
<1>18. CASE UpPortmap
  BY <1>18 DEF UpPortmap, At, Goto
<1>19. CASE UpProto
  BY <1>19 DEF UpProto, At, Goto
<1>20. CASE UpTun
  BY <1>20 DEF UpTun, At, Goto
<1>21. CASE UpConnected
  BY <1>21 DEF UpConnected, At, Unlock
<1>22. CASE UpFails
  BY <1>22 DEF UpFails, At, Unlock
<1>23. ASSUME NEW g \in Ids, DispatcherLearns(g) PROVE TypeOK'
  BY <1>23 DEF DispatcherLearns
<1>24. ASSUME NEW g \in Ids, RefreshStart(g) PROVE TypeOK'
  BY <1>24 DEF RefreshStart
<1>25. ASSUME NEW g \in Ids, RefreshEnd(g) PROVE TypeOK'
  BY <1>25 DEF RefreshEnd
<1>26. ASSUME NEW g \in Ids, NEW k \in Kinds, TaskExits(g, k) PROVE TypeOK'
  BY <1>26 DEF TaskExits, BetweenArms
<1>27. CASE UNCHANGED vars
  BY <1>27 DEF vars
<1> HIDE DEF TypeOK, ReqInv, ClientState, Idle, Request, StartArgs, StopArgs, NoReq, Steps, DownSteps, UpSteps, ConnectionState, Kinds
<1> QED
  BY <1>1, <1>2, <1>3, <1>4, <1>5, <1>6, <1>7, <1>8, <1>9, <1>10, <1>11, <1>12, <1>13,
     <1>14, <1>15, <1>16, <1>17, <1>18, <1>19, <1>20, <1>21, <1>22, <1>23, <1>24, <1>25, <1>26, <1>27
     DEF Next, Requests, Disconnecting, Connecting, Background

\* Requests pass through the queue once, in order of arrival.
LEMMA ReqInvStep == IInv /\ [Next]_vars => ReqInv'
<1> SUFFICES ASSUME IInv, [Next]_vars PROVE ReqInv'
  OBVIOUS
<1> TypeOK /\ ReqInv
  BY DEF IInv
<1> USE HelperAssumption
    DEF TypeOK, ReqInv, Request, StartArgs, StopArgs, NoReq, DownSteps,
        UpSteps, Steps,
        reqVars, opVars, connVars, taskVars, mapVars
<1>1. ASSUME NEW c \in Clients, NEW i \in Ids, NEW n \in Nets, Connect(c, i, n) PROVE ReqInv'
  BY <1>1 DEF Connect, AlreadyUp
<1>2. ASSUME NEW i \in Ids, SpawnedLocks(i) PROVE ReqInv'
  BY <1>2 DEF SpawnedLocks
<1>3. ASSUME NEW c \in Clients, NEW i \in Ids, Stop(c, i) PROVE ReqInv'
  BY <1>3 DEF Stop
<1>4. ASSUME NEW c \in Clients, PollConnected(c) PROVE ReqInv'
  BY <1>4 DEF PollConnected
<1>5. ASSUME NEW c \in Clients, PollTimeout(c) PROVE ReqInv'
  BY <1>5 DEF PollTimeout
<1>6. CASE Grant
  BY <1>6 DEF Grant
<1>7. CASE DownStop
  BY <1>7 DEF DownStop, At, Goto, StateOnStop, SignalTasks
<1>8. CASE DownJoinTasks
  BY <1>8 DEF DownJoinTasks, At, Goto, JoinedOrTimedOut, TasksEnded
<1>9. CASE DownCloseTun
  BY <1>9 DEF DownCloseTun, At, Goto
<1>10. CASE DownClear
  BY <1>10 DEF DownClear, At, Goto, ForgetAddresses
<1>11. ASSUME NEW ok \in BOOLEAN, DownRelease(ok) PROVE ReqInv'
  BY <1>11 DEF DownRelease, At, Goto, ReleaseMapping
<1>12. ASSUME NEW c \in Clients, StopAnswered(c) PROVE ReqInv'
  BY <1>12 DEF StopAnswered, DownFinish, At, Unlock, ClearSessions
<1>13. CASE StartGoesOn
  BY <1>13 DEF StartGoesOn, DownFinish, At, Goto, ClearSessions
<1>14. CASE UpBegin
  BY <1>14 DEF UpBegin, At, Goto, IsConnected
<1>15. CASE UpAuthenticated
  BY <1>15 DEF UpAuthenticated, At, Goto
<1>16. CASE UpJoining
  BY <1>16 DEF UpJoining, At, Goto
<1>17. CASE UpJoined
  BY <1>17 DEF UpJoined, At, Goto
<1>18. CASE UpPortmap
  BY <1>18 DEF UpPortmap, At, Goto
<1>19. CASE UpProto
  BY <1>19 DEF UpProto, At, Goto
<1>20. CASE UpTun
  BY <1>20 DEF UpTun, At, Goto
<1>21. CASE UpConnected
  BY <1>21 DEF UpConnected, At, Unlock
<1>22. CASE UpFails
  BY <1>22 DEF UpFails, At, Unlock
<1>23. ASSUME NEW g \in Ids, DispatcherLearns(g) PROVE ReqInv'
  BY <1>23 DEF DispatcherLearns
<1>24. ASSUME NEW g \in Ids, RefreshStart(g) PROVE ReqInv'
  BY <1>24 DEF RefreshStart
<1>25. ASSUME NEW g \in Ids, RefreshEnd(g) PROVE ReqInv'
  BY <1>25 DEF RefreshEnd
<1>26. ASSUME NEW g \in Ids, NEW k \in Kinds, TaskExits(g, k) PROVE ReqInv'
  BY <1>26 DEF TaskExits, BetweenArms
<1>27. CASE UNCHANGED vars
  BY <1>27 DEF vars
<1> HIDE DEF TypeOK, ReqInv, Request, StartArgs, StopArgs, NoReq, DownSteps, UpSteps, Steps
<1> QED
  BY <1>1, <1>2, <1>3, <1>4, <1>5, <1>6, <1>7, <1>8, <1>9, <1>10, <1>11, <1>12, <1>13,
     <1>14, <1>15, <1>16, <1>17, <1>18, <1>19, <1>20, <1>21, <1>22, <1>23, <1>24, <1>25, <1>26, <1>27
     DEF Next, Requests, Disconnecting, Connecting, Background

\* A request names no connection before its own start_loops.
LEMMA FreshInvStep == IInv /\ [Next]_vars => FreshInv'
<1> SUFFICES ASSUME IInv, [Next]_vars PROVE FreshInv'
  OBVIOUS
<1> TypeOK /\ ReqInv /\ FreshInv /\ ConnInv
  BY DEF IInv
<1> USE HelperAssumption
    DEF TypeOK, ReqInv, FreshInv, Ran, ConnInv, DownSteps, UpSteps,
        reqVars, opVars, connVars, taskVars, mapVars
<1>1. ASSUME NEW c \in Clients, NEW i \in Ids, NEW n \in Nets, Connect(c, i, n) PROVE FreshInv'
  BY <1>1 DEF Connect, AlreadyUp
<1>2. ASSUME NEW i \in Ids, SpawnedLocks(i) PROVE FreshInv'
  BY <1>2 DEF SpawnedLocks
<1>3. ASSUME NEW c \in Clients, NEW i \in Ids, Stop(c, i) PROVE FreshInv'
  BY <1>3 DEF Stop
<1>4. ASSUME NEW c \in Clients, PollConnected(c) PROVE FreshInv'
  BY <1>4 DEF PollConnected
<1>5. ASSUME NEW c \in Clients, PollTimeout(c) PROVE FreshInv'
  BY <1>5 DEF PollTimeout
<1>6. CASE Grant
  BY <1>6 DEF Grant
<1>7. CASE DownStop
  BY <1>7 DEF DownStop, At, Goto, StateOnStop, SignalTasks
<1>8. CASE DownJoinTasks
  BY <1>8 DEF DownJoinTasks, At, Goto, JoinedOrTimedOut, TasksEnded
<1>9. CASE DownCloseTun
  BY <1>9 DEF DownCloseTun, At, Goto
<1>10. CASE DownClear
  BY <1>10 DEF DownClear, At, Goto, ForgetAddresses
<1>11. ASSUME NEW ok \in BOOLEAN, DownRelease(ok) PROVE FreshInv'
  BY <1>11 DEF DownRelease, At, Goto, ReleaseMapping
<1>12. ASSUME NEW c \in Clients, StopAnswered(c) PROVE FreshInv'
  BY <1>12 DEF StopAnswered, DownFinish, At, Unlock, ClearSessions
<1>13. CASE StartGoesOn
  BY <1>13 DEF StartGoesOn, DownFinish, At, Goto, ClearSessions
<1>14. CASE UpBegin
  BY <1>14 DEF UpBegin, At, Goto, IsConnected
<1>15. CASE UpAuthenticated
  BY <1>15 DEF UpAuthenticated, At, Goto
<1>16. CASE UpJoining
  BY <1>16 DEF UpJoining, At, Goto
<1>17. CASE UpJoined
  BY <1>17 DEF UpJoined, At, Goto
<1>18. CASE UpPortmap
  BY <1>18 DEF UpPortmap, At, Goto
<1>19. CASE UpProto
  BY <1>19 DEF UpProto, At, Goto
<1>20. CASE UpTun
  BY <1>20 DEF UpTun, At, Goto
<1>21. CASE UpConnected
  BY <1>21 DEF UpConnected, At, Unlock
<1>22. CASE UpFails
  BY <1>22 DEF UpFails, At, Unlock
<1>23. ASSUME NEW g \in Ids, DispatcherLearns(g) PROVE FreshInv'
  BY <1>23 DEF DispatcherLearns
<1>24. ASSUME NEW g \in Ids, RefreshStart(g) PROVE FreshInv'
  BY <1>24 DEF RefreshStart
<1>25. ASSUME NEW g \in Ids, RefreshEnd(g) PROVE FreshInv'
  BY <1>25 DEF RefreshEnd
<1>26. ASSUME NEW g \in Ids, NEW k \in Kinds, TaskExits(g, k) PROVE FreshInv'
  BY <1>26 DEF TaskExits, BetweenArms
<1>27. CASE UNCHANGED vars
  BY <1>27 DEF vars
<1> HIDE DEF TypeOK, ReqInv, FreshInv, Ran, ConnInv, DownSteps, UpSteps
<1> QED
  BY <1>1, <1>2, <1>3, <1>4, <1>5, <1>6, <1>7, <1>8, <1>9, <1>10, <1>11, <1>12, <1>13,
     <1>14, <1>15, <1>16, <1>17, <1>18, <1>19, <1>20, <1>21, <1>22, <1>23, <1>24, <1>25, <1>26, <1>27
     DEF Next, Requests, Disconnecting, Connecting, Background

\* TUN, shutdown channel and handles are stored and dropped together.
LEMMA ConnInvStep == IInv /\ [Next]_vars => ConnInv'
<1> SUFFICES ASSUME IInv, [Next]_vars PROVE ConnInv'
  OBVIOUS
<1> TypeOK /\ ReqInv /\ ConnInv
  BY DEF IInv
<1> USE HelperAssumption
    DEF TypeOK, ReqInv, ConnInv, DownSteps, UpSteps,
        reqVars, opVars, connVars, taskVars, mapVars
<1>1. ASSUME NEW c \in Clients, NEW i \in Ids, NEW n \in Nets, Connect(c, i, n) PROVE ConnInv'
  BY <1>1 DEF Connect, AlreadyUp
<1>2. ASSUME NEW i \in Ids, SpawnedLocks(i) PROVE ConnInv'
  BY <1>2 DEF SpawnedLocks
<1>3. ASSUME NEW c \in Clients, NEW i \in Ids, Stop(c, i) PROVE ConnInv'
  BY <1>3 DEF Stop
<1>4. ASSUME NEW c \in Clients, PollConnected(c) PROVE ConnInv'
  BY <1>4 DEF PollConnected
<1>5. ASSUME NEW c \in Clients, PollTimeout(c) PROVE ConnInv'
  BY <1>5 DEF PollTimeout
<1>6. CASE Grant
  BY <1>6 DEF Grant
<1>7. CASE DownStop
  BY <1>7 DEF DownStop, At, Goto, StateOnStop, SignalTasks
<1>8. CASE DownJoinTasks
  BY <1>8 DEF DownJoinTasks, At, Goto, JoinedOrTimedOut, TasksEnded
<1>9. CASE DownCloseTun
  BY <1>9 DEF DownCloseTun, At, Goto
<1>10. CASE DownClear
  BY <1>10 DEF DownClear, At, Goto, ForgetAddresses
<1>11. ASSUME NEW ok \in BOOLEAN, DownRelease(ok) PROVE ConnInv'
  BY <1>11 DEF DownRelease, At, Goto, ReleaseMapping
<1>12. ASSUME NEW c \in Clients, StopAnswered(c) PROVE ConnInv'
  BY <1>12 DEF StopAnswered, DownFinish, At, Unlock, ClearSessions
<1>13. CASE StartGoesOn
  BY <1>13 DEF StartGoesOn, DownFinish, At, Goto, ClearSessions
<1>14. CASE UpBegin
  BY <1>14 DEF UpBegin, At, Goto, IsConnected
<1>15. CASE UpAuthenticated
  BY <1>15 DEF UpAuthenticated, At, Goto
<1>16. CASE UpJoining
  BY <1>16 DEF UpJoining, At, Goto
<1>17. CASE UpJoined
  BY <1>17 DEF UpJoined, At, Goto
<1>18. CASE UpPortmap
  BY <1>18 DEF UpPortmap, At, Goto
<1>19. CASE UpProto
  BY <1>19 DEF UpProto, At, Goto
<1>20. CASE UpTun
  BY <1>20 DEF UpTun, At, Goto
<1>21. CASE UpConnected
  BY <1>21 DEF UpConnected, At, Unlock
<1>22. CASE UpFails
  BY <1>22 DEF UpFails, At, Unlock
<1>23. ASSUME NEW g \in Ids, DispatcherLearns(g) PROVE ConnInv'
  BY <1>23 DEF DispatcherLearns
<1>24. ASSUME NEW g \in Ids, RefreshStart(g) PROVE ConnInv'
  BY <1>24 DEF RefreshStart
<1>25. ASSUME NEW g \in Ids, RefreshEnd(g) PROVE ConnInv'
  BY <1>25 DEF RefreshEnd
<1>26. ASSUME NEW g \in Ids, NEW k \in Kinds, TaskExits(g, k) PROVE ConnInv'
  BY <1>26 DEF TaskExits, BetweenArms
<1>27. CASE UNCHANGED vars
  BY <1>27 DEF vars
<1> HIDE DEF TypeOK, ReqInv, ConnInv, DownSteps, UpSteps
<1> QED
  BY <1>1, <1>2, <1>3, <1>4, <1>5, <1>6, <1>7, <1>8, <1>9, <1>10, <1>11, <1>12, <1>13,
     <1>14, <1>15, <1>16, <1>17, <1>18, <1>19, <1>20, <1>21, <1>22, <1>23, <1>24, <1>25, <1>26, <1>27
     DEF Next, Requests, Disconnecting, Connecting, Background

\* Tasks start with the connection and are signalled with it.
LEMMA TaskInvStep == IInv /\ [Next]_vars => TaskInv'
<1> SUFFICES ASSUME IInv, [Next]_vars PROVE TaskInv'
  OBVIOUS
<1> TypeOK /\ ReqInv /\ FreshInv /\ ConnInv /\ TaskInv
  BY DEF IInv
<1> USE HelperAssumption
    DEF TypeOK, ReqInv, FreshInv, ConnInv, TaskInv, DownSteps, UpSteps,
        Kinds,
        reqVars, opVars, connVars, taskVars, mapVars
<1>1. ASSUME NEW c \in Clients, NEW i \in Ids, NEW n \in Nets, Connect(c, i, n) PROVE TaskInv'
  BY <1>1 DEF Connect, AlreadyUp
<1>2. ASSUME NEW i \in Ids, SpawnedLocks(i) PROVE TaskInv'
  BY <1>2 DEF SpawnedLocks
<1>3. ASSUME NEW c \in Clients, NEW i \in Ids, Stop(c, i) PROVE TaskInv'
  BY <1>3 DEF Stop
<1>4. ASSUME NEW c \in Clients, PollConnected(c) PROVE TaskInv'
  BY <1>4 DEF PollConnected
<1>5. ASSUME NEW c \in Clients, PollTimeout(c) PROVE TaskInv'
  BY <1>5 DEF PollTimeout
<1>6. CASE Grant
  BY <1>6 DEF Grant
<1>7. CASE DownStop
  BY <1>7 DEF DownStop, At, Goto, StateOnStop, SignalTasks
<1>8. CASE DownJoinTasks
  BY <1>8 DEF DownJoinTasks, At, Goto, JoinedOrTimedOut, TasksEnded
<1>9. CASE DownCloseTun
  BY <1>9 DEF DownCloseTun, At, Goto
<1>10. CASE DownClear
  BY <1>10 DEF DownClear, At, Goto, ForgetAddresses
<1>11. ASSUME NEW ok \in BOOLEAN, DownRelease(ok) PROVE TaskInv'
  BY <1>11 DEF DownRelease, At, Goto, ReleaseMapping
<1>12. ASSUME NEW c \in Clients, StopAnswered(c) PROVE TaskInv'
  BY <1>12 DEF StopAnswered, DownFinish, At, Unlock, ClearSessions
<1>13. CASE StartGoesOn
  BY <1>13 DEF StartGoesOn, DownFinish, At, Goto, ClearSessions
<1>14. CASE UpBegin
  BY <1>14 DEF UpBegin, At, Goto, IsConnected
<1>15. CASE UpAuthenticated
  BY <1>15 DEF UpAuthenticated, At, Goto
<1>16. CASE UpJoining
  BY <1>16 DEF UpJoining, At, Goto
<1>17. CASE UpJoined
  BY <1>17 DEF UpJoined, At, Goto
<1>18. CASE UpPortmap
  BY <1>18 DEF UpPortmap, At, Goto
<1>19. CASE UpProto
  BY <1>19 DEF UpProto, At, Goto
<1>20. CASE UpTun
  BY <1>20 DEF UpTun, At, Goto
<1>21. CASE UpConnected
  BY <1>21 DEF UpConnected, At, Unlock
<1>22. CASE UpFails
  BY <1>22 DEF UpFails, At, Unlock
<1>23. ASSUME NEW g \in Ids, DispatcherLearns(g) PROVE TaskInv'
  BY <1>23 DEF DispatcherLearns
<1>24. ASSUME NEW g \in Ids, RefreshStart(g) PROVE TaskInv'
  BY <1>24 DEF RefreshStart
<1>25. ASSUME NEW g \in Ids, RefreshEnd(g) PROVE TaskInv'
  BY <1>25 DEF RefreshEnd
<1>26. ASSUME NEW g \in Ids, NEW k \in Kinds, TaskExits(g, k) PROVE TaskInv'
  BY <1>26 DEF TaskExits, BetweenArms
<1>27. CASE UNCHANGED vars
  BY <1>27 DEF vars
<1> HIDE DEF TypeOK, ReqInv, FreshInv, ConnInv, TaskInv, DownSteps, UpSteps, Kinds
<1> QED
  BY <1>1, <1>2, <1>3, <1>4, <1>5, <1>6, <1>7, <1>8, <1>9, <1>10, <1>11, <1>12, <1>13,
     <1>14, <1>15, <1>16, <1>17, <1>18, <1>19, <1>20, <1>21, <1>22, <1>23, <1>24, <1>25, <1>26, <1>27
     DEF Next, Requests, Disconnecting, Connecting, Background

\* Network id and virtual IP follow the connection.
LEMMA AddrInvStep == IInv /\ [Next]_vars => AddrInv'
<1> SUFFICES ASSUME IInv, [Next]_vars PROVE AddrInv'
  OBVIOUS
<1> TypeOK /\ ReqInv /\ ConnInv /\ AddrInv /\ StateInv
  BY DEF IInv
<1> USE HelperAssumption
    DEF TypeOK, ReqInv, ConnInv, AddrInv, StateInv, Request, StartArgs,
        StopArgs, NoReq, DownSteps, UpSteps,
        reqVars, opVars, connVars, taskVars, mapVars
<1>1. ASSUME NEW c \in Clients, NEW i \in Ids, NEW n \in Nets, Connect(c, i, n) PROVE AddrInv'
  BY <1>1 DEF Connect, AlreadyUp
<1>2. ASSUME NEW i \in Ids, SpawnedLocks(i) PROVE AddrInv'
  BY <1>2 DEF SpawnedLocks
<1>3. ASSUME NEW c \in Clients, NEW i \in Ids, Stop(c, i) PROVE AddrInv'
  BY <1>3 DEF Stop
<1>4. ASSUME NEW c \in Clients, PollConnected(c) PROVE AddrInv'
  BY <1>4 DEF PollConnected
<1>5. ASSUME NEW c \in Clients, PollTimeout(c) PROVE AddrInv'
  BY <1>5 DEF PollTimeout
<1>6. CASE Grant
  BY <1>6 DEF Grant
<1>7. CASE DownStop
  BY <1>7 DEF DownStop, At, Goto, StateOnStop, SignalTasks
<1>8. CASE DownJoinTasks
  BY <1>8 DEF DownJoinTasks, At, Goto, JoinedOrTimedOut, TasksEnded
<1>9. CASE DownCloseTun
  BY <1>9 DEF DownCloseTun, At, Goto
<1>10. CASE DownClear
  BY <1>10 DEF DownClear, At, Goto, ForgetAddresses
<1>11. ASSUME NEW ok \in BOOLEAN, DownRelease(ok) PROVE AddrInv'
  BY <1>11 DEF DownRelease, At, Goto, ReleaseMapping
<1>12. ASSUME NEW c \in Clients, StopAnswered(c) PROVE AddrInv'
  BY <1>12 DEF StopAnswered, DownFinish, At, Unlock, ClearSessions
<1>13. CASE StartGoesOn
  BY <1>13 DEF StartGoesOn, DownFinish, At, Goto, ClearSessions
<1>14. CASE UpBegin
  BY <1>14 DEF UpBegin, At, Goto, IsConnected
<1>15. CASE UpAuthenticated
  BY <1>15 DEF UpAuthenticated, At, Goto
<1>16. CASE UpJoining
  BY <1>16 DEF UpJoining, At, Goto
<1>17. CASE UpJoined
  BY <1>17 DEF UpJoined, At, Goto
<1>18. CASE UpPortmap
  BY <1>18 DEF UpPortmap, At, Goto
<1>19. CASE UpProto
  BY <1>19 DEF UpProto, At, Goto
<1>20. CASE UpTun
  BY <1>20 DEF UpTun, At, Goto
<1>21. CASE UpConnected
  BY <1>21 DEF UpConnected, At, Unlock
<1>22. CASE UpFails
  BY <1>22 DEF UpFails, At, Unlock
<1>23. ASSUME NEW g \in Ids, DispatcherLearns(g) PROVE AddrInv'
  BY <1>23 DEF DispatcherLearns
<1>24. ASSUME NEW g \in Ids, RefreshStart(g) PROVE AddrInv'
  BY <1>24 DEF RefreshStart
<1>25. ASSUME NEW g \in Ids, RefreshEnd(g) PROVE AddrInv'
  BY <1>25 DEF RefreshEnd
<1>26. ASSUME NEW g \in Ids, NEW k \in Kinds, TaskExits(g, k) PROVE AddrInv'
  BY <1>26 DEF TaskExits, BetweenArms
<1>27. CASE UNCHANGED vars
  BY <1>27 DEF vars
<1> HIDE DEF TypeOK, ReqInv, ConnInv, AddrInv, StateInv, Request, StartArgs, StopArgs, NoReq, DownSteps, UpSteps
<1> QED
  BY <1>1, <1>2, <1>3, <1>4, <1>5, <1>6, <1>7, <1>8, <1>9, <1>10, <1>11, <1>12, <1>13,
     <1>14, <1>15, <1>16, <1>17, <1>18, <1>19, <1>20, <1>21, <1>22, <1>23, <1>24, <1>25, <1>26, <1>27
     DEF Next, Requests, Disconnecting, Connecting, Background

\* The reported state follows the steps of join and disconnect.
LEMMA StateInvStep == IInv /\ [Next]_vars => StateInv'
<1> SUFFICES ASSUME IInv, [Next]_vars PROVE StateInv'
  OBVIOUS
<1> TypeOK /\ ReqInv /\ ConnInv /\ StateInv
  BY DEF IInv
<1> USE HelperAssumption
    DEF TypeOK, ReqInv, ConnInv, StateInv, DownSteps, UpSteps,
        reqVars, opVars, connVars, taskVars, mapVars
<1>1. ASSUME NEW c \in Clients, NEW i \in Ids, NEW n \in Nets, Connect(c, i, n) PROVE StateInv'
  BY <1>1 DEF Connect, AlreadyUp
<1>2. ASSUME NEW i \in Ids, SpawnedLocks(i) PROVE StateInv'
  BY <1>2 DEF SpawnedLocks
<1>3. ASSUME NEW c \in Clients, NEW i \in Ids, Stop(c, i) PROVE StateInv'
  BY <1>3 DEF Stop
<1>4. ASSUME NEW c \in Clients, PollConnected(c) PROVE StateInv'
  BY <1>4 DEF PollConnected
<1>5. ASSUME NEW c \in Clients, PollTimeout(c) PROVE StateInv'
  BY <1>5 DEF PollTimeout
<1>6. CASE Grant
  BY <1>6 DEF Grant
<1>7. CASE DownStop
  BY <1>7 DEF DownStop, At, Goto, StateOnStop, SignalTasks
<1>8. CASE DownJoinTasks
  BY <1>8 DEF DownJoinTasks, At, Goto, JoinedOrTimedOut, TasksEnded
<1>9. CASE DownCloseTun
  BY <1>9 DEF DownCloseTun, At, Goto
<1>10. CASE DownClear
  BY <1>10 DEF DownClear, At, Goto, ForgetAddresses
<1>11. ASSUME NEW ok \in BOOLEAN, DownRelease(ok) PROVE StateInv'
  BY <1>11 DEF DownRelease, At, Goto, ReleaseMapping
<1>12. ASSUME NEW c \in Clients, StopAnswered(c) PROVE StateInv'
  BY <1>12 DEF StopAnswered, DownFinish, At, Unlock, ClearSessions
<1>13. CASE StartGoesOn
  BY <1>13 DEF StartGoesOn, DownFinish, At, Goto, ClearSessions
<1>14. CASE UpBegin
  BY <1>14 DEF UpBegin, At, Goto, IsConnected
<1>15. CASE UpAuthenticated
  BY <1>15 DEF UpAuthenticated, At, Goto
<1>16. CASE UpJoining
  BY <1>16 DEF UpJoining, At, Goto
<1>17. CASE UpJoined
  BY <1>17 DEF UpJoined, At, Goto
<1>18. CASE UpPortmap
  BY <1>18 DEF UpPortmap, At, Goto
<1>19. CASE UpProto
  BY <1>19 DEF UpProto, At, Goto
<1>20. CASE UpTun
  BY <1>20 DEF UpTun, At, Goto
<1>21. CASE UpConnected
  BY <1>21 DEF UpConnected, At, Unlock
<1>22. CASE UpFails
  BY <1>22 DEF UpFails, At, Unlock
<1>23. ASSUME NEW g \in Ids, DispatcherLearns(g) PROVE StateInv'
  BY <1>23 DEF DispatcherLearns
<1>24. ASSUME NEW g \in Ids, RefreshStart(g) PROVE StateInv'
  BY <1>24 DEF RefreshStart
<1>25. ASSUME NEW g \in Ids, RefreshEnd(g) PROVE StateInv'
  BY <1>25 DEF RefreshEnd
<1>26. ASSUME NEW g \in Ids, NEW k \in Kinds, TaskExits(g, k) PROVE StateInv'
  BY <1>26 DEF TaskExits, BetweenArms
<1>27. CASE UNCHANGED vars
  BY <1>27 DEF vars
<1> HIDE DEF TypeOK, ReqInv, ConnInv, StateInv, DownSteps, UpSteps
<1> QED
  BY <1>1, <1>2, <1>3, <1>4, <1>5, <1>6, <1>7, <1>8, <1>9, <1>10, <1>11, <1>12, <1>13,
     <1>14, <1>15, <1>16, <1>17, <1>18, <1>19, <1>20, <1>21, <1>22, <1>23, <1>24, <1>25, <1>26, <1>27
     DEF Next, Requests, Disconnecting, Connecting, Background

\* The invariant is inductive.
LEMMA Inductive == Spec => []IInv
<1>1. IInv /\ [Next]_vars => IInv'
  BY TypeOKStep, ReqInvStep, FreshInvStep, ConnInvStep, TaskInvStep, AddrInvStep, StateInvStep DEF IInv
<1> QED
  BY <1>1, InitInv, PTL DEF Spec

-----------------------------------------------------------------------------
\* Whatever requests, joins, disconnects and background tasks do, in any
\* order, the manager's and the helper's state keeps its shape and the port
\* mapper's lock is held only by a running task.
THEOREM TypeCorrect == Spec => []TypeOK
<1>1. IInv => TypeOK
  BY HelperAssumption DEF IInv, TypeOK
<1> QED
  BY <1>1, Inductive, PTL

\* connect_with_token never leaves two TUN interfaces, nor one the manager
\* cannot close, however many starts and stops overlap.
THEOREM OneTunAlways == Spec => []OneTun
<1>1. IInv => OneTun
  BY HelperAssumption DEF IInv, ConnInv, OneTun
<1> QED
  BY <1>1, Inductive, PTL

\* Every background task is the current connection's or has been told to
\* stop, with waits that time out too.
THEOREM NoOrphans == Spec => []NoOrphanTasks
<1>1. IInv => NoOrphanTasks
  BY HelperAssumption DEF IInv, TaskInv, NoOrphanTasks
<1> QED
  BY <1>1, Inductive, PTL

\* A helper that reports Connected has a whole connection (set_state(Connected)
\* at the end of perform_join, Stopping at the start of disconnect).
THEOREM ConnectedWhole == Spec => []ConnectedIsWhole
<1>1. IInv => ConnectedIsWhole
  BY HelperAssumption DEF IInv, TypeOK, ConnInv, TaskInv, AddrInv, StateInv, ConnectedIsWhole
<1> QED
  BY <1>1, Inductive, PTL

\* A helper that reports Disconnected holds no interface, network or address.
THEOREM DownClosed == Spec => []DownIsClosed
<1>1. IInv => DownIsClosed
  BY HelperAssumption DEF IInv, ConnInv, AddrInv, StateInv, DownIsClosed
<1> QED
  BY <1>1, Inductive, PTL

\* One connection at a time: one interface, and every task is the connection's
\* or has been told to stop.
THEOREM OneConnectionAlways == Spec => []OneConnection
BY OneTunAlways, NoOrphans, PTL DEF OneConnection

\* What the helper reports is what it holds, whichever step of a join or a
\* disconnect failed and however requests overlap.
THEOREM ReportedHeld == Spec => []ReportedIsHeld
BY ConnectedWhole, DownClosed, PTL DEF ReportedIsHeld

-----------------------------------------------------------------------------
\* What connections leave behind as long as no wait was given up: tasks,
\* peers and relay sessions are those of the connection the manager holds,
\* except for what a disconnect is about to clear.
LeftInv ==
  ~overran =>
    /\ \A t \in tasks : t[1] = tun
    /\ step = "close_tun" => tasks = {}
    /\ step # "clear" => peers \subseteq {tun}
    /\ step \notin {"clear", "release", "finish"} => sessions \subseteq {tun}

\* A step that touches neither the tasks nor what they learnt, outside the
\* steps of a disconnect.
LEMMA QuietStep ==
  ASSUME LeftInv, ~overran, UNCHANGED <<tasks, peers, sessions, tun>>,
         step' \notin {"close_tun", "clear", "release", "finish"},
         step \notin {"clear", "release", "finish"}
  PROVE  LeftInv'
BY DEF LeftInv

LEMMA LeftInvStep == IInv /\ LeftInv /\ [HelperNext]_helperVars => LeftInv'
<1> SUFFICES ASSUME IInv, LeftInv, [HelperNext]_helperVars PROVE LeftInv'
  OBVIOUS
<1>1. CASE UNCHANGED helperVars
  BY <1>1 DEF helperVars, vars, LeftInv, taskVars, connVars, opVars
<1>2. CASE HelperNext
  <2>0. Next /\ overran' = (overran \/ (At("join_tasks") /\ handles' # handles /\ ~TasksEnded))
    BY <1>2 DEF HelperNext
  <2>1. CASE overran'
    BY <2>1 DEF LeftInv
  <2>2. CASE ~overran'
    <3>0. ~overran /\ ~(At("join_tasks") /\ handles' # handles /\ ~TasksEnded)
      BY <2>0, <2>2
    <3> TypeOK /\ ReqInv /\ ConnInv
      BY DEF IInv
    <3>t. /\ \A t \in tasks : t[1] = tun /\ t[1] \in Ids
          /\ tun = NoId => tasks = {}
          /\ peers \subseteq Ids /\ sessions \subseteq Ids
      BY <3>0, HelperAssumption DEF LeftInv, TypeOK
    <3>1. ASSUME UNCHANGED <<opVars, tasks, peers, sessions, tun>> PROVE LeftInv'
      BY <3>0, <3>1 DEF LeftInv, opVars
    <3>2. CASE Requests
      <4>1. CASE Grant
        <5>1. step = "none" /\ step' \in {"stop", "begin"} /\ UNCHANGED <<tasks, peers, sessions, tun>>
          BY <4>1 DEF Grant, ReqInv, connVars, taskVars
        <5> QED
          BY <3>0, <5>1, QuietStep
      <4>2. CASE ~Grant
        BY <3>1, <3>2, <4>2
        DEF Requests, Connect, SpawnedLocks, Stop, PollConnected, PollTimeout, connVars, taskVars
      <4> QED
        BY <4>1, <4>2
    <3>3. CASE DownStop
      <4>1. step = "stop" /\ step' = "join_tasks" /\ UNCHANGED <<tasks, peers, sessions, tun>>
        BY <3>3 DEF DownStop, At, Goto
      <4> QED
        BY <3>0, <4>1, QuietStep
    <3>4. CASE DownJoinTasks
      <4>1. /\ step = "join_tasks" /\ step' = "close_tun" /\ op # NoId /\ handles' = NoId
            /\ UNCHANGED <<tasks, peers, sessions, tun>>
        BY <3>4 DEF DownJoinTasks, At, Goto, taskVars
      <4>2. handles = tun
        BY <4>1 DEF ConnInv
      <4>3. tun = NoId \/ TasksEnded
        BY <3>0, <4>1, <4>2 DEF At
      <4>4. tasks = {}
        BY <3>t, <4>2, <4>3 DEF TasksEnded
      <4> QED
        BY <3>0, <4>1, <4>4 DEF LeftInv
    <3>5. CASE DownCloseTun
      <4>1. /\ step = "close_tun" /\ step' = "clear" /\ UNCHANGED <<tasks, peers, sessions>>
        BY <3>5 DEF DownCloseTun, At, Goto, taskVars
      <4> QED
        BY <3>0, <4>1 DEF LeftInv
    <3>6. CASE DownClear
      <4>1. /\ step = "clear" /\ step' = "release" /\ peers' = {} /\ UNCHANGED <<tasks, sessions, tun>>
        BY <3>6 DEF DownClear, At, Goto
      <4> QED
        BY <3>0, <4>1 DEF LeftInv
    <3>7. ASSUME NEW ok \in BOOLEAN, DownRelease(ok) PROVE LeftInv'
      <4>1. /\ step = "release" /\ step' = "finish" /\ UNCHANGED <<tasks, peers, sessions, tun>>
        BY <3>7 DEF DownRelease, At, Goto, connVars, taskVars
      <4> QED
        BY <3>0, <4>1 DEF LeftInv
    <3>8. CASE DownFinish /\ step' \in {"none", "authenticated"}
      <4>1. /\ step = "finish" /\ sessions' = {} /\ UNCHANGED <<tasks, peers, tun>>
        BY <3>8 DEF DownFinish, At, ClearSessions
      <4> QED
        BY <3>0, <3>8, <4>1 DEF LeftInv
    <3>9. CASE UpTun
      <4>1. /\ step = "tun" /\ step' = "loops" /\ op \in Ids /\ tun' = op
            /\ tasks' = tasks \cup {<<op, k>> : k \in Kinds} /\ UNCHANGED <<peers, sessions>>
        BY <3>9 DEF UpTun, At, Goto, TypeOK
      <4>2. tun = NoId
        BY <4>1 DEF ConnInv, UpSteps
      <4>3. tasks = {} /\ peers = {} /\ sessions = {}
        <5>1. peers \subseteq {tun} /\ sessions \subseteq {tun}
          BY <3>0, <4>1 DEF LeftInv
        <5> QED
          BY <3>t, <4>2, <5>1, HelperAssumption
      <4>4. \A t \in tasks' : t[1] = tun'
        BY <4>1, <4>3
      <4> QED
        BY <4>1, <4>3, <4>4 DEF LeftInv
    <3>10. CASE Connecting /\ ~UpTun
      <4>1. /\ step \in {"begin", "authenticated", "joining", "join_api", "portmap", "proto", "tun", "loops"}
            /\ step' \in {"stop", "authenticated", "joining", "join_api", "portmap", "proto", "tun", "none"}
            /\ UNCHANGED <<tasks, peers, sessions, tun>>
        BY <3>10 DEF Connecting, UpBegin, UpAuthenticated, UpJoining, UpJoined, UpPortmap, UpProto,
           UpConnected, UpFails, At, Goto, Unlock, connVars, taskVars
      <4> QED
        BY <3>0, <4>1, QuietStep
    <3>11. ASSUME NEW g \in Ids, DispatcherLearns(g) PROVE LeftInv'
      <4>1. <<g, "dispatcher">> \in tasks /\ UNCHANGED <<step, tasks, tun>>
            /\ peers' \subseteq peers \cup {g} /\ sessions' \subseteq sessions \cup {g}
        BY <3>11 DEF DispatcherLearns, opVars, connVars
      <4>2. g = tun
        BY <3>t, <4>1
      <4> QED
        BY <3>0, <4>1, <4>2 DEF LeftInv
    <3>12. ASSUME NEW g \in Ids, RefreshStart(g) \/ RefreshEnd(g) PROVE LeftInv'
      BY <3>1, <3>12 DEF RefreshStart, RefreshEnd, connVars, taskVars
    <3>13. ASSUME NEW g \in Ids, NEW k \in Kinds, TaskExits(g, k) PROVE LeftInv'
      <4>1. tasks' \subseteq tasks /\ UNCHANGED <<step, peers, sessions, tun>>
        BY <3>13 DEF TaskExits, opVars, connVars
      <4> QED
        BY <3>0, <4>1 DEF LeftInv
    <3>14. CASE Disconnecting
      <4>1. ASSUME NEW c \in Clients, StopAnswered(c) PROVE LeftInv'
        BY <3>8, <4>1 DEF StopAnswered, Unlock
      <4>2. CASE StartGoesOn
        BY <3>8, <4>2 DEF StartGoesOn, Goto
      <4> QED
        BY <3>3, <3>4, <3>5, <3>6, <3>7, <3>14, <4>1, <4>2 DEF Disconnecting
    <3> QED
      BY <2>0, <3>2, <3>9, <3>10, <3>11, <3>12, <3>13, <3>14 DEF Next, Background
  <2> QED
    BY <2>1, <2>2
<1> QED
  BY <1>1, <1>2

\* As long as no disconnect gave up its wait, nothing a former connection
\* learnt is visible after the disconnect or in the next connection, for any
\* number of overlapping requests, clients and networks: the peers, pings and
\* relay sessions that disconnect clears step by step are all there is
\* (disconnect, start_loops).
THEOREM PromptAlwaysLeavesNothing == HelperSpec => []PromptLeavesNothing
<1>1. HelperInit => IInv /\ LeftInv
  BY InitInv DEF HelperInit, LeftInv, Init
<1>2. IInv /\ LeftInv /\ [HelperNext]_helperVars => (IInv /\ LeftInv)'
  <2>1. [HelperNext]_helperVars => [Next]_vars
    BY DEF HelperNext, helperVars
  <2>2. IInv /\ [Next]_vars => IInv'
    BY TypeOKStep, ReqInvStep, FreshInvStep, ConnInvStep, TaskInvStep, AddrInvStep, StateInvStep DEF IInv
  <2> QED
    BY <2>1, <2>2, LeftInvStep
<1>3. IInv /\ LeftInv => PromptLeavesNothing
  <2> SUFFICES ASSUME IInv, LeftInv, ~overran PROVE NothingOutlives
    BY DEF PromptLeavesNothing
  <2> TypeOK /\ StateInv
    BY DEF IInv
  <2>1. CASE state = "Disconnected"
    <3>1. tun = NoId /\ peers \subseteq {tun} /\ sessions \subseteq {tun} /\ \A t \in tasks : t[1] = tun
      BY <2>1 DEF StateInv, LeftInv
    <3>2. tasks = {} /\ peers = {} /\ sessions = {}
      BY <3>1, HelperAssumption DEF TypeOK
    <3> QED
      BY <2>1, <3>2 DEF NothingOutlives
  <2>2. CASE state = "Connected"
    BY <2>2 DEF StateInv, LeftInv, NothingOutlives
  <2> QED
    BY <2>1, <2>2 DEF NothingOutlives
<1> QED
  BY <1>1, <1>2, <1>3, PTL DEF HelperSpec

-----------------------------------------------------------------------------
\* The steps of disconnect after the state is Stopping, one after another.
After(s) ==
  CASE s = "join_tasks" -> "close_tun"
    [] s = "close_tun" -> "clear"
    [] s = "clear" -> "release"
    [] s = "release" -> "finish"

\* A step while the helper is Stopping leaves the disconnect where it is, takes it to
\* its next step, or ends it.
TeardownMoves ==
  \/ UNCHANGED <<op, step, state>>
  \/ step # "finish" /\ step' = After(step) /\ UNCHANGED <<op, state>>
  \/ step = "finish" /\ state' = "Disconnected"

TeardownOnlyAdvances == [][state = "Stopping" => TeardownMoves]_vars

\* The only things a disconnect waits for: tasks of its connection that have been told
\* to stop, unless the timeout lets it pass, and a refresh by a running task.
TeardownWaits ==
  state = "Stopping" =>
    /\ op # NoId /\ step \in DownSteps \ {"stop"}
    /\ step = "join_tasks" =>
         JoinedOrTimedOut \/ \E t \in tasks : t[1] = handles /\ t[1] \in signalled
    /\ step = "release" =>
         refresher = NoId \/ (<<refresher, "portmap">> \in tasks /\ refresher \in signalled)
    /\ step = "finish" => req[op].kind = "start" \/ (req[op].kind = "stop" /\ req[op].who \in Clients)

\* A disconnect that has begun goes through its steps in order and nothing else moves it,
\* starts and stops that arrive meanwhile included (the manager's mutex).
THEOREM TeardownAdvances == Spec => TeardownOnlyAdvances
<1>1. IInv /\ [Next]_vars => [state = "Stopping" => TeardownMoves]_vars
  <2> SUFFICES ASSUME IInv, Next, state = "Stopping" PROVE TeardownMoves
    OBVIOUS
  <2>1. step \in DownSteps \ {"stop"} /\ op # NoId
    BY DEF IInv, ReqInv, StateInv, DownSteps
  <2>2. CASE Requests
    BY <2>1, <2>2 DEF Requests, Connect, SpawnedLocks, Stop, PollConnected, PollTimeout, Grant,
                      TeardownMoves, opVars, connVars
  <2>3. CASE DownStop \/ Connecting
    BY <2>1, <2>3 DEF DownStop, Connecting, UpBegin, UpAuthenticated, UpJoining, UpJoined, UpPortmap,
                      UpProto, UpTun, UpConnected, UpFails, At, DownSteps
  <2>4. CASE DownJoinTasks \/ DownCloseTun \/ DownClear
    BY <2>4 DEF DownJoinTasks, DownCloseTun, DownClear, At, Goto, TeardownMoves, After
  <2>5. CASE \E ok \in BOOLEAN : DownRelease(ok)
    BY <2>5 DEF DownRelease, At, Goto, TeardownMoves, After, connVars
  <2>6. CASE StartGoesOn \/ \E c \in Clients : StopAnswered(c)
    BY <2>6 DEF StartGoesOn, StopAnswered, DownFinish, At, TeardownMoves
  <2>7. CASE Background
    BY <2>7 DEF Background, DispatcherLearns, RefreshStart, RefreshEnd, TaskExits, TeardownMoves,
                opVars, connVars
  <2> QED
    BY <2>2, <2>3, <2>4, <2>5, <2>6, <2>7 DEF Next, Disconnecting
<1> QED
  BY <1>1, Inductive, PTL DEF Spec, TeardownOnlyAdvances

\* Nothing that a disconnect waits for is out of its reach: the tasks it joins were told
\* to stop, with a port mapper's lock in their hands too (disconnect, release_port_mapping).
THEOREM TeardownNeverHeldUp == Spec => []TeardownWaits
<1>1. IInv => TeardownWaits
  <2> SUFFICES ASSUME IInv, state = "Stopping" PROVE TeardownWaits
    BY DEF TeardownWaits
  <2>1. op # NoId /\ op \in Ids /\ step \in DownSteps \ {"stop"}
    BY DEF IInv, TypeOK, ReqInv, StateInv, DownSteps
  <2>2. step = "join_tasks" => JoinedOrTimedOut \/ \E t \in tasks : t[1] = handles /\ t[1] \in signalled
    <3> SUFFICES ASSUME step = "join_tasks", NEW t \in tasks, t[1] = handles PROVE t[1] \in signalled
      BY DEF JoinedOrTimedOut, TasksEnded
    <3>1. t[1] \in Ids
      BY DEF IInv, TypeOK
    <3>2. handles = tun /\ tun # NoId
      BY <3>1, HelperAssumption DEF IInv, ConnInv
    <3> QED
      BY <3>2 DEF IInv, TaskInv
  <2>3. step = "release" => refresher = NoId \/ (<<refresher, "portmap">> \in tasks /\ refresher \in signalled)
    <3> SUFFICES ASSUME step = "release", refresher # NoId
                 PROVE  <<refresher, "portmap">> \in tasks /\ refresher \in signalled
      OBVIOUS
    <3>1. <<refresher, "portmap">> \in tasks
      BY DEF IInv, TypeOK
    <3>2. <<refresher, "portmap">>[1] = tun \/ <<refresher, "portmap">>[1] \in signalled
      BY <3>1 DEF IInv, TaskInv
    <3>3. tun = NoId
      BY DEF IInv, ConnInv
    <3> QED
      BY <3>1, <3>2, <3>3
  <2>4. req[op].kind = "start" \/ (req[op].kind = "stop" /\ req[op].who \in Clients)
    <3>1. req[op] \in Request /\ req[op].kind \in {"start", "stop"}
      BY <2>1 DEF IInv, TypeOK, ReqInv
    <3> QED
      BY <3>1 DEF Request, StartArgs, StopArgs, NoReq
  <2> QED
    BY <2>1, <2>2, <2>3, <2>4 DEF TeardownWaits
<1> QED
  BY <1>1, Inductive, PTL
=============================================================================
