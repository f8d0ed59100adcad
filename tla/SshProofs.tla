------------------------------ MODULE SshProofs ------------------------------
(***************************************************************************)
(* Safety of omni-ssh, for every value of the constants.  First what lets  *)
(* a connection in: the token of an emergency access and the rate limiter. *)
(* Then the parts that serve a session: port forwarding, the SFTP server,  *)
(* the host keys and the recorder.  Last, the safety that the liveness of  *)
(* the session's events, of the policy cache's lock and of the fleet rests *)
(* on.  Each component has an inductive invariant of its own;              *)
(* ComponentSteps carries them over to the composition.                    *)
(***************************************************************************)
EXTENDS MCSsh, FiniteSetTheorems, WellFoundedInduction, TLAPS

(***************************************************************************)
(* A step of the composition is a step or a stutter of every component.    *)
(***************************************************************************)

LEMMA ComponentSteps ==
  ASSUME [SshNext]_sshVars
  PROVE  /\ [SsnNext]_ssnVars /\ [RecNext]_recVars /\ [SrvNext]_srvVars
         /\ [SftpNext]_sftpVars /\ [FwdNext]_fwdVars /\ [CliNext]_cliVars
         /\ [PolNext]_polVars /\ [EmNext]_emVars /\ [FleetNext]_fleetVars
BY DEF SshNext, sshVars

(***************************************************************************)
(* The session: its types.                                                 *)
(***************************************************************************)

PtySessions ==
  [kind: {"none", "shell", "exec"}, cmd: Cmds \cup {None}, ch: Chans \cup {None},
   proc: {"none", "busy", "waiting", "dead"}, pend: BOOLEAN, inq: Nat, outq: Nat,
   loop: {"none", "input", "read", "send", "ended"},
   io: {"none", "lock", "recv", "deliver", "status", "finish", "done"},
   lock: {"free", "handler", "io"}, exit: {"no", "sent", "taken"}]

SsnTypes ==
  /\ action \in Filters \cup {None}
  /\ chan \in [Chans -> [st: {"none", "open", "closed"}, raw: BOOLEAN,
                         size: {"default", "asked"}, pty: Ptys \cup {None}]]
  /\ hand \in [op: {"idle", "started", "lock", "room"}, of: Ptys \cup {None}]
  /\ pty \in [Ptys -> PtySessions]

\* The handler waits only for a session that exists.
HandHolds == hand.op \in {"lock", "room"} => hand.of \in Ptys

SsnInv == SsnTypes /\ HandHolds

LEMMA SsnInitInv == SsnInit => SsnInv
BY SsnConstants DEF SsnInit, SsnInv, SsnTypes, HandHolds, Idle,
   NoSession, PtySessions

\* A session that goes on.
LEMMA GoesOn ==
  ASSUME SsnInv, NEW p \in Ptys, NEW new \in PtySessions,
         pty' = [pty EXCEPT ![p] = new], UNCHANGED <<action, chan>>,
         \/ hand' = hand \/ hand' = Idle
         \/ hand.op = "lock" /\ hand' = [hand EXCEPT !.op = "room"]
  PROVE  SsnInv'
BY DEF SsnInv, SsnTypes, HandHolds, Idle

\* What the steps with a counter make of a session.
LEMMA TakesInput ==
  ASSUME NEW s \in PtySessions, s.inq > 0,
         NEW t, \/ t = [s EXCEPT !.inq = @ - 1, !.proc = "busy", !.pend = TRUE, !.loop = "read"]
                \/ t = [s EXCEPT !.inq = @ - 1, !.loop = "ended"]
  PROVE  t \in PtySessions /\ t.kind = s.kind /\ t.cmd = s.cmd
<1>1. PICK n \in Nat : n = s.inq - 1
  BY DEF PtySessions
<1>2. \/ t = [s EXCEPT !.inq = n, !.proc = "busy", !.pend = TRUE, !.loop = "read"]
      \/ t = [s EXCEPT !.inq = n, !.loop = "ended"]
  BY <1>1
<1> QED
  BY ONLY <1>2, n \in Nat, s \in PtySessions DEF PtySessions

LEMMA MovesOutput ==
  ASSUME NEW s \in PtySessions,
         NEW t, \/ t = [s EXCEPT !.outq = @ + 1, !.exit = "sent", !.loop = "ended"]
                \/ t = [s EXCEPT !.outq = @ + 1, !.loop = "input"]
                \/ s.outq > 0 /\ t = [s EXCEPT !.outq = @ - 1, !.lock = "free", !.io = "deliver"]
                \/ t = [s EXCEPT !.inq = @ + 1, !.lock = "free"]
  PROVE  t \in PtySessions /\ t.kind = s.kind /\ t.cmd = s.cmd
<1>1. PICK n \in Nat : \/ t = [s EXCEPT !.outq = n, !.exit = "sent", !.loop = "ended"]
                       \/ t = [s EXCEPT !.outq = n, !.loop = "input"]
                       \/ t = [s EXCEPT !.outq = n, !.lock = "free", !.io = "deliver"]
                       \/ t = [s EXCEPT !.inq = n, !.lock = "free"]
  <2>1. s.outq + 1 \in Nat /\ s.inq + 1 \in Nat /\ (s.outq > 0 => s.outq - 1 \in Nat)
    BY DEF PtySessions
  <2> QED
    BY <2>1
<1>2. CASE t = [s EXCEPT !.outq = n, !.exit = "sent", !.loop = "ended"]
  <2> DEFINE u == [s EXCEPT !.outq = n]
             v == [u EXCEPT !.exit = "sent"]
  <2>1. u \in PtySessions /\ u.kind = s.kind /\ u.cmd = s.cmd
    BY DEF PtySessions
  <2>2. t = [v EXCEPT !.loop = "ended"]
    BY <1>2
  <2> HIDE DEF u
  <2>3. v \in PtySessions /\ v.kind = s.kind /\ v.cmd = s.cmd
    BY <2>1 DEF PtySessions
  <2> HIDE DEF v
  <2> QED
    BY <2>2, <2>3 DEF PtySessions
<1>3. CASE t = [s EXCEPT !.outq = n, !.loop = "input"]
  BY <1>3 DEF PtySessions
<1>4. CASE t = [s EXCEPT !.outq = n, !.lock = "free", !.io = "deliver"]
  BY <1>4 DEF PtySessions
<1>5. CASE t = [s EXCEPT !.inq = n, !.lock = "free"]
  BY <1>5 DEF PtySessions
<1> QED
  BY <1>1, <1>2, <1>3, <1>4, <1>5

LEMMA Finishing ==
  ASSUME NEW s \in PtySessions
  PROVE  LET t == [s EXCEPT !.lock = "free", !.io = "finish"]
         IN  t \in PtySessions /\ t.kind = s.kind /\ t.cmd = s.cmd
<1> DEFINE u == [s EXCEPT !.lock = "free"]
           t == [u EXCEPT !.io = "finish"]
<1>1. u \in PtySessions /\ u.kind = s.kind /\ u.cmd = s.cmd
  BY DEF PtySessions
<1> HIDE DEF u
<1>2. t \in PtySessions /\ t.kind = u.kind /\ t.cmd = u.cmd
  BY <1>1 DEF PtySessions
<1>3. t = [s EXCEPT !.lock = "free", !.io = "finish"]
  BY DEF u
<1> QED
  BY <1>1, <1>2, <1>3

LEMMA LoopKeeps ==
  ASSUME SsnInv, NEW p \in Ptys, LoopStep(p)
  PROVE  SsnInv'
<1> DEFINE s == pty[p]
<1>0. s \in PtySessions
  BY DEF SsnInv, SsnTypes
<1>1. ASSUME NEW new, Advance(p, new), new \in PtySessions, new.kind = s.kind, new.cmd = s.cmd
      PROVE  SsnInv'
  BY <1>1, GoesOn DEF Advance
<1>2. [s EXCEPT !.loop = "read"] \in PtySessions /\ [s EXCEPT !.loop = "ended"] \in PtySessions
      /\ [s EXCEPT !.pend = FALSE, !.loop = "send"] \in PtySessions
  BY <1>0 DEF PtySessions
<1>3. /\ [s EXCEPT !.loop = "read"].kind = s.kind /\ [s EXCEPT !.loop = "read"].cmd = s.cmd
      /\ [s EXCEPT !.loop = "ended"].kind = s.kind /\ [s EXCEPT !.loop = "ended"].cmd = s.cmd
      /\ [s EXCEPT !.pend = FALSE, !.loop = "send"].kind = s.kind
      /\ [s EXCEPT !.pend = FALSE, !.loop = "send"].cmd = s.cmd
  BY <1>0 DEF PtySessions
<1>4. CASE LoopInput(p)
  <2>1. CASE s.inq > 0 /\ s.proc # "dead"
    BY <1>0, <1>1, <1>4, <2>1, TakesInput DEF LoopInput
  <2>2. CASE s.inq > 0 /\ ~(s.proc # "dead")
    BY <1>0, <1>1, <1>4, <2>2, TakesInput DEF LoopInput
  <2>3. CASE ~(s.inq > 0)
    BY <1>1, <1>2, <1>3, <1>4, <2>3 DEF LoopInput
  <2> QED
    BY <2>1, <2>2, <2>3
<1>5. CASE LoopRead(p)
  BY <1>1, <1>2, <1>3, <1>5 DEF LoopRead
<1>6. CASE LoopSend(p)
  <2>1. CASE Advance(p, [s EXCEPT !.loop = "ended"])
    BY <1>1, <1>2, <1>3, <2>1
  <2>2. CASE Advance(p, [s EXCEPT !.outq = @ + 1, !.exit = "sent", !.loop = "ended"])
    BY <1>0, <1>1, <2>2, MovesOutput
  <2>3. CASE Advance(p, [s EXCEPT !.outq = @ + 1, !.loop = "input"])
    BY <1>0, <1>1, <2>3, MovesOutput
  <2> QED
    BY <1>6, <2>1, <2>2, <2>3 DEF LoopSend
<1> QED
  BY <1>4, <1>5, <1>6 DEF LoopStep

LEMMA IoKeeps ==
  ASSUME SsnInv, NEW p \in Ptys, IoStep(p) \/ Prints(p) \/ Waits(p) \/ Exits(p)
  PROVE  SsnInv'
<1> pty[p] \in PtySessions
  BY DEF SsnInv, SsnTypes
<1>1. ASSUME NEW new, Advance(p, new), new \in PtySessions, new.kind = pty[p].kind,
             new.cmd = pty[p].cmd
      PROVE  SsnInv'
  BY <1>1, GoesOn DEF Advance
<1>a. ASSUME NEW new, pty' = [pty EXCEPT ![p] = new], UNCHANGED <<action, chan, hand>>,
             new \in PtySessions, new.kind = pty[p].kind, new.cmd = pty[p].cmd
      PROVE  SsnInv'
  BY <1>a, GoesOn
<1>3. CASE IoReceives(p)
  <2>1. CASE /\ pty[p].outq > 0
             /\ Advance(p, [pty[p] EXCEPT !.outq = @ - 1, !.lock = "free", !.io = "deliver"])
    <3> DEFINE new == [pty[p] EXCEPT !.outq = @ - 1, !.lock = "free", !.io = "deliver"]
    <3>1. new \in PtySessions /\ new.kind = pty[p].kind /\ new.cmd = pty[p].cmd
      BY <2>1, MovesOutput
    <3>2. Advance(p, new)
      BY <2>1
    <3> HIDE DEF new
    <3> QED
      BY <1>1, <3>1, <3>2
  <2>2. CASE Advance(p, [pty[p] EXCEPT !.lock = "free", !.io = "finish"])
    BY <1>1, <2>2, Finishing
  <2> QED
    BY <1>3, <2>1, <2>2 DEF IoReceives
<1> USE DEF PtySessions
<1>2. CASE IoLocks(p)
  BY <1>1, <1>2 DEF IoLocks
<1>4. CASE IoDelivers(p)
  BY <1>1, <1>4 DEF IoDelivers
<1>5. CASE IoStatus(p)
  BY <1>1, <1>5 DEF IoStatus
<1>6. CASE IoFinishes(p)
  BY <1>a, <1>6 DEF IoFinishes
<1>7. CASE Prints(p) \/ Waits(p) \/ Exits(p)
  BY <1>1, <1>7 DEF Prints, Waits, Exits
<1> QED
  BY <1>2, <1>3, <1>4, <1>5, <1>6, <1>7 DEF IoStep

LEMMA HandlerKeeps ==
  ASSUME SsnInv, HandlerStep
  PROVE  SsnInv'
<1>1. CASE HandlerStarted
  BY <1>1 DEF HandlerStarted, Idle, SsnInv, SsnTypes, HandHolds
<1>2. CASE HandlerLocks
  <2>1. hand.of \in Ptys /\ pty[hand.of] \in PtySessions /\ hand.op = "lock"
    BY <1>2 DEF HandlerLocks, SsnInv, SsnTypes, HandHolds
  <2>2. [pty[hand.of] EXCEPT !.lock = "handler"] \in PtySessions
    BY <2>1 DEF PtySessions
  <2> QED
    BY <1>2, <2>1, <2>2, GoesOn DEF HandlerLocks, PtySessions
<1>3. CASE HandlerSends
  <2>1. hand.of \in Ptys /\ pty[hand.of] \in PtySessions
    BY <1>3 DEF HandlerSends, SsnInv, SsnTypes, HandHolds
  <2> DEFINE p == hand.of
  <2>2. PICK new \in PtySessions :
          /\ pty' = [pty EXCEPT ![p] = new]
          /\ new.kind = pty[p].kind /\ new.cmd = pty[p].cmd
    <3>1. CASE pty[p].loop # "ended"
      <4>1. pty' = [pty EXCEPT ![p] = [pty[p] EXCEPT !.inq = @ + 1, !.lock = "free"]]
        BY <1>3, <2>1, <3>1 DEF HandlerSends, SsnInv, SsnTypes, PtySessions
      <4> QED
        BY <4>1, <2>1, MovesOutput
    <3>2. CASE pty[p].loop = "ended"
      BY <1>3, <2>1, <3>2 DEF HandlerSends, PtySessions
    <3> QED
      BY <3>1, <3>2
  <2> QED
    BY <1>3, <2>1, <2>2, GoesOn DEF HandlerSends
<1> QED
  BY <1>1, <1>2, <1>3 DEF HandlerStep

LEMMA StartsSession ==
  ASSUME SsnInv, NEW k \in Chans, NEW p \in Ptys, NEW kind \in {"shell", "exec"},
         NEW cmd \in Cmds \cup {None}, StartSession(k, p, kind, cmd)
  PROVE  SsnInv'
<1> DEFINE n == [NoSession EXCEPT !.kind = kind, !.cmd = cmd, !.ch = k, !.proc = "busy",
                                  !.inq = IF kind = "exec" THEN 1 ELSE 0,
                                  !.loop = "input", !.io = "lock"]
<1>1. n \in PtySessions
  BY DEF NoSession, PtySessions
<1>2. pty' = [pty EXCEPT ![p] = n]
  BY DEF StartSession
<1> HIDE DEF n
<1>3. pty' \in [Ptys -> PtySessions]
  BY <1>1, <1>2 DEF SsnInv, SsnTypes
<1> QED
  BY <1>3 DEF SsnInv, SsnTypes, HandHolds, StartSession

LEMMA RequestsKeep ==
  ASSUME SsnInv, Requests
  PROVE  SsnInv'
<1> USE DEF SsnInv, SsnTypes, HandHolds
<1>1. CASE AuthNone
  BY <1>1 DEF AuthNone
<1>2. CASE DropHandler
  BY <1>2 DEF DropHandler
<1>3. ASSUME NEW k \in Chans,
             ChannelOpenSession(k) \/ PtyRequest(k) \/ SubsystemRequest(k) \/ ChannelClose(k)
      PROVE  SsnInv'
  <2>1. CASE ChannelOpenSession(k)
    BY <2>1 DEF ChannelOpenSession, Ready
  <2>2. CASE PtyRequest(k)
    BY <2>2 DEF PtyRequest, Open
  <2>3. CASE SubsystemRequest(k)
    BY <2>3 DEF SubsystemRequest, Open
  <2>4. CASE ChannelClose(k)
    BY <2>4 DEF ChannelClose
  <2> QED
    BY <1>3, <2>1, <2>2, <2>3, <2>4
<1>4. ASSUME NEW k \in Chans, Data(k) PROVE SsnInv'
  BY <1>4 DEF Data
<1>5. ASSUME NEW k \in Chans, NEW p \in Ptys, ShellRequest(k, p) PROVE SsnInv'
  BY <1>5, StartsSession DEF ShellRequest
<1>6. ASSUME NEW k \in Chans, NEW p \in Ptys, NEW cmd \in Cmds, ExecRequest(k, p, cmd)
      PROVE  SsnInv'
  BY <1>6, StartsSession DEF ExecRequest
<1> QED
  BY <1>1, <1>2, <1>3, <1>4, <1>5, <1>6 DEF Requests

LEMMA SsnNextInv == SsnInv /\ [SsnNext]_ssnVars => SsnInv'
<1> SUFFICES ASSUME SsnInv, [SsnNext]_ssnVars PROVE SsnInv'
  OBVIOUS
<1>1. ASSUME NEW k \in Chans, SftpEnds(k) PROVE SsnInv'
  BY <1>1 DEF SftpEnds, SsnInv, SsnTypes, HandHolds
<1>2. CASE UNCHANGED ssnVars
  BY <1>2 DEF ssnVars, SsnInv, SsnTypes, HandHolds
<1> QED
  BY <1>1, <1>2, LoopKeeps, IoKeeps, HandlerKeeps, RequestsKeep DEF SsnNext

(***************************************************************************)
(* The server: its connections.                                            *)
(***************************************************************************)

Phases == {"none", "accepted", "refused", "handshake", "open", "closed"}

Connections ==
  [phase: Phases, src: Ips \cup {Never}, valid: BOOLEAN]

SrvTypes ==
  /\ clock \in Nat
  /\ policy \in Seq(Rules)
  /\ conn \in [SshConns -> Connections]

\* A connection is asked for its identity only once it has a source address.
HasSource == \A c \in SshConns : conn[c].phase \notin {"none", "refused", "closed"} => conn[c].src \in Ips

SrvInv == SrvTypes /\ HasSource

LEMMA SrvInitInv == SrvInit => SrvInv
<1> SUFFICES ASSUME SrvInit PROVE SrvInv
  OBVIOUS
<1>1. PICK r \in Rules : policy = <<r>>
  BY DEF SrvInit
<1>2. policy \in Seq(Rules)
  BY <1>1
<1> QED
  BY <1>2 DEF SrvInit, SrvInv, SrvTypes, Connections, HasSource, Phases

\* A set of naturals has a least element.
LEMMA LeastNatural ==
  ASSUME NEW T \in SUBSET Nat, T # {}
  PROVE  \E m \in T : \A i \in T : m <= i
<1> DEFINE Less == OpToRel(<, Nat)
<1>1. IsWellFoundedOn(Less, Nat)
  BY NatLessThanWellFounded, Zenon
<1>2. \A x, y \in Nat : y < x => <<y, x>> \in Less
  BY DEF OpToRel
<1> HIDE DEF Less
<1>3. PICK x \in T : \A y \in T : ~ (<<y, x>> \in Less)
  BY <1>1, WFMin
<1>4. ASSUME NEW i \in T PROVE x <= i
  <2>1. ~(i < x)
    BY <1>2, <1>3
  <2> QED
    BY <2>1
<1> QED
  BY <1>4

LEMMA AuthNoneKeeps ==
  ASSUME SrvInv, NEW c \in SshConns, AuthNoneSrv(c)
  PROVE  SrvInv'
<1>1. conn[c].src \in Ips /\ conn[c].phase = "handshake" /\ UNCHANGED <<clock, policy>>
  BY DEF AuthNoneSrv, SrvInv, HasSource
<1>2. PICK ph \in {"open", "closed", "handshake"} : conn' = [conn EXCEPT ![c].phase = ph]
  BY <1>1 DEF AuthNoneSrv
<1> QED
  BY <1>1, <1>2 DEF SrvInv, SrvTypes, Connections, HasSource, Phases

LEMMA SrvNextInv == SrvInv /\ [SrvNext]_srvVars => SrvInv'
<1> SUFFICES ASSUME SrvInv, [SrvNext]_srvVars PROVE SrvInv'
  OBVIOUS
<1> USE DEF SrvInv, SrvTypes, Connections, HasSource, Phases
<1>1. CASE Tick
  BY <1>1 DEF Tick
<1>2. CASE Cleanup
  BY <1>2 DEF Cleanup
<1>3. CASE Shutdown
  <2>0. ASSUME NEW c \in SshConns
        PROVE  conn[c] \in Connections /\ [conn[c] EXCEPT !.valid = FALSE] \in Connections
    OBVIOUS
  <2>1. SrvTypes'
    BY <1>3, <2>0 DEF Shutdown
  <2>2. \A c \in SshConns : /\ conn'[c].phase = conn[c].phase
                            /\ conn'[c].src = conn[c].src
    BY <1>3 DEF Shutdown
  <2> QED
    BY <2>1, <2>2
<1>4. CASE ChangePolicy
  <2>1. PICK r \in Rules : policy' = <<r>> \o policy
    BY <1>4 DEF ChangePolicy
  <2>2. policy' \in Seq(Rules)
    BY <2>1
  <2> QED
    BY <1>4, <2>2 DEF ChangePolicy
<1>5. ASSUME NEW a \in Ips,
             RecordFailedAuth(a) \/ RecordSuccessfulAuth(a) \/ BanIp(a) \/ UnbanIp(a)
      PROVE  SrvInv'
  BY <1>5 DEF RecordFailedAuth, RecordSuccessfulAuth, BanIp, UnbanIp
<1>6. ASSUME NEW c \in SshConns, HandleConnection(c) PROVE SrvInv'
  <2>1. PICK ph \in {"handshake", "refused"} : conn' = [conn EXCEPT ![c].phase = ph]
    BY <1>6 DEF HandleConnection
  <2> QED
    BY <1>6, <2>1 DEF HandleConnection
<1>7. ASSUME NEW c \in SshConns, HandshakeTimeout(c) \/ CloseConn(c) PROVE SrvInv'
  <2>1. PICK ph \in {"closed", "refused"} : conn' = [conn EXCEPT ![c].phase = ph]
    BY <1>7 DEF HandshakeTimeout, CloseConn
  <2>2. UNCHANGED <<clock, policy>>
    BY <1>7 DEF HandshakeTimeout, CloseConn
  <2> QED
    BY <2>1, <2>2
<1>8. ASSUME NEW c \in SshConns, NEW a \in Ips, Accept(c, a) PROVE SrvInv'
  BY <1>8 DEF Accept
<1>9. CASE UNCHANGED srvVars
  BY <1>9 DEF srvVars
<1> QED
  BY <1>1, <1>2, <1>3, <1>4, <1>5, <1>6, <1>7, <1>8, <1>9, AuthNoneKeeps DEF SrvNext

(***************************************************************************)
(* The token of an emergency access.                                       *)
(***************************************************************************)

Times == Nat \cup {NoTime}

Granted == {"approved", "expired", "revoked"}

EmTypes ==
  /\ eclock \in Nat
  /\ api \in [status: Statuses, until: Times, revokedAt: Times]
  /\ cached \in Times /\ accepted \in Times
  /\ caller \in [Callers -> [at: {"idle", "asking", "auditing", "polling"}, since: Times,
                             answer: Statuses \cup {NoTime}]]

\* What the API keeps of a request.
ApiInv ==
  /\ api.status # "none" => api.until # NoTime
  /\ api.revokedAt # NoTime <=> api.status = "revoked"
  /\ api.revokedAt # NoTime => api.revokedAt <= eclock

\* A call of a validation is under way for one timeout at most.
CallsInv ==
  \A c \in Callers :
    /\ caller[c].at \in {"asking", "auditing"} =>
         /\ caller[c].since # NoTime
         /\ caller[c].since <= eclock /\ eclock <= caller[c].since + Flight
    /\ caller[c].at = "polling" => caller[c].since # NoTime /\ caller[c].since <= eclock

\* An answer that approves was right when the call was made; by the time it is
\* audited, that is one timeout ago.
AnswersInv ==
  \A c \in Callers : caller[c].answer = "approved" =>
    /\ caller[c].at # "idle" /\ api.status \in Granted
    /\ caller[c].at # "auditing" =>
         /\ caller[c].since < api.until
         /\ api.revokedAt # NoTime => caller[c].since <= api.revokedAt
    /\ caller[c].at = "auditing" =>
         /\ caller[c].since < api.until + Flight
         /\ api.revokedAt # NoTime => caller[c].since <= api.revokedAt + Flight

\* The cache is at most one timeout behind the revocation.
CacheInv ==
  cached # NoTime =>
    /\ cached <= eclock /\ api.status \in Granted
    /\ api.revokedAt # NoTime => cached <= api.revokedAt + Flight

AcceptInv ==
  accepted # NoTime => accepted <= eclock /\ api.status \in Granted

EmInv ==
  /\ EmTypes /\ ApiInv /\ CallsInv /\ AnswersInv /\ CacheInv /\ AcceptInv
  /\ RevokedSoonRefused /\ ExpiredSoonRefused

LEMMA EmInitInv == EmInit => EmInv
BY EmConstants DEF EmInit, EmInv, EmTypes, ApiInv, CallsInv, AnswersInv, CacheInv, AcceptInv, RevokedSoonRefused,
   ExpiredSoonRefused, Times, Granted, IdleCaller, Statuses

LEMMA EmNextInv ==
  ASSUME EmInv, [EmNext]_emVars
  PROVE  EmInv'
<1> USE EmConstants DEF EmInv, EmTypes, ApiInv, CallsInv, AnswersInv, CacheInv, AcceptInv, RevokedSoonRefused,
        ExpiredSoonRefused, Times, Granted, Statuses, GrantValid
<1>1. ASSUME NEW d \in {1, MaxDuration, MaxDuration + 1}, NEW reason \in BOOLEAN,
             NEW mfa \in BOOLEAN, RequestAccess(d, reason, mfa)
      PROVE  EmInv'
  <2>1. d \in Nat /\ api.status = "none" /\ api' = [api EXCEPT !.status = "pending", !.until = d]
        /\ UNCHANGED <<eclock, cached, caller, accepted>>
    BY <1>1 DEF RequestAccess
  <2>2. /\ api' \in [status: Statuses, until: Times, revokedAt: Times]
        /\ api'.status = "pending" /\ api'.until = d /\ api'.revokedAt = api.revokedAt
    BY <2>1
  <2> QED
    BY <2>1, <2>2
<1>2. ASSUME NEW s \in {"approved", "denied", "timed_out", "expired"}, ApiDecides(s)
      PROVE  EmInv'
  <2>1. PICK u \in Nat : /\ api' = [api EXCEPT !.status = s, !.until = u]
                         /\ s = "approved" \/ u = api.until
    <3>1. api.until \in Nat /\ eclock + api.until \in Nat
      BY <1>2 DEF ApiDecides
    <3>2. CASE s = "approved"
      BY <1>2, <3>1, <3>2 DEF ApiDecides
    <3>3. CASE s # "approved"
      BY <1>2, <3>1, <3>3 DEF ApiDecides
    <3> QED
      BY <3>2, <3>3
  <2>2. /\ api' \in [status: Statuses, until: Times, revokedAt: Times]
        /\ api'.status = s /\ api'.until = u /\ api'.revokedAt = api.revokedAt
    BY <2>1
  <2>3. CASE api.status = "pending"
    BY <1>2, <2>2, <2>3 DEF ApiDecides
  <2>4. CASE api.status = "approved" /\ s = "expired"
    BY <1>2, <2>1, <2>2, <2>4 DEF ApiDecides
  <2> QED
    BY <1>2, <2>3, <2>4 DEF ApiDecides
<1>3. ASSUME api.status = "approved", api' = [api EXCEPT !.status = "revoked", !.revokedAt = eclock],
             cached' = cached \/ cached' = NoTime, UNCHANGED <<eclock, caller, accepted>>
      PROVE  EmInv'
  <2>1. /\ api' \in [status: Statuses, until: Times, revokedAt: Times]
        /\ api'.status = "revoked" /\ api'.until = api.until /\ api'.revokedAt = eclock
    BY <1>3
  <2>2. api.revokedAt = NoTime /\ api.until \in Nat
    BY <1>3
  <2>3. EmTypes' /\ ApiInv' /\ AcceptInv' /\ ExpiredSoonRefused'
    BY <1>3, <2>1, <2>2
  <2>4. CallsInv' /\ AnswersInv'
    BY <1>3, <2>1, <2>2
  <2>5. CacheInv'
    BY <1>3, <2>1, <2>2
  <2>6. RevokedSoonRefused'
    BY <1>3, <2>1, <2>2
  <2> QED
    BY <2>3, <2>4, <2>5, <2>6
<1>4. CASE ApiRevokes \/ RevokeAccess
  BY <1>3, <1>4 DEF ApiRevokes, RevokeAccess, RevokeLocal
<1>5. CASE CleanupExpired
  BY <1>5 DEF CleanupExpired
<1>6. CASE EmTick
  BY <1>6 DEF EmTick
<1>7. ASSUME NEW c \in Callers, ApiAnswers(c) PROVE EmInv'
  BY <1>7 DEF ApiAnswers
<1>8. ASSUME NEW c \in Callers, CacheHit(c) PROVE EmInv'
  BY <1>8 DEF CacheHit
<1>9. ASSUME NEW c \in Callers, AskApi(c) PROVE EmInv'
  BY <1>9 DEF AskApi
<1>10. ASSUME NEW c \in Callers, TokenAnswer(c) PROVE EmInv'
  BY <1>10 DEF TokenAnswer, IdleCaller
<1>14. ASSUME NEW c \in Callers, AuditEnds(c) PROVE EmInv'
  BY <1>14 DEF AuditEnds, IdleCaller
<1>11. ASSUME NEW c \in Callers, StartWait(c) PROVE EmInv'
  BY <1>11 DEF StartWait
<1>12. ASSUME NEW c \in Callers, PollAnswer(c) PROVE EmInv'
  BY <1>12 DEF PollAnswer, IdleCaller
<1>13. CASE UNCHANGED emVars
  BY <1>13 DEF emVars
<1> QED
  BY <1>1, <1>2, <1>4, <1>5, <1>6, <1>7, <1>8, <1>9, <1>10, <1>11, <1>12, <1>13, <1>14
  DEF EmNext

\* An emergency access ends, for any callers, times to live, timeouts and durations:
\* a revoked token passes for less than the cache's time and one HTTP timeout, or
\* for the two timeouts of a validation, and an expired one for less than two
\* timeouts, whatever overtakes what (validate_token).
THEOREM EmergencyAlwaysEnds == SshSpec => []EmergencyEnds
<1>1. SshInit => EmInv
  BY EmInitInv DEF SshInit
<1>2. EmInv /\ [SshNext]_sshVars => EmInv'
  BY ComponentSteps, EmNextInv
<1>3. EmInv => EmergencyEnds
  BY DEF EmInv, EmergencyEnds
<1> QED
  BY <1>1, <1>2, <1>3, PTL DEF SshSpec

(***************************************************************************)
(* The rate limiter.                                                       *)
(***************************************************************************)

LEMMA LimiterSpans ==
  /\ PerIp \in Nat /\ Minute \in Nat /\ TwoMinutes \in Nat /\ Hour \in Nat
  /\ MaxFailedAuth \in Nat /\ Minute < TwoMinutes
BY SrvConstants

Windows == [n: Nat, start: Nat]

\* The times A at which connections of one address were allowed, and the window
\* w of its count.  Two windows on, more than a minute has passed: what lies
\* before the window came no later than its start, and what lies a whole window
\* before it came more than a minute earlier.
WindowInv(A, w, now) ==
  /\ A \in Seq(Nat) /\ now \in Nat
  /\ \A i, j \in 1..Len(A) : i <= j => A[i] <= A[j]
  /\ \A i \in 1..Len(A) : A[i] <= now
  /\ \A i \in 1..Len(A) : i + 2 * PerIp <= Len(A) => A[i] + Minute < A[i + 2 * PerIp]
  /\ w = Never => \A i \in 1..Len(A) : i + PerIp <= Len(A) => A[i] + Minute < now
  /\ w # Never =>
       /\ w \in Windows /\ w.n <= PerIp /\ w.start <= now
       /\ \A i \in 1..Len(A) : i + w.n <= Len(A) => A[i] <= w.start
       /\ \A i \in 1..Len(A) : i + w.n + PerIp <= Len(A) => A[i] + Minute < w.start

LEMMA WindowOpens ==
  ASSUME NEW A, NEW w, NEW now, WindowInv(A, w, now), w = Never \/ now - w.start > Minute
  PROVE  WindowInv(A, [n |-> 0, start |-> now], now)
<1> DEFINE v == [n |-> 0, start |-> now]
<1>1. v \in Windows /\ v # Never /\ v.n = 0 /\ v.start = now
  BY SrvConstants DEF WindowInv, Windows
<1> HIDE DEF v
<1>2. Len(A) \in Nat /\ now \in Nat /\ (w # Never => w.n \in Nat /\ w.start \in Nat)
      /\ \A i \in 1..Len(A) : A[i] \in Nat
  BY DEF WindowInv, Windows
<1>3. ASSUME NEW i \in 1..Len(A), i + PerIp <= Len(A) PROVE A[i] + Minute < now
  <2>1. CASE w = Never
    BY <1>3, <2>1 DEF WindowInv
  <2>2. CASE w # Never
    <3>0. w.n <= PerIp
      BY <2>2 DEF WindowInv
    <3>1. i + w.n <= Len(A)
      BY <1>2, <1>3, <2>2, <3>0, LimiterSpans
    <3>2. A[i] <= w.start
      BY <2>2, <3>1 DEF WindowInv
    <3> QED
      BY <1>2, <2>2, <3>2, LimiterSpans
  <2> QED
    BY <2>1, <2>2
<1>4. \A i \in 1..Len(A) : i + v.n + PerIp <= Len(A) => A[i] + Minute < v.start
  BY <1>1, <1>2, <1>3, LimiterSpans
<1>5. WindowInv(A, v, now)
  BY <1>1, <1>2, <1>4, LimiterSpans DEF WindowInv
<1> QED
  BY <1>5 DEF v

LEMMA WindowCounts ==
  ASSUME NEW A, NEW w, NEW now, WindowInv(A, w, now), w # Never, w.n < PerIp
  PROVE  WindowInv(Append(A, now), [w EXCEPT !.n = @ + 1], now)
<1>1. A \in Seq(Nat) /\ now \in Nat /\ w \in Windows /\ w.n \in Nat /\ w.start \in Nat
      /\ Len(A) \in Nat /\ w.start <= now
  BY DEF WindowInv, Windows
<1>2. PICK k \in Nat : k = w.n + 1
  BY <1>1
<1> DEFINE v == [w EXCEPT !.n = k]
           B == Append(A, now)
<1>3. v \in Windows /\ v # Never /\ v.n = w.n + 1 /\ v.start = w.start
  BY <1>1, <1>2, SrvConstants DEF Windows
<1>4. /\ B \in Seq(Nat) /\ Len(B) = Len(A) + 1 /\ B[Len(A) + 1] = now
      /\ \A i \in 1..Len(A) : B[i] = A[i] /\ A[i] \in Nat
  BY <1>1
<1> HIDE DEF v, B
<1>5. \A i, j \in 1..Len(B) : i <= j => B[i] <= B[j]
  <2>1. \A i, j \in 1..Len(A) : i <= j => A[i] <= A[j]
    BY DEF WindowInv
  <2>2. \A i \in 1..Len(A) : A[i] <= now
    BY DEF WindowInv
  <2>3. ASSUME NEW i \in 1..Len(B), NEW j \in 1..Len(B), i <= j PROVE B[i] <= B[j]
    <3>1. CASE j \in 1..Len(A)
      <4>1. i \in 1..Len(A)
        BY <1>1, <2>3, <3>1
      <4> QED
        BY <1>4, <2>1, <2>3, <3>1, <4>1
    <3>2. CASE j = Len(A) + 1
      <4>1. B[j] = now
        BY <1>4, <3>2
      <4>2. CASE i \in 1..Len(A)
        BY <1>4, <2>2, <4>1, <4>2
      <4>3. CASE i = Len(A) + 1
        BY <1>1, <1>4, <4>1, <4>3
      <4> QED
        BY <1>1, <1>4, <4>2, <4>3
    <3> QED
      BY <1>1, <1>4, <3>1, <3>2
  <2> QED
    BY <2>3
<1>6. \A i \in 1..Len(B) : B[i] <= now
  BY <1>1, <1>4 DEF WindowInv
<1>7. ASSUME NEW i \in 1..Len(B), i + 2 * PerIp <= Len(B) PROVE B[i] + Minute < B[i + 2 * PerIp]
  <2>p. PerIp \in Nat /\ PerIp > 0
    BY <1>1, LimiterSpans
  <2>i. i \in 1..Len(A)
    BY <1>1, <1>4, <1>7, <2>p
  <2>0. i \in 1..Len(A) /\ PerIp \in Nat /\ PerIp > 0 /\ B[i] = A[i] /\ A[i] \in Nat
    BY <1>4, <2>i, <2>p
  <2>1. CASE i + 2 * PerIp <= Len(A)
    <3>1. i + 2 * PerIp \in 1..Len(A)
      BY <1>1, <2>0, <2>1
    <3> QED
      BY <1>4, <2>0, <2>1, <3>1 DEF WindowInv
  <2>2. CASE i + 2 * PerIp = Len(A) + 1
    <3>1. i + w.n + PerIp <= Len(A)
      BY <1>1, <2>0, <2>2
    <3>2. A[i] + Minute < w.start
      BY <2>0, <3>1 DEF WindowInv
    <3>3. B[i + 2 * PerIp] = now
      BY <1>4, <2>2
    <3> QED
      BY <1>1, <2>0, <3>2, <3>3, LimiterSpans
  <2>3. i + 2 * PerIp <= Len(A) \/ i + 2 * PerIp = Len(A) + 1
    <3>1. i + 2 * PerIp <= Len(A) + 1 /\ i + 2 * PerIp \in Nat
      BY <1>4, <1>7, <2>0
    <3> QED
      BY ONLY <1>1, <3>1
  <2> QED
    BY <2>1, <2>2, <2>3
<1>8. \A i \in 1..Len(B) : i + v.n <= Len(B) => B[i] <= v.start
  <2>1. \A i \in 1..Len(B) : i + v.n <= Len(B) => i \in 1..Len(A) /\ i + w.n <= Len(A)
    <3> SUFFICES ASSUME NEW i \in 1..Len(B), i + v.n <= Len(B)
                 PROVE  i \in 1..Len(A) /\ i + w.n <= Len(A)
      OBVIOUS
    <3>1. i + (w.n + 1) <= Len(A) + 1 /\ i \in 1..(Len(A) + 1)
      BY <1>3, <1>4
    <3> QED
      BY ONLY <1>1, <3>1
  <2> QED
    BY <1>3, <1>4, <2>1 DEF WindowInv
<1>9. \A i \in 1..Len(B) : i + v.n + PerIp <= Len(B) => B[i] + Minute < v.start
  <2>1. \A i \in 1..Len(B) : i + v.n + PerIp <= Len(B) => i \in 1..Len(A) /\ i + w.n + PerIp <= Len(A)
    <3> SUFFICES ASSUME NEW i \in 1..Len(B), i + v.n + PerIp <= Len(B)
                 PROVE  i \in 1..Len(A) /\ i + w.n + PerIp <= Len(A)
      OBVIOUS
    <3>1. i + (w.n + 1) + PerIp <= Len(A) + 1 /\ i \in 1..(Len(A) + 1)
      BY <1>3, <1>4
    <3> QED
      BY ONLY <1>1, <3>1, LimiterSpans
  <2> QED
    BY <1>3, <1>4, <2>1 DEF WindowInv
<1>10. v.n <= PerIp
  BY <1>1, <1>3, LimiterSpans
<1>11. WindowInv(B, v, now)
  BY <1>1, <1>3, <1>4, <1>5, <1>6, <1>7, <1>8, <1>9, <1>10 DEF WindowInv
<1> QED
  BY <1>2, <1>11 DEF v, B

LEMMA WindowAges ==
  ASSUME NEW A, NEW w, NEW now, WindowInv(A, w, now), NEW later \in Nat, now <= later
  PROVE  WindowInv(A, w, later)
<1>1. /\ now \in Nat /\ \A i \in 1..Len(A) : A[i] \in Nat
      /\ w # Never => w.n \in Nat /\ w.start \in Nat
  BY DEF WindowInv, Windows
<1>2. /\ \A i \in 1..Len(A) : A[i] <= later
      /\ w # Never => w.start <= later
  BY <1>1 DEF WindowInv
<1>3. w = Never => \A i \in 1..Len(A) : i + PerIp <= Len(A) => A[i] + Minute < later
  BY <1>1, LimiterSpans DEF WindowInv
<1> QED
  BY <1>2, <1>3 DEF WindowInv

LEMMA WindowDrops ==
  ASSUME NEW A, NEW w, NEW now, WindowInv(A, w, now),
         w # Never, ~(now - w.start < TwoMinutes)
  PROVE  WindowInv(A, Never, now)
<1>1. /\ A \in Seq(Nat) /\ Len(A) \in Nat /\ now \in Nat /\ \A i \in 1..Len(A) : A[i] \in Nat
      /\ w.n \in Nat /\ w.start \in Nat
  BY DEF WindowInv, Windows
<1>2. ASSUME NEW i \in 1..Len(A), i + PerIp <= Len(A) PROVE A[i] + Minute < now
  <2>1. i + w.n <= Len(A)
    BY <1>1, <1>2, LimiterSpans DEF WindowInv
  <2>2. A[i] <= w.start
    BY <2>1 DEF WindowInv
  <2> QED
    BY <1>1, <2>2, LimiterSpans
<1> QED
  BY <1>2 DEF WindowInv

\* Within a minute there are at most twice the limit.
LEMMA WindowBounds ==
  ASSUME NEW A, NEW w, NEW now, WindowInv(A, w, now), NEW t \in Nat
  PROVE  Cardinality({i \in DOMAIN A : A[i] \in t..(t + Minute)}) <= 2 * PerIp
<1> DEFINE In == {i \in DOMAIN A : A[i] \in t..(t + Minute)}
<1>0. A \in Seq(Nat) /\ DOMAIN A = 1..Len(A) /\ Len(A) \in Nat /\ PerIp \in Nat /\ Minute \in Nat
      /\ \A i \in 1..Len(A) : A[i] \in Nat
  BY LimiterSpans DEF WindowInv
<1>1. CASE In = {}
  <2> HIDE DEF In
  <2>1. Cardinality(In) = 0
    BY <1>1, FS_EmptySet, Zenon
  <2> QED
    BY <1>0, <2>1 DEF In
<1>2. CASE In # {}
  <2>1. In \in SUBSET Nat
    BY <1>0
  <2>2. PICK m \in In : \A i \in In : m <= i
    BY <1>2, <2>1, LeastNatural
  <2>3. ASSUME NEW i \in In PROVE i \in m..(m + 2 * PerIp - 1)
    <3>1. i \in 1..Len(A) /\ m \in 1..Len(A) /\ m <= i /\ A[i] <= t + Minute /\ t <= A[m]
          /\ A[i] \in Nat /\ A[m] \in Nat
      BY <1>0, <2>2
    <3>2. CASE m + 2 * PerIp <= i
      <4>1. m + 2 * PerIp \in 1..Len(A)
        BY <1>0, <3>1, <3>2
      <4>2. A[m] + Minute < A[m + 2 * PerIp] /\ A[m + 2 * PerIp] <= A[i]
            /\ A[m + 2 * PerIp] \in Nat
        BY <1>0, <3>1, <3>2, <4>1 DEF WindowInv
      <4>3. PICK x \in Nat : x = A[m + 2 * PerIp]
        BY <4>2
      <4>4. A[m] + Minute < x /\ x <= A[i]
        BY <4>2, <4>3
      <4>5. FALSE
        BY ONLY <1>0, <3>1, <4>4, t \in Nat, x \in Nat
      <4> QED
        BY <4>5
    <3>3. m + 2 * PerIp > i
      BY <1>0, <3>1, <3>2
    <3> QED
      BY ONLY <1>0, <3>1, <3>3
  <2> HIDE DEF In
  <2>4. m \in Nat /\ In \in SUBSET (m..(m + 2 * PerIp - 1))
    BY <2>1, <2>2, <2>3
  <2>5. IsFiniteSet(m..(m + 2 * PerIp - 1)) /\ Cardinality(m..(m + 2 * PerIp - 1)) <= 2 * PerIp
    <3>1. m \in Int /\ m + 2 * PerIp - 1 \in Int
      BY <1>0, <2>4
    <3>2. PICK b \in Int : b = m + 2 * PerIp - 1
      BY <3>1
    <3>3. IsFiniteSet(m..b) /\ Cardinality(m..b) = IF m > b THEN 0 ELSE b - m + 1
      BY <3>1, FS_Interval
    <3> QED
      BY <1>0, <2>4, <3>2, <3>3
  <2>6. Cardinality(In) <= Cardinality(m..(m + 2 * PerIp - 1)) /\ IsFiniteSet(In)
    BY <2>4, <2>5, FS_Subset
  <2>7. Cardinality(In) \in Nat /\ Cardinality(m..(m + 2 * PerIp - 1)) \in Nat
    BY <2>5, <2>6, FS_CardinalityType
  <2> QED
    BY <1>0, <2>5, <2>6, <2>7 DEF In
<1> QED
  BY <1>1, <1>2

Failures == [n: Nat, first: Nat]

\* The failures F of one address since the last reset and the record f of them:
\* what f counts are the last ones, none before its first.
FailInv(F, f, now) ==
  /\ F \in Seq(Nat) /\ now \in Nat
  /\ f # Never => /\ f \in Failures /\ f.n <= Len(F) /\ f.first <= now
                  /\ \A i \in 1..Len(F) : i + f.n > Len(F) => F[i] >= f.first

\* A ban at time b is due to MaxFailedAuth failures in a row.
EarnedBy(F, b) ==
  b # Never => \E k \in Nat : /\ k + MaxFailedAuth <= Len(F)
                              /\ \A i \in (k + 1)..(k + MaxFailedAuth) : F[i] + Hour >= b

LEMMA FailureCounts ==
  ASSUME NEW F, NEW f, NEW now, FailInv(F, f, now), NEW b, EarnedBy(F, b),
         NEW g, g = (IF f = Never \/ now - f.first > Hour THEN [n |-> 0, first |-> now] ELSE f),
         NEW h, h = [g EXCEPT !.n = @ + 1]
  PROVE  /\ FailInv(Append(F, now), h, now)
         /\ EarnedBy(Append(F, now), IF h.n >= MaxFailedAuth THEN now ELSE b)
<1>0. F \in Seq(Nat) /\ now \in Nat /\ Len(F) \in Nat /\ \A i \in 1..Len(F) : F[i] \in Nat
  BY DEF FailInv
<1>1. /\ g \in Failures /\ g.n <= Len(F) /\ g.first <= now /\ now <= g.first + Hour
      /\ \A i \in 1..Len(F) : i + g.n > Len(F) => F[i] >= g.first
  <2>1. CASE f = Never \/ now - f.first > Hour
    <3>1. g = [n |-> 0, first |-> now]
      BY <2>1
    <3>2. g \in Failures /\ g.n = 0 /\ g.first = now
      BY <1>0, <3>1 DEF Failures
    <3> QED
      BY <1>0, <3>2, LimiterSpans
  <2>2. CASE ~(f = Never \/ now - f.first > Hour)
    <3>1. g = f /\ f # Never /\ ~(now - f.first > Hour)
      BY <2>2
    <3>2. /\ f \in Failures /\ f.n <= Len(F) /\ f.first <= now /\ f.first \in Nat
          /\ \A i \in 1..Len(F) : i + f.n > Len(F) => F[i] >= f.first
      BY <3>1 DEF FailInv, Failures
    <3> QED
      BY <1>0, <3>1, <3>2, LimiterSpans
  <2> QED
    BY <2>1, <2>2
<1>2. g.n \in Nat /\ g.first \in Nat
  BY <1>1 DEF Failures
<1>3. PICK m \in Nat : m = g.n + 1
  BY <1>2
<1>4. h \in Failures /\ h.n = m /\ h.first = g.first
  <2>1. h = [g EXCEPT !.n = m]
    BY <1>3
  <2> QED
    BY <1>1, <2>1 DEF Failures
<1> DEFINE G == Append(F, now)
<1>5. /\ G \in Seq(Nat) /\ Len(G) = Len(F) + 1 /\ G[Len(F) + 1] = now
      /\ \A i \in 1..Len(F) : G[i] = F[i]
      /\ \A i \in 1..Len(G) : G[i] \in Nat
  BY <1>0
<1> HIDE DEF G
<1>6. ASSUME NEW i \in 1..Len(G), i + m > Len(G) PROVE G[i] >= g.first
  <2>1. CASE i = Len(F) + 1
    BY <1>0, <1>1, <1>2, <1>5, <2>1
  <2>2. CASE i \in 1..Len(F)
    <3>1. i + g.n > Len(F)
      <4>1. i + m > Len(G) /\ m = g.n + 1 /\ Len(G) = Len(F) + 1 /\ Len(F) \in Nat /\ g.n \in Nat
        BY <1>0, <1>2, <1>3, <1>5, <1>6
      <4> QED
        BY ONLY <2>2, <4>1
    <3> QED
      BY <1>1, <1>5, <2>2, <3>1
  <2> QED
    BY <1>0, <1>5, <2>1, <2>2
<1>7. m <= Len(G)
  BY <1>0, <1>1, <1>2, <1>3, <1>5
<1>8. FailInv(G, h, now)
  BY <1>0, <1>1, <1>4, <1>5, <1>6, <1>7 DEF FailInv
<1>9. CASE m >= MaxFailedAuth
  <2>1. PICK k \in Nat : k + MaxFailedAuth = Len(G)
    <3>1. Len(G) - MaxFailedAuth \in Nat /\ (Len(G) - MaxFailedAuth) + MaxFailedAuth = Len(G)
      BY <1>0, <1>5, <1>7, <1>9, LimiterSpans
    <3> QED
      BY <3>1
  <2>2. ASSUME NEW i \in (k + 1)..(k + MaxFailedAuth) PROVE G[i] + Hour >= now
    <3>1. i \in 1..Len(G) /\ i + m > Len(G)
      BY <1>9, <2>1, LimiterSpans
    <3>2. G[i] >= g.first /\ G[i] \in Nat
      BY <1>5, <1>6, <3>1
    <3>3. now <= g.first + Hour /\ g.first \in Nat /\ now \in Nat /\ Hour \in Nat
      BY <1>0, <1>1, <1>2, LimiterSpans
    <3> QED
      BY ONLY <3>2, <3>3
  <2>3. k + MaxFailedAuth <= Len(G)
    BY <1>0, <1>5, <2>1
  <2>4. EarnedBy(G, now)
    BY <2>2, <2>3 DEF EarnedBy
  <2> QED
    BY <1>4, <1>8, <1>9, <2>4 DEF G
<1>10. CASE ~(m >= MaxFailedAuth)
  <2>1. EarnedBy(G, b)
    <3> SUFFICES ASSUME b # Never PROVE EarnedBy(G, b)
      BY DEF EarnedBy
    <3>1. PICK k \in Nat : /\ k + MaxFailedAuth <= Len(F)
                           /\ \A i \in (k + 1)..(k + MaxFailedAuth) : F[i] + Hour >= b
      BY DEF EarnedBy
    <3>2. k + MaxFailedAuth <= Len(G)
      BY <1>0, <1>5, <3>1, LimiterSpans
    <3>3. \A i \in (k + 1)..(k + MaxFailedAuth) : i \in 1..Len(F)
      BY <1>0, <3>1, LimiterSpans
    <3>4. \A i \in (k + 1)..(k + MaxFailedAuth) : G[i] + Hour >= b
      BY <1>5, <3>1, <3>3
    <3> QED
      BY <3>2, <3>4 DEF EarnedBy
  <2> QED
    BY <1>4, <1>8, <1>10, <2>1 DEF G
<1> QED
  BY <1>9, <1>10

LEMMA EarnedIsMany ==
  ASSUME NEW F \in Seq(Nat), NEW b, b # Never, EarnedBy(F, b)
  PROVE  Cardinality({i \in DOMAIN F : F[i] + Hour >= b}) >= MaxFailedAuth
<1> DEFINE S == {i \in DOMAIN F : F[i] + Hour >= b}
<1>0. DOMAIN F = 1..Len(F) /\ Len(F) \in Nat /\ MaxFailedAuth \in Nat
  BY LimiterSpans
<1>1. PICK k \in Nat : /\ k + MaxFailedAuth <= Len(F)
                       /\ \A i \in (k + 1)..(k + MaxFailedAuth) : F[i] + Hour >= b
  BY DEF EarnedBy
<1>2. PICK lo \in Nat, hi \in Nat : lo = k + 1 /\ hi = k + MaxFailedAuth
  BY <1>0
<1>3. \A i \in lo..hi : i \in 1..Len(F)
  BY <1>0, <1>1, <1>2
<1>4. lo..hi \in SUBSET S
  BY <1>0, <1>1, <1>2, <1>3
<1>5. IsFiniteSet(1..Len(F)) /\ S \in SUBSET (1..Len(F))
  BY <1>0, FS_Interval
<1> HIDE DEF S
<1>6. IsFiniteSet(S)
  BY <1>5, FS_Subset
<1>7. Cardinality(lo..hi) <= Cardinality(S)
  BY <1>4, <1>6, FS_Subset
<1>8. Cardinality(lo..hi) = IF lo > hi THEN 0 ELSE hi - lo + 1
  BY FS_Interval
<1>9. Cardinality(S) \in Nat
  BY <1>6, FS_CardinalityType
<1> QED
  BY <1>0, <1>2, <1>7, <1>8, <1>9 DEF S

LimTypes ==
  /\ clock \in Nat
  /\ counts \in [Ips -> Windows \cup {Never}] /\ fails \in [Ips -> Failures \cup {Never}]
  /\ banned \in [Ips -> Nat \cup {Never}]
  /\ allowedAt \in [Ips -> Seq(Nat)] /\ failedAt \in [Ips -> Seq(Nat)]

LimInv ==
  /\ LimTypes
  /\ \A a \in Ips : /\ WindowInv(allowedAt[a], counts[a], clock)
                    /\ FailInv(failedAt[a], fails[a], clock)
                    /\ a \notin manual => EarnedBy(failedAt[a], banned[a])

LEMMA LimInvImplies == LimInv => LimiterHolds
<1> SUFFICES ASSUME LimInv PROVE LimiterHolds
  OBVIOUS
<1>1. WindowHolds
  <2> SUFFICES ASSUME NEW a \in Ips, NEW t \in 0..clock
               PROVE  Cardinality({i \in DOMAIN allowedAt[a] :
                                    allowedAt[a][i] \in t..(t + Minute)}) <= 2 * PerIp
    BY DEF WindowHolds
  <2>1. t \in Nat /\ WindowInv(allowedAt[a], counts[a], clock)
    BY DEF LimInv, LimTypes
  <2> QED
    BY <2>1, WindowBounds
<1>2. BanIsEarned
  <2> SUFFICES ASSUME NEW a \in Ips \ manual, banned[a] # Never
               PROVE  Cardinality({i \in DOMAIN failedAt[a] :
                                    failedAt[a][i] + Hour >= banned[a]}) >= MaxFailedAuth
    BY DEF BanIsEarned
  <2>1. failedAt[a] \in Seq(Nat) /\ EarnedBy(failedAt[a], banned[a])
    BY DEF LimInv, LimTypes
  <2> QED
    BY <2>1, EarnedIsMany
<1> QED
  BY <1>1, <1>2 DEF LimiterHolds

LEMMA LimInitInv == SrvInit => LimInv
<1> SUFFICES ASSUME SrvInit PROVE LimInv
  OBVIOUS
<1>1. <<>> \in Seq(Nat) /\ Len(<<>>) = 0
  OBVIOUS
<1>2. /\ clock = 0 /\ counts = [a \in Ips |-> Never] /\ fails = [a \in Ips |-> Never]
      /\ banned = [a \in Ips |-> Never]
      /\ allowedAt = [a \in Ips |-> <<>>] /\ failedAt = [a \in Ips |-> <<>>]
  BY DEF SrvInit
<1>3. LimTypes
  BY <1>1, <1>2 DEF LimTypes
<1>4. WindowInv(<<>>, Never, 0) /\ FailInv(<<>>, Never, 0) /\ EarnedBy(<<>>, Never)
  BY <1>1 DEF WindowInv, FailInv, EarnedBy
<1> QED
  BY <1>2, <1>3, <1>4 DEF LimInv

\* check_allowed, whatever it answers.
LEMMA CheckKeeps ==
  ASSUME LimInv, NEW a \in Ips, NEW answer \in {"allowed", "limited", "banned"},
         CheckAllowed(a, answer), clock' = clock
  PROVE  LimInv'
<1>0. LimTypes
  BY DEF LimInv
<1>1. CASE IsBanned(a)
  <2>1. UNCHANGED limVars
    BY <1>1 DEF CheckAllowed
  <2> QED
    BY <2>1 DEF limVars, LimInv, LimTypes
<1>2. CASE ~IsBanned(a)
  <2>1. /\ answer = IF Counted(a).n >= PerIp THEN "limited" ELSE "allowed"
        /\ banned' = [banned EXCEPT ![a] = Never] /\ manual' = manual \ {a}
        /\ IF banned[a] = Never THEN UNCHANGED <<fails, failedAt>>
           ELSE /\ fails' = [fails EXCEPT ![a] = Never]
                /\ failedAt' = [failedAt EXCEPT ![a] = <<>>]
        /\ counts' = [counts EXCEPT ![a] =
             IF answer = "allowed" THEN [Counted(a) EXCEPT !.n = @ + 1] ELSE Counted(a)]
        /\ allowedAt' = IF answer = "allowed"
                        THEN [allowedAt EXCEPT ![a] = Append(@, clock)] ELSE allowedAt
    BY <1>2 DEF CheckAllowed
  <2>2. /\ banned' \in [Ips -> Nat \cup {Never}]
        /\ fails' \in [Ips -> Failures \cup {Never}] /\ failedAt' \in [Ips -> Seq(Nat)]
        /\ \A x \in Ips : /\ FailInv(failedAt'[x], fails'[x], clock')
                          /\ x \notin manual' => EarnedBy(failedAt'[x], banned'[x])
    <3>1. banned' \in [Ips -> Nat \cup {Never}] /\ banned'[a] = Never
          /\ \A x \in Ips : x # a => banned'[x] = banned[x] /\ (x \in manual' <=> x \in manual)
      BY <1>0, <2>1 DEF LimTypes
    <3>2. CASE banned[a] = Never
      BY <1>0, <2>1, <3>1, <3>2 DEF LimTypes, LimInv, EarnedBy
    <3>3. CASE banned[a] # Never
      <4>1. fails' = [fails EXCEPT ![a] = Never] /\ failedAt' = [failedAt EXCEPT ![a] = <<>>]
            /\ <<>> \in Seq(Nat)
        BY <2>1, <3>3
      <4>2. /\ fails' \in [Ips -> Failures \cup {Never}] /\ failedAt' \in [Ips -> Seq(Nat)]
            /\ fails'[a] = Never /\ failedAt'[a] = <<>>
            /\ \A x \in Ips : x # a => fails'[x] = fails[x] /\ failedAt'[x] = failedAt[x]
        BY <1>0, <4>1 DEF LimTypes
      <4>3. FailInv(failedAt'[a], fails'[a], clock') /\ EarnedBy(failedAt'[a], banned'[a])
        BY <1>0, <3>1, <4>1, <4>2 DEF FailInv, EarnedBy, LimTypes
      <4>4. \A x \in Ips : x # a =>
               /\ FailInv(failedAt'[x], fails'[x], clock')
               /\ x \notin manual' => EarnedBy(failedAt'[x], banned'[x])
        BY <3>1, <4>2 DEF LimInv
      <4>5. ASSUME NEW x \in Ips
            PROVE  /\ FailInv(failedAt'[x], fails'[x], clock')
                   /\ x \notin manual' => EarnedBy(failedAt'[x], banned'[x])
        <5>1. CASE x = a
          BY ONLY <4>3, <5>1
        <5>2. CASE x # a
          BY <4>4, <5>2, Zenon
        <5> QED
          BY <5>1, <5>2
      <4> QED
        BY ONLY <3>1, <4>2, <4>5
    <3> QED
      BY <3>2, <3>3
  <2>3. WindowInv(allowedAt[a], Counted(a), clock) /\ Counted(a) # Never
    <3>1. WindowInv(allowedAt[a], counts[a], clock)
      BY DEF LimInv
    <3>2. CASE counts[a] = Never \/ clock - counts[a].start > Minute
      <4>1. Counted(a) = [n |-> 0, start |-> clock]
        BY <3>2 DEF Counted, Since
      <4>2. Counted(a) # Never
        BY <1>0, <4>1, SrvConstants DEF LimTypes
      <4> QED
        BY <3>1, <3>2, <4>1, <4>2, WindowOpens
    <3>3. CASE ~(counts[a] = Never \/ clock - counts[a].start > Minute)
      BY <3>1, <3>3 DEF Counted, Since
    <3> QED
      BY <3>2, <3>3
  <2>4. PICK c : c = Counted(a)
    OBVIOUS
  <2>5. WindowInv(allowedAt[a], c, clock) /\ c # Never /\ c \in Windows
    BY <2>3, <2>4 DEF WindowInv
  <2>6. /\ counts' \in [Ips -> Windows \cup {Never}] /\ allowedAt' \in [Ips -> Seq(Nat)]
        /\ \A x \in Ips : WindowInv(allowedAt'[x], counts'[x], clock')
    <3>1. CASE answer = "allowed"
      <4>1. ~(c.n >= PerIp) /\ counts' = [counts EXCEPT ![a] = [c EXCEPT !.n = @ + 1]]
            /\ allowedAt' = [allowedAt EXCEPT ![a] = Append(@, clock)]
        BY <2>1, <2>4, <3>1
      <4>2. c.n < PerIp
        BY <2>5, <4>1, LimiterSpans DEF Windows
      <4> DEFINE d == [c EXCEPT !.n = @ + 1]
                 B == Append(allowedAt[a], clock)
      <4>3. WindowInv(B, d, clock)
        BY <2>5, <4>2, WindowCounts
      <4>4. d \in Windows \cup {Never} /\ B \in Seq(Nat)
        BY <4>3 DEF WindowInv
      <4>5. counts' = [counts EXCEPT ![a] = d] /\ allowedAt' = [allowedAt EXCEPT ![a] = B]
        BY <4>1
      <4> HIDE DEF d, B
      <4>6. /\ counts' \in [Ips -> Windows \cup {Never}] /\ allowedAt' \in [Ips -> Seq(Nat)]
            /\ counts'[a] = d /\ allowedAt'[a] = B
            /\ \A x \in Ips : x # a => counts'[x] = counts[x] /\ allowedAt'[x] = allowedAt[x]
        BY <1>0, <4>4, <4>5 DEF LimTypes
      <4> QED
        BY <4>3, <4>6 DEF LimInv
    <3>2. CASE answer # "allowed"
      <4>1. counts' = [counts EXCEPT ![a] = c] /\ allowedAt' = allowedAt
        BY <2>1, <2>4, <3>2
      <4>2. /\ counts' \in [Ips -> Windows \cup {Never}] /\ counts'[a] = c
            /\ \A x \in Ips : x # a => counts'[x] = counts[x]
        BY <1>0, <2>5, <4>1 DEF LimTypes
      <4> QED
        BY <1>0, <2>5, <4>1, <4>2 DEF LimInv, LimTypes
    <3> QED
      BY <3>1, <3>2
  <2> QED
    BY <1>0, <2>2, <2>6 DEF LimInv, LimTypes
<1> QED
  BY <1>1, <1>2

\* A failure is counted, and may ban the address.
LEMMA FailureKeeps ==
  ASSUME LimInv, NEW a \in Ips, RecordFailedAuth(a)
  PROVE  LimInv'
<1>0. LimTypes /\ clock \in Nat
  BY DEF LimInv, LimTypes
<1> DEFINE g == FailedSoFar(a)
           h == [g EXCEPT !.n = @ + 1]
           F == Append(failedAt[a], clock)
           b == IF h.n >= MaxFailedAuth THEN clock ELSE banned[a]
<1>1. FailInv(F, h, clock) /\ (a \notin manual => EarnedBy(F, b))
  <2>1. /\ g = (IF fails[a] = Never \/ clock - fails[a].first > Hour
                THEN [n |-> 0, first |-> clock] ELSE fails[a])
        /\ h = [g EXCEPT !.n = @ + 1]
        /\ FailInv(failedAt[a], fails[a], clock)
    BY DEF FailedSoFar, Since, LimInv
  <2>2. EarnedBy(failedAt[a], Never)
    BY DEF EarnedBy
  <2> HIDE DEF g, h
  <2>3. FailInv(F, h, clock)
    BY <2>1, <2>2, FailureCounts
  <2>4. ASSUME a \notin manual PROVE EarnedBy(F, b)
    <3>1. EarnedBy(failedAt[a], banned[a])
      BY <2>4 DEF LimInv
    <3> QED
      BY <2>1, <3>1, FailureCounts
  <2> QED
    BY <2>3, <2>4
<1>2. /\ fails' = [fails EXCEPT ![a] = h] /\ failedAt' = [failedAt EXCEPT ![a] = F]
      /\ clock' = clock /\ counts' = counts /\ allowedAt' = allowedAt /\ manual' = manual
  BY DEF RecordFailedAuth
<1>3. banned' = [banned EXCEPT ![a] = b]
  BY <1>0 DEF RecordFailedAuth, LimTypes
<1>4. b \in Nat \cup {Never}
  BY <1>0 DEF LimTypes
<1> HIDE DEF g, h, F, b
<1>5. h \in Failures \cup {Never} /\ F \in Seq(Nat)
  BY <1>1 DEF FailInv
<1>6. /\ fails' \in [Ips -> Failures \cup {Never}] /\ failedAt' \in [Ips -> Seq(Nat)]
      /\ banned' \in [Ips -> Nat \cup {Never}]
      /\ fails'[a] = h /\ failedAt'[a] = F /\ banned'[a] = b
      /\ \A x \in Ips : x # a => fails'[x] = fails[x] /\ failedAt'[x] = failedAt[x] /\ banned'[x] = banned[x]
  BY <1>0, <1>2, <1>3, <1>4, <1>5 DEF LimTypes
<1>7. LimTypes'
  BY <1>0, <1>2, <1>6 DEF LimTypes
<1>8. ASSUME NEW x \in Ips
      PROVE  /\ WindowInv(allowedAt'[x], counts'[x], clock')
             /\ FailInv(failedAt'[x], fails'[x], clock')
             /\ x \notin manual' => EarnedBy(failedAt'[x], banned'[x])
  BY <1>1, <1>2, <1>6 DEF LimInv
<1> QED
  BY <1>7, <1>8 DEF LimInv

\* A reset of one address: unban_ip, and record_successful_auth.
LEMMA ResetKeeps ==
  ASSUME LimInv, NEW a \in Ips, RecordSuccessfulAuth(a) \/ UnbanIp(a)
  PROVE  LimInv'
<1>0. LimTypes /\ clock \in Nat
  BY DEF LimInv, LimTypes
<1>1. /\ clock' = clock /\ counts' = counts /\ allowedAt' = allowedAt
      /\ fails' = [fails EXCEPT ![a] = Never]
  BY DEF RecordSuccessfulAuth, UnbanIp
<1>2. PICK b \in Nat \cup {Never}, F \in Seq(Nat) :
        /\ banned' = [banned EXCEPT ![a] = b] /\ failedAt' = [failedAt EXCEPT ![a] = F]
        /\ (F = failedAt[a] /\ b = banned[a]) \/ b = Never
  <2>1. CASE RecordSuccessfulAuth(a)
    <3>1. banned' = [banned EXCEPT ![a] = banned[a]] /\ banned[a] \in Nat \cup {Never}
      BY <1>0, <2>1 DEF RecordSuccessfulAuth, LimTypes
    <3>2. CASE banned[a] = Never
      <4>1. failedAt' = [failedAt EXCEPT ![a] = <<>>] /\ <<>> \in Seq(Nat)
        BY <2>1, <3>2 DEF RecordSuccessfulAuth
      <4> QED
        BY <3>1, <3>2, <4>1, Zenon
    <3>3. CASE banned[a] # Never
      <4>1. failedAt' = [failedAt EXCEPT ![a] = failedAt[a]] /\ failedAt[a] \in Seq(Nat)
        BY <1>0, <2>1, <3>3 DEF RecordSuccessfulAuth, LimTypes
      <4> QED
        BY <3>1, <4>1, Zenon
    <3> QED
      BY <3>2, <3>3
  <2>2. CASE UnbanIp(a)
    <3>1. banned' = [banned EXCEPT ![a] = Never] /\ failedAt' = [failedAt EXCEPT ![a] = <<>>]
          /\ <<>> \in Seq(Nat)
      BY <2>2 DEF UnbanIp
    <3> QED
      BY <3>1, Zenon
  <2> QED
    BY <2>1, <2>2
<1>3. /\ fails' \in [Ips -> Failures \cup {Never}] /\ failedAt' \in [Ips -> Seq(Nat)]
      /\ banned' \in [Ips -> Nat \cup {Never}]
      /\ fails'[a] = Never /\ failedAt'[a] = F /\ banned'[a] = b
      /\ \A x \in Ips : x # a => fails'[x] = fails[x] /\ failedAt'[x] = failedAt[x] /\ banned'[x] = banned[x]
  BY <1>0, <1>1, <1>2 DEF LimTypes
<1>4. \A x \in Ips : x \notin manual' => x \notin manual \/ (x = a /\ b = Never)
  <2>1. CASE RecordSuccessfulAuth(a)
    BY <2>1 DEF RecordSuccessfulAuth
  <2>2. CASE UnbanIp(a)
    <3>1. manual' = manual \ {a} /\ banned'[a] = Never
      BY <1>0, <2>2 DEF UnbanIp, LimTypes
    <3> QED
      BY <1>3, <3>1
  <2> QED
    BY <2>1, <2>2
<1>5. LimTypes'
  BY <1>0, <1>1, <1>3 DEF LimTypes
<1>6. FailInv(F, Never, clock)
  BY <1>0, <1>2 DEF FailInv
<1>7. a \notin manual' => EarnedBy(F, b)
  BY <1>2, <1>4 DEF EarnedBy, LimInv
<1>8. ASSUME NEW x \in Ips
      PROVE  /\ WindowInv(allowedAt'[x], counts'[x], clock')
             /\ FailInv(failedAt'[x], fails'[x], clock')
             /\ x \notin manual' => EarnedBy(failedAt'[x], banned'[x])
  BY <1>1, <1>3, <1>4, <1>6, <1>7 DEF LimInv
<1> QED
  BY <1>5, <1>8 DEF LimInv

LEMMA CleanupKeeps == LimInv /\ Cleanup => LimInv'
<1> SUFFICES ASSUME LimInv, Cleanup PROVE LimInv'
  OBVIOUS
<1>0. LimTypes /\ clock \in Nat /\ clock' = clock /\ allowedAt' = allowedAt /\ failedAt' = failedAt
  BY DEF LimInv, LimTypes, Cleanup
<1>1. /\ banned' \in [Ips -> Nat \cup {Never}] /\ counts' \in [Ips -> Windows \cup {Never}]
      /\ fails' \in [Ips -> Failures \cup {Never}]
  BY <1>0 DEF Cleanup, LimTypes
<1>2. LimTypes'
  BY <1>0, <1>1 DEF LimTypes
<1>3. ASSUME NEW x \in Ips
      PROVE  /\ WindowInv(allowedAt'[x], counts'[x], clock')
             /\ FailInv(failedAt'[x], fails'[x], clock')
             /\ x \notin manual' => EarnedBy(failedAt'[x], banned'[x])
  <2>0. /\ WindowInv(allowedAt[x], counts[x], clock) /\ FailInv(failedAt[x], fails[x], clock)
        /\ x \notin manual => EarnedBy(failedAt[x], banned[x])
    BY DEF LimInv
  <2>1. counts'[x] = counts[x]
        \/ (counts'[x] = Never /\ counts[x] # Never /\ ~(clock - counts[x].start < TwoMinutes))
    BY DEF Cleanup, Since
  <2>2. WindowInv(allowedAt'[x], counts'[x], clock')
    BY <1>0, <2>0, <2>1, WindowDrops
  <2>3. fails'[x] = fails[x] \/ fails'[x] = Never
    BY DEF Cleanup
  <2>4. FailInv(failedAt'[x], fails'[x], clock')
    BY <1>0, <2>0, <2>3 DEF FailInv
  <2>5. (x \in manual' <=> (x \in manual /\ IsBanned(x)))
        /\ banned'[x] = IF IsBanned(x) THEN banned[x] ELSE Never
    BY DEF Cleanup
  <2>6. x \notin manual' => EarnedBy(failedAt'[x], banned'[x])
    BY <1>0, <2>0, <2>5 DEF EarnedBy
  <2> QED
    BY <2>2, <2>4, <2>6
<1> QED
  BY <1>2, <1>3 DEF LimInv

LEMMA LimNextInv == SrvInv /\ LimInv /\ [SrvNext]_srvVars => LimInv'
<1> SUFFICES ASSUME SrvInv, LimInv, [SrvNext]_srvVars PROVE LimInv'
  OBVIOUS
<1>0. LimTypes
  BY DEF LimInv
<1>1. CASE Tick
  <2>1. clock \in Nat /\ clock' = clock + 1 /\ clock' \in Nat /\ clock <= clock'
        /\ counts' = counts /\ fails' = fails /\ banned' = banned /\ allowedAt' = allowedAt
        /\ failedAt' = failedAt /\ manual' = manual
    BY <1>0, <1>1 DEF Tick, LimTypes, limVars
  <2>2. ASSUME NEW x \in Ips
        PROVE  /\ WindowInv(allowedAt'[x], counts'[x], clock')
               /\ FailInv(failedAt'[x], fails'[x], clock')
               /\ x \notin manual' => EarnedBy(failedAt'[x], banned'[x])
    <3>0. /\ WindowInv(allowedAt[x], counts[x], clock) /\ FailInv(failedAt[x], fails[x], clock)
          /\ x \notin manual => EarnedBy(failedAt[x], banned[x])
      BY DEF LimInv
    <3>1. WindowInv(allowedAt[x], counts[x], clock')
      BY <2>1, <3>0, WindowAges
    <3>2. FailInv(failedAt[x], fails[x], clock')
      BY <2>1, <3>0 DEF FailInv, Failures
    <3> QED
      BY <2>1, <3>0, <3>1, <3>2
  <2> QED
    BY <1>0, <2>1, <2>2 DEF LimInv, LimTypes
<1>2. ASSUME NEW a \in Ips, BanIp(a) PROVE LimInv'
  <2>1. /\ banned' \in [Ips -> Nat \cup {Never}]
        /\ \A x \in Ips : x \notin manual' => x \notin manual /\ banned'[x] = banned[x]
        /\ clock' = clock /\ counts' = counts /\ fails' = fails /\ allowedAt' = allowedAt
        /\ failedAt' = failedAt
    BY <1>0, <1>2 DEF BanIp, LimTypes
  <2> QED
    BY <1>0, <2>1 DEF LimInv, LimTypes
<1>3. ASSUME NEW c \in SshConns, HandleConnection(c) PROVE LimInv'
  <2>1. conn[c].src \in Ips /\ clock' = clock
    BY <1>3 DEF HandleConnection, SrvInv, HasSource
  <2>2. PICK answer \in {"allowed", "limited", "banned"} : CheckAllowed(conn[c].src, answer)
    BY <1>3 DEF HandleConnection
  <2> QED
    BY <2>1, <2>2, CheckKeeps
<1>4. CASE UNCHANGED <<clock, limVars>>
  BY <1>0, <1>4 DEF LimInv, LimTypes, limVars
<1>5. ASSUME NEW c \in SshConns,
             \/ HandshakeTimeout(c) \/ AuthNoneSrv(c) \/ CloseConn(c) \/ \E a \in Ips : Accept(c, a)
      PROVE  LimInv'
  BY <1>4, <1>5 DEF HandshakeTimeout, AuthNoneSrv, CloseConn, Accept
<1>6. CASE Shutdown \/ ChangePolicy
  BY <1>4, <1>6 DEF Shutdown, ChangePolicy
<1>7. CASE UNCHANGED srvVars
  BY <1>4, <1>7 DEF srvVars, limVars
<1> QED
  BY <1>1, <1>2, <1>3, <1>5, <1>6, <1>7, CleanupKeeps, FailureKeeps, ResetKeeps DEF SrvNext

\* The rate limiter limits what it is meant to and bans nobody else, for any
\* addresses, limits and spans: no minute sees more than twice max_connections_
\* per_ip connections of one address, and nobody is banned without the failures
\* it takes, although cleanup drops windows, failures and bans on its own
\* (check_allowed, record_failed_auth, cleanup).
THEOREM LimiterAlwaysHolds == SshSpec => []LimiterHolds
<1>1. SshInit => SrvInv /\ LimInv
  BY SrvInitInv, LimInitInv DEF SshInit
<1>2. SrvInv /\ LimInv /\ [SshNext]_sshVars => (SrvInv /\ LimInv)'
  BY ComponentSteps, SrvNextInv, LimNextInv
<1> QED
  BY <1>1, <1>2, LimInvImplies, PTL DEF SshSpec

(***************************************************************************)
(* Port forwarding.                                                        *)
(***************************************************************************)

Forwards ==
  [kind: {"none", "local", "dynamic", "remote"},
   task: {"none", "accepting", "waiting", "told", "ended"},
   asked: Ports \cup {0, Unset}, got: Ports \cup {Unset}, cancelFailed: BOOLEAN]

Counts == [total: Nat, active: Nat]

FwdTypes ==
  /\ fwd \in [Fwds -> Forwards]
  /\ stats \in [Fwds -> Counts \cup {Unset}]
  /\ fconn \in [FwdConns -> [of: Fwds \cup {Unset},
                             stage: {"none", "socks", "dialling", "piping", "ending"}]]

\* A connection in use belongs to a forward that was started, and only a
\* started forward has statistics.
ConnsBelong ==
  /\ \A c \in FwdConns : /\ fconn[c].stage = "none" <=> fconn[c].of = Unset
                         /\ fconn[c].of # Unset => stats[fconn[c].of] # Unset
  /\ \A f \in Fwds : stats[f] = Unset <=> fwd[f].kind = "none"

\* A forward is on the list from its start until its task has ended.
TaskIsListed ==
  \A f \in Fwds : /\ fwd[f].task \in {"accepting", "waiting", "told"} => f \in listed
                  /\ fwd[f].kind = "none" => fwd[f].task = "none"

\* The server opened the port that was asked for, and only remote forwards have
\* a port there.
GotPort(w) ==
  /\ w.got = Unset <=> w.kind # "remote"
  /\ w.kind = "remote" /\ w.asked # 0 => w.got = w.asked

GotAsked == \A f \in Fwds : GotPort(fwd[f])

FwdInv == FwdTypes /\ ConnsBelong /\ TaskIsListed /\ GotAsked /\ ForwardsAccounted

LEMMA FwdInitInv == FwdInit => FwdInv
BY FwdConstants DEF FwdInit, FwdInv, FwdTypes, Forwards, Counts, ConnsBelong, TaskIsListed, GotAsked, GotPort,
   ForwardsAccounted, ActiveIsExact, AcceptingIsListed, PortGivenBack

\* A forward that starts: no connection is counted for it yet.
LEMMA StartsCounting ==
  ASSUME FwdTypes, ConnsBelong, ActiveIsExact, NEW f \in Fwds, fwd[f].kind = "none",
         Register(f), UNCHANGED fconn
  PROVE  /\ ActiveIsExact' /\ stats' \in [Fwds -> Counts \cup {Unset}] /\ stats'[f] # Unset
         /\ \A g \in Fwds \ {f} : stats'[g] = stats[g]
<1>1. {c \in FwdConns : fconn[c].of = f} = {}
  BY FwdConstants DEF ConnsBelong
<1>2. stats' = [stats EXCEPT ![f] = [total |-> 0, active |-> 0]]
  BY DEF Register
<1>3. stats'[f] = [total |-> 0, active |-> 0] /\ \A g \in Fwds \ {f} : stats'[g] = stats[g]
  BY <1>2 DEF FwdTypes
<1>4. ActiveIsExact'
  BY <1>1, <1>3, FS_EmptySet DEF ActiveIsExact
<1> QED
  BY <1>2, <1>3, <1>4, FwdConstants DEF FwdTypes, Counts

\* A connection that is accepted or ends moves the counter of its forward.
LEMMA AcceptCounts ==
  ASSUME FwdInv, NEW f \in Fwds, NEW c \in FwdConns, stats[f] # Unset, AcceptFwd(f, c)
  PROVE  FwdInv'
<1> DEFINE S(g) == {d \in FwdConns : fconn[d].of = g}
           T(g) == {d \in FwdConns : fconn'[d].of = g}
<1>1. PICK st \in {"socks", "dialling"} : fconn' = [fconn EXCEPT ![c] = [of |-> f, stage |-> st]]
  BY DEF AcceptFwd
<1>2. fconn[c].of = Unset /\ stats[f] \in Counts /\ Unset # f
  BY FwdConstants DEF AcceptFwd, FwdInv, FwdTypes, ConnsBelong
<1>3. PICK n \in Counts : /\ stats' = [stats EXCEPT ![f] = n]
                          /\ n.active = stats[f].active + 1
  <2>1. PICK i \in Nat, k \in Nat : i = stats[f].total + 1 /\ k = stats[f].active + 1
    BY <1>2 DEF Counts
  <2>2. stats' = [stats EXCEPT ![f] = [stats[f] EXCEPT !.total = i, !.active = k]]
    BY <1>2, <2>1 DEF AcceptFwd, Counts, FwdInv, FwdTypes
  <2>3. [stats[f] EXCEPT !.total = i, !.active = k] \in Counts
        /\ [stats[f] EXCEPT !.total = i, !.active = k].active = k
    BY <1>2 DEF Counts
  <2> QED
    BY <2>1, <2>2, <2>3
<1>4. IsFiniteSet(S(f)) /\ c \notin S(f)
  BY <1>2, FwdConstants, FS_Subset
<1>5. T(f) = S(f) \cup {c} /\ \A g \in Fwds \ {f} : T(g) = S(g)
  BY <1>1, <1>2, FwdConstants DEF FwdInv, FwdTypes
<1>6. Cardinality(T(f)) = Cardinality(S(f)) + 1
  BY <1>4, <1>5, FS_AddElement
<1>7. ActiveIsExact'
  <2> HIDE DEF S, T
  <2>1. stats[f].active = Cardinality(S(f)) /\ stats'[f].active = Cardinality(T(f))
    BY <1>2, <1>3, <1>6 DEF FwdInv, FwdTypes, ForwardsAccounted, ActiveIsExact, S
  <2>2. \A g \in Fwds \ {f} : stats'[g] = stats[g]
    BY <1>3 DEF FwdInv, FwdTypes
  <2>3. \A g \in Fwds : stats'[g] # Unset => stats'[g].active = Cardinality(T(g))
    BY <1>5, <2>1, <2>2 DEF FwdInv, ForwardsAccounted, ActiveIsExact, S
  <2> QED
    BY <2>3 DEF ActiveIsExact, T
<1>8. FwdTypes' /\ ConnsBelong'
  BY <1>1, <1>2, <1>3, FwdConstants DEF AcceptFwd, FwdInv, FwdTypes, ConnsBelong, Counts
<1>9. TaskIsListed' /\ GotAsked' /\ AcceptingIsListed' /\ PortGivenBack'
  BY DEF AcceptFwd, FwdInv, TaskIsListed, GotAsked, ForwardsAccounted, AcceptingIsListed, PortGivenBack
<1> QED
  BY <1>7, <1>8, <1>9 DEF FwdInv, ForwardsAccounted

LEMMA EndCounts ==
  ASSUME FwdInv, NEW c \in FwdConns, ConnEnds(c)
  PROVE  FwdInv'
<1> DEFINE f == fconn[c].of
           S(g) == {d \in FwdConns : fconn[d].of = g}
           T(g) == {d \in FwdConns : fconn'[d].of = g}
<1>1. fconn' = [fconn EXCEPT ![c] = [of |-> Unset, stage |-> "none"]]
  BY DEF ConnEnds
<1>2. f \in Fwds /\ stats[f] \in Counts /\ stats[f] # Unset /\ Unset # f
  BY FwdConstants DEF ConnEnds, FwdInv, FwdTypes, ConnsBelong
<1>4. IsFiniteSet(S(f)) /\ c \in S(f)
  BY <1>2, FwdConstants, FS_Subset
<1>5. T(f) = S(f) \ {c} /\ \A g \in Fwds \ {f} : T(g) = S(g)
  BY <1>1, <1>2, FwdConstants DEF FwdInv, FwdTypes
<1>6. /\ Cardinality(T(f)) = Cardinality(S(f)) - 1
      /\ Cardinality(S(f)) \in Nat /\ Cardinality(S(f)) # 0
  BY <1>4, <1>5, FS_RemoveElement, FS_CardinalityType, FS_EmptySet
<1>3. PICK n \in Counts : /\ stats' = [stats EXCEPT ![f] = n]
                          /\ n.active = stats[f].active - 1
  <2>0. stats[f].active = Cardinality(S(f))
    BY <1>2 DEF FwdInv, ForwardsAccounted, ActiveIsExact
  <2>1. stats[f].active > 0 /\ stats[f].active - 1 \in Nat
    BY <1>6, <2>0
  <2>2. [stats[f] EXCEPT !.active = @ - 1] \in Counts
    BY <1>2, <2>1 DEF Counts
  <2> QED
    BY <1>2, <2>1, <2>2 DEF ConnEnds, Counts, FwdInv, FwdTypes
<1>7. ActiveIsExact'
  <2>1. stats[f].active = Cardinality(S(f)) /\ stats'[f].active = Cardinality(T(f))
    BY <1>2, <1>3, <1>6 DEF FwdInv, FwdTypes, ForwardsAccounted, ActiveIsExact
  <2>2. \A g \in Fwds \ {f} : stats'[g] = stats[g]
    BY <1>3 DEF FwdInv, FwdTypes
  <2> HIDE DEF S, T, f
  <2>3. \A g \in Fwds : stats'[g] # Unset => stats'[g].active = Cardinality(T(g))
    BY <1>5, <2>1, <2>2 DEF FwdInv, ForwardsAccounted, ActiveIsExact, S
  <2> QED
    BY <2>3 DEF ActiveIsExact, T
<1>8. FwdTypes' /\ ConnsBelong'
  BY <1>1, <1>2, <1>3, FwdConstants DEF ConnEnds, FwdInv, FwdTypes, ConnsBelong, Counts
<1>9. TaskIsListed' /\ GotAsked' /\ AcceptingIsListed' /\ PortGivenBack'
  BY DEF ConnEnds, FwdInv, TaskIsListed, GotAsked, ForwardsAccounted, AcceptingIsListed, PortGivenBack
<1> QED
  BY <1>7, <1>8, <1>9 DEF FwdInv, ForwardsAccounted

LEMMA StageKeeps ==
  ASSUME FwdInv, NEW c \in FwdConns, PipeEnds(c) \/ \E ok \in BOOLEAN : SocksRequest(c, ok) \/ Dial(c, ok)
  PROVE  FwdInv'
<1>1. PICK st \in {"dialling", "piping", "ending"} : fconn' = [fconn EXCEPT ![c].stage = st]
  BY DEF PipeEnds, SocksRequest, Dial
<1>2. fconn[c].stage # "none" /\ UNCHANGED <<fwd, listed, stats, bound>>
  BY DEF PipeEnds, SocksRequest, Dial
<1>3. \A d \in FwdConns : fconn'[d].of = fconn[d].of
  BY <1>1 DEF FwdInv, FwdTypes
<1>4. FwdTypes' /\ ConnsBelong'
  BY <1>1, <1>2, <1>3 DEF FwdInv, FwdTypes, ConnsBelong
<1>5. \A f \in Fwds : {d \in FwdConns : fconn'[d].of = f} = {d \in FwdConns : fconn[d].of = f}
  BY <1>3
<1>6. ActiveIsExact'
  BY <1>2, <1>5 DEF FwdInv, ForwardsAccounted, ActiveIsExact
<1> QED
  BY <1>2, <1>4, <1>6
  DEF FwdInv, TaskIsListed, GotAsked, ForwardsAccounted, AcceptingIsListed, PortGivenBack

LEMMA StartKeeps ==
  ASSUME FwdInv, NEW f \in Fwds, fwd[f].kind = "none", Register(f), UNCHANGED fconn,
         NEW new \in Forwards, fwd' = [fwd EXCEPT ![f] = new], new.kind # "none", new.task # "ended",
         GotPort(new),
         \A p \in bound' : p \in bound \/ p = new.got
  PROVE  FwdInv'
<1>1. /\ ActiveIsExact' /\ stats' \in [Fwds -> Counts \cup {Unset}] /\ stats'[f] # Unset
      /\ \A g \in Fwds \ {f} : stats'[g] = stats[g]
  BY StartsCounting DEF FwdInv, ForwardsAccounted
<1>2. fwd'[f] = new /\ \A g \in Fwds \ {f} : fwd'[g] = fwd[g]
  BY DEF FwdInv, FwdTypes
<1>3. FwdTypes' /\ ConnsBelong'
  BY <1>1, <1>2 DEF FwdInv, FwdTypes, ConnsBelong
<1>4. listed' = listed \cup {f}
  BY DEF Register
<1>5. TaskIsListed' /\ AcceptingIsListed' /\ GotAsked'
  BY <1>2, <1>4 DEF FwdInv, TaskIsListed, AcceptingIsListed, GotAsked
<1>6. PortGivenBack'
  <2> SUFFICES ASSUME NEW g \in Fwds,
                      /\ fwd'[g].kind = "remote" /\ fwd'[g].task = "ended" /\ ~fwd'[g].cancelFailed
                      /\ fwd'[g].asked # 0,
                      fwd'[g].got \in bound'
               PROVE  \E h \in Fwds \ {g} : fwd'[h].got = fwd'[g].got
    BY DEF PortGivenBack
  <2>1. g # f /\ fwd'[g] = fwd[g]
    BY <1>2
  <2>2. CASE fwd[g].got = new.got
    BY <1>2, <2>1, <2>2
  <2>3. CASE fwd[g].got # new.got
    <3>1. fwd[g].got \in bound
      BY <2>1, <2>3
    <3>2. PICK h \in Fwds \ {g} : fwd[h].got = fwd[g].got
      BY <2>1, <3>1 DEF FwdInv, ForwardsAccounted, PortGivenBack
    <3>3. h # f
      BY <2>1, <3>2 DEF FwdInv, GotAsked, GotPort
    <3> QED
      BY <1>2, <2>1, <3>2, <3>3
  <2> QED
    BY <2>2, <2>3
<1> QED
  BY <1>1, <1>3, <1>5, <1>6 DEF FwdInv, ForwardsAccounted

\* A task that is told or has ended leaves the connections as they are.
LEMMA TaskKeeps ==
  ASSUME FwdInv, NEW f \in Fwds, UNCHANGED <<fconn, stats>>, NEW new \in Forwards,
         fwd' = [fwd EXCEPT ![f] = new], fwd[f].kind # "none",
         /\ new.kind = fwd[f].kind /\ new.asked = fwd[f].asked /\ new.got = fwd[f].got,
         \/ new.task = "told" /\ listed' = listed /\ f \in listed
         \/ new.task = "ended" /\ listed' = listed \ {f},
         bound' \subseteq bound,
         new.task = "ended" /\ new.kind = "remote" /\ ~new.cancelFailed => new.asked \notin bound'
  PROVE  FwdInv'
<1>1. fwd'[f] = new /\ \A g \in Fwds \ {f} : fwd'[g] = fwd[g]
  BY DEF FwdInv, FwdTypes
<1>2. \A g \in Fwds : fwd'[g].kind = fwd[g].kind /\ fwd'[g].got = fwd[g].got
                      /\ fwd'[g].asked = fwd[g].asked
  BY <1>1
<1>3. FwdTypes' /\ ConnsBelong' /\ GotAsked'
  BY <1>1, <1>2 DEF FwdInv, FwdTypes, ConnsBelong, GotAsked, GotPort
<1>4. TaskIsListed' /\ AcceptingIsListed'
  BY <1>1 DEF FwdInv, TaskIsListed, AcceptingIsListed
<1>5. ActiveIsExact'
  BY DEF FwdInv, ForwardsAccounted, ActiveIsExact
<1>6. PortGivenBack'
  <2> SUFFICES ASSUME NEW g \in Fwds,
                      /\ fwd'[g].kind = "remote" /\ fwd'[g].task = "ended" /\ ~fwd'[g].cancelFailed
                      /\ fwd'[g].asked # 0,
                      fwd'[g].got \in bound'
               PROVE  \E h \in Fwds \ {g} : fwd'[h].got = fwd'[g].got
    BY DEF PortGivenBack
  <2>1. fwd'[g].got = fwd'[g].asked
    BY <1>3 DEF GotAsked, GotPort
  <2>2. g # f /\ fwd'[g] = fwd[g]
    BY <1>1, <2>1
  <2>3. PICK h \in Fwds \ {g} : fwd[h].got = fwd[g].got
    BY <2>2 DEF FwdInv, ForwardsAccounted, PortGivenBack
  <2> QED
    BY <1>2, <2>2, <2>3
<1> QED
  BY <1>3, <1>4, <1>5, <1>6 DEF FwdInv, ForwardsAccounted

LEMMA FwdNextInv == FwdInv /\ [FwdNext]_fwdVars => FwdInv'
<1> SUFFICES ASSUME FwdInv, [FwdNext]_fwdVars PROVE FwdInv'
  OBVIOUS
<1>0. \A f \in Fwds : fwd[f] \in Forwards
  BY DEF FwdInv, FwdTypes
<1>1. ASSUME NEW f \in Fwds, NEW kind \in {"local", "dynamic"}, StartListener(f, kind)
      PROVE  FwdInv'
  <2> DEFINE new == [fwd[f] EXCEPT !.kind = kind, !.task = "accepting"]
  <2>1. new \in Forwards /\ new.kind = kind /\ new.task = "accepting" /\ new.got = fwd[f].got
    BY <1>0 DEF Forwards
  <2>2. fwd[f].kind = "none" /\ Register(f) /\ UNCHANGED <<fconn, bound>>
    BY <1>1 DEF StartListener
  <2>3. fwd' = [fwd EXCEPT ![f] = new]
    BY <1>1 DEF StartListener
  <2> HIDE DEF new
  <2>4. GotPort(new)
    BY <2>1, <2>2 DEF FwdInv, GotAsked, GotPort
  <2> QED
    BY <2>1, <2>2, <2>3, <2>4, StartKeeps
<1>2. ASSUME NEW f \in Fwds, NEW port \in Ports \cup {0}, StartRemote(f, port)
      PROVE  FwdInv'
  <2>1. PICK got \in IF port = 0 THEN Ports \ bound ELSE {port} \ bound :
          /\ bound' = bound \cup {got}
          /\ fwd' = [fwd EXCEPT ![f].kind = "remote", ![f].task = "waiting",
                                ![f].asked = port, ![f].got = got]
    BY <1>2 DEF StartRemote
  <2>2. got \in Ports /\ (port # 0 => got = port)
    BY <2>1
  <2> DEFINE new == [fwd[f] EXCEPT !.kind = "remote", !.task = "waiting", !.asked = port, !.got = got]
  <2>3. new \in Forwards /\ new.kind = "remote" /\ new.task = "waiting" /\ new.got = got /\ new.asked = port
    BY <1>0, <2>2 DEF Forwards
  <2>4. fwd[f].kind = "none" /\ Register(f) /\ UNCHANGED fconn
    BY <1>2 DEF StartRemote
  <2>5. fwd' = [fwd EXCEPT ![f] = new]
    BY <2>1
  <2> HIDE DEF new
  <2>6. GotPort(new)
    BY <2>2, <2>3, FwdConstants DEF GotPort
  <2> QED
    BY <2>1, <2>3, <2>4, <2>5, <2>6, StartKeeps
<1>3. ASSUME NEW f \in Fwds, Cancel(f) PROVE FwdInv'
  <2> DEFINE new == [fwd[f] EXCEPT !.task = "told"]
  <2>1. /\ new \in Forwards /\ new.kind = fwd[f].kind /\ new.asked = fwd[f].asked
        /\ new.got = fwd[f].got /\ new.task = "told"
    BY <1>0 DEF Forwards
  <2>2. fwd[f].kind # "none" /\ f \in listed
    BY <1>3 DEF Cancel, FwdInv, TaskIsListed
  <2>3. fwd' = [fwd EXCEPT ![f] = new] /\ UNCHANGED <<listed, stats, fconn, bound>>
    BY <1>3 DEF Cancel
  <2> HIDE DEF new
  <2> QED
    BY <2>1, <2>2, <2>3, TaskKeeps
<1>4. ASSUME NEW f \in Fwds, ListenerEnds(f) PROVE FwdInv'
  <2> DEFINE new == [fwd[f] EXCEPT !.task = "ended"]
  <2>1. /\ new \in Forwards /\ new.kind = fwd[f].kind /\ new.asked = fwd[f].asked
        /\ new.got = fwd[f].got /\ new.task = "ended"
    BY <1>0 DEF Forwards
  <2>2. fwd[f].kind # "none" /\ fwd[f].kind # "remote"
    BY <1>4 DEF ListenerEnds, FwdInv, TaskIsListed
  <2>3. fwd' = [fwd EXCEPT ![f] = new] /\ listed' = listed \ {f} /\ UNCHANGED <<stats, fconn, bound>>
    BY <1>4 DEF ListenerEnds
  <2> HIDE DEF new
  <2> QED
    BY <2>1, <2>2, <2>3, TaskKeeps
<1>5. ASSUME NEW f \in Fwds, NEW ok \in BOOLEAN, RemoteEnds(f, ok) PROVE FwdInv'
  <2>0. PICK failed \in BOOLEAN : failed = ~ok
    OBVIOUS
  <2> DEFINE new == [fwd[f] EXCEPT !.task = "ended", !.cancelFailed = failed]
  <2>1. /\ new \in Forwards /\ new.kind = fwd[f].kind /\ new.asked = fwd[f].asked
        /\ new.got = fwd[f].got /\ new.task = "ended" /\ new.cancelFailed = failed
    BY <1>0 DEF Forwards
  <2>2. fwd[f].kind = "remote"
    BY <1>5 DEF RemoteEnds
  <2>3. fwd' = [fwd EXCEPT ![f] = new] /\ listed' = listed \ {f} /\ UNCHANGED <<stats, fconn>>
    BY <1>5, <2>0 DEF RemoteEnds
  <2>4. bound' \subseteq bound /\ (ok => fwd[f].asked \notin bound')
    BY <1>5 DEF RemoteEnds, CancelPort
  <2> HIDE DEF new
  <2> QED
    BY <2>0, <2>1, <2>2, <2>3, <2>4, TaskKeeps
<1>6. CASE UNCHANGED fwdVars
  BY <1>6 DEF fwdVars, FwdInv, FwdTypes, ConnsBelong, TaskIsListed, GotAsked, GotPort,
     ForwardsAccounted, ActiveIsExact, AcceptingIsListed, PortGivenBack
<1> QED
  BY <1>1, <1>2, <1>3, <1>4, <1>5, <1>6, AcceptCounts, EndCounts, StageKeeps DEF FwdNext

\* The counters, the list and the ports of the forwards stay right for any set
\* of forwards, connections and ports (start_local, start_dynamic,
\* start_remote).
THEOREM ForwardsAlwaysAccounted == SshSpec => []ForwardsAccounted
<1>1. SshInit => FwdInv
  BY FwdInitInv DEF SshInit
<1>2. FwdInv /\ [SshNext]_sshVars => FwdInv'
  BY ComponentSteps, FwdNextInv
<1>3. FwdInv => ForwardsAccounted
  BY DEF FwdInv
<1> QED
  BY <1>1, <1>2, <1>3, PTL DEF SshSpec

(***************************************************************************)
(* The SFTP server: sizes and listings.                                    *)
(***************************************************************************)

FileHandles ==
  [kind: {"file"}, ino: Inodes, path: Names, write: BOOLEAN, append: BOOLEAN]

DirHandles ==
  [kind: {"dir"}, all: SUBSET Names, left: SUBSET Names, sent: SUBSET Names, gone: SUBSET Names,
   first: BOOLEAN, done: BOOLEAN]

Entries == Inodes \cup {Nil} \cup {Link(m) : m \in Names}

SftpTypes ==
  /\ dir \in [Names -> Entries]
  /\ size \in [Inodes -> Nat \cup {Nil}]
  /\ hnd \in [Handles -> {Nil} \cup FileHandles \cup DirHandles]

\* A file that has a name or is open exists.
FilesExist ==
  /\ \A n \in Names : dir[n] \in Inodes => size[dir[n]] # Nil
  /\ \A h \in Handles : hnd[h] # Nil /\ hnd[h].kind = "file" => size[hnd[h].ino] # Nil

\* A listing under way has lost nothing: what was there is still to be read, was
\* sent, or was found gone.
ListingWhole(d) ==
  /\ d.all = d.left \cup d.sent \cup d.gone
  /\ d.done => d.left = {}

ListingsWhole ==
  \A h \in Handles : hnd[h] # Nil /\ hnd[h].kind = "dir" => ListingWhole(hnd[h])

SftpInv == SftpTypes /\ FilesExist /\ ListingsWhole /\ SizeBounded

LEMMA ListingsAreComplete == SftpInv => SftpKeepsTrack
BY DEF SftpInv, ListingsWhole, ListingWhole, SftpKeepsTrack, ListingComplete

LEMMA SftpInitInv == SftpInit => SftpInv
BY SftpConstants DEF SftpInit, SftpInv, SftpTypes, Entries, FilesExist, ListingsWhole, SizeBounded

\* resolve_path stays in the directory.
LEMMA ResolveIsName ==
  ASSUME NEW n \in Names
  PROVE  Resolve(n) \in Names
BY DEF Resolve, IsLink, Link

\* A handle is opened, read on or closed; files and names stay.
LEMMA HandleKeeps ==
  ASSUME SftpInv, NEW h \in Handles, NEW new \in {Nil} \cup DirHandles,
         new # Nil => ListingWhole(new),
         hnd' = [hnd EXCEPT ![h] = new], UNCHANGED <<dir, size, over>>
  PROVE  SftpInv'
<1>1. hnd'[h] = new /\ \A g \in Handles \ {h} : hnd'[g] = hnd[g]
  BY DEF SftpInv, SftpTypes
<1>2. new # Nil => new.kind = "dir"
  BY DEF DirHandles
<1>3. SftpTypes'
  BY DEF SftpInv, SftpTypes
<1>4. FilesExist'
  BY <1>1, <1>2 DEF SftpInv, FilesExist
<1>5. ListingsWhole' /\ SizeBounded'
  BY <1>1 DEF SftpInv, ListingsWhole, SizeBounded
<1> QED
  BY <1>3, <1>4, <1>5 DEF SftpInv

LEMMA ReadDirKeeps ==
  ASSUME SftpInv, NEW h \in Handles, ReadDir(h)
  PROVE  SftpInv'
<1> DEFINE d == hnd[h]
<1>1. d \in DirHandles /\ ListingWhole(d) /\ ~d.done
  BY DEF ReadDir, SftpInv, SftpTypes, FileHandles, ListingsWhole
<1>2. PICK batch \in SUBSET d.left :
        hnd' = [hnd EXCEPT ![h].left = @ \ batch, ![h].first = FALSE,
                           ![h].sent = @ \cup {n \in batch : dir[n] # Nil},
                           ![h].gone = @ \cup {n \in batch : dir[n] = Nil},
                           ![h].done = (hnd[h].left = batch)]
  BY DEF ReadDir, Replies
<1>3. PICK left \in SUBSET Names, sent \in SUBSET Names, gone \in SUBSET Names, done \in BOOLEAN :
        /\ left = d.left \ batch /\ sent = d.sent \cup {n \in batch : dir[n] # Nil}
        /\ gone = d.gone \cup {n \in batch : dir[n] = Nil} /\ done = (d.left = batch)
  BY <1>1 DEF DirHandles
<1> DEFINE new == [d EXCEPT !.left = left, !.first = FALSE, !.sent = sent, !.gone = gone, !.done = done]
<1>4. hnd' = [hnd EXCEPT ![h] = new]
  BY <1>2, <1>3
<1>5. new \in DirHandles /\ new.all = d.all /\ new.left = left /\ new.sent = sent /\ new.gone = gone
      /\ new.done = done
  BY <1>1 DEF DirHandles
<1> HIDE DEF new
<1>6. ListingWhole(new)
  <2>1. d.left \cup d.sent \cup d.gone = left \cup sent \cup gone
    BY <1>3
  <2>2. done => left = {}
    BY <1>3
  <2> QED
    BY <1>1, <1>5, <2>1, <2>2 DEF ListingWhole
<1> QED
  BY <1>4, <1>5, <1>6, HandleKeeps DEF ReadDir

LEMMA NoWrap ==
  ASSUME NEW a \in Nat, NEW b \in Nat, a < b
  PROVE  a % b = a
OBVIOUS

\* A write: the check on the wrapped sum is a check on the sum, because the seek
\* refuses the offsets whose sum would wrap past the largest one.
LEMMA WriteKeeps ==
  ASSUME SftpInv, NEW h \in Handles, NEW offset \in 0..OffMax, NEW n \in 1..2, WriteFile(h, offset, n)
  PROVE  SftpInv'
<1> DEFINE i == hnd[h].ino
<1>1. hnd[h] \in FileHandles /\ i \in Inodes /\ size[i] \in Nat /\ MaxSize \in Nat /\ OffMax \in Nat
  BY SftpConstants DEF WriteFile, SftpInv, SftpTypes, FileHandles, DirHandles, FilesExist
<1>2. PICK end \in Nat : /\ size' = [size EXCEPT ![i] = IF end > @ THEN end ELSE @]
                         /\ end <= MaxSize \/ i \in over'
  <2>1. CASE hnd[h].append
    <3>1. size[i] + n \in Nat /\ i \in over'
      BY <1>1, <2>1 DEF WriteFile
    <3> QED
      BY <2>1, <3>1 DEF WriteFile
  <2>2. CASE ~hnd[h].append
    <3>1. offset + n \in Nat /\ offset + n <= OffMax /\ OffMax + 1 \in Nat
      BY <1>1, <2>2 DEF WriteFile
    <3>2. (offset + n) % (OffMax + 1) = offset + n
      <4> HIDE DEF i
      <4> QED
        BY <3>1, <1>1, NoWrap
    <3>3. offset + n <= MaxSize
      BY <3>2 DEF WriteFile, NewSize
    <3> QED
      BY <2>2, <3>1, <3>3 DEF WriteFile
  <2> QED
    BY <2>1, <2>2
<1>3. PICK k \in Nat : k = IF end > size[i] THEN end ELSE size[i]
  BY <1>1
<1>4. size' = [size EXCEPT ![i] = k]
  BY <1>2, <1>3
<1>5. UNCHANGED <<dir, hnd>> /\ over \subseteq over'
  BY DEF WriteFile
<1> HIDE DEF i
<1>6. size'[i] = k /\ k # Nil /\ \A j \in Inodes \ {i} : size'[j] = size[j]
  BY <1>1, <1>4, SftpConstants DEF SftpInv, SftpTypes
<1>7. SftpTypes' /\ FilesExist' /\ ListingsWhole'
  BY <1>1, <1>4, <1>5, <1>6 DEF SftpInv, SftpTypes, FilesExist, ListingsWhole
<1>8. k <= MaxSize \/ i \in over'
  BY <1>1, <1>2, <1>3, <1>5, SftpConstants DEF SftpInv, SizeBounded
<1>9. SizeBounded'
  BY <1>5, <1>6, <1>8 DEF SftpInv, SizeBounded
<1> QED
  BY <1>7, <1>9 DEF SftpInv

\* A file is opened, truncated or made.
LEMMA OpenKeeps ==
  ASSUME SftpInv, NEW n \in Names, NEW h \in Handles, NEW flags, OpenFile(n, h, flags)
  PROVE  SftpInv'
<1> DEFINE path == Resolve(n)
<1>1. path \in Names
  BY ResolveIsName
<1>m. Created(path) \in Names
  BY <1>1 DEF Created, IsLink, Link
<1>2. PICK i \in Inodes, m \in Names, w \in BOOLEAN, a \in BOOLEAN :
        /\ hnd' = [hnd EXCEPT ![h] = [kind |-> "file", ino |-> i, path |-> path, write |-> w, append |-> a]]
        /\ \/ dir' = dir /\ size[i] # Nil
           \/ dir' = [dir EXCEPT ![m] = i] /\ size' = [size EXCEPT ![i] = 0]
        /\ size' = size \/ size' = [size EXCEPT ![i] = 0]
  <2> DEFINE isWrite == flags \cap {"write", "create", "truncate", "append"} # {}
  <2>0. PICK w \in BOOLEAN : w = isWrite
    OBVIOUS
  <2>1. PICK a \in BOOLEAN : a = ("append" \in flags)
    <3>1. CASE "append" \in flags
      BY <3>1
    <3>2. CASE "append" \notin flags
      <4>1. FALSE = ("append" \in flags)
        BY <3>2
      <4> QED
        BY <4>1
    <3> QED
      BY <3>1, <3>2
  <2>2. CASE IsFile(path)
    <3>1. dir[path] \in Inodes /\ size[dir[path]] # Nil
      BY <1>1, <2>2 DEF IsFile, SftpInv, FilesExist
    <3>2. hnd' = [hnd EXCEPT ![h] = [kind |-> "file", ino |-> dir[path], path |-> path,
                                     write |-> w, append |-> a]] /\ dir' = dir
      BY <2>0, <2>1, <2>2 DEF OpenFile
    <3>3. size' = size \/ size' = [size EXCEPT ![dir[path]] = 0]
      BY <2>2 DEF OpenFile
    <3> HIDE DEF path
    <3> QED
      BY <1>m, <3>1, <3>2, <3>3
  <2>3. CASE ~IsFile(path)
    <3>1. PICK i \in Inodes :
            /\ dir' = [dir EXCEPT ![Created(path)] = i]
            /\ size' = [size EXCEPT ![i] = 0]
            /\ hnd' = [hnd EXCEPT ![h] = [kind |-> "file", ino |-> i, path |-> path,
                                          write |-> TRUE, append |-> a]]
      BY <2>1, <2>3 DEF OpenFile, Fresh
    <3> HIDE DEF path
    <3> QED
      BY <1>m, <3>1
  <2> QED
    BY <2>2, <2>3
<1> DEFINE new == [kind |-> "file", ino |-> i, path |-> path, write |-> w, append |-> a]
<1>3. new \in FileHandles /\ new.kind = "file" /\ new.ino = i
  BY <1>1 DEF FileHandles
<1>4. UNCHANGED over
  BY DEF OpenFile
<1> HIDE DEF path, new
<1>5. hnd'[h] = new /\ \A g \in Handles \ {h} : hnd'[g] = hnd[g]
  BY <1>2 DEF SftpInv, SftpTypes, new
<1>6. \A j \in Inodes : size'[j] = size[j] \/ size'[j] = 0
  BY <1>2 DEF SftpInv, SftpTypes
<1>7. SftpTypes'
  <2>1. dir' \in [Names -> Entries]
    BY <1>1, <1>2 DEF SftpInv, SftpTypes, Entries
  <2>2. size' \in [Inodes -> Nat \cup {Nil}]
    BY <1>2 DEF SftpInv, SftpTypes
  <2>3. hnd' \in [Handles -> {Nil} \cup FileHandles \cup DirHandles]
    BY <1>2, <1>3 DEF SftpInv, SftpTypes, new
  <2> QED
    BY <2>1, <2>2, <2>3 DEF SftpTypes
<1>8. size'[i] # Nil /\ \A j \in Inodes : size[j] # Nil => size'[j] # Nil
  BY <1>2, <1>6, SftpConstants DEF SftpInv, SftpTypes
<1>9. FilesExist'
  <2>1. \A l \in Names : dir'[l] = dir[l] \/ dir'[l] = i
    BY <1>2 DEF SftpInv, SftpTypes
  <2>2. \A l \in Names : dir'[l] \in Inodes => size'[dir'[l]] # Nil
    BY <1>8, <2>1 DEF SftpInv, FilesExist
  <2>3. ASSUME NEW g \in Handles, hnd'[g] # Nil, hnd'[g].kind = "file" PROVE size'[hnd'[g].ino] # Nil
    <3>1. CASE g = h
      BY <1>3, <1>5, <1>8, <3>1
    <3>2. CASE g # h
      <4>1. hnd[g] \in FileHandles /\ hnd'[g] = hnd[g]
        BY <1>5, <2>3, <3>2 DEF SftpInv, SftpTypes, DirHandles
      <4> QED
        BY <1>8, <2>3, <4>1 DEF SftpInv, FilesExist, FileHandles
    <3> QED
      BY <3>1, <3>2
  <2> QED
    BY <2>2, <2>3 DEF FilesExist
<1>10. ListingsWhole'
  BY <1>3, <1>5 DEF SftpInv, ListingsWhole
<1>11. SizeBounded'
  BY <1>4, <1>6, SftpConstants DEF SftpInv, SizeBounded
<1> QED
  BY <1>7, <1>9, <1>10, <1>11 DEF SftpInv

\* Names go or change; a file without a name or a handle is given back.
LEMMA NamesKeep ==
  ASSUME SftpInv, NEW d \in [Names -> Entries], dir' = d, UNCHANGED <<hnd, over>>,
         \A n \in Names : d[n] \in Inodes => \E m \in Names : dir[m] = d[n],
         \/ UNCHANGED size
         \/ \E i \in Inodes : Reclaim(dir', i)
  PROVE  SftpInv'
<1>1. \A n \in Names : d[n] \in Inodes => size[d[n]] # Nil
  BY DEF SftpInv, FilesExist
<1>2. CASE UNCHANGED size
  BY <1>1, <1>2 DEF SftpInv, SftpTypes, FilesExist, ListingsWhole, SizeBounded
<1>3. ASSUME NEW i \in Inodes, Reclaim(dir', i) PROVE SftpInv'
  <2> DEFINE used == (\E n \in Names : d[n] = i)
                     \/ \E h \in Handles : hnd[h] # Nil /\ hnd[h].kind = "file" /\ hnd[h].ino = i
  <2>1. size' = [size EXCEPT ![i] = IF used THEN @ ELSE Nil]
    BY <1>3 DEF Reclaim
  <2>2. \A j \in Inodes : size'[j] = size[j] \/ (size'[j] = Nil /\ j = i /\ ~used)
    BY <2>1 DEF SftpInv, SftpTypes
  <2>3. SftpTypes'
    BY <2>1 DEF SftpInv, SftpTypes
  <2>4. \A n \in Names : dir'[n] \in Inodes => size'[dir'[n]] # Nil
    BY <1>1, <2>2
  <2>5. ASSUME NEW h \in Handles, hnd[h] # Nil, hnd[h].kind = "file" PROVE size'[hnd[h].ino] # Nil
    <3>1. hnd[h].ino \in Inodes /\ size[hnd[h].ino] # Nil
      BY <2>5 DEF SftpInv, SftpTypes, FilesExist, FileHandles, DirHandles
    <3> QED
      BY <2>2, <2>5, <3>1
  <2>6. SizeBounded'
    BY <2>2 DEF SftpInv, SizeBounded
  <2> QED
    BY <2>3, <2>4, <2>5, <2>6 DEF SftpInv, FilesExist, ListingsWhole
<1> QED
  BY <1>2, <1>3

LEMMA SftpNextInv == SftpInv /\ [SftpNext]_sftpVars => SftpInv'
<1> SUFFICES ASSUME SftpInv, [SftpNext]_sftpVars PROVE SftpInv'
  OBVIOUS
<1>1. ASSUME NEW h \in Handles, CloseHandle(h) PROVE SftpInv'
  BY <1>1, HandleKeeps DEF CloseHandle
<1>2. ASSUME NEW h \in Handles, OpenDir(h) PROVE SftpInv'
  <2> DEFINE all == {n \in Names : dir[n] # Nil}
             new == [kind |-> "dir", all |-> all, left |-> all, sent |-> {}, gone |-> {},
                     first |-> TRUE, done |-> FALSE]
  <2>1. new \in DirHandles /\ ListingWhole(new)
    BY DEF DirHandles, ListingWhole
  <2>2. hnd' = [hnd EXCEPT ![h] = new] /\ UNCHANGED <<dir, size, over>>
    BY <1>2 DEF OpenDir
  <2> HIDE DEF new
  <2> QED
    BY <2>1, <2>2, HandleKeeps
<1>3. ASSUME NEW n \in Names, RemoveFile(n) PROVE SftpInv'
  <2> DEFINE p == Resolve(n)
             d == [dir EXCEPT ![p] = Nil]
  <2>1. p \in Names /\ dir' = d
    BY <1>3, ResolveIsName DEF RemoveFile
  <2>2. UNCHANGED size \/ \E i \in Inodes : Reclaim(dir', i)
    BY <1>3 DEF RemoveFile, IsFile
  <2>3. UNCHANGED <<hnd, over>>
    BY <1>3 DEF RemoveFile
  <2> HIDE DEF p
  <2>4. d \in [Names -> Entries] /\ \A m \in Names : d[m] \in Inodes => d[m] = dir[m]
    BY <2>1, SftpConstants DEF SftpInv, SftpTypes, Entries
  <2> HIDE DEF d
  <2> QED
    BY <2>1, <2>2, <2>3, <2>4, NamesKeep
<1>4. ASSUME NEW old \in Names, NEW new \in Names, RenameFile(old, new) PROVE SftpInv'
  <2> DEFINE o == Resolve(old)
             n == Resolve(new)
             d == [dir EXCEPT ![n] = dir[o], ![o] = Nil]
  <2>1. o \in Names /\ n \in Names /\ dir' = d /\ o # n
    BY <1>4, ResolveIsName DEF RenameFile
  <2>2. UNCHANGED size \/ \E i \in Inodes : Reclaim(dir', i)
    BY <1>4 DEF RenameFile, IsFile
  <2>3. UNCHANGED <<hnd, over>>
    BY <1>4 DEF RenameFile
  <2> HIDE DEF o, n
  <2>4. d \in [Names -> Entries]
        /\ \A m \in Names : d[m] \in Inodes => d[m] = dir[m] \/ d[m] = dir[o]
    BY <2>1, SftpConstants DEF SftpInv, SftpTypes, Entries
  <2> HIDE DEF d
  <2> QED
    BY <2>1, <2>2, <2>3, <2>4, NamesKeep
<1>5. ASSUME NEW link \in Names, NEW target \in Names, Symlink(link, target) PROVE SftpInv'
  <2> DEFINE d == [dir EXCEPT ![link] = Link(target)]
  <2>1. dir' = d /\ UNCHANGED <<size, hnd, over>>
    BY <1>5 DEF Symlink
  <2>2. Link(target) \notin Inodes
    BY SftpConstants DEF Link
  <2>3. d \in [Names -> Entries] /\ \A m \in Names : d[m] \in Inodes => d[m] = dir[m]
    BY <2>2 DEF SftpInv, SftpTypes, Entries
  <2> HIDE DEF d
  <2> QED
    BY <2>1, <2>3, NamesKeep
<1>6. CASE UNCHANGED sftpVars
  BY <1>6 DEF sftpVars, SftpInv, SftpTypes, FilesExist, ListingsWhole, SizeBounded
<1> QED
  BY <1>1, <1>2, <1>3, <1>4, <1>5, <1>6, ReadDirKeeps, WriteKeeps, OpenKeeps DEF SftpNext

\* Listings are complete and sizes bounded for any directory, any files and any
\* limits: the inductive invariant says that a file with a name or a handle
\* exists and that a listing under way has lost nothing (readdir, write, open).
THEOREM SftpAlwaysKeepsTrack == SshSpec => []SftpKeepsTrack
<1>1. SshInit => SftpInv
  BY SftpInitInv DEF SshInit
<1>2. SftpInv /\ [SshNext]_sshVars => SftpInv'
  BY ComponentSteps, SftpNextInv
<1> QED
  BY <1>1, <1>2, ListingsAreComplete, PTL DEF SshSpec

(***************************************************************************)
(* The host keys of the standalone servers.                                *)
(***************************************************************************)

ServerRecords ==
  [run: {"down", "saving", "up"}, key: Nat \cup {Nobody}, kept: BOOLEAN,
   shown: Nat \cup {Nobody}, misread: BOOLEAN]

\* The first key a server showed is the one in its file, as long as the file was
\* read when it was there; while a key is being saved none was shown before.
KeyKept(srv, f) ==
  srv.kept /\ ~srv.misread =>
    /\ srv.shown # Nobody => f = srv.shown
    /\ srv.run = "saving" => srv.shown = Nobody
    /\ srv.run = "up" => srv.key = srv.shown

HostKeyInv ==
  /\ lastKey \in Nat
  /\ server \in [Servers -> ServerRecords]
  /\ keyFile \in [Servers -> Nat \cup {Nobody, Damaged}]
  /\ \A s \in Servers : /\ KeyKept(server[s], keyFile[s])
                        /\ server[s].run = "saving" => server[s].kept /\ server[s].key \in Nat

LEMMA HostKeyInit == CliInit => HostKeyInv
<1> SUFFICES ASSUME CliInit PROVE HostKeyInv
  OBVIOUS
<1>1. ASSUME NEW s \in Servers
      PROVE  server[s] \in ServerRecords /\ server[s].run = "down" /\ server[s].shown = Nobody
  <2>1. PICK k \in BOOLEAN : server[s] = StoppedServer(k)
    BY DEF CliInit
  <2> QED
    BY <2>1 DEF StoppedServer, ServerRecords
<1>2. server \in [Servers -> ServerRecords]
  BY <1>1 DEF CliInit
<1> QED
  BY <1>1, <1>2 DEF CliInit, HostKeyInv, KeyKept

\* One server and its file change.
LEMMA ServerMoves ==
  ASSUME HostKeyInv, NEW s \in Servers, NEW srv \in ServerRecords,
         NEW f \in Nat \cup {Nobody, Damaged},
         server' = [server EXCEPT ![s] = srv], keyFile' = [keyFile EXCEPT ![s] = f],
         lastKey' \in Nat, KeyKept(srv, f), srv.run = "saving" => srv.kept /\ srv.key \in Nat
  PROVE  HostKeyInv'
<1>1. /\ server'[s] = srv /\ keyFile'[s] = f
      /\ \A t \in Servers \ {s} : server'[t] = server[t] /\ keyFile'[t] = keyFile[t]
  BY DEF HostKeyInv
<1>2. /\ server' \in [Servers -> ServerRecords]
      /\ keyFile' \in [Servers -> Nat \cup {Nobody, Damaged}]
  BY DEF HostKeyInv
<1> QED
  BY <1>1, <1>2 DEF HostKeyInv

LEMMA ServedIsRecord ==
  ASSUME NEW srv \in ServerRecords, NEW k \in Nat
  PROVE  /\ Serves(srv, k) \in ServerRecords
         /\ Serves(srv, k).run = "up" /\ Serves(srv, k).key = k
         /\ Serves(srv, k).kept = srv.kept /\ Serves(srv, k).misread = srv.misread
         /\ Serves(srv, k).shown = IF srv.shown = Nobody THEN k ELSE srv.shown
BY DEF ServerRecords, Serves

LEMMA LoadKeeps ==
  ASSUME HostKeyInv, NEW s \in Servers, NEW reads \in BOOLEAN, LoadOrGenerateKeys(s, reads)
  PROVE  HostKeyInv'
<1> DEFINE srv == server[s]
           f == keyFile[s]
<1>0. srv \in ServerRecords /\ f \in Nat \cup {Nobody, Damaged} /\ KeyKept(srv, f) /\ lastKey \in Nat
  BY DEF HostKeyInv
<1>1. keyFile = [keyFile EXCEPT ![s] = f]
  BY DEF HostKeyInv
<1>2. CASE HasKey(s) /\ reads
  <2>1. f \in Nat /\ srv.kept
    BY <1>0, <1>2 DEF HasKey
  <2>2. /\ server' = [server EXCEPT ![s] = Serves(srv, f)]
        /\ keyFile' = keyFile /\ lastKey' = lastKey
    BY <1>2 DEF LoadOrGenerateKeys
  <2> DEFINE new == Serves(srv, f)
  <2>3. /\ new \in ServerRecords /\ new.run = "up" /\ new.key = f
        /\ new.kept = srv.kept /\ new.misread = srv.misread
        /\ new.shown = IF srv.shown = Nobody THEN f ELSE srv.shown
    BY <1>0, <2>1, ServedIsRecord
  <2> HIDE DEF new
  <2>4. KeyKept(new, f)
    BY <1>0, <2>1, <2>3 DEF KeyKept
  <2> QED
    BY <1>0, <1>1, <2>2, <2>3, <2>4, ServerMoves DEF new
<1>3. CASE ~(HasKey(s) /\ reads)
  <2>1. lastKey' = lastKey + 1 /\ lastKey' \in Nat
    BY <1>0, <1>3 DEF LoadOrGenerateKeys
  <2>2. CASE ~srv.kept
    <3>1. /\ server' = [server EXCEPT ![s] = Serves(srv, lastKey')] /\ keyFile' = keyFile
      BY <1>3, <2>2 DEF LoadOrGenerateKeys
    <3> DEFINE new == Serves(srv, lastKey')
    <3>2. new \in ServerRecords /\ new.run = "up" /\ new.kept = srv.kept
      BY <1>0, <2>1, ServedIsRecord
    <3> HIDE DEF new
    <3>3. KeyKept(new, f)
      BY <2>2, <3>2 DEF KeyKept
    <3> QED
      BY <1>0, <1>1, <2>1, <3>1, <3>2, <3>3, ServerMoves DEF new
  <2>3. CASE srv.kept
    <3> DEFINE k == lastKey'
               new == Saves(srv, k, HasKey(s))
    <3>1. server' = [server EXCEPT ![s] = new] /\ keyFile' = [keyFile EXCEPT ![s] = Damaged]
      BY <1>3, <2>3 DEF LoadOrGenerateKeys
    <3>2. k \in Nat
      BY <2>1
    <3>3. HasKey(s) \in BOOLEAN
      BY DEF HasKey
    <3> HIDE DEF k
    <3>4. /\ new \in ServerRecords /\ new.run = "saving" /\ new.key = k /\ new.kept = srv.kept
          /\ new.misread = (srv.misread \/ HasKey(s)) /\ new.shown = srv.shown
      BY <1>0, <3>2, <3>3 DEF ServerRecords, Saves
    <3> HIDE DEF new
    <3>5. ~new.misread => srv.shown = Nobody
      BY <1>0, <2>3, <3>4, ClientConstants DEF KeyKept, HasKey, ServerRecords
    <3>6. KeyKept(new, Damaged)
      BY <3>4, <3>5 DEF KeyKept
    <3> QED
      BY <1>0, <2>1, <2>3, <3>1, <3>2, <3>4, <3>6, ServerMoves
  <2> QED
    BY <2>2, <2>3
<1> QED
  BY <1>2, <1>3

LEMMA SaveKeeps ==
  ASSUME HostKeyInv, NEW s \in Servers, NEW written \in BOOLEAN, NEW ok \in BOOLEAN,
         SaveHostKey(s, written, ok)
  PROVE  HostKeyInv'
<1> DEFINE srv == server[s]
           f == keyFile[s]
           g == IF written THEN srv.key ELSE f
<1>0. /\ srv \in ServerRecords /\ f \in Nat \cup {Nobody, Damaged} /\ KeyKept(srv, f)
      /\ srv.run = "saving" /\ srv.kept /\ srv.key \in Nat /\ lastKey' \in Nat
  BY DEF HostKeyInv, SaveHostKey
<1>1. keyFile' = [keyFile EXCEPT ![s] = g] /\ g \in Nat \cup {Nobody, Damaged}
  BY <1>0 DEF HostKeyInv, SaveHostKey
<1>2. CASE ok
  <2>1. server' = [server EXCEPT ![s] = Serves(srv, srv.key)] /\ g = srv.key
    BY <1>2 DEF SaveHostKey
  <2> DEFINE new == Serves(srv, srv.key)
  <2>2. /\ new \in ServerRecords /\ new.run = "up" /\ new.key = srv.key
        /\ new.kept = srv.kept /\ new.misread = srv.misread
        /\ new.shown = IF srv.shown = Nobody THEN srv.key ELSE srv.shown
    BY <1>0, ServedIsRecord
  <2> HIDE DEF new
  <2>3. KeyKept(new, g)
    BY <1>0, <2>1, <2>2 DEF KeyKept
  <2> QED
    BY <1>0, <1>1, <2>1, <2>2, <2>3, ServerMoves DEF new
<1>3. CASE ~ok
  <2> DEFINE new == [srv EXCEPT !.run = "down"]
  <2>1. server' = [server EXCEPT ![s] = new]
    BY <1>3 DEF SaveHostKey
  <2>2. /\ new \in ServerRecords /\ new.run = "down" /\ new.kept = srv.kept
        /\ new.misread = srv.misread /\ new.shown = srv.shown
    BY <1>0 DEF ServerRecords
  <2> HIDE DEF new
  <2>3. KeyKept(new, g)
    BY <1>0, <2>2 DEF KeyKept
  <2> QED
    BY <1>0, <1>1, <2>1, <2>2, <2>3, ServerMoves
<1> QED
  BY <1>2, <1>3

LEMMA CliNextInv == HostKeyInv /\ [CliNext]_cliVars => HostKeyInv'
<1> SUFFICES ASSUME HostKeyInv, [CliNext]_cliVars PROVE HostKeyInv'
  OBVIOUS
<1>1. ASSUME NEW s \in Servers, StopServer(s) PROVE HostKeyInv'
  <2> DEFINE srv == server[s]
             new == [srv EXCEPT !.run = "down"]
  <2>1. server' = [server EXCEPT ![s] = new] /\ keyFile' = [keyFile EXCEPT ![s] = keyFile[s]]
        /\ lastKey' \in Nat
    BY <1>1 DEF StopServer, HostKeyInv
  <2>2. /\ srv \in ServerRecords /\ keyFile[s] \in Nat \cup {Nobody, Damaged}
        /\ KeyKept(srv, keyFile[s])
    BY DEF HostKeyInv
  <2>3. /\ new \in ServerRecords /\ new.run = "down" /\ new.kept = srv.kept
        /\ new.misread = srv.misread /\ new.shown = srv.shown
    BY <2>2 DEF ServerRecords
  <2> HIDE DEF new
  <2>4. KeyKept(new, keyFile[s])
    BY <2>2, <2>3 DEF KeyKept
  <2> QED
    BY <2>1, <2>2, <2>3, <2>4, ServerMoves
<1>2. CASE UNCHANGED <<lastKey, keyFile, server>>
  BY <1>2 DEF HostKeyInv
<1>3. ASSUME NEW s \in Servers, (\E n \in Hosts : AddPeer(n, s)) \/ RemovePeers({s})
      PROVE  HostKeyInv'
  BY <1>2, <1>3 DEF AddPeer, RemovePeers
<1>4. CASE RemovePeers(Servers)
  BY <1>2, <1>4 DEF RemovePeers
<1>5. ASSUME NEW c \in Clients,
             \/ \E mode \in Modes, h \in Hosts, s \in Servers : Connect(c, mode, h, s)
             \/ \E b \in BOOLEAN : CheckServerKey(c, b) \/ Authenticate(c, b)
             \/ LeaveClient(c) \/ OpenStore(c)
             \/ \E h \in Hosts : RemoveHost(c, h)
      PROVE  HostKeyInv'
  BY <1>2, <1>5 DEF Connect, CheckServerKey, Authenticate, LeaveClient, OpenStore, RemoveHost
<1>6. CASE UNCHANGED cliVars
  BY <1>2, <1>6 DEF cliVars
<1> QED
  BY <1>1, <1>3, <1>4, <1>5, <1>6, LoadKeeps, SaveKeeps DEF CliNext

\* A server with a key file answers with one key for ever, unless its good file was
\* misread, for any servers, clients and number of crashes, restarts and failed
\* saves (load_or_generate_keys, save_host_key).
THEOREM HostKeyAlwaysStays == SshSpec => []HostKeyStays
<1>1. SshInit => HostKeyInv
  BY HostKeyInit DEF SshInit
<1>2. HostKeyInv /\ [SshNext]_sshVars => HostKeyInv'
  BY ComponentSteps, CliNextInv
<1>3. HostKeyInv => HostKeyStays
  BY DEF HostKeyInv, KeyKept, HostKeyStays
<1> QED
  BY <1>1, <1>2, <1>3, PTL DEF SshSpec

(***************************************************************************)
(* The recorder.                                                           *)
(***************************************************************************)

Hashes == Seq(Nat) \cup {NoHash}

Chunks == [num: Nat, data: Seq(Nat), prev: Hashes]

Sealers == [buf: Seq(Nat), num: Nat, prev: Hashes, failed: BOOLEAN, seen: SUBSET Nat]

\* The hash the next chunk of a file must carry.
LastHash(chunks) == IF chunks = <<>> THEN NoHash ELSE chunks[Len(chunks)].data

\* The lines of the chunks.
Filed(chunks) == UNION {ToSet(chunks[i].data) : i \in 1..Len(chunks)}

\* The chain of the file, the sealer behind it and the lines in both: without a
\* failure the sealer holds the hash of the last chunk; after one, and until a
\* chunk is written, it holds a hash that begins with a line the file does not
\* have.
ChainInv(s, chunks, skip) ==
  /\ s \in Sealers /\ chunks \in Seq(Chunks)
  /\ Verifies(chunks) <=> ~skip
  /\ skip => s.failed
  /\ ~s.failed => s.prev = LastHash(chunks)
  /\ s.failed /\ ~skip => s.buf # <<>> /\ s.prev \in Seq(Nat) /\ s.prev # <<>> /\ s.prev[1] = s.buf[1]
  /\ s.buf # <<>> => s.buf[1] \in s.seen
  /\ chunks # <<>> => /\ LastHash(chunks) \in Seq(Nat) /\ LastHash(chunks) # <<>>
                      /\ LastHash(chunks)[1] \in s.seen
                      /\ s.buf # <<>> => LastHash(chunks)[1] < s.buf[1]
                      /\ chunks[1].data[1] = 0 \/ s.failed
  /\ chunks = <<>> /\ s.buf # <<>> => s.buf[1] = 0 \/ s.failed
  /\ s.seen = ToSet(s.buf) \cup Filed(chunks)

LEMMA OneMore ==
  ASSUME NEW b \in Seq(Nat), NEW line \in Nat
  PROVE  ToSet(Append(b, line)) = ToSet(b) \cup {line}
<1>1. /\ Len(Append(b, line)) = Len(b) + 1 /\ Append(b, line)[Len(b) + 1] = line
      /\ \A i \in 1..Len(b) : Append(b, line)[i] = b[i]
      /\ DOMAIN b = 1..Len(b) /\ DOMAIN Append(b, line) = 1..(Len(b) + 1) /\ Len(b) \in Nat
  OBVIOUS
<1> QED
  BY <1>1 DEF ToSet

LEMMA FiledOneMore ==
  ASSUME NEW chunks \in Seq(Chunks), NEW c \in Chunks
  PROVE  Filed(Append(chunks, c)) = Filed(chunks) \cup ToSet(c.data)
<1> DEFINE more == Append(chunks, c)
<1>1. /\ Len(more) = Len(chunks) + 1 /\ more[Len(chunks) + 1] = c
      /\ \A i \in 1..Len(chunks) : more[i] = chunks[i]
      /\ Len(chunks) \in Nat
  OBVIOUS
<1>2. 1..Len(more) = 1..Len(chunks) \cup {Len(chunks) + 1}
  BY <1>1
<1> HIDE DEF more
<1>3. ASSUME NEW x, x \in Filed(more) PROVE x \in Filed(chunks) \cup ToSet(c.data)
  <2>1. PICK i \in 1..Len(more) : x \in ToSet(more[i].data)
    BY <1>3 DEF Filed
  <2> QED
    BY <1>1, <1>2, <2>1 DEF Filed
<1>4. ASSUME NEW x, x \in Filed(chunks) \cup ToSet(c.data) PROVE x \in Filed(more)
  <2>1. PICK i \in 1..Len(more) : x \in ToSet(more[i].data)
    <3>1. CASE x \in ToSet(c.data)
      BY <1>1, <1>2, <3>1
    <3>2. CASE x \in Filed(chunks)
      BY <1>1, <1>2, <3>2 DEF Filed
    <3> QED
      BY <1>4, <3>1, <3>2
  <2> QED
    BY <2>1 DEF Filed
<1>5. Filed(more) = Filed(chunks) \cup ToSet(c.data)
  BY <1>3, <1>4
<1> QED
  BY <1>5 DEF more

LEMMA VerifiesOneMore ==
  ASSUME NEW chunks \in Seq(Chunks), NEW c \in Chunks
  PROVE  Verifies(Append(chunks, c)) <=> (Verifies(chunks) /\ c.prev = LastHash(chunks))
<1> DEFINE more == Append(chunks, c)
<1>1. /\ Len(more) = Len(chunks) + 1 /\ more[Len(chunks) + 1] = c
      /\ \A i \in 1..Len(chunks) : more[i] = chunks[i]
      /\ Len(chunks) \in Nat
  OBVIOUS
<1>2. LastHash(chunks) = IF Len(chunks) = 0 THEN NoHash ELSE more[Len(chunks)].data
  BY <1>1 DEF LastHash
<1> HIDE DEF more
<1>3. ASSUME Verifies(more) PROVE Verifies(chunks) /\ c.prev = LastHash(chunks)
  <2>1. ASSUME NEW i \in 1..Len(chunks)
        PROVE  chunks[i].prev = IF i = 1 THEN NoHash ELSE chunks[i - 1].data
    <3>1. i \in 1..Len(more) /\ more[i] = chunks[i] /\ (i # 1 => more[i - 1] = chunks[i - 1])
      BY <1>1
    <3> QED
      BY <1>3, <3>1 DEF Verifies
  <2>2. c.prev = LastHash(chunks)
    BY <1>1, <1>2, <1>3 DEF Verifies
  <2> QED
    BY <2>1, <2>2 DEF Verifies
<1>4. ASSUME Verifies(chunks), c.prev = LastHash(chunks) PROVE Verifies(more)
  <2>1. ASSUME NEW i \in 1..Len(more)
        PROVE  more[i].prev = IF i = 1 THEN NoHash ELSE more[i - 1].data
    <3>1. CASE i = Len(chunks) + 1
      BY <1>1, <1>2, <1>4, <3>1
    <3>2. CASE i \in 1..Len(chunks)
      <4>1. more[i] = chunks[i] /\ (i # 1 => more[i - 1] = chunks[i - 1])
        BY <1>1, <3>2
      <4> QED
        BY <1>4, <3>2, <4>1 DEF Verifies
    <3> QED
      BY <1>1, <3>1, <3>2
  <2> QED
    BY <2>1 DEF Verifies
<1> QED
  BY <1>3, <1>4 DEF more

\* A writer, of either kind, whose buffer took the line.
WithLine(s, line) == [s EXCEPT !.buf = Append(@, line), !.seen = @ \cup {line}]

\* A line enters the buffer; it comes after all the lines the writer has seen.
LEMMA LineKeepsChain ==
  ASSUME NEW s, NEW chunks, NEW skip \in BOOLEAN, ChainInv(s, chunks, skip), NEW line \in Nat,
         \A n \in s.seen : n < line,
         chunks = <<>> /\ s.buf = <<>> => line = 0 \/ s.failed
  PROVE  LET w == WithLine(s, line)
         IN ChainInv(w, chunks, skip) /\ w.buf # <<>> /\ w.seen = s.seen \cup {line}
<1>0. s \in Sealers /\ s.buf \in Seq(Nat) /\ s.seen \in SUBSET Nat
  BY DEF ChainInv, Sealers
<1>1. PICK b \in Seq(Nat) : b = Append(s.buf, line)
  <2>1. Append(s.buf, line) \in Seq(Nat)
    BY <1>0
  <2> QED
    BY <2>1, Zenon
<1>e. PICK e \in SUBSET Nat : e = s.seen \cup {line}
  BY <1>0
<1> DEFINE t == [s EXCEPT !.buf = b, !.seen = e]
<1>2. t \in Sealers /\ t.buf = b /\ t.seen = e /\ t.prev = s.prev /\ t.failed = s.failed
  BY <1>0 DEF Sealers
<1>3. b # <<>> /\ b[1] = IF s.buf = <<>> THEN line ELSE s.buf[1]
  BY <1>0, <1>1
<1> HIDE DEF t
<1>5. ToSet(b) = ToSet(s.buf) \cup {line}
  BY <1>0, <1>1, OneMore
<1>4. ChainInv(t, chunks, skip)
  BY <1>0, <1>e, <1>2, <1>3, <1>5 DEF ChainInv
<1> QED
  <2>1. WithLine(s, line) = t
    BY <1>1, <1>e DEF t, WithLine
  <2> QED
    BY <1>e, <1>2, <1>3, <1>4, <2>1

\* What flush_chunk makes of the sealer.
LEMMA FlushedSealer ==
  ASSUME NEW s \in Sealers, s.buf # <<>>, NEW ok \in BOOLEAN
  PROVE  LET t == FlushChunk(s, ok)
         IN /\ t \in Sealers /\ t.prev = s.buf /\ t.seen = s.seen
            /\ t.failed = (s.failed \/ ~ok) /\ t.buf = IF ok THEN <<>> ELSE s.buf
<1>1. PICK n \in Nat : n = s.num + 1
  BY DEF Sealers
<1>2. PICK f \in BOOLEAN : f = (s.failed \/ ~ok)
  OBVIOUS
<1>3. PICK b \in Seq(Nat) : b = IF ok THEN <<>> ELSE s.buf
  <2>1. (IF ok THEN <<>> ELSE s.buf) \in Seq(Nat)
    BY DEF Sealers
  <2> QED
    BY <2>1, Zenon
<1> DEFINE t == [s EXCEPT !.num = n, !.prev = s.buf, !.failed = f, !.buf = b]
<1>4. FlushChunk(s, ok) = t
  BY <1>1, <1>2, <1>3 DEF FlushChunk
<1>5. t \in Sealers /\ t.prev = s.buf /\ t.seen = s.seen /\ t.failed = f /\ t.buf = b
  BY DEF Sealers, Hashes
<1> HIDE DEF t
<1> QED
  BY <1>2, <1>3, <1>4, <1>5

\* A chunk is written.
LEMMA WriteKeepsChain ==
  ASSUME NEW s, NEW chunks, NEW skip \in BOOLEAN, ChainInv(s, chunks, skip), s.buf # <<>>
  PROVE  ChainInv(FlushChunk(s, TRUE), Append(chunks, SignChunk(s, s.buf)), skip \/ s.failed)
<1> DEFINE t == FlushChunk(s, TRUE)
           c == SignChunk(s, s.buf)
           more == Append(chunks, c)
<1>0. s \in Sealers /\ s.buf \in Seq(Nat) /\ s.failed \in BOOLEAN /\ chunks \in Seq(Chunks)
  BY DEF ChainInv, Sealers
<1>1. t \in Sealers /\ t.buf = <<>> /\ t.prev = s.buf /\ t.failed = s.failed /\ t.seen = s.seen
  BY <1>0, FlushedSealer
<1>2. c \in Chunks /\ c.data = s.buf /\ c.prev = s.prev
  BY <1>0 DEF Sealers, Chunks, SignChunk
<1> HIDE DEF t, c
<1>3. more \in Seq(Chunks) /\ more # <<>> /\ more[Len(more)] = c
      /\ more[1] = IF chunks = <<>> THEN c ELSE chunks[1]
  <2>1. chunks \in Seq(Chunks) /\ c \in Chunks
    BY <1>0, <1>2
  <2> HIDE DEF Chunks
  <2>2. more \in Seq(Chunks) /\ Len(more) = Len(chunks) + 1 /\ more[Len(chunks) + 1] = c
    BY ONLY <2>1
  <2>3. more[1] = IF chunks = <<>> THEN c ELSE chunks[1]
    BY ONLY <2>1
  <2>4. more # <<>>
    BY ONLY <2>1
  <2> QED
    BY ONLY <2>2, <2>3, <2>4
<1>4. LastHash(more) = s.buf
  BY <1>2, <1>3 DEF LastHash
<1>5. PICK k \in BOOLEAN : k = (skip \/ s.failed)
  OBVIOUS
<1>6. Verifies(more) <=> ~k
  <2>1. Verifies(more) <=> (Verifies(chunks) /\ s.prev = LastHash(chunks))
    BY <1>0, <1>2, VerifiesOneMore
  <2>2. s.failed /\ ~skip => s.prev # LastHash(chunks)
    BY <1>0, RecConstants DEF ChainInv, LastHash
  <2>3. (Verifies(chunks) <=> ~skip) /\ (skip => s.failed) /\ (~s.failed => s.prev = LastHash(chunks))
    BY DEF ChainInv
  <2> QED
    BY <1>5, <2>1, <2>2, <2>3
<1> HIDE DEF more
<1>7. /\ s.buf[1] \in s.seen
      /\ chunks # <<>> => chunks[1].data[1] = 0 \/ s.failed
      /\ chunks = <<>> => s.buf[1] = 0 \/ s.failed
  BY DEF ChainInv
<1>9. t.seen = ToSet(t.buf) \cup Filed(more)
  <2>1. Filed(more) = Filed(chunks) \cup ToSet(s.buf)
    BY <1>0, <1>2, FiledOneMore DEF more
  <2>2. ToSet(t.buf) = {}
    BY <1>1 DEF ToSet
  <2> QED
    BY <1>1, <2>1, <2>2 DEF ChainInv
<1>8. ChainInv(t, more, k)
  BY <1>0, <1>1, <1>2, <1>3, <1>4, <1>5, <1>6, <1>7, <1>9 DEF ChainInv
<1> QED
  BY <1>5, <1>8 DEF t, c, more

\* The write of a chunk fails: it was signed, and stays in the buffer.
LEMMA FailKeepsChain ==
  ASSUME NEW s, NEW chunks, NEW skip \in BOOLEAN, ChainInv(s, chunks, skip), s.buf # <<>>
  PROVE  ChainInv(FlushChunk(s, FALSE), chunks, skip)
<1> DEFINE t == FlushChunk(s, FALSE)
<1>0. s \in Sealers /\ s.buf \in Seq(Nat)
  BY DEF ChainInv, Sealers
<1>1. t \in Sealers /\ t.buf = s.buf /\ t.prev = s.buf /\ t.failed /\ t.seen = s.seen
  BY <1>0, FlushedSealer
<1> HIDE DEF t
<1>2. ChainInv(t, chunks, skip)
  BY <1>0, <1>1 DEF ChainInv
<1> QED
  BY <1>2 DEF t

\* The cloud writer.
Uploaders == [buf: Seq(Nat), num: Nat, seen: SUBSET Nat]

Have(got) == UNION {r.lines : r \in got}

\* The chunks up to a number have every line before theirs.
NoHoles(seen, got) ==
  \A r \in got :
    (\A n \in 1..r.num : \E q \in got : q.num = n)
    => \A x \in seen : (\E y \in r.lines : x <= y) => x \in Have(got)

\* Numbers of uploaded chunks are used once, and a line that is neither in the
\* buffer nor in the cloud left a number unused: a chunk that arrives with all the
\* numbers before it completes what was recorded so far.
CloudInv(c, got) ==
  /\ c \in Uploaders /\ \A r \in got : r.num \in 1..c.num /\ r.lines \subseteq c.seen
  /\ ToSet(c.buf) \subseteq c.seen
  /\ NoHoles(c.seen, got)
  /\ (\E n \in c.seen : n \notin ToSet(c.buf) /\ n \notin Have(got))
       => \E n \in 1..c.num : \A r \in got : r.num # n

LEMMA CloudLine ==
  ASSUME NEW c, NEW got, CloudInv(c, got), NEW line \in Nat, \A n \in c.seen : n < line
  PROVE  CloudInv(WithLine(c, line), got) /\ WithLine(c, line).seen = c.seen \cup {line}
<1>0. c \in Uploaders /\ c.buf \in Seq(Nat) /\ c.seen \in SUBSET Nat
  BY DEF CloudInv, Uploaders
<1>1. PICK b \in Seq(Nat) : b = Append(c.buf, line)
  <2>1. Append(c.buf, line) \in Seq(Nat)
    BY <1>0
  <2> QED
    BY <2>1, Zenon
<1>2. PICK e \in SUBSET Nat : e = c.seen \cup {line}
  BY <1>0
<1> DEFINE t == [c EXCEPT !.buf = b, !.seen = e]
<1>3. t \in Uploaders /\ t.buf = b /\ t.seen = e /\ t.num = c.num
  BY <1>0 DEF Uploaders
<1>4. ToSet(b) = ToSet(c.buf) \cup {line}
  BY <1>0, <1>1, OneMore
<1> HIDE DEF t
<1>6. NoHoles(e, got)
  <2>1. ASSUME NEW r \in got, \A n \in 1..r.num : \E q \in got : q.num = n,
               NEW x \in e, NEW y \in r.lines, x <= y
        PROVE  x \in Have(got)
    <3>1. y \in c.seen /\ y \in Nat /\ y < line
      BY <1>0 DEF CloudInv
    <3>2. x \in c.seen
      BY <1>2, <2>1, <3>1
    <3> QED
      BY <2>1, <3>2 DEF CloudInv, NoHoles
  <2> QED
    BY <2>1 DEF NoHoles
<1>5. CloudInv(t, got)
  BY <1>2, <1>3, <1>4, <1>6 DEF CloudInv
<1> QED
  <2>1. WithLine(c, line) = t
    BY <1>1, <1>2 DEF t, WithLine
  <2> QED
    BY <1>2, <1>3, <1>5, <2>1

LEMMA CloudFlushes ==
  ASSUME NEW c, NEW got, CloudInv(c, got), NEW up \in BOOLEAN
  PROVE  LET t == FlushBuffer(c)
         IN CloudInv(t, IF up /\ c.buf # <<>> THEN got \cup {[num |-> t.num, lines |-> ToSet(c.buf)]}
                        ELSE got)
            /\ t.seen = c.seen
<1>0. c \in Uploaders /\ c.buf \in Seq(Nat) /\ c.num \in Nat
  BY DEF CloudInv, Uploaders
<1>1. CASE c.buf = <<>>
  BY <1>1 DEF FlushBuffer
<1>2. CASE c.buf # <<>>
  <2>1. PICK n \in Nat : n = c.num + 1
    BY <1>0
  <2>e. PICK e \in Seq(Nat) : e = <<>>
    <3>1. <<>> \in Seq(Nat)
      OBVIOUS
    <3> QED
      BY <3>1, Zenon
  <2> DEFINE t == [c EXCEPT !.num = n, !.buf = e]
             r == [num |-> n, lines |-> ToSet(c.buf)]
  <2>2. FlushBuffer(c) = t
    BY <1>2, <2>1, <2>e DEF FlushBuffer
  <2>3. t \in Uploaders /\ t.num = n /\ t.buf = e /\ t.seen = c.seen
    BY <1>0 DEF Uploaders
  <2>4. r.num = n /\ r.lines = ToSet(c.buf)
    OBVIOUS
  <2> HIDE DEF t, r
  <2>5. ToSet(t.buf) = {}
    BY <2>3, <2>e DEF ToSet
  <2>6. CASE up
    <3>1. Have(got \cup {r}) = Have(got) \cup ToSet(c.buf)
      BY <2>4 DEF Have
    <3>2. \A q \in got \cup {r} : q.num \in 1..t.num /\ q.lines \subseteq t.seen
      BY <1>0, <2>1, <2>3, <2>4 DEF CloudInv
    <3>3. ASSUME NEW m \in t.seen, m \notin ToSet(t.buf), m \notin Have(got \cup {r})
          PROVE  \E k \in 1..t.num : \A q \in got \cup {r} : q.num # k
      <4>1. PICK k \in 1..c.num : \A q \in got : q.num # k
        BY <2>3, <3>1, <3>3 DEF CloudInv
      <4>2. k \in 1..t.num /\ k # n
        BY <1>0, <2>1, <2>3
      <4> QED
        BY <2>4, <4>1, <4>2
    <3>5. NoHoles(t.seen, got \cup {r})
      <4> SUFFICES ASSUME NEW p \in got \cup {r},
                          \A k \in 1..p.num : \E q \in got \cup {r} : q.num = k,
                          NEW x \in c.seen, NEW y \in p.lines, x <= y
                   PROVE  x \in Have(got \cup {r})
        BY <2>3 DEF NoHoles
      <4>1. \A k \in 1..p.num : k # n => \E q \in got : q.num = k
        BY <2>4
      <4>2. CASE p \in got
        <5>1. p.num \in 1..c.num
          BY <4>2 DEF CloudInv
        <5>2. \A k \in 1..p.num : \E q \in got : q.num = k
          BY <1>0, <2>1, <4>1, <5>1
        <5> QED
          BY <3>1, <4>2, <5>2 DEF CloudInv, NoHoles
      <4>3. CASE p = r
        <5>1. \A k \in 1..c.num : \E q \in got : q.num = k
          BY <1>0, <2>1, <2>4, <4>1, <4>3
        <5> QED
          BY <3>1, <5>1 DEF CloudInv
      <4> QED
        BY <4>2, <4>3
    <3>6. ToSet(t.buf) \subseteq t.seen
      BY <2>5
    <3>4. CloudInv(t, got \cup {r})
      BY <2>3, <3>2, <3>3, <3>5, <3>6 DEF CloudInv
    <3> QED
      BY <1>2, <2>2, <2>3, <2>6, <3>4 DEF r
  <2>7. CASE ~up
    <3>1. n \in 1..t.num /\ \A q \in got : q.num # n /\ q.num \in 1..t.num
      BY <1>0, <2>1, <2>3 DEF CloudInv
    <3>2. CloudInv(t, got)
      BY <2>3, <2>5, <3>1 DEF CloudInv
    <3> QED
      BY <2>2, <2>3, <2>7, <3>2
  <2> QED
    BY <2>6, <2>7
<1> QED
  BY <1>1, <1>2

\* Every line that was written is the header or was asked for after it.
LinesInv ==
  /\ recAsked \in Nat /\ recHeader \in BOOLEAN /\ skipped \in BOOLEAN
  /\ sealed.seen \subseteq 0..recAsked /\ recLost \subseteq 1..recAsked
  /\ recLost \cap sealed.seen = {}
  /\ 0 \notin sealed.seen => sealed.seen = {} /\ ~recHeader
  /\ recHeader => sealed.buf # <<>> \/ file # <<>>
  /\ cloud.seen \subseteq sealed.seen

RecInv == ChainInv(sealed, file, skipped) /\ CloudInv(cloud, received) /\ LinesInv

LEMMA RecInvImplies == RecInv => RecordingHasNoHoles
<1> SUFFICES ASSUME RecInv PROVE RecordingHasNoHoles
  OBVIOUS
<1>1. ChainTellsFailure /\ CloudFollowsFile
  BY DEF RecInv, ChainInv, LinesInv, ChainTellsFailure, CloudFollowsFile
<1>2. FileKeepsAll
  BY DEF RecInv, ChainInv, Filed, FileKeepsAll
<1>4. GapTellsLoss
  BY DEF RecInv, CloudInv, NoHoles, Have, GapTellsLoss
<1>3. HeaderComesFirst
  BY DEF RecInv, ChainInv, LinesInv, HeaderComesFirst
<1> QED
  BY <1>1, <1>2, <1>3, <1>4 DEF RecordingHasNoHoles

LEMMA RecInitInv == RecInit => RecInv
<1> SUFFICES ASSUME RecInit PROVE RecInv
  OBVIOUS
<1>1. ChainInv(sealed, file, skipped)
  BY DEF RecInit, ChainInv, Sealers, Hashes, Verifies, LastHash, Filed, ToSet
<1>2. CloudInv(cloud, received)
  BY DEF RecInit, CloudInv, Uploaders, NoHoles, ToSet
<1>3. LinesInv
  BY DEF RecInit, LinesInv
<1> QED
  BY <1>1, <1>2, <1>3 DEF RecInv

LEMMA FileLine ==
  ASSUME ChainInv(sealed, file, skipped), skipped \in BOOLEAN, NEW line \in Nat, NEW ok \in BOOLEAN,
         \A n \in sealed.seen : n < line,
         file = <<>> /\ sealed.buf = <<>> => line = 0 \/ sealed.failed,
         FileWrite(line, ok)
  PROVE  /\ ChainInv(sealed', file', skipped') /\ skipped' \in BOOLEAN
         /\ sealed'.seen = sealed.seen \cup {line}
         /\ sealed'.buf # <<>> \/ file' # <<>>
<1> DEFINE s == WithLine(sealed, line)
<1>1. ChainInv(s, file, skipped) /\ s.buf # <<>> /\ s.seen = sealed.seen \cup {line}
  BY LineKeepsChain
<1>2. s.buf # <<>> /\ s.seen = sealed.seen \cup {line} /\ s \in Sealers
  BY <1>1 DEF ChainInv
<1>3. CASE Len(s.buf) < RecChunk
  BY <1>1, <1>2, <1>3 DEF FileWrite, WithLine
<1>4. CASE ~(Len(s.buf) < RecChunk)
  <2>1. /\ sealed' = FlushChunk(s, ok)
        /\ file' = IF ok THEN Append(file, SignChunk(s, s.buf)) ELSE file
        /\ skipped' = (skipped \/ (ok /\ s.failed))
    BY <1>4 DEF FileWrite, WithLine
  <2>2. sealed'.seen = s.seen /\ sealed'.buf = IF ok THEN <<>> ELSE s.buf
    BY <1>2, <2>1, FlushedSealer
  <2>3. CASE ok
    <3>1. skipped' = (skipped \/ s.failed) /\ file' = Append(file, SignChunk(s, s.buf))
          /\ sealed' = FlushChunk(s, TRUE)
      BY <2>1, <2>3
    <3>2. ChainInv(sealed', file', skipped')
      BY <1>1, <1>2, <3>1, WriteKeepsChain
    <3>3. file' # <<>>
      BY <3>1 DEF ChainInv
    <3> QED
      BY <1>2, <2>2, <3>1, <3>2, <3>3
  <2>4. CASE ~ok
    <3>1. skipped' = skipped /\ file' = file /\ sealed' = FlushChunk(s, FALSE)
      BY <2>1, <2>4
    <3>2. ChainInv(sealed', file', skipped')
      BY <1>1, <1>2, <3>1, FailKeepsChain
    <3> QED
      BY <1>2, <2>2, <2>4, <3>1, <3>2
  <2> QED
    BY <2>3, <2>4
<1> QED
  BY <1>3, <1>4

\* One flush of the cloud writer, and one line given to it.
LEMMA CloudFlushStep ==
  ASSUME NEW c, CloudInv(c, received), NEW up \in BOOLEAN, CloudFlush(c, up)
  PROVE  CloudInv(cloud', received') /\ cloud'.seen = c.seen
<1>1. cloud' = FlushBuffer(c)
      /\ received' = IF up /\ c.buf # <<>>
                     THEN received \cup {[num |-> FlushBuffer(c).num, lines |-> ToSet(c.buf)]}
                     ELSE received
  BY DEF CloudFlush
<1> DEFINE got == IF up /\ c.buf # <<>>
                  THEN received \cup {[num |-> FlushBuffer(c).num, lines |-> ToSet(c.buf)]}
                  ELSE received
<1>2. CloudInv(FlushBuffer(c), got) /\ FlushBuffer(c).seen = c.seen
  BY CloudFlushes
<1>3. cloud' = FlushBuffer(c) /\ received' = got
  BY <1>1
<1> HIDE DEF got
<1> QED
  BY <1>2, <1>3

LEMMA CloudLineStep ==
  ASSUME CloudInv(cloud, received), NEW line \in Nat, NEW up \in BOOLEAN, CloudWrite(line, up),
         \A n \in cloud.seen : n < line
  PROVE  CloudInv(cloud', received') /\ cloud'.seen = cloud.seen \cup {line}
<1> DEFINE c == WithLine(cloud, line)
<1>1. CloudInv(c, received) /\ c.seen = cloud.seen \cup {line}
  BY CloudLine
<1>2. (cloud' = c /\ received' = received) \/ CloudFlush(c, up)
  BY DEF CloudWrite, WithLine
<1> HIDE DEF c
<1> QED
  BY <1>1, <1>2, CloudFlushStep

\* One line given to both writers.
LEMMA BothWrite ==
  ASSUME RecInv, NEW line \in Nat, NEW ok \in BOOLEAN, NEW up \in BOOLEAN,
         \A n \in sealed.seen : n < line,
         file = <<>> /\ sealed.buf = <<>> => line = 0 \/ sealed.failed,
         WriteAll(line, ok, up)
  PROVE  /\ ChainInv(sealed', file', skipped') /\ skipped' \in BOOLEAN
         /\ CloudInv(cloud', received')
         /\ sealed'.seen = sealed.seen \cup {line}
         /\ sealed'.buf # <<>> \/ file' # <<>>
         /\ cloud'.seen \subseteq sealed'.seen
<1>1. ChainInv(sealed, file, skipped) /\ CloudInv(cloud, received) /\ skipped \in BOOLEAN
      /\ cloud.seen \subseteq sealed.seen
  BY DEF RecInv, LinesInv
<1>2. FileWrite(line, ok) /\ (CloudWrite(line, up) \/ (cloud' = cloud /\ received' = received))
  BY DEF WriteAll
<1>3. /\ ChainInv(sealed', file', skipped') /\ skipped' \in BOOLEAN
      /\ sealed'.seen = sealed.seen \cup {line}
      /\ sealed'.buf # <<>> \/ file' # <<>>
  BY <1>1, <1>2, FileLine
<1>4. CloudInv(cloud', received') /\ cloud'.seen \subseteq sealed'.seen
  <2>1. CASE CloudWrite(line, up)
    BY <1>1, <1>3, <2>1, CloudLineStep
  <2>2. CASE cloud' = cloud /\ received' = received
    BY <1>1, <1>3, <2>2
  <2> QED
    BY <1>2, <2>1, <2>2
<1> QED
  BY <1>3, <1>4

LEMMA RecNextInv == RecInv /\ [RecNext]_recVars => RecInv'
<1> SUFFICES ASSUME RecInv, [RecNext]_recVars PROVE RecInv'
  OBVIOUS
<1>0. LinesInv /\ ChainInv(sealed, file, skipped) /\ CloudInv(cloud, received)
  BY DEF RecInv
<1>1. CASE UNCHANGED recVars
  BY <1>0, <1>1 DEF recVars, RecInv, LinesInv
<1>2. ASSUME NEW ok \in BOOLEAN, NEW up \in BOOLEAN, WriteHeader(ok, up) PROVE RecInv'
  <2>1. sealed.seen = {} /\ WriteAll(0, ok, up)
    BY <1>0, <1>2 DEF WriteHeader, LinesInv
  <2>2. /\ ChainInv(sealed', file', skipped') /\ skipped' \in BOOLEAN
        /\ CloudInv(cloud', received')
        /\ sealed'.seen = sealed.seen \cup {0}
        /\ sealed'.buf # <<>> \/ file' # <<>>
        /\ cloud'.seen \subseteq sealed'.seen
    BY <2>1, BothWrite
  <2>3. recAsked' = recAsked /\ recLost' = recLost /\ recHeader' \in BOOLEAN
    BY <1>2 DEF WriteHeader
  <2>4. LinesInv'
    BY <1>0, <2>1, <2>2, <2>3 DEF LinesInv
  <2> QED
    BY <2>2, <2>4 DEF RecInv
<1>3. ASSUME NEW ok \in BOOLEAN, NEW up \in BOOLEAN, Record(ok, up) PROVE RecInv'
  <2>1. recAsked' = recAsked + 1 /\ recAsked \in Nat /\ recHeader' = recHeader /\ recHeader \in BOOLEAN
    BY <1>0, <1>3 DEF Record, LinesInv
  <2>2. CASE recHeader
    <3>1. WriteAll(recAsked', ok, up) /\ recLost' = recLost /\ recAsked' \in Nat
      BY <1>3, <2>1, <2>2 DEF Record
    <3>2. /\ \A n \in sealed.seen : n < recAsked'
          /\ file = <<>> /\ sealed.buf = <<>> => recAsked' = 0 \/ sealed.failed
      BY <1>0, <2>1, <2>2 DEF LinesInv
    <3>3. /\ ChainInv(sealed', file', skipped') /\ skipped' \in BOOLEAN
          /\ CloudInv(cloud', received')
          /\ sealed'.seen = sealed.seen \cup {recAsked'}
          /\ sealed'.buf # <<>> \/ file' # <<>>
          /\ cloud'.seen \subseteq sealed'.seen
      BY <3>1, <3>2, BothWrite
    <3>4. LinesInv'
      BY <1>0, <2>1, <2>2, <3>1, <3>3 DEF LinesInv
    <3> QED
      BY <3>3, <3>4 DEF RecInv
  <2>3. CASE ~recHeader
    <3>1. recLost' = recLost \cup {recAsked'} /\ UNCHANGED <<sealed, file, skipped, cloud, received>>
      BY <1>3, <2>3 DEF Record
    <3>2. LinesInv'
      BY <1>0, <2>1, <2>3, <3>1 DEF LinesInv
    <3> QED
      BY <1>0, <3>1, <3>2 DEF RecInv
  <2> QED
    BY <2>1, <2>2, <2>3
<1>4. ASSUME NEW ok \in BOOLEAN, NEW synced \in BOOLEAN, NEW up \in BOOLEAN,
             Finalize(ok, synced, up)
      PROVE  RecInv'
  <2>0. recHeader' = recHeader /\ recAsked' = recAsked /\ recLost' = recLost
        /\ sealed' = FlushChunk(sealed, ok) /\ sealed \in Sealers /\ skipped \in BOOLEAN
    BY <1>0, <1>4 DEF Finalize, LinesInv, ChainInv
  <2>1. CloudInv(cloud', received') /\ cloud'.seen = cloud.seen
    <3>1. (cloud' = cloud /\ received' = received) \/ CloudFlush(cloud, up)
      BY <1>4 DEF Finalize
    <3> QED
      BY <1>0, <3>1, CloudFlushStep
  <2>2. /\ ChainInv(sealed', file', skipped') /\ skipped' \in BOOLEAN
        /\ sealed'.seen = sealed.seen
        /\ sealed.buf # <<>> => sealed'.buf # <<>> \/ file' # <<>>
        /\ file # <<>> => file' # <<>>
    <3>1. CASE sealed.buf = <<>>
      <4>1. sealed' = sealed /\ file' = file /\ skipped' = skipped
        BY <1>4, <3>1 DEF Finalize, FlushChunk
      <4> QED
        BY <1>0, <2>0, <3>1, <4>1
    <3>2. CASE sealed.buf # <<>> /\ ok
      <4>1. file' = Append(file, SignChunk(sealed, sealed.buf)) /\ skipped' = (skipped \/ sealed.failed)
            /\ sealed' = FlushChunk(sealed, TRUE)
        BY <1>4, <3>2 DEF Finalize
      <4>2. ChainInv(sealed', file', skipped') /\ sealed'.seen = sealed.seen
        <5>1. ChainInv(sealed', file', skipped')
          BY <1>0, <2>0, <3>2, <4>1, WriteKeepsChain
        <5>2. sealed'.seen = sealed.seen
          BY <2>0, <3>2, <4>1, FlushedSealer
        <5> QED
          BY <5>1, <5>2
      <4>3. file' # <<>> /\ skipped' \in BOOLEAN
        BY <1>0, <2>0, <4>1 DEF ChainInv, Sealers
      <4> QED
        BY <4>2, <4>3
    <3>3. CASE sealed.buf # <<>> /\ ~ok
      <4>1. file' = file /\ skipped' = skipped /\ sealed' = FlushChunk(sealed, FALSE)
        BY <1>4, <3>3 DEF Finalize
      <4>2. ChainInv(sealed', file', skipped') /\ sealed'.seen = sealed.seen /\ sealed'.buf = sealed.buf
        <5>1. ChainInv(sealed', file', skipped')
          BY <1>0, <2>0, <3>3, <4>1, FailKeepsChain
        <5>2. sealed'.seen = sealed.seen /\ sealed'.buf = sealed.buf
          BY <2>0, <3>3, <4>1, FlushedSealer
        <5> QED
          BY <5>1, <5>2
      <4> QED
        BY <2>0, <3>3, <4>1, <4>2
    <3> QED
      BY <3>1, <3>2, <3>3
  <2>3. LinesInv'
    BY <1>0, <2>0, <2>1, <2>2 DEF LinesInv
  <2> QED
    BY <2>1, <2>2, <2>3 DEF RecInv
<1> QED
  BY <1>1, <1>2, <1>3, <1>4 DEF RecNext

\* A recording has no holes that do not show, for any number of lines and any
\* chunk size: the file keeps every line it was given, its chunks verify as a chain
\* exactly when no chunk was written after a failed one, the cloud's chunks up to
\* a number, when none is missing, have every line before theirs, and the header
\* comes first (flush_chunk, flush_buffer, record_output).
THEOREM RecordingNeverHasHoles == SshSpec => []RecordingHasNoHoles
<1>1. SshInit => RecInv
  BY RecInitInv DEF SshInit
<1>2. RecInv /\ [SshNext]_sshVars => RecInv'
  BY ComponentSteps, RecNextInv
<1> QED
  BY <1>1, <1>2, RecInvImplies, PTL DEF SshSpec

(***************************************************************************)
(* The events of the sessions.                                             *)
(***************************************************************************)

\* The sessions whose SessionEnded is still to come.
ActivePtys == {p \in Ptys : pty[p].io \notin {"none", "done"}}
ActiveSftp == {k \in Chans : sftp[k] = 1}

\* The session the handler has started and not yet reported.
Unreported == IF hand.op = "started" THEN 1 ELSE 0

\* A channel's stream is given to one SFTP task at most.
StreamInv ==
  /\ sftp \in [Chans -> {0, 1}]
  /\ \A k \in Chans : chan[k].st = "none" \/ chan[k].raw => sftp[k] = 0

\* Every session started has ended or is active.
EventsInv ==
  /\ events \in [started : Nat, ended : Nat]
  /\ IsFiniteSet(ActivePtys) /\ IsFiniteSet(ActiveSftp)
  /\ events.ended + Cardinality(ActivePtys) + Cardinality(ActiveSftp) = events.started + Unreported

SessionsInv == SsnInv /\ StreamInv /\ EventsInv

\* A step that starts, reports and ends nothing.
LEMMA NothingStarts ==
  ASSUME SessionsInv, SsnInv', StreamInv', UNCHANGED <<events, sftp>>, ActivePtys' = ActivePtys,
         Unreported' = Unreported
  PROVE  EventsInv'
<1>1. ActiveSftp' = ActiveSftp
  BY DEF ActiveSftp
<1> QED
  BY <1>1 DEF SessionsInv, EventsInv

\* A session of a PTY that goes on with its task neither new nor done.
LEMMA SamePtys ==
  ASSUME SsnInv, NEW p \in Ptys, NEW new, pty' = [pty EXCEPT ![p] = new],
         pty[p].io \in {"none", "done"} <=> new.io \in {"none", "done"}
  PROVE  ActivePtys' = ActivePtys
<1>1. \A q \in Ptys : pty'[q].io \in {"none", "done"} <=> pty[q].io \in {"none", "done"}
  BY DEF SsnInv, SsnTypes
<1> QED
  BY <1>1 DEF ActivePtys

LEMMA StreamStep ==
  ASSUME SessionsInv, [SsnNext]_ssnVars
  PROVE  StreamInv'
<1> USE DEF SessionsInv, StreamInv, SsnInv, SsnTypes
<1>1. CASE UNCHANGED <<chan, sftp>>
  BY <1>1
<1>2. ASSUME NEW k \in Chans, NEW p \in Ptys, ShellRequest(k, p) \/ \E cmd \in Cmds : ExecRequest(k, p, cmd)
      PROVE  StreamInv'
  <2>1. chan' = [chan EXCEPT ![k].pty = p] /\ sftp' = sftp
    BY <1>2 DEF ShellRequest, ExecRequest, StartSession
  <2>2. \A j \in Chans : chan'[j].st = chan[j].st /\ chan'[j].raw = chan[j].raw
    BY <2>1
  <2> QED
    BY <2>1, <2>2
<1>3. ASSUME NEW k \in Chans, ChannelOpenSession(k) PROVE StreamInv'
  BY <1>3 DEF ChannelOpenSession
<1>4. ASSUME NEW k \in Chans, PtyRequest(k) \/ ChannelClose(k) PROVE StreamInv'
  BY <1>4 DEF PtyRequest, ChannelClose, Open
<1>5. ASSUME NEW k \in Chans, SubsystemRequest(k) PROVE StreamInv'
  <2>0. /\ chan[k].st = "open" /\ chan[k].raw
        /\ chan' = [chan EXCEPT ![k].raw = FALSE] /\ sftp' = [sftp EXCEPT ![k] = sftp[k] + 1]
    BY <1>5 DEF SubsystemRequest, Open
  <2>1. sftp[k] = 0 /\ sftp[k] + 1 = 1 /\ chan' = [chan EXCEPT ![k].raw = FALSE]
        /\ \A j \in Chans : sftp'[j] = IF j = k THEN 1 ELSE sftp[j]
    BY <2>0
  <2>3. sftp' \in [Chans -> {0, 1}]
    BY <2>0, <2>1
  <2>2. \A j \in Chans : chan'[j].st = chan[j].st /\ chan'[j].raw = (IF j = k THEN FALSE ELSE chan[j].raw)
    BY <2>1
  <2> QED
    BY <2>0, <2>1, <2>2, <2>3
<1>6. ASSUME NEW k \in Chans, SftpEnds(k) PROVE StreamInv'
  <2>0. sftp[k] > 0 /\ sftp' = [sftp EXCEPT ![k] = sftp[k] - 1] /\ chan' = chan
    BY <1>6 DEF SftpEnds
  <2>1. sftp[k] = 1 /\ sftp[k] - 1 = 0
    BY <2>0
  <2> QED
    BY <2>0, <2>1
<1>7. CASE DropHandler
  <2>1. sftp' = sftp /\ chan' = [k \in Chans |-> [chan[k] EXCEPT !.st = "closed"]]
    BY <1>7 DEF DropHandler
  <2>2. \A j \in Chans : chan'[j].st = "closed" /\ chan'[j].raw = chan[j].raw
    BY <2>1
  <2> QED
    BY <2>1, <2>2
<1>8. CASE AuthNone \/ HandlerStep \/ \E k \in Chans : Data(k)
  BY <1>1, <1>8 DEF AuthNone, HandlerStep, HandlerStarted, HandlerLocks, HandlerSends, Data
<1>9. ASSUME NEW p \in Ptys, LoopStep(p) \/ IoStep(p) \/ Prints(p) \/ Waits(p) \/ Exits(p)
      PROVE  StreamInv'
  <2>1. UNCHANGED <<chan, sftp>>
    BY <1>9 DEF LoopStep, LoopInput, LoopRead, LoopSend, IoStep, IoLocks, IoReceives, IoDelivers,
                IoStatus, IoFinishes, Prints, Waits, Exits, Advance
  <2> QED
    BY <1>1, <2>1
<1>10. CASE UNCHANGED ssnVars
  BY <1>1, <1>10 DEF ssnVars
<1> QED
  BY <1>2, <1>3, <1>4, <1>5, <1>6, <1>7, <1>8, <1>9, <1>10 DEF SsnNext, Requests

\* The sets of active sessions gain or lose one.
LEMMA GainsOne ==
  ASSUME NEW S, NEW T, NEW x, IsFiniteSet(S), x \notin S, T = S \cup {x}
  PROVE  /\ IsFiniteSet(T) /\ Cardinality(S) \in Nat /\ Cardinality(T) \in Nat
         /\ Cardinality(T) = Cardinality(S) + 1
BY FS_AddElement, FS_CardinalityType

LEMMA LosesOne ==
  ASSUME NEW S, NEW T, NEW x, IsFiniteSet(S), x \in S, T = S \ {x}
  PROVE  /\ IsFiniteSet(T) /\ Cardinality(T) \in Nat /\ Cardinality(S) \in Nat
         /\ Cardinality(T) = Cardinality(S) - 1
BY FS_RemoveElement, FS_CardinalityType

LEMMA SessionStarts ==
  ASSUME SessionsInv, NEW k \in Chans, NEW p \in Ptys, NEW kind, NEW cmd,
         Ready, pty[p] = NoSession, StartSession(k, p, kind, cmd)
  PROVE  EventsInv'
<1>1. pty'[p].io = "lock" /\ \A q \in Ptys \ {p} : pty'[q] = pty[q]
  BY DEF StartSession, NoSession, SessionsInv, SsnInv, SsnTypes
<1>2. p \notin ActivePtys /\ ActivePtys' = ActivePtys \cup {p}
  BY <1>1 DEF ActivePtys, NoSession
<1>3. ActiveSftp' = ActiveSftp /\ events' = events
  BY DEF StartSession, ActiveSftp
<1>4. Unreported = 0 /\ Unreported' = 1
  BY DEF StartSession, Unreported, Ready, Idle
<1>5. IsFiniteSet(ActivePtys') /\ Cardinality(ActivePtys) \in Nat /\ Cardinality(ActivePtys') \in Nat
      /\ Cardinality(ActivePtys') = Cardinality(ActivePtys) + 1
  <2>1. IsFiniteSet(ActivePtys)
    BY DEF SessionsInv, EventsInv
  <2> QED
    BY <2>1, <1>2, GainsOne
<1>6. Cardinality(ActiveSftp) \in Nat
  BY FS_CardinalityType DEF SessionsInv, EventsInv
<1> QED
  BY <1>3, <1>4, <1>5, <1>6 DEF SessionsInv, EventsInv

LEMMA SessionReported ==
  ASSUME SessionsInv, HandlerStarted
  PROVE  EventsInv'
<1>1. ActivePtys' = ActivePtys /\ ActiveSftp' = ActiveSftp
  BY DEF HandlerStarted, ActivePtys, ActiveSftp
<1>2. Unreported = 1 /\ Unreported' = 0
  BY DEF HandlerStarted, Unreported, Idle
<1>3. events' \in [started : Nat, ended : Nat] /\ events'.ended = events.ended
      /\ events'.started = events.started + 1
  BY DEF HandlerStarted, SessionsInv, EventsInv
<1>4. Cardinality(ActivePtys) \in Nat /\ Cardinality(ActiveSftp) \in Nat
  BY FS_CardinalityType DEF SessionsInv, EventsInv
<1> QED
  BY <1>1, <1>2, <1>3, <1>4 DEF SessionsInv, EventsInv

LEMMA SftpStarts ==
  ASSUME SessionsInv, NEW k \in Chans, SubsystemRequest(k)
  PROVE  EventsInv'
<1>1. sftp[k] = 0 /\ sftp' = [sftp EXCEPT ![k] = sftp[k] + 1]
  BY DEF SubsystemRequest, Open, SessionsInv, StreamInv
<1>2. sftp' = [sftp EXCEPT ![k] = 1]
  BY <1>1
<1>3. k \notin ActiveSftp /\ ActiveSftp' = ActiveSftp \cup {k}
  BY <1>1, <1>2 DEF ActiveSftp, SessionsInv, StreamInv
<1>4. ActivePtys' = ActivePtys /\ Unreported' = Unreported /\ Unreported \in {0, 1}
  BY DEF SubsystemRequest, ActivePtys, Unreported
<1>5. events' \in [started : Nat, ended : Nat] /\ events'.ended = events.ended
      /\ events'.started = events.started + 1
  BY DEF SubsystemRequest, SessionsInv, EventsInv
<1>6. IsFiniteSet(ActiveSftp') /\ Cardinality(ActiveSftp) \in Nat /\ Cardinality(ActiveSftp') \in Nat
      /\ Cardinality(ActiveSftp') = Cardinality(ActiveSftp) + 1
  <2>1. IsFiniteSet(ActiveSftp)
    BY DEF SessionsInv, EventsInv
  <2> QED
    BY <2>1, <1>3, GainsOne
<1>7. Cardinality(ActivePtys) \in Nat
  BY FS_CardinalityType DEF SessionsInv, EventsInv
<1> QED
  BY <1>4, <1>5, <1>6, <1>7 DEF SessionsInv, EventsInv

LEMMA SftpIsOver ==
  ASSUME SessionsInv, NEW k \in Chans, SftpEnds(k)
  PROVE  EventsInv'
<1>1. sftp[k] = 1 /\ sftp' = [sftp EXCEPT ![k] = sftp[k] - 1]
  BY DEF SftpEnds, SessionsInv, StreamInv
<1>2. sftp' = [sftp EXCEPT ![k] = 0]
  BY <1>1
<1>3. k \in ActiveSftp /\ ActiveSftp' = ActiveSftp \ {k}
  BY <1>1, <1>2 DEF ActiveSftp, SessionsInv, StreamInv
<1>4. ActivePtys' = ActivePtys /\ Unreported' = Unreported /\ Unreported \in {0, 1}
  BY DEF SftpEnds, ActivePtys, Unreported
<1>5. events' \in [started : Nat, ended : Nat] /\ events'.started = events.started
      /\ events'.ended = events.ended + 1
  BY DEF SftpEnds, SessionsInv, EventsInv
<1>6. IsFiniteSet(ActiveSftp') /\ Cardinality(ActiveSftp) \in Nat /\ Cardinality(ActiveSftp') \in Nat
      /\ Cardinality(ActiveSftp') = Cardinality(ActiveSftp) - 1
  BY <1>3, LosesOne DEF SessionsInv, EventsInv
<1>7. Cardinality(ActivePtys) \in Nat
  BY FS_CardinalityType DEF SessionsInv, EventsInv
<1> QED
  BY <1>4, <1>5, <1>6, <1>7 DEF SessionsInv, EventsInv

LEMMA PtyIsOver ==
  ASSUME SessionsInv, NEW p \in Ptys, IoFinishes(p)
  PROVE  EventsInv'
<1>1. pty[p].io = "finish" /\ pty'[p].io = "done" /\ \A q \in Ptys \ {p} : pty'[q] = pty[q]
  BY DEF IoFinishes, SessionsInv, SsnInv, SsnTypes, PtySessions
<1>2. p \in ActivePtys /\ ActivePtys' = ActivePtys \ {p}
  BY <1>1 DEF ActivePtys
<1>3. ActiveSftp' = ActiveSftp /\ Unreported' = Unreported /\ Unreported \in {0, 1}
  BY DEF IoFinishes, ActiveSftp, Unreported
<1>4. events' \in [started : Nat, ended : Nat] /\ events'.started = events.started
      /\ events'.ended = events.ended + 1
  BY DEF IoFinishes, SessionsInv, EventsInv
<1>5. IsFiniteSet(ActivePtys') /\ Cardinality(ActivePtys) \in Nat /\ Cardinality(ActivePtys') \in Nat
      /\ Cardinality(ActivePtys') = Cardinality(ActivePtys) - 1
  BY <1>2, LosesOne DEF SessionsInv, EventsInv
<1>6. Cardinality(ActiveSftp) \in Nat
  BY FS_CardinalityType DEF SessionsInv, EventsInv
<1> QED
  BY <1>3, <1>4, <1>5, <1>6 DEF SessionsInv, EventsInv

\* The tasks of a session and its process, up to the end of the I/O task.
LEMMA SessionGoesOn ==
  ASSUME SessionsInv, NEW p \in Ptys,
         \/ LoopStep(p) \/ IoLocks(p) \/ IoReceives(p) \/ IoDelivers(p) \/ IoStatus(p)
         \/ Prints(p) \/ Waits(p) \/ Exits(p)
  PROVE  /\ UNCHANGED <<events, sftp>> /\ ActivePtys' = ActivePtys
         /\ Unreported' = Unreported
<1>0. pty[p] \in PtySessions /\ SsnInv
  BY DEF SessionsInv, SsnInv, SsnTypes
<1> DEFINE s == pty[p]
           Same(new) == s.io \in {"none", "done"} <=> new.io \in {"none", "done"}
<1>1. ASSUME NEW new, Advance(p, new), Same(new)
      PROVE  /\ UNCHANGED <<events, sftp>> /\ ActivePtys' = ActivePtys
             /\ Unreported' = Unreported
  <2>1. UNCHANGED <<events, sftp, hand>> /\ pty' = [pty EXCEPT ![p] = new]
    BY <1>1 DEF Advance
  <2> QED
    BY <1>0, <1>1, <2>1, SamePtys DEF Unreported
<1>2. CASE LoopInput(p)
  <2>1. Same([s EXCEPT !.inq = @ - 1, !.proc = "busy", !.pend = TRUE, !.loop = "read"])
        /\ Same([s EXCEPT !.inq = @ - 1, !.loop = "ended"]) /\ Same([s EXCEPT !.loop = "read"])
    BY <1>0 DEF PtySessions
  <2> HIDE DEF Same
  <2> QED
    BY <1>1, <1>2, <2>1 DEF LoopInput
<1>3. CASE LoopRead(p)
  BY <1>0, <1>1, <1>3 DEF LoopRead, PtySessions
<1>4. CASE LoopSend(p)
  <2>1. Same([s EXCEPT !.outq = @ + 1, !.exit = "sent", !.loop = "ended"])
        /\ Same([s EXCEPT !.outq = @ + 1, !.loop = "input"]) /\ Same([s EXCEPT !.loop = "ended"])
    BY <1>0 DEF PtySessions
  <2> HIDE DEF Same
  <2> QED
    BY <1>1, <1>4, <2>1 DEF LoopSend
<1>5. CASE IoReceives(p)
  <2>1. s.io = "recv"
    BY <1>5 DEF IoReceives
  <2>2. Same([s EXCEPT !.outq = @ - 1, !.lock = "free", !.io = "deliver"])
        /\ Same([s EXCEPT !.lock = "free", !.io = "finish"])
    BY <1>0, <2>1 DEF PtySessions
  <2> HIDE DEF Same
  <2> QED
    BY <1>1, <1>5, <2>2 DEF IoReceives
<1>6. CASE IoLocks(p)
  BY <1>0, <1>1, <1>6 DEF IoLocks, PtySessions
<1>7. CASE IoDelivers(p)
  BY <1>0, <1>1, <1>7 DEF IoDelivers, PtySessions
<1>8. CASE IoStatus(p)
  BY <1>0, <1>1, <1>8 DEF IoStatus, PtySessions
<1>9. CASE Prints(p) \/ Waits(p) \/ Exits(p)
  BY <1>0, <1>1, <1>9 DEF Prints, Waits, Exits, PtySessions
<1> QED
  BY <1>2, <1>3, <1>4, <1>5, <1>6, <1>7, <1>8, <1>9 DEF LoopStep

\* The handler takes or gives back the PTY mutex.
LEMMA HandlerGoesOn ==
  ASSUME SessionsInv, HandlerLocks \/ HandlerSends
  PROVE  /\ UNCHANGED <<events, sftp>> /\ ActivePtys' = ActivePtys
         /\ Unreported' = Unreported
<1>1. hand.of \in Ptys /\ SsnInv
  BY DEF SessionsInv, SsnInv, HandHolds, HandlerLocks, HandlerSends
<1>2. \A q \in Ptys : pty'[q].io = pty[q].io
  BY <1>1 DEF HandlerLocks, HandlerSends, SsnInv, SsnTypes, PtySessions
<1>3. UNCHANGED <<events, sftp>> /\ Unreported' = Unreported
  BY DEF HandlerLocks, HandlerSends, Unreported, Idle, SessionsInv, SsnInv, SsnTypes
<1> QED
  BY <1>2, <1>3 DEF ActivePtys

LEMMA EventsStep ==
  ASSUME SessionsInv, [SsnNext]_ssnVars
  PROVE  SessionsInv'
<1>0. SsnInv' /\ StreamInv'
  BY SsnNextInv, StreamStep DEF SessionsInv
<1> SUFFICES EventsInv'
  BY <1>0 DEF SessionsInv
<1>1. ASSUME NEW k \in Chans, NEW p \in Ptys, ShellRequest(k, p) \/ \E cmd \in Cmds : ExecRequest(k, p, cmd)
      PROVE  EventsInv'
  BY <1>1, SessionStarts DEF ShellRequest, ExecRequest
<1>2. ASSUME NEW k \in Chans, ChannelOpenSession(k) \/ PtyRequest(k) \/ ChannelClose(k) \/ Data(k)
      PROVE  EventsInv'
  <2>1. UNCHANGED <<events, sftp>> /\ ActivePtys' = ActivePtys /\ Unreported' = Unreported
    BY <1>2 DEF ChannelOpenSession, PtyRequest, ChannelClose, Data, Ready, Idle, ActivePtys, Unreported
  <2> QED
    BY <1>0, <2>1, NothingStarts
<1>3. CASE AuthNone \/ DropHandler \/ UNCHANGED ssnVars
  <2>1. UNCHANGED <<events, sftp>> /\ ActivePtys' = ActivePtys /\ Unreported' = Unreported
    BY <1>3 DEF AuthNone, DropHandler, ssnVars, ActivePtys, Unreported
  <2> QED
    BY <1>0, <2>1, NothingStarts
<1>4. CASE HandlerLocks \/ HandlerSends
  BY <1>0, <1>4, HandlerGoesOn, NothingStarts
<1>5. ASSUME NEW p \in Ptys, LoopStep(p) \/ IoStep(p) \/ Prints(p) \/ Waits(p) \/ Exits(p)
      PROVE  EventsInv'
  BY <1>0, <1>5, SessionGoesOn, PtyIsOver, NothingStarts DEF IoStep
<1> QED
  BY <1>1, <1>2, <1>3, <1>4, <1>5, SessionReported, SftpStarts, SftpIsOver
     DEF SsnNext, Requests, HandlerStep

LEMMA EventsInit == SsnInit => SessionsInv
<1> SUFFICES ASSUME SsnInit PROVE SessionsInv
  OBVIOUS
<1>1. ActivePtys = {} /\ ActiveSftp = {} /\ Unreported = 0
  BY DEF SsnInit, ActivePtys, ActiveSftp, Unreported, Idle, NoSession
<1>2. StreamInv
  BY DEF SsnInit, StreamInv
<1>3. EventsInv
  BY <1>1, FS_EmptySet DEF SsnInit, EventsInv
<1> QED
  BY <1>2, <1>3, SsnInitInv DEF SessionsInv

\* SessionEnded is never more than one event ahead of SessionStarted, and it is
\* ahead only while the handler still has a start to report: each session
\* that ends was started, and the handler starts them one at a time (start_shell,
\* exec_command, spawn_pty_io_task).
THEOREM EndedNeverFarAhead == SshSpec => []EndedOvertakesByOne
<1>1. SshInit => SessionsInv
  BY EventsInit DEF SshInit
<1>2. SessionsInv /\ [SshNext]_sshVars => SessionsInv'
  BY ComponentSteps, EventsStep
<1>3. SessionsInv => EndedOvertakesByOne
  <2> SUFFICES ASSUME SessionsInv PROVE EndedOvertakesByOne
    OBVIOUS
  <2>1. Cardinality(ActivePtys) \in Nat /\ Cardinality(ActiveSftp) \in Nat
    BY FS_CardinalityType DEF SessionsInv, EventsInv
  <2> QED
    BY <2>1 DEF SessionsInv, EventsInv, EndedOvertakesByOne, Unreported
<1> QED
  BY <1>1, <1>2, <1>3, PTL DEF SshSpec

(***************************************************************************)
(* The policy cache: its lock.                                             *)
(***************************************************************************)

Asking == {"look", "check", "store", "swap"}

Holding == {"held", "checked", "swap"}

PolSteps == Asking \cup Holding \cup {"idle", "fetch", "refresh", "save", "done"}

\* What a task asks for at a step.
Wants(step) == IF step \in {"look", "check"} THEN "read" ELSE "write"

\* The tasks that ask are those in the queue, each once and for what it wants.
QueueInv ==
  /\ waiting \in Seq(Tasks \X {"read", "write"})
  /\ \A i \in 1 .. Len(waiting) :
       pc[waiting[i][1]] \in Asking /\ waiting[i][2] = Wants(pc[waiting[i][1]])
  /\ \A i, j \in 1 .. Len(waiting) : waiting[i][1] = waiting[j][1] => i = j
  /\ \A t \in Tasks : pc[t] \in Asking => \E i \in 1 .. Len(waiting) : waiting[i][1] = t

PolInv ==
  /\ pc \in [Tasks -> PolSteps]
  /\ holders = {t \in Tasks : pc[t] \in Holding}
  /\ QueueInv

\* A task that goes on from one step to another and stays where it is in the
\* queue and among the holders.
LEMMA QueueKept ==
  ASSUME PolInv, pc' \in [Tasks -> PolSteps], waiting' = waiting,
         \A t \in Tasks : pc'[t] = pc[t] \/ {pc[t], pc'[t]} \cap Asking = {}
  PROVE  QueueInv'
<1>1. \A i \in 1 .. Len(waiting) : waiting[i][1] \in Tasks
  BY DEF PolInv, QueueInv
<1>2. \A t \in Tasks : pc[t] \in Asking \/ pc'[t] \in Asking => pc'[t] = pc[t]
  OBVIOUS
<1> QED
  BY <1>1, <1>2 DEF PolInv, QueueInv

\* A task that does not ask takes a place at the end of the queue.
LEMMA QueueGrows ==
  ASSUME PolInv, NEW t \in Tasks, NEW step \in Asking, pc[t] \notin Asking,
         pc' = [pc EXCEPT ![t] = step], Queue(t, Wants(step))
  PROVE  QueueInv'
<1> DEFINE e == <<t, Wants(step)>>
           n == Len(waiting)
<1>1. e \in Tasks \X {"read", "write"} /\ waiting \in Seq(Tasks \X {"read", "write"}) /\ n \in Nat
  BY DEF Wants, PolInv, QueueInv
<1>2. waiting' \in Seq(Tasks \X {"read", "write"}) /\ Len(waiting') = n + 1
  BY <1>1 DEF Queue
<1>3. waiting'[n + 1] = e /\ \A i \in 1 .. n : waiting'[i] = waiting[i]
  BY <1>1 DEF Queue
<1>4. 1 .. n + 1 = 1 .. n \cup {n + 1} /\ n + 1 \notin 1 .. n
  BY <1>1
<1>5. \A i \in 1 .. n : waiting[i][1] \in Tasks /\ waiting[i][1] # t
  BY <1>1 DEF PolInv, QueueInv
<1>6. e[1] = t /\ e[2] = Wants(step)
  OBVIOUS
<1>7. pc'[t] = step /\ \A u \in Tasks \ {t} : pc'[u] = pc[u]
  BY DEF PolInv
<1> HIDE DEF e, n
<1>8. \A i \in 1 .. n + 1 : pc'[waiting'[i][1]] \in Asking /\ waiting'[i][2] = Wants(pc'[waiting'[i][1]])
  BY <1>3, <1>4, <1>5, <1>6, <1>7 DEF PolInv, QueueInv, n
<1>9. \A i, j \in 1 .. n + 1 : waiting'[i][1] = waiting'[j][1] => i = j
  BY <1>3, <1>4, <1>5, <1>6, <1>7 DEF PolInv, QueueInv, n
<1>10. \A u \in Tasks : pc'[u] \in Asking => \E i \in 1 .. n + 1 : waiting'[i][1] = u
  BY <1>3, <1>4, <1>6, <1>7 DEF PolInv, QueueInv, n
<1> QED
  BY <1>2, <1>8, <1>9, <1>10 DEF QueueInv

\* The task at the head of the queue has its turn.
LEMMA QueueShrinks ==
  ASSUME PolInv, NEW t \in Tasks, NEW want, Turn(t, want), NEW step, step \notin Asking,
         pc' = [pc EXCEPT ![t] = step], waiting' = Tail(waiting)
  PROVE  QueueInv'
<1> DEFINE n == Len(waiting)
<1>1. waiting \in Seq(Tasks \X {"read", "write"}) /\ n \in Nat \ {0} /\ waiting[1][1] = t
  BY DEF PolInv, QueueInv, Turn
<1>2. waiting' \in Seq(Tasks \X {"read", "write"}) /\ Len(waiting') = n - 1
  BY <1>1
<1>3. \A i \in 1 .. n - 1 : i + 1 \in 1 .. n /\ waiting'[i] = waiting[i + 1]
  BY <1>1
<1>4. \A i \in 1 .. n - 1 : waiting'[i][1] \in Tasks /\ waiting'[i][1] # t
  BY <1>1, <1>3 DEF PolInv, QueueInv
<1>5. pc'[t] = step /\ \A u \in Tasks \ {t} : pc'[u] = pc[u]
  BY DEF PolInv
<1>6. \A i \in 1 .. n - 1 : pc'[waiting'[i][1]] \in Asking /\ waiting'[i][2] = Wants(pc'[waiting'[i][1]])
  BY <1>3, <1>4, <1>5 DEF PolInv, QueueInv
<1>7. \A i, j \in 1 .. n - 1 : waiting'[i][1] = waiting'[j][1] => i = j
  BY <1>3 DEF PolInv, QueueInv
<1>8. ASSUME NEW u \in Tasks, pc'[u] \in Asking PROVE \E i \in 1 .. n - 1 : waiting'[i][1] = u
  <2>1. u # t /\ pc[u] \in Asking
    BY <1>5, <1>8
  <2>2. PICK i \in 1 .. n : waiting[i][1] = u
    BY <2>1 DEF PolInv, QueueInv
  <2>3. i - 1 \in 1 .. n - 1 /\ (i - 1) + 1 = i
    BY <1>1, <2>1, <2>2
  <2> QED
    BY <1>3, <2>2, <2>3
<1> QED
  BY <1>2, <1>6, <1>7, <1>8 DEF QueueInv

LEMMA PolNextInv == PolInv /\ [PolNext]_polVars => PolInv'
<1> SUFFICES ASSUME PolInv, [PolNext]_polVars PROVE PolInv'
  OBVIOUS
<1> USE DEF Asking, Holding, PolSteps
<1>1. CASE PolTick \/ ClearCache \/ UNCHANGED polVars
  BY <1>1, QueueKept DEF PolInv, PolTick, ClearCache, polVars
<1>2. ASSUME NEW t \in Tasks, GetPolicy(t) PROVE PolInv'
  <2>1. pc[t] = "idle" /\ pc' = [pc EXCEPT ![t] = "look"] /\ Queue(t, Wants("look")) /\ holders' = holders
    BY <1>2 DEF GetPolicy, AskRead, Wants
  <2>2. QueueInv'
    BY <2>1, QueueGrows
  <2> QED
    BY <2>1, <2>2 DEF PolInv
<1>3. ASSUME NEW t \in Tasks, Refresh(t) \/ Return(t) \/ \E ok \in BOOLEAN : SaveToDisk(t, ok) PROVE PolInv'
  <2>1. pc' \in [Tasks -> PolSteps] /\ waiting' = waiting /\ holders' = holders
        /\ \A u \in Tasks : pc'[u] = pc[u] \/ {pc[u], pc'[u]} \cap (Asking \cup Holding) = {}
    BY <1>3 DEF Refresh, Return, SaveToDisk, PolInv
  <2>2. QueueInv'
    BY <2>1, QueueKept
  <2> QED
    BY <2>1, <2>2 DEF PolInv
<1>4. ASSUME NEW t \in Tasks, NEW ok \in BOOLEAN, Fetch(t, ok) PROVE PolInv'
  <2>0. holders' = holders /\ pc[t] \in {"fetch", "refresh"}
    BY <1>4 DEF Fetch
  <2>1. CASE ~ok /\ pc[t] # "fetch"
    <3>1. pc' \in [Tasks -> PolSteps] /\ waiting' = waiting
          /\ \A u \in Tasks : pc'[u] = pc[u] \/ {pc[u], pc'[u]} \cap (Asking \cup Holding) = {}
      BY <1>4, <2>1 DEF Fetch, PolInv
    <3> QED
      BY <2>0, <3>1, QueueKept DEF PolInv
  <2>2. ASSUME NEW step \in {"store", "check"}, pc' = [pc EXCEPT ![t] = step], Queue(t, Wants(step))
        PROVE  PolInv'
    <3>1. QueueInv'
      BY <2>0, <2>2, QueueGrows
    <3> QED
      BY <2>0, <2>2, <3>1 DEF PolInv
  <2> QED
    BY <1>4, <2>1, <2>2 DEF Fetch, Wants
<1>5. ASSUME NEW t \in Tasks, Look(t) PROVE PolInv'
  <2>1. pc' \in [Tasks -> PolSteps] /\ waiting' = waiting /\ holders' = holders \ {t}
        /\ pc[t] = "held" /\ pc'[t] \notin Asking \cup Holding
        /\ \A u \in Tasks \ {t} : pc'[u] = pc[u] \/ {pc[u], pc'[u]} \cap (Asking \cup Holding) = {}
    BY <1>5 DEF Look, PolInv
  <2>2. QueueInv'
    BY <2>1, QueueKept
  <2> QED
    BY <2>1, <2>2 DEF PolInv
<1>6. ASSUME NEW t \in Tasks, NEW to \in {"held", "checked"},
             GetRead(t, "look", to) \/ GetRead(t, "check", to)
      PROVE  PolInv'
  <2>1. QueueInv'
    BY <1>6, QueueShrinks DEF GetRead
  <2> QED
    BY <1>6, <2>1 DEF GetRead, PolInv
<1>7. ASSUME NEW t \in Tasks, Store(t) PROVE PolInv'
  <2>1. PICK step \in {"save", "done"} : pc' = [pc EXCEPT ![t] = step]
    BY <1>7 DEF Store
  <2>2. QueueInv'
    BY <1>7, <2>1, QueueShrinks DEF Store
  <2>3. t \notin holders /\ holders' = holders
    BY <1>7 DEF Store
  <2> QED
    BY <2>1, <2>2, <2>3 DEF PolInv
<1>8. ASSUME NEW t \in Tasks, Fallback(t) PROVE PolInv'
  <2>1. CASE pc' = [pc EXCEPT ![t] = "swap"] /\ Queue(t, "write") /\ holders' = holders
    <3>1. QueueInv'
      BY <1>8, <2>1, QueueGrows DEF Fallback, Wants
    <3> QED
      BY <1>8, <2>1, <3>1 DEF PolInv, Fallback
  <2>2. CASE pc' = [pc EXCEPT ![t] = "done"] /\ holders' = holders \ {t} /\ waiting' = waiting
    <3>1. QueueInv'
      BY <1>8, <2>2, QueueKept DEF Fallback, PolInv
    <3> QED
      BY <1>8, <2>2, <3>1 DEF PolInv, Fallback
  <2> QED
    BY <1>8, <2>1, <2>2 DEF Fallback
<1> QED
  BY <1>1, <1>2, <1>3, <1>4, <1>5, <1>6, <1>7, <1>8
     DEF PolNext, TaskStep, LookLocked, CheckLocked

LEMMA PolInitInv == PolInit => PolInv
BY DEF PolInit, PolInv, QueueInv, PolSteps, Asking, Holding

\* The task can take its next step: it is at the lock and has its turn, or it is
\* past it.
CanGoOn(t) ==
  \/ pc[t] \in {"held", "checked", "fetch", "refresh", "save", "done"}
  \/ pc[t] \in {"look", "check"} /\ Turn(t, "read")
  \/ pc[t] = "store" /\ Turn(t, "write") /\ holders = {}

\* Unless a call is at the copy on disk, some call under way can go on.
LockServes ==
  (\A t \in Tasks : pc[t] # "swap") /\ (\E t \in Tasks : pc[t] # "idle")
    => \E t \in Tasks : CanGoOn(t)

\* Whatever the tasks do, the cache's lock never leaves them all waiting, as long
\* as no call has fallen back on the copy on disk: readers and writers let go of it
\* before they ask again (get_policy, refresh).
THEOREM PolicyLockServes == SshSpec => []LockServes
<1>1. SshInit => PolInv
  BY PolInitInv DEF SshInit
<1>2. PolInv /\ [SshNext]_sshVars => PolInv'
  BY ComponentSteps, PolNextInv
<1>3. PolInv => LockServes
  <2> SUFFICES ASSUME PolInv, \A t \in Tasks : pc[t] # "swap", NEW t \in Tasks, pc[t] # "idle"
               PROVE  \E u \in Tasks : CanGoOn(u)
    BY DEF LockServes
  <2>1. CASE pc[t] \notin Asking
    BY <2>1 DEF PolInv, PolSteps, Asking, Holding, CanGoOn
  <2>2. CASE pc[t] \in Asking
    <3>1. waiting \in Seq(Tasks \X {"read", "write"}) /\ waiting # <<>>
      BY <2>2 DEF PolInv, QueueInv
    <3>2. Len(waiting) >= 1 /\ waiting[1] \in Tasks \X {"read", "write"} /\ Head(waiting) = waiting[1]
      BY <3>1
    <3> DEFINE u == waiting[1][1]
    <3>3. u \in Tasks /\ pc[u] \in Asking /\ waiting[1] = <<u, Wants(pc[u])>>
      BY <3>2 DEF PolInv, QueueInv
    <3>4. CASE pc[u] \in {"look", "check"}
      BY <3>1, <3>2, <3>3, <3>4 DEF CanGoOn, Turn, Wants
    <3>5. CASE pc[u] \notin {"look", "check"} /\ holders = {}
      BY <3>1, <3>2, <3>3, <3>5 DEF CanGoOn, Turn, Wants, Asking
    <3>6. CASE holders # {}
      BY <3>6 DEF PolInv, Holding, CanGoOn
    <3> QED
      BY <3>4, <3>5, <3>6
  <2> QED
    BY <2>1, <2>2
<1> QED
  BY <1>1, <1>2, <1>3, PTL DEF SshSpec

\* A call that has fallen back on the copy on disk stays there, and the cached policy
\* with it.
SwapStays ==
  [][\A t \in Tasks : pc[t] = "swap" => pc'[t] = "swap" /\ cache' = cache]_polVars

\* The call that loads the copy from disk never returns, whatever its callers, the clock
\* and the backend do, and no policy is stored or cleared any more: it waits for
\* the write lock with the read lock in its hands (get_policy).
THEOREM DiskCopyNeverReturns == SshSpec => SwapStays
<1>1. SshInit => PolInv
  BY PolInitInv DEF SshInit
<1>2. PolInv /\ [SshNext]_sshVars => PolInv'
  BY ComponentSteps, PolNextInv
<1>3. PolInv /\ [SshNext]_sshVars
      => [\A t \in Tasks : pc[t] = "swap" => pc'[t] = "swap" /\ cache' = cache]_polVars
  <2> SUFFICES ASSUME PolInv, [PolNext]_polVars, NEW t \in Tasks, pc[t] = "swap"
               PROVE  pc'[t] = "swap" /\ cache' = cache
    BY ComponentSteps
  <2>1. t \in holders
    BY DEF PolInv, Holding
  <2>2. ASSUME NEW u \in Tasks, GetPolicy(u) \/ Refresh(u) \/ TaskStep(u)
        PROVE  pc'[t] = "swap" /\ cache' = cache
    <3>1. ~Store(u)
      BY <2>1 DEF Store
    <3>2. cache' = cache
      BY <2>2, <3>1 DEF GetPolicy, AskRead, Refresh, TaskStep, LookLocked, GetRead, Look, CheckLocked,
                        Fallback, Return, Fetch, SaveToDisk
    <3>3. pc'[t] = "swap"
      BY <2>2, <3>1 DEF GetPolicy, AskRead, Refresh, TaskStep, LookLocked, GetRead, Look, CheckLocked,
                        Fallback, Return, Fetch, SaveToDisk, PolInv
    <3> QED
      BY <3>2, <3>3
  <2>3. CASE PolTick \/ ClearCache \/ UNCHANGED polVars
    BY <2>1, <2>3 DEF PolTick, ClearCache, polVars
  <2> QED
    BY <2>2, <2>3 DEF PolNext
<1> QED
  BY <1>1, <1>2, <1>3, PTL DEF SshSpec, SwapStays

(***************************************************************************)
(* The fleet: permits, targets and results.                                *)
(***************************************************************************)

Outcomes == {"succeeded", "failed", "timed_out", "unreachable"}

FleetResults == [by: DOMAIN Peers, status: Outcomes]

BusyAt == {"connecting", "executing", "closing"}

\* The targets whose tasks hold a permit.
Busy == {p \in DOMAIN Peers : node[p].at \in BusyAt}

FleetTypes ==
  /\ op \in [todo: SUBSET DOMAIN Peers, max: Nat, phase: {"idle", "spawning", "joining", "done"}]
  /\ node \in [DOMAIN Peers -> [at: BusyAt \cup {"none", "finished", "reported"},
                                how: Outcomes \cup {Missing}]]
  /\ permits \in Nat
  /\ results \in [{NodeId(p) : p \in DOMAIN Peers} -> FleetResults \cup {Missing}]

\* A permit is free or in the hands of a task.
PermitsInv == IsFiniteSet(Busy) /\ permits + Cardinality(Busy) = op.max

\* What is left to spawn, and what is left to collect.
PhaseInv ==
  /\ op.phase = "spawning" <=> op.todo # {}
  /\ op.phase = "idle" => \A p \in DOMAIN Peers : node[p].at = "none"
  /\ op.phase = "joining" => \E p \in DOMAIN Peers : node[p].at \notin {"none", "reported"}
  /\ op.phase = "done" => \A p \in DOMAIN Peers : node[p].at \in {"none", "reported"}
  /\ \A p \in op.todo : node[p].at = "none"

\* What is collected stays, where no other target has the same id.
ReportInv ==
  \A p \in DOMAIN Peers :
    /\ node[p].at \in {"closing", "finished"} => node[p].how \in Outcomes
    /\ node[p].at = "reported" /\ (\A q \in DOMAIN Peers \ {p} : NodeId(q) # NodeId(p))
       => results[NodeId(p)] \in FleetResults /\ results[NodeId(p)].by = p

FleetInv == FleetTypes /\ PermitsInv /\ PhaseInv /\ ReportInv

\* A task of a target goes on, and only its target moves.
LEMMA NodeMoves ==
  ASSUME FleetTypes, NEW p \in DOMAIN Peers, NEW new, node' = [node EXCEPT ![p] = new]
  PROVE  node'[p] = new /\ \A q \in DOMAIN Peers \ {p} : node'[q] = node[q]
BY DEF FleetTypes

\* A target becomes busy, stops being busy, or neither.
LEMMA BusyGains ==
  ASSUME FleetTypes, IsFiniteSet(Busy), NEW p \in DOMAIN Peers, NEW new,
         node' = [node EXCEPT ![p] = new], node[p].at \notin BusyAt, new.at \in BusyAt
  PROVE  IsFiniteSet(Busy') /\ Cardinality(Busy) \in Nat /\ Cardinality(Busy') = Cardinality(Busy) + 1
<1>0. node'[p] = new /\ \A q \in DOMAIN Peers \ {p} : node'[q] = node[q]
  BY NodeMoves
<1>1. Busy' = Busy \cup {p} /\ p \notin Busy
  BY <1>0 DEF Busy
<1> QED
  BY <1>1, GainsOne

LEMMA BusyLoses ==
  ASSUME FleetTypes, IsFiniteSet(Busy), NEW p \in DOMAIN Peers, NEW new,
         node' = [node EXCEPT ![p] = new], node[p].at \in BusyAt, new.at \notin BusyAt
  PROVE  /\ IsFiniteSet(Busy') /\ Cardinality(Busy') \in Nat /\ Cardinality(Busy) \in Nat
         /\ Cardinality(Busy') = Cardinality(Busy) - 1
<1>0. node'[p] = new /\ \A q \in DOMAIN Peers \ {p} : node'[q] = node[q]
  BY NodeMoves
<1>1. Busy' = Busy \ {p} /\ p \in Busy
  BY <1>0 DEF Busy
<1> QED
  BY <1>1, LosesOne

LEMMA BusyStays ==
  ASSUME FleetTypes, NEW p \in DOMAIN Peers, NEW new, node' = [node EXCEPT ![p] = new],
         node[p].at \in BusyAt <=> new.at \in BusyAt
  PROVE  Busy' = Busy
BY NodeMoves DEF Busy

\* A task goes on to a state that is not yet reported, and with the permit it gives
\* back or keeps.
LEMMA TaskGoesOn ==
  ASSUME FleetInv, NEW p \in DOMAIN Peers, node[p].at \in BusyAt,
         NEW new \in [at: BusyAt \cup {"finished"}, how: Outcomes \cup {Missing}],
         node' = [node EXCEPT ![p] = new], UNCHANGED <<op, results>>,
         new.at \in {"closing", "finished"} => new.how \in Outcomes,
         permits' = IF new.at = "finished" THEN permits + 1 ELSE permits
  PROVE  FleetInv'
<1>1. node'[p] = new /\ \A q \in DOMAIN Peers \ {p} : node'[q] = node[q]
  BY NodeMoves DEF FleetInv
<1>2. FleetTypes'
  BY DEF FleetInv, FleetTypes
<1>3. PermitsInv'
  <2>1. CASE new.at = "finished"
    <3>1. new.at \notin BusyAt
      BY <2>1 DEF BusyAt
    <3>2. /\ IsFiniteSet(Busy') /\ Cardinality(Busy') \in Nat /\ Cardinality(Busy) \in Nat
          /\ Cardinality(Busy') = Cardinality(Busy) - 1
      BY <3>1, BusyLoses DEF FleetInv, PermitsInv
    <3> QED
      BY <2>1, <3>2 DEF FleetInv, PermitsInv, FleetTypes
  <2>2. CASE new.at # "finished"
    <3>1. Busy' = Busy
      BY <2>2, BusyStays DEF FleetInv
    <3> QED
      BY <2>2, <3>1 DEF FleetInv, PermitsInv
  <2> QED
    BY <2>1, <2>2
<1>4. PhaseInv'
  <2>1. p \notin op.todo /\ op.phase \notin {"idle", "done"} /\ node'[p].at \notin {"none", "reported"}
    BY <1>1 DEF FleetInv, PhaseInv, BusyAt
  <2> QED
    BY <1>1, <2>1 DEF FleetInv, PhaseInv, FleetTypes
<1>5. ReportInv'
  BY <1>1 DEF FleetInv, ReportInv, BusyAt
<1> QED
  BY <1>2, <1>3, <1>4, <1>5 DEF FleetInv

LEMMA SpawnKeeps == FleetInv /\ SpawnNode => FleetInv'
<1> SUFFICES ASSUME FleetInv, SpawnNode PROVE FleetInv'
  OBVIOUS
<1> DEFINE p == Min(op.todo)
           new == [node[p] EXCEPT !.at = "connecting"]
<1>1. p \in op.todo /\ p \in DOMAIN Peers
  <2>1. op.todo \in SUBSET Nat /\ op.todo # {} /\ op.todo \subseteq DOMAIN Peers
    BY FleetConstants DEF FleetInv, FleetTypes, PhaseInv, SpawnNode
  <2>2. \E m \in op.todo : \A i \in op.todo : m <= i
    BY <2>1, LeastNatural
  <2> QED
    BY <2>1, <2>2 DEF Min
<1>2. /\ node' = [node EXCEPT ![p].at = "connecting"] /\ permits > 0 /\ permits' = permits - 1
      /\ op' = [op EXCEPT !.todo = op.todo \ {p}, !.phase = IF op.todo = {p} THEN "joining" ELSE op.phase]
      /\ results' = results /\ op.phase = "spawning"
  BY DEF SpawnNode
<1> HIDE DEF p
<1>3. node' = [node EXCEPT ![p] = new] /\ node[p].at = "none"
      /\ new \in [at: BusyAt, how: Outcomes \cup {Missing}] /\ new.at = "connecting"
  <2>1. node[p] \in [at: BusyAt \cup {"none", "finished", "reported"}, how: Outcomes \cup {Missing}]
        /\ node[p].at = "none"
    BY <1>1 DEF FleetInv, FleetTypes, PhaseInv
  <2>2. new \in [at: BusyAt, how: Outcomes \cup {Missing}] /\ new.at = "connecting"
    BY <2>1 DEF BusyAt
  <2> QED
    BY <1>2, <2>1, <2>2
<1> HIDE DEF new
<1>4. node'[p].at = "connecting" /\ \A q \in DOMAIN Peers \ {p} : node'[q] = node[q]
  BY <1>1, <1>3 DEF FleetInv, FleetTypes
<1>5. /\ op'.todo = op.todo \ {p} /\ op'.max = op.max
      /\ op'.phase = IF op.todo = {p} THEN "joining" ELSE "spawning"
      /\ op' \in [todo: SUBSET DOMAIN Peers, max: Nat, phase: {"idle", "spawning", "joining", "done"}]
  BY <1>2 DEF FleetInv, FleetTypes
<1>6. FleetTypes'
  <2>1. permits - 1 \in Nat
    BY <1>2 DEF FleetInv, FleetTypes
  <2>2. node' \in [DOMAIN Peers -> [at: BusyAt \cup {"none", "finished", "reported"},
                                    how: Outcomes \cup {Missing}]]
    BY <1>3 DEF FleetInv, FleetTypes
  <2> QED
    BY <1>2, <1>5, <2>1, <2>2 DEF FleetInv, FleetTypes
<1>7. PermitsInv'
  <2>1. node[p].at \notin BusyAt /\ new.at \in BusyAt
    BY <1>3 DEF BusyAt
  <2>2. IsFiniteSet(Busy') /\ Cardinality(Busy) \in Nat /\ Cardinality(Busy') = Cardinality(Busy) + 1
    BY <1>1, <1>3, <2>1, BusyGains DEF FleetInv, PermitsInv
  <2>3. permits \in Nat /\ permits + Cardinality(Busy) = op.max
    BY DEF FleetInv, PermitsInv, FleetTypes
  <2>4. permits' = permits - 1 /\ op'.max = op.max
    BY <1>2, <1>5
  <2>5. permits' + Cardinality(Busy') = op'.max
    BY <2>2, <2>3, <2>4
  <2> QED
    BY <2>2, <2>5 DEF PermitsInv
<1>8. PhaseInv'
  <2>1. op.todo \ {p} # {} <=> op.todo # {p}
    BY <1>1
  <2>2. op'.phase = "spawning" <=> op'.todo # {}
    BY <1>5, <2>1
  <2>3. \A q \in op'.todo : node'[q].at = "none"
    BY <1>4, <1>5 DEF FleetInv, PhaseInv, FleetTypes
  <2> QED
    BY <1>1, <1>4, <1>5, <2>2, <2>3 DEF PhaseInv
<1>9. ReportInv'
  BY <1>2, <1>4 DEF FleetInv, ReportInv
<1> QED
  BY <1>6, <1>7, <1>8, <1>9 DEF FleetInv

LEMMA CollectKeeps ==
  ASSUME FleetInv, NEW p \in DOMAIN Peers, Collect(p)
  PROVE  FleetInv'
<1> DEFINE new == [node[p] EXCEPT !.at = "reported"]
           res == [by |-> p, status |-> node[p].how]
           rest == \A q \in DOMAIN Peers \ {p} : node[q].at \in {"none", "reported"}
<1>1. /\ node' = [node EXCEPT ![p].at = "reported"] /\ permits' = permits
      /\ results' = [results EXCEPT ![NodeId(p)] = res]
      /\ op' = [op EXCEPT !.phase = IF rest THEN "done" ELSE op.phase]
      /\ op.phase = "joining" /\ node[p].at = "finished"
  BY DEF Collect
<1>2. node' = [node EXCEPT ![p] = new] /\ new.at = "reported" /\ node[p].how \in Outcomes
      /\ new \in [at: {"reported"}, how: Outcomes] /\ res \in FleetResults /\ res.by = p
  <2>1. node[p] \in [at: BusyAt \cup {"none", "finished", "reported"}, how: Outcomes \cup {Missing}]
        /\ node[p].how \in Outcomes
    BY <1>1 DEF FleetInv, FleetTypes, ReportInv
  <2>2. new \in [at: {"reported"}, how: Outcomes] /\ new.at = "reported"
    BY <2>1
  <2> QED
    BY <1>1, <2>1, <2>2 DEF FleetResults
<1> HIDE DEF new, res
<1>3. node'[p] = new /\ \A q \in DOMAIN Peers \ {p} : node'[q] = node[q]
  BY <1>2, NodeMoves DEF FleetInv
<1>4. /\ op'.todo = op.todo /\ op'.max = op.max /\ op'.phase = IF rest THEN "done" ELSE "joining"
      /\ op' \in [todo: SUBSET DOMAIN Peers, max: Nat, phase: {"idle", "spawning", "joining", "done"}]
  BY <1>1 DEF FleetInv, FleetTypes
<1>5. NodeId(p) \in {NodeId(q) : q \in DOMAIN Peers}
  OBVIOUS
<1>6. FleetTypes'
  <2>1. results' \in [{NodeId(q) : q \in DOMAIN Peers} -> FleetResults \cup {Missing}]
    BY <1>1, <1>2 DEF FleetInv, FleetTypes
  <2>2. node' \in [DOMAIN Peers -> [at: BusyAt \cup {"none", "finished", "reported"},
                                    how: Outcomes \cup {Missing}]]
    BY <1>2 DEF FleetInv, FleetTypes
  <2> QED
    BY <1>1, <1>4, <2>1, <2>2 DEF FleetInv, FleetTypes
<1>7. PermitsInv'
  <2>1. Busy' = Busy
    <3>1. node[p].at \notin BusyAt /\ new.at \notin BusyAt
      BY <1>1, <1>2 DEF BusyAt
    <3> QED
      BY <1>2, <3>1, BusyStays DEF FleetInv
  <2> QED
    BY <1>1, <1>4, <2>1 DEF FleetInv, PermitsInv
<1>8. PhaseInv'
  <2>1. op.todo = {}
    BY <1>1 DEF FleetInv, PhaseInv
  <2> QED
    BY <1>2, <1>3, <1>4, <2>1 DEF PhaseInv
<1>9. ReportInv'
  <2>1. results'[NodeId(p)] = res
    BY <1>1, <1>5 DEF FleetInv, FleetTypes
  <2>2. ASSUME NEW q \in DOMAIN Peers \ {p}
        PROVE  /\ node'[q].at \in {"closing", "finished"} => node'[q].how \in Outcomes
               /\ node'[q].at = "reported" /\ (\A r \in DOMAIN Peers \ {q} : NodeId(r) # NodeId(q))
                  => results'[NodeId(q)] \in FleetResults /\ results'[NodeId(q)].by = q
    <3>1. NodeId(q) # NodeId(p) => results'[NodeId(q)] = results[NodeId(q)]
      BY <1>1 DEF FleetInv, FleetTypes
    <3> QED
      BY <1>3, <3>1 DEF FleetInv, ReportInv
  <2> QED
    BY <1>2, <1>3, <2>1, <2>2 DEF ReportInv
<1> QED
  BY <1>6, <1>7, <1>8, <1>9 DEF FleetInv

LEMMA FleetNextInv == FleetInv /\ [FleetNext]_fleetVars => FleetInv'
<1> SUFFICES ASSUME FleetInv, [FleetNext]_fleetVars PROVE FleetInv'
  OBVIOUS
<1>1. ASSUME NEW chosen \in Targets, Execute(chosen) PROVE FleetInv'
  <2>0. /\ op.phase = "idle" /\ UNCHANGED <<node, permits, results>>
        /\ op' = [op EXCEPT !.todo = chosen, !.phase = IF chosen = {} THEN "done" ELSE "spawning"]
    BY <1>1 DEF Execute
  <2>1. /\ op'.todo = chosen /\ op'.max = op.max
        /\ op'.phase = IF chosen = {} THEN "done" ELSE "spawning"
        /\ op' \in [todo: SUBSET DOMAIN Peers, max: Nat, phase: {"idle", "spawning", "joining", "done"}]
    BY <2>0, FleetConstants DEF FleetInv, FleetTypes
  <2>2. Busy' = Busy
    BY <2>0 DEF Busy
  <2>3. FleetTypes' /\ PermitsInv' /\ ReportInv'
    BY <2>0, <2>1, <2>2 DEF FleetInv, FleetTypes, PermitsInv, ReportInv
  <2>4. \A p \in DOMAIN Peers : node[p].at = "none"
    BY <2>0 DEF FleetInv, PhaseInv
  <2>5. PhaseInv'
    BY <2>0, <2>1, <2>4, FleetConstants DEF PhaseInv
  <2> QED
    BY <2>3, <2>5 DEF FleetInv
<1>2. ASSUME NEW p \in DOMAIN Peers, NEW how \in {"ok", "unreachable", "timed_out"}, NodeConnects(p, how)
      PROVE  FleetInv'
  <2>0. node[p].at = "connecting" /\ node[p].at \in BusyAt
    BY <1>2 DEF NodeConnects, BusyAt
  <2>1. CASE how = "ok"
    <3> DEFINE new == [node[p] EXCEPT !.at = "executing"]
    <3>1. /\ new \in [at: BusyAt \cup {"finished"}, how: Outcomes \cup {Missing}]
          /\ new.at = "executing" /\ node' = [node EXCEPT ![p] = new] /\ permits' = permits
      BY <1>2, <2>1 DEF NodeConnects, FleetInv, FleetTypes, BusyAt
    <3> HIDE DEF new
    <3> QED
      BY <1>2, <2>0, <3>1, TaskGoesOn DEF NodeConnects
  <2>2. CASE how # "ok"
    <3> DEFINE new == [at |-> "finished", how |-> how]
    <3>1. /\ new \in [at: BusyAt \cup {"finished"}, how: Outcomes \cup {Missing}]
          /\ new.at = "finished" /\ new.how \in Outcomes
          /\ node' = [node EXCEPT ![p] = new] /\ permits' = permits + 1
      BY <1>2, <2>2 DEF NodeConnects, Outcomes
    <3> HIDE DEF new
    <3> QED
      BY <1>2, <2>0, <3>1, TaskGoesOn DEF NodeConnects
  <2> QED
    BY <2>1, <2>2
<1>3. ASSUME NEW p \in DOMAIN Peers, NEW how \in Outcomes, NodeExecutes(p, how)
      PROVE  FleetInv'
  <2> DEFINE new == [at |-> "closing", how |-> how]
  <2>1. /\ new \in [at: BusyAt \cup {"finished"}, how: Outcomes \cup {Missing}]
        /\ new.at = "closing" /\ new.how \in Outcomes /\ node[p].at \in BusyAt
        /\ node' = [node EXCEPT ![p] = new] /\ permits' = permits
    BY <1>3 DEF NodeExecutes, BusyAt
  <2> HIDE DEF new
  <2> QED
    BY <1>3, <2>1, TaskGoesOn DEF NodeExecutes
<1>4. ASSUME NEW p \in DOMAIN Peers, NodeCloses(p) PROVE FleetInv'
  <2> DEFINE new == [node[p] EXCEPT !.at = "finished"]
  <2>0. node[p].how \in Outcomes /\ node[p].at \in BusyAt
    BY <1>4 DEF NodeCloses, FleetInv, ReportInv, BusyAt
  <2>1. /\ new \in [at: BusyAt \cup {"finished"}, how: Outcomes \cup {Missing}]
        /\ new.at = "finished" /\ new.how \in Outcomes
        /\ node' = [node EXCEPT ![p] = new] /\ permits' = permits + 1
    BY <1>4, <2>0 DEF NodeCloses, FleetInv, FleetTypes
  <2> HIDE DEF new
  <2> QED
    BY <1>4, <2>0, <2>1, TaskGoesOn DEF NodeCloses
<1>5. CASE UNCHANGED fleetVars
  <2>1. Busy' = Busy
    BY <1>5 DEF fleetVars, Busy
  <2> QED
    BY <1>5, <2>1 DEF fleetVars, FleetInv, FleetTypes, PermitsInv, PhaseInv, ReportInv
<1> QED
  BY <1>1, <1>2, <1>3, <1>4, <1>5, SpawnKeeps, CollectKeeps DEF FleetNext, FleetStep, Outcomes

LEMMA FleetInitInv == FleetInit => FleetInv
<1> SUFFICES ASSUME FleetInit PROVE FleetInv
  OBVIOUS
<1>1. Busy = {}
  BY DEF FleetInit, Busy, BusyAt
<1>2. PICK max \in MaxParallels :
        op = [todo |-> {}, max |-> max, phase |-> "idle"] /\ permits = max
  BY DEF FleetInit
<1>3. max \in Nat
  BY FleetConstants
<1>4. FleetTypes
  BY <1>2, <1>3 DEF FleetInit, FleetTypes
<1>5. PermitsInv
  BY <1>1, <1>2, <1>3, FS_EmptySet DEF PermitsInv
<1>6. PhaseInv /\ ReportInv
  BY <1>2 DEF FleetInit, PhaseInv, ReportInv
<1> QED
  BY <1>4, <1>5, <1>6 DEF FleetInv

\* Some step of the operation can be taken: a target is spawned, a task goes on, or
\* a result is collected.
FleetCanGoOn ==
  \/ op.phase = "spawning" /\ permits > 0
  \/ Busy # {}
  \/ \E p \in DOMAIN Peers :
       /\ op.phase = "joining" /\ node[p].at = "finished"
       /\ \A q \in DOMAIN Peers : q < p => node[q].at \in {"none", "reported"}

\* No more than max_parallel nodes are connected at a time, and an operation that
\* has a permit at all has a step to take, unless every node left is one whose
\* answer or whose session.close() it waits for (a node in Busy).
FleetServes ==
  /\ IsFiniteSet(Busy) /\ Cardinality(Busy) <= op.max
  /\ op.phase \in {"spawning", "joining"} /\ op.max > 0 => FleetCanGoOn

LEMMA FleetInvServes == FleetInv => FleetServes
<1> SUFFICES ASSUME FleetInv PROVE FleetServes
  OBVIOUS
<1>1. IsFiniteSet(Busy) /\ Cardinality(Busy) \in Nat /\ permits + Cardinality(Busy) = op.max
      /\ permits \in Nat /\ op.max \in Nat
  BY FS_CardinalityType DEF FleetInv, PermitsInv, FleetTypes
<1>2. ASSUME op.phase = "spawning", op.max > 0 PROVE FleetCanGoOn
  <2>1. CASE permits > 0
    BY <1>2, <2>1 DEF FleetCanGoOn
  <2>2. CASE ~(permits > 0)
    <3>1. Cardinality(Busy) # 0
      BY <1>1, <1>2, <2>2
    <3>2. Busy # {}
      BY <3>1, FS_EmptySet
    <3> QED
      BY <3>2 DEF FleetCanGoOn
  <2> QED
    BY <2>1, <2>2
<1>3. ASSUME op.phase = "joining" PROVE FleetCanGoOn
  <2> DEFINE Left == {p \in DOMAIN Peers : node[p].at \notin {"none", "reported"}}
  <2>1. Left \in SUBSET Nat /\ Left # {} /\ Left \subseteq DOMAIN Peers
    BY <1>3, FleetConstants DEF FleetInv, PhaseInv
  <2>2. \E m \in Left : \A i \in Left : m <= i
    <3> HIDE DEF Left
    <3> QED
      BY <2>1, LeastNatural
  <2>3. PICK m \in Left : \A i \in Left : m <= i
    BY <2>2
  <2>4. m \in Nat /\ \A q \in DOMAIN Peers : q \in Nat
    BY <2>1, FleetConstants
  <2>5. \A q \in DOMAIN Peers : q < m => node[q].at \in {"none", "reported"}
    BY <2>3, <2>4
  <2>6. node[m].at \in BusyAt \/ node[m].at = "finished"
    BY <2>1 DEF FleetInv, FleetTypes
  <2> QED
    BY <1>3, <2>5, <2>6 DEF FleetCanGoOn, Busy
<1> QED
  BY <1>1, <1>2, <1>3 DEF FleetServes

\* What execute promises, for any fleet and any number of permits: a semaphore that
\* loses no permit when a node fails or times out (execute, execute_on_node).  That
\* a busy node's close() returns is not part of it: it has no time limit.
THEOREM FleetAlwaysServes == SshSpec => []FleetServes
<1>1. SshInit => FleetInv
  BY FleetInitInv DEF SshInit
<1>2. FleetInv /\ [SshNext]_sshVars => FleetInv'
  BY ComponentSteps, FleetNextInv
<1> QED
  BY <1>1, <1>2, FleetInvServes, PTL DEF SshSpec

\* When execute returns, each target that has an id of its own has its own result
\* (execute: one map of results, keyed by node_id).
THEOREM TargetsAlwaysReported == SshSpec => []EveryTargetReported
<1>1. SshInit => FleetInv
  BY FleetInitInv DEF SshInit
<1>2. FleetInv /\ [SshNext]_sshVars => FleetInv'
  BY ComponentSteps, FleetNextInv
<1>3. FleetInv => EveryTargetReported
  <2> SUFFICES ASSUME FleetInv, op.phase = "done", NEW p \in DOMAIN Peers, node[p].at # "none",
                      \A q \in DOMAIN Peers \ {p} : NodeId(q) # NodeId(p)
               PROVE  results[NodeId(p)] # Missing /\ results[NodeId(p)].by = p
    BY DEF EveryTargetReported
  <2>1. node[p].at = "reported"
    BY DEF FleetInv, PhaseInv
  <2>2. results[NodeId(p)] \in FleetResults /\ results[NodeId(p)].by = p
    BY <2>1 DEF FleetInv, ReportInv
  <2>3. Missing \notin FleetResults
    BY FleetConstants DEF FleetResults, Outcomes
  <2> QED
    BY <2>2, <2>3
<1> QED
  BY <1>1, <1>2, <1>3, PTL DEF SshSpec
=============================================================================
