----------------------------- MODULE SshServer -----------------------------
(***************************************************************************)
(* The accept path of the SSH server: ConnectionRateLimiter, the task      *)
(* SshServer::start spawns for every connection (SshServerRef), the        *)
(* authentication by VPN identity, and shutdown.  Time is a clock in units *)
(* of the limiter's shortest span; a comparison with elapsed() is a        *)
(* comparison with the difference to the clock.                            *)
(***************************************************************************)
EXTENDS Naturals, Sequences, FiniteSets, FiniteSetsExt, SequencesExt

CONSTANTS Ips,          \* source addresses
          SshConns,     \* slots for connections, used again once free
          Rules,        \* SSH policy rules the backend may serve
          PerIp, MaxFailedAuth, BanTime,        \* SshServerConfig
          Minute, TwoMinutes, Hour,             \* spans of the limiter
          Horizon,      \* bound on the clock
          LogCap,       \* bound on calls of the limiter per address
          Never         \* no time, no rule

ASSUME SrvConstants ==
  /\ PerIp \in Nat /\ MaxFailedAuth \in Nat \ {0}
  /\ {BanTime, Minute, TwoMinutes, Hour, Horizon, LogCap} \subseteq Nat
  /\ Minute < TwoMinutes
  /\ Rules \subseteq [ips: SUBSET Ips, until: Nat, hold: BOOLEAN, inTime: BOOLEAN,
                      reject: BOOLEAN, accept: BOOLEAN, mapped: BOOLEAN]
  /\ Never \notin [n: Nat, start: Nat]

VARIABLES
  clock,
  counts,     \* connection_counts: [n, start] or Never
  fails,      \* failed_auth_counts: [n, first] or Never
  banned,     \* banned_ips: the time of the ban or Never
  policy,     \* the rules get_ssh_policy returns
  conn,       \* per connection: phase, source, whether its handler is valid
  registry,   \* active_conns of the SshServer
  told,       \* history: connections that were open when shutdown ran
  allowedAt,  \* history: the times check_allowed answered Allowed
  failedAt,   \* history: the failures recorded since the last reset
  manual      \* history: addresses whose ban was asked for by ban_ip

srvVars == <<clock, counts, fails, banned, policy, conn, registry, told, allowedAt,
            failedAt, manual>>

limVars == <<counts, fails, banned, allowedAt, failedAt, manual>>

SrvInit ==
  /\ clock = 0
  /\ counts = [a \in Ips |-> Never] /\ fails = [a \in Ips |-> Never]
  /\ banned = [a \in Ips |-> Never]
  /\ policy \in {<<r>> : r \in Rules}
  /\ conn = [c \in SshConns |-> [phase |-> "none", src |-> Never, valid |-> TRUE]]
  /\ registry = {} /\ told = {}
  /\ allowedAt = [a \in Ips |-> <<>>] /\ failedAt = [a \in Ips |-> <<>>]
  /\ manual = {}

Since(t) == clock - t

-----------------------------------------------------------------------------
(* ConnectionRateLimiter *)

IsBanned(a) == banned[a] # Never /\ Since(banned[a]) < BanTime

CountedBad(a) == [n |-> 0, start |-> clock]

\* The window the count is taken in: a new one for a new address and when the
\* old one is more than a minute old.
Counted(a) ==
  IF counts[a] = Never \/ Since(counts[a].start) > Minute
  THEN [n |-> 0, start |-> clock] ELSE counts[a]

\* check_allowed.  Nobody takes permits from the semaphore, so the answer
\* TooManyConnections does not occur.
CheckAllowed(a, answer) ==
  /\ answer = IF IsBanned(a) THEN "banned"
              ELSE IF Counted(a).n >= PerIp THEN "limited" ELSE "allowed"
  /\ IF IsBanned(a) THEN UNCHANGED limVars
     ELSE /\ banned' = [banned EXCEPT ![a] = Never] /\ manual' = manual \ {a}
          /\ IF banned[a] = Never THEN UNCHANGED <<fails, failedAt>>
             ELSE /\ fails' = [fails EXCEPT ![a] = Never]
                  /\ failedAt' = [failedAt EXCEPT ![a] = <<>>]
          /\ counts' = [counts EXCEPT ![a] =
               IF answer = "allowed" THEN [Counted(a) EXCEPT !.n = @ + 1] ELSE Counted(a)]
          /\ allowedAt' = IF answer = "allowed"
                          THEN [allowedAt EXCEPT ![a] = Append(@, clock)] ELSE allowedAt

\* The failures count within an hour of the first one.
FailedSoFar(a) ==
  IF fails[a] = Never \/ Since(fails[a].first) > Hour
  THEN [n |-> 0, first |-> clock] ELSE fails[a]

RecordFailedAuth(a) ==
  /\ Len(failedAt[a]) < LogCap
  /\ LET f == [FailedSoFar(a) EXCEPT !.n = @ + 1] IN
     /\ fails' = [fails EXCEPT ![a] = f]
     /\ banned' = IF f.n >= MaxFailedAuth THEN [banned EXCEPT ![a] = clock] ELSE banned
  /\ failedAt' = [failedAt EXCEPT ![a] = Append(@, clock)]
  /\ UNCHANGED <<clock, counts, policy, conn, registry, told, allowedAt, manual>>

RecordSuccessfulAuth(a) ==
  /\ fails[a] # Never
  /\ fails' = [fails EXCEPT ![a] = Never]
  /\ failedAt' = [failedAt EXCEPT ![a] = IF banned[a] = Never THEN <<>> ELSE @]
  /\ UNCHANGED <<clock, counts, banned, policy, conn, registry, told, allowedAt, manual>>

BanIp(a) ==
  /\ banned[a] = Never
  /\ banned' = [banned EXCEPT ![a] = clock]
  /\ manual' = manual \cup {a}
  /\ UNCHANGED <<clock, counts, fails, policy, conn, registry, told, allowedAt, failedAt>>

UnbanIp(a) ==
  /\ banned[a] # Never
  /\ banned' = [banned EXCEPT ![a] = Never]
  /\ fails' = [fails EXCEPT ![a] = Never]
  /\ failedAt' = [failedAt EXCEPT ![a] = <<>>]
  /\ manual' = manual \ {a}
  /\ UNCHANGED <<clock, counts, policy, conn, registry, told, allowedAt>>

\* Expired bans go, the failures that led to them stay for their hour.
Cleanup ==
  /\ banned' = [a \in Ips |-> IF IsBanned(a) THEN banned[a] ELSE Never]
  /\ counts' = [a \in Ips |-> IF counts[a] # Never /\ Since(counts[a].start) < TwoMinutes
                              THEN counts[a] ELSE Never]
  /\ fails' = [a \in Ips |-> IF fails[a] # Never /\ Since(fails[a].first) < Hour
                             THEN fails[a] ELSE Never]
  /\ manual' = {a \in manual : IsBanned(a)}
  /\ UNCHANGED <<clock, policy, conn, registry, told, allowedAt, failedAt>>

-----------------------------------------------------------------------------
(* Authentication: OmniEdgeAuthenticator::authenticate and evaluate_policy. *)
(* What the backend answers to is_omniedge_ip is an input, vpn.             *)

\* StandaloneSshBackend::generate_policy: one rule for every principal, with a
\* mapping for every user, that never expires within the horizon.
StandaloneRule ==
  [ips |-> Ips, until |-> Horizon + 1, hold |-> FALSE, inTime |-> TRUE,
   reject |-> FALSE, accept |-> TRUE, mapped |-> TRUE]

\* The first rule that has not expired and matches the peer; a rule stands for
\* its principals and its user map as the source addresses it matches.
Matching(a) == {i \in DOMAIN policy : policy[i].until >= clock /\ a \in policy[i].ips}

\* hold_and_delegate is answered first, so the branch for
\* override_with_approval inside the time check is never taken.
Verdict(a, vpn) ==
  IF ~vpn \/ Matching(a) = {} THEN "reject"
  ELSE LET r == policy[Min(Matching(a))] IN
       IF r.hold THEN "hold"
       ELSE IF ~r.inTime \/ r.reject \/ ~r.accept THEN "reject"
       ELSE IF ~r.mapped THEN "error" ELSE "accept"

-----------------------------------------------------------------------------
(* Connections *)

Accept(c, a) ==
  /\ conn[c].phase \in {"none", "refused", "closed"}
  /\ conn' = [conn EXCEPT ![c] = [phase |-> "accepted", src |-> a, valid |-> TRUE]]
  /\ told' = told \ {c}
  /\ UNCHANGED <<clock, policy, registry>> /\ UNCHANGED limVars

\* SshServerRef::handle_connection up to the session.  It does not look at
\* max_concurrent, which SshServer::handle_connection does.
HandleConnection(c) ==
  /\ conn[c].phase = "accepted" /\ Len(allowedAt[conn[c].src]) < LogCap
  /\ \E answer \in {"allowed", "limited", "banned"}, vpn \in BOOLEAN :
       /\ CheckAllowed(conn[c].src, answer)
       /\ conn' = [conn EXCEPT ![c].phase =
            IF answer = "allowed" /\ vpn THEN "handshake" ELSE "refused"]
  /\ UNCHANGED <<clock, policy, registry, told>>

HandshakeTimeout(c) ==
  /\ conn[c].phase = "handshake"
  /\ conn' = [conn EXCEPT ![c].phase = "refused"]
  /\ UNCHANGED <<clock, policy, registry, told>> /\ UNCHANGED limVars

\* auth_none.  An accepted connection enters the map of its own handler, a
\* copy that the server's active_conns does not see.
AuthNoneSrv(c) ==
  /\ conn[c].phase = "handshake"
  /\ \E vpn \in BOOLEAN : LET v == Verdict(conn[c].src, vpn) IN
     conn' = [conn EXCEPT
       ![c].phase = IF v = "accept" THEN "open" ELSE IF v = "error" THEN "closed" ELSE @]
  /\ UNCHANGED <<clock, policy, registry, told>> /\ UNCHANGED limVars

\* The client leaves; Drop removes the connection from a copy of a copy.
CloseConn(c) ==
  /\ conn[c].phase \in {"handshake", "open"}
  /\ conn' = [conn EXCEPT ![c].phase = "closed"]
  /\ UNCHANGED <<clock, policy, registry, told>> /\ UNCHANGED limVars

Shutdown ==
  /\ conn' = [c \in SshConns |-> IF c \in registry THEN [conn[c] EXCEPT !.valid = FALSE]
                                 ELSE conn[c]]
  /\ registry' = {}
  /\ told' = told \cup {c \in SshConns : conn[c].phase = "open"}
  /\ UNCHANGED <<clock, policy>> /\ UNCHANGED limVars

\* The backend serves another policy; on_policy_change re-evaluates nothing
\* (check_still_valid has no body).
ChangePolicy ==
  /\ \E r \in Rules : policy' = <<r>> \o policy /\ Len(policy) < 2
  /\ UNCHANGED <<clock, conn, registry, told>> /\ UNCHANGED limVars

Tick ==
  /\ clock < Horizon
  /\ clock' = clock + 1
  /\ UNCHANGED <<policy, conn, registry, told>> /\ UNCHANGED limVars

SrvNext ==
  \/ Tick \/ Cleanup \/ Shutdown \/ ChangePolicy
  \/ \E a \in Ips : RecordFailedAuth(a) \/ RecordSuccessfulAuth(a)
                       \/ BanIp(a) \/ UnbanIp(a)
  \/ \E c \in SshConns : \/ HandleConnection(c) \/ HandshakeTimeout(c) \/ AuthNoneSrv(c)
                         \/ CloseConn(c) \/ \E a \in Ips : Accept(c, a)

-----------------------------------------------------------------------------
(* Properties *)

\* No span of a minute sees more than twice the limit of connections of one
\* address (check_allowed), although cleanup drops counts.  That is not the limit
\* max_connections_per_ip documents, "Max connections per source IP per minute":
\* the windows are fixed, and two meet at their edge (README, "Statements the
\* code does not keep").
WindowHolds ==
  \A a \in Ips : \A t \in 0..clock :
    Cardinality({i \in DOMAIN allowedAt[a] :
                   allowedAt[a][i] \in t..(t + Minute)}) <= 2 * PerIp

\* An address nobody banned by hand is banned only after MaxFailedAuth failures
\* that lie within an hour of the ban, counted since it last succeeded, was
\* unbanned, or was let in by check_allowed after a ban.  A ban that cleanup
\* takes away keeps its failures, so one more of them earns the next ban
\* (record_failed_auth, cleanup).
BanIsEarned ==
  \A a \in Ips \ manual : banned[a] # Never =>
    Cardinality({i \in DOMAIN failedAt[a] : failedAt[a][i] + Hour >= banned[a]}) >= MaxFailedAuth

\* The rate limiter limits what it is meant to and bans nobody else
\* (check_allowed, record_failed_auth, cleanup).
LimiterHolds == WindowHolds /\ BanIsEarned

\* What the comment on shutdown says, "Shutdown all active connections": a
\* connection that was open when shutdown ran is no longer valid.
\* The code does not keep it: README, "Statements the code does not keep".
ShutdownTerminates == \A c \in told : conn[c].phase # "open" \/ ~conn[c].valid
=============================================================================
