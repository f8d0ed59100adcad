-------------------------- MODULE EmergencyAccess --------------------------
(***************************************************************************)
(* EmergencyAccessManager for one request and its token on one node: the   *)
(* request, polling for approval, validating the token against the API or  *)
(* the cache, revoking and cleaning up.  The API (external) decides; a     *)
(* call to it is answered from the state at one moment and arrives at most *)
(* Flight later, the timeout of the HTTP client.                           *)
(***************************************************************************)
EXTENDS Naturals, FiniteSets

CONSTANTS Callers,     \* tasks that validate the token or poll
          Ttl,         \* token_cache_ttl_secs
          Flight,      \* the 30 s timeout of each call of DefaultEmergencyHttpClient
          MaxDuration, \* max_duration_secs
          WaitLimit,   \* timeout of wait_for_approval
          EmHorizon,   \* bound on the clock
          NoTime

\* EmergencyAccessStatus, pending for as long as approvers are missing, and none
\* for a request not yet made.
Statuses == {"none", "pending", "approved", "denied", "timed_out", "expired", "revoked"}

ASSUME EmConstants ==
  /\ {Ttl, Flight, MaxDuration, WaitLimit, EmHorizon} \subseteq Nat
  /\ NoTime \notin Nat \cup Statuses

VARIABLES
  eclock,
  api,       \* status of the request at the API, when it expires, when it was revoked
  active,    \* active_grants has the grant
  cached,    \* token_cache: cached_at of the grant, or NoTime
  pending,   \* pending_polls has the request
  caller,    \* each task: what it does, since when, the answer under way
  accepted   \* history: the last time validate_token answered with the grant

emVars == <<eclock, api, active, cached, pending, caller, accepted>>

IdleCaller == [at |-> "idle", since |-> NoTime, answer |-> NoTime]

EmInit ==
  /\ eclock = 0
  /\ api = [status |-> "none", until |-> NoTime, revokedAt |-> NoTime]
  /\ active = FALSE /\ cached = NoTime /\ pending = FALSE
  /\ caller = [c \in Callers |-> IdleCaller]
  /\ accepted = NoTime

\* is_valid of the grant
GrantValid == eclock < api.until

\* request_access: refused without a reason or an MFA token and when it is too
\* long; the default duration is the one asked for.
RequestAccess(duration, reason, mfa) ==
  /\ api.status = "none"
  /\ duration <= MaxDuration /\ reason /\ mfa
  /\ api' = [api EXCEPT !.status = "pending", !.until = duration]
  /\ UNCHANGED <<eclock, active, cached, pending, caller, accepted>>

\* Approvers and time, at the API.
ApiDecides(status) ==
  /\ \/ api.status = "pending" /\ status \in {"approved", "denied", "timed_out"}
     \/ api.status = "approved" /\ status = "expired" /\ ~GrantValid
  /\ api' = [api EXCEPT !.status = status, !.until = IF status = "approved" THEN eclock + @ ELSE @]
  /\ UNCHANGED <<eclock, active, cached, pending, caller, accepted>>

\* A revocation at the API, by somebody else's manager.
ApiRevokes ==
  /\ api.status = "approved"
  /\ api' = [api EXCEPT !.status = "revoked", !.revokedAt = eclock]
  /\ UNCHANGED <<eclock, active, cached, pending, caller, accepted>>

\* The API reads a call: the answer is fixed and travels.
ApiAnswers(c) ==
  /\ caller[c].at \in {"asking", "polling"} /\ caller[c].answer = NoTime
  /\ caller' = [caller EXCEPT ![c].answer =
                  IF api.status = "approved" /\ ~GrantValid THEN "expired" ELSE api.status]
  /\ UNCHANGED <<eclock, api, active, cached, pending, accepted>>

-----------------------------------------------------------------------------
(* validate_token *)

\* An age that starts again with every hit.
CacheHitBad(c) ==
  /\ caller[c].at = "idle" /\ cached # NoTime
  /\ eclock - cached < Ttl /\ GrantValid
  /\ accepted' = eclock /\ cached' = eclock
  /\ UNCHANGED <<eclock, api, active, pending, caller>>

\* The cached grant, younger than the TTL and still valid.
CacheHit(c) ==
  /\ caller[c].at = "idle" /\ cached # NoTime
  /\ eclock - cached < Ttl /\ GrantValid
  /\ accepted' = eclock
  /\ UNCHANGED <<eclock, api, active, cached, pending, caller>>

\* Otherwise the API is asked; a young entry that is no longer valid goes first.
AskApi(c) ==
  /\ caller[c].at = "idle" /\ api.status # "none"
  /\ ~(cached # NoTime /\ eclock - cached < Ttl /\ GrantValid)
  /\ cached' = IF cached # NoTime /\ eclock - cached < Ttl THEN NoTime ELSE cached
  /\ caller' = [caller EXCEPT ![c] = [at |-> "asking", since |-> eclock, answer |-> NoTime]]
  /\ UNCHANGED <<eclock, api, active, pending, accepted>>

\* The answer arrives, and a grant enters the cache with the time of its arrival;
\* either is then audited at the API, a call with a timeout of its own.  No
\* answer is an error and changes nothing.
TokenAnswer(c) ==
  /\ caller[c].at = "asking"
  /\ cached' = IF caller[c].answer = "approved" THEN eclock ELSE cached
  /\ caller' = [caller EXCEPT ![c] =
       IF caller[c].answer = NoTime THEN IdleCaller
       ELSE [at |-> "auditing", since |-> eclock, answer |-> caller[c].answer]]
  /\ UNCHANGED <<eclock, api, active, pending, accepted>>

\* audit: whatever becomes of it, validate_token then answers what it has, and
\* does not look at the grant again.
AuditEnds(c) ==
  /\ caller[c].at = "auditing"
  /\ accepted' = IF caller[c].answer = "approved" THEN eclock ELSE accepted
  /\ caller' = [caller EXCEPT ![c] = IdleCaller]
  /\ UNCHANGED <<eclock, api, active, cached, pending>>

-----------------------------------------------------------------------------
(* check_status and wait_for_approval *)

StartWait(c) ==
  /\ caller[c].at = "idle" /\ api.status # "none"
  /\ pending' = TRUE
  /\ caller' = [caller EXCEPT ![c] = [at |-> "polling", since |-> eclock, answer |-> NoTime]]
  /\ UNCHANGED <<eclock, api, active, cached, accepted>>

\* An answer: a grant becomes active whatever has happened to it since; the
\* final statuses end the wait, the others sleep and poll again until the
\* timeout.  A call without an answer ends it too, and leaves pending_polls.
PollAnswer(c) ==
  LET a == caller[c].answer IN
  /\ caller[c].at = "polling"
  /\ active' = (active \/ a = "approved")
  /\ IF a = "pending" /\ eclock - caller[c].since <= WaitLimit
     THEN caller' = [caller EXCEPT ![c].answer = NoTime] /\ UNCHANGED pending
     ELSE /\ caller' = [caller EXCEPT ![c] = IdleCaller]
          /\ pending' = (pending /\ a = NoTime)
  /\ UNCHANGED <<eclock, api, cached, accepted>>

-----------------------------------------------------------------------------
(* revoke_access and cleanup_expired *)

\* The grant this manager knows goes, and its cached token; a token that was
\* only ever validated is not in active_grants and stays cached.
RevokeLocal ==
  /\ active' = FALSE
  /\ cached' = IF active THEN NoTime ELSE cached

RevokeAccess ==
  /\ api.status = "approved"
  /\ api' = [api EXCEPT !.status = "revoked", !.revokedAt = eclock]
  /\ RevokeLocal
  /\ UNCHANGED <<eclock, pending, caller, accepted>>

CleanupExpired ==
  /\ api.until # NoTime
  /\ active' = (active /\ GrantValid)
  /\ cached' = IF cached # NoTime /\ eclock - cached > Ttl * 2 THEN NoTime ELSE cached
  /\ <<active', cached'>> # <<active, cached>>
  /\ UNCHANGED <<eclock, api, pending, caller, accepted>>

\* A call is over, one way or the other, when the HTTP timeout is.
EmTick ==
  /\ eclock < EmHorizon
  /\ \A c \in Callers :
       caller[c].at \in {"asking", "auditing"} => eclock < caller[c].since + Flight
  /\ eclock' = eclock + 1
  /\ UNCHANGED <<api, active, cached, pending, caller, accepted>>

EmNext ==
  \/ \E d \in {1, MaxDuration, MaxDuration + 1}, reason, mfa \in BOOLEAN : RequestAccess(d, reason, mfa)
  \/ \E s \in {"approved", "denied", "timed_out", "expired"} : ApiDecides(s)
  \/ ApiRevokes \/ RevokeAccess \/ CleanupExpired \/ EmTick
  \/ \E c \in Callers : \/ ApiAnswers(c) \/ CacheHit(c) \/ AskApi(c) \/ TokenAnswer(c) \/ AuditEnds(c)
                        \/ StartWait(c) \/ PollAnswer(c)

-----------------------------------------------------------------------------
(* Properties *)

\* A revoked token is refused once its cached answer and the calls that were
\* under way are over: validate_token accepts it for less than
\* token_cache_ttl_secs and one HTTP timeout after the revocation, or for the two
\* timeouts of its own calls, also when answers overtake revocations and the
\* cache is hit all the time.
RevokedSoonRefused ==
  api.revokedAt # NoTime /\ accepted # NoTime =>
    \/ accepted < api.revokedAt + Ttl + Flight
    \/ accepted <= api.revokedAt + 2 * Flight

\* The time of a grant bounds its acceptance: an accepted token is less than two
\* HTTP timeouts past expires_at (validate_token checks is_valid on a hit only,
\* and audits before it answers).
ExpiredSoonRefused ==
  accepted # NoTime => accepted < api.until + 2 * Flight

\* An emergency access ends: whatever the cache, the answers under way and the
\* audit calls do, its token passes only for a bounded time after it was revoked
\* or has expired (validate_token).
EmergencyEnds == RevokedSoonRefused /\ ExpiredSoonRefused
=============================================================================
