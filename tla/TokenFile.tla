------------------------------ MODULE TokenFile -----------------------------
(***************************************************************************)
(* auth.json (CliConfig of omni-core config.rs): the tokens, the identity  *)
(* and the settings that the command line, the background worker and the   *)
(* desktop each read whole, change in one place and write back whole.      *)
(* fs::write truncates before it writes, and a start of the command line   *)
(* holds its copy through a login that takes minutes.  Of the settings     *)
(* only that they are saved with the rest is kept.                         *)
(***************************************************************************)
EXTENDS Naturals

CONSTANTS Lifetimes,  \* expires_in of the API's answers
          Assumed,    \* the 3600 seconds recorded for a token of a browser login
          Margin,     \* the 300 seconds of is_token_expired
          MaxNow,     \* the clock stops here
          NoToken, NoStamp

ASSUME TokenConstants ==
  /\ Lifetimes \subseteq Nat /\ Assumed \in Nat /\ Margin \in Nat /\ MaxNow \in Nat
  /\ NoStamp \notin Nat /\ NoToken \notin [got : Nat, life : Nat]

VARIABLES now,
          file,    \* auth.json: [ok, auth, at]; ok = FALSE: truncated
          copy,    \* the configuration each process holds
          step     \* where each process is

tokVars == <<now, file, copy, step>>

Actors == {"cli", "worker", "desktop"}

DefaultConfig == [ok |-> TRUE, auth |-> NoToken, at |-> NoStamp]

TokInit ==
  /\ now = 0 /\ file = DefaultConfig
  /\ copy = [a \in Actors |-> DefaultConfig]
  /\ step = [a \in Actors |-> "idle"]

Tick == now < MaxNow /\ now' = now + 1 /\ UNCHANGED <<file, copy, step>>

-----------------------------------------------------------------------------
(* CliConfig *)

\* is_token_expired: no token, no timestamp, or less than the margin left.
IsTokenExpired(c) ==
  IF c.auth = NoToken \/ c.at = NoStamp THEN TRUE ELSE now + Margin >= c.at + c.auth.life

\* A token that arrives now with the expires_in that is recorded of it.  How
\* long the API takes it is not known here: it was issued earlier, and the
\* message of a browser login does not say for how long.
NewToken(life) == [got |-> now, life |-> life]

SetAuthResponse(c, token) == [c EXCEPT !.auth = token, !.at = now]

Saves(a, c, next) == copy' = [copy EXCEPT ![a] = c] /\ step' = [step EXCEPT ![a] = next]

\* save: the file is emptied, then written.
Truncate(a, from, to) ==
  /\ step[a] = from /\ step' = [step EXCEPT ![a] = to]
  /\ file' = [file EXCEPT !.ok = FALSE]
  /\ UNCHANGED <<now, copy>>

\* A second writer that emptied the file earlier overwrites, and what is longer stays.
WriteBack(a, from, to) ==
  /\ step[a] = from /\ step' = [step EXCEPT ![a] = to]
  /\ \E whole \in IF file.ok THEN BOOLEAN ELSE {TRUE} : file' = [copy[a] EXCEPT !.ok = whole]
  /\ copy' = IF to = "idle" THEN [copy EXCEPT ![a] = DefaultConfig] ELSE copy
  /\ UNCHANGED now

-----------------------------------------------------------------------------
(* The command line: start, with its login *)

\* A file that does not parse ends the command.
CliLoads ==
  /\ step["cli"] = "idle" /\ file.ok
  /\ Saves("cli", file, "settings")
  /\ UNCHANGED <<now, file>>

\* The flags of start, or a config command: fields that are left out here.
CliSettings == Truncate("cli", "settings", "write1")

\* ensure_auth, login_with_security_key with a token that is not expired.
UseToken ==
  /\ step["cli"] = "auth" /\ ~IsTokenExpired(copy["cli"])
  /\ step' = [step EXCEPT !["cli"] = "identity"]
  /\ UNCHANGED <<now, file, copy>>

\* Mutant: the time of the attempt is kept with the old token.
RefreshTokenStamped(life) ==
  /\ step["cli"] = "auth" /\ IsTokenExpired(copy["cli"]) /\ copy["cli"].auth # NoToken
  /\ \/ Saves("cli", SetAuthResponse(copy["cli"], NewToken(life)), "save2")
     \/ Saves("cli", SetAuthResponse(copy["cli"], copy["cli"].auth), "save2")
  /\ UNCHANGED <<now, file>>

\* A token that is expired is refreshed; if that fails it is forgotten.
RefreshToken(life) ==
  /\ step["cli"] = "auth" /\ IsTokenExpired(copy["cli"]) /\ copy["cli"].auth # NoToken
  /\ \/ Saves("cli", SetAuthResponse(copy["cli"], NewToken(life)), "save2")
     \/ Saves("cli", [copy["cli"] EXCEPT !.auth = NoToken, !.at = NoStamp], "auth")
  /\ UNCHANGED <<now, file>>

\* The device flow polls until the user approves or the code expires; the
\* security key is one call.
DeviceFlow(life) ==
  /\ step["cli"] = "auth" /\ copy["cli"].auth = NoToken
  /\ \/ Saves("cli", SetAuthResponse(copy["cli"], NewToken(life)), "save2")
     \/ Saves("cli", DefaultConfig, "idle")
  /\ UNCHANGED <<now, file>>

\* The exit-node change of a start while connected, the start of a nucleus,
\* scan and ssh use the saved token as it is.
UseSavedToken ==
  /\ step["cli"] = "auth" /\ copy["cli"].auth # NoToken
  /\ Saves("cli", DefaultConfig, "idle")
  /\ UNCHANGED <<now, file>>

\* A new identity and a newly registered device are kept.
PersistIdentity ==
  \/ step["cli"] = "identity" /\ Saves("cli", DefaultConfig, "idle") /\ UNCHANGED <<now, file>>
  \/ Truncate("cli", "identity", "write3")

CliSaves ==
  \/ WriteBack("cli", "write1", "auth")
  \/ Truncate("cli", "save2", "write2") \/ WriteBack("cli", "write2", "identity")
  \/ WriteBack("cli", "write3", "idle")

-----------------------------------------------------------------------------
(* The background worker and the desktop *)

\* run_worker uses the token as it is; a load that fails ends it.
WorkerStarts ==
  /\ step["worker"] = "idle" /\ file.ok /\ file.auth # NoToken
  /\ step' = [step EXCEPT !["worker"] = "joined"]
  /\ UNCHANGED <<now, file, copy>>

\* Once joined it loads again, and a load that fails is an empty configuration.
WorkerLoads ==
  /\ step["worker"] = "joined"
  /\ Saves("worker", IF file.ok THEN file ELSE DefaultConfig, "save")
  /\ UNCHANGED <<now, file>>

WorkerSaves == Truncate("worker", "save", "write") \/ WriteBack("worker", "write", "idle")

\* login_pwd, poll_device_flow and handle_login_token set the token alone, and
\* only in a file they can read; logout clears it.
DesktopLogin(life) ==
  /\ step["desktop"] = "idle" /\ file.ok
  /\ Saves("desktop", [file EXCEPT !.auth = NewToken(life)], "save")
  /\ UNCHANGED <<now, file>>

DesktopLogout ==
  /\ step["desktop"] = "idle" /\ file.ok /\ file.auth # NoToken
  /\ Saves("desktop", [file EXCEPT !.auth = NoToken], "save")
  /\ UNCHANGED <<now, file>>

\* set_as_exit_node, set_network_config, set_wireguard_mode.
DesktopSettings ==
  /\ step["desktop"] = "idle" /\ file.ok
  /\ Saves("desktop", file, "save")
  /\ UNCHANGED <<now, file>>

DesktopSaves == Truncate("desktop", "save", "write") \/ WriteBack("desktop", "write", "idle")

\* Any of them may be killed, between the two halves of a save too.
ProcessKilled(a) ==
  /\ step[a] # "idle" /\ Saves(a, DefaultConfig, "idle")
  /\ UNCHANGED <<now, file>>

TokNext ==
  \/ Tick
  \/ CliLoads \/ CliSettings \/ UseToken \/ UseSavedToken \/ PersistIdentity \/ CliSaves
  \/ \E life \in Lifetimes : RefreshToken(life) \/ DeviceFlow(life)
  \/ \E life \in Lifetimes \cup {Assumed} : DesktopLogin(life)
  \/ WorkerStarts \/ WorkerLoads \/ WorkerSaves
  \/ DesktopLogout \/ DesktopSettings \/ DesktopSaves
  \/ \E a \in Actors : ProcessKilled(a)

TokSpec == TokInit /\ [][TokNext]_tokVars

-----------------------------------------------------------------------------
(* Properties *)

\* A token that ensure_auth or login_with_security_key finds good arrived less
\* than its recorded lifetime, with the margin taken off, ago: whoever logged in
\* and saved in which order, the desktop's logins keeping an older timestamp and
\* a stale copy bringing back a token with its own (is_token_expired,
\* set_auth_response, the saves of three programs).  It is about the record: the
\* 3600 seconds written for a browser login may be more than the API grants.
\* UseSavedToken and the worker do not check the token they use.
CheckedTokenIsFresh ==
  [][step["cli"] = "auth" /\ step'["cli"] = "identity" =>
       now + Margin < copy["cli"].auth.got + copy["cli"].auth.life]_tokVars
=============================================================================
