--------------------------- MODULE ServicesProofs ---------------------------
(***************************************************************************)
(* Safety of the services around a connection: exit-node routing, the port *)
(* mapping, the updater, the token file, the browser login, the peers and  *)
(* the IPv6 route of the TUN device and the background service, each for   *)
(* every value of its constants.                                           *)
(***************************************************************************)
EXTENDS ExitRouting, TokenFile, BrowserLogin, CliService, SelfUpdate, TunDevice, PortMapping, Integers, FiniteSetTheorems, WellFoundedInduction, TLAPS

(***************************************************************************)
(* Exit-node routing.                                                      *)
(***************************************************************************)

ExitIps == {e.ip : e \in ExitNodes}

SetupSteps == {"detect", "pin", "del4", "add4", "del6", "add6", "dns"}

\* Default routes are of three kinds, and a setup has an exit node.
RouTypes ==
  /\ def4 \in {"own", "none"} \cup ExitIps
  /\ pc \in SetupSteps => chosen \in ExitNodes
  /\ iface \in {"lan", "tun"}

\* The primary interface is the tunnel only while the host route is there, and
\* the default route is touched only once it is.
PinFirst ==
  os # "windows" =>
    /\ pin \in {"none", "lan"}
    /\ pc = "pin" /\ iface = "tun" => pin = "lan"
    /\ pc \in {"del4", "add4"} => pin = "lan"

RouInv == RouTypes /\ PinFirst /\ NucleusOutsideTunnel

LEMMA RouInitInv == RouInit => RouInv
BY ExitConstants DEF RouInit, RouInv, RouTypes, PinFirst, NucleusOutsideTunnel, ExitIps, SetupSteps

LEMMA RouNextInv == RouInv /\ [RouNext]_rouVars => RouInv'
<1> SUFFICES ASSUME RouInv, [RouNext]_rouVars PROVE RouInv'
  OBVIOUS
<1> USE ExitConstants DEF RouInv, RouTypes, PinFirst, NucleusOutsideTunnel, ExitIps, SetupSteps, tables
<1>1. CASE Detect
  BY <1>1 DEF Detect, Done, Primary
<1>2. CASE Pin
  BY <1>2 DEF Pin, Done
<1>3. CASE DeleteDefault4
  BY <1>3 DEF DeleteDefault4
<1>4. CASE AddDefault4
  BY <1>4 DEF AddDefault4, Done
<1>5. CASE DeleteDefault6
  BY <1>5 DEF DeleteDefault6
<1>6. CASE AddDefault6
  BY <1>6 DEF AddDefault6
<1>7. CASE SetupDns
  BY <1>7 DEF SetupDns, Done
<1>8. CASE RestoreDefault6
  BY <1>8 DEF RestoreDefault6
<1>9. CASE RestoreDns
  BY <1>9 DEF RestoreDns, Done
<1>10. ASSUME NEW e \in ExitNodes \cup {NoExit}, ConnectVia(e) PROVE RouInv'
  BY <1>10 DEF ConnectVia, Setup
<1>11. ASSUME NEW e \in ExitNodes \cup {NoExit}, SetExitNode(e) PROVE RouInv'
  BY <1>11 DEF SetExitNode, Setup
<1>12. CASE RouDisconnect
  BY <1>12 DEF RouDisconnect, WithoutTun
<1>13. CASE Killed
  BY <1>13 DEF Killed, WithoutTun
<1>14. CASE NetworkRenews
  BY <1>14 DEF NetworkRenews
<1>15. CASE UNCHANGED rouVars
  BY <1>15 DEF rouVars
<1> QED
  BY <1>1, <1>2, <1>3, <1>4, <1>5, <1>6, <1>7, <1>8, <1>9, <1>10, <1>11, <1>12, <1>13, <1>14, <1>15
     DEF RouNext

\* The nucleus is never routed into the tunnel it carries, whatever commands of
\* setup_exit_node and restore_exit_node fail, for any exit nodes.
THEOREM NucleusStaysOutside == RouSpec => []NucleusOutsideTunnel
<1>1. RouInv => NucleusOutsideTunnel
  BY DEF RouInv
<1> QED
  BY RouInitInv, RouNextInv, <1>1, PTL DEF RouSpec

(***************************************************************************)
(* The external port.                                                      *)
(***************************************************************************)

LEMMA PortNextInv == AdvertisedIsShown /\ [PortNext]_portVars => AdvertisedIsShown'
<1> SUFFICES ASSUME AdvertisedIsShown, [PortNext]_portVars PROVE AdvertisedIsShown'
  OBVIOUS
<1> USE PortConstants DEF AdvertisedIsShown
<1>1. CASE JoinMapped
  BY <1>1 DEF JoinMapped, ProbeFails, ProbeAnswers
<1>2. CASE BeginRefresh \/ Unrefreshed \/ Reregister \/ NucleusForgets
  BY <1>2 DEF BeginRefresh, Unrefreshed, Reregister, NucleusForgets
<1>3. ASSUME NEW p \in Ports, Refreshed(p) PROVE AdvertisedIsShown'
  BY <1>3 DEF Refreshed
<1>4. CASE RefreshFails
  BY <1>4 DEF RefreshFails
<1>5. CASE ReleaseMapping
  BY <1>5 DEF ReleaseMapping
<1>6. CASE UNCHANGED portVars
  BY <1>6 DEF portVars
<1> QED
  BY <1>1, <1>2, <1>3, <1>4, <1>5, <1>6 DEF PortNext

\* The port OmniProto advertises is the one the connection info shows, through
\* probes, refreshes and releases that fail, for any ports.
THEOREM AdvertisedStaysShown == PortSpec => []AdvertisedIsShown
<1>1. PortInit => AdvertisedIsShown
  BY PortConstants DEF PortInit, AdvertisedIsShown
<1> QED
  BY <1>1, PortNextInv, PTL DEF PortSpec

(***************************************************************************)
(* The updater.                                                            *)
(***************************************************************************)

Files == [v : Versions, whole : BOOLEAN]

\* Before the executable is moved away it is whole and older than what was
\* chosen; while it is away or being written the backup is, and the binary to
\* come is the release's unless the upgrade is marked.
UpgradeStage ==
  /\ at \in {"download", "extract", "backup", "copynew", "dropbackup", "rename"} =>
       exe \in Files /\ exe.whole /\ IsNewerVersion(got.v, exe.v)
  /\ at \in {"copy", "copying", "renamenew"} =>
       old \in Files /\ old.whole /\ IsNewerVersion(got.v, old.v)
       /\ (~stale => bin.v = got.v)
  /\ at \in {"copy", "renamenew"} => exe = NoFile
  /\ at = "copying" => exe = File(bin.v, FALSE)
  /\ at \in {"dropbackup", "rename", "renamenew"} => new = bin

UpdTypes ==
  /\ latest \in Versions
  /\ exe \in Files \cup {NoFile} /\ old \in Files \cup {NoFile}
  /\ dir \subseteq Files
  /\ at # "idle" => got \in Files
  /\ at \notin {"idle", "download", "extract"} => bin \in Files
  /\ at \in {"idle", "download", "extract", "backup", "copy", "copying",
             "copynew", "dropbackup", "rename", "renamenew"}

Forward == exe # NoFile /\ old # NoFile /\ ~stale => IsNewerVersion(exe.v, old.v)

UpdInv == UpdTypes /\ UpgradeStage /\ ExecutableSurvives /\ Forward

\* is_newer_version is the strict lexicographic order of versions, a release
\* coming after its prereleases.
LEMMA NewerIsLexicographic ==
  ASSUME NEW a \in Versions, NEW b \in Versions
  PROVE  IsNewerVersion(b, a) <=>
           \E i \in 1 .. 4 : /\ \A j \in 1 .. i - 1 : a[j] = b[j]
                             /\ IF i = 4 THEN a[4] /\ ~b[4] ELSE a[i] < b[i]
<1>1. /\ a[1] \in Nat /\ a[2] \in Nat /\ a[3] \in Nat /\ a[4] \in BOOLEAN
      /\ b[1] \in Nat /\ b[2] \in Nat /\ b[3] \in Nat /\ b[4] \in BOOLEAN
  BY UpdateConstants
<1>2. 1 .. 4 = {1, 2, 3, 4} /\ 1 .. 0 = {} /\ 1 .. 1 = {1} /\ 1 .. 2 = {1, 2} /\ 1 .. 3 = {1, 2, 3}
  OBVIOUS
<1> DEFINE D(i) == /\ \A j \in 1 .. i - 1 : a[j] = b[j]
                   /\ IF i = 4 THEN a[4] /\ ~b[4] ELSE a[i] < b[i]
<1>3. D(1) <=> a[1] < b[1]
  BY <1>2
<1>4. D(2) <=> a[1] = b[1] /\ a[2] < b[2]
  BY <1>2
<1>5. D(3) <=> a[1] = b[1] /\ a[2] = b[2] /\ a[3] < b[3]
  BY <1>2
<1>6. D(4) <=> a[1] = b[1] /\ a[2] = b[2] /\ a[3] = b[3] /\ a[4] /\ ~b[4]
  BY <1>2
<1>7. (\E i \in 1 .. 4 : D(i)) <=> D(1) \/ D(2) \/ D(3) \/ D(4)
  <2> HIDE DEF D
  <2> QED BY <1>2
<1>8. IsNewerVersion(b, a) <=> D(1) \/ D(2) \/ D(3) \/ D(4)
  <2> HIDE DEF D
  <2> QED BY <1>1, <1>3, <1>4, <1>5, <1>6 DEF IsNewerVersion
<1> QED
  BY <1>7, <1>8

\* A file is never taken for a missing one.
LEMMA FileFacts ==
  /\ NoFile \notin Files
  /\ \A v \in Versions, w \in BOOLEAN : File(v, w) \in Files /\ File(v, w).v = v /\ File(v, w).whole = w
  /\ \A x \in Files : x.v \in Versions /\ x.whole \in BOOLEAN
BY UpdateConstants DEF Files, File

LEMMA UpdInitInv == UpdInit => UpdInv
<1> SUFFICES ASSUME UpdInit PROVE UpdInv
  OBVIOUS
<1> USE FileFacts DEF UpdInit
<1>1. PICK v \in Versions : exe = File(v, TRUE)
  OBVIOUS
<1>2. UpdTypes /\ UpgradeStage
  BY <1>1 DEF UpdTypes, UpgradeStage
<1>3. ExecutableSurvives /\ Forward
  BY <1>1 DEF ExecutableSurvives, Forward
<1> QED
  BY <1>2, <1>3 DEF UpdInv

LEMMA UpdNextInv == UpdInv /\ [UpdNext]_updVars => UpdInv'
<1> SUFFICES ASSUME UpdInv, [UpdNext]_updVars PROVE UpdInv'
  OBVIOUS
<1> USE FileFacts DEF UpdInv, UpdTypes, UpgradeStage, ExecutableSurvives, Forward, UpgradeGoes, UpgradeEnds, MovedAway
<1>0. CASE TempCleaned
  BY <1>0 DEF TempCleaned
<1>1. ASSUME NEW v \in Versions, Publish(v) PROVE UpdInv'
  BY <1>1 DEF Publish
<1>2. CASE CheckForUpdate
  BY <1>2 DEF CheckForUpdate
<1>3. CASE DownloadUpdate
  BY <1>3 DEF DownloadUpdate
<1>4. CASE Extract
  <2> DEFINE Unpacked(whole) == {f \in dir : f.v # got.v} \cup {File(got.v, whole)}
  <2>1. at = "extract" /\ UNCHANGED <<target, latest, exe, old, new, stale>>
    BY <1>4 DEF Extract
  <2>2. \A w \in BOOLEAN : Unpacked(w) \subseteq Files
    BY <2>1
  <2>3. CASE /\ dir' = Unpacked(TRUE) /\ bin' \in dir' /\ got' = got
             /\ at' = IF target = "unix" THEN "backup" ELSE "copynew"
    <3>1. bin' \in Files /\ dir' \subseteq Files /\ at' \in {"backup", "copynew"}
      BY <2>2, <2>3
    <3> QED
      BY <2>1, <2>3, <3>1
  <2>4. CASE dir' \in {dir, Unpacked(FALSE), Unpacked(TRUE)} /\ UpgradeEnds
    <3>1. dir' \subseteq Files
      BY <2>2, <2>4
    <3> QED
      BY <2>1, <2>4, <3>1
  <2> QED
    BY <1>4, <2>3, <2>4 DEF Extract
<1>5. CASE Backup
  BY <1>5 DEF Backup
<1>6. CASE BeginCopy
  BY <1>6 DEF BeginCopy
<1>7. CASE EndCopy
  BY <1>7 DEF EndCopy
<1>8. CASE CopyNew
  BY <1>8 DEF CopyNew
<1>9. CASE DropBackup
  BY <1>9 DEF DropBackup
<1>10. CASE RenameOld
  BY <1>10 DEF RenameOld
<1>11. CASE RenameNew
  <2>1. CASE exe' = new /\ new' = NoFile
    BY <1>11, <2>1 DEF RenameNew
  <2>2. CASE UNCHANGED <<exe, new>>
    BY <1>11, <2>2 DEF RenameNew
  <2> QED
    BY <1>11, <2>1, <2>2 DEF RenameNew
<1>12. CASE UpgradeKilled
  BY <1>12 DEF UpgradeKilled
<1>13. CASE UNCHANGED updVars
  BY <1>13 DEF updVars
<1> QED
  BY <1>0, <1>1, <1>2, <1>3, <1>4, <1>5, <1>6, <1>7, <1>8, <1>9, <1>10, <1>11, <1>12, <1>13 DEF UpdNext

\* An upgrade that fails or is killed anywhere leaves a whole executable, and
\* no sequence of upgrades goes back to an older version where the binary found
\* was the release's (install_cli_update, check_for_update, extract_archive),
\* for any released versions.
THEOREM UpgradeStaysSafe == UpdSpec => []UpgradeIsSafe
<1>1. UpdInv => UpgradeIsSafe
  <2> SUFFICES ASSUME UpdInv PROVE UpgradesGoForward
    BY DEF UpgradeIsSafe, UpdInv
  <2>1. CASE exe # NoFile /\ old # NoFile /\ ~stale
    <3>1. exe.v \in Versions /\ old.v \in Versions /\ IsNewerVersion(exe.v, old.v)
      BY <2>1 DEF UpdInv, UpdTypes, Forward, Files
    <3> QED
      BY <3>1, NewerIsLexicographic DEF UpgradesGoForward
  <2> QED
    BY <2>1 DEF UpgradesGoForward
<1> QED
  BY <1>1, UpdInitInv, UpdNextInv, PTL DEF UpdSpec

(***************************************************************************)
(* The token file.                                                         *)
(***************************************************************************)

Token == [got : Nat, life : Nat]
Config == [ok : BOOLEAN, auth : Token \cup {NoToken}, at : Nat \cup {NoStamp}]

\* The timestamp of a configuration is not in the future and, where it has a
\* token, not later than the token arrived.
Stamped(c, t) ==
  /\ c \in Config
  /\ c.at # NoStamp => c.at <= t
  /\ c.at # NoStamp /\ c.auth # NoToken => c.at <= c.auth.got

TokSteps == {"idle", "settings", "auth", "identity", "joined", "save", "write",
             "write1", "save2", "write2", "write3"}

TokTypes ==
  /\ now \in Nat
  /\ step \in [Actors -> TokSteps]
  /\ copy \in [Actors -> Config]

TokInv == TokTypes /\ Stamped(file, now) /\ \A a \in Actors : Stamped(copy[a], now)

\* What the programs make of a configuration keeps its timestamp early enough:
\* a login of the command line sets both, a login of the desktop the token alone.
LEMMA StampedConfigs ==
  ASSUME now \in Nat, NEW c, Stamped(c, now), NEW life \in Nat, NEW b \in BOOLEAN
  PROVE  /\ Stamped(SetAuthResponse(c, NewToken(life)), now)
         /\ Stamped([c EXCEPT !.auth = NewToken(life)], now)
         /\ Stamped([c EXCEPT !.auth = NoToken, !.at = NoStamp], now)
         /\ Stamped([c EXCEPT !.auth = NoToken], now)
         /\ Stamped([c EXCEPT !.ok = b], now)
<1> DEFINE token == NewToken(life)
<1>1. token \in Token /\ token.got = now
  BY DEF NewToken, Token
<1> HIDE DEF token
<1>2. Stamped(SetAuthResponse(c, token), now)
  <2>1. SetAuthResponse(c, token) = [[c EXCEPT !.auth = token] EXCEPT !.at = now]
    BY DEF SetAuthResponse
  <2>2. [c EXCEPT !.auth = token] \in Config /\ [c EXCEPT !.auth = token].auth = token
    BY <1>1 DEF Stamped, Config
  <2> DEFINE d == [c EXCEPT !.auth = token]
  <2> HIDE DEF d
  <2>3. [d EXCEPT !.at = now] \in Config /\ [d EXCEPT !.at = now].at = now /\ [d EXCEPT !.at = now].auth = d.auth
    BY <2>2 DEF Config, d
  <2> QED
    BY <1>1, <2>1, <2>2, <2>3 DEF Stamped, d
<1>5. Stamped([c EXCEPT !.auth = token], now)
  BY <1>1, TokenConstants DEF Stamped, Config
<1>3. Stamped([c EXCEPT !.auth = NoToken, !.at = NoStamp], now) /\ Stamped([c EXCEPT !.auth = NoToken], now)
  BY TokenConstants DEF Stamped, Config
<1>4. Stamped([c EXCEPT !.ok = b], now)
  BY DEF Stamped, Config
<1> QED
  BY <1>2, <1>3, <1>4, <1>5 DEF token

LEMMA StampedDefault == Stamped(DefaultConfig, now)
BY TokenConstants DEF Stamped, DefaultConfig, Config

\* A step that keeps the clock and gives each process a stamped configuration,
\* and the file one too, keeps the invariant.
LEMMA SavesKeepInv ==
  ASSUME TokInv, now' = now, Stamped(file', now), NEW a \in Actors, NEW c, Stamped(c, now), NEW next \in TokSteps,
         Saves(a, c, next)
  PROVE  TokInv'
BY DEF TokInv, TokTypes, Saves, Stamped, Config

LEMMA TruncateKeepsInv ==
  ASSUME TokInv, NEW a \in Actors, NEW from \in TokSteps, NEW to \in TokSteps, Truncate(a, from, to)
  PROVE  TokInv'
<1>1. Stamped([file EXCEPT !.ok = FALSE], now)
  BY StampedConfigs, 0 \in Nat DEF TokInv, TokTypes
<1> QED
  BY <1>1 DEF TokInv, TokTypes, Truncate, Stamped, Config

LEMMA WriteBackKeepsInv ==
  ASSUME TokInv, NEW a \in Actors, NEW from \in TokSteps, NEW to \in TokSteps, WriteBack(a, from, to)
  PROVE  TokInv'
<1>1. PICK whole \in BOOLEAN : file' = [copy[a] EXCEPT !.ok = whole]
  BY DEF WriteBack
<1>2. Stamped([copy[a] EXCEPT !.ok = whole], now)
  BY StampedConfigs, 0 \in Nat DEF TokInv, TokTypes
<1>3. Stamped(file', now)
  BY <1>1, <1>2 DEF Stamped, WriteBack
<1>4. copy' \in [Actors -> Config] /\ \A q \in Actors : Stamped(copy'[q], now)
  BY StampedDefault DEF WriteBack, TokInv, TokTypes, Stamped
<1>5. step' \in [Actors -> TokSteps] /\ now' = now
  BY DEF WriteBack, TokInv, TokTypes
<1> QED
  BY <1>3, <1>4, <1>5 DEF TokInv, TokTypes, Stamped

LEMMA TokNextInv == TokInv /\ [TokNext]_tokVars => TokInv'
<1> SUFFICES ASSUME TokInv, [TokNext]_tokVars PROVE TokInv'
  OBVIOUS
<1>1. CASE Tick
  BY <1>1 DEF Tick, TokInv, TokTypes, Stamped, Config
<1>2. /\ "cli" \in Actors /\ "worker" \in Actors /\ "desktop" \in Actors
      /\ \A x \in {"idle", "settings", "auth", "identity", "joined", "save", "write",
                   "write1", "save2", "write2", "write3"} : x \in TokSteps
  BY DEF Actors, TokSteps
<1>3. Stamped(file, now) /\ (UNCHANGED <<now, file>> => now' = now /\ Stamped(file', now))
  BY DEF TokInv, Stamped
<1>4. \A a \in Actors : Stamped(copy[a], now)
  BY DEF TokInv
<1>5. CASE CliLoads
  BY <1>2, <1>3, <1>5, SavesKeepInv DEF CliLoads
<1>6. CASE CliSettings
  BY <1>2, <1>6, TruncateKeepsInv DEF CliSettings
<1>7. CASE UseToken
  BY <1>7 DEF UseToken, TokInv, TokTypes, TokSteps
<1>8. CASE PersistIdentity \/ UseSavedToken
  BY <1>2, <1>3, <1>4, <1>8, SavesKeepInv, TruncateKeepsInv, StampedDefault DEF PersistIdentity, UseSavedToken
<1>9. CASE CliSaves
  BY <1>2, <1>9, TruncateKeepsInv, WriteBackKeepsInv DEF CliSaves
<1>10. ASSUME NEW life \in Lifetimes, RefreshToken(life) \/ DeviceFlow(life) PROVE TokInv'
  <2>1. life \in Nat /\ now \in Nat /\ TRUE \in BOOLEAN
    BY TokenConstants DEF TokInv, TokTypes
  <2>2. /\ Stamped(SetAuthResponse(copy["cli"], NewToken(life)), now)
        /\ Stamped([copy["cli"] EXCEPT !.auth = NoToken, !.at = NoStamp], now)
    BY <1>2, <1>4, <2>1, StampedConfigs
  <2> QED
    BY <1>2, <1>3, <1>10, <2>2, SavesKeepInv, StampedDefault DEF RefreshToken, DeviceFlow
<1>11. ASSUME NEW life \in Lifetimes \cup {Assumed}, DesktopLogin(life) PROVE TokInv'
  <2>1. life \in Nat /\ now \in Nat /\ TRUE \in BOOLEAN
    BY TokenConstants DEF TokInv, TokTypes
  <2>2. Stamped([file EXCEPT !.auth = NewToken(life)], now)
    BY <1>3, <2>1, StampedConfigs
  <2> QED
    BY <1>2, <1>3, <1>11, <2>2, SavesKeepInv DEF DesktopLogin
<1>12. CASE WorkerStarts
  BY <1>12 DEF WorkerStarts, TokInv, TokTypes, TokSteps
<1>13. CASE WorkerLoads
  BY <1>2, <1>3, <1>13, SavesKeepInv, StampedDefault DEF WorkerLoads
<1>14. CASE WorkerSaves
  BY <1>2, <1>14, TruncateKeepsInv, WriteBackKeepsInv DEF WorkerSaves
<1>15. CASE DesktopLogout
  <2>1. Stamped([file EXCEPT !.auth = NoToken], now)
    BY <1>3, StampedConfigs, 0 \in Nat, TRUE \in BOOLEAN DEF TokInv, TokTypes
  <2> QED
    BY <1>2, <1>3, <1>15, <2>1, SavesKeepInv DEF DesktopLogout
<1>16. CASE DesktopSettings
  BY <1>2, <1>3, <1>16, SavesKeepInv DEF DesktopSettings
<1>17. CASE DesktopSaves
  BY <1>2, <1>17, TruncateKeepsInv, WriteBackKeepsInv DEF DesktopSaves
<1>18. ASSUME NEW a \in Actors, ProcessKilled(a) PROVE TokInv'
  BY <1>2, <1>3, <1>18, SavesKeepInv, StampedDefault DEF ProcessKilled
<1>19. CASE UNCHANGED tokVars
  BY <1>19 DEF tokVars, TokInv, TokTypes, Stamped
<1> QED
  BY <1>1, <1>5, <1>6, <1>7, <1>8, <1>9, <1>10, <1>11, <1>12, <1>13, <1>14, <1>15, <1>16, <1>17, <1>18, <1>19
     DEF TokNext

\* Only UseToken takes the command line from its check to the identity.
LEMMA OnlyUseTokenPasses ==
  ASSUME TokInv, TokNext, step["cli"] = "auth", step'["cli"] = "identity"
  PROVE  UseToken
BY DEF TokInv, TokTypes, Actors, TokNext, Tick, CliLoads, CliSettings, UseToken, UseSavedToken, PersistIdentity, CliSaves,
       RefreshToken, DeviceFlow, DesktopLogin, WorkerStarts, WorkerLoads, WorkerSaves, DesktopLogout,
       DesktopSettings, DesktopSaves, ProcessKilled, Truncate, WriteBack, Saves

\* A token that the command line checks and finds good has the margin of
\* is_token_expired left of its recorded lifetime since it arrived, for any
\* lifetimes and margin, in whatever order the three programs log in, read,
\* truncate and write auth.json.
THEOREM CheckedTokenStaysFresh == TokSpec => CheckedTokenIsFresh
<1>1. TokInit => TokInv
  BY StampedDefault DEF TokInit, TokInv, TokTypes, TokSteps, Stamped
<1>2. TokInv /\ [TokNext]_tokVars =>
        [step["cli"] = "auth" /\ step'["cli"] = "identity" =>
           now + Margin < copy["cli"].auth.got + copy["cli"].auth.life]_tokVars
  <2> SUFFICES ASSUME TokInv, TokNext, step["cli"] = "auth", step'["cli"] = "identity"
               PROVE  now + Margin < copy["cli"].auth.got + copy["cli"].auth.life
    BY DEF tokVars
  <2>1. UseToken
    BY OnlyUseTokenPasses
  <2>2. Stamped(copy["cli"], now) /\ now \in Nat
    BY DEF TokInv, TokTypes, Actors
  <2> QED
    BY <2>1, <2>2, TokenConstants DEF UseToken, IsTokenExpired, Stamped, Config, Token
<1> QED
  BY <1>1, <1>2, TokNextInv, PTL DEF TokSpec, CheckedTokenIsFresh

(***************************************************************************)
(* The peers of the TUN device.                                            *)
(***************************************************************************)

PeerTable == [TunPeers -> Endpoints \cup {NoEndpoint}]

\* A device that nobody has joined with has no peers.
TunInv ==
  /\ wgPeers \in PeerTable /\ known \in PeerTable
  /\ joinedNet = NoNet => wgPeers = NoPeers
  /\ PeersSurviveReset

LEMMA TunNextInv == TunInv /\ [TunNext]_tunVars => TunInv'
<1> SUFFICES ASSUME TunInv, [TunNext]_tunVars PROVE TunInv'
  OBVIOUS
<1>0. NoPeers \in PeerTable
  BY DEF NoPeers, PeerTable
<1> USE DEF TunInv, PeersSurviveReset
<1>1. ASSUME NEW n \in Nets, JoinTun(n) PROVE TunInv'
  BY <1>0, <1>1 DEF JoinTun, SetupFails
<1>2. CASE LoopEnds
  BY <1>2 DEF LoopEnds
<1>3. CASE LeaveTun
  BY <1>0, <1>3 DEF LeaveTun
<1>4. CASE TunKilled
  BY <1>0, <1>4 DEF TunKilled
<1>5. ASSUME NEW p \in TunPeers, NEW e \in Endpoints, NEW failing \in SUBSET TunPeers, AddPeer(p, e, failing)
      PROVE TunInv'
  <2>1. known' \in PeerTable /\ wgPeers' \in PeerTable
    BY <1>5 DEF AddPeer, Remember, AfterReset, PeerTable
  <2>2. joinedNet' = joinedNet /\ joinedNet # NoNet
    BY <1>5 DEF AddPeer
  <2>3. ASSUME NEW q \in TunPeers \ unset' PROVE wgPeers'[q] = known'[q]
    <3>1. CASE q = p
      BY <1>5, <2>3, <3>1 DEF AddPeer, Remember, AfterReset, PeerTable
    <3>2. CASE q # p /\ wgPeers[p] # NoEndpoint /\ p \in expired
      BY <1>5, <2>3, <3>2 DEF AddPeer, Remember, AfterReset, PeerTable
    <3>3. CASE q # p /\ ~(wgPeers[p] # NoEndpoint /\ p \in expired)
      BY <1>5, <2>2, <2>3, <3>3 DEF AddPeer, Remember, PeerTable
    <3> QED
      BY <3>1, <3>2, <3>3
  <2> QED
    BY <2>1, <2>2, <2>3
<1>6. ASSUME NEW p \in TunPeers, Expires(p) \/ Handshake(p) PROVE TunInv'
  BY <1>6 DEF Expires, Handshake
<1>7. CASE UNCHANGED tunVars
  BY <1>7 DEF tunVars
<1> QED
  BY <1>1, <1>2, <1>3, <1>4, <1>5, <1>6, <1>7 DEF TunNext

\* Every peer the dispatcher has added stays set with the endpoint it gave last,
\* unless the log says that setting it failed: the reset of an expired session
\* puts the others back (add_peer), for any peers, endpoints and failures.
THEOREM PeersAlwaysSurviveReset == TunSpec => []PeersSurviveReset
<1>1. TunInit => TunInv
  BY DEF TunInit, TunInv, PeersSurviveReset, NoPeers, PeerTable
<1>2. TunInv => PeersSurviveReset
  BY DEF TunInv
<1> QED
  BY <1>1, <1>2, TunNextInv, PTL DEF TunSpec

(***************************************************************************)
(* The IPv6 route of the TUN device.                                       *)
(***************************************************************************)

\* A set of naturals has a least element.
LEMMA LeastNatural ==
  ASSUME NEW T \in SUBSET Nat, T # {}
  PROVE  \E m \in T : \A i \in T : m <= i
<1> DEFINE Less == OpToRel(<, Nat)
<1>1. IsWellFoundedOn(Less, Nat)
  BY NatLessThanWellFounded, Zenon
<1>2. \A x, y \in Nat : y < x => <<y, x>> \in Less
  BY DEF OpToRel
<1> HIDE DEF Less
<1>3. PICK x \in T : \A y \in T : ~ (<<y, x>> \in Less)
  BY <1>1, WFMin
<1>4. ASSUME NEW i \in T PROVE x <= i
  <2>1. ~(i < x)
    BY <1>2, <1>3
  <2> QED
    BY <2>1
<1> QED
  BY <1>4

\* Induction, over a set of naturals.
LEMMA EveryNatural ==
  ASSUME NEW P \in SUBSET Nat, 0 \in P, \A n \in P : n + 1 \in P
  PROVE  Nat \subseteq P
<1>1. ASSUME Nat \ P # {} PROVE FALSE
  <2>1. PICK x \in Nat \ P : \A y \in Nat \ P : x <= y
    BY <1>1, LeastNatural
  <2>2. x # 0 /\ x - 1 \in Nat
    BY <2>1
  <2>3. x - 1 \in P
    BY <2>1, <2>2
  <2> QED
    BY <2>1, <2>3
<1> QED
  BY <1>1

\* One round of the recursion of PowerOfTwo.
Doubled(f, n) == IF n = 0 THEN 1 ELSE 2 * f[n - 1]

\* The recursion has a solution on Nat: the value at n is what every long enough
\* run of it gives.
LEMMA PowersExist == \E f \in [Nat -> Nat] : f = [n \in Nat |-> Doubled(f, n)]
<1> DEFINE Runs(n, f) == f \in [0..n -> Nat] /\ \A i \in 0..n : f[i] = Doubled(f, i)
           P == {n \in Nat : \E f \in [0..n -> Nat] : Runs(n, f)}
<1>1. 0 \in P
  <2> DEFINE f == [i \in 0..0 |-> 1]
  <2>1. f \in [0..0 -> Nat] /\ \A i \in 0..0 : f[i] = Doubled(f, i)
    BY DEF Doubled
  <2> QED
    BY <2>1
<1>2. ASSUME NEW n \in P PROVE n + 1 \in P
  <2>0. n \in Nat
    OBVIOUS
  <2>1. PICK f \in [0..n -> Nat] : Runs(n, f)
    BY <1>2
  <2> DEFINE g == [i \in 0..(n + 1) |-> IF i <= n THEN f[i] ELSE 2 * f[n]]
  <2>2. g \in [0..(n + 1) -> Nat]
    BY <2>0, <2>1
  <2>3. ASSUME NEW i \in 0..(n + 1) PROVE g[i] = Doubled(g, i)
    <3>1. CASE i = 0
      BY <2>0, <2>1, <3>1 DEF Doubled
    <3>2. CASE i # 0 /\ i <= n
      <4>1. i \in 0..n /\ i - 1 \in 0..n /\ i - 1 \in 0..(n + 1) /\ i - 1 <= n
        BY <2>0, <3>2
      <4>2. g[i] = f[i] /\ g[i - 1] = f[i - 1] /\ f[i] = Doubled(f, i)
        BY <2>1, <3>2, <4>1
      <4> QED
        BY <3>2, <4>2 DEF Doubled
    <3>3. CASE i = n + 1
      <4>1. i # 0 /\ i - 1 = n /\ n \in 0..(n + 1) /\ ~(i <= n)
        BY <2>0, <3>3
      <4>2. g[i] = 2 * f[n] /\ g[n] = f[n]
        BY <2>0, <4>1
      <4> QED
        BY <4>1, <4>2 DEF Doubled
    <3> QED
      BY <2>0, <3>1, <3>2, <3>3
  <2> HIDE DEF g
  <2>4. Runs(n + 1, g)
    BY <2>2, <2>3
  <2> QED
    BY <2>0, <2>2, <2>4
<1>3. Nat \subseteq P
  <2> P \in SUBSET Nat
    OBVIOUS
  <2> HIDE DEF P
  <2> QED
    BY <1>1, <1>2, EveryNatural
<1> DEFINE R(n) == CHOOSE f : Runs(n, f)
<1>4. ASSUME NEW n \in Nat PROVE Runs(n, R(n))
  <2>1. \E f : Runs(n, f)
    BY <1>3
  <2> HIDE DEF Runs
  <2> QED
    BY <2>1, Zenon
<1> HIDE DEF R
<1>5. ASSUME NEW m \in Nat PROVE \A i \in 0..m : R(m + 1)[i] = R(m)[i]
  <2> DEFINE Q == {i \in Nat : i <= m => R(m + 1)[i] = R(m)[i]}
  <2>0. /\ \A i \in 0..m : R(m)[i] = Doubled(R(m), i)
        /\ \A i \in 0..(m + 1) : R(m + 1)[i] = Doubled(R(m + 1), i)
    <3>1. m + 1 \in Nat
      OBVIOUS
    <3>2. Runs(m, R(m)) /\ Runs(m + 1, R(m + 1))
      BY <1>4, <3>1, Zenon
    <3> QED
      BY <3>2, Zenon
  <2>1. 0 \in Q
    BY <2>0 DEF Doubled
  <2>2. ASSUME NEW i \in Q PROVE i + 1 \in Q
    <3>1. CASE i + 1 <= m
      <4>1. i \in Nat /\ i + 1 \in 0..m /\ i + 1 \in 0..(m + 1) /\ (i + 1) - 1 = i /\ i + 1 # 0
        BY <3>1
      <4>2. R(m + 1)[i] = R(m)[i]
        BY <2>2, <3>1
      <4>3. R(m)[i + 1] = 2 * R(m)[i] /\ R(m + 1)[i + 1] = 2 * R(m + 1)[i]
        BY <2>0, <4>1 DEF Doubled
      <4> QED
        BY <4>1, <4>2, <4>3
    <3>2. CASE ~(i + 1 <= m)
      BY <3>2
    <3> QED
      BY <3>1, <3>2
  <2>3. Nat \subseteq Q
    <3> Q \in SUBSET Nat
      OBVIOUS
    <3> HIDE DEF Q
    <3> QED
      BY <2>1, <2>2, EveryNatural
  <2> QED
    BY <2>3
<1> DEFINE F == [n \in Nat |-> R(n)[n]]
<1>6. F \in [Nat -> Nat]
  BY <1>4
<1>7. ASSUME NEW n \in Nat PROVE F[n] = Doubled(F, n)
  <2>1. CASE n = 0
    BY <1>4, <2>1 DEF Doubled
  <2>2. CASE n # 0
    <3>1. PICK m \in Nat : n = m + 1
      <4>1. n - 1 \in Nat /\ n = (n - 1) + 1
        BY <2>2
      <4> QED
        BY <4>1
    <3>2. R(n)[n] = 2 * R(n)[m]
      <4>1. n \in 0..n /\ n - 1 = m
        BY <3>1
      <4> QED
        BY <1>4, <2>2, <4>1 DEF Doubled
    <3>3. R(n)[m] = R(m)[m]
      BY <1>5, <3>1
    <3>4. F[n] = R(n)[n] /\ F[m] = R(m)[m] /\ n - 1 = m
      BY <3>1
    <3> HIDE DEF F
    <3> QED
      BY <2>2, <3>2, <3>3, <3>4 DEF Doubled
  <2> QED
    BY <2>1, <2>2
<1>8. F = [n \in Nat |-> Doubled(F, n)]
  BY <1>6, <1>7
<1> QED
  BY <1>6, <1>8

LEMMA PowerOfTwoDef ==
  /\ PowerOfTwo \in [Nat -> Nat]
  /\ \A n \in Nat : PowerOfTwo[n] = IF n = 0 THEN 1 ELSE 2 * PowerOfTwo[n - 1]
<1>1. PowerOfTwo = CHOOSE f : f = [n \in Nat |-> Doubled(f, n)]
  BY DEF PowerOfTwo, Doubled
<1>2. PowerOfTwo = [n \in Nat |-> Doubled(PowerOfTwo, n)]
  BY <1>1, PowersExist
<1>3. \A n \in Nat : PowerOfTwo[n] = Doubled(PowerOfTwo, n)
  BY <1>2
<1> DEFINE P == {n \in Nat : PowerOfTwo[n] \in Nat}
<1>4. 0 \in P
  BY <1>3 DEF Doubled
<1>5. ASSUME NEW n \in P PROVE n + 1 \in P
  <2>1. n + 1 \in Nat /\ n + 1 # 0 /\ (n + 1) - 1 = n /\ PowerOfTwo[n] \in Nat
    OBVIOUS
  <2>2. PowerOfTwo[n + 1] = 2 * PowerOfTwo[n]
    BY <1>3, <2>1 DEF Doubled
  <2> QED
    BY <2>1, <2>2
<1>6. Nat \subseteq P
  <2> P \in SUBSET Nat
    OBVIOUS
  <2> HIDE DEF P
  <2> QED
    BY <1>4, <1>5, EveryNatural
<1>7. PowerOfTwo \in [Nat -> Nat]
  BY <1>2, <1>6
<1> QED
  BY <1>3, <1>7 DEF Doubled

LEMMA PowersPositive == \A n \in Nat : PowerOfTwo[n] \in Nat /\ PowerOfTwo[n] > 0
<1> DEFINE P == {n \in Nat : PowerOfTwo[n] > 0}
<1>1. 0 \in P
  BY PowerOfTwoDef
<1>2. ASSUME NEW n \in P PROVE n + 1 \in P
  <2>1. n \in Nat /\ n + 1 \in Nat /\ n + 1 # 0 /\ (n + 1) - 1 = n /\ PowerOfTwo[n] \in Nat
    BY PowerOfTwoDef
  <2>2. PowerOfTwo[n + 1] = 2 * PowerOfTwo[n]
    BY <2>1, PowerOfTwoDef
  <2> QED
    BY <1>2, <2>1, <2>2
<1>3. Nat \subseteq P
  <2> P \in SUBSET Nat
    OBVIOUS
  <2> HIDE DEF P
  <2> QED
    BY <1>1, <1>2, EveryNatural
<1> QED
  BY <1>3, PowerOfTwoDef

LEMMA PowersMultiply ==
  ASSUME NEW a \in Nat, NEW b \in Nat
  PROVE  PowerOfTwo[a + b] = PowerOfTwo[a] * PowerOfTwo[b]
<1> DEFINE P == {n \in Nat : PowerOfTwo[a + n] = PowerOfTwo[a] * PowerOfTwo[n]}
<1>0. PowerOfTwo[a] \in Nat
  BY PowerOfTwoDef
<1>1. 0 \in P
  <2>1. PowerOfTwo[0] = 1 /\ a + 0 = a
    BY PowerOfTwoDef
  <2> QED
    BY <1>0, <2>1
<1>2. ASSUME NEW n \in P PROVE n + 1 \in P
  <2>1. /\ n \in Nat /\ n + 1 \in Nat /\ n + 1 # 0 /\ (n + 1) - 1 = n /\ PowerOfTwo[n] \in Nat
        /\ a + n \in Nat /\ PowerOfTwo[a + n] \in Nat
    BY PowerOfTwoDef
  <2>2. PowerOfTwo[n + 1] = 2 * PowerOfTwo[n]
    BY <2>1, PowerOfTwoDef
  <2>3. PowerOfTwo[a + (n + 1)] = 2 * PowerOfTwo[a + n]
    <3>1. a + (n + 1) \in Nat /\ a + (n + 1) # 0 /\ (a + (n + 1)) - 1 = a + n
      BY <2>1
    <3> QED
      BY <3>1, PowerOfTwoDef
  <2>4. PowerOfTwo[a + n] = PowerOfTwo[a] * PowerOfTwo[n]
    BY <1>2
  <2>5. \A x, y \in Nat : 2 * (x * y) = x * (2 * y)
    OBVIOUS
  <2>6. PowerOfTwo[a + (n + 1)] = PowerOfTwo[a] * PowerOfTwo[n + 1]
    BY <1>0, <2>1, <2>2, <2>3, <2>4, <2>5
  <2> QED
    BY <2>1, <2>6
<1>3. Nat \subseteq P
  <2> P \in SUBSET Nat
    OBVIOUS
  <2> HIDE DEF P
  <2> QED
    BY <1>1, <1>2, EveryNatural
<1> QED
  BY <1>3

\* One round of the recursion of Number, with B for the size of a segment.
Shifted(addr, B, f, i) == IF i = 0 THEN 0 ELSE f[i - 1] * B + addr[i]

\* Appending a segment to a number gives a number.
LEMMA ShiftedIsNatural == \A x, y, z \in Nat : x * y + z \in Nat
<1>1. ASSUME NEW x \in Nat, NEW y \in Nat, NEW z \in Nat PROVE x * y + z \in Nat
  <2>1. x * y \in Nat
    OBVIOUS
  <2> QED
    BY <2>1
<1> QED
  BY <1>1

\* The values of the first segments of an address.
Prefixes(addr, B, f) ==
  /\ f \in [0..Segments -> Nat] /\ f[0] = 0
  /\ \A i \in 0..(Segments - 1) : f[i + 1] = f[i] * B + addr[i + 1]

LEMMA PrefixesExist ==
  ASSUME NEW addr \in [1..Segments -> Nat], NEW B \in Nat
  PROVE  \E f \in [0..Segments -> Nat] : f = [i \in 0..Segments |-> Shifted(addr, B, f, i)]
<1> USE TunConstants
<1> DEFINE D == 0..Segments
           Good(n, f) == \A i \in D : i <= n => f[i] = Shifted(addr, B, f, i)
           P == {n \in Nat : \E f \in [D -> Nat] : Good(n, f)}
<1>1. 0 \in P
  <2> DEFINE f == [i \in D |-> 0]
  <2>1. f \in [D -> Nat] /\ Good(0, f)
    BY DEF Shifted
  <2> HIDE DEF f
  <2> QED
    BY <2>1
<1>2. ASSUME NEW n \in P PROVE n + 1 \in P
  <2>1. PICK f \in [D -> Nat] : Good(n, f)
    BY <1>2
  <2> DEFINE g == [i \in D |-> Shifted(addr, B, f, i)]
  <2>2. ASSUME NEW i \in D PROVE Shifted(addr, B, f, i) \in Nat
    <3>1. CASE i = 0
      BY <3>1 DEF Shifted
    <3>2. CASE i # 0
      <4>1. i \in 1..Segments /\ i - 1 \in D
        BY <3>2
      <4>2. addr[i] \in Nat /\ f[i - 1] \in Nat
        BY <4>1
      <4>4. f[i - 1] * B + addr[i] \in Nat
        BY <4>2, ShiftedIsNatural
      <4> QED
        BY <3>2, <4>4 DEF Shifted
    <3> QED
      BY <3>1, <3>2
  <2>3. g \in [D -> Nat]
    BY <2>2
  <2>4. ASSUME NEW i \in D, i <= n PROVE g[i] = f[i]
    BY <2>1, <2>4
  <2>5. ASSUME NEW i \in D, i <= n + 1 PROVE g[i] = Shifted(addr, B, g, i)
    <3>1. CASE i = 0
      BY <3>1 DEF Shifted
    <3>2. CASE i # 0
      <4>1. i - 1 \in D /\ i - 1 <= n
        BY <3>2, <2>5
      <4>2. g[i - 1] = f[i - 1]
        BY <4>1, <2>4
      <4> QED
        BY <3>2, <4>2 DEF Shifted
    <3> QED
      BY <3>1, <3>2
  <2> HIDE DEF g
  <2>6. Good(n + 1, g)
    BY <2>5
  <2>7. n + 1 \in Nat
    BY <1>2
  <2> HIDE DEF Good
  <2> QED
    BY <2>3, <2>6, <2>7
<1>3. Nat \subseteq P
  <2> P \in SUBSET Nat
    OBVIOUS
  <2> HIDE DEF P
  <2> QED
    BY <1>1, <1>2, EveryNatural
<1>4. PICK f \in [D -> Nat] : Good(Segments, f)
  BY <1>3
<1>5. f = [i \in D |-> Shifted(addr, B, f, i)]
  BY <1>4
<1> QED
  BY <1>5

LEMMA NumberDef ==
  ASSUME NEW addr \in [1..Segments -> Nat]
  PROVE  \E f : Prefixes(addr, PowerOfTwo[SegmentBits], f) /\ Number(addr) = f[Segments]
<1> DEFINE B == PowerOfTwo[SegmentBits]
           V == CHOOSE f : f = [i \in 0..Segments |-> Shifted(addr, B, f, i)]
<1>0. B \in Nat
  BY TunConstants, PowerOfTwoDef
<1>1. Number(addr) = V[Segments]
  BY DEF Number, Shifted
<1> HIDE DEF B
<1>2. \E f : f = [i \in 0..Segments |-> Shifted(addr, B, f, i)]
  BY <1>0, PrefixesExist
<1>3. V = [i \in 0..Segments |-> Shifted(addr, B, V, i)]
  BY <1>2
<1> HIDE DEF V
<1>4. \A i \in 0..Segments : V[i] = Shifted(addr, B, V, i)
  BY <1>3
<1> DEFINE P == {n \in Nat : n <= Segments => V[n] \in Nat}
<1>5. V[0] = 0
  BY <1>4, TunConstants DEF Shifted
<1>6. ASSUME NEW i \in 0..(Segments - 1) PROVE V[i + 1] = V[i] * B + addr[i + 1]
  <2>1. i + 1 \in 0..Segments /\ i + 1 # 0 /\ (i + 1) - 1 = i
    BY TunConstants
  <2> QED
    BY <1>4, <2>1 DEF Shifted
<1>7. 0 \in P
  BY <1>5
<1>8. ASSUME NEW n \in P PROVE n + 1 \in P
  <2>1. CASE n + 1 <= Segments
    <3>1. n \in 0..(Segments - 1) /\ n + 1 \in 1..Segments /\ V[n] \in Nat
      BY <2>1, TunConstants
    <3>2. addr[n + 1] \in Nat
      BY <3>1
    <3>3. V[n + 1] \in Nat
      BY <1>0, <1>6, <3>1, <3>2
    <3> QED
      BY <3>3
  <2>2. CASE ~(n + 1 <= Segments)
    BY <2>2
  <2> QED
    BY <2>1, <2>2
<1>9. Nat \subseteq P
  <2> P \in SUBSET Nat
    OBVIOUS
  <2> HIDE DEF P
  <2> QED
    BY <1>7, <1>8, EveryNatural
<1>10. V \in [0..Segments -> Nat]
  BY <1>3, <1>9, TunConstants
<1>11. Prefixes(addr, B, V)
  BY <1>5, <1>6, <1>10 DEF Prefixes
<1> QED
  BY <1>1, <1>11 DEF B

\* b is a with the part below size cleared.
Cleared(b, a, size) == b \in Nat /\ a \in Nat /\ b <= a /\ a < b + size /\ \E q \in Nat : b = q * size

\* One more segment, which is cleared.
LEMMA ClearedShifts ==
  ASSUME NEW b, NEW a, NEW size \in Nat, Cleared(b, a, size), NEW P \in Nat, NEW seg \in 0..(P - 1)
  PROVE  Cleared(b * P, a * P + seg, size * P)
<1>1. PICK q \in Nat : b = q * size
  BY DEF Cleared
<1>2. a \in Nat /\ b \in Nat /\ b <= a /\ a + 1 <= b + size /\ seg \in Nat /\ seg + 1 <= P
  BY DEF Cleared
<1>3. b * P = q * (size * P)
  BY <1>1
<1>4. b * P <= a * P
  BY <1>2
<1>5. (a + 1) * P <= (b + size) * P
  BY <1>2
<1>6. (a + 1) * P = a * P + P /\ (b + size) * P = b * P + size * P
  BY <1>2
<1>7. a * P \in Nat /\ b * P \in Nat /\ size * P \in Nat
  BY <1>2
<1> QED
  BY <1>2, <1>3, <1>4, <1>5, <1>6, <1>7 DEF Cleared

LEMMA ClearedIs ==
  ASSUME NEW b, NEW a, NEW size \in Nat, size > 0, Cleared(b, a, size)
  PROVE  b = (a \div size) * size
<1>1. PICK q \in Nat : b = q * size
  BY DEF Cleared
<1>2. PICK r \in Nat : r < size /\ a = q * size + r
  <2>1. a - b \in Nat /\ a - b < size /\ a = b + (a - b)
    BY DEF Cleared
  <2> QED
    BY <1>1, <2>1
<1>3. a \in Nat
  BY DEF Cleared
<1>4. a \div size = q
  BY <1>2, <1>3
<1> QED
  BY <1>1, <1>4

\* Nothing is cleared below size 1.
LEMMA ClearedByOne == \A a \in Nat : Cleared(a, a, 1)
<1>1. ASSUME NEW a \in Nat PROVE Cleared(a, a, 1)
  <2>1. a = a * 1
    OBVIOUS
  <2> QED
    BY <2>1 DEF Cleared
<1> QED
  BY <1>1

\* The bits of a prefix as whole segments and a rest.
LEMMA WholeAndRest ==
  ASSUME NEW bits \in Nat, NEW B \in Nat \ {0}
  PROVE  /\ bits \div B \in Nat /\ bits % B \in 0..(B - 1)
         /\ bits = (bits \div B) * B + (bits % B)
<1>1. bits \div B \in Nat
  OBVIOUS
<1>2. bits % B \in 0..(B - 1)
  OBVIOUS
<1>3. bits % B = bits - (bits \div B) * B
  OBVIOUS
<1>4. (bits \div B) * B \in Nat
  BY <1>1
<1> QED
  BY <1>1, <1>2, <1>3, <1>4

LEMMA MaskedIsNatural ==
  ASSUME NEW seg \in Nat, NEW L \in Nat \ {0}
  PROVE  seg - (seg % L) \in Nat
<1>1. seg \div L \in Nat /\ seg % L \in 0..(L - 1) /\ seg = (seg \div L) * L + (seg % L)
  BY WholeAndRest
<1>2. (seg \div L) * L \in Nat
  BY <1>1
<1> QED
  BY <1>1, <1>2

\* When the first i segments hold the k * B + r bits of the prefix.
LEMMA HoldThePrefix ==
  ASSUME NEW B \in Nat \ {0}, NEW i \in Nat, NEW k \in Nat, NEW r \in 0..(B - 1)
  PROVE  i * B >= k * B + r <=> (i > k \/ (i = k /\ r = 0))
<1>0. i * B \in Nat /\ k * B \in Nat
  OBVIOUS
<1>1. CASE i > k
  <2>1. i >= k + 1
    BY <1>1
  <2>2. i * B >= (k + 1) * B
    BY <2>1
  <2>3. (k + 1) * B = k * B + B
    OBVIOUS
  <2> QED
    BY <1>0, <1>1, <2>2, <2>3
<1>2. CASE i = k
  BY <1>0, <1>2
<1>3. CASE i < k
  <2>1. i + 1 <= k
    BY <1>3
  <2>2. (i + 1) * B <= k * B
    BY <2>1
  <2>3. (i + 1) * B = i * B + B
    OBVIOUS
  <2> QED
    BY <1>0, <1>3, <2>2, <2>3
<1> QED
  BY <1>1, <1>2, <1>3

\* The segment the prefix ends in: its low bits are cleared, the segments before
\* it, a in number, are kept.
LEMMA ClearedInside ==
  ASSUME NEW a \in Nat, NEW L \in Nat \ {0}, NEW H \in Nat, NEW seg \in Nat
  PROVE  Cleared(a * (H * L) + (seg - (seg % L)), a * (H * L) + seg, L)
<1> DEFINE d == seg \div L
           base == a * (H * L)
<1>1. d \in Nat /\ seg % L \in 0..(L - 1) /\ seg = d * L + (seg % L)
  BY WholeAndRest
<1>2. base \in Nat
  <2>1. H * L \in Nat
    OBVIOUS
  <2> QED
    BY <2>1
<1>3. base + d * L = (a * H + d) * L
  BY <1>1
<1>4. a * H + d \in Nat
  BY <1>1, ShiftedIsNatural
<1>5. d * L \in Nat
  BY <1>1
<1>6. seg - (seg % L) = d * L
  BY <1>1, <1>5
<1> HIDE DEF d, base
<1>7. base + d * L <= base + seg /\ base + seg < (base + d * L) + L
  BY <1>1, <1>2, <1>5
<1>8. Cleared(base + d * L, base + seg, L)
  BY <1>2, <1>3, <1>4, <1>5, <1>7 DEF Cleared
<1> QED
  BY <1>6, <1>8 DEF base


\* The first i segments of the network, as a number, are those of the address
\* with all bits after the prefix cleared, once they hold the prefix.
LEMMA NetworkIsCleared ==
  ASSUME NEW k \in Nat, NEW r \in 0..(SegmentBits - 1), NEW bits \in Nat, bits = k * SegmentBits + r,
         NEW P \in Nat, P = PowerOfTwo[SegmentBits],
         NEW addr \in [1..Segments -> 0..(P - 1)], NEW net \in [1..Segments -> Nat],
         \A i \in 1..Segments : i - 1 < k => net[i] = addr[i],
         \A i \in 1..Segments : i - 1 = k /\ r > 0 => net[i] = Masked(addr[i], SegmentBits - r),
         \A i \in 1..Segments : i - 1 > k \/ (i - 1 = k /\ r = 0) => net[i] = 0,
         NEW N, Prefixes(net, P, N), NEW A, Prefixes(addr, P, A), Segments * SegmentBits >= bits
  PROVE  Cleared(N[Segments], A[Segments], PowerOfTwo[Segments * SegmentBits - bits])
<1>0. SegmentBits \in Nat \ {0} /\ Segments \in Nat \ {0}
  BY TunConstants
<1>1. \A i \in 0..Segments : N[i] \in Nat /\ A[i] \in Nat
  BY DEF Prefixes
<1>2. N[0] = 0 /\ A[0] = 0
  BY DEF Prefixes
<1>3. \A i \in 0..(Segments - 1) : N[i + 1] = N[i] * P + net[i + 1] /\ A[i + 1] = A[i] * P + addr[i + 1]
  BY DEF Prefixes
<1>4. ASSUME NEW i \in 0..(Segments - 1)
      PROVE  i \in Nat /\ i + 1 \in 1..Segments /\ i \in 0..Segments /\ i + 1 \in 0..Segments /\ (i + 1) - 1 = i
  BY <1>0
<1>5. \A i \in 1..Segments : addr[i] \in 0..(P - 1) /\ addr[i] \in Nat
  OBVIOUS
<1>6. \A i \in Nat : i * SegmentBits >= bits <=> (i > k \/ (i = k /\ r = 0))
  BY <1>0, HoldThePrefix
<1>7. \A i \in Nat : i <= k /\ i <= Segments => N[i] = A[i]
  <2> DEFINE Q == {i \in Nat : i <= k /\ i <= Segments => N[i] = A[i]}
  <2>1. 0 \in Q
    BY <1>2
  <2>2. ASSUME NEW i \in Q PROVE i + 1 \in Q
    <3>1. CASE i + 1 <= k /\ i + 1 <= Segments
      <4>1. i \in 0..(Segments - 1) /\ i < k /\ N[i] = A[i]
        BY <1>0, <3>1
      <4>2. net[i + 1] = addr[i + 1]
        BY <1>4, <4>1
      <4>3. N[i + 1] = A[i + 1]
        BY <1>3, <4>1, <4>2
      <4> QED
        BY <4>3
    <3>2. CASE ~(i + 1 <= k /\ i + 1 <= Segments)
      BY <3>2
    <3> QED
      BY <3>1, <3>2
  <2>3. Nat \subseteq Q
    <3> Q \in SUBSET Nat
      OBVIOUS
    <3> HIDE DEF Q
    <3> QED
      BY <2>1, <2>2, EveryNatural
  <2> QED
    BY <2>3
<1>8. PowerOfTwo[0] = 1
  BY PowerOfTwoDef
<1> DEFINE Size(i) == PowerOfTwo[i * SegmentBits - bits]
           Holds(i) == i <= Segments /\ i * SegmentBits >= bits => Cleared(N[i], A[i], Size(i))
           Q == {i \in Nat : Holds(i)}
<1>9. ASSUME NEW i \in 0..Segments, i = k, r = 0 PROVE Cleared(N[i], A[i], Size(i))
  <2>1. N[i] = A[i] /\ A[i] \in Nat
    BY <1>1, <1>7, <1>9
  <2>2. i * SegmentBits - bits = 0
    <3>1. i * SegmentBits \in Nat
      BY <1>0
    <3> QED
      BY <1>9, <3>1
  <2> QED
    BY <1>8, <2>1, <2>2, ClearedByOne
<1>10. 0 \in Q
  <2>1. ASSUME 0 * SegmentBits >= bits PROVE Cleared(N[0], A[0], Size(0))
    <3>1. 0 = k /\ r = 0
      BY <1>6, <2>1
    <3> QED
      BY <1>0, <1>9, <3>1
  <2> HIDE DEF Size
  <2> QED
    BY <2>1
<1>11. ASSUME NEW i \in Q PROVE i + 1 \in Q
  <2> HIDE DEF Size
  <2>0. i \in Nat
    OBVIOUS
  <2>1. ASSUME i + 1 <= Segments, (i + 1) * SegmentBits >= bits
        PROVE  Cleared(N[i + 1], A[i + 1], Size(i + 1))
    <3>0. i \in 0..(Segments - 1)
      BY <1>0, <2>0, <2>1
    <3>1. N[i] \in Nat /\ A[i] \in Nat /\ addr[i + 1] \in 0..(P - 1) /\ addr[i + 1] \in Nat
      BY <1>1, <1>4, <1>5, <3>0
    <3>2. N[i + 1] = N[i] * P + net[i + 1] /\ A[i + 1] = A[i] * P + addr[i + 1]
      BY <1>3, <3>0
    <3>3. (i + 1) * SegmentBits = i * SegmentBits + SegmentBits /\ i * SegmentBits \in Nat
      BY <1>0, <2>0
    <3>4. CASE i * SegmentBits >= bits
      <4>1. i > k \/ (i = k /\ r = 0)
        BY <1>6, <2>0, <3>4
      <4>2. net[i + 1] = 0
        BY <1>4, <3>0, <4>1
      <4>3. Cleared(N[i], A[i], Size(i))
        BY <2>1, <3>4, <2>0, <1>0
      <4>4. Size(i + 1) = Size(i) * P /\ Size(i) \in Nat
        <5>1. PICK n \in Nat : n = i * SegmentBits - bits
          BY <3>3, <3>4
        <5>2. (i + 1) * SegmentBits - bits = n + SegmentBits
          BY <3>3, <5>1, <1>0
        <5>3. Size(i) = PowerOfTwo[n] /\ Size(i + 1) = PowerOfTwo[n + SegmentBits]
          BY <5>1, <5>2 DEF Size
        <5>4. PowerOfTwo[n + SegmentBits] = PowerOfTwo[n] * PowerOfTwo[SegmentBits]
          BY <1>0, PowersMultiply
        <5> QED
          BY <5>3, <5>4, PowersPositive
      <4>5. Cleared(N[i] * P, A[i] * P + addr[i + 1], Size(i) * P)
        BY <3>1, <4>3, <4>4, ClearedShifts
      <4>6. N[i + 1] = N[i] * P
        <5>1. N[i] * P \in Nat
          BY <3>1
        <5> QED
          BY <3>2, <4>2, <5>1
      <4> QED
        BY <3>2, <4>4, <4>5, <4>6
    <3>5. CASE ~(i * SegmentBits >= bits)
      <4>1. ~(i > k) /\ ~(i = k /\ r = 0)
        BY <1>6, <2>0, <3>5
      <4>2. CASE i + 1 = k
        <5>1. r = 0
          BY <1>6, <2>0, <2>1, <4>2
        <5>2. i + 1 \in 0..Segments
          BY <1>4, <3>0
        <5> QED
          BY <1>9, <4>2, <5>1, <5>2
      <4>3. CASE i = k
        <5>1. r > 0 /\ r \in Nat
          BY <1>0, <4>1, <4>3
        <5>2. PICK L \in Nat \ {0} : L = PowerOfTwo[SegmentBits - r]
          <6>1. SegmentBits - r \in Nat
            BY <1>0
          <6> QED
            BY <6>1, PowersPositive
        <5>3. PICK H \in Nat : H = PowerOfTwo[r]
          BY <5>1, PowersPositive
        <5>4. P = H * L
          <6>1. SegmentBits - r \in Nat /\ r + (SegmentBits - r) = SegmentBits
            BY <1>0
          <6>2. PowerOfTwo[r + (SegmentBits - r)] = PowerOfTwo[r] * PowerOfTwo[SegmentBits - r]
            BY <5>1, <6>1, PowersMultiply
          <6> QED
            BY <5>2, <5>3, <6>1, <6>2
        <5>5. net[i + 1] = addr[i + 1] - (addr[i + 1] % L)
          <6>1. net[i + 1] = Masked(addr[i + 1], SegmentBits - r)
            BY <1>4, <3>0, <4>3, <5>1
          <6> QED
            BY <5>2, <6>1 DEF Masked
        <5>6. N[i] = A[i]
          BY <1>0, <1>7, <2>0, <2>1, <4>3
        <5>7. Size(i + 1) = L
          <6>1. (i + 1) * SegmentBits - bits = SegmentBits - r
            BY <1>0, <3>3, <4>3
          <6> QED
            BY <5>2, <6>1 DEF Size
        <5>8. Cleared(A[i] * (H * L) + (addr[i + 1] - (addr[i + 1] % L)), A[i] * (H * L) + addr[i + 1], L)
          BY <3>1, ClearedInside
        <5> QED
          BY <3>2, <5>4, <5>5, <5>6, <5>7, <5>8
      <4>4. i + 1 = k \/ i = k
        BY <1>6, <2>0, <2>1, <4>1
      <4> QED
        BY <4>2, <4>3, <4>4
    <3> QED
      BY <3>4, <3>5
  <2>2. Holds(i + 1)
    BY <2>1
  <2> QED
    BY <2>0, <2>2
<1>12. Nat \subseteq Q
  <2> Q \in SUBSET Nat
    OBVIOUS
  <2> HIDE DEF Q
  <2> QED
    BY <1>10, <1>11, EveryNatural
<1>13. Holds(Segments)
  <2> HIDE DEF Holds
  <2> QED
    BY <1>0, <1>12
<1> QED
  <2>1. Segments <= Segments
    BY <1>0
  <2> QED
    BY <1>13, <2>1


\* ipv6_network_address, whatever the prefix: the address with all but its first
\* bits cleared.
LEMMA NetworkOfAddress ==
  ASSUME NEW addr \in [1..Segments -> 0..(PowerOfTwo[SegmentBits] - 1)],
         NEW bits \in 0..(SegmentBits * Segments)
  PROVE  LET size == PowerOfTwo[SegmentBits * Segments - bits]
         IN Number(NetworkAddress(addr, bits)) = (Number(addr) \div size) * size
<1>0. SegmentBits \in Nat \ {0} /\ Segments \in Nat \ {0}
  BY TunConstants
<1>1. PICK P \in Nat \ {0} : P = PowerOfTwo[SegmentBits]
  BY <1>0, PowersPositive
<1>2. SegmentBits * Segments = Segments * SegmentBits /\ SegmentBits * Segments \in Nat
  BY <1>0
<1>3. bits \in Nat /\ Segments * SegmentBits >= bits
  BY <1>2
<1>4. PICK k \in Nat, r \in 0..(SegmentBits - 1) :
        k = bits \div SegmentBits /\ r = bits % SegmentBits /\ bits = k * SegmentBits + r
  BY <1>0, <1>3, WholeAndRest
<1> DEFINE net == NetworkAddress(addr, bits)
<1>5. addr \in [1..Segments -> 0..(P - 1)] /\ addr \in [1..Segments -> Nat]
  BY <1>1
<1>6. \A i \in 1..Segments :
        net[i] = CASE i - 1 < k -> addr[i]
                   [] i - 1 = k /\ r > 0 -> Masked(addr[i], SegmentBits - r)
                   [] OTHER -> 0
  BY <1>4 DEF NetworkAddress
<1>7. DOMAIN net = 1..Segments /\ net = [i \in 1..Segments |-> net[i]]
  BY DEF NetworkAddress
<1> HIDE DEF net
<1>8. \A i \in 1..Segments : i - 1 < k => net[i] = addr[i]
  BY <1>0, <1>6
<1>9. \A i \in 1..Segments : i - 1 = k /\ r > 0 => net[i] = Masked(addr[i], SegmentBits - r)
  BY <1>0, <1>6
<1>10. \A i \in 1..Segments : i - 1 > k \/ (i - 1 = k /\ r = 0) => net[i] = 0
  BY <1>0, <1>6
<1>11. ASSUME NEW i \in 1..Segments PROVE net[i] \in Nat
  <2>0. addr[i] \in Nat
    BY <1>5
  <2>1. PICK L \in Nat \ {0} : L = PowerOfTwo[SegmentBits - r]
    <3>1. SegmentBits - r \in Nat
      BY <1>0
    <3> QED
      BY <3>1, PowersPositive
  <2>2. Masked(addr[i], SegmentBits - r) \in Nat
    <3>1. addr[i] - (addr[i] % L) \in Nat
      BY <2>0, MaskedIsNatural
    <3> QED
      BY <2>1, <3>1 DEF Masked
  <2>3. i - 1 < k \/ (i - 1 = k /\ r > 0) \/ i - 1 > k \/ (i - 1 = k /\ r = 0)
    BY <1>0
  <2> QED
    BY <1>8, <1>9, <1>10, <2>0, <2>2, <2>3
<1>12. net \in [1..Segments -> Nat]
  BY <1>7, <1>11
<1>13. PICK N : Prefixes(net, P, N) /\ Number(net) = N[Segments]
  BY <1>1, <1>12, NumberDef
<1>14. PICK A : Prefixes(addr, P, A) /\ Number(addr) = A[Segments]
  BY <1>1, <1>5, NumberDef
<1>15. Cleared(N[Segments], A[Segments], PowerOfTwo[Segments * SegmentBits - bits])
  BY <1>1, <1>3, <1>4, <1>5, <1>8, <1>9, <1>10, <1>12, <1>13, <1>14, NetworkIsCleared
<1>16. PICK size \in Nat : size > 0 /\ size = PowerOfTwo[Segments * SegmentBits - bits]
  <2>1. Segments * SegmentBits - bits \in Nat
    BY <1>2, <1>3
  <2> QED
    BY <2>1, PowersPositive
<1>17. N[Segments] = (A[Segments] \div size) * size
  BY <1>15, <1>16, ClearedIs
<1>18. PowerOfTwo[SegmentBits * Segments - bits] = size
  BY <1>2, <1>16
<1> QED
  BY <1>13, <1>14, <1>17, <1>18 DEF net

\* The route is the network of the device's address for some prefix.
Route6Inv ==
  route6 # NoRoute6 =>
    /\ device \in Nets
    /\ \E bits \in 0..(SegmentBits * Segments) :
         route6 = [net |-> NetworkAddress(Vip6Of(device), bits), bits |-> bits]

\* A route is set with the device it belongs to.
LEMMA Route6Step == ASSUME Route6Inv, [TunNext]_tunVars PROVE Route6Inv'
<1>1. CASE UNCHANGED <<device, route6>>
  BY <1>1 DEF Route6Inv
<1>2. CASE route6' = NoRoute6
  BY <1>2 DEF Route6Inv, NoRoute6
<1>3. ASSUME NEW n \in Nets, SetupDualStack(n) PROVE Route6Inv'
  BY <1>3 DEF Route6Inv, SetupDualStack, AddIpv6
<1>4. ASSUME NEW n \in Nets, JoinTun(n) PROVE Route6Inv'
  <2>1. CASE SetupDualStack(n)
    BY <1>3, <2>1
  <2>2. CASE UNCHANGED <<device, route6>>
    BY <1>1, <2>2
  <2> QED
    BY <1>4, <2>1, <2>2 DEF JoinTun, TakeOver, SetupFails
<1>5. CASE LeaveTun
  BY <1>1, <1>2, <1>5 DEF LeaveTun
<1>6. CASE TunKilled
  BY <1>2, <1>6 DEF TunKilled
<1>7. CASE LoopEnds
  BY <1>1, <1>7 DEF LoopEnds
<1>8. ASSUME NEW p \in TunPeers, NEW e \in Endpoints, NEW failing \in SUBSET TunPeers, AddPeer(p, e, failing)
      PROVE Route6Inv'
  <2>1. UNCHANGED <<device, route6>>
    BY <1>8 DEF AddPeer
  <2> QED
    BY <1>1, <2>1
<1>9. ASSUME NEW p \in TunPeers, Expires(p) \/ Handshake(p) PROVE Route6Inv'
  BY <1>1, <1>9 DEF Expires, Handshake
<1>10. CASE UNCHANGED tunVars
  BY <1>1, <1>10 DEF tunVars
<1> QED
  BY <1>4, <1>5, <1>6, <1>7, <1>8, <1>9, <1>10 DEF TunNext

LEMMA RouteIsRight == ASSUME Route6Inv PROVE RouteIsOwnNetwork
<1> SUFFICES ASSUME route6 # NoRoute6 PROVE RouteIsOwnNetwork
  BY DEF RouteIsOwnNetwork
<1>1. PICK bits \in 0..(SegmentBits * Segments) :
        route6 = [net |-> NetworkAddress(Vip6Of(device), bits), bits |-> bits]
  BY DEF Route6Inv
<1>2. Vip6Of(device) \in [1..Segments -> 0..(PowerOfTwo[SegmentBits] - 1)]
  BY TunConstants DEF Route6Inv
<1>3. route6.net = NetworkAddress(Vip6Of(device), bits) /\ route6.bits = bits
  BY <1>1
<1> QED
  BY <1>2, <1>3, NetworkOfAddress DEF RouteIsOwnNetwork

\* The device carries the peers it was given and the route of its own network: the
\* IPv6 route is the device's address with all but its first bits cleared
\* (ipv6_network_address), for every prefix length, address, number and width of
\* segments, and through every join, take-over, loss and leave.
THEOREM DeviceAlwaysRight == TunSpec => []DeviceIsRight
<1>1. TunInit => TunInv /\ Route6Inv
  BY DEF TunInit, TunInv, PeersSurviveReset, NoPeers, PeerTable, Route6Inv
<1>2. TunInv /\ Route6Inv => DeviceIsRight
  BY RouteIsRight DEF TunInv, DeviceIsRight
<1>3. Route6Inv /\ [TunNext]_tunVars => Route6Inv'
  BY Route6Step
<1> QED
  BY <1>1, <1>2, <1>3, TunNextInv, PTL DEF TunSpec

(***************************************************************************)
(* The background service.                                                 *)
(***************************************************************************)

RunModes == Modes \cup {"edge"}
Daemons == [mode : RunModes \cup {NoUnit}, phase : {"new", "joining", "up"}, managed : BOOLEAN]

CliSteps == {"idle", "login", "kill", "install", "launch", "stop", "killall"}

SvcTypes ==
  /\ platform \in {"systemd", "plain", "macos", "windows"}
  /\ proc \in [Pids -> Daemons \cup {NoDaemon}]
  /\ unit \in RunModes \cup {NoUnit}
  /\ svc \in {"stopped", "running", "pending", "cooling"}
  /\ enabled \in BOOLEAN
  /\ cli \in [Terminals -> CliSteps]
  /\ wants \in [Terminals -> RunModes]
  /\ crowded \in BOOLEAN /\ stopped \in BOOLEAN

\* The commands that met no start were alone with the other stops.
MetInv ==
  /\ \A t \in Terminals : cli[t] \in {"stop", "killall"} /\ t \notin met => Starting = {}
  /\ \A t, u \in Starting : t \notin met => u = t

\* A stop leaves nothing that could start a daemon again.
StopInv ==
  /\ stopped => Alive = {} /\ svc = "stopped" /\ ~enabled /\ Starting = {}
  /\ \A t \in Terminals : cli[t] = "killall" /\ t \notin met =>
       svc = "stopped" /\ ~enabled /\ \A p \in Alive : ~proc[p].managed

\* Where every daemon is a service, the service manager knows of the one there is.
ManagedInv ==
  platform \in {"systemd", "windows"} =>
    /\ svc = "running" <=> Alive # {}
    /\ \A p \in Alive : proc[p].managed
    /\ \A p, q \in Alive : p = q

\* Without a service manager only the start command starts a daemon, and it has
\* killed the others.
PlainInv ==
  platform = "plain" =>
    /\ svc = "stopped" /\ ~enabled
    /\ \A p \in Alive : ~proc[p].managed
    /\ ~crowded => \A p, q \in Alive : p = q
    /\ \A t \in Terminals : cli[t] \in {"install", "launch"} /\ t \notin met => Alive = {}

\* On plain nothing is enabled, as no service is installed.
SvcInv == SvcTypes /\ MetInv /\ StopInv /\ ManagedInv /\ PlainInv

LEMMA AfterKill ==
  ASSUME SvcTypes, NEW ps, Kill(ps)
  PROVE  /\ proc' \in [Pids -> Daemons \cup {NoDaemon}]
         /\ Alive' = Alive \ ps
         /\ \A p \in Alive' : proc'[p] = proc[p]
BY DEF SvcTypes, Kill, Alive

LEMMA AfterLaunch ==
  ASSUME SvcTypes, NEW p \in Pids \ Alive, NEW mode \in RunModes \cup {NoUnit}, NEW m \in BOOLEAN,
         proc' = [proc EXCEPT ![p] = NewDaemon(mode, m)]
  PROVE  /\ proc' \in [Pids -> Daemons \cup {NoDaemon}]
         /\ Alive' = Alive \cup {p}
         /\ \A q \in Alive : proc'[q] = proc[q]
         /\ proc'[p].managed = m
<1>1. NewDaemon(mode, m) \in Daemons /\ NewDaemon(mode, m).managed = m
  BY DEF NewDaemon, Daemons
<1>2. NoDaemon \notin Daemons
  BY ServiceConstants DEF Daemons, RunModes
<1> QED
  BY <1>1, <1>2 DEF SvcTypes, Alive

LEMMA AfterPhase ==
  ASSUME SvcTypes, NEW p \in Alive, NEW ph \in {"new", "joining", "up"}, proc' = [proc EXCEPT ![p].phase = ph]
  PROVE  /\ proc' \in [Pids -> Daemons \cup {NoDaemon}]
         /\ Alive' = Alive
         /\ \A q \in Alive : proc'[q].managed = proc[q].managed
<1>1. p \in Pids /\ proc[p] \in Daemons
  BY DEF SvcTypes, Alive
<1>2. [proc[p] EXCEPT !.phase = ph] \in Daemons /\ [proc[p] EXCEPT !.phase = ph].managed = proc[p].managed
  BY <1>1 DEF Daemons
<1>3. NoDaemon \notin Daemons
  BY ServiceConstants DEF Daemons, RunModes
<1>4. proc' = [proc EXCEPT ![p] = [proc[p] EXCEPT !.phase = ph]]
  OBVIOUS
<1> QED
  BY <1>1, <1>2, <1>3, <1>4 DEF SvcTypes, Alive

\* A command that goes on or ends starts nothing.
LEMMA CommandEnds ==
  ASSUME SvcTypes, MetInv, NEW t \in Terminals, Quits(t)
  PROVE  /\ cli' \in [Terminals -> CliSteps] /\ wants' \in [Terminals -> RunModes]
         /\ \A u \in Terminals : cli'[u] = IF u = t THEN "idle" ELSE cli[u]
         /\ Starting' = Starting \ {t} /\ met' = met \ {t}
         /\ MetInv'
<1>1. cli' \in [Terminals -> CliSteps] /\ wants' \in [Terminals -> RunModes]
  BY DEF Quits, SvcTypes, CliSteps, RunModes
<1>2. \A u \in Terminals : cli'[u] = IF u = t THEN "idle" ELSE cli[u]
  BY DEF Quits, SvcTypes
<1>3. Starting' = Starting \ {t} /\ met' = met \ {t}
  BY <1>2 DEF Starting, Quits
<1> QED
  BY <1>1, <1>2, <1>3 DEF MetInv

LEMMA CommandGoes ==
  ASSUME SvcTypes, MetInv, NEW t \in Terminals, NEW next \in CliSteps, Goes(t, next),
         next \in {"kill", "install", "launch"} => t \in Starting,
         next = "killall" => cli[t] = "stop", next # "idle", next # "login", next # "stop"
  PROVE  /\ cli' \in [Terminals -> CliSteps] /\ wants' = wants
         /\ \A u \in Terminals : cli'[u] = IF u = t THEN next ELSE cli[u]
         /\ Starting' = Starting /\ met' = met
         /\ MetInv'
<1>1. cli' \in [Terminals -> CliSteps] /\ wants' = wants /\ met' = met
  BY DEF Goes, SvcTypes
<1>2. \A u \in Terminals : cli'[u] = IF u = t THEN next ELSE cli[u]
  BY DEF Goes, SvcTypes
<1>3. Starting' = Starting
  BY <1>2 DEF Starting, CliSteps
<1> QED
  BY <1>1, <1>2, <1>3 DEF MetInv, Starting

\* Killing every daemon, and on Windows every other command.
LEMMA CommandKills ==
  ASSUME SvcTypes, MetInv, NEW t \in Terminals, NEW next \in {"install", "idle"},
         cli' = AfterKillAll(t, next), met' \in {met, met \ {t}},
         next = "install" => t \in Starting /\ met' = met
  PROVE  /\ cli' \in [Terminals -> CliSteps]
         /\ \A u \in Terminals : cli'[u] \in (IF u = t THEN {next} ELSE {"idle", cli[u]})
         /\ Starting' \subseteq Starting
         /\ MetInv'
<1>1. cli' \in [Terminals -> CliSteps]
  BY DEF AfterKillAll, SvcTypes, CliSteps
<1>2. \A u \in Terminals : cli'[u] \in (IF u = t THEN {next} ELSE {"idle", cli[u]})
  BY DEF AfterKillAll
<1>3. Starting' \subseteq Starting
  BY <1>2 DEF Starting
<1> QED
  BY <1>1, <1>2, <1>3 DEF MetInv, Starting

\* A step of a command that leaves the daemons and the service.
LEMMA NothingRunsMore ==
  ASSUME SvcInv, SvcTypes', MetInv', UNCHANGED <<platform, proc, enabled, crowded>>,
         svc' \in {svc, Uncooled}, stopped' => stopped /\ Starting' \subseteq Starting,
         \A u \in Terminals : cli'[u] = "killall" => cli[u] = "killall" /\ (u \notin met' => u \notin met),
         \A u \in Terminals : cli'[u] \in {"install", "launch"} =>
           cli[u] \in {"install", "launch"} /\ (u \notin met' => u \notin met)
  PROVE  SvcInv'
<1>1. Alive' = Alive
  BY DEF Alive
<1>2. svc = "stopped" => svc' = "stopped"
  BY DEF Uncooled
<1>3. svc' = "running" <=> svc = "running"
  BY DEF Uncooled
<1>4. StopInv'
  BY <1>1, <1>2 DEF SvcInv, StopInv
<1>5. ManagedInv'
  BY <1>1, <1>3 DEF SvcInv, ManagedInv
<1>6. PlainInv'
  BY <1>1, <1>2 DEF SvcInv, PlainInv
<1> QED
  BY <1>4, <1>5, <1>6 DEF SvcInv

LEMMA UncooledType == SvcTypes => Uncooled \in {"stopped", "running", "pending", "cooling"}
BY DEF SvcTypes, Uncooled

LEMMA StartKeepsInv ==
  ASSUME SvcInv, NEW t \in Terminals, NEW mode \in Modes, StartCommand(t, mode)
  PROVE  SvcInv'
<1>1. SvcTypes /\ MetInv /\ cli[t] = "idle" /\ mode \in RunModes
  BY DEF SvcInv, StartCommand, RunModes
<1>2. UNCHANGED <<platform, proc, unit, svc, enabled, crowded>>
  BY DEF StartCommand
<1>3. CASE IsRunning(lastMode)
  <2>1. UNCHANGED <<cli, wants, met, stopped>>
    BY <1>3 DEF StartCommand, cliVars
  <2>2. SvcTypes' /\ MetInv' /\ Starting' = Starting
    BY <1>1, <1>2, <2>1 DEF SvcTypes, MetInv, Starting
  <2> QED
    BY <1>2, <2>1, <2>2, NothingRunsMore
<1>4. CASE ~IsRunning(lastMode)
  <2>1. /\ cli' = [cli EXCEPT ![t] = "login"] /\ wants' = [wants EXCEPT ![t] = mode]
        /\ met' = Busy \cup (IF Starting = {} THEN {} ELSE {t}) /\ ~stopped'
    BY <1>4 DEF StartCommand
  <2>2. SvcTypes'
    BY <1>1, <1>2, <2>1, <1>4 DEF SvcTypes, CliSteps, StartCommand
  <2>3. \A u \in Terminals : cli'[u] = IF u = t THEN "login" ELSE cli[u]
    BY <1>1, <2>1 DEF SvcTypes
  <2>4. \A u \in Terminals \ {t} : cli'[u] # "idle" => u \in met'
    BY <2>1, <2>3 DEF Busy
  <2>5. t \notin met' => Starting = {}
    BY <2>1
  <2>6. MetInv'
    BY <1>1, <2>3, <2>4, <2>5 DEF MetInv, Starting
  <2> QED
    BY <1>2, <2>1, <2>2, <2>3, <2>4, <2>6, NothingRunsMore
<1> QED
  BY <1>3, <1>4

LEMMA LoginKeepsInv ==
  ASSUME SvcInv, NEW t \in Terminals, LoginAndRegister(t)
  PROVE  SvcInv'
<1>1. SvcTypes /\ MetInv /\ cli[t] = "login" /\ t \in Starting /\ "kill" \in CliSteps
  BY DEF SvcInv, LoginAndRegister, Starting, CliSteps
<1>2. UNCHANGED <<platform, proc, unit, svc, enabled, crowded, stopped>>
  BY DEF LoginAndRegister, hostVars
<1>3. CASE Quits(t)
  BY <1>1, <1>2, <1>3, CommandEnds, NothingRunsMore DEF SvcTypes
<1>4. CASE Goes(t, "kill")
  BY <1>1, <1>2, <1>4, CommandGoes, NothingRunsMore DEF SvcTypes
<1> QED
  BY <1>3, <1>4 DEF LoginAndRegister

\* The state after every daemon was killed.
LEMMA KilledKeepsInv ==
  ASSUME SvcInv, SvcTypes', MetInv', Alive' = {}, UNCHANGED <<platform, enabled>>,
         NEW soon \in {"cooling", "pending"}, svc' = AfterExit(Alive, soon),
         Starting' \subseteq Starting,
         stopped' => stopped \/ (svc = "stopped" /\ ~enabled /\ Starting = {} /\ \A p \in Alive : ~proc[p].managed),
         \A u \in Terminals : cli'[u] = "killall" => cli[u] = "killall" /\ (u \notin met' => u \notin met)
  PROVE  SvcInv'
<1>1. (\A p \in Alive : ~proc[p].managed) => svc' = svc
  BY DEF AfterExit
<1>2. platform \in {"systemd", "windows"} => svc' # "running"
  BY DEF AfterExit, SvcInv, ManagedInv
<1>3. StopInv'
  BY <1>1 DEF SvcInv, StopInv
<1>4. ManagedInv'
  BY <1>2 DEF ManagedInv
<1>5. PlainInv'
  BY <1>1 DEF SvcInv, PlainInv
<1> QED
  BY <1>3, <1>4, <1>5 DEF SvcInv

LEMMA KillOldKeepsInv ==
  ASSUME SvcInv, NEW t \in Terminals, KillOld(t)
  PROVE  SvcInv'
<1>1. /\ SvcTypes /\ MetInv /\ cli[t] = "kill" /\ t \in Starting
      /\ cli' = AfterKillAll(t, "install") /\ met' = met
      /\ Kill(Alive) /\ svc' = AfterExit(Alive, "cooling")
      /\ crowded' = (crowded /\ t \in met)
      /\ UNCHANGED <<platform, unit, enabled, wants, stopped>>
  BY DEF SvcInv, KillOld, Starting, hostVars
<1>2. proc' \in [Pids -> Daemons \cup {NoDaemon}] /\ Alive' = {}
  BY <1>1, AfterKill
<1>3. /\ cli' \in [Terminals -> CliSteps]
      /\ \A u \in Terminals : cli'[u] \in (IF u = t THEN {"install"} ELSE {"idle", cli[u]})
      /\ Starting' \subseteq Starting /\ MetInv'
  BY <1>1, CommandKills
<1>4. svc' \in {"stopped", "running", "pending", "cooling"}
  BY <1>1 DEF AfterExit, SvcTypes
<1>5. SvcTypes'
  BY <1>1, <1>2, <1>3, <1>4 DEF SvcTypes
<1> QED
  BY <1>1, <1>2, <1>3, <1>5, KilledKeepsInv

LEMMA KillAllKeepsInv ==
  ASSUME SvcInv, NEW t \in Terminals, KillAll(t)
  PROVE  SvcInv'
<1>1. /\ SvcTypes /\ MetInv /\ cli[t] = "killall"
      /\ cli' = AfterKillAll(t, "idle") /\ met' = met \ {t}
      /\ Kill(Alive) /\ svc' = AfterExit(Alive, "pending")
      /\ crowded' = (crowded /\ t \in met) /\ stopped' = (stopped \/ t \notin met)
      /\ UNCHANGED <<platform, unit, enabled, wants>>
  BY DEF SvcInv, KillAll
<1>2. proc' \in [Pids -> Daemons \cup {NoDaemon}] /\ Alive' = {}
  BY <1>1, AfterKill
<1>3. /\ cli' \in [Terminals -> CliSteps]
      /\ \A u \in Terminals : cli'[u] \in (IF u = t THEN {"idle"} ELSE {"idle", cli[u]})
      /\ Starting' \subseteq Starting /\ MetInv'
  BY <1>1, CommandKills
<1>4. svc' \in {"stopped", "running", "pending", "cooling"}
  BY <1>1 DEF AfterExit, SvcTypes
<1>5. SvcTypes'
  BY <1>1, <1>2, <1>3, <1>4 DEF SvcTypes
<1>6. t \notin met => svc = "stopped" /\ ~enabled /\ Starting = {} /\ \A p \in Alive : ~proc[p].managed
  BY <1>1 DEF SvcInv, StopInv, MetInv
<1> QED
  BY <1>1, <1>2, <1>3, <1>5, <1>6, KilledKeepsInv

LEMMA InstallKeepsInv ==
  ASSUME SvcInv, NEW t \in Terminals, InstallUnit(t)
  PROVE  SvcInv'
<1>1. /\ SvcTypes /\ MetInv /\ cli[t] = "install" /\ t \in Starting /\ ~stopped
      /\ UNCHANGED <<platform, crowded, stopped>> /\ "launch" \in CliSteps
      /\ wants[t] \in RunModes
  BY DEF SvcInv, StopInv, InstallUnit, Starting, CliSteps, SvcTypes
<1>2. \A u \in Terminals : cli[u] \in {"stop", "killall"} => u \in met
  BY <1>1 DEF MetInv
<1>3. ASSUME Goes(t, "launch") \/ Quits(t)
      PROVE  /\ cli' \in [Terminals -> CliSteps] /\ wants' \in [Terminals -> RunModes] /\ MetInv'
             /\ Starting' \subseteq Starting
             /\ \A u \in Terminals : cli'[u] = "killall" => cli[u] = "killall" /\ u \in met'
             /\ \A u \in Terminals : cli'[u] \in {"install", "launch"} =>
                  cli[u] \in {"install", "launch"} /\ (u \notin met' => u \notin met)
  <2>1. CASE Goes(t, "launch")
    BY <1>1, <1>2, <2>1, CommandGoes DEF SvcTypes
  <2>2. CASE Quits(t)
    BY <1>1, <1>2, <2>2, CommandEnds
  <2> QED
    BY <1>3, <2>1, <2>2
<1>4. CASE InstallSystemd(t) \/ InstallWindows(t)
  <2>1. /\ Goes(t, "launch") \/ Quits(t)
        /\ platform \in {"systemd", "windows"} /\ UNCHANGED <<svc, proc>>
        /\ unit' \in {unit, wants[t]} /\ enabled' \in {enabled, TRUE}
    BY <1>4 DEF InstallSystemd, InstallWindows
  <2>2. Alive' = Alive
    BY <2>1 DEF Alive
  <2>3. SvcTypes'
    BY <1>1, <1>3, <2>1 DEF SvcTypes
  <2>4. StopInv'
    BY <1>1, <1>3, <2>1 DEF StopInv
  <2>5. ManagedInv' /\ PlainInv'
    BY <1>1, <2>1, <2>2 DEF SvcInv, ManagedInv, PlainInv
  <2> QED
    BY <1>3, <2>1, <2>3, <2>4, <2>5 DEF SvcInv
<1>5. CASE InstallLaunchd(t)
  <2>1. platform = "macos" /\ (Goes(t, "launch") \/ Quits(t)) /\ unit' \in {unit, wants[t]} /\ enabled' \in {enabled, TRUE}
    BY <1>5 DEF InstallLaunchd
  <2>2. svc' \in {Uncooled, "stopped"}
    BY <1>5 DEF InstallLaunchd
  <2>3. proc' \in [Pids -> Daemons \cup {NoDaemon}]
    BY <1>1, <1>5, AfterKill DEF InstallLaunchd, SvcTypes
  <2>4. SvcTypes'
    BY <1>1, <1>3, <2>1, <2>2, <2>3, UncooledType DEF SvcTypes
  <2>5. StopInv'
    BY <1>1, <1>3, <2>1 DEF StopInv
  <2>6. ManagedInv' /\ PlainInv'
    BY <1>1, <2>1 DEF ManagedInv, PlainInv
  <2> QED
    BY <1>3, <2>1, <2>4, <2>5, <2>6 DEF SvcInv
<1>6. CASE InstallNothing(t)
  <2>1. Goes(t, "launch") /\ UNCHANGED <<unit, enabled, svc, proc>>
    BY <1>6 DEF InstallNothing
  <2>2. SvcTypes'
    BY <1>1, <1>3, <2>1 DEF SvcTypes
  <2> QED
    BY <1>1, <1>3, <2>1, <2>2, NothingRunsMore
<1> QED
  BY <1>4, <1>5, <1>6 DEF InstallUnit

LEMMA LaunchKeepsInv ==
  ASSUME SvcInv, NEW t \in Terminals, Launch(t)
  PROVE  SvcInv'
<1>1. /\ SvcTypes /\ MetInv /\ cli[t] = "launch" /\ t \in Starting /\ ~stopped
      /\ UNCHANGED <<platform, unit, enabled, stopped>> /\ Quits(t)
      /\ wants[t] \in RunModes
  BY DEF SvcInv, StopInv, Launch, Starting, SvcTypes, hostVars
<1>2. /\ cli' \in [Terminals -> CliSteps] /\ wants' \in [Terminals -> RunModes]
      /\ \A u \in Terminals : cli'[u] = IF u = t THEN "idle" ELSE cli[u]
      /\ Starting' = Starting \ {t} /\ met' = met \ {t}
      /\ MetInv'
  BY <1>1, CommandEnds
<1>3. \A u \in Terminals : cli'[u] = "killall" => u \in met'
  BY <1>1, <1>2 DEF MetInv
<1>4. StopInv'
  BY <1>1, <1>3 DEF StopInv
\* no other start that met none
<1>5. \A u \in Terminals : cli'[u] \in {"install", "launch"} => u \in met'
  BY <1>1, <1>2 DEF MetInv, Starting
<1>6. ASSUME UNCHANGED <<proc, crowded>>, svc' \in {svc, Uncooled} PROVE SvcInv'
  <2>1. SvcTypes'
    BY <1>1, <1>2, <1>6, UncooledType DEF SvcTypes
  <2> QED
    BY <1>1, <1>2, <1>3, <1>5, <1>6, <2>1, NothingRunsMore
<1>7. CASE LaunchNothing(t)
  BY <1>6, <1>7 DEF LaunchNothing
<1>8. CASE LaunchService(t)
  <2>1. CASE svc = "running" \/ unit = NoUnit
    BY <1>6, <1>8, <2>1 DEF LaunchService
  <2>2. CASE ~(svc = "running" \/ unit = NoUnit)
    <3>1. PICK p \in Pids \ Alive : proc' = [proc EXCEPT ![p] = NewDaemon(unit, TRUE)]
      BY <1>8, <2>2 DEF LaunchService
    <3>2. svc' = "running" /\ UNCHANGED crowded /\ platform # "plain"
      BY <1>8, <2>2 DEF LaunchService, Managed
    <3>3. /\ proc' \in [Pids -> Daemons \cup {NoDaemon}]
          /\ Alive' = Alive \cup {p}
          /\ \A q \in Alive : proc'[q] = proc[q]
          /\ proc'[p].managed = TRUE
      BY <1>1, <3>1, AfterLaunch DEF SvcTypes
    <3>4. SvcTypes'
      BY <1>1, <1>2, <3>2, <3>3 DEF SvcTypes
    <3>5. ManagedInv'
      BY <1>1, <2>2, <3>2, <3>3 DEF SvcInv, ManagedInv
    <3>6. PlainInv'
      BY <1>1, <3>2 DEF PlainInv
    <3> QED
      BY <1>2, <1>4, <3>4, <3>5, <3>6 DEF SvcInv
  <2> QED
    BY <2>1, <2>2
<1>9. CASE Spawn(t)
  <2>1. PICK p \in Pids \ Alive : proc' = [proc EXCEPT ![p] = NewDaemon(wants[t], FALSE)]
    BY <1>9 DEF Spawn
  <2>2. svc' = Uncooled /\ crowded' = (crowded \/ t \in met) /\ platform \in {"plain", "macos"}
    BY <1>9 DEF Spawn, Spawned
  <2>3. /\ proc' \in [Pids -> Daemons \cup {NoDaemon}]
        /\ Alive' = Alive \cup {p}
        /\ \A q \in Alive : proc'[q] = proc[q]
        /\ proc'[p].managed = FALSE
    BY <1>1, <2>1, AfterLaunch
  <2>4. SvcTypes'
    BY <1>1, <1>2, <2>2, <2>3, UncooledType DEF SvcTypes
  <2>5. ManagedInv'
    BY <1>1, <2>2 DEF ManagedInv
  <2>6. platform = "plain" /\ t \notin met => Alive = {}
    BY <1>1 DEF SvcInv, PlainInv
  <2>7. PlainInv'
    BY <1>1, <1>5, <2>2, <2>3, <2>6 DEF SvcInv, PlainInv, Uncooled
  <2> QED
    BY <1>2, <1>4, <2>4, <2>5, <2>7 DEF SvcInv
<1> QED
  BY <1>7, <1>8, <1>9 DEF Launch

LEMMA StopsKeepInv ==
  ASSUME SvcInv, NEW t \in Terminals, StopCommand(t) \/ StopService(t) \/ CliInterrupted(t)
  PROVE  SvcInv'
<1>0. SvcTypes /\ MetInv
  BY DEF SvcInv
<1>1. CASE StopCommand(t)
  <2>1. /\ cli[t] = "idle" /\ cli' = [cli EXCEPT ![t] = "stop"]
        /\ met' = (IF Starting = {} THEN met \ {t} ELSE met \cup {t})
        /\ UNCHANGED <<platform, proc, unit, enabled, wants, svc, crowded, stopped>>
    BY <1>1 DEF StopCommand, hostVars
  <2>2. /\ cli' \in [Terminals -> CliSteps] /\ \A u \in Terminals : cli'[u] = IF u = t THEN "stop" ELSE cli[u]
    BY <1>0, <2>1 DEF SvcTypes, CliSteps
  <2>3. SvcTypes' /\ Starting' = Starting
    BY <1>0, <2>1, <2>2 DEF SvcTypes, Starting
  <2>4. MetInv'
    BY <1>0, <2>1, <2>2, <2>3 DEF MetInv, Starting
  <2> QED
    BY <2>1, <2>2, <2>3, <2>4, NothingRunsMore
<1>2. CASE StopService(t)
  <2>1. /\ cli[t] = "stop" /\ Goes(t, "killall") /\ Kill({p \in Alive : proc[p].managed})
        /\ svc' = "stopped" /\ enabled' = FALSE /\ unit' \in {unit, NoUnit}
        /\ UNCHANGED <<platform, crowded, stopped>> /\ "killall" \in CliSteps
    BY <1>2 DEF StopService, CliSteps
  <2>2. /\ proc' \in [Pids -> Daemons \cup {NoDaemon}]
        /\ Alive' = Alive \ {p \in Alive : proc[p].managed}
        /\ \A p \in Alive' : proc'[p] = proc[p]
    BY <1>0, <2>1, AfterKill
  <2>3. /\ cli' \in [Terminals -> CliSteps] /\ wants' = wants
        /\ \A u \in Terminals : cli'[u] = IF u = t THEN "killall" ELSE cli[u]
        /\ Starting' = Starting /\ met' = met /\ MetInv'
    BY <1>0, <2>1, CommandGoes
  <2>4. SvcTypes'
    BY <1>0, <2>1, <2>2, <2>3 DEF SvcTypes
  <2>5. StopInv'
    BY <2>1, <2>2, <2>3 DEF SvcInv, StopInv
  <2>6. ManagedInv' /\ PlainInv'
    BY <2>1, <2>2, <2>3 DEF SvcInv, ManagedInv, PlainInv
  <2> QED
    BY <2>3, <2>4, <2>5, <2>6 DEF SvcInv
<1>3. CASE CliInterrupted(t)
  <2>1. Quits(t) /\ svc' = Uncooled /\ UNCHANGED <<platform, unit, enabled, proc, crowded, stopped>>
    BY <1>3 DEF CliInterrupted, hostVars
  <2>2. SvcTypes'
    BY <1>0, <2>1, CommandEnds, UncooledType DEF SvcTypes
  <2> QED
    BY <1>0, <2>1, <2>2, CommandEnds, NothingRunsMore
<1> QED
  BY <1>1, <1>2, <1>3

\* The daemons, the service manager and the host.
LEMMA DaemonsKeepInv ==
  ASSUME SvcInv,
         \/ \E p \in Pids : DaemonChecks(p) \/ DaemonJoins(p) \/ DaemonFails(p)
         \/ ServiceRestarts \/ Boot \/ HelperConnects
  PROVE  SvcInv'
<1>a. SvcTypes /\ MetInv
  BY DEF SvcInv
<1>b. ASSUME UNCHANGED <<cli, met>> PROVE MetInv' /\ Starting' = Starting
  BY <1>a, <1>b DEF MetInv, Starting
<1>1. ASSUME NEW p \in Alive, Exits(p) PROVE SvcInv'
  <2>1. /\ proc' \in [Pids -> Daemons \cup {NoDaemon}]
        /\ Alive' = Alive \ {p}
        /\ \A q \in Alive' : proc'[q] = proc[q]
    BY <1>1, <1>a, AfterKill DEF Exits
  <2>2. svc' = AfterExit({p}, "pending") /\ UNCHANGED <<platform, unit, enabled, cli, wants, met, crowded, stopped>>
    BY <1>1 DEF Exits, hostVars, cliVars
  <2>3. svc' \in {"stopped", "running", "pending", "cooling"}
    BY <1>a, <2>2 DEF AfterExit, SvcTypes
  <2>4. ~proc[p].managed => svc' = svc
    BY <2>2 DEF AfterExit
  <2>5. proc[p].managed => svc' # "running"
    BY <2>2 DEF AfterExit
  <2>6. SvcTypes'
    BY <1>a, <2>1, <2>2, <2>3 DEF SvcTypes
  <2>7. StopInv'
    BY <1>1, <1>b, <2>1, <2>2, <2>4 DEF SvcInv, StopInv
  <2>8. ManagedInv' /\ PlainInv'
    BY <2>1, <2>2, <2>4, <2>5 DEF SvcInv, ManagedInv, PlainInv
  <2> QED
    BY <1>b, <2>2, <2>6, <2>7, <2>8 DEF SvcInv
<1>2. ASSUME NEW p \in Alive, NEW ph \in {"joining", "up"}, DaemonAt(p, ph) PROVE SvcInv'
  <2>1. /\ proc' = [proc EXCEPT ![p].phase = ph]
        /\ UNCHANGED <<platform, unit, enabled, cli, wants, met, svc, crowded, stopped>>
    BY <1>2 DEF DaemonAt, hostVars, cliVars
  <2>2. /\ proc' \in [Pids -> Daemons \cup {NoDaemon}]
        /\ Alive' = Alive
        /\ \A q \in Alive : proc'[q].managed = proc[q].managed
    BY <1>a, <2>1, AfterPhase
  <2>3. SvcTypes'
    BY <1>a, <2>1, <2>2 DEF SvcTypes
  <2>4. StopInv' /\ ManagedInv' /\ PlainInv'
    BY <1>b, <2>1, <2>2 DEF SvcInv, StopInv, ManagedInv, PlainInv
  <2> QED
    BY <1>b, <2>1, <2>3, <2>4 DEF SvcInv
<1>3. ASSUME NEW p \in Pids, DaemonChecks(p) \/ DaemonJoins(p) \/ DaemonFails(p) PROVE SvcInv'
  BY <1>1, <1>2, <1>3 DEF DaemonChecks, DaemonJoins, DaemonFails
<1>5. CASE ServiceRestarts
  <2>1. PICK p \in Pids \ Alive : proc' = [proc EXCEPT ![p] = NewDaemon(unit, TRUE)]
    BY <1>5 DEF ServiceRestarts
  <2>2. /\ proc' \in [Pids -> Daemons \cup {NoDaemon}]
        /\ Alive' = Alive \cup {p}
        /\ \A q \in Alive : proc'[q] = proc[q]
        /\ proc'[p].managed = TRUE
    BY <1>a, <2>1, AfterLaunch DEF SvcTypes
  <2>3. /\ svc = "pending" /\ svc' = "running"
        /\ UNCHANGED <<platform, unit, enabled, cli, wants, met, crowded, stopped>>
    BY <1>5 DEF ServiceRestarts, hostVars, cliVars
  <2>4. SvcTypes'
    BY <1>a, <2>2, <2>3 DEF SvcTypes
  <2>5. StopInv' /\ ManagedInv' /\ PlainInv'
    BY <1>b, <2>2, <2>3 DEF SvcInv, StopInv, ManagedInv, PlainInv
  <2> QED
    BY <1>b, <2>3, <2>4, <2>5 DEF SvcInv
<1>6. CASE Boot
  <2>1. proc' \in [Pids -> Daemons \cup {NoDaemon}] /\ Alive' = {}
    BY <1>6, <1>a, AfterKill DEF Boot
  <2>2. /\ cli' \in [Terminals -> CliSteps] /\ wants' \in [Terminals -> RunModes]
        /\ \A t \in Terminals : cli'[t] = "idle"
    BY <1>6 DEF Boot, CliSteps, RunModes
  <2>3. MetInv' /\ Starting' = {}
    BY <2>2 DEF MetInv, Starting
  <2>4. SvcTypes'
    BY <1>6, <1>a, <2>1, <2>2 DEF Boot, SvcTypes
  <2>5. StopInv' /\ ManagedInv' /\ PlainInv'
    BY <1>6, <2>1, <2>2, <2>3 DEF Boot, SvcInv, StopInv, ManagedInv, PlainInv
  <2> QED
    BY <2>3, <2>4, <2>5 DEF SvcInv
<1>7. CASE HelperConnects
  <2>1. UNCHANGED <<platform, unit, enabled, cli, wants, met, proc, svc, crowded, stopped>>
    BY <1>7 DEF HelperConnects, cliVars
  <2> QED
    BY <2>1 DEF SvcInv, SvcTypes, MetInv, StopInv, ManagedInv, PlainInv, Alive, Starting
<1> QED
  BY <1>3, <1>5, <1>6, <1>7

\* What the invariant says of the number of daemons.
LEMMA SvcInvSuffices == SvcInv => DaemonsObey
<1> SUFFICES ASSUME SvcInv PROVE DaemonsObey
  OBVIOUS
<1>1. StopIsFinal
  BY DEF SvcInv, StopInv, StopIsFinal
<1>2. ASSUME platform # "macos", ~crowded PROVE Cardinality(Alive) <= 1
  <2>1. \A p, q \in Alive : p = q
    BY <1>2 DEF SvcInv, SvcTypes, ManagedInv, PlainInv
  <2>2. CASE Alive = {}
    BY <2>2, FS_EmptySet
  <2>3. CASE Alive # {}
    <3>1. PICK p \in Alive : TRUE
      BY <2>3
    <3>2. Alive = {p}
      BY <2>1, <3>1
    <3>3. Cardinality({p}) = 1
      BY FS_Singleton
    <3> QED
      BY <3>2, <3>3
  <2> QED
    BY <2>2, <2>3
<1> QED
  BY <1>1, <1>2 DEF DaemonsObey, OneDaemon

\* A stop that met no start is final, and starts that do not overlap leave one
\* daemon, which a service manager ensures for those that do as well (the start
\* and stop commands, get_service_status, systemd, launchd and the Windows
\* service), for any number of terminals and processes and any modes.
THEOREM DaemonsAlwaysObey == SvcSpec => []DaemonsObey
<1>1. SvcInit => SvcInv
  <2> SUFFICES ASSUME SvcInit PROVE SvcInv
    OBVIOUS
  <2>1. Alive = {}
    BY DEF SvcInit, Alive
  <2>2. SvcTypes
    BY ServiceConstants DEF SvcInit, SvcTypes, CliSteps, RunModes
  <2> QED
    BY <2>1, <2>2 DEF SvcInit, SvcInv, MetInv, StopInv, ManagedInv, PlainInv, Starting
<1>2. SvcInv /\ [SvcNext]_svcVars => SvcInv'
  <2> SUFFICES ASSUME SvcInv, [SvcNext]_svcVars PROVE SvcInv'
    OBVIOUS
  <2>1. CASE SvcNext
    BY <2>1, StartKeepsInv, LoginKeepsInv, KillOldKeepsInv, InstallKeepsInv, LaunchKeepsInv, StopsKeepInv,
       KillAllKeepsInv, DaemonsKeepInv DEF SvcNext
  <2>2. CASE UNCHANGED svcVars
    BY <2>2 DEF svcVars, hostVars, cliVars, SvcInv, SvcTypes, MetInv, StopInv, ManagedInv, PlainInv, Alive, Starting
  <2> QED
    BY <2>1, <2>2
<1> QED
  BY <1>1, <1>2, SvcInvSuffices, PTL DEF SvcSpec

(***************************************************************************)
(* The browser login.                                                      *)
(***************************************************************************)

LogInv ==
  /\ signal \in [Waits -> {"open", "sent", "dropped"}]
  /\ wait \in [Waits -> {"idle", "entering", "connecting", "waiting", "clearing", "finishing", "done"}]
  /\ slot \in Waits \cup {NoWait}
  /\ CancelReaches

\* Telling the wait in the slot leaves no running wait with an open channel.
LEMMA SlotIsTold ==
  ASSUME LogInv, NEW how \in {"sent", "dropped"}
  PROVE  /\ Signalled(how) \in [Waits -> {"open", "sent", "dropped"}]
         /\ \A w \in Waits : Running(w) => Signalled(how)[w] # "open"
BY LoginConstants DEF LogInv, CancelReaches, Signalled

LEMMA LogNextInv == LogInv /\ [LogNext]_logVars => LogInv'
<1> SUFFICES ASSUME LogInv, [LogNext]_logVars PROVE LogInv'
  OBVIOUS
<1> USE LoginConstants DEF LogInv, CancelReaches, Running
<1>1. ASSUME NEW w \in Waits, StoreSender(w) PROVE LogInv'
  <2>1. slot' = w /\ signal' = Signalled("sent") /\ wait' = [wait EXCEPT ![w] = "connecting"]
    BY <1>1 DEF StoreSender
  <2> QED
    BY <2>1, SlotIsTold
<1>2. ASSUME NEW w \in Waits, Connected(w) \/ FinishLogin(w) \/ SessionStarts(w) PROVE LogInv'
  BY <1>2 DEF Connected, FinishLogin, SessionStarts
<1>3. ASSUME NEW w \in Waits, HandshakeFails(w) \/ TokenArrives(w) \/ WaitFails(w) \/ CancelSeen(w) PROVE LogInv'
  BY <1>3 DEF HandshakeFails, TokenArrives, WaitFails, CancelSeen, Ends
<1>4. ASSUME NEW w \in Waits, ClearSlot(w) PROVE LogInv'
  <2>1. /\ slot' = NoWait /\ signal' = Signalled("dropped")
        /\ wait' = [wait EXCEPT ![w] = IF result[w] = "token" THEN "finishing" ELSE "done"]
    BY <1>4 DEF ClearSlot
  <2> QED
    BY <2>1, SlotIsTold
<1>5. ASSUME NEW w \in Waits, NEW ok \in BOOLEAN,
             StartLogin(w) \/ SessionFails(w) \/ WindowTold(w) \/ OpenBrowser(w, ok)
      PROVE LogInv'
  BY <1>5 DEF StartLogin, SessionFails, WindowTold, OpenBrowser
<1>6. CASE CancelLogin
  <2>1. slot' = NoWait /\ signal' = Signalled("sent") /\ wait' = wait
    BY <1>6 DEF CancelLogin
  <2> QED
    BY <2>1, SlotIsTold
<1>7. CASE CancelAnswered \/ OtherLogin \/ Logout
  BY <1>7 DEF CancelAnswered, OtherLogin, Logout
<1>8. CASE UNCHANGED logVars
  BY <1>8 DEF logVars
<1> QED
  BY <1>1, <1>2, <1>3, <1>4, <1>5, <1>6, <1>7, <1>8 DEF LogNext

\* However logins overlap, cancelling reaches every one that has stored its
\* sender: the slot holds it, or it has been told (cancel_session_login,
\* wait_for_session_login), for any number of logins.
THEOREM CancelAlwaysReaches == LogSpec => []CancelReaches
<1>1. LogInit => LogInv
  BY DEF LogInit, LogInv, CancelReaches, Running
<1>2. LogInv => CancelReaches
  BY DEF LogInv
<1> QED
  BY <1>1, <1>2, LogNextInv, PTL DEF LogSpec
=============================================================================
