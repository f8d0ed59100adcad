----------------------------- MODULE CliService -----------------------------
(***************************************************************************)
(* omniedge start and stop (omni-cli main.rs, service.rs) from several     *)
(* terminals, the service manager of the platform and the background       *)
(* daemons.  A daemon runs the start command itself and therefore looks    *)
(* for running daemons too.  systemd and launchd restart what ends; their  *)
(* delay of seconds outlasts the half second between killing the old       *)
(* daemon and starting the new one.                                        *)
(***************************************************************************)
EXTENDS Naturals, FiniteSets

CONSTANTS Pids,        \* daemon processes
          Terminals,   \* where commands are given
          Modes,       \* of {"edge", "nucleus", "dual"}
          Platforms,   \* of {"systemd", "plain", "macos", "windows"}
          NoDaemon, NoUnit

ASSUME ServiceConstants ==
  /\ Platforms \subseteq {"systemd", "plain", "macos", "windows"}
  /\ NoDaemon \notin [mode : Modes \cup {"edge", NoUnit}, phase : {"new", "joining", "up"}, managed : BOOLEAN]

VARIABLES platform,
          proc,      \* the daemons: NoDaemon or [mode, phase, managed]
          unit,      \* the installed service: its mode
          svc,       \* "stopped", "running", "pending" a restart, "cooling": pending for a moment
          enabled,   \* started at boot
          lastMode,  \* last_run_mode of the configuration
          helper,    \* the desktop's helper has a TUN device
          foreign,   \* another program has the nucleus port
          cli,       \* per terminal: how far its command is
          wants,     \* per terminal: the mode its start asks for
          met,       \* the commands that were under way together with a start
          crowded,   \* starts that overlapped have spawned daemons since the last kill of all
          stopped    \* a stop completed that met no start, and no start was given since

hostVars == <<platform, unit, enabled, lastMode, helper, foreign>>
cliVars == <<cli, wants, met>>
svcVars == <<hostVars, cliVars, proc, svc, crowded, stopped>>

SvcInit ==
  /\ platform \in Platforms
  /\ proc = [p \in Pids |-> NoDaemon] /\ unit = NoUnit /\ svc = "stopped" /\ enabled = FALSE
  /\ lastMode = "edge" /\ helper = FALSE /\ foreign = FALSE
  /\ cli = [t \in Terminals |-> "idle"] /\ wants = [t \in Terminals |-> "edge"] /\ met = {}
  /\ crowded = FALSE /\ stopped = FALSE

Alive == {p \in Pids : proc[p] # NoDaemon}

Starting == {t \in Terminals : cli[t] \in {"login", "kill", "install", "launch"}}
Busy == {t \in Terminals : cli[t] # "idle"}

\* systemd runs every mode, launchd the nucleus, the Windows service every mode.
Managed(mode) == platform \in {"systemd", "windows"} \/ (platform = "macos" /\ mode = "nucleus")

\* A process of its own.  A nucleus without systemd is left to a systemctl that
\* is not there, and nothing is started.
Spawned(mode) == platform \in {"plain", "macos"} /\ mode # "nucleus"

NewDaemon(mode, m) == [mode |-> mode, phase |-> "new", managed |-> m]

\* What becomes of the service when its process ends by itself or is killed:
\* Restart=always and KeepAlive, but nothing on Windows.
AfterExit(ended, soon) ==
  IF \E p \in ended : proc[p].managed
  THEN IF platform = "windows" THEN "stopped" ELSE soon
  ELSE svc

Kill(ps) == proc' = [p \in Pids |-> IF p \in ps THEN NoDaemon ELSE proc[p]]

\* A command goes on, or ends.
Goes(t, step) == cli' = [cli EXCEPT ![t] = step] /\ UNCHANGED <<wants, met>>
Quits(t) ==
  /\ cli' = [cli EXCEPT ![t] = "idle"] /\ wants' = [wants EXCEPT ![t] = "edge"]
  /\ met' = met \ {t}

\* pkill of the daemons; on Windows every other omniedge process is stopped,
\* the commands of other terminals too.
AfterKillAll(t, step) == [u \in Terminals |-> IF u = t THEN step ELSE IF platform = "windows" THEN "idle" ELSE cli[u]]

\* A service that was killed a moment ago is restarted after all.
Uncooled == IF svc = "cooling" THEN "pending" ELSE svc

-----------------------------------------------------------------------------
(* get_service_status *)

\* get_omniedge_interface, is_port_in_use: any program has the port
TunSeen == helper \/ \E p \in Alive : proc[p].phase = "up" /\ proc[p].mode # "nucleus"
PortSeen == foreign \/ \E p \in Alive : proc[p].phase = "up" /\ proc[p].mode # "edge"

\* A daemon is seen by pgrep, the one that asks too; the port or the interface
\* decides.
IsRunning(mode) == Alive # {} /\ (IF mode = "nucleus" THEN PortSeen ELSE TunSeen)

-----------------------------------------------------------------------------
(* omniedge start *)

\* Already connected: at most the exit-node setting changes.  Otherwise the mode
\* is saved before the login.
StartCommand(t, mode) ==
  /\ cli[t] = "idle"
  /\ IF IsRunning(lastMode) THEN UNCHANGED <<lastMode, cliVars, stopped>>
     ELSE /\ lastMode' = mode /\ stopped' = FALSE
          /\ cli' = [cli EXCEPT ![t] = "login"] /\ wants' = [wants EXCEPT ![t] = mode]
          /\ met' = Busy \cup (IF Starting = {} THEN {} ELSE {t})
  /\ UNCHANGED <<platform, proc, unit, svc, enabled, helper, foreign, crowded>>

\* The login, the registration and the choice of a network take minutes, and may
\* fail; whether a daemon runs is not asked again.
LoginAndRegister(t) ==
  /\ cli[t] = "login" /\ (Quits(t) \/ Goes(t, "kill"))
  /\ UNCHANGED <<hostVars, proc, svc, crowded, stopped>>

\* Mutant: only what a service manager runs is replaced by it.
KillNone(t) ==
  /\ cli[t] = "kill" /\ Goes(t, "install")
  /\ UNCHANGED <<hostVars, proc, svc, crowded, stopped>>

\* Whatever daemon runs is killed; on Windows the service is stopped as well.
KillOld(t) ==
  /\ cli[t] = "kill" /\ cli' = AfterKillAll(t, "install")
  /\ Kill(Alive) /\ svc' = AfterExit(Alive, "cooling")
  /\ crowded' = (crowded /\ t \in met)
  /\ UNCHANGED <<hostVars, wants, met, stopped>>

\* The unit is written, reloaded and enabled; what fails there is ignored.
InstallSystemd(t) ==
  /\ platform = "systemd"
  /\ unit' = wants[t] /\ enabled' = TRUE /\ Goes(t, "launch")
  /\ UNCHANGED <<svc, proc>>

\* sc create, or sc config of the service that is there; failures end the command.
InstallWindows(t) ==
  /\ platform = "windows"
  /\ \/ unit' = wants[t] /\ enabled' = TRUE /\ Goes(t, "launch")
     \/ Quits(t) /\ UNCHANGED <<unit, enabled>>
  /\ UNCHANGED <<svc, proc>>

\* The old plist of the nucleus is unloaded before the new one is copied; each
\* may fail.  With KeepAlive it runs from boot on.
InstallLaunchd(t) ==
  /\ platform = "macos" /\ Managed(wants[t])
  /\ \/ Quits(t) /\ svc' = Uncooled /\ UNCHANGED <<unit, enabled, proc>>
     \/ /\ svc' = "stopped" /\ Kill({p \in Alive : proc[p].managed})
        /\ \/ unit' = wants[t] /\ enabled' = TRUE /\ Goes(t, "launch")
           \/ Quits(t) /\ UNCHANGED <<unit, enabled>>

InstallNothing(t) == ~Managed(wants[t]) /\ Goes(t, "launch") /\ UNCHANGED <<unit, enabled, svc, proc>>

InstallUnit(t) ==
  /\ cli[t] = "install"
  /\ InstallSystemd(t) \/ InstallWindows(t) \/ InstallLaunchd(t) \/ InstallNothing(t)
  /\ UNCHANGED <<platform, lastMode, helper, foreign, crowded, stopped>>

\* systemctl start does nothing when the service runs, and fails when another
\* terminal's stop has removed it; a process is spawned always.
LaunchService(t) ==
  /\ Managed(wants[t])
  /\ IF svc = "running" \/ unit = NoUnit THEN proc' = proc /\ svc' = Uncooled
     ELSE /\ \E p \in Pids \ Alive : proc' = [proc EXCEPT ![p] = NewDaemon(unit, TRUE)]
          /\ svc' = "running"
  /\ UNCHANGED crowded

Spawn(t) ==
  /\ Spawned(wants[t])
  /\ \E p \in Pids \ Alive : proc' = [proc EXCEPT ![p] = NewDaemon(wants[t], FALSE)]
  /\ svc' = Uncooled /\ crowded' = (crowded \/ t \in met)

LaunchNothing(t) == ~Managed(wants[t]) /\ ~Spawned(wants[t]) /\ UNCHANGED <<proc, svc, crowded>>

Launch(t) ==
  /\ cli[t] = "launch" /\ Quits(t)
  /\ LaunchService(t) \/ Spawn(t) \/ LaunchNothing(t)
  /\ UNCHANGED <<hostVars, stopped>>

-----------------------------------------------------------------------------
(* omniedge stop *)

StopCommand(t) ==
  /\ cli[t] = "idle" /\ cli' = [cli EXCEPT ![t] = "stop"]
  /\ met' = IF Starting = {} THEN met \ {t} ELSE met \cup {t}
  /\ UNCHANGED <<hostVars, wants, proc, svc, crowded, stopped>>

\* systemctl stop and disable, sc stop and delete, launchctl unload and rm.
StopService(t) ==
  /\ cli[t] = "stop" /\ Goes(t, "killall")
  /\ Kill({p \in Alive : proc[p].managed})
  /\ svc' = "stopped" /\ enabled' = FALSE
  /\ unit' = IF platform = "systemd" THEN unit ELSE NoUnit
  /\ UNCHANGED <<platform, lastMode, helper, foreign, crowded, stopped>>

\* pkill, then cleanup_adapters, which on Linux deletes the helper's device too.
KillAll(t) ==
  /\ cli[t] = "killall" /\ cli' = AfterKillAll(t, "idle") /\ met' = met \ {t}
  /\ Kill(Alive) /\ svc' = AfterExit(Alive, "pending")
  /\ helper' = (helper /\ platform \in {"macos", "windows"})
  /\ crowded' = (crowded /\ t \in met) /\ stopped' = (stopped \/ t \notin met)
  /\ UNCHANGED <<platform, unit, enabled, lastMode, foreign, wants>>

\* The user interrupts a command.
CliInterrupted(t) ==
  /\ cli[t] # "idle" /\ Quits(t) /\ svc' = Uncooled
  /\ UNCHANGED <<hostVars, proc, crowded, stopped>>

-----------------------------------------------------------------------------
(* The daemon *)

Exits(p) ==
  /\ Kill({p}) /\ svc' = AfterExit({p}, "pending")
  /\ UNCHANGED <<hostVars, cliVars, crowded, stopped>>

DaemonAt(p, phase) ==
  /\ proc' = [proc EXCEPT ![p].phase = phase]
  /\ UNCHANGED <<hostVars, cliVars, svc, crowded, stopped>>

\* The start command's own check, which the Windows service does not pass: with
\* another program on the port a nucleus finds itself and gives up.
DaemonChecks(p) ==
  /\ p \in Alive /\ proc[p].phase = "new"
  /\ IF platform # "windows" /\ IsRunning(lastMode) THEN Exits(p) ELSE DaemonAt(p, "joining")

\* run_worker joins, run_nucleus_only binds its port.
DaemonJoins(p) ==
  /\ p \in Alive /\ proc[p].phase = "joining"
  /\ proc[p].mode = "nucleus" => ~PortSeen
  /\ DaemonAt(p, "up")

\* Not authenticated, a join or a bind that fails, a crash.
DaemonFails(p) == p \in Alive /\ Exits(p)

\* RestartSec, KeepAlive
ServiceRestarts ==
  /\ svc = "pending" /\ svc' = "running"
  /\ \E p \in Pids \ Alive : proc' = [proc EXCEPT ![p] = NewDaemon(unit, TRUE)]
  /\ UNCHANGED <<hostVars, cliVars, crowded, stopped>>

Boot ==
  /\ Kill(Alive) /\ helper' = FALSE /\ crowded' = FALSE
  /\ cli' = [t \in Terminals |-> "idle"] /\ wants' = [t \in Terminals |-> "edge"] /\ met' = {}
  /\ svc' = IF enabled THEN "pending" ELSE "stopped"
  /\ UNCHANGED <<platform, unit, enabled, lastMode, foreign, stopped>>

\* The desktop's helper and other programs of the host.
HelperConnects ==
  /\ \/ helper' = ~helper /\ UNCHANGED foreign
     \/ foreign' = ~foreign /\ UNCHANGED helper
  /\ UNCHANGED <<platform, unit, enabled, lastMode, cliVars, proc, svc, crowded, stopped>>

SvcNext ==
  \/ \E t \in Terminals :
       \/ \E mode \in Modes : StartCommand(t, mode)
       \/ LoginAndRegister(t) \/ KillOld(t) \/ InstallUnit(t) \/ Launch(t)
       \/ StopCommand(t) \/ StopService(t) \/ KillAll(t) \/ CliInterrupted(t)
  \/ \E p \in Pids : DaemonChecks(p) \/ DaemonJoins(p) \/ DaemonFails(p)
  \/ ServiceRestarts \/ Boot \/ HelperConnects

SvcSpec == SvcInit /\ [][SvcNext]_svcVars

-----------------------------------------------------------------------------
(* Properties *)

\* After a stop that met no start nothing runs until the next start, whatever
\* ended, was about to be restarted or is booted and whatever other stops do
\* (stop_and_cleanup_service against Restart=always, KeepAlive and an enabled
\* unit).  A stop given while another terminal's start logs in is not final:
\* README, "Statements the code does not keep".
StopIsFinal == stopped => Alive = {}

\* Starts that follow each other, interrupted ones and restarts never leave two
\* daemons, and a service manager never runs two even when starts overlap.
\* Without one, starts that overlap each spawn a daemon (crowded) until a later
\* command kills them all; launchd's nucleus beside a spawned edge is the other
\* exception (setup_linux_service, setup_windows_service_common).
OneDaemon == platform # "macos" /\ ~crowded => Cardinality(Alive) <= 1

\* Start and stop do what they say, from several terminals: a stop is final, a
\* start leaves one daemon (the commands against the service managers).
DaemonsObey == StopIsFinal /\ OneDaemon
=============================================================================
