# Verification of the OmniEdge node

This directory holds a TLA+ development for OmniEdge, a peer-to-peer mesh VPN written in
Rust: models of the node's components translated from the source, TLC runs that check
them on small instances, and theorems that TLAPS proves for every value of the
constants. `PROJECT.json` maps every definition that models code to the lines it models
and lists the runs, mutants, findings, hazards and theorems.

## The system

OmniEdge runs on every machine of a virtual network. A privileged process holds the TUN
interface and a `ConnectionManager`; a control API tells it who the network's members
are, a *nucleus* server distributes addresses, and the nodes find direct paths to one
another with disco pings or fall back to a relay. Around it are a desktop application, a
command line, an SSH server, and a plugin system with a robotics data-collection plugin.

| Part | State it keeps | Operations | Hard behaviours |
|---|---|---|---|
| Disco dispatcher (`omni-core/src/manager.rs`, `start_loops`) | `peer_states`, `pending_pings`, `relay_sessions`, `binding_in_progress`, WireGuard endpoints | disco ping / pong, relay acks, nucleus update, STUN, peer departure, one-second tick | lost, late, duplicated answers; retries; a peer that changes key, address or NAT; the relay racing a direct answer |
| Connection life cycle (`manager.rs` connect/join/disconnect, `omni-helper`, desktop) | `ConnectionState`, TUN, proto, shutdown channel, task handles, port mapping; the UI's idea of them | `start_vpn`, `stop_vpn`, `status`, join, disconnect, background tasks, polling | overlapping requests; awaits under a mutex; a failed join; tasks that outlive the wait |
| Login (`manager.rs` logins, `omni-cli` oauth) | token, `ConnectionState` | password, session, key logins, logout | polling with timeouts |
| Routing and exit nodes (`routing.rs`, `set_exit_node`) | saved default route, installed routes | setup, restore per platform | partial failure of a sequence of commands |
| TUN (`omni-tun`) | interface, WireGuard peers | add_peer, read, write | platform I/O |
| Protocol wrapper (`omni-proto`) | UDP socket, NAT type | encode, decode, STUN | the protocol itself is an external crate |
| Control API client (`omni-api`) | token | REST calls | calls without a timeout |
| SSH server (`omni-ssh/src/server`) | active connections, failed logins, bans, permits | accept, authenticate, channel requests, sessions, shutdown | limits under concurrency, windows of time |
| SSH policy, emergency access, fleet, recording, forwarding, sftp | caches, pending requests, tokens, counters | refresh, request/approve/revoke, probes, fan-out | expiry, polling, partial failure |
| Plugin system (`omni-plugin` manager, registry, runtime, sandbox) | loaded plugins and their states, permissions | load, enable, disable, unload, call | failures between steps |
| Data collection (`omni-plugin/src/robotics/data_collection`) | ring buffers, triggers, active episode, episode index, upload queue | push, trigger, finish, package, store, evict, upload | limits, crash between file operations, one step of several failing |
| Updater, configuration (`omni-core`) | installed version, config file | check, download, replace | partial failure |
| CLI and service (`omni-cli`) | service worker | run, status, stop | signals |
| Desktop (`ui/desktop`) | UI state, helper connection | connect, disconnect, quit, poll | races with the helper |

### How the parts interact

The desktop and the command line talk to the privileged helper over a socket
(`start_vpn`, `stop_vpn`, `status`); the helper guards one `ConnectionManager` with a
mutex and runs every command as a task of its own. `connect_with_token` joins through
the control API, opens the protocol socket and the TUN and spawns the background tasks:
the dispatcher (one `select!` loop over the socket, timers and the shutdown channel), the
nucleus heartbeat and the port-mapping refresh. The dispatcher shares `peer_states`,
`pending_pings` and `relay_sessions` with the manager through `RwLock`s and configures
WireGuard through the TUN. The data-collection plugin owns its storage, packager and
upload manager and calls them in sequence from `finish_episode`; they meet the rest of
the system only through files. The SSH server runs beside the VPN and accepts addresses
of the virtual network.

### What makes each part correct

- *Dispatcher*: a peer counts as direct only after an answer under the key on record; a
  working path is never hidden by timeouts or relay answers; the relay is used only for
  peers that asked for it and only when nothing else works; every ping ends.
- *Connection life cycle*: one interface, no task that nothing will end, a reported state
  that matches what is held, a disconnect that ends.
- *Data collection*: the byte count, the limits, the marks and the saved index stay right
  through evictions, failures and crashes; the plugin state tells what the plugin does.
- *SSH server, policy, emergency access*: limits hold under concurrency; a revoked or
  expired token passes only for a bounded time; a failing refresh blocks nobody.
- *Recordings, host keys*: what was lost shows in what is left, and a server keeps the key
  it has answered with.
- *Plugin system*: the registry's state of a plugin is the runtime's, whatever step fails.
- *Ring buffers and triggers*: readers see the newest samples in order; cooldowns hold.
- *Logins, tokens*: a cancel reaches the login it was meant for; a token that passes
  the check is fresh.
- *Routing, TUN, port mapping*: the nucleus stays outside the tunnel whichever command
  fails; peers survive a reset; what is advertised is what the gateway gave.
- *Service, updater*: a stop that met no start is final, there is one daemon, and an
  executable remains whatever step an upgrade is cut short at.

## Modules

| Module | Models | Uses |
|---|---|---|
| `EndpointSet` | the endpoint table of a peer (external crate, as `manager.rs` uses it) | |
| `NatStrategy` | NAT types and `select_strategy` (external, as used) | |
| `PeerLink` | the dispatcher of `start_loops` | both above |
| `VpnHelper` | helper commands, `ConnectionManager` connect / join / disconnect, background tasks, desktop polling | |
| `EpisodeStore` | `StorageManager` and `EpisodeIndex` | |
| `UploadQueue` | `UploadManager` | |
| `EpisodePlugin` | `DataCollectionPlugin`: composes the two above | both above |
| `SshServer` | accept loop, rate limiter, policy rules, authentication, shutdown | |
| `SshSession` | the handler of one connection, its channels, command filter, PTY loop and I/O task | |
| `SshRecorder` | the recorder of a session with its integrity chain and cloud writer | |
| `SftpServer` | the SFTP requests on one directory | |
| `SshForward` | local, remote and dynamic forwards | |
| `SshClient` | connect of the client, known hosts, the standalone server's host key | |
| `SshPolicyCache` | the policy cache, its lock and its copy on disk | |
| `EmergencyAccess` | emergency requests, tokens, the validation cache, revocation | |
| `SshFleet` | one operation on many nodes | |
| `PluginLife` | abstract: what the plugin manager promises of a plugin | |
| `PluginManager` | manager, registry and loader, in the desktop and on the command line | `PluginLife` |
| `PluginRuntimes` | the maps of runtimes and their locks | |
| `PluginHost` | host calls that take a range of the plugin's memory, and the key-value store | |
| `SampleRings` | the ring buffers, step by step | |
| `EpisodePackager` | collecting and writing an episode | `SampleRings` |
| `CaptureTriggers` | the triggers and their manager | |
| `FrameEnricher` | joint states of camera frames | |
| `ExitRouting` | exit-node routes, command by command | |
| `TokenFile` | `auth.json` and the configuration, shared by three processes | |
| `BrowserLogin` | the browser login and its cancellation | |
| `CliService` | start and stop of the background service | |
| `SelfUpdate` | the upgrade of the executable | |
| `TunDevice` | the TUN device, its routes and its WireGuard peers | |
| `PortMapping` | the external port and what is advertised of it | |
| `PeerDiscovery` | nucleus, heartbeat and discovery task | |
| `MCPeerLink`, `MCVpnHelper`, `MCEpisodePlugin` | values, symmetry, history of the runs | their component |
| `MCSsh`, `MCPlugins`, `MCServices` | several components in one run | nine, six and eight components |
| `PeerLinkProofs`, `VpnHelperProofs`, `EpisodeProofs` | theorems | their component |
| `PluginProofs` | theorems | `PluginManager`, `PluginRuntimes` |
| `ServicesProofs` | theorems | `ExitRouting`, `PortMapping`, `SelfUpdate`, `TokenFile`, `TunDevice`, `CliService`, `BrowserLogin` |
| `SshProofs` | theorems | `MCSsh` |
| `CaptureProofs` | theorems | `CaptureTriggers`, `PluginHost`, `FrameEnricher`, `EpisodePackager` |

`MCSsh`, `MCPlugins` and `MCServices` are sums: their components share no variable, so
`Init` chooses one component (`part`) and a behaviour is that of this component, from any
of its initial states. Where components of the code do share state, one module holds
both: the storage and the upload queue under the plugin, the rings under the packager,
the desktop and the command line on one state file, a server's key and its clients.

### PeerLink

`peer` is `peer_states`, one record per virtual address with the state, the key, the NAT
type, the strategy, the endpoint table and `using_relay`; `pings` is `pending_pings`,
indexed by a transaction id that stands for batch and target; `sessions`, `binds` and
`wg` are `relay_sessions`, the bind requests sent and the endpoint last given to
WireGuard. One action stands for one arm of the dispatcher: `RecvPingKnown` /
`RecvPingNew` and `RecvPong` (disco), `RecvBindAck` / `RecvBindNack` (relay),
`PeerUpdate` and `RemovePeer` (nucleus), `NatDetected` (STUN, a concurrent task), and the
one-second tick, which holds its locks and goes through the expired pings one at a time
(`TickStart`, `TickRetry`, `TickTimeout`, `TickEnd`). Pongs may arrive for any ping in
flight, under any key and from any address, late, twice or never. `heard` is a history
variable: the pongs that matched a ping since the entry was created or reset.

Whether `mark_probing` demotes a working endpoint, and which of several equal endpoints
`best_addr` picks, is decided in a crate that is not part of this repository: both are
nondeterministic.

### VpnHelper

A request is an element of `Ids`; the connection it sets up carries the request's name,
so that things of different connections can be told apart. `op` and `step` are the
request that holds the mutex and the await it has reached; between two steps `status`
requests, the check at the top of `start_vpn` and the background tasks may run.
`DownStop` ... `DownRelease`, `StopAnswered` / `StartGoesOn` are `disconnect`; `UpBegin` ...
`UpConnected` and `UpFails` are `connect_with_token` and `perform_join`. A task that was
told to stop may outlive the three-second wait (`SlowTasks`) and still write the shared
tables. `MCVpnHelper` adds the history variable `overran`: some task has outlived a wait.

### EpisodeStore, UploadQueue, EpisodePlugin

Storage methods run alone but consist of file operations: removing a directory,
truncating the index file, writing it. `op`, `pc` and `expired` say which method is where;
`Crash` may happen between any two operations, and any of them may fail (`DiskErrors`,
counted by `faults`). `WriteLost` is an error that only shows when the `BufWriter` is
dropped, which the code does not look at. A torn index file is refused by
`StorageManager::new`; the program does not repair it (`DiscardIndex` is the operator).
`fin` and `stopping` are the position in `finish_episode` and `stop`. The queue is the
vector of jobs; an upload is the placeholder the code has.

### The SSH modules

- `SshServer`: a connection passes the limiter, the policy and the authentication in
  separate steps with a clock between them; `LimiterHolds` speaks of what the limiter has
  admitted and banned along the way.
- `SshSession`: the handler, the blocking PTY loop, the I/O task and the process are four
  actors joined by two bounded queues and a lock. A handler that waits for a full queue
  while it holds the lock is a state of the model. With one channel every request order
  is covered; what a channel does never touches another channel's record.
- `SshRecorder`: each writer may fail at each line, at a chunk, its flush or its sync; a line
  is its number and a hash the data it covers, so `RecordingHasNoHoles` compares what was
  recorded with what can be told from the file and from the numbers the cloud received. The
  loss of the last chunks shows in neither, and the property does not say that it does.
- `SftpServer`: a directory of names and inodes that the client renames, removes and
  truncates while handles are open. Offsets wrap like the `u64` they stand for.
- `SshForward`: a forward, its listener and the connections it accepted end in any
  order; `ForwardsAccounted` ties counter, list and ports to what is left.
- `SshClient`: the `known_hosts` file is read, checked and appended by two processes; the
  conversion of fingerprints by `load` is modelled by what it does to prefix and padding.
  The standalone server saves its key in two steps (truncate, write) either of which may
  fail or be the last; an error after the key was written leaves a good file.
- `SshPolicyCache`: the tokio lock is a queue of waiters, so that a task that holds the
  read lock and asks for the write lock blocks itself and everyone behind it.
- `EmergencyAccess`: an answer of the API is fixed at one moment and used up to `Flight`
  later, and the audit of a validated token is a call of its own with its own timeout
  before `validate_token` returns; `EmergencyEnds` bounds how long an ended token passes.
- `SshFleet`: one task per node behind a semaphore; `session.close()` may never return.

### The plugin modules

- `PluginManager`: the desktop's manager lives under a mutex, the command line makes one
  per command; both read and write `registry`'s state file and the plugins' directory. An
  install writes the files one by one (`InstallPlugin`, `ExtractFile`, `InstallEnds`) while
  the other process reads them. `PluginLife` is the abstract
  specification: known, enabled and running plugins of one process.
  `ImplementsPluginLife` is its specification under the mapping from the desktop's
  registry and running set.
- `PluginRuntimes`: each call takes its locks in the order of the code, each lock with a
  queue; `unregister` takes one while it holds another.
- `PluginHost`: pointers and lengths range over -`Half`..`Half`-1 (2^31 in the code) and wrap
  as in a release build.
- `SampleRings`, `EpisodePackager`: a push is three steps (sequence, position, slot) and
  `clear`, `evict` and the packager's collection go slot by slot in between.
- `CaptureTriggers`: threads request, cancel and switch triggers between two steps of an
  evaluation.
- `FrameEnricher`: the sorted buffer at its two limits, and which states a result used.

### The service modules

- `ExitRouting`: one action per command that setup and restore run, each of which may
  fail, and `Killed` between any two. The differences between Linux, macOS and Windows are
  guards on `os`; the map names one of the three functions for each command.
- `TokenFile`: the desktop, the command line and the service read the whole file, change
  it and write it whole; a refresh, a login and a logout may overlap. A token carries the
  lifetime that is recorded with it: the API's for the logins of the command line, a constant
  (`Assumed`, 3600 seconds) for the desktop's. `UseSavedToken` is the use without a check.
- `BrowserLogin`: one slot holds the cancel sender of the newest wait, and the end of any
  wait clears it. A dropped sender wakes its wait as a sent message does. Between the click
  that shows Cancel and the storing of the sender lies the wait for the manager's lock
  (`"entering"`).
- `CliService`: systemd, launchd, Windows and no service manager; commands from several
  terminals that overlap, a killed daemon that is restarted, a daemon that runs the start
  command itself, and other programs on the nucleus port. `met` and `crowded` are history:
  the commands that were under way together with a start, and what such starts have spawned.
- `SelfUpdate`: check, download, extraction and the renames, with a death of the process
  at each of them; versions are compared as the code compares them. The directory for
  extraction is shared by all upgrades and only emptied after one that went well: the walk
  through it may meet what an earlier one left (`dir`, `stale`).
- `TunDevice`: on Windows the device outlives the connection; the network arithmetic of
  IPv6 addresses is done on `Segments` numbers of `SegmentBits` bits.
- `PortMapping`, `PeerDiscovery`: the refresh task and the heartbeat beside the
  dispatcher, over datagrams that are lost, delayed and overtaken.

## Runs

| Run | Shows |
|---|---|
| `peer_pair` | two symmetric-NAT peers that may come back under each other's key: `TypeOK`, `DirectIsVerified`, `RelayIsLastResort`, `DirectTrafficStays` |
| `peer_live` | one peer, two endpoints, a relay that does not name keys: `StateFollowsPaths`; under fairness `PingsResolve`, `RelayIsRequested` |
| `helper` | two clients, three overlapping requests, hung tasks: `OneConnection`, `ReportedIsHeld`; `PromptLeavesNothing` while no task hangs |
| `helper_teardown` | with port mapping, hung tasks and gateway errors: `TeardownCompletes` under fairness |
| `episodes` | `WithinBudget`, `DiskFollowsIndex`, `StateAgrees` with up to two faults; `QueueInOrder` with automatic uploads next to other callers |
| `ssh` | `EmergencyEnds`, `RecordingHasNoHoles`, `LimiterHolds`, `SftpKeepsTrack`, `ForwardsAccounted`, `HostKeyStays` |
| `ssh_live` | `SessionsEnd`, `CallsReturn`, `FleetEnds` under fairness |
| `plugins` | `RegistryAgrees`, `LogsWhatWasNamed`, `EpisodeIsWindow`, `TriggersFireRight`, `FramesFromNearest`; `RuntimeCallsReturn` under fairness; the refinement `ImplementsPluginLife` |
| `services` | `NucleusOutsideTunnel`, `CheckedTokenIsFresh`, `DaemonsObey`, `UpgradeIsSafe`, `DeviceIsRight`, `AdvertisedIsShown`; `CancelWorks`, `PresentPeersLearned` under fairness |
| `helper_shown` (violation) | the UI shows a network the helper is not connected to |
| `ssh_known_host` (violation) | an unchanged host key is refused |
| `policy_disk` (violation) | a call that falls back on the policy on disk waits for a lock it holds itself |

Several of these are conjunctions of named parts, each with a comment of its own in the
module: `DaemonsObey`, for one, is `StopIsFinal` and `OneDaemon`. Every
property of a passing run has a mutant of the code's definition that TLC refutes it with.
The findings behind the violations are in `PROJECT.json`.

### Statements the code does not keep

The three violation runs show one each. Twelve more statements of the repository are
definitions that no run lists; TLC refutes each when it is put into the cfg named here.

| Definition | Statement | What the code does |
|---|---|---|
| `StrategyFollowsNats` (`PeerLinkLive.cfg`) | "Update strategy if NAT types changed" (`manager.rs:2116`) | only the peer's type is compared; ours becoming known changes nothing |
| `FailureIsReported` (`VpnHelperLive.cfg`) | "State is already updated to Failed by ConnectionManager" (`omni-helper/src/lib.rs:188`) | a failed start goes back to Disconnected, and no poller sees an error |
| `UrgentFirst` (`EpisodeFaults.cfg`) | "Priority (higher = more urgent)" (`upload.rs:624`) | the vector is sorted most urgent first and popped at its end |
| `ExecEnds` (`SshLive.cfg`) | "Create PTY session for exec (using shell -c command)" (`handler.rs:566`) | the command is typed into an interactive shell, which stays |
| `ShutdownTerminates` (`SshSafety.cfg`) | "Shutdown all active connections" (`server/mod.rs:426`) | each connection is added to a copy of the map, and `shutdown` looks at one that stays empty |
| `CancelledByUser` (`Services.cfg`) | "Login cancelled by user" (`manager.rs:3008`) | the end of an older login drops the sender of a newer one, which then ends so |
| `CancelIsHeard` (`Services.cfg`) | the "Cancel" of the banner (`App.tsx:961`) | it is shown before the login has the manager's lock and stores its sender; until then a click reaches nothing, and the login goes on behind a window that has given it up |
| `PackagingIsBusy` (`EpisodeFaults.cfg`) | "Plugin packaging an episode" (`plugin.rs:78`) | after a package or store that failed the state stays Packaging with nothing being packaged |
| `DiscoveredIsNotLoaded` (`Plugins.cfg`) | "Plugin discovered but not loaded" (`registry.rs:20`) | an install over a running plugin, and a refresh, register it afresh as discovered while it runs |
| `UpgradeInstallsRelease` (`Services.cfg`) | "This replaces the current executable with the downloaded update." (`updater.rs:423`) | a binary that an earlier upgrade left in `omniedge-extract` may be found first and installed |
| `DeviceHasVip` (`Services.cfg`) | "Reconfiguring existing TUN for new connection..." (`manager.rs:1230`) | the reused device keeps the address of the former network |
| `RestoreSparesOwnIpv6` (`Services.cfg`) | "This is safe - if there was no IPv6 exit route, this just fails silently" (`routing.rs`) | the system's own IPv6 default route is deleted |

Five more are visible in the models without a definition of their own:

- "Max connections per source IP per minute" (`rate_limit.rs:15`): the windows are fixed, so
  the minute around an edge sees up to twice the limit, and that is what `WindowHolds` says;
  a ban that `cleanup` removes keeps its failures, so that one more bans again
  (`BanIsEarned`).
- "Plugin is being loaded" (`registry.rs:22`): a package that cannot be read leaves the
  state at Loading with no load under way (`BeginLoad`).
- "Stop OmniEdge connection and background service" (`omni-cli/src/main.rs:358`): a stop
  during the minutes of another terminal's login is over when that start launches its daemon
  (`StopIsFinal` is about stops that met no start), and without a service manager two
  overlapping starts each leave a daemon (`OneDaemon`, `crowded`).
- "Nucleus signaling server is now running in the background." (`omni-cli/src/main.rs:1078`): on
  Linux without systemd nothing is started (`LaunchNothing`).
- A nucleus daemon finds any program that has its port and itself, takes that for a running
  nucleus and ends (`DaemonChecks`).

### Hazards without a property

The models contain these steps, and the code promises nothing a property could state:

- a start is answered before its task has queued for the manager lock, and a later stop
  may run first (`omni-helper/src/lib.rs:167`); the API calls under that lock have no
  timeout (`omni-api/src/client.rs:17`);
- a ping from a relayed peer moves WireGuard off the relay while `using_relay` stays
  (`manager.rs:1705`); a failed join leaves its port mapping (`manager.rs:738`);
- `cancel_all` leaves the cancel flag set for good (`upload.rs:769`);
- a silent shell keeps its PTY loop, and a dropped connection its process
  (`handler.rs:1310`); a fleet operation with `max_parallel` 0 never returns
  (`fleet/mod.rs:387`);
- two clients that rewrite `known_hosts` lose each other's lines (`client/mod.rs:903`);
- the default route is deleted before the new one is added (`routing.rs:201`), and a second
  setup after a kill overwrites the saved `resolv.conf` (`routing.rs:253`);
- three programs write `auth.json` whole and without a lock (`config.rs:683`,
  `omni-cli/src/main.rs:849`);
- a REGISTER with a changed port may be lost and is not repeated (`manager.rs:2752`).

### Bounds

- `PeerLink`: in `peer_pair` `Batches = 2` rounds of pings, one in flight and one sent by a
  later update, so that a stale answer meets a newer ping; in `peer_live` one round with
  two endpoints, so that one path fails while another works. `MaxRetries` and
  `RelayProbes` are 1 (a retry, then the timeout) and 2. Two peers and two keys show keys
  that change hands. Symmetry (keys and addresses in `PeerLink`; requests, clients and
  networks in `VpnHelper`) is used only in runs without liveness.
- `VpnHelper`: three requests are enough for a start that overtakes a stop that overtakes
  a start; a request is used once. Two networks appear where the answer depends on the
  network.
- `EpisodePlugin`: three episodes of sizes 2, 1 and 4 against three bytes and one episode:
  one fits, one needs an eviction, one can never fit. Two faults let a second fault hit the
  recovery from the first. A behaviour of the run has either queueing callers or faults
  (`queueing`): the queue is not written to disk and storage faults do not reach it.
- SSH: one channel and one address with two commands (one refused), queues of one place,
  clocks long enough for every span of the limiter, the policy and the tokens to expire
  and be followed by one more moment; four lines in chunks of two; two names and two inodes
  (one handle: the theorem has any number); two forwards on two ports with two connections;
  two clients on one file, two keys of a server, with and without a key file; three targets
  of which one has no device id, with `max_parallel` 0, 1 and 2.
- Plugins: one id in two versions with different capabilities (ids do not influence each
  other); three calls on the runtime's locks; 4-bit pointers against five bytes; rings of
  two slots with two producers and three samples, so that one is overwritten while it is
  read; triggers over one cooldown and the moment after it, with two requests, starts of
  teleoperation or resets in any mixture.
- Services (540,370 states): one exit node with and one without IPv6; tokens of three
  moments with a margin of one, so that they expire within the run; two overlapping logins;
  two terminals, two modes (edge and nucleus; dual starts as edge does and holds the port as
  nucleus does) and two processes on four platforms; four versions, a patch, a prerelease, its
  release and a major one; two networks with two peers, with and without an endpoint; two
  external ports; one device to discover and two datagrams.
- `CHECK_DEADLOCK FALSE` where the inputs run out: all requests used, all episodes
  packaged, or the clock at its end. `PeerLink` never stops and is checked for deadlock.

### Fairness

`PeerLink`: the interval keeps firing and tokio's `select!` picks fairly among ready arms,
so a tick starts again and again, and a ping that stays in flight is eventually older
than the timeout when one does (strong fairness: arms of other messages come in between).
Inside a tick the loop runs to its end (weak fairness). No message is assumed to arrive; only
that RELAY_BIND is not refused by the local socket for ever, tick after tick.

`VpnHelper`: only the steps of `disconnect` itself, which runs once it has the mutex: its
wait is bounded by a timer, and the port-mapper lock is a fair lock that a refresh holds
for one exchange that ends. Nothing is assumed of the API, the tasks or the clients, so no
liveness of a join is claimed.

`SshSession`: the handler, the PTY loop and the process are threads or tasks that go on
(weak); the I/O task's `select!` serves a source that is ready again and again (strong).
No client is assumed to read or write. `SshPolicyCache` and `SshFleet`: a task that can
take its next step does; calls of the API and the connect and the command of a node end by an
answer or a timeout. `session.close()` has none and is not assumed to return: `FleetEnds` says
that an operation ends or some node stays in it for ever.

`PluginRuntimes`: tokio's locks are fair, so the head of a queue gets the lock (weak).

`BrowserLogin`: the handshake and the wait have timeouts, a cancel that was sent is seen, and a
wait that has ended clears the slot.
That the manager's lock becomes free is not assumed. `PeerDiscovery`: the discovery task goes
on, the API follows the nucleus and `get_devices` answers, although its client has no timeout
(`omni-api/src/client.rs:17`): an assumption about the environment, without which no peer need
be learned. The network is fair-lossy: of endlessly many queries and answers some arrive
(strong).

## Proofs

The theorems hold for every value of the constants allowed by the named assumptions of
the modules (`ConstAssumption`, `HelperAssumption`, `StoreAssumption`, `RingConstants` and
so on): bounds are naturals, switches are Booleans, and the model values that stand for
"none" are not real values. A few say more, and the code justifies it: the limit on a file's
size lies below the offsets `seek` refuses (`SftpConstants`), the limiter's cleanup waits
longer than its window (`SrvConstants`), a plugin's memory is smaller than half the range
of its pointers (`HostConstants`), names of exit nodes are neither of the two words the
model uses (`ExitConstants`), each segment of an address fits its bits (`TunConstants`), peers
are numbered by naturals (`FleetConstants`). TLC evaluates all of them on the runs.

The theorems about one component are stated of the component's own specification
(`TokSpec`, `PlugSpec`, `PackSpec` and so on) or of the composed one its run checks (`Spec`,
`HelperSpec`, `SshSpec`).

- `PeerLinkProofs`: `TypeCorrect`, then `DirectVerified`, `WorkingDirect`, `RelayFlag` (the
  last two together `PathsFollowed`) from `IInv`, which says of each entry that it is a
  `GoodPeer`. None of the three is inductive alone: that a working endpoint implies `DirectOk`
  is what keeps a relay answer, which needs `RelayTry`, from touching a peer with a verified
  path, and a later timeout can only be judged with the matched pongs of the endpoints that
  remain. `DirectTrafficAlwaysStays` is an action property that holds with a relay that names
  no key (`LegacyRelay`) as well; it needs that a DirectOk peer has an address in its table
  (`PresentInv`), which is where its endpoint is set. `LastResort` is an action property: each
  handler is shown to change one entry by a step that `Falls` allows. `PingsAlwaysAge` is the
  safety under `PingsResolve`: a ping in flight can only come nearer to its end, which needs
  that no ping has an id of a batch not yet sent (`NumberedPings`).
- `VpnHelperProofs`: the conjuncts of `IInv` say who runs (`ReqInv`), that the name of a new
  connection is fresh (`FreshInv`), what is held at each step (`ConnInv`), which tasks run
  (`TaskInv`), whose addresses are held (`AddrInv`) and what the reported state implies
  (`StateInv`). `OneTun` alone is not inductive: that a join starts with no interface follows
  from the position of the request in `disconnect`. `OneConnectionAlways` and `ReportedHeld`
  combine the theorems of their parts. `PromptAlwaysLeavesNothing` follows the tables that
  `disconnect` clears one by one. `TeardownAdvances` and `TeardownNeverHeldUp` are the safety
  under `TeardownCompletes`: while Stopping, only the next step of `disconnect` moves it, and
  the tasks it waits for, or whose refresh it waits for, have been told to stop.
- `EpisodeProofs`: every step of the plugin is a step of the storage (`StorePart`), so
  `StoreInv` is carried through the storage's actions. `StaleBounded` needs the file as well
  as the index: the file may be one deletion behind while that deletion is being saved
  (`Stale`), and that one is paid for by the fault that interrupts it. `MarksKept` needs that
  an episode about to be indexed was never marked (`Marks`). `StateAgreement` needs
  where `finish_episode` is: the state is Packaging exactly while it runs or after it has failed
  (`PlugInv`). `DiskFollows` combines the first three.
  `AlwaysWithinBudget` needs that `total_size_bytes` is the sum of the indexed sizes at every
  step (`Budget`), so it rests on lemmas about sums: a sum exists, and taking one episode out
  takes its size out (`SumsExist`, `SumsSplit`). `QueueAlwaysInOrder` needs what `retain` and an
  insertion in front of lower priorities do to an ordered sequence (`RetainedInOrder`,
  `PushedInOrder`).
- `ServicesProofs`: `NucleusStaysOutside` needs that the default route is touched only once
  the host route is there, and that a tunnel is detected as the primary interface only if it
  was there before (`PinFirst`). `UpgradeStaysSafe` follows executable, backup and download
  through the stages of an upgrade (`UpgradeStage`): a binary found in the download is the
  release's unless an older one was left there (`stale`). `CheckedTokenStaysFresh` is about the
  lifetime recorded with a token, and needs that no stored timestamp is later than the arrival
  of the token next to it, in the file and in the copy of each of the three programs
  (`Stamped`). `DaemonsAlwaysObey`, for any number of terminals, has an invariant for what a
  command knows of the starts under way (`MetInv`: which starts a stop has met, and that of the
  starts that met no other there is at most one), one for the stop (`StopInv`: the order in
  which service, unit and processes go), one for platforms where every daemon is a service
  (`ManagedInv`) and one for those without (`PlainInv`). `CancelAlwaysReaches` is the safety part
  of `CancelWorks`, about the logins that have stored their sender. `DeviceAlwaysRight` joins
  `PeersAlwaysSurviveReset` with the IPv6 route: the route is the network of the device's address
  for some prefix (`Route6Inv`), and as one number the masked address is the address without
  its remainder by a power of two (`NetworkIsCleared`, by induction over the segments, from what
  `PowerOfTwo` multiplies to).
- `PluginProofs`: `RegistryStaysRight` from `PlugInv`: what runs is registered (`RunInv`), and a
  load under way is of an enabled plugin that does not run (`LoadInv`); and from `WriteInv`: the
  desktop writes no package while it loads one. The same invariant gives
  `ManagerImplementsLife`, the refinement: the end of a successful load is the abstract start,
  unloading and uninstalling the abstract stop and removal, everything else a change of the
  abstract registration or a stutter. `RuntimeLocksServe` is the safety under
  `RuntimeCallsReturn`: a call that has a lock and waits for another is an `unregister`
  (`HoldsSome`), and these wait in one order.
- `SshProofs`: `EmergencyAlwaysEnds` needs that an answer was right when its call was made
  (`AnswersInv`), so that the cache is at most one HTTP timeout behind (`CacheInv`), and that
  the audit of an accepted token adds one more (`AcceptInv`; together `EmInv`).
  `LimiterAlwaysHolds` needs `WindowInv`, which says where the connections of the last minute
  lie relative to the window that is counted and the one before, and that `cleanup` forgets a
  window only when it no longer matters. `ForwardsAlwaysAccounted` counts the connections of a
  forward at each stage of their life; `SftpAlwaysKeepsTrack` needs that a listing under way
  has lost no name that stayed; `HostKeyAlwaysStays` needs that the file holds the key once
  one was shown, and that a save is under way only before (`KeyKept`); and
  `RecordingNeverHasHoles` relates the chain of the file to the chunks written (`ChainInv`),
  the numbers received to the lines they cover (`CloudInv`) and both to the lines asked for
  (`LinesInv`). Five theorems are the safety under liveness properties. `EndedNeverFarAhead`
  (for `SessionsEnd`) balances the events against the active sessions: ended and active
  together are started and not yet reported (`EventsInv`). `PolicyLockServes` (for
  `CallsReturn`) needs that the tasks that ask for the cache's lock are those in its queue,
  each once, and the holders those past it (`PolInv`). The same invariant gives
  `DiskCopyNeverReturns`, which turns the counterexample of `policy_disk` into a fact about
  any number of tasks. `FleetAlwaysServes` and `TargetsAlwaysReported` (for `FleetEnds`) need
  that a permit is free or in the hands of a busy node (`PermitsInv`) and what each phase
  leaves to spawn and to collect (`PhaseInv`).
- `CaptureProofs`: `TriggersAlwaysFireRight` needs what an evaluation under way has read and
  not yet recorded (`FiredInv`, `AskedInv`, `TeleopInv`). `AlwaysLogsWhatWasNamed` is arithmetic
  of pointers that wrap, for any width. `FramesAlwaysFromNearest` needs that the buffer stays
  sorted through insertion, overflow and trimming (`EnrInv`). `SequencesAlwaysUnique` needs more
  than uniqueness: numbers below the next one (`NumberedInv`), and that a sample on its way is
  in no slot yet (`OnWayUnique`). With these, `EpisodeAlwaysHoldsWindow` says of each slot the
  packager has passed that what stayed in it was collected (`CollectInv`): a sample never
  moves from a slot not yet read to one already read. `EpisodeAlwaysIsWindow` adds the file:
  the chunks written, the chunk being filled and the rest of the samples are together the
  sorted samples (`FileInv`), which rests on what sorting a finite set gives (`SortedSorts`) and
  what flattening does with one more chunk (`FlattenAppend`).

What a recursive function or a fold computes is proved where a theorem needs it: a set of
naturals without a least counterexample is all of them (`EveryNatural`, from the
well-foundedness of `<`), which stands in for the library's induction theorems. For that,
`Retained`, `Trimmed` and `PowerOfTwo` are written as recursive functions, and `Sorted` as a choice
among the orderings of the samples, whose existence is proved (`SortedExists`).

Every invariant and every action property the passing runs check is stated by a theorem.
Only model-checked are the liveness properties: `PingsResolve`, `RelayIsRequested`,
`TeardownCompletes`, `ExitEndsSession` in `SessionsEnd`, `CallsReturn`, `FleetEnds`,
`RuntimeCallsReturn`, `PresentPeersLearned` and the liveness part of `CancelWorks`. Fairness is
outside the prover's reach; the theorems named above show that what these wait for is never
out of reach, and the runs that it comes.

## Not modelled

- Payloads, encodings, logging and statistics: what an SSH channel, a forward or a
  datagram carries, the SOCKS and STUN parsers, codecs and privacy transforms, manifests,
  widgets, metadata.
- The control API client: stateless REST calls. The modules that call it let every call
  fail, and where no timeout is set, never return.
- Commands that only read: status, scan, the lists of the command line and the desktop.
- The key exchange of SSH, privileges and accounts of the child process, WireGuard itself,
  L2 devices and the packet loops: libraries and I/O.
- In `VpnHelper`: Windows, where `disconnect` keeps the adapter (`TunDevice` has that part);
  `set_as_exit_node` while connected (`ExitRouting` has the routes); the retry policy of
  uploads, which nothing uses; the lock order of the other readers of the dispatcher's
  tables (`manager.rs:619`).
- Of the SSH parts: the health of a connection, `setstat`, `mkdir` and `rmdir` of SFTP, and the
  `exec` of the client. How much longer a browser token really lives than the 3600 seconds
  recorded with it (`manager.rs:2845`): no program learns it.
- The settings `maintain_index = false` of the storage and `use_chunking = false` and
  `create_message_index = false` of the packager.
- Panics: a step that panics is left out where the code does not catch it.
- Build files, scripts, OpenWrt packages and examples.

Three modelled parts have no caller outside tests: the bans of the limiter, the runtime manager
of the plugins and the frame enricher. Their properties are about the interface they offer.

`PROJECT.json` lists every component with its status.

## Plan

The modules, runs and proofs planned for the project are there. What would come next:

1. The types of `EpisodePlugin`, as one invariant beside those of its parts.
2. The safety under `RelayIsRequested`, `PresentPeersLearned` and `CancelWorks`, as for the other
   liveness properties.
3. More of the components that `PROJECT.json` lists as partly modelled, the desktop
   application first.
