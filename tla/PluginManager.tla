--------------------------- MODULE PluginManager ----------------------------
(***************************************************************************)
(* PluginManager with its registry and loader, in the two processes that   *)
(* use them: the desktop application keeps one manager behind a mutex and  *)
(* runs plugins, the command line makes one for each command and runs      *)
(* none.  They share the directory of plugins and the state file.          *)
(*                                                                         *)
(* A plugin is its id and has a directory with two files: the manifest,    *)
(* with the capabilities of a version, and the code of a version.  Both    *)
(* are written in place, one after the other, while the other process may  *)
(* read them.  Signatures are not required (PluginConfig's default).  The  *)
(* configuration of a plugin is kept and lost together with its enabled    *)
(* flag and is left out.                                                   *)
(***************************************************************************)
EXTENDS Naturals, FiniteSets

CONSTANTS Ids,        \* plugin ids, each with a directory of its own
          Versions,   \* versions a plugin is installed in
          Caps(_),    \* the capabilities of a version
          NoPlugin    \* no package, no entry, no load under way, no readable file

States == {"discovered", "disabled", "loading", "loaded", "stopped", "error"}

Entry == [state : States, on : BOOLEAN, ver : Versions]   \* of a registry
Running == [hash : Versions, code : Versions]             \* of the map of running plugins

Codes == Versions \cup {"torn"}   \* a code file: whole, or still being written
Load == [id : Ids, hash : Codes]  \* the package read by load_plugin

\* An archive being extracted: the file being written and the one after it.
Extraction == [id : Ids, ver : Versions, file : {"man", "wasm", "done"}, next : {"man", "wasm", "done"}]

ASSUME PluginConstants ==
  /\ NoPlugin \notin Versions \cup Ids
  /\ NoPlugin \notin Entry /\ NoPlugin \notin Running /\ NoPlugin \notin Load
  /\ NoPlugin \notin Extraction /\ "torn" \notin Versions

VARIABLES
  manFile,    \* per id: the version of the manifest; NoPlugin if unreadable
  wasmFile,   \* per id: the version of the code, "torn", or NoPlugin
  writing,    \* per process: the archive it extracts
  stateFile,  \* per id: "on", "off" or "absent"; NoPlugin if unreadable
  reg,        \* per process: its registry
  capIndex,   \* per process: pairs <<capability, id>>
  running,    \* per id: what the desktop runs, [hash, code]
  loading,    \* the load under way: [id, hash]
  toLoad,     \* what load_all has still to load
  deskUp, cliOpen

dirVars == <<manFile, wasmFile, writing>>

plugVars == <<dirVars, stateFile, reg, capIndex, running, loading, toLoad, deskUp, cliOpen>>

Procs == {"desktop", "cli"}

NoEntries == [i \in Ids |-> NoPlugin]

Entries(P) == {i \in Ids : reg[P][i] # NoPlugin}

PlugInit ==
  /\ manFile = NoEntries /\ wasmFile = NoEntries /\ writing = [P \in Procs |-> NoPlugin]
  /\ stateFile = [i \in Ids |-> "absent"]
  /\ reg = [P \in Procs |-> NoEntries] /\ capIndex = [P \in Procs |-> {}]
  /\ running = NoEntries /\ loading = NoPlugin /\ toLoad = {}
  /\ deskUp = FALSE /\ cliOpen = "closed"

-----------------------------------------------------------------------------
(* The registry *)

FromPackage(v) == [state |-> "discovered", on |-> TRUE, ver |-> v]

\* load_state: only what is registered takes its saved flag; a file that
\* cannot be parsed changes nothing.
LoadState(r) ==
  IF stateFile = NoPlugin THEN r
  ELSE [i \in Ids |-> IF r[i] = NoPlugin \/ stateFile[i] = "absent" THEN r[i]
                      ELSE [r[i] EXCEPT !.on = (stateFile[i] = "on")]]

\* save_state writes what this process has registered, and nothing else.
Saved(r) == [i \in Ids |-> IF r[i] = NoPlugin THEN "absent" ELSE IF r[i].on THEN "on" ELSE "off"]

\* load_plugin_package reads the manifest and then the code, and takes the
\* hash of what it finds, whole or not.
Packages == [i \in Ids |-> IF wasmFile[i] = NoPlugin THEN NoPlugin ELSE manFile[i]]

\* register: the ids enter the index of their capabilities (once more, if they
\* are there; a capability the plugin no longer has keeps it).
Indexed(P, packages) ==
  capIndex[P] \cup UNION {{<<c, i>> : c \in Caps(packages[i])} : i \in {j \in Ids : packages[j] # NoPlugin}}

\* discover_plugins: every package of the directory is registered afresh, then
\* the saved flags are applied again.
Discovered(P) ==
  LoadState([i \in Ids |-> IF Packages[i] = NoPlugin THEN reg[P][i] ELSE FromPackage(Packages[i])])

Enable(P, i) ==
  [reg[P] EXCEPT ![i].on = TRUE,
                 ![i].state = IF @ = "disabled" THEN "discovered" ELSE @]

Disable(P, i) == [reg[P] EXCEPT ![i].on = FALSE, ![i].state = "disabled"]

-----------------------------------------------------------------------------
(* One operation of a manager.  In the desktop it stops what it concerns. *)

StoppedIn(P, i) == IF P = "desktop" THEN [running EXCEPT ![i] = NoPlugin] ELSE running

EnablePlugin(P, i) ==
  /\ i \in Entries(P)
  /\ reg' = [reg EXCEPT ![P] = Enable(P, i)]
  /\ stateFile' = Saved(reg'[P])
  /\ UNCHANGED <<dirVars, capIndex, running>>

DisablePluginBad(P, i) ==
  /\ i \in Entries(P)
  /\ reg' = [reg EXCEPT ![P] = Disable(P, i)]
  /\ stateFile' = Saved(reg'[P])
  /\ UNCHANGED <<dirVars, capIndex, running>>

\* unload_plugin first, whether or not it runs.
DisablePlugin(P, i) ==
  /\ i \in Entries(P)
  /\ running' = StoppedIn(P, i)
  /\ reg' = [reg EXCEPT ![P] = Disable(P, i)]
  /\ stateFile' = Saved(reg'[P])
  /\ UNCHANGED <<dirVars, capIndex>>

\* install_from_bytes extracts an archive, in the order of its files.
InstallPlugin(P, i, v) ==
  /\ \E f \in {"man", "wasm"} :
       writing' = [writing EXCEPT ![P] = [id |-> i, ver |-> v, file |-> f,
                                          next |-> IF f = "man" THEN "wasm" ELSE "man"]]
  /\ UNCHANGED <<manFile, wasmFile, reg, capIndex, stateFile, running>>

\* The next file is created, which empties it, and filled (whole).
ExtractFile(P, whole) ==
  /\ writing[P] # NoPlugin
  /\ LET w == writing[P] IN
     /\ w.file # "done"
     /\ IF w.file = "man" THEN /\ manFile' = [manFile EXCEPT ![w.id] = IF whole THEN w.ver ELSE NoPlugin]
                               /\ UNCHANGED wasmFile
        ELSE /\ wasmFile' = [wasmFile EXCEPT ![w.id] = IF whole THEN w.ver ELSE "torn"]
             /\ UNCHANGED manFile
     /\ writing' = IF whole THEN [writing EXCEPT ![P] = [w EXCEPT !.file = w.next, !.next = "done"]] ELSE writing
  /\ UNCHANGED <<stateFile, reg, capIndex, running, loading, toLoad, deskUp, cliOpen>>

\* The directory is read as a package, which is registered afresh: a plugin
\* that runs goes on running what it was loaded from.  An error on the way
\* (~ok) leaves the files as they are.
InstallEnds(P, ok) ==
  /\ writing[P] # NoPlugin /\ (ok => writing[P].file = "done")
  /\ LET i == writing[P].id
         v == Packages[i] IN
     IF ok /\ v # NoPlugin
     THEN /\ reg' = [reg EXCEPT ![P][i] = FromPackage(v)]
          /\ capIndex' = [capIndex EXCEPT ![P] = Indexed(P, [NoEntries EXCEPT ![i] = v])]
          /\ stateFile' = Saved(reg'[P])
     ELSE UNCHANGED <<reg, capIndex, stateFile>>
  /\ writing' = [writing EXCEPT ![P] = NoPlugin]
  /\ UNCHANGED <<manFile, wasmFile, running, loading, toLoad, deskUp, cliOpen>>

\* loader.uninstall looks for the directory by its manifest; without one it
\* fails, and the state is not saved.
UninstallPlugin(P, i) ==
  /\ i \in Entries(P)
  /\ running' = StoppedIn(P, i)
  /\ reg' = [reg EXCEPT ![P][i] = NoPlugin]
  /\ capIndex' = [capIndex EXCEPT ![P] = @ \ {<<c, i>> : c \in Caps(reg[P][i].ver)}]
  /\ IF manFile[i] = NoPlugin THEN UNCHANGED <<manFile, wasmFile, stateFile>>
     ELSE /\ manFile' = [manFile EXCEPT ![i] = NoPlugin]
          /\ wasmFile' = [wasmFile EXCEPT ![i] = NoPlugin]
          /\ stateFile' = Saved(reg'[P])
  /\ UNCHANGED writing

-----------------------------------------------------------------------------
(* Loading, in the desktop *)

\* No other command holds the desktop's manager.
Free == deskUp /\ loading = NoPlugin /\ toLoad = {} /\ writing["desktop"] = NoPlugin

\* A load that does not look at the enabled flag.
BeginLoadBad(i) ==
  /\ deskUp /\ loading = NoPlugin /\ writing["desktop"] = NoPlugin
  /\ IF toLoad = {} THEN UNCHANGED toLoad ELSE i \in toLoad /\ toLoad' = toLoad \ {i}
  /\ IF running[i] = NoPlugin /\ i \in Entries("desktop")
     THEN /\ reg' = [reg EXCEPT !["desktop"][i].state = "loading"]
          /\ loading' = IF Packages[i] = NoPlugin THEN NoPlugin ELSE [id |-> i, hash |-> wasmFile[i]]
     ELSE UNCHANGED <<reg, loading>>
  /\ UNCHANGED <<dirVars, stateFile, capIndex, running, deskUp, cliOpen>>

\* load_plugin up to the package: refused if it runs, is unknown or disabled;
\* a package that cannot be read leaves the state at "loading".
BeginLoad(i) ==
  /\ deskUp /\ loading = NoPlugin /\ writing["desktop"] = NoPlugin
  /\ IF toLoad = {} THEN UNCHANGED toLoad ELSE i \in toLoad /\ toLoad' = toLoad \ {i}
  /\ IF running[i] = NoPlugin /\ i \in Entries("desktop") /\ reg["desktop"][i].on
     THEN /\ reg' = [reg EXCEPT !["desktop"][i].state = "loading"]
          /\ loading' = IF Packages[i] = NoPlugin THEN NoPlugin ELSE [id |-> i, hash |-> wasmFile[i]]
     ELSE UNCHANGED <<reg, loading>>
  /\ UNCHANGED <<dirVars, stateFile, capIndex, running, deskUp, cliOpen>>

\* load_into_sandbox reads the code again and compares its hash; code that was
\* torn both times does not compile.
CodeIsPackage(c, hash) == c \in Versions /\ c = hash

\* The code compiles (ok) and enters the map of running plugins.
EndLoad(ok) ==
  /\ loading # NoPlugin
  /\ LET i == loading.id IN
     IF ok /\ CodeIsPackage(wasmFile[i], loading.hash)
     THEN /\ running' = [running EXCEPT ![i] = [hash |-> loading.hash, code |-> wasmFile[i]]]
          /\ reg' = [reg EXCEPT !["desktop"][i].state = "loaded"]
     ELSE /\ reg' = [reg EXCEPT !["desktop"][i].state = "error"] /\ UNCHANGED running
  /\ loading' = NoPlugin
  /\ UNCHANGED <<dirVars, stateFile, capIndex, toLoad, deskUp, cliOpen>>

\* reload_plugin of a plugin that runs; of another it is a load (BeginLoad).
ReloadPlugin(i) ==
  /\ Free /\ running[i] # NoPlugin
  /\ running' = [running EXCEPT ![i] = NoPlugin]
  /\ reg' = [reg EXCEPT !["desktop"][i].state = "stopped"]
  /\ toLoad' = {i}
  /\ UNCHANGED <<dirVars, stateFile, capIndex, loading, deskUp, cliOpen>>

\* update_config saves, and reloads a plugin that runs.
UpdateConfig(i) ==
  /\ Free /\ i \in Entries("desktop")
  /\ stateFile' = Saved(reg["desktop"])
  /\ IF running[i] = NoPlugin THEN UNCHANGED <<running, reg, toLoad>>
     ELSE /\ running' = [running EXCEPT ![i] = NoPlugin]
          /\ reg' = [reg EXCEPT !["desktop"][i].state = "stopped"]
          /\ toLoad' = {i}
  /\ UNCHANGED <<dirVars, capIndex, loading, deskUp, cliOpen>>

-----------------------------------------------------------------------------
(* The processes *)

\* The desktop starts: initialize fails on a file that cannot be parsed, and
\* then nothing is discovered or loaded.
DesktopStarts ==
  /\ ~deskUp /\ deskUp' = TRUE
  /\ IF stateFile = NoPlugin THEN UNCHANGED <<reg, capIndex, toLoad>>
     ELSE /\ reg' = [reg EXCEPT !["desktop"] = Discovered("desktop")]
          /\ capIndex' = [capIndex EXCEPT !["desktop"] = Indexed("desktop", Packages)]
          /\ toLoad' = {i \in Ids : reg'["desktop"][i] # NoPlugin /\ reg'["desktop"][i].on}
  /\ UNCHANGED <<dirVars, stateFile, running, loading, cliOpen>>

\* refresh_plugins and discover_plugins while plugins run.
Refresh ==
  /\ Free
  /\ reg' = [reg EXCEPT !["desktop"] = Discovered("desktop")]
  /\ capIndex' = [capIndex EXCEPT !["desktop"] = Indexed("desktop", Packages)]
  /\ UNCHANGED <<dirVars, stateFile, running, loading, toLoad, deskUp, cliOpen>>

DesktopEnds ==
  /\ deskUp /\ deskUp' = FALSE
  /\ reg' = [reg EXCEPT !["desktop"] = NoEntries] /\ capIndex' = [capIndex EXCEPT !["desktop"] = {}]
  /\ running' = NoEntries /\ loading' = NoPlugin /\ toLoad' = {}
  /\ writing' = [writing EXCEPT !["desktop"] = NoPlugin]
  /\ UNCHANGED <<manFile, wasmFile, cliOpen>>
  /\ stateFile' \in {stateFile, NoPlugin}  \* a crash in the middle of a save

DesktopCommand ==
  /\ Free
  /\ \E i \in Ids : \/ EnablePlugin("desktop", i) \/ DisablePlugin("desktop", i)
                    \/ UninstallPlugin("desktop", i)
                    \/ \E v \in Versions : InstallPlugin("desktop", i, v)
  /\ UNCHANGED <<loading, toLoad, deskUp, cliOpen>>

\* A command of the command line discovers the plugins first, unless it is
\* install (handle_plugin_command), acts, and ends.
CliOpens(install) ==
  /\ cliOpen = "closed" /\ cliOpen' = "open"
  /\ IF install THEN UNCHANGED <<reg, capIndex>>
     ELSE /\ reg' = [reg EXCEPT !["cli"] = Discovered("cli")]
          /\ capIndex' = [capIndex EXCEPT !["cli"] = Indexed("cli", Packages)]
  /\ UNCHANGED <<dirVars, stateFile, running, loading, toLoad, deskUp>>

CliCommand ==
  /\ cliOpen = "open" /\ cliOpen' = "acted"
  /\ \E i \in Ids : \/ EnablePlugin("cli", i) \/ DisablePlugin("cli", i)
                    \/ UninstallPlugin("cli", i)
                    \/ \E v \in Versions : Entries("cli") = {} /\ InstallPlugin("cli", i, v)
  /\ UNCHANGED <<loading, toLoad, deskUp>>

CliEnds ==
  /\ cliOpen # "closed" /\ cliOpen' = "closed"
  /\ reg' = [reg EXCEPT !["cli"] = NoEntries] /\ capIndex' = [capIndex EXCEPT !["cli"] = {}]
  /\ writing' = [writing EXCEPT !["cli"] = NoPlugin]
  /\ UNCHANGED <<manFile, wasmFile, stateFile, running, loading, toLoad, deskUp>>

PlugNext ==
  \/ DesktopStarts \/ Refresh \/ DesktopEnds \/ DesktopCommand \/ CliCommand \/ CliEnds
  \/ \E i \in Ids : BeginLoad(i) \/ ReloadPlugin(i) \/ UpdateConfig(i)
  \/ \E b \in BOOLEAN : EndLoad(b) \/ CliOpens(b)
  \/ \E P \in Procs, b \in BOOLEAN : ExtractFile(P, b) \/ InstallEnds(P, b)

PlugSpec == PlugInit /\ [][PlugNext]_plugVars

-----------------------------------------------------------------------------
(* Properties *)

\* get_by_capability misses no plugin: whatever is registered is in the index
\* of each of its capabilities, through discovery, new versions with other
\* capabilities and removals (register, unregister).
IndexComplete ==
  \A P \in Procs : \A i \in Entries(P) : \A c \in Caps(reg[P][i].ver) : <<c, i>> \in capIndex[P]

\* What the registry says of a load is true: a plugin shown as loaded runs, and
\* one shown as stopped, disabled, being loaded or in error does not, through
\* overlapping installs, refreshes and reloads (set_state, set_error, disable).
\* The state "discovered" is not among them: DiscoveredIsNotLoaded.
StateAgreesWithRunning ==
  \A i \in Entries("desktop") :
    /\ reg["desktop"][i].state = "loaded" => running[i] # NoPlugin
    /\ reg["desktop"][i].state \in {"stopped", "disabled", "loading", "error"} => running[i] = NoPlugin

\* The code that runs has the hash of the package, also when the command line
\* writes the files of the directory one by one between or during the two
\* reads (load_plugin_package, load_into_sandbox, install_from_bytes).  The
\* manifest is not covered by the hash and may be another version's.
RunsWhatWasChecked == \A i \in Ids : running[i] # NoPlugin => running[i].code = running[i].hash

\* The registry is right about the plugins that run: what it says of a load,
\* the index of their capabilities and the hash of their code (register,
\* enable_plugin, disable_plugin, load_into_sandbox).
RegistryAgrees == IndexComplete /\ StateAgreesWithRunning /\ RunsWhatWasChecked

\* registry.rs: Discovered is "Plugin discovered but not loaded".
\* The code does not keep it: README, "Statements the code does not keep".
DiscoveredIsNotLoaded ==
  \A i \in Entries("desktop") : reg["desktop"][i].state = "discovered" => running[i] = NoPlugin

\* The plugins of the desktop live as PluginLife says.
Life == INSTANCE PluginLife WITH
  known <- Entries("desktop"),
  on <- {i \in Entries("desktop") : reg["desktop"][i].on},
  live <- {i \in Ids : running[i] # NoPlugin}

ImplementsPluginLife == Life!LifeSpec
=============================================================================
