---------------------------- MODULE PluginProofs ----------------------------
(***************************************************************************)
(* The plugin manager keeps its registry right and implements PluginLife,  *)
(* for any plugins, versions and capabilities; and the calls of the        *)
(* runtimes never wait for each other's locks in a circle.                 *)
(***************************************************************************)
EXTENDS PluginManager, PluginRuntimes, TLAPS

Registry == [Ids -> Entry \cup {NoPlugin}]

PlugTypes ==
  /\ manFile \in [Ids -> Versions \cup {NoPlugin}]
  /\ wasmFile \in [Ids -> Codes \cup {NoPlugin}]
  /\ writing \in [Procs -> Extraction \cup {NoPlugin}]
  /\ reg \in [Procs -> Registry]
  /\ capIndex = [P \in Procs |-> capIndex[P]]
  /\ running \in [Ids -> Running \cup {NoPlugin}]
  /\ loading \in Load \cup {NoPlugin}

\* What runs is registered; a desktop that is down has nothing.
RunInv ==
  /\ \A i \in Ids : running[i] # NoPlugin => reg["desktop"][i] # NoPlugin
  /\ ~deskUp => running = NoEntries /\ loading = NoPlugin

\* A load under way is of a registered and enabled plugin that does not run.
LoadInv ==
  loading # NoPlugin =>
    /\ running[loading.id] = NoPlugin
    /\ reg["desktop"][loading.id] # NoPlugin
    /\ reg["desktop"][loading.id].on

\* The desktop extracts an archive only while it is up and loads nothing.
WriteInv == writing["desktop"] # NoPlugin => deskUp /\ loading = NoPlugin

PlugInv == PlugTypes /\ RunInv /\ LoadInv /\ RegistryAgrees

-----------------------------------------------------------------------------
(* The operators of the registry *)

\* load_state and a new entry: what an entry is made of.
LEMMA EntryFacts ==
  /\ \A v \in Versions : /\ FromPackage(v) \in Entry
                         /\ FromPackage(v).on /\ FromPackage(v).ver = v /\ FromPackage(v).state = "discovered"
  /\ \A e \in Entry, b \in BOOLEAN : /\ [e EXCEPT !.on = b] \in Entry
                                     /\ [e EXCEPT !.on = b].ver = e.ver
                                     /\ [e EXCEPT !.on = b].state = e.state
                                     /\ [e EXCEPT !.on = b].on = b
  /\ \A e \in Entry, s \in States : /\ [e EXCEPT !.state = s] \in Entry
                                    /\ [e EXCEPT !.state = s].ver = e.ver
                                    /\ [e EXCEPT !.state = s].on = e.on
                                    /\ [e EXCEPT !.state = s].state = s
BY DEF FromPackage, Entry, States

\* What load_plugin_package finds in a directory.
LEMMA PackagesType ==
  ASSUME PlugTypes
  PROVE  /\ Packages \in [Ids -> Versions \cup {NoPlugin}]
         /\ \A i \in Ids : Packages[i] # NoPlugin => wasmFile[i] \in Codes
BY DEF PlugTypes, Packages

\* Discovery registers what the directory holds, keeps the rest, and keeps the
\* version and the state of an entry or starts them afresh.
LEMMA DiscoveredFacts ==
  ASSUME PlugTypes, NEW P \in Procs
  PROVE  /\ Discovered(P) \in Registry
         /\ \A i \in Ids :
              /\ Packages[i] = NoPlugin /\ reg[P][i] = NoPlugin => Discovered(P)[i] = NoPlugin
              /\ Packages[i] # NoPlugin => /\ Discovered(P)[i] # NoPlugin
                                          /\ Discovered(P)[i].ver = Packages[i]
                                          /\ Discovered(P)[i].state = "discovered"
              /\ Packages[i] = NoPlugin /\ reg[P][i] # NoPlugin =>
                   /\ Discovered(P)[i] # NoPlugin
                   /\ Discovered(P)[i].ver = reg[P][i].ver
                   /\ Discovered(P)[i].state = reg[P][i].state
<1> DEFINE r == [i \in Ids |-> IF Packages[i] = NoPlugin THEN reg[P][i] ELSE FromPackage(Packages[i])]
<1>1. r \in Registry
  BY EntryFacts, PackagesType DEF PlugTypes, Registry
<1>2. \A i \in Ids : r[i] = IF Packages[i] = NoPlugin THEN reg[P][i] ELSE FromPackage(Packages[i])
  OBVIOUS
<1>3. Discovered(P) = LoadState(r)
  BY DEF Discovered
<1> HIDE DEF r
<1>4. NoPlugin \notin Entry
  BY PluginConstants
<1>5. /\ LoadState(r) \in Registry
      /\ \A i \in Ids : /\ r[i] = NoPlugin => LoadState(r)[i] = NoPlugin
                        /\ r[i] # NoPlugin => /\ LoadState(r)[i] # NoPlugin
                                              /\ LoadState(r)[i].ver = r[i].ver
                                              /\ LoadState(r)[i].state = r[i].state
  <2>1. CASE stateFile = NoPlugin
    BY <1>1, <2>1 DEF LoadState
  <2>2. CASE stateFile # NoPlugin
    <3> DEFINE e(i) == [r[i] EXCEPT !.on = (stateFile[i] = "on")]
    <3>1. ASSUME NEW i \in Ids, r[i] # NoPlugin
          PROVE  e(i) \in Entry /\ e(i).ver = r[i].ver /\ e(i).state = r[i].state
      <4>1. r[i] \in Entry
        BY <1>1, <3>1 DEF Registry
      <4>2. PICK b \in BOOLEAN : b = (stateFile[i] = "on")
        OBVIOUS
      <4>3. e(i) = [r[i] EXCEPT !.on = b]
        BY <4>2
      <4> HIDE DEF e
      <4> QED
        BY <4>1, <4>3, EntryFacts
    <3>2. LoadState(r) = [i \in Ids |-> IF r[i] = NoPlugin \/ stateFile[i] = "absent" THEN r[i] ELSE e(i)]
      BY <2>2 DEF LoadState
    <3> HIDE DEF e
    <3> QED
      BY <1>1, <1>4, <3>1, <3>2 DEF Registry
  <2> QED
    BY <2>1, <2>2
<1>6. \A i \in Ids : Packages[i] # NoPlugin =>
        FromPackage(Packages[i]) \in Entry /\ FromPackage(Packages[i]).ver = Packages[i]
        /\ FromPackage(Packages[i]).state = "discovered"
  BY EntryFacts, PackagesType
<1> QED
  BY <1>2, <1>3, <1>4, <1>5, <1>6

\* What register puts in the index.
LEMMA IndexedFacts ==
  ASSUME NEW P \in Procs, NEW packages, NEW i \in Ids, packages[i] # NoPlugin, NEW c \in Caps(packages[i])
  PROVE  <<c, i>> \in Indexed(P, packages)
BY DEF Indexed

LEMMA IndexedGrows ==
  ASSUME NEW P \in Procs, NEW packages
  PROVE  capIndex[P] \subseteq Indexed(P, packages)
BY DEF Indexed

\* A step that touches one entry of one registry.
Touches(r, s, P, i) ==
  /\ s \in [Procs -> Registry]
  /\ \A Q \in Procs, j \in Ids : Q # P \/ j # i => s[Q][j] = r[Q][j]

LEMMA EnableTouches ==
  ASSUME PlugTypes, NEW P \in Procs, NEW i \in Entries(P), reg' = [reg EXCEPT ![P] = Enable(P, i)]
  PROVE  /\ Touches(reg, reg', P, i) /\ reg'[P][i] # NoPlugin
         /\ reg'[P][i].on /\ reg'[P][i].ver = reg[P][i].ver
         /\ reg'[P][i].state \in {reg[P][i].state, "discovered"}
         /\ reg'[P][i].state # "disabled"
<1>1. i \in Ids /\ reg[P] \in Registry /\ reg[P][i] \in Entry
  BY DEF PlugTypes, Entries, Registry
<1> DEFINE a == [reg[P][i] EXCEPT !.on = TRUE]
<1> DEFINE b == [a EXCEPT !.state = IF a.state = "disabled" THEN "discovered" ELSE a.state]
<1>2. a \in Entry /\ a.on /\ a.ver = reg[P][i].ver /\ a.state = reg[P][i].state
  BY <1>1, EntryFacts
<1>3. (IF a.state = "disabled" THEN "discovered" ELSE a.state) \in States
  BY <1>1, <1>2 DEF Entry, States
<1>4. Enable(P, i) = [reg[P] EXCEPT ![i] = b]
  BY <1>1 DEF Enable, Registry
<1>5. reg' = [reg EXCEPT ![P][i] = b]
  BY <1>4 DEF PlugTypes
<1>6. b \in Entry /\ b.on /\ b.ver = reg[P][i].ver /\ b.state = IF a.state = "disabled" THEN "discovered" ELSE a.state
  <2> HIDE DEF a
  <2> QED BY <1>2, <1>3, EntryFacts
<1> HIDE DEF b, a
<1>7. Touches(reg, reg', P, i) /\ reg'[P][i] = b
  BY <1>1, <1>5, <1>6 DEF PlugTypes, Registry, Touches
<1> QED
  BY <1>1, <1>2, <1>6, <1>7, PluginConstants

LEMMA DisableTouches ==
  ASSUME PlugTypes, NEW P \in Procs, NEW i \in Entries(P), reg' = [reg EXCEPT ![P] = Disable(P, i)]
  PROVE  /\ Touches(reg, reg', P, i) /\ reg'[P][i] # NoPlugin
         /\ ~reg'[P][i].on /\ reg'[P][i].ver = reg[P][i].ver /\ reg'[P][i].state = "disabled"
<1>1. i \in Ids /\ reg[P] \in Registry /\ reg[P][i] \in Entry
  BY DEF PlugTypes, Entries, Registry
<1> DEFINE a == [reg[P][i] EXCEPT !.on = FALSE]
<1> DEFINE b == [a EXCEPT !.state = "disabled"]
<1>2. a \in Entry /\ ~a.on /\ a.ver = reg[P][i].ver
  BY <1>1, EntryFacts
<1>4. Disable(P, i) = [reg[P] EXCEPT ![i] = b]
  BY <1>1 DEF Disable, Registry
<1>5. reg' = [reg EXCEPT ![P][i] = b]
  BY <1>4 DEF PlugTypes
<1>6. b \in Entry /\ ~b.on /\ b.ver = reg[P][i].ver /\ b.state = "disabled"
  <2>1. "disabled" \in States
    BY DEF States
  <2> HIDE DEF a
  <2> QED BY <1>2, <2>1, EntryFacts
<1> HIDE DEF b, a
<1>7. Touches(reg, reg', P, i) /\ reg'[P][i] = b
  BY <1>1, <1>5, <1>6 DEF PlugTypes, Registry, Touches
<1> QED
  BY <1>1, <1>6, <1>7, PluginConstants

LEMMA StateTouches ==
  ASSUME PlugTypes, NEW i \in Entries("desktop"), NEW s \in States,
         reg' = [reg EXCEPT !["desktop"][i].state = s]
  PROVE  /\ Touches(reg, reg', "desktop", i) /\ reg'["desktop"][i] # NoPlugin
         /\ reg'["desktop"][i].on = reg["desktop"][i].on
         /\ reg'["desktop"][i].ver = reg["desktop"][i].ver
         /\ reg'["desktop"][i].state = s
<1>1. "desktop" \in Procs
  BY DEF Procs
<1>2. i \in Ids /\ reg["desktop"] \in Registry /\ reg["desktop"][i] \in Entry
  BY <1>1 DEF PlugTypes, Entries, Registry
<1> DEFINE b == [reg["desktop"][i] EXCEPT !.state = s]
<1>3. reg' = [reg EXCEPT !["desktop"][i] = b]
  OBVIOUS
<1>4. /\ b \in Entry /\ b.on = reg["desktop"][i].on /\ b.ver = reg["desktop"][i].ver
      /\ b.state = s
  BY <1>2, EntryFacts
<1> HIDE DEF b
<1>5. Touches(reg, reg', "desktop", i) /\ reg'["desktop"][i] = b
  <2>1. reg' = [reg EXCEPT !["desktop"] = [reg["desktop"] EXCEPT ![i] = b]]
    BY <1>3
  <2>2. [reg["desktop"] EXCEPT ![i] = b] \in Registry
    BY <1>2, <1>4 DEF Registry
  <2> DEFINE d == [reg["desktop"] EXCEPT ![i] = b]
  <2>3. d[i] = b /\ \A j \in Ids \ {i} : d[j] = reg["desktop"][j]
    BY <1>2 DEF Registry
  <2> HIDE DEF d
  <2>4. reg' = [reg EXCEPT !["desktop"] = d] /\ d \in Registry
    BY <2>1, <2>2 DEF d
  <2>5. reg' \in [Procs -> Registry] /\ reg'["desktop"] = d /\ \A Q \in Procs \ {"desktop"} : reg'[Q] = reg[Q]
    BY <1>1, <2>4 DEF PlugTypes
  <2> QED
    BY <2>3, <2>5 DEF Touches
<1> QED
  BY <1>4, <1>5, PluginConstants

\* Discovery in one process leaves the other's registry.
LEMMA DiscoveryInOne ==
  ASSUME PlugTypes, NEW P \in Procs, reg' = [reg EXCEPT ![P] = Discovered(P)]
  PROVE  /\ reg' \in [Procs -> Registry] /\ reg'[P] = Discovered(P)
         /\ \A Q \in Procs \ {P} : reg'[Q] = reg[Q]
BY DiscoveredFacts DEF PlugTypes

-----------------------------------------------------------------------------
(* The invariant is inductive *)

\* A step that leaves the desktop's registry and what it runs keeps what the
\* invariant says of them.
LEMMA DesktopKept ==
  ASSUME PlugInv, reg'["desktop"] = reg["desktop"], UNCHANGED <<running, loading, deskUp>>
  PROVE  RunInv' /\ LoadInv' /\ StateAgreesWithRunning' /\ RunsWhatWasChecked'
BY DEF PlugInv, RunInv, LoadInv, RegistryAgrees, StateAgreesWithRunning, RunsWhatWasChecked, Entries, NoEntries

\* A step that touches one entry of the desktop, and perhaps stops that plugin.
LEMMA DesktopTouched ==
  ASSUME PlugInv, NEW i \in Ids, Touches(reg, reg', "desktop", i), UNCHANGED <<loading, deskUp>>,
         loading = NoPlugin, deskUp,
         running' \in {running, [running EXCEPT ![i] = NoPlugin]},
         reg'["desktop"][i] = NoPlugin => running'[i] = NoPlugin,
         reg'["desktop"][i] # NoPlugin =>
           /\ reg'["desktop"][i].state = "loaded" => running'[i] # NoPlugin
           /\ reg'["desktop"][i].state \in {"stopped", "disabled", "loading", "error"} => running'[i] = NoPlugin
  PROVE  /\ RunInv' /\ LoadInv' /\ StateAgreesWithRunning' /\ RunsWhatWasChecked'
         /\ running' \in [Ids -> Running \cup {NoPlugin}]
<1>1. "desktop" \in Procs
  BY DEF Procs
<1>2. running \in [Ids -> Running \cup {NoPlugin}]
  BY DEF PlugInv, PlugTypes
<1>3. /\ running' \in [Ids -> Running \cup {NoPlugin}]
      /\ \A j \in Ids \ {i} : running'[j] = running[j] /\ reg'["desktop"][j] = reg["desktop"][j]
      /\ running'[i] \in {running[i], NoPlugin}
  BY <1>1, <1>2 DEF Touches
<1>4. RunInv' /\ LoadInv'
  BY <1>3 DEF PlugInv, RunInv, LoadInv
<1>5. StateAgreesWithRunning'
  BY <1>3 DEF PlugInv, RegistryAgrees, StateAgreesWithRunning, Entries
<1>6. RunsWhatWasChecked'
  BY <1>3 DEF PlugInv, RegistryAgrees, RunsWhatWasChecked
<1> QED
  BY <1>3, <1>4, <1>5, <1>6

\* A step that touches one entry, without a new version, and keeps the index.
LEMMA IndexKept ==
  ASSUME PlugInv, NEW P \in Procs, NEW i \in Ids, Touches(reg, reg', P, i), capIndex' = capIndex,
         reg[P][i] # NoPlugin, reg'[P][i].ver = reg[P][i].ver
  PROVE  IndexComplete'
BY DEF PlugInv, RegistryAgrees, IndexComplete, Entries, Touches

LEMMA EnableKeepsInv ==
  ASSUME PlugInv, NEW P \in Procs, NEW i \in Ids, EnablePlugin(P, i), UNCHANGED <<loading, deskUp>>,
         P = "desktop" => loading = NoPlugin /\ deskUp
  PROVE  PlugInv'
<1>1. /\ i \in Entries(P) /\ reg' = [reg EXCEPT ![P] = Enable(P, i)]
      /\ UNCHANGED <<dirVars, capIndex, running>> /\ PlugTypes
  BY DEF EnablePlugin, PlugInv
<1>2. /\ Touches(reg, reg', P, i) /\ reg'[P][i] # NoPlugin
      /\ reg'[P][i].ver = reg[P][i].ver
      /\ reg'[P][i].state \in {reg[P][i].state, "discovered"}
  BY <1>1, EnableTouches
<1>3. PlugTypes' /\ IndexComplete'
  <2>1. reg[P][i] # NoPlugin
    BY <1>1 DEF Entries
  <2>2. IndexComplete'
    BY <1>1, <1>2, <2>1, IndexKept
  <2> QED
    BY <1>1, <1>2, <2>2 DEF PlugTypes, Touches, dirVars
<1>4. RunInv' /\ LoadInv' /\ StateAgreesWithRunning' /\ RunsWhatWasChecked'
  <2>1. CASE P = "desktop"
    BY <1>1, <1>2, <2>1, DesktopTouched DEF PlugInv, RegistryAgrees, StateAgreesWithRunning, Entries
  <2>2. CASE P = "cli"
    <3>1. reg'["desktop"] = reg["desktop"]
      BY <1>1, <2>2 DEF PlugTypes, Procs
    <3> QED
      BY <1>1, <3>1, DesktopKept
  <2> QED
    BY <2>1, <2>2 DEF Procs
<1> QED
  BY <1>3, <1>4 DEF PlugInv, RegistryAgrees

LEMMA DisableKeepsInv ==
  ASSUME PlugInv, NEW P \in Procs, NEW i \in Ids, DisablePlugin(P, i), UNCHANGED <<loading, deskUp>>,
         P = "desktop" => loading = NoPlugin /\ deskUp
  PROVE  PlugInv'
<1>1. /\ i \in Entries(P) /\ reg' = [reg EXCEPT ![P] = Disable(P, i)]
      /\ UNCHANGED <<dirVars, capIndex>> /\ PlugTypes
      /\ running' = StoppedIn(P, i)
  BY DEF DisablePlugin, PlugInv
<1>2. /\ Touches(reg, reg', P, i) /\ reg'[P][i] # NoPlugin
      /\ reg'[P][i].ver = reg[P][i].ver /\ reg'[P][i].state = "disabled"
  BY <1>1, DisableTouches
<1>3. IndexComplete'
  <2>1. reg[P][i] # NoPlugin
    BY <1>1 DEF Entries
  <2> QED
    BY <1>1, <1>2, <2>1, IndexKept
<1>4. /\ RunInv' /\ LoadInv' /\ StateAgreesWithRunning' /\ RunsWhatWasChecked'
      /\ running' \in [Ids -> Running \cup {NoPlugin}]
  <2>1. CASE P = "desktop"
    <3>1. running' = [running EXCEPT ![i] = NoPlugin] /\ running'[i] = NoPlugin
      BY <1>1, <2>1 DEF StoppedIn, PlugTypes
    <3> QED
      BY <1>1, <1>2, <2>1, <3>1, DesktopTouched
  <2>2. CASE P = "cli"
    <3>1. reg'["desktop"] = reg["desktop"] /\ running' = running
      BY <1>1, <2>2 DEF PlugTypes, Procs, StoppedIn
    <3> QED
      BY <1>1, <3>1, DesktopKept DEF PlugTypes
  <2> QED
    BY <2>1, <2>2 DEF Procs
<1>5. PlugTypes'
  BY <1>1, <1>2, <1>4 DEF PlugTypes, Touches, dirVars
<1> QED
  BY <1>3, <1>4, <1>5 DEF PlugInv, RegistryAgrees

\* Extracting an archive changes the directory and nothing that is registered.
LEMMA FilesKeepInv ==
  ASSUME PlugInv, UNCHANGED <<reg, capIndex, running, loading, deskUp>>,
         manFile' \in [Ids -> Versions \cup {NoPlugin}],
         wasmFile' \in [Ids -> Codes \cup {NoPlugin}],
         writing' \in [Procs -> Extraction \cup {NoPlugin}]
  PROVE  PlugInv'
BY DEF PlugInv, PlugTypes, RunInv, LoadInv, RegistryAgrees, IndexComplete,
       StateAgreesWithRunning, RunsWhatWasChecked, Entries

LEMMA InstallKeepsInv ==
  ASSUME PlugInv, NEW P \in Procs, NEW i \in Ids, NEW v \in Versions, InstallPlugin(P, i, v),
         UNCHANGED <<loading, deskUp>>
  PROVE  PlugInv'
<1>1. PICK f \in {"man", "wasm"} :
        writing' = [writing EXCEPT ![P] = [id |-> i, ver |-> v, file |-> f,
                                           next |-> IF f = "man" THEN "wasm" ELSE "man"]]
  BY DEF InstallPlugin
<1> DEFINE w == [id |-> i, ver |-> v, file |-> f, next |-> IF f = "man" THEN "wasm" ELSE "man"]
<1>2. w \in Extraction
  BY DEF Extraction
<1> HIDE DEF w
<1>3. writing' \in [Procs -> Extraction \cup {NoPlugin}]
  BY <1>1, <1>2 DEF PlugInv, PlugTypes, w
<1> QED
  BY <1>3, FilesKeepInv DEF InstallPlugin, PlugInv, PlugTypes

LEMMA ExtractKeepsInv ==
  ASSUME PlugInv, NEW P \in Procs, NEW whole \in BOOLEAN, ExtractFile(P, whole)
  PROVE  PlugInv'
<1> DEFINE w == writing[P]
<1>1. w \in Extraction /\ w.id \in Ids /\ w.ver \in Versions
  BY DEF ExtractFile, PlugInv, PlugTypes, Extraction
<1> DEFINE x == [w EXCEPT !.file = w.next, !.next = "done"]
<1>2. x \in Extraction
  BY <1>1 DEF Extraction
<1>3. writing' = IF whole THEN [writing EXCEPT ![P] = x] ELSE writing
  BY DEF ExtractFile
<1> HIDE DEF x
<1>4. writing' \in [Procs -> Extraction \cup {NoPlugin}]
  BY <1>2, <1>3 DEF PlugInv, PlugTypes
<1>5. manFile' \in [Ids -> Versions \cup {NoPlugin}] /\ wasmFile' \in [Ids -> Codes \cup {NoPlugin}]
  <2>1. CASE w.file = "man"
    <3>1. manFile' = [manFile EXCEPT ![w.id] = IF whole THEN w.ver ELSE NoPlugin] /\ UNCHANGED wasmFile
      BY <2>1 DEF ExtractFile
    <3> HIDE DEF w
    <3> QED
      BY <1>1, <3>1 DEF PlugInv, PlugTypes
  <2>2. CASE w.file # "man"
    <3>1. wasmFile' = [wasmFile EXCEPT ![w.id] = IF whole THEN w.ver ELSE "torn"] /\ UNCHANGED manFile
      BY <2>2 DEF ExtractFile
    <3> HIDE DEF w
    <3> QED
      BY <1>1, <3>1 DEF PlugInv, PlugTypes, Codes
  <2> QED
    BY <2>1, <2>2
<1> QED
  BY <1>4, <1>5, FilesKeepInv DEF ExtractFile

LEMMA InstallEndKeepsInv ==
  ASSUME PlugInv, WriteInv, NEW P \in Procs, NEW ok \in BOOLEAN, InstallEnds(P, ok)
  PROVE  PlugInv'
<1> DEFINE i == writing[P].id
<1> DEFINE v == Packages[i]
<1>0. writing[P] \in Extraction /\ i \in Ids
  BY DEF InstallEnds, PlugInv, PlugTypes, Extraction
<1>1. PlugTypes /\ writing' = [writing EXCEPT ![P] = NoPlugin]
      /\ UNCHANGED <<manFile, wasmFile, running, loading, deskUp>>
  BY DEF InstallEnds, PlugInv
<1>2. writing' \in [Procs -> Extraction \cup {NoPlugin}]
  BY <1>1 DEF PlugTypes
<1>3. CASE ~(ok /\ v # NoPlugin)
  <2>1. UNCHANGED <<reg, capIndex>>
    BY <1>3 DEF InstallEnds
  <2> QED
    BY <1>1, <1>2, <2>1, FilesKeepInv DEF PlugTypes
<1>4. CASE ok /\ v # NoPlugin
  <2>0. v \in Versions
    BY <1>0, <1>1, <1>4, PackagesType
  <2> DEFINE packages == [NoEntries EXCEPT ![i] = v]
  <2>1. /\ reg' = [reg EXCEPT ![P][i] = FromPackage(v)]
        /\ capIndex' = [capIndex EXCEPT ![P] = Indexed(P, packages)]
    BY <1>4 DEF InstallEnds
  <2>2. /\ FromPackage(v) \in Entry /\ FromPackage(v).ver = v /\ FromPackage(v).state = "discovered"
    BY <2>0, EntryFacts
  <2>3. Touches(reg, reg', P, i) /\ reg'[P][i] = FromPackage(v) /\ FromPackage(v) # NoPlugin
    BY <1>0, <1>1, <2>1, <2>2, PluginConstants DEF PlugTypes, Registry, Touches
  <2>4. /\ packages[i] = v /\ v # NoPlugin
    BY <1>0, <1>4 DEF NoEntries
  <2> HIDE DEF packages, v, i
  <2>5. /\ capIndex' = [Q \in Procs |-> capIndex'[Q]]
        /\ capIndex'[P] = Indexed(P, packages)
        /\ \A Q \in Procs \ {P} : capIndex'[Q] = capIndex[Q]
    <3> DEFINE x == Indexed(P, packages)
    <3> HIDE DEF x
    <3>1. capIndex' = [capIndex EXCEPT ![P] = x] /\ capIndex = [Q \in Procs |-> capIndex[Q]]
      BY <1>1, <2>1 DEF PlugTypes, x
    <3> QED
      BY <3>1 DEF x
  <2>6. \A c \in Caps(v) : <<c, i>> \in capIndex'[P]
    BY <1>0, <2>4, <2>5, IndexedFacts
  <2>7. capIndex[P] \subseteq capIndex'[P]
    BY <2>5, IndexedGrows
  <2>8. IndexComplete'
    BY <2>2, <2>3, <2>5, <2>6, <2>7 DEF PlugInv, RegistryAgrees, IndexComplete, Entries, Touches
  <2>9. RunInv' /\ LoadInv' /\ StateAgreesWithRunning' /\ RunsWhatWasChecked'
    <3>1. CASE P = "desktop"
      <4>1. loading = NoPlugin /\ deskUp
        BY <3>1 DEF WriteInv, InstallEnds
      <4> QED
        BY <1>0, <1>1, <2>2, <2>3, <3>1, <4>1, DesktopTouched
    <3>2. CASE P = "cli"
      <4>1. reg'["desktop"] = reg["desktop"]
        BY <1>1, <2>1, <3>2 DEF PlugTypes, Procs
      <4> QED
        BY <1>1, <4>1, DesktopKept
    <3> QED
      BY <3>1, <3>2 DEF Procs
  <2>10. PlugTypes'
    BY <1>0, <1>1, <1>2, <2>3, <2>5 DEF PlugTypes, Touches, dirVars
  <2> QED
    BY <2>8, <2>9, <2>10 DEF PlugInv, RegistryAgrees
<1> QED
  BY <1>3, <1>4

LEMMA UninstallKeepsInv ==
  ASSUME PlugInv, NEW P \in Procs, NEW i \in Ids, UninstallPlugin(P, i), UNCHANGED <<loading, deskUp>>,
         P = "desktop" => loading = NoPlugin /\ deskUp
  PROVE  PlugInv'
<1>1. /\ PlugTypes /\ i \in Entries(P)
      /\ reg' = [reg EXCEPT ![P][i] = NoPlugin]
      /\ UNCHANGED writing
      /\ manFile' \in {manFile, [manFile EXCEPT ![i] = NoPlugin]}
      /\ wasmFile' \in {wasmFile, [wasmFile EXCEPT ![i] = NoPlugin]}
      /\ running' = StoppedIn(P, i)
  BY DEF UninstallPlugin, PlugInv
<1>2. Touches(reg, reg', P, i) /\ reg'[P][i] = NoPlugin
  BY <1>1 DEF PlugTypes, Registry, Touches
<1>3. IndexComplete' /\ capIndex' = [Q \in Procs |-> capIndex'[Q]]
  <2> DEFINE x == capIndex[P] \ {<<c, i>> : c \in Caps(reg[P][i].ver)}
  <2>1. capIndex' = [capIndex EXCEPT ![P] = x]
    BY DEF UninstallPlugin
  <2>2. ASSUME NEW j \in Ids \ {i}, NEW c, <<c, j>> \in capIndex[P] PROVE <<c, j>> \in x
    BY <2>2
  <2> HIDE DEF x
  <2>3. /\ capIndex' = [Q \in Procs |-> capIndex'[Q]] /\ capIndex'[P] = x
        /\ \A Q \in Procs \ {P} : capIndex'[Q] = capIndex[Q]
    BY <1>1, <2>1 DEF PlugTypes
  <2>4. IndexComplete'
    BY <1>2, <2>2, <2>3 DEF PlugInv, RegistryAgrees, IndexComplete, Entries, Touches
  <2> QED
    BY <2>3, <2>4
<1>4. /\ RunInv' /\ LoadInv' /\ StateAgreesWithRunning' /\ RunsWhatWasChecked'
      /\ running' \in [Ids -> Running \cup {NoPlugin}]
  <2>1. CASE P = "desktop"
    <3>1. running' = [running EXCEPT ![i] = NoPlugin] /\ running'[i] = NoPlugin
      BY <1>1, <2>1 DEF StoppedIn, PlugTypes
    <3> QED
      BY <1>1, <1>2, <2>1, <3>1, DesktopTouched
  <2>2. CASE P = "cli"
    <3>1. reg'["desktop"] = reg["desktop"] /\ running' = running
      BY <1>1, <2>2 DEF PlugTypes, Procs, StoppedIn
    <3> QED
      BY <1>1, <3>1, DesktopKept DEF PlugTypes
  <2> QED
    BY <2>1, <2>2 DEF Procs
<1>5. PlugTypes'
  <2>1. manFile' \in [Ids -> Versions \cup {NoPlugin}] /\ wasmFile' \in [Ids -> Codes \cup {NoPlugin}]
    BY <1>1 DEF PlugTypes
  <2> QED
    BY <1>1, <1>2, <1>3, <1>4, <2>1 DEF PlugTypes, Touches, dirVars
<1> QED
  BY <1>3, <1>4, <1>5 DEF PlugInv, RegistryAgrees

LEMMA DiscoveryIndexes ==
  ASSUME PlugInv, NEW P \in Procs, reg' = [reg EXCEPT ![P] = Discovered(P)],
         capIndex' = [capIndex EXCEPT ![P] = Indexed(P, Packages)]
  PROVE  IndexComplete' /\ capIndex' = [Q \in Procs |-> capIndex'[Q]]
<1>1. PlugTypes
  BY DEF PlugInv
<1>2. /\ reg' \in [Procs -> Registry] /\ reg'[P] = Discovered(P)
      /\ \A Q \in Procs \ {P} : reg'[Q] = reg[Q]
  BY <1>1, DiscoveryInOne
<1> DEFINE x == Indexed(P, Packages)
<1>3. capIndex[P] \subseteq x
  BY IndexedGrows
<1>4. \A i \in Ids : Packages[i] # NoPlugin => \A c \in Caps(Packages[i]) : <<c, i>> \in x
  BY IndexedFacts
<1> HIDE DEF x
<1>5. /\ capIndex' = [Q \in Procs |-> capIndex'[Q]] /\ capIndex'[P] = x
      /\ \A Q \in Procs \ {P} : capIndex'[Q] = capIndex[Q]
  BY <1>1 DEF PlugTypes, x
<1>6. ASSUME NEW i \in Ids, reg'[P][i] # NoPlugin, NEW c \in Caps(reg'[P][i].ver) PROVE <<c, i>> \in x
  <2>1. CASE Packages[i] # NoPlugin
    <3>1. reg'[P][i].ver = Packages[i]
      BY <1>1, <1>2, <2>1, DiscoveredFacts
    <3> QED
      BY <1>4, <1>6, <2>1, <3>1
  <2>2. CASE Packages[i] = NoPlugin
    <3>1. reg[P][i] # NoPlugin /\ reg'[P][i].ver = reg[P][i].ver
      BY <1>1, <1>2, <1>6, <2>2, DiscoveredFacts
    <3>2. <<c, i>> \in capIndex[P]
      BY <1>6, <3>1 DEF PlugInv, RegistryAgrees, IndexComplete, Entries
    <3> QED
      BY <1>3, <3>2
  <2> QED
    BY <2>1, <2>2
<1>7. IndexComplete'
  BY <1>2, <1>5, <1>6 DEF PlugInv, RegistryAgrees, IndexComplete, Entries
<1> QED
  BY <1>5, <1>7

\* Discovery in the desktop, before or while plugins run.
LEMMA DesktopDiscovers ==
  ASSUME PlugInv, reg' = [reg EXCEPT !["desktop"] = Discovered("desktop")],
         capIndex' = [capIndex EXCEPT !["desktop"] = Indexed("desktop", Packages)],
         UNCHANGED <<dirVars, running, loading>>, loading = NoPlugin, deskUp'
  PROVE  PlugInv'
<1>1. "desktop" \in Procs /\ PlugTypes
  BY DEF Procs, PlugInv
<1>2. IndexComplete' /\ capIndex' = [Q \in Procs |-> capIndex'[Q]]
  BY <1>1, DiscoveryIndexes
<1>3. reg' \in [Procs -> Registry] /\ reg'["desktop"] = Discovered("desktop")
  BY <1>1, DiscoveryInOne
<1>4. PlugTypes'
  BY <1>1, <1>2, <1>3 DEF PlugTypes, dirVars
<1>5. RunInv' /\ LoadInv'
  BY <1>1, <1>3, DiscoveredFacts DEF PlugInv, RunInv, LoadInv
<1>6. StateAgreesWithRunning'
  <2> SUFFICES ASSUME NEW i \in Ids, reg'["desktop"][i] # NoPlugin
               PROVE  /\ reg'["desktop"][i].state = "loaded" => running[i] # NoPlugin
                      /\ reg'["desktop"][i].state \in {"stopped", "disabled", "loading", "error"} => running[i] = NoPlugin
    BY DEF StateAgreesWithRunning, Entries
  <2>1. CASE Packages[i] # NoPlugin
    BY <1>1, <1>3, <2>1, DiscoveredFacts
  <2>2. CASE Packages[i] = NoPlugin
    <3>1. reg["desktop"][i] # NoPlugin /\ reg'["desktop"][i].state = reg["desktop"][i].state
      BY <1>1, <1>3, <2>2, DiscoveredFacts
    <3> QED
      BY <3>1 DEF PlugInv, RegistryAgrees, StateAgreesWithRunning, Entries
  <2> QED
    BY <2>1, <2>2
<1>7. RunsWhatWasChecked'
  BY DEF PlugInv, RegistryAgrees, RunsWhatWasChecked
<1> QED
  BY <1>2, <1>4, <1>5, <1>6, <1>7 DEF PlugInv, RegistryAgrees

LEMMA StopKeepsInv ==
  ASSUME PlugInv, Free, NEW i \in Ids, running[i] # NoPlugin,
         running' = [running EXCEPT ![i] = NoPlugin],
         reg' = [reg EXCEPT !["desktop"][i].state = "stopped"],
         UNCHANGED <<dirVars, capIndex, loading, deskUp>>
  PROVE  PlugInv'
<1>1. PlugTypes /\ loading = NoPlugin /\ deskUp /\ "desktop" \in Procs
  BY DEF PlugInv, Free, Procs
<1>2. i \in Entries("desktop") /\ reg["desktop"][i] # NoPlugin /\ "stopped" \in States
  BY DEF PlugInv, RunInv, Entries, States
<1>3. /\ Touches(reg, reg', "desktop", i) /\ reg'["desktop"][i] # NoPlugin
      /\ reg'["desktop"][i].ver = reg["desktop"][i].ver
      /\ reg'["desktop"][i].state = "stopped"
  BY <1>1, <1>2, StateTouches
<1>4. running'[i] = NoPlugin
  BY <1>1 DEF PlugTypes
<1>5. /\ RunInv' /\ LoadInv' /\ StateAgreesWithRunning' /\ RunsWhatWasChecked'
      /\ running' \in [Ids -> Running \cup {NoPlugin}]
  BY <1>1, <1>3, <1>4, DesktopTouched
<1>6. IndexComplete'
  BY <1>1, <1>2, <1>3, IndexKept
<1>7. PlugTypes'
  BY <1>1, <1>3, <1>5 DEF PlugTypes, Touches, dirVars
<1> QED
  BY <1>5, <1>6, <1>7 DEF PlugInv, RegistryAgrees

LEMMA BeginLoadKeepsInv ==
  ASSUME PlugInv, NEW i \in Ids, BeginLoad(i)
  PROVE  PlugInv'
<1>1. /\ PlugTypes /\ loading = NoPlugin /\ deskUp /\ "desktop" \in Procs
      /\ UNCHANGED <<dirVars, capIndex, running, deskUp>>
  BY DEF PlugInv, BeginLoad, Procs
<1>2. CASE running[i] = NoPlugin /\ i \in Entries("desktop") /\ reg["desktop"][i].on
  <2>1. /\ reg' = [reg EXCEPT !["desktop"][i].state = "loading"]
        /\ loading' = IF Packages[i] = NoPlugin THEN NoPlugin ELSE [id |-> i, hash |-> wasmFile[i]]
    BY <1>2 DEF BeginLoad
  <2>2. "loading" \in States /\ reg["desktop"][i] # NoPlugin
    BY <1>2 DEF States, Entries
  <2>3. /\ Touches(reg, reg', "desktop", i) /\ reg'["desktop"][i] # NoPlugin
        /\ reg'["desktop"][i].on = reg["desktop"][i].on
        /\ reg'["desktop"][i].ver = reg["desktop"][i].ver
        /\ reg'["desktop"][i].state = "loading"
    BY <1>1, <1>2, <2>1, <2>2, StateTouches
  <2>4. \A j \in Ids \ {i} : reg'["desktop"][j] = reg["desktop"][j]
    BY <1>1, <2>3 DEF Touches
  <2>5. IndexComplete'
    BY <1>1, <2>2, <2>3, IndexKept
  <2>6. loading' \in Load \cup {NoPlugin} /\ (loading' # NoPlugin => loading'.id = i)
    BY <1>1, <2>1, PackagesType DEF Load
  <2>7. PlugTypes'
    BY <1>1, <2>3, <2>6 DEF PlugTypes, Touches, dirVars
  <2>8. RunInv' /\ LoadInv'
    BY <1>1, <1>2, <2>3, <2>4, <2>6 DEF PlugInv, RunInv, LoadInv
  <2>9. StateAgreesWithRunning' /\ RunsWhatWasChecked'
    BY <1>1, <1>2, <2>3, <2>4
       DEF PlugInv, RegistryAgrees, StateAgreesWithRunning, RunsWhatWasChecked, Entries
  <2> QED
    BY <2>5, <2>7, <2>8, <2>9 DEF PlugInv, RegistryAgrees
<1>3. CASE ~(running[i] = NoPlugin /\ i \in Entries("desktop") /\ reg["desktop"][i].on)
  <2>1. UNCHANGED <<reg, loading>>
    BY <1>3 DEF BeginLoad
  <2> QED
    BY <1>1, <2>1 DEF dirVars, PlugInv, PlugTypes, RunInv, LoadInv, RegistryAgrees, IndexComplete,
                       StateAgreesWithRunning, RunsWhatWasChecked, Entries
<1> QED
  BY <1>2, <1>3

LEMMA EndLoadKeepsInv ==
  ASSUME PlugInv, NEW ok \in BOOLEAN, EndLoad(ok)
  PROVE  PlugInv'
<1> DEFINE i == loading.id
<1>1. /\ PlugTypes /\ loading # NoPlugin /\ loading' = NoPlugin /\ "desktop" \in Procs
      /\ UNCHANGED <<dirVars, capIndex, deskUp>>
  BY DEF PlugInv, EndLoad, Procs
<1>2. loading \in Load /\ i \in Ids /\ deskUp
  BY <1>1 DEF PlugTypes, PlugInv, RunInv, Load
<1>3. i \in Entries("desktop") /\ running[i] = NoPlugin /\ reg["desktop"][i] # NoPlugin
  BY <1>1, <1>2 DEF PlugInv, LoadInv, Entries
<1>4. "loaded" \in States /\ "error" \in States
  BY DEF States
<1>5. CASE ok /\ CodeIsPackage(wasmFile[i], loading.hash)
  <2> DEFINE run == [hash |-> loading.hash, code |-> wasmFile[i]]
  <2>1. running' = [running EXCEPT ![i] = run] /\ reg' = [reg EXCEPT !["desktop"][i].state = "loaded"]
    BY <1>5 DEF EndLoad
  <2>2. run \in Running /\ run.code = run.hash /\ run # NoPlugin
    BY <1>2, <1>5, PluginConstants DEF Running, CodeIsPackage, Load
  <2> HIDE DEF run
  <2>3. /\ Touches(reg, reg', "desktop", i) /\ reg'["desktop"][i] # NoPlugin
        /\ reg'["desktop"][i].ver = reg["desktop"][i].ver
        /\ reg'["desktop"][i].state = "loaded"
    BY <1>1, <1>3, <1>4, <2>1, StateTouches
  <2>4. /\ \A j \in Ids \ {i} : reg'["desktop"][j] = reg["desktop"][j] /\ running'[j] = running[j]
        /\ running'[i] = run /\ running' \in [Ids -> Running \cup {NoPlugin}]
    BY <1>1, <1>2, <2>1, <2>2, <2>3 DEF Touches, PlugTypes
  <2>5. IndexComplete'
    BY <1>1, <1>2, <1>3, <2>3, IndexKept
  <2>6. PlugTypes'
    BY <1>1, <2>3, <2>4 DEF PlugTypes, Touches, dirVars
  <2>7. RunInv' /\ LoadInv'
    BY <1>1, <1>2, <2>3, <2>4 DEF PlugInv, RunInv, LoadInv
  <2>8. StateAgreesWithRunning' /\ RunsWhatWasChecked'
    BY <1>2, <2>2, <2>3, <2>4
       DEF PlugInv, RegistryAgrees, StateAgreesWithRunning, RunsWhatWasChecked, Entries
  <2> QED
    BY <2>5, <2>6, <2>7, <2>8 DEF PlugInv, RegistryAgrees
<1>6. CASE ~(ok /\ CodeIsPackage(wasmFile[i], loading.hash))
  <2>1. UNCHANGED running /\ reg' = [reg EXCEPT !["desktop"][i].state = "error"]
    BY <1>6 DEF EndLoad
  <2>3. /\ Touches(reg, reg', "desktop", i) /\ reg'["desktop"][i] # NoPlugin
        /\ reg'["desktop"][i].ver = reg["desktop"][i].ver
        /\ reg'["desktop"][i].state = "error"
    BY <1>1, <1>3, <1>4, <2>1, StateTouches
  <2>4. \A j \in Ids \ {i} : reg'["desktop"][j] = reg["desktop"][j]
    BY <1>1, <2>3 DEF Touches
  <2>5. IndexComplete'
    BY <1>1, <1>2, <1>3, <2>3, IndexKept
  <2>6. PlugTypes'
    BY <1>1, <2>1, <2>3 DEF PlugTypes, Touches, dirVars
  <2>7. RunInv' /\ LoadInv'
    BY <1>1, <1>2, <2>1, <2>3, <2>4 DEF PlugInv, RunInv, LoadInv
  <2>8. StateAgreesWithRunning' /\ RunsWhatWasChecked'
    BY <1>3, <2>1, <2>3, <2>4
       DEF PlugInv, RegistryAgrees, StateAgreesWithRunning, RunsWhatWasChecked, Entries
  <2> QED
    BY <2>5, <2>6, <2>7, <2>8 DEF PlugInv, RegistryAgrees
<1> QED
  BY <1>5, <1>6

\* A process that ends takes its registry and its index with it.
LEMMA EndKeepsInv ==
  ASSUME PlugInv, NEW P \in Procs, reg' = [reg EXCEPT ![P] = NoEntries],
         capIndex' = [capIndex EXCEPT ![P] = {}], manFile' = manFile, wasmFile' = wasmFile,
         writing' = [writing EXCEPT ![P] = NoPlugin],
         \/ P = "cli" /\ UNCHANGED <<running, loading, deskUp>>
         \/ P = "desktop" /\ running' = NoEntries /\ loading' = NoPlugin
  PROVE  PlugInv'
<1>1. PlugTypes /\ "desktop" \in Procs
  BY DEF PlugInv, Procs
<1>2. NoEntries \in Registry /\ NoEntries \in [Ids -> Running \cup {NoPlugin}] /\ \A i \in Ids : NoEntries[i] = NoPlugin
  BY DEF NoEntries, Registry
<1>3. reg' \in [Procs -> Registry] /\ reg'[P] = NoEntries /\ \A Q \in Procs \ {P} : reg'[Q] = reg[Q]
  BY <1>1, <1>2 DEF PlugTypes
<1>4. capIndex' = [Q \in Procs |-> capIndex'[Q]] /\ \A Q \in Procs \ {P} : capIndex'[Q] = capIndex[Q]
  BY <1>1 DEF PlugTypes
<1>5. IndexComplete'
  BY <1>2, <1>3, <1>4 DEF PlugInv, RegistryAgrees, IndexComplete, Entries
<1>6. PlugTypes'
  BY <1>1, <1>2, <1>3, <1>4 DEF PlugTypes
<1>7. RunInv' /\ LoadInv' /\ StateAgreesWithRunning' /\ RunsWhatWasChecked'
  <2>1. CASE P = "cli"
    <3>1. UNCHANGED <<running, loading, deskUp>> /\ reg'["desktop"] = reg["desktop"]
      BY <1>1, <1>3, <2>1
    <3> QED
      BY <3>1, DesktopKept
  <2>2. CASE P = "desktop"
    BY <1>2, <1>3, <2>2 DEF RunInv, LoadInv, StateAgreesWithRunning, RunsWhatWasChecked, Entries
  <2> QED
    BY <2>1, <2>2 DEF Procs
<1> QED
  BY <1>5, <1>6, <1>7 DEF PlugInv, RegistryAgrees

LEMMA PlugInitInv == PlugInit => PlugInv
<1> SUFFICES ASSUME PlugInit PROVE PlugInv
  OBVIOUS
<1>1. \A P \in Procs, i \in Ids : reg[P][i] = NoPlugin /\ running[i] = NoPlugin
  BY DEF PlugInit, NoEntries
<1>2. PlugTypes
  BY DEF PlugInit, PlugTypes, NoEntries, Registry
<1>3. RunInv /\ LoadInv
  BY <1>1 DEF PlugInit, RunInv, LoadInv, Procs
<1>4. RegistryAgrees
  BY <1>1 DEF RegistryAgrees, IndexComplete, StateAgreesWithRunning, RunsWhatWasChecked, Entries, Procs
<1> QED
  BY <1>2, <1>3, <1>4 DEF PlugInv

LEMMA PlugNextInv == PlugInv /\ WriteInv /\ [PlugNext]_plugVars => PlugInv'
<1> SUFFICES ASSUME PlugInv, WriteInv, [PlugNext]_plugVars PROVE PlugInv'
  OBVIOUS
<1>0. "desktop" \in Procs /\ "cli" \in Procs
  BY DEF Procs
<1>a. ASSUME UNCHANGED <<dirVars, reg, capIndex, running, loading>>, deskUp' \/ deskUp' = deskUp PROVE PlugInv'
  BY <1>a DEF PlugInv, PlugTypes, RunInv, LoadInv, RegistryAgrees, IndexComplete,
              StateAgreesWithRunning, RunsWhatWasChecked, Entries, dirVars
<1>1. CASE DesktopStarts
  <2>1. loading = NoPlugin
    BY <1>1 DEF DesktopStarts, PlugInv, RunInv
  <2>2. CASE stateFile = NoPlugin
    BY <1>1, <1>a, <2>2 DEF DesktopStarts
  <2>3. CASE stateFile # NoPlugin
    BY <1>1, <2>1, <2>3, DesktopDiscovers DEF DesktopStarts
  <2> QED
    BY <2>2, <2>3
<1>2. CASE Refresh
  BY <1>2, DesktopDiscovers DEF Refresh, Free
<1>3. CASE DesktopEnds
  BY <1>0, <1>3, EndKeepsInv DEF DesktopEnds
<1>4. CASE DesktopCommand
  <2>1. UNCHANGED <<loading, deskUp>> /\ loading = NoPlugin /\ deskUp
    BY <1>4 DEF DesktopCommand, Free
  <2>2. PICK i \in Ids : \/ EnablePlugin("desktop", i) \/ DisablePlugin("desktop", i)
                         \/ UninstallPlugin("desktop", i)
                         \/ \E v \in Versions : InstallPlugin("desktop", i, v)
    BY <1>4 DEF DesktopCommand
  <2> QED
    BY <1>0, <2>1, <2>2, EnableKeepsInv, DisableKeepsInv, UninstallKeepsInv, InstallKeepsInv
<1>5. CASE CliCommand
  <2>1. UNCHANGED <<loading, deskUp>>
    BY <1>5 DEF CliCommand
  <2>2. PICK i \in Ids : \/ EnablePlugin("cli", i) \/ DisablePlugin("cli", i)
                         \/ UninstallPlugin("cli", i)
                         \/ \E v \in Versions : InstallPlugin("cli", i, v)
    BY <1>5 DEF CliCommand
  <2> QED
    BY <1>0, <2>1, <2>2, EnableKeepsInv, DisableKeepsInv, UninstallKeepsInv, InstallKeepsInv
<1>6. CASE CliEnds
  BY <1>0, <1>6, EndKeepsInv DEF CliEnds
<1>7. ASSUME NEW i \in Ids, BeginLoad(i) PROVE PlugInv'
  BY <1>7, BeginLoadKeepsInv
<1>8. ASSUME NEW i \in Ids, ReloadPlugin(i) PROVE PlugInv'
  BY <1>8, StopKeepsInv DEF ReloadPlugin
<1>9. ASSUME NEW i \in Ids, UpdateConfig(i) PROVE PlugInv'
  BY <1>9, <1>a, StopKeepsInv DEF UpdateConfig
<1>10. ASSUME NEW b \in BOOLEAN, EndLoad(b) PROVE PlugInv'
  BY <1>10, EndLoadKeepsInv
<1>11. ASSUME NEW b \in BOOLEAN, CliOpens(b) PROVE PlugInv'
  <2>1. UNCHANGED <<dirVars, running, loading, deskUp>>
    BY <1>11 DEF CliOpens
  <2>2. CASE b
    BY <1>11, <1>a, <2>1, <2>2 DEF CliOpens
  <2>3. CASE ~b
    <3>1. /\ reg' = [reg EXCEPT !["cli"] = Discovered("cli")]
          /\ capIndex' = [capIndex EXCEPT !["cli"] = Indexed("cli", Packages)]
      BY <1>11, <2>3 DEF CliOpens
    <3>2. PlugTypes
      BY DEF PlugInv
    <3>3. reg' \in [Procs -> Registry] /\ reg'["desktop"] = reg["desktop"]
      BY <1>0, <3>1, <3>2, DiscoveryInOne
    <3>4. IndexComplete' /\ capIndex' = [Q \in Procs |-> capIndex'[Q]]
      BY <1>0, <3>1, DiscoveryIndexes
    <3>5. RunInv' /\ LoadInv' /\ StateAgreesWithRunning' /\ RunsWhatWasChecked'
      BY <2>1, <3>3, DesktopKept
    <3>6. PlugTypes'
      BY <2>1, <3>2, <3>3, <3>4 DEF PlugTypes, dirVars
    <3> QED
      BY <3>4, <3>5, <3>6 DEF PlugInv, RegistryAgrees
  <2> QED
    BY <2>2, <2>3
<1>12. CASE UNCHANGED plugVars
  BY <1>12, <1>a DEF plugVars
<1>13. ASSUME NEW P \in Procs, NEW b \in BOOLEAN, ExtractFile(P, b) \/ InstallEnds(P, b) PROVE PlugInv'
  BY <1>13, ExtractKeepsInv, InstallEndKeepsInv
<1> QED
  BY <1>1, <1>2, <1>3, <1>4, <1>5, <1>6, <1>7, <1>8, <1>9, <1>10, <1>11, <1>12, <1>13 DEF PlugNext

LEMMA WriteInit == PlugInit => WriteInv
BY DEF PlugInit, WriteInv, Procs

LEMMA WriteNextInv == PlugInv /\ WriteInv /\ [PlugNext]_plugVars => WriteInv'
<1> SUFFICES ASSUME PlugInv, WriteInv, [PlugNext]_plugVars PROVE WriteInv'
  OBVIOUS
<1>1. "desktop" \in Procs /\ writing \in [Procs -> Extraction \cup {NoPlugin}]
  BY DEF PlugInv, PlugTypes, Procs
<1>2. CASE DesktopStarts \/ Refresh \/ UNCHANGED plugVars
  BY <1>2 DEF DesktopStarts, Refresh, WriteInv, plugVars, dirVars
<1>3. CASE DesktopEnds
  BY <1>1, <1>3 DEF DesktopEnds, WriteInv
<1>4. CASE DesktopCommand
  BY <1>4 DEF DesktopCommand, Free, WriteInv
<1>5. CASE CliCommand
  <2>1. writing'["desktop"] = writing["desktop"]
    BY <1>1, <1>5 DEF CliCommand, EnablePlugin, DisablePlugin, UninstallPlugin, InstallPlugin, dirVars
  <2> QED
    BY <1>5, <2>1 DEF CliCommand, WriteInv
<1>6. CASE CliEnds
  <2>1. writing'["desktop"] = writing["desktop"]
    BY <1>1, <1>6 DEF CliEnds
  <2> QED
    BY <1>6, <2>1 DEF CliEnds, WriteInv
<1>7. ASSUME NEW i \in Ids, BeginLoad(i) \/ ReloadPlugin(i) \/ UpdateConfig(i) PROVE WriteInv'
  BY <1>7 DEF BeginLoad, ReloadPlugin, UpdateConfig, Free, WriteInv, dirVars
<1>8. ASSUME NEW b \in BOOLEAN, EndLoad(b) \/ CliOpens(b) PROVE WriteInv'
  BY <1>8 DEF EndLoad, CliOpens, WriteInv, dirVars
<1>9. ASSUME NEW P \in Procs, NEW b \in BOOLEAN, ExtractFile(P, b) PROVE WriteInv'
  <2>1. writing'["desktop"] # NoPlugin => writing["desktop"] # NoPlugin
    BY <1>1, <1>9 DEF ExtractFile
  <2> QED
    BY <1>9, <2>1 DEF ExtractFile, WriteInv
<1>10. ASSUME NEW P \in Procs, NEW b \in BOOLEAN, InstallEnds(P, b) PROVE WriteInv'
  <2>1. writing'["desktop"] # NoPlugin => writing["desktop"] # NoPlugin
    BY <1>1, <1>10 DEF InstallEnds
  <2> QED
    BY <1>10, <2>1 DEF InstallEnds, WriteInv
<1> QED
  BY <1>2, <1>3, <1>4, <1>5, <1>6, <1>7, <1>8, <1>9, <1>10 DEF PlugNext

\* The registry is right about the plugins that run, the index misses nothing
\* and what runs is what was checked (register, enable_plugin, disable_plugin,
\* load_into_sandbox), whatever the desktop and the command line do to the
\* directory and the state file they share, for any plugins and capabilities.
THEOREM RegistryStaysRight == PlugSpec => []RegistryAgrees
<1>1. PlugInv => RegistryAgrees
  BY DEF PlugInv
<1> QED
  BY <1>1, PlugInitInv, PlugNextInv, WriteInit, WriteNextInv, PTL DEF PlugSpec

-----------------------------------------------------------------------------
(* The refinement: a load that succeeds starts a plugin, and nothing else does. *)

Known == Entries("desktop")
On == {i \in Known : reg["desktop"][i].on}
Live == {i \in Ids : running[i] # NoPlugin}

\* A step that starts nothing and stops at most one plugin.
LEMMA NothingStarts ==
  ASSUME PlugInv, PlugInv', Live' = Live \/ \E i \in Live : Live' = Live \ {i}
  PROVE  [Life!LifeNext]_(Life!lifeVars)
<1>1. On' \subseteq Known' /\ Known' \subseteq Ids /\ Live' \subseteq Known' /\ Live' \subseteq Live
  BY DEF On, Known, Live, Entries, PlugInv, RunInv
<1>2. CASE Known' # Known \/ On' # On
  <2>1. Life!Manage
    BY <1>1, <1>2 DEF Life!Manage, Known, On, Live
  <2> QED
    BY <2>1 DEF Life!LifeNext
<1>3. CASE Known' = Known /\ On' = On /\ Live' = Live
  BY <1>3 DEF Life!lifeVars, Known, On, Live
<1>4. CASE Known' = Known /\ On' = On /\ Live' # Live
  <2>1. PICK i \in Live : Live' = Live \ {i}
    BY <1>4
  <2>2. Life!Stop(i) /\ i \in Ids
    BY <1>4, <2>1 DEF Life!Stop, Known, On, Live
  <2> QED
    BY <2>2 DEF Life!LifeNext
<1> QED
  BY <1>2, <1>3, <1>4

\* Stopping a plugin, whether or not it runs.
LEMMA StoppingStarts ==
  ASSUME PlugInv, NEW i \in Ids, running' \in {running, [running EXCEPT ![i] = NoPlugin]}
  PROVE  Live' = Live \/ \E j \in Live : Live' = Live \ {j}
<1>1. running \in [Ids -> Running \cup {NoPlugin}]
  BY DEF PlugInv, PlugTypes
<1>2. CASE running' = running
  BY <1>2 DEF Live
<1>3. CASE running' = [running EXCEPT ![i] = NoPlugin]
  <2>1. Live' = Live \ {i}
    BY <1>1, <1>3 DEF Live
  <2> QED
    BY <2>1
<1> QED
  BY <1>2, <1>3

LEMMA PlugStepRefines == PlugInv /\ WriteInv /\ [PlugNext]_plugVars => [Life!LifeNext]_(Life!lifeVars)
<1> SUFFICES ASSUME PlugInv, WriteInv, [PlugNext]_plugVars PROVE [Life!LifeNext]_(Life!lifeVars)
  OBVIOUS
<1>0. PlugInv'
  BY PlugNextInv
<1>a. ASSUME UNCHANGED running PROVE [Life!LifeNext]_(Life!lifeVars)
  <2>1. Live' = Live
    BY <1>a DEF Live
  <2> QED
    BY <1>0, <2>1, NothingStarts
<1>b. ASSUME NEW i \in Ids, running' \in {running, [running EXCEPT ![i] = NoPlugin]}
      PROVE  [Life!LifeNext]_(Life!lifeVars)
  BY <1>0, <1>b, StoppingStarts, NothingStarts
<1>1. CASE DesktopStarts \/ Refresh \/ CliEnds
  BY <1>1, <1>a DEF DesktopStarts, Refresh, CliEnds
<1>2. CASE DesktopEnds
  <2>1. reg'["desktop"] = NoEntries /\ running' = NoEntries
    BY <1>2 DEF DesktopEnds, PlugInv, PlugTypes, Procs
  <2>2. Known' = {} /\ On' = {} /\ Live' = {}
    BY <2>1 DEF Known, On, Live, Entries, NoEntries
  <2>3. Life!End
    BY <2>2 DEF Life!End, Known, On, Live
  <2> QED
    BY <2>3 DEF Life!LifeNext
<1>3. CASE DesktopCommand
  BY <1>3, <1>a, <1>b DEF DesktopCommand, EnablePlugin, DisablePlugin, UninstallPlugin, InstallPlugin, StoppedIn
<1>4. CASE CliCommand
  BY <1>4, <1>a, <1>b DEF CliCommand, EnablePlugin, DisablePlugin, UninstallPlugin, InstallPlugin, StoppedIn
<1>5. ASSUME NEW i \in Ids, BeginLoad(i) PROVE [Life!LifeNext]_(Life!lifeVars)
  BY <1>5, <1>a DEF BeginLoad
<1>6. ASSUME NEW i \in Ids, ReloadPlugin(i) PROVE [Life!LifeNext]_(Life!lifeVars)
  BY <1>6, <1>b DEF ReloadPlugin
<1>7. ASSUME NEW i \in Ids, UpdateConfig(i) PROVE [Life!LifeNext]_(Life!lifeVars)
  BY <1>7, <1>b DEF UpdateConfig
<1>8. ASSUME NEW b \in BOOLEAN, EndLoad(b) PROVE [Life!LifeNext]_(Life!lifeVars)
  <2> DEFINE i == loading.id
  <2>1. PlugTypes /\ loading # NoPlugin /\ i \in Ids
    BY <1>8 DEF EndLoad, PlugInv, PlugTypes, Load
  <2>2. CASE b /\ CodeIsPackage(wasmFile[i], loading.hash)
    <3> DEFINE run == [hash |-> loading.hash, code |-> wasmFile[i]]
    <3>1. running' = [running EXCEPT ![i] = run] /\ reg' = [reg EXCEPT !["desktop"][i].state = "loaded"]
      BY <1>8, <2>2 DEF EndLoad
    <3>2. run # NoPlugin
      <4>1. run \in Running
        BY <2>1, <2>2 DEF PlugTypes, Running, CodeIsPackage, Load
      <4> QED
        BY <4>1, PluginConstants
    <3> HIDE DEF run
    <3>3. i \in On \ Live /\ i \in Entries("desktop") /\ "loaded" \in States
      BY <2>1 DEF PlugInv, LoadInv, On, Known, Live, Entries, States
    <3>4. /\ Touches(reg, reg', "desktop", i) /\ reg'["desktop"][i] # NoPlugin
          /\ reg'["desktop"][i].on = reg["desktop"][i].on
      BY <2>1, <3>1, <3>3, StateTouches
    <3>5. Known' = Known /\ On' = On
      BY <3>3, <3>4 DEF Touches, Known, On, Entries, Procs
    <3>6. Live' = Live \cup {i}
      BY <2>1, <3>1, <3>2 DEF Live, PlugTypes
    <3>7. PICK k \in Ids : k = i
      BY <2>1
    <3>8. Life!Start(k)
      BY <3>3, <3>5, <3>6, <3>7 DEF Life!Start, Known, On, Live
    <3> QED
      BY <3>8 DEF Life!LifeNext
  <2>3. CASE ~(b /\ CodeIsPackage(wasmFile[i], loading.hash))
    BY <1>8, <1>a, <2>3 DEF EndLoad
  <2> QED
    BY <2>2, <2>3
<1>9. ASSUME NEW b \in BOOLEAN, CliOpens(b) PROVE [Life!LifeNext]_(Life!lifeVars)
  BY <1>9, <1>a DEF CliOpens
<1>10. CASE UNCHANGED plugVars
  BY <1>10, <1>a DEF plugVars
<1>11. ASSUME NEW P \in Procs, NEW b \in BOOLEAN, ExtractFile(P, b) \/ InstallEnds(P, b)
       PROVE  [Life!LifeNext]_(Life!lifeVars)
  BY <1>11, <1>a DEF ExtractFile, InstallEnds
<1> QED
  BY <1>1, <1>2, <1>3, <1>4, <1>5, <1>6, <1>7, <1>8, <1>9, <1>10, <1>11 DEF PlugNext

\* The plugins of the desktop live as PluginLife says: a plugin is started only
\* while it is registered, enabled and not running, and none outlives its
\* entry or the process (load_plugin, unload_plugin, disable_plugin,
\* uninstall_plugin), for any plugins and versions.
THEOREM ManagerImplementsLife == PlugSpec => ImplementsPluginLife
<1>1. PlugInit => Life!LifeInit
  <2> SUFFICES ASSUME PlugInit PROVE Life!LifeInit
    OBVIOUS
  <2>1. \A i \in Ids : reg["desktop"][i] = NoPlugin /\ running[i] = NoPlugin
    BY DEF PlugInit, NoEntries, Procs
  <2> QED
    BY <2>1 DEF Life!LifeInit, Entries
<1> QED
  BY <1>1, PlugInitInv, PlugNextInv, WriteInit, WriteNextInv, PlugStepRefines, PTL DEF PlugSpec, ImplementsPluginLife, Life!LifeSpec

(***************************************************************************)
(* The locks of the runtimes.                                              *)
(***************************************************************************)

CallRecords == [op : RtOps \cup {"ended"}, id : Runtimes, got : Nat]

\* A call holds no more locks than it takes.
RtInv ==
  /\ call \in [Calls -> CallRecords \cup {NoCall}]
  /\ \A c \in Calls : call[c] # NoCall /\ ~Ended(c) => call[c].got <= Len(Locks(call[c].op))

LEMMA LocksFacts ==
  ASSUME NEW o \in RtOps
  PROVE  /\ o = "unregister" => /\ Locks(o) = <<"event", "policy", "qos">> /\ Len(Locks(o)) = 3
                                /\ Locks(o)[1] = "event" /\ Locks(o)[2] = "policy" /\ Locks(o)[3] = "qos"
         /\ o # "unregister" => /\ Len(Locks(o)) = 1 /\ Locks(o)[1] \in Kinds
BY DEF RtOps, Locks, Kinds

LEMMA RtNextInv == RtInv /\ [RtNext]_rtVars => RtInv'
<1> SUFFICES ASSUME RtInv, [RtNext]_rtVars PROVE RtInv'
  OBVIOUS
<1>1. ASSUME NEW c \in Calls, NEW o \in RtOps, NEW id \in Runtimes, Begin(c, o, id) PROVE RtInv'
  <2> DEFINE new == [op |-> o, id |-> id, got |-> 0]
  <2>1. new \in CallRecords /\ new.got = 0 /\ new.op = o
    BY DEF CallRecords
  <2>2. call' = [call EXCEPT ![c] = new]
    BY <1>1 DEF Begin
  <2> HIDE DEF new
  <2>3. call'[c] = new /\ call' \in [Calls -> CallRecords \cup {NoCall}]
        /\ \A d \in Calls \ {c} : call'[d] = call[d]
    BY <2>1, <2>2 DEF RtInv
  <2>4. 0 <= Len(Locks(o))
    BY LocksFacts
  <2> QED
    BY <2>1, <2>3, <2>4 DEF RtInv, Ended
<1>2. ASSUME NEW c \in Calls, TakeLock(c) PROVE RtInv'
  <2> DEFINE new == [call[c] EXCEPT !.got = call[c].got + 1]
  <2>1. call[c] \in CallRecords /\ call[c].got < Len(Locks(call[c].op)) /\ call[c].op \in RtOps
    BY <1>2 DEF TakeLock, RtInv, CallRecords, Ended
  <2>2. call[c].got + 1 \in Nat /\ call[c].got \in Nat
    BY <2>1 DEF CallRecords
  <2>3. new \in CallRecords /\ new.got = call[c].got + 1 /\ new.op = call[c].op
    BY <2>1, <2>2 DEF CallRecords
  <2>4. call' = [call EXCEPT ![c] = new]
    BY <1>2 DEF TakeLock
  <2> HIDE DEF new
  <2>5. call'[c] = new /\ call' \in [Calls -> CallRecords \cup {NoCall}]
        /\ \A d \in Calls \ {c} : call'[d] = call[d]
    BY <2>3, <2>4 DEF RtInv
  <2>6. Len(Locks(call[c].op)) \in Nat
    BY <2>1, LocksFacts
  <2>7. new.got <= Len(Locks(new.op))
    BY <2>1, <2>2, <2>3, <2>6
  <2> QED
    BY <2>5, <2>7 DEF RtInv, Ended
<1>3. ASSUME NEW c \in Calls, Finish(c) PROVE RtInv'
  <2> DEFINE new == [call[c] EXCEPT !.op = "ended"]
  <2>1. call[c] \in CallRecords
    BY <1>3 DEF Finish, RtInv
  <2>2. new \in CallRecords /\ new.op = "ended"
    BY <2>1 DEF CallRecords
  <2>3. call' = [call EXCEPT ![c] = new]
    BY <1>3 DEF Finish
  <2> HIDE DEF new
  <2>4. call'[c] = new /\ call' \in [Calls -> CallRecords \cup {NoCall}]
        /\ \A d \in Calls \ {c} : call'[d] = call[d]
    BY <2>2, <2>3 DEF RtInv
  <2> QED
    BY <2>2, <2>4 DEF RtInv, Ended
<1>4. CASE UNCHANGED rtVars
  BY <1>4 DEF rtVars, RtInv, Ended
<1> QED
  BY <1>1, <1>2, <1>3, <1>4 DEF RtNext

UnderWay(c) == call[c] # NoCall /\ ~Ended(c)

\* The next lock the call takes, and whether another call is in the way.
NextLock(c) == Locks(call[c].op)[call[c].got + 1]

Blocks(d, c) ==
  d # c /\ ~Ended(d) /\ Holds(d, NextLock(c)) /\ (Writes(call[c].op) \/ Writes(call[d].op))

HasAll(c) == call[c].got = Len(Locks(call[c].op))

\* Some call under way has all its locks, or can have the next.
LocksServe ==
  (\E c \in Calls : UnderWay(c)) =>
    \E c \in Calls : UnderWay(c) /\ (HasAll(c) \/ \A d \in Calls : ~Blocks(d, c))

\* A call that has a lock and not all of them is an unregister on its way.
LEMMA HoldsSome ==
  ASSUME RtInv, NEW c \in Calls, UnderWay(c), ~HasAll(c), NEW k, Holds(c, k)
  PROVE  /\ call[c].op = "unregister"
         /\ \/ call[c].got = 1 /\ k = "event" /\ NextLock(c) = "policy"
            \/ call[c].got = 2 /\ k \in {"event", "policy"} /\ NextLock(c) = "qos"
<1>1. call[c].op \in RtOps /\ call[c].got \in Nat
  BY DEF RtInv, CallRecords, UnderWay, Ended
<1>2. PICK n \in 1 .. call[c].got : Locks(call[c].op)[n] = k
  BY DEF Holds
<1>3. PICK g \in Nat, m \in {1, 3} : g = call[c].got /\ m = Len(Locks(call[c].op))
  BY <1>1, LocksFacts
<1>a. g <= m /\ g # m
  BY <1>3 DEF RtInv, UnderWay, HasAll
<1>b. n \in Nat /\ 1 <= n /\ n <= g
  BY <1>3
<1>4. m = 3 /\ call[c].op = "unregister"
  <2>1. m # 1
    BY <1>a, <1>b
  <2> QED
    BY <1>1, <1>3, <2>1, LocksFacts
<1>5. g \in {1, 2} /\ n \in {1, 2} /\ n <= g
  BY <1>a, <1>b, <1>4
<1>6. Locks(call[c].op)[1] = "event" /\ Locks(call[c].op)[2] = "policy" /\ Locks(call[c].op)[3] = "qos"
  BY <1>1, <1>4, LocksFacts
<1>7. CASE g = 1
  <2>1. n = 1 /\ g + 1 = 2
    BY <1>5, <1>7
  <2> QED
    BY <1>2, <1>3, <1>4, <1>6, <1>7, <2>1 DEF NextLock
<1>8. CASE g = 2
  <2>1. g + 1 = 3
    BY <1>8
  <2> QED
    BY <1>2, <1>3, <1>4, <1>5, <1>6, <1>8, <2>1 DEF NextLock
<1> QED
  BY <1>5, <1>7, <1>8

LEMMA RtInvServes == RtInv => LocksServe
<1> SUFFICES ASSUME RtInv, NEW c \in Calls, UnderWay(c),
                    \A e \in Calls : UnderWay(e) => ~HasAll(e) /\ \E d \in Calls : Blocks(d, e)
             PROVE  FALSE
  BY DEF LocksServe
<1>1. ASSUME NEW e \in Calls, UnderWay(e)
      PROVE  \E d \in Calls : UnderWay(d) /\ ~HasAll(d) /\ Holds(d, NextLock(e))
  BY <1>1 DEF Blocks, Holds, UnderWay
<1>2. PICK d \in Calls : UnderWay(d) /\ ~HasAll(d) /\ Holds(d, NextLock(c))
  BY <1>1
<1>3. NextLock(d) \in {"policy", "qos"}
  BY <1>2, HoldsSome
<1>4. PICK e \in Calls : UnderWay(e) /\ ~HasAll(e) /\ Holds(e, NextLock(d))
  BY <1>1, <1>2
<1>5. NextLock(e) = "qos"
  BY <1>3, <1>4, HoldsSome
<1>6. PICK f \in Calls : UnderWay(f) /\ ~HasAll(f) /\ Holds(f, NextLock(e))
  BY <1>1, <1>4
<1> QED
  BY <1>5, <1>6, HoldsSome

\* Whatever calls are under way, and however many, they never wait for each other in a
\* circle: unregister alone takes several locks, and in one order, so some call always
\* has or gets the lock it needs (unregister, register_*, broadcast_event).
THEOREM RuntimeLocksServe == RtSpec => []LocksServe
<1>1. RtInit => RtInv
  BY DEF RtInit, RtInv
<1> QED
  BY <1>1, RtNextInv, RtInvServes, PTL DEF RtSpec
=============================================================================
