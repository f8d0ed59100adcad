----------------------------- MODULE MCPlugins ------------------------------
(***************************************************************************)
(* The components of omni-plugin for TLC: the plugin manager, the runtime, *)
(* the sandbox's host functions, and the data-collection plugin's rings    *)
(* and packager, triggers and frame enricher.  They share no state in the  *)
(* code, so a behaviour is that of one component, which Init chooses.      *)
(***************************************************************************)
EXTENDS PluginManager, PluginRuntimes, PluginHost, EpisodePackager, CaptureTriggers, FrameEnricher

CONSTANT Parts  \* the components a run looks at

VARIABLE part   \* the component that runs

MCCaps(v) == IF v = "v1" THEN {"events"} ELSE {"events", "qos"}

PluginsInit ==
  /\ part \in Parts
  /\ PlugInit /\ RtInit /\ HostInit /\ PackInit /\ TrigInit /\ EnrInit

pluginsVars == <<part, plugVars, rtVars, hostVars, packVars, trigVars, enrVars>>

PluginsNext ==
  \/ /\ part = "manager" /\ PlugNext
     /\ UNCHANGED <<part, rtVars, hostVars, packVars, trigVars, enrVars>>
  \/ /\ part = "runtime" /\ RtNext
     /\ UNCHANGED <<part, plugVars, hostVars, packVars, trigVars, enrVars>>
  \/ /\ part = "host" /\ HostNext
     /\ UNCHANGED <<part, plugVars, rtVars, packVars, trigVars, enrVars>>
  \/ /\ part = "packager" /\ PackNext
     /\ UNCHANGED <<part, plugVars, rtVars, hostVars, trigVars, enrVars>>
  \/ /\ part = "triggers" /\ TrigNext
     /\ UNCHANGED <<part, plugVars, rtVars, hostVars, packVars, enrVars>>
  \/ /\ part = "enricher" /\ EnrNext
     /\ UNCHANGED <<part, plugVars, rtVars, hostVars, packVars, trigVars>>

PluginsSpec == PluginsInit /\ [][PluginsNext]_pluginsVars

\* The threads that call the runtime go on, and its locks are fair.
PluginsLive ==
  /\ PluginsSpec
  /\ \A c \in Calls : WF_rtVars(part = "runtime" /\ (TakeLock(c) \/ Finish(c)))
=============================================================================
