----------------------------- MODULE PluginLife ------------------------------
(***************************************************************************)
(* What the plugin manager promises of the plugins of one process: a       *)
(* plugin runs only while it is known, and it is started only while it is  *)
(* known, enabled and not running.                                         *)
(***************************************************************************)
CONSTANT Ids

VARIABLES known,   \* registered plugins
          on,      \* those of them that are enabled
          live     \* those that run

lifeVars == <<known, on, live>>

LifeInit == known = {} /\ on = {} /\ live = {}

Start(i) ==
  /\ i \in on \ live
  /\ live' = live \cup {i} /\ UNCHANGED <<known, on>>

\* Plugins are discovered, installed, enabled, disabled or uninstalled; what
\* is no longer known has stopped.
Manage ==
  /\ on' \subseteq known' /\ known' \subseteq Ids
  /\ live' \subseteq live \cap known'
  /\ known' # known \/ on' # on

Stop(i) ==
  /\ i \in live
  /\ live' = live \ {i} /\ UNCHANGED <<known, on>>

\* The process ends, and nothing of it is left.
End == known' = {} /\ on' = {} /\ live' = {}

LifeNext == Manage \/ End \/ \E i \in Ids : Start(i) \/ Stop(i)

LifeSpec == LifeInit /\ [][LifeNext]_lifeVars
=============================================================================
