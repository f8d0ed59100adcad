-------------------------- MODULE MCEpisodePlugin --------------------------
EXTENDS EpisodePlugin

\* An episode that fits alone, one that fits with it, one above the limit.
MCSize == <<2, 1, 4>>
MCQuality == <<2, 2, 1>>
MCPriorities == {0, -1}

VARIABLE queueing  \* callers queue uploads, and nothing fails; or the other way round

episodeVars == <<allVars, queueing>>

EpisodeInit ==
  /\ PluginInit /\ queueing \in BOOLEAN
  /\ queueing => strategy = "OldestFirst"

EpisodeNext ==
  /\ Next /\ UNCHANGED queueing
  /\ IF queueing THEN faults' = 0 /\ expired' = {} ELSE queue' = << >> /\ cancel_flag' = FALSE

EpisodeSpec == EpisodeInit /\ [][EpisodeNext]_episodeVars
=============================================================================
