---------------------------- MODULE MCVpnHelper ----------------------------
EXTENDS VpnHelper, TLC

\* Requests, clients and networks are interchangeable.
Perms == Permutations(Ids) \cup Permutations(Clients) \cup Permutations(Nets)

VARIABLE overran  \* history: a disconnect gave up its wait for the tasks

helperVars == <<vars, overran>>

HelperInit == Init /\ overran = FALSE

HelperNext ==
  /\ Next
  /\ overran' = (overran \/ (At("join_tasks") /\ handles' # handles /\ ~TasksEnded))

HelperSpec == HelperInit /\ [][HelperNext]_helperVars

HelperFair == HelperSpec /\ Fairness

\* As long as every task has stopped within the wait of disconnect, nothing a
\* former connection learnt is visible after the disconnect or in the next
\* connection, whatever requests overlap (disconnect, the loops of start_loops).
PromptLeavesNothing == ~overran => NothingOutlives
=============================================================================
