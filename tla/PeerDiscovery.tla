--------------------------- MODULE PeerDiscovery ----------------------------
(***************************************************************************)
(* How a connected device learns of its peers: the nucleus (a server of    *)
(* its own, or the loop start_loops runs in nucleus mode), OmniProto's     *)
(* handle_packet, the heartbeat task, and the discovery task that asks the *)
(* API for devices and queries the nucleus for those it does not know.     *)
(* Every datagram may be lost, delayed and overtaken.                      *)
(***************************************************************************)
EXTENDS Naturals, FiniteSets

CONSTANTS Nodes,     \* the other devices of the network
          MaxWire    \* bound: notifications and heartbeat answers are sent below it

VARIABLES present,   \* devices that are registered at the nucleus
          listed,    \* devices the API lists as online
          peerTable, \* peer_states of this device
          wire,      \* signaling messages to this device
          queries,   \* QUERY_PEERs under way to the nucleus
          beat,      \* a HEARTBEAT is under way to the nucleus
          round,     \* the discovery task: "sleep", or "query" with the list it got
          toQuery

discVars == <<present, listed, peerTable, wire, queries, beat, round, toQuery>>

DiscInit ==
  /\ present \in SUBSET Nodes /\ listed = present
  /\ peerTable = {} /\ wire = {} /\ queries = {} /\ beat = TRUE
  /\ round = "sleep" /\ toQuery = {}

\* A signaling message: the peers it tells of and those it takes back.
Telling(add, del) == [add |-> add, del |-> del]

Sends(m) == Cardinality(wire) < MaxWire /\ wire' = wire \cup {m}

-----------------------------------------------------------------------------
(* The nucleus: handle_nucleus_message is omninervous' *)

\* A device registers: PEER_NOTIFY goes to the others, best effort.
NodeRegisters(n) ==
  /\ n \notin present
  /\ present' = present \cup {n} /\ listed' \in {listed, listed \cup {n}}
  /\ Sends(Telling({n}, {})) \/ UNCHANGED wire
  /\ UNCHANGED <<peerTable, queries, beat, round, toQuery>>

\* A device leaves, or cleanup of the nucleus drops it.
NodeLeaves(n) ==
  /\ n \in present
  /\ present' = present \ {n} /\ listed' \in {listed, listed \ {n}}
  /\ UNCHANGED <<peerTable, wire, queries, beat, round, toQuery>>

\* HEARTBEAT_ACK: some recent peers, and peers that have gone.
AnswerBeat ==
  /\ beat /\ beat' = FALSE
  /\ \E add \in SUBSET present, del \in SUBSET (Nodes \ present) : Sends(Telling(add, del))
  /\ UNCHANGED <<present, listed, peerTable, queries, round, toQuery>>

\* PEER_INFO: found or not.
AnswerQuery(n) ==
  /\ n \in queries /\ queries' = queries \ {n}
  /\ wire' = wire \cup {Telling({n} \cap present, {})}
  /\ UNCHANGED <<present, listed, peerTable, beat, round, toQuery>>

\* The API learns of registrations and departures by and by.
ApiLists(n) ==
  /\ (n \in listed) # (n \in present)
  /\ listed' = IF n \in present THEN listed \cup {n} ELSE listed \ {n}
  /\ UNCHANGED <<present, peerTable, wire, queries, beat, round, toQuery>>

\* Datagrams get lost; while nothing can be received a loss is not noticed and is
\* left to later.
Lose(m) ==
  /\ m \in wire /\ wire' = wire \ {m}
  /\ round # "query"
  /\ UNCHANGED <<present, listed, peerTable, queries, beat, round, toQuery>>

LoseQuery(n) ==
  /\ n \in queries /\ queries' = queries \ {n}
  /\ UNCHANGED <<present, listed, peerTable, wire, beat, round, toQuery>>

LoseBeat ==
  /\ beat /\ beat' = FALSE
  /\ UNCHANGED <<present, listed, peerTable, wire, queries, round, toQuery>>

-----------------------------------------------------------------------------
(* This device *)

Beats ==
  /\ ~beat /\ beat' = TRUE
  /\ UNCHANGED <<present, listed, peerTable, wire, queries, round, toQuery>>

\* handle_packet and the dispatcher: new peers first, then the removals.  The
\* table is written, so the discovery task must not be reading it.
Receive(m) ==
  /\ m \in wire /\ wire' = wire \ {m}
  /\ round # "query"
  /\ peerTable' = (peerTable \cup m.add) \ m.del
  /\ UNCHANGED <<present, listed, queries, beat, round, toQuery>>

\* get_devices answers: the online devices that are not in the table are queried
\* one by one, under the read lock on the table.
Fetch ==
  /\ round = "sleep" /\ round' = "query"
  /\ toQuery' = listed \ peerTable
  /\ UNCHANGED <<present, listed, peerTable, wire, queries, beat>>

\* A send that fails is only logged.
QueryPeer(n) ==
  /\ round = "query" /\ n \in toQuery /\ toQuery' = toQuery \ {n}
  /\ queries' \in {queries, queries \cup {n}}
  /\ UNCHANGED <<present, listed, peerTable, wire, beat, round>>

\* Mutant: the round is not repeated.
EndRoundOnce ==
  /\ round = "query" /\ toQuery = {} /\ round' = "done"
  /\ UNCHANGED <<present, listed, peerTable, wire, queries, beat, toQuery>>

EndRound ==
  /\ round = "query" /\ toQuery = {} /\ round' = "sleep"
  /\ UNCHANGED <<present, listed, peerTable, wire, queries, beat, toQuery>>

DiscNext ==
  \/ \E n \in Nodes : NodeRegisters(n) \/ NodeLeaves(n) \/ AnswerQuery(n) \/ ApiLists(n)
                     \/ LoseQuery(n) \/ QueryPeer(n)
  \/ \E m \in wire : Receive(m) \/ Lose(m)
  \/ AnswerBeat \/ LoseBeat \/ Beats \/ Fetch \/ EndRound

-----------------------------------------------------------------------------
(* Properties *)

\* "If other peers were online before us, we won't learn about them.  Fix: Fetch
\* device list from API and send QUERY_PEER": a device that stays registered is
\* in the table again and again, however many notifications are lost and
\* however late an outdated removal arrives.  It rests on the environment: that
\* get_devices answers, which nothing in the client bounds (DiscFairness).
PresentPeersLearned ==
  \A n \in Nodes : <>[](n \in present) => []<>(n \in peerTable)
=============================================================================
