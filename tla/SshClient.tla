----------------------------- MODULE SshClient -----------------------------
(***************************************************************************)
(* The SSH client with its known hosts, against the standalone backend     *)
(* that keeps the host key of a server: SshClient::connect (resolving the  *)
(* peer, loading the store, check_server_key, authentication), the         *)
(* known_hosts file shared by all the processes of a user, and the key     *)
(* file of each server with its crashes and restarts.                      *)
(***************************************************************************)
EXTENDS Naturals, Sequences, FiniteSets, SequencesExt

CONSTANTS Hosts,       \* names a user connects to
          Within,      \* pairs <<n, m>> of names: n is a part of m
          Servers,     \* addresses, each with an SSH server
          Clients,     \* processes that connect or edit the file
          Modes,       \* HostKeyVerification: tofu, strict, accept_new, insecure
          MaxKey,      \* bound on the keys ever generated
          MaxLines,    \* bound on the lines of the file
          Damaged,     \* a key file that does not load
          Nobody       \* no key, no server, no entry

ASSUME ClientConstants ==
  /\ Modes \subseteq {"tofu", "strict", "accept_new", "insecure"}
  /\ Within \subseteq Hosts \X Hosts
  /\ MaxKey \in Nat /\ MaxLines \in Nat
  /\ Damaged \notin Nat /\ Nobody \notin Nat

VARIABLES
  lastKey,    \* keys generated so far, numbered
  keyFile,    \* ssh_host_ed25519_key of each server: Nobody, Damaged or a key
  server,     \* [run, key, kept]: kept says whether a host_key_path is set; history:
              \* the first key it served, and whether a good file was misread
  peers,      \* peers of the backend, oldest first
  hostFile,   \* lines of known_hosts
  client      \* each process: phase, mode, target, address, its store, the key seen

cliVars == <<lastKey, keyFile, server, peers, hostFile, client>>

IdleClient == [phase |-> "idle", mode |-> Nobody, host |-> Nobody, at |-> Nobody,
               hosts |-> [h \in Hosts |-> Nobody], first |-> Nobody, seen |-> Nobody]

StoppedServer(kept) ==
  [run |-> "down", key |-> Nobody, kept |-> kept, shown |-> Nobody, misread |-> FALSE]

CliInit ==
  /\ lastKey = 0
  /\ keyFile = [s \in Servers |-> Nobody]
  /\ server \in [Servers -> {StoppedServer(k) : k \in BOOLEAN}]
  /\ peers = <<>> /\ hostFile = <<>>
  /\ client = [c \in Clients |-> IdleClient]

-----------------------------------------------------------------------------
(* StandaloneSshBackend: host keys and peers *)

\* The server answers connections with the key.
Serves(srv, key) ==
  [srv EXCEPT !.run = "up", !.key = key, !.shown = IF @ = Nobody THEN key ELSE @]

\* save_host_key has truncated the key file; a good key may have been in it.
Saves(srv, key, had) ==
  [srv EXCEPT !.run = "saving", !.key = key, !.misread = srv.misread \/ had]

HasKey(s) == server[s].kept /\ keyFile[s] \notin {Nobody, Damaged}

\* load_or_generate_keys: a file that loads is used; everything else (no file, a
\* damaged one, an error while a good one is read, no path) makes a new key.
LoadOrGenerateKeys(s, reads) ==
  /\ server[s].run = "down"
  /\ IF HasKey(s) /\ reads
     THEN /\ server' = [server EXCEPT ![s] = Serves(@, keyFile[s])]
          /\ UNCHANGED <<lastKey, keyFile>>
     ELSE /\ lastKey < MaxKey
          /\ lastKey' = lastKey + 1
          /\ server' = [server EXCEPT ![s] =
               IF @.kept THEN Saves(@, lastKey', HasKey(s)) ELSE Serves(@, lastKey')]
          /\ keyFile' = IF server[s].kept THEN [keyFile EXCEPT ![s] = Damaged] ELSE keyFile
  /\ UNCHANGED <<peers, hostFile, client>>

\* The connections are answered whether or not the key could be saved.
SaveHostKeyBad(s, written, ok) ==
  /\ server[s].run = "saving" /\ (ok => written)
  /\ keyFile' = IF written THEN [keyFile EXCEPT ![s] = server[s].key] ELSE keyFile
  /\ server' = [server EXCEPT ![s] = Serves(@, server[s].key)]
  /\ UNCHANGED <<lastKey, peers, hostFile, client>>

\* save_host_key: truncated first, then written and synced, then the permissions
\* and the public key; an error at any of it ends new().
SaveHostKey(s, written, ok) ==
  /\ server[s].run = "saving" /\ (ok => written)
  /\ keyFile' = IF written THEN [keyFile EXCEPT ![s] = server[s].key] ELSE keyFile
  /\ server' = [server EXCEPT ![s] =
       IF ok THEN Serves(@, server[s].key) ELSE [@ EXCEPT !.run = "down"]]
  /\ UNCHANGED <<lastKey, peers, hostFile, client>>

\* The server process ends, at any time.
StopServer(s) ==
  /\ server[s].run # "down"
  /\ server' = [server EXCEPT ![s].run = "down"]
  /\ UNCHANGED <<lastKey, keyFile, peers, hostFile, client>>

\* add_peer, remove_peer and clear_peers: an address is listed once.
AddPeer(n, s) ==
  /\ <<n, s>> \notin ToSet(peers)
  /\ peers' = Append(SelectSeq(peers, LAMBDA p : p[2] # s), <<n, s>>)
  /\ UNCHANGED <<lastKey, keyFile, server, hostFile, client>>

RemovePeers(gone) ==
  /\ peers' = SelectSeq(peers, LAMBDA p : p[2] \notin gone)
  /\ peers' # peers
  /\ UNCHANGED <<lastKey, keyFile, server, hostFile, client>>

\* resolve_peer_name: the oldest peer of that name, else the oldest whose name
\* contains it.
ResolvePeerName(n) ==
  LET exact == SelectSeq(peers, LAMBDA p : p[1] = n)
      part  == SelectSeq(peers, LAMBDA p : <<n, p[1]>> \in Within)
  IN IF exact # <<>> THEN exact[1][2] ELSE IF part # <<>> THEN part[1][2] ELSE Nobody

-----------------------------------------------------------------------------
(* KnownHostsStore *)

\* A fingerprint as text: key.fingerprint() of the library is the bare digest
\* (external), load writes SHA256: before it and pads it.
Plain(k) == <<"plain", k>>

Prefixed(k) == <<"SHA256:", k>>

\* load: the last line of a host wins.
LoadHosts ==
  [h \in Hosts |->
     LET lines == SelectSeq(hostFile, LAMBDA l : l.host = h)
     IN IF lines = <<>> THEN Nobody
        ELSE [fingerprint |-> Prefixed(Last(lines).key), key |-> Last(lines).key]]

\* add and save_entry: the line goes to the end of the file; an older line of the
\* host stays.
SaveEntry(h, key) == Append(hostFile, [host |-> h, key |-> key])

CheckHost(store, h, key) ==
  IF store[h] = Nobody THEN "not_found"
  ELSE IF store[h].fingerprint = Plain(key) THEN "match" ELSE "mismatch"

-----------------------------------------------------------------------------
(* SshClient::connect *)

\* resolve_peer, then the TCP connection, then the store.  A host that is no
\* peer goes to DNS, which may give any server (external).
Connect(c, mode, h, s) ==
  /\ client[c].phase = "idle"
  /\ s = IF ResolvePeerName(h) # Nobody THEN ResolvePeerName(h) ELSE s
  /\ server[s].run = "up"
  /\ client' = [client EXCEPT ![c] = [IdleClient EXCEPT !.phase = "keys", !.mode = mode,
                  !.host = h, !.at = s, !.hosts = LoadHosts, !.first = LoadHosts[h]]]
  /\ UNCHANGED <<lastKey, keyFile, server, peers, hostFile>>

\* check_server_key with add and save_entry.  A key that cannot be saved is
\* accepted all the same.
CheckServerKey(c, saved) ==
  LET me == client[c]
      key == server[me.at].key
      result == CheckHost(me.hosts, me.host, key)
      take == me.mode = "insecure" \/ result = "match"
              \/ (result = "not_found" /\ me.mode # "strict")
      learn == result = "not_found" /\ me.mode \in {"tofu", "accept_new"}
  IN /\ me.phase = "keys" /\ server[me.at].run = "up"
     /\ saved => learn /\ Len(hostFile) < MaxLines
     /\ hostFile' = IF saved THEN SaveEntry(me.host, key) ELSE hostFile
     /\ client' = [client EXCEPT
          ![c].phase = IF take THEN "auth" ELSE IF result = "mismatch" THEN "changed" ELSE "unknown",
          ![c].seen = key,
          ![c].hosts = IF learn THEN [me.hosts EXCEPT ![me.host] =
                         [fingerprint |-> Plain(key), key |-> key]] ELSE @]
     /\ UNCHANGED <<lastKey, keyFile, server, peers>>

\* authenticate_none.  The store, the first entry and the key are not looked at
\* again after it.
Authenticate(c, ok) ==
  /\ client[c].phase = "auth"
  /\ client' = [client EXCEPT ![c] = [IdleClient EXCEPT
                  !.phase = IF ok THEN "session" ELSE "refused"]]
  /\ UNCHANGED <<lastKey, keyFile, server, peers, hostFile>>

\* The connection breaks before the session, or the program ends.
LeaveClient(c) ==
  /\ client[c].phase # "idle"
  /\ client' = [client EXCEPT ![c] = IdleClient]
  /\ UNCHANGED <<lastKey, keyFile, server, peers, hostFile>>

\* remove and rewrite_file: a process that loaded the store drops a host and
\* writes back what it had loaded, whatever was appended meanwhile.
OpenStore(c) ==
  /\ client[c].phase = "idle" /\ hostFile # <<>>
  /\ client' = [client EXCEPT ![c].phase = "editing", ![c].hosts = LoadHosts]
  /\ UNCHANGED <<lastKey, keyFile, server, peers, hostFile>>

RemoveHost(c, h) ==
  /\ client[c].phase = "editing" /\ client[c].hosts[h] # Nobody
  /\ LET left == {g \in Hosts \ {h} : client[c].hosts[g] # Nobody} IN
     \E order \in SetToSeqs(left) :
       hostFile' = [i \in DOMAIN order |-> [host |-> order[i],
                                            key |-> client[c].hosts[order[i]].key]]
  /\ client' = [client EXCEPT ![c] = IdleClient]
  /\ UNCHANGED <<lastKey, keyFile, server, peers>>

CliNext ==
  \/ \E s \in Servers : \/ \E reads \in BOOLEAN : LoadOrGenerateKeys(s, reads)
                        \/ \E written, ok \in BOOLEAN : SaveHostKey(s, written, ok)
                        \/ StopServer(s)
                        \/ \E n \in Hosts : AddPeer(n, s)
                        \/ RemovePeers({s})
  \/ RemovePeers(Servers)
  \/ \E c \in Clients :
       \/ \E mode \in Modes, h \in Hosts, s \in Servers : Connect(c, mode, h, s)
       \/ \E b \in BOOLEAN : CheckServerKey(c, b) \/ Authenticate(c, b)
       \/ LeaveClient(c) \/ OpenStore(c)
       \/ \E h \in Hosts : RemoveHost(c, h)

-----------------------------------------------------------------------------
(* Properties *)

\* A server with a host_key_path answers every connection with the first key it
\* ever answered one with, over crashes and errors at any point of
\* save_host_key and any number of restarts, as long as its good key file was
\* never misread: a failed read makes load_or_generate_keys overwrite it
\* (load_or_generate_keys, save_host_key).
HostKeyStays ==
  \A s \in Servers :
    server[s].run = "up" /\ server[s].kept /\ ~server[s].misread
    => server[s].key = server[s].shown

\* HostKeyVerification documents Tofu as accept and remember new keys, reject
\* changed keys, and check_server_key tells the user that the key has changed:
\* a refusal as changed means that the key the file had is another one.
RefusedKeyChanged ==
  \A c \in Clients : client[c].phase = "changed" => client[c].first.key # client[c].seen
=============================================================================
