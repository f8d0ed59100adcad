---- MODULE MCPeerLink ----
EXTENDS PeerLink, TLC

\* Every permutation of the addresses, VIPs and keys: no definition tells two
\* of them apart.
Perms ==
  {f @@ g @@ h : f \in Permutations(Keys), g \in Permutations(Addrs), h \in Permutations(Vips)}
====
