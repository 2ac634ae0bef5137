---------------------------- MODULE MeshPeersMC ----------------------------
(* Three WireGuard keys, three addresses and two CoSigner keys.             *)
EXTENDS MeshPeers

CONSTANTS w1, w2, w3, i1, i2, i3, k1, k2, MaxOthers

MCWgKey == {w1, w2, w3}
MCIp    == {i1, i2, i3}
MCTwoIp == {i1, i2}
MCCoKey == {k1, k2}

Peer(w, ip, co) == [wg |-> w, ip |-> ip, co |-> co]

\* No peer; one; one without a CoSigner key; one without an address; two; two at
\* one address; two without one; two and one at the address of the first; three.
MCLists ==
    {<<>>,
     <<Peer(w1, i1, k1)>>,
     <<Peer(w2, i2, None)>>,
     <<Peer(w3, NoIp, k2)>>,
     <<Peer(w1, NoIp, k1), Peer(w2, NoIp, None)>>,
     <<Peer(w1, i1, k1), Peer(w2, i2, k2)>>,
     <<Peer(w1, i1, k1), Peer(w2, i1, k2)>>,
     <<Peer(w1, i1, k1), Peer(w2, i2, k2), Peer(w3, i1, None)>>,
     <<Peer(w1, i1, k1), Peer(w2, i2, k2), Peer(w3, i3, None)>>}

\* Those whose addresses the instance has.
MCFounding == {s \in MCLists : \A n \in DOMAIN s : s[n].ip \in Address}

Bound == others <= MaxOthers
=============================================================================
