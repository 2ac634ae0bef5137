-------------------------- MODULE MeshPeersProofs --------------------------
(* Theorems about MeshPeers, for every set of keys, addresses and founding  *)
(* lists and every cap.                                                     *)
EXTENDS MeshPeers, FiniteSetTheorems, TLAPS

-----------------------------------------------------------------------------
(* Lemmas about the registry. *)

\* AddAll gives each added key the address of one of the added peers with that
\* key, and leaves the other keys alone.
LEMMA AddAllPeers ==
    ASSUME NEW r, NEW P \in SUBSET MeshPeer, NEW w \in WgKey
    PROVE  /\ w \in Keys(P) => \E p \in P : p.wg = w /\ AddAll(r, P).peers[w] = p.ip
           /\ w \notin Keys(P) => AddAll(r, P).peers[w] = r.peers[w]
<1>1. AddAll(r, P).peers[w] = IF \E p \in P : p.wg = w
                              THEN (CHOOSE p \in P : p.wg = w).ip
                              ELSE r.peers[w]
  BY DEF AddAll
<1>2. w \in Keys(P) <=> \E p \in P : p.wg = w
  BY DEF Keys
<1>3. CASE \E p \in P : p.wg = w
  <2>1. (CHOOSE p \in P : p.wg = w) \in P /\ (CHOOSE p \in P : p.wg = w).wg = w
    BY <1>3
  <2> QED BY <1>1, <1>2, <1>3, <2>1
<1>4. CASE ~\E p \in P : p.wg = w
  BY <1>1, <1>2, <1>4
<1> QED BY <1>3, <1>4

\* Adding peers to a registry gives a registry.
LEMMA AddAllType ==
    ASSUME NEW r \in Registry, NEW P \in SUBSET MeshPeer
    PROVE  AddAll(r, P) \in Registry
<1> DEFINE a == AddAll(r, P)
<1>1. a.peers \in [WgKey -> Address \cup {None}]
  <2>1. \A w \in WgKey : a.peers[w] \in Address \cup {None}
    BY AddAllPeers DEF Registry, MeshPeer
  <2>2. a.peers = [w \in WgKey |-> a.peers[w]]
    BY DEF AddAll
  <2> HIDE DEF a
  <2> QED BY <2>1, <2>2
<1>2. a.byIP \in SUBSET Address
  BY DEF AddAll, Registry, MeshPeer
<1>3. a.byCoSigner \in SUBSET CoKey
  BY DEF AddAll, Registry, MeshPeer
<1>4. a = [peers |-> a.peers, byIP |-> a.byIP, byCoSigner |-> a.byCoSigner]
  BY DEF AddAll
<1>5. a \in Registry
  <2> HIDE DEF a
  <2> QED BY <1>1, <1>2, <1>3, <1>4 DEF Registry
<1> QED BY <1>5

\* Removing a peer from a registry gives a registry.
LEMMA RemoveType ==
    ASSUME NEW r \in Registry, NEW w \in WgKey, NEW ip \in Address
    PROVE  Remove(r, w, ip) \in Registry
BY DEF Remove, Registry

\* A founding list is made of peers.
LEMMA FirstPeers ==
    ASSUME NEW s \in Founding, NEW n \in 0 .. Len(s)
    PROVE  First(s, n) \in SUBSET MeshPeer /\ Len(s) \in Nat /\ First(s, Len(s)) \in SUBSET MeshPeer
BY MeshAssumption DEF MeshAssumption, First

\* A peer that is taken has a key and an address new to the registry and to the
\* peers of the list before it.
LEMMA TakesNew ==
    ASSUME NEW r \in Registry, NEW s \in Founding, NEW i \in 1 .. Len(s), Takes(r, s, i)
    PROVE  /\ s[i] \in MeshPeer
           /\ r.peers[s[i].wg] = None /\ s[i].ip \notin r.byIP
           /\ \A j \in 1 .. i - 1 : s[j].wg # s[i].wg /\ s[j].ip # s[i].ip
<1> DEFINE P == First(s, i - 1)
<1>1. P \in SUBSET MeshPeer /\ s[i] \in MeshPeer /\ Len(s) \in Nat
  BY MeshAssumption DEF MeshAssumption, First
<1>2. s[i].wg \in WgKey /\ None \notin Address
  BY <1>1, MeshAssumption DEF MeshAssumption, MeshPeer
<1>3. AddAll(r, P).peers[s[i].wg] = None /\ s[i].ip \notin AddAll(r, P).byIP
  BY DEF Takes, CanAdd
<1>4. s[i].wg \notin Keys(P)
  <2> HIDE DEF P
  <2>1. SUFFICES ASSUME s[i].wg \in Keys(P) PROVE FALSE
    OBVIOUS
  <2>2. PICK p \in P : AddAll(r, P).peers[s[i].wg] = p.ip
    BY <1>1, <1>2, <2>1, AddAllPeers
  <2>3. p.ip \in Address
    BY <1>1, <2>2 DEF MeshPeer
  <2> QED BY <1>2, <1>3, <2>2, <2>3
<1>5. r.peers[s[i].wg] = None
  <2> HIDE DEF P
  <2> QED BY <1>1, <1>2, <1>3, <1>4, AddAllPeers
<1>6. s[i].ip \notin r.byIP /\ s[i].ip \notin {p.ip : p \in P}
  BY <1>3 DEF AddAll
<1>7. \A j \in 1 .. i - 1 : s[j] \in P
  BY DEF First
<1>8. \A j \in 1 .. i - 1 : s[j].wg # s[i].wg /\ s[j].ip # s[i].ip
  <2> HIDE DEF P
  <2> QED BY <1>4, <1>6, <1>7 DEF Keys
<1> QED BY <1>1, <1>5, <1>6, <1>8

\* The peers of a list that is taken whole are new to the registry, and no two
\* share a key or an address.
LEMMA ListDistinct ==
    ASSUME NEW r \in Registry, NEW s \in Founding, NEW n \in 0 .. Len(s), TakesAll(r, s, n)
    PROVE  /\ \A p \in First(s, n) : r.peers[p.wg] = None /\ p.ip \notin r.byIP
           /\ \A p, q \in First(s, n) : p # q => p.wg # q.wg /\ p.ip # q.ip
<1>1. Len(s) \in Nat /\ 1 .. n \subseteq 1 .. Len(s)
  BY MeshAssumption DEF MeshAssumption
<1>2. \A i \in 1 .. n :
        /\ r.peers[s[i].wg] = None /\ s[i].ip \notin r.byIP
        /\ \A j \in 1 .. i - 1 : s[j].wg # s[i].wg /\ s[j].ip # s[i].ip
  BY <1>1, TakesNew DEF TakesAll
<1>3. \A i, j \in 1 .. n : i # j => s[i].wg # s[j].wg /\ s[i].ip # s[j].ip
  <2> SUFFICES ASSUME NEW i \in 1 .. n, NEW j \in 1 .. n, i # j
               PROVE  s[i].wg # s[j].wg /\ s[i].ip # s[j].ip
    OBVIOUS
  <2>1. j \in 1 .. i - 1 \/ i \in 1 .. j - 1
    BY <1>1
  <2> QED BY <1>2, <2>1
<1> QED BY <1>2, <1>3 DEF First

-----------------------------------------------------------------------------
(* Open environment: the registry holds what the snapshot commits to, and a  *)
(* replay rebuilds it.                                                       *)

\* Inductive.
OpenInv ==
    /\ here \in Registry /\ there \in Registry
    /\ kv \in [WgKey -> Ip \cup {None, Tombstone}]
    /\ refused \in BOOLEAN
    /\ SnapshotIsRegistered
    /\ RebuiltMeshMatches

LEMMA OpenInit == Init => OpenInv
<1> SUFFICES ASSUME Init PROVE OpenInv
  OBVIOUS
<1>1. Empty \in Registry
  BY DEF Empty, Registry
<1>2. None \notin Ip
  BY MeshAssumption DEF MeshAssumption, Address
<1>3. \A w \in WgKey : kv[w] = None /\ there.peers[w] = None
  BY DEF Init, Empty
<1> QED BY <1>1, <1>2, <1>3 DEF Init, OpenInv, SnapshotIsRegistered, RebuiltMeshMatches

\* What is stored for an address.
LEMMA StoredIs ==
    ASSUME NEW ip \in Address \cup {None}
    PROVE  /\ Stored(ip) \in Ip \cup {None}
           /\ ip \in Ip \/ Stored(ip) \in Ip => Stored(ip) = ip
BY MeshAssumption DEF MeshAssumption, Stored, Address

\* Peers accepted: the host registers them, stores their addresses, and a replay
\* that takes them too registers the same.
LEMMA OpenAdded ==
    ASSUME OpenInv, NEW P \in SUBSET MeshPeer,
           here' = AddAll(here, P),
           there' \in {there, AddAll(there, P)}, refused' \in BOOLEAN,
           ~refused' => ~refused /\ there' = AddAll(there, P),
           kv' = [w \in WgKey |-> IF w \in Keys(P) THEN Stored(here'.peers[w]) ELSE kv[w]]
    PROVE  OpenInv'
<1>1. here' \in Registry /\ there' \in Registry
  BY AddAllType DEF OpenInv
<1>2. \A w \in WgKey : here'.peers[w] \in Address \cup {None}
  BY <1>1 DEF Registry
<1>3. kv' \in [WgKey -> Ip \cup {None, Tombstone}]
  BY <1>2, StoredIs DEF OpenInv
<1>4. \A w \in WgKey : w \notin Keys(P) => here'.peers[w] = here.peers[w] /\ kv'[w] = kv[w]
  BY AddAllPeers
<1>5. \A w \in WgKey : w \in Keys(P) => kv'[w] = Stored(here'.peers[w])
  OBVIOUS
<1>6. SnapshotIsRegistered'
  <2> SUFFICES ASSUME NEW w \in WgKey, kv'[w] \in Ip PROVE here'.peers[w] = kv'[w]
    BY DEF SnapshotIsRegistered
  <2>1. CASE w \in Keys(P)
    BY <1>2, <1>5, <2>1, StoredIs
  <2>2. CASE w \notin Keys(P)
    BY <1>4, <2>2 DEF OpenInv, SnapshotIsRegistered
  <2> QED BY <2>1, <2>2
<1>7. RebuiltMeshMatches'
  <2> SUFFICES ASSUME ~refused', NEW w \in WgKey, there'.peers[w] \in Ip \/ kv'[w] \in Ip
               PROVE  there'.peers[w] = kv'[w]
    BY DEF RebuiltMeshMatches
  <2>1. ~refused /\ there' = AddAll(there, P)
    OBVIOUS
  <2>2. CASE w \in Keys(P)
    <3>1. there'.peers[w] = here'.peers[w]
      BY <2>1, <2>2 DEF AddAll, Keys
    <3> QED BY <1>2, <1>5, <2>2, <3>1, StoredIs
  <2>3. CASE w \notin Keys(P)
    <3>1. there'.peers[w] = there.peers[w]
      BY <2>1, <2>3, AddAllPeers
    <3> QED BY <1>4, <2>1, <2>3, <3>1 DEF OpenInv, RebuiltMeshMatches
  <2> QED BY <2>2, <2>3
<1> QED BY <1>1, <1>3, <1>6, <1>7 DEF OpenInv

\* A founding list of the environment, accepted.
LEMMA OpenCreate ==
    ASSUME OpenInv, NEW s \in Founding, CreateGroup(s)
    PROVE  OpenInv'
<1> DEFINE P == First(s, Len(s))
<1>1. P \in SUBSET MeshPeer
  BY MeshAssumption DEF MeshAssumption, First
<1>2. /\ here' = AddAll(here, P) /\ there' \in {there, AddAll(there, P)}
      /\ refused' \in BOOLEAN /\ (~refused' => ~refused /\ there' = AddAll(there, P))
      /\ kv' = [w \in WgKey |-> IF w \in Keys(P) THEN Stored(here'.peers[w]) ELSE kv[w]]
  BY DEF CreateGroup, Replays, OpenInv
<1> HIDE DEF P
<1> QED BY <1>1, <1>2, OpenAdded

\* A peer without an entry may enter or leave the registry unnoticed.
LEMMA OpenAddRefused ==
    ASSUME OpenInv, NEW P \in SUBSET MeshPeer,
           \A w \in Keys(P) : kv[w] \notin Ip,
           here' = AddAll(here, P), Refuse
    PROVE  OpenInv'
<1>1. here' \in Registry
  BY AddAllType DEF OpenInv
<1>2. SnapshotIsRegistered'
  BY AddAllPeers DEF OpenInv, SnapshotIsRegistered, Refuse
<1> QED BY <1>1, <1>2 DEF OpenInv, Refuse, RebuiltMeshMatches

\* A key of a refused founding list that was registered had no entry.
LEMMA TakenHasNoEntry ==
    ASSUME OpenInv, NEW s \in Founding, NEW k \in 0 .. Len(s), TakesAll(here, s, k)
    PROVE  \A w \in Keys(First(s, k)) : kv[w] \notin Ip
<1>1. First(s, k) \in SUBSET MeshPeer
  BY FirstPeers
<1>2. \A p \in First(s, k) : here.peers[p.wg] = None
  BY ListDistinct DEF OpenInv
<1>3. None \notin Ip
  BY MeshAssumption DEF MeshAssumption, Address
<1>4. \A p \in First(s, k) : p.wg \in WgKey
  BY <1>1 DEF MeshPeer
<1> QED BY <1>2, <1>3, <1>4 DEF Keys, OpenInv, SnapshotIsRegistered

\* A refused CREATE_GROUP has registered a part of its list that is all new.
LEMMA RefusedList ==
    ASSUME NEW s \in Founding, CreateRefused(s)
    PROVE  \E k \in 0 .. Len(s) :
              /\ TakesAll(here, s, k) /\ here' = AddAll(here, First(s, k))
              /\ Declares(First(s, k))
<1>1. PICK n \in DOMAIN s :
        /\ TakesAll(here, s, n - 1)
        /\ LET k == IF Takes(here, s, n) THEN n ELSE n - 1
           IN here' = AddAll(here, First(s, k)) /\ Declares(First(s, k))
  BY DEF CreateRefused
<1> DEFINE k == IF Takes(here, s, n) THEN n ELSE n - 1
<1>2. Len(s) \in Nat /\ n \in 1 .. Len(s)
  BY MeshAssumption DEF MeshAssumption
<1>3. k \in 0 .. Len(s)
  BY <1>2
<1>4. TakesAll(here, s, k)
  BY <1>1, <1>2 DEF TakesAll
<1>5. here' = AddAll(here, First(s, k)) /\ Declares(First(s, k))
  BY <1>1
<1> HIDE DEF k
<1> QED BY <1>3, <1>4, <1>5

\* A refused CREATE_GROUP.
LEMMA OpenCreateRefused ==
    ASSUME OpenInv, NEW s \in Founding, CreateRefused(s)
    PROVE  OpenInv'
<1>1. PICK k \in 0 .. Len(s) : TakesAll(here, s, k) /\ here' = AddAll(here, First(s, k))
  BY RefusedList
<1>2. First(s, k) \in SUBSET MeshPeer
  BY FirstPeers
<1>3. \A w \in Keys(First(s, k)) : kv[w] \notin Ip
  BY <1>1, TakenHasNoEntry
<1>4. Refuse
  BY DEF CreateRefused
<1> QED BY <1>1, <1>2, <1>3, <1>4, OpenAddRefused

\* ADD_HOST_PEER, accepted.
LEMMA OpenAdd ==
    ASSUME OpenInv, NEW w \in WgKey, NEW ip \in Ip, NEW co \in CoKey, AddHostPeer(w, ip, co)
    PROVE  OpenInv'
<1> DEFINE P == {NewPeer(w, ip, co)}
<1>1. /\ here' = AddAll(here, P) /\ there' \in {there, AddAll(there, P)}
      /\ refused' \in BOOLEAN /\ (~refused' => ~refused /\ there' = AddAll(there, P))
      /\ kv' = [kv EXCEPT ![w] = ip]
  BY DEF AddHostPeer, Replays, OpenInv
<1>2. P \in SUBSET MeshPeer /\ Keys(P) = {w} /\ \A p \in P : p.ip = ip
  BY DEF NewPeer, MeshPeer, Keys, Address
<1> HIDE DEF P
<1>5. AddAll(here, P).peers[w] = ip
  BY <1>2, AddAllPeers
<1>3. Stored(ip) = ip
  BY MeshAssumption DEF MeshAssumption, Stored
<1>4. kv' = [v \in WgKey |-> IF v \in Keys(P) THEN Stored(here'.peers[v]) ELSE kv[v]]
  BY <1>1, <1>2, <1>3, <1>5 DEF OpenInv
<1> QED BY <1>1, <1>2, <1>4, OpenAdded

\* ADD_HOST_PEER, refused.
LEMMA OpenAddIsRefused ==
    ASSUME OpenInv, NEW w \in WgKey, NEW ip \in Ip, NEW co \in CoKey, AddRefused(w, ip, co)
    PROVE  OpenInv'
<1> DEFINE P == {NewPeer(w, ip, co)}
<1>1. P \in SUBSET MeshPeer /\ Keys(P) = {w}
  BY DEF NewPeer, MeshPeer, Keys, Address
<1>2. here.peers[w] = None /\ None \notin Ip
  BY MeshAssumption DEF AddRefused, MayAdd, CanAdd, NewPeer, MeshAssumption, Address
<1>3. kv[w] \notin Ip
  BY <1>2 DEF OpenInv, SnapshotIsRegistered
<1>4. here' = AddAll(here, P) /\ Refuse
  BY DEF AddRefused
<1> HIDE DEF P
<1> QED BY <1>1, <1>3, <1>4, OpenAddRefused

\* A removal is refused only for a key without an entry.
LEMMA RefusedHasNoEntry ==
    ASSUME NEW w \in WgKey, NEW ip \in Address, RemoveRefused(w, ip),
           Cardinality(Entries) + others <= MaxKVSize
    PROVE  kv[w] = None
<1>1. SUFFICES ASSUME kv[w] # None PROVE FALSE
  OBVIOUS
<1>2. Entries \cup {w} = Entries
  BY <1>1 DEF Entries
<1> QED BY <1>2 DEF RemoveRefused, HasRoom

\* REMOVE_HOST_PEER, accepted or refused.
LEMMA OpenRemove ==
    ASSUME OpenInv, NEW w \in WgKey, NEW ip \in Address,
           Cardinality(Entries) + others <= MaxKVSize,
           RemoveHostPeer(w, ip) \/ RemoveRefused(w, ip)
    PROVE  OpenInv'
<1>1. Tombstone \notin Ip /\ None \notin Ip
  BY MeshAssumption DEF MeshAssumption, Address
<1>2. \A r \in Registry : /\ \A v \in WgKey \ {w} : Remove(r, w, ip).peers[v] = r.peers[v]
                          /\ Remove(r, w, ip).peers[w] = None
  BY DEF Remove, Registry
<1>3. CASE RemoveHostPeer(w, ip)
  <2>1. here' = Remove(here, w, ip) /\ there' \in {there, Remove(there, w, ip)}
        /\ kv' = [kv EXCEPT ![w] = Tombstone] /\ refused' \in BOOLEAN
    BY <1>3 DEF RemoveHostPeer, Replays, OpenInv
  <2>2. here' \in Registry /\ there' \in Registry
    BY <2>1, RemoveType DEF OpenInv
  <2>3. kv' \in [WgKey -> Ip \cup {None, Tombstone}]
    BY <2>1 DEF OpenInv
  <2>4. kv'[w] = Tombstone /\ \A v \in WgKey \ {w} : kv'[v] = kv[v]
    BY <2>1 DEF OpenInv
  <2>5. SnapshotIsRegistered'
    BY <1>1, <1>2, <2>1, <2>4 DEF OpenInv, SnapshotIsRegistered
  <2>6. RebuiltMeshMatches'
    <3> SUFFICES ASSUME ~refused' PROVE RebuiltMeshMatches'
      BY DEF RebuiltMeshMatches
    <3>1. ~refused /\ there' = Remove(there, w, ip)
      BY <1>3 DEF RemoveHostPeer, Replays, OpenInv
    <3>2. /\ there'.peers[w] = None
          /\ \A v \in WgKey \ {w} : there'.peers[v] = there.peers[v]
      BY <1>2, <3>1 DEF OpenInv
    <3> QED BY <1>1, <2>4, <3>1, <3>2 DEF OpenInv, RebuiltMeshMatches
  <2> QED BY <2>1, <2>2, <2>3, <2>5, <2>6 DEF OpenInv
<1>4. CASE RemoveRefused(w, ip)
  <2>1. kv[w] = None /\ here' = Remove(here, w, ip) /\ Refuse
    BY <1>4, RefusedHasNoEntry DEF RemoveRefused
  <2>2. here' \in Registry
    BY <2>1, RemoveType DEF OpenInv
  <2>3. SnapshotIsRegistered'
    BY <1>1, <1>2, <2>1 DEF OpenInv, SnapshotIsRegistered, Refuse
  <2> QED BY <2>1, <2>2, <2>3 DEF OpenInv, Refuse, RebuiltMeshMatches
<1> QED BY <1>3, <1>4

\* Every step of the group keeps the invariant.
LEMMA OpenStep ==
    ASSUME OpenInv, Cardinality(Entries) + others <= MaxKVSize, [Next]_vars
    PROVE  OpenInv'
<1>1. CASE \E s \in Founding : CreateGroup(s) \/ CreateRefused(s)
  BY <1>1, OpenCreate, OpenCreateRefused
<1>2. CASE \E w \in WgKey : \E ip \in Address : RemoveHostPeer(w, ip) \/ RemoveRefused(w, ip)
  BY <1>2, OpenRemove
<1>3. CASE \E w \in WgKey : \E ip \in Ip, co \in CoKey :
              AddHostPeer(w, ip, co) \/ AddRefused(w, ip, co)
  BY <1>3, OpenAdd, OpenAddIsRefused
<1>4. CASE OtherEntry
  BY <1>4 DEF OtherEntry, OpenInv, SnapshotIsRegistered, RebuiltMeshMatches
<1>5. CASE Restart
  BY <1>5 DEF Restart, OpenInv, SnapshotIsRegistered, RebuiltMeshMatches
<1>6. CASE UNCHANGED vars
  BY <1>6 DEF vars, OpenInv, SnapshotIsRegistered, RebuiltMeshMatches
<1> QED BY <1>1, <1>2, <1>3, <1>4, <1>5, <1>6 DEF Next

-----------------------------------------------------------------------------
(* Type correctness, with the snapshot's cap.                               *)

TypeInv == OpenInv /\ TypeOK

\* Entries for which there is room are under the cap.
LEMMA RoomKept ==
    ASSUME NEW W, HasRoom(W), Entries' = W, others' = others
    PROVE  Cardinality(Entries') + others' <= MaxKVSize
BY DEF HasRoom

\* A step that leaves the snapshot alone leaves it under its cap.
LEMMA SameEntries ==
    ASSUME TypeOK, kv' = kv, others' = others
    PROVE  Cardinality(Entries') + others' <= MaxKVSize
BY DEF TypeOK, Entries

\* The history of declarations keeps its type.
LEMMA DeclaresType ==
    ASSUME TypeOK, NEW P \in SUBSET MeshPeer, Declares(P)
    PROVE  declared' \in [CoKey -> SUBSET WgKey]
<1>1. \A c \in CoKey : {p.wg : p \in {q \in P : q.co = c}} \subseteq WgKey
  BY DEF MeshPeer
<1>2. \A c \in CoKey : declared[c] \subseteq WgKey
  BY DEF TypeOK
<1> QED BY <1>1, <1>2 DEF Declares

\* What a founding list leaves in the snapshot: the peers with an address have
\* an entry, the ones without have none.
LEMMA EntriesStored ==
    ASSUME NEW P \in SUBSET MeshPeer, \A p, q \in P : p # q => p.wg # q.wg, NEW r,
           kv' = [w \in WgKey |-> IF w \in Keys(P) THEN Stored(AddAll(r, P).peers[w])
                                  ELSE kv[w]]
    PROVE  Entries' = EntriesWith(P)
<1>1. \A w \in WgKey : w \notin Keys(P) => (w \in Entries' <=> w \in Entries)
  BY DEF Entries
<1>2. \A p \in P : p.wg \in WgKey /\ p.ip \in Address /\ p.wg \in Keys(P)
  BY DEF MeshPeer, Keys
<1>3. ASSUME NEW p \in P PROVE p.wg \in Entries' <=> p.ip # NoIp
  <2>1. AddAll(r, P).peers[p.wg] = p.ip
    BY <1>2, AddAllPeers
  <2>2. kv'[p.wg] = Stored(p.ip)
    BY <1>2, <2>1
  <2>3. Stored(p.ip) = None <=> p.ip = NoIp
    BY <1>2, MeshAssumption DEF Stored, MeshAssumption
  <2> QED BY <1>2, <2>2, <2>3 DEF Entries
<1>4. \A w \in WgKey : w \in Keys(P) =>
        (w \in Entries' <=> w \in Keys({p \in P : p.ip # NoIp}))
  <2> SUFFICES ASSUME NEW p \in P
               PROVE  p.wg \in Entries' <=> p.wg \in Keys({q \in P : q.ip # NoIp})
    BY DEF Keys
  <2>1. p.wg \in Keys({q \in P : q.ip # NoIp}) <=> p.ip # NoIp
    BY DEF Keys
  <2> QED BY <1>3, <2>1
<1>5. Entries' \subseteq WgKey /\ Entries \subseteq WgKey
  BY DEF Entries
<1>6. Keys({p \in P : p.ip # NoIp}) \subseteq Keys(P) /\ Keys(P) \subseteq WgKey
  BY <1>2 DEF Keys
<1> QED BY <1>1, <1>4, <1>5, <1>6 DEF EntriesWith

LEMMA TypeCreate ==
    ASSUME TypeInv, NEW s \in Founding, CreateGroup(s) \/ CreateRefused(s), OpenInv'
    PROVE  TypeOK'
<1>1. CASE CreateGroup(s)
  <2> DEFINE P == First(s, Len(s))
  <2>1. P \in SUBSET MeshPeer /\ Len(s) \in Nat
    BY MeshAssumption DEF MeshAssumption, First
  <2>2. \A p, q \in P : p # q => p.wg # q.wg
    BY <1>1, <2>1, ListDistinct DEF CreateGroup, TypeInv, OpenInv
  <2>3. HasRoom(EntriesWith(P))
    <3>1. CASE Len(s) = 0
      <4>1. P = {}
        BY <3>1 DEF First
      <4> HIDE DEF P
      <4>2. EntriesWith(P) = Entries
        BY <4>1 DEF EntriesWith, Keys
      <4> QED BY <4>2 DEF HasRoom, TypeInv, TypeOK
    <3>2. CASE Len(s) # 0
      BY <1>1, <2>1, <3>2 DEF CreateGroup, Writes
    <3> QED BY <3>1, <3>2
  <2>4. /\ here' = AddAll(here, P) /\ others' = others
        /\ kv' = [w \in WgKey |-> IF w \in Keys(P) THEN Stored(AddAll(here, P).peers[w])
                                  ELSE kv[w]]
    BY <1>1 DEF CreateGroup
  <2>5. declared' \in [CoKey -> SUBSET WgKey]
    BY <1>1, <2>1, DeclaresType DEF CreateGroup, TypeInv
  <2> HIDE DEF P
  <2>6. Entries' = EntriesWith(P)
    BY <2>1, <2>2, <2>4, EntriesStored
  <2>7. Cardinality(Entries') + others' <= MaxKVSize
    BY <2>3, <2>4, <2>6, RoomKept
  <2> QED BY <2>4, <2>5, <2>7 DEF TypeInv, TypeOK, OpenInv
<1>2. CASE CreateRefused(s)
  <2>1. PICK k \in 0 .. Len(s) : Declares(First(s, k))
    BY <1>2, RefusedList
  <2>2. First(s, k) \in SUBSET MeshPeer
    BY FirstPeers
  <2>3. declared' \in [CoKey -> SUBSET WgKey]
    BY <2>1, <2>2, DeclaresType DEF TypeInv
  <2>4. kv' = kv /\ others' = others
    BY <1>2 DEF CreateRefused, Refuse
  <2>5. Cardinality(Entries') + others' <= MaxKVSize
    BY <2>4, SameEntries DEF TypeInv
  <2> QED BY <2>3, <2>4, <2>5 DEF TypeInv, TypeOK, OpenInv
<1> QED BY <1>1, <1>2

\* One entry of the mesh is written, or none.
LEMMA TypePeer ==
    ASSUME TypeInv, NEW w \in WgKey, OpenInv',
           \/ \E ip \in Address : RemoveHostPeer(w, ip) \/ RemoveRefused(w, ip)
           \/ \E ip \in Ip, co \in CoKey : AddHostPeer(w, ip, co) \/ AddRefused(w, ip, co)
    PROVE  TypeOK'
<1>1. others' = others /\ declared' = declared
  BY DEF RemoveHostPeer, RemoveRefused, AddHostPeer, AddRefused, Refuse
<1>2. \/ kv' = kv
      \/ /\ HasRoom(Entries \cup {w})
         /\ \E v \in Ip \cup {Tombstone} : kv' = [kv EXCEPT ![w] = v]
  BY DEF RemoveHostPeer, RemoveRefused, AddHostPeer, AddRefused, Refuse
<1>3. CASE kv' = kv
  BY <1>1, <1>3, SameEntries DEF TypeInv, TypeOK, OpenInv
<1>4. CASE /\ HasRoom(Entries \cup {w})
           /\ \E v \in Ip \cup {Tombstone} : kv' = [kv EXCEPT ![w] = v]
  <2>1. PICK v \in Ip \cup {Tombstone} : kv' = [kv EXCEPT ![w] = v]
    BY <1>4
  <2>2. v # None
    BY MeshAssumption DEF MeshAssumption, Address
  <2>3. Entries' = Entries \cup {w}
    BY <2>1, <2>2 DEF Entries, TypeInv, OpenInv
  <2>4. Cardinality(Entries') + others' <= MaxKVSize
    BY <1>1, <1>4, <2>3, RoomKept
  <2> QED BY <1>1, <2>4 DEF TypeInv, TypeOK, OpenInv
<1> QED BY <1>2, <1>3, <1>4

LEMMA TypeInit == Init => TypeInv
<1> SUFFICES ASSUME Init PROVE TypeInv
  OBVIOUS
<1>1. Entries = {}
  BY DEF Init, Entries
<1>2. Cardinality(Entries) + others <= MaxKVSize
  BY <1>1, FS_EmptySet, MeshAssumption DEF Init, MeshAssumption
<1>3. declared \in [CoKey -> SUBSET WgKey]
  BY DEF Init
<1> QED BY <1>2, <1>3, OpenInit DEF Init, TypeInv, TypeOK, OpenInv

LEMMA TypeStep == TypeInv /\ [Next]_vars => TypeInv'
<1> SUFFICES ASSUME TypeInv, [Next]_vars PROVE TypeInv'
  OBVIOUS
<1>1. OpenInv'
  <2>1. Cardinality(Entries) + others <= MaxKVSize
    BY DEF TypeInv, TypeOK
  <2> QED BY <2>1, OpenStep DEF TypeInv
<1>2. CASE \E s \in Founding : CreateGroup(s) \/ CreateRefused(s)
  BY <1>1, <1>2, TypeCreate DEF TypeInv
<1>3. CASE \E w \in WgKey :
             \/ \E ip \in Address : RemoveHostPeer(w, ip) \/ RemoveRefused(w, ip)
             \/ \E ip \in Ip, co \in CoKey : AddHostPeer(w, ip, co) \/ AddRefused(w, ip, co)
  BY <1>1, <1>3, TypePeer DEF TypeInv
<1>4. CASE OtherEntry
  <2>1. Entries' = Entries /\ others' = others + 1
    BY <1>4 DEF OtherEntry, Entries
  <2>2. Cardinality(Entries) \in Nat
    <3>1. Entries \subseteq WgKey
      BY DEF Entries
    <3> QED BY <3>1, MeshAssumption, FS_Subset, FS_CardinalityType DEF MeshAssumption
  <2>3. Cardinality(Entries') + others' <= MaxKVSize
    BY <1>4, <2>1, <2>2, MeshAssumption DEF MeshAssumption, OtherEntry, TypeInv, TypeOK
  <2> QED BY <1>1, <1>4, <2>3 DEF OtherEntry, TypeInv, TypeOK, OpenInv
<1>5. CASE Restart
  <2>1. Cardinality(Entries') + others' <= MaxKVSize
    BY <1>5, SameEntries DEF Restart, TypeInv
  <2> QED BY <1>1, <1>5, <2>1 DEF Restart, TypeInv, TypeOK, OpenInv
<1>6. CASE UNCHANGED vars
  <2>1. Cardinality(Entries') + others' <= MaxKVSize
    BY <1>6, SameEntries DEF vars, TypeInv
  <2> QED BY <1>1, <1>6, <2>1 DEF vars, TypeInv, TypeOK, OpenInv
<1> QED BY <1>2, <1>3, <1>4, <1>5, <1>6 DEF Next

\* Every reachable state is well typed, and the mesh's entries never outgrow
\* the snapshot they share with the others.
THEOREM TypeCorrect == Spec => []TypeOK
<1>1. TypeInv => TypeOK
  BY DEF TypeInv
<1> QED BY <1>1, TypeInit, TypeStep, PTL DEF Spec

\* The registry holds every member the snapshot's mesh_peer/ entries name, at
\* the address they name: Apply writes the registry and the entry of one
\* transition together, a refusal touches only keys without an entry, and a
\* restart replays all that was accepted.
THEOREM SnapshotRegistered == Spec => []SnapshotIsRegistered
<1>1. TypeInv => SnapshotIsRegistered
  BY DEF TypeInv, OpenInv
<1> QED BY <1>1, TypeInit, TypeStep, PTL DEF Spec

\* As long as a replay of the accepted transitions refuses none of them, the
\* peers with an address that it rebuilds are exactly those the snapshot names,
\* whatever the host refused half way and whatever addresses were left empty.
THEOREM RebuiltMatches == Spec => []RebuiltMeshMatches
<1>1. TypeInv => RebuiltMeshMatches
  BY DEF TypeInv, OpenInv
<1> QED BY <1>1, TypeInit, TypeStep, PTL DEF Spec

-----------------------------------------------------------------------------
(* Disciplined environment: a replay accepts what the host accepted, and no  *)
(* address is shared.                                                        *)

\* The address index is exactly the members' addresses, none shared.
Exact(r)  == r.byIP = {r.peers[w] : w \in Members(r)}
Unique(r) == \A v, w \in Members(r) : r.peers[v] = r.peers[w] => v = w

\* The registry b has all that a has.
Below(a, b) ==
    /\ \A w \in Members(a) : b.peers[w] = a.peers[w]
    /\ a.byIP \subseteq b.byIP

\* Inductive: the replay's registry is a part of the host's, which may have more
\* from what was refused half way.
OrderlyInv ==
    /\ TypeInv
    /\ ~refused
    /\ Exact(here) /\ Unique(here) /\ Exact(there)
    /\ Below(there, here)

LEMMA OrderlyInit == Init => OrderlyInv
<1> SUFFICES ASSUME Init PROVE OrderlyInv
  OBVIOUS
<1>1. Members(Empty) = {} /\ Empty.byIP = {}
  BY DEF Empty, Members
<1>2. here = Empty /\ there = Empty /\ ~refused
  BY DEF Init
<1> QED BY <1>1, <1>2, TypeInit DEF OrderlyInv, Exact, Unique, Below

\* A set of peers with new keys and addresses, none shared, enters a registry
\* whose address index is exact.
LEMMA AddDistinct ==
    ASSUME NEW r \in Registry, Exact(r), Unique(r), NEW P \in SUBSET MeshPeer,
           \A p \in P : r.peers[p.wg] = None /\ p.ip \notin r.byIP,
           \A p, q \in P : p # q => p.wg # q.wg /\ p.ip # q.ip
    PROVE  Exact(AddAll(r, P)) /\ Unique(AddAll(r, P))
<1> DEFINE a == AddAll(r, P)
<1>1. \A w \in WgKey \ Keys(P) : a.peers[w] = r.peers[w]
  BY AddAllPeers
<1>2. \A w \in Keys(P) : \E p \in P : p.wg = w /\ a.peers[w] = p.ip
  BY AddAllPeers DEF Keys, MeshPeer
<1>3. Keys(P) \subseteq WgKey /\ \A p \in P : p.ip \in Address /\ p.wg \in Keys(P)
  BY DEF Keys, MeshPeer
<1>4. None \notin Address
  BY MeshAssumption DEF MeshAssumption
<1>5. a.byIP = r.byIP \cup {p.ip : p \in P}
  BY DEF AddAll
<1>6. \A w \in Keys(P) : r.peers[w] = None
  BY DEF Keys
<1> HIDE DEF a
<1>7. Members(a) = Members(r) \cup Keys(P)
  BY <1>1, <1>2, <1>3, <1>4, <1>6 DEF Members
<1>8. \A w \in Members(r) : w \notin Keys(P) /\ a.peers[w] = r.peers[w] /\ r.peers[w] \in r.byIP
  BY <1>1, <1>6 DEF Members, Exact
<1>9. a.byIP \subseteq {a.peers[w] : w \in Members(a)}
  <2>1. \A p \in P : p.ip = a.peers[p.wg]
    BY <1>2, <1>3
  <2> QED BY <1>3, <1>5, <1>7, <1>8, <2>1 DEF Exact
<1>10. {a.peers[w] : w \in Members(a)} \subseteq a.byIP
  BY <1>2, <1>5, <1>7, <1>8 DEF Exact
<1>11. ASSUME NEW v \in Members(a), NEW w \in Members(a), a.peers[v] = a.peers[w]
       PROVE  v = w
  <2>1. CASE v \in Members(r) /\ w \in Members(r)
    BY <1>8, <1>11, <2>1 DEF Unique
  <2>2. CASE v \in Keys(P) /\ w \in Keys(P)
    BY <1>2, <1>11, <2>2
  <2>3. CASE v \in Members(r) /\ w \in Keys(P)
    BY <1>2, <1>8, <1>11, <2>3
  <2>4. CASE v \in Keys(P) /\ w \in Members(r)
    BY <1>2, <1>8, <1>11, <2>4
  <2> QED BY <1>7, <2>1, <2>2, <2>3, <2>4
<1>12. Exact(a) /\ Unique(a)
  BY <1>7, <1>9, <1>10, <1>11 DEF Exact, Unique
<1> QED BY <1>12 DEF a

\* What is below a registry without shared addresses shares none.
LEMMA BelowUnique ==
    ASSUME NEW a, NEW b, Below(a, b), Unique(b), None \notin Address,
           a \in Registry
    PROVE  Unique(a) /\ Members(a) \subseteq Members(b)
<1>1. \A w \in Members(a) : w \in WgKey /\ a.peers[w] # None /\ b.peers[w] = a.peers[w]
  BY DEF Below, Members
<1>2. Members(a) \subseteq Members(b)
  BY <1>1 DEF Members
<1> QED BY <1>1, <1>2 DEF Unique

\* Adding the same peers, new to the larger registry, keeps the order.
LEMMA BelowAdded ==
    ASSUME NEW a, NEW b, Below(a, b), NEW P \in SUBSET MeshPeer
    PROVE  Below(AddAll(a, P), AddAll(b, P))
<1>1. ASSUME NEW w \in Members(AddAll(a, P))
      PROVE  AddAll(b, P).peers[w] = AddAll(a, P).peers[w]
  <2>1. w \in WgKey /\ AddAll(a, P).peers[w] # None
    BY DEF Members
  <2>2. CASE w \in Keys(P)
    BY <2>1, <2>2 DEF AddAll, Keys
  <2>3. CASE w \notin Keys(P)
    <3>1. AddAll(a, P).peers[w] = a.peers[w] /\ AddAll(b, P).peers[w] = b.peers[w]
      BY <2>1, <2>3, AddAllPeers
    <3> QED BY <2>1, <3>1 DEF Below, Members
  <2> QED BY <2>2, <2>3
<1>2. AddAll(a, P).byIP \subseteq AddAll(b, P).byIP
  BY DEF AddAll, Below
<1> QED BY <1>1, <1>2 DEF Below

\* Adding new peers to the larger registry alone keeps it too.
LEMMA BelowMore ==
    ASSUME NEW a, NEW b, Below(a, b), NEW P \in SUBSET MeshPeer,
           \A p \in P : b.peers[p.wg] = None
    PROVE  Below(a, AddAll(b, P))
<1>1. ASSUME NEW w \in Members(a) PROVE AddAll(b, P).peers[w] = a.peers[w]
  <2>1. w \in WgKey /\ b.peers[w] = a.peers[w] /\ a.peers[w] # None
    BY DEF Below, Members
  <2>2. w \notin Keys(P)
    BY <2>1 DEF Keys
  <2> QED BY <2>1, <2>2, AddAllPeers
<1>2. a.byIP \subseteq AddAll(b, P).byIP
  BY DEF AddAll, Below
<1> QED BY <1>1, <1>2 DEF Below

\* What is new to the larger registry is new to the smaller one.
LEMMA CanAddBelow ==
    ASSUME NEW a, NEW b, Below(a, b), NEW p \in MeshPeer, CanAdd(b, p)
    PROVE  CanAdd(a, p)
<1>1. p.wg \in WgKey
  BY DEF MeshPeer
<1> QED BY <1>1 DEF CanAdd, Below, Members

\* A founding list accepted.
LEMMA OrderlyCreate ==
    ASSUME OrderlyInv, NEW s \in Founding, CreateGroup(s), TypeInv'
    PROVE  OrderlyInv'
<1> DEFINE P == First(s, Len(s))
<1>1. P \in SUBSET MeshPeer /\ Len(s) \in Nat /\ \A i \in 1 .. Len(s) : s[i] \in MeshPeer
  BY MeshAssumption DEF MeshAssumption, First
<1>2. here \in Registry /\ there \in Registry /\ Below(there, here)
  BY DEF OrderlyInv, TypeInv, OpenInv
<1>3. TakesAll(here, s, Len(s))
  BY DEF CreateGroup
<1>4. TakesAll(there, s, Len(s))
  <2> SUFFICES ASSUME NEW i \in 1 .. Len(s) PROVE Takes(there, s, i)
    BY DEF TakesAll
  <2>1. CanAdd(AddAll(here, First(s, i - 1)), s[i])
    BY <1>3 DEF TakesAll, Takes
  <2>2. i - 1 \in 0 .. Len(s)
    BY <1>1
  <2>3. First(s, i - 1) \in SUBSET MeshPeer
    BY <2>2, FirstPeers
  <2>4. Below(AddAll(there, First(s, i - 1)), AddAll(here, First(s, i - 1)))
    BY <1>2, <2>3, BelowAdded
  <2> QED BY <1>1, <2>1, <2>4, CanAddBelow DEF Takes
<1>5. here' = AddAll(here, P) /\ there' = AddAll(there, P) /\ ~refused'
  BY <1>4 DEF CreateGroup, Replays, OrderlyInv
<1>6. Len(s) \in 0 .. Len(s)
  BY <1>1
<1>7. /\ \A p \in P : here.peers[p.wg] = None /\ p.ip \notin here.byIP
      /\ \A p \in P : there.peers[p.wg] = None /\ p.ip \notin there.byIP
      /\ \A p, q \in P : p # q => p.wg # q.wg /\ p.ip # q.ip
  BY <1>2, <1>3, <1>4, <1>6, ListDistinct
<1>8. Unique(there)
  BY <1>2, BelowUnique, MeshAssumption DEF OrderlyInv, MeshAssumption
<1> HIDE DEF P
<1>9. Exact(here') /\ Unique(here') /\ Exact(there')
  BY <1>1, <1>2, <1>5, <1>7, <1>8, AddDistinct DEF OrderlyInv
<1>10. Below(there', here')
  BY <1>1, <1>2, <1>5, BelowAdded
<1> QED BY <1>5, <1>9, <1>10 DEF OrderlyInv, Exact, Unique, Below, Members

\* Peers registered by a transition that was refused.
LEMMA OrderlyRefused ==
    ASSUME OrderlyInv, NEW P \in SUBSET MeshPeer,
           \A p \in P : here.peers[p.wg] = None /\ p.ip \notin here.byIP,
           \A p, q \in P : p # q => p.wg # q.wg /\ p.ip # q.ip,
           here' = AddAll(here, P), Refuse, TypeInv'
    PROVE  OrderlyInv'
<1>1. here \in Registry /\ Below(there, here) /\ there' = there /\ ~refused'
  BY DEF OrderlyInv, TypeInv, OpenInv, Refuse
<1>2. Exact(here') /\ Unique(here')
  BY <1>1, AddDistinct DEF OrderlyInv
<1>3. Below(there, here')
  BY <1>1, BelowMore
<1> QED BY <1>1, <1>2, <1>3 DEF OrderlyInv, Exact, Unique, Below, Members

LEMMA OrderlyCreateRefused ==
    ASSUME OrderlyInv, NEW s \in Founding, CreateRefused(s), TypeInv'
    PROVE  OrderlyInv'
<1>1. PICK k \in 0 .. Len(s) : TakesAll(here, s, k) /\ here' = AddAll(here, First(s, k))
  BY RefusedList
<1>2. First(s, k) \in SUBSET MeshPeer
  BY FirstPeers
<1>3. /\ \A p \in First(s, k) : here.peers[p.wg] = None /\ p.ip \notin here.byIP
      /\ \A p, q \in First(s, k) : p # q => p.wg # q.wg /\ p.ip # q.ip
  BY <1>1, ListDistinct DEF OrderlyInv, TypeInv, OpenInv
<1>4. Refuse
  BY DEF CreateRefused
<1> QED BY <1>1, <1>2, <1>3, <1>4, OrderlyRefused

\* ADD_HOST_PEER, vouched for under a key the replay knows.
LEMMA OrderlyAdd ==
    ASSUME OrderlyInv, NEW w \in WgKey, NEW ip \in Ip, NEW co \in there.byCoSigner,
           AddHostPeer(w, ip, co) \/ AddRefused(w, ip, co), TypeInv'
    PROVE  OrderlyInv'
<1> DEFINE p == NewPeer(w, ip, co)
           P == {p}
<1>1. here \in Registry /\ there \in Registry /\ Below(there, here)
  BY DEF OrderlyInv, TypeInv, OpenInv
<1>2. p \in MeshPeer /\ p.wg = w /\ p.ip = ip /\ p.co = co
  BY <1>1 DEF NewPeer, MeshPeer, Address, Registry
<1>3. MayAdd(here, p)
  BY DEF AddHostPeer, AddRefused
<1>4. CanAdd(here, p) /\ here' = AddAll(here, P)
  BY <1>3 DEF MayAdd, AddHostPeer, AddRefused
<1> HIDE DEF p
<1>5. P \in SUBSET MeshPeer /\ \A q \in P : q = p
  BY <1>2
<1>6. CanAdd(there, p)
  BY <1>1, <1>2, <1>4, CanAddBelow
<1>7. /\ \A q \in P : here.peers[q.wg] = None /\ q.ip \notin here.byIP
      /\ \A q \in P : there.peers[q.wg] = None /\ q.ip \notin there.byIP
      /\ \A q, v \in P : q # v => q.wg # v.wg /\ q.ip # v.ip
  BY <1>4, <1>5, <1>6 DEF CanAdd
<1>8. Unique(there) /\ Members(there) \subseteq Members(here)
  BY <1>1, BelowUnique, MeshAssumption DEF OrderlyInv, MeshAssumption
<1>9. CASE AddHostPeer(w, ip, co)
  <2>1. UnderCap(there)
    <3>1. Members(here) \subseteq WgKey
      BY DEF Members
    <3>2. IsFiniteSet(Members(here))
      BY <3>1, FS_Subset, MeshAssumption DEF MeshAssumption
    <3>3. /\ Cardinality(Members(there)) <= Cardinality(Members(here))
          /\ Cardinality(Members(there)) \in Nat /\ Cardinality(Members(here)) \in Nat
      BY <1>8, <3>2, FS_Subset, FS_CardinalityType
    <3> QED BY <1>3, <3>3, MeshAssumption DEF MayAdd, UnderCap, MeshAssumption
  <2>2. MayAdd(there, p)
    BY <1>2, <1>6, <2>1 DEF MayAdd
  <2>3. there' = AddAll(there, P) /\ ~refused'
    BY <1>9, <2>2 DEF AddHostPeer, Replays, OrderlyInv, p
  <2> HIDE DEF P
  <2>4. Exact(here') /\ Unique(here') /\ Exact(there')
    BY <1>1, <1>4, <1>5, <1>7, <1>8, <2>3, AddDistinct DEF OrderlyInv
  <2>5. Below(there', here')
    BY <1>1, <1>4, <1>5, <2>3, BelowAdded
  <2> QED BY <2>3, <2>4, <2>5 DEF OrderlyInv, Exact, Unique, Below, Members
<1>10. CASE AddRefused(w, ip, co)
  <2>1. Refuse
    BY <1>10 DEF AddRefused
  <2> HIDE DEF P
  <2> QED BY <1>4, <1>5, <1>7, <2>1, OrderlyRefused
<1> QED BY <1>9, <1>10

\* Removing a member at its own address keeps the address index exact.
LEMMA RemoveExact ==
    ASSUME NEW r \in Registry, Exact(r), Unique(r), NEW w \in WgKey, NEW ip \in Ip,
           r.peers[w] = ip
    PROVE  LET q == Remove(r, w, ip)
           IN /\ Exact(q) /\ Unique(q)
              /\ q.byIP = r.byIP \ {ip}
              /\ \A v \in WgKey : q.peers[v] = IF v = w THEN None ELSE r.peers[v]
<1> DEFINE q == Remove(r, w, ip)
<1>1. /\ q.byIP = r.byIP \ {ip}
      /\ \A v \in WgKey : q.peers[v] = IF v = w THEN None ELSE r.peers[v]
  BY DEF Remove, Registry
<1> HIDE DEF q
<1>2. Members(q) = Members(r) \ {w} /\ w \in Members(r)
  BY <1>1, MeshAssumption DEF Members, MeshAssumption, Address
<1>3. \A v \in Members(q) : q.peers[v] = r.peers[v] /\ r.peers[v] # ip
  BY <1>1, <1>2 DEF Unique, Members
<1>4. q.byIP = {q.peers[v] : v \in Members(q)}
  BY <1>1, <1>2, <1>3 DEF Exact
<1>5. Unique(q)
  BY <1>2, <1>3 DEF Unique
<1> QED BY <1>1, <1>4, <1>5 DEF Exact, q

\* REMOVE_HOST_PEER of a peer the snapshot names, at the address it names.
LEMMA OrderlyRemove ==
    ASSUME OrderlyInv, NEW w \in WgKey, NEW ip \in Ip, kv[w] = ip, RemoveHostPeer(w, ip), TypeInv'
    PROVE  OrderlyInv'
<1>1. /\ here \in Registry /\ there \in Registry /\ Below(there, here)
      /\ SnapshotIsRegistered /\ RebuiltMeshMatches /\ ~refused
  BY DEF OrderlyInv, TypeInv, OpenInv
<1>2. here.peers[w] = ip /\ there.peers[w] = ip
  BY <1>1 DEF SnapshotIsRegistered, RebuiltMeshMatches
<1>3. CanRemove(there, w)
  BY <1>2, MeshAssumption DEF CanRemove, MeshAssumption, Address
<1>4. here' = Remove(here, w, ip) /\ there' = Remove(there, w, ip) /\ ~refused'
  BY <1>1, <1>3 DEF RemoveHostPeer, Replays
<1>5. Unique(there)
  BY <1>1, BelowUnique, MeshAssumption DEF OrderlyInv, MeshAssumption
<1>6. /\ Exact(here') /\ Unique(here') /\ here'.byIP = here.byIP \ {ip}
      /\ \A v \in WgKey : here'.peers[v] = IF v = w THEN None ELSE here.peers[v]
  BY <1>1, <1>2, <1>4, RemoveExact DEF OrderlyInv
<1>7. /\ Exact(there') /\ there'.byIP = there.byIP \ {ip}
      /\ \A v \in WgKey : there'.peers[v] = IF v = w THEN None ELSE there.peers[v]
  BY <1>1, <1>2, <1>4, <1>5, RemoveExact DEF OrderlyInv
<1>8. Below(there', here')
  BY <1>1, <1>6, <1>7 DEF Below, Members
<1> QED BY <1>4, <1>6, <1>7, <1>8 DEF OrderlyInv, Exact, Unique, Below, Members

\* Every disciplined step is a step, and keeps the invariant.
LEMMA OrderlyStep == OrderlyInv /\ [DisciplinedNext]_vars => OrderlyInv'
<1> SUFFICES ASSUME OrderlyInv, [DisciplinedNext]_vars PROVE OrderlyInv'
  OBVIOUS
<1>1. TypeInv'
  <2>1. there.byCoSigner \subseteq CoKey /\ Ip \subseteq Address
    BY DEF OrderlyInv, TypeInv, OpenInv, Registry, Address
  <2>2. [Next]_vars
    BY <2>1 DEF DisciplinedNext, Next
  <2> QED BY <2>2, TypeStep DEF OrderlyInv
<1>2. CASE \E s \in Founding : CreateGroup(s) \/ CreateRefused(s)
  BY <1>1, <1>2, OrderlyCreate, OrderlyCreateRefused
<1>3. CASE \E w \in WgKey, ip \in Ip : kv[w] = ip /\ RemoveHostPeer(w, ip)
  BY <1>1, <1>3, OrderlyRemove
<1>4. CASE \E w \in WgKey, ip \in Ip : \E co \in there.byCoSigner :
              AddHostPeer(w, ip, co) \/ AddRefused(w, ip, co)
  BY <1>1, <1>4, OrderlyAdd
<1>5. CASE OtherEntry
  BY <1>1, <1>5 DEF OtherEntry, OrderlyInv, Exact, Unique, Below, Members
<1>6. CASE Restart
  <2>1. here' = there /\ there' = there /\ ~refused'
    BY <1>6 DEF Restart
  <2>2. Unique(there)
    BY BelowUnique, MeshAssumption DEF OrderlyInv, TypeInv, OpenInv, MeshAssumption
  <2> QED BY <1>1, <2>1, <2>2 DEF OrderlyInv, Exact, Unique, Below, Members
<1>7. CASE UNCHANGED vars
  BY <1>1, <1>7 DEF vars, OrderlyInv, Exact, Unique, Below, Members
<1> QED BY <1>2, <1>3, <1>4, <1>5, <1>6, <1>7 DEF DisciplinedNext

\* While the stewards remove what the snapshot names and vouch under keys the
\* log brought in, a replay of the log accepts every transition the host
\* accepted, whatever the host refused half way and whenever it restarts.
THEOREM ReplayAccepted == DisciplinedSpec => []ReplayAccepts
<1>1. OrderlyInv => ReplayAccepts
  BY DEF OrderlyInv, ReplayAccepts
<1> QED BY <1>1, OrderlyInit, OrderlyStep, PTL DEF DisciplinedSpec

\* Under the same discipline no two members of the mesh share an address, those
\* of refused transitions included.
THEOREM AddressesUnique == DisciplinedSpec => []IpsUnique
<1>1. OrderlyInv => IpsUnique
  BY DEF OrderlyInv, Unique, IpsUnique
<1> QED BY <1>1, OrderlyInit, OrderlyStep, PTL DEF DisciplinedSpec

=============================================================================
