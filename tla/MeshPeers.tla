----------------------------- MODULE MeshPeers -----------------------------
(***************************************************************************)
(* The WireGuard mesh of one group: the registry of internal/group/mesh.go *)
(* and what CREATE_GROUP, ADD_HOST_PEER and REMOVE_HOST_PEER of            *)
(* State.Apply do to it and to the mesh_peer/ entries of the snapshot.     *)
(*                                                                         *)
(* Apply changes the registry before it knows whether the snapshot has     *)
(* room for the entry; a refusal leaves the registry changed.  A mirror    *)
(* (or the host itself after a restart) sees the accepted transitions      *)
(* only: "there" is the registry their replay builds.                      *)
(*                                                                         *)
(* CREATE_GROUP does not look at the addresses of its initial peers: one   *)
(* may be empty (NoIp).  Its entry is then the nil value, which removes the*)
(* key instead of writing it.                                              *)
(*                                                                         *)
(* Only the presence of a key in the byIP and byCoSigner indexes is ever   *)
(* read, so each is a set.                                                 *)
(***************************************************************************)
EXTENDS Naturals, Sequences, FiniteSets

CONSTANTS
    WgKey,         \* WireGuard keys
    Ip,            \* mesh addresses
    NoIp,          \* the empty address
    CoKey,         \* CoSigner keys
    None,          \* no entry, no key
    Tombstone,     \* the empty value a removal writes
    Founding,      \* initial_mesh_peers lists the environment submits
    MaxMeshPeers,
    MaxKVSize      \* the snapshot's entry cap

Address  == Ip \cup {NoIp}
MeshPeer == [wg : WgKey, ip : Address, co : CoKey \cup {None}]

ASSUME MeshAssumption ==
    /\ IsFiniteSet(WgKey)
    /\ None \notin WgKey \cup Address \cup CoKey
    /\ NoIp \notin Ip /\ Tombstone \notin Ip \cup {None}
    /\ Founding \subseteq Seq(MeshPeer)
    /\ MaxMeshPeers \in Nat /\ MaxKVSize \in Nat \ {0}

VARIABLES
    here,     \* this host's registry: address of each member, and the indexes
    there,    \* the registry a replay of the accepted transitions builds
    kv,       \* the mesh_peer/ entries of the snapshot
    others,   \* how many other entries the snapshot has
    refused,  \* the replay refused an accepted transition
    declared  \* history: the members that declared each CoSigner key

vars == <<here, there, kv, others, refused, declared>>

Registry == [peers : [WgKey -> Address \cup {None}], byIP : SUBSET Address,
             byCoSigner : SUBSET CoKey]

Empty == [peers |-> [w \in WgKey |-> None], byIP |-> {}, byCoSigner |-> {}]

Members(r) == {w \in WgKey : r.peers[w] # None}

-----------------------------------------------------------------------------
(* The registry. *)

\* Fault: the address index is not consulted.
CanAddAnyIp(r, p) == r.peers[p.wg] = None

CanAdd(r, p) == r.peers[p.wg] = None /\ p.ip \notin r.byIP

\* The registry r with the peers of P, which collide with nothing, added.
AddAll(r, P) ==
    [peers      |-> [w \in WgKey |-> IF \E p \in P : p.wg = w
                                     THEN (CHOOSE p \in P : p.wg = w).ip
                                     ELSE r.peers[w]],
     byIP       |-> r.byIP \cup {p.ip : p \in P},
     byCoSigner |-> r.byCoSigner \cup ({p.co : p \in P} \ {None})]

CanRemove(r, w) == r.peers[w] # None

\* The address is the payload's; the payload has no CoSigner key, so the index
\* by CoSigner keeps the removed peer.
Remove(r, w, ip) == [r EXCEPT !.peers[w] = None, !.byIP = @ \ {ip}]

-----------------------------------------------------------------------------
(* The snapshot. *)

Entries == {w \in WgKey : kv[w] # None}

\* The value an address is stored as: an empty one stores nothing.
Stored(ip) == IF ip = NoIp THEN None ELSE ip

\* Fault: the cap is not consulted for the entries of the mesh.
HasRoomAlways(W) == TRUE

\* The snapshot may come to have mesh entries for the keys of W (it always may
\* for the keys that have one already).
HasRoom(W) == Cardinality(W) + others <= MaxKVSize

\* What a replay of the accepted transitions does with one more of them: it
\* takes it, or is stuck there for good (what it leaves then is not followed).
Replays(can, r) ==
    /\ there' = IF can /\ ~refused THEN r ELSE there
    /\ refused' = (refused \/ ~can)

Refuse == UNCHANGED <<there, kv, others, refused>>

-----------------------------------------------------------------------------
(* CREATE_GROUP: the initial peers one after the other, up to the first that *)
(* is a duplicate or whose entry finds no room.  MaxMeshPeers is not         *)
(* consulted.                                                                *)

First(s, n) == {s[i] : i \in 1 .. n}
Keys(P) == {p.wg : p \in P}

\* The n-th peer of s is registered after the ones before it ...
Takes(r, s, n) == CanAdd(AddAll(r, First(s, n - 1)), s[n])
TakesAll(r, s, n) == \A i \in 1 .. n : Takes(r, s, i)

\* The keys with an entry once the peers of P are stored.
EntriesWith(P) == (Entries \ Keys(P)) \cup Keys({p \in P : p.ip # NoIp})

\* ... and only then its entry is written.
Writes(s, n) == \A i \in 1 .. n : HasRoom(EntriesWith(First(s, i)))

Declares(P) ==
    declared' = [c \in CoKey |-> declared[c] \cup {p.wg : p \in {q \in P : q.co = c}}]

CreateGroup(s) ==
    /\ TakesAll(here, s, Len(s)) /\ Writes(s, Len(s))
    /\ here' = AddAll(here, First(s, Len(s)))
    /\ kv' = [w \in WgKey |-> IF w \in Keys(First(s, Len(s)))
                              THEN Stored(here'.peers[w]) ELSE kv[w]]
    /\ Replays(TakesAll(there, s, Len(s)), AddAll(there, First(s, Len(s))))
    /\ Declares(First(s, Len(s)))
    /\ UNCHANGED others

\* Fault: a refused CREATE_GROUP takes its peers back, and with them the member
\* that one of them collided with.
CreateRollsBack(s) ==
    /\ \E n \in DOMAIN s :
          /\ TakesAll(here, s, n - 1) /\ Writes(s, n - 1)
          /\ ~Takes(here, s, n) \/ ~Writes(s, n)
          /\ here' = [peers      |-> [w \in WgKey |-> IF w \in Keys(First(s, n)) THEN None
                                                      ELSE here.peers[w]],
                      byIP       |-> here.byIP \ {p.ip : p \in First(s, n)},
                      byCoSigner |-> here.byCoSigner]
          /\ Declares({})
    /\ Refuse

CreateRefused(s) ==
    /\ \E n \in DOMAIN s :
          /\ TakesAll(here, s, n - 1) /\ Writes(s, n - 1)
          /\ LET k == IF Takes(here, s, n) THEN n ELSE n - 1
             IN /\ k = n => ~Writes(s, n)
                /\ here' = AddAll(here, First(s, k))
                /\ Declares(First(s, k))
    /\ Refuse

-----------------------------------------------------------------------------
(* ADD_HOST_PEER, vouched for by the holder of the CoSigner key co.  The new *)
(* peer is registered under co, the voucher's key, not under one of its own. *)

NewPeer(w, ip, co) == [wg |-> w, ip |-> ip, co |-> co]

UnderCap(r) == MaxMeshPeers > 0 => Cardinality(Members(r)) + 1 <= MaxMeshPeers

MayAdd(r, p) == p.co \in r.byCoSigner /\ UnderCap(r) /\ CanAdd(r, p)

AddHostPeer(w, ip, co) ==
    LET p == NewPeer(w, ip, co)
    IN /\ MayAdd(here, p) /\ HasRoom(Entries \cup {w})
       /\ here' = AddAll(here, {p})
       /\ kv' = [kv EXCEPT ![w] = ip]
       /\ Replays(MayAdd(there, p), AddAll(there, {p}))
       /\ UNCHANGED <<others, declared>>

AddRefused(w, ip, co) ==
    /\ MayAdd(here, NewPeer(w, ip, co)) /\ ~HasRoom(Entries \cup {w})
    /\ here' = AddAll(here, {NewPeer(w, ip, co)})
    /\ UNCHANGED declared
    /\ Refuse

\* Fault: the snapshot keeps the entry of a removed peer.
RemoveKeepsEntry(w, ip) ==
    /\ CanRemove(here, w) /\ HasRoom(Entries \cup {w})
    /\ here' = Remove(here, w, ip)
    /\ Replays(CanRemove(there, w), Remove(there, w, ip))
    /\ UNCHANGED <<kv, others, declared>>

(* REMOVE_HOST_PEER: the address is not checked at all.                      *)
RemoveHostPeer(w, ip) ==
    /\ CanRemove(here, w) /\ HasRoom(Entries \cup {w})
    /\ here' = Remove(here, w, ip)
    /\ kv' = [kv EXCEPT ![w] = Tombstone]
    /\ Replays(CanRemove(there, w), Remove(there, w, ip))
    /\ UNCHANGED <<others, declared>>

RemoveRefused(w, ip) ==
    /\ CanRemove(here, w) /\ ~HasRoom(Entries \cup {w})
    /\ here' = Remove(here, w, ip)
    /\ UNCHANGED declared
    /\ Refuse

-----------------------------------------------------------------------------
\* The group's other transitions fill the snapshot with entries of their own.
OtherEntry ==
    /\ Cardinality(Entries) + others < MaxKVSize
    /\ others' = others + 1
    /\ UNCHANGED <<here, there, kv, refused, declared>>

\* The host restarts: its registry is the one the replay builds.
Restart ==
    /\ ~refused
    /\ here' = there
    /\ UNCHANGED <<there, kv, others, refused, declared>>

-----------------------------------------------------------------------------
Init ==
    /\ here = Empty /\ there = Empty
    /\ kv = [w \in WgKey |-> None]
    /\ others = 0
    /\ refused = FALSE
    /\ declared = [c \in CoKey |-> {}]

Next ==
    \/ \E s \in Founding : CreateGroup(s) \/ CreateRefused(s)
    \/ \E w \in WgKey :
          \/ \E ip \in Address : RemoveHostPeer(w, ip) \/ RemoveRefused(w, ip)
          \/ \E ip \in Ip, co \in CoKey : AddHostPeer(w, ip, co) \/ AddRefused(w, ip, co)
    \/ OtherEntry \/ Restart

Spec == Init /\ [][Next]_vars

\* Stewards that go by what the log says: they remove peers the snapshot names,
\* at the address it names, and have new ones vouched for under a key that an
\* accepted transition brought in.  They may found the group again, and what
\* they sign may be refused half way (such a removal never is: its key has an
\* entry).
DisciplinedNext ==
    \/ \E s \in Founding : CreateGroup(s) \/ CreateRefused(s)
    \/ \E w \in WgKey, ip \in Ip :
          \/ kv[w] = ip /\ RemoveHostPeer(w, ip)
          \/ \E co \in there.byCoSigner : AddHostPeer(w, ip, co) \/ AddRefused(w, ip, co)
    \/ OtherEntry \/ Restart

DisciplinedSpec == Init /\ [][DisciplinedNext]_vars

-----------------------------------------------------------------------------
(* Properties. *)

\* The registries, the entries and the history have their types, and the
\* entries stay under the snapshot's cap.
TypeOK ==
    /\ here \in Registry /\ there \in Registry
    /\ kv \in [WgKey -> Ip \cup {None, Tombstone}]
    /\ others \in Nat
    /\ refused \in BOOLEAN
    /\ declared \in [CoKey -> SUBSET WgKey]
    /\ Cardinality(Entries) + others <= MaxKVSize

\* What the snapshot commits to, the registry holds: an entry that is not a
\* tombstone names a member at its address, whatever was refused half way and
\* across restarts (the registry may hold more, see MeshMatchesSnapshot).
SnapshotIsRegistered == \A w \in WgKey : kv[w] \in Ip => here.peers[w] = kv[w]

\* What a mirror or a restart rebuilds from the accepted transitions is what the
\* snapshot says: the peers with an address are the ones the entries name, at
\* the addresses they name.  Only refusals and empty addresses separate the two.
RebuiltMeshMatches ==
    ~refused => \A w \in WgKey :
        there.peers[w] \in Ip \/ kv[w] \in Ip => there.peers[w] = kv[w]

\* The host's members are exactly the keys the snapshot's entries name
\* (group.go:711, "recorded in the Merkle KV"; mesh.go:11, "Truth source: the
\* state log").
MeshMatchesSnapshot == Members(here) = {w \in WgKey : kv[w] \in Ip}

\* A replay refuses no transition the host accepted, whatever else the host
\* refused after it had registered a part of it: the registry holds at least
\* what the replay's holds, so what finds no duplicate here finds none there,
\* and what fits here fits there.
ReplayAccepts == ~refused

\* No two members share a mesh address (ErrDuplicateMeshIP).
IpsUnique ==
    \A v, w \in Members(here) : here.peers[v] = here.peers[w] => v = w

\* The mesh never grows past MaxMeshPeers (group.go, "caps the wg peer set size").
MeshCapped == MaxMeshPeers > 0 => Cardinality(Members(here)) <= MaxMeshPeers

\* Whoever may vouch for a new peer is a current member: a CoSigner key in the
\* index was declared by a peer that is still in the mesh (gates.go,
\* "a CURRENT mesh member has co-signed").
VouchedByMember ==
    \A co \in here.byCoSigner : declared[co] \cap Members(here) # {}
=============================================================================
