---------------------------- MODULE GroupProofs ----------------------------
(***************************************************************************)
(* What TLAPS checks about Group, for every set of keys, payloads and       *)
(* envelopes and every value of the caps.                                   *)
(***************************************************************************)
EXTENDS Group, FiniteSetTheorems, SequenceTheorems, WellFoundedInduction, TLAPS

\* The key a steward payload names is a public key.
Named(t) ==
    /\ t.body.kind \in {"ADD_STEWARD", "REMOVE_STEWARD", "SLASH_STEWARD"}
         => t.body.who \in Steward
    /\ t.body.kind = "PUT" => t.body.who \in Item

\* FIFO eviction keeps the elements' type.
LEMMA NewestType ==
    ASSUME NEW S, NEW q \in Seq(S), NEW n \in Nat \ {0}
    PROVE  Newest(q, n) \in Seq(S)
<1>1. CASE Len(q) > n
  <2>1. Len(q) \in Nat /\ Len(q) - n + 1 \in 1 .. Len(q) + 1 /\ Len(q) \in 0 .. Len(q)
    BY <1>1, LenProperties
  <2>2. SubSeq(q, Len(q) - n + 1, Len(q)) \in Seq(S)
    BY <2>1, SubSeqProperties
  <2> QED BY <1>1, <2>2 DEF Newest
<1>2. CASE ~(Len(q) > n)
  BY <1>2 DEF Newest
<1> QED BY <1>1, <1>2

\* A bounded non-empty set of naturals has a greatest element.
LEMMA FiniteMax ==
    ASSUME NEW n \in Nat, NEW A, A \subseteq 1 .. n, A # {}
    PROVE  \E m \in A : \A j \in A : j <= m
<1> DEFINE R == {ss \in Nat \X Nat : ss[1] < ss[2]}
<1> DEFINE B == {n - j : j \in A}
<1>1. IsWellFoundedOn(R, Nat)
  BY NatLessThanWellFounded DEF OpToRel
<1>2. B \subseteq Nat /\ B # {}
  <2>1. \A j \in A : j \in Nat /\ n - j \in Nat
    OBVIOUS
  <2>2. PICK j \in A : TRUE
    OBVIOUS
  <2>3. n - j \in B
    OBVIOUS
  <2> QED BY <2>1, <2>3
<1>3. PICK x \in B : \A y \in B : ~ (<<y, x>> \in R)
  <2> HIDE DEF R, B
  <2> QED BY <1>1, <1>2, WFMin
<1>4. PICK m \in A : x = n - m
  OBVIOUS
<1>5. \A j \in A : j <= m
  <2> SUFFICES ASSUME NEW j \in A PROVE j <= m
    OBVIOUS
  <2>1. n - j \in B /\ n - j \in Nat /\ x \in Nat
    BY <1>2
  <2>2. ~ (n - j < x)
    BY <1>3, <2>1
  <2> QED BY <1>4, <2>2
<1> QED BY <1>5

\* Writing and deleting entries gives a snapshot.
LEMMA PutType ==
    ASSUME NEW kv \in Snapshot, NEW K, NEW v \in Nat
    PROVE  Put(kv, K, v) \in Snapshot
BY DEF Put, Snapshot, Entry

LEMMA DropType ==
    ASSUME NEW kv \in Snapshot, NEW k
    PROVE  Drop(kv, k) \in Snapshot
BY DEF Drop, Snapshot, Entry, Absent

\* What the environment submits is a transition whose payload names a key.
LEMMA SubmittedType ==
    ASSUME TypeOK, NEW t \in Submitted
    PROVE  t \in Transition /\ Named(t) /\ t.body.prior \in {None, snapshot}
<1>1. PICK p \in Payload, r \in {None, snapshot}, h \in Stamp, e \in Envelope :
           t = [body |-> BodyOf(p, r, h), sigs |-> e]
  BY DEF Submitted
<1>2. p \in PayloadType /\ e \in Seq(Steward)
  BY PayloadAssumption, EnvelopeAssumption
<1>3. BodyOf(p, r, h) \in Body
  BY <1>2 DEF BodyOf, Body, PayloadType, TypeOK
<1>4. Named(t)
  BY <1>1, PayloadAssumption DEF Named, BodyOf
<1> QED BY <1>1, <1>2, <1>3, <1>4 DEF Transition, BodyOf

\* Among signatures of stewards there is a first one, and it is a public key.
LEMMA FirstSigner ==
    ASSUME NEW t \in Transition,
           \E i \in DOMAIN t.sigs : t.sigs[i] \in StewardsAt(t.body.prior)
    PROVE  SigningSteward(t) \in Steward
<1> DEFINE S == StewardsAt(t.body.prior)
<1> DEFINE I == {i \in DOMAIN t.sigs : t.sigs[i] \in S}
<1>1. PICK k \in DOMAIN t.sigs : t.sigs[k] \in S
  OBVIOUS
<1>2. DOMAIN t.sigs \subseteq Nat /\ \A i \in DOMAIN t.sigs : t.sigs[i] \in Steward
  BY DEF Transition
<1>3. PICK m \in I : \A j \in I : m <= j
  <2>1. I \subseteq Nat /\ I # {}
    BY <1>1, <1>2
  <2> DEFINE R == {ss \in Nat \X Nat : ss[1] < ss[2]}
  <2>2. IsWellFoundedOn(R, Nat)
    BY NatLessThanWellFounded DEF OpToRel
  <2>3. \E x \in I : \A y \in I : ~ (<<y, x>> \in R)
    BY <2>1, <2>2, WFMin
  <2>4. \A x, y \in I : ~ (<<y, x>> \in R) => x <= y
    BY <2>1
  <2> QED
    <3> HIDE DEF R, I
    <3> QED BY <2>3, <2>4
<1>4. \E i \in DOMAIN t.sigs : /\ t.sigs[i] \in S
                               /\ \A j \in DOMAIN t.sigs : t.sigs[j] \in S => i <= j
  BY <1>3
<1>5. SigningSteward(t) = t.sigs[CHOOSE i \in DOMAIN t.sigs :
                      /\ t.sigs[i] \in S
                      /\ \A j \in DOMAIN t.sigs : t.sigs[j] \in S => i <= j]
  BY <1>1 DEF SigningSteward
<1> QED BY <1>2, <1>4, <1>5

\* The signing steward of a checked transition is a public key.
LEMMA SigningType ==
    ASSUME NEW t \in Transition, Checked(t)
    PROVE  SigningSteward(t) \in Steward
BY FirstSigner DEF Checked, SigningSteward

-----------------------------------------------------------------------------
(* Type correctness. *)

\* The sets a transition is verified against are sets of keys and counts.
LEMMA LookupType ==
    ASSUME TypeOK, NEW r
    PROVE  StewardsAt(r) \in SUBSET Steward /\ ThresholdAt(r) \in Nat
BY DEF TypeOK, StewardsAt, ThresholdAt

\* The equivocation log keeps its type.
LEMMA SeenType ==
    ASSUME TypeOK, NEW t \in Transition
    PROVE  SeenAfter(t) \in Seq([steward : Steward, body : Body])
<1> DEFINE E == [steward : Steward, body : Body]
<1>1. CASE Checked(t) /\ SeenFor(SigningSteward(t), t.body.prior) = {}
  <2>1. [steward |-> SigningSteward(t), body |-> t.body] \in E
    BY <1>1, SigningType DEF Transition
  <2>2. Append(seen, [steward |-> SigningSteward(t), body |-> t.body]) \in Seq(E)
    BY <2>1, AppendProperties DEF TypeOK
  <2>3. Newest(Append(seen, [steward |-> SigningSteward(t), body |-> t.body]),
               MaxSeen) \in Seq(E)
    BY <2>2, NewestType, CapAssumption
  <2> QED BY <1>1, <2>3 DEF SeenAfter
<1>2. CASE ~(Checked(t) /\ SeenFor(SigningSteward(t), t.body.prior) = {})
  BY <1>2 DEF SeenAfter, TypeOK
<1> QED BY <1>1, <1>2

\* The founding values stay a set of keys and a count.
LEMMA FoundedType ==
    ASSUME TypeOK, NEW t \in Transition
    PROVE  FoundedStewards(t) \in SUBSET Steward /\ FoundedThreshold(t) \in Nat
BY DEF TypeOK, FoundedStewards, FoundedThreshold, Transition, Body

\* What computeCurrentStewards and computeCurrentThreshold return.
LEMMA AfterType ==
    ASSUME TypeOK, NEW t \in Transition, Named(t), NEW kv
    PROVE  StewardsAfter(t, kv) \in SUBSET Steward /\ ThresholdAfter(t) \in Nat
<1>1. StewardsBefore(t, kv) \in SUBSET Steward
  BY LookupType, FoundedType DEF StewardsBefore, TypeOK
<1>2. t.body.kind \in Kind /\ t.body.num \in Nat
  BY DEF Transition, Body
<1>3. StewardsAfter(t, kv) \in SUBSET Steward
  BY <1>1, <1>2, FoundedType DEF StewardsAfter, Named, Kind
<1>4. ThresholdAfter(t) \in Nat
  BY <1>2, FoundedType DEF ThresholdAfter, TypeOK
<1> QED BY <1>3, <1>4

\* The variables that Commit assigns keep their types.
LEMMA CommitType ==
    ASSUME TypeOK, NEW t \in Transition, Named(t), NEW kv \in Snapshot,
           Commit(t, kv),
           evidence' \in Seq([steward : Steward, first : Body \cup {None},
                              second : Body \cup {None}])
    PROVE  TypeOK'
<1>1. /\ DOMAIN stewardHistory' = DOMAIN stewardHistory \cup {kv}
      /\ stewardHistory' \in [DOMAIN stewardHistory' -> SUBSET Steward]
  <2>1. StewardsAfter(t, kv) \in SUBSET Steward
    BY AfterType
  <2>2. /\ DOMAIN stewardHistory \subseteq Snapshot
        /\ stewardHistory \in [DOMAIN stewardHistory -> SUBSET Steward]
    BY DEF TypeOK
  <2>3. stewardHistory' = Record(stewardHistory, kv, StewardsAfter(t, kv))
    BY DEF Commit
  <2> QED BY <2>1, <2>2, <2>3 DEF Record
<1>2. thresholdHistory' \in [DOMAIN stewardHistory' -> Nat]
  <2>1. DOMAIN thresholdHistory = DOMAIN stewardHistory
    BY DEF TypeOK
  <2>2. ThresholdAfter(t) \in Nat
    BY AfterType
  <2>3. thresholdHistory' = Record(thresholdHistory, kv, ThresholdAfter(t))
    BY DEF Commit
  <2> QED BY <1>1, <2>1, <2>2, <2>3 DEF Record, TypeOK
<1>3. log' \in Seq(Transition)
  <2>1. Append(log, t) \in Seq(Transition)
    BY AppendProperties DEF TypeOK
  <2> QED BY <2>1, NewestType, CapAssumption DEF Commit
<1>4. seen' \in Seq([steward : Steward, body : Body])
  BY SeenType DEF Commit
<1>5. initialStewards' \in SUBSET Steward /\ initialThreshold' \in Nat
  BY FoundedType DEF Commit
<1> QED BY <1>1, <1>2, <1>3, <1>4, <1>5 DEF TypeOK, Commit

\* The evidence list keeps its type when a slash appends to it.
LEMMA SlashEvidenceType ==
    ASSUME TypeOK, NEW t, t.body.who \in Steward
    PROVE  SlashEvidence(t) \in Seq([steward : Steward, first : Body \cup {None},
                                     second : Body \cup {None}])
<1> DEFINE E == [steward : Steward, first : Body \cup {None}, second : Body \cup {None}]
<1> DEFINE e == [steward |-> t.body.who, first |-> None, second |-> None]
<1>1. e \in E
  OBVIOUS
<1> HIDE DEF e, E
<1>2. evidence \in Seq(E)
  BY DEF TypeOK, E
<1>3. Append(evidence, e) \in Seq(E)
  BY <1>1, <1>2, AppendProperties
<1> QED BY <1>3 DEF SlashEvidence, e, E

\* The transition found for a piece of evidence is a body of the log, or none.
LEMMA FirstSeenType ==
    ASSUME TypeOK, NEW s, NEW r
    PROVE  FirstSeen(s, r) \in Body \cup {None}
<1> DEFINE A == {i \in DOMAIN log : /\ log[i].body.prior = r
                                    /\ SigningSteward(log[i]) = s}
<1>1. CASE A = {}
  BY <1>1 DEF FirstSeen
<1>2. CASE A # {}
  <2>1. PICK m \in A : \A j \in A : j <= m
    <3>1. A \subseteq 1 .. Len(log) /\ Len(log) \in Nat
      BY LenProperties DEF TypeOK
    <3> QED BY <1>2, <3>1, FiniteMax
  <2>2. \E i \in A : \A j \in A : j <= i
    BY <2>1
  <2>3. (CHOOSE i \in A : \A j \in A : j <= i) \in A
    <3> HIDE DEF A
    <3> QED BY <2>2
  <2>4. FirstSeen(s, r) = log[CHOOSE i \in A : \A j \in A : j <= i].body
    BY <1>2 DEF FirstSeen
  <2>5. \A i \in DOMAIN log : log[i].body \in Body
    <3>1. \A i \in DOMAIN log : log[i] \in Transition
      BY DEF TypeOK
    <3> QED BY <3>1 DEF Transition
  <2> QED BY <2>3, <2>4, <2>5
<1> QED BY <1>1, <1>2

\* The initial state has the right types.
LEMMA InitType == Init => TypeOK
<1> SUFFICES ASSUME Init PROVE TypeOK
  OBVIOUS
<1>1. EmptySnapshot \in Snapshot
  BY DEF EmptySnapshot, Snapshot, Absent, Entry
<1>2. DOMAIN stewardHistory = {} /\ stewardHistory \in [{} -> SUBSET Steward]
  BY DEF Init
<1>3. thresholdHistory \in [{} -> Nat]
  BY DEF Init
<1> QED BY <1>1, <1>2, <1>3 DEF Init, TypeOK

\* Every outcome of Apply preserves the types.
LEMMA ApplyType ==
    ASSUME TypeOK, NEW t \in Transition, Named(t), Apply(t)
    PROVE  TypeOK'
<1> DEFINE E == [steward : Steward, first : Body \cup {None}, second : Body \cup {None}]
<1>1. evidence \in Seq(E) /\ t.body \in Body /\ t.body.kind \in Kind /\ t.body.num \in Nat
  BY DEF TypeOK, Transition, Body
<1>2. CASE CreateGroup(t)
  BY <1>1, <1>2, PutType, CommitType DEF CreateGroup, TypeOK
<1>3. CASE AddSteward(t)
  BY <1>1, <1>3, PutType, CommitType DEF AddSteward, TypeOK
<1>4. CASE RemoveSteward(t)
  BY <1>1, <1>4, DropType, CommitType DEF RemoveSteward, TypeOK
<1>5. CASE SlashSteward(t)
  <2>1. t.body.who \in Steward
    BY <1>5 DEF SlashSteward, Named
  <2>2. evidence' \in Seq(E)
    BY <1>5, <2>1, SlashEvidenceType DEF SlashSteward
  <2>3. Put(Drop(snapshot, StewardKey(t.body.who)), {SlashedKey(t.body.who)}, 1)
          \in Snapshot
    BY PutType, DropType DEF TypeOK
  <2> QED BY <1>5, <2>2, <2>3, CommitType DEF SlashSteward
<1>6. CASE ChangeThreshold(t)
  BY <1>1, <1>6, PutType, CommitType DEF ChangeThreshold, TypeOK
<1>7. CASE PutItem(t)
  BY <1>1, <1>7, PutType, CommitType DEF PutItem, TypeOK
<1>8. CASE Equivocate(t)
  <2> DEFINE e == [steward |-> SigningSteward(t),
                   first   |-> FirstSeen(SigningSteward(t), t.body.prior),
                   second  |-> t.body]
  <2>1. e \in E
    BY <1>1, <1>8, SigningType, FirstSeenType DEF Equivocate, Conflicts
  <2>2. Newest(Append(evidence, e), MaxEvidence) \in Seq(E)
    <3> HIDE DEF e, E
    <3>1. Append(evidence, e) \in Seq(E)
      BY <1>1, <2>1, AppendProperties
    <3> QED BY <3>1, NewestType, CapAssumption
  <2> QED BY <1>8, <2>2 DEF Equivocate, TypeOK, histories, founding
<1>9. CASE Unauthorised(t)
  BY <1>9, SeenType DEF Unauthorised, TypeOK, histories, founding
<1>10. CASE Invalid(t)
  <2>1. evidence' \in Seq(E)
    BY <1>1, <1>10, SlashEvidenceType DEF Invalid, Named
  <2> QED BY <1>10, <2>1, SeenType, FoundedType DEF Invalid, TypeOK, histories
<1> QED BY <1>2, <1>3, <1>4, <1>5, <1>6, <1>7, <1>8, <1>9, <1>10 DEF Apply, Accept

\* Type correctness of the machine under any client.
THEOREM TypeCorrect == Spec => []TypeOK
<1>1. TypeOK /\ [Next]_vars => TypeOK'
  <2> SUFFICES ASSUME TypeOK, [Next]_vars PROVE TypeOK'
    OBVIOUS
  <2>1. CASE Next
    BY <2>1, SubmittedType, ApplyType DEF Next
  <2>2. CASE UNCHANGED vars
    BY <2>2 DEF vars, TypeOK
  <2> QED BY <2>1, <2>2
<1> QED BY <1>1, InitType, PTL DEF Spec

-----------------------------------------------------------------------------
(* The Merkle commitment, for clients that follow the protocol.  The        *)
(* inductive invariant adds what RootCommits needs of the founding (nothing *)
(* is recorded before it) and of the head (it is a recorded root).          *)

CommitInv ==
    /\ TypeOK
    /\ applied = 0 => /\ snapshot = EmptySnapshot
                      /\ DOMAIN stewardHistory = {}
                      /\ initialStewards = {}
    /\ applied > 0 => snapshot \in DOMAIN stewardHistory
    /\ RootCommits
    /\ \A r \in DOMAIN thresholdHistory : thresholdHistory[r] > 0

\* Keys of different families, and of different stewards, are different.
LEMMA KeysDiffer ==
    /\ ThresholdKey \in Key
    /\ \A s \in Steward : StewardKey(s) \in Key
    /\ \A s, x : /\ StewardKey(s) = StewardKey(x) => s = x
                 /\ StewardKey(s) # SlashedKey(x)
                 /\ StewardKey(s) # ItemKey(x)
                 /\ StewardKey(s) # NameKey
                 /\ StewardKey(s) # ThresholdKey
                 /\ ThresholdKey # SlashedKey(x)
                 /\ ThresholdKey # ItemKey(x)
    /\ ThresholdKey # NameKey
BY DEF Key, StewardKey, SlashedKey, ItemKey, NameKey, ThresholdKey

\* Writing entries adds their stewards and nothing else to what the root
\* commits to.
LEMMA PutCommits ==
    ASSUME NEW kv \in Snapshot, NEW K, NEW v \in Nat
    PROVE  /\ KVStewards(Put(kv, K, v))
                = KVStewards(kv) \cup {s \in Steward : StewardKey(s) \in K}
           /\ ThresholdKey \notin K
                => Put(kv, K, v)[ThresholdKey] = kv[ThresholdKey]
           /\ ThresholdKey \in K
                => /\ Present(Put(kv, K, v), ThresholdKey)
                   /\ Put(kv, K, v)[ThresholdKey].val = v
<1>1. \A k \in Key : kv[k].seq \in Nat
  BY DEF Snapshot, Entry
<1>2. \A s \in Steward : Present(Put(kv, K, v), StewardKey(s))
                            <=> StewardKey(s) \in K \/ Present(kv, StewardKey(s))
  BY <1>1, KeysDiffer DEF Put, Present
<1>3. KVStewards(Put(kv, K, v))
        = KVStewards(kv) \cup {s \in Steward : StewardKey(s) \in K}
  BY <1>2 DEF KVStewards
<1>4. ThresholdKey \notin K => Put(kv, K, v)[ThresholdKey] = kv[ThresholdKey]
  BY KeysDiffer DEF Put
<1>5. ThresholdKey \in K => /\ Present(Put(kv, K, v), ThresholdKey)
                            /\ Put(kv, K, v)[ThresholdKey].val = v
  BY <1>1, KeysDiffer DEF Put, Present
<1> QED BY <1>3, <1>4, <1>5

\* Deleting a steward's entry removes exactly that steward.
LEMMA DropCommits ==
    ASSUME NEW kv \in Snapshot, NEW x \in Steward
    PROVE  /\ KVStewards(Drop(kv, StewardKey(x))) = KVStewards(kv) \ {x}
           /\ Drop(kv, StewardKey(x))[ThresholdKey] = kv[ThresholdKey]
<1>1. \A s \in Steward : Present(Drop(kv, StewardKey(x)), StewardKey(s))
                            <=> s # x /\ Present(kv, StewardKey(s))
  BY KeysDiffer DEF Drop, Present, Absent, Snapshot
<1>2. Drop(kv, StewardKey(x))[ThresholdKey] = kv[ThresholdKey]
  BY KeysDiffer DEF Drop, Snapshot
<1> QED BY <1>1, <1>2 DEF KVStewards

\* Before the founding a group commits to nobody.
LEMMA EmptyCommits ==
    KVStewards(EmptySnapshot) = {} /\ ~Present(EmptySnapshot, ThresholdKey)
BY KeysDiffer DEF KVStewards, Present, EmptySnapshot, Absent

\* Recording values that the root commits to keeps every root committed, as
\* long as the founding threshold does not move under the recorded roots.
LEMMA CommitStep ==
    ASSUME CommitInv, NEW t \in Transition, Named(t), NEW kv \in Snapshot,
           Commit(t, kv), TypeOK',
           initialThreshold' = initialThreshold \/ DOMAIN stewardHistory = {},
           StewardsAfter(t, kv) = KVStewards(kv),
           ThresholdAfter(t) = IF Present(kv, ThresholdKey)
                               THEN kv[ThresholdKey].val ELSE initialThreshold',
           ThresholdAfter(t) > 0
    PROVE  CommitInv'
<1>1. applied' > 0 /\ snapshot' \in DOMAIN stewardHistory'
  BY DEF Commit, Record, CommitInv, TypeOK
<1>2. DOMAIN thresholdHistory = DOMAIN stewardHistory
  BY DEF CommitInv, TypeOK
<1>3. \A r \in DOMAIN stewardHistory' :
         /\ stewardHistory'[r] = KVStewards(r)
         /\ thresholdHistory'[r] = IF Present(r, ThresholdKey)
                                   THEN r[ThresholdKey].val ELSE initialThreshold'
         /\ thresholdHistory'[r] > 0
  <2> SUFFICES ASSUME NEW r \in DOMAIN stewardHistory'
               PROVE  /\ stewardHistory'[r] = KVStewards(r)
                      /\ thresholdHistory'[r] = IF Present(r, ThresholdKey)
                                   THEN r[ThresholdKey].val ELSE initialThreshold'
                      /\ thresholdHistory'[r] > 0
    OBVIOUS
  <2>1. CASE r = kv
    BY <2>1, <1>2 DEF Commit, Record
  <2>2. CASE r # kv
    <3>1. r \in DOMAIN stewardHistory
      BY <2>2 DEF Commit, Record
    <3>2. /\ stewardHistory'[r] = stewardHistory[r]
          /\ thresholdHistory'[r] = thresholdHistory[r]
      BY <2>2, <3>1, <1>2 DEF Commit, Record
    <3>3. initialThreshold' = initialThreshold
      BY <3>1
    <3> QED BY <3>1, <3>2, <3>3, <1>2 DEF CommitInv, RootCommits, KVThreshold
  <2> QED BY <2>1, <2>2
<1>4. RootCommits'
  BY <1>3 DEF RootCommits, KVThreshold, KVStewards, Present
<1>5. \A r \in DOMAIN thresholdHistory' : thresholdHistory'[r] > 0
  <2>1. DOMAIN thresholdHistory' = DOMAIN stewardHistory'
    BY DEF TypeOK
  <2> QED BY <1>3, <2>1
<1>6. ~(applied' = 0)
  BY <1>1
<1> QED BY <1>1, <1>4, <1>5, <1>6 DEF CommitInv

\* After the founding a disciplined transition is verified against what the
\* head root commits to.
LEMMA HeadLookup ==
    ASSUME CommitInv, NEW t \in Submitted, Disciplined(t), applied > 0, Admitted(t)
    PROVE  /\ t.body.prior = snapshot /\ snapshot \in DOMAIN stewardHistory
           /\ ~Founding(t)
           /\ \A kv : StewardsBefore(t, kv) = KVStewards(snapshot)
           /\ FoundedStewards(t) = initialStewards
           /\ FoundedThreshold(t) = initialThreshold
           /\ thresholdHistory[snapshot] = KVThreshold(snapshot)
           /\ snapshot \in DOMAIN thresholdHistory
           /\ thresholdHistory[snapshot] > 0
<1>1. t.body.prior = snapshot /\ t.body.prior # None /\ t.body.kind # "CREATE_GROUP"
  BY SubmittedType DEF Disciplined, CommitInv, TypeOK
<1>2. snapshot \in DOMAIN stewardHistory /\ snapshot \in DOMAIN thresholdHistory
  BY DEF CommitInv, TypeOK
<1>3. ~Founding(t)
  BY <1>1 DEF Admitted, Authorised
<1>4. \A kv : StewardsBefore(t, kv) = KVStewards(snapshot)
  BY <1>1, <1>2 DEF StewardsBefore, StewardsAt, CommitInv, RootCommits
<1> QED BY <1>1, <1>2, <1>3, <1>4
        DEF FoundedStewards, FoundedThreshold, CommitInv, RootCommits

\* The founding transition records what its root commits to.
LEMMA CreateCommits ==
    ASSUME CommitInv, NEW t \in Submitted, Disciplined(t), CreateGroup(t), TypeOK'
    PROVE  CommitInv'
<1> DEFINE K == {NameKey} \cup {StewardKey(s) : s \in t.body.set}
<1> DEFINE kv == Put(snapshot, K, 1)
<1>1. t \in Transition /\ Named(t) /\ t.body.set \subseteq Steward /\ t.body.num \in Nat
  BY SubmittedType DEF CommitInv, Transition, Body
<1>2. /\ applied = 0 /\ t.body.kind = "CREATE_GROUP" /\ t.body.prior = None
      /\ snapshot = EmptySnapshot /\ DOMAIN stewardHistory = {}
      /\ initialStewards = {} /\ DOMAIN thresholdHistory = {}
  BY DEF Disciplined, CreateGroup, CommitInv, TypeOK
<1>3. Founding(t)
  BY <1>2 DEF Founding, StewardsAt
<1>4. t.body.num > 0
  BY <1>3, CreateGroup(t) DEF CreateGroup, Admitted, Authorised, Quorum
<1>5. kv \in Snapshot
  BY PutType DEF CommitInv, TypeOK
<1>6. Commit(t, kv)
  BY DEF CreateGroup
<1>7. {s \in Steward : StewardKey(s) \in K} = t.body.set /\ ThresholdKey \notin K
  BY <1>1, KeysDiffer
<1>8. KVStewards(kv) = t.body.set /\ ~Present(kv, ThresholdKey)
  <2>1. snapshot \in Snapshot
    BY DEF CommitInv, TypeOK
  <2> HIDE DEF K
  <2>2. /\ KVStewards(kv) = KVStewards(snapshot) \cup {s \in Steward : StewardKey(s) \in K}
        /\ kv[ThresholdKey] = snapshot[ThresholdKey]
    BY <1>7, <2>1, PutCommits
  <2> HIDE DEF kv
  <2>3. KVStewards(kv) = {} \cup t.body.set
    BY <1>2, <1>7, <2>2, EmptyCommits
  <2>4. ~Present(kv, ThresholdKey)
    BY <1>2, <2>2, EmptyCommits DEF Present
  <2> QED BY <2>3, <2>4
<1>9. StewardsAfter(t, kv) = t.body.set
  BY <1>2, <1>3 DEF StewardsAfter, FoundedStewards
<1>10. ThresholdAfter(t) = t.body.num /\ initialThreshold' = t.body.num
  BY <1>2, <1>3, <1>6 DEF ThresholdAfter, FoundedThreshold, Commit
<1> HIDE DEF kv, K
<1> QED BY <1>1, <1>2, <1>4, <1>5, <1>6, <1>8, <1>9, <1>10, CommitStep

\* Every later accepted transition records what its root commits to.
LEMMA AcceptCommits ==
    ASSUME CommitInv, NEW t \in Submitted, Disciplined(t), applied > 0,
           Accept(t), TypeOK'
    PROVE  CommitInv'
<1>1. /\ t \in Transition /\ Named(t) /\ t.body.num \in Nat /\ t.body.kind \in Kind
      /\ t.body.kind # "CREATE_GROUP" /\ snapshot \in Snapshot
  BY SubmittedType DEF CommitInv, Transition, Body, Disciplined, TypeOK
<1>2. Admitted(t)
  BY <1>1 DEF Accept, CreateGroup, AddSteward, RemoveSteward, SlashSteward,
              ChangeThreshold, PutItem
<1> DEFINE x == t.body.who
<1>3. \A kv : StewardsAfter(t, kv) =
                CASE t.body.kind = "ADD_STEWARD" -> KVStewards(snapshot) \cup {x}
                  [] t.body.kind \in {"REMOVE_STEWARD", "SLASH_STEWARD"}
                                                -> KVStewards(snapshot) \ {x}
                  [] OTHER                      -> KVStewards(snapshot)
  BY <1>1, <1>2, HeadLookup DEF StewardsAfter, Kind
<1>4. ThresholdAfter(t) = IF t.body.kind = "CHANGE_THRESHOLD" THEN t.body.num
                          ELSE KVThreshold(snapshot)
  BY <1>2, HeadLookup DEF ThresholdAfter
<1>5. KVThreshold(snapshot) > 0
  BY <1>2, HeadLookup
<1>6. \A kv : Commit(t, kv) => initialThreshold' = initialThreshold
  BY <1>2, HeadLookup DEF Commit
<1>7. CASE AddSteward(t)
  <2> DEFINE kv == Put(snapshot, {StewardKey(x)}, 1)
  <2>1. kv \in Snapshot /\ Commit(t, kv) /\ t.body.kind = "ADD_STEWARD" /\ x \in Steward
    BY <1>1, <1>7, PutType DEF AddSteward, Named
  <2>2. /\ {s \in Steward : StewardKey(s) \in {StewardKey(x)}} = {x}
        /\ ThresholdKey \notin {StewardKey(x)}
    BY <2>1, KeysDiffer
  <2>3. /\ KVStewards(kv) = KVStewards(snapshot) \cup {x}
        /\ kv[ThresholdKey] = snapshot[ThresholdKey]
    BY <1>1, <2>2, PutCommits
  <2> HIDE DEF kv
  <2> QED BY <1>1, <1>3, <1>4, <1>5, <1>6, <2>1, <2>3, CommitStep
          DEF KVThreshold, Present
<1>8. CASE RemoveSteward(t)
  <2> DEFINE kv == Drop(snapshot, StewardKey(x))
  <2>1. /\ kv \in Snapshot /\ Commit(t, kv) /\ t.body.kind = "REMOVE_STEWARD"
        /\ x \in Steward
    BY <1>1, <1>8, DropType DEF RemoveSteward, Named
  <2>2. /\ KVStewards(kv) = KVStewards(snapshot) \ {x}
        /\ kv[ThresholdKey] = snapshot[ThresholdKey]
    BY <1>1, <2>1, DropCommits
  <2> HIDE DEF kv
  <2> QED BY <1>1, <1>3, <1>4, <1>5, <1>6, <2>1, <2>2, CommitStep
          DEF KVThreshold, Present
<1>9. CASE SlashSteward(t)
  <2> DEFINE mid == Drop(snapshot, StewardKey(x))
  <2> DEFINE kv == Put(mid, {SlashedKey(x)}, 1)
  <2>1. /\ mid \in Snapshot /\ kv \in Snapshot /\ Commit(t, kv)
        /\ t.body.kind = "SLASH_STEWARD" /\ x \in Steward
    BY <1>1, <1>9, DropType, PutType DEF SlashSteward, Named
  <2>2. /\ KVStewards(mid) = KVStewards(snapshot) \ {x}
        /\ mid[ThresholdKey] = snapshot[ThresholdKey]
    BY <1>1, <2>1, DropCommits
  <2>3. /\ {s \in Steward : StewardKey(s) \in {SlashedKey(x)}} = {}
        /\ ThresholdKey \notin {SlashedKey(x)}
    BY KeysDiffer
  <2>4. /\ KVStewards(kv) = KVStewards(snapshot) \ {x}
        /\ kv[ThresholdKey] = snapshot[ThresholdKey]
    <3> HIDE DEF mid
    <3> QED BY <2>1, <2>2, <2>3, PutCommits
  <2> HIDE DEF kv
  <2> QED BY <1>1, <1>3, <1>4, <1>5, <1>6, <2>1, <2>4, CommitStep
          DEF KVThreshold, Present
<1>10. CASE ChangeThreshold(t)
  <2> DEFINE kv == Put(snapshot, {ThresholdKey}, t.body.num)
  <2>1. /\ kv \in Snapshot /\ Commit(t, kv) /\ t.body.kind = "CHANGE_THRESHOLD"
        /\ t.body.num > 0
    BY <1>1, <1>10, PutType DEF ChangeThreshold, ThresholdValid
  <2>2. {s \in Steward : StewardKey(s) \in {ThresholdKey}} = {}
    BY KeysDiffer
  <2>3. /\ KVStewards(kv) = KVStewards(snapshot) \cup {}
        /\ Present(kv, ThresholdKey) /\ kv[ThresholdKey].val = t.body.num
    <3> DEFINE K == {ThresholdKey}
    <3>1. ThresholdKey \in K /\ {s \in Steward : StewardKey(s) \in K} = {}
      BY <2>2
    <3> HIDE DEF K
    <3>2. /\ KVStewards(Put(snapshot, K, t.body.num))
               = KVStewards(snapshot) \cup {s \in Steward : StewardKey(s) \in K}
          /\ Present(Put(snapshot, K, t.body.num), ThresholdKey)
          /\ Put(snapshot, K, t.body.num)[ThresholdKey].val = t.body.num
      BY <1>1, <3>1, PutCommits
    <3> QED BY <3>1, <3>2 DEF K
  <2> HIDE DEF kv
  <2> QED BY <1>1, <1>3, <1>4, <1>6, <2>1, <2>3, CommitStep
<1>11. CASE PutItem(t)
  <2> DEFINE kv == Put(snapshot, {ItemKey(x)}, t.body.num)
  <2>1. kv \in Snapshot /\ Commit(t, kv) /\ t.body.kind = "PUT"
    BY <1>1, <1>11, PutType DEF PutItem
  <2>2. /\ {s \in Steward : StewardKey(s) \in {ItemKey(x)}} = {}
        /\ ThresholdKey \notin {ItemKey(x)}
    BY KeysDiffer
  <2>3. /\ KVStewards(kv) = KVStewards(snapshot) \cup {}
        /\ kv[ThresholdKey] = snapshot[ThresholdKey]
    <3> DEFINE K == {ItemKey(x)}
    <3>1. ThresholdKey \notin K /\ {s \in Steward : StewardKey(s) \in K} = {}
      BY <2>2
    <3> HIDE DEF K
    <3>2. /\ KVStewards(Put(snapshot, K, t.body.num))
               = KVStewards(snapshot) \cup {s \in Steward : StewardKey(s) \in K}
          /\ Put(snapshot, K, t.body.num)[ThresholdKey] = snapshot[ThresholdKey]
      BY <1>1, <3>1, PutCommits
    <3> QED BY <3>1, <3>2 DEF K
  <2> HIDE DEF kv
  <2> QED BY <1>1, <1>3, <1>4, <1>5, <1>6, <2>1, <2>3, CommitStep
          DEF KVThreshold, Present
<1> QED BY <1>1, <1>7, <1>8, <1>9, <1>10, <1>11 DEF Accept, CreateGroup

\* A refused transition leaves every recorded root and the founding values
\* alone.
LEMMA RefusalCommits ==
    ASSUME CommitInv, NEW t \in Submitted, Disciplined(t), TypeOK',
           Equivocate(t) \/ Unauthorised(t) \/ Invalid(t)
    PROVE  CommitInv'
<1>1. /\ UNCHANGED <<snapshot, histories, applied>>
      /\ UNCHANGED founding
  <2>1. CASE Equivocate(t) \/ Unauthorised(t)
    BY <2>1 DEF Equivocate, Unauthorised
  <2>2. CASE Invalid(t)
    <3>1. applied # 0
      BY <2>2 DEF Disciplined, Invalid, Valid
    <3>2. applied > 0
      BY <3>1 DEF CommitInv, TypeOK
    <3> QED BY <2>2, <3>2, HeadLookup DEF Invalid, founding
  <2> QED BY <2>1, <2>2
<1> QED BY <1>1 DEF CommitInv, RootCommits, KVThreshold, KVStewards, Present,
                    histories, founding

\* The invariant holds initially and every step keeps it.
LEMMA CommitInvInit == Init => CommitInv
<1> SUFFICES ASSUME Init PROVE CommitInv
  OBVIOUS
<1>1. TypeOK
  BY InitType
<1>2. DOMAIN stewardHistory = {} /\ DOMAIN thresholdHistory = {} /\ applied = 0
  BY DEF Init
<1> QED BY <1>1, <1>2 DEF Init, CommitInv, RootCommits

LEMMA CommitInvStep == CommitInv /\ [DisciplinedNext]_vars => CommitInv'
<1> SUFFICES ASSUME CommitInv, [DisciplinedNext]_vars PROVE CommitInv'
  OBVIOUS
<1>1. CASE DisciplinedNext
  <2>1. PICK t \in Submitted : Disciplined(t) /\ Apply(t)
    BY <1>1 DEF DisciplinedNext
  <2>2. TypeOK'
    BY <2>1, SubmittedType, ApplyType DEF CommitInv
  <2>3. CASE Accept(t)
    <3>1. CASE applied = 0
      <4>1. CreateGroup(t)
        BY <2>1, <2>3, <3>1 DEF Disciplined, Accept, AddSteward, RemoveSteward,
                                SlashSteward, ChangeThreshold, PutItem
      <4> QED BY <2>1, <2>2, <4>1, CreateCommits
    <3>2. CASE applied # 0
      <4>1. applied > 0
        BY <3>2 DEF CommitInv, TypeOK
      <4> QED BY <2>1, <2>2, <2>3, <4>1, AcceptCommits
    <3> QED BY <3>1, <3>2
  <2> QED BY <2>1, <2>2, <2>3, RefusalCommits DEF Apply
<1>2. CASE UNCHANGED vars
  BY <1>2 DEF vars, CommitInv, TypeOK, RootCommits, KVThreshold, KVStewards, Present
<1> QED BY <1>1, <1>2

\* Two hosts at one root agree on the stewards and the threshold: the root
\* determines what is recorded for it.
THEOREM RootsCommit == DisciplinedSpec => []RootCommits
<1>1. CommitInv => RootCommits
  BY DEF CommitInv
<1> QED BY <1>1, CommitInvInit, CommitInvStep, PTL DEF DisciplinedSpec

\* What is recorded for a root is never rewritten.
THEOREM HistoriesFrozen == DisciplinedSpec => HistoryFrozen
<1>1. ASSUME CommitInv, CommitInv', [DisciplinedNext]_vars
      PROVE  [\A r \in DOMAIN stewardHistory :
                 /\ r \in DOMAIN stewardHistory'
                 /\ stewardHistory'[r] = stewardHistory[r]
                 /\ thresholdHistory'[r] = thresholdHistory[r]]_vars
  <2>1. SUFFICES ASSUME DisciplinedNext, NEW r \in DOMAIN stewardHistory
                 PROVE  /\ r \in DOMAIN stewardHistory'
                        /\ stewardHistory'[r] = stewardHistory[r]
                        /\ thresholdHistory'[r] = thresholdHistory[r]
    BY <1>1
  <2>2. PICK t \in Submitted : Disciplined(t) /\ Apply(t)
    BY <2>1 DEF DisciplinedNext
  <2>3. applied # 0 /\ applied > 0
    BY <1>1, <2>1 DEF CommitInv, TypeOK
  <2>4. initialThreshold' = initialThreshold
    BY <1>1, <2>2, <2>3, HeadLookup
       DEF Apply, Accept, CreateGroup, AddSteward, RemoveSteward, SlashSteward,
           ChangeThreshold, PutItem, Commit, Equivocate, Unauthorised, Invalid, founding
  <2>5. r \in DOMAIN stewardHistory'
    BY <2>1, <2>2
       DEF Apply, Accept, CreateGroup, AddSteward, RemoveSteward, SlashSteward,
           ChangeThreshold, PutItem, Commit, Record, Equivocate, Unauthorised,
           Invalid, histories
  <2> QED BY <1>1, <2>1, <2>4, <2>5
          DEF CommitInv, RootCommits, KVThreshold, KVStewards, Present
<1> QED BY <1>1, CommitInvInit, CommitInvStep, PTL DEF DisciplinedSpec, HistoryFrozen

-----------------------------------------------------------------------------
(* Authentication cannot be turned off, whatever clients submit.  The       *)
(* strengthening covers the half-founded group that a refused CREATE_GROUP  *)
(* leaves behind: founding stewards always come with a founding threshold.  *)

AuthInv ==
    /\ TypeOK
    /\ applied > 0 \/ initialStewards # {} => initialThreshold > 0
    /\ applied > 0 => snapshot \in DOMAIN thresholdHistory
    /\ applied = 0 => DOMAIN stewardHistory = {}
    /\ \A r \in DOMAIN thresholdHistory : thresholdHistory[r] > 0

\* A transition past the multisig gate leaves a positive founding threshold.
LEMMA FoundingPositive ==
    ASSUME AuthInv, NEW t \in Transition, Authorised(t)
    PROVE  FoundedThreshold(t) > 0
<1>1. CASE Founding(t)
  BY <1>1 DEF Authorised, Quorum, FoundedThreshold
<1>2. CASE ~Founding(t)
  <2>1. StewardsAt(t.body.prior) # {}
    BY <1>2 DEF Founding
  <2>2. applied > 0 \/ initialStewards # {}
    <3>1. CASE applied = 0
      BY <2>1, <3>1 DEF StewardsAt, AuthInv
    <3> QED BY <3>1 DEF AuthInv, TypeOK
  <2> QED BY <1>2, <2>2 DEF AuthInv, FoundedThreshold
<1> QED BY <1>1, <1>2

\* Committing an authorised transition records a positive threshold.
LEMMA CommitAuth ==
    ASSUME AuthInv, NEW t \in Transition, Authorised(t), NEW kv, Commit(t, kv),
           t.body.kind = "CHANGE_THRESHOLD" => t.body.num > 0, TypeOK'
    PROVE  AuthInv'
<1>1. FoundedThreshold(t) > 0
  BY FoundingPositive
<1>2. ThresholdAfter(t) > 0
  BY <1>1 DEF ThresholdAfter, AuthInv
<1>3. /\ thresholdHistory' = Record(thresholdHistory, kv, ThresholdAfter(t))
      /\ snapshot' = kv /\ initialThreshold' = FoundedThreshold(t)
      /\ applied' = applied + 1 /\ applied \in Nat
  BY DEF Commit, AuthInv, TypeOK
<1>4. /\ snapshot' \in DOMAIN thresholdHistory'
      /\ \A r \in DOMAIN thresholdHistory' : thresholdHistory'[r] > 0
  BY <1>2, <1>3 DEF Record, AuthInv
<1> QED BY <1>1, <1>3, <1>4 DEF AuthInv

\* Every outcome of Apply keeps authentication on.
LEMMA AuthStep == AuthInv /\ [Next]_vars => AuthInv'
<1> SUFFICES ASSUME AuthInv, [Next]_vars PROVE AuthInv'
  OBVIOUS
<1>1. CASE Next
  <2>1. PICK t \in Submitted : Apply(t)
    BY <1>1 DEF Next
  <2>2. t \in Transition /\ TypeOK'
    BY <2>1, SubmittedType, ApplyType DEF AuthInv
  <2>3. CASE Accept(t)
    <3>1. Authorised(t) /\ (t.body.kind = "CHANGE_THRESHOLD" => t.body.num > 0)
      BY <2>3 DEF Accept, CreateGroup, AddSteward, RemoveSteward, SlashSteward,
                  ChangeThreshold, PutItem, Admitted, ThresholdValid
    <3>2. PICK kv : Commit(t, kv)
      BY <2>3 DEF Accept, CreateGroup, AddSteward, RemoveSteward, SlashSteward,
                  ChangeThreshold, PutItem
    <3> QED BY <2>2, <3>1, <3>2, CommitAuth
  <2>4. CASE Equivocate(t) \/ Unauthorised(t)
    BY <2>2, <2>4 DEF Equivocate, Unauthorised, AuthInv, histories, founding
  <2>5. CASE Invalid(t)
    <3>1. FoundedThreshold(t) > 0
      BY <2>2, <2>5, FoundingPositive DEF Invalid, Admitted
    <3> QED BY <2>2, <2>5, <3>1 DEF Invalid, AuthInv, histories
  <2> QED BY <2>1, <2>3, <2>4, <2>5 DEF Apply
<1>2. CASE UNCHANGED vars
  BY <1>2 DEF vars, AuthInv, TypeOK
<1> QED BY <1>1, <1>2

\* No sequence of submissions, refused ones included, leads to a group that
\* accepts unsigned transitions.
THEOREM AuthenticationStaysOn == Spec => []AuthenticationOn
<1>1. Init => AuthInv
  <2> SUFFICES ASSUME Init PROVE AuthInv
    OBVIOUS
  <2>1. DOMAIN stewardHistory = {} /\ DOMAIN thresholdHistory = {} /\ applied = 0
        /\ initialStewards = {}
    BY DEF Init
  <2> QED BY <2>1, InitType DEF AuthInv
<1>2. AuthInv => AuthenticationOn
  BY DEF AuthInv, AuthenticationOn, HeadThreshold, ThresholdAt
<1> QED BY <1>1, <1>2, AuthStep, PTL DEF Spec

-----------------------------------------------------------------------------
(* The steward cap.  Roots other than the founding one are reached from the *)
(* head, so an addition is checked against the set it adds to.              *)

\* No accepted step of a disciplined client moves the founding stewards, once
\* something is recorded.
LEMMA FoundingStays ==
    ASSUME CommitInv, NEW t \in Submitted, Disciplined(t), Apply(t), applied > 0
    PROVE  initialStewards' = initialStewards
<1>1. CASE Admitted(t)
  BY <1>1, HeadLookup
     DEF Apply, Accept, CreateGroup, AddSteward, RemoveSteward, SlashSteward,
         ChangeThreshold, PutItem, Commit, Equivocate, Unauthorised, Invalid, founding
<1>2. CASE ~Admitted(t)
  BY <1>2
     DEF Apply, Accept, CreateGroup, AddSteward, RemoveSteward, SlashSteward,
         ChangeThreshold, PutItem, Admitted, Equivocate, Unauthorised, Invalid, founding
<1> QED BY <1>1, <1>2

\* What a later transition records is the head's set with one member more, and
\* then within the cap, or a part of it.
LEMMA RecordedFromHead ==
    ASSUME CommitInv, NEW t \in Submitted, Disciplined(t), applied > 0,
           NEW kv, Commit(t, kv), Accept(t)
    PROVE  /\ snapshot \in DOMAIN stewardHistory
           /\ \/ Cardinality(StewardsAfter(t, kv)) <= MaxStewards
              \/ StewardsAfter(t, kv) \subseteq stewardHistory[snapshot]
<1>1. t.body.kind \in Kind /\ t.body.kind # "CREATE_GROUP"
  BY SubmittedType DEF CommitInv, Transition, Body, Disciplined
<1>2. Admitted(t)
  BY <1>1 DEF Accept, CreateGroup, AddSteward, RemoveSteward, SlashSteward,
              ChangeThreshold, PutItem
<1>3. snapshot \in DOMAIN stewardHistory /\ stewardHistory[snapshot] = KVStewards(snapshot)
  BY <1>2, HeadLookup DEF CommitInv, RootCommits
<1>4. StewardsBefore(t, kv) = stewardHistory[snapshot]
  BY <1>2, <1>3, HeadLookup
<1>5. CASE t.body.kind = "ADD_STEWARD"
  <2>1. AddValid(t)
    BY <1>5 DEF Accept, CreateGroup, AddSteward, RemoveSteward, SlashSteward,
                ChangeThreshold, PutItem
  <2>2. HeadStewards = stewardHistory[snapshot]
    BY <1>3 DEF HeadStewards, StewardsAt
  <2>3. StewardsAfter(t, kv) = HeadStewards \cup {t.body.who}
    BY <1>4, <1>5, <2>2 DEF StewardsAfter
  <2> QED BY <1>3, <2>1, <2>3 DEF AddValid
<1>6. CASE t.body.kind # "ADD_STEWARD"
  BY <1>1, <1>3, <1>4, <1>6 DEF StewardsAfter
<1> QED BY <1>5, <1>6

\* The cap at every root, across a step.
LEMMA CapStep ==
    ASSUME CommitInv, CommitInv', StewardsCapped, [DisciplinedNext]_vars
    PROVE  StewardsCapped'
<1>1. CASE UNCHANGED vars
  BY <1>1 DEF vars, StewardsCapped
<1>2. CASE DisciplinedNext
  <2>1. PICK t \in Submitted : Disciplined(t) /\ Apply(t)
    BY <1>2 DEF DisciplinedNext
  <2>2. CASE Equivocate(t) \/ Unauthorised(t) \/ Invalid(t)
    <3>1. CASE applied = 0
      <4>1. DOMAIN stewardHistory = {}
        BY <3>1 DEF CommitInv
      <4>2. DOMAIN stewardHistory' = {}
        BY <2>2, <4>1 DEF Equivocate, Unauthorised, Invalid, histories
      <4> QED BY <4>2 DEF StewardsCapped
    <3>2. CASE applied > 0
      BY <2>1, <2>2, <3>2, FoundingStays
         DEF Equivocate, Unauthorised, Invalid, histories, StewardsCapped
    <3> QED BY <3>1, <3>2 DEF CommitInv, TypeOK
  <2>3. CASE Accept(t)
    <3>1. PICK kv : Commit(t, kv)
      BY <2>3 DEF Accept, CreateGroup, AddSteward, RemoveSteward, SlashSteward,
                  ChangeThreshold, PutItem
    <3>2. /\ stewardHistory' = Record(stewardHistory, kv, StewardsAfter(t, kv))
          /\ initialStewards' = FoundedStewards(t)
      BY <3>1 DEF Commit
    <3>3. /\ DOMAIN stewardHistory' = DOMAIN stewardHistory \cup {kv}
          /\ stewardHistory'[kv] = StewardsAfter(t, kv)
          /\ \A r \in DOMAIN stewardHistory : r # kv => stewardHistory'[r] = stewardHistory[r]
      BY <3>2 DEF Record
    <3>4. CASE applied = 0
      <4>1. DOMAIN stewardHistory' = {kv}
        BY <3>3, <3>4 DEF CommitInv
      <4>2. StewardsAfter(t, kv) = initialStewards'
        BY <2>1, <3>2, <3>4 DEF Disciplined, StewardsAfter
      <4> QED BY <3>3, <4>1, <4>2 DEF StewardsCapped
    <3>5. CASE applied > 0
      <4>1. initialStewards' = initialStewards
        BY <2>1, <3>5, FoundingStays
      <4>2. /\ snapshot \in DOMAIN stewardHistory
            /\ \/ Cardinality(StewardsAfter(t, kv)) <= MaxStewards
               \/ StewardsAfter(t, kv) \subseteq stewardHistory[snapshot]
        BY <2>1, <2>3, <3>1, <3>5, RecordedFromHead
      <4>3. /\ stewardHistory[snapshot] \subseteq Steward
            /\ StewardsAfter(t, kv) \subseteq stewardHistory[snapshot] =>
                  Cardinality(StewardsAfter(t, kv)) <= Cardinality(stewardHistory[snapshot])
            /\ Cardinality(stewardHistory[snapshot]) \in Nat
            /\ StewardsAfter(t, kv) \subseteq stewardHistory[snapshot] =>
                  Cardinality(StewardsAfter(t, kv)) \in Nat
        <5>1. stewardHistory[snapshot] \subseteq Steward
          BY <4>2 DEF CommitInv, TypeOK
        <5>2. IsFiniteSet(stewardHistory[snapshot])
          BY <5>1, StewardAssumption, FS_Subset
        <5> QED BY <5>1, <5>2, FS_Subset, FS_CardinalityType
      <4>4. \/ Cardinality(StewardsAfter(t, kv)) <= MaxStewards
            \/ StewardsAfter(t, kv) \subseteq initialStewards
        <5>1. CASE Cardinality(stewardHistory[snapshot]) <= MaxStewards
          BY <4>2, <4>3, <5>1, CapAssumption
        <5>2. CASE stewardHistory[snapshot] \subseteq initialStewards
          BY <4>2, <5>2
        <5> QED BY <4>2, <5>1, <5>2 DEF StewardsCapped
      <4> QED BY <3>3, <4>1, <4>4 DEF StewardsCapped
    <3> QED BY <3>4, <3>5 DEF CommitInv, TypeOK
  <2> QED BY <2>1, <2>2, <2>3 DEF Apply
<1> QED BY <1>1, <1>2

\* Nobody joins a steward set on top of the cap; what exceeds it was founded.
THEOREM CapKept == DisciplinedSpec => []StewardsCapped
<1>1. Init => StewardsCapped
  BY DEF Init, StewardsCapped
<1>2. CommitInv /\ StewardsCapped /\ [DisciplinedNext]_vars
        => CommitInv' /\ StewardsCapped'
  BY CommitInvStep, CapStep
<1>3. Init => CommitInv /\ StewardsCapped
  BY <1>1, CommitInvInit
<1> QED BY <1>2, <1>3, PTL DEF DisciplinedSpec

-----------------------------------------------------------------------------
(* The equivocation gate.  The log is read as a set; the invariant says that *)
(* every logged transition with a prior_state is, for the steward that       *)
(* signed it first, the one the equivocation log holds for that state.       *)

Logged == {log[i] : i \in DOMAIN log}

\* The entry of the equivocation log that a checked transition answers to.
NoteOf(t) == [steward |-> SigningSteward(t), body |-> t.body]

ForkInv ==
    /\ CommitInv
    /\ Len(seen) <= MaxSeen
    /\ \A t \in Logged : t.body.prior # None => Checked(t)
    /\ Len(seen) < MaxSeen =>
         /\ \A t \in Logged : t.body.prior # None =>
               \E k \in DOMAIN seen : seen[k] = NoteOf(t)
         /\ \A k, l \in DOMAIN seen :
               /\ seen[k].steward = seen[l].steward
               /\ seen[k].body.prior = seen[l].body.prior
               => k = l

\* What a FIFO list holds after eviction it held before; a list shorter than
\* its cap has evicted nothing.
LEMMA NewestElements ==
    ASSUME NEW S, NEW q \in Seq(S), NEW n \in Nat \ {0}
    PROVE  /\ Len(Newest(q, n)) <= n
           /\ Len(Newest(q, n)) <= Len(q)
           /\ Len(Newest(q, n)) < n \/ Len(Newest(q, n)) = Len(q) => Newest(q, n) = q
           /\ \A i \in DOMAIN Newest(q, n) : \E j \in DOMAIN q : Newest(q, n)[i] = q[j]
<1>1. CASE Len(q) > n
  <2> DEFINE m == Len(q) - n + 1
  <2>1. Len(q) \in Nat /\ m \in 1 .. Len(q) + 1 /\ Len(q) \in 0 .. Len(q)
    BY <1>1, LenProperties
  <2>2. /\ Newest(q, n) = SubSeq(q, m, Len(q))
        /\ Len(SubSeq(q, m, Len(q))) = Len(q) - m + 1
        /\ SubSeq(q, m, Len(q)) \in Seq(S)
        /\ \A i \in 1 .. Len(q) - m + 1 : SubSeq(q, m, Len(q))[i] = q[m + i - 1]
    BY <1>1, <2>1, SubSeqProperties DEF Newest
  <2>3. Len(q) - m + 1 = n
    BY <2>1
  <2>4. DOMAIN Newest(q, n) = 1 .. n /\ DOMAIN q = 1 .. Len(q)
    BY <2>2, <2>3, LenProperties
  <2>5. ASSUME NEW i \in DOMAIN Newest(q, n)
        PROVE  \E j \in DOMAIN q : Newest(q, n)[i] = q[j]
    <3>1. i \in 1 .. n
      BY <2>4
    <3>2. m + i - 1 \in 1 .. Len(q)
      BY <2>1, <3>1
    <3>3. Newest(q, n)[i] = q[m + i - 1]
      BY <2>2, <2>3, <3>1
    <3> QED BY <2>4, <3>2, <3>3
  <2>6. Len(Newest(q, n)) = n
    BY <2>2, <2>3
  <2> HIDE DEF m
  <2> QED BY <1>1, <2>1, <2>5, <2>6
<1>2. CASE ~(Len(q) > n)
  BY <1>2, LenProperties DEF Newest
<1> QED BY <1>1, <1>2

\* The equivocation log of a step, as long as it is not full: it grows by at
\* most the entry of the transition, for a pair it did not know.
LEMMA SeenStep ==
    ASSUME ForkInv, NEW t \in Transition, seen' = SeenAfter(t)
    PROVE  /\ Len(seen') <= MaxSeen
           /\ Len(seen') < MaxSeen =>
                /\ Len(seen) < MaxSeen
                /\ DOMAIN seen \subseteq DOMAIN seen'
                /\ \A k \in DOMAIN seen : seen'[k] = seen[k]
                /\ \A k, l \in DOMAIN seen' :
                      /\ seen'[k].steward = seen'[l].steward
                      /\ seen'[k].body.prior = seen'[l].body.prior
                      => k = l
                /\ Checked(t) /\ ~Conflicts(t) =>
                      \E k \in DOMAIN seen' : seen'[k] = NoteOf(t)
<1> DEFINE E == [steward : Steward, body : Body]
<1>1. seen \in Seq(E) /\ Len(seen) \in Nat /\ DOMAIN seen = 1 .. Len(seen)
  BY LenProperties DEF ForkInv, CommitInv, TypeOK
<1>2. MaxSeen \in Nat \ {0}
  BY CapAssumption
<1>3. CASE Checked(t) /\ SeenFor(SigningSteward(t), t.body.prior) = {}
  <2> DEFINE q == Append(seen, NoteOf(t))
  <2>1. NoteOf(t) \in E
    BY <1>3, SigningType DEF NoteOf, Transition
  <2>2. /\ q \in Seq(E) /\ Len(q) = Len(seen) + 1 /\ DOMAIN q = 1 .. Len(seen) + 1
        /\ q[Len(seen) + 1] = NoteOf(t)
        /\ \A k \in 1 .. Len(seen) : q[k] = seen[k]
    <3> HIDE DEF E
    <3> QED BY <1>1, <2>1, AppendProperties, LenProperties
  <2>3. seen' = Newest(q, MaxSeen)
    BY <1>3 DEF SeenAfter, NoteOf
  <2> HIDE DEF q, E
  <2>4. /\ Len(seen') <= MaxSeen
        /\ Len(seen') < MaxSeen => seen' = q
    BY <1>2, <2>2, <2>3, NewestElements
  <2>5. ASSUME NEW k \in DOMAIN q, NEW l \in DOMAIN q, Len(seen) < MaxSeen,
               q[k].steward = q[l].steward, q[k].body.prior = q[l].body.prior
        PROVE  k = l
    <3>1. ASSUME NEW x \in 1 .. Len(seen)
          PROVE  ~(q[x].steward = SigningSteward(t) /\ q[x].body.prior = t.body.prior)
      BY <1>1, <1>3, <2>2, <3>1 DEF SeenFor
    <3>2. q[Len(seen) + 1].steward = SigningSteward(t) /\ q[Len(seen) + 1].body = t.body
      BY <2>2 DEF NoteOf
    <3>3. CASE k \in 1 .. Len(seen) /\ l \in 1 .. Len(seen)
      BY <1>1, <2>2, <2>5, <3>3 DEF ForkInv
    <3>4. CASE k = Len(seen) + 1 \/ l = Len(seen) + 1
      <4>1. (k = Len(seen) + 1 \/ k \in 1 .. Len(seen)) /\ (l = Len(seen) + 1 \/ l \in 1 .. Len(seen))
        BY <1>1, <2>2
      <4> QED BY <2>5, <3>1, <3>2, <3>4, <4>1
    <3> QED BY <1>1, <2>2, <3>3, <3>4
  <2>6. Len(seen') < MaxSeen => Len(seen) < MaxSeen
    BY <1>1, <1>2, <2>2, <2>4
  <2>7. Len(seen) + 1 \in DOMAIN q
    BY <1>1, <2>2
  <2>8. DOMAIN seen \subseteq DOMAIN q
    BY <1>1, <2>2
  <2>9. \A k \in DOMAIN seen : q[k] = seen[k]
    BY <1>1, <2>2
  <2> QED BY <2>2, <2>4, <2>5, <2>6, <2>7, <2>8, <2>9
<1>4. CASE ~(Checked(t) /\ SeenFor(SigningSteward(t), t.body.prior) = {})
  <2>1. seen' = seen
    BY <1>4 DEF SeenAfter
  <2>2. ASSUME Checked(t), ~Conflicts(t)
        PROVE  \E k \in DOMAIN seen : seen[k] = NoteOf(t)
    <3>1. PICK k \in SeenFor(SigningSteward(t), t.body.prior) : TRUE
      BY <1>4, <2>2
    <3>2. k \in DOMAIN seen /\ seen[k].steward = SigningSteward(t) /\ seen[k].body = t.body
      BY <2>2, <3>1 DEF Conflicts, SeenFor
    <3>3. seen[k] \in E
      <4> HIDE DEF E
      <4> QED BY <1>1, <3>2
    <3> QED BY <3>2, <3>3 DEF NoteOf
  <2> QED BY <2>1, <2>2 DEF ForkInv
<1> QED BY <1>3, <1>4

\* The signing steward of a transition depends on what is recorded for its
\* prior_state alone.
LEMMA SigningStays ==
    ASSUME NEW t, t.body.prior # None, t.body.prior \in DOMAIN stewardHistory,
           t.body.prior \in DOMAIN stewardHistory',
           stewardHistory'[t.body.prior] = stewardHistory[t.body.prior]
    PROVE  /\ SigningSteward(t)' = SigningSteward(t)
           /\ NoteOf(t)' = NoteOf(t)
           /\ Checked(t)' <=> Checked(t)
<1>1. StewardsAt(t.body.prior)' = StewardsAt(t.body.prior)
  BY DEF StewardsAt
<1>2. SigningSteward(t)' = SigningSteward(t)
  BY <1>1 DEF SigningSteward
<1> QED BY <1>2 DEF NoteOf, Checked

\* A checked transition names a recorded root.
LEMMA CheckedRecorded ==
    ASSUME NEW t, Checked(t)
    PROVE  t.body.prior # None /\ t.body.prior \in DOMAIN stewardHistory
BY DEF Checked, SigningSteward, StewardsAt

\* What is recorded stays recorded, as it was.
LEMMA FrozenStep ==
    ASSUME CommitInv, CommitInv', DisciplinedNext, NEW r \in DOMAIN stewardHistory
    PROVE  r \in DOMAIN stewardHistory' /\ stewardHistory'[r] = stewardHistory[r]
<1>1. PICK t \in Submitted : Disciplined(t) /\ Apply(t)
  BY DEF DisciplinedNext
<1>2. r \in DOMAIN stewardHistory'
  BY <1>1
     DEF Apply, Accept, CreateGroup, AddSteward, RemoveSteward, SlashSteward,
         ChangeThreshold, PutItem, Commit, Record, Equivocate, Unauthorised,
         Invalid, histories
<1> QED BY <1>2 DEF CommitInv, RootCommits, KVStewards, Present

\* The quorum an accepted transition with a prior_state had contains its
\* signing steward.
LEMMA AcceptedChecked ==
    ASSUME NEW t \in Transition, TypeOK, Authorised(t), t.body.prior # None,
           t.body.kind # "CREATE_GROUP"
    PROVE  Checked(t)
<1>1. Quorum(StewardsAt(t.body.prior), ThresholdAt(t.body.prior), t)
  BY DEF Authorised
<1>2. Signers(t) \cap StewardsAt(t.body.prior) # {}
  <2>1. ThresholdAt(t.body.prior) \in Nat /\ ThresholdAt(t.body.prior) > 0
    BY <1>1, LookupType DEF Quorum
  <2>2. Cardinality({}) = 0
    BY FS_EmptySet
  <2> QED BY <1>1, <2>1, <2>2 DEF Quorum
<1>3. PICK i \in DOMAIN t.sigs : t.sigs[i] \in StewardsAt(t.body.prior)
  BY <1>2 DEF Signers
<1> QED BY <1>3, FirstSigner, StewardAssumption DEF Checked

\* The log after a commit: the transition and what was there.
LEMMA LoggedStep ==
    ASSUME TypeOK, NEW t \in Transition, NEW kv, Commit(t, kv)
    PROVE  Logged' \subseteq Logged \cup {t}
<1>1. log \in Seq(Transition) /\ MaxLogSize \in Nat \ {0}
  BY CapAssumption DEF TypeOK
<1>2. /\ Append(log, t) \in Seq(Transition)
      /\ \A j \in DOMAIN Append(log, t) : Append(log, t)[j] \in Logged \cup {t}
  BY <1>1, AppendProperties, LenProperties DEF Logged
<1>3. log' = Newest(Append(log, t), MaxLogSize)
  BY DEF Commit
<1>4. ASSUME NEW i \in DOMAIN log'
      PROVE  log'[i] \in Logged \cup {t}
  <2>1. PICK j \in DOMAIN Append(log, t) :
             Newest(Append(log, t), MaxLogSize)[i] = Append(log, t)[j]
    BY <1>1, <1>2, <1>3, NewestElements
  <2> QED BY <1>2, <1>3, <2>1
<1> QED BY <1>4 DEF Logged

\* The equivocation gate across a step.
LEMMA ForkStep == ForkInv /\ [DisciplinedNext]_vars => ForkInv'
<1> SUFFICES ASSUME ForkInv, [DisciplinedNext]_vars PROVE ForkInv'
  OBVIOUS
<1>1. CommitInv /\ CommitInv' /\ TypeOK
  BY CommitInvStep DEF ForkInv, CommitInv
<1>2. CASE UNCHANGED vars
  <2>1. \A t : (SigningSteward(t)' = SigningSteward(t)) /\ (Checked(t)' <=> Checked(t))
                 /\ (NoteOf(t)' = NoteOf(t))
    BY <1>2 DEF vars, SigningSteward, StewardsAt, Checked, NoteOf
  <2>2. Logged' = Logged /\ seen' = seen
    BY <1>2 DEF vars, Logged
  <2> QED BY <1>1, <2>1, <2>2 DEF ForkInv
<1>3. CASE DisciplinedNext
  <2>1. PICK t \in Submitted : Disciplined(t) /\ Apply(t)
    BY <1>3 DEF DisciplinedNext
  <2>2. t \in Transition
    BY <1>1, <2>1, SubmittedType
  <2>3. \A x \in Logged : x.body.prior # None =>
            /\ Checked(x)' /\ NoteOf(x)' = NoteOf(x)
    <3> SUFFICES ASSUME NEW x \in Logged, x.body.prior # None
                 PROVE  Checked(x)' /\ NoteOf(x)' = NoteOf(x)
      OBVIOUS
    <3>1. PICK y : y = x
      OBVIOUS
    <3>2. Checked(y) /\ y.body.prior # None /\ y.body.prior \in DOMAIN stewardHistory
      BY <3>1, CheckedRecorded DEF ForkInv
    <3>3. /\ y.body.prior \in DOMAIN stewardHistory'
          /\ stewardHistory'[y.body.prior] = stewardHistory[y.body.prior]
      BY <1>1, <1>3, <3>2, FrozenStep
    <3> QED BY <3>1, <3>2, <3>3, SigningStays
  <2>4. CASE Equivocate(t)
    <3>1. Logged' = Logged /\ seen' = seen
      BY <2>4 DEF Equivocate, Logged
    <3> QED BY <1>1, <2>3, <3>1 DEF ForkInv
  <2>5. CASE Unauthorised(t) \/ Invalid(t)
    <3>1. Logged' = Logged /\ seen' = SeenAfter(t)
      BY <2>5 DEF Unauthorised, Invalid, Logged
    <3>2. /\ Len(seen') <= MaxSeen
          /\ Len(seen') < MaxSeen =>
                /\ Len(seen) < MaxSeen
                /\ DOMAIN seen \subseteq DOMAIN seen'
                /\ \A k \in DOMAIN seen : seen'[k] = seen[k]
                /\ \A k, l \in DOMAIN seen' :
                      /\ seen'[k].steward = seen'[l].steward
                      /\ seen'[k].body.prior = seen'[l].body.prior
                      => k = l
      BY <2>2, <3>1, SeenStep
    <3> QED BY <1>1, <2>3, <3>1, <3>2 DEF ForkInv
  <2>6. CASE Accept(t)
    <3>1. PICK kv : Commit(t, kv)
      BY <2>6 DEF Accept, CreateGroup, AddSteward, RemoveSteward, SlashSteward,
                  ChangeThreshold, PutItem
    <3>2. Admitted(t)
      BY <2>6 DEF Accept, CreateGroup, AddSteward, RemoveSteward, SlashSteward,
                  ChangeThreshold, PutItem
    <3>3. Logged' \subseteq Logged \cup {t} /\ seen' = SeenAfter(t)
      BY <1>1, <2>2, <3>1, LoggedStep DEF Commit
    <3>4. /\ Len(seen') <= MaxSeen
          /\ Len(seen') < MaxSeen =>
                /\ Len(seen) < MaxSeen
                /\ DOMAIN seen \subseteq DOMAIN seen'
                /\ \A k \in DOMAIN seen : seen'[k] = seen[k]
                /\ \A k, l \in DOMAIN seen' :
                      /\ seen'[k].steward = seen'[l].steward
                      /\ seen'[k].body.prior = seen'[l].body.prior
                      => k = l
                /\ Checked(t) => \E k \in DOMAIN seen' : seen'[k] = NoteOf(t)
      BY <2>2, <3>2, <3>3, SeenStep DEF Admitted
    <3>5. ASSUME t.body.prior # None
          PROVE  Checked(t) /\ Checked(t)' /\ NoteOf(t)' = NoteOf(t)
      <4>1. t.body.kind # "CREATE_GROUP"
        BY <2>1, <3>5 DEF Disciplined
      <4>2. Checked(t)
        BY <1>1, <2>2, <3>2, <3>5, <4>1, AcceptedChecked DEF Admitted
      <4>3. t.body.prior \in DOMAIN stewardHistory
        BY <4>2, CheckedRecorded
      <4>4. /\ t.body.prior \in DOMAIN stewardHistory'
            /\ stewardHistory'[t.body.prior] = stewardHistory[t.body.prior]
        BY <1>1, <1>3, <4>3, FrozenStep
      <4> QED BY <3>5, <4>2, <4>3, <4>4, SigningStays
    <3>6. \A x \in Logged' : x.body.prior # None => Checked(x)'
      BY <2>3, <3>3, <3>5
    <3>7. Len(seen') < MaxSeen => \A x \in Logged' : x.body.prior # None =>
               \E k \in DOMAIN seen' : seen'[k] = NoteOf(x)'
      <4> SUFFICES ASSUME Len(seen') < MaxSeen, NEW x \in Logged', x.body.prior # None
                   PROVE  \E k \in DOMAIN seen' : seen'[k] = NoteOf(x)'
        OBVIOUS
      <4>1. CASE x = t
        BY <3>4, <3>5, <4>1
      <4>2. CASE x \in Logged
        <5>1. PICK k \in DOMAIN seen : seen[k] = NoteOf(x)
          BY <3>4, <4>2 DEF ForkInv
        <5> QED BY <2>3, <3>4, <4>2, <5>1
      <4> QED BY <3>3, <4>1, <4>2
    <3> QED BY <1>1, <3>4, <3>6, <3>7 DEF ForkInv
  <2> QED BY <2>1, <2>4, <2>5, <2>6 DEF Apply
<1> QED BY <1>2, <1>3

\* Until the equivocation log is full, no two different transitions that one
\* steward signed first at one state are both applied.
THEOREM NoFork == DisciplinedSpec => []NoForkApplied
<1>1. Init => ForkInv
  <2> SUFFICES ASSUME Init PROVE ForkInv
    OBVIOUS
  <2>1. Logged = {} /\ DOMAIN seen = {} /\ Len(seen) = 0
    BY DEF Init, Logged
  <2> QED BY <2>1, CommitInvInit, CapAssumption DEF ForkInv
<1>2. ForkInv => NoForkApplied
  <2> SUFFICES ASSUME ForkInv, Len(seen) < MaxSeen,
                      NEW i \in DOMAIN log, NEW j \in DOMAIN log,
                      log[i].body.prior = log[j].body.prior,
                      log[i].body.prior # None,
                      SigningSteward(log[i]) = SigningSteward(log[j])
               PROVE  log[i].body = log[j].body
    BY DEF NoForkApplied
  <2>1. log[i] \in Logged /\ log[j] \in Logged
    BY DEF Logged
  <2>2. PICK k \in DOMAIN seen : seen[k] = NoteOf(log[i])
    BY <2>1 DEF ForkInv
  <2>3. PICK l \in DOMAIN seen : seen[l] = NoteOf(log[j])
    BY <2>1 DEF ForkInv
  <2>4. /\ seen[k].steward = SigningSteward(log[i]) /\ seen[k].body = log[i].body
        /\ seen[l].steward = SigningSteward(log[j]) /\ seen[l].body = log[j].body
    BY <2>2, <2>3 DEF NoteOf
  <2>5. k = l
    BY <2>4 DEF ForkInv
  <2> QED BY <2>4, <2>5
<1> QED BY <1>1, <1>2, ForkStep, PTL DEF DisciplinedSpec

-----------------------------------------------------------------------------
(* Slashes stick.  While the log holds every transition ever applied, an    *)
(* active steward with a slash entry has an addition after its newest slash.*)

\* What SlashSticks says, of the entries of the snapshot, which move one key
\* at a time.
SlashInv ==
    /\ CommitInv
    /\ Len(log) <= applied
    /\ Len(log) = applied => \A s \in Steward :
          Present(snapshot, StewardKey(s)) /\ Present(snapshot, SlashedKey(s)) =>
              \E i \in DOMAIN log :
                  Adds(i, s) /\ \A j \in DOMAIN log : Slashes(j, s) => j < i

\* Writing keys makes them present, deleting one makes it absent; the others
\* stay as they were.
LEMMA PresentAfter ==
    ASSUME NEW kv \in Snapshot, NEW k \in Key
    PROVE  /\ \A K : \A v : Present(Put(kv, K, v), k) <=> k \in K \/ Present(kv, k)
           /\ \A x : Present(Drop(kv, x), k) <=> k # x /\ Present(kv, k)
<1>1. kv[k].seq \in Nat
  BY DEF Snapshot, Entry
<1> QED BY <1>1 DEF Put, Drop, Present, Absent, Snapshot

\* Slash entries are keys of their own, one per steward.
LEMMA SlashedKeys ==
    \A s \in Steward : /\ StewardKey(s) \in Key /\ SlashedKey(s) \in Key
                       /\ \A x : /\ SlashedKey(s) = SlashedKey(x) => s = x
                                 /\ SlashedKey(s) # StewardKey(x)
                                 /\ SlashedKey(s) # ItemKey(x)
                       /\ SlashedKey(s) # NameKey /\ SlashedKey(s) # ThresholdKey
BY DEF Key, StewardKey, SlashedKey, ItemKey, NameKey, ThresholdKey

\* A commit keeps the invariant when whoever is an active slashed steward
\* after it was added by it, or was one before and is not slashed by it.
LEMMA SlashCommit ==
    ASSUME SlashInv, CommitInv', NEW t \in Transition, NEW kv, Commit(t, kv),
           \A s \in Steward :
              Present(kv, StewardKey(s)) /\ Present(kv, SlashedKey(s)) =>
                 \/ t.body.kind = "ADD_STEWARD" /\ t.body.who = s
                 \/ /\ Present(snapshot, StewardKey(s)) /\ Present(snapshot, SlashedKey(s))
                    /\ ~(t.body.kind = "SLASH_STEWARD" /\ t.body.who = s)
    PROVE  SlashInv'
<1> DEFINE q == Append(log, t)
<1>1. log \in Seq(Transition) /\ Len(log) \in Nat /\ DOMAIN log = 1 .. Len(log)
  BY LenProperties DEF SlashInv, CommitInv, TypeOK
<1>n. PICK n : n = Len(log) + 1
  OBVIOUS
<1>2. /\ q \in Seq(Transition) /\ Len(q) = n /\ DOMAIN q = 1 .. n /\ q[n] = t
      /\ \A i \in DOMAIN log : q[i] = log[i]
  BY <1>1, <1>n, AppendProperties, LenProperties
<1>3. log' = Newest(q, MaxLogSize) /\ applied' = applied + 1 /\ snapshot' = kv
  BY DEF Commit
<1>4. /\ Len(log') <= n /\ Len(log') \in Nat /\ applied \in Nat
      /\ Len(log') = n => log' = q
  <2>1. MaxLogSize \in Nat \ {0}
    BY CapAssumption
  <2>2. log' \in Seq(Transition)
    BY DEF CommitInv, TypeOK
  <2> HIDE DEF q
  <2> QED BY <1>2, <1>3, <2>1, <2>2, NewestElements, LenProperties
          DEF SlashInv, CommitInv, TypeOK
<1>5. Len(log') <= applied'
  <2>1. Len(log) <= applied
    BY DEF SlashInv
  <2>2. Len(log') <= Len(log) + 1 /\ applied' = applied + 1
    BY <1>n, <1>3, <1>4
  <2> HIDE DEF q
  <2> QED BY <1>1, <1>4, <2>1, <2>2
<1>6. ASSUME Len(log') = applied', NEW s \in Steward,
             Present(kv, StewardKey(s)), Present(kv, SlashedKey(s))
      PROVE  \E i \in DOMAIN log' :
                 Adds(i, s)' /\ \A j \in DOMAIN log' : Slashes(j, s)' => j < i
  <2> HIDE DEF q
  <2>1. Len(log) = applied /\ log' = q
    <3>1. Len(log) <= applied
      BY DEF SlashInv
    <3>2. Len(log') = applied + 1
      BY <1>3, <1>6
    <3>3. Len(log) = applied
      BY <1>1, <1>n, <1>4, <3>1, <3>2
    <3> QED BY <1>n, <1>4, <3>2, <3>3
  <2>2. CASE t.body.kind = "ADD_STEWARD" /\ t.body.who = s
    <3>1. n \in DOMAIN log' /\ Adds(n, s)'
      <4>1. n \in 1 .. n
        BY <1>1, <1>n
      <4>2. n \in DOMAIN log' /\ log'[n] = t
        BY <1>2, <2>1, <4>1
      <4> QED BY <2>2, <4>2 DEF Adds
    <3>2. \A j \in DOMAIN log' : Slashes(j, s)' => j < n
      <4> SUFFICES ASSUME NEW j \in DOMAIN log', Slashes(j, s)' PROVE j < n
        OBVIOUS
      <4>1. j # n
        BY <1>2, <2>1, <2>2 DEF Slashes
      <4> QED BY <1>1, <1>n, <1>2, <2>1, <4>1
    <3> QED BY <3>1, <3>2
  <2>3. CASE /\ Present(snapshot, StewardKey(s)) /\ Present(snapshot, SlashedKey(s))
             /\ ~(t.body.kind = "SLASH_STEWARD" /\ t.body.who = s)
    <3>1. PICK i \in DOMAIN log :
               Adds(i, s) /\ \A j \in DOMAIN log : Slashes(j, s) => j < i
      <4>1. \A x \in Steward :
               Present(snapshot, StewardKey(x)) /\ Present(snapshot, SlashedKey(x)) =>
                  \E i \in DOMAIN log :
                     Adds(i, x) /\ \A j \in DOMAIN log : Slashes(j, x) => j < i
        BY <2>1 DEF SlashInv
      <4> QED BY <2>3, <4>1
    <3>2. i \in DOMAIN log' /\ Adds(i, s)'
      BY <1>1, <1>n, <1>2, <2>1, <3>1 DEF Adds
    <3>3. \A j \in DOMAIN log' : Slashes(j, s)' => j < i
      <4> SUFFICES ASSUME NEW j \in DOMAIN log', Slashes(j, s)' PROVE j < i
        OBVIOUS
      <4>1. j # n
        BY <1>2, <2>1, <2>3 DEF Slashes
      <4>2. j \in DOMAIN log
        BY <1>1, <1>n, <1>2, <2>1, <4>1
      <4>3. Slashes(j, s)
        BY <1>2, <2>1, <4>2 DEF Slashes
      <4> QED BY <3>1, <4>2, <4>3
    <3> QED BY <3>2, <3>3
  <2> QED BY <1>6, <2>2, <2>3
<1>7. Len(log') = applied' => \A s \in Steward :
          Present(snapshot', StewardKey(s)) /\ Present(snapshot', SlashedKey(s)) =>
              \E i \in DOMAIN log' :
                  Adds(i, s)' /\ \A j \in DOMAIN log' : Slashes(j, s)' => j < i
  BY <1>3, <1>6
<1> QED BY <1>5, <1>7 DEF SlashInv, StewardKey, SlashedKey, Present

\* Slashes across a step.
LEMMA SlashStep == SlashInv /\ [DisciplinedNext]_vars => SlashInv'
<1> SUFFICES ASSUME SlashInv, [DisciplinedNext]_vars PROVE SlashInv'
  OBVIOUS
<1>1. CommitInv /\ CommitInv' /\ snapshot \in Snapshot
  BY CommitInvStep DEF SlashInv, CommitInv, TypeOK
<1>2. CASE UNCHANGED vars
  BY <1>1, <1>2 DEF vars, SlashInv, Present, Adds, Slashes
<1>3. CASE DisciplinedNext
  <2>1. PICK t \in Submitted : Disciplined(t) /\ Apply(t)
    BY <1>3 DEF DisciplinedNext
  <2>2. t \in Transition /\ Named(t)
    BY <1>1, <2>1, SubmittedType DEF CommitInv
  <2> DEFINE x == t.body.who
  <2>3. CASE Equivocate(t) \/ Unauthorised(t) \/ Invalid(t)
    <3>1. UNCHANGED <<snapshot, log, applied>>
      BY <2>3 DEF Equivocate, Unauthorised, Invalid
    <3> QED BY <1>1, <3>1 DEF SlashInv, Present, Adds, Slashes
  <2>4. CASE CreateGroup(t)
    <3> DEFINE K == {NameKey} \cup {StewardKey(s) : s \in t.body.set}
    <3> DEFINE kv == Put(snapshot, K, 1)
    <3>1. Commit(t, kv) /\ snapshot = EmptySnapshot
      BY <1>1, <2>1, <2>4 DEF CreateGroup, Disciplined, CommitInv
    <3>2. \A s \in Steward : ~Present(kv, SlashedKey(s))
      <4> SUFFICES ASSUME NEW s \in Steward PROVE ~Present(kv, SlashedKey(s))
        OBVIOUS
      <4>1. SlashedKey(s) \in Key /\ SlashedKey(s) \notin K
        BY SlashedKeys
      <4>2. ~Present(snapshot, SlashedKey(s))
        BY <3>1, <4>1 DEF EmptySnapshot, Absent, Present
      <4> HIDE DEF K
      <4> QED BY <1>1, <4>1, <4>2, PresentAfter
    <3> HIDE DEF kv, K
    <3> QED BY <1>1, <2>2, <3>1, <3>2, SlashCommit
  <2>5. CASE AddSteward(t)
    <3> DEFINE K == {StewardKey(x)}
    <3> DEFINE kv == Put(snapshot, K, 1)
    <3>1. Commit(t, kv) /\ t.body.kind = "ADD_STEWARD"
      BY <2>5 DEF AddSteward
    <3>2. \A s \in Steward : Present(kv, StewardKey(s)) /\ Present(kv, SlashedKey(s)) =>
             \/ s = x
             \/ Present(snapshot, StewardKey(s)) /\ Present(snapshot, SlashedKey(s))
      <4> SUFFICES ASSUME NEW s \in Steward, s # x,
                          Present(kv, StewardKey(s)), Present(kv, SlashedKey(s))
                   PROVE  Present(snapshot, StewardKey(s)) /\ Present(snapshot, SlashedKey(s))
        OBVIOUS
      <4>1. /\ StewardKey(s) \in Key /\ StewardKey(s) \notin K
            /\ SlashedKey(s) \in Key /\ SlashedKey(s) \notin K
        BY SlashedKeys, KeysDiffer
      <4> HIDE DEF K
      <4> QED BY <1>1, <4>1, PresentAfter
    <3> HIDE DEF kv, K
    <3> QED BY <1>1, <2>2, <3>1, <3>2, SlashCommit
  <2>6. CASE RemoveSteward(t)
    <3> DEFINE kv == Drop(snapshot, StewardKey(x))
    <3>1. Commit(t, kv) /\ t.body.kind = "REMOVE_STEWARD"
      BY <2>6 DEF RemoveSteward
    <3>2. \A s \in Steward : Present(kv, StewardKey(s)) /\ Present(kv, SlashedKey(s)) =>
             Present(snapshot, StewardKey(s)) /\ Present(snapshot, SlashedKey(s))
      BY <1>1, SlashedKeys, PresentAfter
    <3> HIDE DEF kv
    <3> QED BY <1>1, <2>2, <3>1, <3>2, SlashCommit
  <2>7. CASE SlashSteward(t)
    <3> DEFINE mid == Drop(snapshot, StewardKey(x))
    <3> DEFINE K == {SlashedKey(x)}
    <3> DEFINE kv == Put(mid, K, 1)
    <3>1. Commit(t, kv) /\ t.body.kind = "SLASH_STEWARD" /\ x \in Steward /\ mid \in Snapshot
      BY <1>1, <2>2, <2>7, DropType DEF SlashSteward, Named
    <3>2. \A s \in Steward : Present(kv, StewardKey(s)) /\ Present(kv, SlashedKey(s)) =>
             s # x /\ Present(snapshot, StewardKey(s)) /\ Present(snapshot, SlashedKey(s))
      <4> SUFFICES ASSUME NEW s \in Steward,
                          Present(kv, StewardKey(s)), Present(kv, SlashedKey(s))
                   PROVE  /\ s # x
                          /\ Present(snapshot, StewardKey(s)) /\ Present(snapshot, SlashedKey(s))
        OBVIOUS
      <4>1. /\ StewardKey(s) \in Key /\ StewardKey(s) \notin K /\ SlashedKey(s) \in Key
            /\ SlashedKey(s) \in K => s = x
        BY <3>1, SlashedKeys
      <4>2. /\ Present(mid, StewardKey(s))
            /\ SlashedKey(s) \in K \/ Present(mid, SlashedKey(s))
        <5> HIDE DEF mid, K
        <5> QED BY <3>1, <4>1, PresentAfter
      <4>3. StewardKey(s) # StewardKey(x) /\ Present(snapshot, StewardKey(s))
        BY <1>1, <4>1, <4>2, PresentAfter
      <4>4. s # x
        BY <4>3
      <4>5. Present(mid, SlashedKey(s))
        BY <4>1, <4>2, <4>4
      <4> QED BY <1>1, <4>1, <4>3, <4>4, <4>5, PresentAfter
    <3> HIDE DEF kv, K, mid
    <3> QED BY <1>1, <2>2, <3>1, <3>2, SlashCommit
  <2>8. CASE ChangeThreshold(t)
    <3> DEFINE K == {ThresholdKey}
    <3> DEFINE kv == Put(snapshot, K, t.body.num)
    <3>1. Commit(t, kv) /\ t.body.kind = "CHANGE_THRESHOLD"
      BY <2>8 DEF ChangeThreshold
    <3>2. \A s \in Steward : StewardKey(s) \notin K /\ SlashedKey(s) \notin K
      BY SlashedKeys, KeysDiffer
    <3> HIDE DEF K
    <3>3. \A s \in Steward : Present(kv, StewardKey(s)) /\ Present(kv, SlashedKey(s)) =>
             Present(snapshot, StewardKey(s)) /\ Present(snapshot, SlashedKey(s))
      BY <1>1, <3>2, SlashedKeys, PresentAfter
    <3> HIDE DEF kv
    <3> QED BY <1>1, <2>2, <3>1, <3>3, SlashCommit
  <2>9. CASE PutItem(t)
    <3> DEFINE K == {ItemKey(x)}
    <3> DEFINE kv == Put(snapshot, K, t.body.num)
    <3>1. Commit(t, kv) /\ t.body.kind = "PUT"
      BY <2>9 DEF PutItem
    <3>2. \A s \in Steward : StewardKey(s) \notin K /\ SlashedKey(s) \notin K
      BY SlashedKeys, KeysDiffer
    <3> HIDE DEF K
    <3>3. \A s \in Steward : Present(kv, StewardKey(s)) /\ Present(kv, SlashedKey(s)) =>
             Present(snapshot, StewardKey(s)) /\ Present(snapshot, SlashedKey(s))
      BY <1>1, <3>2, SlashedKeys, PresentAfter
    <3> HIDE DEF kv
    <3> QED BY <1>1, <2>2, <3>1, <3>3, SlashCommit
  <2> QED BY <2>1, <2>3, <2>4, <2>5, <2>6, <2>7, <2>8, <2>9 DEF Apply, Accept
<1> QED BY <1>2, <1>3

\* While the log is whole, a slashed steward is active only if a quorum added
\* it again after its newest slash.
THEOREM SlashesStick == DisciplinedSpec => []SlashSticks
<1>1. Init => SlashInv
  <2> SUFFICES ASSUME Init PROVE SlashInv
    OBVIOUS
  <2>1. \A s \in Steward : ~Present(snapshot, StewardKey(s))
    BY SlashedKeys DEF Init, EmptySnapshot, Absent, Present
  <2> QED BY <2>1, CommitInvInit DEF Init, SlashInv
<1>2. SlashInv => SlashSticks
  <2> SUFFICES ASSUME SlashInv, Len(log) = applied, NEW s \in HeadStewards,
                      Present(snapshot, SlashedKey(s))
               PROVE  \E i \in DOMAIN log :
                         Adds(i, s) /\ \A j \in DOMAIN log : Slashes(j, s) => j < i
    BY DEF SlashSticks
  <2>1. HeadStewards = KVStewards(snapshot)
    <3>1. CASE applied = 0
      <4>1. HeadStewards = {} /\ snapshot = EmptySnapshot
        BY <3>1 DEF SlashInv, CommitInv, HeadStewards, StewardsAt
      <4> QED BY <4>1, EmptyCommits
    <3>2. CASE applied > 0
      BY <3>2 DEF SlashInv, CommitInv, RootCommits, HeadStewards, StewardsAt
    <3> QED BY <3>1, <3>2 DEF SlashInv, CommitInv, TypeOK
  <2>2. s \in Steward /\ Present(snapshot, StewardKey(s))
    BY <2>1 DEF KVStewards
  <2>3. \A x \in Steward :
           Present(snapshot, StewardKey(x)) /\ Present(snapshot, SlashedKey(x)) =>
              \E i \in DOMAIN log :
                 Adds(i, x) /\ \A j \in DOMAIN log : Slashes(j, x) => j < i
    BY DEF SlashInv
  <2> QED BY <2>2, <2>3
<1> QED BY <1>1, <1>2, SlashStep, PTL DEF DisciplinedSpec

=============================================================================
