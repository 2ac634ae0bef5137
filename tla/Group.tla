------------------------------- MODULE Group -------------------------------
(***************************************************************************)
(* One group's state machine, State.Apply of internal/group/group.go, for  *)
(* the genesis branch: the multisig gate, the Merkle key-value snapshot,   *)
(* the steward and threshold histories keyed by state root, the            *)
(* equivocation log and the evidence list.                                 *)
(*                                                                         *)
(* Apply runs entirely under State.mu, so one call is one step.  A call    *)
(* that returns an error before it changes anything (an unknown prior      *)
(* root, a malformed HLC, a missing payload) is a stuttering step and has  *)
(* no action.  The rejections that DO leave something behind have one each.*)
(*                                                                         *)
(* Data abstraction: a public key is a member of Steward; the state root   *)
(* is the snapshot itself (the hash commits to every key, value and        *)
(* sequence number, and is taken to be injective); the two CREATE_GROUP    *)
(* name entries are one key; the kinds that only write one application     *)
(* entry (members, events, RSVPs, attestations, ...) are "PUT" over Item.  *)
(***************************************************************************)
EXTENDS Naturals, Sequences, FiniteSets

CONSTANTS
    Steward,       \* public keys that are, were, may become or pose as stewards
    Item,          \* application keys of the snapshot (member/x, event/x, ...)
    Stamp,         \* HLC values a transition may carry
    Payload,       \* the payloads the environment submits
    Envelope,      \* the signature lists the environment attaches
    None,          \* "no prior_state", "no steward"
    MaxStewards,   \* State.MaxStewards
    MaxKVEntries,  \* State.MaxKVSize, in entries of the model
    MaxLogSize,    \* State.MaxLogSize
    MaxSeen,       \* EquivocationLogMaxEntries
    MaxEvidence,   \* State.MaxEvidenceEntries
    MaxApplied,    \* bound of the model: transitions applied
    EvidenceBound  \* bound of the model: length of the evidence list

Kind == {"CREATE_GROUP", "ADD_STEWARD", "REMOVE_STEWARD", "SLASH_STEWARD",
         "CHANGE_THRESHOLD", "PUT"}

PayloadType ==
    [kind : Kind,
     who : Steward \cup Item \cup {None},  \* the key the payload is about
     num : Nat,                            \* threshold, or the value written
     set : SUBSET Steward,                 \* initial_stewards
     ok  : BOOLEAN]                        \* string fields within their limits

ASSUME PayloadAssumption ==
    /\ Payload \subseteq PayloadType
    /\ \A p \in Payload :
          /\ p.kind \in {"ADD_STEWARD", "REMOVE_STEWARD", "SLASH_STEWARD"}
                => p.who \in Steward
          /\ p.kind = "PUT" => p.who \in Item
ASSUME EnvelopeAssumption == Envelope \subseteq Seq(Steward)
ASSUME CapAssumption ==
    /\ MaxStewards \in Nat \ {0} /\ MaxKVEntries \in Nat \ {0}
    /\ MaxLogSize \in Nat \ {0}  /\ MaxSeen \in Nat \ {0}
    /\ MaxEvidence \in Nat \ {0} /\ MaxApplied \in Nat /\ EvidenceBound \in Nat
ASSUME StewardAssumption == IsFiniteSet(Steward) /\ None \notin Steward

VARIABLES
    snapshot,          \* the key-value state of the branch; also its root
    stewardHistory,    \* root -> steward set
    thresholdHistory,  \* root -> threshold
    initialStewards,   \* set by CREATE_GROUP's verification
    initialThreshold,
    log,               \* applied transitions, oldest evicted
    seen,              \* the equivocation log, in insertion order
    evidence,          \* the pending equivocation evidence
    applied            \* how many transitions were ever applied (history)

vars == <<snapshot, stewardHistory, thresholdHistory, initialStewards,
          initialThreshold, log, seen, evidence, applied>>

histories == <<stewardHistory, thresholdHistory>>
founding  == <<initialStewards, initialThreshold>>

-----------------------------------------------------------------------------
(* The snapshot. *)

StewardKey(s) == <<"steward", s>>
SlashedKey(s) == <<"slashed", s>>
ItemKey(i)    == <<"item", i>>
NameKey       == <<"name", None>>
ThresholdKey  == <<"threshold", None>>

Key == {StewardKey(s) : s \in Steward} \cup {SlashedKey(s) : s \in Steward}
         \cup {ItemKey(i) : i \in Item} \cup {NameKey, ThresholdKey}

Entry    == [val : Nat, seq : Nat]
Absent   == [val |-> 0, seq |-> 0]
Snapshot == [Key -> Entry]
EmptySnapshot == [k \in Key |-> Absent]

Present(kv, k) == kv[k].seq > 0
Size(kv) == Cardinality({k \in Key : Present(kv, k)})

\* appendOrUpdate with a value, for each key of K; a nil value is Drop.
Put(kv, K, v) ==
    [k \in Key |-> IF k \in K THEN [val |-> v, seq |-> kv[k].seq + 1] ELSE kv[k]]
Drop(kv, k) == [kv EXCEPT ![k] = Absent]

\* The entry cap of appendOrUpdate: updates are always allowed.  The caps on the
\* bytes of a value and of the snapshot are left out.
HasRoom(kv, K) ==
    LET new == {k \in K : ~Present(kv, k)}
    IN  new = {} \/ Size(kv) + Cardinality(new) <= MaxKVEntries

KVStewards(kv) == {s \in Steward : Present(kv, StewardKey(s))}

-----------------------------------------------------------------------------
(* Transitions and the sets they are verified against. *)

Body == [kind : Kind, who : Steward \cup Item \cup {None}, num : Nat,
         set : SUBSET Steward, ok : BOOLEAN,
         prior : Snapshot \cup {None}, stamp : Stamp]

\* Canonical bytes cover everything but the signatures.
BodyOf(p, r, h) == [kind |-> p.kind, who |-> p.who, num |-> p.num,
                    set |-> p.set, ok |-> p.ok, prior |-> r, stamp |-> h]

Transition == [body : Body, sigs : Seq(Steward)]

Signers(t) == {t.sigs[i] : i \in DOMAIN t.sigs}

StewardsAt(r) ==
    IF r = None
    THEN IF snapshot \in DOMAIN stewardHistory
         THEN stewardHistory[snapshot] ELSE initialStewards
    ELSE IF r \in DOMAIN stewardHistory THEN stewardHistory[r] ELSE {}

ThresholdAt(r) ==
    IF r = None
    THEN IF snapshot \in DOMAIN thresholdHistory
         THEN thresholdHistory[snapshot] ELSE initialThreshold
    ELSE IF r \in DOMAIN thresholdHistory THEN thresholdHistory[r] ELSE 0

HeadStewards  == StewardsAt(None)
HeadThreshold == ThresholdAt(None)

\* crypto.VerifyMultisig: distinct verifying stewards against the threshold.
Quorum(S, n, t) == n > 0 /\ Cardinality(Signers(t) \cap S) >= n

\* The first signature in envelope order that verifies for a steward.
SigningSteward(t) ==
    LET S == StewardsAt(t.body.prior)
    IN  IF \E i \in DOMAIN t.sigs : t.sigs[i] \in S
        THEN t.sigs[CHOOSE i \in DOMAIN t.sigs :
                      /\ t.sigs[i] \in S
                      /\ \A j \in DOMAIN t.sigs : t.sigs[j] \in S => i <= j]
        ELSE None

\* FIFO caps of the log, the equivocation log and the evidence list.
Newest(q, n) == IF Len(q) > n THEN SubSeq(q, Len(q) - n + 1, Len(q)) ELSE q

-----------------------------------------------------------------------------
(* The equivocation check, made before any signature threshold is. *)

Checked(t) == t.body.prior # None /\ SigningSteward(t) # None

SeenFor(s, r) == {i \in DOMAIN seen : seen[i].steward = s /\ seen[i].body.prior = r}

\* Fault: the conflict is only looked for among applied transitions.
ConflictsInLog(t) ==
    /\ Checked(t)
    /\ \E i \in DOMAIN log : /\ i = Len(log)
                             /\ log[i].body.prior = t.body.prior
                             /\ log[i].body # t.body

Conflicts(t) ==
    /\ Checked(t)
    /\ \E i \in SeenFor(SigningSteward(t), t.body.prior) : seen[i].body # t.body

\* Fault: a transition without prior_state or verifying steward is noted too.
SeenAlways(t) ==
    IF SeenFor(SigningSteward(t), t.body.prior) = {}
    THEN Newest(Append(seen, [steward |-> SigningSteward(t), body |-> t.body]),
                MaxSeen)
    ELSE seen

\* check() records the first body it meets for a (steward, prior) pair.
SeenAfter(t) ==
    IF Checked(t) /\ SeenFor(SigningSteward(t), t.body.prior) = {}
    THEN Newest(Append(seen, [steward |-> SigningSteward(t), body |-> t.body]),
                MaxSeen)
    ELSE seen

\* TransitionA of the evidence: the newest logged transition of that steward
\* at that prior state.
FirstSeen(s, r) ==
    LET A == {i \in DOMAIN log : /\ log[i].body.prior = r
                                 /\ SigningSteward(log[i]) = s}
    IN  IF A = {} THEN None
        ELSE log[CHOOSE i \in A : \A j \in A : j <= i].body

-----------------------------------------------------------------------------
(* Verification.  A branch without stewards only accepts CREATE_GROUP,     *)
(* verified against the payload's own stewards and threshold.              *)

Founding(t) == StewardsAt(t.body.prior) = {}

Authorised(t) ==
    IF Founding(t)
    THEN t.body.kind = "CREATE_GROUP" /\ Quorum(t.body.set, t.body.num, t)
    ELSE Quorum(StewardsAt(t.body.prior), ThresholdAt(t.body.prior), t)

\* initialStewards and initialThreshold once the signatures verified.
FoundedStewards(t)  == IF Founding(t) THEN t.body.set ELSE initialStewards
FoundedThreshold(t) == IF Founding(t) THEN t.body.num ELSE initialThreshold

\* What each payload may still be refused for, after the signatures verified.
CreateValid(t) ==
    t.body.ok /\ HasRoom(snapshot, {NameKey} \cup {StewardKey(s) : s \in t.body.set})
\* Fault: the cap is checked against the set before the addition.
AddValidStale(t) ==
    /\ Cardinality(HeadStewards) <= MaxStewards
    /\ HasRoom(snapshot, {StewardKey(t.body.who)})
AddValid(t) ==
    /\ Cardinality(HeadStewards \cup {t.body.who}) <= MaxStewards
    /\ HasRoom(snapshot, {StewardKey(t.body.who)})
SlashGate(t) ==
    t.body.who \in StewardsAt(t.body.prior) /\ t.body.who \notin Signers(t)
SlashValid(t) ==
    /\ SlashGate(t)
    /\ HasRoom(Drop(snapshot, StewardKey(t.body.who)), {SlashedKey(t.body.who)})
\* Fault: a threshold of zero is let through.
ThresholdValidZero(t) ==
    /\ t.body.num <= Cardinality(StewardsAt(t.body.prior))
    /\ HasRoom(snapshot, {ThresholdKey})
ThresholdValid(t) ==
    /\ t.body.num > 0
    /\ t.body.num <= Cardinality(StewardsAt(t.body.prior))
    /\ HasRoom(snapshot, {ThresholdKey})
PutValid(t) == t.body.ok /\ HasRoom(snapshot, {ItemKey(t.body.who)})

Valid(t) ==
    CASE t.body.kind = "CREATE_GROUP"     -> CreateValid(t)
      [] t.body.kind = "ADD_STEWARD"      -> AddValid(t)
      [] t.body.kind = "REMOVE_STEWARD"   -> TRUE
      [] t.body.kind = "SLASH_STEWARD"    -> SlashValid(t)
      [] t.body.kind = "CHANGE_THRESHOLD" -> ThresholdValid(t)
      [] t.body.kind = "PUT"              -> PutValid(t)

\* The checks every transition passes before its payload is looked at.
Admitted(t) == ~Conflicts(t) /\ Authorised(t)

-----------------------------------------------------------------------------
(* Applying. *)

\* computeCurrentStewards and computeCurrentThreshold run after the snapshot
\* is replaced: without a prior_state they look the NEW root up and fall back
\* to the founding values.
StewardsBefore(t, kv) ==
    IF t.body.prior # None THEN StewardsAt(t.body.prior)
    ELSE IF kv \in DOMAIN stewardHistory THEN stewardHistory[kv]
    ELSE FoundedStewards(t)

\* Fault: the slash is missing from the steward-set computation.
StewardsAfterNoSlash(t, kv) ==
    CASE t.body.kind = "CREATE_GROUP"   -> FoundedStewards(t)
      [] t.body.kind = "ADD_STEWARD"    -> StewardsBefore(t, kv) \cup {t.body.who}
      [] t.body.kind = "REMOVE_STEWARD" -> StewardsBefore(t, kv) \ {t.body.who}
      [] OTHER                          -> StewardsBefore(t, kv)

StewardsAfter(t, kv) ==
    CASE t.body.kind = "CREATE_GROUP" -> FoundedStewards(t)
      [] t.body.kind = "ADD_STEWARD"  -> StewardsBefore(t, kv) \cup {t.body.who}
      [] t.body.kind \in {"REMOVE_STEWARD", "SLASH_STEWARD"}
                                      -> StewardsBefore(t, kv) \ {t.body.who}
      [] OTHER                        -> StewardsBefore(t, kv)

\* Fault: every transition falls back to the founding threshold.
ThresholdAfterFounding(t) ==
    IF t.body.kind = "CHANGE_THRESHOLD" THEN t.body.num ELSE FoundedThreshold(t)

ThresholdAfter(t) ==
    IF t.body.kind = "CHANGE_THRESHOLD" THEN t.body.num
    ELSE IF t.body.prior \in DOMAIN thresholdHistory
         THEN thresholdHistory[t.body.prior]
    ELSE FoundedThreshold(t)

Record(f, r, v) == [x \in DOMAIN f \cup {r} |-> IF x = r THEN v ELSE f[x]]

\* The tail of Apply: replace the snapshot, record both histories at the new
\* root, append to the log and evict its oldest entry.
Commit(t, kv) ==
    /\ snapshot' = kv
    /\ stewardHistory' = Record(stewardHistory, kv, StewardsAfter(t, kv))
    /\ thresholdHistory' = Record(thresholdHistory, kv, ThresholdAfter(t))
    /\ initialStewards' = FoundedStewards(t)
    /\ initialThreshold' = FoundedThreshold(t)
    /\ log' = Newest(Append(log, t), MaxLogSize)
    /\ seen' = SeenAfter(t)
    /\ applied' = applied + 1

CreateGroup(t) ==
    /\ t.body.kind = "CREATE_GROUP" /\ Admitted(t) /\ CreateValid(t)
    /\ Commit(t, Put(snapshot, {NameKey} \cup {StewardKey(s) : s \in t.body.set}, 1))
    /\ UNCHANGED evidence

AddSteward(t) ==
    /\ t.body.kind = "ADD_STEWARD" /\ Admitted(t) /\ AddValid(t)
    /\ Commit(t, Put(snapshot, {StewardKey(t.body.who)}, 1))
    /\ UNCHANGED evidence

RemoveSteward(t) ==
    /\ t.body.kind = "REMOVE_STEWARD" /\ Admitted(t)
    /\ Commit(t, Drop(snapshot, StewardKey(t.body.who)))
    /\ UNCHANGED evidence

\* The evidence of a slash is appended without the FIFO cap.
SlashEvidence(t) ==
    Append(evidence, [steward |-> t.body.who, first |-> None, second |-> None])

SlashSteward(t) ==
    /\ t.body.kind = "SLASH_STEWARD" /\ Admitted(t) /\ SlashValid(t)
    /\ Commit(t, Put(Drop(snapshot, StewardKey(t.body.who)),
                     {SlashedKey(t.body.who)}, 1))
    /\ evidence' = SlashEvidence(t)

ChangeThreshold(t) ==
    /\ t.body.kind = "CHANGE_THRESHOLD" /\ Admitted(t) /\ ThresholdValid(t)
    /\ Commit(t, Put(snapshot, {ThresholdKey}, t.body.num))
    /\ UNCHANGED evidence

PutItem(t) ==
    /\ t.body.kind = "PUT" /\ Admitted(t) /\ PutValid(t)
    /\ Commit(t, Put(snapshot, {ItemKey(t.body.who)}, t.body.num))
    /\ UNCHANGED evidence

\* Rejected as equivocation: the evidence list grows, the log does not.
Equivocate(t) ==
    /\ Conflicts(t)
    /\ evidence' = Newest(Append(evidence,
                      [steward |-> SigningSteward(t),
                       first   |-> FirstSeen(SigningSteward(t), t.body.prior),
                       second  |-> t.body]), MaxEvidence)
    /\ UNCHANGED <<snapshot, histories, founding, log, seen, applied>>

\* Rejected by the multisig gate: the equivocation log has noted it already.
Unauthorised(t) ==
    /\ ~Conflicts(t) /\ ~Authorised(t)
    /\ seen' = SeenAfter(t)
    /\ UNCHANGED <<snapshot, histories, founding, log, evidence, applied>>

\* Rejected by the payload: a CREATE_GROUP has already set the founding
\* stewards, a SLASH_STEWARD has already appended its evidence.
Invalid(t) ==
    /\ Admitted(t) /\ ~Valid(t)
    /\ seen' = SeenAfter(t)
    /\ initialStewards' = FoundedStewards(t)
    /\ initialThreshold' = FoundedThreshold(t)
    /\ evidence' = IF t.body.kind = "SLASH_STEWARD" /\ SlashGate(t)
                   THEN SlashEvidence(t) ELSE evidence
    /\ UNCHANGED <<snapshot, histories, log, applied>>

Accept(t) ==
    \/ CreateGroup(t) \/ AddSteward(t) \/ RemoveSteward(t)
    \/ SlashSteward(t) \/ ChangeThreshold(t) \/ PutItem(t)

Apply(t) == Accept(t) \/ Equivocate(t) \/ Unauthorised(t) \/ Invalid(t)

-----------------------------------------------------------------------------
Init ==
    /\ snapshot = EmptySnapshot
    /\ stewardHistory = [r \in {} |-> {}]
    /\ thresholdHistory = [r \in {} |-> 0]
    /\ initialStewards = {} /\ initialThreshold = 0
    /\ log = <<>> /\ seen = <<>> /\ evidence = <<>>
    /\ applied = 0

\* A prior_state other than the head root is refused without effect.
Submitted == {[body |-> BodyOf(p, r, h), sigs |-> e] :
                 p \in Payload, r \in {None, snapshot}, h \in Stamp, e \in Envelope}

InBounds == applied < MaxApplied /\ Len(evidence) < EvidenceBound

Next == InBounds /\ \E t \in Submitted : Apply(t)
Spec == Init /\ [][Next]_vars

\* Clients that follow the protocol: one valid CREATE_GROUP founds the group
\* and every later transition names the prior_state it was signed against
\* (SubmitUserAction and every test helper stamp it).
Disciplined(t) ==
    IF applied = 0
    THEN t.body.kind = "CREATE_GROUP" /\ t.body.prior = None /\ CreateValid(t)
    ELSE t.body.kind # "CREATE_GROUP" /\ t.body.prior # None

DisciplinedNext == InBounds /\ \E t \in Submitted : Disciplined(t) /\ Apply(t)
DisciplinedSpec == Init /\ [][DisciplinedNext]_vars

-----------------------------------------------------------------------------
(* Properties. *)

\* Types: the histories are keyed by recorded roots, the two FIFO lists hold
\* what Apply puts there and the founding threshold is a count.
TypeOK ==
    /\ snapshot \in Snapshot
    /\ DOMAIN stewardHistory \subseteq Snapshot
    /\ stewardHistory \in [DOMAIN stewardHistory -> SUBSET Steward]
    /\ thresholdHistory \in [DOMAIN stewardHistory -> Nat]
    /\ initialStewards \in SUBSET Steward
    /\ initialThreshold \in Nat
    /\ log \in Seq(Transition)
    /\ seen \in Seq([steward : Steward, body : Body])
    /\ evidence \in Seq([steward : Steward, first : Body \cup {None},
                         second : Body \cup {None}])
    /\ applied \in Nat

\* The threshold a root commits to: its entry, or the founding one.
KVThreshold(r) ==
    IF Present(r, ThresholdKey) THEN r[ThresholdKey].val ELSE initialThreshold

\* The Merkle commitment of Apply's CREATE_GROUP comment: a root determines
\* the steward set and the threshold recorded for it, so two hosts at one root
\* verify the next transition against the same keys.
RootCommits ==
    \A r \in DOMAIN stewardHistory :
        /\ stewardHistory[r] = KVStewards(r)
        /\ thresholdHistory[r] = KVThreshold(r)

\* Signature checking can never be turned off: once a transition was applied,
\* the head and every root of the history demand at least one signature,
\* whatever the order of threshold changes, removals and refusals.
AuthenticationOn ==
    /\ applied > 0 => HeadThreshold > 0
    /\ \A r \in DOMAIN thresholdHistory : thresholdHistory[r] > 0

\* The steward cap holds at every root ever reached, although ADD_STEWARD
\* checks it against the head only.  CREATE_GROUP does not check it, so what is
\* above the cap is left from the founding: nobody joined on top of it.
StewardsCapped ==
    \A r \in DOMAIN stewardHistory :
        \/ Cardinality(stewardHistory[r]) <= MaxStewards
        \/ stewardHistory[r] \subseteq initialStewards

\* What was recorded for a root is never rewritten, even when steward churn
\* brings the snapshot back to that root and Apply records it again: a
\* transition verified at a prior_state stays verifiable.
HistoryFrozen ==
    [][\A r \in DOMAIN stewardHistory :
          /\ r \in DOMAIN stewardHistory'
          /\ stewardHistory'[r] = stewardHistory[r]
          /\ thresholdHistory'[r] = thresholdHistory[r]]_vars

\* The equivocation gate: the log never holds two different transitions that
\* one steward signed first at one prior_state, although the head may return
\* to an earlier root (promised until the equivocation log is full and evicts).
NoForkApplied ==
    Len(seen) < MaxSeen => \A i, j \in DOMAIN log :
        (/\ i # j
         /\ log[i].body.prior = log[j].body.prior
         /\ log[i].body.prior # None
         /\ SigningSteward(log[i]) = SigningSteward(log[j]))
        => log[i].body = log[j].body

\* A slash sticks: a steward the snapshot marks as slashed is in the active
\* set only if a quorum added it again after its newest slash (readable from the
\* log as long as it has evicted nothing).
Adds(i, s) == log[i].body.kind = "ADD_STEWARD" /\ log[i].body.who = s
Slashes(i, s) == log[i].body.kind = "SLASH_STEWARD" /\ log[i].body.who = s
SlashSticks ==
    Len(log) = applied => \A s \in HeadStewards :
        Present(snapshot, SlashedKey(s)) =>
            \E i \in DOMAIN log :
                Adds(i, s) /\ \A j \in DOMAIN log : Slashes(j, s) => j < i

-----------------------------------------------------------------------------
(* Statements of the repository that Apply does not keep. *)

\* sim/no_op_test.go: "no two transitions share the same root".
EveryRootNew == [][log' # log => snapshot' \notin DOMAIN stewardHistory]_vars

\* Apply: "First transition - must be CREATE_GROUP".
FirstIsCreate == log # <<>> => log[1].body.kind = "CREATE_GROUP"

\* CHANGE_THRESHOLD's gate: a threshold above the steward count dead-locks the
\* group and such states are refused.
QuorumExists == applied > 0 => HeadThreshold <= Cardinality(HeadStewards)

\* MaxEvidenceEntries: "When exceeded, oldest entries are dropped (FIFO)".
EvidenceCapped == Len(evidence) <= MaxEvidence

\* equivocationLog: its pairs are those "we have ever applied a transition from".
SeenWereApplied ==
    \A i \in DOMAIN seen : \E j \in DOMAIN log : log[j].body = seen[i].body

\* check(): a same-HLC, same-hash transition is a "replay of an already-applied
\* transition. Not an equivocation; just drop."
ReplayDropped ==
    \A i, j \in DOMAIN log : log[i].body = log[j].body => i = j
=============================================================================
