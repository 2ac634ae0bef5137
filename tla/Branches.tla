------------------------------ MODULE Branches ------------------------------
(***************************************************************************)
(* The forest of branches a group's State holds, the durable log behind it *)
(* and the limiter in front of it (State.Apply, NewStateWithPersister and  *)
(* the branch registry of internal/group).                                 *)
(*                                                                         *)
(* The fields of State are the genesis branch.  For another branch Apply   *)
(* swaps that branch's fields in, runs the same code over them, and swaps  *)
(* them back: "Working" is what it swaps in, "Applied", "Leftover" and     *)
(* "Unsaved" what stands after success, refusal and a failed save.         *)
(*                                                                         *)
(* Group models the multisig gate and the payloads; here every threshold   *)
(* is 1, one steward signs, and six kinds stand for the others: two that   *)
(* move the stewards, one that looks at the clock, one that founds, one    *)
(* that branches and one that writes to the custody log all branches       *)
(* share.  A root is the snapshot it commits to.                           *)
(***************************************************************************)
EXTENDS RateLimit, FiniteSets, Sequences

CONSTANTS
    Steward, None,
    Payload,      \* [kind, who, set, num, by] the environment submits
    MaxKV,        \* State.MaxKVSize
    MaxBranches,  \* State.MaxBranches
    MaxTime,      \* bound of the model: the clock
    MaxSaved,     \* bound of the model: rows of the durable log
    MaxFaults     \* bound of the model: failed saves and restarts

Kind == {"CREATE_GROUP", "ADD_STEWARD", "REMOVE_STEWARD", "MIGRATE",
         "BRANCH_CREATE", "DECLARE_CUSTODY"}

\* An entry of a snapshot: which key, the value, and how often it was written.
Key == {"name", "host", "after", "steward", "custody", "parent", "reason"}
           \X (Steward \cup Nat \cup {None})
Entry == [key : Key, val : Nat, seq : Nat \ {0}]

Transition == [kind : Kind, who : Steward \cup {None}, set : SUBSET Steward, num : Nat,
               by : Steward, branch : Nat, prior : {None} \cup SUBSET Entry]

ASSUME BranchAssumption ==
    /\ Payload \subseteq [kind : Kind, who : Steward \cup {None},
                          set : SUBSET Steward, num : Nat, by : Steward]
    /\ \A p \in Payload : p.kind \in {"ADD_STEWARD", "REMOVE_STEWARD"} => p.who \in Steward
    /\ IsFiniteSet(Steward) /\ None \notin Steward \cup Bucket
    /\ MaxKV \in Nat /\ MaxBranches \in Nat \ {0}
    /\ MaxTime \in Nat /\ MaxSaved \in Nat /\ MaxFaults \in Nat

VARIABLES
    genesis,    \* the fields of State: the genesis branch
    branches,   \* id -> [fields, parent, count], the registry without genesis
    nextID,     \* the registry's next id
    custody,    \* the tier each steward declared, 0 without; no branch has its own
    bucket,     \* the limiter's buckets, made on first use
    disk,       \* the transitions table
    up,         \* the process started
    now,        \* the clock; it may step back
    faults,
    spent,      \* history: tokens taken from a bucket and when it was made
    flaws       \* history: what happened since the start that a replay misses

memory == <<genesis, branches, nextID, custody>>
vars == <<memory, bucket, disk, up, now, faults, spent, flaws>>

-----------------------------------------------------------------------------
(* Snapshots: sets of entries. *)

StewardKey(s) == <<"steward", s>>
NameKey       == <<"name", None>>
HostKeys      == {<<"host", None>>, <<"after", None>>}
ParentKey(b)  == <<"parent", b>>
ReasonKey(b)  == <<"reason", b>>
CustodyKey(s) == <<"custody", s>>

Keys(kv) == {e.key : e \in kv}
SeqOf(kv, k) == IF k \in Keys(kv) THEN (CHOOSE e \in kv : e.key = k).seq ELSE 0

\* appendOrUpdate for every <<key, value>> of W.
Write(kv, W) ==
    {e \in kv : e.key \notin {x[1] : x \in W}}
        \cup {[key |-> x[1], val |-> x[2], seq |-> SeqOf(kv, x[1]) + 1] : x \in W}
Drop(kv, k) == {e \in kv : e.key # k}

\* Fault: the cap is looked at once, before the first of several entries.
HasRoomForOne(kv, W) ==
    {x[1] : x \in W} \subseteq Keys(kv) \/ Cardinality(kv) < MaxKV

HasRoom(kv, W) ==
    LET new == {x[1] : x \in W} \ Keys(kv)
    IN  new = {} \/ Cardinality(kv) + Cardinality(new) <= MaxKV

-----------------------------------------------------------------------------
(* The fields Apply works on: what a branch and State have in common. *)

Fields(initial) == [snap |-> {}, hist |-> [r \in {} |-> {}], initial |-> initial,
                    seen |-> {}]

Memory(g, bs, n, c) == [genesis |-> g, branches |-> bs, next |-> n, custody |-> c]
Fresh == Memory(Fields({}), [b \in {} |-> None], 1, [s \in Steward |-> 0])
Now == Memory(genesis, branches, nextID, custody)

\* BRANCH_CREATE is applied to genesis, whichever branch it names.
Stays(t) == t.branch = 0 \/ t.kind = "BRANCH_CREATE"
Known(m, t) ==
    /\ t.branch = 0 \/ t.branch \in DOMAIN m.branches
    /\ t.kind = "BRANCH_CREATE" => Cardinality(DOMAIN m.branches) + 1 < MaxBranches

Working(m, t) == IF Stays(t) THEN m.genesis ELSE m.branches[t.branch].fields

StewardsAt(w, r) ==
    IF r = None
    THEN IF w.snap \in DOMAIN w.hist THEN w.hist[w.snap] ELSE w.initial
    ELSE IF r \in DOMAIN w.hist THEN w.hist[r] ELSE {}
HeadStewards(w) == StewardsAt(w, None)

\* The limiter and the equivocation log look at transitions that name their
\* prior_state and were signed by one of its stewards.
Checked(w, t) == t.prior # None /\ t.by \in StewardsAt(w, t.prior)

\* The equivocation log: {}, a nil map, until the first transition is noted in
\* it, and from then on {S} for the set S it holds.
SeenBy(w, t) == {x \in UNION w.seen : x.by = t.by /\ x.prior = t.prior}
Conflicts(w, t) == Checked(w, t) /\ SeenBy(w, t) \ {t} # {}
Noted(w, t) ==
    IF Checked(w, t) /\ SeenBy(w, t) = {}
    THEN [w EXCEPT !.seen = {(UNION @) \cup {t}}] ELSE w

Founding(w, t) == StewardsAt(w, t.prior) = {}
Authorised(w, t) ==
    IF Founding(w, t) THEN t.kind = "CREATE_GROUP" /\ t.by \in t.set
    ELSE t.by \in StewardsAt(w, t.prior)
Founded(w, t) == IF Founding(w, t) THEN [w EXCEPT !.initial = t.set] ELSE w

\* What a payload writes; id is the branch a BRANCH_CREATE was given.
Writes(t, id) ==
    CASE t.kind = "CREATE_GROUP"  -> {<<NameKey, 1>>} \cup {<<StewardKey(s), 1>> : s \in t.set}
      [] t.kind = "ADD_STEWARD"   -> {<<StewardKey(t.who), 1>>}
      [] t.kind = "MIGRATE"       -> {<<k, t.num>> : k \in HostKeys}
      [] t.kind = "BRANCH_CREATE" -> {<<ParentKey(id), t.branch>>, <<ReasonKey(id), 1>>}
      [] t.kind = "DECLARE_CUSTODY" -> {<<CustodyKey(t.who), t.num>>}
      [] OTHER                    -> {}

\* verifyDeclareStewardCustody: a tier, for a steward of the branch's head.
MayDeclare(w, t) ==
    t.kind = "DECLARE_CUSTODY" /\ t.num # 0 /\ t.who \in HeadStewards(w)

Valid(w, t, id, n) ==
    /\ t.kind = "MIGRATE" => n <= t.num
    /\ t.kind = "DECLARE_CUSTODY" => MayDeclare(w, t)
    /\ HasRoom(w.snap, Writes(t, id))

Passes(m, t) == Known(m, t) /\ t.prior \in {None, Working(m, t).snap}
Accepts(m, t, n) ==
    LET w == Working(m, t)
    IN  /\ Passes(m, t)
        /\ ~Conflicts(w, t) /\ Authorised(w, t)
        /\ Valid(w, t, m.next, n)

-----------------------------------------------------------------------------
(* What Apply leaves behind. *)

\* computeCurrentStewards, after the snapshot was replaced: without a
\* prior_state it looks the new root up.
StewardsAfter(w, t, kv) ==
    LET before == IF t.prior # None THEN StewardsAt(w, t.prior)
                  ELSE IF kv \in DOMAIN w.hist THEN w.hist[kv] ELSE w.initial
    IN  CASE t.kind = "CREATE_GROUP"   -> w.initial
          [] t.kind = "ADD_STEWARD"    -> before \cup {t.who}
          [] t.kind = "REMOVE_STEWARD" -> before \ {t.who}
          [] OTHER                     -> before

\* The tail of Apply: the snapshot and its entry of the steward history.
Committed(w0, t, id) ==
    LET w  == Founded(Noted(w0, t), t)
        kv == IF t.kind = "REMOVE_STEWARD" THEN Drop(w.snap, StewardKey(t.who))
              ELSE Write(w.snap, Writes(t, id))
        s  == StewardsAfter(w, t, kv)
    IN  [w EXCEPT !.snap = kv,
                  !.hist = [r \in DOMAIN @ \cup {kv} |-> IF r = kv THEN s ELSE @[r]]]

\* A BRANCH_CREATE has taken its id before the room in the snapshot is checked.
Allocated(m, t) ==
    IF t.kind # "BRANCH_CREATE" THEN m
    ELSE LET b == [fields |-> Fields(StewardsAt(m.genesis, t.prior)),
                   parent |-> t.branch, count |-> 0]
         IN  [m EXCEPT !.branches = [i \in DOMAIN @ \cup {m.next} |->
                                        IF i = m.next THEN b ELSE @[i]],
                       !.next = @ + 1]

\* The tier is recorded before the room in the snapshot is checked.
Declared(m, t) ==
    IF MayDeclare(Working(m, t), t) THEN [m EXCEPT !.custody[t.who] = t.num] ELSE m

\* Fault: the equivocation log is not swapped back.
AppliedSeenKept(m, t) ==
    LET w == Committed(Working(m, t), t, m.next)
    IN  IF Stays(t) THEN [Allocated(Declared(m, t), t) EXCEPT !.genesis = w]
        ELSE [Declared(m, t) EXCEPT
                !.branches[t.branch] =
                    [fields |-> w, parent |-> @.parent, count |-> @.count + 1],
                !.genesis.seen = w.seen]

\* Success: the branch gets its fields back and counts one more.
Applied(m, t) ==
    LET w == Committed(Working(m, t), t, m.next)
    IN  IF Stays(t) THEN [Allocated(Declared(m, t), t) EXCEPT !.genesis = w]
        ELSE [Declared(m, t) EXCEPT
                !.branches[t.branch] =
                    [fields |-> w, parent |-> @.parent, count |-> @.count + 1]]

\* Of the maps a branch shares with State, what was written through them stays.
SharedSeen(w, t) == IF w.seen = {} THEN {} ELSE Noted(w, t).seen

\* Fault: the swap back counts a refused transition too.
LeftoverCounted(m, t) ==
    IF Stays(t) THEN m ELSE [m EXCEPT !.branches[t.branch].count = @ + 1]

\* Refusal by the signatures or the payload.
Leftover(m, t) ==
    LET w == Working(m, t)
        x == IF Authorised(w, t) THEN Declared(m, t) ELSE m
    IN  CASE ~Stays(t) -> [x EXCEPT !.branches[t.branch].fields.seen = SharedSeen(w, t)]
          [] Stays(t) /\ ~Authorised(w, t) -> [x EXCEPT !.genesis = Noted(w, t)]
          [] OTHER -> [Allocated(x, t) EXCEPT !.genesis = Founded(Noted(w, t), t)]

\* Fault: the fields are swapped back into the branch whatever Apply returned.
UnsavedKept(m, t) == Applied(m, t)

\* SaveTransition failed: genesis has advanced, a branch has not.
Unsaved(m, t) ==
    LET w == Working(m, t)
    IN  IF Stays(t) THEN Applied(m, t)
        ELSE [Declared(m, t) EXCEPT !.branches[t.branch].fields =
                [w EXCEPT !.seen = SharedSeen(w, t), !.hist = Committed(w, t, m.next).hist]]

\* NewStateWithPersister: every row through Apply, by today's clock and
\* without a limiter; the first refusal ends it.
Replayed(x, t, n) ==
    IF x.ok /\ Accepts(x.mem, t, n) THEN [ok |-> TRUE, mem |-> Applied(x.mem, t)]
    ELSE [ok |-> FALSE, mem |-> x.mem]

Replay(d, n) ==
    LET f[i \in 0..Len(d)] ==
            IF i = 0 THEN [ok |-> TRUE, mem |-> Fresh] ELSE Replayed(f[i - 1], d[i], n)
    IN  f[Len(d)]

-----------------------------------------------------------------------------
Init ==
    /\ genesis = Fresh.genesis /\ branches = Fresh.branches /\ nextID = Fresh.next
    /\ custody = Fresh.custody
    /\ bucket = [s \in Steward |-> None]
    /\ disk = <<>> /\ up = TRUE /\ now = 0 /\ faults = 0
    /\ spent = [s \in Steward |-> [tokens |-> 0, since |-> 0]]
    /\ flaws = {}

Becomes(m) ==
    /\ genesis' = m.genesis /\ branches' = m.branches
    /\ nextID' = m.next /\ custody' = m.custody

\* The limiter, before the equivocation log and the signatures.
Charged(t) == Passes(Now, t) /\ Checked(Working(Now, t), t)
BucketOf(s) == IF bucket[s] = None THEN NewBucket(now) ELSE bucket[s]

Throttled(t) == Charged(t) /\ ~HasToken(BucketOf(t.by), now)

Charge(t) ==
    IF Charged(t)
    THEN /\ bucket' = [bucket EXCEPT ![t.by] = Allowed(BucketOf(t.by), now)]
         /\ spent' = [spent EXCEPT ![t.by] =
                [tokens |-> @.tokens + 1,
                 since  |-> IF bucket[t.by] = None THEN now ELSE @.since]]
    ELSE UNCHANGED <<bucket, spent>>

\* The bucket is empty: only its refill is noted.
Throttle(t) ==
    /\ Throttled(t)
    /\ bucket' = [bucket EXCEPT ![t.by] = Allowed(BucketOf(t.by), now)]
    /\ UNCHANGED <<memory, disk, up, now, faults, spent, flaws>>

\* What a failed save may have left in the way of a replay: genesis, a tier or
\* the stewards of an unchanged root moved without a row ("lost"), or the branch's
\* history holds a root it never came to ("unsaved").
After(t) == IF Stays(t) THEN Applied(Now, t).genesis
            ELSE Applied(Now, t).branches[t.branch].fields
FlawOf(t) ==
    IF \/ Stays(t) \/ After(t).snap = Working(Now, t).snap
       \/ Declared(Now, t).custody # custody
    THEN "lost" ELSE "unsaved"

\* A transition without prior_state takes the stewards recorded for its new
\* root, which may be such an entry.
MeetsGhost(t) ==
    "unsaved" \in flaws /\ t.prior = None /\ After(t).snap \in DOMAIN Working(Now, t).hist

\* Applied, broadcast and saved.
Accept(t) ==
    /\ ~Throttled(t) /\ Accepts(Now, t, now)
    /\ Charge(t)
    /\ Becomes(Applied(Now, t))
    /\ disk' = Append(disk, t)
    /\ flaws' = IF MeetsGhost(t) THEN flaws \cup {"ghost"} ELSE flaws
    /\ UNCHANGED <<up, now, faults>>

\* Applied and broadcast; the INSERT failed, the caller gets an error and the
\* process goes on.
SaveFails(t) ==
    /\ ~Throttled(t) /\ Accepts(Now, t, now)
    /\ faults < MaxFaults /\ faults' = faults + 1
    /\ Charge(t)
    /\ Becomes(Unsaved(Now, t))
    /\ flaws' = flaws \cup {FlawOf(t)}
    /\ UNCHANGED <<disk, up, now>>

\* Refused after the limiter and the equivocation log looked at it.
Refuse(t) ==
    /\ ~Throttled(t) /\ Passes(Now, t) /\ ~Conflicts(Working(Now, t), t)
    /\ ~Accepts(Now, t, now)
    /\ Charge(t)
    /\ Becomes(Leftover(Now, t))
    /\ flaws' = IF <<nextID', custody', genesis'.initial>> # <<nextID, custody, genesis.initial>>
                THEN flaws \cup {"phantom"} ELSE flaws
    /\ UNCHANGED <<disk, up, now, faults>>

\* Refused as equivocation: a token is gone (the evidence list is in Group).
Equivocate(t) ==
    /\ ~Throttled(t) /\ Passes(Now, t) /\ Conflicts(Working(Now, t), t)
    /\ Charge(t)
    /\ UNCHANGED <<memory, disk, up, now, faults, flaws>>

\* A crash or a stop, and a new process; a replay that fails ends it at once.
Restart ==
    /\ faults < MaxFaults /\ faults' = faults + 1
    /\ LET r == Replay(disk, now)
       IN  /\ up' = r.ok
           /\ IF r.ok THEN Becomes(r.mem) /\ flaws' = {}
              ELSE UNCHANGED <<memory, flaws>>
    /\ bucket' = [s \in Steward |-> None]
    /\ spent' = [s \in Steward |-> [tokens |-> 0, since |-> 0]]
    /\ UNCHANGED <<disk, now>>

\* The wall clock moves, forward or back.
Clock ==
    /\ \E n \in (0..MaxTime) \ {now} : now' = n
    /\ UNCHANGED <<memory, bucket, disk, up, faults, spent, flaws>>

Submitted ==
    {[kind |-> p.kind, who |-> p.who, set |-> p.set, num |-> p.num, by |-> p.by,
      branch |-> b, prior |-> r] :
        p \in Payload, b \in {0} \cup DOMAIN branches,
        r \in {None, genesis.snap} \cup {branches[i].fields.snap : i \in DOMAIN branches}}

Apply(t) == Accept(t) \/ SaveFails(t) \/ Refuse(t) \/ Equivocate(t) \/ Throttle(t)

Next ==
    \/ up /\ Len(disk) < MaxSaved /\ \E t \in Submitted : Apply(t)
    \/ Restart
    \/ Clock
Spec == Init /\ [][Next]_vars

-----------------------------------------------------------------------------
(* Properties. *)

Expired == \E i \in DOMAIN disk : disk[i].kind = "MIGRATE" /\ disk[i].num < now

FieldsOK(w) ==
    /\ w.snap \subseteq Entry
    /\ \A e, f \in w.snap : e.key = f.key => e = f
    /\ Cardinality(w.snap) <= MaxKV
    /\ w.hist \in [DOMAIN w.hist -> SUBSET Steward]
    /\ w.initial \subseteq Steward

\* Types: a snapshot has one entry per key and stays within its cap, on every
\* branch; the registry holds the ids below the next one, at most MaxBranches
\* with genesis.
TypeOK ==
    /\ FieldsOK(genesis)
    /\ DOMAIN branches = 1..(nextID - 1) /\ nextID <= MaxBranches
    /\ \A b \in DOMAIN branches :
          /\ FieldsOK(branches[b].fields)
          /\ branches[b].parent \in 0..(b - 1) /\ branches[b].count \in Nat
    /\ custody \in [Steward -> Nat]
    /\ bucket \in [Steward -> Bucket \cup {None}]
    /\ disk \in Seq(Transition)
    /\ up \in BOOLEAN /\ now \in 0..MaxTime
    /\ flaws \subseteq {"lost", "unsaved", "ghost", "phantom"}

\* What a restart may not change: everything but the equivocation logs and
\* history entries of roots no branch is at.
HeadOf(w) == [root |-> w.snap, stewards |-> HeadStewards(w), initial |-> w.initial]
View(m) ==
    [genesis |-> HeadOf(m.genesis), next |-> m.next, custody |-> m.custody,
     branches |-> [b \in DOMAIN m.branches |->
        [head |-> HeadOf(m.branches[b].fields), parent |-> m.branches[b].parent,
         count |-> m.branches[b].count]]]

\* NewStateWithPersister's promise, "rebuilding the exact same state root": at
\* any moment the durable log replays without a refusal into the heads,
\* steward sets, branch ids and custody tiers in memory.  Left out: a failed
\* save that moved genesis or a tier or left a history entry a later transition
\* used, a BRANCH_CREATE refused after it took an id, a declaration refused
\* after it was recorded, a CREATE_GROUP refused after it set the founding
\* stewards, and a stored MIGRATE whose deadline has passed.
ReplayAgrees ==
    up /\ flaws \subseteq {"unsaved"} /\ ~Expired =>
        LET r == Replay(disk, now) IN r.ok /\ View(r.mem) = View(Now)

\* C-6, "a flood on branch N has zero effect on branch M": no call of Apply
\* changes two branches; a BRANCH_CREATE adds one and changes genesis alone.
Moved ==
    {b \in DOMAIN branches : b \notin DOMAIN branches' \/ branches'[b] # branches[b]}
        \cup (IF genesis' # genesis THEN {0} ELSE {})
BranchesIsolated == [][Restart \/ Cardinality(Moved) <= 1]_vars

\* The count BRANCH_LIST shows is the number of durable transitions of the
\* branch, through failed saves, refusals and restarts.
CountsDurable ==
    up => \A b \in DOMAIN branches :
        branches[b].count =
            Cardinality({i \in DOMAIN disk : disk[i].branch = b /\ ~Stays(disk[i])})

\* The limiter's bound, from the making of a bucket on: what was spent and what
\* is left came from the burst and from the clock's advance, so a clock going
\* back and forth earns nothing twice.
QuotaKept ==
    \A s \in Steward :
        bucket[s] # None =>
            bucket[s].level + Token * spent[s].tokens
                <= Burst + Rate * (bucket[s].last - spent[s].since)

\* The wait a refused caller is told, cut to whole ticks: nothing earlier is
\* admitted, and one tick later is (the body of retryAfter, ratelimit.go:169-177;
\* its comment says otherwise, RetryAsDocumented).
RetryHonest ==
    \A s \in Steward :
        bucket[s] # None /\ ~HasToken(bucket[s], now) =>
            LET wait == RetryIn(bucket[s], now) IN
            /\ \A d \in 0..(wait - 1) : ~HasToken(bucket[s], now + d)
            /\ now >= bucket[s].last => HasToken(bucket[s], now + wait + 1)

-----------------------------------------------------------------------------
(* Statements of the repository that the code does not keep. *)

\* ratelimit.go:165-167, "Currently 1 / rate seconds ... A more accurate estimate
\* would account for partial tokens already accumulated".
RetryAsDocumented ==
    \A s \in Steward :
        bucket[s] # None /\ ~HasToken(bucket[s], now) =>
            RetryIn(bucket[s], now) = Token \div Rate

\* Apply, on a failed save: "replaying from the durable log will recover to the
\* last persisted transition".
ReplayRecovers == up => Replay(disk, now).ok \/ "phantom" \in flaws \/ Expired

\* NewStateWithPersister: replaying later "is always safe".
ReplayAnyTime == up => Replay(disk, now).ok \/ flaws # {}

\* ErrKVSizeExceeded: "The transition is rejected and no state changes occur".
RefusedChangesNothing ==
    [][up /\ disk' = disk /\ faults' = faults => UNCHANGED <<nextID, custody>>]_vars

\* branch.go: the ids are "Never reused within a group's lifetime".
IdsKept == [][nextID' >= nextID \/ "lost" \in flaws]_vars

\* CREATE_GROUP's comment on the Merkle commitment: the root moves when the
\* steward set does, on a branch too.
RootFollowsStewards ==
    [][\A b \in DOMAIN branches \cap DOMAIN branches' :
          branches'[b].fields.snap = branches[b].fields.snap =>
              HeadStewards(branches'[b].fields) = HeadStewards(branches[b].fields)]_vars

\* docs/02-PROTOCOL.md: a branch is given its parent's stewards, so they may
\* sign at its root.
FreshBranchUsable ==
    \A b \in DOMAIN branches :
        branches[b].fields.initial # {} =>
            StewardsAt(branches[b].fields, branches[b].fields.snap) # {}

\* ratelimit.go: "Each transition consumes one token".
AppliedWithinQuota ==
    \A s \in Steward :
        Token * Cardinality({i \in DOMAIN disk : disk[i].by = s}) <= Burst + Rate * MaxTime

\* Branch.TransitionCount and Head, "surfaced via BRANCH_LIST": the entry of
\* genesis is an empty shell the swap never writes.
Listed(b) ==
    IF b = 0 THEN [head |-> {}, count |-> 0]
    ELSE [head |-> branches[b].fields.snap, count |-> branches[b].count]
GenesisListed == Listed(0).head = genesis.snap
=============================================================================
