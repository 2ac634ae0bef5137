# Federated Meetup: a verification project

TLA+ models of the core of Federated Meetup, checked with TLC on small instances,
and theorems about them that TLAPS proves for every value of the constants. Every
definition is a translation of the Go source; `PROJECT.json` says which lines
each one stands for (`map`), what each run checks, which bug each property was
seen to catch (`mutants`), where code and text disagree (`findings`) and what is
hard to test in this code (`hazards`).

## 1. The system

A *group* is a replicated state machine. Its stewards sign *transitions*; a host
applies them (`State.Apply`), keeps the resulting Merkle key-value snapshot and
streams what it applied to mirrors. Around that core are a WireGuard overlay whose
membership is group state, a simulator of hosts with hybrid logical clocks, a
ticketing product with a payment provider, and a web front end.

| component | state | operations | interacts with |
|---|---|---|---|
| group state machine (`internal/group/group.go`, `equivocation.go`, `gates.go`) | snapshot, steward and threshold histories by root, founding stewards, log, equivocation log, evidence | `Apply` of every transition kind, under one lock | broadcaster, durable log, mesh registry, branches, custody, limiter |
| mesh peer registry (`group/mesh.go`) | peers by WireGuard key, by address, by CoSigner key | add, remove, look up | `Apply`; replay on restart |
| broadcaster (`group/broadcaster.go`) | one bounded channel per subscriber | `Subscribe`, `Broadcast` (drops the oldest) | `Apply`, `Subscribe` streams |
| host service (`internal/host/service.go`) | none of its own | `SubmitTransition`, `SubmitUserAction`, `GetLog`, `Subscribe`, queries | group states, mirrors |
| federation syncer (`internal/federation/syncer.go`) | a cursor per Bootstrap, the local state | `Bootstrap` (paging), `Live` (stream, reconnect) | a peer's host service; the local `Apply` |
| server start (`cmd/fedmeetup/main.go`) | goroutines | starts Bootstrap and Live of every peer | syncers, durable log |
| hybrid logical clock (`internal/hlc`) | a value | `Tick`, `Observe`, `Compare` | simulated hosts |
| simulated hosts (`sim/`) | clock, skew, cursor | `SubmitTransition`, `Deliver` over a faulty mesh | HLC, `Apply` |
| ticket sales (`internal/product`) | orders, sold counters | purchase, refund, atomic order changes | provider, webhook |
| payment (`internal/payment`) | none of its own; the provider's is external | checkout session, refund, webhook dispatch | ticket sales |
| durable log (`group/persistence.go`) | a SQLite table | save, load and replay | `Apply` |
| branches, custody (`group/branch.go`, `custody.go`) | branch registry, declarations | create, swap into `State`, count tiers | `Apply` |
| rate limiter (`internal/ratelimit`) | token buckets | `Allow` | `Apply` |
| WireGuard transport (`transport/wg`) | peers, binds | open, send, inject, close | simulated mesh |
| web store and pages (`internal/web`), reminders, e-mail | RSVPs, sessions, tokens; events reminded | RSVP, confirm, cancel, remind | product, e-mail |
| ActivityPub (`internal/activitypub`) | followers per group | Follow, Undo, deliver | remote servers |
| recurrence (`product/recurrence.go`) | none | parse and expand a rule | events |
| MCP, crypto, types, wire format, documents, deployment | none that changes | facades, hashing, encoding, text | all |

What is hard here: `Apply` changes several indexes before it knows whether the
transition will be accepted; roots recur, because removing a key undoes adding it;
a signature gate that looks at the steward set *of a root*; two goroutines that
feed one mirror; channels that drop; restarts that replay only what was accepted;
clocks that step back against a drift limit; webhook events that arrive twice, late
and out of order with a refund call; a save that fails after the state advanced; one
set of fields that stands for whichever branch is applied to; two stores that
handlers update one after the other; a Go slice appended to, shifted and ranged over
without a lock; one deadline for all the followers of a delivery.

What makes each component correct:

- *group*: a root commits to one steward set and threshold; history is not
  rewritten; authentication cannot be switched off; one steward's fork is never
  applied twice; a slash sticks; the steward cap holds.
- *mesh registry*: what the snapshot names is registered, and a replay rebuilds what
  the snapshot names; a replay refuses nothing the host accepted and addresses are
  unique, both while stewards go by the log; the cap holds; only a current member
  vouches (the last two fail, section 5).
- *sync*: a mirror holds a prefix of its peer's log, and catches up unless its
  channel dropped something or its Bootstrap failed before the first transition.
- *clock*: stamps respect happened-before; cursors advance; drift is bounded.
- *tickets*: the counter of seats sold stays within capacity; while refunds are
  orderly (section 2) it matches the orders, money in the books matches money moved,
  and a refunded order stays refunded.
- *branches, durable log, limiter*: what is on disk replays into what is in memory;
  a call touches one branch; a steward gets no more than the bucket earned, and is
  told an honest wait.
- *events, RSVPs, reminders*: an RSVP is confirmed only after a request with the
  token of the RSVP that stands (the token is mailed to the guest, and `/my-rsvps`
  shows it to anybody who asks for the address); whoever was confirmed when the window
  opened is written to, once in a life of the process.
- *followers*, as long as no two accesses to the unlocked list fall on the same
  moment: the list is what the requests leave; a delivery goes through each entry of
  its list once, leaves out only those that slow servers leave no time for, and ends.

## 2. The modules

| module | models | proofs |
|---|---|---|
| `Group` | `State.Apply` on the genesis branch | `GroupProofs` |
| `MeshPeers` | the mesh registry under CREATE_GROUP, ADD_HOST_PEER, REMOVE_HOST_PEER, refusals and replay | `MeshPeersProofs` |
| `Hlc`, `HlcHosts` | clock operations; hosts that stamp and merge over a faulty mesh | `HlcProofs` |
| `ReplicatedLog` | abstract: what sync promises | |
| `Mirror` | Bootstrap, Live, the peers' GetLog and Subscribe, the dropping channel | `MirrorProofs` |
| `Orders` | purchases, provider, webhook, refunds | `OrdersProofs` |
| `RateLimit` | the token bucket, as operators | `BranchesProofs` |
| `Branches` (extends `RateLimit`) | `State.Apply` over genesis and branches, the custody log they share, the durable log behind it, the limiter in front of it, replay | `BranchesProofs` |
| `EventDesk` | event creation, sync and cancellation, RSVPs and magic links, the reminder scheduler | `EventDeskProofs` |
| `Followers` | the ActivityPub inbox and the delivery of a new event | `FollowersProofs` |
| `GroupMC`, `MeshPeersMC`, `HlcMC`, `MirrorMC`, `OrdersMC`, `BranchesMC`, `EventDeskMC`, `FollowersMC` | instances for TLC | |

Operators whose comment starts with "Fault:" are not part of any specification:
each is one definition rewritten the way a plausible bug would have it, and the
properties were seen to fail with it.

### Group

One step is one call of `Apply`, which runs under `State.mu`. A call refused before
it changed anything stutters; the refusals that leave something behind are the
actions `Equivocate`, `Unauthorised` (the equivocation log has recorded the pair)
and `Invalid` (the founding stewards are set before the payload is looked at). The
accepting actions are one per payload kind, and all end in `Commit`, the tail of
`Apply`: snapshot, histories at the new root, log with eviction. A root is the
snapshot itself: the hash commits to keys, values and sequence numbers and is
taken to be injective. `Spec` lets any client submit any transition;
`DisciplinedSpec` is the client of the host service, which names the head as
`prior_state` and founds the group once.

### MeshPeers

`here` is the host's registry, `there` the one a replay of the accepted
transitions builds, `kv` the `mesh_peer/` entries. `CreateRefused`, `AddRefused`
and `RemoveRefused` are the calls that `Apply` gives up after it changed the
registry. `Restart` puts `there` in the place of `here`. CREATE_GROUP does not look at
its initial peers' addresses, so one may be empty (`NoIp`): the peer is registered, and
the nil value stored for it (`Stored`) removes the entry instead of writing one. What
separates the registries is therefore refusals and what a replay refuses in turn;
`RebuiltMeshMatches` compares the replay with the snapshot, never with a copy of
itself. `DisciplinedSpec` is the environment of stewards that go by the log: they
remove peers the snapshot names, at the address it names, and vouch under a key that
an accepted transition brought in. They may found the group again, and what they sign
may be refused half way. The multisig gate in front is `Group`'s; the snapshot's entry
cap counts the other entries as a number.

### HlcHosts

`Deliver` checks the drift against the clock before it takes `h.mu` and merges
after: `checked` holds the transitions in between. Messages are never consumed, so
they are lost, delayed, reordered and repeated by being ignored or received again.
The skew of a host changes at any time. `SteadySpec` fixes the skews. `Merge` reads the
clock as it merges; the code reads it just before it takes the lock, which is the same
step seen from any other host.

### Mirror

The peers' logs are prefixes of one history of `Last` transitions; `RootAt` gives
the root after each, so a recurring root is a choice of the constants. Per peer
there is a Bootstrap (cursor, page in hand), and a Live stream (dialling, the
subscription with its bounded channel, the replay cursor, receiving). `Break`
drops a stream, `Restart` the process, with or without its durable log. A GetLog call
may fail (`GetLogFails`): Bootstrap returns, the server logs it, and nobody calls it
again before a restart. A mirror whose Bootstrap failed before its first transition is
`Stranded`, since a stream from index 0 replays nothing. `MaxFaults` bounds failed
calls, breaks and restarts.

### Orders

One action per call of the service, of the store's atomic operations, and per
webhook event; the provider (external) holds what was charged and paid back for
each order and the set of events it will deliver, each any number of times, in any
order. The history variable `orderly` stays true while orders are for one ticket,
each event arrives once, a refund event is a full one, nothing is disputed and
organizers refund completed orders only; the books are compared under it, on the
same behaviours that the other properties see without it.

### RateLimit and Branches

`genesis` is the fields of `State`; `branches[b]` is another branch's copy of them.
`Apply` swaps a branch's fields in (`Working`), runs, and swaps them back:
`Applied`, `Leftover` (a refusal) and `Unsaved` (a save that failed) say what stands
afterwards, field by field, because the equivocation log and the steward history are
maps that the branch and `State` share. One action per outcome of `Apply`: `Accept`,
`SaveFails`, `Refuse`, `Equivocate`, `Throttle`. `Restart` replays `disk` through the
same operators by today's clock, without the limiter, and a row that is refused keeps
the process down, as `main` does. `Group` has the multisig gate and all the payloads;
here every threshold is 1 and six kinds stand for them. The custody log is not
swapped: a declaration on any branch writes the one map, before the snapshot is found
to have room for its entry; its tiers (`CountAtLeast`) are consulted by nothing in the
program. A bucket holds integer units
(`Token` per transition, `Rate` per tick) where the code has floats and nanoseconds.
`flaws` records which of the known departures happened since the start, so that
`ReplayAgrees` can be stated for all the other behaviours: a failed save that moved
genesis, a tier or the stewards of an unchanged root (`lost`) or that left a history
entry in a branch (`unsaved`, harmless until a transition without `prior_state` comes to
that root, `ghost`), and a refusal that kept an id, a tier or the founding stewards
(`phantom`). The equivocation log is `{}`, the nil map of Go, until the first transition
is noted in it and `{S}` afterwards; the difference decides what a refusal leaves.

### EventDesk

Events are kept twice: in `product` (memory) and `cache` (SQLite). A handler is as
many steps as it makes calls to the stores; what it has still to do is a task. The
MCP tool writes `product` only, and a visit to the dashboard brings its events to the
cache. `CancelEvent` cancels the product event in place, since `GetEvent` hands out the
stored pointer, and puts it back in a later step (`PutBack`), over whatever was put
there in between; `CancelCached` is the same handler for an event only the cache has.
`issued[t]` is the RSVP that token `t` was made for. `ConfirmRsvp` is two statements,
`FollowLink` and `Confirm`; a request may be made with any token ever issued, whether
or not its mail went out, because `handleMyRsvps` shows the link to anybody. A round of
the scheduler is `BeginRound`, `TakeEvent`, one `Remind` per guest and `FinishEvent`.
The ticker keeps its beat and holds one tick (`NextBeat`). What goes wrong is counted
against `MaxFaults`: `Restart`, `LoseRound` (the listing fails), `SkipEvent` (the guests
of an event cannot be listed, or its mail not rendered) and `ClockLate`, one unit of
time by which the scheduler is behind its beat: downtime, a slow database, or a mail
that hangs, for `Sender.Send` has no timeout. `sent` is in memory:
reminders repeat after a restart, and `RemindedOnce` is about one life of the process.
An event rescheduled under its old id is not reminded again, which `owed` accounts
for. The RSVPs of the product service are another book, never joined with this one.

### Followers

A Go slice is a header (array and length) over a backing array that older headers
still see. An inbox handler is two steps, `Read` of the header and `Follow` or `Undo`,
between which others run; `append` writes in place or allocates, `removeFollower`
shifts in place. A delivery ranges over the header it read (`over`), asks each
follower's server for its inbox and posts there, up to `Tries` times. Every request
takes any time up to `Timeout`, answered or not; `took` is what the servers took and
`spent` that and the waits between attempts. Headers are three words and strings two,
and nothing makes an access to either atomic: two accesses on the same moment, one of
them a write, are a data race, after which Go promises nothing. `Race` is that case. It
sets `corrupt`, from which only `Crash` leads on; every property holds as long as it is
false, and nothing is claimed of the process after it.

## 3. The runs

| run | shows |
|---|---|
| `group_churn` | three stewards, cap two, removal, slash and re-add, an equivocation log of one entry: recorded roots commit, history is frozen, the cap holds, authentication stays on |
| `group_fork` | two stewards that each sign alone, two stamps: no fork is applied, a slash sticks |
| `branches` | a genesis and one more branch, refusals, a failed save or a restart, a clock that steps back: the durable log replays into what is in memory, no call changes two branches, counts are those of the log, no steward gets more than the bucket earned, and the wait a refused one is told is enough |
| `mesh_peers` | any client: what the snapshot names is registered, and a replay that refuses nothing rebuilds exactly that, across refusals half way, empty addresses and restarts |
| `mesh_peers_orderly` | stewards that go by the log, refusals half way included: a replay refuses nothing the host accepted, addresses are unique |
| `hlc_hosts` | two hosts, a clock stepped back and forth, a one-value counter: causality, drift bound, cursors advance |
| `mirror` | Bootstrap and Live at once, overflow, breaks, restarts from nothing: the mirror is a prefix and implements `ReplicatedLog` |
| `mirror_ordered` | Live after Bootstrap: through failed calls, breaks and restarts, what was committed arrives unless the channel dropped or the mirror is stranded |
| `orders` | two orders, every delivery order: the counter of seats stays within capacity; while orderly, it matches the orders, refunds are backed and a refunded order stays so |
| `event_desk` | two events, two RSVPs, handlers half done, and one of: a restart, a lost round, a skipped event, a unit of delay: an RSVP is confirmed only after a request with its standing token, everyone owed a reminder gets it, nobody twice in one life of the process |
| `followers` | overlapping inbox handlers, a delivery to servers that accept, refuse, fail or hang and take their time over it: as long as no two accesses coincide, no slice shows an unwritten cell, requests one at a time leave the right list, the delivery goes through each entry once and leaves out only those there was no time for; it ends |

One more run is a violation, a disagreement between a quoted line of the repository
and what the code does (`findings` in `PROJECT.json`): `branches_replay_recovers`. A
save that fails leaves a gap in the durable log, the next transition that names the
unsaved root is stored after it, and no later start gets across. Section 5 lists the
other disagreements, each with the configuration that shows it.

**Bounds.** `MaxApplied` 3 or 4 transitions is what it takes to found a group,
change it, return to an earlier root and act there again; three stewards are one
more than the cap; caps of one entry make every eviction happen. In `MeshPeers`
three keys, two addresses and the empty one (three and the empty one for the orderly
stewards), founding lists with duplicates and empty addresses, a cap of two and a
snapshot of four entries reach every collision and refusal. Two
hosts, a counter of one bit and a window of one reach every branch of `Tick` and
`Observe`, carries included. Pages and channels of two with five transitions page
three times and overflow. Two orders
of one or two tickets compete for two seats. Two branches, four stored transitions and
one fault are what it takes to found, branch, act on the branch and lose a save or
restart; a bucket of eight units at five a transition admits one, refuses the
next and admits it a tick later. In `EventDesk` the window is from `Near` 1 to `Far` 2 with a round every
unit, so an event at 3 is before the window, in it for two rounds and past it within
the three ticks of the clock; `EventDeskMC`'s `Bound` ends there. One fault is all this
window pays for: with two, TLC finds a guest missed within seconds, so the hypothesis
of `EveryoneReminded`, which covers any number, is not slack. A wider window (`Far` 3)
with two faults was checked as well, 7 million states. A listing limit of one makes
the second event push the first out; two tokens replace an RSVP; one handler in
progress at a time suffices to interleave it with the scheduler and with every
single-step handler. In `Followers` the client's timeout and the deadline are scaled to 3 and
7, so a third slow request meets the deadline and the waits 1 and 2 between attempts
still count; four
requests grow an array twice and leave room in it. Every constant marked "bound of the model" is a guard in the
actions or the constraint `Bound` of `MeshPeersMC` and `EventDeskMC`; the environment's inputs
(`Payload`, `Envelope`, `Founding`) are enumerated in the MC modules.

Deadlock is checked in `Branches` only: each other model stops at its bounds, and the
program may really have nothing left to do.

**Fairness.** Two models have a liveness property. In `Mirror` weak fairness is assumed
of each goroutine: a Bootstrap that can take its next page does (`Pull`), a Live loop
dials and subscribes (`Dial`), a subscribed stream replays, forwards and receives
(`Follow`). The Go scheduler runs every runnable goroutine and the retry loop of
`Live` has no other exit than the end of the process. Nothing is assumed of commits,
failed calls, breaks and restarts, and the last three are finitely many; `Pull` is fair
only while Bootstrap is still asking, and a GetLog that fails ends it (`CatchesUp` then
still promises what arrives by the stream, unless the mirror is stranded). In
`Followers` weak fairness is assumed of the delivery loop only: the HTTP client's
timeout gives every request an end, and the report is reached by counting. Nobody has
to follow, unfollow or create an event, and `DeliveryEnds` promises nothing after a
data race.

## 4. The proofs

All theorems are proved for every value of the constants under the named `ASSUME`s
of the modules, which TLC evaluates in the runs.

- `GroupProofs`. `TypeCorrect` for any client. `RootsCommit` and `HistoriesFrozen`
  for disciplined clients, from `CommitInv`: before the first transition nothing is
  recorded; afterwards the head is a recorded root; every recorded root holds
  exactly the steward and threshold its snapshot's entries say. Without the head in
  the invariant the lookup by `prior_state` could miss and fall back to the founding
  stewards, which is what the open environment does. `AuthenticationStaysOn` for any
  client, from `AuthInv`: founding and recorded thresholds are positive. `CapKept`,
  `NoFork` and `SlashesStick` for disciplined clients. The steward cap holds of every
  set but a founding one: only ADD_STEWARD compares with `MaxStewards` (group.go:180
  says it "caps the size of the steward set per branch"), so `StewardsCapped` allows a
  set within the founders, and `group_churn` has a founding above the cap. `ForkInv`
  keeps, for each logged transition with a `prior_state`, the entry of the equivocation
  log it answers to, while that log is not full; an evicted entry lets a fork through,
  hence the `Len(seen) < MaxSeen` in the property. `SlashInv` follows the entries of
  the snapshot, which move one key at a time: an active steward with a slash entry has
  an addition after its newest slash, as long as the log has evicted nothing.
- `MeshPeersProofs`. `TypeCorrect` and `SnapshotRegistered` for any client,
  from `OpenInv`: the host's registry holds the snapshot's entries, and the replay's,
  while it is not stuck, names the same peers with an address. The key step: a refused
  call only registers keys without an entry (`TakenHasNoEntry`). `RebuiltMatches`, also
  for any client, is the second half of it. `ReplayAccepted` and `AddressesUnique` for
  stewards that go by the log, from `OrderlyInv`: the replay's registry is a part of the
  host's (`Below`), which may have more from what was refused half way, so what collides
  with nothing here collides with nothing there; and each address index is exactly the
  set of the members' addresses: uniqueness alone is not inductive, since `add` looks at
  the index and not at the members.
- `BranchesProofs`. `TypeCorrect`, from `TypeInv`, which types the replay of the log at
  every clock besides the memory; the caps come from counting keys. `ReplayCorrect`
  is the central result. A replay is a recursive function over the log; that it reads
  the log row by row (`ReplayUnfold`) is proved by a least counterexample over its
  runs, since the induction theorems cannot be used here. `AgreeInv` then says three
  things: the types; that all replays of the log whose clocks meet the deadlines of its
  MIGRATEs end alike (`SameAnyTime`); and that such a replay agrees with memory
  (`Agree`): equal roots, founding stewards, ids, parents, counts and tiers, the same
  stewards recorded for the current root of every branch, an equivocation log that is
  never ahead of memory's, and, as long as no save failed, the same history. The last
  two are the strengthening: the view a restart shows is not inductive, because a
  transition may come back to an earlier root or be held against an earlier one.
  `RestartCorrect` draws the consequence for the step itself: a restart brings the
  process up again with the view it had.
  `CountsCorrect` from `CountInv`, the counts of memory and of every replay that ends
  against the rows of the log. `Isolated` from the shape of every outcome of `Apply`
  (`OthersStay`). `QuotaHolds` from `QuotaInv`; `RetryCorrect` for a transition that
  costs no more than the burst (`Token <= Burst`; every limiter the repository makes
  has a burst of at least one transition), by the rounding of `WaitBounds`.
- `OrdersProofs`. `TypeCorrect` (the unsigned seat counter never goes below zero) and
  `NeverOversold` (the counter stays within the capacity; what it counts is the business
  of `SeatsCorrect`) for any environment. `SeatsCorrect`, `RefundsCorrect` and
  `RefundedForGood` while steps are `orderly`, from `IInv`: where an order stands at
  the provider and in the store (`SessionInv`), what the provider has still to report
  (`EventInv`), and where refunded money is (`RefundInv`): what the store recorded and
  the partial refunds in flight together stay within what was paid out. Sums over the
  refunds in flight are cardinalities of sets of units (`UnitsAdd`).
- `EventDeskProofs`. `TypeCorrect`; `LinksConfirm` from `LinkInv` (everyone on the list
  of the round in progress was asked for with a token of theirs); `OncePerLife` from
  `OnceInv` (an event is to be looked at, being written about, or done with).
  `EveryoneReminded` under `WideWindow`: each of the `MaxFaults` faults costs at most one
  `Interval`, and the window (`Far - Near`) outlasts them and two delays of less than an
  `Interval` besides. In the code a round comes every 15 minutes and the window is four
  hours wide, which pays for 14 restarts, lost rounds, skipped events or minutes of
  delay. `OwedInv` says where a guest who is owed a reminder stands (reached, in the
  list of the round, in a round that still finds the window open), always with enough
  of the window left for the faults still to come (`Ahead`, `Within`); `FaultPaid` is
  the step of that account, `TimeInv` says when rounds begin. The guest is owed it as
  long as the event is among those surely listed: an event pushed behind the limit of a
  listing is not.
- `FollowersProofs`. `TypeCorrect` is the memory safety of the slices as long as no two
  accesses coincide: `TypeInv` says of every header that is still held (the list, a
  handler's, a delivery's) that it shows written cells of its array. `OneAtATime` from
  `ListInv`, `EachListedOnce` from `EachInv` (a delivery still sees the list it began
  with, has asked a prefix of it, and no header of the same array is shorter; an actor
  who is on the list twice is asked twice), `LeftOutOnlyIfSlow` from `SlowInv`, the
  account of the time spent: what the servers took, and at most `2^(Tries-1) - 1` of
  waits for each follower passed. Powers of two are handled as numbers of subsets.
- `HlcProofs`. `TypeCorrect`, `Causality`, `DriftIsBounded`, `CursorsNeverRegress`,
  for any number of hosts, counter width, window, drift and clock offsets. The
  cursor is at or after every stamp its host knows, and a transition past the drift
  check stays within the drift of the largest clock its receiver read.
- `MirrorProofs`. `TypeCorrect` for any peers and history. `PrefixMirrored` and
  `MirrorCopies` (the refinement of `ReplicatedLog`) for one peer that has its
  CREATE_GROUP and a history whose roots do not recur. The invariant adds to
  `MirrorIsPrefix` that CREATE_GROUP is applied at most once and that everything in
  a page, a channel or a mirror was committed. The two hypotheses are necessary:
  `Mirror_PrefixTwoPeers.cfg` and `Mirror_PrefixRecurring.cfg` drop one each.

Every invariant and action property of a passing run is stated by a theorem. Only
model-checked are the two liveness properties, `CatchesUp` and `DeliveryEnds`
(liveness under fairness is outside what TLAPS proves), and that the bounds are
reached: a theorem says nothing of whether the interesting states exist, which the
counterexamples and mutants of the runs show.

## 5. Other disagreements found while modelling

Each configuration checks one property, the quoted statement, and TLC finds a
counterexample within seconds. They are diagnostics next to the runs of section 3:
roots recur, refusals leave state behind, a check or an index update is missing,
one counter is changed by one where another changes by a quantity.

<!-- diagnostics -->
- `tlc -config Group_EveryRootNew.cfg GroupMC.tla` (`EveryRootNew`, `src/internal/group/group.go:748`). sim/no_op_test.go:18 says "no two transitions share the same root"; REMOVE_STEWARD deletes the steward entry (group.go:755), so adding and removing one steward returns to the earlier root, entries, sequence numbers and all.
- `tlc -config Group_FirstIsCreate.cfg GroupMC.tla` (`FirstIsCreate`, `src/internal/group/group.go:658`). group.go:626 says "First transition — must be CREATE_GROUP"; the founding stewards are assigned before the payload is validated (group.go:658), so after a CREATE_GROUP refused for its display_name a PUT signed by the refused stewards is applied as the first transition.
- `tlc -config Group_QuorumExists.cfg GroupMC.tla` (`QuorumExists`, `src/internal/group/group.go:748`). group.go:764-768 says of a threshold above the steward count "Both are unrecoverable from inside the protocol — refuse them"; REMOVE_STEWARD and SLASH_STEWARD have no such check and reach that state.
- `tlc -config Group_EvidenceCapped.cfg GroupMC.tla` (`EvidenceCapped`, `src/internal/group/group.go:1088`). group.go:197-198 says "MaxEvidenceEntries caps the equivocationEvidence slice size ... When exceeded, oldest entries are dropped (FIFO)"; SLASH_STEWARD appends without calling capEvidenceLocked.
- `tlc -config Group_SeenWereApplied.cfg GroupMC.tla` (`SeenWereApplied`, `src/internal/group/equivocation.go:211`). equivocation.go:46-47 says the log "tracks every (steward, prior_state) pair we have ever applied a transition from"; check() records the pair before signatures, threshold and payload are verified, so a refused transition makes the steward's next one at that root equivocation.
- `tlc -config Group_ReplayDropped.cfg GroupMC.tla` (`ReplayDropped`, `src/internal/group/equivocation.go:220`). equivocation.go:220-221 says a same-HLC, same-hash transition is a "replay of an already-applied transition. Not an equivocation; just drop"; check returns no evidence and Apply goes on to apply it again.
- `tlc -config Group_RootCommitsOpen.cfg GroupMC.tla` (`RootCommits`, `src/internal/group/group.go:1199`). group.go:696-698 says "two hosts with the same root must agree on the steward set"; computeCurrentStewards runs after the snapshot is replaced, so a transition without prior_state looks the new root up, finds nothing and records initialStewards: added stewards vanish and removed ones return.
- `tlc -config HlcHosts_CursorsMerge.cfg HlcMC.tla` (`CursorsMerge`, `src/sim/host.go:221`). docs/02-PROTOCOL.md:186 says of a constant offset, "e.g. one host's clock is an hour behind": "cursors still merge"; Deliver drops every transition whose wall is more than MaxHLCDrift (60 s) ahead of the receiver's clock, so the host that is an hour behind merges nothing of the others.
- `tlc -config Orders_CompletesPendingOnly.cfg OrdersMC.tla` (`CompletesPendingOnly`, `src/internal/product/store.go:485`). store.go:467 says AtomicCompleteOrder "transitions an order from PENDING to COMPLETED"; it sets COMPLETED from every status, so a completed event that arrives after the refund or the expiry brings the order back, with its seat already given away.
- `tlc -config Orders_SeatReturnedOnce.cfg OrdersMC.tla` (`SeatReturnedOnce`, `src/internal/product/store.go:437`). service.go:545-547 says RefundOrder on a refunded order returns "without decrementing the sold count a second time"; a dispute or a late completed event moves the refunded order to another status, and the next refund decrements again.
- `tlc -config Orders_SeatsCounted.cfg OrdersMC.tla` (`SeatsCounted`, `src/internal/product/store.go:437`). store.go:453 says "Decrement sold count since the ticket is effectively returned"; every refund and failure subtracts one although the purchase added the whole quantity (store.go:388), so seats of larger orders stay taken.
- `tlc -config Orders_ChargedTheTotal.cfg OrdersMC.tla` (`ChargedTheTotal`, `src/internal/payment/stripe.go:58`). provider.go:35 says AmountCents is the "total amount in cents (price * quantity)"; the checkout session uses it as the unit amount and multiplies by the quantity again.
- `tlc -config Orders_Backed.cfg OrdersMC.tla` (`Backed`, `src/internal/product/webhook_adapter.go:27`). webhook_adapter.go:27 says "webhook refunds are always full"; a partial refund made through RefundOrder (service.go:572, amount > 0) is a charge.refunded event at the provider too, and an event that carries the order id records it as a full refund and gives the seat back.
- `tlc -config Mirror_CatchesUp.cfg MirrorMC.tla` (`CatchesUp`, `src/cmd/fedmeetup/main.go:336`). syncer.go:222 says of Live "Call this AFTER Bootstrap to get a fully synced mirror" and main.go:326-327 "This makes this host a mirror of the group state"; the server starts both goroutines at once, so an event that Live receives before Bootstrap has applied its predecessor is logged and skipped, and when Bootstrap's last page was read before that event was committed the mirror stays behind until the stream happens to break.
- `tlc -config Mirror_CatchesUpEmpty.cfg MirrorMC.tla` (`CatchesUp`, `src/internal/host/service.go:613`). syncer.go:220 says Live resumes "from the local transition count (since_index) to recover any missed events"; with a local count of 0 Subscribe replays nothing (if sinceIndex > 0), so transitions committed between an empty Bootstrap and the registration of the channel are lost, the CREATE_GROUP among them. A Bootstrap whose first GetLog fails (syncer.go:143, logged at main.go:341) leaves the same hole until the process restarts.
- `tlc -config Mirror_PrefixTwoPeers.cfg MirrorMC.tla` (`MirrorIsPrefix`, `src/internal/group/group.go:582`). syncer.go:126-127 says re-running Bootstrap "is safe (duplicates are rejected by Apply's prior-state hash check)"; a CREATE_GROUP carries no prior_state, so a second peer's Bootstrap applies it again, the name entries get new sequence numbers and no later transition of the history matches the root.
- `tlc -config Mirror_PrefixRecurring.cfg MirrorMC.tla` (`MirrorIsPrefix`, `src/internal/federation/syncer.go:292`). syncer.go:292-294 says a duplicate is "one whose prior-state hash doesn't match because it's already been applied"; when a steward is added and removed the root returns to an earlier one, so the same two transitions match again and the mirror's log, and with it its cursors, runs ahead of the peer's.
- `tlc -config MeshPeers.cfg MeshPeersMC.tla` with `INVARIANT MeshMatchesSnapshot` in place of its properties (`MeshMatchesSnapshot`, `src/internal/group/group.go:724`). group.go:1282-1283 says "The transition is rejected and no state changes occur" and mesh.go:11 "Truth source: the state log"; a CREATE_GROUP refused at its n-th initial peer leaves the peers before it in the registry, and ADD_HOST_PEER refused for the entry cap leaves the new one. An accepted CREATE_GROUP does it too: group.go:711-712 says an initial peer is "recorded in the Merkle KV ... so mirrors replaying CREATE_GROUP see the same membership", but mesh_ip may be empty there (group.go:714-727 does not check it as :987 does), and the nil value of :1373 writes no entry.
- `tlc -config MeshPeers.cfg MeshPeersMC.tla` with `INVARIANT ReplayAccepts` in place of its properties (`ReplayAccepts`, `src/internal/group/group.go:1024`). mesh.go:11-12 says "Truth source: the state log. The live set is reconstructed by walking from genesis"; a removal of a peer that only a refused transition registered is accepted and recorded, and a mirror or the restarted host refuses it, never having seen the peer.
- `tlc -config MeshPeers.cfg MeshPeersMC.tla` with `INVARIANT IpsUnique` in place of its properties (`IpsUnique`, `src/internal/group/mesh.go:122`). mesh.go:80-81 says add "Returns ErrDuplicateMeshPeer if the wg key or mesh IP is already registered"; remove deletes the address the payload names, not the one the peer has, so the index forgets an address another member holds and add gives it out again.
- `tlc -config MeshPeers.cfg MeshPeersMC.tla` with `INVARIANT MeshCapped` in place of its properties (`MeshCapped`, `src/internal/group/group.go:714`). group.go:190 says maxMeshPeers "caps the wg peer set size"; CREATE_GROUP registers its initial_mesh_peers without looking at it, only ADD_HOST_PEER does.
- `tlc -config MeshPeers.cfg MeshPeersMC.tla` with `INVARIANT VouchedByMember` in place of its properties (`VouchedByMember`, `src/internal/group/group.go:1020`). gates.go:33 says the gate "enforces the additional requirement that a CURRENT mesh member has co-signed the payload"; REMOVE_HOST_PEER builds the removed peer without its CoSigner key, so byCoSigner keeps it and a removed member goes on vouching.
- `tlc -config EventDesk_SecondRsvpRefused.cfg EventDeskMC.tla` (`SecondRsvpRefused`, `src/internal/web/store.go:356`). store.go:341-342 says CreateRsvp "Returns an error if an RSVP for the same (group_key, event_id, email) already exists"; the statement upserts: a second RSVP replaces the token and takes a confirmed guest's confirmation away.
- `tlc -config EventDesk.cfg EventDeskMC.tla` with `PROPERTY SeedIdempotent` in place of its properties (`SeedIdempotent`, `src/internal/web/seed.go:21`). seed.go:13-14 says SeedData "is idempotent — calling it when data already exists is a no-op" and main.go:237 seeds "if the product store is empty (idempotent)"; it looks at the product store, which is empty at every start, and so writes the demo events over what SQLite keeps: a cancelled one is on again at a new time.
- `tlc -config EventDesk.cfg EventDeskMC.tla` with `PROPERTY TokenEndsOnCancel` in place of its properties (`TokenEndsOnCancel`, `src/internal/web/store.go:476`). rsvp-flow.mdx:81 says a cancelled RSVP is "deleted from the store" and :89 gives the token's lifetime as "Until RSVP is cancelled"; CancelRsvp sets confirmed to 0 and keeps row and token: the old link confirms the cancelled RSVP again.
- `tlc -config Branches.cfg BranchesMC.tla` with `INVARIANT ReplayAnyTime` in place of its properties (`ReplayAnyTime`, `src/internal/group/group.go:301`). group.go:285-286 says of replaying the log at a later time that it "is always safe"; Apply compares a MIGRATE's deadline with the clock of the replay (group.go:914-920), so once the deadline has passed the stored row is refused and main ends with "protocol state (replay)".
- `tlc -config Branches.cfg BranchesMC.tla` with `PROPERTY RefusedChangesNothing` in place of its properties (`RefusedChangesNothing`, `src/internal/group/group.go:1112`). group.go:1281-1283 says of ErrKVSizeExceeded "The transition is rejected and no state changes occur"; BRANCH_CREATE allocates the branch before its two entries are refused, and the branch and its id stay; DECLARE_STEWARD_CUSTODY (group.go:1050) records the tier before its entry is refused, and the tier stays.
- `tlc -config Branches.cfg BranchesMC.tla` with `PROPERTY IdsKept` in place of its properties (`IdsKept`, `src/internal/group/group.go:1112`). branch.go:26 says of branch ids "Never reused within a group's lifetime"; the id of a refused BRANCH_CREATE is not in the durable log and is handed out again after a restart.
- `tlc -config Branches.cfg BranchesMC.tla` with `PROPERTY RootFollowsStewards` in place of its properties (`RootFollowsStewards`, `src/internal/group/group.go:748`). group.go:691-699 says the steward set is committed so that two hosts with the same root agree on it; a branch starts with its parent's stewards and an empty snapshot, so removing an inherited steward changes the set and not the root.
- `tlc -config Branches.cfg BranchesMC.tla` with `INVARIANT FreshBranchUsable` in place of its properties (`FreshBranchUsable`, `src/internal/group/group.go:409`). docs/02-PROTOCOL.md:49 lets a branch start from its parent's stewards; a new branch has no history entry for its root, so a transition that names the root as its prior_state finds no stewards and is treated as a founding: only transitions without prior_state, or another CREATE_GROUP, get through.
- `tlc -config Branches.cfg BranchesMC.tla` with `INVARIANT AppliedWithinQuota` in place of its properties (`AppliedWithinQuota`, `src/internal/group/group.go:597`). ratelimit.go:10-11 says "Each transition consumes one token"; the limiter is asked only of transitions that name a prior_state.
- `tlc -config Branches.cfg BranchesMC.tla` with `INVARIANT GenesisListed` in place of its properties (`GenesisListed`, `src/internal/group/branch.go:121`). branch.go:121-122 and :150 say TransitionCount and Head are "surfaced via BRANCH_LIST"; the registry's entry of genesis is an empty shell that Apply never writes, so the list shows genesis at an empty root with no transitions.
- `tlc -config Branches.cfg BranchesMC.tla` with `INVARIANT RetryAsDocumented` in place of its properties (`RetryAsDocumented`, `src/internal/ratelimit/ratelimit.go:173`). ratelimit.go:165-167 says retryAfter is "Currently 1 / rate seconds" and that "A more accurate estimate would account for partial tokens already accumulated"; the code subtracts what the bucket holds, so a caller whose bucket holds part of a token is told less.
- `tlc -config Followers.cfg FollowersMC.tla` with `PROPERTY UndoRemoves` in place of its properties (`UndoRemoves`, `src/internal/activitypub/activitypub.go:355`). activitypub.go:350 says removeFollower "removes a follower from the list"; a Follow sent twice is in the list twice and Undo removes the first only, so the actor goes on receiving events.
- `tlc -config Followers.cfg FollowersMC.tla` with `INVARIANT FollowKept` in place of its properties (`FollowKept`, `src/internal/activitypub/activitypub.go:319`). handleInbox answers {"status":"accepted"} (activitypub.go:322-323); two requests at once read the same slice header and the second assignment drops what the first appended.
- `tlc -config Followers_AsksWhoStays.cfg FollowersMC.tla` (`AsksWhoStays`, `src/internal/activitypub/activitypub.go:355`). activitypub.go:404 says DeliverActivity "POSTs the given activity to each follower's inbox"; an Undo moves the later followers one place down in the array the delivery ranges over, so one is skipped and the last one is asked twice.
- `tlc -config Followers.cfg FollowersMC.tla` with `INVARIANT NoneTwice` in place of its properties (`NoneTwice`, `src/internal/activitypub/activitypub.go:319`). activitypub.go:404 says DeliverActivity "POSTs the given activity to each follower's inbox"; handleInbox appends whoever sends a Follow without looking whether they are in the list, so an actor that sent it twice is a follower once and is posted to twice.
- `tlc -config Followers.cfg FollowersMC.tla` with `PROPERTY WaitsAsDocumented` in place of its properties (`WaitsAsDocumented`, `src/internal/activitypub/activitypub.go:457`). activitypub.go:450 says postToInbox "Retries up to 3 times with exponential backoff (1s, 2s, 4s)"; it makes three attempts in all, so it retries twice and waits 1 s and 2 s, and the third failure is followed by no wait.
<!-- end of diagnostics -->

## 6. Not modelled, and the plan

Next:

1. Proofs about quorums: that two decisions of one root share a steward when its
   threshold is above half, for any threshold the gates admit.
2. `Hosts`: two instances of `Group` fed with the same transitions in different
   orders; properties: the same verdict, a fork is seen by somebody.
3. An abstract `Governance` (stewards, threshold, a decision needs a quorum), with
   `Group` under `DisciplinedSpec` shown to implement it.
4. `SimBind`: the open, receive, inject and close cycle of the simulated WireGuard
   bind, with its one-slot signal channel.
5. Mirror cursors over a log that evicted its oldest entries.
6. `Recurrence`: the expansion of a rule against a reference definition.

Not modelled of the modelled components: the audit history of custody declarations
(written, never read), sessions, login, check-in, ticket pages and
the cached groups of the web store; HTTP signatures, actor and outbox documents of
ActivityPub, and whatever the process does after a data race on a follower list; FORK
and CANCEL_FORK beyond the entry they write. `Group.HasRoom` counts entries: the byte
and value-size caps of `appendOrUpdate` (group.go:1309-1337) refuse for another reason,
at the same place and with the same effect, and are left out. A steward list is a set,
although the check of the threshold at group.go:772 counts a steward listed twice as
two. `Orders.RefundPayment` has at most one refund of an order and amount under way at
a time. `multigroup.go` is two
maps filled at the start. The share of the repository that is modelled stays small
because two thirds of its Go lines are generated from the protobuf definitions.

Left out for good: hashing and signatures (roots are injective, an envelope is the
list of keys whose signatures verify), encoding, rendering, configuration, the
external payment provider and wireguard-go beyond what the code assumes of them,
the MCP tools that only read or forward, documents and deployment.
