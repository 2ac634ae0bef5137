------------------------------- MODULE Mirror -------------------------------
(***************************************************************************)
(* A mirror of one group: the syncers that cmd/fedmeetup/main.go starts,   *)
(* one per peer, each with a Bootstrap and a Live goroutine over one local *)
(* group.State (internal/federation/syncer.go), the GetLog and Subscribe   *)
(* handlers they call (internal/host/service.go) and the broadcaster       *)
(* between a peer's Apply and its Subscribe streams.                       *)
(*                                                                         *)
(* Peers hold prefixes of one history, whose k-th transition is the number *)
(* k.  RootAt[k] is the state root after the first k: transition k > 1     *)
(* carries RootAt[k-1] as its prior_state, and State.Apply accepts it      *)
(* exactly at that root.  Transition 1 is the CREATE_GROUP: it has no      *)
(* prior_state, so Apply accepts it at any root, and anywhere but at the   *)
(* empty one it rewrites the name entries and leaves a root no peer had.   *)
(***************************************************************************)
EXTENDS Integers, Sequences

CONSTANTS
    Peer,
    RootAt,    \* the history's roots, indexed 0 .. Last
    Last,      \* bound of the model: transitions in the history
    Committed, \* how many of them a peer holds at the start, at least
    PageSize,  \* defaultPageSize of GetLog
    Buffer,    \* capacity of a subscriber's channel, 64
    Durable,   \* the mirror has a protocol database
    MaxFaults  \* bound of the model: failed calls, broken streams, restarts

Stray == -1    \* a root no prefix of the history has

ASSUME MirrorAssumption ==
    /\ Last \in Nat \ {0} /\ Committed \in 0 .. Last
    /\ RootAt \in [0 .. Last -> Nat]
    /\ PageSize \in Nat \ {0} /\ Buffer \in Nat \ {0}
    /\ Durable \in BOOLEAN /\ MaxFaults \in Nat

VARIABLES
    count,   \* per peer: length of its log
    applied, \* the mirror's log
    root,    \* the mirror's state root
    boot,    \* per peer: where the Bootstrap goroutine is
    cursor,  \* per peer: since_cursor of its next GetLog
    next,    \* per peer: next_cursor of its last page
    page,    \* per peer: transitions of that page not yet applied
    live,    \* per peer: the Live goroutine and the Subscribe handler it calls
    since,   \* per peer: since_index of the Subscribe request
    queue,   \* per peer: the mirror's channel in the peer's broadcaster
    wire,    \* per peer: events sent on the stream and not yet received
    lost,    \* per peer: the broadcaster dropped an event of this stream
    faults

mirror  == <<applied, root>>
booting == <<boot, cursor, next, page>>
stream  == <<live, since, queue, wire, lost>>
vars    == <<count, mirror, booting, stream, faults>>

Transition == 1 .. Last

Bootstrap == {"start", "fetch", "apply", "done", "failed"}

\* Live: waiting to connect, since_index read, subscribed, replayed.
Phase == {"off", "dialing", "subscribed", "streaming"}

Shorter(m, n) == IF m < n THEN m ELSE n
Interval(m, n) == [i \in 1 .. (IF n < m THEN 0 ELSE n - m + 1) |-> m + i - 1]

-----------------------------------------------------------------------------
(* State.Apply at the mirror. *)

\* Fault: a prior_state that is not the head is not refused.
ApplicableAnywhere(t) == TRUE

Applicable(t) == t = 1 \/ root = RootAt[t - 1]

Apply(t) ==
    /\ applied' = Append(applied, t)
    /\ root' = IF t = 1 /\ root # RootAt[0] THEN Stray ELSE RootAt[t]

-----------------------------------------------------------------------------
(* A peer commits a transition and broadcasts it under its State.mu.  A full *)
(* channel loses its oldest event.                                           *)
Enqueue(q, t) == IF Len(q) < Buffer THEN Append(q, t) ELSE Append(Tail(q), t)

Subscribed(p) == live[p] \in {"subscribed", "streaming"}

Commit(p) ==
    /\ count[p] < Last
    /\ count' = [count EXCEPT ![p] = @ + 1]
    /\ IF Subscribed(p)
       THEN /\ queue' = [queue EXCEPT ![p] = Enqueue(@, count[p] + 1)]
            /\ lost' = [lost EXCEPT ![p] = @ \/ Len(queue[p]) >= Buffer]
       ELSE UNCHANGED <<queue, lost>>
    /\ UNCHANGED <<mirror, booting, live, since, wire, faults>>

-----------------------------------------------------------------------------
(* Bootstrap. *)

\* The cursor is the local transition count when Bootstrap begins.
BeginBootstrap(p) ==
    /\ boot[p] = "start"
    /\ boot' = [boot EXCEPT ![p] = "fetch"]
    /\ cursor' = [cursor EXCEPT ![p] = Len(applied)]
    /\ UNCHANGED <<count, mirror, next, page, stream, faults>>

\* Fault: the end of the page is not cut off at the end of the log.
PageEndBeyond(p) == cursor[p] + PageSize

PageEnd(p) == Shorter(cursor[p] + PageSize, count[p])

\* GetLog: a page of the peer's log, and 0 for next_cursor on the last one.
\* An empty page ends Bootstrap.
Page(p) == Interval(cursor[p] + 1, PageEnd(p))

GetLog(p) ==
    /\ boot[p] = "fetch"
    /\ page' = [page EXCEPT ![p] = Page(p)]
    /\ boot' = [boot EXCEPT ![p] = IF Page(p) = <<>> THEN "done" ELSE "apply"]
    /\ next' = [next EXCEPT ![p] = IF PageEnd(p) < count[p] THEN PageEnd(p) ELSE 0]
    /\ UNCHANGED <<count, mirror, cursor, stream, faults>>

\* The call fails: Bootstrap returns the error, which main.go only logs, and
\* nothing starts it again before the process does.
GetLogFails(p) ==
    /\ boot[p] = "fetch" /\ faults < MaxFaults
    /\ faults' = faults + 1
    /\ boot' = [boot EXCEPT ![p] = "failed"]
    /\ UNCHANGED <<count, mirror, cursor, next, page, stream>>

\* Where one more transition of the page leaves Bootstrap.
AfterOne(p) ==
    IF Len(page[p]) > 1 THEN "apply" ELSE IF next[p] = 0 THEN "done" ELSE "fetch"

ApplyPage(p) ==
    /\ boot[p] = "apply" /\ Applicable(Head(page[p]))
    /\ Apply(Head(page[p]))
    /\ page' = [page EXCEPT ![p] = Tail(@)]
    /\ boot' = [boot EXCEPT ![p] = AfterOne(p)]
    /\ cursor' = [cursor EXCEPT ![p] = next[p]]
    /\ UNCHANGED <<count, next, stream, faults>>

\* Every refusal ends Bootstrap: the error says "prior_state mismatch", which
\* isDuplicateTransition does not recognise.
RefusePage(p) ==
    /\ boot[p] = "apply" /\ ~Applicable(Head(page[p]))
    /\ page' = [page EXCEPT ![p] = <<>>]
    /\ boot' = [boot EXCEPT ![p] = "failed"]
    /\ UNCHANGED <<count, mirror, cursor, next, stream, faults>>

-----------------------------------------------------------------------------
(* Live and Subscribe. *)

\* liveOnce reads the local transition count.
Dial(p) ==
    /\ live[p] = "off"
    /\ live' = [live EXCEPT ![p] = "dialing"]
    /\ since' = [since EXCEPT ![p] = Len(applied)]
    /\ UNCHANGED <<count, mirror, booting, queue, wire, lost, faults>>

\* The handler registers a channel ...
Subscribe(p) ==
    /\ live[p] = "dialing"
    /\ live' = [live EXCEPT ![p] = "subscribed"]
    /\ lost' = [lost EXCEPT ![p] = FALSE]
    /\ UNCHANGED <<count, mirror, booting, since, queue, wire, faults>>

\* Fault: the replay begins one transition late.
ReplayLate(p) ==
    IF since[p] > 0 THEN Interval(since[p] + 2, count[p]) ELSE <<>>

\* ... and then replays the log from since_index, unless that is 0.
Replay(p) == IF since[p] > 0 THEN Interval(since[p] + 1, count[p]) ELSE <<>>

GoLive(p) ==
    /\ live[p] = "subscribed"
    /\ live' = [live EXCEPT ![p] = "streaming"]
    /\ wire' = [wire EXCEPT ![p] = Replay(p)]
    /\ UNCHANGED <<count, mirror, booting, since, queue, lost, faults>>

Forward(p) ==
    /\ live[p] = "streaming" /\ queue[p] # <<>>
    /\ wire' = [wire EXCEPT ![p] = Append(@, Head(queue[p]))]
    /\ queue' = [queue EXCEPT ![p] = Tail(@)]
    /\ UNCHANGED <<count, mirror, booting, live, since, lost, faults>>

\* A refused event is logged and skipped.
Receive(p) ==
    /\ wire[p] # <<>>
    /\ IF Applicable(Head(wire[p])) THEN Apply(Head(wire[p])) ELSE UNCHANGED mirror
    /\ wire' = [wire EXCEPT ![p] = Tail(@)]
    /\ UNCHANGED <<count, booting, live, since, queue, lost, faults>>

\* The stream breaks; Live dials again after its delay.
Break(p) ==
    /\ live[p] # "off" /\ faults < MaxFaults
    /\ faults' = faults + 1
    /\ live' = [live EXCEPT ![p] = "off"]
    /\ queue' = [queue EXCEPT ![p] = <<>>]
    /\ wire' = [wire EXCEPT ![p] = <<>>]
    /\ UNCHANGED <<count, mirror, booting, since, lost>>

\* The mirror's process stops and starts again.
Fresh == [p \in Peer |-> <<>>]

Restart ==
    /\ faults < MaxFaults
    /\ faults' = faults + 1
    /\ IF Durable THEN UNCHANGED mirror ELSE applied' = <<>> /\ root' = RootAt[0]
    /\ boot' = [p \in Peer |-> "start"]
    /\ page' = Fresh
    /\ live' = [p \in Peer |-> "off"]
    /\ queue' = Fresh /\ wire' = Fresh
    /\ UNCHANGED <<count, cursor, next, since, lost>>

-----------------------------------------------------------------------------
Init ==
    /\ count \in [Peer -> Committed .. Last]
    /\ applied = <<>> /\ root = RootAt[0]
    /\ boot = [p \in Peer |-> "start"]
    /\ cursor = [p \in Peer |-> 0] /\ next = [p \in Peer |-> 0]
    /\ page = Fresh
    /\ live = [p \in Peer |-> "off"]
    /\ since = [p \in Peer |-> 0]
    /\ queue = Fresh /\ wire = Fresh
    /\ lost = [p \in Peer |-> FALSE]
    /\ faults = 0

Pull(p)   == BeginBootstrap(p) \/ GetLog(p) \/ ApplyPage(p) \/ RefusePage(p)
Follow(p) == Subscribe(p) \/ GoLive(p) \/ Forward(p) \/ Receive(p)
Fail(p)   == GetLogFails(p) \/ Break(p)

\* main.go: both goroutines of every peer start at once.
Next ==
    \/ \E p \in Peer : Commit(p) \/ Pull(p) \/ Dial(p) \/ Follow(p) \/ Fail(p)
    \/ Restart

Spec == Init /\ [][Next]_vars

\* The order the syncer asks for: one peer's Live after its Bootstrap.
DialAfterBootstrap(p) == boot[p] \in {"done", "failed"} /\ Dial(p)

OrderedNext ==
    \/ \E p \in Peer :
          Commit(p) \/ Pull(p) \/ DialAfterBootstrap(p) \/ Follow(p) \/ Fail(p)
    \/ Restart

\* The goroutines run and what the network carries arrives; commits, failures
\* and restarts need not happen, and may whenever faults is below its bound.
Fairness == \A p \in Peer : WF_vars(Pull(p)) /\ WF_vars(Dial(p)) /\ WF_vars(Follow(p))
OrderedFairness ==
    \A p \in Peer : WF_vars(Pull(p)) /\ WF_vars(DialAfterBootstrap(p)) /\ WF_vars(Follow(p))

FairSpec    == Spec /\ Fairness
OrderedSpec == Init /\ [][OrderedNext]_vars /\ OrderedFairness

-----------------------------------------------------------------------------
TypeOK ==
    /\ count \in [Peer -> 0 .. Last]
    /\ applied \in Seq(Transition)
    /\ root \in Nat \cup {Stray}
    /\ boot \in [Peer -> Bootstrap]
    /\ cursor \in [Peer -> Nat] /\ next \in [Peer -> 0 .. Last]
    /\ page \in [Peer -> Seq(Transition)]
    /\ \A p \in Peer : boot[p] = "apply" => page[p] # <<>>
    /\ live \in [Peer -> Phase]
    /\ since \in [Peer -> Nat]
    /\ queue \in [Peer -> Seq(Transition)]
    /\ wire \in [Peer -> Seq(Transition)]
    /\ lost \in [Peer -> BOOLEAN]
    /\ faults \in Nat

\* However a Bootstrap, a live stream, its replay, reconnections and restarts
\* interleave, the mirror holds a prefix of the history, at its root: nothing
\* is skipped, repeated or applied out of order.
MirrorIsPrefix ==
    /\ \A i \in DOMAIN applied : applied[i] = i
    /\ root = RootAt[Len(applied)]

\* The peer with the longest log.
Longest == CHOOSE n \in {count[p] : p \in Peer} : \A p \in Peer : count[p] <= n

Log == INSTANCE ReplicatedLog WITH committed <- Longest, copy <- applied

\* Syncing is copying a log: what the mirror holds, it took in order and not
\* before a peer had committed it.
CopiesTheLog == Log!Spec

\* Bootstrap ended in an error and left the mirror empty.  Live cannot make up
\* for it: since_index 0 asks for no replay, so the CREATE_GROUP never comes.
Stranded(p) == boot[p] = "failed" /\ applied = <<>>

\* What a peer has committed reaches the mirror, as long as the broadcaster
\* has dropped nothing on the stream and the Bootstrap did not fail before its
\* first transition: through calls that fail later on, reconnections and
\* restarts, with commits going on between every two steps.
CatchesUp ==
    \A p \in Peer : \A n \in Transition :
        count[p] >= n ~> (Len(applied) >= n \/ lost[p] \/ Stranded(p))
=============================================================================
