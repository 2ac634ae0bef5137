------------------------------ MODULE HlcHosts ------------------------------
(***************************************************************************)
(* Hosts that stamp the transitions they author with a hybrid logical      *)
(* clock and merge the clocks of the transitions they receive: Submit-     *)
(* Transition and Deliver of sim/host.go, over the faulty mesh of          *)
(* sim/mesh.go (a message may be lost, delayed, reordered, or handed to a  *)
(* host again, because Peek does not drain it).                            *)
(*                                                                         *)
(* Deliver reads the wall clock and checks the drift, takes h.mu, reads    *)
(* the clock it observed before, merges, and releases h.mu before it       *)
(* applies: the check and the merge are two steps, and other deliveries,   *)
(* local submissions and clock steps fall between them.                    *)
(***************************************************************************)
EXTENDS Hlc, FiniteSets

CONSTANTS
    Host,
    Start,     \* Config.InitialTime
    Skew,      \* the offsets SetClockSkew may give a host
    MaxDrift,  \* MaxHLCDrift
    MaxTime,   \* bound of the model: virtual time
    MaxWall,   \* bound of the model: wall components
    MaxSent    \* bound of the model: transitions authored

ASSUME HostsAssumption ==
    /\ Start \in Nat /\ MaxDrift \in Nat /\ MaxTime \in Nat
    /\ MaxWall \in Nat /\ MaxSent \in Nat
    /\ Skew \subseteq Int /\ 0 \in Skew
    /\ \A s \in Skew : Start + s >= 0

VARIABLES
    now,       \* World.Now()
    skew,      \* Host.clockSkew
    cursor,    \* Host.hlcCursor
    checked,   \* per host: transitions past the drift check, not yet merged
    dropped,   \* per host: transitions the drift check rejected
    sent,      \* every transition ever broadcast
    known,     \* history: per host, the stamps it authored or merged
    peak,      \* history: per host, the largest clock reading it acted on
    carries    \* history: per host, how often a counter carried into the wall

vars == <<now, skew, cursor, checked, dropped, sent, known, peak, carries>>

Clock(h) == now + skew[h]

\* A transition on the mesh: who stamped it, its stamp, and (history) the
\* stamps its author had authored or merged before.
Transition == [from : Host, hlc : HLC, past : SUBSET HLC]

SeeClock(h) == peak' = [peak EXCEPT ![h] = Larger(@, Clock(h))]

\* The wall component rose above everything that went into it.
Carried(h, w) == carries' = [carries EXCEPT ![h] = IF w THEN @ + 1 ELSE @]

TickCursor(h) ==
    /\ cursor' = [cursor EXCEPT ![h] = Tick(@, Clock(h))]
    /\ SeeClock(h)
    /\ Carried(h, cursor'[h].wall > Larger(cursor[h].wall, Clock(h)))

-----------------------------------------------------------------------------
\* SubmitTransition: tick, stamp, apply locally, broadcast.
Submit(h) ==
    /\ TickCursor(h)
    /\ sent' = sent \cup {[from |-> h, hlc |-> cursor'[h], past |-> known[h]]}
    /\ known' = [known EXCEPT ![h] = @ \cup {cursor'[h]}]
    /\ UNCHANGED <<now, skew, checked, dropped>>

\* SubmitTransition whose Apply fails: the cursor has moved already.
SubmitRefused(h) ==
    /\ TickCursor(h)
    /\ UNCHANGED <<now, skew, checked, dropped, sent, known>>

\* Fault: no drift validation.
WithinAnyDrift(h, t) == TRUE

WithinDrift(h, t) == t.hlc.wall <= Clock(h) + MaxDrift

\* Deliver, up to the drift check.
Accept(h, t) ==
    /\ WithinDrift(h, t)
    /\ checked' = [checked EXCEPT ![h] = @ \cup {t}]
    /\ SeeClock(h)
    /\ UNCHANGED <<now, skew, cursor, dropped, sent, known, carries>>

Drop(h, t) ==
    /\ ~WithinDrift(h, t)
    /\ dropped' = [dropped EXCEPT ![h] = @ \cup {t}]
    /\ SeeClock(h)
    /\ UNCHANGED <<now, skew, cursor, checked, sent, known, carries>>

\* Deliver, the merge under h.mu.  What Apply says of the transition later
\* does not undo it.
Merge(h, t) ==
    /\ cursor' = [cursor EXCEPT ![h] = Observe(@, t.hlc, Clock(h))]
    /\ checked' = [checked EXCEPT ![h] = @ \ {t}]
    /\ known' = [known EXCEPT ![h] = @ \cup {t.hlc}]
    /\ SeeClock(h)
    /\ Carried(h, cursor'[h].wall >
                    Larger(Larger(cursor[h].wall, t.hlc.wall), Clock(h)))
    /\ UNCHANGED <<now, skew, dropped, sent>>

\* World.Advance and SetClockSkew (an NTP step, a suspend and resume).
Advance ==
    /\ now < MaxTime
    /\ now' = now + 1
    /\ UNCHANGED <<skew, cursor, checked, dropped, sent, known, peak, carries>>

StepClock(h) ==
    /\ \E s \in Skew : skew' = [skew EXCEPT ![h] = s]
    /\ UNCHANGED <<now, cursor, checked, dropped, sent, known, peak, carries>>

-----------------------------------------------------------------------------
Init ==
    /\ now = Start
    /\ skew \in [Host -> Skew]
    /\ cursor = [h \in Host |-> Zero]
    /\ checked = [h \in Host |-> {}]
    /\ dropped = [h \in Host |-> {}]
    /\ sent = {}
    /\ known = [h \in Host |-> {}]
    /\ peak = [h \in Host |-> 0]
    /\ carries = [h \in Host |-> 0]

InBounds(h) == cursor[h].wall <= MaxWall

Authoring == \E h \in Host : InBounds(h) /\ Cardinality(sent) < MaxSent /\ Submit(h)
Refusing  == \E h \in Host : InBounds(h) /\ SubmitRefused(h)
Delivering == \E h \in Host : \E t \in sent : t.from # h /\ (Accept(h, t) \/ Drop(h, t))
Merging   == \E h \in Host : \E t \in checked[h] : InBounds(h) /\ Merge(h, t)
Stepping  == \E h \in Host : StepClock(h)

Next == Authoring \/ Refusing \/ Delivering \/ Merging \/ Advance \/ Stepping
Spec == Init /\ [][Next]_vars

\* Constant offsets: the clocks disagree but nobody steps one.
SteadyNext == Authoring \/ Delivering \/ Merging \/ Advance
SteadySpec == Init /\ [][SteadyNext]_vars

-----------------------------------------------------------------------------
TypeOK ==
    /\ now \in Nat /\ now >= Start
    /\ skew \in [Host -> Skew]
    /\ cursor \in [Host -> HLC]
    /\ checked \in [Host -> SUBSET sent]
    /\ dropped \in [Host -> SUBSET sent]
    /\ sent \subseteq Transition
    /\ known \in [Host -> SUBSET HLC]
    /\ peak \in [Host -> Nat]
    /\ carries \in [Host -> Nat]

\* docs/02-PROTOCOL.md, guarantees 1 and 2, taken together and through any
\* chain of hosts: the stamp of a transition is strictly greater than every
\* stamp its author had authored or merged before, whatever the clocks did
\* between the drift check, the merge and the next local tick.
HappenedBefore == \A t \in sent : \A p \in t.past : Before(p, t.hlc)

\* The cursor never regresses: not on a clock step back, not on a merge with
\* an older stamp, not on a carry, not for a submission that is refused.
CursorsAdvance ==
    [][\A h \in Host : cursor'[h] # cursor[h] => Before(cursor[h], cursor'[h])]_vars

\* Guarantee 3, and what the drift validation of Deliver is for: a host's
\* wall component never runs further ahead of the largest clock reading the
\* host itself acted on than the drift limit and its own counter carries,
\* however many hosts with fast clocks it hears from.
DriftBounded ==
    \A h \in Host : cursor[h].wall <= peak[h] + MaxDrift + carries[h]

-----------------------------------------------------------------------------
\* docs/02-PROTOCOL.md on a constant clock skew, "one host's clock is an hour
\* behind": "cursors still merge".
CursorsMerge == \A h \in Host : dropped[h] = {}
=============================================================================
