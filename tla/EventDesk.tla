----------------------------- MODULE EventDesk -----------------------------
(***************************************************************************)
(* The fedmeetup web process: events kept twice (the product store in      *)
(* memory, a cache in SQLite), RSVPs confirmed through a mailed link, and  *)
(* the scheduler that reminds confirmed guests once per event, between     *)
(* Far and Near time units before it starts.                               *)
(*                                                                         *)
(* A handler runs concurrently with every other one and with the           *)
(* scheduler; each SQL statement and each call of the product store is     *)
(* atomic.  What a handler still has to do is a task in "tasks".           *)
(***************************************************************************)
EXTENDS Integers, FiniteSets, Sequences

CONSTANTS
    Event,        \* event ids
    Person,       \* e-mail addresses
    None,         \* no row
    Demo,         \* the events SeedData writes at every start
    Titled,       \* the events whose id the MCP tool derives from a title
    Offset,       \* a seeded event starts Offset after the process did
    Starts,       \* the start times organizers choose
    Near, Far,    \* the window of the reminders: 22 and 26 hours
    Interval,     \* between two rounds of the scheduler: 15 minutes
    ListLimit,    \* the most events a round looks at: 200
    MaxTime,      \* bound of the model: the clock
    MaxToken,     \* bound of the model: RSVPs submitted
    MaxTask,      \* bound of the model: handlers between two statements
    MaxFaults     \* bound of the model: restarts, rounds and events given up,
                  \* time units by which the scheduler is late

ASSUME DeskAssumption ==
    /\ IsFiniteSet(Event) /\ None \notin Event
    /\ Demo \subseteq Event /\ Titled \subseteq Event
    /\ Offset \in Nat /\ Starts \subseteq Nat
    /\ Near \in Nat /\ Far \in Nat /\ Interval \in Nat \ {0}
    /\ Interval <= Far - Near
    /\ ListLimit \in Nat \ {0}
    /\ MaxTime \in Nat /\ MaxToken \in Nat /\ MaxTask \in Nat /\ MaxFaults \in Nat

VARIABLES
    product,      \* Store.events of the product layer, in memory
    cache,        \* the rows of events_cache
    rsvp,         \* the rows of rsvps
    issued,       \* the pair each magic-link token was made for
    opened,       \* history: the tokens of requests to confirm that found an RSVP
    tasks,        \* what handlers still have to do
    confirming,   \* tokens between the SELECT and the UPDATE of ConfirmRsvp
    sent,         \* the scheduler's map of events reminded
    todo,         \* events of the round still to look at
    current,      \* the event whose mails are being sent
    to,           \* the guests still to write to
    attempts,     \* history: mails to a guest about an event, in this process
    reached,      \* history: guests ever written to about an event
    owed,         \* history: guests who must be reminded
    now, due,     \* the clock and the next round
    faults

books  == <<product, cache>>
guests == <<rsvp, issued, opened, confirming>>
mails  == <<sent, todo, current, to, attempts, reached>>
time   == <<now, due, faults>>
vars   == <<books, guests, tasks, mails, time, owed>>

Pair == Event \X Person
Row  == [starts : Nat, cancelled : BOOLEAN]
On(s) == [starts |-> s, cancelled |-> FALSE]

-----------------------------------------------------------------------------
(* Start of the process. *)

Seeded(book) == [e \in Event |-> IF e \in Demo THEN On(now + Offset) ELSE book[e]]

Init ==
    /\ now = 0 /\ due = 0 /\ faults = 0
    /\ product = Seeded([e \in Event |-> None])
    /\ cache = Seeded([e \in Event |-> None])
    /\ rsvp = [x \in Pair |-> None]
    /\ issued = <<>>
    /\ opened = {} /\ confirming = {} /\ tasks = {}
    /\ sent = {} /\ todo = {} /\ current = None /\ to = {}
    /\ attempts = [x \in Pair |-> 0]
    /\ reached = {} /\ owed = {}

\* What goes wrong is counted.
Fault == faults < MaxFaults /\ faults' = faults + 1

\* The product store and the scheduler's map are lost; the SQLite file stays,
\* and SeedData writes the demo events over it.  The first round is due at
\* once; the time the process was away is time it is late for it.
Restart ==
    /\ Fault
    /\ product' = Seeded([e \in Event |-> None])
    /\ cache' = Seeded(cache)
    /\ tasks' = {} /\ confirming' = {}
    /\ sent' = {} /\ todo' = {} /\ current' = None /\ to' = {}
    /\ attempts' = [x \in Pair |-> 0]
    /\ due' = now
    /\ UNCHANGED <<rsvp, issued, opened, reached, now>>

-----------------------------------------------------------------------------
(* Organizers: the cache and the product store are written in two steps.   *)

Task == [do : {"put", "upsert", "putback"}, event : Event, row : Row]
        \cup [do : {"read"}, event : Event, row : {None}]

Later(t) == tasks' = tasks \cup {t}

Room == Cardinality(tasks) < MaxTask

\* handleCreateEvent: UpsertEvent, then PutEvent, under a fresh random id.
CreateEvent(e, s) ==
    /\ Room
    /\ e \notin Demo \cup Titled
    /\ cache[e] = None
    /\ cache' = [cache EXCEPT ![e] = On(s)]
    /\ Later([do |-> "put", event |-> e, row |-> On(s)])
    /\ UNCHANGED <<product, guests, mails, time>>

\* The MCP tool create_event: the product store only, and the same title gives
\* the same id.
McpCreateEvent(e, s) ==
    /\ e \in Titled
    /\ product[e] # On(s)
    /\ product' = [product EXCEPT ![e] = On(s)]
    /\ UNCHANGED <<cache, guests, tasks, mails, time>>

\* handleDashboard syncs: it copies a product event and upserts the copy.
ReadForSync(e) ==
    /\ Room
    /\ product[e] # None
    /\ Later([do |-> "upsert", event |-> e, row |-> product[e]])
    /\ UNCHANGED <<books, guests, mails, time>>

Off(row) == [row EXCEPT !.cancelled = TRUE]

\* handleCancelEvent: GetEvent returns the product event itself, which is
\* cancelled in place and is then put back, whatever stands there by then.
CancelEvent(e) ==
    /\ Room
    /\ product[e] # None
    /\ product' = [product EXCEPT ![e] = Off(product[e])]
    /\ Later([do |-> "putback", event |-> e, row |-> Off(product[e])])
    /\ UNCHANGED <<cache, guests, mails, time>>

\* handleCancelEvent of an event only the cache has.
CancelCached(e) ==
    /\ Room
    /\ product[e] = None /\ cache[e] # None
    /\ Later([do |-> "read", event |-> e, row |-> None])
    /\ UNCHANGED <<books, guests, mails, time>>

PutBack(t) ==
    /\ t.do = "putback"
    /\ product' = [product EXCEPT ![t.event] = t.row]
    /\ tasks' = (tasks \ {t}) \cup {[do |-> "read", event |-> t.event, row |-> None]}
    /\ UNCHANGED <<cache, guests, mails, time>>

Put(t) ==
    /\ t.do = "put"
    /\ product' = [product EXCEPT ![t.event] = t.row]
    /\ tasks' = tasks \ {t}
    /\ UNCHANGED <<cache, guests, mails, time>>

Upsert(t) ==
    /\ t.do = "upsert"
    /\ cache' = [cache EXCEPT ![t.event] = t.row]
    /\ tasks' = tasks \ {t}
    /\ UNCHANGED <<product, guests, mails, time>>

\* handleCancelEvent: the cached row is read, to be written back.
ReadForCancel(t) ==
    /\ t.do = "read"
    /\ tasks' = (tasks \ {t}) \cup
          {[do |-> "upsert", event |-> t.event, row |-> Off(r)] : r \in {cache[t.event]} \ {None}}
    /\ UNCHANGED <<books, guests, mails, time>>

-----------------------------------------------------------------------------
(* Guests. *)

\* Fault: the conflict clause leaves "confirmed" alone.
SubmitRsvpKeeping(e, p) ==
    LET t == Len(issued) + 1
    IN /\ t <= MaxToken
       /\ product[e] # None \/ cache[e] # None
       /\ rsvp' = [rsvp EXCEPT ![<<e, p>>] =
              [token |-> t, confirmed |-> rsvp[<<e, p>>] # None /\ rsvp[<<e, p>>].confirmed]]
       /\ issued' = Append(issued, <<e, p>>)
       /\ UNCHANGED <<books, opened, confirming, tasks, mails, time>>

\* handleRsvpSubmit: the upsert replaces token and confirmation of an earlier
\* RSVP.  Whether the mail with the link goes out changes nothing.
SubmitRsvp(e, p) ==
    LET t == Len(issued) + 1
    IN /\ t <= MaxToken
       /\ product[e] # None \/ cache[e] # None
       /\ rsvp' = [rsvp EXCEPT ![<<e, p>>] = [token |-> t, confirmed |-> FALSE]]
       /\ issued' = Append(issued, <<e, p>>)
       /\ UNCHANGED <<books, opened, confirming, tasks, mails, time>>

Holds(x, t) == rsvp[x] # None /\ rsvp[x].token = t

\* ConfirmRsvp: the SELECT; a link that was replaced finds no row, one that was
\* used finds nothing to do.  The link need not come from the mail:
\* handleMyRsvps shows it to whoever asks for the address.
FollowLink(t) ==
    /\ \E x \in Pair : Holds(x, t) /\ ~rsvp[x].confirmed
    /\ opened' = opened \cup {t}
    /\ confirming' = confirming \cup {t}
    /\ UNCHANGED <<books, rsvp, issued, tasks, mails, time>>

\* ConfirmRsvp: UPDATE rsvps SET confirmed = 1 WHERE token = ?.
Confirm(t) ==
    /\ t \in confirming
    /\ rsvp' = [x \in Pair |-> IF Holds(x, t) THEN [rsvp[x] EXCEPT !.confirmed = TRUE]
                               ELSE rsvp[x]]
    /\ confirming' = confirming \ {t}
    /\ UNCHANGED <<books, issued, opened, tasks, mails, time>>

\* Fault: the token is emptied with the confirmation.
CancelRsvpEmptying(e, p) ==
    /\ rsvp[<<e, p>>] # None
    /\ rsvp' = [rsvp EXCEPT ![<<e, p>>] = [token |-> 0, confirmed |-> FALSE]]
    /\ UNCHANGED <<books, issued, opened, confirming, tasks, mails, time>>

\* CancelRsvp: the row stays, and so does its token.
CancelRsvp(e, p) ==
    /\ rsvp[<<e, p>>] # None
    /\ rsvp' = [rsvp EXCEPT ![<<e, p>>].confirmed = FALSE]
    /\ UNCHANGED <<books, issued, opened, confirming, tasks, mails, time>>

Confirmed(e) == {p \in Person : rsvp[<<e, p>>] # None /\ rsvp[<<e, p>>].confirmed}

-----------------------------------------------------------------------------
(* The reminder scheduler. *)

Upcoming == {e \in Event : cache[e] # None /\ ~cache[e].cancelled /\ cache[e].starts >= now}

\* Fault: both ends of the window are excluded.
InWindowOpen(s) == now + Near < s /\ s < now + Far

\* ListUpcomingEvents: the earliest ones up to the limit, ties in any order.
Listings ==
    {L \in SUBSET Upcoming :
        /\ Cardinality(L) = IF Cardinality(Upcoming) < ListLimit
                            THEN Cardinality(Upcoming) ELSE ListLimit
        /\ \A e \in L, f \in Upcoming \ L : cache[e].starts <= cache[f].starts}

InWindow(s) == now + Near <= s /\ s <= now + Far

Idle == todo = {} /\ current = None

\* The ticker keeps its beat and holds one tick: a round that is late begins at
\* once, and the next one is due at the next beat.
NextBeat == {t \in now + 1 .. now + Interval : (t - due) % Interval = 0}

BeginRound ==
    /\ Idle /\ now >= due
    /\ \E L \in Listings : todo' = {e \in L : InWindow(cache[e].starts)} \ sent
    /\ due' \in NextBeat
    /\ UNCHANGED <<books, guests, tasks, sent, current, to, attempts, reached, now, faults>>

\* The listing fails: the round is over.
LoseRound ==
    /\ Idle /\ now >= due
    /\ Fault
    /\ due' \in NextBeat
    /\ UNCHANGED <<books, guests, tasks, mails, now>>

\* The guests cannot be listed or the mail not rendered: the event is left to
\* the next round.
SkipEvent(e) ==
    /\ current = None /\ e \in todo
    /\ Fault
    /\ todo' = todo \ {e}
    /\ UNCHANGED <<books, guests, tasks, sent, current, to, attempts, reached, now, due>>

\* ListRsvpsForEvent; an event without guests counts as reminded.
TakeEvent(e) ==
    /\ current = None /\ e \in todo
    /\ todo' = todo \ {e}
    /\ to' = Confirmed(e)
    /\ current' = IF Confirmed(e) = {} THEN None ELSE e
    /\ sent' = IF Confirmed(e) = {} THEN sent \cup {e} ELSE sent
    /\ UNCHANGED <<books, guests, tasks, attempts, reached, time>>

\* Sender.Send; a failure is logged and the loop goes on.
Remind(p) ==
    /\ p \in to
    /\ to' = to \ {p}
    /\ attempts' = [attempts EXCEPT ![<<current, p>>] = @ + 1]
    /\ reached' = reached \cup {<<current, p>>}
    /\ UNCHANGED <<books, guests, tasks, sent, todo, current, time>>

\* Fault: the event is marked only when every mail was accepted.
FinishEventIfAllSent ==
    /\ current # None /\ to = {}
    /\ sent' \in {sent, sent \cup {current}}
    /\ current' = None
    /\ UNCHANGED <<books, guests, tasks, todo, to, attempts, reached, time>>

\* The event is marked whatever became of its mails.
FinishEvent ==
    /\ current # None /\ to = {}
    /\ sent' = sent \cup {current}
    /\ current' = None
    /\ UNCHANGED <<books, guests, tasks, todo, to, attempts, reached, time>>

Tick == now < MaxTime /\ now' = now + 1 /\ UNCHANGED <<books, guests, tasks, mails, due>>

\* A round that begins when it is due and ends before the next one is.
OnTime == now + 1 < due \/ (now < due /\ Idle)

Clock ==
    /\ OnTime
    /\ Tick
    /\ UNCHANGED faults

\* The process is away, the database keeps a listing waiting, or a mail hangs:
\* Sender.Send has no timeout and holds up the scheduler.
ClockLate ==
    /\ ~OnTime
    /\ Tick
    /\ Fault

-----------------------------------------------------------------------------
Step ==
    \/ Restart
    \/ \E e \in Event, s \in Starts : CreateEvent(e, s) \/ McpCreateEvent(e, s)
    \/ \E e \in Event : ReadForSync(e) \/ CancelEvent(e) \/ CancelCached(e)
    \/ \E t \in tasks : Put(t) \/ PutBack(t) \/ Upsert(t) \/ ReadForCancel(t)
    \/ \E e \in Event, p \in Person : SubmitRsvp(e, p) \/ CancelRsvp(e, p)
    \/ \E t \in 1 .. Len(issued) : FollowLink(t) \/ Confirm(t)
    \/ BeginRound \/ LoseRound
    \/ \E e \in Event : TakeEvent(e) \/ SkipEvent(e)
    \/ \E p \in Person : Remind(p)
    \/ FinishEvent
    \/ Clock \/ ClockLate

\* Whatever the ties, the event is among those a round looks at.
SurelyListed(e) ==
    /\ e \in Upcoming
    /\ Cardinality({f \in Upcoming : cache[f].starts <= cache[e].starts}) <= ListLimit

\* The scheduler has not dealt with the event and is not about to.
Fresh(e) == e \notin sent \cup todo \cup {current}

\* History: a guest confirmed before the window opened is owed a reminder, as
\* long as the guest stays confirmed and the event stays listed at that time.
Record ==
    owed' = {x \in Pair :
                /\ (x[2] \in Confirmed(x[1]) /\ SurelyListed(x[1]))'
                /\ \/ x \in owed /\ cache'[x[1]] = cache[x[1]]
                   \/ (Fresh(x[1]) /\ cache[x[1]].starts > now + Far)'}

Next == Step /\ Record

Spec == Init /\ [][Next]_vars

-----------------------------------------------------------------------------
(* Properties. *)

TypeOK ==
    /\ product \in [Event -> Row \cup {None}]
    /\ cache \in [Event -> Row \cup {None}]
    /\ issued \in Seq(Pair)
    /\ rsvp \in [Pair -> [token : 1 .. Len(issued), confirmed : BOOLEAN] \cup {None}]
    /\ opened \subseteq 1 .. Len(issued) /\ confirming \subseteq opened
    /\ tasks \subseteq Task
    /\ sent \subseteq Event /\ todo \subseteq Event
    /\ current \in Event \cup {None} /\ to \subseteq Person
    /\ attempts \in [Pair -> Nat]
    /\ reached \subseteq Pair /\ owed \subseteq Pair
    /\ now \in Nat /\ due \in Nat /\ faults \in 0 .. MaxFaults

\* An RSVP is confirmed only after a request made with the token of the RSVP
\* that stands: CreateRsvp replaces token and confirmation together while
\* ConfirmRsvp is between its two statements, and CancelRsvp keeps the token.
\* Nobody is written to about an event without such a request for that guest
\* and event (ListRsvpsForEvent).  Who makes the request is not said: the
\* token is mailed to the guest, and shown by handleMyRsvps to anybody.
ConfirmedByLink ==
    /\ \A x \in Pair : rsvp[x] # None =>
        /\ issued[rsvp[x].token] = x
        /\ rsvp[x].confirmed => rsvp[x].token \in opened
    /\ \A x \in reached : \E t \in opened : issued[t] = x

\* In one life of the process nobody is reminded twice of one event, whatever
\* was cancelled, replaced or rescheduled between the rounds (sendReminders).
RemindedOnce == \A x \in Pair : attempts[x] <= 1

\* A guest confirmed before the window opened, who stayed so while the event
\* stayed as it was and among those a round looks at, has been written to when
\* the window closes: across restarts, rounds and events given up, and rounds
\* that are late (sendReminders).
NobodyMissed ==
    \A x \in owed : now + Near > cache[x[1]].starts => x \in reached

\* What CreateRsvp is said to refuse: a second RSVP of the same guest.
SecondRsvpRefused ==
    [][\A x \in Pair : rsvp[x] # None => rsvp'[x] # None /\ rsvp'[x].token = rsvp[x].token]_vars

\* What is said of the token's lifetime, and of a cancelled RSVP as one that is
\* deleted: the link confirms nothing any more (CancelRsvp keeps the row).
TokenEndsOnCancel ==
    [][\A x \in Pair :
          rsvp[x] # None /\ rsvp[x].confirmed /\ ~(x[2] \in Confirmed(x[1]))'
              => ~\E y \in Pair : Holds(y, rsvp[x].token)']_vars

\* What "idempotent" is said of SeedData: a start of the process leaves the
\* events it finds in the database as they are.
SeedIdempotent ==
    [][Restart =>
          \A e \in Event : cache[e] # None => cache'[e] = cache[e]]_vars
=============================================================================
