--------------------------- MODULE EventDeskProofs ---------------------------
(***************************************************************************)
(* Proofs about EventDesk: type correctness; that guests are confirmed and *)
(* written to only after a request made with a token of theirs; that one   *)
(* life of the process reminds a guest of an event once; and, when the     *)
(* window leaves room for whatever may go wrong with the scheduler, that   *)
(* no guest who was confirmed in time is missed.                           *)
(***************************************************************************)
EXTENDS EventDesk, FiniteSetTheorems, TLAPS

USE DEF Pair, books, guests, mails, time

\* Mails are written about an event only.
Writing == current = None => to = {}

\* Cancelling a row leaves a row, and an organizer's event is one.
LEMMA RowType ==
    /\ \A r \in Row : Off(r) \in Row
    /\ \A s \in Nat : On(s) \in Row
BY DEF Row, On, Off

LEMMA SeededType ==
    ASSUME now \in Nat, NEW book \in [Event -> Row \cup {None}]
    PROVE  Seeded(book) \in [Event -> Row \cup {None}]
<1>1. now + Offset \in Nat
  BY DeskAssumption DEF DeskAssumption
<1>2. On(now + Offset) \in Row
  BY <1>1, RowType
<1>3. QED
  BY <1>2 DEF Seeded

\* An RSVP more: the tokens issued before still name the same pairs.
LEMMA IssueType ==
    ASSUME TypeOK, NEW x \in Pair, issued' = Append(issued, x)
    PROVE  /\ issued' \in Seq(Pair) /\ Len(issued') = Len(issued) + 1
           /\ Len(issued) \in Nat
           /\ issued'[Len(issued) + 1] = x
           /\ \A t \in 1 .. Len(issued) : issued'[t] = issued[t]
BY DEF TypeOK

\* The organizers' steps.
Organize ==
    \/ \E e \in Event, s \in Starts : CreateEvent(e, s) \/ McpCreateEvent(e, s)
    \/ \E e \in Event : ReadForSync(e) \/ CancelEvent(e) \/ CancelCached(e)
    \/ \E t \in tasks : Put(t) \/ PutBack(t) \/ Upsert(t) \/ ReadForCancel(t)

\* They keep the types of the books and of what is to do.
LEMMA OrganizerType ==
    ASSUME TypeOK, Organize
    PROVE  /\ product' \in [Event -> Row \cup {None}]
           /\ cache' \in [Event -> Row \cup {None}]
           /\ tasks' \subseteq Task
           /\ UNCHANGED <<guests, mails, time>>
<1>1. /\ product \in [Event -> Row \cup {None}] /\ cache \in [Event -> Row \cup {None}]
      /\ tasks \subseteq Task /\ \A s \in Starts : On(s) \in Row
  BY RowType, DeskAssumption DEF DeskAssumption, TypeOK
<1>2. CASE \E e \in Event, s \in Starts : CreateEvent(e, s)
  BY <1>1, <1>2 DEF CreateEvent, Later, Task
<1>3. CASE \E e \in Event, s \in Starts : McpCreateEvent(e, s)
  BY <1>1, <1>3 DEF McpCreateEvent
<1>4. CASE \E e \in Event : ReadForSync(e)
  BY <1>1, <1>4 DEF ReadForSync, Later, Task
<1>5. CASE \E e \in Event : CancelEvent(e)
  <2>1. PICK e \in Event : CancelEvent(e)
    BY <1>5
  <2>2. Off(product[e]) \in Row
    BY <1>1, <2>1, RowType DEF CancelEvent
  <2>3. QED
    BY <1>1, <2>1, <2>2 DEF CancelEvent, Later, Task
<1>5a. CASE \E e \in Event : CancelCached(e)
  BY <1>1, <1>5a DEF CancelCached, Later, Task
<1>6. CASE \E t \in tasks : Put(t)
  BY <1>1, <1>6 DEF Put, Task
<1>6a. CASE \E t \in tasks : PutBack(t)
  BY <1>1, <1>6a DEF PutBack, Task
<1>7. CASE \E t \in tasks : Upsert(t)
  BY <1>1, <1>7 DEF Upsert, Task
<1>8. CASE \E t \in tasks : ReadForCancel(t)
  <2>1. PICK t \in tasks : ReadForCancel(t)
    BY <1>8
  <2>2. t.event \in Event
    BY <1>1 DEF Task
  <2>3. \A r \in {cache[t.event]} \ {None} : Off(r) \in Row
    BY <1>1, <2>2, RowType
  <2>4. QED
    BY <1>1, <2>1, <2>2, <2>3 DEF ReadForCancel, Task
<1>9. QED
  BY <1>2, <1>3, <1>4, <1>5, <1>5a, <1>6, <1>6a, <1>7, <1>8 DEF Organize

\* The guests' steps keep the types of the RSVPs and links.
Visit ==
    \/ \E e \in Event, p \in Person : SubmitRsvp(e, p) \/ CancelRsvp(e, p)
    \/ \E t \in 1 .. Len(issued) : FollowLink(t) \/ Confirm(t)

RsvpRow(n) == [token : 1 .. n, confirmed : BOOLEAN]

LEMMA VisitType ==
    ASSUME TypeOK, Visit
    PROVE  /\ issued' \in Seq(Pair)
           /\ rsvp' \in [Pair -> RsvpRow(Len(issued')) \cup {None}]
           /\ opened' \subseteq 1 .. Len(issued') /\ confirming' \subseteq opened'
           /\ UNCHANGED <<books, tasks, mails, time>>
<1>1. /\ issued \in Seq(Pair) /\ Len(issued) \in Nat
      /\ rsvp \in [Pair -> RsvpRow(Len(issued)) \cup {None}]
      /\ opened \subseteq 1 .. Len(issued)
      /\ confirming \subseteq opened
  BY DEF TypeOK, RsvpRow
<1>2. ASSUME NEW e \in Event, NEW p \in Person, SubmitRsvp(e, p)
      PROVE  /\ issued' \in Seq(Pair)
             /\ rsvp' \in [Pair -> RsvpRow(Len(issued')) \cup {None}]
             /\ opened' \subseteq 1 .. Len(issued') /\ confirming' \subseteq opened'
             /\ UNCHANGED <<books, tasks, mails, time>>
  <2> DEFINE n == Len(issued)
  <2>1. /\ rsvp' = [rsvp EXCEPT ![<<e, p>>] = [token |-> n + 1, confirmed |-> FALSE]]
        /\ issued' = Append(issued, <<e, p>>)
        /\ UNCHANGED <<books, opened, confirming, tasks, mails, time>>
    BY <1>2 DEF SubmitRsvp
  <2>2. <<e, p>> \in Pair /\ issued' \in Seq(Pair) /\ Len(issued') = n + 1 /\ n \in Nat
    BY <1>1, <2>1, IssueType
  <2>3. \A m \in Nat : /\ RsvpRow(m) \subseteq RsvpRow(m + 1)
                       /\ [token |-> m + 1, confirmed |-> FALSE] \in RsvpRow(m + 1)
                       /\ 1 .. m \subseteq 1 .. (m + 1) /\ m + 1 \in 1 .. (m + 1)
    BY DEF RsvpRow
  <2> HIDE DEF n
  <2>4. rsvp' \in [Pair -> RsvpRow(n + 1) \cup {None}]
    BY <1>1, <2>1, <2>2, <2>3 DEF n
  <2>5. opened' \subseteq 1 .. (n + 1)
    BY <1>1, <2>1, <2>2, <2>3 DEF n
  <2>6. QED
    BY <1>1, <2>1, <2>2, <2>4, <2>5
<1>3. \A r \in RsvpRow(Len(issued)), b \in BOOLEAN :
          [r EXCEPT !.confirmed = b] \in RsvpRow(Len(issued))
  BY DEF RsvpRow
<1>4. ASSUME NEW e \in Event, NEW p \in Person, CancelRsvp(e, p)
      PROVE  rsvp' \in [Pair -> RsvpRow(Len(issued)) \cup {None}]
  BY <1>1, <1>3, <1>4 DEF CancelRsvp
<1>5. ASSUME NEW t \in 1 .. Len(issued), Confirm(t)
      PROVE  rsvp' \in [Pair -> RsvpRow(Len(issued)) \cup {None}]
  BY <1>1, <1>3, <1>5 DEF Confirm, Holds
<1>6. QED
  BY <1>1, <1>2, <1>4, <1>5 DEF Visit, CancelRsvp, Confirm, FollowLink

\* The scheduler's steps.
Schedule ==
    \/ BeginRound \/ LoseRound
    \/ \E e \in Event : TakeEvent(e) \/ SkipEvent(e)
    \/ \E p \in Person : Remind(p)
    \/ FinishEvent

LEMMA FaultCounted == TypeOK /\ Fault => faults' \in 0 .. MaxFaults
BY DeskAssumption DEF DeskAssumption, TypeOK, Fault

LEMMA BeatType == TypeOK => NextBeat \subseteq Nat
BY DeskAssumption DEF DeskAssumption, TypeOK, NextBeat

LEMMA ScheduleType ==
    ASSUME TypeOK, Writing, Schedule
    PROVE  /\ sent' \subseteq Event /\ todo' \subseteq Event
           /\ current' \in Event \cup {None} /\ to' \subseteq Person
           /\ attempts' \in [Pair -> Nat] /\ reached' \subseteq Pair
           /\ now' = now /\ due' \in Nat /\ faults' \in 0 .. MaxFaults
           /\ Writing' /\ UNCHANGED <<books, guests, tasks>>
<1> USE DeskAssumption DEF DeskAssumption
<1>1. CASE BeginRound
  <2>1. todo' \subseteq Event
    BY <1>1 DEF BeginRound, Listings, Upcoming
  <2>2. due' \in Nat
    BY <1>1, BeatType DEF BeginRound
  <2>3. QED
    BY <1>1, <2>1, <2>2 DEF BeginRound, TypeOK, Writing
<1>1a. CASE LoseRound
  <2>1. due' \in Nat /\ faults' \in 0 .. MaxFaults
    BY <1>1a, BeatType, FaultCounted DEF LoseRound
  <2>2. QED
    BY <1>1a, <2>1 DEF LoseRound, TypeOK, Writing
<1>2. CASE \E e \in Event : TakeEvent(e)
  BY <1>2 DEF TakeEvent, TypeOK, Writing, Confirmed
<1>2a. CASE \E e \in Event : SkipEvent(e)
  <2>1. faults' \in 0 .. MaxFaults
    BY <1>2a, FaultCounted DEF SkipEvent
  <2>2. QED
    BY <1>2a, <2>1 DEF SkipEvent, TypeOK, Writing
<1>3. CASE \E p \in Person : Remind(p)
  <2>1. PICK p \in Person : Remind(p)
    BY <1>3
  <2>2. current \in Event
    BY <2>1 DEF Remind, Writing, TypeOK
  <2>3. <<current, p>> \in Pair
    BY <2>2
  <2>4. QED
    BY <2>1, <2>2, <2>3 DEF Remind, TypeOK, Writing
<1>4. CASE FinishEvent
  BY <1>4 DEF FinishEvent, TypeOK, Writing
<1>5. QED
  BY <1>1, <1>1a, <1>2, <1>2a, <1>3, <1>4 DEF Schedule

\* Every step is one of an organizer, a guest, the scheduler, the process or
\* the clock.
LEMMA Actors ==
    ASSUME Next
    PROVE  /\ Restart \/ Organize \/ Visit \/ Schedule \/ Clock \/ ClockLate
           /\ Record
BY DEF Next, Step, Organize, Visit, Schedule

LEMMA TypeInit == Init => TypeOK /\ Writing
<1> SUFFICES ASSUME Init PROVE TypeOK /\ Writing
  OBVIOUS
<1>1. now \in Nat /\ [e \in Event |-> None] \in [Event -> Row \cup {None}]
  BY DEF Init
<1>2. product \in [Event -> Row \cup {None}] /\ cache \in [Event -> Row \cup {None}]
  BY <1>1, SeededType DEF Init
<1>3. issued = <<>> /\ issued \in Seq(Pair)
  BY DEF Init
<1>4. faults \in 0 .. MaxFaults
  BY DeskAssumption DEF DeskAssumption, Init
<1>5. QED
  BY <1>2, <1>3, <1>4 DEF Init, TypeOK, Writing

LEMMA TypeStep == TypeOK /\ Writing /\ [Next]_vars => TypeOK' /\ Writing'
<1> SUFFICES ASSUME TypeOK, Writing, [Next]_vars PROVE TypeOK' /\ Writing'
  OBVIOUS
<1>1. CASE UNCHANGED vars
  BY <1>1 DEF vars, TypeOK, Writing
<1>2. CASE Next
  <2>1. owed' \subseteq Pair
    BY <1>2, Actors DEF Record
  <2>2. CASE Restart
    <3>1. /\ product' \in [Event -> Row \cup {None}]
          /\ cache' \in [Event -> Row \cup {None}]
      <4>1. [e \in Event |-> None] \in [Event -> Row \cup {None}] /\ now \in Nat
        BY DEF TypeOK
      <4>2. QED
        BY <2>2, <4>1, SeededType DEF Restart, TypeOK
    <3>2. faults' \in 0 .. MaxFaults
      BY <2>2, FaultCounted DEF Restart
    <3>3. QED
      BY <2>1, <2>2, <3>1, <3>2 DEF Restart, TypeOK, Writing
  <2>3. CASE Organize
    BY <2>1, <2>3, OrganizerType DEF TypeOK, Writing
  <2>4. CASE Visit
    BY <2>1, <2>4, VisitType DEF TypeOK, Writing, RsvpRow
  <2>5. CASE Schedule
    BY <2>1, <2>5, ScheduleType DEF TypeOK
  <2>6. CASE Clock
    BY <2>1, <2>6 DEF Clock, Tick, TypeOK, Writing
  <2>7. CASE ClockLate
    <3>1. faults' \in 0 .. MaxFaults
      BY <2>7, FaultCounted DEF ClockLate
    <3>2. QED
      BY <2>1, <2>7, <3>1 DEF ClockLate, Tick, TypeOK, Writing
  <2>8. QED
    BY <1>2, <2>2, <2>3, <2>4, <2>5, <2>6, <2>7, Actors
<1>3. QED
  BY <1>1, <1>2

\* Type correctness: both books hold rows of known events, RSVPs and links
\* carry tokens that were issued, and a mail goes out about an event only.
THEOREM TypeCorrect == Spec => []TypeOK
BY TypeInit, TypeStep, PTL DEF Spec

LEMMA WritingCorrect == Spec => []Writing
BY TypeInit, TypeStep, PTL DEF Spec

-----------------------------------------------------------------------------
(* Confirmation and reminders follow a request with the token. *)

\* A request was made with a token of the pair.
Linked(x) == \E t \in opened : issued[t] = x

LinkInv ==
    /\ ConfirmedByLink
    /\ \A p \in to : Linked(<<current, p>>)

\* Links stay links: tokens are never reissued.
LEMMA LinkedStays ==
    ASSUME TypeOK, Visit, NEW x, Linked(x)
    PROVE  Linked(x)'
<1>1. PICK t \in opened : issued[t] = x
  BY DEF Linked
<1>2. t \in 1 .. Len(issued)
  BY DEF TypeOK
<1>3. t \in opened'
  BY DEF Visit, SubmitRsvp, CancelRsvp, FollowLink, Confirm
<1>4. CASE UNCHANGED issued
  BY <1>1, <1>3, <1>4 DEF Linked
<1>5. CASE \E y \in Pair : issued' = Append(issued, y)
  <2>1. issued'[t] = issued[t]
    BY <1>2, <1>5, IssueType
  <2>2. QED
    BY <1>1, <1>3, <2>1 DEF Linked
<1>6. QED
  BY <1>4, <1>5 DEF Visit, SubmitRsvp, CancelRsvp, FollowLink, Confirm

\* An RSVP names a token made for it, opened if it is confirmed.
LEMMA VisitLinks ==
    ASSUME TypeOK, LinkInv, Visit,
           NEW x \in Pair, rsvp'[x] # None
    PROVE  /\ issued'[rsvp'[x].token] = x
           /\ rsvp'[x].confirmed => rsvp'[x].token \in opened'
<1>1. /\ rsvp \in [Pair -> RsvpRow(Len(issued)) \cup {None}]
      /\ rsvp[x] # None => /\ issued[rsvp[x].token] = x
                           /\ rsvp[x].confirmed => rsvp[x].token \in opened
      /\ rsvp[x] # None => rsvp[x] \in RsvpRow(Len(issued))
  BY DEF LinkInv, ConfirmedByLink, TypeOK, RsvpRow
<1>2. ASSUME NEW e \in Event, NEW p \in Person, SubmitRsvp(e, p)
      PROVE  /\ issued'[rsvp'[x].token] = x
             /\ rsvp'[x].confirmed => rsvp'[x].token \in opened'
  <2>1. /\ rsvp' = [rsvp EXCEPT ![<<e, p>>] =
                       [token |-> Len(issued) + 1, confirmed |-> FALSE]]
        /\ issued' = Append(issued, <<e, p>>) /\ UNCHANGED opened
        /\ <<e, p>> \in Pair
    BY <1>2 DEF SubmitRsvp
  <2>2. CASE x = <<e, p>>
    <3>1. rsvp'[x] = [token |-> Len(issued) + 1, confirmed |-> FALSE]
      BY <1>1, <2>1, <2>2
    <3>2. issued'[Len(issued) + 1] = x
      BY <2>1, <2>2, IssueType
    <3>3. QED
      BY <3>1, <3>2
  <2>3. CASE x # <<e, p>>
    <3>1. rsvp'[x] = rsvp[x]
      BY <1>1, <2>1, <2>3
    <3>2. rsvp[x].token \in 1 .. Len(issued)
      BY <1>1, <3>1 DEF RsvpRow
    <3>3. issued'[rsvp[x].token] = issued[rsvp[x].token]
      BY <2>1, <3>2, IssueType
    <3>4. QED
      BY <1>1, <2>1, <3>1, <3>3
  <2>4. QED
    BY <2>2, <2>3
<1>3. ASSUME NEW e \in Event, NEW p \in Person, CancelRsvp(e, p)
      PROVE  /\ issued'[rsvp'[x].token] = x
             /\ rsvp'[x].confirmed => rsvp'[x].token \in opened'
  <2>1. /\ rsvp' = [rsvp EXCEPT ![<<e, p>>].confirmed = FALSE]
        /\ rsvp[<<e, p>>] # None /\ UNCHANGED <<issued, opened>>
    BY <1>3 DEF CancelRsvp
  <2>2. CASE x = <<e, p>>
    <3>1. rsvp'[x] = [rsvp[x] EXCEPT !.confirmed = FALSE]
      BY <1>1, <2>1, <2>2
    <3>2. rsvp'[x].token = rsvp[x].token /\ ~rsvp'[x].confirmed
      BY <1>1, <2>1, <2>2, <3>1 DEF RsvpRow
    <3>3. QED
      BY <1>1, <2>1, <2>2, <3>2
  <2>3. CASE x # <<e, p>>
    BY <1>1, <2>1, <2>3
  <2>4. QED
    BY <2>2, <2>3
<1>4. ASSUME NEW t \in 1 .. Len(issued), FollowLink(t)
      PROVE  /\ issued'[rsvp'[x].token] = x
             /\ rsvp'[x].confirmed => rsvp'[x].token \in opened'
  BY <1>1, <1>4 DEF FollowLink
<1>5. ASSUME NEW t \in 1 .. Len(issued), Confirm(t)
      PROVE  /\ issued'[rsvp'[x].token] = x
             /\ rsvp'[x].confirmed => rsvp'[x].token \in opened'
  <2>1. t \in opened /\ UNCHANGED <<issued, opened>>
    BY <1>5 DEF Confirm, TypeOK
  <2>2. CASE Holds(x, t)
    <3>1. rsvp'[x] = [rsvp[x] EXCEPT !.confirmed = TRUE] /\ rsvp[x] # None /\ rsvp[x].token = t
      BY <1>5, <2>2 DEF Confirm, Holds
    <3>2. rsvp'[x].token = rsvp[x].token
      BY <1>1, <3>1 DEF RsvpRow
    <3>3. QED
      BY <1>1, <2>1, <3>1, <3>2
  <2>3. CASE ~Holds(x, t)
    BY <1>1, <1>5, <2>1, <2>3 DEF Confirm
  <2>4. QED
    BY <2>2, <2>3
<1>6. QED
  BY <1>2, <1>3, <1>4, <1>5 DEF Visit

LEMMA LinkStep == TypeOK /\ Writing /\ LinkInv /\ [Next]_vars => LinkInv'
<1> SUFFICES ASSUME TypeOK, Writing, LinkInv, [Next]_vars PROVE LinkInv'
  OBVIOUS
<1>1. CASE Restart
  BY <1>1 DEF Restart, LinkInv, ConfirmedByLink, Linked
<1>2. CASE UNCHANGED <<guests, mails>>
  BY <1>2 DEF LinkInv, ConfirmedByLink, Linked
<1>3. CASE Visit
  <2>1. UNCHANGED mails
    BY <1>3, VisitType
  <2>2. ASSUME NEW x \in reached PROVE Linked(x)'
    <3>1. Linked(x)
      BY DEF LinkInv, ConfirmedByLink, Linked
    <3>2. QED
      BY <1>3, <3>1, LinkedStays
  <2>3. ASSUME NEW p \in to' PROVE Linked(<<current, p>>)'
    <3>1. PICK x : x = <<current, p>>
      OBVIOUS
    <3>2. Linked(x)
      BY <2>1, <3>1 DEF LinkInv
    <3>3. Linked(x)'
      BY <1>3, <3>2, LinkedStays
    <3>4. QED
      BY <2>1, <3>1, <3>3 DEF Linked
  <2>4. ASSUME NEW x \in Pair, rsvp'[x] # None
        PROVE  /\ issued'[rsvp'[x].token] = x
               /\ rsvp'[x].confirmed => rsvp'[x].token \in opened'
    BY <1>3, <2>4, VisitLinks
  <2>5. \A x \in reached' : \E t \in opened' : issued'[t] = x
    BY <2>1, <2>2 DEF Linked
  <2>6. ConfirmedByLink'
    BY <2>4, <2>5 DEF ConfirmedByLink
  <2>7. QED
    BY <2>3, <2>6 DEF LinkInv
<1>4. CASE Schedule
  <2>1. UNCHANGED guests
    BY <1>4, ScheduleType
  <2>2. CASE BeginRound
    BY <2>1, <2>2 DEF BeginRound, LinkInv, ConfirmedByLink, Linked
  <2>2a. CASE LoseRound
    BY <2>2a DEF LoseRound, LinkInv, ConfirmedByLink, Linked
  <2>2b. CASE \E e \in Event : SkipEvent(e)
    BY <2>2b DEF SkipEvent, LinkInv, ConfirmedByLink, Linked
  <2>3. CASE \E e \in Event : TakeEvent(e)
    <3>1. PICK e \in Event : TakeEvent(e)
      BY <2>3
    <3>2. \A p \in Confirmed(e) : Linked(<<e, p>>)
      BY DEF Confirmed, LinkInv, ConfirmedByLink, Linked
    <3>3. \A p \in to' : p \in Confirmed(e) /\ current' = e
      BY <3>1 DEF TakeEvent
    <3>4. QED
      BY <2>1, <3>1, <3>2, <3>3 DEF TakeEvent, LinkInv, ConfirmedByLink, Linked
  <2>4. CASE \E p \in Person : Remind(p)
    BY <2>1, <2>4 DEF Remind, LinkInv, ConfirmedByLink, Linked
  <2>5. CASE FinishEvent
    BY <2>1, <2>5 DEF FinishEvent, LinkInv, ConfirmedByLink, Linked
  <2>6. QED
    BY <1>4, <2>2, <2>2a, <2>2b, <2>3, <2>4, <2>5 DEF Schedule
<1>5. QED
  <2>1. Organize => UNCHANGED <<guests, mails>>
    BY OrganizerType
  <2>2. Clock \/ ClockLate => UNCHANGED <<guests, mails>>
    BY DEF Clock, ClockLate, Tick
  <2>3. UNCHANGED vars => UNCHANGED <<guests, mails>>
    BY DEF vars
  <2>4. QED
    BY <1>1, <1>2, <1>3, <1>4, <2>1, <2>2, <2>3, Actors

\* An RSVP is confirmed only after a request with the token that stands, made
\* for that guest and event, whatever happens between the SELECT and the
\* UPDATE of ConfirmRsvp, and nobody is written to without such a request
\* (CreateRsvp, ConfirmRsvp, CancelRsvp, ListRsvpsForEvent).
THEOREM LinksConfirm == Spec => []ConfirmedByLink
<1>1. Init => LinkInv
  BY DEF Init, LinkInv, ConfirmedByLink, Pair
<1>2. LinkInv => ConfirmedByLink
  BY DEF LinkInv
<1>3. QED
  BY <1>1, <1>2, LinkStep, TypeCorrect, WritingCorrect, PTL DEF Spec

-----------------------------------------------------------------------------
(* Once per event. *)

\* An event is to be looked at, being written about, or done with; a guest who
\* was written to is one the rest of the round does not come back to.
OnceInv ==
    /\ todo \cap sent = {} /\ current \notin todo \cup sent
    /\ \A e \in Event, p \in Person :
          /\ attempts[<<e, p>>] <= 1
          /\ attempts[<<e, p>>] > 0 => e \in sent \/ (e = current /\ p \notin to)

LEMMA OnceStep == TypeOK /\ Writing /\ OnceInv /\ [Next]_vars => OnceInv'
<1> SUFFICES ASSUME TypeOK, Writing, OnceInv, [Next]_vars PROVE OnceInv'
  OBVIOUS
<1> USE DeskAssumption DEF DeskAssumption
<1>1. attempts \in [Pair -> Nat] /\ None \notin Event /\ sent \subseteq Event
  BY DEF TypeOK
<1>2. CASE UNCHANGED mails
  BY <1>2 DEF OnceInv
<1>3. CASE Restart
  BY <1>3 DEF Restart, OnceInv
<1>4. CASE BeginRound
  <2>1. todo' \cap sent = {} /\ todo' \subseteq Event
    BY <1>4 DEF BeginRound, Listings, Upcoming
  <2>2. current = None /\ UNCHANGED <<sent, current, to, attempts>>
    BY <1>4 DEF BeginRound, Idle
  <2>3. QED
    BY <1>1, <2>1, <2>2 DEF OnceInv
<1>4a. CASE \E e \in Event : SkipEvent(e)
  BY <1>4a DEF SkipEvent, OnceInv
<1>5. ASSUME NEW e \in Event, TakeEvent(e) PROVE OnceInv'
  <2>1. /\ current = None /\ e \in todo /\ todo' = todo \ {e} /\ e \notin sent
        /\ UNCHANGED attempts /\ e # None
    BY <1>1, <1>5 DEF TakeEvent, OnceInv
  <2>2. \A p \in Person : attempts[<<e, p>>] = 0
    BY <1>1, <2>1 DEF OnceInv
  <2>3. \/ current' = None /\ sent' = sent \cup {e}
        \/ current' = e /\ sent' = sent
    BY <1>5 DEF TakeEvent
  <2>4. todo' \cap sent' = {} /\ current' \notin todo' \cup sent'
    BY <1>1, <2>1, <2>3 DEF OnceInv, TypeOK
  <2>5. ASSUME NEW f \in Event, NEW p \in Person
        PROVE  /\ attempts'[<<f, p>>] <= 1
               /\ attempts'[<<f, p>>] > 0 => f \in sent' \/ (f = current' /\ p \notin to')
    <3>1. CASE f = e
      BY <2>1, <2>2, <3>1
    <3>2. CASE f # e
      BY <1>1, <2>1, <2>3, <3>2 DEF OnceInv
    <3>3. QED
      BY <3>1, <3>2
  <2>6. QED
    BY <2>4, <2>5 DEF OnceInv
<1>6. ASSUME NEW q \in Person, Remind(q) PROVE OnceInv'
  <2>1. /\ q \in to /\ current \in Event /\ to' = to \ {q}
        /\ attempts' = [attempts EXCEPT ![<<current, q>>] = attempts[<<current, q>>] + 1]
        /\ UNCHANGED <<sent, todo, current>>
    BY <1>6 DEF Remind, Writing, TypeOK
  <2>2. attempts[<<current, q>>] = 0
    BY <1>1, <2>1 DEF OnceInv
  <2>3. ASSUME NEW f \in Event, NEW p \in Person
        PROVE  /\ attempts'[<<f, p>>] <= 1
               /\ attempts'[<<f, p>>] > 0 => f \in sent' \/ (f = current' /\ p \notin to')
    <3>1. CASE f = current /\ p = q
      <4>1. attempts'[<<f, p>>] = 1
        BY <1>1, <2>1, <2>2, <3>1
      <4>2. QED
        BY <2>1, <3>1, <4>1
    <3>2. CASE ~(f = current /\ p = q)
      <4>1. attempts'[<<f, p>>] = attempts[<<f, p>>]
        BY <1>1, <2>1, <3>2
      <4>2. QED
        BY <2>1, <4>1 DEF OnceInv
    <3>3. QED
      BY <3>1, <3>2
  <2>4. QED
    BY <2>1, <2>3 DEF OnceInv
<1>7. CASE FinishEvent
  <2>1. /\ current # None /\ to = {} /\ sent' = sent \cup {current} /\ current' = None
        /\ UNCHANGED <<todo, to, attempts>>
    BY <1>7 DEF FinishEvent
  <2>2. None \notin todo' \cup sent'
    BY <1>1, <2>1 DEF TypeOK
  <2>3. QED
    BY <1>1, <2>1, <2>2 DEF OnceInv
<1>8. QED
  <2>1. Organize => UNCHANGED mails
    BY OrganizerType
  <2>2. Visit => UNCHANGED mails
    BY VisitType
  <2>3. LoseRound \/ Clock \/ ClockLate \/ UNCHANGED vars => UNCHANGED mails
    BY DEF LoseRound, Clock, ClockLate, Tick, vars
  <2>4. QED
    BY <1>2, <1>3, <1>4, <1>4a, <1>5, <1>6, <1>7, <2>1, <2>2, <2>3, Actors DEF Schedule

LEMMA OnceCorrect == Spec => []OnceInv
<1>1. Init => OnceInv
  BY DeskAssumption DEF DeskAssumption, Init, OnceInv
<1>2. QED
  BY <1>1, OnceStep, TypeCorrect, WritingCorrect, PTL DEF Spec

\* One life of the process writes to a guest about an event at most once,
\* whatever was cancelled, replaced or rescheduled between the rounds
\* (sendReminders).
THEOREM OncePerLife == Spec => []RemindedOnce
<1>1. TypeOK /\ OnceInv => RemindedOnce
  BY DEF OnceInv, RemindedOnce
<1>2. QED
  BY <1>1, OnceCorrect, TypeCorrect, PTL DEF Spec

-----------------------------------------------------------------------------
(* Nobody is missed.  Whatever goes wrong with the scheduler costs at most   *)
(* the time between two rounds: the window is wide enough to pay for it.     *)

Cost(k) == k * Interval
Left == MaxFaults - faults

WideWindow == Cost(MaxFaults) + 2 * (Interval - 1) <= Far - Near

\* The next round is at most one beat away.
TimeInv == due <= now + Interval

\* The next round, and the one under way, end before the event's window closes
\* even if everything goes wrong that may.
Ahead(s) == now + (Interval - 1) + Near + Cost(Left) <= s /\ due + (Interval - 1) + Near + Cost(Left) <= s
Within(s) == now + Near + Cost(Left) <= s /\ (due - 1) + Near + Cost(Left) <= s

\* Where a guest who is owed a reminder stands.
Stands(x) ==
    \/ x \in reached
    \/ x[1] \in todo /\ Within(cache[x[1]].starts)
    \/ x[1] = current /\ x[2] \in to /\ Within(cache[x[1]].starts)
    \/ Fresh(x[1]) /\ Ahead(cache[x[1]].starts)

OwedInv ==
    \A x \in owed :
        x[2] \in Confirmed(x[1]) /\ SurelyListed(x[1]) /\ Stands(x)

\* A guest's event that is surely listed is in whatever the round looks at.
LEMMA SurelyLooked ==
    ASSUME TypeOK, NEW e \in Event, SurelyListed(e), NEW L \in Listings
    PROVE  e \in L
<1> DEFINE Earlier == {f \in Upcoming : cache[f].starts <= cache[e].starts}
<1>1. IsFiniteSet(Upcoming) /\ Upcoming \subseteq Event
  BY DeskAssumption, FS_Subset DEF DeskAssumption, Upcoming
<1>2. /\ e \in Upcoming /\ e \in Earlier
      /\ Cardinality(Earlier) <= ListLimit /\ IsFiniteSet(Earlier)
  <2>1. e \in Upcoming /\ Cardinality(Earlier) <= ListLimit
    BY DEF SurelyListed
  <2>2. cache[e] \in Row
    BY <2>1 DEF Upcoming, TypeOK
  <2>3. cache[e].starts <= cache[e].starts
    BY <2>2 DEF Row
  <2>4. IsFiniteSet(Earlier)
    BY <1>1, FS_Subset
  <2>5. QED
    BY <2>1, <2>3, <2>4
<1>3. /\ L \subseteq Upcoming
      /\ Cardinality(L) = IF Cardinality(Upcoming) < ListLimit
                          THEN Cardinality(Upcoming) ELSE ListLimit
      /\ \A f \in L, g \in Upcoming \ L : cache[f].starts <= cache[g].starts
  BY DEF Listings
<1>4. SUFFICES ASSUME e \notin L PROVE FALSE
  OBVIOUS
<1>5. L \subseteq Earlier \ {e}
  BY <1>2, <1>3, <1>4
<1>6. IsFiniteSet(Earlier \ {e}) /\ Cardinality(Earlier \ {e}) = Cardinality(Earlier) - 1
  BY <1>2, FS_RemoveElement
<1>7. Cardinality(L) <= Cardinality(Earlier) - 1
  BY <1>5, <1>6, FS_Subset
<1>8. IsFiniteSet(L) /\ Cardinality(L) \in Nat /\ Cardinality(Upcoming) \in Nat
      /\ Cardinality(Earlier) \in Nat /\ ListLimit \in Nat
  BY <1>1, <1>2, <1>3, FS_Subset, FS_CardinalityType, DeskAssumption DEF DeskAssumption
<1>9. Cardinality(L) = Cardinality(Upcoming)
  <2> HIDE DEF Earlier
  <2>1. QED
    BY <1>2, <1>3, <1>7, <1>8
<1>10. L = Upcoming
  BY <1>1, <1>3, <1>9, FS_Subset
<1>11. QED
  BY <1>2, <1>4, <1>10

-----------------------------------------------------------------------------
(* What one fault costs. *)

LEMMA Numbers ==
    ASSUME TypeOK
    PROVE  /\ now \in Nat /\ due \in Nat /\ faults \in 0 .. MaxFaults
           /\ Near \in Nat /\ Far \in Nat /\ Interval \in Nat /\ Interval - 1 \in Nat
           /\ MaxFaults \in Nat
BY DeskAssumption DEF DeskAssumption, TypeOK

LEMMA CostNat ==
    ASSUME NEW k \in Nat
    PROVE  /\ Cost(k) \in Nat /\ Interval \in Nat /\ Cost(k + 1) = Cost(k) + Interval
BY DeskAssumption DEF DeskAssumption, Cost

LEMMA CostMonotone ==
    ASSUME NEW k \in Nat, NEW m \in Nat, k <= m
    PROVE  Cost(k) <= Cost(m)
<1>1. Interval \in Nat
  BY DeskAssumption DEF DeskAssumption
<1>2. PICK d \in Nat : m = k + d
  <2>1. m - k \in Nat /\ m = k + (m - k)
    OBVIOUS
  <2>2. QED
    BY <2>1
<1>3. \A i \in Nat : (k + d) * i = k * i + d * i /\ k * i \in Nat /\ d * i \in Nat
  OBVIOUS
<1>4. QED
  BY <1>1, <1>2, <1>3 DEF Cost

\* What the faults left may cost.
LEMMA CostLeft ==
    ASSUME TypeOK
    PROVE  /\ Cost(Left) \in Nat
           /\ Cost(Left) <= Cost(MaxFaults) /\ Cost(MaxFaults) \in Nat
<1>1. Left \in Nat /\ MaxFaults \in Nat /\ Left <= MaxFaults
  BY Numbers DEF Left
<1>2. QED
  BY <1>1, CostNat, CostMonotone

LEMMA FaultPaid ==
    ASSUME TypeOK, Fault
    PROVE  Cost(Left') \in Nat /\ Cost(Left) = Cost(Left') + Interval
<1>1. faults \in 0 .. MaxFaults /\ MaxFaults \in Nat /\ faults' = faults + 1 /\ faults < MaxFaults
  BY Numbers DEF Fault
<1>2. Left' \in Nat /\ Left = Left' + 1
  BY <1>1 DEF Left
<1>3. QED
  BY <1>2, CostNat

LEMMA TimeStep == TypeOK /\ TimeInv /\ [Next]_vars => TimeInv'
<1> SUFFICES ASSUME TypeOK, TimeInv, [Next]_vars PROVE TimeInv'
  OBVIOUS
<1>1. now \in Nat /\ due \in Nat /\ Interval \in Nat
  BY Numbers
<1>2. CASE UNCHANGED <<now, due>>
  BY <1>2 DEF TimeInv
<1>3. CASE Restart
  BY <1>1, <1>3 DEF Restart, TimeInv
<1>4. CASE BeginRound \/ LoseRound
  <2>1. due' \in NextBeat /\ now' = now
    BY <1>4 DEF BeginRound, LoseRound
  <2>2. \A t \in NextBeat : t <= now + Interval
    BY <1>1 DEF NextBeat
  <2>3. QED
    BY <2>1, <2>2 DEF TimeInv
<1>5. CASE Clock \/ ClockLate
  BY <1>1, <1>5 DEF Clock, ClockLate, Tick, TimeInv
<1>6. QED
  <2>1. Organize => UNCHANGED <<now, due>>
    BY OrganizerType
  <2>2. Visit => UNCHANGED <<now, due>>
    BY VisitType
  <2>3. (\E e \in Event : TakeEvent(e) \/ SkipEvent(e)) => UNCHANGED <<now, due>>
    BY DEF TakeEvent, SkipEvent
  <2>4. (\E p \in Person : Remind(p)) \/ FinishEvent \/ UNCHANGED vars => UNCHANGED <<now, due>>
    BY DEF Remind, FinishEvent, vars
  <2>5. QED
    BY <1>2, <1>3, <1>4, <1>5, <2>1, <2>2, <2>3, <2>4, Actors DEF Schedule

LEMMA TimeCorrect == Spec => []TimeInv
<1>1. Init => TimeInv
  BY DeskAssumption DEF DeskAssumption, Init, TimeInv
<1>2. QED
  BY <1>1, TimeStep, TypeCorrect, PTL DEF Spec

-----------------------------------------------------------------------------
(* The start of an event, against the clock. *)

\* A start beyond the window is ahead, whatever may go wrong.
LEMMA BeyondIsAhead ==
    ASSUME TypeOK, TypeOK', WideWindow, TimeInv', NEW s \in Nat, s > now' + Far
    PROVE  Ahead(s)'
<1>1. PICK n, t, f : n = now' /\ t = due' /\ f = faults'
  OBVIOUS
<1>2. n \in Nat /\ t \in Nat /\ f \in 0 .. MaxFaults /\ t <= n + Interval /\ s > n + Far
  BY <1>1 DEF TypeOK, TimeInv
<1>3. PICK c : c = Cost(MaxFaults - f)
  OBVIOUS
<1>4. PICK m : m = Cost(MaxFaults)
  OBVIOUS
<1>5. c \in Nat /\ m \in Nat /\ c <= m
  <2>1. MaxFaults - f \in Nat /\ MaxFaults \in Nat /\ MaxFaults - f <= MaxFaults
    BY <1>2, Numbers
  <2>2. QED
    BY <1>3, <1>4, <2>1, CostNat, CostMonotone
<1>6. m + 2 * (Interval - 1) <= Far - Near
  BY <1>4 DEF WideWindow
<1>7. /\ n + (Interval - 1) + Near + c <= s
      /\ t + (Interval - 1) + Near + c <= s
  BY <1>2, <1>5, <1>6, Numbers
<1>8. QED
  BY <1>1, <1>3, <1>7 DEF Ahead, Left

LEMMA RestartTime ==
    ASSUME TypeOK, Restart, NEW s \in Nat, Ahead(s) \/ Within(s)
    PROVE  Ahead(s)'
<1>1. PICK c : c = Cost(Left)
  OBVIOUS
<1>2. PICK d : d = Cost(Left')
  OBVIOUS
<1>3. /\ c \in Nat /\ d \in Nat /\ c = d + Interval /\ now' = now /\ due' = now
  BY <1>1, <1>2, CostLeft, FaultPaid DEF Restart
<1>4. now + Near + c <= s
  <2>1. CASE Ahead(s)
    BY <1>1, <1>3, <2>1, Numbers DEF Ahead
  <2>2. CASE Within(s)
    BY <1>1, <2>2 DEF Within
  <2>3. QED
    BY <2>1, <2>2
<1>5. now + (Interval - 1) + Near + d <= s
  BY <1>3, <1>4, Numbers
<1>6. QED
  BY <1>2, <1>3, <1>5 DEF Ahead

LEMMA LoseRoundTime ==
    ASSUME TypeOK, LoseRound, TimeInv', NEW s \in Nat, Ahead(s)
    PROVE  Ahead(s)'
<1>1. PICK c : c = Cost(Left)
  OBVIOUS
<1>2. PICK d : d = Cost(Left')
  OBVIOUS
<1>3. PICK t : t = due'
  OBVIOUS
<1>4. /\ c \in Nat /\ d \in Nat /\ c = d + Interval /\ now' = now
      /\ t \in Nat /\ t <= now + Interval
  <2>1. t \in Nat
    BY <1>3, BeatType DEF LoseRound
  <2>2. now' = now /\ t <= now + Interval
    BY <1>3 DEF LoseRound, TimeInv
  <2>3. QED
    BY <1>1, <1>2, <2>1, <2>2, CostLeft, FaultPaid DEF LoseRound
<1>5. now + (Interval - 1) + Near + c <= s
  BY <1>1 DEF Ahead
<1>6. /\ now + (Interval - 1) + Near + d <= s
      /\ t + (Interval - 1) + Near + d <= s
  BY <1>4, <1>5, Numbers
<1>7. QED
  BY <1>2, <1>3, <1>4, <1>6 DEF Ahead

LEMMA SkipTime ==
    ASSUME TypeOK, Fault, UNCHANGED <<now, due>>, NEW s \in Nat
    PROVE  /\ Ahead(s) => Ahead(s)'
           /\ Within(s) => Ahead(s)' /\ Within(s)'
<1>1. PICK c : c = Cost(Left)
  OBVIOUS
<1>2. PICK d : d = Cost(Left')
  OBVIOUS
<1>3. c \in Nat /\ d \in Nat /\ c = d + Interval
  BY <1>1, <1>2, CostLeft, FaultPaid
<1>4. ASSUME Ahead(s) PROVE Ahead(s)'
  <2>1. now + (Interval - 1) + Near + c <= s /\ due + (Interval - 1) + Near + c <= s
    BY <1>1, <1>4 DEF Ahead
  <2>2. now + (Interval - 1) + Near + d <= s /\ due + (Interval - 1) + Near + d <= s
    BY <1>3, <2>1, Numbers
  <2>3. QED
    BY <1>2, <2>2 DEF Ahead
<1>5. ASSUME Within(s) PROVE Ahead(s)' /\ Within(s)'
  <2>1. now + Near + c <= s /\ (due - 1) + Near + c <= s
    BY <1>1, <1>5 DEF Within
  <2>2. now + (Interval - 1) + Near + d <= s /\ due + (Interval - 1) + Near + d <= s
    BY <1>3, <2>1, Numbers
  <2>3. now + Near + d <= s /\ (due - 1) + Near + d <= s
    BY <1>3, <2>1, Numbers
  <2>4. QED
    BY <1>2, <2>2, <2>3 DEF Ahead, Within
<1>6. QED
  BY <1>4, <1>5

\* While a round is under way the clock moves up to its end, or is late.
LEMMA ClockTime ==
    ASSUME TypeOK, Clock \/ ClockLate, NEW s \in Nat
    PROVE  /\ Ahead(s) => Ahead(s)'
           /\ ~Idle /\ Within(s) => Within(s)'
<1>1. PICK c : c = Cost(Left)
  OBVIOUS
<1>2. PICK d : d = Cost(Left')
  OBVIOUS
<1>3. now' = now + 1 /\ due' = due /\ Interval \in Nat \ {0}
  BY DeskAssumption DEF DeskAssumption, Clock, ClockLate, Tick
<1>4. CASE Clock
  <2>1. c \in Nat /\ d = c /\ now < due /\ (Idle \/ now + 1 < due)
    BY <1>1, <1>2, <1>4, CostLeft, Numbers DEF Clock, OnTime, Left
  <2>2. ASSUME Ahead(s) PROVE Ahead(s)'
    <3>1. due + (Interval - 1) + Near + c <= s
      BY <1>1, <2>2 DEF Ahead
    <3>2. now + 1 + (Interval - 1) + Near + d <= s /\ due + (Interval - 1) + Near + d <= s
      BY <2>1, <3>1, Numbers
    <3>3. QED
      BY <1>2, <1>3, <3>2 DEF Ahead
  <2>3. ASSUME ~Idle, Within(s) PROVE Within(s)'
    <3>1. (due - 1) + Near + c <= s
      BY <1>1, <2>3 DEF Within
    <3>2. now + 1 + Near + d <= s /\ (due - 1) + Near + d <= s
      BY <2>1, <2>3, <3>1, Numbers
    <3>3. QED
      BY <1>2, <1>3, <3>2 DEF Within
  <2>4. QED
    BY <2>2, <2>3
<1>5. CASE ClockLate
  <2>1. c \in Nat /\ d \in Nat /\ c = d + Interval
    BY <1>1, <1>2, <1>5, CostLeft, FaultPaid DEF ClockLate
  <2>2. ASSUME Ahead(s) PROVE Ahead(s)'
    <3>1. now + (Interval - 1) + Near + c <= s /\ due + (Interval - 1) + Near + c <= s
      BY <1>1, <2>2 DEF Ahead
    <3>2. now + 1 + (Interval - 1) + Near + d <= s /\ due + (Interval - 1) + Near + d <= s
      BY <1>3, <2>1, <3>1, Numbers
    <3>3. QED
      BY <1>2, <1>3, <3>2 DEF Ahead
  <2>3. ASSUME Within(s) PROVE Within(s)'
    <3>1. now + Near + c <= s /\ (due - 1) + Near + c <= s
      BY <1>1, <2>3 DEF Within
    <3>2. now + 1 + Near + d <= s /\ (due - 1) + Near + d <= s
      BY <1>3, <2>1, <3>1, Numbers
    <3>3. QED
      BY <1>2, <1>3, <3>2 DEF Within
  <2>4. QED
    BY <2>2, <2>3
<1>6. QED
  BY <1>4, <1>5

LEMMA RoundTime ==
    ASSUME TypeOK, BeginRound, TimeInv', NEW s \in Nat, Ahead(s)
    PROVE  Within(s)'
<1>1. PICK c : c = Cost(Left)
  OBVIOUS
<1>2. PICK t : t = due'
  OBVIOUS
<1>3. c \in Nat /\ now' = now /\ Left' = Left /\ t \in Nat /\ t <= now + Interval
  <2>1. t \in Nat
    BY <1>2, BeatType DEF BeginRound
  <2>2. now' = now /\ Left' = Left /\ t <= now + Interval
    BY <1>2 DEF BeginRound, Left, TimeInv
  <2>3. QED
    BY <1>1, <2>1, <2>2, CostLeft
<1>4. now + (Interval - 1) + Near + c <= s
  BY <1>1 DEF Ahead
<1>5. now + Near + c <= s /\ (t - 1) + Near + c <= s
  BY <1>3, <1>4, Numbers
<1>6. QED
  BY <1>1, <1>2, <1>3, <1>5 DEF Within

LEMMA InTime ==
    ASSUME TypeOK, NEW s \in Nat, Ahead(s) \/ Within(s)
    PROVE  now + Near <= s
<1>1. PICK c : c = Cost(Left)
  OBVIOUS
<1>2. c \in Nat
  BY <1>1, CostLeft
<1>3. \/ now + (Interval - 1) + Near + c <= s
      \/ now + Near + c <= s
  BY <1>1 DEF Ahead, Within
<1>4. QED
  BY <1>2, <1>3, Numbers

-----------------------------------------------------------------------------
(* Where a guest who is owed a reminder stands, step by step. *)

\* Whatever moves the clock or the round: a guest reached stays reached.
LEMMA RestartStands ==
    ASSUME TypeOK, Restart, NEW x \in Pair, Stands(x),
           cache[x[1]] \in Row, cache'[x[1]] = cache[x[1]]
    PROVE  Stands(x)'
<1>1. PICK s : s = cache[x[1]].starts
  OBVIOUS
<1>2. s \in Nat /\ x[1] \in Event /\ None \notin Event
  BY <1>1, DeskAssumption DEF DeskAssumption, Row
<1>3. Fresh(x[1])' /\ reached' = reached
  BY <1>2 DEF Restart, Fresh
<1>4. CASE x \in reached
  BY <1>3, <1>4 DEF Stands
<1>5. CASE Ahead(s) \/ Within(s)
  <2>1. Ahead(s)'
    BY <1>2, <1>5, RestartTime
  <2>2. QED
    BY <1>1, <1>3, <2>1 DEF Stands, Ahead
<1>6. QED
  BY <1>1, <1>4, <1>5 DEF Stands

\* A round finds the event in its window, or before it with time to spare.
LEMMA BeginRoundStands ==
    ASSUME TypeOK, TypeOK', TimeInv', WideWindow, BeginRound, NEW x \in Pair, Stands(x),
           SurelyListed(x[1]), cache[x[1]] \in Row
    PROVE  Stands(x)'
<1>1. PICK s : s = cache[x[1]].starts
  OBVIOUS
<1>2. s \in Nat /\ x[1] \in Event /\ None \notin Event
  BY <1>1, DeskAssumption DEF DeskAssumption, Row
<1>3. /\ todo = {} /\ current = None /\ now' = now /\ cache'[x[1]].starts = s
      /\ UNCHANGED <<sent, current, to, reached>>
  BY <1>1 DEF BeginRound, Idle
<1>4. PICK L \in Listings : todo' = {e \in L : InWindow(cache[e].starts)} \ sent
  BY DEF BeginRound
<1>5. CASE x \in reached
  BY <1>3, <1>5 DEF Stands
<1>6. CASE Fresh(x[1]) /\ Ahead(s)
  <2>1. x[1] \in L /\ x[1] \notin sent
    BY <1>6, SurelyLooked DEF Fresh
  <2>2. CASE InWindow(s)
    <3>1. x[1] \in todo'
      BY <1>1, <1>4, <2>1, <2>2
    <3>2. Within(s)'
      BY <1>2, <1>6, RoundTime
    <3>3. QED
      BY <1>3, <3>1, <3>2 DEF Stands, Within
  <2>3. CASE ~InWindow(s)
    <3>1. now + Near <= s
      BY <1>2, <1>6, InTime
    <3>2. s > now' + Far
      BY <1>2, <1>3, <2>3, <3>1, Numbers DEF InWindow
    <3>3. Ahead(s)'
      BY <1>2, <3>2, BeyondIsAhead
    <3>4. Fresh(x[1])'
      BY <1>1, <1>2, <1>3, <1>4, <2>1, <2>3 DEF Fresh
    <3>5. QED
      BY <1>3, <3>3, <3>4 DEF Stands, Ahead
  <2>4. QED
    BY <2>2, <2>3
<1>7. QED
  BY <1>1, <1>2, <1>3, <1>5, <1>6 DEF Stands

\* A round or an event given up, and the clock, leave a guest where time allows.
LEMMA FaultStands ==
    ASSUME TypeOK, OnceInv, TimeInv', NEW x \in Pair, Stands(x), cache[x[1]] \in Row,
           LoseRound \/ (\E e \in Event : SkipEvent(e)) \/ Clock \/ ClockLate
    PROVE  Stands(x)'
<1>1. PICK s : s = cache[x[1]].starts
  OBVIOUS
<1>2. s \in Nat /\ x[1] \in Event /\ None \notin Event
  BY <1>1, DeskAssumption DEF DeskAssumption, Row
<1>3. CASE LoseRound
  <2>1. /\ todo = {} /\ current = None /\ cache'[x[1]].starts = s
        /\ UNCHANGED <<sent, todo, current, to, reached>>
    BY <1>1, <1>3 DEF LoseRound, Idle
  <2>2. Fresh(x[1])' <=> Fresh(x[1])
    BY <2>1 DEF Fresh
  <2>3. Ahead(s) => Ahead(s)'
    BY <1>2, <1>3, LoseRoundTime
  <2>4. QED
    BY <1>1, <1>2, <2>1, <2>2, <2>3 DEF Stands, Ahead
<1>4. CASE \E e \in Event : SkipEvent(e)
  <2>1. PICK e \in Event : SkipEvent(e)
    BY <1>4
  <2>2. /\ Fault /\ e \in todo /\ current = None /\ todo' = todo \ {e}
        /\ cache'[x[1]].starts = s
        /\ UNCHANGED <<sent, current, to, reached, now, due>>
    BY <1>1, <2>1 DEF SkipEvent
  <2>3. (Ahead(s) => Ahead(s)') /\ (Within(s) => Ahead(s)' /\ Within(s)')
    BY <1>2, <2>2, SkipTime
  <2>4. CASE x \in reached
    BY <2>2, <2>4 DEF Stands
  <2>5. CASE Fresh(x[1]) /\ Ahead(s)
    <3>1. Fresh(x[1])'
      BY <2>2, <2>5 DEF Fresh
    <3>2. QED
      BY <2>2, <2>3, <2>5, <3>1 DEF Stands, Ahead
  <2>6. CASE x[1] \in todo /\ Within(s)
    <3>1. x[1] \notin sent
      BY <2>6 DEF OnceInv
    <3>2. CASE x[1] \in todo'
      BY <2>2, <2>3, <2>6, <3>2 DEF Stands, Within
    <3>3. CASE x[1] \notin todo'
      <4>1. Fresh(x[1])'
        BY <1>2, <2>2, <3>1, <3>3 DEF Fresh
      <4>2. QED
        BY <2>2, <2>3, <2>6, <4>1 DEF Stands, Ahead
    <3>4. QED
      BY <3>2, <3>3
  <2>7. QED
    BY <1>1, <1>2, <2>2, <2>4, <2>5, <2>6 DEF Stands
<1>5. CASE Clock \/ ClockLate
  <2>1. UNCHANGED mails /\ cache'[x[1]].starts = s
    BY <1>1, <1>5 DEF Clock, ClockLate, Tick
  <2>2. (Ahead(s) => Ahead(s)') /\ (~Idle /\ Within(s) => Within(s)')
    BY <1>2, <1>5, ClockTime
  <2>3. Fresh(x[1])' <=> Fresh(x[1])
    BY <2>1 DEF Fresh
  <2>4. x[1] \in todo \/ x[1] = current => ~Idle
    BY <1>2 DEF Idle
  <2>5. \/ x \in reached'
        \/ x[1] \in todo' /\ Within(s)'
        \/ x[1] = current' /\ x[2] \in to' /\ Within(s)'
        \/ Fresh(x[1])' /\ Ahead(s)'
    BY <1>1, <2>1, <2>2, <2>3, <2>4 DEF Stands
  <2>6. QED
    BY <2>1, <2>5 DEF Stands, Within, Ahead
<1>6. QED
  BY <1>3, <1>4, <1>5

\* Within a round the guest moves from "todo" to "to" to "reached".
LEMMA RoundStands ==
    ASSUME TypeOK, Writing, NEW x \in Pair, Stands(x), x[2] \in Confirmed(x[1]),
           \/ \E e \in Event : TakeEvent(e)
           \/ \E p \in Person : Remind(p)
           \/ FinishEvent
    PROVE  Stands(x)'
<1> DEFINE s == cache[x[1]].starts
<1>1. x[1] \in Event /\ None \notin Event /\ x[2] \in Person /\ x = <<x[1], x[2]>>
  BY DeskAssumption DEF DeskAssumption
<1>2. UNCHANGED <<books, time>> /\ reached \subseteq reached'
  BY DEF TakeEvent, Remind, FinishEvent
<1>3. (Within(s)' <=> Within(s)) /\ (Ahead(s)' <=> Ahead(s)) /\ cache' = cache
  BY <1>2 DEF Within, Ahead, Left
<1>4. \/ x \in reached'
      \/ x[1] \in todo' /\ Within(s)
      \/ x[1] = current' /\ x[2] \in to' /\ Within(s)
      \/ Fresh(x[1])' /\ Ahead(s)
  <2> HIDE DEF s
  <2>0. \/ x \in reached
        \/ x[1] \in todo /\ Within(s)
        \/ x[1] = current /\ x[2] \in to /\ Within(s)
        \/ Fresh(x[1]) /\ Ahead(s)
    BY DEF Stands, s
  <2>1. ASSUME NEW e \in Event, TakeEvent(e)
        PROVE  \/ x \in reached'
               \/ x[1] \in todo' /\ Within(s)
               \/ x[1] = current' /\ x[2] \in to' /\ Within(s)
               \/ Fresh(x[1])' /\ Ahead(s)
    <3>1. current = None /\ e \in todo /\ todo' = todo \ {e} /\ to' = Confirmed(e)
      BY <2>1 DEF TakeEvent
    <3>2. CASE x[1] = e
      <4>1. Confirmed(e) # {} /\ x[2] \in to'
        BY <3>1, <3>2
      <4>2. current' = e
        BY <2>1, <4>1 DEF TakeEvent
      <4>3. ~Fresh(x[1])
        BY <3>1, <3>2 DEF Fresh
      <4>4. QED
        BY <1>1, <1>2, <2>0, <3>1, <3>2, <4>1, <4>2, <4>3
    <3>3. CASE x[1] # e
      <4>1. Fresh(x[1]) => Fresh(x[1])'
        BY <1>1, <2>1, <3>3 DEF TakeEvent, Fresh
      <4>2. QED
        BY <1>1, <1>2, <2>0, <3>1, <3>3, <4>1
    <3>4. QED
      BY <3>2, <3>3
  <2>2. ASSUME NEW p \in Person, Remind(p)
        PROVE  \/ x \in reached'
               \/ x[1] \in todo' /\ Within(s)
               \/ x[1] = current' /\ x[2] \in to' /\ Within(s)
               \/ Fresh(x[1])' /\ Ahead(s)
    <3>1. /\ to' = to \ {p} /\ reached' = reached \cup {<<current, p>>}
          /\ UNCHANGED <<sent, todo, current>>
      BY <2>2 DEF Remind
    <3>2. Fresh(x[1])' <=> Fresh(x[1])
      BY <3>1 DEF Fresh
    <3>3. CASE x[1] = current /\ x[2] = p
      BY <1>1, <3>1, <3>3
    <3>4. CASE ~(x[1] = current /\ x[2] = p)
      BY <1>2, <2>0, <3>1, <3>2, <3>4
    <3>5. QED
      BY <3>3, <3>4
  <2>3. CASE FinishEvent
    <3>1. /\ to = {} /\ sent' = sent \cup {current} /\ current' = None
          /\ UNCHANGED todo
      BY <2>3 DEF FinishEvent
    <3>2. Fresh(x[1]) => Fresh(x[1])'
      BY <1>1, <3>1 DEF Fresh
    <3>3. QED
      BY <1>2, <2>0, <3>1, <3>2
  <2>4. QED
    BY <2>1, <2>2, <2>3
<1>5. QED
  BY <1>3, <1>4 DEF Stands, Within, Ahead

\* Steps that leave the scheduler alone.
LEMMA IdleStands ==
    ASSUME NEW x \in Pair, Stands(x), cache'[x[1]] = cache[x[1]],
           UNCHANGED <<mails, now, due, faults>>
    PROVE  Stands(x)'
BY DEF Stands, Within, Ahead, Left, Fresh

LEMMA OwedStep ==
    ASSUME WideWindow
    PROVE  /\ TypeOK /\ TypeOK' /\ Writing /\ OnceInv /\ TimeInv' /\ OwedInv /\ [Next]_vars
           => OwedInv'
<1> SUFFICES ASSUME TypeOK, TypeOK', Writing, OnceInv, TimeInv', OwedInv, [Next]_vars,
                    NEW x \in owed'
             PROVE  /\ (x[2] \in Confirmed(x[1]) /\ SurelyListed(x[1]))'
                    /\ Stands(x)'
  BY DEF OwedInv
<1>1. x \in Pair /\ x[1] \in Event
  BY DEF TypeOK
<1>2. CASE UNCHANGED vars
  <2>1. x \in owed /\ UNCHANGED <<mails, due, faults, cache, rsvp, now>>
    BY <1>2 DEF vars
  <2>2. x[2] \in Confirmed(x[1]) /\ SurelyListed(x[1]) /\ Stands(x)
    BY <2>1 DEF OwedInv
  <2>3. Stands(x)'
    BY <1>1, <2>1, <2>2, IdleStands
  <2>4. QED
    BY <2>1, <2>2, <2>3 DEF Confirmed, SurelyListed, Upcoming
<1>3. CASE Next
  <2>1. /\ (x[2] \in Confirmed(x[1]) /\ SurelyListed(x[1]))'
        /\ \/ x \in owed /\ cache'[x[1]] = cache[x[1]]
           \/ (Fresh(x[1]) /\ cache[x[1]].starts > now + Far)'
    BY <1>3, Actors DEF Record
  <2>2. CASE (Fresh(x[1]) /\ cache[x[1]].starts > now + Far)'
    <3>1. PICK s : s = cache'[x[1]].starts
      OBVIOUS
    <3>2. cache'[x[1]] \in Row
      BY <1>1, <2>1 DEF SurelyListed, Upcoming, TypeOK
    <3>3. s \in Nat /\ s > now' + Far
      BY <2>2, <3>1, <3>2 DEF Row
    <3>4. Ahead(s)'
      BY <3>3, BeyondIsAhead
    <3>5. QED
      BY <2>1, <2>2, <3>1, <3>4 DEF Stands, Ahead
  <2>3. CASE x \in owed /\ cache'[x[1]] = cache[x[1]]
    <3>1. x[2] \in Confirmed(x[1]) /\ SurelyListed(x[1]) /\ Stands(x)
      BY <2>3 DEF OwedInv
    <3>2. cache[x[1]] \in Row
      BY <1>1, <3>1 DEF SurelyListed, Upcoming, TypeOK
    <3>3. ASSUME Restart PROVE Stands(x)'
      BY <1>1, <2>3, <3>1, <3>2, <3>3, RestartStands
    <3>4. ASSUME BeginRound PROVE Stands(x)'
      BY <1>1, <3>1, <3>2, <3>4, BeginRoundStands
    <3>5. ASSUME \/ \E e \in Event : TakeEvent(e)
                 \/ \E p \in Person : Remind(p)
                 \/ FinishEvent
          PROVE  Stands(x)'
      BY <1>1, <3>1, <3>5, RoundStands
    <3>6. ASSUME LoseRound \/ (\E e \in Event : SkipEvent(e)) \/ Clock \/ ClockLate
          PROVE  Stands(x)'
      BY <1>1, <3>1, <3>2, <3>6, FaultStands
    <3>7. ASSUME Organize \/ Visit PROVE Stands(x)'
      <4>1. UNCHANGED <<mails, now, due, faults>>
        BY <3>7, OrganizerType, VisitType
      <4>2. QED
        BY <1>1, <2>3, <3>1, <4>1, IdleStands
    <3>8. Stands(x)'
      BY <1>3, <3>3, <3>4, <3>5, <3>6, <3>7, Actors DEF Schedule
    <3>9. QED
      BY <2>1, <3>8
  <2>4. QED
    BY <2>1, <2>2, <2>3
<1>4. QED
  BY <1>2, <1>3

\* When the window is wide enough for all that may go wrong (restarts, failed
\* listings, events skipped, a scheduler that is late), a guest who was
\* confirmed before it opened, and stayed so while the event stayed as it was
\* and among the ones surely listed, has been written to when it closes
\* (sendReminders).
THEOREM EveryoneReminded ==
    ASSUME WideWindow
    PROVE  Spec => []NobodyMissed
<1>1. Init => OwedInv
  BY DEF Init, OwedInv
<1>2. TypeOK /\ OwedInv => NobodyMissed
  <2> SUFFICES ASSUME TypeOK, OwedInv, NEW x \in owed,
                      now + Near > cache[x[1]].starts, x \notin reached
               PROVE  FALSE
    BY DEF NobodyMissed
  <2>1. PICK s : s = cache[x[1]].starts
    OBVIOUS
  <2>2. s \in Nat /\ (Ahead(s) \/ Within(s))
    <3>1. SurelyListed(x[1]) /\ Stands(x) /\ x[1] \in Event
      BY DEF OwedInv, TypeOK
    <3>2. cache[x[1]] \in Row
      BY <3>1 DEF SurelyListed, Upcoming, TypeOK
    <3>3. QED
      BY <2>1, <3>1, <3>2 DEF Stands, Row
  <2>3. now + Near <= s
    BY <2>2, InTime
  <2>4. QED
    BY <2>1, <2>2, <2>3, Numbers
<1>3. QED
  BY <1>1, <1>2, OwedStep, TimeCorrect, OnceCorrect, TypeCorrect, WritingCorrect, PTL DEF Spec

=============================================================================
