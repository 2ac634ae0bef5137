----------------------------- MODULE Followers -----------------------------
(***************************************************************************)
(* The followers of one group (internal/activitypub): the inbox appends to *)
(* and removes from a Go slice that no lock protects, while a delivery     *)
(* ranges over the slice it read when it began, asks each follower's       *)
(* server for its inbox and posts there with retries, all within Deadline. *)
(*                                                                         *)
(* A slice is a header, which array and how many of its cells, over a      *)
(* backing array that earlier headers still see.  An inbox handler reads   *)
(* the header and writes later; in between others run.  No lock orders     *)
(* them: two accesses that fall on the same moment, one of them a store,   *)
(* may give a header or a string no one wrote, and after that the program  *)
(* may do anything ("corrupt").                                            *)
(***************************************************************************)
EXTENDS Integers, Sequences

CONSTANTS
    Actor,        \* actor URLs
    Blank,        \* a cell never written
    Handler,      \* requests to the inbox that can be in progress at once
    Delivery,     \* new events to deliver
    Timeout,      \* of the HTTP client: 30 s
    Deadline,     \* of one delivery: 60 s
    Tries,        \* posts to an inbox, at most: 3
    MaxRequests,  \* bound of the model: requests to the inbox
    MaxCrash      \* bound of the model: restarts

ASSUME FollowersAssumption ==
    /\ Blank \notin Actor
    /\ Timeout \in Nat \ {0} /\ Deadline \in Nat \ {0} /\ Tries \in Nat \ {0}
    /\ MaxRequests \in Nat /\ MaxCrash \in Nat

VARIABLES
    arrays,       \* the backing arrays, in order of allocation
    list,         \* the header in the followers map
    inbox,        \* what each handler is doing
    sends,        \* where each delivery is
    requests, crashes,
    corrupt,      \* two accesses fell on the same moment
    booked,       \* history: the followers, had the requests come one at a time
    torn,         \* history: two handlers were in progress at once
    first,        \* history: the followers when a delivery began
    asked,        \* history: whom a delivery asked, in order
    took,         \* history: the time the servers took over a delivery's requests
    moved         \* history: deliveries under whose eyes the array was rewritten

slice   == <<arrays, list>>
history == <<booked, torn, first, asked, took, moved>>
vars    == <<slice, inbox, sends, requests, crashes, corrupt, history>>

Idle == [do |-> "none"]
Nil  == [array |-> 0, len |-> 0]

\* The cells a header shows.
Shown(h) == IF h.array = 0 THEN <<>> ELSE SubSeq(arrays[h.array], 1, h.len)

Running == {d \in Delivery : sends[d].at \in {"discover", "post"}}

-----------------------------------------------------------------------------
(* The inbox. *)

Waiting(at) == [at |-> at, over |-> Nil, pos |-> 1, tries |-> 0, spent |-> 0]

Init ==
    /\ arrays = <<>> /\ list = Nil
    /\ inbox = [h \in Handler |-> Idle]
    /\ sends = [d \in Delivery |-> Waiting("new")]
    /\ requests = 0 /\ crashes = 0 /\ corrupt = FALSE
    /\ booked = <<>> /\ torn = FALSE
    /\ first = [d \in Delivery |-> <<>>] /\ asked = [d \in Delivery |-> <<>>]
    /\ took = [d \in Delivery |-> 0] /\ moved = {}

\* handleInbox up to the read of a.followers[name].
Read(h, do, a) ==
    /\ inbox[h] = Idle
    /\ requests < MaxRequests
    /\ requests' = requests + 1
    /\ inbox' = [inbox EXCEPT ![h] = [do |-> do, actor |-> a, seen |-> list]]
    /\ torn' = (torn \/ \E g \in Handler : inbox[g] # Idle)
    /\ UNCHANGED <<slice, sends, crashes, corrupt, booked, first, asked, took, moved>>

Places(s, a) == {i \in DOMAIN s : s[i] = a}
FirstPlace(s, a) == CHOOSE i \in Places(s, a) : \A j \in Places(s, a) : i <= j
Without(s, i) == SubSeq(s, 1, i - 1) \o SubSeq(s, i + 1, Len(s))

\* append: in the array when there is room, else in a new one of twice the size.
Grown(h, a) ==
    LET cells == Append(Shown(h), a)
        size  == IF h.len = 0 THEN 1 ELSE 2 * h.len
    IN  [i \in 1..size |-> IF i <= Len(cells) THEN cells[i] ELSE Blank]

\* Fault: the array is taken to be full one cell late.
HasRoomLate(h) == h.array # 0 /\ h.len <= Len(arrays[h.array])

HasRoom(h) == h.array # 0 /\ h.len < Len(arrays[h.array])

Append1(h, a) ==
    /\ arrays' = IF HasRoom(h) THEN [arrays EXCEPT ![h.array][h.len + 1] = a]
                               ELSE Append(arrays, Grown(h, a))
    /\ list' = [array |-> IF HasRoom(h) THEN h.array ELSE Len(arrays) + 1,
                len   |-> h.len + 1]

\* Fault: the follower is dropped from a copy, and the copy is thrown away.
ShiftedCopy(h, i) == arrays[h.array]

\* append(followers[:i], followers[i+1:]...): the cells after i move one place
\* down in the same array, the last one stays behind.
Shifted(h, i) ==
    [j \in DOMAIN arrays[h.array] |->
        IF j \in i..(h.len - 1) THEN arrays[h.array][j + 1] ELSE arrays[h.array][j]]

\* The rest of the handler, from the header it read.  Whoever it was, 202.
Follow(h) ==
    /\ inbox[h] # Idle /\ inbox[h].do = "follow"
    /\ Append1(inbox[h].seen, inbox[h].actor)
    /\ inbox' = [inbox EXCEPT ![h] = Idle]
    /\ booked' = Append(booked, inbox[h].actor)
    /\ moved' = IF inbox[h].seen = list THEN moved ELSE moved \cup Running
    /\ UNCHANGED <<sends, requests, crashes, corrupt, torn, first, asked, took>>

Undo(h) ==
    /\ inbox[h] # Idle /\ inbox[h].do = "undo"
    /\ LET seen == inbox[h].seen
           a    == inbox[h].actor
       IN  IF Places(Shown(seen), a) = {} THEN UNCHANGED <<slice, moved>>
           ELSE LET i == FirstPlace(Shown(seen), a)
                IN  /\ arrays' = [arrays EXCEPT ![seen.array] = Shifted(seen, i)]
                    /\ list' = [seen EXCEPT !.len = @ - 1]
                    /\ moved' = moved \cup Running
    /\ booked' = IF Places(booked, inbox[h].actor) = {} THEN booked
                 ELSE Without(booked, FirstPlace(booked, inbox[h].actor))
    /\ inbox' = [inbox EXCEPT ![h] = Idle]
    /\ UNCHANGED <<sends, requests, crashes, corrupt, torn, first, asked, took>>

\* A handler stores while another one, or a delivery that reads the map or the
\* next cell, is there at the same moment: headers and strings of more than one
\* word are torn.  What the program does then is undefined.
Race ==
    /\ ~corrupt
    /\ \E h \in Handler :
        /\ inbox[h] # Idle
        /\ \/ \E g \in Handler \ {h} : inbox[g] # Idle \/ requests < MaxRequests
           \/ \E d \in Delivery : sends[d].at \in {"new", "discover"}
    /\ corrupt' = TRUE
    /\ UNCHANGED <<slice, inbox, sends, requests, crashes, history>>

\* The map and everything in progress is in memory.  The runtime also ends the
\* process when it sees the map read and written at once.
Crash ==
    /\ crashes < MaxCrash
    /\ crashes' = crashes + 1
    /\ arrays' = <<>> /\ list' = Nil /\ booked' = <<>> /\ torn' = FALSE /\ corrupt' = FALSE
    /\ inbox' = [h \in Handler |-> Idle]
    /\ sends' = [d \in Delivery |->
                    IF d \in Running THEN [sends[d] EXCEPT !.at = "cut"] ELSE sends[d]]
    /\ UNCHANGED <<requests, first, asked, took, moved>>

-----------------------------------------------------------------------------
(* Deliveries. *)

\* DeliverNewEvent, to where the loop begins.
Begin(d) ==
    /\ sends[d].at = "new"
    /\ sends' = [sends EXCEPT ![d] =
                    [Waiting(IF list.len = 0 THEN "done" ELSE "discover") EXCEPT !.over = list]]
    /\ first' = [first EXCEPT ![d] = Shown(list)]
    /\ UNCHANGED <<slice, inbox, requests, crashes, corrupt, booked, torn, asked, took, moved>>

Late(s) == s.spent = Deadline

\* A wait ends with the deadline of the delivery.
Waited(s, t) == [s EXCEPT !.spent = IF @ + t < Deadline THEN @ + t ELSE Deadline]

\* Fault: the loop goes by the list of now.
NextFollowerNow(s) ==
    [s EXCEPT !.at = IF s.pos < list.len THEN "discover" ELSE "done",
              !.over = list, !.pos = IF s.pos < list.len THEN @ + 1 ELSE @, !.tries = 0]

\* Fault: a follower who could not be asked in time is put back.
NextFollowerPutBack(s) ==
    IF Late(s) THEN s
    ELSE [s EXCEPT !.at = IF s.pos < s.over.len THEN "discover" ELSE "done",
                   !.pos = IF s.pos < s.over.len THEN @ + 1 ELSE @, !.tries = 0]

\* On to the next follower, or to the report.
NextFollower(s) ==
    [s EXCEPT !.at = IF s.pos < s.over.len THEN "discover" ELSE "done",
              !.pos = IF s.pos < s.over.len THEN @ + 1 ELSE @, !.tries = 0]

\* The follower the loop reads.
Reads(s) == arrays[s.over.array][s.pos]

Update(d, s) == sends' = [sends EXCEPT ![d] = s]
Takes(d, t)  == took' = [took EXCEPT ![d] = @ + t]

Rest == UNCHANGED <<slice, inbox, requests, crashes, corrupt, booked, torn, first, moved>>

\* DiscoverInboxURL: the server answers with an inbox in less than Timeout; or
\* fails, at the latest by then.
Discover(d) ==
    /\ sends[d].at = "discover" /\ ~Late(sends[d])
    /\ asked' = [asked EXCEPT ![d] = Append(@, Reads(sends[d]))]
    /\ \E t \in 0 .. Timeout :
        /\ Takes(d, t)
        /\ \/ t < Timeout /\ Update(d, [Waited(sends[d], t) EXCEPT !.at = "post"])
           \/ Update(d, NextFollower(Waited(sends[d], t)))
    /\ Rest

\* The deadline is over: every request fails at once, the report counts it.
Skip(d) ==
    /\ d \in Running /\ Late(sends[d])
    /\ Update(d, NextFollower(sends[d]))
    /\ UNCHANGED <<asked, took>> /\ Rest

\* Fault: the first wait is already doubled.
BackoffDoubled(tries) == 2 ^ tries

Backoff(tries) == 2 ^ (tries - 1)

Again(s) ==
    IF s.tries + 1 = Tries THEN NextFollower(s)
    ELSE Waited([s EXCEPT !.tries = @ + 1], Backoff(s.tries + 1))

\* One attempt of postToInbox: accepted or refused for good in less than
\* Timeout; or 429, 5xx, no connection, or no answer by then, which is tried
\* again.
Post(d) ==
    /\ sends[d].at = "post" /\ ~Late(sends[d])
    /\ \E t \in 0 .. Timeout :
        /\ Takes(d, t)
        /\ \/ t < Timeout /\ Update(d, NextFollower(Waited(sends[d], t)))
           \/ Update(d, Again(Waited(sends[d], t)))
    /\ UNCHANGED asked /\ Rest

Deliver(d) == ~corrupt /\ (Discover(d) \/ Post(d) \/ Skip(d))

Inbox(h) ==
    \/ \E do \in {"follow", "undo"}, a \in Actor : Read(h, do, a)
    \/ Follow(h)
    \/ Undo(h)

Next ==
    \/ ~corrupt /\ \E h \in Handler : Inbox(h)
    \/ ~corrupt /\ \E d \in Delivery : Begin(d)
    \/ \E d \in Delivery : Deliver(d)
    \/ Race
    \/ Crash

\* The HTTP client gives every request an end, and the runtime every goroutine
\* its turn.  Nobody has to follow, unfollow or create an event.
Spec == Init /\ [][Next]_vars /\ \A d \in Delivery : WF_vars(Deliver(d))

-----------------------------------------------------------------------------
(* Properties. *)

Header == [array : 0..Len(arrays), len : Nat]

\* As long as no two accesses fell on the same moment, a header shows cells its
\* array has, and cells that were written: handlers that store what they read
\* before others stored never make a slice reach into the unused part of an
\* array.
TypeOK ==
    /\ arrays \in Seq(Seq(Actor \cup {Blank}))
    /\ list \in Header
    /\ \A h \in Handler : inbox[h] # Idle =>
        inbox[h].do \in {"follow", "undo"} /\ inbox[h].actor \in Actor /\ inbox[h].seen \in Header
    /\ ~corrupt => \A h \in {list} \cup {inbox[g].seen : g \in {g \in Handler : inbox[g] # Idle}}
                 \cup {sends[d].over : d \in Running} :
        /\ h.array # 0 => h.len <= Len(arrays[h.array])
        /\ \A i \in DOMAIN Shown(h) : Shown(h)[i] \in Actor
    /\ \A d \in Delivery : /\ sends[d].at \in {"new", "discover", "post", "done", "cut"}
                           /\ sends[d].tries < Tries
                           /\ sends[d].spent \in 0..Deadline
    /\ requests \in 0..MaxRequests /\ crashes \in 0..MaxCrash
    /\ corrupt \in BOOLEAN
    /\ booked \in Seq(Actor) /\ torn \in BOOLEAN /\ moved \subseteq Delivery

\* When requests to the inbox came one at a time, the slice shows exactly the
\* followers they leave: append in place and the shift of removeFollower never
\* spoil one another through a shared array (activitypub.go:320 and :355).
ListMatches == torn \/ corrupt \/ Shown(list) = booked

\* A delivery goes through the list of the moment it began, entry by entry and
\* each entry once, however many follow meanwhile, and leaves none out unless
\* its time is over.  An actor that is in the list twice is asked twice.  (Only
\* an Undo, or a handler that had read an older header, can disturb it:
\* activitypub.go:318-338 against the loop at :424.)
EachEntryOnce ==
    \A d \in Delivery \ moved : ~corrupt =>
        /\ Len(asked[d]) <= Len(first[d])
        /\ asked[d] = SubSeq(first[d], 1, Len(asked[d]))
        /\ sends[d].at = "done" /\ ~Late(sends[d]) => asked[d] = first[d]

\* Followers are left out only when the time the servers took and the waits
\* between the attempts fill the deadline: the waits cost a delivery at most
\* 2^(Tries - 1) - 1 per follower (postToInbox and the 60 s of DeliverNewEvent).
SkippedOnlyIfSlow ==
    \A d \in Delivery :
        Late(sends[d]) => took[d] + (2 ^ (Tries - 1) - 1) * Len(first[d]) >= Deadline

\* A delivery that began ends: no server can hold handleCreateEvent for good
\* (handlers.go:1047 waits for the report), as long as no two accesses to the
\* list fall on the same moment.
DeliveryEnds == \A d \in Delivery : d \in Running ~> d \notin Running \/ corrupt

-----------------------------------------------------------------------------
(* What the documents say and the code does not do. *)

\* activitypub.go:350, "removes a follower from the list": who undid the follow
\* is no longer in it.
UndoRemoves ==
    [][\A h \in Handler :
        (inbox[h] # Idle /\ inbox[h].do = "undo" /\ inbox'[h] = Idle /\ crashes' = crashes)
            => Places(Shown(list)', inbox[h].actor) = {}]_vars

\* Every accepted Follow is in the list, also when two came at once.
FollowKept == corrupt \/ Len(Shown(list)) = Len(booked)

\* activitypub.go:404, "to each follower's inbox": no follower is asked twice.
NoneTwice ==
    \A d \in Delivery \ moved : \A i, j \in DOMAIN asked[d] :
        i # j /\ ~corrupt => asked[d][i] # asked[d][j]

\* activitypub.go:450, "Retries up to 3 times with exponential backoff (1s, 2s,
\* 4s)": an attempt that got no answer is followed by such a wait.
WaitsAsDocumented ==
    [][\A d \in Delivery :
        sends[d].at = "post" /\ took'[d] = took[d] + Timeout =>
            sends'[d].spent \in {sends[d].spent + Timeout + 2 ^ sends[d].tries, Deadline}]_vars

\* activitypub.go:404, "POSTs the given activity to each follower's inbox": when
\* one follower leaves during the delivery, the others are asked all the same.
AsksWhoStays ==
    \A d \in Delivery :
        sends[d].at = "done" /\ ~Late(sends[d]) /\ ~torn /\ ~corrupt =>
            \A i \in DOMAIN first[d] :
                booked = Without(first[d], i) =>
                    \A j \in DOMAIN booked : Places(asked[d], booked[j]) # {}
=============================================================================
