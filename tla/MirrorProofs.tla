---------------------------- MODULE MirrorProofs ----------------------------
(***************************************************************************)
(* Proofs about Mirror: type correctness for any peers, and, for one peer  *)
(* that has its CREATE_GROUP and a history whose roots do not recur, that  *)
(* the mirror holds a prefix of the history and implements ReplicatedLog.  *)
(***************************************************************************)
EXTENDS Mirror, SequenceTheorems, TLAPS

USE DEF Stray

\* What is read off a page or a log lies between its ends, in order.
LEMMA IntervalType ==
    ASSUME NEW m \in Nat \ {0}, NEW n \in Nat, NEW S, m .. n \subseteq S
    PROVE  /\ Interval(m, n) \in Seq(S)
           /\ \A i \in DOMAIN Interval(m, n) :
                 Interval(m, n)[i] = m + i - 1 /\ Interval(m, n)[i] \in m .. n
           /\ m > n => Interval(m, n) = <<>>
           /\ m <= n => Len(Interval(m, n)) = n - m + 1
<1> DEFINE size == IF n < m THEN 0 ELSE n - m + 1
<1>1. size \in Nat
  OBVIOUS
<1>2. \A i \in 1 .. size : m + i - 1 \in m .. n
  OBVIOUS
<1>3. Interval(m, n) = [i \in 1 .. size |-> m + i - 1]
  BY DEF Interval
<1>4. Interval(m, n) \in [1 .. size -> S]
  BY <1>2, <1>3
<1>5. Interval(m, n) \in Seq(S) /\ Len(Interval(m, n)) = size
  BY <1>1, <1>3, <1>4
<1>6. QED
  BY <1>1, <1>2, <1>3, <1>5

\* A channel holds what was broadcast to it.
LEMMA EnqueueType ==
    ASSUME NEW S, NEW q \in Seq(S), NEW t \in S
    PROVE  /\ Enqueue(q, t) \in Seq(S)
           /\ \A i \in DOMAIN Enqueue(q, t) :
                 Enqueue(q, t)[i] = t \/ \E j \in DOMAIN q : Enqueue(q, t)[i] = q[j]
<1>1. CASE Len(q) < Buffer
  BY <1>1 DEF Enqueue
<1>2. CASE ~(Len(q) < Buffer)
  <2>1. q # <<>>
    BY <1>2, MirrorAssumption
  <2>2. Tail(q) \in Seq(S)
    BY <2>1
  <2>3. QED
    BY <1>2, <2>1, <2>2 DEF Enqueue
<1>3. QED
  BY <1>1, <1>2

\* What a sequence without its head, or with one more element, consists of.
LEMMA TailElements ==
    ASSUME NEW S, NEW q \in Seq(S), q # <<>>
    PROVE  /\ \A i \in DOMAIN Tail(q) :
                 i \in Nat \ {0} /\ i + 1 \in DOMAIN q /\ Tail(q)[i] = q[i + 1]
           /\ 1 \in DOMAIN q /\ Head(q) = q[1]
  OBVIOUS

\* A page of more than one transition is not exhausted by taking its head.
LEMMA TailNonEmpty ==
    ASSUME NEW S, NEW q \in Seq(S), q # <<>>, Len(q) > 1
    PROVE  Tail(q) # <<>>
<1>1. Len(Tail(q)) = Len(q) - 1
  BY HeadTailProperties
<1>2. Len(q) \in Nat
  OBVIOUS
<1>3. Len(Tail(q)) # 0
  BY <1>1, <1>2
<1>4. Len(<<>>) = 0
  OBVIOUS
<1>5. QED
  BY <1>3, <1>4

LEMMA AppendElements ==
    ASSUME NEW S, NEW q \in Seq(S), NEW t \in S
    PROVE  \A i \in DOMAIN Append(q, t) :
              Append(q, t)[i] = t \/ (i \in DOMAIN q /\ Append(q, t)[i] = q[i])
  OBVIOUS

-----------------------------------------------------------------------------
LEMMA TypeInit == Init => TypeOK
<1> SUFFICES ASSUME Init PROVE TypeOK
  OBVIOUS
<1> USE MirrorAssumption
<1>1. count \in [Peer -> 0 .. Last]
  BY DEF Init
<1>2. <<>> \in Seq(Transition)
  OBVIOUS
<1>3. QED
  BY <1>1, <1>2 DEF Init, TypeOK, Fresh, Bootstrap, Phase

\* Apply appends a transition and leaves a root.
LEMMA ApplyType ==
    ASSUME TypeOK, NEW t \in Transition, Apply(t)
    PROVE  applied' \in Seq(Transition) /\ root' \in Nat \cup {Stray}
<1>1. t \in 0 .. Last
  BY MirrorAssumption DEF Transition
<1>2. QED
  BY <1>1, MirrorAssumption DEF TypeOK, Apply

\* A page ends within the peer's log.
LEMMA PageType ==
    ASSUME TypeOK, NEW p \in Peer
    PROVE  /\ PageEnd(p) \in Nat /\ PageEnd(p) <= count[p]
           /\ Page(p) \in Seq(Transition)
<1>1. cursor[p] \in Nat /\ count[p] \in 0 .. Last /\ Last \in Nat
  BY MirrorAssumption DEF TypeOK, Bootstrap
<1>2. PageEnd(p) \in Nat /\ PageEnd(p) <= count[p]
  BY <1>1, MirrorAssumption DEF PageEnd, Shorter
<1>3. /\ cursor[p] + 1 \in Nat \ {0}
      /\ cursor[p] + 1 .. PageEnd(p) \subseteq Transition
  BY <1>1, <1>2 DEF Transition
<1>4. QED
  BY <1>2, <1>3, IntervalType DEF Page

LEMMA TypeStep == TypeOK /\ [Next]_vars => TypeOK'
<1> SUFFICES ASSUME TypeOK, [Next]_vars PROVE TypeOK'
  OBVIOUS
<1> USE MirrorAssumption
<1>1. ASSUME NEW p \in Peer, Commit(p) PROVE TypeOK'
  <2>0. count[p] \in 0 .. Last /\ count[p] < Last
    BY <1>1 DEF Commit, TypeOK
  <2>1. count[p] + 1 \in Transition /\ count' \in [Peer -> 0 .. Last]
    <3>1. count[p] + 1 \in Transition /\ count[p] + 1 \in 0 .. Last
      BY <2>0 DEF Transition
    <3>2. QED
      BY <1>1, <3>1 DEF Commit, TypeOK
  <2>2. queue[p] \in Seq(Transition)
    BY DEF TypeOK
  <2>3. Enqueue(queue[p], count[p] + 1) \in Seq(Transition)
    BY <2>1, <2>2, EnqueueType
  <2>4. lost' \in [Peer -> BOOLEAN]
    BY <1>1 DEF Commit, TypeOK
  <2>5. queue' \in [Peer -> Seq(Transition)]
    BY <1>1, <2>3 DEF Commit, TypeOK
  <2>6. QED
    BY <1>1, <2>1, <2>4, <2>5 DEF Commit, TypeOK, mirror, booting
<1>2. ASSUME NEW p \in Peer, BeginBootstrap(p) PROVE TypeOK'
  <2>1. Len(applied) \in Nat
    BY DEF TypeOK
  <2>2. boot' \in [Peer -> Bootstrap] /\ cursor' \in [Peer -> Nat]
    BY <1>2, <2>1 DEF BeginBootstrap, TypeOK, Bootstrap
  <2>3. QED
    BY <1>2, <2>2 DEF BeginBootstrap, TypeOK, mirror, stream
<1>3. ASSUME NEW p \in Peer, GetLog(p) PROVE TypeOK'
  <2>1. page' \in [Peer -> Seq(Transition)]
    BY <1>3, PageType DEF GetLog, TypeOK
  <2>2. boot' \in [Peer -> Bootstrap] /\ next' \in [Peer -> 0 .. Last]
    <3>1. (IF PageEnd(p) < count[p] THEN PageEnd(p) ELSE 0) \in 0 .. Last
      <4>1. PageEnd(p) \in Nat /\ PageEnd(p) <= count[p] /\ count[p] \in 0 .. Last
        BY PageType DEF TypeOK
      <4>2. QED
        BY <4>1
    <3>2. QED
      BY <1>3, <3>1 DEF GetLog, TypeOK, Bootstrap
  <2>3. \A q \in Peer : boot'[q] = "apply" => page'[q] # <<>>
    BY <1>3 DEF GetLog, TypeOK, Bootstrap
  <2>4. QED
    BY <1>3, <2>1, <2>2, <2>3 DEF GetLog, TypeOK, mirror, stream
<1>4. ASSUME NEW p \in Peer, ApplyPage(p) PROVE TypeOK'
  <2>1. page[p] \in Seq(Transition) /\ page[p] # <<>>
    BY <1>4 DEF TypeOK, ApplyPage
  <2>2. Head(page[p]) \in Transition /\ Tail(page[p]) \in Seq(Transition)
    BY <2>1
  <2>3. page' \in [Peer -> Seq(Transition)]
    BY <1>4, <2>2 DEF ApplyPage, TypeOK
  <2>4. boot' \in [Peer -> Bootstrap] /\ cursor' \in [Peer -> Nat]
    BY <1>4 DEF ApplyPage, AfterOne, TypeOK, Bootstrap
  <2>5. \A q \in Peer : boot'[q] = "apply" => page'[q] # <<>>
    <3>1. Len(page[p]) > 1 => Tail(page[p]) # <<>>
      BY <2>1, TailNonEmpty
    <3>2. boot'[p] = "apply" => Len(page[p]) > 1
      BY <1>4 DEF ApplyPage, AfterOne, TypeOK, Bootstrap
    <3>3. QED
      BY <1>4, <3>1, <3>2 DEF ApplyPage, TypeOK, Bootstrap
  <2>6. applied' \in Seq(Transition) /\ root' \in Nat \cup {Stray}
    BY <1>4, <2>2, ApplyType DEF ApplyPage
  <2>7. QED
    BY <1>4, <2>3, <2>4, <2>5, <2>6 DEF ApplyPage, TypeOK, stream
<1>5. ASSUME NEW p \in Peer, RefusePage(p) PROVE TypeOK'
  <2>1. boot' \in [Peer -> Bootstrap] /\ page' \in [Peer -> Seq(Transition)]
    BY <1>5 DEF RefusePage, TypeOK, Bootstrap
  <2>2. \A q \in Peer : boot'[q] = "apply" => page'[q] # <<>>
    BY <1>5 DEF RefusePage, TypeOK, Bootstrap
  <2>3. QED
    BY <1>5, <2>1, <2>2 DEF RefusePage, TypeOK, mirror, stream
<1>6. ASSUME NEW p \in Peer, Dial(p) PROVE TypeOK'
  <2>1. Len(applied) \in Nat
    BY DEF TypeOK
  <2>2. QED
    BY <1>6, <2>1 DEF Dial, TypeOK, Phase, mirror, booting
<1>7. ASSUME NEW p \in Peer, Subscribe(p) PROVE TypeOK'
  BY <1>7 DEF Subscribe, TypeOK, Phase, mirror, booting
<1>8. ASSUME NEW p \in Peer, GoLive(p) PROVE TypeOK'
  <2>1. Replay(p) \in Seq(Transition)
    <3>1. CASE since[p] > 0
      <4>1. /\ since[p] + 1 \in Nat \ {0} /\ count[p] \in Nat
            /\ since[p] + 1 .. count[p] \subseteq Transition
        <5>1. since[p] \in Nat /\ count[p] \in 0 .. Last
          BY DEF TypeOK
        <5>2. QED
          BY <5>1, MirrorAssumption DEF Transition
      <4>2. QED
        BY <3>1, <4>1, IntervalType DEF Replay
    <3>2. CASE ~(since[p] > 0)
      BY <3>2 DEF Replay
    <3>3. QED
      BY <3>1, <3>2
  <2>2. wire' \in [Peer -> Seq(Transition)]
    BY <1>8, <2>1 DEF GoLive, TypeOK
  <2>3. QED
    BY <1>8, <2>2 DEF GoLive, TypeOK, Phase, mirror, booting
<1>9. ASSUME NEW p \in Peer, Forward(p) PROVE TypeOK'
  <2>1. /\ queue[p] \in Seq(Transition) /\ queue[p] # <<>>
        /\ wire[p] \in Seq(Transition)
    BY <1>9 DEF Forward, TypeOK
  <2>2. /\ Append(wire[p], Head(queue[p])) \in Seq(Transition)
        /\ Tail(queue[p]) \in Seq(Transition)
    BY <2>1
  <2>3. wire' \in [Peer -> Seq(Transition)] /\ queue' \in [Peer -> Seq(Transition)]
    BY <1>9, <2>2 DEF Forward, TypeOK
  <2>4. QED
    BY <1>9, <2>3 DEF Forward, TypeOK, mirror, booting
<1>10. ASSUME NEW p \in Peer, Receive(p) PROVE TypeOK'
  <2>1. wire[p] \in Seq(Transition) /\ wire[p] # <<>>
    BY <1>10 DEF Receive, TypeOK
  <2>2. Head(wire[p]) \in Transition /\ Tail(wire[p]) \in Seq(Transition)
    BY <2>1
  <2>3. wire' \in [Peer -> Seq(Transition)]
    BY <1>10, <2>2 DEF Receive, TypeOK
  <2>4. applied' \in Seq(Transition) /\ root' \in Nat \cup {Stray}
    BY <1>10, <2>2, ApplyType DEF Receive, TypeOK, mirror
  <2>5. QED
    BY <1>10, <2>3, <2>4 DEF Receive, TypeOK, booting
<1>11. ASSUME NEW p \in Peer, Break(p) PROVE TypeOK'
  <2>1. /\ queue' \in [Peer -> Seq(Transition)] /\ wire' \in [Peer -> Seq(Transition)]
        /\ live' \in [Peer -> Phase] /\ faults' \in Nat
    BY <1>11 DEF Break, TypeOK, Phase
  <2>2. QED
    BY <1>11, <2>1 DEF Break, TypeOK, mirror, booting
<1>12. ASSUME Restart PROVE TypeOK'
  <2>1. applied' \in Seq(Transition) /\ root' \in Nat \cup {Stray}
    <3>1. RootAt[0] \in Nat /\ <<>> \in Seq(Transition)
      OBVIOUS
    <3>2. QED
      BY <1>12, <3>1 DEF Restart, TypeOK, mirror
  <2>2. /\ boot' \in [Peer -> Bootstrap] /\ page' \in [Peer -> Seq(Transition)]
        /\ \A q \in Peer : boot'[q] = "apply" => page'[q] # <<>>
    BY <1>12 DEF Restart, TypeOK, Fresh, Bootstrap
  <2>3. /\ live' \in [Peer -> Phase] /\ faults' \in Nat
        /\ queue' \in [Peer -> Seq(Transition)] /\ wire' \in [Peer -> Seq(Transition)]
    BY <1>12 DEF Restart, TypeOK, Fresh, Phase
  <2>4. QED
    BY <1>12, <2>1, <2>2, <2>3 DEF Restart, TypeOK
<1>13. ASSUME NEW p \in Peer, GetLogFails(p) PROVE TypeOK'
  <2>1. /\ boot' \in [Peer -> Bootstrap] /\ faults' \in Nat
        /\ \A q \in Peer : boot'[q] = "apply" => page[q] # <<>>
    BY <1>13 DEF GetLogFails, TypeOK, Bootstrap
  <2>2. QED
    BY <1>13, <2>1 DEF GetLogFails, TypeOK, mirror, stream
<1>14. CASE UNCHANGED vars
  BY <1>14 DEF vars, TypeOK, mirror, booting, stream
<1>15. QED
  BY <1>1, <1>2, <1>3, <1>4, <1>5, <1>6, <1>7, <1>8, <1>9, <1>10, <1>11, <1>12, <1>13,
     <1>14 DEF Next, Pull, Follow, Fail

\* Every reachable state of the mirror, its peers and their streams is well
\* typed, whatever the history, the peers and the faults.
THEOREM TypeCorrect == Spec => []TypeOK
  BY TypeInit, TypeStep, PTL DEF Spec

-----------------------------------------------------------------------------
(* One peer that has its CREATE_GROUP, and roots that do not recur.         *)
DistinctHistory ==
    /\ Committed > 0
    /\ \A m, n \in 0 .. Last : RootAt[m] = RootAt[n] => m = n

\* Only Bootstrap ever carries the CREATE_GROUP, as the first of a page, and
\* only while the mirror is empty: nothing else applies before it, and it is
\* the one transition Apply would take again.
CreateOnce(p) ==
    /\ boot[p] = "fetch" /\ cursor[p] = 0 => applied = <<>>
    /\ boot[p] = "apply" =>
          \A i \in DOMAIN page[p] : page[p][i] = 1 => i = 1 /\ applied = <<>>

\* What is on its way to the mirror has been committed, and no stream carries
\* the CREATE_GROUP.
AllCommitted(p) ==
    /\ \A i \in DOMAIN page[p] : page[p][i] \in 1 .. count[p]
    /\ \A i \in DOMAIN queue[p] : queue[p][i] \in 2 .. count[p]
    /\ \A i \in DOMAIN wire[p] : wire[p][i] \in 2 .. count[p]
    /\ Len(applied) <= count[p]
    /\ count[p] > 0

IInv(p) == TypeOK /\ MirrorIsPrefix /\ CreateOnce(p) /\ AllCommitted(p)

\* At a prefix of a history without recurring roots, Apply takes the next
\* transition and no other.
LEMMA ApplyNext ==
    ASSUME DistinctHistory, TypeOK, MirrorIsPrefix, Len(applied) <= Last,
           NEW t \in Transition, Applicable(t), t = 1 => applied = <<>>, Apply(t)
    PROVE  /\ t = Len(applied) + 1
           /\ applied' = Append(applied, Len(applied) + 1)
           /\ Len(applied') = Len(applied) + 1
           /\ MirrorIsPrefix'
<1> USE MirrorAssumption
<1>1. Len(applied) \in 0 .. Last /\ t \in 1 .. Last
  BY DEF TypeOK, Transition
<1>2. t = Len(applied) + 1
  <2>1. CASE t = 1
    BY <2>1
  <2>2. CASE t # 1
    <3>1. RootAt[Len(applied)] = RootAt[t - 1]
      BY <2>2 DEF Applicable, MirrorIsPrefix
    <3>2. t - 1 \in 0 .. Last
      BY <1>1
    <3>3. Len(applied) = t - 1
      BY <1>1, <3>1, <3>2 DEF DistinctHistory
    <3>4. QED
      BY <1>1, <3>3
  <2>3. QED
    BY <2>1, <2>2
<1>3. applied' = Append(applied, t) /\ applied \in Seq(Transition)
  BY DEF Apply, TypeOK
<1>4. /\ Len(applied') = Len(applied) + 1
      /\ \A i \in DOMAIN applied' : applied'[i] = i
  BY <1>2, <1>3 DEF MirrorIsPrefix
<1>5. root' = RootAt[t]
  <2>1. t = 1 => root = RootAt[0]
    BY DEF MirrorIsPrefix
  <2>2. QED
    BY <2>1 DEF Apply
<1>6. QED
  BY <1>2, <1>3, <1>4, <1>5 DEF MirrorIsPrefix

LEMMA PrefixInit ==
    ASSUME NEW p, Peer = {p}, DistinctHistory
    PROVE  Init => IInv(p)
<1> SUFFICES ASSUME Init PROVE IInv(p)
  OBVIOUS
<1>1. count[p] \in Committed .. Last /\ Committed \in 0 .. Last
  BY MirrorAssumption DEF Init
<1>2. count[p] > 0
  BY <1>1 DEF DistinctHistory
<1>3. page[p] = <<>> /\ queue[p] = <<>> /\ wire[p] = <<>> /\ applied = <<>>
  BY DEF Init, Fresh
<1>4. QED
  BY <1>2, <1>3, TypeInit
     DEF Init, IInv, MirrorIsPrefix, CreateOnce, AllCommitted

LEMMA PrefixStep ==
    ASSUME NEW p, Peer = {p}, DistinctHistory, IInv(p), [Next]_vars
    PROVE  IInv(p)'
<1> USE MirrorAssumption
<1> p \in Peer
  OBVIOUS
<1>0. /\ TypeOK /\ TypeOK' /\ count[p] \in 0 .. Last /\ Len(applied) \in Nat
      /\ Len(applied) <= Last
      /\ page[p] \in Seq(Transition) /\ queue[p] \in Seq(Transition)
      /\ wire[p] \in Seq(Transition) /\ applied \in Seq(Transition)
  <2>1. TypeOK /\ TypeOK'
    BY TypeStep DEF IInv
  <2>2. /\ count[p] \in 0 .. Last /\ applied \in Seq(Transition)
        /\ page[p] \in Seq(Transition) /\ queue[p] \in Seq(Transition)
        /\ wire[p] \in Seq(Transition)
    BY <2>1 DEF TypeOK
  <2>3. Len(applied) \in Nat /\ Len(applied) <= count[p]
    BY <2>2 DEF IInv, AllCommitted
  <2>4. Len(applied) <= Last
    BY <2>2, <2>3
  <2>5. QED
    BY <2>1, <2>2, <2>3, <2>4
<1>1. CASE Commit(p)
  <2>1. count'[p] = count[p] + 1 /\ count[p] + 1 \in Transition
    BY <1>0, <1>1 DEF Commit, Transition, TypeOK
  <2>2. \A n : n \in 2 .. count[p] => n \in 2 .. count'[p]
    BY <1>0, <2>1
  <2>3. \A i \in DOMAIN queue'[p] : queue'[p][i] \in 2 .. count'[p]
    <3>1. CASE Subscribed(p)
      <4>1. queue'[p] = Enqueue(queue[p], count[p] + 1)
        BY <1>0, <1>1, <3>1 DEF Commit, TypeOK
      <4>2. \A i \in DOMAIN queue'[p] :
               \/ queue'[p][i] = count[p] + 1
               \/ \E j \in DOMAIN queue[p] : queue'[p][i] = queue[p][j]
        BY <1>0, <2>1, <4>1, EnqueueType
      <4>3. count[p] + 1 \in 2 .. count'[p]
        BY <1>0, <2>1 DEF IInv, AllCommitted
      <4>4. \A j \in DOMAIN queue[p] : queue[p][j] \in 2 .. count'[p]
        BY <2>2 DEF IInv, AllCommitted
      <4>5. QED
        BY <4>2, <4>3, <4>4
    <3>2. CASE ~Subscribed(p)
      <4>1. queue' = queue
        BY <1>1, <3>2 DEF Commit
      <4>2. QED
        BY <2>2, <4>1 DEF IInv, AllCommitted
    <3>3. QED
      BY <3>1, <3>2
  <2>4. /\ applied' = applied /\ root' = root /\ boot' = boot /\ cursor' = cursor
        /\ page' = page /\ wire' = wire
    BY <1>1 DEF Commit, mirror, booting
  <2>5. \A i \in DOMAIN wire'[p] : wire'[p][i] \in 2 .. count'[p]
    BY <2>2, <2>4 DEF IInv, AllCommitted
  <2>6. \A i \in DOMAIN page'[p] : page'[p][i] \in 1 .. count'[p]
    <3>1. \A n : n \in 1 .. count[p] => n \in 1 .. count'[p]
      BY <1>0, <2>1
    <3>2. QED
      BY <2>4, <3>1 DEF IInv, AllCommitted
  <2>7. Len(applied') <= count'[p] /\ count'[p] > 0
    BY <1>0, <2>1, <2>4 DEF IInv, AllCommitted
  <2>8. QED
    BY <1>0, <2>3, <2>4, <2>5, <2>6, <2>7 DEF IInv, MirrorIsPrefix, CreateOnce, AllCommitted
<1>2. CASE BeginBootstrap(p)
  <2>1. /\ boot'[p] = "fetch" /\ cursor'[p] = Len(applied)
        /\ UNCHANGED <<count, applied, root, page, queue, wire>>
    BY <1>0, <1>2 DEF BeginBootstrap, TypeOK, mirror, stream
  <2>2. Len(applied) = 0 => applied = <<>>
    BY <1>0
  <2>3. QED
    BY <1>0, <2>1, <2>2 DEF IInv, MirrorIsPrefix, CreateOnce, AllCommitted
<1>3. CASE GetLog(p)
  <2>1. /\ page'[p] = Page(p) /\ boot'[p] # "fetch"
        /\ UNCHANGED <<count, applied, root, cursor, queue, wire>>
    BY <1>0, <1>3 DEF GetLog, TypeOK, mirror, stream
  <2>2. /\ PageEnd(p) \in Nat /\ PageEnd(p) <= count[p]
        /\ Page(p) \in Seq(Transition)
    BY <1>0, PageType
  <2>0. cursor[p] \in Nat
    BY <1>0 DEF TypeOK
  <2>3. cursor[p] + 1 \in Nat \ {0}
    BY <2>0
  <2>4. \A i \in DOMAIN Page(p) :
           /\ Page(p)[i] = (cursor[p] + 1) + i - 1
           /\ Page(p)[i] \in (cursor[p] + 1) .. PageEnd(p)
    <3> DEFINE m == cursor[p] + 1
               n == PageEnd(p)
    <3>1. m \in Nat \ {0} /\ n \in Nat /\ m .. n \subseteq Nat
      BY <2>2, <2>3
    <3>2. Page(p) = Interval(m, n)
      BY DEF Page
    <3> HIDE DEF m, n
    <3>3. \A i \in DOMAIN Interval(m, n) :
             Interval(m, n)[i] = m + i - 1 /\ Interval(m, n)[i] \in m .. n
      BY <3>1, IntervalType
    <3>4. \A i \in DOMAIN Page(p) : Page(p)[i] = m + i - 1 /\ Page(p)[i] \in m .. n
      BY <3>2, <3>3
    <3>5. QED
      BY <3>4 DEF m, n
  <2>5. (cursor[p] + 1) .. PageEnd(p) \subseteq 1 .. count[p]
    BY <1>0, <2>0, <2>2
  <2>6. \A i \in DOMAIN Page(p) : Page(p)[i] = 1 => i = 1 /\ applied = <<>>
    <3>1. \A i \in DOMAIN Page(p) : i \in Nat \ {0}
      BY <2>2
    <3>2. cursor[p] = 0 => applied = <<>>
      BY <1>3 DEF GetLog, IInv, CreateOnce
    <3>3. ASSUME NEW i \in DOMAIN Page(p), Page(p)[i] = 1
          PROVE  i = 1 /\ cursor[p] = 0
      <4>1. (cursor[p] + 1) + i - 1 = 1
        BY <2>4, <3>3
      <4>2. i \in Nat \ {0}
        BY <3>1
      <4>3. QED
        BY <2>0, <4>1, <4>2
    <3>4. QED
      BY <3>2, <3>3
  <2>7. \A i \in DOMAIN Page(p) : Page(p)[i] \in 1 .. count[p]
    BY <2>4, <2>5
  <2>8. QED
    BY <1>0, <2>1, <2>6, <2>7 DEF IInv, MirrorIsPrefix, CreateOnce, AllCommitted
<1>4. CASE ApplyPage(p)
  <2>1. /\ boot[p] = "apply" /\ page[p] # <<>> /\ page'[p] = Tail(page[p])
        /\ Apply(Head(page[p])) /\ Applicable(Head(page[p]))
        /\ boot'[p] = AfterOne(p) /\ cursor'[p] = next[p]
        /\ UNCHANGED <<count, queue, wire>>
    BY <1>0, <1>4 DEF ApplyPage, TypeOK, stream
  <2>2. /\ Head(page[p]) \in Transition /\ Head(page[p]) \in 1 .. count[p]
        /\ Head(page[p]) = 1 => applied = <<>>
    <3>1. 1 \in DOMAIN page[p] /\ Head(page[p]) = page[p][1]
      BY <1>0, <2>1, TailElements
    <3>2. Head(page[p]) \in Transition
      BY <1>0, <2>1
    <3>3. QED
      BY <2>1, <3>1, <3>2 DEF IInv, CreateOnce, AllCommitted
  <2>3. /\ Len(applied') = Len(applied) + 1 /\ Head(page[p]) = Len(applied) + 1
        /\ MirrorIsPrefix'
    BY <1>0, <2>1, <2>2, ApplyNext DEF IInv
  <2>4. \A i \in DOMAIN page'[p] :
           i \in Nat \ {0} /\ i + 1 \in DOMAIN page[p] /\ page'[p][i] = page[p][i + 1]
    BY <1>0, <2>1, TailElements
  <2>5. \A i \in DOMAIN page'[p] : page'[p][i] # 1 /\ page'[p][i] \in 1 .. count[p]
    BY <2>1, <2>4 DEF IInv, CreateOnce, AllCommitted
  <2>6. boot'[p] = "fetch" => cursor'[p] # 0
    BY <2>1 DEF AfterOne
  <2>7. Len(applied') <= count[p]
    BY <1>0, <2>2, <2>3
  <2>8. QED
    BY <1>0, <2>1, <2>3, <2>5, <2>6, <2>7 DEF IInv, CreateOnce, AllCommitted
<1>5. CASE RefusePage(p)
  <2>1. /\ page'[p] = <<>> /\ boot'[p] = "failed"
        /\ UNCHANGED <<count, applied, root, queue, wire>>
    BY <1>0, <1>5 DEF RefusePage, TypeOK, mirror, stream
  <2>2. QED
    BY <1>0, <2>1 DEF IInv, MirrorIsPrefix, CreateOnce, AllCommitted
<1>6. CASE Dial(p) \/ Subscribe(p)
  <2>1. UNCHANGED <<count, applied, root, boot, cursor, page, queue, wire>>
    BY <1>6 DEF Dial, Subscribe, mirror, booting
  <2>2. QED
    BY <1>0, <2>1 DEF IInv, MirrorIsPrefix, CreateOnce, AllCommitted
<1>7. CASE GoLive(p)
  <2>1. /\ wire'[p] = Replay(p)
        /\ UNCHANGED <<count, applied, root, boot, cursor, page, queue>>
    BY <1>0, <1>7 DEF GoLive, TypeOK, mirror, booting
  <2>2. \A i \in DOMAIN Replay(p) : Replay(p)[i] \in 2 .. count[p]
    <3>1. CASE since[p] > 0
      <4>0. since[p] \in Nat /\ count[p] \in Nat
        BY <1>0 DEF TypeOK
      <4>1. since[p] \in Nat /\ count[p] \in Nat /\ since[p] + 1 \in Nat \ {0}
        BY <4>0
      <4>2. (since[p] + 1) .. count[p] \subseteq 2 .. count[p]
        BY <3>1, <4>1
      <4>3. \A i \in DOMAIN Replay(p) : Replay(p)[i] \in (since[p] + 1) .. count[p]
        BY <3>1, <4>1, IntervalType DEF Replay
      <4>4. QED
        BY <4>2, <4>3
    <3>2. CASE ~(since[p] > 0)
      BY <3>2 DEF Replay
    <3>3. QED
      BY <3>1, <3>2
  <2>3. QED
    BY <1>0, <2>1, <2>2 DEF IInv, MirrorIsPrefix, CreateOnce, AllCommitted
<1>8. CASE Forward(p)
  <2>1. /\ queue[p] # <<>> /\ wire'[p] = Append(wire[p], Head(queue[p]))
        /\ queue'[p] = Tail(queue[p])
        /\ UNCHANGED <<count, applied, root, boot, cursor, page>>
    BY <1>0, <1>8 DEF Forward, TypeOK, mirror, booting
  <2>2. /\ \A i \in DOMAIN queue'[p] :
              i + 1 \in DOMAIN queue[p] /\ queue'[p][i] = queue[p][i + 1]
        /\ 1 \in DOMAIN queue[p] /\ Head(queue[p]) = queue[p][1]
    BY <1>0, <2>1, TailElements
  <2>3. \A i \in DOMAIN wire'[p] :
           \/ wire'[p][i] = Head(queue[p])
           \/ i \in DOMAIN wire[p] /\ wire'[p][i] = wire[p][i]
    <3>1. Head(queue[p]) \in Transition
      BY <1>0, <2>1
    <3>2. QED
      BY <1>0, <2>1, <3>1, AppendElements
  <2>4. /\ \A i \in DOMAIN queue'[p] : queue'[p][i] \in 2 .. count[p]
        /\ \A i \in DOMAIN wire'[p] : wire'[p][i] \in 2 .. count[p]
    BY <2>2, <2>3 DEF IInv, AllCommitted
  <2>5. QED
    BY <1>0, <2>1, <2>4 DEF IInv, MirrorIsPrefix, CreateOnce, AllCommitted
<1>9. CASE Receive(p)
  <2>1. /\ wire[p] # <<>> /\ wire'[p] = Tail(wire[p])
        /\ UNCHANGED <<count, boot, cursor, page, queue>>
    BY <1>0, <1>9 DEF Receive, TypeOK, booting
  <2>2. /\ \A i \in DOMAIN wire'[p] :
              i + 1 \in DOMAIN wire[p] /\ wire'[p][i] = wire[p][i + 1]
        /\ 1 \in DOMAIN wire[p] /\ Head(wire[p]) = wire[p][1]
    BY <1>0, <2>1, TailElements
  <2>3. /\ \A i \in DOMAIN wire'[p] : wire'[p][i] \in 2 .. count[p]
        /\ Head(wire[p]) \in 2 .. count[p]
    BY <2>2 DEF IInv, AllCommitted
  <2>4. /\ Head(wire[p]) \in Transition /\ Head(wire[p]) # 1
        /\ Head(wire[p]) <= count[p]
    <3>1. Head(wire[p]) \in Transition
      BY <1>0, <2>1
    <3>2. count[p] \in Nat
      BY <1>0
    <3>3. QED
      BY <2>3, <3>1, <3>2
  <2>5. CASE Applicable(Head(wire[p]))
    <3>1. Apply(Head(wire[p]))
      BY <1>9, <2>5 DEF Receive
    <3>2. /\ Len(applied') = Len(applied) + 1 /\ Head(wire[p]) = Len(applied) + 1
          /\ MirrorIsPrefix'
      BY <1>0, <2>4, <2>5, <3>1, ApplyNext DEF IInv
    <3>3. applied # <<>>
      BY <1>0, <2>4, <3>2
    <3>4. Len(applied') <= count[p]
      BY <2>4, <3>2
    <3>5. QED
      BY <1>0, <2>1, <2>3, <3>2, <3>3, <3>4 DEF IInv, CreateOnce, AllCommitted
  <2>6. CASE ~Applicable(Head(wire[p]))
    <3>1. UNCHANGED <<applied, root>>
      BY <1>9, <2>6 DEF Receive, mirror
    <3>2. QED
      BY <1>0, <2>1, <2>3, <3>1 DEF IInv, MirrorIsPrefix, CreateOnce, AllCommitted
  <2>7. QED
    BY <2>5, <2>6
<1>10. CASE Break(p)
  <2>1. /\ queue'[p] = <<>> /\ wire'[p] = <<>>
        /\ UNCHANGED <<count, applied, root, boot, cursor, page>>
    BY <1>0, <1>10 DEF Break, TypeOK, mirror, booting
  <2>2. QED
    BY <1>0, <2>1 DEF IInv, MirrorIsPrefix, CreateOnce, AllCommitted
<1>11. CASE Restart
  <2>1. /\ queue'[p] = <<>> /\ wire'[p] = <<>> /\ page'[p] = <<>>
        /\ boot'[p] = "start" /\ count' = count
    BY <1>11 DEF Restart, Fresh
  <2>2. MirrorIsPrefix' /\ Len(applied') <= count[p]
    BY <1>0, <1>11 DEF Restart, IInv, MirrorIsPrefix, AllCommitted, mirror
  <2>3. QED
    BY <1>0, <2>1, <2>2 DEF IInv, CreateOnce, AllCommitted
<1>12. CASE GetLogFails(p)
  <2>1. /\ boot'[p] = "failed"
        /\ UNCHANGED <<count, applied, root, cursor, page, queue, wire>>
    BY <1>0, <1>12 DEF GetLogFails, TypeOK, mirror, stream
  <2>2. QED
    BY <1>0, <1>12, <2>1 DEF GetLogFails, IInv, MirrorIsPrefix, CreateOnce, AllCommitted
<1>13. CASE UNCHANGED vars
  BY <1>0, <1>13 DEF vars, mirror, booting, stream, IInv, MirrorIsPrefix, CreateOnce,
                     AllCommitted
<1>14. QED
  BY <1>1, <1>2, <1>3, <1>4, <1>5, <1>6, <1>7, <1>8, <1>9, <1>10, <1>11, <1>12, <1>13
     DEF Next, Pull, Follow, Fail

\* However the two goroutines, the peer's commits, broken streams and restarts
\* interleave, the mirror of one peer holds a prefix of the peer's history, at
\* its root.
THEOREM PrefixMirrored ==
    ASSUME NEW p, Peer = {p}, DistinctHistory
    PROVE  Spec => []MirrorIsPrefix
<1>1. Init => IInv(p)
  BY PrefixInit
<1>2. IInv(p) /\ [Next]_vars => IInv(p)'
  BY PrefixStep
<1>3. IInv(p) => MirrorIsPrefix
  BY DEF IInv
<1>4. QED
  BY <1>1, <1>2, <1>3, PTL DEF Spec

-----------------------------------------------------------------------------
LEMMA LongestIs ==
    ASSUME NEW p, Peer = {p}, count[p] \in Nat
    PROVE  Longest = count[p]
<1>1. {count[q] : q \in Peer} = {count[p]}
  OBVIOUS
<1>2. \A q \in Peer : count[q] <= count[p]
  OBVIOUS
<1>3. QED
  BY <1>1, <1>2 DEF Longest

\* A transition that Apply takes is a copy of the next one of the peer's log.
LEMMA ApplyCopies ==
    ASSUME NEW p, Peer = {p}, DistinctHistory, IInv(p), NEW t \in 1 .. count[p],
           Applicable(t), t = 1 => applied = <<>>, Apply(t), count' = count,
           Longest = count[p], Longest' = count[p]
    PROVE  Log!Copy
<1>1. TypeOK /\ count[p] \in 0 .. Last /\ Last \in Nat
  BY MirrorAssumption DEF IInv, TypeOK
<1>2. t \in Transition
  BY <1>1 DEF Transition
<1>3. Len(applied) \in Nat /\ Len(applied) <= count[p]
  <2>1. applied \in Seq(Transition)
    BY <1>1 DEF TypeOK
  <2>2. QED
    BY <2>1 DEF IInv, AllCommitted
<1>4. Len(applied) <= Last
  BY <1>1, <1>3
<1>5. t = Len(applied) + 1 /\ applied' = Append(applied, Len(applied) + 1)
  BY <1>1, <1>2, <1>4, ApplyNext DEF IInv
<1>6. QED
  BY <1>1, <1>3, <1>5 DEF Log!Copy

LEMMA CopyStep ==
    ASSUME NEW p, Peer = {p}, DistinctHistory, IInv(p), IInv(p)', [Next]_vars
    PROVE  [Log!Next]_<<Longest, applied>>
<1> p \in Peer
  OBVIOUS
<1>1. /\ count[p] \in Nat /\ count'[p] \in Nat
      /\ page[p] \in Seq(Transition) /\ wire[p] \in Seq(Transition)
      /\ count \in [Peer -> 0 .. Last]
  <2>1. TypeOK /\ TypeOK'
    BY DEF IInv
  <2>2. count[p] \in 0 .. Last /\ count'[p] \in 0 .. Last
    BY <2>1 DEF TypeOK
  <2>3. QED
    BY <2>1, <2>2, MirrorAssumption DEF TypeOK
<1>2. Longest = count[p]
  BY <1>1, LongestIs
<1>3. Longest' = count'[p]
  <2>1. {count'[q] : q \in Peer} = {count'[p]}
    OBVIOUS
  <2>2. \A q \in Peer : count'[q] <= count'[p]
    BY <1>1
  <2>3. QED
    BY <2>1, <2>2 DEF Longest
<1>4. CASE Commit(p)
  <2>1. count'[p] = count[p] + 1 /\ applied' = applied
    BY <1>1, <1>4 DEF Commit, mirror
  <2>2. QED
    BY <1>2, <1>3, <2>1 DEF Log!Next, Log!Commit
<1>5. CASE ApplyPage(p)
  <2>1. /\ boot[p] = "apply" /\ page[p] # <<>> /\ Apply(Head(page[p]))
        /\ Applicable(Head(page[p])) /\ count' = count
    BY <1>5 DEF ApplyPage, IInv, TypeOK
  <2>2. 1 \in DOMAIN page[p] /\ Head(page[p]) = page[p][1]
    BY <1>1, <2>1, TailElements
  <2>3. Head(page[p]) \in 1 .. count[p] /\ (Head(page[p]) = 1 => applied = <<>>)
    BY <2>1, <2>2 DEF IInv, CreateOnce, AllCommitted
  <2>4. QED
    BY <1>2, <1>3, <2>1, <2>3, ApplyCopies DEF Log!Next
<1>6. CASE Receive(p)
  <2>1. wire[p] # <<>> /\ count' = count
    BY <1>6 DEF Receive
  <2>2. 1 \in DOMAIN wire[p] /\ Head(wire[p]) = wire[p][1]
    BY <1>1, <2>1, TailElements
  <2>3. Head(wire[p]) \in 2 .. count[p]
    BY <2>2 DEF IInv, AllCommitted
  <2>4. Head(wire[p]) \in 1 .. count[p] /\ Head(wire[p]) # 1
    BY <1>1, <2>3
  <2>5. CASE Applicable(Head(wire[p]))
    <3>1. Apply(Head(wire[p]))
      BY <1>6, <2>5 DEF Receive
    <3>2. QED
      BY <1>2, <1>3, <2>1, <2>4, <2>5, <3>1, ApplyCopies DEF Log!Next
  <2>6. CASE ~Applicable(Head(wire[p]))
    BY <1>2, <1>3, <1>6, <2>1, <2>6 DEF Receive, mirror
  <2>7. QED
    BY <2>5, <2>6
<1>7. CASE Restart
  BY <1>2, <1>3, <1>7 DEF Restart, mirror, Log!Next, Log!StartOver
<1>8. CASE \/ BeginBootstrap(p) \/ GetLog(p) \/ RefusePage(p) \/ Dial(p)
           \/ Subscribe(p) \/ GoLive(p) \/ Forward(p) \/ Fail(p)
  <2>1. count' = count /\ applied' = applied
    BY <1>8 DEF BeginBootstrap, GetLog, RefusePage, Dial, Subscribe, GoLive, Forward,
                Fail, GetLogFails, Break, mirror
  <2>2. QED
    BY <1>2, <1>3, <2>1
<1>9. CASE UNCHANGED vars
  BY <1>2, <1>3, <1>9 DEF vars, mirror
<1>10. QED
  BY <1>4, <1>5, <1>6, <1>7, <1>8, <1>9 DEF Next, Pull, Follow, Fail

\* The mirror of one peer implements the copying of a log: every step of its
\* goroutines takes the next transition the peer has committed, or none.
THEOREM MirrorCopies ==
    ASSUME NEW p, Peer = {p}, DistinctHistory
    PROVE  Spec => CopiesTheLog
<1>1. Init => IInv(p)
  BY PrefixInit
<1>2. IInv(p) /\ [Next]_vars => IInv(p)'
  BY PrefixStep
<1>3. Init => Log!Init
  <2> SUFFICES ASSUME Init PROVE Log!Init
    OBVIOUS
  <2>2. count[p] \in Nat
    <3>1. count[p] \in 0 .. Last
      BY PrefixInit, MirrorAssumption DEF IInv, TypeOK
    <3>2. QED
      BY <3>1, MirrorAssumption
  <2>3. QED
    BY <2>2, LongestIs DEF Init, Log!Init
<1>4. IInv(p) /\ IInv(p)' /\ [Next]_vars => [Log!Next]_<<Longest, applied>>
  BY CopyStep
<1>5. QED
  BY <1>1, <1>2, <1>3, <1>4, PTL DEF Spec, CopiesTheLog, Log!Spec
=============================================================================
