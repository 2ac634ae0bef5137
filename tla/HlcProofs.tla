----------------------------- MODULE HlcProofs -----------------------------
(***************************************************************************)
(* Theorems about Hlc and HlcHosts, for any number of hosts, any skews and *)
(* any counter width, partition window and drift limit.                    *)
(***************************************************************************)
EXTENDS HlcHosts, TLAPS

\* Before is a strict order on clock values.
LEMMA BeforeTransitive ==
    ASSUME NEW a \in HLC, NEW b \in HLC, NEW c \in HLC
    PROVE  /\ NotAfter(a, b) /\ Before(b, c) => Before(a, c)
           /\ NotAfter(a, b) /\ NotAfter(b, c) => NotAfter(a, c)
  BY DEF HLC, Before, NotAfter

\* A bumped value is well formed and later than any value it was bumped from.
LEMMA BumpLater ==
    ASSUME NEW w \in Nat, NEW c \in 0 .. MaxCounter
    PROVE  /\ Bump(w, c) \in HLC
           /\ \A a \in HLC : a.wall < w \/ (a.wall = w /\ a.counter <= c)
                                => Before(a, Bump(w, c))
           /\ Bump(w, c).wall >= w
           /\ Bump(w, c).wall <= w + 1
  BY HlcAssumption DEF HLC, Bump, Carries, Before

\* Tick's documented properties: strictly later than the cursor, at or after
\* the wall clock, and at most one carry above both.
LEMMA TickLater ==
    ASSUME NEW a \in HLC, NEW n \in Nat
    PROVE  /\ Tick(a, n) \in HLC
           /\ Before(a, Tick(a, n))
           /\ Tick(a, n).wall >= n
           /\ Tick(a, n).wall <= Larger(a.wall, n) + 1
<1>0. a.wall \in Nat /\ a.counter \in 0 .. MaxCounter /\ 0 \in 0 .. MaxCounter
  BY HlcAssumption DEF HLC
<1>1. CASE a.wall >= n
  <2>1. Tick(a, n) = Bump(a.wall, a.counter)
    BY <1>1 DEF Tick
  <2>2. Larger(a.wall, n) >= a.wall
    BY <1>0 DEF Larger
  <2>3. Larger(a.wall, n) \in Nat
    BY <1>0 DEF Larger
  <2>4. Bump(a.wall, a.counter).wall \in Nat
    BY <1>0, BumpLater DEF HLC
  <2> QED
    BY <1>0, <1>1, <2>1, <2>2, <2>3, <2>4, BumpLater
<1>2. CASE ~(a.wall >= n) /\ Pending(a, n)
  <2>1. Tick(a, n) = Bump(n, a.counter)
    BY <1>2 DEF Tick
  <2>2. a.wall < n
    BY <1>0, <1>2
  <2>3. Larger(a.wall, n) = n
    BY <1>0, <2>2 DEF Larger
  <2> QED
    BY <1>0, <2>1, <2>2, <2>3, BumpLater
<1>3. CASE ~(a.wall >= n) /\ ~Pending(a, n)
  <2>1. Tick(a, n) = [wall |-> n, counter |-> 0]
    BY <1>3 DEF Tick
  <2> QED
    BY <1>0, <1>3, <2>1 DEF HLC, Before, Larger
<1> QED
  BY <1>1, <1>2, <1>3

\* Observe's documented properties: strictly later than the cursor and than
\* the remote value, and at most one carry above all three inputs.
LEMMA ObserveLater ==
    ASSUME NEW a \in HLC, NEW r \in HLC, NEW n \in Nat
    PROVE  /\ Observe(a, r, n) \in HLC
           /\ Before(a, Observe(a, r, n))
           /\ Before(r, Observe(a, r, n))
           /\ Observe(a, r, n).wall <= Larger(Larger(a.wall, r.wall), n) + 1
<1> DEFINE m == Larger(Larger(n, a.wall), r.wall)
<1>0. /\ a.wall \in Nat /\ a.counter \in 0 .. MaxCounter
      /\ r.wall \in Nat /\ r.counter \in 0 .. MaxCounter
      /\ 0 \in 0 .. MaxCounter
  BY HlcAssumption DEF HLC
<1>1. /\ m \in Nat /\ n <= m /\ a.wall <= m /\ r.wall <= m
      /\ m = Larger(Larger(a.wall, r.wall), n)
  BY <1>0 DEF Larger
<1>2. Larger(a.counter, r.counter) \in 0 .. MaxCounter
  BY <1>0 DEF Larger
<1>3. a.counter <= Larger(a.counter, r.counter) /\ r.counter <= Larger(a.counter, r.counter)
  BY <1>0 DEF Larger
<1>4. Observe(a, r, n) =
        IF r.wall = m /\ a.wall = m THEN Bump(m, Larger(a.counter, r.counter))
        ELSE IF r.wall = m THEN Bump(m, r.counter)
        ELSE IF a.wall = m THEN Bump(m, a.counter)
        ELSE [wall |-> m, counter |-> 0]
  BY DEF Observe
<1> HIDE DEF m
<1>5. CASE r.wall = m /\ a.wall = m
  <2>1. Observe(a, r, n) = Bump(m, Larger(a.counter, r.counter))
    BY <1>4, <1>5
  <2> QED
    BY <1>0, <1>1, <1>2, <1>3, <1>5, <2>1, BumpLater
<1>6. CASE r.wall = m /\ a.wall # m
  <2>1. Observe(a, r, n) = Bump(m, r.counter)
    BY <1>4, <1>6
  <2>2. a.wall < m
    BY <1>0, <1>1, <1>6
  <2>3. r.wall = m /\ r.counter <= r.counter
    BY <1>0, <1>6
  <2> QED
    BY <1>0, <1>1, <2>1, <2>2, <2>3, BumpLater
<1>7. CASE r.wall # m /\ a.wall = m
  <2>1. Observe(a, r, n) = Bump(m, a.counter)
    BY <1>4, <1>7
  <2>2. r.wall < m
    BY <1>0, <1>1, <1>7
  <2>3. a.wall = m /\ a.counter <= a.counter
    BY <1>0, <1>7
  <2> QED
    BY <1>0, <1>1, <2>1, <2>2, <2>3, BumpLater
<1>8. CASE r.wall # m /\ a.wall # m
  <2>1. Observe(a, r, n) = [wall |-> m, counter |-> 0]
    BY <1>4, <1>8
  <2>2. a.wall < m /\ r.wall < m
    BY <1>0, <1>1, <1>8
  <2> QED
    BY <1>0, <1>1, <2>1, <2>2 DEF HLC, Before
<1> QED
  BY <1>5, <1>6, <1>7, <1>8

-----------------------------------------------------------------------------
(***************************************************************************)
(* The inductive invariant: every stamp a host authored or merged is at or *)
(* below its cursor, and a transition past the drift check is within the   *)
(* limit of a clock reading the host acted on.                             *)
(***************************************************************************)
KnownBelow == \A h \in Host : \A p \in known[h] : NotAfter(p, cursor[h])

CheckedWithin ==
    \A h \in Host : \A t \in checked[h] : t.hlc.wall <= peak[h] + MaxDrift

IInv == TypeOK /\ KnownBelow /\ CheckedWithin /\ HappenedBefore /\ DriftBounded

LEMMA InitInv == Init => IInv
<1> SUFFICES ASSUME Init PROVE IInv
  OBVIOUS
<1> USE HlcAssumption, HostsAssumption
<1>1. TypeOK
  BY DEF Init, TypeOK, HLC, Zero
<1>2. KnownBelow /\ CheckedWithin /\ HappenedBefore /\ DriftBounded
  BY DEF Init, KnownBelow, CheckedWithin, HappenedBefore, DriftBounded, Zero
<1> QED
  BY <1>1, <1>2 DEF IInv

\* A host's clock reads a natural number.
LEMMA ClockType ==
    ASSUME TypeOK, NEW h \in Host
    PROVE  Clock(h) \in Nat
<1>1. skew[h] \in Skew /\ now \in Nat /\ now >= Start
  BY DEF TypeOK
<1>2. skew[h] \in Int /\ Start \in Nat /\ Start + skew[h] >= 0
  BY <1>1, HostsAssumption
<1>3. now + skew[h] \in Int /\ now + skew[h] >= 0
  BY <1>1, <1>2
<1> QED
  BY <1>3 DEF Clock

\* What a local tick does to the cursor, the peak and the carries.
LEMMA TickCursorInv ==
    ASSUME IInv, NEW h \in Host, TickCursor(h)
    PROVE  /\ cursor' \in [Host -> HLC] /\ peak' \in [Host -> Nat]
           /\ carries' \in [Host -> Nat]
           /\ Before(cursor[h], cursor'[h])
           /\ \A g \in Host \ {h} : cursor'[g] = cursor[g]
           /\ \A g \in Host : peak'[g] >= peak[g] /\ NotAfter(cursor[g], cursor'[g])
           /\ DriftBounded'
<1> USE HostsAssumption
<1> DEFINE n == Clock(h)
<1>1. n \in Nat /\ cursor[h] \in HLC /\ peak[h] \in Nat /\ carries[h] \in Nat
  BY ClockType DEF IInv, TypeOK
<1>2. /\ Tick(cursor[h], n) \in HLC
      /\ Before(cursor[h], Tick(cursor[h], n))
      /\ Tick(cursor[h], n).wall <= Larger(cursor[h].wall, n) + 1
  BY <1>1, TickLater
<1>3. cursor' = [cursor EXCEPT ![h] = Tick(cursor[h], n)]
  BY DEF TickCursor
<1>4. /\ cursor' \in [Host -> HLC] /\ cursor'[h] = Tick(cursor[h], n)
      /\ \A g \in Host \ {h} : cursor'[g] = cursor[g]
  BY <1>2, <1>3 DEF IInv, TypeOK
<1>5. /\ peak' \in [Host -> Nat] /\ peak'[h] = Larger(peak[h], n)
      /\ \A g \in Host \ {h} : peak'[g] = peak[g]
  BY <1>1 DEF TickCursor, SeeClock, IInv, TypeOK, Larger
<1>6. /\ carries' \in [Host -> Nat]
      /\ \A g \in Host \ {h} : carries'[g] = carries[g]
      /\ carries'[h] = IF cursor'[h].wall > Larger(cursor[h].wall, n)
                       THEN carries[h] + 1 ELSE carries[h]
  BY <1>1 DEF TickCursor, Carried, IInv, TypeOK
<1>7. DriftBounded'
  <2>1. ASSUME NEW g \in Host \ {h}
        PROVE  cursor'[g].wall <= peak'[g] + MaxDrift + carries'[g]
    BY <1>4, <1>5, <1>6 DEF IInv, DriftBounded
  <2>2. cursor[h].wall <= peak[h] + MaxDrift + carries[h]
    BY DEF IInv, DriftBounded
  <2>3. cursor[h].wall \in Nat /\ cursor'[h].wall \in Nat
    BY <1>1, <1>2, <1>4 DEF HLC
  <2>4. cursor'[h].wall <= Larger(cursor[h].wall, n) + 1
    BY <1>2, <1>4
  <2>5. cursor'[h].wall <= peak'[h] + MaxDrift + carries'[h]
    BY <1>1, <1>5, <1>6, <2>2, <2>3, <2>4 DEF Larger
  <2> QED
    BY <2>1, <2>5 DEF DriftBounded
<1>8. \A g \in Host : peak'[g] >= peak[g] /\ NotAfter(cursor[g], cursor'[g])
  <2>1. \A g \in Host : peak[g] \in Nat
    BY DEF IInv, TypeOK
  <2> QED
    BY <1>1, <1>2, <1>4, <1>5, <2>1 DEF Larger, NotAfter
<1> QED
  BY <1>2, <1>4, <1>5, <1>6, <1>7, <1>8

\* A merge does the same to them, and the merged stamp ends up below.
LEMMA MergeInv ==
    ASSUME IInv, NEW h \in Host, NEW t \in checked[h], Merge(h, t)
    PROVE  /\ cursor' \in [Host -> HLC] /\ peak' \in [Host -> Nat]
           /\ carries' \in [Host -> Nat]
           /\ Before(cursor[h], cursor'[h]) /\ Before(t.hlc, cursor'[h])
           /\ \A g \in Host \ {h} : cursor'[g] = cursor[g]
           /\ \A g \in Host : peak'[g] >= peak[g] /\ NotAfter(cursor[g], cursor'[g])
           /\ t.hlc \in HLC
           /\ DriftBounded'
<1> USE HostsAssumption
<1> DEFINE n == Clock(h)
<1>1. n \in Nat /\ cursor[h] \in HLC /\ peak[h] \in Nat /\ carries[h] \in Nat
  BY ClockType DEF IInv, TypeOK
<1>0. t.hlc \in HLC
  <2>1. t \in sent /\ sent \subseteq Transition
    BY DEF IInv, TypeOK
  <2> QED
    BY <2>1 DEF Transition
<1>2. /\ Observe(cursor[h], t.hlc, n) \in HLC
      /\ Before(cursor[h], Observe(cursor[h], t.hlc, n))
      /\ Before(t.hlc, Observe(cursor[h], t.hlc, n))
      /\ Observe(cursor[h], t.hlc, n).wall
            <= Larger(Larger(cursor[h].wall, t.hlc.wall), n) + 1
  BY <1>0, <1>1, ObserveLater
<1>3. cursor' = [cursor EXCEPT ![h] = Observe(cursor[h], t.hlc, n)]
  BY DEF Merge
<1>4. /\ cursor' \in [Host -> HLC] /\ cursor'[h] = Observe(cursor[h], t.hlc, n)
      /\ \A g \in Host \ {h} : cursor'[g] = cursor[g]
  BY <1>2, <1>3 DEF IInv, TypeOK
<1>5. /\ peak' \in [Host -> Nat] /\ peak'[h] = Larger(peak[h], n)
      /\ \A g \in Host \ {h} : peak'[g] = peak[g]
  BY <1>1 DEF Merge, SeeClock, IInv, TypeOK, Larger
<1>6. /\ carries' \in [Host -> Nat]
      /\ \A g \in Host \ {h} : carries'[g] = carries[g]
      /\ carries'[h] = IF cursor'[h].wall > Larger(Larger(cursor[h].wall, t.hlc.wall), n)
                       THEN carries[h] + 1 ELSE carries[h]
  BY <1>1 DEF Merge, Carried, IInv, TypeOK
<1>7. DriftBounded'
  <2>1. ASSUME NEW g \in Host \ {h}
        PROVE  cursor'[g].wall <= peak'[g] + MaxDrift + carries'[g]
    BY <1>4, <1>5, <1>6 DEF IInv, DriftBounded
  <2>2. /\ cursor[h].wall <= peak[h] + MaxDrift + carries[h]
        /\ t.hlc.wall <= peak[h] + MaxDrift
    BY DEF IInv, DriftBounded, CheckedWithin
  <2>3. cursor[h].wall \in Nat /\ cursor'[h].wall \in Nat /\ t.hlc.wall \in Nat
    BY <1>0, <1>1, <1>2, <1>4 DEF HLC
  <2>4. cursor'[h].wall <= Larger(Larger(cursor[h].wall, t.hlc.wall), n) + 1
    BY <1>2, <1>4
  <2>5. cursor'[h].wall <= peak'[h] + MaxDrift + carries'[h]
    BY <1>1, <1>5, <1>6, <2>2, <2>3, <2>4 DEF Larger
  <2> QED
    BY <2>1, <2>5 DEF DriftBounded
<1>8. \A g \in Host : peak'[g] >= peak[g] /\ NotAfter(cursor[g], cursor'[g])
  <2>1. \A g \in Host : peak[g] \in Nat
    BY DEF IInv, TypeOK
  <2> QED
    BY <1>1, <1>2, <1>4, <1>5, <2>1 DEF Larger, NotAfter
<1> QED
  BY <1>0, <1>2, <1>4, <1>5, <1>6, <1>7, <1>8

\* Cursors that only move forward keep every known stamp below them.
LEMMA KnownStaysBelow ==
    ASSUME IInv, cursor' \in [Host -> HLC],
           \A g \in Host : NotAfter(cursor[g], cursor'[g]),
           NEW g \in Host, NEW p \in known[g]
    PROVE  NotAfter(p, cursor'[g])
<1>1. p \in HLC /\ cursor[g] \in HLC /\ cursor'[g] \in HLC
  BY DEF IInv, TypeOK
<1>2. NotAfter(p, cursor[g]) /\ NotAfter(cursor[g], cursor'[g])
  BY DEF IInv, KnownBelow
<1> QED
  BY <1>1, <1>2, BeforeTransitive

LEMMA NextInv == IInv /\ [Next]_vars => IInv'
<1> SUFFICES ASSUME IInv, [Next]_vars PROVE IInv'
  OBVIOUS
<1> USE HostsAssumption
<1>1. ASSUME NEW h \in Host, Submit(h) PROVE IInv'
  <2> DEFINE t == [from |-> h, hlc |-> cursor'[h], past |-> known[h]]
  <2>0. TickCursor(h)
    BY <1>1 DEF Submit
  <2>1. /\ sent' = sent \cup {t}
        /\ known' = [known EXCEPT ![h] = @ \cup {cursor'[h]}]
        /\ UNCHANGED <<now, skew, checked, dropped>>
    BY <1>1 DEF Submit
  <2>2. TypeOK'
    BY <2>0, <2>1, TickCursorInv DEF IInv, TypeOK, Transition
  <2>3. KnownBelow'
    <3> SUFFICES ASSUME NEW g \in Host, NEW p \in known'[g]
                 PROVE  NotAfter(p, cursor'[g])
      BY DEF KnownBelow
    <3>1. p \in known[g] \/ (g = h /\ p = cursor'[h])
      BY <2>1 DEF IInv, TypeOK
    <3>2. CASE p \in known[g]
      BY <2>0, <3>2, TickCursorInv, KnownStaysBelow
    <3>3. CASE g = h /\ p = cursor'[h]
      BY <3>3 DEF NotAfter
    <3> QED
      BY <3>1, <3>2, <3>3
  <2>4. CheckedWithin'
    BY <2>0, <2>1, TickCursorInv DEF IInv, TypeOK, CheckedWithin, Transition, HLC
  <2>5. HappenedBefore'
    <3> SUFFICES ASSUME NEW u \in sent', NEW p \in u.past
                 PROVE  Before(p, u.hlc)
      BY DEF HappenedBefore
    <3>1. CASE u \in sent
      BY <3>1 DEF IInv, HappenedBefore
    <3>2. CASE u = t
      <4>1. p \in known[h] /\ u.hlc = cursor'[h]
        BY <3>2
      <4>2. p \in HLC /\ cursor[h] \in HLC /\ cursor'[h] \in HLC
        BY <2>0, <4>1, TickCursorInv DEF IInv, TypeOK
      <4>3. NotAfter(p, cursor[h]) /\ Before(cursor[h], cursor'[h])
        BY <2>0, <4>1, TickCursorInv DEF IInv, KnownBelow
      <4> QED
        BY <4>1, <4>2, <4>3, BeforeTransitive
    <3> QED
      BY <2>1, <3>1, <3>2
  <2> QED
    BY <2>0, <2>2, <2>3, <2>4, <2>5, TickCursorInv DEF IInv
<1>2. ASSUME NEW h \in Host, SubmitRefused(h) PROVE IInv'
  <2>0. TickCursor(h) /\ UNCHANGED <<now, skew, checked, dropped, sent, known>>
    BY <1>2 DEF SubmitRefused
  <2>1. TypeOK'
    BY <2>0, TickCursorInv DEF IInv, TypeOK
  <2>2. KnownBelow'
    BY <2>0, TickCursorInv, KnownStaysBelow DEF KnownBelow
  <2>3. CheckedWithin'
    BY <2>0, TickCursorInv DEF IInv, TypeOK, CheckedWithin, Transition, HLC
  <2>4. HappenedBefore'
    BY <2>0 DEF IInv, HappenedBefore
  <2> QED
    BY <2>0, <2>1, <2>2, <2>3, <2>4, TickCursorInv DEF IInv
<1>3. ASSUME NEW h \in Host, NEW t \in sent, Accept(h, t) PROVE IInv'
  <2>0. Clock(h) \in Nat
    BY ClockType DEF IInv
  <2>1. /\ checked' = [checked EXCEPT ![h] = @ \cup {t}]
        /\ peak' = [peak EXCEPT ![h] = Larger(@, Clock(h))]
        /\ t.hlc.wall <= Clock(h) + MaxDrift
        /\ UNCHANGED <<now, skew, cursor, dropped, sent, known, carries>>
    BY <1>3 DEF Accept, SeeClock, WithinDrift
  <2>2. /\ peak' \in [Host -> Nat]
        /\ \A g \in Host : peak'[g] >= peak[g]
        /\ peak'[h] >= Clock(h)
    BY <2>0, <2>1 DEF IInv, TypeOK, Larger
  <2>3. TypeOK'
    BY <2>1, <2>2 DEF IInv, TypeOK
  <2>4. CheckedWithin'
    <3> SUFFICES ASSUME NEW g \in Host, NEW u \in checked'[g]
                 PROVE  u.hlc.wall <= peak'[g] + MaxDrift
      BY DEF CheckedWithin
    <3>1. u \in checked[g] \/ (g = h /\ u = t)
      BY <2>1 DEF IInv, TypeOK
    <3>2. u.hlc.wall \in Nat /\ peak[g] \in Nat /\ peak'[g] \in Nat
      BY <2>2, <3>1 DEF IInv, TypeOK, Transition, HLC
    <3>3. CASE u \in checked[g]
      BY <2>2, <3>2, <3>3 DEF IInv, CheckedWithin
    <3>4. CASE g = h /\ u = t
      BY <2>0, <2>1, <2>2, <3>2, <3>4
    <3> QED
      BY <3>1, <3>3, <3>4
  <2>5. KnownBelow' /\ HappenedBefore'
    BY <2>1 DEF IInv, KnownBelow, HappenedBefore
  <2>6. DriftBounded'
    BY <2>1, <2>2 DEF IInv, TypeOK, DriftBounded, HLC
  <2> QED
    BY <2>3, <2>4, <2>5, <2>6 DEF IInv
<1>4. ASSUME NEW h \in Host, NEW t \in sent, Drop(h, t) PROVE IInv'
  <2>0. Clock(h) \in Nat
    BY ClockType DEF IInv
  <2>1. /\ dropped' = [dropped EXCEPT ![h] = @ \cup {t}]
        /\ peak' = [peak EXCEPT ![h] = Larger(@, Clock(h))]
        /\ UNCHANGED <<now, skew, cursor, checked, sent, known, carries>>
    BY <1>4 DEF Drop, SeeClock
  <2>2. peak' \in [Host -> Nat] /\ \A g \in Host : peak'[g] >= peak[g]
    BY <2>0, <2>1 DEF IInv, TypeOK, Larger
  <2>3. TypeOK'
    BY <2>1, <2>2 DEF IInv, TypeOK
  <2>4. CheckedWithin'
    BY <2>1, <2>2 DEF IInv, TypeOK, CheckedWithin, Transition, HLC
  <2>5. KnownBelow' /\ HappenedBefore'
    BY <2>1 DEF IInv, KnownBelow, HappenedBefore
  <2>6. DriftBounded'
    BY <2>1, <2>2 DEF IInv, TypeOK, DriftBounded, HLC
  <2> QED
    BY <2>3, <2>4, <2>5, <2>6 DEF IInv
<1>5. ASSUME NEW h \in Host, NEW t \in checked[h], Merge(h, t) PROVE IInv'
  <2>1. /\ checked' = [checked EXCEPT ![h] = @ \ {t}]
        /\ known' = [known EXCEPT ![h] = @ \cup {t.hlc}]
        /\ UNCHANGED <<now, skew, dropped, sent>>
    BY <1>5 DEF Merge
  <2>2. TypeOK'
    BY <1>5, <2>1, MergeInv DEF IInv, TypeOK
  <2>3. KnownBelow'
    <3> SUFFICES ASSUME NEW g \in Host, NEW p \in known'[g]
                 PROVE  NotAfter(p, cursor'[g])
      BY DEF KnownBelow
    <3>1. p \in known[g] \/ (g = h /\ p = t.hlc)
      BY <2>1 DEF IInv, TypeOK
    <3>2. CASE p \in known[g]
      BY <1>5, <3>2, MergeInv, KnownStaysBelow
    <3>3. CASE g = h /\ p = t.hlc
      BY <1>5, <3>3, MergeInv DEF NotAfter
    <3> QED
      BY <3>1, <3>2, <3>3
  <2>4. CheckedWithin'
    <3> SUFFICES ASSUME NEW g \in Host, NEW u \in checked'[g]
                 PROVE  u.hlc.wall <= peak'[g] + MaxDrift
      BY DEF CheckedWithin
    <3>1. u \in checked[g]
      BY <2>1 DEF IInv, TypeOK
    <3>2. u.hlc.wall \in Nat /\ peak[g] \in Nat /\ peak'[g] \in Nat
      BY <2>2, <3>1 DEF IInv, TypeOK, Transition, HLC
    <3> QED
      BY <1>5, <3>1, <3>2, MergeInv DEF IInv, CheckedWithin
  <2>5. HappenedBefore'
    BY <2>1 DEF IInv, HappenedBefore
  <2> QED
    BY <1>5, <2>2, <2>3, <2>4, <2>5, MergeInv DEF IInv
<1>6. ASSUME Advance PROVE IInv'
  BY <1>6 DEF Advance, IInv, TypeOK, KnownBelow, CheckedWithin, HappenedBefore, DriftBounded
<1>7. ASSUME NEW h \in Host, StepClock(h) PROVE IInv'
  BY <1>7 DEF StepClock, IInv, TypeOK, KnownBelow, CheckedWithin, HappenedBefore, DriftBounded
<1>8. ASSUME UNCHANGED vars PROVE IInv'
  BY <1>8 DEF vars, IInv, TypeOK, KnownBelow, CheckedWithin, HappenedBefore, DriftBounded
<1> QED
  BY <1>1, <1>2, <1>3, <1>4, <1>5, <1>6, <1>7, <1>8
  DEF Next, Authoring, Refusing, Delivering, Merging, Stepping

LEMMA Invariance == Spec => []IInv
  BY InitInv, NextInv, PTL DEF Spec

-----------------------------------------------------------------------------
\* Every reachable state of the hosts is well typed.
THEOREM TypeCorrect == Spec => []TypeOK
<1>1. IInv => TypeOK
  BY DEF IInv
<1> QED
  BY <1>1, Invariance, PTL

\* The stamp of a transition is later than every stamp its author had seen,
\* through any chain of hosts and for any behaviour of the wall clocks.
THEOREM Causality == Spec => []HappenedBefore
<1>1. IInv => HappenedBefore
  BY DEF IInv
<1> QED
  BY <1>1, Invariance, PTL

\* The wall component of a host runs at most the drift limit and its own
\* carries ahead of the clock readings the host acted on.
THEOREM DriftIsBounded == Spec => []DriftBounded
<1>1. IInv => DriftBounded
  BY DEF IInv
<1> QED
  BY <1>1, Invariance, PTL

\* No step of any host moves a cursor back.
THEOREM CursorsNeverRegress == Spec => CursorsAdvance
<1> DEFINE A == \A h \in Host : cursor'[h] # cursor[h] => Before(cursor[h], cursor'[h])
<1>1. IInv /\ [Next]_vars => [A]_vars
  <2> SUFFICES ASSUME IInv, Next PROVE A
    OBVIOUS
  <2>1. ASSUME NEW h \in Host, TickCursor(h) PROVE A
    BY <2>1, TickCursorInv
  <2>2. ASSUME NEW h \in Host, NEW t \in checked[h], Merge(h, t) PROVE A
    BY <2>2, MergeInv
  <2>3. ASSUME UNCHANGED cursor PROVE A
    BY <2>3
  <2> QED
    BY <2>1, <2>2, <2>3 DEF Next, Authoring, Refusing, Delivering, Merging,
       Stepping, Submit, SubmitRefused, Accept, Drop, Advance, StepClock
<1> QED
  BY <1>1, Invariance, PTL DEF Spec, CursorsAdvance
=============================================================================
