--------------------------- MODULE FollowersProofs ---------------------------
(***************************************************************************)
(* Proofs about Followers: as long as no two accesses fall on the same     *)
(* moment, no slice reaches into the unused part of an array, and requests *)
(* that come one at a time leave the followers they should; a delivery     *)
(* that nothing moves goes through the entries of its list in order, each  *)
(* once; and it leaves some out only when the servers and the waits have   *)
(* filled its deadline.                                                    *)
(***************************************************************************)
EXTENDS Followers, FiniteSetTheorems, FunctionTheorems, SequenceTheorems, TLAPS

USE DEF slice, history

\* A header over the arrays A shows written cells of an array it has.
Good(A, h) ==
    /\ h.array \in 0 .. Len(A) /\ h.len \in Nat
    /\ h.array = 0 => h.len = 0
    /\ h.array # 0 => /\ h.len <= Len(A[h.array])
                      /\ \A i \in 1 .. h.len : A[h.array][i] \in Actor

\* The cells a header shows, over any arrays.
View(A, h) == IF h.array = 0 THEN <<>> ELSE SubSeq(A[h.array], 1, h.len)

Cell    == Actor \cup {Blank}
Headers == [array : Nat, len : Nat]
Request == [do : {"follow", "undo"}, actor : Actor, seen : Headers]
Sending == [at : {"new", "discover", "post", "done", "cut"}, over : Headers,
            pos : Nat \ {0}, tries : 0 .. Tries - 1, spent : 0 .. Deadline]

Busy == {h \in Handler : inbox[h] # Idle}

\* The invariant behind TypeOK: the whole of what handlers and deliveries keep.
TypeInv ==
    /\ arrays \in Seq(Seq(Cell))
    /\ list \in Headers /\ Good(arrays, list)
    /\ inbox \in [Handler -> {Idle} \cup Request]
    /\ \A h \in Busy : Good(arrays, inbox[h].seen)
    /\ sends \in [Delivery -> Sending]
    /\ \A d \in Running : /\ Good(arrays, sends[d].over)
                          /\ sends[d].pos <= sends[d].over.len
    /\ requests \in 0 .. MaxRequests /\ crashes \in 0 .. MaxCrash
    /\ booked \in Seq(Actor) /\ torn \in BOOLEAN /\ moved \subseteq Delivery
    /\ first \in [Delivery -> Seq(Actor)]
    /\ asked \in [Delivery -> Seq(Actor)] /\ took \in [Delivery -> Nat]
    /\ corrupt \in BOOLEAN

LEMMA ShownIsView == \A h : Shown(h) = View(arrays, h)
BY DEF Shown, View

\* What a good header shows.
LEMMA ViewType ==
    ASSUME NEW A \in Seq(Seq(Cell)), NEW h \in Headers, Good(A, h)
    PROVE  /\ View(A, h) \in Seq(Actor) /\ Len(View(A, h)) = h.len
           /\ \A i \in 1 .. h.len : /\ h.array # 0 /\ View(A, h)[i] = A[h.array][i]
                                    /\ i \in 1 .. Len(A[h.array])
<1>1. h.array \in Nat /\ h.len \in Nat
  BY DEF Headers
<1>2. CASE h.array = 0
  <2>1. h.len = 0 /\ View(A, h) = <<>>
    BY <1>2 DEF Good, View
  <2>2. QED
    BY <2>1
<1>3. CASE h.array # 0
  <2> DEFINE q == A[h.array]
  <2>1. q \in Seq(Cell) /\ h.len <= Len(q) /\ \A i \in 1 .. h.len : q[i] \in Actor
    BY <1>1, <1>3 DEF Good
  <2>2. View(A, h) = SubSeq(q, 1, h.len)
    BY <1>3 DEF View
  <2> HIDE DEF q
  <2>3. /\ Len(SubSeq(q, 1, h.len)) = h.len
        /\ \A i \in 1 .. h.len : SubSeq(q, 1, h.len)[i] = q[i] /\ i \in 1 .. Len(q)
        /\ SubSeq(q, 1, h.len) \in Seq(Cell)
    BY <1>1, <2>1
  <2>4. \A i \in 1 .. Len(SubSeq(q, 1, h.len)) : SubSeq(q, 1, h.len)[i] \in Actor
    BY <2>1, <2>3
  <2>5. SubSeq(q, 1, h.len) \in Seq(Actor)
    BY <2>3, <2>4
  <2>6. QED
    BY <1>3, <2>2, <2>3, <2>5 DEF q
<1>4. QED
  BY <1>2, <1>3

\* The same of the list after a step.
LEMMA ViewNext ==
    ASSUME arrays' \in Seq(Seq(Cell)), list' \in Headers, Good(arrays', list')
    PROVE  /\ View(arrays', list') \in Seq(Actor) /\ Len(View(arrays', list')) = list'.len
           /\ \A i \in 1 .. list'.len : View(arrays', list')[i] = arrays'[list'.array][i]
BY ViewType

\* Two headers over arrays with the same visible cells show the same.
LEMMA ViewSame ==
    ASSUME NEW A \in Seq(Seq(Cell)), NEW B \in Seq(Seq(Cell)), NEW h \in Headers,
           Good(A, h), Good(B, h),
           h.array # 0 => \A i \in 1 .. h.len : A[h.array][i] = B[h.array][i]
    PROVE  View(A, h) = View(B, h)
<1>1. /\ View(A, h) \in Seq(Actor) /\ Len(View(A, h)) = h.len
      /\ View(B, h) \in Seq(Actor) /\ Len(View(B, h)) = h.len
      /\ \A i \in 1 .. h.len : View(A, h)[i] = View(B, h)[i]
  BY ViewType
<1>2. QED
  BY <1>1, SeqEqual

-----------------------------------------------------------------------------
(* What the slice operations do to the arrays. *)

\* One array replaced by another of the same length.
LEMMA ReplaceArray ==
    ASSUME NEW A \in Seq(Seq(Cell)), NEW k \in 1 .. Len(A),
           NEW q \in Seq(Cell), Len(q) = Len(A[k])
    PROVE  LET B == [A EXCEPT ![k] = q]
           IN  /\ B \in Seq(Seq(Cell)) /\ Len(B) = Len(A) /\ B[k] = q
               /\ \A j \in 1 .. Len(A) : j # k => B[j] = A[j]
BY ExceptSeq

LEMMA OneCell ==
    ASSUME NEW A \in Seq(Seq(Cell)), NEW k \in 1 .. Len(A),
           NEW i \in 1 .. Len(A[k]), NEW a \in Actor
    PROVE  LET B == [A EXCEPT ![k][i] = a]
           IN  /\ B \in Seq(Seq(Cell)) /\ Len(B) = Len(A)
               /\ Len(B[k]) = Len(A[k]) /\ B[k][i] = a
               /\ \A m \in 1 .. Len(A[k]) : m # i => B[k][m] = A[k][m]
               /\ \A j \in 1 .. Len(A) : j # k => B[j] = A[j]
<1> DEFINE q == [A[k] EXCEPT ![i] = a]
<1>1. A[k] \in Seq(Cell) /\ a \in Cell
  BY DEF Cell
<1>2. /\ q \in Seq(Cell) /\ Len(q) = Len(A[k]) /\ q[i] = a
      /\ \A m \in 1 .. Len(A[k]) : m # i => q[m] = A[k][m]
  BY <1>1, ExceptSeq
<1>3. [A EXCEPT ![k][i] = a] = [A EXCEPT ![k] = q]
  OBVIOUS
<1>4. QED
  <2> HIDE DEF q
  <2>1. QED
    BY <1>2, <1>3, ReplaceArray

\* A header stays good when cells only change to hold actors.
LEMMA GoodStays ==
    ASSUME NEW A \in Seq(Seq(Cell)), NEW B \in Seq(Seq(Cell)), Len(A) <= Len(B),
           \A j \in 1 .. Len(A) :
              /\ Len(B[j]) = Len(A[j])
              /\ \A m \in 1 .. Len(A[j]) : B[j][m] = A[j][m] \/ B[j][m] \in Actor,
           NEW h \in Headers, Good(A, h)
    PROVE  Good(B, h)
<1>1. /\ h.array \in Nat /\ h.len \in Nat /\ Len(A) \in Nat /\ Len(B) \in Nat
      /\ h.array <= Len(A)
  BY DEF Headers, Good
<1>2. CASE h.array = 0
  BY <1>1, <1>2 DEF Good
<1>3. CASE h.array # 0
  <2>1. h.array \in 1 .. Len(A)
    BY <1>1, <1>3
  <2>2. A[h.array] \in Seq(Cell) /\ Len(A[h.array]) \in Nat
    BY <2>1
  <2>3. h.len <= Len(B[h.array])
    BY <1>3, <2>1 DEF Good
  <2>4. \A i \in 1 .. h.len : B[h.array][i] \in Actor
    <3>1. ASSUME NEW i \in 1 .. h.len PROVE B[h.array][i] \in Actor
      <4>1. A[h.array][i] \in Actor /\ h.len <= Len(A[h.array])
        BY <1>3 DEF Good
      <4>2. i \in 1 .. Len(A[h.array])
        BY <1>1, <2>2, <4>1
      <4>3. QED
        BY <2>1, <4>1, <4>2
    <3>2. QED
      BY <3>1
  <2>5. QED
    BY <1>1, <1>3, <2>3, <2>4 DEF Good
<1>4. QED
  BY <1>2, <1>3

\* The array append allocates.
LEMMA GrownType ==
    ASSUME arrays \in Seq(Seq(Cell)), NEW h \in Headers, Good(arrays, h), NEW a \in Actor
    PROVE  /\ Grown(h, a) \in Seq(Cell) /\ h.len + 1 <= Len(Grown(h, a))
           /\ \A i \in 1 .. h.len + 1 :
                 Grown(h, a)[i] = IF i = h.len + 1 THEN a ELSE View(arrays, h)[i]
<1> DEFINE cells == Append(Shown(h), a)
           size  == IF h.len = 0 THEN 1 ELSE 2 * h.len
           q     == [i \in 1 .. size |-> IF i <= Len(cells) THEN cells[i] ELSE Blank]
<1>1. Shown(h) \in Seq(Actor) /\ Len(Shown(h)) = h.len /\ h.len \in Nat
  BY ShownIsView, ViewType DEF Headers
<1>2. /\ cells \in Seq(Actor) /\ Len(cells) = h.len + 1
      /\ \A i \in 1 .. h.len + 1 : cells[i] = IF i = h.len + 1 THEN a ELSE Shown(h)[i]
  BY <1>1
<1>3. size \in Nat /\ h.len + 1 <= size
  BY <1>1
<1>4. Grown(h, a) = q
  BY DEF Grown
<1> HIDE DEF cells, size
<1>5. \A i \in 1 .. size : (IF i <= Len(cells) THEN cells[i] ELSE Blank) \in Cell
  <2>1. \A i \in 1 .. Len(cells) : cells[i] \in Actor
    BY <1>2, ElementOfSeq
  <2>2. QED
    BY <1>1, <1>2, <1>3, <2>1 DEF Cell
<1>6. q \in [1 .. size -> Cell]
  BY <1>5
<1>7. q \in Seq(Cell) /\ Len(q) = size
  BY <1>3, <1>6
<1>8. \A i \in 1 .. h.len + 1 : q[i] = cells[i]
  BY <1>1, <1>2, <1>3
<1> HIDE DEF q
<1>9. QED
  BY <1>2, <1>3, <1>4, <1>7, <1>8, ShownIsView

\* append: the list shows what the header showed and the new follower; headers
\* that were good stay good; only the cell behind the header, or none of the
\* arrays there were, is written.
LEMMA AppendEffect ==
    ASSUME arrays \in Seq(Seq(Cell)), NEW h \in Headers, Good(arrays, h),
           NEW a \in Actor, Append1(h, a)
    PROVE  /\ arrays' \in Seq(Seq(Cell)) /\ Len(arrays) <= Len(arrays')
           /\ list' \in Headers /\ Good(arrays', list')
           /\ View(arrays', list') = Append(View(arrays, h), a)
           /\ \A g \in Headers : Good(arrays, g) => Good(arrays', g)
           /\ list'.len = h.len + 1
           /\ \/ list'.array = Len(arrays) + 1
              \/ list'.array = h.array /\ h.array # 0
           /\ \A j \in 1 .. Len(arrays) : \A m \in 1 .. Len(arrays[j]) :
                 arrays'[j][m] = arrays[j][m] \/ (j = h.array /\ m = h.len + 1)
<1>1. /\ h.array \in 0 .. Len(arrays) /\ h.len \in Nat /\ Len(arrays) \in Nat
      /\ View(arrays, h) \in Seq(Actor) /\ Len(View(arrays, h)) = h.len
  BY ViewType DEF Good
<1>2. /\ Append(View(arrays, h), a) \in Seq(Actor)
      /\ Len(Append(View(arrays, h), a)) = h.len + 1
      /\ \A i \in 1 .. h.len + 1 :
            Append(View(arrays, h), a)[i] = IF i = h.len + 1 THEN a ELSE View(arrays, h)[i]
  BY <1>1
<1>3. CASE HasRoom(h)
  <2> DEFINE k == h.array
             n == h.len + 1
  <2>1. /\ h.array # 0 /\ h.len < Len(arrays[k]) /\ k \in 1 .. Len(arrays)
        /\ arrays[k] \in Seq(Cell) /\ Len(arrays[k]) \in Nat
    BY <1>1, <1>3 DEF HasRoom
  <2>2. n \in 1 .. Len(arrays[k])
    BY <1>1, <2>1
  <2>3. arrays' = [arrays EXCEPT ![k][n] = a] /\ list' = [array |-> k, len |-> n]
    BY <1>3 DEF Append1
  <2>4. /\ arrays' \in Seq(Seq(Cell)) /\ Len(arrays') = Len(arrays)
        /\ Len(arrays'[k]) = Len(arrays[k]) /\ arrays'[k][n] = a
        /\ \A m \in 1 .. Len(arrays[k]) : m # n => arrays'[k][m] = arrays[k][m]
        /\ \A j \in 1 .. Len(arrays) : j # k => arrays'[j] = arrays[j]
    <3> HIDE DEF k, n
    <3>1. QED
      BY <2>1, <2>2, <2>3, OneCell
  <2>5. \A j \in 1 .. Len(arrays) :
            /\ Len(arrays'[j]) = Len(arrays[j])
            /\ \A m \in 1 .. Len(arrays[j]) :
                  arrays'[j][m] = arrays[j][m] \/ (j = k /\ m = n /\ arrays'[j][m] = a)
    <3> HIDE DEF k, n
    <3>1. QED
      BY <2>4
  <2>6. list' \in Headers /\ list'.array = k /\ list'.len = n
    BY <1>1, <2>3 DEF Headers
  <2>7. \A i \in 1 .. n : arrays'[k][i] = IF i = n THEN a ELSE View(arrays, h)[i]
    <3>1. ASSUME NEW i \in 1 .. h.len PROVE arrays'[k][i] = View(arrays, h)[i] /\ i # n
      <4>1. View(arrays, h)[i] = arrays[k][i] /\ i \in 1 .. Len(arrays[k])
        BY ViewType
      <4>2. i # n
        BY <1>1
      <4>3. QED
        BY <2>4, <4>1, <4>2
    <3>2. \A i \in 1 .. n : i = n \/ i \in 1 .. h.len
      BY <1>1
    <3>3. QED
      BY <2>4, <3>1, <3>2
  <2>8. Good(arrays', list')
    <3>1. \A i \in 1 .. n : arrays'[k][i] \in Actor
      BY <1>2, <2>7, ElementOfSeq
    <3>2. QED
      BY <1>1, <2>1, <2>2, <2>4, <2>6, <3>1 DEF Good
  <2>9. View(arrays', list') = Append(View(arrays, h), a)
    <3>1. /\ View(arrays', list') \in Seq(Actor) /\ Len(View(arrays', list')) = n
          /\ \A i \in 1 .. n : View(arrays', list')[i] = arrays'[k][i]
      BY <2>4, <2>6, <2>8, ViewNext
    <3>2. QED
      BY <1>2, <2>7, <3>1, SeqEqual
  <2>10. ASSUME NEW g \in Headers, Good(arrays, g) PROVE Good(arrays', g)
    <3>1. \A j \in 1 .. Len(arrays) :
              /\ Len(arrays'[j]) = Len(arrays[j])
              /\ \A m \in 1 .. Len(arrays[j]) :
                    arrays'[j][m] = arrays[j][m] \/ arrays'[j][m] \in Actor
      BY <2>5
    <3>2. Len(arrays) <= Len(arrays')
      BY <1>1, <2>4
    <3>3. QED
      BY <2>4, <2>10, <3>1, <3>2, GoodStays
  <2>11. \A j \in 1 .. Len(arrays) : \A m \in 1 .. Len(arrays[j]) :
             arrays'[j][m] = arrays[j][m] \/ (j = h.array /\ m = h.len + 1)
    BY <2>5
  <2>12. /\ Len(arrays) <= Len(arrays') /\ list'.len = h.len + 1
         /\ list'.array = h.array /\ h.array # 0
    BY <1>1, <2>1, <2>4, <2>6
  <2>13. QED
    BY <2>4, <2>6, <2>8, <2>9, <2>10, <2>11, <2>12
<1>4. CASE ~HasRoom(h)
  <2> DEFINE n == Len(arrays) + 1
             q == Grown(h, a)
  <2>1. /\ arrays' = Append(arrays, q) /\ list' = [array |-> n, len |-> h.len + 1]
    BY <1>4 DEF Append1
  <2>2. /\ q \in Seq(Cell) /\ h.len + 1 <= Len(q)
        /\ \A i \in 1 .. h.len + 1 :
              q[i] = IF i = h.len + 1 THEN a ELSE View(arrays, h)[i]
    BY GrownType
  <2>3. /\ arrays' \in Seq(Seq(Cell)) /\ Len(arrays') = n /\ arrays'[n] = q
        /\ \A j \in 1 .. Len(arrays) : arrays'[j] = arrays[j]
    <3> HIDE DEF q
    <3>1. QED
      BY <1>1, <2>1, <2>2
  <2>4. list' \in Headers /\ list'.array = n /\ list'.len = h.len + 1
    BY <1>1, <2>1 DEF Headers
  <2>5. \A i \in 1 .. h.len + 1 : q[i] = Append(View(arrays, h), a)[i]
    BY <1>2, <2>2
  <2>6. Good(arrays', list')
    <3>1. \A i \in 1 .. h.len + 1 : q[i] \in Actor
      BY <1>2, <2>5, ElementOfSeq
    <3> HIDE DEF q
    <3>2. QED
      BY <1>1, <2>2, <2>3, <2>4, <3>1 DEF Good
  <2>7. View(arrays', list') = Append(View(arrays, h), a)
    <3>1. /\ View(arrays', list') \in Seq(Actor) /\ Len(View(arrays', list')) = h.len + 1
          /\ \A i \in 1 .. h.len + 1 : View(arrays', list')[i] = q[i]
      <4>1. /\ View(arrays', list') \in Seq(Actor) /\ Len(View(arrays', list')) = list'.len
            /\ \A i \in 1 .. list'.len : View(arrays', list')[i] = arrays'[list'.array][i]
        BY <2>3, <2>4, <2>6, ViewNext
      <4>2. QED
        BY <2>3, <2>4, <4>1
    <3> HIDE DEF q
    <3>2. QED
      BY <1>2, <2>5, <3>1, SeqEqual
  <2>8. ASSUME NEW g \in Headers, Good(arrays, g) PROVE Good(arrays', g)
    <3>1. Len(arrays) <= Len(arrays') /\ \A j \in 1 .. Len(arrays) : arrays'[j] = arrays[j]
      BY <1>1, <2>3
    <3>2. QED
      BY <2>3, <2>8, <3>1, GoodStays
  <2>9. QED
    BY <1>1, <2>3, <2>4, <2>6, <2>7, <2>8
<1>5. QED
  BY <1>3, <1>4

\* The first place of an actor who has one is one of their places.
LEMMA FirstPlaceExists ==
    ASSUME NEW s \in Seq(Actor), NEW a, Places(s, a) # {}
    PROVE  FirstPlace(s, a) \in 1 .. Len(s)
<1> DEFINE P == Places(s, a)
           R == OpToRel(<, Nat)
<1>1. P \subseteq 1 .. Len(s) /\ P \subseteq Nat
  BY DEF Places
<1>2. \A x, y \in Nat : x < y => <<x, y>> \in R
  BY DEF OpToRel
<1>3. IsWellFoundedOn(R, Nat)
  BY NatLessThanWellFounded
<1> HIDE DEF P, R
<1>4. P # {}
  BY DEF P
<1>5. PICK x \in P : \A y \in P : ~(<<y, x>> \in R)
  BY <1>1, <1>3, <1>4, WFMin
<1>6. \A y \in P : x <= y
  <2>1. ASSUME NEW y \in P PROVE x <= y
    <3>1. ~(y < x)
      BY <1>1, <1>2, <1>5
    <3>2. x \in Nat /\ y \in Nat
      BY <1>1, <1>5
    <3>3. QED
      BY <3>1, <3>2
  <2>2. QED
    BY <2>1
<1>7. FirstPlace(s, a) \in P
  BY <1>5, <1>6 DEF FirstPlace, P
<1>8. QED
  BY <1>1, <1>7

\* Leaving out one place of a sequence.
LEMMA WithoutType ==
    ASSUME NEW s \in Seq(Actor), NEW i \in 1 .. Len(s)
    PROVE  /\ Without(s, i) \in Seq(Actor) /\ Len(Without(s, i)) = Len(s) - 1
           /\ \A j \in 1 .. Len(s) - 1 :
                 Without(s, i)[j] = IF j < i THEN s[j] ELSE s[j + 1]
<1> DEFINE p == SubSeq(s, 1, i - 1)
           q == SubSeq(s, i + 1, Len(s))
<1>1. /\ p \in Seq(Actor) /\ Len(p) = i - 1
      /\ \A j \in 1 .. i - 1 : p[j] = s[j]
  <2>1. i - 1 \in Int /\ \A j \in 1 .. i - 1 : s[j] \in Actor
    OBVIOUS
  <2>2. QED
    BY <2>1, SubSeqProperties
<1>2. /\ q \in Seq(Actor) /\ Len(q) = Len(s) - i
      /\ \A j \in 1 .. Len(s) - i : q[j] = s[i + j]
  <2>1. i + 1 \in Int /\ Len(s) \in Int /\ \A j \in i + 1 .. Len(s) : s[j] \in Actor
    OBVIOUS
  <2>2. /\ q \in Seq(Actor)
        /\ Len(q) = IF i + 1 <= Len(s) THEN Len(s) - (i + 1) + 1 ELSE 0
        /\ \A j \in 1 .. Len(s) - (i + 1) + 1 : q[j] = s[i + 1 + j - 1]
    BY <2>1, SubSeqProperties
  <2>3. QED
    BY <2>2
<1>3. Without(s, i) = p \o q
  BY DEF Without
<1> HIDE DEF p, q
<1>4. /\ p \o q \in Seq(Actor) /\ Len(p \o q) = Len(p) + Len(q)
      /\ \A j \in 1 .. Len(p) + Len(q) :
            (p \o q)[j] = IF j <= Len(p) THEN p[j] ELSE q[j - Len(p)]
  BY <1>1, <1>2, ConcatProperties
<1>5. ASSUME NEW j \in 1 .. Len(s) - 1
      PROVE  (p \o q)[j] = IF j < i THEN s[j] ELSE s[j + 1]
  <2>1. CASE j < i
    BY <1>1, <1>2, <1>4, <2>1
  <2>2. CASE ~(j < i)
    <3>1. j - Len(p) \in 1 .. Len(s) - i /\ ~(j <= Len(p)) /\ j \in 1 .. Len(p) + Len(q)
      BY <1>1, <1>2, <2>2
    <3>2. q[j - Len(p)] = s[i + (j - Len(p))] /\ i + (j - Len(p)) = j + 1
      BY <1>1, <1>2, <3>1
    <3>3. QED
      BY <1>4, <2>2, <3>1, <3>2
  <2>3. QED
    BY <2>1, <2>2
<1>6. QED
  BY <1>1, <1>2, <1>3, <1>4, <1>5

\* removeFollower: the list shows what the header showed, less one; headers that
\* were good stay good, whatever they share with it.
LEMMA ShiftEffect ==
    ASSUME arrays \in Seq(Seq(Cell)), NEW h \in Headers, Good(arrays, h),
           NEW i \in 1 .. h.len,
           arrays' = [arrays EXCEPT ![h.array] = Shifted(h, i)],
           list' = [h EXCEPT !.len = @ - 1]
    PROVE  /\ arrays' \in Seq(Seq(Cell)) /\ Len(arrays') = Len(arrays)
           /\ list' \in Headers /\ Good(arrays', list')
           /\ View(arrays', list') = Without(View(arrays, h), i)
           /\ \A g \in Headers : Good(arrays, g) => Good(arrays', g)
<1> DEFINE k == h.array
           A == arrays[k]
           q == Shifted(h, i)
<1>1. /\ k \in 1 .. Len(arrays) /\ h.len \in Nat \ {0} /\ Len(arrays) \in Nat
      /\ A \in Seq(Cell) /\ h.len <= Len(A) /\ \A j \in 1 .. h.len : A[j] \in Actor
  <2>1. h.len \in Nat /\ h.len # 0 /\ k # 0 /\ k \in 0 .. Len(arrays) /\ Len(arrays) \in Nat
    BY DEF Good, Headers
  <2>2. k \in 1 .. Len(arrays)
    BY <2>1
  <2>3. QED
    BY <2>1, <2>2 DEF Good
<1>2. /\ View(arrays, h) \in Seq(Actor) /\ Len(View(arrays, h)) = h.len
      /\ \A j \in 1 .. h.len : View(arrays, h)[j] = A[j]
  BY ViewType
<1>3. q = [j \in 1 .. Len(A) |-> IF j \in i .. (h.len - 1) THEN A[j + 1] ELSE A[j]]
  BY <1>1 DEF Shifted
<1> HIDE DEF A
<1>4. \A j \in 1 .. Len(A) : A[j] \in Cell /\ (j \in i .. (h.len - 1) => A[j + 1] \in Actor)
  <2>1. \A j \in i .. (h.len - 1) : j + 1 \in 1 .. h.len
    BY <1>1
  <2>2. QED
    BY <1>1, <2>1
<1>5. q \in [1 .. Len(A) -> Cell]
  BY <1>3, <1>4 DEF Cell
<1>6. /\ q \in Seq(Cell) /\ Len(q) = Len(A)
      /\ \A j \in 1 .. Len(A) : q[j] = IF j \in i .. (h.len - 1) THEN A[j + 1] ELSE A[j]
  BY <1>1, <1>3, <1>5
<1> HIDE DEF q
<1>7. /\ arrays' \in Seq(Seq(Cell)) /\ Len(arrays') = Len(arrays) /\ arrays'[k] = q
      /\ \A j \in 1 .. Len(arrays) : j # k => arrays'[j] = arrays[j]
  <2>1. arrays' = [arrays EXCEPT ![k] = q]
    BY DEF q
  <2>2. q \in Seq(Cell) /\ Len(q) = Len(arrays[k]) /\ k \in 1 .. Len(arrays)
    BY <1>1, <1>6 DEF A
  <2> HIDE DEF k
  <2>3. QED
    <3> DEFINE B == [arrays EXCEPT ![k] = q]
    <3>1. /\ B \in Seq(Seq(Cell)) /\ Len(B) = Len(arrays) /\ B[k] = q
          /\ \A j \in 1 .. Len(arrays) : j # k => B[j] = arrays[j]
      BY <2>2, ReplaceArray
    <3>2. arrays' = B
      BY <2>1
    <3> HIDE DEF B
    <3>3. QED
      BY <3>1, <3>2
<1>8. list' \in Headers /\ list'.array = k /\ list'.len = h.len - 1
  <2>1. h = [array |-> h.array, len |-> h.len] /\ h.len - 1 \in Nat /\ h.array \in Nat
    BY <1>1 DEF Headers
  <2>2. list' = [array |-> h.array, len |-> h.len - 1]
    BY <2>1
  <2>3. QED
    BY <2>1, <2>2 DEF Headers
<1>9. \A j \in 1 .. h.len - 1 : /\ q[j] \in Actor
                                /\ q[j] = IF j < i THEN A[j] ELSE A[j + 1]
  <2>1. ASSUME NEW j \in 1 .. h.len - 1
        PROVE  q[j] \in Actor /\ q[j] = IF j < i THEN A[j] ELSE A[j + 1]
    <3>1. j \in 1 .. h.len /\ j + 1 \in 1 .. h.len /\ j \in 1 .. Len(A)
      BY <1>1
    <3>2. A[j] \in Actor /\ A[j + 1] \in Actor
      BY <1>1, <3>1
    <3>3. j \in i .. (h.len - 1) <=> ~(j < i)
      BY <1>1
    <3>4. QED
      BY <1>6, <3>1, <3>2, <3>3
  <2>2. QED
    BY <2>1
<1>10. Good(arrays', list')
  <2>1. list'.len \in Nat /\ list'.len <= Len(q) /\ list'.array \in 0 .. Len(arrays')
        /\ list'.array # 0
    BY <1>1, <1>6, <1>7, <1>8
  <2>2. QED
    BY <1>7, <1>8, <1>9, <2>1 DEF Good
<1>11. View(arrays', list') = Without(View(arrays, h), i)
  <2>1. /\ View(arrays', list') \in Seq(Actor) /\ Len(View(arrays', list')) = h.len - 1
        /\ \A j \in 1 .. h.len - 1 : View(arrays', list')[j] = q[j]
    <3>1. /\ View(arrays', list') \in Seq(Actor) /\ Len(View(arrays', list')) = list'.len
          /\ \A j \in 1 .. list'.len : View(arrays', list')[j] = arrays'[list'.array][j]
      BY <1>7, <1>8, <1>10, ViewNext
    <3> HIDE DEF k
    <3>2. QED
      BY <3>1, <1>7, <1>8
  <2>2. /\ Without(View(arrays, h), i) \in Seq(Actor)
        /\ Len(Without(View(arrays, h), i)) = h.len - 1
        /\ \A j \in 1 .. h.len - 1 : Without(View(arrays, h), i)[j] =
              IF j < i THEN View(arrays, h)[j] ELSE View(arrays, h)[j + 1]
    BY <1>2, WithoutType
  <2>3. \A j \in 1 .. h.len - 1 : j \in 1 .. h.len /\ j + 1 \in 1 .. h.len
    BY <1>1
  <2>4. \A j \in 1 .. h.len - 1 : View(arrays', list')[j] = Without(View(arrays, h), i)[j]
    BY <1>2, <1>9, <2>1, <2>2, <2>3
  <2>5. QED
    BY <2>1, <2>2, <2>4, SeqEqual
<1>12. ASSUME NEW g \in Headers, Good(arrays, g) PROVE Good(arrays', g)
  <2>1. \A j \in 1 .. Len(arrays) :
            /\ Len(arrays'[j]) = Len(arrays[j])
            /\ \A m \in 1 .. Len(arrays[j]) :
                  arrays'[j][m] = arrays[j][m] \/ arrays'[j][m] \in Actor
    <3>1. \A m \in 1 .. Len(A) : q[m] = A[m] \/ q[m] \in Actor
      BY <1>4, <1>6
    <3>2. QED
      BY <1>6, <1>7, <3>1 DEF A
  <2>2. Len(arrays) <= Len(arrays')
    BY <1>1, <1>7
  <2>3. QED
    BY <1>7, <1>12, <2>1, <2>2, GoodStays
<1>13. QED
  BY <1>7, <1>8, <1>10, <1>11, <1>12

-----------------------------------------------------------------------------
(* Powers of two, by counting subsets. *)

\* A power of two is a natural number, and not zero.
LEMMA PowerType ==
    ASSUME NEW n \in Nat
    PROVE  2 ^ n \in Nat \ {0}
<1>1. IsFiniteSet(1 .. n) /\ Cardinality(1 .. n) = n
  BY FS_Interval
<1>2. IsFiniteSet(SUBSET (1 .. n)) /\ Cardinality(SUBSET (1 .. n)) = 2 ^ n
  BY <1>1, FS_SUBSET
<1>3. Cardinality(SUBSET (1 .. n)) \in Nat
  BY <1>2, FS_CardinalityType
<1>4. Cardinality(SUBSET (1 .. n)) # 0
  <2>1. {} \in SUBSET (1 .. n)
    OBVIOUS
  <2>2. QED
    BY <1>2, <2>1, FS_EmptySet
<1>5. QED
  BY <1>2, <1>3, <1>4

\* The next power is twice as large.
LEMMA PowerNext ==
    ASSUME NEW n \in Nat
    PROVE  2 ^ (n + 1) = 2 ^ n + 2 ^ n
<1> DEFINE A  == 1 .. n
           x  == n + 1
           SA == SUBSET A
           SX == {B \cup {x} : B \in SA}
<1>1. IsFiniteSet(A) /\ Cardinality(A) = n
  BY FS_Interval
<1>2. IsFiniteSet(1 .. n + 1) /\ Cardinality(1 .. n + 1) = n + 1
  BY FS_Interval
<1>3. IsFiniteSet(SA) /\ Cardinality(SA) = 2 ^ n
  BY <1>1, FS_SUBSET
<1>4. Cardinality(SUBSET (1 .. n + 1)) = 2 ^ (n + 1)
  BY <1>2, FS_SUBSET
<1>5. x \notin A /\ 1 .. n + 1 = A \cup {x}
  OBVIOUS
<1> HIDE DEF A, x
<1>6. SUBSET (A \cup {x}) = SA \cup SX
  <2>1. ASSUME NEW B, B \subseteq A \cup {x} PROVE B \in SA \cup SX
    <3>1. CASE x \in B
      <4>1. B \ {x} \in SA /\ B = (B \ {x}) \cup {x}
        BY <2>1, <3>1
      <4>2. QED
        BY <4>1
    <3>2. CASE x \notin B
      BY <2>1, <3>2
    <3>3. QED
      BY <3>1, <3>2
  <2>2. QED
    BY <2>1
<1>7. ExistsBijection(SA, SX)
  <2> DEFINE f == [B \in SA |-> B \cup {x}]
  <2>1. f \in [SA -> SX]
    BY Zenon
  <2>2. ASSUME NEW B \in SA, NEW C \in SA, f[B] = f[C] PROVE B = C
    <3>1. B \cup {x} = C \cup {x}
      BY <2>2
    <3>2. x \notin B /\ x \notin C
      BY <1>5
    <3>3. \A y : y \in B <=> y \in C
      BY <3>1, <3>2
    <3>4. QED
      BY <3>3
  <2>3. f \in Injection(SA, SX)
    BY <2>1, <2>2, Fun_IsInj, Zenon
  <2>4. f \in Surjection(SA, SX)
    BY <2>1, Zenon DEF Surjection
  <2>5. QED
    BY <2>3, <2>4, Zenon DEF Bijection, ExistsBijection
<1>8. SA \cap SX = {}
  BY <1>5
<1> HIDE DEF SA, SX
<1>9. IsFiniteSet(SX) /\ Cardinality(SX) = Cardinality(SA)
  BY <1>3, <1>7, FS_Bijection
<1>10. Cardinality(SA \cup SX) = Cardinality(SA) + Cardinality(SX) - Cardinality(SA \cap SX)
  BY <1>3, <1>9, FS_Union
<1>11. Cardinality(SA \cap SX) = 0
  BY <1>8, FS_EmptySet
<1>12. Cardinality(SA) \in Nat
  BY <1>3, FS_CardinalityType
<1>13. 2 ^ (n + 1) = Cardinality(SA \cup SX)
  BY <1>4, <1>5, <1>6
<1>14. QED
  BY <1>3, <1>9, <1>10, <1>11, <1>12, <1>13

-----------------------------------------------------------------------------
(* The states of a delivery. *)

\* On to the next follower, or to the report: the rest of the state stays.
LEMMA NextFollowerIs ==
    ASSUME NEW s \in Sending
    PROVE  LET t == NextFollower(s)
           IN  /\ t \in Sending /\ t.over = s.over /\ t.spent = s.spent /\ t.tries = 0
               /\ \/ s.pos < s.over.len /\ t.at = "discover" /\ t.pos = s.pos + 1
                  \/ ~(s.pos < s.over.len) /\ t.at = "done" /\ t.pos = s.pos
<1>1. /\ s = [at |-> s.at, over |-> s.over, pos |-> s.pos, tries |-> s.tries,
              spent |-> s.spent]
      /\ s.over \in Headers /\ s.pos \in Nat \ {0} /\ s.spent \in 0 .. Deadline
  BY DEF Sending
<1>2. 0 \in 0 .. Tries - 1
  BY FollowersAssumption DEF FollowersAssumption
<1> DEFINE R(a, p) == [at |-> a, over |-> s.over, pos |-> p, tries |-> 0, spent |-> s.spent]
<1>7. \A a \in {"discover", "done"} : \A p \in Nat \ {0} : R(a, p) \in Sending
  <2>1. s.over \in Headers /\ s.spent \in 0 .. Deadline
    BY DEF Sending
  <2>2. QED
    BY <1>2, <2>1 DEF Sending
<1>3. CASE s.pos < s.over.len
  <2>1. NextFollower(s) = [at |-> "discover", over |-> s.over, pos |-> s.pos + 1,
                           tries |-> 0, spent |-> s.spent]
    <3>1. NextFollower(s) = [s EXCEPT !.at = "discover", !.pos = s.pos + 1, !.tries = 0]
      BY <1>3 DEF NextFollower
    <3>2. QED
      BY <3>1 DEF Sending
  <2>2. s.pos + 1 \in Nat \ {0}
    BY <1>1
  <2>3. NextFollower(s) \in Sending
    <3>1. NextFollower(s) = R("discover", s.pos + 1)
      BY <2>1
    <3> HIDE DEF R
    <3>2. QED
      BY <1>7, <2>2, <3>1
  <2> DEFINE t == NextFollower(s)
  <2>4. t.at = "discover" /\ t.over = s.over /\ t.pos = s.pos + 1 /\ t.tries = 0 /\ t.spent = s.spent
    BY <2>1
  <2>5. QED
    BY <1>3, <2>3, <2>4
<1>4. CASE ~(s.pos < s.over.len)
  <2>1. NextFollower(s) = [at |-> "done", over |-> s.over, pos |-> s.pos,
                           tries |-> 0, spent |-> s.spent]
    <3>1. NextFollower(s) = [s EXCEPT !.at = "done", !.pos = s.pos, !.tries = 0]
      BY <1>4 DEF NextFollower
    <3>2. QED
      BY <3>1 DEF Sending
  <2>2. NextFollower(s) \in Sending
    <3>1. NextFollower(s) = R("done", s.pos) /\ s.pos \in Nat \ {0}
      BY <1>1, <2>1
    <3> HIDE DEF R
    <3>2. QED
      BY <1>7, <3>1
  <2> DEFINE t == NextFollower(s)
  <2>3. t.at = "done" /\ t.over = s.over /\ t.pos = s.pos /\ t.tries = 0 /\ t.spent = s.spent
    BY <2>1
  <2>4. QED
    BY <1>4, <2>2, <2>3
<1>5. QED
  BY <1>3, <1>4

\* A wait takes at most its time, and nothing is won back.
LEMMA WaitedIs ==
    ASSUME NEW s \in Sending, NEW n \in Nat
    PROVE  LET t == Waited(s, n)
           IN  /\ t \in Sending /\ t.at = s.at /\ t.over = s.over /\ t.pos = s.pos
               /\ t.tries = s.tries /\ s.spent <= t.spent /\ t.spent <= s.spent + n
<1>1. /\ s = [at |-> s.at, over |-> s.over, pos |-> s.pos, tries |-> s.tries,
              spent |-> s.spent]
      /\ s.at \in {"new", "discover", "post", "done", "cut"} /\ s.tries \in 0 .. Tries - 1
      /\ s.over \in Headers /\ s.pos \in Nat \ {0} /\ s.spent \in 0 .. Deadline
  BY DEF Sending
<1>2. Deadline \in Nat
  BY FollowersAssumption DEF FollowersAssumption
<1> DEFINE e == IF s.spent + n < Deadline THEN s.spent + n ELSE Deadline
<1>3. e \in 0 .. Deadline /\ s.spent <= e /\ e <= s.spent + n
  BY <1>1, <1>2
<1>4. Waited(s, n) = [at |-> s.at, over |-> s.over, pos |-> s.pos, tries |-> s.tries,
                      spent |-> e]
  BY <1>1 DEF Waited
<1> HIDE DEF e
<1>5. QED
  BY <1>1, <1>3, <1>4 DEF Sending

\* Another attempt costs its wait; after the last one comes the next follower.
LEMMA AgainIs ==
    ASSUME NEW s \in Sending
    PROVE  LET t == Again(s)
           IN  \/ s.tries + 1 = Tries /\ t = NextFollower(s)
               \/ /\ s.tries + 1 < Tries
                  /\ t \in Sending /\ t.at = s.at /\ t.over = s.over /\ t.pos = s.pos
                  /\ t.tries = s.tries + 1
                  /\ s.spent <= t.spent /\ t.spent <= s.spent + 2 ^ s.tries
<1>1. /\ s = [at |-> s.at, over |-> s.over, pos |-> s.pos, tries |-> s.tries,
              spent |-> s.spent]
      /\ s.at \in {"new", "discover", "post", "done", "cut"} /\ s.tries \in 0 .. Tries - 1
      /\ s.over \in Headers /\ s.pos \in Nat \ {0} /\ s.spent \in 0 .. Deadline
  BY DEF Sending
<1>2. Tries \in Nat /\ s.tries \in Nat
  BY <1>1, FollowersAssumption DEF FollowersAssumption
<1>3. CASE s.tries + 1 = Tries
  BY <1>3 DEF Again
<1>4. CASE s.tries + 1 # Tries
  <2> DEFINE u == [s EXCEPT !.tries = @ + 1]
             n == 2 ^ s.tries
  <2>1. s.tries + 1 < Tries /\ s.tries + 1 \in 0 .. Tries - 1
    BY <1>1, <1>2, <1>4
  <2>2. u = [at |-> s.at, over |-> s.over, pos |-> s.pos, tries |-> s.tries + 1,
             spent |-> s.spent]
    BY <1>1
  <2>3. u \in Sending
    BY <1>1, <2>1, <2>2 DEF Sending
  <2>4. Backoff(s.tries + 1) = n
    <3>1. (s.tries + 1) - 1 = s.tries
      BY <1>2
    <3>2. QED
      BY <3>1 DEF Backoff
  <2>5. n \in Nat
    BY <1>2, PowerType
  <2>6. Again(s) = Waited(u, n)
    BY <1>4, <2>4 DEF Again
  <2> HIDE DEF u, n
  <2>7. LET t == Waited(u, n)
        IN  /\ t \in Sending /\ t.at = u.at /\ t.over = u.over /\ t.pos = u.pos
            /\ t.tries = u.tries /\ u.spent <= t.spent /\ t.spent <= u.spent + n
    BY <2>3, <2>5, WaitedIs
  <2>8. u.at = s.at /\ u.over = s.over /\ u.pos = s.pos /\ u.tries = s.tries + 1 /\ u.spent = s.spent
    BY <2>2
  <2>9. QED
    BY <2>1, <2>6, <2>7, <2>8 DEF n
<1>5. QED
  BY <1>3, <1>4

\* Delivery d went from state s to t: it left the follower it was at, or tries
\* the post again.  n is the time the server took.
Leaves(s, t, n) ==
    /\ t.tries = 0 /\ t.spent <= s.spent + n
    /\ \/ s.pos < s.over.len /\ t.at = "discover" /\ t.pos = s.pos + 1
       \/ ~(s.pos < s.over.len) /\ t.at = "done" /\ t.pos = s.pos
Stays(s, t, n) ==
    /\ t.at = "post" /\ t.pos = s.pos /\ s.tries + 1 < Tries /\ t.tries = s.tries + 1
    /\ t.spent <= s.spent + 2 ^ s.tries + n
Goes(s, t, n) ==
    /\ t.at = "post" /\ t.pos = s.pos /\ t.tries = s.tries /\ t.spent <= s.spent + n

Waits(d, n) == \/ n = 0 /\ UNCHANGED took
               \/ Takes(d, n)

\* What a step of a delivery in state s does, t being its state afterwards.
Asks(d, s, t, n) ==
    /\ s.at = "discover" /\ ~Late(s)
    /\ asked' = [asked EXCEPT ![d] = Append(@, Reads(s))]
    /\ Leaves(s, t, n) \/ Goes(s, t, n)
Posts(s, t, n) ==
    /\ s.at = "post" /\ ~Late(s) /\ UNCHANGED asked
    /\ Leaves(s, t, n) \/ Stays(s, t, n)
Skips(s, t, n) ==
    /\ s.at \in {"discover", "post"} /\ Late(s) /\ UNCHANGED asked
    /\ n = 0 /\ Leaves(s, t, n)

LEMMA LeavesIs ==
    ASSUME NEW s \in Sending
    PROVE  /\ NextFollower(s) \in Sending /\ NextFollower(s).over = s.over
           /\ s.spent <= NextFollower(s).spent /\ Leaves(s, NextFollower(s), 0)
<1>1. LET t == NextFollower(s)
      IN  /\ t \in Sending /\ t.over = s.over /\ t.spent = s.spent /\ t.tries = 0
          /\ \/ s.pos < s.over.len /\ t.at = "discover" /\ t.pos = s.pos + 1
             \/ ~(s.pos < s.over.len) /\ t.at = "done" /\ t.pos = s.pos
  BY NextFollowerIs
<1>2. s.spent \in Nat
  BY FollowersAssumption DEF Sending, FollowersAssumption
<1>3. QED
  BY <1>1, <1>2 DEF Leaves

\* The same after the time a server took.
LEMMA LeavesLate ==
    ASSUME NEW s \in Sending, NEW n \in Nat
    PROVE  LET t == NextFollower(Waited(s, n))
           IN  t \in Sending /\ t.over = s.over /\ s.spent <= t.spent /\ Leaves(s, t, n)
<1> DEFINE w == Waited(s, n)
<1>2. /\ w \in Sending /\ w.at = s.at /\ w.over = s.over /\ w.pos = s.pos
      /\ w.tries = s.tries /\ s.spent <= w.spent /\ w.spent <= s.spent + n
  BY WaitedIs
<1> HIDE DEF w
<1> DEFINE t == NextFollower(w)
<1>3. /\ t \in Sending /\ t.over = w.over /\ t.spent = w.spent /\ t.tries = 0
      /\ \/ w.pos < w.over.len /\ t.at = "discover" /\ t.pos = w.pos + 1
         \/ ~(w.pos < w.over.len) /\ t.at = "done" /\ t.pos = w.pos
  BY <1>2, NextFollowerIs
<1> HIDE DEF t
<1>4. t \in Sending /\ t.over = s.over /\ s.spent <= t.spent /\ Leaves(s, t, n)
  BY <1>2, <1>3 DEF Leaves
<1>5. QED
  BY <1>4 DEF t, w

\* An inbox was found: on to the post.
LEMMA GoesIs ==
    ASSUME NEW s \in Sending, NEW n \in Nat
    PROVE  LET t == [Waited(s, n) EXCEPT !.at = "post"]
           IN  t \in Sending /\ t.over = s.over /\ s.spent <= t.spent /\ Goes(s, t, n)
<1> DEFINE w == Waited(s, n)
           t == [w EXCEPT !.at = "post"]
<1>1. /\ w \in Sending /\ w.over = s.over /\ w.pos = s.pos
      /\ w.tries = s.tries /\ s.spent <= w.spent /\ w.spent <= s.spent + n
  BY WaitedIs
<1> HIDE DEF w
<1>2. /\ t \in Sending /\ t.at = "post" /\ t.over = w.over /\ t.pos = w.pos
      /\ t.tries = w.tries /\ t.spent = w.spent
  BY <1>1 DEF Sending
<1> HIDE DEF t
<1>3. t \in Sending /\ t.over = s.over /\ s.spent <= t.spent /\ Goes(s, t, n)
  BY <1>1, <1>2 DEF Goes
<1>4. QED
  BY <1>3 DEF t, w

\* Another attempt, or the next follower after the last one.
LEMMA AgainEither ==
    ASSUME NEW s \in Sending, s.at = "post", NEW n \in Nat
    PROVE  LET t == Again(Waited(s, n))
           IN  /\ t \in Sending /\ t.over = s.over /\ s.spent <= t.spent
               /\ Leaves(s, t, n) \/ Stays(s, t, n)
<1> DEFINE w == Waited(s, n)
           t == Again(w)
<1>0. /\ w \in Sending /\ w.at = s.at /\ w.over = s.over /\ w.pos = s.pos
      /\ w.tries = s.tries /\ s.spent <= w.spent /\ w.spent <= s.spent + n
  BY WaitedIs
<1> HIDE DEF w
<1>1. /\ s.spent \in Nat /\ w.spent \in Nat /\ s.tries \in Nat
      /\ 2 ^ s.tries \in Nat
  <2>1. s.spent \in Nat /\ w.spent \in Nat /\ s.tries \in Nat
    BY <1>0, FollowersAssumption DEF Sending, FollowersAssumption
  <2>2. QED
    BY <2>1, PowerType
<1>2. CASE w.tries + 1 = Tries /\ t = NextFollower(w)
  <2> DEFINE v == NextFollower(w)
  <2>1. /\ v \in Sending /\ v.over = w.over /\ v.spent = w.spent /\ v.tries = 0
        /\ \/ w.pos < w.over.len /\ v.at = "discover" /\ v.pos = w.pos + 1
           \/ ~(w.pos < w.over.len) /\ v.at = "done" /\ v.pos = w.pos
    BY <1>0, NextFollowerIs
  <2>2. t = v
    BY <1>2
  <2> HIDE DEF v, t
  <2>3. t \in Sending /\ t.over = s.over /\ s.spent <= t.spent /\ Leaves(s, t, n)
    BY <1>0, <2>1, <2>2 DEF Leaves
  <2>4. QED
    BY <2>3 DEF t, w
<1>3. CASE /\ w.tries + 1 < Tries
           /\ t \in Sending /\ t.at = w.at /\ t.over = w.over /\ t.pos = w.pos
           /\ t.tries = w.tries + 1
           /\ w.spent <= t.spent /\ t.spent <= w.spent + 2 ^ w.tries
  <2> HIDE DEF t
  <2>1. t.spent \in Nat
    BY <1>3, FollowersAssumption DEF Sending, FollowersAssumption
  <2> DEFINE p == 2 ^ s.tries
  <2>2. t.spent <= w.spent + p /\ p \in Nat
    BY <1>0, <1>1, <1>3
  <2>3. t.spent <= s.spent + p + n /\ s.spent <= t.spent
    <3> HIDE DEF p
    <3>1. QED
      BY <1>0, <1>1, <1>3, <2>1, <2>2
  <2>4. t \in Sending /\ t.over = s.over /\ s.spent <= t.spent /\ Stays(s, t, n)
    BY <1>0, <1>3, <2>3 DEF Stays
  <2>5. QED
    BY <2>4 DEF t, w
<1>4. QED
  BY <1>0, <1>2, <1>3, AgainIs

\* Every step of a delivery is one of the three.
LEMMA DeliverIs ==
    ASSUME sends \in [Delivery -> Sending], NEW d \in Delivery, Deliver(d)
    PROVE  /\ Rest /\ ~corrupt
           /\ \E t \in Sending, n \in 0 .. Timeout :
                /\ sends' = [sends EXCEPT ![d] = t]
                /\ t.over = sends[d].over /\ sends[d].spent <= t.spent /\ Waits(d, n)
                /\ \/ Asks(d, sends[d], t, n) \/ Posts(sends[d], t, n)
                   \/ Skips(sends[d], t, n)
<1> DEFINE s == sends[d]
           G(t, n) == /\ sends' = [sends EXCEPT ![d] = t]
                      /\ t.over = s.over /\ s.spent <= t.spent /\ Waits(d, n)
                      /\ Asks(d, s, t, n) \/ Posts(s, t, n) \/ Skips(s, t, n)
<1>1. s \in Sending
  OBVIOUS
<1>2. ASSUME NEW t \in Sending, NEW n \in 0 .. Timeout, Rest, G(t, n)
      PROVE  /\ Rest
             /\ \E u \in Sending, m \in 0 .. Timeout : G(u, m)
  BY <1>2
<1>3. s.spent \in Nat /\ Timeout \in Nat
  BY <1>1, FollowersAssumption DEF Sending, FollowersAssumption
<1>4. ASSUME Discover(d)
      PROVE  /\ Rest
             /\ \E u \in Sending, m \in 0 .. Timeout : G(u, m)
  <2>1. /\ s.at = "discover" /\ ~Late(s)
        /\ asked' = [asked EXCEPT ![d] = Append(@, Reads(s))]
        /\ Rest
    BY <1>4 DEF Discover
  <2>2. PICK n \in 0 .. Timeout :
          /\ Takes(d, n)
          /\ \/ Update(d, [Waited(s, n) EXCEPT !.at = "post"])
             \/ Update(d, NextFollower(Waited(s, n)))
    BY <1>4 DEF Discover
  <2>3. n \in Nat /\ Waits(d, n)
    BY <1>3, <2>2 DEF Waits
  <2>4. CASE Update(d, [Waited(s, n) EXCEPT !.at = "post"])
    <3> DEFINE t == [Waited(s, n) EXCEPT !.at = "post"]
    <3>1. t \in Sending /\ t.over = s.over /\ s.spent <= t.spent /\ Goes(s, t, n)
      BY <1>1, <2>3, GoesIs
    <3>2. sends' = [sends EXCEPT ![d] = t]
      BY <2>4 DEF Update
    <3> HIDE DEF t, s
    <3>3. Asks(d, s, t, n)
      BY <2>1, <3>1 DEF Asks
    <3>4. G(t, n)
      BY <2>3, <3>1, <3>2, <3>3
    <3> HIDE DEF G
    <3>5. QED
      BY <1>2, <2>1, <3>1, <3>4
  <2>5. CASE Update(d, NextFollower(Waited(s, n)))
    <3> DEFINE t == NextFollower(Waited(s, n))
    <3>1. t \in Sending /\ t.over = s.over /\ s.spent <= t.spent /\ Leaves(s, t, n)
      BY <1>1, <2>3, LeavesLate
    <3>2. sends' = [sends EXCEPT ![d] = t]
      BY <2>5 DEF Update
    <3> HIDE DEF t, s
    <3>3. Asks(d, s, t, n)
      BY <2>1, <3>1 DEF Asks
    <3>4. G(t, n)
      BY <2>3, <3>1, <3>2, <3>3
    <3> HIDE DEF G
    <3>5. QED
      BY <1>2, <2>1, <3>1, <3>4
  <2>6. QED
    BY <2>2, <2>4, <2>5
<1>5. ASSUME Post(d)
      PROVE  /\ Rest
             /\ \E u \in Sending, m \in 0 .. Timeout : G(u, m)
  <2>1. s.at = "post" /\ ~Late(s) /\ UNCHANGED asked /\ Rest
    BY <1>5 DEF Post
  <2>2. PICK n \in 0 .. Timeout :
          /\ Takes(d, n)
          /\ \/ Update(d, NextFollower(Waited(s, n)))
             \/ Update(d, Again(Waited(s, n)))
    BY <1>5 DEF Post
  <2>3. n \in Nat /\ Waits(d, n)
    BY <1>3, <2>2 DEF Waits
  <2>4. CASE Update(d, NextFollower(Waited(s, n)))
    <3> DEFINE t == NextFollower(Waited(s, n))
    <3>1. t \in Sending /\ t.over = s.over /\ s.spent <= t.spent /\ Leaves(s, t, n)
      BY <1>1, <2>3, LeavesLate
    <3>2. sends' = [sends EXCEPT ![d] = t]
      BY <2>4 DEF Update
    <3> HIDE DEF t, s
    <3>3. Posts(s, t, n)
      BY <2>1, <3>1 DEF Posts
    <3>4. G(t, n)
      BY <2>3, <3>1, <3>2, <3>3
    <3> HIDE DEF G
    <3>5. QED
      BY <1>2, <2>1, <3>1, <3>4
  <2>5. CASE Update(d, Again(Waited(s, n)))
    <3> DEFINE t == Again(Waited(s, n))
    <3>1. /\ t \in Sending /\ t.over = s.over /\ s.spent <= t.spent
          /\ Leaves(s, t, n) \/ Stays(s, t, n)
      BY <1>1, <2>1, <2>3, AgainEither
    <3>2. sends' = [sends EXCEPT ![d] = t]
      BY <2>5 DEF Update
    <3> HIDE DEF t, s
    <3>3. Posts(s, t, n)
      BY <2>1, <3>1 DEF Posts
    <3>4. G(t, n)
      BY <2>3, <3>1, <3>2, <3>3
    <3> HIDE DEF G
    <3>5. QED
      BY <1>2, <2>1, <3>1, <3>4
  <2>6. QED
    BY <2>2, <2>4, <2>5
<1>6. ASSUME Skip(d)
      PROVE  /\ Rest
             /\ \E u \in Sending, m \in 0 .. Timeout : G(u, m)
  <2> DEFINE t == NextFollower(s)
  <2>1. t \in Sending /\ t.over = s.over /\ s.spent <= t.spent /\ Leaves(s, t, 0)
    BY <1>1, LeavesIs
  <2>2. /\ s.at \in {"discover", "post"} /\ Late(s) /\ UNCHANGED asked /\ Rest
        /\ sends' = [sends EXCEPT ![d] = t] /\ Waits(d, 0)
    BY <1>6 DEF Skip, Running, Update, Waits
  <2> HIDE DEF t, s
  <2>3. Skips(s, t, 0)
    BY <2>1, <2>2 DEF Skips
  <2>4. G(t, 0)
    BY <2>1, <2>2, <2>3
  <2>5. 0 \in 0 .. Timeout
    BY <1>3
  <2> HIDE DEF G
  <2>6. QED
    BY <1>2, <2>1, <2>2, <2>4, <2>5
<1>7. QED
  <2> HIDE DEF G
  <2>1. ~corrupt /\ Rest /\ \E u \in Sending, m \in 0 .. Timeout : G(u, m)
    BY <1>4, <1>5, <1>6 DEF Deliver
  <2>2. QED
    BY <2>1 DEF G

-----------------------------------------------------------------------------
(* The type invariant. *)

LEMMA RequestNotIdle == Idle \notin Request
BY DEF Idle, Request

LEMMA RunningSends == \A d \in Running : d \in Delivery
BY DEF Running

\* A handler that ends: the header it leaves is good, and so are all others.
LEMMA HandlerEnds ==
    ASSUME TypeInv, NEW h \in Handler,
           inbox' = [inbox EXCEPT ![h] = Idle],
           arrays' \in Seq(Seq(Cell)), list' \in Headers, Good(arrays', list'),
           \A g \in Headers : Good(arrays, g) => Good(arrays', g),
           booked' \in Seq(Actor), moved' \subseteq Delivery,
           UNCHANGED <<sends, requests, crashes, corrupt, torn, first, asked, took>>
    PROVE  TypeInv'
<1>1. /\ inbox' \in [Handler -> {Idle} \cup Request]
      /\ \A g \in Busy' : g \in Busy /\ inbox'[g] = inbox[g]
  BY DEF TypeInv, Busy
<1>2. \A g \in Busy' : Good(arrays', inbox'[g].seen)
  <2>1. ASSUME NEW g \in Busy' PROVE Good(arrays', inbox'[g].seen)
    <3>1. g \in Busy /\ inbox'[g] = inbox[g] /\ Good(arrays, inbox[g].seen)
      BY <1>1 DEF TypeInv
    <3>2. inbox[g] \in Request
      BY <3>1 DEF TypeInv, Busy
    <3>3. inbox[g].seen \in Headers
      BY <3>2 DEF Request
    <3>4. QED
      BY <3>1, <3>3
  <2>2. QED
    BY <2>1
<1>3. \A d \in Running' : Good(arrays', sends'[d].over) /\ sends'[d].pos <= sends'[d].over.len
  <2>1. ASSUME NEW d \in Running'
        PROVE  Good(arrays', sends'[d].over) /\ sends'[d].pos <= sends'[d].over.len
    <3>1. d \in Running /\ sends' = sends
      BY DEF Running
    <3>2. sends[d] \in Sending
      BY <3>1 DEF TypeInv, Running
    <3>3. sends[d].over \in Headers
      BY <3>2 DEF Sending
    <3>4. QED
      BY <3>1, <3>3 DEF TypeInv
  <2>2. QED
    BY <2>1
<1>4. QED
  BY <1>1, <1>2, <1>3 DEF TypeInv

LEMMA TypeInit ==
    ASSUME Init
    PROVE  TypeInv
<1>1. FollowersAssumption
  BY FollowersAssumption
<1>2. Nil \in Headers /\ Good(arrays, Nil)
  BY DEF Init, Nil, Headers, Good
<1>3. Waiting("new") \in Sending
  BY <1>1, <1>2 DEF Waiting, Sending, FollowersAssumption
<1>4. Busy = {} /\ inbox \in [Handler -> {Idle} \cup Request]
  BY DEF Init, Busy
<1>5. sends \in [Delivery -> Sending] /\ Running = {}
  BY <1>3 DEF Init, Running, Waiting
<1>6. requests \in 0 .. MaxRequests /\ crashes \in 0 .. MaxCrash
  BY <1>1 DEF Init, FollowersAssumption
<1>7. arrays \in Seq(Seq(Cell)) /\ list = Nil /\ booked \in Seq(Actor) /\ torn \in BOOLEAN
  <2>1. <<>> \in Seq(Seq(Cell)) /\ <<>> \in Seq(Actor)
    OBVIOUS
  <2>2. QED
    BY <2>1 DEF Init
<1>8. /\ first \in [Delivery -> Seq(Actor)] /\ asked \in [Delivery -> Seq(Actor)]
      /\ took \in [Delivery -> Nat] /\ moved = {} /\ corrupt = FALSE
  <2>1. <<>> \in Seq(Actor) /\ 0 \in Nat
    OBVIOUS
  <2>2. QED
    BY <2>1, Zenon DEF Init
<1>9. QED
  BY <1>2, <1>4, <1>5, <1>6, <1>7, <1>8 DEF TypeInv

LEMMA TypeRead ==
    ASSUME TypeInv, NEW h \in Handler, NEW do \in {"follow", "undo"}, NEW a \in Actor,
           Read(h, do, a)
    PROVE  TypeInv'
<1> DEFINE r == [do |-> do, actor |-> a, seen |-> list]
<1>1. r \in Request /\ r.seen = list
  BY DEF TypeInv, Request
<1>2. inbox' = [inbox EXCEPT ![h] = r] /\ UNCHANGED <<arrays, list, sends>>
  BY DEF Read
<1>3. inbox' \in [Handler -> {Idle} \cup Request]
  BY <1>1, <1>2 DEF TypeInv
<1>4. \A g \in Busy' : Good(arrays', inbox'[g].seen)
  <2> HIDE DEF r
  <2>1. \A g \in Busy' : \/ g = h /\ inbox'[g] = r
                         \/ g \in Busy /\ inbox'[g] = inbox[g]
    <3>1. inbox \in [Handler -> {Idle} \cup Request]
      BY DEF TypeInv
    <3>2. inbox'[h] = r /\ \A g \in Handler \ {h} : inbox'[g] = inbox[g]
      BY <1>2, <3>1
    <3>3. ASSUME NEW g \in Busy', g # h PROVE g \in Busy /\ inbox'[g] = inbox[g]
      <4>1. g \in Handler /\ inbox'[g] # Idle
        BY DEF Busy
      <4>2. inbox'[g] = inbox[g]
        BY <3>2, <3>3, <4>1
      <4>3. QED
        BY <4>1, <4>2 DEF Busy
    <3>4. QED
      BY <3>2, <3>3
  <2>2. ASSUME NEW g \in Busy' PROVE Good(arrays', inbox'[g].seen)
    <3>1. arrays' = arrays /\ (inbox'[g] = r \/ (g \in Busy /\ inbox'[g] = inbox[g]))
      BY <1>2, <2>1
    <3>2. Good(arrays, list) /\ \A f \in Busy : Good(arrays, inbox[f].seen)
      BY DEF TypeInv
    <3>3. QED
      BY <1>1, <3>1, <3>2
  <2>3. QED
    BY <2>2
<1>5. \A d \in Running' : Good(arrays', sends'[d].over) /\ sends'[d].pos <= sends'[d].over.len
  BY <1>2 DEF TypeInv, Running
<1>6. requests' \in 0 .. MaxRequests /\ torn' \in BOOLEAN
  BY FollowersAssumption DEF Read, TypeInv, FollowersAssumption
<1>7. QED
  BY <1>2, <1>3, <1>4, <1>5, <1>6 DEF Read, TypeInv

\* What the rest of a Follow does.
LEMMA FollowIs ==
    ASSUME TypeInv, NEW h \in Handler, Follow(h)
    PROVE  /\ h \in Busy /\ inbox[h].seen \in Headers /\ Good(arrays, inbox[h].seen)
           /\ inbox[h].actor \in Actor
           /\ Append1(inbox[h].seen, inbox[h].actor)
           /\ booked' = Append(booked, inbox[h].actor)
BY DEF TypeInv, Follow, Busy, Request

LEMMA TypeFollow ==
    ASSUME TypeInv, NEW h \in Handler, Follow(h)
    PROVE  TypeInv'
<1> DEFINE s == inbox[h].seen
           a == inbox[h].actor
<1>1. s \in Headers /\ Good(arrays, s) /\ a \in Actor /\ Append1(s, a) /\ booked' = Append(booked, a)
  BY FollowIs
<1>2. arrays \in Seq(Seq(Cell)) /\ booked \in Seq(Actor) /\ moved \subseteq Delivery
  BY DEF TypeInv
<1> HIDE DEF s, a
<1>3. /\ arrays' \in Seq(Seq(Cell)) /\ list' \in Headers /\ Good(arrays', list')
      /\ \A g \in Headers : Good(arrays, g) => Good(arrays', g)
  BY <1>1, <1>2, AppendEffect
<1>4. booked' \in Seq(Actor) /\ moved' \subseteq Delivery
  BY <1>1, <1>2, RunningSends DEF Follow
<1>5. /\ inbox' = [inbox EXCEPT ![h] = Idle]
      /\ UNCHANGED <<sends, requests, crashes, corrupt, torn, first, asked, took>>
  BY DEF Follow
<1>6. QED
  BY <1>3, <1>4, <1>5, HandlerEnds

\* What the rest of an Undo does: nothing for who is not in the slice it read,
\* else the shift of the array and a header one shorter.
LEMMA UndoIs ==
    ASSUME TypeInv, NEW h \in Handler, Undo(h)
    PROVE  LET s == inbox[h].seen
               a == inbox[h].actor
               v == View(arrays, s)
           IN  /\ h \in Busy /\ s \in Headers /\ Good(arrays, s) /\ a \in Actor
               /\ v \in Seq(Actor) /\ Len(v) = s.len
               /\ \/ Places(v, a) = {} /\ UNCHANGED <<arrays, list, moved>>
                  \/ /\ Places(v, a) # {} /\ FirstPlace(v, a) \in 1 .. s.len
                     /\ arrays' = [arrays EXCEPT ![s.array] = Shifted(s, FirstPlace(v, a))]
                     /\ list' = [s EXCEPT !.len = @ - 1]
                     /\ moved' = moved \cup Running
<1> DEFINE s == inbox[h].seen
           a == inbox[h].actor
           v == View(arrays, s)
<1>1. h \in Busy /\ s \in Headers /\ Good(arrays, s) /\ a \in Actor /\ arrays \in Seq(Seq(Cell))
  BY DEF TypeInv, Undo, Busy, Request
<1>2. v \in Seq(Actor) /\ Len(v) = s.len
  <2> HIDE DEF s
  <2>1. QED
    BY <1>1, ViewType
<1>3. Shown(s) = v
  BY ShownIsView
<1>4. Places(v, a) # {} => FirstPlace(v, a) \in 1 .. s.len
  <2> HIDE DEF s, v, a
  <2>1. QED
    BY <1>2, FirstPlaceExists
<1>5. \/ Places(v, a) = {} /\ UNCHANGED <<arrays, list, moved>>
      \/ /\ Places(v, a) # {}
         /\ arrays' = [arrays EXCEPT ![s.array] = Shifted(s, FirstPlace(v, a))]
         /\ list' = [s EXCEPT !.len = @ - 1]
         /\ moved' = moved \cup Running
  BY <1>3 DEF Undo
<1>6. QED
  BY <1>1, <1>2, <1>4, <1>5

LEMMA TypeUndo ==
    ASSUME TypeInv, NEW h \in Handler, Undo(h)
    PROVE  TypeInv'
<1> DEFINE s == inbox[h].seen
           a == inbox[h].actor
           i == FirstPlace(View(arrays, s), a)
<1>1. /\ s \in Headers /\ Good(arrays, s)
      /\ \/ UNCHANGED <<arrays, list, moved>>
         \/ /\ i \in 1 .. s.len
            /\ arrays' = [arrays EXCEPT ![s.array] = Shifted(s, i)]
            /\ list' = [s EXCEPT !.len = @ - 1]
            /\ moved' = moved \cup Running
  BY UndoIs
<1>2. /\ arrays \in Seq(Seq(Cell)) /\ booked \in Seq(Actor) /\ moved \subseteq Delivery
      /\ list \in Headers /\ Good(arrays, list)
  BY DEF TypeInv
<1> HIDE DEF s, i
<1>3. /\ arrays' \in Seq(Seq(Cell)) /\ list' \in Headers /\ Good(arrays', list')
      /\ \A g \in Headers : Good(arrays, g) => Good(arrays', g)
      /\ moved' \subseteq Delivery
  <2>1. CASE UNCHANGED <<arrays, list, moved>>
    BY <1>2, <2>1
  <2>2. CASE /\ i \in 1 .. s.len
             /\ arrays' = [arrays EXCEPT ![s.array] = Shifted(s, i)]
             /\ list' = [s EXCEPT !.len = @ - 1]
             /\ moved' = moved \cup Running
    <3>1. /\ arrays' \in Seq(Seq(Cell)) /\ list' \in Headers /\ Good(arrays', list')
          /\ \A g \in Headers : Good(arrays, g) => Good(arrays', g)
      BY <1>1, <1>2, <2>2, ShiftEffect
    <3>2. moved' \subseteq Delivery
      BY <1>2, <2>2, RunningSends
    <3>3. QED
      BY <3>1, <3>2
  <2>3. QED
    BY <1>1, <2>1, <2>2
<1>4. booked' \in Seq(Actor)
  <2>1. booked' = IF Places(booked, a) = {} THEN booked ELSE Without(booked, FirstPlace(booked, a))
    BY DEF Undo
  <2>2. Places(booked, a) # {} => FirstPlace(booked, a) \in 1 .. Len(booked)
    BY <1>2, FirstPlaceExists
  <2> HIDE DEF a
  <2>3. QED
    BY <1>2, <2>1, <2>2, WithoutType
<1>5. /\ inbox' = [inbox EXCEPT ![h] = Idle]
      /\ UNCHANGED <<sends, requests, crashes, corrupt, torn, first, asked, took>>
  BY DEF Undo
<1>6. QED
  BY <1>3, <1>4, <1>5, HandlerEnds

LEMMA TypeCrash ==
    ASSUME TypeInv, Crash
    PROVE  TypeInv'
<1>1. arrays' = <<>> /\ list' = Nil /\ booked' = <<>> /\ torn' = FALSE /\ corrupt' = FALSE
  BY DEF Crash
<1>2. list' \in Headers /\ Good(arrays', list')
  BY <1>1 DEF Nil, Headers, Good
<1>3. inbox' \in [Handler -> {Idle} \cup Request] /\ Busy' = {}
  BY DEF Crash, Busy
<1>4. sends' \in [Delivery -> Sending] /\ Running' = {}
  <2> DEFINE S(d) == IF d \in Running THEN [sends[d] EXCEPT !.at = "cut"] ELSE sends[d]
  <2>1. ASSUME NEW d \in Delivery
        PROVE  S(d) \in Sending /\ S(d).at \notin {"discover", "post"}
    <3>1. sends[d] \in Sending
      BY DEF TypeInv
    <3>2. CASE d \in Running
      BY <3>1, <3>2 DEF Sending
    <3>3. CASE d \notin Running
      BY <3>1, <3>3 DEF Running
    <3>4. QED
      BY <3>2, <3>3
  <2>2. sends' = [d \in Delivery |-> S(d)]
    BY DEF Crash
  <2> HIDE DEF S
  <2>3. QED
    BY <2>1, <2>2 DEF Running
<1>5. crashes' \in 0 .. MaxCrash
  BY FollowersAssumption DEF Crash, TypeInv, FollowersAssumption
<1>6. <<>> \in Seq(Seq(Cell)) /\ <<>> \in Seq(Actor)
  OBVIOUS
<1>7. UNCHANGED <<requests, first, asked, took, moved>>
  BY DEF Crash
<1>8. QED
  BY <1>1, <1>2, <1>3, <1>4, <1>5, <1>6, <1>7 DEF TypeInv

LEMMA TypeRace ==
    ASSUME TypeInv, Race
    PROVE  TypeInv'
<1>1. /\ corrupt' = TRUE
      /\ UNCHANGED <<arrays, list, inbox, sends, requests, crashes>>
      /\ UNCHANGED <<booked, torn, first, asked, took, moved>>
  BY DEF Race
<1>2. Busy' = Busy /\ Running' = Running
  BY <1>1 DEF Busy, Running
<1>3. QED
  BY <1>1, <1>2 DEF TypeInv

LEMMA TypeBegin ==
    ASSUME TypeInv, NEW d \in Delivery, Begin(d)
    PROVE  TypeInv'
<1> DEFINE t == [Waiting(IF list.len = 0 THEN "done" ELSE "discover") EXCEPT !.over = list]
<1>1. list \in Headers /\ Good(arrays, list) /\ arrays \in Seq(Seq(Cell)) /\ list.len \in Nat
  BY DEF TypeInv, Headers
<1>2. /\ t \in Sending /\ t.over = list /\ t.pos = 1
      /\ t.at = IF list.len = 0 THEN "done" ELSE "discover"
  BY <1>1, FollowersAssumption DEF Waiting, Sending, FollowersAssumption
<1>3. sends' = [sends EXCEPT ![d] = t] /\ first' = [first EXCEPT ![d] = Shown(list)]
  BY DEF Begin
<1> HIDE DEF t
<1>4. sends' \in [Delivery -> Sending]
  BY <1>2, <1>3 DEF TypeInv
<1>5. UNCHANGED <<arrays, list, inbox, requests, crashes, corrupt, booked, torn, asked, took, moved>>
  BY DEF Begin
<1>6. ASSUME NEW e \in Running'
      PROVE  Good(arrays', sends'[e].over) /\ sends'[e].pos <= sends'[e].over.len
  <2>1. e \in Delivery /\ sends'[e].at \in {"discover", "post"} /\ sends \in [Delivery -> Sending]
    BY DEF Running, TypeInv
  <2>2. CASE e = d
    <3>1. sends'[e] = t
      BY <1>3, <2>1, <2>2
    <3>2. list.len # 0
      BY <1>2, <2>1, <3>1
    <3>3. 1 <= list.len
      BY <1>1, <3>2
    <3>4. QED
      BY <1>1, <1>2, <1>5, <3>1, <3>3
  <2>3. CASE e # d
    <3>1. sends'[e] = sends[e]
      BY <1>3, <2>1, <2>3
    <3>2. e \in Running
      BY <2>1, <3>1 DEF Running
    <3>3. QED
      BY <1>5, <3>1, <3>2 DEF TypeInv
  <2>4. QED
    BY <2>2, <2>3
<1>7. first' \in [Delivery -> Seq(Actor)]
  <2>1. Shown(list) \in Seq(Actor)
    BY <1>1, ShownIsView, ViewType
  <2>2. QED
    BY <1>3, <2>1 DEF TypeInv
<1>8. \A h \in Busy' : Good(arrays', inbox'[h].seen)
  <2>1. Busy' = Busy
    BY <1>5 DEF Busy
  <2>2. QED
    BY <1>5, <2>1 DEF TypeInv
<1>9. QED
  BY <1>4, <1>5, <1>6, <1>7, <1>8 DEF TypeInv

\* The cell a delivery reads is that of its view.
LEMMA CellIs ==
    ASSUME TypeInv, NEW d \in Running
    PROVE  /\ Reads(sends[d]) \in Actor
           /\ Reads(sends[d]) = View(arrays, sends[d].over)[sends[d].pos]
<1> DEFINE s == sends[d]
<1>1. s \in Sending /\ Good(arrays, s.over) /\ s.pos <= s.over.len /\ arrays \in Seq(Seq(Cell))
  BY DEF TypeInv, Running
<1>2. s.over \in Headers /\ s.pos \in Nat \ {0} /\ s.over.len \in Nat
  BY <1>1 DEF Sending, Headers
<1>3. s.pos \in 1 .. s.over.len
  BY <1>1, <1>2
<1>4. /\ View(arrays, s.over) \in Seq(Actor) /\ Len(View(arrays, s.over)) = s.over.len
      /\ View(arrays, s.over)[s.pos] = arrays[s.over.array][s.pos]
  <2> HIDE DEF s
  <2>1. QED
    BY <1>1, <1>2, <1>3, ViewType
<1>5. View(arrays, s.over)[s.pos] \in Actor
  <2> HIDE DEF s
  <2>1. QED
    BY <1>3, <1>4, ElementOfSeq
<1>6. QED
  BY <1>4, <1>5 DEF Reads

LEMMA TypeDeliver ==
    ASSUME TypeInv, NEW d \in Delivery, Deliver(d)
    PROVE  TypeInv'
<1>1. sends \in [Delivery -> Sending]
  BY DEF TypeInv
<1>2. PICK t \in Sending, n \in 0 .. Timeout :
          /\ sends' = [sends EXCEPT ![d] = t]
          /\ t.over = sends[d].over /\ sends[d].spent <= t.spent /\ Waits(d, n)
          /\ Asks(d, sends[d], t, n) \/ Posts(sends[d], t, n) \/ Skips(sends[d], t, n)
  BY <1>1, DeliverIs
<1>3. UNCHANGED <<arrays, list, inbox, requests, crashes, corrupt, booked, torn, first, moved>>
  BY <1>1, DeliverIs DEF Rest
<1>4. d \in Running
  BY <1>2 DEF Asks, Posts, Skips, Running
<1>5. Good(arrays, sends[d].over) /\ sends[d].pos <= sends[d].over.len
  BY <1>4 DEF TypeInv
<1>6. /\ sends[d] \in Sending /\ sends[d].pos \in Nat /\ sends[d].over.len \in Nat
  BY <1>1 DEF Sending, Headers
<1>7. t.at \in {"discover", "post"} => t.pos <= t.over.len
  <2>1. ASSUME t.at = "discover" \/ t.at = "post"
        PROVE  \/ t.pos = sends[d].pos
               \/ t.pos = sends[d].pos + 1 /\ sends[d].pos < sends[d].over.len
    BY <1>2 DEF Asks, Posts, Skips, Leaves, Stays, Goes
  <2>2. QED
    BY <1>2, <1>5, <1>6, <2>1
<1>8. ASSUME NEW e \in Running'
      PROVE  Good(arrays', sends'[e].over) /\ sends'[e].pos <= sends'[e].over.len
  <2>1. e \in Delivery /\ sends'[e].at \in {"discover", "post"}
    BY DEF Running
  <2>2. CASE e = d
    <3>1. sends'[e] = t
      BY <1>1, <1>2, <2>2
    <3>2. QED
      BY <1>2, <1>3, <1>5, <1>7, <2>1, <3>1
  <2>3. CASE e # d
    <3>1. sends'[e] = sends[e]
      BY <1>1, <1>2, <2>1, <2>3
    <3>2. e \in Running
      BY <2>1, <3>1 DEF Running
    <3>3. QED
      BY <1>3, <3>1, <3>2 DEF TypeInv
  <2>4. QED
    BY <2>2, <2>3
<1>9. asked' \in [Delivery -> Seq(Actor)]
  <2>1. asked \in [Delivery -> Seq(Actor)]
    BY DEF TypeInv
  <2>2. CASE Asks(d, sends[d], t, n)
    <3>1. asked' = [asked EXCEPT ![d] = Append(@, Reads(sends[d]))]
      BY <2>2 DEF Asks
    <3>2. Reads(sends[d]) \in Actor
      BY <1>4, CellIs
    <3>3. Append(asked[d], Reads(sends[d])) \in Seq(Actor)
      BY <2>1, <3>2
    <3>4. QED
      BY <2>1, <3>1, <3>3
  <2>3. QED
    BY <1>2, <2>1, <2>2 DEF Posts, Skips
<1>10. took' \in [Delivery -> Nat]
  <2>1. took \in [Delivery -> Nat] /\ n \in Nat
    BY FollowersAssumption DEF TypeInv, FollowersAssumption
  <2>2. took' = took \/ took' = [took EXCEPT ![d] = @ + n]
    BY <1>2 DEF Waits, Takes
  <2>3. took[d] + n \in Nat
    BY <2>1
  <2>4. QED
    BY <2>1, <2>2, <2>3
<1>11. \A h \in Busy' : Good(arrays', inbox'[h].seen)
  <2>1. Busy' = Busy
    BY <1>3 DEF Busy
  <2>2. QED
    BY <1>3, <2>1 DEF TypeInv
<1>12. sends' \in [Delivery -> Sending]
  BY <1>1, <1>2
<1>13. QED
  BY <1>3, <1>8, <1>9, <1>10, <1>11, <1>12 DEF TypeInv

\* The type invariant holds in every reachable state.
LEMMA TypeStep ==
    ASSUME TypeInv, [Next]_vars
    PROVE  TypeInv'
<1>1. ASSUME UNCHANGED vars PROVE TypeInv'
  <2>1. /\ arrays' = arrays /\ list' = list /\ inbox' = inbox /\ sends' = sends
        /\ requests' = requests /\ crashes' = crashes /\ booked' = booked /\ torn' = torn
        /\ first' = first /\ asked' = asked /\ took' = took /\ moved' = moved
        /\ corrupt' = corrupt
    BY <1>1 DEF vars
  <2>2. Busy' = Busy /\ Running' = Running
    BY <2>1 DEF Busy, Running
  <2>3. QED
    BY <2>1, <2>2 DEF TypeInv
<1>2. QED
  BY <1>1, TypeRead, TypeFollow, TypeUndo, TypeBegin, TypeDeliver, TypeRace, TypeCrash
  DEF Next, Inbox

\* As long as no two accesses fall on the same moment, no slice reaches into the
\* unused part of an array, whatever handlers stored in between (TypeOK).
THEOREM TypeCorrect == Spec => []TypeOK
<1>1. Init => TypeInv
  BY TypeInit
<1>2. TypeInv /\ [Next]_vars => TypeInv'
  BY TypeStep
<1>3. TypeInv => TypeOK
  <2> SUFFICES ASSUME TypeInv PROVE TypeOK
    OBVIOUS
  <2>1. arrays \in Seq(Seq(Cell)) /\ Len(arrays) \in Nat
    BY DEF TypeInv
  <2>2. ASSUME NEW h \in Headers, Good(arrays, h)
        PROVE  /\ h \in Header /\ (h.array # 0 => h.len <= Len(arrays[h.array]))
               /\ \A i \in DOMAIN Shown(h) : Shown(h)[i] \in Actor
    <3>1. h \in Header /\ (h.array # 0 => h.len <= Len(arrays[h.array]))
      BY <2>2 DEF Good, Header, Headers
    <3>2. Shown(h) \in Seq(Actor)
      BY <2>1, <2>2, ViewType, ShownIsView
    <3>3. QED
      BY <3>1, <3>2
  <2>3. ASSUME NEW h \in Handler, inbox[h] # Idle
        PROVE  /\ inbox[h].do \in {"follow", "undo"} /\ inbox[h].actor \in Actor
               /\ inbox[h].seen \in Headers /\ Good(arrays, inbox[h].seen)
    BY <2>3 DEF TypeInv, Busy, Request
  <2>4. ASSUME NEW d \in Running
        PROVE  sends[d].over \in Headers /\ Good(arrays, sends[d].over)
    BY DEF TypeInv, Running, Sending
  <2>5. \A d \in Delivery : /\ sends[d].at \in {"new", "discover", "post", "done", "cut"}
                            /\ sends[d].tries < Tries
                            /\ sends[d].spent \in 0..Deadline
    <3>1. \A d \in Delivery : sends[d] \in Sending
      BY DEF TypeInv
    <3>2. QED
      BY <3>1, FollowersAssumption DEF Sending, FollowersAssumption
  <2>6. list \in Headers /\ Good(arrays, list)
    BY DEF TypeInv
  <2>7. \A h \in {list} \cup {inbox[g].seen : g \in {g \in Handler : inbox[g] # Idle}}
                 \cup {sends[d].over : d \in Running} :
          h \in Headers /\ Good(arrays, h)
    BY <2>3, <2>4, <2>6
  <2>8. /\ arrays \in Seq(Seq(Actor \cup {Blank}))
        /\ requests \in 0..MaxRequests /\ crashes \in 0..MaxCrash
        /\ booked \in Seq(Actor) /\ torn \in BOOLEAN /\ moved \subseteq Delivery
        /\ corrupt \in BOOLEAN
    BY DEF TypeInv, Cell
  <2>9. \A h \in Handler : inbox[h] # Idle =>
            inbox[h].do \in {"follow", "undo"} /\ inbox[h].actor \in Actor /\ inbox[h].seen \in Header
    BY <2>2, <2>3
  <2>10. list \in Header
    BY <2>2, <2>6
  <2>11. \A h \in {list} \cup {inbox[g].seen : g \in {g \in Handler : inbox[g] # Idle}}
                 \cup {sends[d].over : d \in Running} :
            /\ h.array # 0 => h.len <= Len(arrays[h.array])
            /\ \A i \in DOMAIN Shown(h) : Shown(h)[i] \in Actor
    BY <2>2, <2>7
  <2>12. QED
    BY <2>5, <2>8, <2>9, <2>10, <2>11 DEF TypeOK
<1>4. QED
  BY <1>1, <1>2, <1>3, PTL DEF Spec

-----------------------------------------------------------------------------
(* What the theorems need beside the types. *)

\* Requests one at a time: one handler is in progress at most, it read the
\* header of now, and the header shows the followers booked.
ListInv ==
    ~torn => /\ \A g, h \in Busy : g = h
             /\ \A h \in Busy : inbox[h].seen = list
             /\ View(arrays, list) = booked

\* How many followers delivery s has asked, unless it is late.
Reached(s) ==
    CASE s.at = "discover" -> s.pos - 1
      [] s.at = "post"     -> s.pos
      [] s.at = "done"     -> s.over.len
      [] OTHER             -> 0

\* A delivery that nothing moved still sees the followers it began with, has
\* asked them in order, and no header of now is shorter in the same array.
EachInv(d) ==
    LET s == sends[d]
    IN  /\ s.at = "new" => asked[d] = <<>>
        /\ s.at \in {"discover", "post"} =>
              /\ View(arrays, s.over) = first[d]
              /\ s.over.array = list.array => s.over.len <= list.len
        /\ s.at = "done" => s.over.len = Len(first[d])
        /\ Len(asked[d]) <= Len(first[d])
        /\ asked[d] = SubSeq(first[d], 1, Len(asked[d]))
        /\ s.at \in {"discover", "post", "done"} =>
              /\ Len(asked[d]) <= Reached(s)
              /\ ~Late(s) => Len(asked[d]) = Reached(s)

\* What the attempts at one follower can cost, and how many followers s passed.
Waits1    == 2 ^ (Tries - 1) - 1
Passed(s) == CASE s.at \in {"discover", "post"} -> s.pos - 1
               [] s.at = "new"                  -> 0
               [] OTHER                         -> s.over.len
Backed(s) == IF s.at = "post" THEN 2 ^ s.tries - 1 ELSE 0

\* The time spent is what the servers took and the waits between attempts.
SlowInv(d) ==
    LET s == sends[d]
    IN  /\ s.at = "new" => s.spent = 0
        /\ s.at # "new" => s.over.len = Len(first[d])
        /\ s.at = "discover" => s.tries = 0
        /\ s.spent <= took[d] + Waits1 * Passed(s) + Backed(s)

-----------------------------------------------------------------------------
(* Requests one at a time. *)

LEMMA ListInit ==
    ASSUME Init
    PROVE  ListInv
<1>1. Busy = {} /\ View(arrays, list) = <<>> /\ booked = <<>>
  BY DEF Init, Busy, View, Nil
<1>2. QED
  BY <1>1 DEF ListInv

\* The only handler in progress ends: none is left.
LEMMA LastEnds ==
    ASSUME TypeInv, NEW h \in Handler, \A f, g \in Busy : f = g, h \in Busy,
           inbox' = [inbox EXCEPT ![h] = Idle]
    PROVE  Busy' = {}
<1>1. inbox \in [Handler -> {Idle} \cup Request]
  BY DEF TypeInv
<1>2. ASSUME NEW g \in Busy' PROVE FALSE
  <2>1. g \in Handler /\ inbox'[g] # Idle
    BY DEF Busy
  <2>2. g # h
    BY <1>1, <2>1
  <2>3. inbox'[g] = inbox[g]
    BY <1>1, <2>1, <2>2
  <2>4. g \in Busy
    BY <2>1, <2>3 DEF Busy
  <2>5. QED
    BY <2>2, <2>4
<1>3. QED
  BY <1>2

LEMMA ListStep ==
    ASSUME TypeInv, ListInv, [Next]_vars
    PROVE  ListInv'
<1>1. ASSUME NEW h \in Handler, NEW do \in {"follow", "undo"}, NEW a \in Actor,
             Read(h, do, a), ~torn'
      PROVE  ListInv'
  <2>1. /\ ~torn /\ Busy = {}
        /\ inbox' = [inbox EXCEPT ![h] = [do |-> do, actor |-> a, seen |-> list]]
        /\ arrays' = arrays /\ list' = list /\ booked' = booked
    BY <1>1 DEF Read, Busy
  <2>2. inbox \in [Handler -> {Idle} \cup Request]
    BY DEF TypeInv
  <2>3. inbox'[h].seen = list /\ \A g \in Handler \ {h} : inbox'[g] = inbox[g]
    BY <2>1, <2>2
  <2>4. \A g \in Busy' : g = h
    <3>1. ASSUME NEW g \in Busy', g # h PROVE FALSE
      <4>1. g \in Handler /\ inbox'[g] # Idle /\ inbox'[g] = inbox[g]
        BY <2>3, <3>1 DEF Busy
      <4>2. g \in Busy
        BY <4>1 DEF Busy
      <4>3. QED
        BY <2>1, <4>2
    <3>2. QED
      BY <3>1
  <2>5. View(arrays', list') = booked'
    BY <2>1 DEF ListInv
  <2>6. QED
    BY <2>1, <2>3, <2>4, <2>5 DEF ListInv
<1>2. ASSUME NEW h \in Handler, Follow(h), ~torn'
      PROVE  ListInv'
  <2> DEFINE s == inbox[h].seen
             a == inbox[h].actor
  <2>1. /\ h \in Busy /\ s \in Headers /\ Good(arrays, s) /\ a \in Actor
        /\ Append1(s, a) /\ booked' = Append(booked, a)
    BY <1>2, FollowIs
  <2>2. ~torn /\ inbox' = [inbox EXCEPT ![h] = Idle]
    BY <1>2 DEF Follow
  <2>3. s = list /\ View(arrays, list) = booked /\ \A f, g \in Busy : f = g
    BY <2>1, <2>2 DEF ListInv
  <2>4. Busy' = {}
    BY <2>1, <2>2, <2>3, LastEnds
  <2>5. arrays \in Seq(Seq(Cell))
    BY DEF TypeInv
  <2>6. View(arrays', list') = Append(View(arrays, s), a)
    <3> HIDE DEF s, a
    <3>1. QED
      BY <2>1, <2>5, AppendEffect
  <2>7. View(arrays', list') = booked'
    BY <2>1, <2>3, <2>6
  <2>8. QED
    BY <2>4, <2>7 DEF ListInv
<1>3. ASSUME NEW h \in Handler, Undo(h), ~torn'
      PROVE  ListInv'
  <2> DEFINE s == inbox[h].seen
             a == inbox[h].actor
             v == View(arrays, s)
             i == FirstPlace(v, a)
  <2>1. /\ h \in Busy /\ s \in Headers /\ Good(arrays, s)
        /\ \/ Places(v, a) = {} /\ UNCHANGED <<arrays, list, moved>>
           \/ /\ Places(v, a) # {} /\ i \in 1 .. s.len
              /\ arrays' = [arrays EXCEPT ![s.array] = Shifted(s, i)]
              /\ list' = [s EXCEPT !.len = @ - 1]
    BY <1>3, UndoIs
  <2>2. /\ ~torn /\ inbox' = [inbox EXCEPT ![h] = Idle]
        /\ booked' = IF Places(booked, a) = {} THEN booked
                     ELSE Without(booked, FirstPlace(booked, a))
    BY <1>3 DEF Undo
  <2>3. s = list /\ v = booked /\ \A f, g \in Busy : f = g
    BY <2>1, <2>2 DEF ListInv
  <2>4. Busy' = {}
    BY <2>1, <2>2, <2>3, LastEnds
  <2>5. arrays \in Seq(Seq(Cell))
    BY DEF TypeInv
  <2>6. CASE Places(v, a) = {} /\ UNCHANGED <<arrays, list, moved>>
    <3>1. arrays' = arrays /\ list' = list /\ booked' = booked
      BY <2>2, <2>3, <2>6
    <3>2. View(arrays', list') = booked'
      BY <2>3, <3>1
    <3>3. QED
      BY <2>4, <3>2 DEF ListInv
  <2>7. CASE /\ Places(v, a) # {} /\ i \in 1 .. s.len
             /\ arrays' = [arrays EXCEPT ![s.array] = Shifted(s, i)]
             /\ list' = [s EXCEPT !.len = @ - 1]
    <3>1. View(arrays', list') = Without(v, i)
      <4> HIDE DEF s, i
      <4>1. QED
        BY <2>1, <2>5, <2>7, ShiftEffect
    <3>2. booked' = Without(v, i)
      BY <2>2, <2>3, <2>7
    <3>3. View(arrays', list') = booked'
      BY <3>1, <3>2
    <3>4. QED
      BY <2>4, <3>3 DEF ListInv
  <2>8. QED
    BY <2>1, <2>6, <2>7
<1>4. ASSUME Crash PROVE ListInv'
  <2>1. Busy' = {} /\ arrays' = <<>> /\ list' = Nil /\ booked' = <<>>
    BY <1>4 DEF Crash, Busy
  <2>2. View(arrays', list') = <<>>
    BY <2>1 DEF View, Nil
  <2>3. QED
    BY <2>1, <2>2 DEF ListInv
<1>5. ASSUME UNCHANGED <<arrays, list, inbox, booked, torn>> PROVE ListInv'
  <2>1. arrays' = arrays /\ list' = list /\ inbox' = inbox /\ booked' = booked /\ torn' = torn
    BY <1>5
  <2>2. Busy' = Busy
    BY <2>1 DEF Busy
  <2>3. QED
    BY <2>1, <2>2 DEF ListInv
<1>6. ASSUME NEW d \in Delivery, Begin(d) \/ Deliver(d) PROVE ListInv'
  <2>1. UNCHANGED <<arrays, list, inbox, booked, torn>>
    BY <1>6 DEF Begin, Deliver, Discover, Post, Skip, Rest
  <2>2. QED
    BY <1>5, <2>1
<1>7. CASE torn'
  BY <1>7 DEF ListInv
<1>8. CASE ~torn'
  <2>1. Race => UNCHANGED <<arrays, list, inbox, booked, torn>>
    BY DEF Race
  <2>2. QED
    BY <1>1, <1>2, <1>3, <1>4, <1>5, <1>6, <1>8, <2>1 DEF Next, Inbox, vars
<1>9. QED
  BY <1>7, <1>8

\* The slice shows the followers that requests coming one at a time leave, as
\* long as no delivery reads it at the same moment (ListMatches), for every number of actors, handlers and deliveries.
THEOREM OneAtATime == Spec => []ListMatches
<1>1. Init => TypeInv /\ ListInv
  BY TypeInit, ListInit
<1>2. TypeInv /\ ListInv /\ [Next]_vars => (TypeInv /\ ListInv)'
  BY TypeStep, ListStep
<1>3. TypeInv /\ ListInv => ListMatches
  BY ShownIsView DEF ListInv, ListMatches
<1>4. QED
  BY <1>1, <1>2, <1>3, PTL DEF Spec

-----------------------------------------------------------------------------
(* Each entry once. *)

\* A delivery not in progress does not look at the slice.
LEMMA EachAside ==
    ASSUME NEW d \in Delivery, EachInv(d), sends[d].at \notin {"discover", "post"},
           sends'[d] = sends[d], first'[d] = first[d], asked'[d] = asked[d]
    PROVE  EachInv(d)'
BY DEF EachInv, Reached, Late

LEMMA EachSame ==
    ASSUME NEW d \in Delivery, EachInv(d), arrays' = arrays, list' = list,
           sends'[d] = sends[d], first'[d] = first[d], asked'[d] = asked[d]
    PROVE  EachInv(d)'
BY DEF EachInv, Reached, Late

LEMMA EachInit ==
    ASSUME Init, NEW d \in Delivery
    PROVE  EachInv(d)
<1>1. sends[d].at = "new" /\ first[d] = <<>> /\ asked[d] = <<>>
  BY DEF Init, Waiting
<1>2. QED
  BY <1>1 DEF EachInv

\* append by the header of now: what a delivery sees lies before the new cell.
LEMMA EachFollow ==
    ASSUME TypeInv, NEW h \in Handler, Follow(h), NEW d \in Delivery \ moved',
           EachInv(d)
    PROVE  EachInv(d)'
<1> DEFINE s == inbox[h].seen
           a == inbox[h].actor
           o == sends[d].over
<1>1. sends'[d] = sends[d] /\ first'[d] = first[d] /\ asked'[d] = asked[d]
  BY DEF Follow
<1>2. CASE sends[d].at \notin {"discover", "post"}
  BY <1>1, <1>2, EachAside
<1>3. ASSUME sends[d].at \in {"discover", "post"} PROVE EachInv(d)'
  <2>1. d \in Running
    BY <1>3 DEF Running
  <2>2. s = list
    BY <2>1 DEF Follow
  <2>3. s \in Headers /\ Good(arrays, s) /\ a \in Actor /\ Append1(s, a)
    BY FollowIs
  <2>4. arrays \in Seq(Seq(Cell)) /\ Good(arrays, o) /\ sends[d] \in Sending
    BY <2>1 DEF TypeInv
  <2>5. o \in Headers
    BY <2>4 DEF Sending
  <2>6. View(arrays, o) = first[d] /\ (o.array = s.array => o.len <= s.len)
    BY <1>3, <2>2 DEF EachInv
  <2> HIDE DEF s, a, o
  <2>7. /\ arrays' \in Seq(Seq(Cell)) /\ Len(arrays) <= Len(arrays')
        /\ \A g \in Headers : Good(arrays, g) => Good(arrays', g)
        /\ list'.len = s.len + 1
        /\ \/ list'.array = Len(arrays) + 1
           \/ list'.array = s.array /\ s.array # 0
        /\ \A j \in 1 .. Len(arrays) : \A m \in 1 .. Len(arrays[j]) :
              arrays'[j][m] = arrays[j][m] \/ (j = s.array /\ m = s.len + 1)
    BY <2>3, <2>4, AppendEffect
  <2>8. /\ o.len \in Nat /\ o.array \in Nat /\ s.len \in Nat /\ Len(arrays) \in Nat
        /\ o.array <= Len(arrays)
    BY <2>3, <2>4, <2>5 DEF Headers, Good
  <2>9. o.array = list'.array => o.len <= list'.len
    BY <2>6, <2>7, <2>8
  <2>10. ASSUME o.array # 0, NEW i \in 1 .. o.len
         PROVE  arrays[o.array][i] = arrays'[o.array][i]
    <3>1. o.array \in 1 .. Len(arrays) /\ o.len <= Len(arrays[o.array])
      BY <2>4, <2>8, <2>10 DEF Good
    <3>2. arrays[o.array] \in Seq(Cell)
      BY <2>4, <3>1
    <3>3. i \in 1 .. Len(arrays[o.array])
      BY <2>8, <3>1, <3>2
    <3>4. ~(o.array = s.array /\ i = s.len + 1)
      BY <2>6, <2>8
    <3>5. QED
      BY <2>7, <3>1, <3>3, <3>4
  <2>11. View(arrays, o) = View(arrays', o)
    BY <2>4, <2>5, <2>7, <2>10, ViewSame
  <2>12. View(arrays', o) = first'[d]
    BY <1>1, <2>6, <2>11
  <2>13. o = sends'[d].over
    BY <1>1 DEF o
  <2>14. QED
    <3>1. /\ View(arrays', sends'[d].over) = first'[d]
          /\ sends'[d].over.array = list'.array => sends'[d].over.len <= list'.len
      BY <2>9, <2>12, <2>13
    <3>2. QED
      BY <1>1, <3>1 DEF EachInv, Reached, Late
<1>4. QED
  BY <1>2, <1>3

LEMMA EachBegin ==
    ASSUME TypeInv, NEW d \in Delivery, Begin(d), EachInv(d)
    PROVE  EachInv(d)'
<1> DEFINE t == [Waiting(IF list.len = 0 THEN "done" ELSE "discover") EXCEPT !.over = list]
<1>1. sends' = [sends EXCEPT ![d] = t] /\ first' = [first EXCEPT ![d] = Shown(list)]
  BY DEF Begin
<1>2. t.at = (IF list.len = 0 THEN "done" ELSE "discover") /\ t.over = list /\ t.pos = 1
  BY DEF Waiting
<1> HIDE DEF t
<1>3. /\ sends \in [Delivery -> Sending] /\ first \in [Delivery -> Seq(Actor)]
      /\ list \in Headers /\ Good(arrays, list) /\ arrays \in Seq(Seq(Cell))
  BY DEF TypeInv
<1>4. sends'[d] = t /\ first'[d] = View(arrays, list)
  BY <1>1, <1>3, ShownIsView
<1>5. View(arrays, list) \in Seq(Actor) /\ Len(View(arrays, list)) = list.len /\ list.len \in Nat
  BY <1>3, ViewType DEF Headers
<1>6. asked'[d] = <<>> /\ arrays' = arrays /\ list' = list
  BY DEF Begin, EachInv
<1>7. SubSeq(first'[d], 1, 0) = <<>>
  BY <1>4, <1>5
<1>8. Len(asked'[d]) = 0 /\ asked'[d] = SubSeq(first'[d], 1, Len(asked'[d]))
  BY <1>6, <1>7
<1>9. Reached(sends'[d]) = 0
  BY <1>2, <1>4 DEF Reached
<1>10. View(arrays', sends'[d].over) = first'[d] /\ sends'[d].over = list'
  BY <1>2, <1>4, <1>6
<1>11. QED
  BY <1>2, <1>4, <1>5, <1>8, <1>9, <1>10 DEF EachInv

LEMMA EachCrash ==
    ASSUME TypeInv, NEW d \in Delivery, Crash, EachInv(d)
    PROVE  EachInv(d)'
<1>1. first'[d] = first[d] /\ asked'[d] = asked[d]
  BY DEF Crash
<1>2. CASE d \in Running
  <2>1. sends'[d].at = "cut"
    <3>1. sends[d] \in Sending
      BY DEF TypeInv
    <3>2. sends'[d] = [sends[d] EXCEPT !.at = "cut"]
      BY <1>2 DEF Crash
    <3>3. QED
      BY <3>1, <3>2 DEF Sending
  <2>2. QED
    BY <1>1, <2>1 DEF EachInv
<1>3. CASE d \notin Running
  <2>1. sends'[d] = sends[d] /\ sends[d].at \notin {"discover", "post"}
    BY <1>3 DEF Crash, Running
  <2>2. QED
    BY <1>1, <2>1, EachAside
<1>4. QED
  BY <1>2, <1>3

\* One more of a sequence.
LEMMA PrefixGrows ==
    ASSUME NEW f \in Seq(Actor), NEW n \in Nat, n + 1 <= Len(f)
    PROVE  Append(SubSeq(f, 1, n), f[n + 1]) = SubSeq(f, 1, n + 1)
<1> DEFINE p == SubSeq(f, 1, n)
           r == SubSeq(f, 1, n + 1)
           q == Append(p, f[n + 1])
<1>1. /\ p \in Seq(Actor) /\ Len(p) = n /\ \A i \in 1 .. n : p[i] = f[i]
      /\ r \in Seq(Actor) /\ Len(r) = n + 1 /\ \A i \in 1 .. n + 1 : r[i] = f[i]
      /\ f[n + 1] \in Actor
  OBVIOUS
<1> HIDE DEF p, r
<1>2. /\ q \in Seq(Actor) /\ Len(q) = n + 1
      /\ \A i \in 1 .. n + 1 : q[i] = IF i = n + 1 THEN f[n + 1] ELSE p[i]
  BY <1>1
<1>3. \A i \in 1 .. n + 1 : q[i] = r[i]
  <2>1. \A i \in 1 .. n + 1 : i = n + 1 \/ i \in 1 .. n
    OBVIOUS
  <2>2. QED
    BY <1>1, <1>2, <2>1
<1>4. q = r
  <2> HIDE DEF q
  <2>1. QED
    BY <1>1, <1>2, <1>3, SeqEqual
<1>5. QED
  BY <1>4 DEF p, r

\* Where a delivery is after one of its steps, in the terms of EachInv.
LEMMA ReachedNext ==
    ASSUME NEW s \in Sending, NEW t \in Sending, NEW n \in Nat, t.over = s.over,
           s.pos <= s.over.len,
           Leaves(s, t, n) \/ Stays(s, t, n) \/ Goes(s, t, n)
    PROVE  Reached(t) = s.pos /\ t.at \in {"discover", "post", "done"}
<1>1. s.pos \in Nat /\ s.over.len \in Nat
  BY DEF Sending, Headers
<1>2. QED
  BY <1>1 DEF Leaves, Stays, Goes, Reached

LEMMA EachDeliver ==
    ASSUME TypeInv, NEW d \in Delivery \ moved', Deliver(d), EachInv(d)
    PROVE  EachInv(d)'
<1> DEFINE s == sends[d]
           f == first[d]
           q == asked[d]
<1>1. sends \in [Delivery -> Sending] /\ asked \in [Delivery -> Seq(Actor)]
  BY DEF TypeInv
<1>2. PICK t \in Sending, n \in 0 .. Timeout :
          /\ sends' = [sends EXCEPT ![d] = t]
          /\ t.over = s.over /\ s.spent <= t.spent /\ Waits(d, n)
          /\ Asks(d, s, t, n) \/ Posts(s, t, n) \/ Skips(s, t, n)
  BY <1>1, DeliverIs
<1>3. arrays' = arrays /\ list' = list /\ first' = first
  BY <1>1, DeliverIs DEF Rest
<1>4. d \in Running /\ s.at \in {"discover", "post"} /\ s \in Sending
  BY <1>1, <1>2 DEF Asks, Posts, Skips, Running
<1>5. /\ Good(arrays, s.over) /\ s.pos <= s.over.len /\ arrays \in Seq(Seq(Cell))
      /\ s.over \in Headers /\ s.pos \in Nat \ {0} /\ s.over.len \in Nat
      /\ s.spent \in 0 .. Deadline /\ t.spent \in 0 .. Deadline /\ n \in Nat
  <2>1. Good(arrays, s.over) /\ s.pos <= s.over.len /\ arrays \in Seq(Seq(Cell))
    BY <1>4 DEF TypeInv
  <2>2. /\ s.over \in Headers /\ s.pos \in Nat \ {0} /\ s.spent \in 0 .. Deadline
        /\ t.spent \in 0 .. Deadline
    BY <1>4 DEF Sending
  <2>3. s.over.len \in Nat /\ n \in Nat
    BY <2>2, FollowersAssumption DEF Headers, FollowersAssumption
  <2>4. QED
    BY <2>1, <2>2, <2>3
<1>6. /\ View(arrays, s.over) = f /\ (s.over.array = list.array => s.over.len <= list.len)
      /\ q = SubSeq(f, 1, Len(q)) /\ Len(q) <= Reached(s)
      /\ ~Late(s) => Len(q) = Reached(s)
  BY <1>4 DEF EachInv
<1>7. f \in Seq(Actor) /\ Len(f) = s.over.len
  <2> HIDE DEF s, f
  <2>1. QED
    BY <1>5, <1>6, ViewType
<1>8. sends'[d] = t /\ first'[d] = f
  BY <1>1, <1>2, <1>3
<1>9. Len(q) \in Nat
  BY <1>1
<1> HIDE DEF s, f, q
<1>10. Reached(t) = s.pos /\ t.at \in {"discover", "post", "done"}
  <2>1. Leaves(s, t, n) \/ Stays(s, t, n) \/ Goes(s, t, n)
    BY <1>2 DEF Asks, Posts, Skips
  <2>2. QED
    BY <1>2, <1>4, <1>5, <2>1, ReachedNext
<1>11. /\ Len(asked'[d]) <= s.pos /\ asked'[d] = SubSeq(f, 1, Len(asked'[d]))
       /\ Len(asked'[d]) = s.pos \/ Late(t)
  <2>1. CASE Asks(d, s, t, n)
    <3>1. asked' = [asked EXCEPT ![d] = Append(@, Reads(s))]
      BY <2>1 DEF Asks
    <3>2. Reads(s) = f[s.pos]
      <4>1. Reads(sends[d]) = View(arrays, sends[d].over)[sends[d].pos]
        BY <1>4, CellIs
      <4>2. QED
        BY <1>6, <4>1 DEF s
    <3>4. asked'[d] = Append(q, f[s.pos])
      BY <1>1, <3>1, <3>2 DEF q
    <3>5. Len(q) = s.pos - 1
      BY <1>6, <2>1 DEF Asks, Reached
    <3> DEFINE m == s.pos - 1
    <3>6. m \in Nat /\ m + 1 = s.pos /\ m + 1 <= Len(f)
      BY <1>5, <1>7
    <3> HIDE DEF m
    <3>7. Append(SubSeq(f, 1, m), f[m + 1]) = SubSeq(f, 1, m + 1)
      BY <1>7, <3>6, PrefixGrows
    <3>8. asked'[d] = SubSeq(f, 1, s.pos)
      BY <1>6, <3>4, <3>5, <3>6, <3>7 DEF m
    <3>9. Len(SubSeq(f, 1, s.pos)) = s.pos
      BY <1>5, <1>7
    <3>10. QED
      BY <1>5, <3>8, <3>9
  <2>2. CASE Posts(s, t, n)
    <3>1. asked'[d] = q /\ Len(q) = s.pos
      BY <1>6, <2>2 DEF Posts, Reached, q
    <3>2. QED
      BY <1>5, <1>6, <3>1
  <2>3. CASE Skips(s, t, n)
    <3>1. asked'[d] = q /\ Late(s)
      BY <2>3 DEF Skips, q
    <3>2. Late(t)
      BY <1>2, <1>5, <3>1, FollowersAssumption DEF Late, FollowersAssumption
    <3>3. Reached(s) <= s.pos /\ Reached(s) \in Int
      BY <1>4, <1>5 DEF Reached
    <3>4. QED
      BY <1>5, <1>6, <1>9, <3>1, <3>2, <3>3
  <2>4. QED
    BY <1>2, <2>1, <2>2, <2>3
<1>12. Len(asked'[d]) \in Nat
  <2>1. asked'[d] \in Seq(Actor)
    BY TypeDeliver DEF TypeInv
  <2>2. QED
    BY <2>1
<1>13. t.at = "done" => t.over.len = Len(f)
  BY <1>2, <1>7
<1>14. Len(asked'[d]) <= Len(f)
  BY <1>5, <1>7, <1>11, <1>12
<1>15. View(arrays', t.over) = f /\ (t.over.array = list'.array => t.over.len <= list'.len)
  BY <1>2, <1>3, <1>6
<1>16. QED
  <2>1. t.at # "new"
    BY <1>10
  <2>2. QED
    BY <1>8, <1>10, <1>11, <1>13, <1>14, <1>15, <2>1 DEF EachInv

LEMMA EachStep ==
    ASSUME TypeInv, [Next]_vars, NEW d \in Delivery \ moved',
           d \notin moved => EachInv(d)
    PROVE  EachInv(d)'
<1>1. d \notin moved
  <2>1. ASSUME NEW h \in Handler, NEW do \in {"follow", "undo"}, NEW a \in Actor, Read(h, do, a)
        PROVE  moved \subseteq moved'
    BY <2>1 DEF Read
  <2>2. ASSUME NEW h \in Handler, Follow(h) PROVE moved \subseteq moved'
    BY <2>2 DEF Follow
  <2>3. ASSUME NEW h \in Handler, Undo(h) PROVE moved \subseteq moved'
    BY <2>3, UndoIs
  <2>4. ASSUME NEW e \in Delivery, Begin(e) PROVE moved \subseteq moved'
    BY <2>4 DEF Begin
  <2>5. ASSUME NEW e \in Delivery, Deliver(e) PROVE moved \subseteq moved'
    BY <2>5 DEF Deliver, Discover, Post, Skip, Rest
  <2>6. ASSUME Race \/ Crash \/ UNCHANGED vars PROVE moved \subseteq moved'
    BY <2>6 DEF Race, Crash, vars
  <2>7. QED
    BY <2>1, <2>2, <2>3, <2>4, <2>5, <2>6 DEF Next, Inbox
<1>2. EachInv(d)
  BY <1>1
<1>3. ASSUME NEW h \in Handler, NEW do \in {"follow", "undo"}, NEW a \in Actor, Read(h, do, a)
      PROVE  EachInv(d)'
  BY <1>2, <1>3, EachSame DEF Read
<1>4. ASSUME NEW h \in Handler, Follow(h) PROVE EachInv(d)'
  BY <1>2, <1>4, EachFollow
<1>5. ASSUME NEW h \in Handler, Undo(h) PROVE EachInv(d)'
  <2>1. sends'[d] = sends[d] /\ first'[d] = first[d] /\ asked'[d] = asked[d]
    BY <1>5 DEF Undo
  <2>2. UNCHANGED <<arrays, list, moved>> \/ moved' = moved \cup Running
    BY <1>5, UndoIs
  <2>3. CASE UNCHANGED <<arrays, list, moved>>
    BY <1>2, <2>1, <2>3, EachSame
  <2>4. CASE moved' = moved \cup Running
    <3>1. sends[d].at \notin {"discover", "post"}
      BY <2>4 DEF Running
    <3>2. QED
      BY <1>2, <2>1, <3>1, EachAside
  <2>5. QED
    BY <2>2, <2>3, <2>4
<1>6. ASSUME NEW e \in Delivery, Begin(e) PROVE EachInv(d)'
  <2>1. CASE e = d
    BY <1>2, <1>6, <2>1, EachBegin
  <2>2. CASE e # d
    <3>1. /\ arrays' = arrays /\ list' = list /\ asked' = asked
          /\ sends'[d] = sends[d] /\ first'[d] = first[d]
      BY <1>6, <2>2 DEF Begin, TypeInv
    <3>2. QED
      BY <1>2, <3>1, EachSame
  <2>3. QED
    BY <2>1, <2>2
<1>7. ASSUME NEW e \in Delivery, Deliver(e) PROVE EachInv(d)'
  <2>1. CASE e = d
    BY <1>2, <1>7, <2>1, EachDeliver
  <2>2. CASE e # d
    <3>1. sends \in [Delivery -> Sending] /\ asked \in [Delivery -> Seq(Actor)]
      BY DEF TypeInv
    <3>2. /\ arrays' = arrays /\ list' = list /\ first' = first
          /\ \E t \in Sending : sends' = [sends EXCEPT ![e] = t]
      BY <1>7, <3>1, DeliverIs DEF Rest
    <3>3. asked' = asked \/ \E c : asked' = [asked EXCEPT ![e] = Append(@, c)]
      BY <1>7 DEF Deliver, Discover, Post, Skip
    <3>4. sends'[d] = sends[d] /\ asked'[d] = asked[d]
      BY <2>2, <3>1, <3>2, <3>3
    <3>5. QED
      BY <1>2, <3>2, <3>4, EachSame
  <2>3. QED
    BY <2>1, <2>2
<1>8. ASSUME Crash PROVE EachInv(d)'
  BY <1>2, <1>8, EachCrash
<1>9. ASSUME Race \/ UNCHANGED vars PROVE EachInv(d)'
  <2>1. UNCHANGED <<arrays, list, sends, first, asked>>
    BY <1>9 DEF Race, vars
  <2>2. QED
    BY <1>2, <2>1, EachSame
<1>10. QED
  BY <1>3, <1>4, <1>5, <1>6, <1>7, <1>8, <1>9 DEF Next, Inbox

\* A delivery whose array nothing rewrites goes through the list of the moment
\* it began, entry by entry and each entry once, and through all of it unless
\* its time is over (EachEntryOnce), however many follow meanwhile.  An actor
\* listed twice is asked twice.
THEOREM EachListedOnce == Spec => []EachEntryOnce
<1> DEFINE I == TypeInv /\ \A d \in Delivery \ moved : EachInv(d)
<1>1. Init => I
  BY TypeInit, EachInit
<1>2. I /\ [Next]_vars => I'
  <2> SUFFICES ASSUME I, [Next]_vars PROVE I'
    OBVIOUS
  <2>1. TypeInv'
    BY TypeStep
  <2>2. ASSUME NEW d \in Delivery \ moved' PROVE EachInv(d)'
    BY EachStep
  <2>3. QED
    BY <2>1, <2>2
<1>3. I => EachEntryOnce
  <2> SUFFICES ASSUME I, NEW d \in Delivery \ moved
               PROVE  /\ Len(asked[d]) <= Len(first[d])
                      /\ asked[d] = SubSeq(first[d], 1, Len(asked[d]))
                      /\ sends[d].at = "done" /\ ~Late(sends[d]) => asked[d] = first[d]
    BY DEF EachEntryOnce
  <2>1. EachInv(d)
    OBVIOUS
  <2>2. first[d] \in Seq(Actor)
    BY DEF TypeInv
  <2>3. SubSeq(first[d], 1, Len(first[d])) = first[d]
    BY <2>2
  <2>4. QED
    BY <2>1, <2>3 DEF EachInv, Reached
<1>4. QED
  BY <1>1, <1>2, <1>3, PTL DEF Spec

-----------------------------------------------------------------------------
(* Nobody is left out but for want of time. *)

\* Powers of two grow.
LEMMA PowerMonotone ==
    ASSUME NEW m \in Nat, NEW n \in Nat, m <= n
    PROVE  2 ^ m <= 2 ^ n
<1>1. /\ IsFiniteSet(1 .. m) /\ Cardinality(1 .. m) = m
      /\ IsFiniteSet(1 .. n) /\ Cardinality(1 .. n) = n
  BY FS_Interval
<1>2. /\ Cardinality(SUBSET (1 .. m)) = 2 ^ m /\ Cardinality(SUBSET (1 .. n)) = 2 ^ n
      /\ IsFiniteSet(SUBSET (1 .. n))
  BY <1>1, FS_SUBSET
<1>3. SUBSET (1 .. m) \subseteq SUBSET (1 .. n)
  OBVIOUS
<1>4. Cardinality(SUBSET (1 .. m)) <= Cardinality(SUBSET (1 .. n))
  BY <1>2, <1>3, FS_Subset
<1>5. QED
  BY <1>2, <1>4

\* The waits between the attempts at one follower, all and so far.
LEMMA BackedBound ==
    ASSUME NEW s \in Sending
    PROVE  Waits1 \in Nat /\ Backed(s) \in Nat /\ Backed(s) <= Waits1
<1> DEFINE a == 2 ^ s.tries
           b == 2 ^ (Tries - 1)
<1>1. s.tries \in Nat /\ Tries - 1 \in Nat /\ s.tries <= Tries - 1
  BY FollowersAssumption DEF Sending, FollowersAssumption
<1>2. a \in Nat \ {0} /\ b \in Nat \ {0}
  BY <1>1, PowerType
<1>3. a <= b
  <2> DEFINE m == Tries - 1
  <2>1. m \in Nat /\ s.tries <= m
    BY <1>1
  <2> HIDE DEF m
  <2>2. 2 ^ s.tries <= 2 ^ m
    BY <1>1, <2>1, PowerMonotone
  <2>3. QED
    BY <2>2 DEF m
<1>4. Waits1 = b - 1 /\ (Backed(s) = a - 1 \/ Backed(s) = 0)
  BY DEF Waits1, Backed
<1> HIDE DEF a, b
<1>5. QED
  BY <1>2, <1>3, <1>4

\* One more factor.
LEMMA OneMore ==
    ASSUME NEW x \in Nat, NEW n \in Nat
    PROVE  x * (n + 1) = x * n + x /\ (n + 1) * x = n * x + x /\ x * n \in Nat /\ n * x \in Nat
OBVIOUS

LEMMA Monotone ==
    ASSUME NEW x \in Nat, NEW m \in Nat, NEW n \in Nat, m <= n
    PROVE  x * m <= x * n
<1> DEFINE k == n - m
<1>1. k \in Nat /\ n = m + k
  OBVIOUS
<1> HIDE DEF k
<1>2. x * (m + k) = x * m + x * k /\ x * k \in Nat /\ x * m \in Nat
  BY <1>1
<1>3. QED
  BY <1>1, <1>2

LEMMA SlowSame ==
    ASSUME NEW d \in Delivery, SlowInv(d), sends'[d] = sends[d], first'[d] = first[d],
           took'[d] = took[d]
    PROVE  SlowInv(d)'
BY DEF SlowInv, Passed, Backed, Waits1

LEMMA SlowInit ==
    ASSUME Init, NEW d \in Delivery
    PROVE  SlowInv(d)
<1>1. sends[d] = Waiting("new") /\ took[d] = 0
  BY DEF Init
<1>2. /\ sends[d].at = "new" /\ sends[d].spent = 0
      /\ Passed(sends[d]) = 0 /\ Backed(sends[d]) = 0
  BY <1>1 DEF Waiting, Passed, Backed
<1>3. Waits1 \in Nat
  <2>1. Tries - 1 \in Nat
    BY FollowersAssumption DEF FollowersAssumption
  <2> DEFINE m == Tries - 1
  <2>2. 2 ^ m \in Nat \ {0}
    <3> HIDE DEF m
    <3>1. m \in Nat
      BY <2>1 DEF m
    <3>2. QED
      BY <3>1, PowerType
  <2>3. QED
    BY <2>1, <2>2 DEF Waits1
<1>4. Waits1 * 0 = 0
  BY <1>3
<1>5. QED
  BY <1>1, <1>2, <1>4 DEF SlowInv

LEMMA SlowBegin ==
    ASSUME TypeInv, NEW d \in Delivery, Begin(d), SlowInv(d)
    PROVE  SlowInv(d)'
<1> DEFINE t == [Waiting(IF list.len = 0 THEN "done" ELSE "discover") EXCEPT !.over = list]
<1>1. sends' = [sends EXCEPT ![d] = t] /\ first' = [first EXCEPT ![d] = Shown(list)]
  BY DEF Begin
<1>2. /\ t.at = (IF list.len = 0 THEN "done" ELSE "discover") /\ t.over = list /\ t.pos = 1
      /\ t.spent = 0 /\ t.tries = 0
  BY DEF Waiting
<1> HIDE DEF t
<1>3. /\ sends \in [Delivery -> Sending] /\ first \in [Delivery -> Seq(Actor)]
      /\ list \in Headers /\ Good(arrays, list) /\ arrays \in Seq(Seq(Cell))
      /\ took \in [Delivery -> Nat]
  BY DEF TypeInv
<1>4. sends'[d] = t /\ first'[d] = View(arrays, list)
  BY <1>1, <1>3, ShownIsView
<1>5. Len(View(arrays, list)) = list.len /\ list.len \in Nat
  BY <1>3, ViewType DEF Headers
<1>6. Passed(t) = 0 /\ Backed(t) = 0
  BY <1>2 DEF Passed, Backed
<1>7. took'[d] + Waits1 * 0 + 0 >= 0
  <2>1. took'[d] \in Nat
    BY <1>3 DEF Begin
  <2>2. Waits1 \in Nat
    BY <1>3, BackedBound
  <2>3. Waits1 * 0 = 0
    BY <2>2
  <2>4. QED
    BY <2>1, <2>3
<1>8. QED
  BY <1>2, <1>4, <1>5, <1>6, <1>7 DEF SlowInv

\* What a delivery may have spent when it leaves a follower, or is cut there.
LEMMA AtThisFollower ==
    ASSUME TypeInv, NEW d \in Running, SlowInv(d)
    PROVE  LET s == sends[d]
           IN  /\ s.spent <= took[d] + Waits1 * s.pos
               /\ took[d] \in Nat /\ Waits1 * s.pos \in Nat
               /\ Waits1 * s.pos <= Waits1 * s.over.len
<1> DEFINE s == sends[d]
           H == took[d]
<1>1. /\ d \in Delivery /\ s \in Sending /\ s.at \in {"discover", "post"}
      /\ s.pos <= s.over.len /\ took[d] \in Nat
  BY DEF TypeInv, Running
<1>2. s.pos \in Nat \ {0} /\ s.over.len \in Nat /\ s.spent \in Nat
  BY <1>1, FollowersAssumption DEF Sending, Headers, FollowersAssumption
<1>3. H \in Nat
  BY <1>1
<1>4. s.spent <= H + Waits1 * (s.pos - 1) + Backed(s)
  BY <1>1 DEF SlowInv, Passed
<1> HIDE DEF s, H
<1>5. Waits1 \in Nat /\ Backed(s) \in Nat /\ Backed(s) <= Waits1
  BY <1>1, BackedBound
<1> DEFINE m == s.pos - 1
<1>6. m \in Nat /\ m + 1 = s.pos
  BY <1>2
<1>7. s.spent <= H + Waits1 * m + Backed(s)
  BY <1>4
<1> HIDE DEF m
<1>8. Waits1 * (m + 1) = Waits1 * m + Waits1 /\ Waits1 * m \in Nat
  BY <1>5, <1>6, OneMore
<1>9. s.spent <= H + Waits1 * (m + 1)
  <2> DEFINE x == Waits1 * m
             y == Waits1 * (m + 1)
  <2>1. y = x + Waits1 /\ x \in Nat /\ s.spent <= H + x + Backed(s)
    BY <1>7, <1>8
  <2> HIDE DEF x, y
  <2>2. s.spent <= H + y
    BY <1>2, <1>3, <1>5, <2>1
  <2>3. QED
    BY <2>2 DEF y
<1>10. Waits1 * s.pos \in Nat /\ Waits1 * s.pos <= Waits1 * s.over.len
  BY <1>1, <1>2, <1>5, Monotone, OneMore
<1>11. QED
  BY <1>3, <1>6, <1>9, <1>10 DEF s, H

LEMMA SlowCrash ==
    ASSUME TypeInv, NEW d \in Delivery, Crash, SlowInv(d)
    PROVE  SlowInv(d)'
<1>1. first'[d] = first[d] /\ took'[d] = took[d]
  BY DEF Crash
<1>2. CASE d \in Running
  <2> DEFINE s == sends[d]
             H == took[d]
             L == Waits1 * s.over.len
  <2>1. s \in Sending /\ s.at \in {"discover", "post"} /\ s.over.len = Len(first[d])
    BY <1>2 DEF TypeInv, Running, SlowInv
  <2>2. /\ sends'[d].at = "cut" /\ sends'[d].spent = s.spent /\ sends'[d].over = s.over
        /\ sends'[d].tries = s.tries
    <3>1. sends'[d] = [s EXCEPT !.at = "cut"]
      BY <1>2 DEF Crash
    <3>2. QED
      BY <2>1, <3>1 DEF Sending
  <2>3. /\ s.spent <= H + Waits1 * s.pos
        /\ H \in Nat /\ Waits1 * s.pos \in Nat
        /\ Waits1 * s.pos <= L
    BY <1>2, AtThisFollower
  <2>4. s.spent \in Nat /\ Waits1 \in Nat /\ s.over.len \in Nat
    BY <2>1, BackedBound, FollowersAssumption DEF Sending, Headers, FollowersAssumption
  <2>5. L \in Nat
    BY <2>4
  <2>6. Passed(sends'[d]) = s.over.len /\ Backed(sends'[d]) = 0
    BY <2>2 DEF Passed, Backed
  <2>7. s.spent <= H + L + 0
    <3> DEFINE x == Waits1 * s.pos
    <3>1. s.spent <= H + x /\ x \in Nat /\ x <= L
      BY <2>3
    <3> HIDE DEF x, H, L, s
    <3>2. QED
      BY <2>3, <2>4, <2>5, <3>1
  <2>8. QED
    BY <1>1, <2>1, <2>2, <2>6, <2>7 DEF SlowInv
<1>3. CASE d \notin Running
  <2>1. sends'[d] = sends[d]
    BY <1>3 DEF Crash
  <2>2. QED
    BY <1>1, <2>1, SlowSame
<1>4. QED
  BY <1>2, <1>3

LEMMA SlowDeliver ==
    ASSUME TypeInv, NEW d \in Delivery, Deliver(d), SlowInv(d)
    PROVE  SlowInv(d)'
<1> DEFINE s == sends[d]
           H == took[d]
           K == took'[d]
<1>1. sends \in [Delivery -> Sending] /\ took \in [Delivery -> Nat]
  BY DEF TypeInv
<1>2. PICK t \in Sending, n \in 0 .. Timeout :
          /\ sends' = [sends EXCEPT ![d] = t]
          /\ t.over = s.over /\ s.spent <= t.spent /\ Waits(d, n)
          /\ Asks(d, s, t, n) \/ Posts(s, t, n) \/ Skips(s, t, n)
  BY <1>1, DeliverIs
<1>3. first' = first
  BY <1>1, DeliverIs DEF Rest
<1>4. d \in Running /\ s.at \in {"discover", "post"} /\ s \in Sending
  BY <1>1, <1>2 DEF Asks, Posts, Skips, Running
<1>5. sends'[d] = t /\ first'[d] = first[d]
  BY <1>1, <1>2, <1>3
<1>6. H \in Nat /\ K = H + n /\ n \in Nat
  <2>1. took[d] \in Nat /\ n \in Nat
    BY <1>1, FollowersAssumption DEF FollowersAssumption
  <2>2. CASE n = 0 /\ UNCHANGED took
    BY <2>1, <2>2
  <2>3. CASE Takes(d, n)
    <3>1. took'[d] = took[d] + n
      BY <1>1, <2>3 DEF Takes
    <3>2. QED
      BY <2>1, <3>1
  <2>4. QED
    BY <1>2, <2>2, <2>3 DEF Waits
<1>7. /\ s.pos \in Nat \ {0} /\ s.over.len \in Nat /\ s.spent \in Nat /\ t.spent \in Nat
      /\ s.tries \in Nat /\ t.pos \in Nat \ {0} /\ s.pos <= s.over.len
  <2>1. s.pos <= s.over.len
    BY <1>4 DEF TypeInv
  <2>2. QED
    BY <1>4, <2>1, FollowersAssumption DEF Sending, Headers, FollowersAssumption
<1>8. /\ s.spent <= H + Waits1 * s.pos /\ Waits1 * s.pos \in Nat
  BY <1>4, AtThisFollower
<1>9. /\ s.over.len = Len(first[d]) /\ (s.at = "discover" => s.tries = 0)
      /\ s.spent <= H + Waits1 * (s.pos - 1) + Backed(s)
  BY <1>4 DEF SlowInv, Passed
<1> HIDE DEF s, H, K
<1>10. t.over.len = Len(first'[d])
  BY <1>2, <1>5, <1>9
<1>11. Waits1 \in Nat /\ Backed(s) \in Nat /\ Backed(t) \in Nat
  BY <1>4, BackedBound
<1> DEFINE x == Waits1 * (s.pos - 1)
<1>12. x \in Nat
  <2>1. s.pos - 1 \in Nat
    BY <1>7
  <2>2. QED
    BY <1>11, <2>1
<1>13. CASE Leaves(s, t, n)
  <2>1. t.tries = 0 /\ t.spent <= s.spent + n /\ t.at \in {"discover", "done"}
    BY <1>13 DEF Leaves
  <2>2. Passed(t) = s.pos /\ Backed(t) = 0
    BY <1>2, <1>7, <1>13 DEF Leaves, Passed, Backed
  <2> DEFINE y == Waits1 * s.pos
  <2>3. s.spent <= H + y /\ y \in Nat
    BY <1>8
  <2> HIDE DEF x, y
  <2>4. t.spent <= K + y + 0
    BY <1>6, <1>7, <2>1, <2>3
  <2>5. t.spent <= K + Waits1 * Passed(t) + Backed(t)
    BY <2>2, <2>4 DEF y
  <2>6. QED
    BY <1>5, <1>10, <2>1, <2>5 DEF SlowInv, K
<1>14. CASE Stays(s, t, n)
  <2>1. /\ t.at = "post" /\ t.pos = s.pos /\ t.tries = s.tries + 1
        /\ t.spent <= s.spent + 2 ^ s.tries + n
    BY <1>14 DEF Stays
  <2>2. s.at = "post"
    <3>1. s.at # "discover"
      <4>1. CASE Asks(d, s, t, n)
        <5>1. t.at = "post" => t.tries = s.tries
          BY <4>1 DEF Asks, Leaves, Goes
        <5>2. QED
          BY <1>7, <2>1, <5>1
      <4>2. CASE Posts(s, t, n)
        BY <4>2 DEF Posts
      <4>3. CASE Skips(s, t, n)
        BY <2>1, <4>3 DEF Skips, Leaves
      <4>4. QED
        BY <1>2, <4>1, <4>2, <4>3
    <3>2. QED
      BY <1>4, <3>1
  <2> DEFINE p == 2 ^ s.tries
             r == 2 ^ (s.tries + 1)
  <2>3. p \in Nat \ {0} /\ r = p + p
    BY <1>7, PowerType, PowerNext
  <2>4. Backed(s) = p - 1 /\ Backed(t) = r - 1
    BY <2>1, <2>2 DEF Backed
  <2>5. Passed(t) = s.pos - 1
    BY <2>1 DEF Passed
  <2>6. t.spent <= s.spent + p + n /\ s.spent <= H + x + Backed(s)
    BY <1>9, <2>1
  <2> HIDE DEF p, r, x
  <2>7. t.spent <= K + x + (r - 1)
    BY <1>6, <1>7, <1>12, <2>3, <2>4, <2>6
  <2>8. t.spent <= K + Waits1 * Passed(t) + Backed(t)
    BY <2>4, <2>5, <2>7 DEF x
  <2>9. QED
    BY <1>5, <1>10, <2>1, <2>8 DEF SlowInv, K
<1>15. ASSUME s.at = "discover", Goes(s, t, n)
       PROVE  SlowInv(d)'
  <2>0. t.at = "post" /\ t.pos = s.pos /\ t.tries = s.tries /\ t.spent <= s.spent + n
    BY <1>15 DEF Goes
  <2>1. Backed(s) = 0 /\ Passed(t) = s.pos - 1
    BY <1>15, <2>0 DEF Backed, Passed
  <2>2. s.spent <= H + x + Backed(s)
    BY <1>9
  <2> HIDE DEF x
  <2>3. t.spent <= K + x + Backed(t)
    BY <1>6, <1>7, <1>11, <1>12, <2>0, <2>1, <2>2
  <2>4. t.spent <= K + Waits1 * Passed(t) + Backed(t)
    BY <2>1, <2>3 DEF x
  <2>5. QED
    BY <1>5, <1>10, <2>0, <2>4 DEF SlowInv, K
<1>16. QED
  BY <1>2, <1>13, <1>14, <1>15 DEF Asks, Posts, Skips

LEMMA SlowStep ==
    ASSUME TypeInv, [Next]_vars, NEW d \in Delivery, SlowInv(d)
    PROVE  SlowInv(d)'
<1>1. ASSUME UNCHANGED <<sends, first, took>> PROVE SlowInv(d)'
  BY <1>1, SlowSame
<1>2. ASSUME NEW h \in Handler,
             (\E do \in {"follow", "undo"}, a \in Actor : Read(h, do, a)) \/ Follow(h) \/ Undo(h)
      PROVE  SlowInv(d)'
  <2>1. UNCHANGED <<sends, first, took>>
    BY <1>2 DEF Read, Follow, Undo
  <2>2. QED
    BY <1>1, <2>1
<1>3. ASSUME NEW e \in Delivery, Begin(e) PROVE SlowInv(d)'
  <2>1. CASE e = d
    BY <1>3, <2>1, SlowBegin
  <2>2. CASE e # d
    <3>1. sends'[d] = sends[d] /\ first'[d] = first[d] /\ took' = took
      BY <1>3, <2>2 DEF Begin, TypeInv
    <3>2. QED
      BY <3>1, SlowSame
  <2>3. QED
    BY <2>1, <2>2
<1>4. ASSUME NEW e \in Delivery, Deliver(e) PROVE SlowInv(d)'
  <2>1. CASE e = d
    BY <1>4, <2>1, SlowDeliver
  <2>2. CASE e # d
    <3>1. sends \in [Delivery -> Sending] /\ took \in [Delivery -> Nat]
      BY DEF TypeInv
    <3>2. /\ first' = first
          /\ \E t \in Sending, n \in 0 .. Timeout :
                sends' = [sends EXCEPT ![e] = t] /\ Waits(e, n)
      BY <1>4, <3>1, DeliverIs DEF Rest
    <3>3. took' = took \/ \E n \in 0 .. Timeout : took' = [took EXCEPT ![e] = @ + n]
      BY <3>2 DEF Waits, Takes
    <3>4. sends'[d] = sends[d] /\ took'[d] = took[d]
      BY <2>2, <3>1, <3>2, <3>3
    <3>5. QED
      BY <3>2, <3>4, SlowSame
  <2>3. QED
    BY <2>1, <2>2
<1>5. ASSUME Crash PROVE SlowInv(d)'
  BY <1>5, SlowCrash
<1>6. ASSUME Race \/ UNCHANGED vars PROVE SlowInv(d)'
  BY <1>1, <1>6 DEF Race, vars
<1>7. QED
  BY <1>2, <1>3, <1>4, <1>5, <1>6 DEF Next, Inbox

\* A delivery runs into its deadline only when the time the servers took and the
\* waits between attempts fill it (SkippedOnlyIfSlow), for every number of tries.
THEOREM LeftOutOnlyIfSlow == Spec => []SkippedOnlyIfSlow
<1> DEFINE I == TypeInv /\ \A d \in Delivery : SlowInv(d)
<1>1. Init => I
  BY TypeInit, SlowInit
<1>2. I /\ [Next]_vars => I'
  <2> SUFFICES ASSUME I, [Next]_vars PROVE I'
    OBVIOUS
  <2>1. TypeInv'
    BY TypeStep
  <2>2. ASSUME NEW d \in Delivery PROVE SlowInv(d)'
    BY SlowStep
  <2>3. QED
    BY <2>1, <2>2
<1>3. I => SkippedOnlyIfSlow
  <2> SUFFICES ASSUME I, NEW d \in Delivery, Late(sends[d])
               PROVE  took[d] + (2 ^ (Tries - 1) - 1) * Len(first[d]) >= Deadline
    BY DEF SkippedOnlyIfSlow
  <2> DEFINE s == sends[d]
             H == took[d]
             L == Waits1 * s.over.len
  <2>1. SlowInv(d) /\ s \in Sending /\ took[d] \in Nat
    BY DEF TypeInv
  <2>2. s.spent = Deadline /\ Deadline \in Nat \ {0} /\ s.over.len \in Nat
    BY <2>1, FollowersAssumption DEF Late, Sending, Headers, FollowersAssumption
  <2>3. s.at # "new" /\ s.over.len = Len(first[d])
    BY <2>1, <2>2 DEF SlowInv
  <2>4. Waits1 \in Nat /\ H \in Nat
    BY <2>1, <2>2, BackedBound
  <2>5. L \in Nat
    BY <2>2, <2>4
  <2>6. Deadline <= H + L
    <3>1. CASE d \in Running
      <4> DEFINE x == Waits1 * s.pos
      <4>1. s.spent <= H + x /\ x \in Nat /\ x <= L
        BY <2>1, <3>1, AtThisFollower
      <4> HIDE DEF x, H, L, s
      <4>2. QED
        BY <2>2, <2>4, <2>5, <4>1
    <3>2. CASE d \notin Running
      <4>1. Passed(s) = s.over.len /\ Backed(s) = 0
        BY <2>1, <2>3, <3>2 DEF Running, Passed, Backed
      <4>2. s.spent <= H + L + 0
        BY <2>1, <4>1 DEF SlowInv
      <4> HIDE DEF H, L, s
      <4>3. QED
        BY <2>2, <2>4, <2>5, <4>2
    <3>3. QED
      BY <3>1, <3>2
  <2>7. H + Waits1 * Len(first[d]) >= Deadline
    <3>1. L = Waits1 * Len(first[d])
      BY <2>3
    <3> HIDE DEF H, L, s
    <3>2. QED
      BY <2>2, <2>4, <2>5, <2>6, <3>1
  <2>8. QED
    BY <2>7 DEF Waits1
<1>4. QED
  BY <1>1, <1>2, <1>3, PTL DEF Spec

=============================================================================
