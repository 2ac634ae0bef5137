--------------------------- MODULE BranchesProofs ---------------------------
(***************************************************************************)
(* Theorems about Branches and its limiter, for every set of stewards and  *)
(* payloads, every rate and burst and every cap.                           *)
(***************************************************************************)
EXTENDS Branches, FiniteSetTheorems, SequenceTheorems, WellFoundedInduction, TLAPS

-----------------------------------------------------------------------------
(* The bucket. *)

\* A refill earns at most the rate times the advance of the clock, keeps what
\* was there, and stops at the burst.
LEMMA RefilledBounds ==
    ASSUME NEW b \in Bucket, NEW n \in Int
    PROVE  /\ Refilled(b, n) \in Bucket
           /\ n <= b.last => Refilled(b, n) = b
           /\ n > b.last =>
                /\ Refilled(b, n).last = n
                /\ Refilled(b, n).level <= b.level + (n - b.last) * Rate
                /\ \/ Refilled(b, n).level = b.level + (n - b.last) * Rate
                   \/ /\ Refilled(b, n).level = Burst
                      /\ Burst < b.level + (n - b.last) * Rate
<1>1. b.level \in 0..Burst /\ b.last \in Int /\ Rate \in Nat /\ Burst \in Nat
  BY RateAssumption DEF Bucket
<1>2. CASE n <= b.last
  BY <1>1, <1>2 DEF Refilled
<1>3. CASE n > b.last
  <2> DEFINE e == b.level + (n - b.last) * Rate
  <2>1. e \in Nat
    <3>1. n - b.last \in Nat
      BY <1>1, <1>3
    <3>2. (n - b.last) * Rate \in Nat
      BY <1>1, <3>1
    <3> QED BY <1>1, <3>2
  <2>2. Refilled(b, n) = [level |-> IF e > Burst THEN Burst ELSE e, last |-> n]
    BY <1>1, <1>3 DEF Refilled
  <2> HIDE DEF e
  <2>3. Refilled(b, n).level = (IF e > Burst THEN Burst ELSE e) /\ Refilled(b, n).last = n
    BY <2>2
  <2>4. Refilled(b, n) \in Bucket
    BY <1>1, <2>1, <2>2 DEF Bucket
  <2> QED BY <1>1, <1>3, <2>1, <2>3, <2>4 DEF e
<1> QED BY <1>1, <1>2, <1>3

\* A refused call leaves the refilled bucket, an admitted one a token less.
LEMMA AllowedBounds ==
    ASSUME NEW b \in Bucket, NEW n \in Int
    PROVE  /\ Allowed(b, n) \in Bucket
           /\ Allowed(b, n).last = Refilled(b, n).last
           /\ HasToken(b, n) => Allowed(b, n).level = Refilled(b, n).level - Token
           /\ ~HasToken(b, n) => Allowed(b, n) = Refilled(b, n)
<1>1. Refilled(b, n) \in Bucket
  BY RefilledBounds
<1>2. CASE HasToken(b, n)
  <2>1. Refilled(b, n).level >= Token /\ Token \in Nat /\ Burst \in Nat
    BY <1>2, RateAssumption DEF HasToken
  <2>2. Allowed(b, n) = [Refilled(b, n) EXCEPT !.level = @ - Token]
    BY <1>2 DEF Allowed
  <2> QED BY <1>1, <1>2, <2>1, <2>2 DEF Bucket
<1>3. CASE ~HasToken(b, n)
  BY <1>1, <1>3 DEF Allowed
<1> QED BY <1>2, <1>3

-----------------------------------------------------------------------------
(* The quota. *)

\* Inductive: what was spent is counted from the making of the bucket on.
QuotaInv ==
    /\ now \in Nat
    /\ bucket \in [Steward -> Bucket \cup {None}]
    /\ spent \in [Steward -> [tokens : Nat, since : Nat]]
    /\ \A s \in Steward : bucket[s] = None => spent[s].tokens = 0 /\ spent[s].since = 0
    /\ QuotaKept

\* One bucket, used at clock n.
LEMMA UseOne ==
    ASSUME NEW b \in Bucket, NEW n \in Nat, NEW k \in Nat, NEW since \in Nat,
           b.level + Token * k <= Burst + Rate * (b.last - since)
    PROVE  /\ ~HasToken(b, n) =>
                Allowed(b, n).level + Token * k <= Burst + Rate * (Allowed(b, n).last - since)
           /\ HasToken(b, n) =>
                Allowed(b, n).level + Token * (k + 1)
                   <= Burst + Rate * (Allowed(b, n).last - since)
<1> DEFINE r == Refilled(b, n)
<1>1. /\ Token \in Nat /\ Rate \in Nat /\ Burst \in Nat
      /\ b.level \in Nat /\ b.last \in Int /\ r.level \in Nat /\ r.last \in Int
  <2>1. r \in Bucket
    BY RefilledBounds
  <2>2. \A x \in Bucket : x.level \in Nat /\ x.last \in Int
    BY RateAssumption DEF Bucket
  <2> HIDE DEF r
  <2> QED BY RateAssumption, <2>1, <2>2
<1>2. r.level + Token * k <= Burst + Rate * (r.last - since)
  <2>1. CASE n <= b.last
    BY <2>1, RefilledBounds
  <2>2. CASE n > b.last
    <3>1. r.last = n /\ r.level <= b.level + (n - b.last) * Rate
      BY <2>2, RefilledBounds
    <3>2. Rate * (n - since) = Rate * (b.last - since) + (n - b.last) * Rate
      BY <1>1
    <3>3. Token * k \in Nat /\ Rate * (b.last - since) \in Int /\ (n - b.last) * Rate \in Int
      BY <1>1
    <3> HIDE DEF r
    <3> QED BY <1>1, <3>1, <3>2, <3>3
  <2> QED BY <1>1, <2>1, <2>2
<1>3. Token * (k + 1) = Token * k + Token
  BY <1>1
<1>4. Token * k \in Nat /\ Rate * (r.last - since) \in Int
  BY <1>1
<1>5. /\ ~HasToken(b, n) => Allowed(b, n) = r
      /\ HasToken(b, n) => Allowed(b, n).level = r.level - Token /\ Allowed(b, n).last = r.last
  BY AllowedBounds
<1> HIDE DEF r
<1> QED BY <1>1, <1>2, <1>3, <1>4, <1>5

\* The bucket a call uses, made full at the first use.
LEMMA UseBucket ==
    ASSUME QuotaInv, NEW s \in Steward
    PROVE  LET b == BucketOf(s)
               since == IF bucket[s] = None THEN now ELSE spent[s].since
           IN  /\ b \in Bucket /\ since \in Nat
               /\ b.level + Token * spent[s].tokens <= Burst + Rate * (b.last - since)
               /\ b.level + Token * spent[s].tokens <= Burst + Rate * (b.last - spent[s].since)
<1>1. /\ Token \in Nat /\ Rate \in Nat /\ Burst \in Nat /\ now \in Nat
      /\ spent[s].tokens \in Nat /\ spent[s].since \in Nat
  BY RateAssumption DEF QuotaInv
<1>2. CASE bucket[s] = None
  <2>1. BucketOf(s) = [level |-> Burst, last |-> now]
    BY <1>2 DEF BucketOf, NewBucket
  <2>2. spent[s].tokens = 0 /\ spent[s].since = 0
    BY <1>2 DEF QuotaInv
  <2>3. Token * 0 = 0 /\ Rate * (now - now) = 0 /\ Rate * (now - 0) \in Nat
    BY <1>1
  <2>4. BucketOf(s) \in Bucket
    BY <1>1, <2>1 DEF Bucket
  <2>5. BucketOf(s).level = Burst /\ BucketOf(s).last = now
    BY <2>1
  <2> QED BY <1>1, <1>2, <2>2, <2>3, <2>4, <2>5
<1>3. CASE bucket[s] # None
  BY <1>1, <1>3 DEF BucketOf, QuotaInv, QuotaKept
<1> QED BY <1>2, <1>3

\* A call either leaves the limiter alone, or uses the bucket of the signer.
LEMMA Calls ==
    ASSUME NEW t \in Submitted, Apply(t)
    PROVE  /\ now' = now
           /\ \/ UNCHANGED <<bucket, spent>>
              \/ /\ HasToken(BucketOf(t.by), now)
                 /\ bucket' = [bucket EXCEPT ![t.by] = Allowed(BucketOf(t.by), now)]
                 /\ spent' = [spent EXCEPT ![t.by] =
                        [tokens |-> @.tokens + 1,
                         since  |-> IF bucket[t.by] = None THEN now ELSE @.since]]
              \/ /\ ~HasToken(BucketOf(t.by), now)
                 /\ bucket' = [bucket EXCEPT ![t.by] = Allowed(BucketOf(t.by), now)]
                 /\ spent' = spent
<1>1. CASE Throttle(t)
  BY <1>1 DEF Throttle, Throttled
<1>2. CASE Accept(t) \/ SaveFails(t) \/ Refuse(t) \/ Equivocate(t)
  <2>1. ~Throttled(t) /\ Charge(t) /\ now' = now
    BY <1>2 DEF Accept, SaveFails, Refuse, Equivocate
  <2> QED BY <2>1 DEF Throttled, Charge
<1> QED BY <1>1, <1>2 DEF Apply

\* Whoever submits is a steward of the model.
LEMMA SubmittedBy ==
    ASSUME NEW t \in Submitted
    PROVE  t.by \in Steward
BY BranchAssumption DEF Submitted

\* A call pays for what it takes; the clock and a restart leave the account balanced.
LEMMA QuotaStep == QuotaInv /\ [Next]_vars => QuotaInv'
<1> SUFFICES ASSUME QuotaInv, [Next]_vars PROVE QuotaInv'
  OBVIOUS
<1>0. None \notin Bucket
  BY BranchAssumption
<1>1. ASSUME NEW t \in Submitted, Apply(t)
      PROVE  QuotaInv'
  <2> DEFINE s == t.by
  <2> DEFINE b == BucketOf(s)
  <2> DEFINE a == Allowed(b, now)
  <2>1. s \in Steward /\ now' = now /\ now \in Nat
    BY <1>1, Calls, SubmittedBy DEF QuotaInv
  <2>2. CASE UNCHANGED <<bucket, spent>>
    BY <2>1, <2>2 DEF QuotaInv, QuotaKept
  <2> DEFINE since == IF bucket[s] = None THEN now ELSE spent[s].since
  <2>3. /\ b \in Bucket /\ since \in Nat /\ spent[s].tokens \in Nat /\ spent[s].since \in Nat
        /\ b.level + Token * spent[s].tokens <= Burst + Rate * (b.last - since)
        /\ b.level + Token * spent[s].tokens <= Burst + Rate * (b.last - spent[s].since)
    BY <2>1, UseBucket DEF QuotaInv
  <2>4. a \in Bucket /\ a # None
    BY <1>0, <2>1, <2>3, AllowedBounds
  <2>5. CASE /\ HasToken(b, now)
             /\ bucket' = [bucket EXCEPT ![s] = a]
             /\ spent' = [spent EXCEPT ![s] = [tokens |-> @.tokens + 1, since |-> since]]
    <3>1. a.level + Token * (spent[s].tokens + 1) <= Burst + Rate * (a.last - since)
      <4> HIDE DEF b, since
      <4> QED BY <2>1, <2>3, <2>5, UseOne
    <3> HIDE DEF a, b, since
    <3>2. /\ bucket' \in [Steward -> Bucket \cup {None}]
          /\ spent' \in [Steward -> [tokens : Nat, since : Nat]]
          /\ bucket'[s] = a /\ spent'[s].tokens = spent[s].tokens + 1 /\ spent'[s].since = since
          /\ \A x \in Steward : x # s => bucket'[x] = bucket[x] /\ spent'[x] = spent[x]
      BY <2>1, <2>3, <2>4, <2>5 DEF QuotaInv
    <3>3. \A x \in Steward : bucket'[x] = None => spent'[x].tokens = 0 /\ spent'[x].since = 0
      BY <2>4, <3>2 DEF QuotaInv
    <3>4. QuotaKept'
      BY <3>1, <3>2 DEF QuotaInv, QuotaKept
    <3> QED BY <2>1, <3>2, <3>3, <3>4 DEF QuotaInv
  <2>6. CASE /\ ~HasToken(b, now)
             /\ bucket' = [bucket EXCEPT ![s] = a]
             /\ spent' = spent
    <3>1. a.level + Token * spent[s].tokens <= Burst + Rate * (a.last - spent[s].since)
      <4> HIDE DEF b
      <4> QED BY <2>1, <2>3, <2>6, UseOne
    <3> HIDE DEF a, b
    <3>2. /\ bucket' \in [Steward -> Bucket \cup {None}]
          /\ bucket'[s] = a
          /\ \A x \in Steward : x # s => bucket'[x] = bucket[x]
      BY <2>1, <2>4, <2>6 DEF QuotaInv
    <3>3. \A x \in Steward : bucket'[x] = None => spent'[x].tokens = 0 /\ spent'[x].since = 0
      BY <2>4, <2>6, <3>2 DEF QuotaInv
    <3>4. QuotaKept'
      BY <2>6, <3>1, <3>2 DEF QuotaInv, QuotaKept
    <3> QED BY <2>1, <2>6, <3>2, <3>3, <3>4 DEF QuotaInv
  <2> QED BY <1>1, <2>2, <2>5, <2>6, Calls
<1>2. CASE Restart
  <2>1. /\ now' = now /\ bucket' = [s \in Steward |-> None]
        /\ spent' = [s \in Steward |-> [tokens |-> 0, since |-> 0]]
    BY <1>2 DEF Restart
  <2> QED BY <2>1 DEF QuotaInv, QuotaKept
<1>3. CASE Clock
  BY <1>3, BranchAssumption DEF Clock, QuotaInv, QuotaKept
<1>4. CASE UNCHANGED vars
  BY <1>4 DEF vars, QuotaInv, QuotaKept
<1> QED BY <1>1, <1>2, <1>3, <1>4 DEF Next

\* A steward never gets more out of a bucket than the burst and what the clock's
\* advance earned, however the clock goes to and fro.
THEOREM QuotaHolds == Spec => []QuotaKept
<1>1. Init => QuotaInv
  BY DEF Init, QuotaInv, QuotaKept
<1>2. QuotaInv => QuotaKept
  BY DEF QuotaInv
<1> QED BY <1>1, <1>2, QuotaStep, PTL DEF Spec

-----------------------------------------------------------------------------
(* The wait told to a refused caller.                                       *)

\* The quotient of the division, in products.
LEMMA WaitBounds ==
    ASSUME NEW b \in Bucket, NEW n \in Int, ~HasToken(b, n)
    PROVE  LET L == Refilled(b, n).level
               w == RetryIn(b, n)
           IN  /\ w \in Nat /\ L \in Nat /\ L < Token
               /\ w * Rate <= Token - L /\ Token - L < (w + 1) * Rate
<1> DEFINE L == Refilled(b, n).level
<1> DEFINE x == Token - L
<1>1. L \in Nat /\ Token \in Nat /\ Rate \in Nat \ {0} /\ L < Token
  <2>1. Refilled(b, n) \in Bucket
    BY RefilledBounds
  <2>2. Refilled(b, n).level \in Nat
    BY <2>1, RateAssumption DEF Bucket
  <2> HIDE DEF L
  <2> QED BY <2>2, RateAssumption DEF HasToken, L
<1>2. RetryIn(b, n) = x \div Rate
  BY DEF RetryIn
<1> HIDE DEF L
<1>3. x \in Nat
  BY <1>1
<1> HIDE DEF x
<1>4. /\ x \div Rate \in Nat /\ x % Rate \in 0..(Rate - 1)
      /\ x = (x \div Rate) * Rate + (x % Rate)
  BY <1>1, <1>3
<1>5. (x \div Rate + 1) * Rate = (x \div Rate) * Rate + Rate
  BY <1>1, <1>4
<1>6. (x \div Rate) * Rate <= x /\ x < (x \div Rate + 1) * Rate
  <2> DEFINE q == (x \div Rate) * Rate
  <2>1. q \in Nat /\ x % Rate \in Nat /\ x % Rate < Rate
    BY <1>1, <1>4
  <2> HIDE DEF q
  <2>2. x = q + (x % Rate) /\ (x \div Rate + 1) * Rate = q + Rate
    BY <1>4, <1>5 DEF q
  <2>3. q <= x /\ x < q + Rate
    BY <1>1, <2>1, <2>2
  <2> QED BY <2>2, <2>3 DEF q
<1> QED BY <1>1, <1>2, <1>4, <1>6 DEF L, x

\* Before the wait is over the bucket still lacks a token; a tick after it, a
\* bucket whose clock did not go back has one, when a full bucket has.
LEMMA WaitIsRight ==
    ASSUME Token <= Burst, NEW b \in Bucket, NEW n \in Nat, ~HasToken(b, n)
    PROVE  /\ \A d \in 0..(RetryIn(b, n) - 1) : ~HasToken(b, n + d)
           /\ n >= b.last => HasToken(b, n + RetryIn(b, n) + 1)
<1> DEFINE L == Refilled(b, n).level
<1> DEFINE w == RetryIn(b, n)
<1>1. /\ w \in Nat /\ L \in Nat /\ L < Token
      /\ w * Rate <= Token - L /\ Token - L < (w + 1) * Rate
  BY WaitBounds
<1>2. /\ Token \in Nat /\ Burst \in Nat /\ Rate \in Nat \ {0}
      /\ b.level \in Nat /\ b.last \in Int
  BY RateAssumption DEF Bucket
<1>3. /\ n <= b.last => L = b.level
      /\ n > b.last => \/ L = b.level + (n - b.last) * Rate
                       \/ L = Burst /\ Burst < b.level + (n - b.last) * Rate
  BY RefilledBounds
<1> HIDE DEF L
<1> HIDE DEF w
<1>4. ASSUME NEW m \in Int
      PROVE  Refilled(b, m).level \in Nat /\ Refilled(b, m).level <= Burst
  <2>1. Refilled(b, m) \in Bucket
    BY RefilledBounds
  <2>2. \A x \in Bucket : x.level \in Nat /\ x.level <= Burst
    BY RateAssumption DEF Bucket
  <2> QED BY <2>1, <2>2
<1>5. ASSUME NEW d \in 0..(w - 1)
      PROVE  ~HasToken(b, n + d)
  <2> DEFINE K == Refilled(b, n + d).level
  <2>1. d \in Nat /\ d <= w - 1 /\ n + d \in Int
    BY <1>1
  <2>2. /\ n + d <= b.last => K = b.level
        /\ n + d > b.last => K <= b.level + ((n + d) - b.last) * Rate
    <3> DEFINE m == n + d
    <3>1. m \in Int
      BY <2>1
    <3> HIDE DEF m
    <3>2. /\ m <= b.last => Refilled(b, m).level = b.level
          /\ m > b.last => Refilled(b, m).level <= b.level + (m - b.last) * Rate
      BY <3>1, RefilledBounds
    <3> QED BY <3>2, Zenon DEF m, K
  <2>3. K \in Nat /\ K <= Burst
    BY <2>1, <1>4, Zenon
  <2> HIDE DEF K
  <2>4. d * Rate \in Nat /\ d * Rate < Token - L
    <3>1. w * Rate = d * Rate + (w - d) * Rate
      BY <1>1, <1>2, <2>1
    <3>2. (w - d) * Rate > 0
      <4>1. w - d \in Nat \ {0}
        BY <1>1, <2>1
      <4> QED BY <4>1, <1>2
    <3>3. d * Rate \in Nat /\ w * Rate \in Nat /\ (w - d) * Rate \in Nat
      <4>1. w - d \in Nat
        BY <1>1, <2>1
      <4> QED BY <4>1, <1>1, <1>2, <2>1
    <3> QED BY <1>1, <1>2, <3>1, <3>2, <3>3
  <2>5. K < Token
    <3>1. CASE n + d <= b.last
      <4>1. n <= b.last
        BY <1>2, <2>1, <3>1
      <4> QED BY <4>1, <3>1, <2>2, <1>3, <1>1
    <3>2. CASE n + d > b.last /\ n <= b.last
      <4>1. ((n + d) - b.last) * Rate <= d * Rate
        <5>1. d * Rate = ((n + d) - b.last) * Rate + (b.last - n) * Rate
          BY <1>2, <2>1
        <5>2. b.last - n \in Nat /\ n + d - b.last \in Nat
          BY <1>2, <2>1, <3>2
        <5>3. (b.last - n) * Rate \in Nat /\ ((n + d) - b.last) * Rate \in Nat
          BY <5>2, <1>2
        <5> QED BY <5>1, <5>3, <2>4
      <4>2. ((n + d) - b.last) * Rate \in Int
        BY <1>2, <2>1
      <4> QED BY <4>1, <4>2, <3>2, <2>2, <2>3, <2>4, <1>1, <1>2, <1>3
    <3>3. CASE n > b.last
      <4>1. ((n + d) - b.last) * Rate = (n - b.last) * Rate + d * Rate
        BY <1>2, <2>1
      <4>2. (n - b.last) * Rate \in Int /\ n + d > b.last
        BY <1>2, <2>1, <3>3
      <4> QED BY <4>1, <4>2, <3>3, <2>2, <2>3, <2>4, <1>1, <1>2, <1>3
    <3> QED BY <1>2, <2>1, <3>1, <3>2, <3>3
  <2> QED BY <2>3, <2>5, <1>2 DEF HasToken, K
<1>6. ASSUME n >= b.last
      PROVE  HasToken(b, n + w + 1)
  <2> DEFINE K == Refilled(b, n + w + 1).level
  <2>1. n + w + 1 \in Int /\ n + w + 1 > b.last
    BY <1>1, <1>2, <1>6
  <2>2. K = b.level + ((n + w + 1) - b.last) * Rate \/ K = Burst
    <3> DEFINE m == n + w + 1
    <3>1. m \in Int /\ m > b.last
      BY <2>1
    <3> HIDE DEF m
    <3>2. \/ Refilled(b, m).level = b.level + (m - b.last) * Rate
          \/ Refilled(b, m).level = Burst
      BY <3>1, RefilledBounds
    <3> QED BY <3>2, Zenon DEF m, K
  <2>0. K \in Nat
    BY <1>4, <2>1, Zenon
  <2> HIDE DEF K
  <2>3. ((n + w + 1) - b.last) * Rate = (n - b.last) * Rate + (w + 1) * Rate
    BY <1>1, <1>2
  <2>4. (n - b.last) * Rate \in Nat /\ (w + 1) * Rate \in Nat
    <3>1. n - b.last \in Nat
      BY <1>2, <1>6
    <3> QED BY <3>1, <1>1, <1>2
  <2>5. L <= b.level + (n - b.last) * Rate
    BY <1>1, <1>2, <1>3, <1>6, <2>4
  <2>6. K >= Token
    BY <1>1, <1>2, <2>0, <2>2, <2>3, <2>4, <2>5
  <2> QED BY <2>6 DEF HasToken, K
<1> QED BY <1>5, <1>6 DEF w

\* A caller told to wait is told right: no earlier call is admitted, the one a
\* tick later is.  A full bucket has to hold a token, as it does wherever the
\* repository makes a limiter.
THEOREM RetryCorrect ==
    ASSUME Token <= Burst
    PROVE  Spec => []RetryHonest
<1>1. Init => QuotaInv
  BY DEF Init, QuotaInv, QuotaKept
<1>2. QuotaInv => RetryHonest
  <2> SUFFICES ASSUME QuotaInv, NEW s \in Steward, bucket[s] # None, ~HasToken(bucket[s], now)
               PROVE  LET wait == RetryIn(bucket[s], now)
                      IN  /\ \A d \in 0..(wait - 1) : ~HasToken(bucket[s], now + d)
                          /\ now >= bucket[s].last => HasToken(bucket[s], now + wait + 1)
    BY DEF RetryHonest
  <2>1. bucket[s] \in Bucket /\ now \in Nat
    BY DEF QuotaInv
  <2> QED BY <2>1, WaitIsRight
<1> QED BY <1>1, <1>2, QuotaStep, PTL DEF Spec

-----------------------------------------------------------------------------
(* The replay of the log, row by row. *)

\* A non-empty set of naturals has a least element.
LEMMA LeastOf ==
    ASSUME NEW S, S \subseteq Nat, S # {}
    PROVE  \E x \in S : \A y \in S : x <= y
<1> DEFINE R == OpToRel(<, Nat)
<1>1. \A x, y \in Nat : x < y => <<x, y>> \in R
  BY DEF OpToRel
<1>2. IsWellFoundedOn(R, Nat)
  BY NatLessThanWellFounded
<1> HIDE DEF R
<1>3. PICK x \in S : \A y \in S : ~(<<y, x>> \in R)
  BY <1>2, WFMin
<1>4. ASSUME NEW y \in S PROVE x <= y
  <2>1. x \in Nat /\ y \in Nat /\ ~(y < x)
    BY <1>1, <1>3
  <2> QED BY <2>1
<1> QED BY <1>4

Empty == [ok |-> TRUE, mem |-> Fresh]

\* What the replay of the first k rows of d at clock n comes to, row by row.
IsRun(f, k, d, n) ==
    f = [i \in 0..k |-> IF i = 0 THEN Empty ELSE Replayed(f[i - 1], d[i], n)]

\* Two replays agree on the rows both read.
LEMMA RunUnique ==
    ASSUME NEW k \in Nat, NEW l \in Nat, k <= l, NEW n, NEW d, NEW e,
           \A i \in 1..k : d[i] = e[i],
           NEW f, IsRun(f, k, d, n), NEW g, IsRun(g, l, e, n)
    PROVE  f[k] = g[k]
<1>1. ASSUME NEW i \in 0..k
      PROVE  /\ f[i] = IF i = 0 THEN Empty ELSE Replayed(f[i - 1], d[i], n)
             /\ g[i] = IF i = 0 THEN Empty ELSE Replayed(g[i - 1], e[i], n)
  <2>1. i \in 0..l
    OBVIOUS
  <2>2. f = [j \in 0..k |-> IF j = 0 THEN Empty ELSE Replayed(f[j - 1], d[j], n)]
    BY DEF IsRun
  <2>3. g = [j \in 0..l |-> IF j = 0 THEN Empty ELSE Replayed(g[j - 1], e[j], n)]
    BY DEF IsRun
  <2>4. f[i] = IF i = 0 THEN Empty ELSE Replayed(f[i - 1], d[i], n)
    BY <2>2, Zenon
  <2>5. g[i] = IF i = 0 THEN Empty ELSE Replayed(g[i - 1], e[i], n)
    BY <2>1, <2>3, Zenon
  <2> QED BY <2>4, <2>5
<1> DEFINE Differ == {i \in 0..k : f[i] # g[i]}
<1>2. Differ = {}
  <2> SUFFICES ASSUME Differ # {} PROVE FALSE
    OBVIOUS
  <2>1. PICK i \in Differ : \A j \in Differ : i <= j
    <3>1. Differ \subseteq Nat
      OBVIOUS
    <3> HIDE DEF Differ
    <3> QED BY <3>1, LeastOf
  <2>2. i \in 0..k /\ f[i] # g[i]
    OBVIOUS
  <2>3. CASE i = 0
    BY <1>1, <2>2, <2>3
  <2>4. CASE i # 0
    <3>1. i \in 1..k /\ i - 1 \in 0..k /\ ~(i <= i - 1)
      BY <2>2, <2>4
    <3>2. f[i - 1] = g[i - 1]
      BY <2>1, <3>1
    <3>3. d[i] = e[i]
      BY <3>1
    <3>4. f[i] = Replayed(f[i - 1], d[i], n) /\ g[i] = Replayed(g[i - 1], e[i], n)
      BY <1>1, <2>2, <2>4
    <3> QED BY <2>2, <3>2, <3>3, <3>4
  <2> QED BY <2>3, <2>4
<1>3. k \in 0..k
  OBVIOUS
<1> QED BY <1>2, <1>3

\* One row more.
LEMMA RunNext ==
    ASSUME NEW k \in Nat, NEW n, NEW d, NEW e, \A i \in 1..k : d[i] = e[i],
           NEW f, IsRun(f, k, d, n)
    PROVE  \E g : IsRun(g, k + 1, e, n) /\ g[k + 1] = Replayed(f[k], e[k + 1], n)
<1> DEFINE g == [i \in 0..(k + 1) |-> IF i = k + 1 THEN Replayed(f[k], e[k + 1], n) ELSE f[i]]
<1>1. /\ \A i \in 0..k : i \in 0..(k + 1) /\ i # k + 1
      /\ k + 1 \in 0..(k + 1) /\ (k + 1) - 1 = k /\ k + 1 # 0
  OBVIOUS
<1>2. g[k + 1] = Replayed(f[k], e[k + 1], n) /\ \A i \in 0..k : g[i] = f[i]
  BY <1>1, Zenon
<1>3. ASSUME NEW i \in 0..(k + 1)
      PROVE  g[i] = IF i = 0 THEN Empty ELSE Replayed(g[i - 1], e[i], n)
  <2>0. k \in 0..k
    OBVIOUS
  <2>1. CASE i = k + 1
    <3> HIDE DEF g
    <3>1. g[i - 1] = f[k] /\ i # 0
      BY <1>1, <1>2, <2>0, <2>1
    <3> QED BY <1>2, <2>1, <3>1
  <2>2. CASE i # k + 1
    <3>1. i \in 0..k
      BY <2>2
    <3>2. f[i] = IF i = 0 THEN Empty ELSE Replayed(f[i - 1], d[i], n)
      <4>1. f = [j \in 0..k |-> IF j = 0 THEN Empty ELSE Replayed(f[j - 1], d[j], n)]
        BY DEF IsRun
      <4> QED BY <3>1, <4>1, Zenon
    <3>3. i # 0 => i - 1 \in 0..k /\ i \in 1..k
      BY <3>1
    <3> HIDE DEF g
    <3> QED BY <1>2, <3>1, <3>2, <3>3
  <2> QED BY <2>1, <2>2
<1>4. g = [i \in 0..(k + 1) |-> g[i]]
  OBVIOUS
<1>5. IsRun(g, k + 1, e, n)
  <2> HIDE DEF g
  <2> QED BY <1>3, <1>4, Zenon DEF IsRun
<1> QED BY <1>2, <1>5

\* Every log has a replay.
LEMMA RunExists ==
    ASSUME NEW k \in Nat, NEW n, NEW d
    PROVE  \E f : IsRun(f, k, d, n)
<1> DEFINE Missing == {l \in Nat : ~ \E f : IsRun(f, l, d, n)}
<1>1. \E f : IsRun(f, 0, d, n)
  <2> DEFINE f == [i \in 0..0 |-> Empty]
  <2>1. f = [i \in 0..0 |-> IF i = 0 THEN Empty ELSE Replayed(f[i - 1], d[i], n)]
    OBVIOUS
  <2> HIDE DEF f
  <2> QED BY <2>1 DEF IsRun
<1>2. Missing = {}
  <2> SUFFICES ASSUME Missing # {} PROVE FALSE
    OBVIOUS
  <2>1. PICK l \in Missing : \A j \in Missing : l <= j
    <3>1. Missing \subseteq Nat
      OBVIOUS
    <3> HIDE DEF Missing
    <3> QED BY <3>1, LeastOf
  <2>2. l \in Nat /\ ~ \E f : IsRun(f, l, d, n)
    OBVIOUS
  <2>3. l # 0
    BY <1>1, <2>2
  <2>4. l - 1 \in Nat /\ ~(l <= l - 1) /\ (l - 1) + 1 = l
    BY <2>2, <2>3
  <2>5. PICK f : IsRun(f, l - 1, d, n)
    BY <2>1, <2>4
  <2>6. \E g : IsRun(g, (l - 1) + 1, d, n)
    <3> HIDE DEF Missing
    <3> QED BY <2>4, <2>5, RunNext
  <2> QED BY <2>2, <2>4, <2>6
<1> QED BY <1>2

\* The replay of the module is the last row of that run.
LEMMA ReplayIsRun ==
    ASSUME NEW d, Len(d) \in Nat, NEW n
    PROVE  \E f : IsRun(f, Len(d), d, n) /\ Replay(d, n) = f[Len(d)]
<1> DEFINE run == CHOOSE f : f = [i \in 0..Len(d) |->
                       IF i = 0 THEN Empty ELSE Replayed(f[i - 1], d[i], n)]
<1>1. IsRun(run, Len(d), d, n)
  <2>1. \E f : IsRun(f, Len(d), d, n)
    BY RunExists
  <2> QED BY <2>1 DEF IsRun
<1>2. Replay(d, n) = run[Len(d)]
  BY DEF Replay, Empty
<1> HIDE DEF run
<1> QED BY <1>1, <1>2

\* A replay reads the log row by row.
LEMMA ReplayUnfold ==
    ASSUME NEW T, NEW d \in Seq(T), NEW t \in T, NEW n
    PROVE  Replay(Append(d, t), n) = Replayed(Replay(d, n), t, n)
<1> DEFINE e == Append(d, t)
<1> DEFINE k == Len(d)
<1>1. /\ k \in Nat /\ Len(e) = k + 1 /\ e[k + 1] = t
      /\ \A i \in 1..k : d[i] = e[i]
  BY AppendProperties, LenProperties
<1> HIDE DEF e
<1>2. PICK f : IsRun(f, Len(d), d, n) /\ Replay(d, n) = f[Len(d)]
  BY <1>1, ReplayIsRun
<1>3. PICK g : IsRun(g, k + 1, e, n) /\ g[k + 1] = Replayed(f[k], e[k + 1], n)
  <2>1. IsRun(f, k, d, n)
    BY <1>2
  <2> HIDE DEF k
  <2> QED BY <1>1, <2>1, RunNext
<1>4. PICK h : IsRun(h, Len(e), e, n) /\ Replay(e, n) = h[Len(e)]
  <2>1. Len(e) \in Nat
    BY <1>1
  <2> QED BY <2>1, ReplayIsRun
<1>5. h[k + 1] = g[k + 1]
  <2>1. k + 1 \in Nat /\ k + 1 <= k + 1 /\ IsRun(h, k + 1, e, n)
    BY <1>1, <1>4
  <2>2. \A i \in 1..(k + 1) : e[i] = e[i]
    OBVIOUS
  <2> HIDE DEF k
  <2> QED BY <1>3, <2>1, <2>2, RunUnique
<1> QED BY <1>1, <1>2, <1>3, <1>4, <1>5 DEF e

\* The empty log replays into the state a process starts with.
LEMMA ReplayEmpty ==
    ASSUME NEW n
    PROVE  Replay(<<>>, n) = Empty
<1>1. Len(<<>>) = 0
  OBVIOUS
<1>2. PICK f : IsRun(f, 0, <<>>, n) /\ Replay(<<>>, n) = f[0]
  <2>1. \E f : IsRun(f, Len(<<>>), <<>>, n) /\ Replay(<<>>, n) = f[Len(<<>>)]
    <3>1. Len(<<>>) \in Nat
      BY <1>1
    <3> QED BY <3>1, ReplayIsRun
  <2> QED BY <1>1, <2>1
<1>3. f = [i \in 0..0 |-> IF i = 0 THEN Empty ELSE Replayed(f[i - 1], <<>>[i], n)]
  BY <1>2 DEF IsRun
<1>4. f[0] = Empty
  <2>1. 0 \in 0..0
    OBVIOUS
  <2> QED BY <1>3, <2>1, Zenon
<1> QED BY <1>2, <1>4

-----------------------------------------------------------------------------
(* What each operation of Apply leaves behind, field by field.              *)

IsFields(w) == DOMAIN w = {"snap", "hist", "initial", "seen"}
IsBranch(b) == DOMAIN b = {"fields", "parent", "count"}
IsMemory(m) ==
    /\ DOMAIN m = {"genesis", "branches", "next", "custody"}
    /\ m \in [genesis : {m.genesis}, branches : {m.branches}, next : {m.next},
              custody : {m.custody}]
    /\ IsFields(m.genesis)
    /\ \A b \in DOMAIN m.branches : IsBranch(m.branches[b]) /\ IsFields(m.branches[b].fields)

\* Noting a transition touches the equivocation log alone.
LEMMA NotedIs ==
    ASSUME NEW w, IsFields(w), NEW t
    PROVE  /\ IsFields(Noted(w, t))
           /\ Noted(w, t).snap = w.snap
           /\ Noted(w, t).hist = w.hist
           /\ Noted(w, t).initial = w.initial
           /\ Checked(w, t) /\ SeenBy(w, t) = {} => Noted(w, t).seen = {(UNION w.seen) \cup {t}}
           /\ ~(Checked(w, t) /\ SeenBy(w, t) = {}) => Noted(w, t).seen = w.seen
BY DEF IsFields, Noted

\* The stewards at a root do not depend on the equivocation log.
LEMMA StewardsAtSame ==
    ASSUME NEW v, NEW w, v.snap = w.snap, v.hist = w.hist, v.initial = w.initial, NEW r
    PROVE  StewardsAt(v, r) = StewardsAt(w, r)
BY DEF StewardsAt

InitialAfter(w, t) == IF Founding(w, t) THEN t.set ELSE w.initial

\* A founding touches the founding stewards alone.
LEMMA FoundedIs ==
    ASSUME NEW w, IsFields(w), NEW t
    PROVE  LET f == Founded(Noted(w, t), t)
           IN  /\ IsFields(f) /\ f.snap = w.snap /\ f.hist = w.hist
               /\ f.initial = InitialAfter(w, t) /\ f.seen = Noted(w, t).seen
<1> DEFINE x == Noted(w, t)
<1>1. IsFields(x) /\ x.snap = w.snap /\ x.hist = w.hist /\ x.initial = w.initial
  BY NotedIs
<1>2. StewardsAt(x, t.prior) = StewardsAt(w, t.prior)
  BY <1>1, StewardsAtSame
<1> HIDE DEF x
<1>3. Founding(x, t) <=> Founding(w, t)
  BY <1>2 DEF Founding
<1>4. /\ IsFields(Founded(x, t)) /\ Founded(x, t).snap = x.snap
      /\ Founded(x, t).hist = x.hist /\ Founded(x, t).seen = x.seen
      /\ Founded(x, t).initial = IF Founding(x, t) THEN t.set ELSE x.initial
  BY <1>1 DEF Founded, IsFields
<1> QED BY <1>1, <1>3, <1>4 DEF x, InitialAfter

\* The snapshot an applied transition leaves, and the stewards recorded for it.
RootAfter(w, t, id) ==
    IF t.kind = "REMOVE_STEWARD" THEN Drop(w.snap, StewardKey(t.who))
    ELSE Write(w.snap, Writes(t, id))
NextStewards(w, t, id) == StewardsAfter(Founded(Noted(w, t), t), t, RootAfter(w, t, id))
HistAfter(w, t, id) ==
    [r \in DOMAIN w.hist \cup {RootAfter(w, t, id)} |->
        IF r = RootAfter(w, t, id) THEN NextStewards(w, t, id) ELSE w.hist[r]]

\* The tail of Apply: the new root, its history entry, and what was noted before.
LEMMA CommittedIs ==
    ASSUME NEW w, IsFields(w), NEW t, NEW id
    PROVE  LET c == Committed(w, t, id)
           IN  /\ IsFields(c) /\ c.snap = RootAfter(w, t, id) /\ c.hist = HistAfter(w, t, id)
               /\ c.initial = InitialAfter(w, t) /\ c.seen = Noted(w, t).seen
<1> DEFINE f == Founded(Noted(w, t), t)
<1> DEFINE kv == RootAfter(w, t, id)
<1> DEFINE s == NextStewards(w, t, id)
<1>1. /\ IsFields(f) /\ f.snap = w.snap /\ f.hist = w.hist
      /\ f.initial = InitialAfter(w, t) /\ f.seen = Noted(w, t).seen
  BY FoundedIs
<1>2. (IF t.kind = "REMOVE_STEWARD" THEN Drop(f.snap, StewardKey(t.who))
       ELSE Write(f.snap, Writes(t, id))) = kv
  BY <1>1 DEF RootAfter
<1>3. Committed(w, t, id) =
        [f EXCEPT !.snap = kv,
                  !.hist = [r \in DOMAIN f.hist \cup {kv} |-> IF r = kv THEN s ELSE f.hist[r]]]
  BY <1>2 DEF Committed, NextStewards
<1> HIDE DEF f, kv, s
<1>4. /\ IsFields(Committed(w, t, id)) /\ Committed(w, t, id).snap = kv
      /\ Committed(w, t, id).hist =
            [r \in DOMAIN f.hist \cup {kv} |-> IF r = kv THEN s ELSE f.hist[r]]
      /\ Committed(w, t, id).initial = f.initial /\ Committed(w, t, id).seen = f.seen
  BY <1>1, <1>3 DEF IsFields
<1> QED BY <1>1, <1>4 DEF kv, s, HistAfter

\* A declaration touches the custody log alone.
LEMMA DeclaredIs ==
    ASSUME NEW m, IsMemory(m), NEW t
    PROVE  /\ IsMemory(Declared(m, t))
           /\ Declared(m, t).genesis = m.genesis
           /\ Declared(m, t).branches = m.branches
           /\ Declared(m, t).next = m.next
           /\ Declared(m, t).custody = IF MayDeclare(Working(m, t), t)
                                       THEN [m.custody EXCEPT ![t.who] = t.num] ELSE m.custody
BY DEF Declared, IsMemory

NewBranch(m, t) ==
    [fields |-> Fields(StewardsAt(m.genesis, t.prior)), parent |-> t.branch, count |-> 0]
Grown(m, t) ==
    [i \in DOMAIN m.branches \cup {m.next} |-> IF i = m.next THEN NewBranch(m, t) ELSE m.branches[i]]

\* A BRANCH_CREATE adds one branch under the next id.
LEMMA AllocatedIs ==
    ASSUME NEW m, IsMemory(m), NEW t
    PROVE  /\ IsMemory(Allocated(m, t))
           /\ Allocated(m, t).genesis = m.genesis
           /\ Allocated(m, t).custody = m.custody
           /\ t.kind # "BRANCH_CREATE" =>
                Allocated(m, t).next = m.next /\ Allocated(m, t).branches = m.branches
           /\ t.kind = "BRANCH_CREATE" =>
                Allocated(m, t).next = m.next + 1 /\ Allocated(m, t).branches = Grown(m, t)
<1>1. CASE t.kind # "BRANCH_CREATE"
  BY <1>1 DEF Allocated
<1>2. CASE t.kind = "BRANCH_CREATE"
  <2> DEFINE bs == Grown(m, t)
  <2>1. Allocated(m, t) = [m EXCEPT !.branches = bs, !.next = @ + 1]
    BY <1>2 DEF Allocated, Grown, NewBranch
  <2>2. \A i \in DOMAIN bs : IsBranch(bs[i]) /\ IsFields(bs[i].fields)
    BY DEF IsMemory, IsBranch, IsFields, Grown, NewBranch, Fields
  <2> HIDE DEF bs
  <2>3. /\ Allocated(m, t).branches = bs /\ Allocated(m, t).next = m.next + 1
        /\ Allocated(m, t).genesis = m.genesis /\ Allocated(m, t).custody = m.custody
        /\ DOMAIN Allocated(m, t) = {"genesis", "branches", "next", "custody"}
    BY <2>1 DEF IsMemory
  <2>4. IsFields(m.genesis)
    BY DEF IsMemory
  <2>5. Allocated(m, t) \in [genesis : {m.genesis}, branches : {bs}, next : {m.next + 1},
                             custody : {m.custody}]
    BY <2>1 DEF IsMemory
  <2>6. IsMemory(Allocated(m, t))
    <3> DEFINE x == Allocated(m, t)
    <3> HIDE DEF x
    <3>1. /\ x.branches = bs /\ x.next = m.next + 1 /\ x.genesis = m.genesis
          /\ x.custody = m.custody /\ DOMAIN x = {"genesis", "branches", "next", "custody"}
          /\ x \in [genesis : {m.genesis}, branches : {bs}, next : {m.next + 1},
                     custody : {m.custody}]
      BY <2>3, <2>5 DEF x
    <3>2. IsMemory(x)
      BY <2>2, <2>4, <3>1 DEF IsMemory
    <3> QED BY <3>2 DEF x
  <2> QED BY <1>2, <2>3, <2>6 DEF bs
<1> QED BY <1>1, <1>2

\* x is m with the fields w on branch b and k for its count.
OnBranch(x, m, b, w, k) ==
    /\ IsMemory(x) /\ x.genesis = m.genesis /\ x.next = m.next
    /\ DOMAIN x.branches = DOMAIN m.branches
    /\ \A c \in DOMAIN m.branches : c # b => x.branches[c] = m.branches[c]
    /\ x.branches[b].fields = w
    /\ x.branches[b].parent = m.branches[b].parent
    /\ x.branches[b].count = k

\* x is m with a further branch when t makes one.
WithBranch(x, m, t) ==
    /\ IsMemory(x)
    /\ t.kind # "BRANCH_CREATE" => x.next = m.next /\ x.branches = m.branches
    /\ t.kind = "BRANCH_CREATE" =>
          x.next = m.next + 1 /\ x.branches = Grown(m, t)

\* Genesis replaced.
LEMMA PutGenesis ==
    ASSUME NEW m, IsMemory(m), NEW w, IsFields(w)
    PROVE  /\ IsMemory([m EXCEPT !.genesis = w])
           /\ [m EXCEPT !.genesis = w].genesis = w
           /\ [m EXCEPT !.genesis = w].branches = m.branches
           /\ [m EXCEPT !.genesis = w].next = m.next
           /\ [m EXCEPT !.genesis = w].custody = m.custody
BY DEF IsMemory

\* A branch of the registry replaced.
LEMMA PutBranch ==
    ASSUME NEW m, IsMemory(m), NEW b \in DOMAIN m.branches, NEW y, IsBranch(y), IsFields(y.fields)
    PROVE  LET x == [m EXCEPT !.branches[b] = y]
           IN  /\ IsMemory(x) /\ x.genesis = m.genesis /\ x.next = m.next /\ x.custody = m.custody
               /\ DOMAIN x.branches = DOMAIN m.branches
               /\ \A c \in DOMAIN m.branches : c # b => x.branches[c] = m.branches[c]
               /\ x.branches[b] = y
<1> DEFINE x == [m EXCEPT !.branches[b] = y]
<1> DEFINE bs == [m.branches EXCEPT ![b] = y]
<1>1. /\ DOMAIN bs = DOMAIN m.branches /\ bs[b] = y
      /\ \A c \in DOMAIN m.branches : c # b => bs[c] = m.branches[c]
  OBVIOUS
<1>2. x = [m EXCEPT !.branches = bs]
  OBVIOUS
<1> HIDE DEF bs
<1>3. /\ x.branches = bs /\ x.genesis = m.genesis /\ x.next = m.next /\ x.custody = m.custody
      /\ DOMAIN x = {"genesis", "branches", "next", "custody"}
  BY <1>2 DEF IsMemory
<1>5. x \in [genesis : {m.genesis}, branches : {bs}, next : {m.next}, custody : {m.custody}]
  BY <1>2 DEF IsMemory
<1> HIDE DEF x
<1>4. IsMemory(x)
  BY <1>1, <1>3, <1>5 DEF IsMemory
<1> QED BY <1>1, <1>3, <1>4 DEF x

\* Success: genesis, or the one branch, gets what the tail of Apply left.
LEMMA AppliedIs ==
    ASSUME NEW m, IsMemory(m), NEW t, ~Stays(t) => t.branch \in DOMAIN m.branches
    PROVE  LET x == Applied(m, t)
               w == Committed(Working(m, t), t, m.next)
           IN  /\ x.custody = Declared(m, t).custody
               /\ Stays(t) => WithBranch(x, m, t) /\ x.genesis = w
               /\ ~Stays(t) => OnBranch(x, m, t.branch, w, m.branches[t.branch].count + 1)
<1> DEFINE w == Committed(Working(m, t), t, m.next)
<1>1. IsFields(Working(m, t))
  BY DEF Working, IsMemory
<1>2. IsFields(w)
  BY <1>1, CommittedIs
<1> DEFINE d == Declared(m, t)
<1>3. /\ IsMemory(d) /\ d.genesis = m.genesis /\ d.branches = m.branches /\ d.next = m.next
  BY DeclaredIs
<1>4. CASE Stays(t)
  <2> DEFINE a == Allocated(d, t)
  <2>1. Applied(m, t) = [a EXCEPT !.genesis = w]
    BY <1>4 DEF Applied
  <2>2. IsMemory(a) /\ a.custody = d.custody
    BY <1>3, AllocatedIs
  <2>3. Grown(d, t) = Grown(m, t)
    <3> HIDE DEF d
    <3>1. NewBranch(d, t) = NewBranch(m, t)
      BY <1>3 DEF NewBranch
    <3> QED BY <1>3, <3>1 DEF Grown
  <2>4. WithBranch(a, m, t)
    <3> HIDE DEF d
    <3>1. /\ IsMemory(a)
          /\ t.kind # "BRANCH_CREATE" => a.next = d.next /\ a.branches = d.branches
          /\ t.kind = "BRANCH_CREATE" => a.next = d.next + 1 /\ a.branches = Grown(d, t)
      BY <1>3, AllocatedIs
    <3> HIDE DEF a
    <3> QED BY <1>3, <2>3, <3>1 DEF WithBranch
  <2> HIDE DEF a, w, d
  <2>5. /\ IsMemory(Applied(m, t)) /\ Applied(m, t).genesis = w
        /\ Applied(m, t).branches = a.branches /\ Applied(m, t).next = a.next
        /\ Applied(m, t).custody = a.custody
    BY <1>2, <2>1, <2>2, PutGenesis
  <2> QED BY <1>4, <2>2, <2>4, <2>5 DEF WithBranch, w, d
<1>5. CASE ~Stays(t)
  <2> DEFINE b == d.branches[t.branch]
  <2> DEFINE y == [fields |-> w, parent |-> b.parent, count |-> b.count + 1]
  <2>1. IsBranch(b) /\ t.branch \in DOMAIN d.branches
    BY <1>3, <1>5 DEF IsMemory
  <2>2. Applied(m, t) = [d EXCEPT !.branches[t.branch] = y]
    BY <1>5, Zenon DEF Applied
  <2> HIDE DEF b, d, w
  <2>3. IsBranch(y) /\ y.fields = w /\ y.parent = b.parent /\ y.count = b.count + 1
    BY DEF IsBranch
  <2> HIDE DEF y
  <2>4. LET x == Applied(m, t)
        IN  /\ IsMemory(x) /\ x.genesis = d.genesis /\ x.next = d.next /\ x.custody = d.custody
            /\ DOMAIN x.branches = DOMAIN d.branches
            /\ \A c \in DOMAIN d.branches : c # t.branch => x.branches[c] = d.branches[c]
            /\ x.branches[t.branch] = y
    BY <1>2, <1>3, <2>1, <2>2, <2>3, PutBranch
  <2>5. b = m.branches[t.branch]
    BY <1>3 DEF b
  <2> QED BY <1>3, <1>5, <2>3, <2>4, <2>5 DEF OnBranch, w, d
<1> QED BY <1>4, <1>5

\* What a refused transition, or a failed save, leaves of a branch's fields.
Refused(w, t) == [w EXCEPT !.seen = SharedSeen(w, t)]
NotSaved(w, t, id) == [w EXCEPT !.seen = SharedSeen(w, t), !.hist = HistAfter(w, t, id)]

\* A refusal and a failed save keep the root and the founding stewards.
LEMMA RefusedIs ==
    ASSUME NEW w, IsFields(w), NEW t, NEW id
    PROVE  /\ IsFields(Refused(w, t))
           /\ Refused(w, t).snap = w.snap /\ Refused(w, t).hist = w.hist
           /\ Refused(w, t).initial = w.initial /\ Refused(w, t).seen = SharedSeen(w, t)
           /\ IsFields(NotSaved(w, t, id))
           /\ NotSaved(w, t, id).snap = w.snap /\ NotSaved(w, t, id).hist = HistAfter(w, t, id)
           /\ NotSaved(w, t, id).initial = w.initial
           /\ NotSaved(w, t, id).seen = SharedSeen(w, t)
BY DEF IsFields, Refused, NotSaved

\* The fields of a branch replaced, its parent and count kept.
LEMMA PutFields ==
    ASSUME NEW m, IsMemory(m), NEW b \in DOMAIN m.branches, NEW w, IsFields(w)
    PROVE  /\ OnBranch([m EXCEPT !.branches[b].fields = w], m, b, w, m.branches[b].count)
           /\ [m EXCEPT !.branches[b].fields = w].custody = m.custody
<1> DEFINE y == [m.branches[b] EXCEPT !.fields = w]
<1> DEFINE x == [m EXCEPT !.branches[b].fields = w]
<1>1. x = [m EXCEPT !.branches[b] = y]
  OBVIOUS
<1>2. IsBranch(m.branches[b])
  BY DEF IsMemory
<1>3. /\ IsBranch(y) /\ y.fields = w
      /\ y.parent = m.branches[b].parent /\ y.count = m.branches[b].count
  BY <1>2 DEF IsBranch
<1> HIDE DEF y, x
<1>4. /\ IsMemory(x) /\ x.genesis = m.genesis /\ x.next = m.next /\ x.custody = m.custody
      /\ DOMAIN x.branches = DOMAIN m.branches
      /\ \A c \in DOMAIN m.branches : c # b => x.branches[c] = m.branches[c]
      /\ x.branches[b] = y
  <2>1. IsFields(y.fields)
    BY <1>3
  <2> QED BY <1>1, <1>3, <2>1, PutBranch
<1> QED BY <1>3, <1>4 DEF OnBranch, x

\* A refusal leaves the equivocation log, a new branch, a tier or a founding behind.
LEMMA LeftoverIs ==
    ASSUME NEW m, IsMemory(m), NEW t, ~Stays(t) => t.branch \in DOMAIN m.branches
    PROVE  LET x == Leftover(m, t)
               w == Working(m, t)
           IN  /\ x.custody = IF Authorised(w, t) THEN Declared(m, t).custody ELSE m.custody
               /\ ~Stays(t) =>
                    OnBranch(x, m, t.branch, Refused(w, t), m.branches[t.branch].count)
               /\ Stays(t) /\ ~Authorised(w, t) =>
                    /\ IsMemory(x) /\ x.genesis = Noted(w, t)
                    /\ x.branches = m.branches /\ x.next = m.next
               /\ Stays(t) /\ Authorised(w, t) =>
                    WithBranch(x, m, t) /\ x.genesis = Founded(Noted(w, t), t)
<1> DEFINE w == Working(m, t)
<1> DEFINE d == IF Authorised(w, t) THEN Declared(m, t) ELSE m
<1> DEFINE x == Leftover(m, t)
<1>1. IsFields(w)
  BY DEF Working, IsMemory
<1>2. /\ IsMemory(d) /\ d.genesis = m.genesis /\ d.branches = m.branches /\ d.next = m.next
      /\ d.custody = IF Authorised(w, t) THEN Declared(m, t).custody ELSE m.custody
  BY DeclaredIs
<1>3. CASE ~Stays(t)
  <2>1. x = [d EXCEPT !.branches[t.branch].fields.seen = SharedSeen(w, t)]
    BY <1>3 DEF Leftover
  <2>2. d.branches[t.branch].fields = w /\ t.branch \in DOMAIN d.branches
    BY <1>2, <1>3 DEF Working
  <2> HIDE DEF d, w, x
  <2>3. x = [d EXCEPT !.branches[t.branch].fields = Refused(w, t)]
    BY <2>1, <2>2 DEF Refused
  <2>4. IsFields(Refused(w, t))
    BY <1>1, RefusedIs
  <2>5. /\ OnBranch(x, d, t.branch, Refused(w, t), d.branches[t.branch].count)
        /\ x.custody = d.custody
    BY <1>2, <2>2, <2>3, <2>4, PutFields
  <2> QED BY <1>2, <1>3, <2>5 DEF OnBranch, w, x
<1>4. CASE Stays(t) /\ ~Authorised(w, t)
  <2>1. x = [m EXCEPT !.genesis = Noted(w, t)]
    BY <1>4 DEF Leftover
  <2>2. IsFields(Noted(w, t))
    BY <1>1, NotedIs
  <2> HIDE DEF w, x
  <2>3. /\ IsMemory(x) /\ x.genesis = Noted(w, t) /\ x.branches = m.branches
        /\ x.next = m.next /\ x.custody = m.custody
    BY <2>1, <2>2, PutGenesis
  <2> QED BY <1>4, <2>3 DEF w, x
<1>5. CASE Stays(t) /\ Authorised(w, t)
  <2> DEFINE a == Allocated(d, t)
  <2> DEFINE f == Founded(Noted(w, t), t)
  <2>1. x = [a EXCEPT !.genesis = f]
    BY <1>5 DEF Leftover
  <2>2. IsMemory(a) /\ a.custody = d.custody
    BY <1>2, AllocatedIs
  <2>3. Grown(d, t) = Grown(m, t)
    <3> HIDE DEF d
    <3>1. NewBranch(d, t) = NewBranch(m, t)
      BY <1>2 DEF NewBranch
    <3> QED BY <1>2, <3>1 DEF Grown
  <2>4. WithBranch(a, m, t)
    <3> HIDE DEF d
    <3>1. /\ IsMemory(a)
          /\ t.kind # "BRANCH_CREATE" => a.next = d.next /\ a.branches = d.branches
          /\ t.kind = "BRANCH_CREATE" => a.next = d.next + 1 /\ a.branches = Grown(d, t)
      BY <1>2, AllocatedIs
    <3> HIDE DEF a
    <3> QED BY <1>2, <2>3, <3>1 DEF WithBranch
  <2>5. IsFields(f)
    BY <1>1, FoundedIs
  <2> HIDE DEF a, d, f, w, x
  <2>6. /\ IsMemory(x) /\ x.genesis = f /\ x.branches = a.branches /\ x.next = a.next
        /\ x.custody = a.custody
    BY <2>1, <2>2, <2>5, PutGenesis
  <2> QED BY <1>2, <1>5, <2>2, <2>4, <2>6 DEF WithBranch, w, x, f
<1> QED BY <1>3, <1>4, <1>5

\* A failed save on a branch leaves its history behind, and not its root.
LEMMA UnsavedIs ==
    ASSUME NEW m, IsMemory(m), NEW t, ~Stays(t) => t.branch \in DOMAIN m.branches
    PROVE  LET x == Unsaved(m, t)
               w == Working(m, t)
           IN  /\ x.custody = Declared(m, t).custody
               /\ Stays(t) => x = Applied(m, t)
               /\ ~Stays(t) =>
                    OnBranch(x, m, t.branch, NotSaved(w, t, m.next), m.branches[t.branch].count)
<1> DEFINE w == Working(m, t)
<1> DEFINE d == Declared(m, t)
<1> DEFINE x == Unsaved(m, t)
<1>1. IsFields(w)
  BY DEF Working, IsMemory
<1>2. /\ IsMemory(d) /\ d.genesis = m.genesis /\ d.branches = m.branches /\ d.next = m.next
  BY DeclaredIs
<1>3. CASE Stays(t)
  BY <1>3, AppliedIs DEF Unsaved
<1>4. CASE ~Stays(t)
  <2>1. Committed(w, t, m.next).hist = HistAfter(w, t, m.next)
    BY <1>1, CommittedIs
  <2>2. x = [d EXCEPT !.branches[t.branch].fields = NotSaved(w, t, m.next)]
    BY <1>4, <2>1 DEF Unsaved, NotSaved
  <2>3. d.branches[t.branch].fields = w /\ t.branch \in DOMAIN d.branches
    BY <1>2, <1>4 DEF Working
  <2>4. IsFields(NotSaved(w, t, m.next))
    BY <1>1, RefusedIs
  <2> HIDE DEF d, w, x
  <2>5. /\ OnBranch(x, d, t.branch, NotSaved(w, t, m.next), d.branches[t.branch].count)
        /\ x.custody = d.custody
    BY <1>2, <2>2, <2>3, <2>4, PutFields
  <2> QED BY <1>2, <1>4, <2>5 DEF OnBranch, w, d, x
<1> QED BY <1>3, <1>4

-----------------------------------------------------------------------------
(* Types of the fields.                                                     *)

\* A snapshot: finite, an entry per key, and within the cap.
SnapOK(kv) ==
    /\ kv \in SUBSET Entry /\ IsFiniteSet(kv)
    /\ \A e, f \in kv : e.key = f.key => e = f
    /\ Cardinality(kv) <= MaxKV

\* A transition whose payload names the steward it adds.
Logged == {t \in Transition : t.kind = "ADD_STEWARD" => t.who \in Steward}

WrittenKeys(W) == {x[1] : x \in W}

\* A set of two is finite.
LEMMA FinitePair ==
    ASSUME NEW a, NEW b
    PROVE  IsFiniteSet({a} \cup {b})
<1>1. IsFiniteSet({a})
  BY FS_Singleton
<1> QED BY <1>1, FS_AddElement

\* A payload writes finitely many keys, each once.
LEMMA WritesType ==
    ASSUME NEW t \in Logged, NEW id \in Nat
    PROVE  /\ Writes(t, id) \subseteq Key \X Nat
           /\ IsFiniteSet(WrittenKeys(Writes(t, id)))
           /\ \A x, y \in Writes(t, id) : x[1] = y[1] => x = y
<1>1. /\ t.kind \in Kind /\ t.who \in Steward \cup {None} /\ t.set \in SUBSET Steward
      /\ t.num \in Nat /\ t.branch \in Nat
  BY DEF Logged, Transition
<1> DEFINE P == {<<StewardKey(s), 1>> : s \in t.set}
<1> DEFINE W == Writes(t, id)
<1>2. CASE t.kind = "CREATE_GROUP"
  <2>1. W = {<<NameKey, 1>>} \cup P
    BY <1>2 DEF Writes
  <2> HIDE DEF W
  <2>2. W \subseteq Key \X Nat
    BY <1>1, <2>1 DEF NameKey, StewardKey, Key
  <2>3. \A x \in P : x[1] # NameKey
    BY DEF NameKey, StewardKey
  <2>4. \A x, y \in P : x[1] = y[1] => x = y
    BY DEF StewardKey
  <2>5. \A x, y \in W : x[1] = y[1] => x = y
    <3> HIDE DEF P
    <3> QED BY <2>1, <2>3, <2>4
  <2>6. IsFiniteSet(WrittenKeys(W))
    <3> DEFINE K == {StewardKey(s) : s \in t.set}
    <3>1. IsFiniteSet(t.set)
      BY <1>1, BranchAssumption, FS_Subset
    <3> DEFINE f == [s \in t.set |-> StewardKey(s)]
    <3>2. f \in Surjection(t.set, K)
      BY DEF Surjection
    <3>3. IsFiniteSet(K)
      <4> HIDE DEF K, f
      <4> QED BY <3>1, <3>2, FS_Surjection
    <3>4. IsFiniteSet(K \cup {NameKey})
      <4> HIDE DEF K
      <4> QED BY <3>3, FS_AddElement
    <3>5. WrittenKeys(W) = K \cup {NameKey}
      <4>1. <<NameKey, 1>> \in W /\ \A s \in t.set : <<StewardKey(s), 1>> \in W
        BY <2>1
      <4>2. \A x \in W : x[1] = NameKey \/ \E s \in t.set : x[1] = StewardKey(s)
        BY <2>1
      <4>3. K \cup {NameKey} \subseteq WrittenKeys(W)
        <5>1. NameKey = <<NameKey, 1>>[1] /\ \A s \in t.set : StewardKey(s) = <<StewardKey(s), 1>>[1]
          OBVIOUS
        <5> QED BY <4>1, <5>1, Zenon DEF WrittenKeys
      <4>4. WrittenKeys(W) \subseteq K \cup {NameKey}
        BY <4>2 DEF WrittenKeys
      <4> QED BY <4>3, <4>4
    <3> QED BY <3>4, <3>5
  <2> QED BY <2>2, <2>5, <2>6 DEF W
<1>3. CASE t.kind = "ADD_STEWARD"
  <2>1. W = {<<StewardKey(t.who), 1>>}
    BY <1>3 DEF Writes
  <2>2. WrittenKeys(W) = {StewardKey(t.who)}
    BY <2>1 DEF WrittenKeys
  <2>3. IsFiniteSet(WrittenKeys(W))
    BY <2>2, FS_Singleton
  <2> HIDE DEF W
  <2>4. W \subseteq Key \X Nat
    BY <1>1, <2>1 DEF StewardKey, Key
  <2> QED BY <2>1, <2>3, <2>4 DEF W
<1>4. CASE t.kind = "MIGRATE"
  <2>1. W = {<<<<"host", None>>, t.num>>, <<<<"after", None>>, t.num>>}
    BY <1>4 DEF Writes, HostKeys
  <2>2. WrittenKeys(W) = {<<"host", None>>} \cup {<<"after", None>>}
    BY <2>1 DEF WrittenKeys
  <2>3. IsFiniteSet(WrittenKeys(W))
    <3> HIDE DEF W
    <3> QED BY <2>2, FinitePair
  <2> HIDE DEF W
  <2>4. W \subseteq Key \X Nat
    BY <1>1, <2>1 DEF Key
  <2>5. \A x, y \in W : x[1] = y[1] => x = y
    BY <2>1
  <2> QED BY <2>3, <2>4, <2>5 DEF W
<1>5. CASE t.kind = "BRANCH_CREATE"
  <2>1. W = {<<ParentKey(id), t.branch>>, <<ReasonKey(id), 1>>}
    BY <1>5 DEF Writes
  <2>2. WrittenKeys(W) = {ParentKey(id)} \cup {ReasonKey(id)}
    BY <2>1 DEF WrittenKeys
  <2>3. IsFiniteSet(WrittenKeys(W))
    <3> HIDE DEF W
    <3> QED BY <2>2, FinitePair
  <2> HIDE DEF W
  <2>4. W \subseteq Key \X Nat
    BY <1>1, <2>1 DEF Key, ParentKey, ReasonKey
  <2>5. \A x, y \in W : x[1] = y[1] => x = y
    BY <2>1 DEF ParentKey, ReasonKey
  <2> QED BY <2>3, <2>4, <2>5 DEF W
<1>6. CASE t.kind = "DECLARE_CUSTODY"
  <2>1. W = {<<CustodyKey(t.who), t.num>>}
    BY <1>6 DEF Writes
  <2>2. WrittenKeys(W) = {CustodyKey(t.who)}
    BY <2>1 DEF WrittenKeys
  <2>3. IsFiniteSet(WrittenKeys(W))
    BY <2>2, FS_Singleton
  <2> HIDE DEF W
  <2>4. W \subseteq Key \X Nat
    BY <1>1, <2>1 DEF CustodyKey, Key
  <2> QED BY <2>1, <2>3, <2>4 DEF W
<1>7. CASE t.kind = "REMOVE_STEWARD"
  <2>1. W = {}
    BY <1>7 DEF Writes
  <2>2. WrittenKeys(W) = {}
    BY <2>1 DEF WrittenKeys
  <2> QED BY <2>1, <2>2, FS_EmptySet
<1> QED BY <1>1, <1>2, <1>3, <1>4, <1>5, <1>6, <1>7 DEF Kind

\* Writing within the room keeps a snapshot one.
LEMMA WriteType ==
    ASSUME NEW kv, SnapOK(kv), NEW W, W \subseteq Key \X Nat, IsFiniteSet(WrittenKeys(W)),
           \A x, y \in W : x[1] = y[1] => x = y, HasRoom(kv, W)
    PROVE  SnapOK(Write(kv, W))
<1> DEFINE New(x) == [key |-> x[1], val |-> x[2], seq |-> SeqOf(kv, x[1]) + 1]
<1> DEFINE K == WrittenKeys(W)
<1> DEFINE r == Write(kv, W)
<1>1. \A e \in r : (e \in kv /\ e.key \notin K) \/ \E x \in W : e = New(x)
  BY DEF Write, WrittenKeys
<1>2. \A x \in W : x[1] \in Key /\ x[2] \in Nat /\ x[1] \in K
  BY DEF WrittenKeys
<1>3. ASSUME NEW x \in W
      PROVE  New(x) \in Entry
  <2>1. SeqOf(kv, x[1]) \in Nat
    <3>1. CASE x[1] \in Keys(kv)
      <4>1. \E e \in kv : e.key = x[1]
        BY <3>1 DEF Keys
      <4>2. (CHOOSE e \in kv : e.key = x[1]) \in kv
        BY <4>1
      <4>3. \A e \in kv : e.seq \in Nat
        BY DEF SnapOK, Entry
      <4> QED BY <3>1, <4>2, <4>3 DEF SeqOf
    <3>2. CASE x[1] \notin Keys(kv)
      BY <3>2 DEF SeqOf
    <3> QED BY <3>1, <3>2
  <2>2. SeqOf(kv, x[1]) + 1 \in Nat \ {0}
    BY <2>1
  <2> QED BY <1>2, <2>2 DEF Entry
<1>4. r \in SUBSET Entry
  <2>1. kv \subseteq Entry
    BY DEF SnapOK
  <2> HIDE DEF r, New
  <2> QED BY <1>1, <1>3, <2>1
<1>5. \A x \in W : New(x).key = x[1]
  OBVIOUS
<1>6. \A e, f \in r : e.key = f.key => e = f
  <2> SUFFICES ASSUME NEW e \in r, NEW f \in r, e.key = f.key PROVE e = f
    OBVIOUS
  <2>1. \A a, b \in kv : a.key = b.key => a = b
    BY DEF SnapOK
  <2> HIDE DEF r, New, K
  <2>2. CASE e \in kv /\ e.key \notin K
    BY <1>1, <1>2, <1>5, <2>1, <2>2
  <2>3. CASE ~(e \in kv /\ e.key \notin K)
    <3>1. PICK x \in W : e = New(x)
      BY <1>1, <2>3
    <3>2. PICK y \in W : f = New(y)
      BY <1>1, <1>2, <1>5, <3>1
    <3> QED BY <1>5, <3>1, <3>2
  <2> QED BY <2>2, <2>3
<1> DEFINE T == Keys(kv) \cup K
<1>7. IsFiniteSet(Keys(kv)) /\ Cardinality(Keys(kv)) <= Cardinality(kv)
  <2> DEFINE f == [e \in kv |-> e.key]
  <2>1. f \in Surjection(kv, Keys(kv))
    BY DEF Surjection, Keys
  <2> HIDE DEF f
  <2> QED BY <2>1, FS_Surjection DEF SnapOK
<1>8. IsFiniteSet(r) /\ Cardinality(r) <= Cardinality(T) /\ IsFiniteSet(T)
  <2>1. IsFiniteSet(T)
    <3> HIDE DEF K
    <3> QED BY <1>7, FS_Union DEF K
  <2> DEFINE f == [e \in r |-> e.key]
  <2>2. \A e \in r : e.key \in T
    <3>1. \A e \in kv : e.key \in Keys(kv)
      BY DEF Keys
    <3> HIDE DEF r, New, K
    <3> QED BY <1>1, <1>2, <1>5, <3>1
  <2>3. f \in Injection(r, T)
    <3> HIDE DEF r, T
    <3> QED BY <1>6, <2>2 DEF Injection, IsInjective
  <2> HIDE DEF f, r, T
  <2> QED BY <2>1, <2>3, FS_Injection
<1>9. Cardinality(T) <= MaxKV
  <2> DEFINE new == K \ Keys(kv)
  <2>1. \/ new = {}
        \/ Cardinality(kv) + Cardinality(new) <= MaxKV
    BY DEF HasRoom, WrittenKeys
  <2>2. IsFiniteSet(new) /\ T = Keys(kv) \cup new
    <3>1. IsFiniteSet(K)
      OBVIOUS
    <3> HIDE DEF K
    <3>2. IsFiniteSet(K \ Keys(kv))
      BY <3>1, FS_Difference
    <3>3. Keys(kv) \cup K = Keys(kv) \cup (K \ Keys(kv))
      OBVIOUS
    <3> QED BY <3>2, <3>3, Zenon DEF T, new
  <2>3. Keys(kv) \cap new = {}
    OBVIOUS
  <2>4. Cardinality(T) = Cardinality(Keys(kv)) + Cardinality(new) - Cardinality(Keys(kv) \cap new)
    <3> HIDE DEF new, T
    <3> QED BY <1>7, <2>2, FS_Union
  <2>5. /\ Cardinality(Keys(kv)) \in Nat /\ Cardinality(new) \in Nat /\ Cardinality(kv) \in Nat
        /\ Cardinality({}) = 0 /\ MaxKV \in Nat /\ Cardinality(kv) <= MaxKV
    <3> HIDE DEF new
    <3> QED BY <1>7, <2>2, FS_CardinalityType, FS_EmptySet, BranchAssumption DEF SnapOK
  <2>6. Cardinality(Keys(kv) \cap new) = 0 /\ (new = {} => Cardinality(new) = 0)
    <3> HIDE DEF new
    <3> QED BY <2>3, <2>5, Zenon
  <2> HIDE DEF new, T
  <2> QED BY <1>7, <2>1, <2>4, <2>5, <2>6
<1>10. Cardinality(r) \in Nat /\ Cardinality(T) \in Nat
  <2> HIDE DEF r, T
  <2> QED BY <1>8, FS_CardinalityType
<1>11. Cardinality(r) <= MaxKV
  <2> HIDE DEF r, T
  <2> QED BY <1>8, <1>9, <1>10, BranchAssumption
<1> HIDE DEF r
<1> QED BY <1>4, <1>6, <1>8, <1>11 DEF SnapOK, r

\* So does removing an entry.
LEMMA DropType ==
    ASSUME NEW kv, SnapOK(kv), NEW k
    PROVE  SnapOK(Drop(kv, k))
<1>1. Drop(kv, k) \in SUBSET kv
  BY DEF Drop
<1>2. IsFiniteSet(kv) /\ Cardinality(kv) \in Nat /\ Cardinality(kv) <= MaxKV
  BY FS_CardinalityType DEF SnapOK
<1>3. IsFiniteSet(Drop(kv, k)) /\ Cardinality(Drop(kv, k)) <= Cardinality(kv)
  BY <1>1, <1>2, FS_Subset
<1>4. Cardinality(Drop(kv, k)) \in Nat
  BY <1>3, FS_CardinalityType
<1> QED BY <1>1, <1>2, <1>3, <1>4, BranchAssumption DEF SnapOK

-----------------------------------------------------------------------------
(* Types of the memory.                                                     *)

FieldsInv(w) ==
    /\ IsFields(w) /\ SnapOK(w.snap)
    /\ w.hist \in [DOMAIN w.hist -> SUBSET Steward]
    /\ w.initial \in SUBSET Steward

\* The registry holds the ids below the next one, at most MaxBranches with
\* genesis, and a branch's parent is an older one.
MemoryInv(m) ==
    /\ IsMemory(m) /\ FieldsInv(m.genesis)
    /\ m.next \in Nat \ {0} /\ m.next <= MaxBranches
    /\ DOMAIN m.branches = 1..(m.next - 1)
    /\ \A b \in DOMAIN m.branches :
          /\ FieldsInv(m.branches[b].fields)
          /\ m.branches[b].parent \in 0..(b - 1) /\ m.branches[b].count \in Nat
    /\ m.custody \in [Steward -> Nat]

\* The stewards of any root are stewards.
LEMMA StewardsAtType ==
    ASSUME NEW w, FieldsInv(w), NEW r
    PROVE  StewardsAt(w, r) \in SUBSET Steward
<1>1. \A x \in DOMAIN w.hist : w.hist[x] \in SUBSET Steward
  BY DEF FieldsInv
<1>2. w.initial \in SUBSET Steward
  BY DEF FieldsInv
<1> QED BY <1>1, <1>2 DEF StewardsAt

\* What Apply works on is typed like genesis.
LEMMA WorkingType ==
    ASSUME NEW m, MemoryInv(m), NEW t, ~Stays(t) => t.branch \in DOMAIN m.branches
    PROVE  FieldsInv(Working(m, t))
BY DEF Working, MemoryInv

\* A transition puts its own set of stewards at a founding.
LEMMA InitialType ==
    ASSUME NEW w, FieldsInv(w), NEW t \in Logged
    PROVE  InitialAfter(w, t) \in SUBSET Steward
BY DEF InitialAfter, FieldsInv, Logged, Transition

\* So are those a transition records,
LEMMA NextStewardsType ==
    ASSUME NEW w, FieldsInv(w), NEW t \in Logged, NEW id
    PROVE  NextStewards(w, t, id) \in SUBSET Steward
<1> DEFINE f == Founded(Noted(w, t), t)
<1> DEFINE kv == RootAfter(w, t, id)
<1>1. /\ f.hist = w.hist /\ f.initial = InitialAfter(w, t) /\ f.snap = w.snap /\ IsFields(f)
  BY FoundedIs DEF FieldsInv
<1>2. InitialAfter(w, t) \in SUBSET Steward
  BY InitialType
<1> HIDE DEF f, kv
<1>3. FieldsInv(f)
  BY <1>1, <1>2 DEF FieldsInv
<1> DEFINE before == IF t.prior # None THEN StewardsAt(f, t.prior)
                     ELSE IF kv \in DOMAIN f.hist THEN f.hist[kv] ELSE f.initial
<1>4. before \in SUBSET Steward
  <2>1. StewardsAt(f, t.prior) \in SUBSET Steward
    BY <1>3, StewardsAtType
  <2>2. \A x \in DOMAIN f.hist : f.hist[x] \in SUBSET Steward
    BY <1>3 DEF FieldsInv
  <2> QED BY <1>1, <1>2, <2>1, <2>2
<1>5. t.kind = "ADD_STEWARD" => t.who \in Steward
  BY DEF Logged
<1>6. StewardsAfter(f, t, kv) = CASE t.kind = "CREATE_GROUP"   -> f.initial
                                  [] t.kind = "ADD_STEWARD"    -> before \cup {t.who}
                                  [] t.kind = "REMOVE_STEWARD" -> before \ {t.who}
                                  [] OTHER                     -> before
  BY DEF StewardsAfter
<1> HIDE DEF before
<1>7. StewardsAfter(f, t, kv) \in SUBSET Steward
  BY <1>1, <1>2, <1>4, <1>5, <1>6
<1> QED BY <1>7 DEF NextStewards, f, kv

\* and with them the history it leaves.
LEMMA HistType ==
    ASSUME NEW w, FieldsInv(w), NEW t \in Logged, NEW id
    PROVE  HistAfter(w, t, id) \in [DOMAIN HistAfter(w, t, id) -> SUBSET Steward]
<1> DEFINE kv == RootAfter(w, t, id)
<1> DEFINE s == NextStewards(w, t, id)
<1>1. s \in SUBSET Steward
  BY NextStewardsType
<1>2. HistAfter(w, t, id) = [r \in DOMAIN w.hist \cup {kv} |-> IF r = kv THEN s ELSE w.hist[r]]
  BY DEF HistAfter
<1>3. \A x \in DOMAIN w.hist : w.hist[x] \in SUBSET Steward
  BY DEF FieldsInv
<1> HIDE DEF kv, s
<1> QED BY <1>1, <1>2, <1>3

\* With room for its entries, a transition leaves a snapshot,
LEMMA RootType ==
    ASSUME NEW w, FieldsInv(w), NEW t \in Logged, NEW id \in Nat, HasRoom(w.snap, Writes(t, id))
    PROVE  SnapOK(RootAfter(w, t, id))
<1>1. SnapOK(w.snap)
  BY DEF FieldsInv
<1>2. SnapOK(Drop(w.snap, StewardKey(t.who)))
  BY <1>1, DropType
<1>3. SnapOK(Write(w.snap, Writes(t, id)))
  BY <1>1, WritesType, WriteType
<1> QED BY <1>2, <1>3 DEF RootAfter

\* and typed fields.
LEMMA CommittedType ==
    ASSUME NEW w, FieldsInv(w), NEW t \in Logged, NEW id \in Nat, HasRoom(w.snap, Writes(t, id))
    PROVE  FieldsInv(Committed(w, t, id))
<1> DEFINE c == Committed(w, t, id)
<1>1. /\ IsFields(c) /\ c.snap = RootAfter(w, t, id) /\ c.hist = HistAfter(w, t, id)
      /\ c.initial = InitialAfter(w, t)
  BY CommittedIs DEF FieldsInv
<1> HIDE DEF c
<1>2. FieldsInv(c)
  BY <1>1, RootType, HistType, InitialType DEF FieldsInv
<1> QED BY <1>2 DEF c

\* What is left of a branch or of genesis by a refusal or a failed save.
LEMMA LeftType ==
    ASSUME NEW w, FieldsInv(w), NEW t \in Logged, NEW id
    PROVE  /\ FieldsInv(Refused(w, t)) /\ FieldsInv(NotSaved(w, t, id))
           /\ FieldsInv(Noted(w, t)) /\ FieldsInv(Founded(Noted(w, t), t))
<1>1. /\ IsFields(Noted(w, t)) /\ Noted(w, t).snap = w.snap
      /\ Noted(w, t).hist = w.hist /\ Noted(w, t).initial = w.initial
  BY NotedIs DEF FieldsInv
<1>2. FieldsInv(Noted(w, t))
  BY <1>1 DEF FieldsInv
<1> DEFINE f == Founded(Noted(w, t), t)
<1>3. IsFields(f) /\ f.snap = w.snap /\ f.hist = w.hist /\ f.initial = InitialAfter(w, t)
  BY FoundedIs DEF FieldsInv
<1> HIDE DEF f
<1>4. FieldsInv(f)
  BY <1>3, InitialType DEF FieldsInv
<1>5. FieldsInv(Refused(w, t))
  BY RefusedIs DEF FieldsInv
<1>6. FieldsInv(NotSaved(w, t, id))
  <2> DEFINE x == NotSaved(w, t, id)
  <2>1. IsFields(x) /\ x.snap = w.snap /\ x.hist = HistAfter(w, t, id) /\ x.initial = w.initial
    BY RefusedIs DEF FieldsInv
  <2> HIDE DEF x
  <2>2. FieldsInv(x)
    BY <2>1, HistType DEF FieldsInv
  <2> QED BY <2>2 DEF x
<1> QED BY <1>2, <1>4, <1>5, <1>6 DEF f

\* A branch may be made while the registry is below its cap.
LEMMA RoomForBranch ==
    ASSUME NEW m, MemoryInv(m), NEW t, Known(m, t), t.kind = "BRANCH_CREATE"
    PROVE  m.next + 1 <= MaxBranches
<1>1. m.next \in Nat \ {0} /\ DOMAIN m.branches = 1..(m.next - 1)
  BY DEF MemoryInv
<1>2. Cardinality(1..(m.next - 1)) = m.next - 1
  <2>1. m.next - 1 \in Nat
    BY <1>1
  <2> QED BY <2>1, FS_Interval
<1>3. Cardinality(DOMAIN m.branches) + 1 < MaxBranches
  BY DEF Known
<1> QED BY <1>1, <1>2, <1>3, BranchAssumption

\* The branch a known transition names is genesis or one of the registry.
LEMMA KnownBranch ==
    ASSUME NEW m, MemoryInv(m), NEW t \in Logged, Known(m, t)
    PROVE  /\ t.branch \in Nat /\ t.branch < m.next
           /\ ~Stays(t) => t.branch \in DOMAIN m.branches
<1>1. m.next \in Nat \ {0} /\ DOMAIN m.branches = 1..(m.next - 1)
  BY DEF MemoryInv
<1>2. t.branch = 0 \/ t.branch \in 1..(m.next - 1)
  BY <1>1 DEF Known
<1> QED BY <1>1, <1>2 DEF Stays

\* A declared tier is a number.
LEMMA DeclaredType ==
    ASSUME NEW m, MemoryInv(m), NEW t \in Logged, Known(m, t)
    PROVE  Declared(m, t).custody \in [Steward -> Nat]
<1>1. t.num \in Nat
  BY DEF Logged, Transition
<1>2. FieldsInv(Working(m, t))
  BY KnownBranch, WorkingType
<1>3. Declared(m, t).custody = IF MayDeclare(Working(m, t), t)
                               THEN [m.custody EXCEPT ![t.who] = t.num] ELSE m.custody
  BY DeclaredIs DEF MemoryInv
<1>4. m.custody \in [Steward -> Nat]
  BY DEF MemoryInv
<1> QED BY <1>1, <1>3, <1>4

\* A new branch keeps the registry typed, within its cap.
LEMMA WithBranchType ==
    ASSUME NEW m, MemoryInv(m), NEW t \in Logged, Known(m, t), NEW x, WithBranch(x, m, t),
           FieldsInv(x.genesis), x.custody \in [Steward -> Nat]
    PROVE  MemoryInv(x)
<1>1. IsMemory(x)
  BY DEF WithBranch
<1>2. CASE t.kind # "BRANCH_CREATE"
  BY <1>1, <1>2 DEF WithBranch, MemoryInv
<1>3. CASE t.kind = "BRANCH_CREATE"
  <2>1. x.next = m.next + 1 /\ x.branches = Grown(m, t)
    BY <1>3 DEF WithBranch
  <2>2. m.next \in Nat \ {0} /\ DOMAIN m.branches = 1..(m.next - 1) /\ m.next + 1 <= MaxBranches
    BY <1>3, RoomForBranch DEF MemoryInv
  <2>3. /\ DOMAIN x.branches = DOMAIN m.branches \cup {m.next}
        /\ x.branches[m.next] = NewBranch(m, t)
        /\ \A b \in DOMAIN m.branches : x.branches[b] = m.branches[b]
    BY <2>1, <2>2 DEF Grown
  <2>4. DOMAIN x.branches = 1..(x.next - 1)
    BY <2>1, <2>2, <2>3
  <2>5. /\ NewBranch(m, t).fields = Fields(StewardsAt(m.genesis, t.prior))
        /\ NewBranch(m, t).parent = t.branch /\ NewBranch(m, t).count = 0
    BY DEF NewBranch
  <2>6. FieldsInv(NewBranch(m, t).fields)
    <3>1. StewardsAt(m.genesis, t.prior) \in SUBSET Steward
      BY StewardsAtType DEF MemoryInv
    <3> DEFINE S == StewardsAt(m.genesis, t.prior)
    <3> HIDE DEF S
    <3>2. /\ IsFields(Fields(S)) /\ Fields(S).snap = {} /\ Fields(S).initial = S
          /\ Fields(S).hist = [r \in {} |-> {}]
      BY DEF IsFields, Fields
    <3>3. SnapOK({})
      BY FS_EmptySet, BranchAssumption DEF SnapOK
    <3>4. FieldsInv(Fields(S))
      BY <3>1, <3>2, <3>3 DEF FieldsInv, S
    <3> QED BY <2>5, <3>4 DEF S
  <2>7. t.branch \in 0..(m.next - 1)
    <3>1. t.branch \in Nat /\ t.branch < m.next
      BY KnownBranch
    <3> QED BY <2>2, <3>1
  <2>8. \A b \in DOMAIN x.branches :
          /\ FieldsInv(x.branches[b].fields)
          /\ x.branches[b].parent \in 0..(b - 1) /\ x.branches[b].count \in Nat
    <3> SUFFICES ASSUME NEW b \in DOMAIN x.branches
                 PROVE  /\ FieldsInv(x.branches[b].fields)
                        /\ x.branches[b].parent \in 0..(b - 1) /\ x.branches[b].count \in Nat
      OBVIOUS
    <3>1. CASE b = m.next
      BY <2>3, <2>5, <2>6, <2>7, <3>1
    <3>2. CASE b \in DOMAIN m.branches
      BY <2>3, <3>2 DEF MemoryInv
    <3> QED BY <2>3, <3>1, <3>2
  <2> QED BY <1>1, <2>1, <2>2, <2>4, <2>8 DEF MemoryInv
<1> QED BY <1>2, <1>3

\* So does a branch with new fields and a new count.
LEMMA OnBranchType ==
    ASSUME NEW m, MemoryInv(m), NEW b \in DOMAIN m.branches, NEW w, FieldsInv(w), NEW k \in Nat,
           NEW x, OnBranch(x, m, b, w, k), x.custody \in [Steward -> Nat]
    PROVE  MemoryInv(x)
<1>1. /\ IsMemory(x) /\ x.genesis = m.genesis /\ x.next = m.next
      /\ DOMAIN x.branches = DOMAIN m.branches
      /\ \A c \in DOMAIN m.branches : c # b => x.branches[c] = m.branches[c]
      /\ x.branches[b].fields = w /\ x.branches[b].parent = m.branches[b].parent
      /\ x.branches[b].count = k
  BY DEF OnBranch
<1>2. \A c \in DOMAIN x.branches :
        /\ FieldsInv(x.branches[c].fields)
        /\ x.branches[c].parent \in 0..(c - 1) /\ x.branches[c].count \in Nat
  <2>1. \A c \in DOMAIN m.branches :
          /\ FieldsInv(m.branches[c].fields)
          /\ m.branches[c].parent \in 0..(c - 1) /\ m.branches[c].count \in Nat
    BY DEF MemoryInv
  <2> QED BY <1>1, <2>1
<1>3. /\ FieldsInv(m.genesis) /\ m.next \in Nat \ {0} /\ m.next <= MaxBranches
      /\ DOMAIN m.branches = 1..(m.next - 1)
  BY DEF MemoryInv
<1> QED BY <1>1, <1>2, <1>3 DEF MemoryInv

\* What Apply leaves, whatever it answers, is well typed.
LEMMA AppliedType ==
    ASSUME NEW m, MemoryInv(m), NEW t \in Logged, NEW n, Accepts(m, t, n)
    PROVE  MemoryInv(Applied(m, t)) /\ MemoryInv(Unsaved(m, t))
<1> DEFINE w == Working(m, t)
<1> DEFINE c == Committed(w, t, m.next)
<1>1. Known(m, t) /\ Valid(w, t, m.next, n)
  BY DEF Accepts, Passes
<1>2. ~Stays(t) => t.branch \in DOMAIN m.branches
  BY <1>1, KnownBranch
<1>3. FieldsInv(w) /\ m.next \in Nat /\ IsMemory(m)
  BY <1>2, WorkingType DEF MemoryInv
<1>4. FieldsInv(c)
  <2> HIDE DEF w
  <2>1. HasRoom(w.snap, Writes(t, m.next))
    BY <1>1 DEF Valid
  <2> QED BY <1>3, <2>1, CommittedType
<1>5. Declared(m, t).custody \in [Steward -> Nat]
  BY <1>1, DeclaredType
<1>6. MemoryInv(Applied(m, t))
  <2> DEFINE x == Applied(m, t)
  <2>1. /\ x.custody = Declared(m, t).custody
        /\ Stays(t) => WithBranch(x, m, t) /\ x.genesis = c
        /\ ~Stays(t) => OnBranch(x, m, t.branch, c, m.branches[t.branch].count + 1)
    BY <1>2, <1>3, AppliedIs
  <2> HIDE DEF x, c
  <2>2. CASE Stays(t)
    BY <1>1, <1>4, <1>5, <2>1, <2>2, WithBranchType DEF x
  <2>3. CASE ~Stays(t)
    <3>1. m.branches[t.branch].count + 1 \in Nat
      BY <1>2, <2>3 DEF MemoryInv
    <3> QED BY <1>2, <1>4, <1>5, <2>1, <2>3, <3>1, OnBranchType DEF x
  <2> QED BY <2>2, <2>3
<1>7. MemoryInv(Unsaved(m, t))
  <2> DEFINE x == Unsaved(m, t)
  <2>1. /\ x.custody = Declared(m, t).custody
        /\ Stays(t) => x = Applied(m, t)
        /\ ~Stays(t) => OnBranch(x, m, t.branch, NotSaved(w, t, m.next), m.branches[t.branch].count)
    BY <1>2, <1>3, UnsavedIs
  <2> HIDE DEF x, w
  <2>2. CASE Stays(t)
    BY <1>6, <2>1, <2>2 DEF x
  <2>3. CASE ~Stays(t)
    <3>1. m.branches[t.branch].count \in Nat
      BY <1>2, <2>3 DEF MemoryInv
    <3>2. FieldsInv(NotSaved(w, t, m.next))
      BY <1>3, LeftType
    <3> QED BY <1>2, <1>5, <2>1, <2>3, <3>1, <3>2, OnBranchType DEF x
  <2> QED BY <2>2, <2>3
<1> QED BY <1>6, <1>7

\* What a refusal leaves is typed.
LEMMA LeftoverType ==
    ASSUME NEW m, MemoryInv(m), NEW t \in Logged, Known(m, t)
    PROVE  MemoryInv(Leftover(m, t))
<1> DEFINE w == Working(m, t)
<1> DEFINE x == Leftover(m, t)
<1>1. ~Stays(t) => t.branch \in DOMAIN m.branches
  BY KnownBranch
<1>2. FieldsInv(w) /\ IsMemory(m)
  BY <1>1, WorkingType DEF MemoryInv
<1>3. /\ x.custody = IF Authorised(w, t) THEN Declared(m, t).custody ELSE m.custody
      /\ ~Stays(t) => OnBranch(x, m, t.branch, Refused(w, t), m.branches[t.branch].count)
      /\ Stays(t) /\ ~Authorised(w, t) =>
           /\ IsMemory(x) /\ x.genesis = Noted(w, t)
           /\ x.branches = m.branches /\ x.next = m.next
      /\ Stays(t) /\ Authorised(w, t) =>
           WithBranch(x, m, t) /\ x.genesis = Founded(Noted(w, t), t)
  BY <1>1, <1>2, LeftoverIs
<1> HIDE DEF w, x
<1>4. x.custody \in [Steward -> Nat]
  BY <1>3, DeclaredType DEF MemoryInv
<1>5. CASE ~Stays(t)
  <2>1. m.branches[t.branch].count \in Nat
    BY <1>1, <1>5 DEF MemoryInv
  <2>2. FieldsInv(Refused(w, t))
    BY <1>2, LeftType
  <2> QED BY <1>1, <1>3, <1>4, <1>5, <2>1, <2>2, OnBranchType DEF x
<1>6. CASE Stays(t) /\ ~Authorised(w, t)
  <2>1. FieldsInv(Noted(w, t))
    BY <1>2, LeftType
  <2> QED BY <1>3, <1>4, <1>6, <2>1 DEF MemoryInv, x
<1>7. CASE Stays(t) /\ Authorised(w, t)
  <2>1. FieldsInv(Founded(Noted(w, t), t))
    BY <1>2, LeftType
  <2> QED BY <1>3, <1>4, <1>7, <2>1, WithBranchType DEF x
<1> QED BY <1>5, <1>6, <1>7

\* The variables hold exactly what an operation left.
LEMMA Becoming ==
    ASSUME NEW m, IsMemory(m), Becomes(m)
    PROVE  Now' = m
BY DEF Becomes, IsMemory, Now, Memory

\* A submitted transition is well typed.
LEMMA SubmittedType ==
    ASSUME MemoryInv(Now), NEW t \in Submitted
    PROVE  t \in Logged
<1>1. PICK p \in Payload, b \in {0} \cup DOMAIN branches,
           r \in {None, genesis.snap} \cup {branches[i].fields.snap : i \in DOMAIN branches} :
           t = [kind |-> p.kind, who |-> p.who, set |-> p.set, num |-> p.num, by |-> p.by,
                branch |-> b, prior |-> r]
  BY DEF Submitted
<1>2. /\ p \in [kind : Kind, who : Steward \cup {None}, set : SUBSET Steward, num : Nat,
               by : Steward]
      /\ p.kind = "ADD_STEWARD" => p.who \in Steward
  BY BranchAssumption
<1>3. /\ Now.genesis = genesis /\ Now.branches = branches /\ Now.next = nextID
      /\ Now.custody = custody
  BY DEF Now, Memory
<1>4. b \in Nat
  <2>1. DOMAIN branches = 1..(nextID - 1) /\ nextID \in Nat
    BY <1>3 DEF MemoryInv
  <2> QED BY <2>1
<1>5. r \in {None} \cup SUBSET Entry
  <2>1. genesis.snap \in SUBSET Entry /\ \A i \in DOMAIN branches : branches[i].fields.snap \in SUBSET Entry
    BY <1>3 DEF MemoryInv, FieldsInv, SnapOK
  <2> QED BY <2>1
<1>6. t \in Transition /\ t.kind = p.kind /\ t.who = p.who
  BY <1>1, <1>2, <1>4, <1>5 DEF Transition
<1> QED BY <1>2, <1>6 DEF Logged

\* What one call of Apply does to the memory and the log.
LEMMA CallIs ==
    ASSUME MemoryInv(Now), NEW t \in Submitted, Apply(t)
    PROVE  /\ t \in Logged /\ UNCHANGED <<up, now>>
           /\ \/ /\ Accept(t) /\ Accepts(Now, t, now)
                 /\ Now' = Applied(Now, t) /\ disk' = Append(disk, t)
              \/ /\ SaveFails(t) /\ Accepts(Now, t, now)
                 /\ Now' = Unsaved(Now, t) /\ disk' = disk
              \/ /\ Refuse(t) /\ Known(Now, t)
                 /\ Now' = Leftover(Now, t) /\ disk' = disk
              \/ /\ Equivocate(t) \/ Throttle(t)
                 /\ Now' = Now /\ disk' = disk /\ flaws' = flaws
<1>1. t \in Logged
  BY SubmittedType
<1>2. CASE Accept(t)
  <2>1. Accepts(Now, t, now) /\ Becomes(Applied(Now, t)) /\ disk' = Append(disk, t)
        /\ UNCHANGED <<up, now>>
    BY <1>2 DEF Accept
  <2>2. MemoryInv(Applied(Now, t))
    BY <1>1, <2>1, AppliedType
  <2>3. IsMemory(Applied(Now, t))
    BY <2>2 DEF MemoryInv
  <2> QED BY <1>1, <1>2, <2>1, <2>3, Becoming
<1>3. CASE SaveFails(t)
  <2>1. Accepts(Now, t, now) /\ Becomes(Unsaved(Now, t)) /\ disk' = disk
        /\ UNCHANGED <<up, now>>
    BY <1>3 DEF SaveFails
  <2>2. MemoryInv(Unsaved(Now, t))
    BY <1>1, <2>1, AppliedType
  <2>3. IsMemory(Unsaved(Now, t))
    BY <2>2 DEF MemoryInv
  <2> QED BY <1>1, <1>3, <2>1, <2>3, Becoming
<1>4. CASE Refuse(t)
  <2>1. Known(Now, t) /\ Becomes(Leftover(Now, t)) /\ disk' = disk /\ UNCHANGED <<up, now>>
    BY <1>4 DEF Refuse, Passes
  <2>2. MemoryInv(Leftover(Now, t))
    BY <1>1, <2>1, LeftoverType
  <2>3. IsMemory(Leftover(Now, t))
    BY <2>2 DEF MemoryInv
  <2> QED BY <1>1, <1>4, <2>1, <2>3, Becoming
<1>5. CASE Equivocate(t) \/ Throttle(t)
  <2>1. UNCHANGED <<memory, disk, up, now, flaws>>
    BY <1>5 DEF Equivocate, Throttle
  <2>2. Now' = Now
    BY <2>1 DEF Now, Memory, memory
  <2> QED BY <1>1, <1>5, <2>1, <2>2
<1> QED BY <1>2, <1>3, <1>4, <1>5 DEF Apply

-----------------------------------------------------------------------------
(* Type correctness. *)

\* Inductive: the log replays into a well-typed memory too, at any clock and as
\* far as it goes.
TypeInv ==
    /\ MemoryInv(Now)
    /\ disk \in Seq(Logged)
    /\ \A n \in Nat : MemoryInv(Replay(disk, n).mem)
    /\ bucket \in [Steward -> Bucket \cup {None}]
    /\ up \in BOOLEAN /\ now \in 0..MaxTime
    /\ flaws \subseteq {"lost", "unsaved", "ghost", "phantom"}

\* The state a process starts with is typed.
LEMMA FreshType == MemoryInv(Fresh)
<1> DEFINE F == Fields({})
<1>1. /\ IsFields(F) /\ F.snap = {} /\ F.initial = {} /\ F.hist = [r \in {} |-> {}]
  BY DEF IsFields, Fields
<1> HIDE DEF F
<1>2. SnapOK({})
  BY FS_EmptySet, BranchAssumption DEF SnapOK
<1>3. FieldsInv(F)
  BY <1>1, <1>2 DEF FieldsInv
<1>4. Fresh = [genesis |-> F, branches |-> [b \in {} |-> None], next |-> 1,
               custody |-> [s \in Steward |-> 0]]
  BY DEF Fresh, Memory, F
<1>5. IsMemory(Fresh)
  BY <1>1, <1>4 DEF IsMemory
<1>6. DOMAIN Fresh.branches = {} /\ 1..(Fresh.next - 1) = {} /\ Fresh.next = 1
  BY <1>4
<1>7. Fresh.custody \in [Steward -> Nat] /\ Fresh.genesis = F
  BY <1>4
<1> QED BY <1>3, <1>5, <1>6, <1>7, BranchAssumption DEF MemoryInv

\* The invariant holds at first, for the empty log and its replay.
LEMMA TypeInit == Init => TypeInv
<1> SUFFICES ASSUME Init PROVE TypeInv
  OBVIOUS
<1>1. Now = Fresh
  BY DEF Init, Now, Fresh, Memory
<1>2. \A n \in Nat : Replay(disk, n).mem = Fresh
  BY ReplayEmpty DEF Init, Empty
<1>3. disk \in Seq(Logged)
  BY DEF Init
<1>4. /\ bucket \in [Steward -> Bucket \cup {None}] /\ up \in BOOLEAN /\ now \in 0..MaxTime
      /\ flaws \subseteq {"lost", "unsaved", "ghost", "phantom"}
  BY BranchAssumption DEF Init
<1> QED BY <1>1, <1>2, <1>3, <1>4, FreshType DEF TypeInv

\* One row more keeps a replay well typed.
LEMMA ReplayedType ==
    ASSUME NEW d \in Seq(Logged), NEW t \in Logged, NEW n, MemoryInv(Replay(d, n).mem)
    PROVE  MemoryInv(Replay(Append(d, t), n).mem)
<1> DEFINE r == Replay(d, n)
<1>1. Replay(Append(d, t), n) = Replayed(r, t, n)
  BY ReplayUnfold
<1> HIDE DEF r
<1>2. CASE r.ok /\ Accepts(r.mem, t, n)
  <2>1. Replayed(r, t, n).mem = Applied(r.mem, t)
    BY <1>2 DEF Replayed
  <2> QED BY <1>1, <1>2, <2>1, AppliedType DEF r
<1>3. CASE ~(r.ok /\ Accepts(r.mem, t, n))
  BY <1>1, <1>3 DEF Replayed, r
<1> QED BY <1>2, <1>3

\* A row more, or none, leaves every replay well typed.
LEMMA LogType ==
    ASSUME TypeInv, disk' = disk \/ \E t \in Logged : disk' = Append(disk, t)
    PROVE  disk' \in Seq(Logged) /\ \A n \in Nat : MemoryInv(Replay(disk', n).mem)
<1>1. CASE disk' = disk
  BY <1>1 DEF TypeInv
<1>2. ASSUME NEW t \in Logged, disk' = Append(disk, t)
      PROVE  disk' \in Seq(Logged) /\ \A n \in Nat : MemoryInv(Replay(disk', n).mem)
  <2>1. disk \in Seq(Logged) /\ \A n \in Nat : MemoryInv(Replay(disk, n).mem)
    BY DEF TypeInv
  <2>2. disk' \in Seq(Logged)
    BY <1>2, <2>1, AppendProperties
  <2>3. ASSUME NEW n \in Nat PROVE MemoryInv(Replay(disk', n).mem)
    BY <1>2, <2>1, ReplayedType
  <2> QED BY <2>2, <2>3
<1> QED BY <1>1, <1>2

\* Every step keeps memory, the log and its replays typed.
LEMMA TypeStep == TypeInv /\ [Next]_vars => TypeInv'
<1> SUFFICES ASSUME TypeInv, [Next]_vars PROVE TypeInv'
  OBVIOUS
<1>0. MemoryInv(Now) /\ bucket \in [Steward -> Bucket \cup {None}] /\ now \in Nat
  BY BranchAssumption DEF TypeInv
<1>1. ASSUME NEW t \in Submitted, Apply(t)
      PROVE  TypeInv'
  <2>1. /\ t \in Logged /\ UNCHANGED <<up, now>>
        /\ \/ /\ Accept(t) /\ Accepts(Now, t, now)
              /\ Now' = Applied(Now, t) /\ disk' = Append(disk, t)
           \/ /\ SaveFails(t) /\ Accepts(Now, t, now)
              /\ Now' = Unsaved(Now, t) /\ disk' = disk
           \/ /\ Refuse(t) /\ Known(Now, t)
              /\ Now' = Leftover(Now, t) /\ disk' = disk
           \/ /\ Equivocate(t) \/ Throttle(t)
              /\ Now' = Now /\ disk' = disk /\ flaws' = flaws
    BY <1>0, <1>1, CallIs
  <2>2. MemoryInv(Now')
    BY <1>0, <2>1, AppliedType, LeftoverType
  <2>3. disk' \in Seq(Logged) /\ \A n \in Nat : MemoryInv(Replay(disk', n).mem)
    BY <2>1, LogType
  <2>4. bucket' \in [Steward -> Bucket \cup {None}]
    <3>1. \/ bucket' = bucket
          \/ bucket' = [bucket EXCEPT ![t.by] = Allowed(BucketOf(t.by), now)]
      BY <1>1, Calls
    <3>2. BucketOf(t.by) \in Bucket
      <4>1. t.by \in Steward
        BY SubmittedBy
      <4>2. NewBucket(now) \in Bucket
        BY <1>0, RateAssumption DEF NewBucket, Bucket
      <4> QED BY <1>0, <4>1, <4>2 DEF BucketOf
    <3>3. Allowed(BucketOf(t.by), now) \in Bucket
      BY <1>0, <3>2, AllowedBounds
    <3> QED BY <1>0, <3>1, <3>3
  <2>5. flaws' \subseteq {"lost", "unsaved", "ghost", "phantom"}
    BY <2>1 DEF TypeInv, Accept, SaveFails, Refuse, FlawOf
  <2> QED BY <2>1, <2>2, <2>3, <2>4, <2>5 DEF TypeInv
<1>2. CASE Restart
  <2> DEFINE r == Replay(disk, now)
  <2>1. /\ up' = r.ok /\ disk' = disk /\ now' = now
        /\ r.ok => Becomes(r.mem) /\ flaws' = {}
        /\ ~r.ok => UNCHANGED <<memory, flaws>>
        /\ bucket' = [s \in Steward |-> None]
    BY <1>2 DEF Restart
  <2>2. MemoryInv(r.mem)
    BY <1>0 DEF TypeInv
  <2>3. r.ok \in BOOLEAN
    <3>1. \A d \in Seq(Logged) : \A n : Replay(d, n).ok \in BOOLEAN
      <4> SUFFICES ASSUME NEW d \in Seq(Logged), NEW n PROVE Replay(d, n).ok \in BOOLEAN
        OBVIOUS
      <4>1. Len(d) \in Nat
        BY LenProperties
      <4>2. PICK f : IsRun(f, Len(d), d, n) /\ Replay(d, n) = f[Len(d)]
        BY <4>1, ReplayIsRun
      <4>3. f = [i \in 0..Len(d) |-> IF i = 0 THEN Empty ELSE Replayed(f[i - 1], d[i], n)]
        BY <4>2 DEF IsRun
      <4>4. Len(d) \in 0..Len(d)
        BY <4>1
      <4>5. f[Len(d)] = IF Len(d) = 0 THEN Empty ELSE Replayed(f[Len(d) - 1], d[Len(d)], n)
        BY <4>3, <4>4, Zenon
      <4>6. Empty.ok \in BOOLEAN /\ \A x, t : Replayed(x, t, n).ok \in BOOLEAN
        BY DEF Empty, Replayed
      <4> QED BY <4>2, <4>5, <4>6
    <3> QED BY <3>1 DEF TypeInv
  <2> HIDE DEF r
  <2>4. MemoryInv(Now')
    <3>1. CASE r.ok
      <4>1. IsMemory(r.mem)
        BY <2>2 DEF MemoryInv
      <4> QED BY <2>1, <2>2, <3>1, <4>1, Becoming
    <3>2. CASE ~r.ok
      <4>1. Now' = Now
        BY <2>1, <3>2 DEF Now, Memory, memory
      <4> QED BY <1>0, <4>1
    <3> QED BY <3>1, <3>2
  <2> QED BY <2>1, <2>3, <2>4 DEF TypeInv
<1>3. CASE Clock
  <2>1. now' \in 0..MaxTime /\ UNCHANGED <<memory, bucket, disk, up, flaws>>
    BY <1>3 DEF Clock
  <2>2. Now' = Now
    BY <2>1 DEF Now, Memory, memory
  <2> QED BY <2>1, <2>2 DEF TypeInv
<1>4. CASE UNCHANGED vars
  <2>1. Now' = Now
    BY <1>4 DEF Now, Memory, memory, vars
  <2> QED BY <1>4, <2>1 DEF TypeInv, vars
<1> QED BY <1>1, <1>2, <1>3, <1>4 DEF Next

\* Every snapshot has one entry per key and keeps within its cap, and the
\* registry keeps within its own, in memory and in every replay.
THEOREM TypeCorrect == Spec => []TypeOK
<1>1. TypeInv => TypeOK
  <2> SUFFICES ASSUME TypeInv PROVE TypeOK
    OBVIOUS
  <2>1. /\ MemoryInv(Now) /\ Now.genesis = genesis /\ Now.branches = branches
        /\ Now.next = nextID /\ Now.custody = custody
    BY DEF TypeInv, Now, Memory
  <2>2. ASSUME NEW w, FieldsInv(w) PROVE FieldsOK(w)
    BY <2>2 DEF FieldsInv, SnapOK, FieldsOK
  <2>3. /\ FieldsOK(genesis) /\ DOMAIN branches = 1..(nextID - 1) /\ nextID <= MaxBranches
        /\ \A b \in DOMAIN branches :
              /\ FieldsOK(branches[b].fields)
              /\ branches[b].parent \in 0..(b - 1) /\ branches[b].count \in Nat
        /\ custody \in [Steward -> Nat]
    BY <2>1, <2>2 DEF MemoryInv
  <2>4. disk \in Seq(Transition)
    <3>1. Logged \subseteq Transition
      BY DEF Logged
    <3> QED BY <3>1 DEF TypeInv
  <2> QED BY <2>3, <2>4 DEF TypeInv, TypeOK
<1> QED BY <1>1, TypeInit, TypeStep, PTL DEF Spec

-----------------------------------------------------------------------------
(* Isolation. *)

\* A new branch is one the registry does not hold yet.
LEMMA OthersStay ==
    ASSUME NEW m, MemoryInv(m), NEW t, NEW x, WithBranch(x, m, t)
    PROVE  \A b \in DOMAIN m.branches :
              b \in DOMAIN x.branches /\ x.branches[b] = m.branches[b]
<1>1. m.next \in Nat /\ DOMAIN m.branches = 1..(m.next - 1)
  BY DEF MemoryInv
<1>2. CASE t.kind = "BRANCH_CREATE"
  <2>1. x.branches = Grown(m, t)
    BY <1>2 DEF WithBranch
  <2>2. m.next \notin DOMAIN m.branches
    BY <1>1
  <2> QED BY <2>1, <2>2 DEF Grown
<1>3. CASE t.kind # "BRANCH_CREATE"
  BY <1>3 DEF WithBranch
<1> QED BY <1>2, <1>3

\* What a call may move: genesis, or the branch it names.
LEMMA MovedAtMost ==
    ASSUME MemoryInv(Now), NEW t \in Submitted, Apply(t)
    PROVE  Moved \subseteq {IF Stays(t) THEN 0 ELSE t.branch}
<1>1. /\ Now.genesis = genesis /\ Now.branches = branches
      /\ Now'.genesis = genesis' /\ Now'.branches = branches'
  BY DEF Now, Memory
<1>2. /\ t \in Logged
      /\ \/ Known(Now, t) /\ Now' \in {Applied(Now, t), Unsaved(Now, t), Leftover(Now, t)}
         \/ Now' = Now
  BY CallIs DEF Accepts, Passes
<1>3. CASE Now' = Now
  BY <1>1, <1>3 DEF Moved
<1>4. CASE Known(Now, t) /\ Now' \in {Applied(Now, t), Unsaved(Now, t), Leftover(Now, t)}
  <2> DEFINE x == Now'
  <2>1. IsMemory(Now) /\ (~Stays(t) => t.branch \in DOMAIN Now.branches)
    BY <1>2, <1>4, KnownBranch DEF MemoryInv
  <2>2. CASE Stays(t)
    <3>1. WithBranch(x, Now, t) \/ x.branches = Now.branches
      BY <1>4, <2>1, <2>2, AppliedIs, UnsavedIs, LeftoverIs
    <3>2. \A b \in DOMAIN Now.branches : b \in DOMAIN x.branches /\ x.branches[b] = Now.branches[b]
      BY <3>1, OthersStay
    <3>3. {b \in DOMAIN branches : b \notin DOMAIN branches' \/ branches'[b] # branches[b]} = {}
      BY <1>1, <3>2
    <3> QED BY <2>2, <3>3 DEF Moved
  <2>3. CASE ~Stays(t)
    <3>1. \E w, k : OnBranch(x, Now, t.branch, w, k)
      BY <1>4, <2>1, <2>3, AppliedIs, UnsavedIs, LeftoverIs
    <3>2. /\ x.genesis = Now.genesis /\ DOMAIN x.branches = DOMAIN Now.branches
          /\ \A c \in DOMAIN Now.branches : c # t.branch => x.branches[c] = Now.branches[c]
      BY <3>1 DEF OnBranch
    <3>3. genesis' = genesis
      BY <1>1, <3>2
    <3>4. {b \in DOMAIN branches : b \notin DOMAIN branches' \/ branches'[b] # branches[b]}
             \subseteq {t.branch}
      BY <1>1, <3>2
    <3> QED BY <2>3, <3>3, <3>4 DEF Moved
  <2> QED BY <2>2, <2>3
<1> QED BY <1>2, <1>3, <1>4

\* No call of Apply changes two branches, whatever it answers and whether or not
\* its row was saved.
THEOREM Isolated == Spec => BranchesIsolated
<1>1. TypeInv /\ [Next]_vars => [Restart \/ Cardinality(Moved) <= 1]_vars
  <2> SUFFICES ASSUME TypeInv, Next PROVE Restart \/ Cardinality(Moved) <= 1
    OBVIOUS
  <2>1. ASSUME NEW b, Moved \subseteq {b} PROVE Cardinality(Moved) <= 1
    <3>1. IsFiniteSet({b}) /\ Cardinality({b}) = 1
      BY FS_Singleton
    <3> DEFINE S == Moved
    <3>2. S \in SUBSET {b}
      BY <2>1
    <3> HIDE DEF S
    <3>3. Cardinality(S) <= 1
      BY <3>1, <3>2, FS_Subset
    <3> QED BY <3>3 DEF S
  <2>2. ASSUME NEW t \in Submitted, Apply(t) PROVE Cardinality(Moved) <= 1
    BY <2>1, <2>2, MovedAtMost DEF TypeInv
  <2>3. CASE Clock
    <3>1. Moved \subseteq {0}
      BY <2>3 DEF Clock, memory, Moved
    <3> QED BY <2>1, <3>1
  <2> QED BY <2>2, <2>3 DEF Next
<1> QED BY <1>1, TypeInit, TypeStep, PTL DEF Spec, BranchesIsolated

-----------------------------------------------------------------------------
(* The counts BRANCH_LIST shows. *)

\* The rows of the log that were applied to branch b.
Rows(d, b) == {i \in DOMAIN d : d[i].branch = b /\ ~Stays(d[i])}

\* Rows name branches that exist, so a new branch has none.
CountsMatch(m, d) ==
    /\ \A i \in DOMAIN d : ~Stays(d[i]) => d[i].branch < m.next
    /\ \A b \in DOMAIN m.branches : m.branches[b].count = Cardinality(Rows(d, b))

\* A row more adds one to the rows of its branch, and to no other.
LEMMA RowsOf ==
    ASSUME NEW d \in Seq(Logged), NEW t \in Logged, NEW b
    PROVE  /\ IsFiniteSet(Rows(d, b))
           /\ Rows(Append(d, t), b) =
                 IF t.branch = b /\ ~Stays(t) THEN Rows(d, b) \cup {Len(d) + 1} ELSE Rows(d, b)
           /\ Cardinality(Rows(Append(d, t), b)) =
                 IF t.branch = b /\ ~Stays(t) THEN Cardinality(Rows(d, b)) + 1
                 ELSE Cardinality(Rows(d, b))
<1>1. /\ Len(d) \in Nat /\ DOMAIN d = 1..Len(d) /\ DOMAIN Append(d, t) = 1..(Len(d) + 1)
      /\ Append(d, t)[Len(d) + 1] = t /\ \A i \in DOMAIN d : Append(d, t)[i] = d[i]
  BY LenProperties, AppendProperties
<1>2. IsFiniteSet(Rows(d, b))
  <2>1. Rows(d, b) \in SUBSET (1..Len(d))
    BY <1>1 DEF Rows
  <2>2. IsFiniteSet(1..Len(d))
    BY <1>1, FS_Interval
  <2> QED BY <2>1, <2>2, FS_Subset
<1>3. Rows(Append(d, t), b) =
        IF t.branch = b /\ ~Stays(t) THEN Rows(d, b) \cup {Len(d) + 1} ELSE Rows(d, b)
  <2> DEFINE e == Append(d, t)
  <2>1. DOMAIN e = DOMAIN d \cup {Len(d) + 1}
    BY <1>1
  <2>2. \A i \in DOMAIN d : e[i] = d[i]
    BY <1>1
  <2>3. e[Len(d) + 1] = t
    BY <1>1
  <2> HIDE DEF e
  <2>4. {i \in DOMAIN e : e[i].branch = b /\ ~Stays(e[i])} =
          IF t.branch = b /\ ~Stays(t) THEN Rows(d, b) \cup {Len(d) + 1} ELSE Rows(d, b)
    BY <2>1, <2>2, <2>3 DEF Rows
  <2> QED BY <2>4 DEF Rows, e
<1>4. Len(d) + 1 \notin Rows(d, b)
  BY <1>1 DEF Rows
<1> QED BY <1>2, <1>3, <1>4, FS_AddElement

\* A branch that gained nothing keeps its count; a new one starts at none.
LEMMA CountsOfNew ==
    ASSUME NEW d \in Seq(Logged), NEW m, MemoryInv(m), CountsMatch(m, d),
           NEW t \in Logged, NEW x, WithBranch(x, m, t)
    PROVE  CountsMatch(x, d)
<1>1. m.next \in Nat /\ DOMAIN m.branches = 1..(m.next - 1)
  BY DEF MemoryInv
<1>2. CASE t.kind # "BRANCH_CREATE"
  BY <1>2 DEF WithBranch, CountsMatch
<1>3. CASE t.kind = "BRANCH_CREATE"
  <2>1. /\ x.next = m.next + 1 /\ DOMAIN x.branches = DOMAIN m.branches \cup {m.next}
        /\ x.branches[m.next].count = 0
        /\ \A b \in DOMAIN m.branches : x.branches[b] = m.branches[b]
    <3>1. m.next \notin DOMAIN m.branches
      BY <1>1
    <3> QED BY <1>3, <3>1 DEF WithBranch, Grown, NewBranch
  <2>2. Rows(d, m.next) = {}
    <3>1. \A i \in DOMAIN d : ~Stays(d[i]) => d[i].branch < m.next
      BY DEF CountsMatch
    <3> QED BY <1>1, <3>1 DEF Rows
  <2>3. \A i \in DOMAIN d : ~Stays(d[i]) => d[i].branch < x.next
    <3>1. \A i \in DOMAIN d : d[i].branch \in Nat
      <4>1. \A i \in DOMAIN d : d[i] \in Logged
        BY ElementOfSeq, LenProperties
      <4> QED BY <4>1 DEF Logged, Transition
    <3> QED BY <1>1, <2>1, <3>1 DEF CountsMatch
  <2>4. \A b \in DOMAIN x.branches : x.branches[b].count = Cardinality(Rows(d, b))
    <3>1. Cardinality(Rows(d, m.next)) = 0
      BY <2>2, FS_EmptySet
    <3>2. \A b \in DOMAIN m.branches : m.branches[b].count = Cardinality(Rows(d, b))
      BY DEF CountsMatch
    <3> QED BY <2>1, <3>1, <3>2
  <2> QED BY <2>3, <2>4 DEF CountsMatch
<1> QED BY <1>2, <1>3

\* The counts of an unchanged registry, or of one branch with new fields, match as before.
LEMMA CountsKept ==
    ASSUME NEW d, NEW m, CountsMatch(m, d), NEW b \in DOMAIN m.branches, NEW w,
           NEW x, OnBranch(x, m, b, w, m.branches[b].count)
    PROVE  CountsMatch(x, d)
BY DEF CountsMatch, OnBranch

\* An applied transition, and its row.
LEMMA CountsApplied ==
    ASSUME NEW d \in Seq(Logged), NEW m, MemoryInv(m), CountsMatch(m, d),
           NEW t \in Logged, Known(m, t)
    PROVE  CountsMatch(Applied(m, t), Append(d, t))
<1> DEFINE x == Applied(m, t)
<1> DEFINE e == Append(d, t)
<1>1. /\ IsMemory(m) /\ t.branch \in Nat /\ t.branch < m.next
      /\ ~Stays(t) => t.branch \in DOMAIN m.branches
  BY KnownBranch DEF MemoryInv
<1>2. /\ Stays(t) => WithBranch(x, m, t)
      /\ ~Stays(t) => \E w : OnBranch(x, m, t.branch, w, m.branches[t.branch].count + 1)
  BY <1>1, AppliedIs
<1>3. /\ DOMAIN e = DOMAIN d \cup {Len(d) + 1} /\ e[Len(d) + 1] = t
      /\ \A i \in DOMAIN d : e[i] = d[i]
  BY LenProperties, AppendProperties
<1>4. \A b : Cardinality(Rows(e, b)) = IF t.branch = b /\ ~Stays(t)
                                       THEN Cardinality(Rows(d, b)) + 1
                                       ELSE Cardinality(Rows(d, b))
  BY RowsOf
<1> HIDE DEF e, x
<1>5. CASE Stays(t)
  <2>1. CountsMatch(x, d)
    BY <1>2, <1>5, CountsOfNew
  <2> QED BY <1>3, <1>4, <1>5, <2>1 DEF CountsMatch, e, x
<1>6. CASE ~Stays(t)
  <2>1. /\ x.next = m.next /\ DOMAIN x.branches = DOMAIN m.branches
        /\ \A c \in DOMAIN m.branches : c # t.branch => x.branches[c] = m.branches[c]
        /\ x.branches[t.branch].count = m.branches[t.branch].count + 1
    BY <1>2, <1>6 DEF OnBranch
  <2>2. \A i \in DOMAIN e : ~Stays(e[i]) => e[i].branch < x.next
    BY <1>1, <1>3, <2>1 DEF CountsMatch
  <2>3. \A b \in DOMAIN x.branches : x.branches[b].count = Cardinality(Rows(e, b))
    BY <1>4, <1>6, <2>1 DEF CountsMatch
  <2> QED BY <2>2, <2>3 DEF CountsMatch, e, x
<1> QED BY <1>5, <1>6

\* Inductive: the counts match the log in memory and in every replay that ends.
CountInv ==
    /\ TypeInv
    /\ up => CountsMatch(Now, disk)
    /\ \A n \in Nat : Replay(disk, n).ok => CountsMatch(Replay(disk, n).mem, disk)

\* Every step keeps the counts those of the log.
LEMMA CountStep == CountInv /\ [Next]_vars => CountInv'
<1> SUFFICES ASSUME CountInv, [Next]_vars PROVE CountInv'
  OBVIOUS
<1>0. TypeInv' /\ TypeInv /\ MemoryInv(Now) /\ disk \in Seq(Logged) /\ now \in Nat
  BY TypeStep, BranchAssumption DEF CountInv, TypeInv
<1>1. ASSUME up, NEW t \in Submitted, Apply(t)
      PROVE  CountInv'
  <2>1. /\ t \in Logged /\ UNCHANGED <<up, now>>
        /\ \/ /\ Accept(t) /\ Accepts(Now, t, now)
              /\ Now' = Applied(Now, t) /\ disk' = Append(disk, t)
           \/ /\ SaveFails(t) /\ Accepts(Now, t, now)
              /\ Now' = Unsaved(Now, t) /\ disk' = disk
           \/ /\ Refuse(t) /\ Known(Now, t)
              /\ Now' = Leftover(Now, t) /\ disk' = disk
           \/ /\ Equivocate(t) \/ Throttle(t)
              /\ Now' = Now /\ disk' = disk /\ flaws' = flaws
    BY <1>0, <1>1, CallIs
  <2>2. CountsMatch(Now, disk)
    BY <1>1 DEF CountInv
  <2>3. ASSUME Known(Now, t)
        PROVE  /\ IsMemory(Now) /\ (~Stays(t) => t.branch \in DOMAIN Now.branches)
    BY <1>0, <2>1, <2>3, KnownBranch DEF MemoryInv
  <2>4. CASE Accepts(Now, t, now) /\ Now' = Applied(Now, t) /\ disk' = Append(disk, t)
    <3>1. CountsMatch(Now', disk')
      BY <1>0, <2>1, <2>2, <2>4, CountsApplied DEF Accepts, Passes
    <3>2. ASSUME NEW n \in Nat, Replay(disk', n).ok
          PROVE  CountsMatch(Replay(disk', n).mem, disk')
      <4> DEFINE r == Replay(disk, n)
      <4>1. Replay(disk', n) = Replayed(r, t, n)
        BY <1>0, <2>1, <2>4, ReplayUnfold
      <4>2. MemoryInv(r.mem) /\ (r.ok => CountsMatch(r.mem, disk))
        BY DEF CountInv, TypeInv
      <4> HIDE DEF r
      <4>3. /\ r.ok /\ Accepts(r.mem, t, n)
            /\ Replay(disk', n).mem = Applied(r.mem, t)
        BY <3>2, <4>1 DEF Replayed
      <4> QED BY <1>0, <2>1, <2>4, <4>2, <4>3, CountsApplied DEF Accepts, Passes
    <3> QED BY <1>0, <3>1, <3>2 DEF CountInv
  <2>5. CASE disk' = disk /\ CountsMatch(Now', disk)
    BY <1>0, <2>5 DEF CountInv
  <2>6. CASE Accepts(Now, t, now) /\ Now' = Unsaved(Now, t) /\ disk' = disk
    <3>1. Known(Now, t)
      BY <2>6 DEF Accepts, Passes
    <3>2. /\ Stays(t) => WithBranch(Now', Now, t)
          /\ ~Stays(t) => OnBranch(Now', Now, t.branch, NotSaved(Working(Now, t), t, Now.next),
                                   Now.branches[t.branch].count)
      BY <2>3, <2>6, <3>1, UnsavedIs, AppliedIs
    <3>3. CountsMatch(Now', disk)
      BY <1>0, <2>1, <2>2, <2>3, <3>1, <3>2, CountsOfNew, CountsKept
    <3> QED BY <2>5, <2>6, <3>3
  <2>7. CASE Known(Now, t) /\ Now' = Leftover(Now, t) /\ disk' = disk
    <3>1. /\ ~Stays(t) => OnBranch(Now', Now, t.branch, Refused(Working(Now, t), t),
                                   Now.branches[t.branch].count)
          /\ Stays(t) /\ ~Authorised(Working(Now, t), t) =>
                Now'.branches = Now.branches /\ Now'.next = Now.next
          /\ Stays(t) /\ Authorised(Working(Now, t), t) => WithBranch(Now', Now, t)
      BY <2>3, <2>7, LeftoverIs
    <3>2. CASE Now'.branches = Now.branches /\ Now'.next = Now.next
      BY <2>2, <2>5, <2>7, <3>2 DEF CountsMatch
    <3>3. CASE ~Stays(t) \/ WithBranch(Now', Now, t)
      <4>1. CountsMatch(Now', disk)
        BY <1>0, <2>1, <2>2, <2>3, <2>7, <3>1, <3>3, CountsOfNew, CountsKept
      <4> QED BY <2>5, <2>7, <4>1
    <3> QED BY <3>1, <3>2, <3>3
  <2>8. CASE Now' = Now /\ disk' = disk
    BY <2>2, <2>5, <2>8
  <2> QED BY <2>1, <2>4, <2>6, <2>7, <2>8
<1>2. CASE Restart
  <2> DEFINE r == Replay(disk, now)
  <2>1. /\ up' = r.ok /\ disk' = disk /\ (r.ok => Becomes(r.mem))
    BY <1>2 DEF Restart
  <2>2. MemoryInv(r.mem) /\ (r.ok => CountsMatch(r.mem, disk))
    BY <1>0 DEF CountInv, TypeInv
  <2>3. r.ok => Now' = r.mem
    <3> HIDE DEF r
    <3> QED BY <2>1, <2>2, Becoming DEF MemoryInv
  <2> HIDE DEF r
  <2> QED BY <1>0, <2>1, <2>2, <2>3 DEF CountInv
<1>3. CASE Clock \/ UNCHANGED vars
  <2>1. UNCHANGED <<memory, disk, up>>
    BY <1>3 DEF Clock, vars
  <2>2. Now' = Now
    BY <2>1 DEF Now, Memory, memory
  <2> QED BY <1>0, <2>1, <2>2 DEF CountInv
<1> QED BY <1>1, <1>2, <1>3 DEF Next

\* The count shown for a branch is the number of its rows in the durable log,
\* after refusals, failed saves and restarts.
THEOREM CountsCorrect == Spec => []CountsDurable
<1>1. Init => CountInv
  <2> SUFFICES ASSUME Init PROVE CountInv
    OBVIOUS
  <2>1. Now = Fresh /\ disk = <<>>
    BY DEF Init, Now, Fresh, Memory
  <2>2. CountsMatch(Fresh, <<>>)
    BY DEF CountsMatch, Fresh, Memory
  <2>3. \A n \in Nat : Replay(disk, n).mem = Fresh
    BY <2>1, ReplayEmpty DEF Empty
  <2> QED BY <2>1, <2>2, <2>3, TypeInit DEF CountInv
<1>2. CountInv => CountsDurable
  <2> SUFFICES ASSUME CountInv, up, NEW b \in DOMAIN branches
               PROVE  branches[b].count =
                        Cardinality({i \in DOMAIN disk : disk[i].branch = b /\ ~Stays(disk[i])})
    BY DEF CountsDurable
  <2>1. Now.branches = branches
    BY DEF Now, Memory
  <2> QED BY <2>1 DEF CountInv, CountsMatch, Rows
<1> QED BY <1>1, <1>2, CountStep, PTL DEF Spec

-----------------------------------------------------------------------------
(* What the memory and the replay of its log have in common. *)

\* r is what a replay has where memory has l: the same root, the same stewards
\* recorded for it, nothing recorded or noted that l does not know, and, when
\* no save of the branch failed, the same history.
Alike(l, r, exact) ==
    /\ IsFields(l) /\ IsFields(r)
    /\ r.snap = l.snap /\ r.initial = l.initial
    /\ DOMAIN r.hist \subseteq DOMAIN l.hist
    /\ l.snap \in DOMAIN l.hist => l.snap \in DOMAIN r.hist /\ r.hist[l.snap] = l.hist[l.snap]
    /\ UNION r.seen \subseteq UNION l.seen
    /\ exact => /\ DOMAIN r.hist = DOMAIN l.hist
                /\ \A x \in DOMAIN l.hist : r.hist[x] = l.hist[x]

\* Alike fields have the same stewards at the current root and without one.
LEMMA AlikeStewards ==
    ASSUME NEW l, NEW r, NEW e, Alike(l, r, e), NEW p \in {None, l.snap}
    PROVE  StewardsAt(r, p) = StewardsAt(l, p)
<1>1. r.snap = l.snap /\ r.initial = l.initial
  BY DEF Alike
<1>2. /\ l.snap \in DOMAIN l.hist <=> l.snap \in DOMAIN r.hist
      /\ l.snap \in DOMAIN l.hist => r.hist[l.snap] = l.hist[l.snap]
  BY DEF Alike
<1>3. CASE p = None
  BY <1>1, <1>2, <1>3 DEF StewardsAt
<1>4. CASE p # None
  <2>1. p = l.snap
    BY <1>4
  <2> QED BY <1>1, <1>2, <1>4, <2>1 DEF StewardsAt
<1> QED BY <1>3, <1>4

\* So the signature gates decide alike, and a replay sees a fork only where memory did.
LEMMA AlikeChecks ==
    ASSUME NEW l, NEW r, NEW e, Alike(l, r, e), NEW t, t.prior \in {None, l.snap}
    PROVE  /\ Checked(r, t) <=> Checked(l, t)
           /\ Founding(r, t) <=> Founding(l, t)
           /\ Authorised(r, t) <=> Authorised(l, t)
           /\ HeadStewards(r) = HeadStewards(l)
           /\ MayDeclare(r, t) <=> MayDeclare(l, t)
           /\ InitialAfter(r, t) = InitialAfter(l, t)
           /\ Conflicts(r, t) => Conflicts(l, t)
<1>1. StewardsAt(r, t.prior) = StewardsAt(l, t.prior)
  BY AlikeStewards
<1>2. StewardsAt(r, None) = StewardsAt(l, None)
  BY AlikeStewards
<1>3. Founding(r, t) <=> Founding(l, t)
  BY <1>1 DEF Founding
<1>4. Checked(r, t) <=> Checked(l, t)
  BY <1>1 DEF Checked
<1>5. SeenBy(r, t) \subseteq SeenBy(l, t)
  BY DEF Alike, SeenBy
<1>6. r.initial = l.initial
  BY DEF Alike
<1>7. HeadStewards(r) = HeadStewards(l)
  BY <1>2 DEF HeadStewards
<1> QED BY <1>1, <1>3, <1>4, <1>5, <1>6, <1>7
        DEF Authorised, MayDeclare, InitialAfter, Conflicts

\* The equivocation log of memory stays ahead of the replay's.
LEMMA AlikeSeen ==
    ASSUME NEW l, NEW r, NEW e, Alike(l, r, e), NEW t, t.prior \in {None, l.snap}
    PROVE  /\ ~Conflicts(l, t) => UNION Noted(r, t).seen \subseteq UNION Noted(l, t).seen
           /\ UNION r.seen \subseteq UNION Noted(l, t).seen
           /\ UNION r.seen \subseteq UNION SharedSeen(l, t)
<1>1. IsFields(l) /\ IsFields(r)
  BY DEF Alike
<1> DEFINE L == UNION l.seen
<1> DEFINE R == UNION r.seen
<1> DEFINE LN == UNION Noted(l, t).seen
<1> DEFINE RN == UNION Noted(r, t).seen
<1>2. \A S : UNION {S} = S
  OBVIOUS
<1>3. LN = IF Checked(l, t) /\ SeenBy(l, t) = {}
           THEN L \cup {t} ELSE L
  <2>1. CASE Checked(l, t) /\ SeenBy(l, t) = {}
    <3>1. Noted(l, t).seen = {L \cup {t}}
      <4>1. Noted(l, t).seen = {(UNION l.seen) \cup {t}}
        BY <1>1, <2>1, NotedIs
      <4> QED BY <4>1
    <3> HIDE DEF L
    <3>2. UNION {L \cup {t}} = L \cup {t}
      BY <1>2
    <3> QED BY <2>1, <3>1, <3>2, Zenon DEF LN
  <2>2. CASE ~(Checked(l, t) /\ SeenBy(l, t) = {})
    BY <1>1, <2>2, NotedIs, Zenon
  <2> QED BY <2>1, <2>2
<1>4. RN = IF Checked(r, t) /\ SeenBy(r, t) = {}
           THEN R \cup {t} ELSE R
  <2>1. CASE Checked(r, t) /\ SeenBy(r, t) = {}
    <3>1. Noted(r, t).seen = {R \cup {t}}
      <4>1. Noted(r, t).seen = {(UNION r.seen) \cup {t}}
        BY <1>1, <2>1, NotedIs
      <4> QED BY <4>1
    <3> HIDE DEF R
    <3>2. UNION {R \cup {t}} = R \cup {t}
      BY <1>2
    <3> QED BY <2>1, <3>1, <3>2, Zenon DEF RN
  <2>2. CASE ~(Checked(r, t) /\ SeenBy(r, t) = {})
    BY <1>1, <2>2, NotedIs, Zenon
  <2> QED BY <2>1, <2>2
<1>5. R \subseteq L
  BY DEF Alike
<1>9. SeenBy(l, t) \subseteq L
  BY DEF SeenBy
<1> HIDE DEF L, R, LN, RN
<1>6. L \subseteq LN
  BY <1>3
<1>7. ~Conflicts(l, t) => RN \subseteq LN
  <2> SUFFICES ASSUME ~Conflicts(l, t)
               PROVE  RN \subseteq LN
    OBVIOUS
  <2>1. CASE Checked(l, t)
    <3>1. SeenBy(l, t) \subseteq {t}
      BY <2>1 DEF Conflicts
    <3>2. t \in LN
      <4>1. CASE SeenBy(l, t) = {}
        BY <1>3, <2>1, <4>1
      <4>2. CASE SeenBy(l, t) # {}
        <5>1. t \in SeenBy(l, t)
          BY <3>1, <4>2
        <5>2. t \in L
          BY <1>9, <5>1
        <5> QED BY <1>6, <5>2
      <4> QED BY <4>1, <4>2
    <3> QED BY <1>4, <1>5, <1>6, <3>2
  <2>2. CASE ~Checked(l, t)
    <3>1. ~Checked(r, t)
      BY <2>2, AlikeChecks
    <3> QED BY <1>4, <1>5, <1>6, <3>1
  <2> QED BY <2>1, <2>2
<1>8. UNION l.seen \subseteq UNION SharedSeen(l, t)
  BY <1>6 DEF SharedSeen, L, LN
<1> QED BY <1>5, <1>6, <1>7, <1>8 DEF L, R, LN, RN

\* The stewards a transition starts from.
Before(w, t, id) ==
    IF t.prior # None THEN IF t.prior \in DOMAIN w.hist THEN w.hist[t.prior] ELSE {}
    ELSE IF RootAfter(w, t, id) \in DOMAIN w.hist THEN w.hist[RootAfter(w, t, id)]
    ELSE InitialAfter(w, t)

\* The stewards a transition records, by its kind.
LEMMA NextStewardsIs ==
    ASSUME NEW w, IsFields(w), NEW t, NEW id
    PROVE  NextStewards(w, t, id) =
              CASE t.kind = "CREATE_GROUP"   -> InitialAfter(w, t)
                [] t.kind = "ADD_STEWARD"    -> Before(w, t, id) \cup {t.who}
                [] t.kind = "REMOVE_STEWARD" -> Before(w, t, id) \ {t.who}
                [] OTHER                     -> Before(w, t, id)
<1> DEFINE f == Founded(Noted(w, t), t)
<1> DEFINE kv == RootAfter(w, t, id)
<1>1. f.hist = w.hist /\ f.initial = InitialAfter(w, t)
  BY FoundedIs
<1> HIDE DEF f, kv
<1> DEFINE b == IF t.prior # None THEN StewardsAt(f, t.prior)
                ELSE IF kv \in DOMAIN f.hist THEN f.hist[kv] ELSE f.initial
<1>2. t.prior # None => StewardsAt(f, t.prior) = IF t.prior \in DOMAIN w.hist
                                                 THEN w.hist[t.prior] ELSE {}
  BY <1>1 DEF StewardsAt
<1>3. b = Before(w, t, id)
  BY <1>1, <1>2 DEF Before, kv
<1>4. StewardsAfter(f, t, kv) = CASE t.kind = "CREATE_GROUP"   -> f.initial
                                  [] t.kind = "ADD_STEWARD"    -> b \cup {t.who}
                                  [] t.kind = "REMOVE_STEWARD" -> b \ {t.who}
                                  [] OTHER                     -> b
  BY DEF StewardsAfter
<1> HIDE DEF b
<1> QED BY <1>1, <1>3, <1>4, Zenon DEF NextStewards, f, kv

\* A transition records the same stewards on both sides: with its prior_state
\* they are those of the current root; without, those of the new root, which
\* must be the same history or no entry of it.
LEMMA AlikeNext ==
    ASSUME NEW l, NEW r, NEW e, Alike(l, r, e), NEW t, t.prior \in {None, l.snap}, NEW id,
           t.prior = None => e \/ RootAfter(l, t, id) \notin DOMAIN l.hist
    PROVE  /\ RootAfter(r, t, id) = RootAfter(l, t, id)
           /\ NextStewards(r, t, id) = NextStewards(l, t, id)
<1>1. RootAfter(r, t, id) = RootAfter(l, t, id)
  BY DEF RootAfter, Alike
<1>2. InitialAfter(r, t) = InitialAfter(l, t)
  BY AlikeChecks
<1>3. Before(r, t, id) = Before(l, t, id)
  <2>1. CASE t.prior = None
    <3> DEFINE k == RootAfter(l, t, id)
    <3> HIDE DEF k
    <3>1. k = RootAfter(l, t, id) /\ k = RootAfter(r, t, id)
      BY <1>1 DEF k
    <3>2. /\ k \in DOMAIN l.hist <=> k \in DOMAIN r.hist
          /\ k \in DOMAIN l.hist => r.hist[k] = l.hist[k]
      BY <2>1, <3>1 DEF Alike
    <3> QED BY <1>2, <2>1, <3>1, <3>2 DEF Before
  <2>2. CASE t.prior # None
    <3>1. t.prior = l.snap
      BY <2>2
    <3> QED BY <2>2, <3>1 DEF Before, Alike
  <2> QED BY <2>1, <2>2
<1>4. IsFields(l) /\ IsFields(r)
  BY DEF Alike
<1>5. NextStewards(r, t, id) = NextStewards(l, t, id)
  BY <1>2, <1>3, <1>4, NextStewardsIs, Zenon
<1> QED BY <1>1, <1>5

\* An applied transition leaves the two alike.
LEMMA AlikeCommitted ==
    ASSUME NEW l, NEW r, NEW e, Alike(l, r, e), NEW t, t.prior \in {None, l.snap}, NEW id,
           t.prior = None => e \/ RootAfter(l, t, id) \notin DOMAIN l.hist,
           ~Conflicts(l, t)
    PROVE  Alike(Committed(l, t, id), Committed(r, t, id), e)
<1> DEFINE a == Committed(l, t, id)
<1> DEFINE b == Committed(r, t, id)
<1> DEFINE k == RootAfter(l, t, id)
<1> DEFINE s == NextStewards(l, t, id)
<1>1. IsFields(l) /\ IsFields(r)
  BY DEF Alike
<1>2. RootAfter(r, t, id) = k /\ NextStewards(r, t, id) = s
  BY AlikeNext
<1>3. /\ IsFields(a) /\ a.snap = k /\ a.hist = HistAfter(l, t, id)
      /\ a.initial = InitialAfter(l, t) /\ a.seen = Noted(l, t).seen
  BY <1>1, CommittedIs
<1>4. /\ IsFields(b) /\ b.snap = k /\ b.hist = HistAfter(r, t, id)
      /\ b.initial = InitialAfter(l, t) /\ b.seen = Noted(r, t).seen
  <2>1. InitialAfter(r, t) = InitialAfter(l, t)
    BY AlikeChecks
  <2> QED BY <1>1, <1>2, <2>1, CommittedIs
<1>5. UNION b.seen \subseteq UNION a.seen
  BY <1>3, <1>4, AlikeSeen
<1>6. a.hist = [x \in DOMAIN l.hist \cup {k} |-> IF x = k THEN s ELSE l.hist[x]]
  BY <1>3 DEF HistAfter
<1>7. b.hist = [x \in DOMAIN r.hist \cup {k} |-> IF x = k THEN s ELSE r.hist[x]]
  BY <1>2, <1>4 DEF HistAfter
<1>8. /\ DOMAIN r.hist \subseteq DOMAIN l.hist
      /\ e => /\ DOMAIN r.hist = DOMAIN l.hist
              /\ \A x \in DOMAIN l.hist : r.hist[x] = l.hist[x]
  BY DEF Alike
<1> HIDE DEF a, b, k, s
<1>9. /\ DOMAIN b.hist \subseteq DOMAIN a.hist
      /\ k \in DOMAIN a.hist /\ k \in DOMAIN b.hist /\ a.hist[k] = b.hist[k]
      /\ e => /\ DOMAIN b.hist = DOMAIN a.hist
              /\ \A x \in DOMAIN a.hist : b.hist[x] = a.hist[x]
  BY <1>6, <1>7, <1>8
<1>10. Alike(a, b, e)
  BY <1>3, <1>4, <1>5, <1>9 DEF Alike
<1> QED BY <1>10 DEF a, b

\* So do two memories: l the one at work and r the one replayed.
Agree(l, r, exact) ==
    /\ r.next = l.next /\ r.custody = l.custody
    /\ DOMAIN r.branches = DOMAIN l.branches
    /\ Alike(l.genesis, r.genesis, exact)
    /\ \A b \in DOMAIN l.branches :
          /\ Alike(l.branches[b].fields, r.branches[b].fields, exact)
          /\ r.branches[b].parent = l.branches[b].parent
          /\ r.branches[b].count = l.branches[b].count

\* Everything is like itself.
LEMMA AlikeSelf ==
    ASSUME NEW w, IsFields(w), NEW e
    PROVE  Alike(w, w, e)
BY DEF Alike

\* Everything agrees with itself.
LEMMA AgreeSelf ==
    ASSUME NEW m, IsMemory(m), NEW e
    PROVE  Agree(m, m, e)
BY AlikeSelf DEF IsMemory, Agree

\* Of what agrees exactly one may forget it.
LEMMA AgreeLess ==
    ASSUME NEW l, NEW r, NEW e, Agree(l, r, e), NEW f, f => e
    PROVE  Agree(l, r, f)
<1>1. ASSUME NEW v, NEW w, Alike(v, w, e)
      PROVE  Alike(v, w, f)
  BY <1>1 DEF Alike
<1> QED BY <1>1 DEF Agree

\* What Apply works on is alike on both sides.
LEMMA AgreeWorking ==
    ASSUME NEW l, NEW r, NEW e, Agree(l, r, e), NEW t, ~Stays(t) => t.branch \in DOMAIN l.branches
    PROVE  Alike(Working(l, t), Working(r, t), e)
<1>1. CASE Stays(t)
  BY <1>1 DEF Working, Agree
<1>2. CASE ~Stays(t)
  BY <1>2 DEF Working, Agree
<1> QED BY <1>1, <1>2

\* What the working memory accepted a replay accepts, as long as its clock has
\* not passed the deadline of a MIGRATE.
LEMMA AgreeAccepts ==
    ASSUME NEW l, NEW r, NEW e, Agree(l, r, e), NEW t, NEW n, Accepts(l, t, n),
           NEW k, t.kind = "MIGRATE" => k <= t.num
    PROVE  Accepts(r, t, k)
<1>1. Known(l, t) /\ t.prior \in {None, Working(l, t).snap}
  BY DEF Accepts, Passes
<1>2. ~Stays(t) => t.branch \in DOMAIN l.branches
  BY <1>1 DEF Known, Stays
<1> DEFINE v == Working(l, t)
<1> DEFINE w == Working(r, t)
<1>3. Alike(v, w, e)
  BY <1>2, AgreeWorking
<1>4. ~Conflicts(v, t) /\ Authorised(v, t) /\ Valid(v, t, l.next, n)
  BY DEF Accepts
<1>5. Known(r, t)
  BY <1>1 DEF Known, Agree
<1> HIDE DEF v, w
<1>6. w.snap = v.snap
  BY <1>3 DEF Alike
<1>7. ~Conflicts(w, t) /\ Authorised(w, t) /\ (MayDeclare(w, t) <=> MayDeclare(v, t))
  BY <1>1, <1>3, <1>4, AlikeChecks DEF v
<1>8. r.next = l.next
  BY DEF Agree
<1>9. Valid(w, t, r.next, k)
  <2>1. /\ t.kind = "DECLARE_CUSTODY" => MayDeclare(v, t)
        /\ HasRoom(v.snap, Writes(t, l.next))
    BY <1>4 DEF Valid
  <2>2. HasRoom(w.snap, Writes(t, r.next))
    BY <1>6, <1>8, <2>1
  <2> QED BY <1>7, <2>1, <2>2 DEF Valid
<1>10. Passes(r, t)
  BY <1>1, <1>5, <1>6 DEF Passes, v, w
<1> QED BY <1>7, <1>9, <1>10 DEF Accepts, w

\* Both record the same tier.
LEMMA AgreeDeclared ==
    ASSUME NEW l, IsMemory(l), NEW r, IsMemory(r), NEW e, Agree(l, r, e), NEW t,
           ~Stays(t) => t.branch \in DOMAIN l.branches, t.prior \in {None, Working(l, t).snap}
    PROVE  Declared(r, t).custody = Declared(l, t).custody
<1>1. MayDeclare(Working(r, t), t) <=> MayDeclare(Working(l, t), t)
  BY AgreeWorking, AlikeChecks
<1>2. r.custody = l.custody
  BY DEF Agree
<1>3. /\ Declared(l, t).custody = IF MayDeclare(Working(l, t), t)
                                  THEN [l.custody EXCEPT ![t.who] = t.num] ELSE l.custody
      /\ Declared(r, t).custody = IF MayDeclare(Working(r, t), t)
                                  THEN [r.custody EXCEPT ![t.who] = t.num] ELSE r.custody
  BY DeclaredIs
<1> QED BY <1>1, <1>2, <1>3

\* A branch replaced on both sides, or in the working memory alone.
LEMMA AgreeBranch ==
    ASSUME NEW l, NEW r, NEW e, Agree(l, r, e), NEW b \in DOMAIN l.branches,
           NEW x, NEW w, NEW j, OnBranch(x, l, b, w, j),
           NEW y, NEW v, OnBranch(y, r, b, v, j),
           Alike(w, v, e), y.custody = x.custody
    PROVE  Agree(x, y, e)
<1>1. b \in DOMAIN r.branches /\ y.next = x.next /\ DOMAIN y.branches = DOMAIN x.branches
  BY DEF Agree, OnBranch
<1>2. Alike(x.genesis, y.genesis, e)
  BY DEF Agree, OnBranch
<1>3. ASSUME NEW c \in DOMAIN x.branches
      PROVE  /\ Alike(x.branches[c].fields, y.branches[c].fields, e)
             /\ y.branches[c].parent = x.branches[c].parent
             /\ y.branches[c].count = x.branches[c].count
  <2>1. CASE c = b
    BY <2>1 DEF Agree, OnBranch
  <2>2. CASE c # b
    <3>1. c \in DOMAIN l.branches /\ c \in DOMAIN r.branches
      BY DEF Agree, OnBranch
    <3>2. x.branches[c] = l.branches[c] /\ y.branches[c] = r.branches[c]
      BY <2>2, <3>1 DEF OnBranch
    <3> QED BY <3>1, <3>2 DEF Agree
  <2> QED BY <2>1, <2>2
<1> QED BY <1>1, <1>2, <1>3 DEF Agree

\* The same when only the working memory's branch was replaced.
LEMMA AgreeOwnBranch ==
    ASSUME NEW l, NEW r, IsMemory(r), NEW e, Agree(l, r, e), NEW b \in DOMAIN l.branches,
           NEW x, NEW w, OnBranch(x, l, b, w, l.branches[b].count),
           Alike(w, r.branches[b].fields, e), x.custody = l.custody
    PROVE  Agree(x, r, e)
<1>1. OnBranch(r, r, b, r.branches[b].fields, l.branches[b].count)
  BY DEF OnBranch, Agree
<1>2. r.custody = x.custody
  BY DEF Agree
<1> QED BY <1>1, <1>2, AgreeBranch

\* Genesis replaced on both sides, and perhaps a branch made.
LEMMA AgreeWithBranch ==
    ASSUME NEW l, IsMemory(l), NEW r, NEW e, Agree(l, r, e), NEW t,
           t.kind = "BRANCH_CREATE" => t.prior \in {None, l.genesis.snap},
           NEW x, WithBranch(x, l, t), NEW y, WithBranch(y, r, t),
           Alike(x.genesis, y.genesis, e), y.custody = x.custody
    PROVE  Agree(x, y, e)
<1>1. CASE t.kind # "BRANCH_CREATE"
  BY <1>1 DEF WithBranch, Agree
<1>2. CASE t.kind = "BRANCH_CREATE"
  <2>1. /\ x.next = l.next + 1 /\ x.branches = Grown(l, t)
        /\ y.next = r.next + 1 /\ y.branches = Grown(r, t) /\ r.next = l.next
        /\ DOMAIN r.branches = DOMAIN l.branches
    BY <1>2 DEF WithBranch, Agree
  <2>2. NewBranch(r, t) = NewBranch(l, t)
    <3>1. StewardsAt(r.genesis, t.prior) = StewardsAt(l.genesis, t.prior)
      BY <1>2, AlikeStewards DEF Agree
    <3> QED BY <3>1 DEF NewBranch
  <2> DEFINE b == NewBranch(l, t)
  <2>3. IsFields(b.fields)
    BY DEF NewBranch, Fields, IsFields
  <2>4. Alike(b.fields, b.fields, e)
    BY <2>3, AlikeSelf
  <2> HIDE DEF b
  <2>5. /\ x.branches = [i \in DOMAIN l.branches \cup {l.next} |->
                            IF i = l.next THEN b ELSE l.branches[i]]
        /\ y.branches = [i \in DOMAIN l.branches \cup {l.next} |->
                            IF i = l.next THEN b ELSE r.branches[i]]
    <3>1. /\ Grown(l, t) = [i \in DOMAIN l.branches \cup {l.next} |->
                               IF i = l.next THEN NewBranch(l, t) ELSE l.branches[i]]
          /\ Grown(r, t) = [i \in DOMAIN r.branches \cup {r.next} |->
                               IF i = r.next THEN NewBranch(r, t) ELSE r.branches[i]]
      BY Zenon DEF Grown
    <3>2. NewBranch(l, t) = b /\ NewBranch(r, t) = b
      BY <2>2 DEF b
    <3> QED BY <2>1, <3>1, <3>2
  <2>6. ASSUME NEW c \in DOMAIN x.branches
        PROVE  /\ Alike(x.branches[c].fields, y.branches[c].fields, e)
               /\ y.branches[c].parent = x.branches[c].parent
               /\ y.branches[c].count = x.branches[c].count
    <3>1. CASE c = l.next
      <4>1. x.branches[c] = b /\ y.branches[c] = b
        BY <2>5, <3>1
      <4> QED BY <2>4, <4>1
    <3>2. CASE c # l.next
      <4>1. c \in DOMAIN l.branches
        BY <2>5, <3>2
      <4>2. x.branches[c] = l.branches[c] /\ y.branches[c] = r.branches[c]
        BY <2>5, <3>2, <4>1
      <4> QED BY <4>1, <4>2 DEF Agree
    <3> QED BY <3>1, <3>2
  <2>7. DOMAIN y.branches = DOMAIN x.branches /\ y.next = x.next
    BY <2>1, <2>5
  <2> QED BY <2>6, <2>7 DEF Agree
<1> QED BY <1>1, <1>2

\* A row applied on both sides keeps them in agreement.
LEMMA AgreeApplied ==
    ASSUME NEW l, IsMemory(l), NEW r, IsMemory(r), NEW e, Agree(l, r, e), NEW t,
           ~Stays(t) => t.branch \in DOMAIN l.branches,
           t.prior \in {None, Working(l, t).snap}, ~Conflicts(Working(l, t), t),
           t.prior = None =>
               e \/ RootAfter(Working(l, t), t, l.next) \notin DOMAIN Working(l, t).hist
    PROVE  Agree(Applied(l, t), Applied(r, t), e)
<1> DEFINE v == Committed(Working(l, t), t, l.next)
<1> DEFINE w == Committed(Working(r, t), t, r.next)
<1> DEFINE x == Applied(l, t)
<1> DEFINE y == Applied(r, t)
<1>1. r.next = l.next /\ DOMAIN r.branches = DOMAIN l.branches
  BY DEF Agree
<1>2. Alike(v, w, e)
  <2>1. Alike(Working(l, t), Working(r, t), e)
    BY AgreeWorking
  <2>2. Alike(v, Committed(Working(r, t), t, l.next), e)
    BY <2>1, AlikeCommitted
  <2> QED BY <1>1, <2>2
<1>3. y.custody = x.custody
  <2>1. x.custody = Declared(l, t).custody /\ y.custody = Declared(r, t).custody
    BY <1>1, AppliedIs
  <2> QED BY <2>1, AgreeDeclared
<1>4. CASE Stays(t)
  <2>1. WithBranch(x, l, t) /\ x.genesis = v /\ WithBranch(y, r, t) /\ y.genesis = w
    BY <1>1, <1>4, AppliedIs
  <2>2. t.prior \in {None, l.genesis.snap}
    BY <1>4 DEF Working
  <2> HIDE DEF v, w, x, y
  <2>3. Agree(x, y, e)
    BY <1>2, <1>3, <2>1, <2>2, AgreeWithBranch
  <2> QED BY <2>3 DEF x, y
<1>5. CASE ~Stays(t)
  <2> DEFINE j == l.branches[t.branch].count + 1
  <2>1. OnBranch(x, l, t.branch, v, j)
    BY <1>5, AppliedIs
  <2>2. r.branches[t.branch].count + 1 = j
    BY <1>5 DEF Agree
  <2>3. OnBranch(y, r, t.branch, w, j)
    <3>1. OnBranch(y, r, t.branch, w, r.branches[t.branch].count + 1)
      BY <1>1, <1>5, AppliedIs
    <3> QED BY <2>2, <3>1
  <2> HIDE DEF v, w, x, y, j
  <2>4. Agree(x, y, e)
    BY <1>2, <1>3, <1>5, <2>1, <2>3, AgreeBranch
  <2> QED BY <2>4 DEF x, y
<1> QED BY <1>4, <1>5

\* A failed save that leaves the root, the tiers and genesis alone adds to the
\* working memory's history an entry of a root it is not at.
LEMMA AgreeUnsaved ==
    ASSUME NEW l, IsMemory(l), NEW r, IsMemory(r), NEW e, Agree(l, r, e), NEW t,
           ~Stays(t), t.branch \in DOMAIN l.branches, t.prior \in {None, Working(l, t).snap},
           RootAfter(Working(l, t), t, l.next) # Working(l, t).snap,
           Declared(l, t).custody = l.custody
    PROVE  Agree(Unsaved(l, t), r, FALSE)
<1> DEFINE v == Working(l, t)
<1> DEFINE w == Working(r, t)
<1> DEFINE k == RootAfter(v, t, l.next)
<1> DEFINE u == NotSaved(v, t, l.next)
<1>1. Alike(v, w, e) /\ t.prior \in {None, v.snap}
  BY AgreeWorking
<1>2. w = r.branches[t.branch].fields
  BY DEF Working
<1>3. IsFields(v) /\ IsFields(w)
  BY <1>1 DEF Alike
<1>4. /\ IsFields(u) /\ u.snap = v.snap /\ u.initial = v.initial
      /\ u.hist = HistAfter(v, t, l.next) /\ u.seen = SharedSeen(v, t)
  <2> HIDE DEF v
  <2> QED BY <1>3, RefusedIs
<1>5. /\ DOMAIN u.hist = DOMAIN v.hist \cup {k}
      /\ \A x \in DOMAIN v.hist : x # k => u.hist[x] = v.hist[x]
  BY <1>4 DEF HistAfter
<1>6. UNION w.seen \subseteq UNION u.seen
  <2> HIDE DEF v, w, u
  <2> QED BY <1>1, <1>4, AlikeSeen
<1>7. k # v.snap
  OBVIOUS
<1> HIDE DEF v, w, u, k
<1>8. Alike(u, w, FALSE)
  BY <1>1, <1>4, <1>5, <1>6, <1>7 DEF Alike
<1>9. OnBranch(Unsaved(l, t), l, t.branch, u, l.branches[t.branch].count)
  BY UnsavedIs DEF u, v
<1>10. Unsaved(l, t).custody = l.custody
  BY UnsavedIs
<1>11. Agree(l, r, FALSE)
  BY AgreeLess
<1> QED BY <1>2, <1>8, <1>9, <1>10, <1>11, AgreeOwnBranch

\* A refusal that takes no id, tier or founding stewards only adds to the
\* working memory's equivocation log.
LEMMA AgreeLeftover ==
    ASSUME NEW l, IsMemory(l), l.next \in Nat, NEW r, IsMemory(r), NEW e, Agree(l, r, e), NEW t,
           ~Stays(t) => t.branch \in DOMAIN l.branches, t.prior \in {None, Working(l, t).snap},
           Leftover(l, t).next = l.next, Leftover(l, t).custody = l.custody,
           Leftover(l, t).genesis.initial = l.genesis.initial
    PROVE  Agree(Leftover(l, t), r, e)
<1> DEFINE v == Working(l, t)
<1> DEFINE w == Working(r, t)
<1> DEFINE x == Leftover(l, t)
<1>1. Alike(v, w, e) /\ t.prior \in {None, v.snap}
  BY AgreeWorking
<1>2. IsFields(v) /\ IsFields(w)
  BY <1>1 DEF Alike
<1>3. /\ IsFields(Noted(v, t)) /\ Noted(v, t).snap = v.snap
      /\ Noted(v, t).hist = v.hist /\ Noted(v, t).initial = v.initial
  <2> HIDE DEF v
  <2> QED BY <1>2, NotedIs
<1>4. /\ UNION w.seen \subseteq UNION Noted(v, t).seen
      /\ UNION w.seen \subseteq UNION SharedSeen(v, t)
  <2> HIDE DEF v, w
  <2> QED BY <1>1, AlikeSeen
<1>5. CASE ~Stays(t)
  <2> DEFINE u == Refused(v, t)
  <2>1. OnBranch(x, l, t.branch, u, l.branches[t.branch].count)
    BY <1>5, LeftoverIs
  <2>2. /\ IsFields(u) /\ u.snap = v.snap /\ u.initial = v.initial
        /\ u.hist = v.hist /\ u.seen = SharedSeen(v, t)
    <3> HIDE DEF v
    <3> QED BY <1>2, RefusedIs
  <2>3. w = r.branches[t.branch].fields
    BY <1>5 DEF Working
  <2>4. x.custody = l.custody
    OBVIOUS
  <2> HIDE DEF v, w, u, x
  <2>5. Alike(u, w, e)
    BY <1>1, <1>4, <2>2 DEF Alike
  <2>6. Agree(x, r, e)
    BY <1>5, <2>1, <2>3, <2>4, <2>5, AgreeOwnBranch
  <2> QED BY <2>6 DEF x
<1>6. CASE Stays(t)
  <2>1. v = l.genesis /\ w = r.genesis
    BY <1>6 DEF Working
  <2>2. /\ IsFields(x.genesis) /\ x.genesis.snap = v.snap /\ x.genesis.initial = v.initial
        /\ x.genesis.hist = v.hist /\ x.genesis.seen = Noted(v, t).seen
        /\ x.branches = l.branches
    <3>1. CASE ~Authorised(v, t)
      <4>1. x.genesis = Noted(v, t) /\ x.branches = l.branches
        BY <1>6, <3>1, LeftoverIs
      <4> HIDE DEF v, x
      <4> QED BY <1>3, <4>1
    <3>2. CASE Authorised(v, t)
      <4>1. WithBranch(x, l, t) /\ x.genesis = Founded(Noted(v, t), t)
        BY <1>6, <3>2, LeftoverIs
      <4>2. x.genesis.initial = v.initial /\ x.next = l.next
        BY <2>1
      <4> HIDE DEF v, x
      <4>3. /\ IsFields(x.genesis) /\ x.genesis.snap = v.snap
            /\ x.genesis.hist = v.hist /\ x.genesis.seen = Noted(v, t).seen
        BY <1>2, <4>1, FoundedIs
      <4>4. x.branches = l.branches
        BY <4>1, <4>2 DEF WithBranch
      <4> QED BY <4>2, <4>3, <4>4
    <3> QED BY <3>1, <3>2
  <2>3. x.next = l.next /\ x.custody = l.custody
    OBVIOUS
  <2> HIDE DEF v, w, x
  <2>4. Alike(x.genesis, w, e)
    BY <1>1, <1>4, <2>2 DEF Alike
  <2>5. Agree(x, r, e)
    BY <2>1, <2>2, <2>3, <2>4 DEF Agree
  <2> QED BY <2>5 DEF x
<1> QED BY <1>5, <1>6

-----------------------------------------------------------------------------
(* The replay agrees with the memory. *)

\* No MIGRATE of the log is past its deadline at clock n.
Fits(d, n) == \A i \in DOMAIN d : d[i].kind = "MIGRATE" => n <= d[i].num

\* The clock of a replay matters to those deadlines alone.
SameAnyTime(d) ==
    \A m, n \in Nat : Replay(d, m).ok /\ Fits(d, n) => Replay(d, n) = Replay(d, m)

Recovers(m, d, exact) ==
    \A n \in Nat : Fits(d, n) => Replay(d, n).ok /\ Agree(m, Replay(d, n).mem, exact)

\* Inductive: as long as every save that failed left memory within reach of the
\* log, all replays of the log that meet its deadlines end, in one memory, and
\* it agrees with the one at work.
AgreeInv ==
    /\ TypeInv
    /\ SameAnyTime(disk)
    /\ up /\ flaws \subseteq {"unsaved"} => Recovers(Now, disk, flaws = {})

\* The deadlines of a longer log include the shorter one's.
LEMMA FitsNext ==
    ASSUME NEW d \in Seq(Logged), NEW t \in Logged, NEW n, Fits(Append(d, t), n)
    PROVE  Fits(d, n) /\ (t.kind = "MIGRATE" => n <= t.num)
<1> DEFINE e == Append(d, t)
<1>1. /\ Len(d) \in Nat /\ DOMAIN d = 1..Len(d) /\ DOMAIN e = 1..(Len(d) + 1)
      /\ e[Len(d) + 1] = t /\ \A i \in 1..Len(d) : e[i] = d[i]
  BY AppendProperties, LenProperties
<1>2. Len(d) + 1 \in DOMAIN e /\ DOMAIN d \subseteq DOMAIN e
  BY <1>1
<1>3. \A i \in DOMAIN e : e[i].kind = "MIGRATE" => n <= e[i].num
  BY DEF Fits
<1> HIDE DEF e
<1>4. ASSUME NEW i \in DOMAIN d, d[i].kind = "MIGRATE"
      PROVE  n <= d[i].num
  BY <1>1, <1>2, <1>3, <1>4
<1>5. t.kind = "MIGRATE" => n <= t.num
  BY <1>1, <1>2, <1>3
<1> QED BY <1>4, <1>5 DEF Fits

\* A row more keeps the replays alike.
LEMMA AnyTimeNext ==
    ASSUME NEW d \in Seq(Logged), NEW t \in Logged, SameAnyTime(d),
           \A n \in Nat : MemoryInv(Replay(d, n).mem)
    PROVE  SameAnyTime(Append(d, t))
<1> DEFINE e == Append(d, t)
<1> SUFFICES ASSUME NEW m \in Nat, NEW n \in Nat, Replay(e, m).ok, Fits(e, n)
             PROVE  Replay(e, n) = Replay(e, m)
  BY DEF SameAnyTime
<1>1. Fits(d, n) /\ (t.kind = "MIGRATE" => n <= t.num)
  BY FitsNext
<1> DEFINE r == Replay(d, m)
<1>2. Replay(e, m) = Replayed(r, t, m) /\ Replay(e, n) = Replayed(Replay(d, n), t, n)
  BY ReplayUnfold
<1>3. IsMemory(r.mem)
  BY DEF MemoryInv
<1>4. r.ok /\ Fits(d, n) => Replay(d, n) = r
  BY DEF SameAnyTime
<1> HIDE DEF r, e
<1>5. r.ok /\ Accepts(r.mem, t, m)
  BY <1>2 DEF Replayed
<1>6. Replay(d, n) = r
  BY <1>1, <1>4, <1>5
<1>7. Accepts(r.mem, t, n)
  <2>1. Agree(r.mem, r.mem, TRUE)
    BY <1>3, AgreeSelf
  <2> QED BY <1>1, <1>5, <2>1, AgreeAccepts
<1> QED BY <1>2, <1>5, <1>6, <1>7 DEF Replayed

\* A row applied and saved: its replay is one row longer.
LEMMA RecoversApplied ==
    ASSUME NEW m, MemoryInv(m), NEW d \in Seq(Logged), NEW e, Recovers(m, d, e),
           \A n \in Nat : MemoryInv(Replay(d, n).mem),
           NEW t \in Logged, NEW k, Accepts(m, t, k),
           t.prior = None =>
               e \/ RootAfter(Working(m, t), t, m.next) \notin DOMAIN Working(m, t).hist
    PROVE  Recovers(Applied(m, t), Append(d, t), e)
<1> SUFFICES ASSUME NEW n \in Nat, Fits(Append(d, t), n)
             PROVE  /\ Replay(Append(d, t), n).ok
                    /\ Agree(Applied(m, t), Replay(Append(d, t), n).mem, e)
  BY DEF Recovers
<1> DEFINE r == Replay(d, n)
<1>1. Fits(d, n) /\ (t.kind = "MIGRATE" => n <= t.num)
  BY FitsNext
<1>2. r.ok /\ Agree(m, r.mem, e)
  BY <1>1 DEF Recovers
<1>3. IsMemory(m) /\ IsMemory(r.mem)
  BY DEF MemoryInv
<1>4. Replay(Append(d, t), n) = Replayed(r, t, n)
  BY ReplayUnfold
<1> HIDE DEF r
<1>5. Accepts(r.mem, t, n)
  BY <1>1, <1>2, AgreeAccepts
<1>6. /\ t.prior \in {None, Working(m, t).snap} /\ ~Conflicts(Working(m, t), t)
      /\ ~Stays(t) => t.branch \in DOMAIN m.branches
  BY DEF Accepts, Passes, Known, Stays
<1>7. Agree(Applied(m, t), Applied(r.mem, t), e)
  BY <1>2, <1>3, <1>6, AgreeApplied
<1>8. Replay(Append(d, t), n) = [ok |-> TRUE, mem |-> Applied(r.mem, t)]
  BY <1>2, <1>4, <1>5 DEF Replayed
<1> QED BY <1>7, <1>8

\* The root After looks at.
LEMMA AfterRoot ==
    ASSUME MemoryInv(Now), NEW t, ~Stays(t) => t.branch \in DOMAIN Now.branches
    PROVE  After(t).snap = RootAfter(Working(Now, t), t, Now.next)
<1> DEFINE w == Working(Now, t)
<1> DEFINE x == Applied(Now, t)
<1>1. IsMemory(Now)
  BY DEF MemoryInv
<1>2. IsFields(w)
  BY <1>1 DEF Working, IsMemory
<1>3. Committed(w, t, Now.next).snap = RootAfter(w, t, Now.next)
  BY <1>2, CommittedIs
<1>4. /\ Stays(t) => x.genesis = Committed(w, t, Now.next)
      /\ ~Stays(t) => x.branches[t.branch].fields = Committed(w, t, Now.next)
  BY <1>1, AppliedIs DEF OnBranch
<1> HIDE DEF w, x
<1>5. After(t) = Committed(w, t, Now.next)
  BY <1>4 DEF After, x
<1> QED BY <1>3, <1>5 DEF w

\* Every step keeps memory and replay in agreement, or is a flaw.
LEMMA AgreeStep == AgreeInv /\ [Next]_vars => AgreeInv'
<1> SUFFICES ASSUME AgreeInv, [Next]_vars PROVE AgreeInv'
  OBVIOUS
<1>0. /\ TypeInv' /\ TypeInv /\ MemoryInv(Now) /\ disk \in Seq(Logged) /\ now \in Nat
      /\ \A n \in Nat : MemoryInv(Replay(disk, n).mem)
      /\ SameAnyTime(disk)
      /\ up /\ flaws \subseteq {"unsaved"} => Recovers(Now, disk, flaws = {})
      /\ IsMemory(Now) /\ Now.next \in Nat
  <2>1. TypeInv /\ TypeInv'
    BY TypeStep DEF AgreeInv
  <2>2. MemoryInv(Now) /\ disk \in Seq(Logged) /\ now \in Nat
    BY <2>1, BranchAssumption DEF TypeInv
  <2>3. \A n \in Nat : MemoryInv(Replay(disk, n).mem)
    BY <2>1 DEF TypeInv
  <2>4. IsMemory(Now) /\ Now.next \in Nat
    BY <2>2 DEF MemoryInv
  <2>5. /\ SameAnyTime(disk)
        /\ up /\ flaws \subseteq {"unsaved"} => Recovers(Now, disk, flaws = {})
    BY DEF AgreeInv
  <2> QED BY <2>1, <2>2, <2>3, <2>4, <2>5
<1>1. ASSUME up, NEW t \in Submitted, Apply(t)
      PROVE  AgreeInv'
  <2>1. /\ t \in Logged /\ UNCHANGED <<up, now>>
        /\ \/ /\ Accept(t) /\ Accepts(Now, t, now)
              /\ Now' = Applied(Now, t) /\ disk' = Append(disk, t)
           \/ /\ SaveFails(t) /\ Accepts(Now, t, now)
              /\ Now' = Unsaved(Now, t) /\ disk' = disk
           \/ /\ Refuse(t) /\ Known(Now, t)
              /\ Now' = Leftover(Now, t) /\ disk' = disk
           \/ /\ Equivocate(t) \/ Throttle(t)
              /\ Now' = Now /\ disk' = disk /\ flaws' = flaws
    BY <1>0, <1>1, CallIs
  <2> DEFINE w == Working(Now, t)
  <2>2. ASSUME Known(Now, t)
        PROVE  ~Stays(t) => t.branch \in DOMAIN Now.branches
    BY <2>2 DEF Known, Stays
  <2>3. CASE Accept(t) /\ Accepts(Now, t, now) /\ Now' = Applied(Now, t) /\ disk' = Append(disk, t)
    <3>1. SameAnyTime(disk')
      BY <1>0, <2>1, <2>3, AnyTimeNext
    <3>2. ASSUME flaws' \subseteq {"unsaved"}
          PROVE  Recovers(Now', disk', flaws' = {})
      <4>1. flaws' = flaws /\ ~MeetsGhost(t)
        BY <2>3, <3>2 DEF Accept
      <4>2. Recovers(Now, disk, flaws = {})
        BY <1>0, <1>1, <3>2, <4>1
      <4>3. Known(Now, t)
        BY <2>3 DEF Accepts, Passes
      <4>4. After(t).snap = RootAfter(w, t, Now.next)
        BY <1>0, <2>2, <4>3, AfterRoot
      <4>5. t.prior = None => flaws = {} \/ RootAfter(w, t, Now.next) \notin DOMAIN w.hist
        <5>1. flaws = {} \/ "unsaved" \in flaws
          BY <3>2, <4>1
        <5> QED BY <4>1, <4>4, <5>1 DEF MeetsGhost
      <4>6. Recovers(Applied(Now, t), Append(disk, t), flaws = {})
        BY <1>0, <2>1, <2>3, <4>2, <4>5, RecoversApplied
      <4> QED BY <2>3, <4>1, <4>6
    <3> QED BY <1>0, <3>1, <3>2 DEF AgreeInv
  <2>4. CASE SaveFails(t) /\ Accepts(Now, t, now) /\ Now' = Unsaved(Now, t) /\ disk' = disk
    <3>1. ASSUME flaws' \subseteq {"unsaved"}
          PROVE  Recovers(Now', disk', flaws' = {})
      <4>1. flaws' = flaws \cup {FlawOf(t)}
        BY <2>4 DEF SaveFails
      <4>2. FlawOf(t) = "unsaved" /\ flaws \subseteq {"unsaved"}
        BY <3>1, <4>1
      <4>3. ~Stays(t) /\ After(t).snap # w.snap /\ Declared(Now, t).custody = Now.custody
        BY <4>2 DEF FlawOf, Now, Memory
      <4>4. Known(Now, t) /\ t.prior \in {None, w.snap}
        BY <2>4 DEF Accepts, Passes
      <4>5. RootAfter(w, t, Now.next) # w.snap /\ t.branch \in DOMAIN Now.branches
        BY <1>0, <2>2, <4>3, <4>4, AfterRoot
      <4>6. Recovers(Now, disk, flaws = {})
        BY <1>0, <1>1, <4>2
      <4>7. ASSUME NEW n \in Nat, Fits(disk, n)
            PROVE  Replay(disk, n).ok /\ Agree(Unsaved(Now, t), Replay(disk, n).mem, FALSE)
        <5>1. Replay(disk, n).ok /\ Agree(Now, Replay(disk, n).mem, flaws = {})
          BY <4>6, <4>7 DEF Recovers
        <5>2. IsMemory(Replay(disk, n).mem)
          BY <1>0 DEF MemoryInv
        <5> QED BY <1>0, <4>3, <4>4, <4>5, <5>1, <5>2, AgreeUnsaved
      <4>8. (flaws' = {}) = FALSE
        BY <4>1
      <4> QED BY <2>4, <4>7, <4>8 DEF Recovers
    <3> QED BY <1>0, <2>4, <3>1 DEF AgreeInv
  <2>5. CASE Refuse(t) /\ Known(Now, t) /\ Now' = Leftover(Now, t) /\ disk' = disk
    <3>1. ASSUME flaws' \subseteq {"unsaved"}
          PROVE  Recovers(Now', disk', flaws' = {})
      <4>1. /\ flaws' = flaws
            /\ nextID' = nextID /\ custody' = custody /\ genesis'.initial = genesis.initial
        BY <2>5, <3>1 DEF Refuse
      <4>2. /\ Leftover(Now, t).next = Now.next /\ Leftover(Now, t).custody = Now.custody
            /\ Leftover(Now, t).genesis.initial = Now.genesis.initial
        <5>1. /\ Now'.next = nextID' /\ Now'.custody = custody' /\ Now'.genesis = genesis'
              /\ Now.next = nextID /\ Now.custody = custody /\ Now.genesis = genesis
          BY DEF Now, Memory
        <5> QED BY <2>5, <4>1, <5>1
      <4>3. t.prior \in {None, w.snap}
        BY <2>5 DEF Refuse, Passes
      <4>4. Recovers(Now, disk, flaws = {})
        BY <1>0, <1>1, <3>1, <4>1
      <4>5. ASSUME NEW n \in Nat, Fits(disk, n)
            PROVE  /\ Replay(disk, n).ok
                   /\ Agree(Leftover(Now, t), Replay(disk, n).mem, flaws = {})
        <5>1. Replay(disk, n).ok /\ Agree(Now, Replay(disk, n).mem, flaws = {})
          BY <4>4, <4>5 DEF Recovers
        <5>2. IsMemory(Replay(disk, n).mem)
          BY <1>0 DEF MemoryInv
        <5> QED BY <1>0, <2>2, <2>5, <4>2, <4>3, <5>1, <5>2, AgreeLeftover
      <4> QED BY <2>5, <4>1, <4>5 DEF Recovers
    <3> QED BY <1>0, <2>5, <3>1 DEF AgreeInv
  <2>6. CASE Now' = Now /\ disk' = disk /\ flaws' = flaws
    <3>1. up' = up /\ (flaws' = {}) = (flaws = {})
      BY <2>1, <2>6
    <3>2. Recovers(Now', disk', flaws' = {}) <=> Recovers(Now, disk, flaws = {})
      BY <2>6, <3>1
    <3>3. SameAnyTime(disk') <=> SameAnyTime(disk)
      BY <2>6
    <3>4. SameAnyTime(disk')
      BY <1>0, <3>3
    <3>5. up' /\ flaws' \subseteq {"unsaved"} => Recovers(Now', disk', flaws' = {})
      BY <1>0, <1>1, <2>6, <3>2
    <3> QED BY <1>0, <3>4, <3>5 DEF AgreeInv
  <2> QED BY <2>1, <2>3, <2>4, <2>5, <2>6
<1>2. CASE Restart
  <2> DEFINE r == Replay(disk, now)
  <2>1. /\ up' = r.ok /\ disk' = disk /\ (r.ok => Becomes(r.mem) /\ flaws' = {})
    BY <1>2 DEF Restart
  <2>2. IsMemory(r.mem)
    BY <1>0 DEF MemoryInv
  <2>3. ASSUME NEW n \in Nat, Fits(disk, n), r.ok
        PROVE  Replay(disk, n) = r
    BY <1>0, <2>3 DEF SameAnyTime
  <2> HIDE DEF r
  <2>4. ASSUME r.ok
        PROVE  Recovers(Now', disk', flaws' = {})
    <3>1. Now' = r.mem /\ flaws' = {}
      BY <2>1, <2>2, <2>4, Becoming
    <3>2. Agree(r.mem, r.mem, TRUE)
      BY <2>2, AgreeSelf
    <3>3. (flaws' = {}) = TRUE
      BY <3>1
    <3>4. Recovers(r.mem, disk, TRUE)
      BY <2>3, <2>4, <3>2 DEF Recovers
    <3> QED BY <2>1, <3>1, <3>3, <3>4
  <2> QED BY <1>0, <2>1, <2>4 DEF AgreeInv
<1>3. CASE Clock \/ UNCHANGED vars
  <2>1. UNCHANGED <<memory, disk, up, flaws>>
    BY <1>3 DEF Clock, vars
  <2>2. Now' = Now
    BY <2>1 DEF Now, Memory, memory
  <2> QED BY <1>0, <2>1, <2>2 DEF AgreeInv
<1> QED BY <1>1, <1>2, <1>3 DEF Next

\* Where two memories agree a restart shows nothing new.
LEMMA AgreeView ==
    ASSUME NEW l, NEW r, NEW e, Agree(l, r, e)
    PROVE  View(r) = View(l)
<1>1. ASSUME NEW v, NEW w, Alike(v, w, e)
      PROVE  HeadOf(w) = HeadOf(v)
  <2>1. HeadStewards(w) = HeadStewards(v)
    BY <1>1, AlikeStewards DEF HeadStewards
  <2>2. w.snap = v.snap /\ w.initial = v.initial
    BY <1>1 DEF Alike
  <2> QED BY <2>1, <2>2 DEF HeadOf
<1> DEFINE Row(m, b) == [head |-> HeadOf(m.branches[b].fields), parent |-> m.branches[b].parent,
                         count |-> m.branches[b].count]
<1>2. ASSUME NEW b \in DOMAIN l.branches
      PROVE  Row(r, b) = Row(l, b)
  <2>1. /\ HeadOf(r.branches[b].fields) = HeadOf(l.branches[b].fields)
        /\ r.branches[b].parent = l.branches[b].parent
        /\ r.branches[b].count = l.branches[b].count
    BY <1>1 DEF Agree
  <2> QED BY <2>1
<1>3. DOMAIN r.branches = DOMAIN l.branches
  BY DEF Agree
<1> HIDE DEF Row
<1>4. [b \in DOMAIN r.branches |-> Row(r, b)] = [b \in DOMAIN l.branches |-> Row(l, b)]
  BY <1>2, <1>3
<1>5. HeadOf(r.genesis) = HeadOf(l.genesis) /\ r.next = l.next /\ r.custody = l.custody
  BY <1>1 DEF Agree
<1> QED BY <1>4, <1>5, Zenon DEF View, Row

\* At any moment the durable log replays without a refusal into the heads,
\* steward sets, branch ids, counts and tiers in memory, but for what the flaws
\* name and for a MIGRATE whose deadline has passed.
THEOREM ReplayCorrect == Spec => []ReplayAgrees
<1>1. Init => AgreeInv
  <2> SUFFICES ASSUME Init PROVE AgreeInv
    OBVIOUS
  <2>1. Now = Fresh /\ disk = <<>> /\ flaws = {}
    BY DEF Init, Now, Fresh, Memory
  <2>2. \A n : Replay(disk, n) = [ok |-> TRUE, mem |-> Fresh]
    BY <2>1, ReplayEmpty DEF Empty
  <2>3. Agree(Fresh, Fresh, flaws = {})
    BY FreshType, AgreeSelf DEF MemoryInv
  <2>4. SameAnyTime(disk)
    BY <2>2 DEF SameAnyTime
  <2>5. Recovers(Now, disk, flaws = {})
    <3>1. \A n : Replay(disk, n).ok /\ Replay(disk, n).mem = Now
      BY <2>1, <2>2
    <3>2. Agree(Now, Now, flaws = {})
      BY <2>1, <2>3
    <3> QED BY <3>1, <3>2 DEF Recovers
  <2> QED BY <2>4, <2>5, TypeInit DEF AgreeInv
<1>2. AgreeInv => ReplayAgrees
  <2> SUFFICES ASSUME AgreeInv, up, flaws \subseteq {"unsaved"}, ~Expired
               PROVE  Replay(disk, now).ok /\ View(Replay(disk, now).mem) = View(Now)
    BY DEF ReplayAgrees
  <2>1. now \in Nat /\ Recovers(Now, disk, flaws = {}) /\ disk \in Seq(Logged)
    BY BranchAssumption DEF AgreeInv, TypeInv
  <2>2. Fits(disk, now)
    <3> SUFFICES ASSUME NEW i \in DOMAIN disk, disk[i].kind = "MIGRATE"
                 PROVE  now <= disk[i].num
      BY DEF Fits
    <3>1. disk[i].num \in Nat
      <4>1. disk[i] \in Transition
        BY <2>1 DEF Logged
      <4> QED BY <4>1 DEF Transition
    <3>2. ~(disk[i].num < now)
      BY DEF Expired
    <3> QED BY <2>1, <3>1, <3>2
  <2>3. Replay(disk, now).ok /\ Agree(Now, Replay(disk, now).mem, flaws = {})
    BY <2>1, <2>2 DEF Recovers
  <2> QED BY <2>3, AgreeView
<1> QED BY <1>1, <1>2, AgreeStep, PTL DEF Spec

\* A restart shows nothing new: with those exceptions the process comes up
\* again, at the same heads, stewards, ids, counts and tiers.
RestartRecovers ==
    [][Restart /\ up /\ flaws \subseteq {"unsaved"} /\ ~Expired =>
          up' /\ View(Now') = View(Now)]_vars

\* NewStateWithPersister rebuilds what the last process had, step for step of
\* the specification (persistence.go, NewStateWithPersister in group.go).
THEOREM RestartCorrect == Spec => RestartRecovers
<1>1. TypeInv /\ ReplayAgrees /\ [Next]_vars =>
        (Restart /\ up /\ flaws \subseteq {"unsaved"} /\ ~Expired =>
            up' /\ View(Now') = View(Now))
  <2> SUFFICES ASSUME TypeInv, ReplayAgrees, Restart, up, flaws \subseteq {"unsaved"}, ~Expired
               PROVE  up' /\ View(Now') = View(Now)
    OBVIOUS
  <2> DEFINE r == Replay(disk, now)
  <2>1. r.ok /\ View(r.mem) = View(Now)
    BY DEF ReplayAgrees
  <2>2. up' = r.ok /\ (r.ok => Becomes(r.mem))
    BY DEF Restart
  <2>3. IsMemory(r.mem)
    BY BranchAssumption DEF TypeInv, MemoryInv
  <2> HIDE DEF r
  <2>4. Now' = r.mem
    BY <2>1, <2>2, <2>3, Becoming
  <2> QED BY <2>1, <2>2, <2>4
<1>2. Spec => []TypeInv
  BY TypeInit, TypeStep, PTL DEF Spec
<1> QED BY <1>1, <1>2, ReplayCorrect, PTL DEF Spec, RestartRecovers

=============================================================================
