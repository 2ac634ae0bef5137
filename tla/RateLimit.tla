----------------------------- MODULE RateLimit -----------------------------
(***************************************************************************)
(* The token bucket of internal/ratelimit/ratelimit.go as operators on a   *)
(* bucket [level, last].  The code counts tokens as floats and time in     *)
(* nanoseconds; here a token is Token units, a tick of the clock earns     *)
(* Rate of them and a bucket holds at most Burst.                          *)
(***************************************************************************)
EXTENDS Integers

CONSTANTS
    Token,   \* units one transition costs
    Rate,    \* units earned in one tick
    Burst    \* units a bucket holds

ASSUME RateAssumption == Token \in Nat \ {0} /\ Rate \in Nat \ {0} /\ Burst \in Nat

Bucket == [level : 0..Burst, last : Int]

NewBucket(n) == [level |-> Burst, last |-> n]

\* Fault: the reference follows the clock back as well.
RefilledEitherWay(b, n) ==
    LET earned == IF n > b.last THEN b.level + (n - b.last) * Rate ELSE b.level
    IN  [level |-> IF earned > Burst THEN Burst ELSE earned, last |-> n]

\* The lazy refill at clock n: a clock that stands still or went back earns
\* nothing and does not move the reference.
Refilled(b, n) ==
    IF n <= b.last THEN b
    ELSE LET earned == b.level + (n - b.last) * Rate
         IN  [level |-> IF earned > Burst THEN Burst ELSE earned, last |-> n]

HasToken(b, n) == Refilled(b, n).level >= Token

\* The bucket after Allow, whatever it answered.
Allowed(b, n) ==
    IF HasToken(b, n) THEN [Refilled(b, n) EXCEPT !.level = @ - Token]
    ELSE Refilled(b, n)

\* Fault: what the bucket already holds is not subtracted.
RetryInFull(b, n) == IF HasToken(b, n) THEN 0 ELSE Token \div Rate

\* retryAfter, in whole ticks: the conversion to a Duration truncates.
RetryIn(b, n) ==
    IF HasToken(b, n) THEN 0 ELSE (Token - Refilled(b, n).level) \div Rate
=============================================================================
