-------------------------------- MODULE Hlc --------------------------------
(***************************************************************************)
(* Hybrid logical clock values and the two pure operations on them, Tick   *)
(* and Observe of internal/hlc/hlc.go.                                     *)
(*                                                                         *)
(* A value is the pair the 18 bytes encode: the wall component (big-endian *)
(* nanoseconds, which dominates) and the uint16 counter.  The wall is a    *)
(* uint64 of nanoseconds; it does not overflow before the year 2554 and is *)
(* a natural number here.                                                  *)
(***************************************************************************)
EXTENDS Integers

CONSTANTS
    MaxCounter,  \* the largest counter, 0xFFFF
    Window       \* PartitionWindow

ASSUME HlcAssumption == MaxCounter \in Nat \ {0} /\ Window \in Nat

HLC  == [wall : Nat, counter : 0 .. MaxCounter]
Zero == [wall |-> 0, counter |-> 0]

\* bytes.Compare on the big-endian encoding.
Before(a, b) == a.wall < b.wall \/ (a.wall = b.wall /\ a.counter < b.counter)
NotAfter(a, b) == a = b \/ Before(a, b)

\* Fault: the carry comes one too late.
CarriesLate(c) == c > MaxCounter

\* The next value at wall w after counter c; a full counter carries into the
\* wall component.
Carries(c) == c = MaxCounter
Bump(w, c) == IF Carries(c) THEN [wall |-> w + 1, counter |-> 0]
                            ELSE [wall |-> w, counter |-> c + 1]

\* Tick: the clock stood still or went back; it advanced a little with a
\* counter pending (H-3); it advanced.
Pending(last, now) == last.counter > 0 /\ now - last.wall <= Window

\* Fault: the wall component follows the clock even when it went back.
TickFollowsClock(last, now) ==
    IF Pending(last, now) THEN Bump(now, last.counter)
    ELSE [wall |-> now, counter |-> 0]

Tick(last, now) ==
    IF last.wall >= now THEN Bump(last.wall, last.counter)
    ELSE IF Pending(last, now) THEN Bump(now, last.counter)
    ELSE [wall |-> now, counter |-> 0]

Larger(x, y) == IF x > y THEN x ELSE y

\* Fault: a remote wall ahead of ours is adopted with a fresh counter.
ObserveFreshCounter(last, remote, now) ==
    LET m == Larger(Larger(now, last.wall), remote.wall)
    IN  IF remote.wall = m /\ last.wall = m
        THEN Bump(m, Larger(last.counter, remote.counter))
        ELSE IF last.wall = m THEN Bump(m, last.counter)
        ELSE [wall |-> m, counter |-> 0]

Observe(last, remote, now) ==
    LET m == Larger(Larger(now, last.wall), remote.wall)
    IN  IF remote.wall = m /\ last.wall = m
        THEN Bump(m, Larger(last.counter, remote.counter))
        ELSE IF remote.wall = m THEN Bump(m, remote.counter)
        ELSE IF last.wall = m THEN Bump(m, last.counter)
        ELSE [wall |-> m, counter |-> 0]
=============================================================================
