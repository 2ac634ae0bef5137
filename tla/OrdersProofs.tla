---------------------------- MODULE OrdersProofs ----------------------------
(***************************************************************************)
(* Proofs about Orders: type correctness and the capacity of a ticket on   *)
(* every run; and, while steps are orderly, that the seat counter is the   *)
(* seats held, that what the store records as refunded the provider has    *)
(* paid out, and that a refunded order stays refunded.                     *)
(***************************************************************************)
EXTENDS Orders, FiniteSetTheorems, TLAPS

USE DEF Status, Webhook

-----------------------------------------------------------------------------
(* Type correctness and the capacity. *)

\* The store's operations keep its types.
LEMMA StoreType ==
    ASSUME TypeOK, NEW o \in Order
    PROVE  LET StoreOK == /\ sold' \in Nat /\ status' \in [Order -> Status]
                          /\ refunded' \in [Order -> Nat]
                          /\ returned' \in [Order -> Nat]
           IN  /\ AtomicPurchaseTicket(o) => StoreOK
               /\ \A a \in Partial \cup {0} : AtomicRefundOrder(o, a) => StoreOK
               /\ AtomicCompleteOrder(o) => StoreOK
               /\ AtomicMarkOrderFailed(o) => StoreOK
               /\ AtomicMarkOrderDisputed(o) => StoreOK
<1> USE OrdersAssumption DEF OrdersAssumption
<1>1. /\ sold \in Nat /\ quantity[o] \in Nat /\ status[o] \in Status
      /\ refunded[o] \in Nat /\ returned[o] \in Nat
      /\ status \in [Order -> Status] /\ refunded \in [Order -> Nat]
      /\ returned \in [Order -> Nat]
  <2>1. \A q \in Quantity \cup {0} : q \in Nat
    OBVIOUS
  <2>2. quantity[o] \in Quantity \cup {0}
    BY DEF TypeOK
  <2>3. quantity[o] \in Nat
    BY <2>1, <2>2
  <2>4. QED
    BY <2>3 DEF TypeOK
<1>2. Price * quantity[o] \in Nat
  BY <1>1
<1>3. \A a \in Partial \cup {0} : Refunded(o, a) \in Nat
  BY <1>1, <1>2 DEF Refunded, AmountPaid
<1>4. GiveBack(o) => sold' \in Nat /\ returned' \in [Order -> Nat]
  BY <1>1 DEF GiveBack
<1>5. KeepSeat => sold' \in Nat /\ returned' \in [Order -> Nat]
  BY <1>1 DEF KeepSeat
<1>6. \A s \in Status : SetStatus(o, s) => status' \in [Order -> Status]
  BY <1>1 DEF SetStatus
<1>7. AtomicPurchaseTicket(o) => /\ sold' \in Nat /\ status' \in [Order -> Status]
                                 /\ refunded' \in [Order -> Nat]
                                 /\ returned' \in [Order -> Nat]
  BY <1>1, <1>6 DEF AtomicPurchaseTicket, store
<1>8. ASSUME NEW a \in Partial \cup {0}, AtomicRefundOrder(o, a)
      PROVE  /\ sold' \in Nat /\ status' \in [Order -> Status]
             /\ refunded' \in [Order -> Nat]
             /\ returned' \in [Order -> Nat]
  <2>1. CASE status[o] \in {"NONE", "REFUNDED"}
    BY <1>1, <1>8, <2>1 DEF AtomicRefundOrder, store
  <2>2. CASE status[o] \notin {"NONE", "REFUNDED"}
    <3>1. refunded' \in [Order -> Nat]
      BY <1>1, <1>3, <1>8, <2>2 DEF AtomicRefundOrder
    <3>2. \/ SetStatus(o, "REFUNDED") /\ GiveBack(o)
          \/ SetStatus(o, "PARTIALLY_REFUNDED") /\ KeepSeat
      BY <1>8, <2>2 DEF AtomicRefundOrder
    <3>3. QED
      BY <1>4, <1>5, <1>6, <3>1, <3>2
  <2>3. QED
    BY <2>1, <2>2
<1>9. AtomicCompleteOrder(o) => /\ sold' \in Nat /\ status' \in [Order -> Status]
                                /\ refunded' \in [Order -> Nat]
                                /\ returned' \in [Order -> Nat]
  BY <1>1, <1>6 DEF AtomicCompleteOrder
<1>10. AtomicMarkOrderFailed(o) => /\ sold' \in Nat /\ status' \in [Order -> Status]
                                   /\ refunded' \in [Order -> Nat]
                                   /\ returned' \in [Order -> Nat]
  BY <1>1, <1>4, <1>6 DEF AtomicMarkOrderFailed, store
<1>11. AtomicMarkOrderDisputed(o) => /\ sold' \in Nat /\ status' \in [Order -> Status]
                                     /\ refunded' \in [Order -> Nat]
                                     /\ returned' \in [Order -> Nat]
  BY <1>1, <1>6 DEF AtomicMarkOrderDisputed
<1>12. QED
  BY <1>7, <1>8, <1>9, <1>10, <1>11

\* The provider's events are events it may send.
LEMMA EmitType ==
    ASSUME TypeOK, NEW o \in Order, NEW e \in Webhook, Emit(o, e)
    PROVE  events' \subseteq Order \X Webhook /\ events \subseteq events'
BY DEF TypeOK, Emit

\* The types hold initially and every step keeps them.
LEMMA TypeStep == TypeOK /\ [Next]_vars => TypeOK'
<1> SUFFICES ASSUME TypeOK, [Next]_vars PROVE TypeOK'
  OBVIOUS
<1> USE OrdersAssumption DEF OrdersAssumption
<1>0. ASSUME NEW o \in Order, Next PROVE orderly' \in BOOLEAN
  BY <1>0 DEF Next, TypeOK
<1>0a. Next => orderly' \in BOOLEAN
  BY DEF Next, TypeOK
<1>1. ASSUME NEW o \in Order, NEW q \in Quantity, Next, CreateCheckoutSession(o, q)
      PROVE  TypeOK'
  <2>1. (Price * q) * q \in Nat
    OBVIOUS
  <2>2. QED
    BY <1>0a, <1>1, <2>1 DEF CreateCheckoutSession, TypeOK, store
<1>2. ASSUME NEW o \in Order, Next, Purchase(o) PROVE TypeOK'
  BY <1>0a, <1>2, StoreType DEF Purchase, TypeOK, provider
<1>3. ASSUME NEW o \in Order, Next, Pay(o) PROVE TypeOK'
  BY <1>0a, <1>3, EmitType DEF Pay, TypeOK, store
<1>4. ASSUME NEW o \in Order, Next, Expire(o) PROVE TypeOK'
  BY <1>0a, <1>4, EmitType DEF Expire, TypeOK, store
<1>5. ASSUME NEW o \in Order, NEW a \in Partial \cup {0}, Next, FinishRefund(o, a)
      PROVE  TypeOK'
  BY <1>0a, <1>5, StoreType DEF FinishRefund, TypeOK, provider
<1>6. ASSUME NEW o \in Order, Next, Decline(o) PROVE TypeOK'
  BY <1>0a, <1>6, EmitType DEF Decline, TypeOK, store
<1>7. ASSUME NEW o \in Order, Next, Dispute(o) PROVE TypeOK'
  BY <1>0a, <1>7, EmitType DEF Dispute, TypeOK, store
<1>8. ASSUME NEW o \in Order, Next, RefundAtProvider(o) PROVE TypeOK'
  BY <1>0a, <1>8, EmitType DEF RefundAtProvider, TypeOK, store
<1>9. ASSUME NEW o \in Order, NEW a \in Partial \cup {0}, Next, RefundPayment(o, a)
      PROVE  TypeOK'
  BY <1>0a, <1>9, EmitType DEF RefundPayment, TypeOK, store
<1>10. ASSUME NEW o \in Order, NEW e \in Webhook, Next, HandleEvent(o, e)
       PROVE  TypeOK'
  <2>1. /\ sold' \in Nat /\ status' \in [Order -> Status]
        /\ refunded' \in [Order -> Nat] /\ returned' \in [Order -> Nat]
    BY <1>10, StoreType DEF HandleEvent
  <2>2. QED
    BY <1>0a, <1>10, <2>1 DEF HandleEvent, TypeOK
<1>11. CASE UNCHANGED vars
  BY <1>11 DEF vars, store, provider, TypeOK
<1>12. QED
  BY <1>1, <1>2, <1>3, <1>4, <1>5, <1>6, <1>7, <1>8, <1>9, <1>10, <1>11 DEF Next, Buying

\* Type correctness: the store, the provider and the calls between them hold
\* orders and amounts, and the seat counter, unsigned in the code, never goes
\* below zero (AtomicRefundOrder, AtomicMarkOrderFailed).
THEOREM TypeCorrect == Spec => []TypeOK
<1>1. Init => TypeOK
  BY DEF Init, TypeOK
<1>2. QED
  BY <1>1, TypeStep, PTL DEF Spec

-----------------------------------------------------------------------------
(* The capacity: only a purchase takes seats, and it looks for them under the *)
(* store's mutex.                                                             *)

\* The store's operations other than a purchase take no seat.
LEMMA SeatsOnlyReturned ==
    ASSUME TypeOK, NEW o \in Order
    PROVE  /\ \A a \in Partial \cup {0} : AtomicRefundOrder(o, a) => sold' <= sold
           /\ AtomicCompleteOrder(o) => sold' <= sold
           /\ AtomicMarkOrderFailed(o) => sold' <= sold
           /\ AtomicMarkOrderDisputed(o) => sold' <= sold
<1>1. sold \in Nat
  BY DEF TypeOK
<1>2. GiveBack(o) => sold' <= sold
  BY <1>1 DEF GiveBack
<1>3. KeepSeat => sold' <= sold
  BY <1>1 DEF KeepSeat
<1>4. \A a \in Partial \cup {0} : AtomicRefundOrder(o, a) => sold' <= sold
  BY <1>1, <1>2, <1>3 DEF AtomicRefundOrder, store
<1>5. AtomicMarkOrderFailed(o) => sold' <= sold
  BY <1>1, <1>2 DEF AtomicMarkOrderFailed, store
<1>6. QED
  BY <1>1, <1>4, <1>5 DEF AtomicCompleteOrder, AtomicMarkOrderDisputed

\* A ticket is never oversold: the sold count stays within the capacity, for
\* purchases, refunds and webhooks in any order (AtomicPurchaseTicket).
THEOREM NeverOversold == Spec => []SoldWithinCapacity
<1>1. Init => SoldWithinCapacity
  BY OrdersAssumption DEF OrdersAssumption, Init, SoldWithinCapacity
<1>2. TypeOK /\ TypeOK' /\ SoldWithinCapacity /\ [Next]_vars => SoldWithinCapacity'
  <2> SUFFICES ASSUME TypeOK, TypeOK', SoldWithinCapacity, [Next]_vars, Capacity > 0
               PROVE  sold' <= Capacity
    BY DEF SoldWithinCapacity
  <2>1. sold \in Nat /\ sold' \in Nat /\ sold <= Capacity /\ Capacity \in Nat
    BY OrdersAssumption DEF OrdersAssumption, TypeOK, SoldWithinCapacity
  <2>2. ASSUME sold' <= sold PROVE sold' <= Capacity
    BY <2>1, <2>2
  <2>3. ASSUME NEW o \in Order, Purchase(o) PROVE sold' <= Capacity
    BY <2>1, <2>3 DEF Purchase, AtomicPurchaseTicket, HasSeatsFor, store
  <2>4. ASSUME NEW o \in Order, NEW a \in Partial \cup {0}, FinishRefund(o, a)
        PROVE  sold' <= Capacity
    BY <2>2, <2>4, SeatsOnlyReturned DEF FinishRefund
  <2>5. ASSUME NEW o \in Order, NEW e \in Webhook, HandleEvent(o, e)
        PROVE  sold' <= Capacity
    BY <2>2, <2>5, SeatsOnlyReturned DEF HandleEvent
  <2>6. ASSUME UNCHANGED sold PROVE sold' <= Capacity
    BY <2>1, <2>6
  <2>7. ASSUME NEW o \in Order,
               \/ \E q \in Quantity : CreateCheckoutSession(o, q)
               \/ Pay(o) \/ Expire(o) \/ Decline(o) \/ Dispute(o)
               \/ RefundAtProvider(o)
               \/ \E a \in Partial \cup {0} : RefundPayment(o, a)
        PROVE  UNCHANGED sold
    BY <2>7 DEF CreateCheckoutSession, Pay, Expire, Decline, Dispute,
                RefundAtProvider, RefundPayment, store
  <2>8. CASE UNCHANGED vars
    BY <2>6, <2>8 DEF vars, store
  <2>9. QED
    BY <2>3, <2>4, <2>5, <2>6, <2>7, <2>8 DEF Next, Buying
<1>3. QED
  BY <1>1, <1>2, TypeCorrect, PTL DEF Spec

-----------------------------------------------------------------------------
(* The inductive invariant of orderly runs. *)

\* Amounts as a set with one element per unit of money.
Units(A) == UNION {{a} \X (1 .. a) : a \in A}

\* The partial refunds between the provider and the store.
Ongoing(o) == {a \in Partial : <<o, a>> \in refunding}
InFlight(o) == Units(Ongoing(o))

\* Where an order stands at the provider and in the store.
SessionInv(o) ==
    /\ session[o] = "none" => status[o] = "NONE" /\ o \notin buying /\ charge[o] = 0
    /\ session[o] # "none" => quantity[o] \in Quantity
                              /\ charge[o] = (Price * quantity[o]) * quantity[o]
    /\ status[o] # "NONE" => o \notin buying /\ quantity[o] = 1
    /\ status[o] = "NONE" => session[o] # "paid"
    /\ status[o] = "FAILED" => session[o] = "expired"
    /\ status[o] # "DISPUTED"
    /\ Keeps(o) \/ status[o] = "REFUNDED" =>
          session[o] = "paid" /\ <<o, "completed">> \in handled

\* What the provider has reported, and may report again.
EventInv(o) ==
    /\ <<o, "completed">> \in events => session[o] = "paid"
    /\ <<o, "expired">> \in events => session[o] = "expired"
    /\ <<o, "failed">> \notin events
    /\ <<o, "disputed">> \notin events
    /\ <<o, "refunded">> \in events => Keeps(o) \/ status[o] = "REFUNDED"

\* Where the refunded money is: recorded, or on its way to the store.
RefundInv(o) ==
    /\ paidBack[o] <= charge[o]
    /\ IsFiniteSet(InFlight(o))
    /\ Keeps(o) => refunded[o] + Cardinality(InFlight(o)) <= paidBack[o]
    /\ status[o] = "REFUNDED" => refunded[o] <= paidBack[o]
    /\ <<o, 0>> \in refunding => paidBack[o] = charge[o]
    /\ ~Keeps(o) /\ status[o] # "REFUNDED" =>
          refunded[o] = 0 /\ \A a \in Partial \cup {0} : <<o, a>> \notin refunding

OrderInv(o) == SessionInv(o) /\ EventInv(o) /\ RefundInv(o)

SeatInv == IsFiniteSet(Holding) /\ sold = Cardinality(Holding)

IInv == orderly => SeatInv /\ \A o \in Order : OrderInv(o)

\* One more amount is that many more units.
LEMMA UnitsAdd ==
    ASSUME NEW A \in SUBSET (Nat \ {0}), IsFiniteSet(Units(A)),
           NEW x \in Nat \ {0}, x \notin A
    PROVE  /\ IsFiniteSet(Units(A \cup {x}))
           /\ Cardinality(Units(A \cup {x})) = Cardinality(Units(A)) + x
<1> DEFINE new == {x} \X (1 .. x)
<1>1. IsFiniteSet(new) /\ Cardinality(new) = x
  <2>1. IsFiniteSet({x}) /\ Cardinality({x}) = 1
    BY FS_Singleton
  <2>2. IsFiniteSet(1 .. x) /\ Cardinality(1 .. x) = x
    BY FS_Interval
  <2>3. /\ IsFiniteSet(new)
        /\ Cardinality(new) = Cardinality({x}) * Cardinality(1 .. x)
    BY <2>1, <2>2, FS_Product
  <2>4. Cardinality(new) = 1 * x
    BY <2>1, <2>2, <2>3, Zenon
  <2>5. QED
    BY <2>3, <2>4
<1>2. Units(A \cup {x}) = Units(A) \cup new
  BY DEF Units
<1>3. Units(A) \cap new = {}
  BY DEF Units
<1>4. /\ IsFiniteSet(Units(A) \cup new)
      /\ Cardinality(Units(A) \cup new)
            = Cardinality(Units(A)) + Cardinality(new) - Cardinality({})
  <2> HIDE DEF new
  <2>1. QED
    BY <1>1, <1>3, FS_Union
<1>5. Cardinality(Units(A)) \in Nat /\ Cardinality({}) = 0
  BY FS_CardinalityType, FS_EmptySet
<1>6. QED
  <2> HIDE DEF new
  <2>1. Cardinality(Units(A \cup {x})) = Cardinality(Units(A)) + x - 0
    BY <1>1, <1>2, <1>4, <1>5, Zenon
  <2>2. \A n \in Nat : n + x - 0 = n + x
    OBVIOUS
  <2>3. QED
    BY <1>2, <1>4, <1>5, <2>1, <2>2, Zenon

LEMMA UnitsRemove ==
    ASSUME NEW A \in SUBSET (Nat \ {0}), IsFiniteSet(Units(A)), NEW x \in A
    PROVE  /\ IsFiniteSet(Units(A \ {x}))
           /\ Cardinality(Units(A)) = Cardinality(Units(A \ {x})) + x
<1> DEFINE B == A \ {x}
<1>1. Units(B) \subseteq Units(A)
  BY DEF Units
<1>2. IsFiniteSet(Units(B))
  BY <1>1, FS_Subset
<1>3. B \in SUBSET (Nat \ {0}) /\ x \in Nat \ {0} /\ x \notin B /\ B \cup {x} = A
  OBVIOUS
<1>4. QED
  <2> HIDE DEF B
  <2>1. Cardinality(Units(B \cup {x})) = Cardinality(Units(B)) + x
    BY <1>2, <1>3, UnitsAdd
  <2>2. Cardinality(Units(A)) = Cardinality(Units(B)) + x
    BY <1>3, <2>1
  <2>3. QED
    BY <1>2, <2>2 DEF B

\* What a step leaves alone of an order.
Untouched(p) ==
    /\ status'[p] = status[p] /\ quantity'[p] = quantity[p]
    /\ refunded'[p] = refunded[p] /\ session'[p] = session[p]
    /\ charge'[p] = charge[p] /\ paidBack'[p] = paidBack[p]
    /\ p \in buying' <=> p \in buying
    /\ \A a \in Partial \cup {0} : <<p, a>> \in refunding' <=> <<p, a>> \in refunding
    /\ \A e \in Webhook : /\ <<p, e>> \in events' <=> <<p, e>> \in events
                          /\ <<p, e>> \in handled => <<p, e>> \in handled'

\* An order that is left alone keeps its invariant.
LEMMA UntouchedInv ==
    ASSUME NEW p \in Order, OrderInv(p), Untouched(p)
    PROVE  OrderInv(p)'
<1>1. Ongoing(p)' = Ongoing(p)
  BY DEF Untouched, Ongoing
<1>2. InFlight(p)' = InFlight(p)
  BY <1>1 DEF InFlight, Units
<1>3. SessionInv(p)'
  BY DEF OrderInv, SessionInv, Untouched, Keeps
<1>4. EventInv(p)'
  BY DEF OrderInv, EventInv, Untouched, Keeps
<1>5. RefundInv(p)'
  BY <1>2 DEF OrderInv, RefundInv, Untouched, Keeps
<1>6. QED
  BY <1>3, <1>4, <1>5 DEF OrderInv

\* The steps taken for an order while the run stays orderly.
OrderlyStep(o) ==
    \/ \E q \in Quantity : CreateCheckoutSession(o, q)
    \/ Purchase(o) /\ sold' <= sold + 1
    \/ Pay(o)
    \/ Expire(o)
    \/ \E a \in Partial \cup {0} : FinishRefund(o, a)
    \/ RefundAtProvider(o) /\ Keeps(o)
    \/ \E a \in Partial \cup {0} : RefundPayment(o, a) /\ Keeps(o)
    \/ \E e \in Webhook : /\ HandleEvent(o, e) /\ <<o, e>> \notin handled
                          /\ e = "refunded" => paidBack[o] = charge[o]

LEMMA NextOrderly ==
    ASSUME TypeOK, orderly', Next
    PROVE  orderly /\ \E o \in Order : OrderlyStep(o)
<1>1. PICK o \in Order :
        \/ /\ Buying(o)
           /\ orderly' = (orderly /\ (o \in buying => sold' <= sold + 1))
        \/ /\ Pay(o) \/ Expire(o) \/ \E a \in Partial \cup {0} : FinishRefund(o, a)
           /\ UNCHANGED orderly
        \/ /\ RefundAtProvider(o) \/ \E a \in Partial \cup {0} : RefundPayment(o, a)
           /\ orderly' = (orderly /\ Keeps(o))
        \/ \E e \in Webhook :
           /\ HandleEvent(o, e)
           /\ orderly' = (orderly /\ <<o, e>> \notin handled
                                  /\ (e = "refunded" => paidBack[o] = charge[o]))
  BY Zenon DEF Next
<1>2. orderly /\ OrderlyStep(o)
  <2>1. CASE /\ Buying(o)
             /\ orderly' = (orderly /\ (o \in buying => sold' <= sold + 1))
    <3>1. orderly /\ (o \in buying => sold' <= sold + 1)
      BY <2>1, Zenon
    <3>2. Purchase(o) => o \in buying
      BY DEF Purchase
    <3>3. QED
      BY <2>1, <3>1, <3>2, Zenon DEF Buying, OrderlyStep
  <2>2. CASE /\ Pay(o) \/ Expire(o) \/ \E a \in Partial \cup {0} : FinishRefund(o, a)
             /\ UNCHANGED orderly
    BY <2>2, Zenon DEF OrderlyStep
  <2>3. CASE /\ RefundAtProvider(o) \/ \E a \in Partial \cup {0} : RefundPayment(o, a)
             /\ orderly' = (orderly /\ Keeps(o))
    BY <2>3, Zenon DEF OrderlyStep
  <2>4. CASE \E e \in Webhook :
             /\ HandleEvent(o, e)
             /\ orderly' = (orderly /\ <<o, e>> \notin handled
                                    /\ (e = "refunded" => paidBack[o] = charge[o]))
    BY <2>4, Zenon DEF OrderlyStep
  <2>5. QED
    BY <1>1, <2>1, <2>2, <2>3, <2>4
<1>3. QED
  BY <1>2

\* The store's operations work on one order.
StoreOp(o) ==
    \/ AtomicPurchaseTicket(o)
    \/ \E a \in Partial \cup {0} : AtomicRefundOrder(o, a)
    \/ AtomicCompleteOrder(o)
    \/ AtomicMarkOrderFailed(o)
    \/ AtomicMarkOrderDisputed(o)

LEMMA StoreOpOthers ==
    ASSUME TypeOK, NEW o \in Order, NEW p \in Order, p # o, StoreOp(o)
    PROVE  status'[p] = status[p] /\ refunded'[p] = refunded[p]
<1>1. status \in [Order -> Status] /\ refunded \in [Order -> Nat]
  BY DEF TypeOK
<1>2. \A s \in Status : SetStatus(o, s) => status'[p] = status[p]
  BY <1>1 DEF SetStatus
<1>3. AtomicPurchaseTicket(o) => status'[p] = status[p] /\ refunded'[p] = refunded[p]
  BY <1>2 DEF AtomicPurchaseTicket, store
<1>4. ASSUME NEW a \in Partial \cup {0}, AtomicRefundOrder(o, a)
      PROVE  status'[p] = status[p] /\ refunded'[p] = refunded[p]
  BY <1>1, <1>2, <1>4 DEF AtomicRefundOrder, store
<1>5. QED
  BY <1>2, <1>3, <1>4
     DEF StoreOp, AtomicCompleteOrder, AtomicMarkOrderFailed,
         AtomicMarkOrderDisputed, store

\* A step taken for one order leaves the others alone.
LEMMA OthersUntouched ==
    ASSUME TypeOK, NEW o \in Order, NEW p \in Order, p # o, OrderlyStep(o)
    PROVE  Untouched(p)
<1>1. /\ status \in [Order -> Status] /\ refunded \in [Order -> Nat]
      /\ quantity \in [Order -> Quantity \cup {0}]
      /\ session \in [Order -> {"none", "open", "paid", "expired"}]
      /\ charge \in [Order -> Nat] /\ paidBack \in [Order -> Nat]
  BY DEF TypeOK
<1>2. ASSUME NEW q \in Quantity, CreateCheckoutSession(o, q) PROVE Untouched(p)
  BY <1>1, <1>2 DEF CreateCheckoutSession, Untouched, store
<1>3. ASSUME Purchase(o) PROVE Untouched(p)
  <2>1. status'[p] = status[p] /\ refunded'[p] = refunded[p]
    BY <1>3, StoreOpOthers DEF Purchase, StoreOp
  <2>2. QED
    BY <1>3, <2>1 DEF Purchase, Untouched, provider
<1>4. ASSUME Pay(o) \/ Expire(o) PROVE Untouched(p)
  BY <1>1, <1>4 DEF Pay, Expire, Emit, Untouched, store
<1>5. ASSUME NEW a \in Partial \cup {0}, FinishRefund(o, a) PROVE Untouched(p)
  <2>1. status'[p] = status[p] /\ refunded'[p] = refunded[p]
    BY <1>5, StoreOpOthers DEF FinishRefund, StoreOp
  <2>2. QED
    BY <1>5, <2>1 DEF FinishRefund, Untouched, provider
<1>6. ASSUME RefundAtProvider(o) PROVE Untouched(p)
  BY <1>1, <1>6 DEF RefundAtProvider, Emit, Untouched, store
<1>7. ASSUME NEW a \in Partial \cup {0}, RefundPayment(o, a) PROVE Untouched(p)
  BY <1>1, <1>7 DEF RefundPayment, Emit, Untouched, store
<1>8. ASSUME NEW e \in Webhook, HandleEvent(o, e) PROVE Untouched(p)
  <2>1. StoreOp(o)
    BY <1>8 DEF HandleEvent, StoreOp
  <2>2. status'[p] = status[p] /\ refunded'[p] = refunded[p]
    BY <2>1, StoreOpOthers
  <2>3. QED
    BY <1>8, <2>2 DEF HandleEvent, Untouched
<1>9. QED
  BY <1>2, <1>3, <1>4, <1>5, <1>6, <1>7, <1>8 DEF OrderlyStep

\* An order holds its seat from the purchase to its failure or full refund.
Holds(o) == status[o] = "PENDING" \/ Keeps(o)

\* The seats held follow one order's.
LEMMA SeatStep ==
    ASSUME TypeOK, SeatInv, NEW o \in Order,
           \A p \in Order \ {o} : status'[p] = status[p],
           \/ (Holds(o) <=> Holds(o)') /\ sold' = sold
           \/ ~Holds(o) /\ Holds(o)' /\ sold' = sold + 1
           \/ Holds(o) /\ ~Holds(o)' /\ sold' = (IF sold > 0 THEN sold - 1 ELSE 0)
    PROVE  SeatInv'
<1>1. Holding = {p \in Order : Holds(p)} /\ Holding' = {p \in Order : Holds(p)'}
  BY DEF Holding, Holds
<1>2. \A p \in Order \ {o} : Holds(p)' <=> Holds(p)
  BY DEF Holds, Keeps
<1>3. IsFiniteSet(Holding) /\ sold = Cardinality(Holding) /\ Cardinality(Holding) \in Nat
  BY FS_CardinalityType DEF SeatInv
<1>4. CASE (Holds(o) <=> Holds(o)') /\ sold' = sold
  <2>1. Holding' = Holding
    BY <1>1, <1>2, <1>4
  <2>2. QED
    BY <1>3, <1>4, <2>1 DEF SeatInv
<1>5. CASE ~Holds(o) /\ Holds(o)' /\ sold' = sold + 1
  <2>1. Holding' = Holding \cup {o} /\ o \notin Holding
    BY <1>1, <1>2, <1>5
  <2>2. IsFiniteSet(Holding') /\ Cardinality(Holding') = Cardinality(Holding) + 1
    BY <1>3, <2>1, FS_AddElement
  <2>3. QED
    BY <1>3, <1>5, <2>2 DEF SeatInv
<1>6. CASE Holds(o) /\ ~Holds(o)' /\ sold' = (IF sold > 0 THEN sold - 1 ELSE 0)
  <2>1. Holding' = Holding \ {o} /\ o \in Holding
    BY <1>1, <1>2, <1>6
  <2>2. IsFiniteSet(Holding') /\ Cardinality(Holding') = Cardinality(Holding) - 1
    BY <1>3, <2>1, FS_RemoveElement
  <2>3. Cardinality(Holding) > 0
    BY <1>3, <2>1, FS_EmptySet
  <2>4. QED
    BY <1>3, <1>6, <2>2, <2>3 DEF SeatInv
<1>7. QED
  BY <1>4, <1>5, <1>6

\* The values of an order's variables.
LEMMA Values ==
    ASSUME TypeOK, NEW o \in Order
    PROVE  /\ sold \in Nat /\ status[o] \in Status /\ refunded[o] \in Nat
           /\ quantity[o] \in Nat
           /\ session[o] \in {"none", "open", "paid", "expired"}
           /\ charge[o] \in Nat /\ paidBack[o] \in Nat
           /\ Price \in Nat \ {0} /\ Ongoing(o) \in SUBSET (Nat \ {0})
<1> USE OrdersAssumption DEF OrdersAssumption
<1>1. \A q \in Quantity \cup {0} : q \in Nat
  OBVIOUS
<1>2. quantity[o] \in Quantity \cup {0}
  BY DEF TypeOK
<1>3. quantity[o] \in Nat
  BY <1>1, <1>2
<1>4. QED
  BY <1>3 DEF TypeOK, Ongoing

\* The units in flight do not change unless a refund starts or ends.
LEMMA SameInFlight ==
    ASSUME NEW o, UNCHANGED refunding
    PROVE  Ongoing(o)' = Ongoing(o) /\ InFlight(o)' = InFlight(o)
BY DEF Ongoing, InFlight, Units

\* PurchaseTicket opens a session.
LEMMA CreateStep ==
    ASSUME TypeOK, NEW o \in Order, OrderInv(o), SeatInv,
           NEW q \in Quantity, CreateCheckoutSession(o, q),
           \A p \in Order \ {o} : Untouched(p)
    PROVE  OrderInv(o)' /\ SeatInv'
<1>1. /\ quantity'[o] = q /\ charge'[o] = (Price * q) * q
      /\ session[o] = "none" /\ session'[o] = "open" /\ o \notin buying
      /\ UNCHANGED <<store, refunding, paidBack, events, handled>>
  BY DEF CreateCheckoutSession, TypeOK
<1>2. status[o] = "NONE" /\ charge[o] = 0 /\ status'[o] = "NONE"
  BY <1>1 DEF OrderInv, SessionInv, store
<1>3. q \in Nat /\ (Price * q) * q \in Nat
  BY OrdersAssumption DEF OrdersAssumption
<1>4. SessionInv(o)'
  BY <1>1, <1>2 DEF SessionInv, OrderInv, Keeps
<1>5. EventInv(o)'
  BY <1>1, <1>2 DEF EventInv, OrderInv, Keeps
<1>6. RefundInv(o)'
  <2>1. paidBack'[o] <= charge'[o]
    BY <1>1, <1>2, <1>3, Values DEF OrderInv, RefundInv
  <2>2. IsFiniteSet(InFlight(o)')
    BY <1>1, SameInFlight DEF OrderInv, RefundInv
  <2>3. refunded'[o] = 0 /\ \A a \in Partial \cup {0} : <<o, a>> \notin refunding'
    BY <1>1, <1>2 DEF OrderInv, RefundInv, Keeps, store
  <2>4. QED
    BY <1>2, <2>1, <2>2, <2>3 DEF RefundInv, Keeps
<1>7. SeatInv'
  BY <1>1 DEF SeatInv, Holding, Keeps, store
<1>8. QED
  BY <1>4, <1>5, <1>6, <1>7 DEF OrderInv

\* The store grants the seats or refuses them.
LEMMA PurchaseStep ==
    ASSUME TypeOK, NEW o \in Order, OrderInv(o), SeatInv,
           Purchase(o), sold' <= sold + 1,
           \A p \in Order \ {o} : Untouched(p)
    PROVE  OrderInv(o)' /\ SeatInv'
<1>1. /\ o \in buying /\ o \notin buying'
      /\ UNCHANGED <<quantity, refunding, provider>>
      /\ AtomicPurchaseTicket(o)
  BY DEF Purchase
<1>2. /\ status[o] = "NONE" /\ session[o] # "none" /\ session[o] # "paid"
      /\ quantity[o] \in Quantity
  BY <1>1 DEF OrderInv, SessionInv
<1>3. quantity[o] \in Nat \ {0}
  <2>1. \A q \in Quantity : q \in Nat \ {0}
    BY OrdersAssumption DEF OrdersAssumption
  <2>2. QED
    BY <1>2, <2>1
<1>4. \/ UNCHANGED store
      \/ /\ sold' = sold + 1 /\ quantity[o] = 1
         /\ status'[o] = "PENDING" /\ UNCHANGED refunded
  <2>1. CASE HasSeatsFor(quantity[o])
    <3>1. sold' = sold + quantity[o] /\ SetStatus(o, "PENDING") /\ UNCHANGED refunded
      BY <1>1, <2>1 DEF AtomicPurchaseTicket
    <3>2. quantity[o] = 1
      BY <1>3, <3>1, Values
    <3>3. status'[o] = "PENDING"
      BY <3>1 DEF SetStatus, TypeOK
    <3>4. QED
      BY <3>1, <3>2, <3>3
  <2>2. CASE ~HasSeatsFor(quantity[o])
    BY <1>1, <2>2 DEF AtomicPurchaseTicket
  <2>3. QED
    BY <2>1, <2>2
<1>5. status'[o] \in {"NONE", "PENDING"} /\ UNCHANGED refunded
  BY <1>2, <1>4 DEF store
<1>6. status'[o] = "PENDING" => quantity'[o] = 1
  BY <1>1, <1>2, <1>4 DEF store
<1>7. SessionInv(o)'
  BY <1>1, <1>2, <1>5, <1>6 DEF SessionInv, OrderInv, Keeps, provider
<1>8. EventInv(o)'
  BY <1>1, <1>2, <1>5 DEF EventInv, OrderInv, Keeps, provider
<1>9. RefundInv(o)'
  BY <1>1, <1>2, <1>5, SameInFlight DEF RefundInv, OrderInv, Keeps, provider
<1>10. SeatInv'
  <2>1. \A p \in Order \ {o} : status'[p] = status[p]
    BY DEF Untouched
  <2>2. ~Holds(o)
    BY <1>2 DEF Holds, Keeps
  <2>3. CASE UNCHANGED store
    BY <2>3 DEF SeatInv, Holding, Keeps, store
  <2>4. CASE sold' = sold + 1 /\ status'[o] = "PENDING"
    <3>1. Holds(o)'
      BY <2>4 DEF Holds
    <3>2. QED
      BY <2>1, <2>2, <2>4, <3>1, SeatStep
  <2>5. QED
    BY <1>4, <2>3, <2>4
<1>11. QED
  BY <1>7, <1>8, <1>9, <1>10 DEF OrderInv

\* The attendee pays, or the session runs out.
LEMMA SessionStep ==
    ASSUME TypeOK, NEW o \in Order, OrderInv(o), SeatInv, Pay(o) \/ Expire(o)
    PROVE  OrderInv(o)' /\ SeatInv'
<1>1. /\ session[o] = "open"
      /\ UNCHANGED <<store, quantity, buying, refunding, charge, paidBack, handled>>
  BY DEF Pay, Expire
<1>2. \/ session'[o] = "paid" /\ status[o] # "NONE" /\ events' = events \cup {<<o, "completed">>}
      \/ session'[o] = "expired" /\ events' = events \cup {<<o, "expired">>}
  BY DEF Pay, Expire, Emit, TypeOK
<1>3. ~Keeps(o) /\ status[o] # "REFUNDED" /\ status[o] # "FAILED"
  BY <1>1 DEF OrderInv, SessionInv
<1>4. SessionInv(o)'
  BY <1>1, <1>2, <1>3 DEF SessionInv, OrderInv, Keeps, store
<1>5. EventInv(o)'
  BY <1>1, <1>2, <1>3 DEF EventInv, OrderInv, Keeps, store
<1>6. RefundInv(o)'
  BY <1>1, SameInFlight DEF RefundInv, OrderInv, Keeps, store
<1>7. SeatInv'
  BY <1>1 DEF SeatInv, Holding, Keeps, store
<1>8. QED
  BY <1>4, <1>5, <1>6, <1>7 DEF OrderInv

\* What an order whose refunds are recorded was charged.
LEMMA ChargedOnce ==
    ASSUME TypeOK, NEW o \in Order, OrderInv(o), Keeps(o) \/ status[o] = "REFUNDED"
    PROVE  /\ session[o] = "paid" /\ quantity[o] = 1
           /\ charge[o] = Price /\ AmountPaid(o) = Price
<1>1. session[o] = "paid" /\ quantity[o] = 1
  BY DEF OrderInv, SessionInv, Keeps
<1>2. charge[o] = (Price * 1) * 1 /\ AmountPaid(o) = Price * 1
  BY <1>1 DEF OrderInv, SessionInv, AmountPaid
<1>3. QED
  BY <1>1, <1>2, Values

\* The organizer refunds the charge on the provider's own pages.
LEMMA RefundAtProviderStep ==
    ASSUME TypeOK, NEW o \in Order, OrderInv(o), SeatInv,
           RefundAtProvider(o), Keeps(o)
    PROVE  OrderInv(o)' /\ SeatInv'
<1>1. /\ session[o] = "paid" /\ paidBack[o] < charge[o] /\ paidBack'[o] = charge[o]
      /\ events' = events \cup {<<o, "refunded">>}
      /\ UNCHANGED <<store, quantity, buying, refunding, session, charge, handled>>
  BY DEF RefundAtProvider, Emit, TypeOK
<1>2. SessionInv(o)'
  BY <1>1 DEF SessionInv, OrderInv, Keeps, store
<1>3. EventInv(o)'
  BY <1>1 DEF EventInv, OrderInv, Keeps, store
<1>4. RefundInv(o)'
  <2>1. IsFiniteSet(InFlight(o)) /\ Cardinality(InFlight(o)) \in Nat
    BY FS_CardinalityType DEF OrderInv, RefundInv
  <2>2. refunded[o] + Cardinality(InFlight(o)) <= charge[o]
    BY <1>1, <2>1, Values DEF OrderInv, RefundInv
  <2>3. QED
    BY <1>1, <2>1, <2>2, SameInFlight, Values DEF RefundInv, Keeps, store
<1>5. SeatInv'
  BY <1>1 DEF SeatInv, Holding, Keeps, store
<1>6. QED
  BY <1>2, <1>3, <1>4, <1>5 DEF OrderInv

\* RefundOrder has the provider pay back, all of the charge or a part of it.
LEMMA RefundPaymentStep ==
    ASSUME TypeOK, NEW o \in Order, OrderInv(o), SeatInv,
           NEW a \in Partial \cup {0}, RefundPayment(o, a), Keeps(o)
    PROVE  OrderInv(o)' /\ SeatInv'
<1> USE OrdersAssumption DEF OrdersAssumption
<1>1. /\ session[o] = "paid" /\ paidBack[o] < charge[o]
      /\ paidBack[o] + a <= charge[o] /\ <<o, a>> \notin refunding
      /\ paidBack'[o] = (IF a = 0 THEN charge[o] ELSE paidBack[o] + a)
      /\ refunding' = refunding \cup {<<o, a>>}
      /\ events' = events \cup {<<o, "refunded">>}
      /\ UNCHANGED <<store, quantity, buying, session, charge, handled>>
  BY DEF RefundPayment, Refundable, Emit, TypeOK
<1>2. SessionInv(o)'
  BY <1>1 DEF SessionInv, OrderInv, Keeps, store
<1>3. EventInv(o)'
  BY <1>1 DEF EventInv, OrderInv, Keeps, store
<1>4. IsFiniteSet(InFlight(o)) /\ Cardinality(InFlight(o)) \in Nat
  BY FS_CardinalityType DEF OrderInv, RefundInv
<1>5. /\ IsFiniteSet(InFlight(o)')
      /\ Cardinality(InFlight(o)') = Cardinality(InFlight(o)) + a
  <2>1. CASE a = 0
    <3>1. Ongoing(o)' = Ongoing(o)
      BY <1>1, <2>1 DEF Ongoing
    <3>2. InFlight(o)' = InFlight(o)
      BY <3>1 DEF InFlight, Units
    <3>3. QED
      BY <1>4, <2>1, <3>2
  <2>2. CASE a # 0
    <3>1. Ongoing(o)' = Ongoing(o) \cup {a} /\ a \notin Ongoing(o)
      BY <1>1, <2>2 DEF Ongoing
    <3>2. InFlight(o)' = Units(Ongoing(o) \cup {a})
      BY <3>1 DEF InFlight, Units
    <3>3. a \in Nat \ {0} /\ Ongoing(o) \in SUBSET (Nat \ {0})
      BY <2>2, Values
    <3>4. IsFiniteSet(Units(Ongoing(o)))
      BY <1>4 DEF InFlight
    <3>5. QED
      BY <3>1, <3>2, <3>3, <3>4, UnitsAdd DEF InFlight
  <2>3. QED
    BY <2>1, <2>2
<1>6. RefundInv(o)'
  <2>1. a \in Nat /\ refunded[o] + Cardinality(InFlight(o)) <= paidBack[o]
    BY DEF OrderInv, RefundInv
  <2>2. paidBack'[o] <= charge'[o]
    BY <1>1, <2>1, Values
  <2>3. refunded'[o] + Cardinality(InFlight(o)') <= paidBack'[o]
    BY <1>1, <1>4, <1>5, <2>1, Values DEF store
  <2>4. <<o, 0>> \in refunding' => paidBack'[o] = charge'[o]
    BY <1>1, Values DEF OrderInv, RefundInv
  <2>5. Keeps(o)' /\ status'[o] # "REFUNDED"
    BY <1>1 DEF Keeps, store
  <2>6. QED
    BY <1>5, <2>2, <2>3, <2>4, <2>5 DEF RefundInv
<1>7. SeatInv'
  BY <1>1 DEF SeatInv, Holding, Keeps, store
<1>8. QED
  BY <1>2, <1>3, <1>6, <1>7 DEF OrderInv

\* AtomicRefundOrder on an order that holds its seat: it records the amount,
\* and returns the seat when all is refunded.
LEMMA RecordRefund ==
    ASSUME TypeOK, NEW o \in Order, OrderInv(o), SeatInv, Keeps(o),
           NEW a \in Partial \cup {0}, AtomicRefundOrder(o, a),
           \A p \in Order \ {o} : status'[p] = status[p]
    PROVE  /\ refunded'[o] = (IF a = 0 THEN Price ELSE refunded[o] + a)
           /\ \/ status'[o] = "REFUNDED"
              \/ status'[o] = "PARTIALLY_REFUNDED" /\ a # 0
           /\ SeatInv'
<1>1. AmountPaid(o) = Price /\ Price \in Nat
  BY ChargedOnce, Values
<1>2. status[o] \notin {"NONE", "REFUNDED"} /\ Holds(o)
  BY DEF Keeps, Holds
<1>3. /\ refunded'[o] = Refunded(o, a)
      /\ \/ status'[o] = "REFUNDED" /\ GiveBack(o)
         \/ status'[o] = "PARTIALLY_REFUNDED" /\ KeepSeat /\ ~(Refunded(o, a) >= AmountPaid(o))
  BY <1>2 DEF AtomicRefundOrder, SetStatus, TypeOK
<1>4. Refunded(o, a) = IF a = 0 THEN Price ELSE refunded[o] + a
  BY <1>1 DEF Refunded
<1>5. a = 0 => Refunded(o, a) >= AmountPaid(o)
  BY <1>1, <1>4
<1>6. SeatInv'
  <2>1. CASE status'[o] = "REFUNDED" /\ GiveBack(o)
    <3>1. ~Holds(o)'
      BY <2>1 DEF Holds, Keeps
    <3>2. QED
      BY <1>2, <2>1, <3>1, SeatStep DEF GiveBack
  <2>2. CASE status'[o] = "PARTIALLY_REFUNDED" /\ KeepSeat
    <3>1. Holds(o)'
      BY <2>2 DEF Holds, Keeps
    <3>2. QED
      BY <1>2, <2>2, <3>1, SeatStep DEF KeepSeat
  <2>3. QED
    BY <1>3, <2>1, <2>2
<1>7. QED
  BY <1>3, <1>4, <1>5, <1>6

\* The provider has refunded; the store records it, unless a full refund got
\* there first.
LEMMA FinishRefundStep ==
    ASSUME TypeOK, NEW o \in Order, OrderInv(o), SeatInv,
           NEW a \in Partial \cup {0}, FinishRefund(o, a),
           \A p \in Order \ {o} : Untouched(p)
    PROVE  OrderInv(o)' /\ SeatInv'
<1> USE OrdersAssumption DEF OrdersAssumption
<1>1. /\ <<o, a>> \in refunding /\ refunding' = refunding \ {<<o, a>>}
      /\ AtomicRefundOrder(o, a) /\ UNCHANGED <<quantity, buying, provider>>
  BY DEF FinishRefund
<1>2. Keeps(o) \/ status[o] = "REFUNDED"
  BY <1>1 DEF OrderInv, RefundInv
<1>3. /\ session[o] = "paid" /\ quantity[o] = 1 /\ charge[o] = Price
      /\ o \notin buying /\ <<o, "completed">> \in handled
  BY <1>2, ChargedOnce DEF OrderInv, SessionInv
<1>4. IsFiniteSet(InFlight(o)) /\ Cardinality(InFlight(o)) \in Nat
  BY FS_CardinalityType DEF OrderInv, RefundInv
<1>5. /\ IsFiniteSet(InFlight(o)') /\ Cardinality(InFlight(o)') \in Nat
      /\ Cardinality(InFlight(o)) = Cardinality(InFlight(o)') + a
  <2>1. CASE a = 0
    <3>1. Ongoing(o)' = Ongoing(o)
      BY <1>1, <2>1 DEF Ongoing
    <3>2. InFlight(o)' = InFlight(o)
      BY <3>1 DEF InFlight, Units
    <3>3. QED
      BY <1>4, <2>1, <3>2
  <2>2. CASE a # 0
    <3>1. Ongoing(o)' = Ongoing(o) \ {a} /\ a \in Ongoing(o)
      BY <1>1, <2>2 DEF Ongoing
    <3>2. InFlight(o)' = Units(Ongoing(o) \ {a})
      BY <3>1 DEF InFlight, Units
    <3>3. IsFiniteSet(Units(Ongoing(o))) /\ Ongoing(o) \in SUBSET (Nat \ {0})
      BY <1>4, Values DEF InFlight
    <3>4. /\ IsFiniteSet(Units(Ongoing(o) \ {a}))
          /\ Cardinality(Units(Ongoing(o))) = Cardinality(Units(Ongoing(o) \ {a})) + a
      BY <3>1, <3>3, UnitsRemove
    <3>5. QED
      BY <3>2, <3>4, FS_CardinalityType DEF InFlight
  <2>3. QED
    BY <2>1, <2>2
<1>6. \/ /\ status[o] = "REFUNDED" /\ UNCHANGED store
      \/ /\ Keeps(o)
         /\ refunded'[o] = (IF a = 0 THEN Price ELSE refunded[o] + a)
         /\ \/ status'[o] = "REFUNDED"
            \/ status'[o] = "PARTIALLY_REFUNDED" /\ a # 0
         /\ SeatInv'
  <2>1. CASE status[o] = "REFUNDED"
    BY <1>1, <2>1 DEF AtomicRefundOrder
  <2>2. CASE Keeps(o)
    <3>1. \A p \in Order \ {o} : status'[p] = status[p]
      BY DEF Untouched
    <3>2. QED
      BY <1>1, <2>2, <3>1, RecordRefund
  <2>3. QED
    BY <1>2, <2>1, <2>2
<1>7. Keeps(o)' \/ status'[o] = "REFUNDED"
  BY <1>6 DEF Keeps, store
<1>8. SessionInv(o)'
  BY <1>1, <1>3, <1>7 DEF SessionInv, OrderInv, Keeps, provider
<1>9. EventInv(o)'
  BY <1>1, <1>7 DEF EventInv, OrderInv, provider
<1>10. RefundInv(o)'
  <2>1. paidBack[o] <= charge[o] /\ (<<o, 0>> \in refunding => paidBack[o] = charge[o])
    BY DEF OrderInv, RefundInv
  <2>2. UNCHANGED <<paidBack, charge>>
    BY <1>1 DEF provider
  <2>3. CASE status[o] = "REFUNDED" /\ UNCHANGED store
    BY <1>1, <1>5, <2>1, <2>2, <2>3 DEF OrderInv, RefundInv, Keeps, store
  <2>4. CASE /\ Keeps(o)
             /\ refunded'[o] = (IF a = 0 THEN Price ELSE refunded[o] + a)
             /\ status'[o] = "REFUNDED" \/ (status'[o] = "PARTIALLY_REFUNDED" /\ a # 0)
    <3>1. refunded[o] + Cardinality(InFlight(o)) <= paidBack[o]
      BY <2>4 DEF OrderInv, RefundInv
    <3>2. a = 0 => refunded'[o] <= paidBack'[o]
      BY <1>1, <1>3, <2>1, <2>2, <2>4, Values
    <3>3. a # 0 => refunded'[o] + Cardinality(InFlight(o)') <= paidBack'[o]
      BY <1>4, <1>5, <2>2, <2>4, <3>1, Values
    <3>4. a # 0 => refunded'[o] <= paidBack'[o]
      <4>1. a # 0 => refunded'[o] \in Nat
        BY <2>4, Values
      <4>2. QED
        BY <1>5, <2>2, <3>3, <4>1, Values
    <3>5. Keeps(o)' => a # 0
      BY <2>4 DEF Keeps
    <3>6. QED
      BY <1>1, <1>5, <1>7, <2>1, <2>2, <3>2, <3>3, <3>4, <3>5 DEF RefundInv
  <2>5. QED
    BY <1>6, <2>3, <2>4
<1>11. SeatInv'
  BY <1>6 DEF SeatInv, Holding, Keeps, store
<1>12. QED
  BY <1>8, <1>9, <1>10, <1>11 DEF OrderInv

\* The endpoint handles an event for the first time.
LEMMA HandleEventStep ==
    ASSUME TypeOK, NEW o \in Order, OrderInv(o), SeatInv,
           NEW e \in Webhook, HandleEvent(o, e), <<o, e>> \notin handled,
           e = "refunded" => paidBack[o] = charge[o],
           \A p \in Order \ {o} : Untouched(p)
    PROVE  OrderInv(o)' /\ SeatInv'
<1>1. /\ <<o, e>> \in events /\ handled' = handled \cup {<<o, e>>}
      /\ UNCHANGED <<quantity, buying, refunding, session, charge, paidBack, events>>
  BY DEF HandleEvent
<1>2. \A p \in Order \ {o} : status'[p] = status[p]
  BY DEF Untouched
<1>3. InFlight(o)' = InFlight(o)
  BY <1>1, SameInFlight
<1>4. e \in {"completed", "expired", "refunded"}
  BY <1>1 DEF OrderInv, EventInv
<1>5. CASE e = "completed"
  <2>1. session[o] = "paid" /\ status[o] = "PENDING"
    BY <1>1, <1>5, Values DEF OrderInv, EventInv, SessionInv, Keeps
  <2>2. /\ status'[o] = "COMPLETED" /\ UNCHANGED <<sold, refunded, returned>>
    BY <1>5, <2>1 DEF HandleEvent, AtomicCompleteOrder, SetStatus, TypeOK
  <2>3. SessionInv(o)'
    BY <1>1, <1>5, <2>1, <2>2 DEF SessionInv, OrderInv, Keeps
  <2>4. EventInv(o)'
    BY <1>1, <2>1, <2>2 DEF EventInv, OrderInv, Keeps
  <2>5. RefundInv(o)'
    <3>1. refunded'[o] = 0 /\ Ongoing(o) = {}
      BY <2>1, <2>2 DEF OrderInv, RefundInv, Keeps, Ongoing
    <3>2. InFlight(o) = {}
      BY <3>1 DEF InFlight, Units
    <3>3. Cardinality(InFlight(o)') = 0
      BY <1>3, <3>2, FS_EmptySet
    <3>4. QED
      BY <1>1, <1>3, <2>1, <2>2, <3>1, <3>3, Values DEF OrderInv, RefundInv, Keeps
  <2>6. SeatInv'
    <3>1. Holds(o) /\ Holds(o)'
      BY <2>1, <2>2 DEF Holds, Keeps
    <3>2. QED
      BY <1>2, <2>2, <3>1, SeatStep
  <2>7. QED
    BY <2>3, <2>4, <2>5, <2>6 DEF OrderInv
<1>6. CASE e = "expired"
  <2>1. session[o] = "expired" /\ status[o] \in {"NONE", "PENDING", "FAILED"}
    BY <1>1, <1>6, Values DEF OrderInv, EventInv, SessionInv, Keeps
  <2>2. AtomicMarkOrderFailed(o)
    BY <1>6 DEF HandleEvent
  <2>3. \/ UNCHANGED store
        \/ /\ status[o] = "PENDING" /\ status'[o] = "FAILED"
           /\ GiveBack(o) /\ UNCHANGED refunded
    BY <2>2 DEF AtomicMarkOrderFailed, SetStatus, TypeOK
  <2>4. /\ status'[o] \in {"NONE", "PENDING", "FAILED"} /\ refunded'[o] = refunded[o]
        /\ status'[o] = "NONE" <=> status[o] = "NONE"
    BY <2>1, <2>3 DEF store
  <2>5. SessionInv(o)'
    BY <1>1, <2>1, <2>4 DEF SessionInv, OrderInv, Keeps
  <2>6. EventInv(o)'
    BY <1>1, <2>1, <2>4 DEF EventInv, OrderInv, Keeps
  <2>7. RefundInv(o)'
    BY <1>1, <1>3, <2>1, <2>4 DEF RefundInv, OrderInv, Keeps
  <2>8. SeatInv'
    <3>1. CASE UNCHANGED store
      BY <3>1 DEF SeatInv, Holding, Keeps, store
    <3>2. CASE status[o] = "PENDING" /\ status'[o] = "FAILED" /\ GiveBack(o)
      <4>1. Holds(o) /\ ~Holds(o)'
        BY <3>2 DEF Holds, Keeps
      <4>2. QED
        BY <1>2, <3>2, <4>1, SeatStep DEF GiveBack
    <3>3. QED
      BY <2>3, <3>1, <3>2
  <2>9. QED
    BY <2>5, <2>6, <2>7, <2>8 DEF OrderInv
<1>7. CASE e = "refunded"
  <2>1. Keeps(o) \/ status[o] = "REFUNDED"
    BY <1>1, <1>7 DEF OrderInv, EventInv
  <2>2. /\ session[o] = "paid" /\ quantity[o] = 1 /\ charge[o] = Price
        /\ o \notin buying /\ <<o, "completed">> \in handled /\ paidBack[o] = Price
    BY <1>7, <2>1, ChargedOnce DEF OrderInv, SessionInv
  <2>3. AtomicRefundOrder(o, 0) /\ 0 \in Partial \cup {0}
    BY <1>7 DEF HandleEvent
  <2>4. \/ status[o] = "REFUNDED" /\ UNCHANGED store
        \/ status'[o] = "REFUNDED" /\ refunded'[o] = Price /\ SeatInv'
    <3>1. CASE status[o] = "REFUNDED"
      BY <2>3, <3>1 DEF AtomicRefundOrder
    <3>2. CASE Keeps(o)
      BY <1>2, <2>3, <3>2, RecordRefund
    <3>3. QED
      BY <2>1, <3>1, <3>2
  <2>5. status'[o] = "REFUNDED" /\ refunded'[o] <= Price
    BY <2>2, <2>4, Values DEF OrderInv, RefundInv, store
  <2>6. SessionInv(o)'
    BY <1>1, <2>2, <2>5 DEF SessionInv, OrderInv, Keeps
  <2>7. EventInv(o)'
    BY <1>1, <2>5 DEF EventInv, OrderInv
  <2>8. RefundInv(o)'
    BY <1>1, <1>3, <2>2, <2>5 DEF RefundInv, OrderInv, Keeps
  <2>9. SeatInv'
    BY <2>4 DEF SeatInv, Holding, Keeps, store
  <2>10. QED
    BY <2>6, <2>7, <2>8, <2>9 DEF OrderInv
<1>8. QED
  BY <1>4, <1>5, <1>6, <1>7

\* The invariant holds initially and every orderly step keeps it.
LEMMA InvInit == Init => IInv
<1> SUFFICES ASSUME Init PROVE SeatInv /\ \A o \in Order : OrderInv(o)
  BY DEF IInv
<1>1. SeatInv
  <2>1. Holding = {}
    BY DEF Init, Holding, Keeps
  <2>2. QED
    BY <2>1, FS_EmptySet DEF Init, SeatInv
<1>2. ASSUME NEW o \in Order PROVE OrderInv(o)
  <2>1. Ongoing(o) = {}
    BY DEF Init, Ongoing
  <2>2. InFlight(o) = {}
    BY <2>1 DEF InFlight, Units
  <2>3. IsFiniteSet(InFlight(o))
    BY <2>2, FS_EmptySet
  <2>4. QED
    BY <2>3 DEF Init, OrderInv, SessionInv, EventInv, RefundInv, Keeps
<1>3. QED
  BY <1>1, <1>2

LEMMA InvStep == TypeOK /\ IInv /\ [Next]_vars => IInv'
<1> SUFFICES ASSUME TypeOK, IInv, [Next]_vars, orderly'
             PROVE  SeatInv' /\ \A p \in Order : OrderInv(p)'
  BY DEF IInv
<1>1. CASE UNCHANGED vars
  <2>1. orderly /\ SeatInv /\ \A p \in Order : OrderInv(p)
    BY <1>1 DEF IInv, vars
  <2>2. SeatInv'
    BY <1>1, <2>1 DEF SeatInv, Holding, Keeps, vars, store
  <2>3. ASSUME NEW p \in Order PROVE OrderInv(p)'
    <3>1. Untouched(p)
      BY <1>1 DEF Untouched, vars, store, provider
    <3>2. QED
      BY <2>1, <3>1, UntouchedInv
  <2>4. QED
    BY <2>2, <2>3
<1>2. CASE Next
  <2>1. PICK o \in Order : OrderlyStep(o)
    BY <1>2, NextOrderly
  <2>2. SeatInv /\ OrderInv(o) /\ \A p \in Order : OrderInv(p)
    BY <1>2, NextOrderly DEF IInv
  <2>3. \A p \in Order \ {o} : Untouched(p)
    BY <2>1, OthersUntouched
  <2>4. OrderInv(o)' /\ SeatInv'
    BY <2>1, <2>2, <2>3, CreateStep, PurchaseStep, SessionStep, FinishRefundStep,
       RefundAtProviderStep, RefundPaymentStep, HandleEventStep
       DEF OrderlyStep
  <2>5. \A p \in Order \ {o} : OrderInv(p)'
    BY <2>2, <2>3, UntouchedInv
  <2>6. QED
    BY <2>4, <2>5
<1>3. QED
  BY <1>1, <1>2

LEMMA InvCorrect == Spec => []IInv
BY InvInit, InvStep, TypeCorrect, PTL DEF Spec

-----------------------------------------------------------------------------
\* While steps are orderly the seat counter is the seats of the orders that
\* still hold theirs, through every interleaving of purchases, refunds in
\* flight and webhooks (product.Store, store.go:366-519).
THEOREM SeatsCorrect == Spec => []SeatsMatch
<1>1. TypeOK /\ IInv => SeatsMatch
  <2> SUFFICES ASSUME TypeOK, IInv, orderly
               PROVE  (\A o \in Holding : quantity[o] = 1) /\ sold = Cardinality(Holding)
    BY DEF SeatsMatch
  <2>1. \A o \in Holding : quantity[o] = 1
    BY DEF IInv, Holding, Keeps, OrderInv, SessionInv
  <2>2. QED
    BY <2>1 DEF IInv, SeatInv
<1>2. QED
  BY <1>1, InvCorrect, TypeCorrect, PTL

\* While steps are orderly every refund the store records is one the provider
\* has paid out: a full refund, partial ones in flight and the webhook's report
\* of either never add up to more (RefundOrder, service.go:571-585).
THEOREM RefundsCorrect == Spec => []RefundsBacked
<1>1. TypeOK /\ IInv => RefundsBacked
  <2> SUFFICES ASSUME TypeOK, IInv, orderly, NEW o \in Order
               PROVE  refunded[o] <= paidBack[o]
    BY DEF RefundsBacked, Backed
  <2>1. OrderInv(o)
    BY DEF IInv
  <2>2. CASE Keeps(o)
    <3>1. Cardinality(InFlight(o)) \in Nat
      BY <2>1, FS_CardinalityType DEF OrderInv, RefundInv
    <3>2. QED
      BY <2>1, <2>2, <3>1, Values DEF OrderInv, RefundInv
  <2>3. CASE ~Keeps(o)
    BY <2>1, <2>3, Values DEF OrderInv, RefundInv
  <2>4. QED
    BY <2>2, <2>3
<1>2. QED
  BY <1>1, InvCorrect, TypeCorrect, PTL

\* A refunded order stays refunded, whatever was in flight or is reported
\* later, while steps are orderly (AtomicRefundOrder, AtomicCompleteOrder).
THEOREM RefundedForGood == Spec => RefundSticks
<1>1. TypeOK /\ IInv /\ [Next]_vars =>
        [orderly' => \A o \in Order : status[o] = "REFUNDED" => status'[o] = "REFUNDED"]_vars
  <2> SUFFICES ASSUME TypeOK, IInv, Next, orderly',
                      NEW p \in Order, status[p] = "REFUNDED"
               PROVE  status'[p] = "REFUNDED"
    BY DEF vars
  <2>1. PICK o \in Order : OrderlyStep(o)
    BY NextOrderly
  <2>2. OrderInv(p)
    BY NextOrderly DEF IInv
  <2>3. CASE p # o
    BY <2>1, <2>3, OthersUntouched DEF Untouched
  <2>4. CASE p = o
    <3>1. o \notin buying /\ session[o] = "paid" /\ <<o, "completed">> \in handled
      BY <2>2, <2>4 DEF OrderInv, SessionInv
    <3>2. ASSUME NEW a \in Partial \cup {0}, AtomicRefundOrder(o, a)
          PROVE  UNCHANGED status
      BY <2>4, <3>2 DEF AtomicRefundOrder, store
    <3>3. ASSUME NEW e \in Webhook, HandleEvent(o, e), <<o, e>> \notin handled
          PROVE  UNCHANGED status
      <4>1. e = "refunded" \/ e = "expired"
        BY <2>2, <2>4, <3>1, <3>3 DEF OrderInv, EventInv, HandleEvent
      <4>2. QED
        BY <2>4, <3>2, <3>3, <4>1 DEF HandleEvent, AtomicMarkOrderFailed, store
    <3>4. UNCHANGED status
      BY <2>1, <3>1, <3>2, <3>3
         DEF OrderlyStep, CreateCheckoutSession, Purchase, Pay, Expire,
             FinishRefund, RefundAtProvider, RefundPayment, store
    <3>5. QED
      BY <2>4, <3>4
  <2>5. QED
    BY <2>3, <2>4
<1>2. QED
  BY <1>1, InvCorrect, TypeCorrect, PTL DEF Spec, RefundSticks

=============================================================================
