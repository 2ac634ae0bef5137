------------------------------- MODULE Orders -------------------------------
(***************************************************************************)
(* Ticket sales of the product layer: PurchaseTicket and RefundOrder of    *)
(* internal/product/service.go, the atomic operations of product.Store     *)
(* they call, the payment provider behind them and the Stripe webhook that *)
(* calls the same store (internal/payment/webhook.go).                     *)
(*                                                                         *)
(* The store's operations each run under Store.mu and are one step; the    *)
(* two service calls talk to the provider first and to the store second,   *)
(* and anything may happen between the two.  One ticket type is modelled:  *)
(* operations on different tickets do not touch each other's state.        *)
(***************************************************************************)
EXTENDS Integers, FiniteSets, FiniteSetsExt

CONSTANTS
    Order,      \* order ids; newID never repeats one
    Capacity,   \* Ticket.Capacity, 0 for unlimited
    Quantity,   \* quantities attendees ask for
    Price,      \* Ticket.Price.Amount
    Partial,    \* amounts organizers refund partially
    MaxReturned \* bound of the model: seats an order gives back

ASSUME OrdersAssumption ==
    /\ IsFiniteSet(Order) /\ Capacity \in Nat
    /\ Quantity \subseteq Nat \ {0} /\ Price \in Nat \ {0}
    /\ Partial \subseteq Nat \ {0} /\ MaxReturned \in Nat

Status == {"NONE", "PENDING", "COMPLETED", "FAILED", "REFUNDED",
           "PARTIALLY_REFUNDED", "DISPUTED"}

Webhook == {"completed", "expired", "failed", "disputed", "refunded"}

VARIABLES
    sold,      \* Ticket.Sold
    status,    \* Order.Status, "NONE" before the order exists
    quantity,  \* the quantity asked for
    refunded,  \* Order.RefundedAmount
    buying,    \* PurchaseTicket calls between the provider and the store
    refunding, \* RefundOrder calls between the provider and the store
    session,   \* provider: the checkout session of an order
    charge,    \* provider: the amount the session asks the attendee for
    paidBack,  \* provider: the amount refunded on the charge
    events,    \* provider: webhook events sent so far
    handled,   \* provider: events the endpoint acknowledged
    returned,  \* history: how often the order gave a seat back
    orderly    \* history: only orderly steps so far (see Next)

store    == <<sold, status, refunded, returned>>
provider == <<session, charge, paidBack, events, handled>>
vars     == <<store, quantity, buying, refunding, provider, orderly>>

AmountPaid(o) == Price * quantity[o]

-----------------------------------------------------------------------------
(* product.Store, each operation under Store.mu. *)

SetStatus(o, s) == status' = [status EXCEPT ![o] = s]

\* Fault: Sold-- of an unsigned counter without the guard.
GiveBackAlways(o) ==
    /\ sold' = sold - 1
    /\ returned' = [returned EXCEPT ![o] = @ + 1]

\* Sold--, unless it is zero.
GiveBack(o) ==
    /\ sold' = IF sold > 0 THEN sold - 1 ELSE 0
    /\ returned' = [returned EXCEPT ![o] = @ + 1]

KeepSeat == UNCHANGED <<sold, returned>>

\* Fault: the capacity is compared with the seats sold so far.
HasSeatsFor1(q) == Capacity = 0 \/ sold < Capacity

HasSeatsFor(q) == Capacity = 0 \/ sold + q <= Capacity

AtomicPurchaseTicket(o) ==
    IF HasSeatsFor(quantity[o])
    THEN /\ sold' = sold + quantity[o]
         /\ SetStatus(o, "PENDING")
         /\ UNCHANGED <<refunded, returned>>
    ELSE UNCHANGED store

\* AtomicRefundOrder: an amount of 0 is a full refund; partial refunds add up
\* to a full one.
Refunded(o, amount) == IF amount = 0 THEN AmountPaid(o) ELSE refunded[o] + amount

\* Fault: an order that was refunded is refunded again.
AtomicRefundOrderAgain(o, amount) ==
    /\ refunded' = [refunded EXCEPT ![o] = Refunded(o, amount)]
    /\ IF Refunded(o, amount) >= AmountPaid(o)
       THEN SetStatus(o, "REFUNDED") /\ GiveBack(o)
       ELSE SetStatus(o, "PARTIALLY_REFUNDED") /\ KeepSeat

\* Fault: the status goes by the amount of this refund alone.
AtomicRefundOrderByAmount(o, amount) ==
    /\ status[o] # "NONE"
    /\ refunded' = [refunded EXCEPT ![o] = Refunded(o, amount)]
    /\ IF amount = 0 THEN SetStatus(o, "REFUNDED") /\ GiveBack(o)
       ELSE SetStatus(o, "PARTIALLY_REFUNDED") /\ KeepSeat

AtomicRefundOrder(o, amount) ==
    IF status[o] \in {"NONE", "REFUNDED"} THEN UNCHANGED store
    ELSE /\ refunded' = [refunded EXCEPT ![o] = Refunded(o, amount)]
         /\ IF Refunded(o, amount) >= AmountPaid(o)
            THEN SetStatus(o, "REFUNDED") /\ GiveBack(o)
            ELSE SetStatus(o, "PARTIALLY_REFUNDED") /\ KeepSeat

AtomicCompleteOrder(o) ==
    /\ IF status[o] = "NONE" THEN UNCHANGED status ELSE SetStatus(o, "COMPLETED")
    /\ UNCHANGED <<sold, refunded, returned>>

AtomicMarkOrderFailed(o) ==
    IF status[o] = "PENDING"
    THEN SetStatus(o, "FAILED") /\ GiveBack(o) /\ UNCHANGED refunded
    ELSE UNCHANGED store

AtomicMarkOrderDisputed(o) ==
    /\ IF status[o] = "NONE" THEN UNCHANGED status ELSE SetStatus(o, "DISPUTED")
    /\ UNCHANGED <<sold, refunded, returned>>

-----------------------------------------------------------------------------
(* PurchaseTicket. *)

\* The provider will send the event, with the order's id in it.
Emit(o, e) == events' = events \cup {<<o, e>>}

\* The provider opens a checkout session; the line item's unit amount is the
\* total and is multiplied by the quantity again.
CreateCheckoutSession(o, q) ==
    /\ session[o] = "none" /\ o \notin buying
    /\ quantity' = [quantity EXCEPT ![o] = q]
    /\ session' = [session EXCEPT ![o] = "open"]
    /\ charge' = [charge EXCEPT ![o] = (Price * q) * q]
    /\ buying' = buying \cup {o}
    /\ UNCHANGED <<store, refunding, paidBack, events, handled>>

Purchase(o) ==
    /\ o \in buying
    /\ AtomicPurchaseTicket(o)
    /\ buying' = buying \ {o}
    /\ UNCHANGED <<quantity, refunding, provider>>

(* RefundOrder: the provider refunds whatever the order's status is; it      *)
(* refuses to pay back more than is left of the charge, and reports every    *)
(* refund, partial ones too.  Of two refunds of one order and one amount the *)
(* second begins when the first has ended.                                   *)
Refundable(o, amount) ==
    /\ status[o] # "NONE" /\ session[o] = "paid"
    /\ paidBack[o] < charge[o]
    /\ paidBack[o] + amount <= charge[o]

RefundPayment(o, amount) ==
    /\ <<o, amount>> \notin refunding
    /\ Refundable(o, amount)
    /\ paidBack' = [paidBack EXCEPT ![o] = IF amount = 0 THEN charge[o]
                                           ELSE @ + amount]
    /\ refunding' = refunding \cup {<<o, amount>>}
    /\ Emit(o, "refunded")
    /\ UNCHANGED <<store, quantity, buying, session, charge, handled>>

FinishRefund(o, amount) ==
    /\ <<o, amount>> \in refunding
    /\ AtomicRefundOrder(o, amount)
    /\ refunding' = refunding \ {<<o, amount>>}
    /\ UNCHANGED <<quantity, buying, provider>>

-----------------------------------------------------------------------------
(* The attendee and the provider.  The attendee has the checkout URL once     *)
(* the purchase returned.                                                     *)

\* The attendee pays.
Pay(o) ==
    /\ session[o] = "open" /\ status[o] # "NONE"
    /\ session' = [session EXCEPT ![o] = "paid"]
    /\ Emit(o, "completed")
    /\ UNCHANGED <<store, quantity, buying, refunding, charge, paidBack, handled>>

\* The session runs out.
Expire(o) ==
    /\ session[o] = "open"
    /\ session' = [session EXCEPT ![o] = "expired"]
    /\ Emit(o, "expired")
    /\ UNCHANGED <<store, quantity, buying, refunding, charge, paidBack, handled>>

\* A card is declined; the session stays open and the attendee may try again.
Decline(o) ==
    /\ session[o] = "open" /\ status[o] # "NONE"
    /\ Emit(o, "failed")
    /\ UNCHANGED <<store, quantity, buying, refunding, session, charge, paidBack,
                   handled>>

Dispute(o) ==
    /\ session[o] = "paid"
    /\ Emit(o, "disputed")
    /\ UNCHANGED <<store, quantity, buying, refunding, session, charge, paidBack,
                   handled>>

\* The charge is refunded in full from the provider's own dashboard.
RefundAtProvider(o) ==
    /\ session[o] = "paid" /\ paidBack[o] < charge[o]
    /\ paidBack' = [paidBack EXCEPT ![o] = charge[o]]
    /\ Emit(o, "refunded")
    /\ UNCHANGED <<store, quantity, buying, refunding, session, charge, handled>>

\* WebhookHandler.dispatch: events arrive in any order and any number of
\* times; all of them are acknowledged, unknown orders too.
HandleEvent(o, e) ==
    /\ <<o, e>> \in events
    /\ CASE e = "completed"             -> AtomicCompleteOrder(o)
         [] e \in {"expired", "failed"} -> AtomicMarkOrderFailed(o)
         [] e = "disputed"              -> AtomicMarkOrderDisputed(o)
         [] e = "refunded"              -> AtomicRefundOrder(o, 0)
    /\ handled' = handled \cup {<<o, e>>}
    /\ UNCHANGED <<quantity, buying, refunding, session, charge, paidBack, events>>

-----------------------------------------------------------------------------
Init ==
    /\ sold = 0
    /\ status = [o \in Order |-> "NONE"]
    /\ quantity = [o \in Order |-> 0]
    /\ refunded = [o \in Order |-> 0]
    /\ buying = {} /\ refunding = {}
    /\ session = [o \in Order |-> "none"]
    /\ charge = [o \in Order |-> 0]
    /\ paidBack = [o \in Order |-> 0]
    /\ events = {} /\ handled = {}
    /\ returned = [o \in Order |-> 0]
    /\ orderly = TRUE

Buying(o) == (\E q \in Quantity : CreateCheckoutSession(o, q)) \/ Purchase(o)

Keeps(o) == status[o] \in {"COMPLETED", "PARTIALLY_REFUNDED"}

\* A step is orderly when a granted order is for one ticket, refunds are asked
\* of completed orders only, no card is declined and no charge disputed, and
\* the provider reports an event once, a refund when it is full.
Next ==
    \E o \in Order :
        /\ returned[o] < MaxReturned
        /\ \/ /\ Buying(o)
              /\ orderly' = (orderly /\ (o \in buying => sold' <= sold + 1))
           \/ /\ Pay(o) \/ Expire(o) \/ \E a \in Partial \cup {0} : FinishRefund(o, a)
              /\ UNCHANGED orderly
           \/ /\ Decline(o) \/ Dispute(o)
              /\ orderly' = FALSE
           \/ /\ RefundAtProvider(o) \/ \E a \in Partial \cup {0} : RefundPayment(o, a)
              /\ orderly' = (orderly /\ Keeps(o))
           \/ \E e \in Webhook :
              /\ HandleEvent(o, e)
              /\ orderly' = (orderly /\ <<o, e>> \notin handled
                                     /\ (e = "refunded" => paidBack[o] = charge[o]))

Spec == Init /\ [][Next]_vars

-----------------------------------------------------------------------------
TypeOK ==
    /\ sold \in Nat
    /\ status \in [Order -> Status]
    /\ quantity \in [Order -> Quantity \cup {0}]
    /\ refunded \in [Order -> Nat]
    /\ buying \subseteq Order
    /\ refunding \subseteq Order \X (Partial \cup {0})
    /\ session \in [Order -> {"none", "open", "paid", "expired"}]
    /\ charge \in [Order -> Nat]
    /\ paidBack \in [Order -> Nat]
    /\ events \subseteq Order \X Webhook
    /\ handled \subseteq events
    /\ returned \in [Order -> Nat]
    /\ orderly \in BOOLEAN

\* specs/FederatedMeetupProduct.speckdl: "sold count cannot exceed capacity",
\* for concurrent purchases, refunds and webhooks in any order.
SoldWithinCapacity == Capacity > 0 => sold <= Capacity

\* A refunded order stays refunded: a partial refund that was in flight, and
\* the webhook's report of either, do not bring it back, while steps are
\* orderly (AtomicRefundOrder, store.go:418).
RefundSticks ==
    [][orderly' => \A o \in Order : status[o] = "REFUNDED" => status'[o] = "REFUNDED"]_vars

\* Every refund the store records is one the provider has paid out.
Backed == \A o \in Order : refunded[o] <= paidBack[o]

\* It is while steps are orderly, although the two are updated apart, partial
\* refunds overlap full ones and the webhook reports the same refund again
\* (RefundOrder, service.go:571-585).
RefundsBacked == orderly => Backed

\* The seat counter is the seats of the orders that still hold theirs.
Holding == {o \in Order : status[o] = "PENDING" \/ Keeps(o)}
SeatsCounted == sold = MapThenSumSet(LAMBDA o : quantity[o], Holding)

\* It is while steps are orderly, when an order that holds a seat holds one,
\* through every interleaving of purchases, refunds in flight and webhooks
\* (store.go:366-519).
SeatsMatch ==
    orderly => (\A o \in Holding : quantity[o] = 1) /\ sold = Cardinality(Holding)

-----------------------------------------------------------------------------
(* Statements of the repository that the code does not keep. *)

\* AtomicCompleteOrder: "transitions an order from PENDING to COMPLETED".
CompletesPendingOnly ==
    [][\A o \in Order :
          status'[o] = "COMPLETED" /\ status[o] # "COMPLETED"
             => status[o] = "PENDING"]_vars

\* RefundOrder: refunding an already-refunded order does not decrement "the
\* sold count a second time".
SeatReturnedOnce == \A o \in Order : returned[o] <= 1

\* CheckoutParams.AmountCents: the "total amount in cents (price * quantity)".
ChargedTheTotal ==
    \A o \in Order : session[o] # "none" => charge[o] = Price * quantity[o]
=============================================================================
