---------------------------- MODULE PurchaseGroup ----------------------------
(***************************************************************************)
(* Payment and expiry of purchases.  A group is paid by one attempt that   *)
(* holds the reservations of all its orders in a first transaction and     *)
(* settles them in a second one; the requests between the two run side by  *)
(* side and may crash there, which leaves the attempt CREATED until some   *)
(* request finds it again, by its key or as the group's active attempt.    *)
(* Since every request that comes to the second transaction checks the     *)
(* attempt under a lock, an attempt that is CREATED is all it takes for    *)
(* the next step.  The orders of a group can also be paid one by one; that *)
(* is DirectPayment, of which only the effect on order and reservation is  *)
(* repeated here.  The sweep expires orders and groups in the background.  *)
(***************************************************************************)
EXTENDS Checkout

CONSTANTS
  PayKeys,   \* idempotency keys of group payments; an attempt is named by its key
  SoloStores \* the stores whose orders the buyer also tries to pay alone

ASSUME PaymentAssumption ==
  SoloStores \subseteq Stores /\ {"NOBODY", "SOLO"} \cap PayKeys = {}

VARIABLE attempt  \* rows of order_purchase_group_dev_attempts

vars == <<cartVars, checkoutVars, attempt>>

AttemptStatus == {"NONE", "CREATED", "FAILED", "CONFIRMED", "REVIEW_REQUIRED"}
AttemptRow == [status : AttemptStatus, purchase : Purchases \cup {Nothing}]
\* An order with its reservation and the attempt that holds it.
OrderType ==
  [status : OrderStatus,
   reservation : {"NONE", "ACTIVE", "HELD_FOR_REVIEW", "CONSUMED", "RELEASED"},
   holder : PayKeys \cup {"NOBODY", "SOLO"}]

TypeOK ==
  /\ CartTypeOK
  /\ address \in 0 .. AddressBound
  /\ preparation \in [Preparations -> PreparationRow]
  /\ purchase \in [Purchases -> PurchaseRow]
  /\ order \in [Purchases -> [Stores -> OrderType]]
  /\ answered \in [Keys -> Purchases \cup {Nothing}]
  /\ attempt \in [PayKeys -> AttemptRow]

Init ==
  /\ CartInit
  /\ CheckoutInit
  /\ order = [q \in Purchases |-> [s \in Stores |-> NoOrder]]
  /\ attempt = [y \in PayKeys |-> [status |-> "NONE", purchase |-> Nothing]]

ChildrenOf(q) == {s \in Stores : order[q][s].status # "NONE"}
Groups == {q \in Purchases : purchase[q].status \notin {"NONE", "ORDER"}}
AttemptsOf(q, statuses) ==
  {y \in PayKeys : attempt[y].purchase = q /\ attempt[y].status \in statuses}
Active(q) == AttemptsOf(q, {"CREATED", "CONFIRMED", "REVIEW_REQUIRED"})
Unresolved(q) == AttemptsOf(q, {"CREATED", "REVIEW_REQUIRED"})

(***************************************************************************)
(* What the payment workflow does to an order and its reservation.         *)
(***************************************************************************)
\* holdReservationForPayment
Holdable(q, s) ==
  /\ order[q][s].reservation = "ACTIVE" /\ order[q][s].holder = "NOBODY"
  /\ ~purchase[q].due
Held(row, holder) == [row EXCEPT !.holder = holder]

\* consumeReservation, then markPaid
Consumable(row, holder) ==
  /\ row.reservation \in {"ACTIVE", "HELD_FOR_REVIEW"} /\ row.holder = holder
  /\ row.status \in {"PENDING_PAYMENT", "PAYMENT_REVIEW"}
Paid(row) ==
  [row EXCEPT !.status = "PAID", !.reservation = "CONSUMED", !.holder = "NOBODY"]

\* resolveFailedPayment and resolvePaymentFailure, by the time of reservation.
Failed(q, row) ==
  [status |-> IF purchase[q].due THEN "EXPIRED" ELSE "PENDING_PAYMENT",
   reservation |-> IF purchase[q].due THEN "RELEASED" ELSE "ACTIVE", holder |-> "NOBODY"]

\* holdReservationForReview, then markPaymentReview
Reviewable(row, holder) ==
  /\ row.reservation = "ACTIVE" /\ row.holder = holder
  /\ row.status \in {"PENDING_PAYMENT", "EXPIRED", "PAYMENT_REVIEW"}
Reviewed(row) == [row EXCEPT !.status = "PAYMENT_REVIEW", !.reservation = "HELD_FOR_REVIEW"]

(***************************************************************************)
(* Group payment.                                                          *)
(***************************************************************************)
\* The first transaction of payGroupDev, when it makes an attempt: with a key
\* that has one, or while another attempt is active, it changes nothing.
StartPayment(q, y) ==
  /\ q \in Groups
  /\ attempt[y].status = "NONE"
  /\ purchase[q].status \notin {"PAID", "PAYMENT_REVIEW"} /\ ~purchase[q].due
  /\ Active(q) = {}
  /\ \A s \in ChildrenOf(q) : order[q][s].status = "PENDING_PAYMENT" /\ Holdable(q, s)
  /\ attempt' = [attempt EXCEPT ![y] = [status |-> "CREATED", purchase |-> q]]
  /\ order' = [order EXCEPT ![q] =
       [s \in Stores |-> IF s \in ChildrenOf(q) THEN Held(@[s], y) ELSE @[s]]]
  /\ UNCHANGED <<cartVars, address, preparation, purchase, answered>>

\* Mutation of ConfirmPayment: only one order is consumed and paid.
ConfirmOneChild(y) ==
  LET q == attempt[y].purchase IN
  /\ attempt[y].status = "CREATED"
  /\ purchase[q].status = "PENDING_PAYMENT"
  /\ \E s \in ChildrenOf(q) :
       /\ Consumable(order[q][s], y)
       /\ order' = [order EXCEPT ![q][s] = Paid(@)]
  /\ attempt' = [attempt EXCEPT ![y].status = "CONFIRMED"]
  /\ purchase' = [purchase EXCEPT ![q].status = "PAID"]
  /\ UNCHANGED <<cartVars, address, preparation, answered>>

\* The second transaction, success: everything is paid or nothing.
ConfirmPayment(y) ==
  LET q == attempt[y].purchase IN
  /\ attempt[y].status = "CREATED"
  /\ purchase[q].status = "PENDING_PAYMENT"
  /\ \A s \in ChildrenOf(q) :
       order[q][s].status = "PENDING_PAYMENT" /\ Consumable(order[q][s], y)
  /\ order' = [order EXCEPT ![q] =
       [s \in Stores |-> IF s \in ChildrenOf(q) THEN Paid(@[s]) ELSE @[s]]]
  /\ attempt' = [attempt EXCEPT ![y].status = "CONFIRMED"]
  /\ purchase' = [purchase EXCEPT ![q].status = "PAID"]
  /\ UNCHANGED <<cartVars, address, preparation, answered>>

\* #resolveDevFailure
FailPayment(y) ==
  LET q == attempt[y].purchase IN
  /\ attempt[y].status = "CREATED"
  /\ \A s \in ChildrenOf(q) :
       /\ order[q][s].reservation \in {"ACTIVE", "HELD_FOR_REVIEW"}
       /\ order[q][s].holder = y
       /\ order[q][s].status \in {"PENDING_PAYMENT", "PAYMENT_REVIEW"}
  /\ order' = [order EXCEPT ![q] =
       [s \in Stores |-> IF s \in ChildrenOf(q) THEN Failed(q, @[s]) ELSE @[s]]]
  /\ attempt' = [attempt EXCEPT ![y].status = "FAILED"]
  /\ UNCHANGED <<cartVars, address, preparation, purchase, answered>>

\* #moveDevPaymentToReview, for the scenario "pending" and for whatever error
\* the second transaction meets; it does not look at the group's status.
MovePaymentToReview(y) ==
  LET q == attempt[y].purchase IN
  /\ attempt[y].status = "CREATED"
  /\ \A s \in ChildrenOf(q) : Reviewable(order[q][s], y)
  /\ order' = [order EXCEPT ![q] =
       [s \in Stores |-> IF s \in ChildrenOf(q) THEN Reviewed(@[s]) ELSE @[s]]]
  /\ attempt' = [attempt EXCEPT ![y].status = "REVIEW_REQUIRED"]
  /\ purchase' = [purchase EXCEPT ![q].status = "PAYMENT_REVIEW"]
  /\ UNCHANGED <<cartVars, address, preparation, answered>>

(***************************************************************************)
(* Payment of one order alone, in outline.                                 *)
(***************************************************************************)
SoloStep(q, s, row) ==
  /\ order' = [order EXCEPT ![q][s] = row]
  /\ UNCHANGED <<cartVars, address, preparation, purchase, answered, attempt>>

SoloHold(q, s) ==
  /\ order[q][s].status = "PENDING_PAYMENT" /\ Holdable(q, s)
  /\ SoloStep(q, s, Held(order[q][s], "SOLO"))
SoloPay(q, s) ==
  /\ Consumable(order[q][s], "SOLO")
  /\ SoloStep(q, s, Paid(order[q][s]))
SoloFail(q, s) ==
  /\ order[q][s].holder = "SOLO"
  /\ SoloStep(q, s, Failed(q, order[q][s]))
SoloReview(q, s) ==
  /\ Reviewable(order[q][s], "SOLO")
  /\ SoloStep(q, s, Reviewed(order[q][s]))

(***************************************************************************)
(* Time and the sweep.                                                     *)
(***************************************************************************)
\* reservation_expires_at passes, for all orders of the purchase at once.
PassDeadline(q) ==
  /\ q \in Made /\ ~purchase[q].due
  /\ purchase' = [purchase EXCEPT ![q].due = TRUE]
  /\ UNCHANGED <<cartVars, address, preparation, order, answered, attempt>>

\* Mutation of Releasable: a payment's hold is no obstacle.
ReleasableWhileHeld(q, s) == order[q][s].reservation = "ACTIVE" /\ purchase[q].due

\* releaseExpiredReservation
Releasable(q, s) ==
  /\ order[q][s].reservation = "ACTIVE" /\ order[q][s].holder = "NOBODY"
  /\ purchase[q].due

Expired(row) == [row EXCEPT !.status = "EXPIRED", !.reservation = "RELEASED"]
\* A group expires when an order of it has and no attempt is unresolved.
GroupExpires(q) ==
  /\ purchase[q].status = "PENDING_PAYMENT"
  /\ Unresolved(q) = {}
  /\ \E s \in Stores : order'[q][s].status = "EXPIRED"

\* expirePendingOrders: one batch takes the rows that nobody has locked; rows
\* it cannot release stay as they are.
Sweep(rows) ==
  /\ \A r \in rows : order[r[1]][r[2]].status = "PENDING_PAYMENT" /\ Releasable(r[1], r[2])
  /\ order' = [q \in Purchases |-> [s \in Stores |->
       IF <<q, s>> \in rows THEN Expired(order[q][s]) ELSE order[q][s]]]
  /\ purchase' = [q \in Purchases |->
       IF GroupExpires(q) THEN [purchase[q] EXCEPT !.status = "EXPIRED"] ELSE purchase[q]]
  /\ UNCHANGED <<cartVars, address, preparation, answered, attempt>>

Next ==
  \/ CartNext /\ UNCHANGED <<checkoutVars, attempt>>
  \/ CheckoutNext /\ UNCHANGED attempt
  \/ \E q \in Purchases, y \in PayKeys : StartPayment(q, y)
  \/ \E y \in PayKeys : ConfirmPayment(y) \/ FailPayment(y) \/ MovePaymentToReview(y)
  \/ \E q \in Purchases, s \in SoloStores :
       SoloHold(q, s) \/ SoloPay(q, s) \/ SoloFail(q, s) \/ SoloReview(q, s)
  \/ \E q \in Purchases : PassDeadline(q)
  \/ \E rows \in SUBSET (Purchases \X Stores) : Sweep(rows)

Spec == Init /\ [][Next]_vars

(***************************************************************************)
(* Properties.                                                             *)
(***************************************************************************)
\* A cart is bought once, whichever checkouts, preparations and keys race for
\* it: it is CONVERTED exactly when a purchase of it exists, no two purchases
\* share a cart, and a key of one checkout never names two of them.
OnePurchasePerCart ==
  LET cartOf(q) == preparation[purchase[q].preparation].cart IN
  /\ \A c \in Carts : cart[c].status = "CONVERTED" <=> \E q \in Made : cartOf(q) = c
  /\ \A q, r \in Made : q # r =>
       /\ cartOf(q) # cartOf(r)
       /\ KindOf(q) = KindOf(r) => purchase[q].key # purchase[r].key
  /\ \A k \in Keys : answered[k] # Nothing =>
       answered[k] \in Made /\ KindOf(answered[k]) = "ORDER"

\* What is bought is what the cart holds at that moment, at the terms and the
\* address in force: the revision number stands for the whole content of the
\* cart, through changes, merges and replacements of carts in between.
BuysTheCartAsItIs ==
  [][\A q \in Made' \ Made :
       LET p == purchase'[q].preparation
           c == preparation[p].cart
       IN /\ cart[c].status = "ACTIVE"
          /\ \A s \in Stores : preparation[p].items[s] = cart[c].lines[s].quantity
          /\ \A s \in LinesOf(c) : order'[q][s].status = "PENDING_PAYMENT"
                                    /\ preparation[p].terms[s] = terms[s]
          /\ preparation[p].address = address /\ address # 0]_vars

\* The orders module and the inventory module keep one story of an order
\* between them through payments, failures after the deadline and sweeps; and an
\* attempt that is unresolved holds every order of its group, and nothing else
\* is held in its name, so that it can always be settled as a whole.
ReservationMatchesOrder ==
  \A q \in Purchases, s \in Stores :
    LET row == order[q][s] IN
    /\ \A y \in PayKeys : row.holder = y <=> y \in Unresolved(q) /\ s \in ChildrenOf(q)
    /\ row.reservation = CASE row.status = "NONE" -> "NONE"
                           [] row.status = "PENDING_PAYMENT" -> "ACTIVE"
                           [] row.status = "PAYMENT_REVIEW" -> "HELD_FOR_REVIEW"
                           [] row.status = "PAID" -> "CONSUMED"
                           [] row.status = "EXPIRED" -> "RELEASED"
    /\ row.status \in {"NONE", "PAID", "EXPIRED"} => row.holder = "NOBODY"
    /\ row.status = "PAYMENT_REVIEW" => row.holder # "NOBODY"

\* A group is settled as a whole: it is PAID exactly when its one active attempt
\* is confirmed, and then all its orders are paid; it is under review exactly
\* when that attempt is, and then all its orders are; and it has expired only
\* with an order of it and with no attempt that could still settle it.
GroupIsWhole ==
  \A q \in Groups :
    LET all(status) == \A s \in ChildrenOf(q) : order[q][s].status = status IN
    /\ ChildrenOf(q) # {}
    /\ purchase[q].status = "PAID" <=> AttemptsOf(q, {"CONFIRMED"}) # {}
    /\ purchase[q].status = "PAID" => all("PAID")
    /\ purchase[q].status = "PAYMENT_REVIEW" <=> AttemptsOf(q, {"REVIEW_REQUIRED"}) # {}
    /\ purchase[q].status = "PAYMENT_REVIEW" => all("PAYMENT_REVIEW")
    /\ purchase[q].status = "EXPIRED" =>
         Active(q) = {} /\ \E s \in ChildrenOf(q) : order[q][s].status = "EXPIRED"
    /\ \A y, z \in Active(q) : y = z
=============================================================================
