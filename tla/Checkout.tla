------------------------------ MODULE Checkout ------------------------------
(***************************************************************************)
(* From the buyer's cart to a purchase.  A preparation records the cart at *)
(* one revision, the stores' terms and the delivery address, and is shown  *)
(* to the buyer; a purchase turns the preparation into orders, if nothing  *)
(* it says has changed since.  The single-store checkout (ORDER) makes one *)
(* order, the multi-store checkout (GROUP) one order for every store, in   *)
(* one transaction with their reservations.  The calls of the              *)
(* expiry sweep that open a request are Sweep of PurchaseGroup, a          *)
(* transaction of its own; stock is never short here.                      *)
(***************************************************************************)
EXTENDS Cart

CONSTANTS
  Preparations,  \* checkout revisions that may be handed out
  Purchases,     \* orders of the one kind and groups of the other
  Keys,          \* idempotency keys the client sends
  Nothing,       \* no purchase, no cart, no preparation, no key
  AddressBound   \* bound of the model: revisions of the saved address

ASSUME CheckoutAssumption ==
  AddressBound \in Nat \ {0} /\ Nothing \notin Purchases

VARIABLES
  address,      \* revision of the buyer's saved address, 0 once deleted
  preparation,  \* rows of the two preparation tables
  purchase,     \* what was bought: the review snapshot and the group's status
  order,        \* order[q][s]: the order of purchase q at store s
  answered      \* order_create_idempotency_records: the order a key made

checkoutVars == <<address, preparation, purchase, order, answered>>

Kind == {"ORDER", "GROUP"}
Quantity == [Stores -> 0 .. MaxQuantity]
PreparationRow ==
  [status : {"NONE", "READING", "SAVED"}, kind : Kind, cart : Carts \cup {Nothing},
   revision : 0 .. RevisionBound + 1, items : Quantity, terms : [Stores -> Nat \ {0}],
   address : 0 .. AddressBound, expired : BOOLEAN, consumed : Purchases \cup {Nothing}]
\* status is that of order_purchase_groups; an ORDER has none of its own.
PurchaseStatus == {"NONE", "ORDER", "PENDING_PAYMENT", "PAYMENT_REVIEW", "PAID", "EXPIRED"}
PurchaseRow ==
  [status : PurchaseStatus, preparation : Preparations \cup {Nothing},
   key : Keys \cup {Nothing}, due : BOOLEAN]
OrderStatus == {"NONE", "PENDING_PAYMENT", "PAYMENT_REVIEW", "PAID", "EXPIRED"}

EmptyPreparation ==
  [status |-> "NONE", kind |-> "ORDER", cart |-> Nothing, revision |-> 0,
   items |-> [s \in Stores |-> 0], terms |-> [s \in Stores |-> 1], address |-> 0,
   expired |-> FALSE, consumed |-> Nothing]

CheckoutInit ==
  /\ address = 1
  /\ preparation = [p \in Preparations |-> EmptyPreparation]
  /\ purchase = [q \in Purchases |->
       [status |-> "NONE", preparation |-> Nothing, key |-> Nothing, due |-> FALSE]]
  /\ answered = [k \in Keys |-> Nothing]

Made == {q \in Purchases : purchase[q].status # "NONE"}
StoresOf(p) == {s \in Stores : preparation[p].items[s] > 0}
CartOf(p) == cart[preparation[p].cart]
KindOf(q) == preparation[purchase[q].preparation].kind

\* prepare reads the buyer's cart first; the multi-store checkout also wants
\* the changes of its terms reviewed.
BeginPrepare(p, kind) ==
  /\ preparation[p].status = "NONE"
  /\ \E c \in Live("BUYER") :
       /\ LinesOf(c) # {}
       /\ kind = "ORDER" => OneStore(c)
       /\ kind = "GROUP" => ~ReviewRequired(c)
       /\ preparation' = [preparation EXCEPT ![p] =
            [EmptyPreparation EXCEPT
               !.status = "READING", !.kind = kind, !.cart = c, !.revision = cart[c].revision,
               !.items = [s \in Stores |-> cart[c].lines[s].quantity]]]
  /\ UNCHANGED <<cartVars, address, purchase, order, answered>>

\* Then stores, products and the address, and saves what was read.
SavePreparation(p) ==
  /\ preparation[p].status = "READING"
  /\ address # 0
  /\ preparation' = [preparation EXCEPT
       ![p].status = "SAVED", ![p].terms = terms, ![p].address = address]
  /\ UNCHANGED <<cartVars, address, purchase, order, answered>>

\* expires_at of a preparation passes.
ExpirePreparation(p) ==
  /\ preparation[p].status = "SAVED" /\ ~preparation[p].expired
  /\ preparation' = [preparation EXCEPT ![p].expired = TRUE]
  /\ UNCHANGED <<cartVars, address, purchase, order, answered>>

\* The buyer edits the saved address, or deletes it.
UpdateAddress ==
  /\ address \in 1 .. AddressBound - 1
  /\ address' = address + 1
  /\ UNCHANGED <<cartVars, preparation, purchase, order, answered>>
DeleteAddress ==
  /\ address # 0
  /\ address' = 0
  /\ UNCHANGED <<cartVars, preparation, purchase, order, answered>>

\* assertAuthoritativeReview and readAddress, under the locks of the transaction.
TermsInForce(p) == \A s \in StoresOf(p) : preparation[p].terms[s] = terms[s]
AddressInForce(p) == preparation[p].address = address
\* The cart row, locked: only the single-store checkout looks at its expiry.
CartIsReviewed(p) ==
  /\ CartOf(p).status = "ACTIVE" /\ CartOf(p).owner = "BUYER"
  /\ preparation[p].kind = "ORDER" => ~CartOf(p).lapsed
  /\ CartOf(p).revision = preparation[p].revision
Usable(p) == preparation[p].status = "SAVED" /\ ~preparation[p].expired

OrderRow ==
  [status |-> "PENDING_PAYMENT", reservation |-> "ACTIVE", holder |-> "NOBODY"]
NoOrder == [status |-> "NONE", reservation |-> "NONE", holder |-> "NOBODY"]
OrdersFor(p) == [s \in Stores |-> IF s \in StoresOf(p) THEN OrderRow ELSE NoOrder]

\* Mutation of Buy: the cart stays open.
BuyKeepingCart(p, k, q) ==
  /\ q \notin Made
  /\ CartIsReviewed(p)
  /\ TermsInForce(p) /\ AddressInForce(p)
  /\ purchase' = [purchase EXCEPT ![q] =
       [status |-> IF preparation[p].kind = "GROUP" THEN "PENDING_PAYMENT" ELSE "ORDER",
        preparation |-> p, key |-> k, due |-> FALSE]]
  /\ order' = [order EXCEPT ![q] = OrdersFor(p)]
  /\ preparation' = [preparation EXCEPT ![p].consumed = q]
  /\ UNCHANGED <<cartVars, address>>

\* The orders, their reservations, and the end of preparation and cart.
Buy(p, k, q) ==
  /\ q \notin Made
  /\ CartIsReviewed(p)
  /\ TermsInForce(p) /\ AddressInForce(p)
  /\ purchase' = [purchase EXCEPT ![q] =
       [status |-> IF preparation[p].kind = "GROUP" THEN "PENDING_PAYMENT" ELSE "ORDER",
        preparation |-> p, key |-> k, due |-> FALSE]]
  /\ order' = [order EXCEPT ![q] = OrdersFor(p)]
  /\ preparation' = [preparation EXCEPT ![p].consumed = q]
  /\ cart' = [cart EXCEPT ![preparation[p].cart].status = "CONVERTED"]
  /\ UNCHANGED <<terms, address>>

\* createOrder: a key that has made an order never makes another.
CreateOrder(p, k, q) ==
  /\ answered[k] = Nothing
  /\ preparation[p].kind = "ORDER" /\ Usable(p)
  /\ preparation[p].consumed = Nothing
  /\ Buy(p, k, q)
  /\ answered' = [answered EXCEPT ![k] = q]

\* createOrder with a new key for a consumed preparation answers with its order.
RepeatOrder(p, k) ==
  /\ answered[k] = Nothing
  /\ preparation[p].kind = "ORDER" /\ Usable(p)
  /\ preparation[p].consumed # Nothing
  /\ answered' = [answered EXCEPT ![k] = preparation[p].consumed]
  /\ UNCHANGED <<cartVars, address, preparation, purchase, order>>

\* createGroup: the key is kept in the group's row; a consumed preparation
\* answers with its group and changes nothing.
CreateGroup(p, k, q) ==
  /\ ~\E r \in Made : KindOf(r) = "GROUP" /\ purchase[r].key = k
  /\ preparation[p].kind = "GROUP" /\ Usable(p)
  /\ preparation[p].consumed = Nothing
  /\ Buy(p, k, q)
  /\ UNCHANGED answered

CheckoutNext ==
  \/ \E p \in Preparations, kind \in Kind : BeginPrepare(p, kind)
  \/ \E p \in Preparations : SavePreparation(p) \/ ExpirePreparation(p)
  \/ UpdateAddress
  \/ DeleteAddress
  \/ \E p \in Preparations, k \in Keys :
       \/ RepeatOrder(p, k)
       \/ \E q \in Purchases : CreateOrder(p, k, q) \/ CreateGroup(p, k, q)
=============================================================================
