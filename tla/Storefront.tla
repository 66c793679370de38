----------------------------- MODULE Storefront -----------------------------
(***************************************************************************)
(* The store of one seller, its products and the events they publish.      *)
(*                                                                         *)
(* Every write is one transaction that checks the row's revision, and the  *)
(* event is stored in it.  Only the check that the store may sell is read  *)
(* before the transaction that publishes a product.                        *)
(*                                                                         *)
(* A product has one variant; "offer" and "stock" are the revisions of its *)
(* price and of its inventory level.  The log stands for the archive of    *)
(* the outbox in the order of occurred_at: an event's place is its time.   *)
(***************************************************************************)
EXTENDS Naturals, Sequences, FiniteSets, SequencesExt

CONSTANTS
  Products,
  Store,           \* the store, as the subject of its events
  LogBound,        \* bound on the number of events
  RevisionBound    \* bound on the revisions of the store and of a product

ASSUME StorefrontAssumption ==
  /\ Store \notin Products
  /\ LogBound \in Nat /\ RevisionBound \in Nat

VARIABLES
  store,           \* row of store_stores
  product,         \* rows of product_products with offer and inventory level
  publishing,      \* expected revision of a product's request to publish, or 0
  log              \* events of the store and its products, oldest first

storefrontVars == <<store, product, publishing, log>>
-----------------------------------------------------------------------------
StoreRow == [status : {"DRAFT", "PUBLISHED"}, revision : Nat, publication : Nat]

ProductRow == [state : {"DRAFT", "PUBLISHED", "UNPUBLISHED"}, revision : Nat,
               publication : Nat, offer : Nat, stock : Nat]

StoreEvents == {"StorePublished", "StoreUnpublished"}
ProductEvents == {"ProductPublished", "ProductUnpublished"}
VersionEvents == {"VariantPriceChanged", "VariantAvailabilityChanged"}

Event == [type : StoreEvents \cup ProductEvents \cup VersionEvents,
          subject : Products \cup {Store}, aggregate : Nat, publication : Nat,
          offer : Nat, stock : Nat]

StorefrontTypeOK ==
  /\ store \in StoreRow
  /\ product \in [Products -> ProductRow]
  /\ publishing \in [Products -> Nat]
  /\ log \in Seq(Event)

StorefrontInit ==
  /\ store = [status |-> "DRAFT", revision |-> 1, publication |-> 0]
  /\ product = [p \in Products |-> [state |-> "DRAFT", revision |-> 1,
                                    publication |-> 0, offer |-> 1, stock |-> 1]]
  /\ publishing = [p \in Products |-> 0]
  /\ log = <<>>

Times == DOMAIN log
StoreEvent(type, row) ==
  [type |-> type, subject |-> Store, aggregate |-> row.revision,
   publication |-> row.publication, offer |-> 0, stock |-> 0]
ProductEvent(type, p, row) ==
  [type |-> type, subject |-> p, aggregate |-> row.revision,
   publication |-> row.publication, offer |-> row.offer, stock |-> row.stock]

Stored(event) == Len(log) < LogBound /\ log' = Append(log, event)
-----------------------------------------------------------------------------
(***************************************************************************)
(* The store.  Saving a draft takes a published store off the market.      *)
(***************************************************************************)
SaveStoreDraft ==
  LET saved == [store EXCEPT !.status = "DRAFT", !.revision = @ + 1]
  IN /\ store.revision < RevisionBound
     /\ store' = saved
     /\ IF store.status = "PUBLISHED"
        THEN Stored(StoreEvent("StoreUnpublished", saved))
        ELSE UNCHANGED log
     /\ UNCHANGED <<product, publishing>>

PublishStore ==
  LET published == [status |-> "PUBLISHED", revision |-> store.revision + 1,
                    publication |-> store.publication + 1]
  IN /\ store.status # "PUBLISHED"
     /\ store.revision < RevisionBound
     /\ store' = published
     /\ Stored(StoreEvent("StorePublished", published))
     /\ UNCHANGED <<product, publishing>>
-----------------------------------------------------------------------------
(***************************************************************************)
(* A product.                                                              *)
(***************************************************************************)
Revised(p) == [product[p] EXCEPT !.revision = @ + 1]

\* The store is read before the transaction.
BeginPublishProduct(p) ==
  /\ publishing[p] = 0
  /\ store.status = "PUBLISHED"
  /\ publishing' = [publishing EXCEPT ![p] = product[p].revision]
  /\ UNCHANGED <<store, product, log>>

PublishProduct(p) ==
  LET published == [Revised(p) EXCEPT !.state = "PUBLISHED", !.publication = @ + 1]
  IN /\ publishing[p] # 0
     /\ publishing' = [publishing EXCEPT ![p] = 0]
     /\ IF product[p].revision = publishing[p]
        THEN /\ product[p].revision < RevisionBound
             /\ product' = [product EXCEPT ![p] = published]
             /\ Stored(ProductEvent("ProductPublished", p, published))
        ELSE UNCHANGED <<product, log>>
     /\ UNCHANGED store

UnpublishProduct(p) ==
  LET withdrawn == [Revised(p) EXCEPT !.state = "UNPUBLISHED"]
  IN /\ product[p].state = "PUBLISHED"
     /\ product[p].revision < RevisionBound
     /\ product' = [product EXCEPT ![p] = withdrawn]
     /\ Stored(ProductEvent("ProductUnpublished", p, withdrawn))
     /\ UNCHANGED <<store, publishing>>

\* A change of the product that tells its followers something when it is public.
Changed(p, type, row, told) ==
  /\ product[p].revision < RevisionBound
  /\ product' = [product EXCEPT ![p] = row]
  /\ IF product[p].state = "PUBLISHED" /\ told
     THEN Stored(ProductEvent(type, p, row))
     ELSE UNCHANGED log
  /\ UNCHANGED <<store, publishing>>

ReplaceOffers(p) ==
  Changed(p, "VariantPriceChanged", [Revised(p) EXCEPT !.offer = @ + 1], TRUE)

\* Whether the variant becomes or stops being available depends on the quantity
\* entered and on what orders have reserved.
ReplaceInventory(p) ==
  \E flips \in BOOLEAN :
    Changed(p, "VariantAvailabilityChanged", [Revised(p) EXCEPT !.stock = @ + 1], flips)

\* Prices are part of the working copy until the first publication.
ReplaceWorkingCopy(p) ==
  \E offer \in {product[p].offer, product[p].offer + 1} :
    /\ product[p].revision < RevisionBound
    /\ offer # product[p].offer => product[p].state = "DRAFT"
    /\ product' = [product EXCEPT ![p] = [Revised(p) EXCEPT !.offer = offer]]
    /\ UNCHANGED <<store, publishing, log>>

StorefrontNext ==
  \/ SaveStoreDraft \/ PublishStore
  \/ \E p \in Products :
       \/ BeginPublishProduct(p) \/ PublishProduct(p) \/ UnpublishProduct(p)
       \/ ReplaceOffers(p) \/ ReplaceInventory(p) \/ ReplaceWorkingCopy(p)
=============================================================================
