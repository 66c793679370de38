---------------------------- MODULE SalesContent ----------------------------
(***************************************************************************)
(* One sales content of the store: a picture linked to products, shown     *)
(* with each of them while the product and the store are published.        *)
(*                                                                         *)
(* Two consumers follow the products: the seller's own tables, where the   *)
(* content also counts as active while a link is, and the tables the       *)
(* public reads.  Handlers of one product exclude each other.  Those of    *)
(* two products run side by side, and each sees of the other only what was *)
(* committed before its statement began.                                   *)
(***************************************************************************)
EXTENDS Storefront

CONSTANT ContentBound     \* bound on the revisions of the content

ASSUME ContentAssumption == ContentBound \in Nat

VARIABLES
  content,         \* the content, its links and the seller's product states
  submitted,       \* the request to publish or replace it that is under way
  contentLog,      \* products named by each of its events; the place is the revision
  applying,        \* the open transaction of the seller's consumer, by product
  applied,         \* times of the product events the seller's consumer has done
  shown,           \* the tables the public reads
  shownTimes,      \* times of the storefront's events the public's consumer has done
  shownRevisions   \* revisions of the content it has done

contentVars == <<content, submitted, contentLog, applying, applied,
                 shown, shownTimes, shownRevisions>>
-----------------------------------------------------------------------------
Links == [Products -> {"NONE", "ON", "OFF"}]
NoLinks == [p \in Products |-> "NONE"]
Linked(links) == {p \in Products : links[p] # "NONE"}
Live(links) == \E p \in Products : links[p] = "ON"
On(active) == IF active THEN "ON" ELSE "OFF"

\* Aggregate 0: the consumer knows nothing of the product.
ProductState == [aggregate : Nat, publication : Nat, active : BOOLEAN]
Unknown == [aggregate |-> 0, publication |-> 0, active |-> TRUE]
StateOf(e) == [aggregate |-> e.aggregate, publication |-> e.publication,
               active |-> e.type = "ProductPublished"]

NoRequest == [revision |-> 0, read |-> [p \in Products |-> 0], open |-> FALSE]
Idle == [time |-> 0, others |-> FALSE]

ProductTimes == {t \in Times : log[t].type \in ProductEvents}
StoreTimes == {t \in Times : log[t].type \in StoreEvents}
Revisions == DOMAIN contentLog

ContentTypeOK ==
  /\ content.active \in BOOLEAN /\ content.links \in Links
  /\ content.state \in [Products -> ProductState]
  /\ submitted \in [revision : Nat, read : [Products -> Nat], open : BOOLEAN]
  /\ contentLog \in Seq(SUBSET Products)
  /\ applying \in [Products -> [time : {0} \cup ProductTimes, others : BOOLEAN]]
  /\ applied \subseteq ProductTimes
  /\ shown.revision \in {0} \cup Revisions
  /\ shown.links \in Links /\ shown.last \in [Products -> Nat]
  /\ shown.state \in [Products -> ProductState]
  /\ shown.store \in [published : BOOLEAN, aggregate : Nat, publication : Nat]
  /\ shownTimes \subseteq ProductTimes \cup StoreTimes
  /\ shownRevisions \subseteq Revisions

ContentInit ==
  /\ content = [active |-> FALSE, links |-> NoLinks,
                state |-> [p \in Products |-> Unknown]]
  /\ submitted = NoRequest
  /\ contentLog = <<>>
  /\ applying = [p \in Products |-> Idle]
  /\ applied = {}
  /\ shown = [revision |-> 0, links |-> NoLinks, last |-> [p \in Products |-> 0],
              state |-> [p \in Products |-> Unknown],
              store |-> [published |-> FALSE, aggregate |-> 0, publication |-> 0]]
  /\ shownTimes = {} /\ shownRevisions = {}
-----------------------------------------------------------------------------
(***************************************************************************)
(* The seller's request.  The store and the products are read first, and   *)
(* the transaction compares what was read with the projected states.       *)
(***************************************************************************)
SubmitContent(products) ==
  /\ ~submitted.open
  /\ store.status = "PUBLISHED"
  /\ \A p \in products : product[p].state = "PUBLISHED"
  /\ submitted' = [revision |-> Len(contentLog), open |-> TRUE,
                   read |-> [p \in Products |->
                     IF p \in products THEN product[p].publication ELSE 0]]
  /\ UNCHANGED <<content, contentLog, applying, applied, shown, shownTimes, shownRevisions>>

\* Mutant: what was read before the transaction is taken as it is.
NeverSuperseded(state, publication) == FALSE

\* The product is known to have gone on since it was read.
Superseded(state, publication) ==
  /\ state # Unknown
  /\ \/ state.publication > publication
     \/ state.publication = publication /\ ~state.active

\* The transaction locks the products it names, and the links it removes.
CommitContent ==
  LET products == {p \in Products : submitted.read[p] # 0}
      accepted == /\ submitted.revision = Len(contentLog)
                  /\ \A p \in products : ~Superseded(content.state[p], submitted.read[p])
  IN /\ submitted.open
     /\ \A p \in products \cup Linked(content.links) : applying[p] = Idle
     /\ submitted' = NoRequest
     /\ IF accepted
        THEN /\ Len(contentLog) < ContentBound
             /\ content' = [content EXCEPT !.active = TRUE, !.links =
                              [p \in Products |-> IF p \in products THEN "ON" ELSE "NONE"]]
             /\ contentLog' = Append(contentLog, products)
        ELSE UNCHANGED <<content, contentLog>>
     /\ UNCHANGED <<applying, applied, shown, shownTimes, shownRevisions>>
-----------------------------------------------------------------------------
(***************************************************************************)
(* The consumer that keeps the seller's tables.                            *)
(***************************************************************************)
\* With the product's lock held, the last statement of the transaction looks for
\* another active link.
BeginApply(t) ==
  LET p == log[t].subject
  IN /\ t \in ProductTimes \ applied
     /\ applying[p] = Idle
     /\ applying' = [applying EXCEPT ![p] =
          [time |-> t, others |-> \E q \in Products \ {p} : content.links[q] = "ON"]]
     /\ UNCHANGED <<content, submitted, contentLog, applied, shown, shownTimes, shownRevisions>>

Applied(c, p, e, others) ==
  IF c.state[p].aggregate >= e.aggregate
  THEN c
  ELSE LET known == [c EXCEPT !.state[p] = StateOf(e)]
           active == StateOf(e).active
       IN IF c.links[p] = "NONE"
          THEN known
          ELSE [known EXCEPT !.links[p] = On(active), !.active = active \/ others]

CommitApply(p) ==
  LET t == applying[p].time
  IN /\ applying[p] # Idle
     /\ content' = Applied(content, p, log[t], applying[p].others)
     /\ applied' = applied \cup {t}
     /\ applying' = [applying EXCEPT ![p] = Idle]
     /\ UNCHANGED <<submitted, contentLog, shown, shownTimes, shownRevisions>>

\* The worker dies, or its transaction is rolled back.
AbandonApply(p) ==
  /\ applying[p] # Idle
  /\ applying' = [applying EXCEPT ![p] = Idle]
  /\ UNCHANGED <<content, submitted, contentLog, applied, shown, shownTimes, shownRevisions>>
-----------------------------------------------------------------------------
(***************************************************************************)
(* The consumer that keeps what the public reads.                          *)
(***************************************************************************)
ShowProduct(e) ==
  LET p == e.subject
  IN [shown EXCEPT
        !.state[p] = IF @.aggregate < e.aggregate THEN StateOf(e) ELSE @,
        !.links[p] = IF @ # "NONE" /\ shown.last[p] < e.aggregate
                     THEN On(StateOf(e).active) ELSE @,
        !.last[p] = IF shown.links[p] # "NONE" /\ @ < e.aggregate
                    THEN e.aggregate ELSE @]

ShowStore(e) ==
  LET row == shown.store
      newer == \/ row.publication < e.publication
               \/ row.publication = e.publication /\ row.aggregate < e.aggregate
  IN IF newer
     THEN [shown EXCEPT !.store = [published |-> e.type = "StorePublished",
             aggregate |-> e.aggregate, publication |-> e.publication]]
     ELSE shown

ShowContent(revision) ==
  LET products == contentLog[revision]
      kept(p) == p \in products /\ shown.links[p] # "NONE"
                   /\ shown.last[p] >= shown.state[p].aggregate
  IN IF shown.revision >= revision
     THEN shown
     ELSE [shown EXCEPT
             !.revision = revision,
             !.links = [p \in Products |->
                          IF kept(p) THEN @[p]
                          ELSE IF p \in products THEN On(shown.state[p].active)
                          ELSE "NONE"],
             !.last = [p \in Products |->
                         IF kept(p) THEN @[p]
                         ELSE IF p \in products THEN shown.state[p].aggregate
                         ELSE 0]]

ShowEvent(t) ==
  /\ t \in (ProductTimes \cup StoreTimes) \ shownTimes
  /\ shown' = IF t \in StoreTimes THEN ShowStore(log[t]) ELSE ShowProduct(log[t])
  /\ shownTimes' = shownTimes \cup {t}
  /\ UNCHANGED <<content, submitted, contentLog, applying, applied, shownRevisions>>

ShowRevision(revision) ==
  /\ revision \in Revisions \ shownRevisions
  /\ shown' = ShowContent(revision)
  /\ shownRevisions' = shownRevisions \cup {revision}
  /\ UNCHANGED <<content, submitted, contentLog, applying, applied, shownTimes>>

ContentNext ==
  \/ \E products \in SUBSET Products \ {{}} : SubmitContent(products)
  \/ CommitContent
  \/ \E t \in Times : BeginApply(t) \/ ShowEvent(t)
  \/ \E p \in Products : CommitApply(p) \/ AbandonApply(p)
  \/ \E revision \in Revisions : ShowRevision(revision)
-----------------------------------------------------------------------------
(***************************************************************************)
(* Properties.                                                             *)
(***************************************************************************)
Settled == applied = ProductTimes /\ \A p \in Products : applying[p] = Idle

\* The public is never shown a content with a product whose withdrawal is known,
\* whichever of product, content and store events came first; and when a consumer
\* has done all its events, the links it keeps are those of the last revision,
\* and each is active exactly when its product is published.
LinksAgree ==
  /\ \A p \in Linked(shown.links) :
       LET known == {t \in shownTimes : log[t].subject = p}
       IN known # {} =>
            (shown.links[p] = "ON") = (log[Max(known)].type = "ProductPublished")
  /\ ProductTimes \cup StoreTimes = shownTimes /\ Revisions = shownRevisions =>
       /\ shown.store.published = (store.status = "PUBLISHED")
       /\ contentLog # <<>> => Linked(shown.links) = Last(contentLog)
       /\ \A p \in Linked(shown.links) :
            (shown.links[p] = "ON") = (product[p].state = "PUBLISHED")
  /\ Settled => \A p \in Linked(content.links) :
                  (content.links[p] = "ON") = (product[p].state = "PUBLISHED")

\* Once the seller's consumer has done all its events, the content is active, and
\* its picture public, exactly while one of its links is.  The code
\* does not keep this when two workers run the seller's consumer: each computes the
\* flag from the links of its own snapshot.
ContentIsActive == Settled => content.active = Live(content.links)
=============================================================================
