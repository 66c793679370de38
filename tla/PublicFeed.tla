----------------------------- MODULE PublicFeed -----------------------------
(***************************************************************************)
(* The projection behind the public feed.  Its consumer receives the       *)
(* storefront's events one at a time and each until it is handled, but in  *)
(* no particular order; a delivery may use up its attempts; and an         *)
(* operator may rebuild the projection from the archive.                   *)
(*                                                                         *)
(* Handlers of one product, or of the store, exclude each other and the    *)
(* rebuild, so that handling an event is one step.                         *)
(***************************************************************************)
EXTENDS Storefront

CONSTANT BegunBound  \* bound on the deliveries under way during a rebuild

ASSUME FeedAssumption == BegunBound \in Nat

VARIABLES
  feed,            \* the tables of the projection
  handled,         \* times of the events whose delivery is done
  given            \* times of the events given up

feedVars == <<feed, handled, given>>
-----------------------------------------------------------------------------
\* first, eligible and updated are times: of the first publication, of the one
\* that began the current period on the market, and of the newest applied.
FeedRow == [publication : Nat, aggregate : Nat, published : BOOLEAN, first : Nat,
            eligible : Nat, updated : Nat, offer : Nat, stock : Nat]
NoRow == [publication |-> 0, aggregate |-> 0, published |-> FALSE, first |-> 0,
          eligible |-> 0, updated |-> 0, offer |-> 0, stock |-> 0]

StoreFeedRow == [published : BOOLEAN, aggregate : Nat, publication : Nat]

\* A version that came before its publication.
BufferRow == [product : Products, publication : Nat,
              kind : {"OFFER", "AVAILABILITY", "PUBLICATION"}, version : Nat]

EmptyFeed == [store |-> [published |-> FALSE, aggregate |-> 0, publication |-> 0],
              row |-> [p \in Products |-> NoRow],
              buffer |-> {}]

FeedTypeOK ==
  /\ feed.store \in StoreFeedRow
  /\ feed.row \in [Products -> FeedRow]
  /\ feed.buffer \subseteq BufferRow
  /\ handled \subseteq Times /\ given \subseteq Times

FeedInit == feed = EmptyFeed /\ handled = {} /\ given = {}

Larger(m, n) == IF m > n THEN m ELSE n
Smaller(m, n) == IF m < n THEN m ELSE n
\* Order of two states of a store or product: by publication, then by revision.
Newer(e, r) ==
  \/ e.publication > r.publication
  \/ e.publication = r.publication /\ e.aggregate > r.aggregate
-----------------------------------------------------------------------------
(***************************************************************************)
(* The handlers: what event e of time t makes of the tables f.             *)
(***************************************************************************)
ProjectStore(f, e) ==
  IF Newer(e, f.store)
  THEN [f EXCEPT !.store = [published |-> e.type = "StorePublished",
                            aggregate |-> e.aggregate, publication |-> e.publication]]
  ELSE f

WithRow(f, p, r) == [f EXCEPT !.row[p] = r]

Buffered(f, p, publication, kind, version) ==
  LET same == {b \in f.buffer :
                 b.product = p /\ b.publication = publication /\ b.kind = kind}
      kept == {b \in same : b.version > version}
      new == [product |-> p, publication |-> publication, kind |-> kind,
              version |-> version]
  IN [f EXCEPT !.buffer = (@ \ same) \cup (IF kept = {} THEN {new} ELSE kept)]

\* What the buffers of its publication make of a row.
ApplyBuffered(r, buffers) ==
  LET newest(kind, least) ==
        LET of == {b \in buffers : b.kind = kind /\ b.version > least}
        IN IF of = {} THEN least ELSE (CHOOSE b \in of : TRUE).version
      aggregate == newest("PUBLICATION", r.aggregate)
  IN [r EXCEPT !.offer = newest("OFFER", @),
               !.stock = newest("AVAILABILITY", @),
               !.aggregate = aggregate,
               !.published = @ /\ aggregate = r.aggregate]

ApplyBufferedVersions(f, p, publication) ==
  LET due == {b \in f.buffer : b.product = p /\ b.publication = publication}
      past == {b \in f.buffer : b.product = p /\ b.publication <= publication}
  IN [f EXCEPT !.row[p] = ApplyBuffered(@, due), !.buffer = @ \ past]

ProjectPublication(f, e, t) ==
  LET p == e.subject
      r == f.row[p]
      inserted == [publication |-> e.publication, aggregate |-> e.aggregate,
                   published |-> TRUE, first |-> t, eligible |-> t, updated |-> t,
                   offer |-> e.offer, stock |-> e.stock]
      replaced == [publication |-> e.publication, aggregate |-> e.aggregate,
                   published |-> TRUE, first |-> Smaller(r.first, t),
                   eligible |-> IF r.published THEN r.eligible ELSE t, updated |-> t,
                   offer |-> Larger(r.offer, e.offer), stock |-> Larger(r.stock, e.stock)]
  IN IF r = NoRow
     THEN ApplyBufferedVersions(WithRow(f, p, inserted), p, e.publication)
     ELSE IF Newer(e, r)
     THEN ApplyBufferedVersions(WithRow(f, p, replaced), p, e.publication)
     ELSE WithRow(f, p, [r EXCEPT !.first = Smaller(@, t)])

\* Mutant: a withdrawal that comes before its publication is dropped.
ForgetEarlyWithdrawal(f, e) ==
  LET r == f.row[e.subject]
  IN IF r # NoRow /\ Newer(e, r)
     THEN WithRow(f, e.subject, [r EXCEPT !.publication = e.publication,
                                   !.aggregate = e.aggregate, !.published = FALSE])
     ELSE f

ProjectUnpublication(f, e) ==
  LET p == e.subject
      r == f.row[p]
  IN IF r = NoRow
     THEN Buffered(f, p, e.publication, "PUBLICATION", e.aggregate)
     ELSE IF e.publication < r.publication
     THEN WithRow(f, p, [r EXCEPT !.eligible = Larger(@, r.updated)])
     ELSE IF Newer(e, r)
     THEN WithRow(f, p, [r EXCEPT !.publication = e.publication,
                                  !.aggregate = e.aggregate, !.published = FALSE])
     ELSE f

ProjectVersion(f, e) ==
  LET p == e.subject
      r == f.row[p]
      ofOffer == e.type = "VariantPriceChanged"
      kind == IF ofOffer THEN "OFFER" ELSE "AVAILABILITY"
      version == IF ofOffer THEN e.offer ELSE e.stock
  IN IF r = NoRow \/ e.publication > r.publication
     THEN Buffered(f, p, e.publication, kind, version)
     ELSE IF e.publication < r.publication
     THEN f
     ELSE IF ofOffer
     THEN WithRow(f, p, [r EXCEPT !.offer = Larger(@, version)])
     ELSE WithRow(f, p, [r EXCEPT !.stock = Larger(@, version)])

Project(f, t) ==
  LET e == log[t]
  IN CASE e.type \in StoreEvents -> ProjectStore(f, e)
       [] e.type = "ProductPublished" -> ProjectPublication(f, e, t)
       [] e.type = "ProductUnpublished" -> ProjectUnpublication(f, e)
       [] e.type \in VersionEvents -> ProjectVersion(f, e)
-----------------------------------------------------------------------------
Pending == Times \ (handled \cup given)

Deliver(t) ==
  /\ t \in Pending
  /\ feed' = Project(feed, t)
  /\ handled' = handled \cup {t}
  /\ UNCHANGED given

GiveUp(t) ==
  /\ t \in Pending
  /\ given' = given \cup {t}
  /\ UNCHANGED <<feed, handled>>

\* The archive is replayed oldest first.  Deliveries that were begun and not given
\* up keep their receipts and come once more.
Rebuild ==
  /\ \E begun \in SUBSET Pending :
       Cardinality(begun) <= BegunBound /\ handled' = Times \ begun
  /\ given' = {}
  /\ feed' = FoldLeft(Project, EmptyFeed, [t \in Times |-> t])

FeedNext ==
  \/ \E t \in Times : Deliver(t) \/ GiveUp(t)
  \/ Rebuild
-----------------------------------------------------------------------------
\* What readPublicSnapshot shows: nothing at all while the projection is not
\* healthy, and a version still buffered counts as unhealthy.
Healthy == given = {} /\ feed.buffer = {}
Listed(p) == Healthy /\ feed.row[p].published /\ feed.store.published
-----------------------------------------------------------------------------
(***************************************************************************)
(* Properties.                                                             *)
(***************************************************************************)
\* A product whose withdrawal was handled is not listed until a newer
\* publication of it was, nor is anything of a store taken off the market,
\* whatever was handled before or after.
WithdrawnIsNotListed ==
  \A p \in Products : Listed(p) =>
    \A t \in handled :
      /\ log[t].type = "ProductUnpublished" /\ log[t].subject = p
            => Newer(feed.row[p], log[t])
      /\ log[t].type = "StoreUnpublished" => Newer(feed.store, log[t])

TimesOf(p, type) == {t \in Times : log[t].subject = p /\ log[t].type = type}
NewestTold(p, publication, type, version(_)) ==
  {version(log[t]) : t \in {u \in Times :
     /\ log[u].subject = p /\ log[u].publication = publication
     /\ log[u].type \in {"ProductPublished", type}}}

OfferOf(e) == e.offer
StockOf(e) == e.stock

\* Once every event is handled, in whatever order and however often the
\* projection was rebuilt, the feed's rows say what the producers say: which
\* publication is shown, whether it still is, when the product first appeared,
\* and the newest price and availability that were told of it.
FeedAgrees ==
  handled = Times =>
    /\ feed.store.published = (store.status = "PUBLISHED")
    /\ feed.store.publication = store.publication
    /\ \A p \in Products :
         LET r == feed.row[p]
             began == TimesOf(p, "ProductPublished")
         IN IF began = {}
            THEN r = NoRow
            ELSE /\ r.published = (product[p].state = "PUBLISHED")
                 /\ r.publication = product[p].publication
                 /\ r.first = Min(began)
                 /\ r.published =>
                      /\ r.offer = Max(NewestTold(p, r.publication, "VariantPriceChanged", OfferOf))
                      /\ r.stock = Max(NewestTold(p, r.publication, "VariantAvailabilityChanged", StockOf))

\* What the feed shows is what is on sale, before and after all is handled.
FeedIsTrue == WithdrawnIsNotListed /\ FeedAgrees

\* The feed comes back by itself once every event is handled.
FeedHeals == handled = Times => Healthy
=============================================================================
