---------------------------- MODULE MCDiscovery -----------------------------
(***************************************************************************)
(* Small instances of Discovery, and beside it of the store's editor, with *)
(* which it shares no state here.                                          *)
(***************************************************************************)
EXTENDS Discovery, StoreEditing

CONSTANTS
  FeedChanges,     \* bounds on the producers' changes behind a feed
  ContentChanges,  \* and behind a content
  FirstWindow      \* the window of the editor that sends first

FeedMoved == feed # EmptyFeed \/ handled # {} \/ given # {}
FollowingMoved == followingVars # <<
  [i \in Identities |-> At("ACTIVE", 0)], [i \in Identities |-> [s \in Stores |-> None]],
  <<>>, NoCounts, [i \in Identities |-> NoRead], {}>>
AppliedMoved == applied # {} \/ \E p \in Products : applying[p] # Idle
ShownMoved == shownTimes # {} \/ shownRevisions # {}
ContentMoved == submitted.open \/ contentLog # <<>> \/ AppliedMoved \/ ShownMoved
StorefrontMoved == store.revision > 1 \/ \E p \in Products : product[p].revision > 1

Changes == MapThenSumSet(LAMBDA p : product[p].revision - 1, Products) + store.revision - 1
Priced(p) == product[p].offer > 1 \/ product[p].stock > 1

\* The projections share no state, so each is explored with the others at rest:
\* the feed, whose rows do not meet, with one product; the content, to which
\* prices, stock and changes without an event are nothing, without them.
Separate ==
  /\ FollowingMoved => ~(StorefrontMoved \/ FeedMoved \/ ContentMoved)
  /\ ~(FeedMoved /\ ContentMoved)
  /\ ~(AppliedMoved /\ ShownMoved)
  /\ \/ /\ ~FeedMoved
        /\ \A p \in Products : ~Priced(p)
        /\ Changes = Len(log) /\ Changes <= ContentChanges
     \/ /\ ~ContentMoved
        /\ \E p \in Products : \A q \in Products \ {p} : product[q].revision = 1
        /\ Changes <= FeedChanges

\* Producers read nothing of what the public reads, so that an event delivered
\* before the next one is stored might as well be delivered right after it.
\* They go on after a rebuild, whose result depends on when it happens.
ProducersFirst ==
  /\ FeedMoved /\ storefrontVars' # storefrontVars =>
       Healthy /\ Cardinality(Pending) <= 1
  /\ ShownMoved => shown' # shown \/ shownTimes' # shownTimes
                      \/ shownRevisions' # shownRevisions

\* A request meets itself or another one, a second save being that of a page; then
\* the first window publishes what it previews, the others being away.  The windows
\* being alike, one of them is the first to send.
FewRequests ==
  /\ Cardinality(handling) <= 2
  /\ \A h, i \in handling : h # i /\ h.request = i.request =>
       sent = 1 \/ h.request.kind = "PUBLISH"
  /\ \A r \in underway :
       /\ r.key = 2 => r.from = FirstWindow
       /\ r.key = 3 /\ r.kind = "SAVE" => DOMAIN r.input # Fields
  /\ sent > SaveBound =>
       /\ \A r \in underway : r.key = 4 => r.from = FirstWindow
       /\ \A w \in Windows : window[w] = Closed \/ w = FirstWindow
       /\ \A h \in handling : h.request.key = 4
       /\ Cardinality(handling) <= 1

Bounded == Separate /\ FewRequests

EditingAtRest == ShopInit /\ shop.revision = 0
DiscoveryAtRest == ~(StorefrontMoved \/ FeedMoved \/ ContentMoved \/ FollowingMoved)

OneMoves ==
  \/ ~FollowingMoved /\ StorefrontNext /\ UNCHANGED <<feedVars, followingVars, contentVars>>
  \/ /\ ~(FollowingMoved \/ ContentMoved)
     /\ FeedNext /\ UNCHANGED <<storefrontVars, followingVars, contentVars>>
  \/ /\ ~(StorefrontMoved \/ FeedMoved \/ ContentMoved)
     /\ FollowingNext /\ UNCHANGED <<storefrontVars, feedVars, contentVars>>
  \/ /\ ~(FollowingMoved \/ FeedMoved)
     /\ ContentNext /\ UNCHANGED <<storefrontVars, feedVars, followingVars>>
OneMovesSpec == Init /\ [][OneMoves]_vars

\* The editor moves while the rest is at rest, and the other way round.
EditingOrDiscovery ==
  \/ EditingAtRest /\ OneMoves /\ UNCHANGED shopVars
  \/ DiscoveryAtRest /\ ShopNext /\ UNCHANGED vars
MovesInit == Init /\ ShopInit
MovesSpec == MovesInit /\ [][EditingOrDiscovery]_<<vars, shopVars>>

Symmetry == Permutations(Products) \cup Permutations(Identities)
=============================================================================
