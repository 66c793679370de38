----------------------------- MODULE Discovery ------------------------------
(***************************************************************************)
(* The storefront's producers with everything that is projected for its    *)
(* public: the feed, the follower counts and the sales content.            *)
(***************************************************************************)
EXTENDS PublicFeed, StoreFollowing, SalesContent

vars == <<storefrontVars, feedVars, followingVars, contentVars>>

TypeOK == StorefrontTypeOK /\ FeedTypeOK /\ FollowingTypeOK /\ ContentTypeOK

Init == StorefrontInit /\ FeedInit /\ FollowingInit /\ ContentInit

Next ==
  \/ StorefrontNext /\ UNCHANGED <<feedVars, followingVars, contentVars>>
  \/ FeedNext /\ UNCHANGED <<storefrontVars, followingVars, contentVars>>
  \/ FollowingNext /\ UNCHANGED <<storefrontVars, feedVars, contentVars>>
  \/ ContentNext /\ UNCHANGED <<storefrontVars, feedVars, followingVars>>

Spec == Init /\ [][Next]_vars
=============================================================================
