-------------------------- MODULE DiscoveryProofs ---------------------------
(***************************************************************************)
(* Proofs about the parts that Discovery composes and about StoreEditing,  *)
(* for any number of windows, requests, methods, identities and stores.    *)
(* SeenInv: revisions of the editor tell what was seen.  TermInv: the      *)
(* identity and revision of a term tell its text.  FollowingInv: every     *)
(* row of the follower projection was told, and is as new as any that was  *)
(* counted, and each count is the size of the set it stands for.           *)
(* ContentInv: the log tells every publication in order, and each table    *)
(* of a content knows the newest of what was applied to it.                *)
(* FeedInv: each row of the feed stands for the newest of the events the   *)
(* feed was given, and what is not in a row waits in a buffer.             *)
(***************************************************************************)
EXTENDS Discovery, StoreEditing, FoldTheorems, TLAPS

-----------------------------------------------------------------------------
(* Rows, requests and windows. *)

StoreTypeOK ==
  /\ shop \in ShopRow
  /\ receipts \in [StoreKeys -> ShopRow]
  /\ window \in [Windows -> Window]
  /\ sent \in Nat
  /\ underway \subseteq Request
  /\ handling \subseteq Handler

LEMMA RowTypes ==
  /\ NoShop \in ShopRow /\ FormerShop \in ShopRow
  /\ Closed \in Window
  /\ NoShop.revision = 0 /\ NoShop.text = Filled(Unset) /\ NoShop.status = "DRAFT"
  /\ FormerShop.revision = 1
  /\ Closed.waiting = Unset /\ Closed.stage = "AWAY"
<1>1. KeyBound \in Nat /\ 0 \in 0 .. KeyBound + 1 /\ 1 \in 0 .. KeyBound + 1
  BY StoreEditingAssumption
<1>2. Filled(Unset) \in Text /\ Filled(Former) \in Text
  BY <1>1 DEF Filled, Text, Unset, Former
<1>3. NoTerm \in Term /\ [id |-> Former, revision |-> 1] \in Term
  BY <1>1 DEF NoTerm, Term, Unset, Former
<1>4. NoShop \in ShopRow /\ FormerShop \in ShopRow
  BY <1>2, <1>3 DEF NoShop, FormerShop, ShopRow
<1>5. Closed \in Window
  BY <1>2 DEF Closed, Window
<1> QED BY <1>4, <1>5 DEF NoShop, FormerShop, Closed

\* What is typed into a section.
LEMMA TypedType ==
  ASSUME StoreTypeOK, NEW w \in Windows, NEW section \in Sections, sent < SaveBound,
         NEW input \in Typed(w, section)
  PROVE  input \in Input /\ sent + 2 \in StoreKeys
<1>1. /\ KeyBound \in Nat /\ sent \in Nat /\ sent < KeyBound /\ sent + 2 \in StoreKeys
      /\ sent + 2 \in 0 .. KeyBound + 1 /\ Unset \in 0 .. KeyBound + 1
  BY StoreEditingAssumption DEF StoreTypeOK, StoreKeys, Unset
<1>2. section \subseteq Fields
  BY DEF Sections, Fields
<1>3. \A g \in Fields : window[w].seen[g] \in 0 .. KeyBound + 1
  BY DEF StoreTypeOK, Window, Text
<1>4. \A f, v : v \in 0 .. KeyBound + 1 => OneTyped(w, section, f, v) \in [section -> 0 .. KeyBound + 1]
  BY <1>2, <1>3 DEF OneTyped
<1>5. [f \in section |-> sent + 2] \in [section -> 0 .. KeyBound + 1]
  BY <1>1
<1>6. input \in [section -> 0 .. KeyBound + 1]
  BY <1>1, <1>4, <1>5 DEF Typed
<1> QED BY <1>1, <1>6 DEF Input

-----------------------------------------------------------------------------
(* Whoever names the revision the store is at has seen what it holds. *)

Known(row, revision, text) ==
  revision <= row.revision /\ (revision = row.revision => text = row.text)

ReceiptsKnown ==
  \A k \in StoreKeys :
    /\ Known(shop, receipts[k].revision, receipts[k].text)
    /\ Answerable(k) => k <= sent + 1

WindowsKnow ==
  \A w \in Windows :
    /\ Known(shop, window[w].revision, window[w].seen)
    /\ window[w].stage = "PREVIEW" => Known(shop, window[w].revision, window[w].shown)
    /\ window[w].waiting <= sent + 1

RequestsKnow ==
  \A r \in underway :
    /\ Known(shop, r.expected, r.seen)
    /\ r.key <= sent + 1
    /\ \A q \in underway : q.key = r.key => q = r

\* A publication's answer moves its window to another revision, whose text the window
\* shows already.
WaitingKnow ==
  \A r \in underway, w \in Windows :
    window[w].waiting = r.key =>
      /\ window[w].revision = r.expected
      /\ r.kind = "PUBLISH" => Known(shop, receipts[r.key].revision, window[w].seen)

\* What a handler read is as new as what its request builds on.
HandlerKnows(h) ==
  /\ h.request \in underway
  /\ h.read.revision <= shop.revision
  /\ h.read.revision = shop.revision => h.read = shop
  /\ h.step # "CHECKED" => h.request.expected <= h.read.revision
  /\ h.step = "READY" => h.request.kind = "PUBLISH" /\ Ready(h.read)
  /\ h.step = "SHOWN" =>
       h.request.kind = "PUBLISH" /\ (h.read.status = "PUBLISHED" \/ Ready(h.read))
HandlersKnow == \A h \in handling : HandlerKnows(h)

SeenInv ==
  /\ StoreTypeOK
  /\ shop.revision = 0 => shop = NoShop
  /\ ReceiptsKnown /\ WindowsKnow /\ RequestsKnow /\ WaitingKnow /\ HandlersKnow

\* A step leaves the store alone or takes it to the next revision.
Moves == shop' = shop \/ shop'.revision = shop.revision + 1

LEMMA StillKnown ==
  ASSUME shop \in ShopRow, Moves, NEW revision \in Nat, NEW text, Known(shop, revision, text)
  PROVE  Known(shop', revision, text)
<1>1. shop.revision \in Nat
  BY DEF ShopRow
<1> QED BY <1>1 DEF Moves, Known

LEMMA RequestsKeep ==
  ASSUME SeenInv, Moves, UNCHANGED <<underway, sent>>
  PROVE  underway' \subseteq Request /\ sent' \in Nat /\ RequestsKnow'
<1>1. \A r \in underway : Known(shop', r.expected, r.seen)
  BY StillKnown DEF SeenInv, StoreTypeOK, RequestsKnow, Request
<1> QED BY <1>1 DEF SeenInv, StoreTypeOK, RequestsKnow

LEMMA HandlersKeep ==
  ASSUME SeenInv, Moves, underway \subseteq underway', NEW h \in Handler, HandlerKnows(h)',
         handling' \subseteq handling \cup {h}
  PROVE  handling' \subseteq Handler /\ HandlersKnow'
<1> SUFFICES ASSUME NEW g \in handling'  PROVE g \in Handler /\ HandlerKnows(g)'
  BY DEF HandlersKnow
<1>1. CASE g = h
  BY <1>1
<1>2. CASE g \in handling
  <2>1. g \in Handler /\ HandlerKnows(g)
    BY <1>2 DEF SeenInv, StoreTypeOK, HandlersKnow
  <2>2. shop.revision \in Nat /\ g.read.revision \in Nat
    BY <2>1 DEF SeenInv, StoreTypeOK, Handler, ShopRow
  <2>3. g.read.revision <= shop'.revision /\ (g.read.revision = shop'.revision => g.read = shop')
    BY <2>1, <2>2 DEF HandlerKnows, Moves
  <2> QED BY <2>1, <2>3 DEF HandlerKnows
<1> QED BY <1>1, <1>2

LEMMA HandlersEnd ==
  ASSUME SeenInv, Moves, underway \subseteq underway', handling' \subseteq handling
  PROVE  handling' \subseteq Handler /\ HandlersKnow'
<1> SUFFICES ASSUME NEW g \in handling'  PROVE g \in Handler /\ HandlerKnows(g)'
  BY DEF HandlersKnow
<1>1. g \in Handler /\ HandlerKnows(g)
  BY DEF SeenInv, StoreTypeOK, HandlersKnow
<1>2. shop.revision \in Nat /\ g.read.revision \in Nat
  BY <1>1 DEF SeenInv, StoreTypeOK, Handler, ShopRow
<1>3. g.read.revision <= shop'.revision /\ (g.read.revision = shop'.revision => g.read = shop')
  BY <1>1, <1>2 DEF HandlerKnows, Moves
<1> QED BY <1>1, <1>3 DEF HandlerKnows

LEMMA GoesKeeps ==
  ASSUME SeenInv, Moves, UNCHANGED underway, NEW h \in handling, NEW step, Goes(h, step),
         step \in {"HIDING", "FAILED", "READY", "SHOWN"},
         step \in {"READY", "SHOWN"} => h.request.kind = "PUBLISH",
         step = "READY" => Ready(h.read),
         step = "SHOWN" => h.read.status = "PUBLISHED" \/ Ready(h.read),
         h.step # "CHECKED"
  PROVE  handling' \subseteq Handler /\ HandlersKnow'
<1> DEFINE g == [h EXCEPT !.step = step]
<1>1. h \in Handler /\ HandlerKnows(h)
  BY DEF SeenInv, StoreTypeOK, HandlersKnow
<1>2. g \in Handler /\ g.request = h.request /\ g.read = h.read /\ g.step = step
  BY <1>1 DEF Handler
<1>3. shop.revision \in Nat /\ h.read.revision \in Nat
  BY <1>1 DEF SeenInv, StoreTypeOK, Handler, ShopRow
<1>4. handling' \subseteq handling \cup {g}
  BY DEF Goes
<1> HIDE DEF g
<1>5. h.read.revision <= shop'.revision /\ (h.read.revision = shop'.revision => h.read = shop')
  BY <1>1, <1>3 DEF HandlerKnows, Moves
<1>6. HandlerKnows(g)'
  BY <1>1, <1>2, <1>5 DEF HandlerKnows
<1> QED BY <1>2, <1>4, <1>6, HandlersKeep

\* The answer of a request, whatever its transaction did.
LEMMA AnswersKeep ==
  ASSUME SeenInv, UNCHANGED <<underway, sent>>, NEW r \in underway,
         Answers(r, receipts'[r.key]),
         shop' \in ShopRow, receipts' \in [StoreKeys -> ShopRow],
         shop'.revision = 0 => shop' = NoShop,
         \A k \in StoreKeys : Known(shop', receipts'[k].revision, receipts'[k].text),
         \A w \in Windows :
           /\ Known(shop', window[w].revision, window[w].seen)
           /\ window[w].stage = "PREVIEW" => Known(shop', window[w].revision, window[w].shown),
         \A q \in underway, w \in Windows : window[w].waiting = q.key /\ q.kind = "PUBLISH" =>
           Known(shop', receipts'[q.key].revision, window[w].seen)
  PROVE  window' \in [Windows -> Window] /\ WindowsKnow' /\ WaitingKnow'
<1>1. CASE UNCHANGED window
  BY <1>1 DEF SeenInv, StoreTypeOK, WindowsKnow, WaitingKnow
<1>2. CASE /\ window[r.from].waiting = r.key
           /\ window' = [window EXCEPT ![r.from] = Answered(@, r, receipts'[r.key])]
  <2>1. r \in Request /\ r.from \in Windows /\ r.key \in StoreKeys /\ r.key <= sent + 1
    BY DEF SeenInv, StoreTypeOK, Request, RequestsKnow
  <2>2. window[r.from] \in Window /\ receipts'[r.key] \in ShopRow /\ sent \in Nat
    BY <2>1 DEF SeenInv, StoreTypeOK
  <2>3. PICK win : win = Answered(window[r.from], r, receipts'[r.key])
    OBVIOUS
  <2>4. /\ win \in Window /\ win.waiting = Unset
        /\ Known(shop', win.revision, win.seen)
        /\ win.stage # "PREVIEW"
    <3>1. CASE r.kind = "PUBLISH"
      <4>1. Known(shop', receipts'[r.key].revision, window[r.from].seen)
        BY <1>2, <2>1, <3>1
      <4>2. win = [window[r.from] EXCEPT !.waiting = Unset, !.stage = "EDIT",
                                         !.revision = receipts'[r.key].revision]
        BY <2>3, <3>1 DEF Answered
      <4> QED BY <2>2, <4>1, <4>2 DEF Window, ShopRow
    <3>2. CASE r.kind # "PUBLISH" /\ r.exits
      <4>1. win = Closed
        BY <2>3, <3>2 DEF Answered
      <4>2. shop'.revision \in Nat
        BY DEF ShopRow
      <4> QED BY <4>1, <4>2, RowTypes DEF Closed, Known
    <3>3. CASE r.kind # "PUBLISH" /\ ~r.exits
      <4>1. win = [window[r.from] EXCEPT !.waiting = Unset, !.stage = "LOADING",
                      !.revision = receipts'[r.key].revision, !.seen = receipts'[r.key].text]
        BY <2>3, <3>3 DEF Answered
      <4>2. Known(shop', receipts'[r.key].revision, receipts'[r.key].text)
        BY <2>1
      <4> QED BY <2>2, <4>1, <4>2 DEF Window, ShopRow
    <3> QED BY <3>1, <3>2, <3>3
  <2>5. window' = [window EXCEPT ![r.from] = win]
    BY <1>2, <2>3
  <2>6. window' \in [Windows -> Window]
    BY <2>1, <2>4, <2>5 DEF SeenInv, StoreTypeOK
  <2>7. WindowsKnow'
    BY <2>1, <2>2, <2>4, <2>5 DEF SeenInv, StoreTypeOK, WindowsKnow, Unset
  <2>8. \A q \in underway : q.key # Unset
    BY DEF SeenInv, StoreTypeOK, Request, StoreKeys, Unset
  <2>9. WaitingKnow'
    BY <2>1, <2>4, <2>5, <2>8 DEF SeenInv, StoreTypeOK, WaitingKnow
  <2> QED BY <2>6, <2>7, <2>9
<1> QED BY <1>1, <1>2 DEF Answers

-----------------------------------------------------------------------------
(* Every step keeps it. *)

LEMMA SeenInit == ShopInit => SeenInv
<1> SUFFICES ASSUME ShopInit  PROVE SeenInv
  OBVIOUS
<1>1. shop \in ShopRow /\ shop.revision \in Nat /\ (shop.revision = 0 => shop = NoShop)
  BY RowTypes DEF ShopInit, ShopRow
<1>2. StoreTypeOK
  BY <1>1, RowTypes DEF ShopInit, StoreTypeOK
<1>3. ReceiptsKnown
  BY <1>1, RowTypes DEF ShopInit, ReceiptsKnown, Known, Answerable
<1>4. WindowsKnow
  BY <1>1, RowTypes DEF ShopInit, WindowsKnow, Known, Closed, Unset
<1> QED BY <1>1, <1>2, <1>3, <1>4
       DEF ShopInit, SeenInv, RequestsKnow, WaitingKnow, HandlersKnow

LEMMA WindowStep ==
  ASSUME SeenInv, UNCHANGED <<shop, receipts, handling, sent, underway>>,
         NEW w \in Windows, NEW win \in Window, window' = [window EXCEPT ![w] = win],
         Known(shop, win.revision, win.seen),
         win.stage = "PREVIEW" => Known(shop, win.revision, win.shown),
         \/ win.waiting = Unset
         \/ /\ win.waiting = window[w].waiting
            /\ win.revision = window[w].revision /\ win.seen = window[w].seen
  PROVE  SeenInv'
<1>1. StoreTypeOK'
  BY DEF SeenInv, StoreTypeOK
<1>2. ReceiptsKnown' /\ RequestsKnow' /\ HandlersKnow' /\ (shop'.revision = 0 => shop' = NoShop)
  BY DEF SeenInv, ReceiptsKnown, Answerable, RequestsKnow, HandlersKnow, HandlerKnows
<1>3. WindowsKnow'
  BY DEF SeenInv, StoreTypeOK, WindowsKnow, Unset
<1>4. \A q \in underway : q.key # Unset
  BY DEF SeenInv, StoreTypeOK, Request, StoreKeys, Unset
<1>5. WaitingKnow'
  BY <1>4 DEF SeenInv, StoreTypeOK, WaitingKnow
<1> QED BY <1>1, <1>2, <1>3, <1>5 DEF SeenInv

LEMMA AskStep ==
  ASSUME SeenInv, NEW w \in Windows, NEW kind \in {"SAVE", "PUBLISH"},
         NEW input \in Input \cup {<<>>}, NEW seen \in Text, NEW exits \in BOOLEAN,
         sent + 2 \in StoreKeys, Known(shop, window[w].revision, seen),
         Asks(w, kind, input, seen, exits)
  PROVE  SeenInv'
<1> DEFINE new == [key |-> sent + 2, from |-> w, kind |-> kind,
                   expected |-> window[w].revision, input |-> input, seen |-> seen,
                   exits |-> exits]
           win == [window[w] EXCEPT !.waiting = sent + 2]
<1>1. sent \in Nat /\ window[w] \in Window
  BY DEF SeenInv, StoreTypeOK
<1>2. /\ new \in Request /\ new.key = sent + 2 /\ new.kind = kind
      /\ new.expected = window[w].revision /\ new.seen = seen
  BY <1>1 DEF Request, Window
<1>3. /\ win \in Window /\ win.waiting = sent + 2 /\ win.revision = window[w].revision
      /\ win.seen = window[w].seen /\ win.shown = window[w].shown
      /\ win.stage = window[w].stage
  BY <1>1 DEF Window
<1>4. /\ sent' = sent + 1 /\ underway' = underway \cup {new}
      /\ window' = [window EXCEPT ![w] = win]
      /\ UNCHANGED <<shop, receipts, handling>>
  BY DEF Asks, WindowOnly
<1> HIDE DEF new, win
<1>5. StoreTypeOK'
  BY <1>1, <1>2, <1>3, <1>4 DEF SeenInv, StoreTypeOK
<1>6. ReceiptsKnown' /\ (shop'.revision = 0 => shop' = NoShop)
  BY <1>1, <1>4 DEF SeenInv, ReceiptsKnown, Answerable, StoreKeys
<1>7. HandlersKnow'
  BY <1>4 DEF SeenInv, HandlersKnow, HandlerKnows
<1>8. \A q \in underway : q.key <= sent + 1 /\ q.key \in Nat
  BY DEF SeenInv, StoreTypeOK, RequestsKnow, Request, StoreKeys
<1>9. RequestsKnow'
  BY <1>1, <1>2, <1>4, <1>8 DEF SeenInv, RequestsKnow
<1>10. \A v \in Windows : window[v].waiting <= sent + 1 /\ window[v].waiting \in Nat
  BY DEF SeenInv, StoreTypeOK, WindowsKnow, Window, StoreKeys, Unset
<1>11. WindowsKnow'
  BY <1>1, <1>3, <1>4, <1>10 DEF SeenInv, StoreTypeOK, WindowsKnow
<1>12. WaitingKnow'
  <2> SUFFICES ASSUME NEW r \in underway', NEW v \in Windows, window'[v].waiting = r.key
               PROVE  /\ window'[v].revision = r.expected
                      /\ r.kind = "PUBLISH" =>
                           Known(shop, receipts[r.key].revision, window'[v].seen)
    BY <1>4 DEF WaitingKnow
  <2>1. CASE r = new
    <3>1. v = w /\ window'[v] = win
      BY <1>1, <1>2, <1>3, <1>4, <1>10, <2>1 DEF SeenInv, StoreTypeOK
    <3>2. ~Answerable(sent + 2)
      BY <1>1 DEF SeenInv, ReceiptsKnown
    <3>3. receipts[r.key].revision = 0 /\ shop.revision \in Nat
      BY <1>2, <2>1, <3>2, RowTypes DEF Answerable, SeenInv, StoreTypeOK, ShopRow
    <3>4. window[w].revision \in Nat /\ Known(shop, window[w].revision, window[w].seen)
      BY <1>1 DEF Window, SeenInv, WindowsKnow
    <3> QED BY <1>2, <1>3, <2>1, <3>1, <3>3, <3>4 DEF Known
  <2>2. CASE r \in underway
    <3>1. v # w /\ window'[v] = window[v]
      BY <1>1, <1>3, <1>4, <1>8, <2>2 DEF SeenInv, StoreTypeOK
    <3> QED BY <2>2, <3>1 DEF SeenInv, WaitingKnow
  <2> QED BY <1>4, <2>1, <2>2
<1> QED BY <1>5, <1>6, <1>7, <1>9, <1>11, <1>12 DEF SeenInv

\* A handler's step that leaves the store as it is, and may answer.
LEMMA HandlerStep ==
  ASSUME SeenInv, UNCHANGED <<shop, receipts, sent, underway>>, NEW r \in underway,
         handling' \subseteq Handler /\ HandlersKnow',
         UNCHANGED window \/ Answers(r, receipts[r.key])
  PROVE  SeenInv'
<1>1. Answers(r, receipts'[r.key])
  BY DEF Answers
<1>2. window' \in [Windows -> Window] /\ WindowsKnow' /\ WaitingKnow'
  <2>1. shop' \in ShopRow /\ receipts' \in [StoreKeys -> ShopRow]
        /\ (shop'.revision = 0 => shop' = NoShop)
    BY DEF SeenInv, StoreTypeOK
  <2>2. \A k \in StoreKeys : Known(shop', receipts'[k].revision, receipts'[k].text)
    BY DEF SeenInv, ReceiptsKnown
  <2>3. \A w \in Windows :
          /\ Known(shop', window[w].revision, window[w].seen)
          /\ window[w].stage = "PREVIEW" => Known(shop', window[w].revision, window[w].shown)
    BY DEF SeenInv, WindowsKnow
  <2>4. \A q \in underway, w \in Windows : window[w].waiting = q.key /\ q.kind = "PUBLISH" =>
           Known(shop', receipts'[q.key].revision, window[w].seen)
    BY DEF SeenInv, WaitingKnow
  <2> QED BY <1>1, <2>1, <2>2, <2>3, <2>4, AnswersKeep
<1>3. RequestsKnow' /\ ReceiptsKnown' /\ (shop'.revision = 0 => shop' = NoShop)
  BY DEF SeenInv, RequestsKnow, ReceiptsKnown, Answerable
<1> QED BY <1>2, <1>3 DEF SeenInv, StoreTypeOK

\* The transaction leaves the store alone or takes it to the next revision; the window
\* of a publication showed the text its transaction keeps.
LEMMA CommitStep ==
  ASSUME SeenInv, UNCHANGED <<sent, underway>>, NEW r \in underway, NEW row \in ShopRow,
         Commit(r, row), Answers(r, receipts'[r.key]) \/ UNCHANGED window,
         row = shop \/ row.revision = shop.revision + 1,
         r.kind = "PUBLISH" => row.text = shop.text,
         Moves => handling' \subseteq Handler /\ HandlersKnow'
  PROVE  SeenInv'
<1>1. /\ r \in Request /\ r.key \in StoreKeys /\ r.key <= sent + 1
      /\ shop \in ShopRow /\ shop.revision \in Nat /\ row.revision \in Nat
      /\ receipts \in [StoreKeys -> ShopRow]
  BY DEF SeenInv, StoreTypeOK, Request, RequestsKnow, ShopRow
<1>2. CASE UNCHANGED <<shop, receipts>>
  BY <1>2, HandlerStep DEF Moves
<1>3. CASE shop.revision = r.expected /\ Commits(r.key, row)
  <2>1. /\ Moves /\ shop' = row /\ receipts' = [receipts EXCEPT ![r.key] = row]
        /\ shop' \in ShopRow /\ receipts' \in [StoreKeys -> ShopRow]
    BY <1>1, <1>3 DEF Commits, Moves
  <2>2. shop'.revision = 0 => shop' = NoShop
    BY <1>1, <2>1 DEF SeenInv
  <2>3. \A k \in StoreKeys : receipts[k].revision \in Nat
    BY <1>1 DEF ShopRow
  <2>4. \A k \in StoreKeys : Known(shop', receipts'[k].revision, receipts'[k].text)
    <3> SUFFICES ASSUME NEW k \in StoreKeys
                 PROVE  Known(shop', receipts'[k].revision, receipts'[k].text)
      OBVIOUS
    <3>1. CASE k = r.key
      BY <1>1, <2>1, <3>1 DEF Known
    <3>2. CASE k # r.key
      <4>1. receipts'[k] = receipts[k] /\ Known(shop, receipts[k].revision, receipts[k].text)
        BY <1>1, <2>1, <3>2 DEF SeenInv, ReceiptsKnown
      <4> QED BY <1>1, <2>1, <2>3, <4>1, StillKnown
    <3> QED BY <3>1, <3>2
  <2>5. ReceiptsKnown'
    BY <1>1, <2>1, <2>4 DEF SeenInv, ReceiptsKnown, Answerable
  <2>6. \A w \in Windows :
          /\ Known(shop', window[w].revision, window[w].seen)
          /\ window[w].stage = "PREVIEW" => Known(shop', window[w].revision, window[w].shown)
    BY <1>1, <2>1, StillKnown DEF SeenInv, StoreTypeOK, WindowsKnow, Window
  <2>7. \A q \in underway, w \in Windows : window[w].waiting = q.key /\ q.kind = "PUBLISH" =>
           Known(shop', receipts'[q.key].revision, window[w].seen)
    <3> SUFFICES ASSUME NEW q \in underway, NEW w \in Windows, window[w].waiting = q.key,
                        q.kind = "PUBLISH"
                 PROVE  Known(shop', receipts'[q.key].revision, window[w].seen)
      OBVIOUS
    <3>1. /\ q.key \in StoreKeys
          /\ window[w].revision = q.expected
          /\ Known(shop, receipts[q.key].revision, window[w].seen)
          /\ Known(shop, window[w].revision, window[w].seen)
      BY DEF SeenInv, StoreTypeOK, Request, WaitingKnow, WindowsKnow
    <3>2. CASE q.key = r.key
      <4>1. q = r
        BY <3>2 DEF SeenInv, RequestsKnow
      <4>2. receipts'[q.key] = row /\ window[w].seen = row.text
        BY <1>1, <1>3, <2>1, <3>1, <4>1 DEF Known
      <4> QED BY <1>1, <2>1, <4>2 DEF Known
    <3>3. CASE q.key # r.key
      <4>1. receipts'[q.key] = receipts[q.key]
        BY <1>1, <2>1, <3>1, <3>3
      <4> QED BY <1>1, <2>1, <2>3, <3>1, <4>1, StillKnown
    <3> QED BY <3>2, <3>3
  <2>8. Answers(r, receipts'[r.key])
    BY DEF Answers
  <2>9. window' \in [Windows -> Window] /\ WindowsKnow' /\ WaitingKnow'
    BY <2>1, <2>2, <2>4, <2>6, <2>7, <2>8, AnswersKeep
  <2>10. underway' \subseteq Request /\ sent' \in Nat /\ RequestsKnow'
    BY <2>1, RequestsKeep
  <2> QED BY <2>1, <2>2, <2>5, <2>9, <2>10 DEF SeenInv, StoreTypeOK
<1> QED BY <1>2, <1>3 DEF Commit, Replays

\* What a save makes of the store it read, if that is still there.
LEMMA MergedRow ==
  ASSUME SeenInv, NEW h \in handling, h.request.kind = "SAVE", h.step = "READ",
         shop.revision = h.request.expected
  PROVE  /\ h.read = shop
         /\ Merged(h.read, h.request.input, h.request.key).text
              = Over(h.request.input, shop.text)
<1>1. h \in Handler /\ HandlerKnows(h) /\ shop.revision \in Nat
  BY DEF SeenInv, StoreTypeOK, HandlersKnow, ShopRow
<1>2. h.read.revision \in Nat
  BY <1>1 DEF Handler, ShopRow
<1>3. h.read = shop
  BY <1>1, <1>2 DEF HandlerKnows
<1> QED BY <1>3 DEF Merged

LEMMA MergedType ==
  ASSUME SeenInv, NEW h \in handling, h.request.kind = "SAVE"
  PROVE  /\ Merged(h.read, h.request.input, h.request.key) \in ShopRow
         /\ Merged(h.read, h.request.input, h.request.key).revision = shop.revision + 1
<1> DEFINE row == h.read  input == h.request.input  k == h.request.key
<1>1. /\ h \in Handler /\ row \in ShopRow /\ shop \in ShopRow
      /\ h.request \in Request /\ k \in StoreKeys
      /\ input \in Input \cup {<<>>}
  BY DEF SeenInv, StoreTypeOK, Handler, Request
<1>2. KeyBound \in Nat /\ k \in 0 .. KeyBound + 1 /\ 0 \in 0 .. KeyBound + 1 /\ 1 \in Nat
  BY <1>1, StoreEditingAssumption DEF StoreKeys
<1>3. \A f \in DOMAIN input : input[f] \in 0 .. KeyBound + 1
  BY <1>1 DEF Input
<1>4. row.text \in Text /\ row.term \in [Terms -> Term] /\ Terms \subseteq Fields
  BY <1>1 DEF ShopRow, Terms, Fields
<1> HIDE DEF row, input, k
<1>5. Over(input, row.text) \in Text
  BY <1>3, <1>4 DEF Over, Text
<1>6. \A f \in Terms : NextTerm(row, input, f, k) \in Term
  <2> SUFFICES ASSUME NEW f \in Terms  PROVE NextTerm(row, input, f, k) \in Term
    OBVIOUS
  <2>1. row.term[f] \in Term
    BY <1>4
  <2>2. PICK t : t = row.term[f]
    OBVIOUS
  <2>3. t \in Term /\ [t EXCEPT !.revision = t.revision + 1] \in Term
    BY <2>1, <2>2 DEF Term
  <2>4. NoTerm \in Term /\ [id |-> k, revision |-> 1] \in Term
    BY <1>2 DEF NoTerm, Term, Unset
  <2>5. [row.term[f] EXCEPT !.revision = @ + 1] = [t EXCEPT !.revision = t.revision + 1]
    BY <2>2
  <2> QED BY <2>1, <2>3, <2>4, <2>5 DEF NextTerm
<1>7. Merged(row, input, k) \in ShopRow /\ Merged(row, input, k).revision = shop.revision + 1
  BY <1>1, <1>5, <1>6 DEF Merged, ShopRow
<1> QED BY <1>7 DEF row, input, k

LEMMA PublishedCases ==
  ASSUME NEW row \in ShopRow, NEW public, public = Published(row)
  PROVE  /\ public \in ShopRow /\ public.text = row.text /\ public.term = row.term
         /\ public = row \/ public.revision = row.revision + 1
<1>1. PICK r, p : r = row.revision + 1 /\ p = row.publication + 1
  OBVIOUS
<1>2. r \in Nat /\ p \in Nat
  BY <1>1 DEF ShopRow
<1>3. PICK next : next = [row EXCEPT !.status = "PUBLISHED", !.revision = r,
                                     !.publication = p]
  OBVIOUS
<1>4. next \in ShopRow /\ next.text = row.text /\ next.term = row.term /\ next.revision = r
  BY <1>2, <1>3 DEF ShopRow
<1>5. public = row
        \/ public = [row EXCEPT !.status = "PUBLISHED", !.revision = @ + 1, !.publication = @ + 1]
  BY DEF Published
<1>6. next = [row EXCEPT !.status = "PUBLISHED", !.revision = @ + 1, !.publication = @ + 1]
  BY <1>1, <1>3, Zenon
<1>7. public = row \/ public = next
  BY <1>5, <1>6
<1> QED BY <1>1, <1>4, <1>7

LEMMA PublishedRow ==
  ASSUME SeenInv
  PROVE  /\ Published(shop) \in ShopRow /\ Published(shop).text = shop.text
         /\ Published(shop).term = shop.term
         /\ Published(shop) = shop \/ Published(shop).revision = shop.revision + 1
<1>1. shop \in ShopRow
  BY DEF SeenInv, StoreTypeOK
<1> QED BY <1>1, PublishedCases

LEMMA SeenStep == ASSUME SeenInv, ShopNext  PROVE SeenInv'
<1>1. CASE Provision
  <2>1. /\ shop = NoShop /\ shop' = [NoShop EXCEPT !.revision = 1]
        /\ UNCHANGED <<receipts, visible, window, sent, underway, handling>>
    BY <1>1 DEF Provision, SeenInv
  <2>2. shop' \in ShopRow /\ shop'.revision = 1 /\ shop.revision = 0
        /\ Moves /\ shop \in ShopRow
    BY <2>1, RowTypes DEF ShopRow, Moves
  <2>3. StoreTypeOK'
    BY <2>1, <2>2 DEF SeenInv, StoreTypeOK
  <2>4. ReceiptsKnown'
    <3>1. \A k \in StoreKeys : Known(shop', receipts[k].revision, receipts[k].text)
      BY <2>2, StillKnown DEF SeenInv, StoreTypeOK, ReceiptsKnown, ShopRow
    <3> QED BY <2>1, <3>1 DEF SeenInv, ReceiptsKnown, Answerable
  <2>5. WindowsKnow'
    <3>1. \A w \in Windows :
            /\ Known(shop', window[w].revision, window[w].seen)
            /\ window[w].stage = "PREVIEW" => Known(shop', window[w].revision, window[w].shown)
      BY <2>2, StillKnown DEF SeenInv, StoreTypeOK, WindowsKnow, Window
    <3> QED BY <2>1, <3>1 DEF SeenInv, WindowsKnow
  <2>6. WaitingKnow'
    <3>1. \A r \in underway, w \in Windows : window[w].waiting = r.key /\ r.kind = "PUBLISH" =>
            Known(shop', receipts[r.key].revision, window[w].seen)
      <4> SUFFICES ASSUME NEW r \in underway, NEW w \in Windows, window[w].waiting = r.key,
                          r.kind = "PUBLISH"
                   PROVE  Known(shop', receipts[r.key].revision, window[w].seen)
        OBVIOUS
      <4>1. Known(shop, receipts[r.key].revision, window[w].seen)
            /\ receipts[r.key].revision \in Nat
        BY DEF SeenInv, StoreTypeOK, WaitingKnow, Request, ShopRow
      <4> QED BY <2>2, <4>1, StillKnown
    <3> QED BY <2>1, <3>1 DEF SeenInv, WaitingKnow
  <2>7. RequestsKnow'
    BY <2>1, <2>2, RequestsKeep
  <2>8. HandlersKnow'
    BY <2>1, <2>2, HandlersEnd
  <2> QED BY <2>2, <2>3, <2>4, <2>5, <2>6, <2>7, <2>8 DEF SeenInv
<1>2. ASSUME NEW w \in Windows, Load(w)  PROVE SeenInv'
  <2> DEFINE win == [Closed EXCEPT !.stage = "EDIT", !.revision = shop.revision,
                                   !.seen = shop.text]
  <2>1. /\ win \in Window /\ win.revision = shop.revision /\ win.seen = shop.text
        /\ win.stage = "EDIT" /\ win.waiting = Unset /\ shop.revision \in Nat
    BY RowTypes DEF SeenInv, StoreTypeOK, ShopRow, Window, Closed
  <2>2. /\ UNCHANGED <<shop, receipts, handling, sent, underway>>
        /\ window' = [window EXCEPT ![w] = win]
    BY <1>2 DEF Load, WindowOnly
  <2> HIDE DEF win
  <2>3. Known(shop, win.revision, win.seen)
    BY <2>1 DEF Known
  <2> QED BY <2>1, <2>2, <2>3, WindowStep
<1>3. ASSUME NEW w \in Windows, ShowPreview(w)  PROVE SeenInv'
  <2> DEFINE win == [window[w] EXCEPT !.stage = "PREVIEW", !.shown = shop.text]
  <2>1. /\ win \in Window /\ win.revision = window[w].revision /\ win.seen = window[w].seen
        /\ win.waiting = window[w].waiting /\ win.shown = shop.text
        /\ Known(shop, window[w].revision, window[w].seen)
    BY DEF SeenInv, StoreTypeOK, ShopRow, Window, WindowsKnow
  <2>2. /\ UNCHANGED <<shop, receipts, handling, sent, underway>>
        /\ window' = [window EXCEPT ![w] = win]
    BY <1>3 DEF ShowPreview, WindowOnly, SeenInv, StoreTypeOK
  <2> HIDE DEF win
  <2>3. Known(shop, win.revision, win.shown)
    BY <2>1 DEF Known
  <2> QED BY <2>1, <2>2, <2>3, WindowStep
<1>4. ASSUME NEW w \in Windows, BackToEditing(w)  PROVE SeenInv'
  <2> DEFINE win == [window[w] EXCEPT !.stage = "EDIT"]
  <2>1. /\ win \in Window /\ win.revision = window[w].revision /\ win.seen = window[w].seen
        /\ win.waiting = window[w].waiting /\ win.stage = "EDIT"
        /\ Known(shop, window[w].revision, window[w].seen)
    BY DEF SeenInv, StoreTypeOK, Window, WindowsKnow
  <2>2. /\ UNCHANGED <<shop, receipts, handling, sent, underway>>
        /\ window' = [window EXCEPT ![w] = win]
    BY <1>4 DEF BackToEditing, WindowOnly, SeenInv, StoreTypeOK
  <2> HIDE DEF win
  <2> QED BY <2>1, <2>2, WindowStep
<1>5. ASSUME NEW w \in Windows, GivesUp(w)  PROVE SeenInv'
  <2> DEFINE win == [window[w] EXCEPT !.waiting = Unset]
  <2>1. /\ win \in Window /\ win.revision = window[w].revision /\ win.seen = window[w].seen
        /\ win.waiting = Unset /\ win.stage = window[w].stage /\ win.shown = window[w].shown
        /\ Known(shop, window[w].revision, window[w].seen)
        /\ window[w].stage = "PREVIEW" => Known(shop, window[w].revision, window[w].shown)
    BY DEF SeenInv, StoreTypeOK, Window, WindowsKnow
  <2>2. /\ UNCHANGED <<shop, receipts, handling, sent, underway>>
        /\ window' = [window EXCEPT ![w] = win]
    BY <1>5 DEF GivesUp, WindowOnly, SeenInv, StoreTypeOK
  <2> HIDE DEF win
  <2> QED BY <2>1, <2>2, WindowStep
<1>6. ASSUME NEW w \in Windows, NEW section \in Sections, NEW exits \in BOOLEAN,
             Save(w, section, exits)
      PROVE  SeenInv'
  <2>1. PICK input \in Typed(w, section) : Asks(w, "SAVE", input, window[w].seen, exits)
    BY <1>6 DEF Save
  <2>2. input \in Input /\ sent + 2 \in StoreKeys
    BY <1>6, TypedType DEF SeenInv, Save
  <2>3. window[w].seen \in Text /\ Known(shop, window[w].revision, window[w].seen)
    BY DEF SeenInv, StoreTypeOK, Window, WindowsKnow
  <2> QED BY <2>1, <2>2, <2>3, AskStep
<1>7. ASSUME NEW w \in Windows, Publish(w)  PROVE SeenInv'
  <2>1. window[w].shown \in Text /\ Known(shop, window[w].revision, window[w].shown)
    BY <1>7 DEF Publish, SeenInv, StoreTypeOK, Window, WindowsKnow
  <2>2. sent + 2 \in StoreKeys
    BY <1>7, StoreEditingAssumption DEF Publish, SeenInv, StoreTypeOK, StoreKeys
  <2> QED BY <1>7, <2>1, <2>2, AskStep DEF Publish
<1>8. ASSUME NEW r \in underway, Arrives(r)  PROVE SeenInv'
  <2>1. /\ UNCHANGED <<shop, receipts, sent, underway>> /\ Moves /\ r \in Request
        /\ shop \in ShopRow /\ shop.revision \in Nat /\ r.expected \in Nat
    BY <1>8 DEF Arrives, Moves, SeenInv, StoreTypeOK, ShopRow, Request
  <2>2. CASE UNCHANGED handling /\ Answers(r, receipts[r.key])
    <3>1. handling' \subseteq Handler /\ HandlersKnow'
      BY <2>1, <2>2, HandlersEnd
    <3> QED BY <2>1, <2>2, <3>1, HandlerStep
  <2>3. CASE Begins(r, "READ", shop) /\ UNCHANGED window
    <3>0. PICK h : h = [request |-> r, step |-> "READ", read |-> shop]
      OBVIOUS
    <3>1. h \in Handler /\ h.request = r /\ h.step = "READ" /\ h.read = shop
      BY <2>1, <3>0 DEF Handler
    <3>2. handling' \subseteq handling \cup {h}
      BY <2>3, <3>0 DEF Begins
    <3>3. HandlerKnows(h)'
      BY <2>1, <3>1 DEF HandlerKnows, SeenInv, RequestsKnow, Known
    <3>4. handling' \subseteq Handler /\ HandlersKnow'
      BY <2>1, <3>1, <3>2, <3>3, HandlersKeep
    <3> QED BY <2>1, <2>3, <3>4, HandlerStep
  <2>4. CASE Begins(r, "CHECKED", NoShop) /\ UNCHANGED window
    <3> DEFINE h == [request |-> r, step |-> "CHECKED", read |-> NoShop]
    <3>1. /\ h \in Handler /\ h.request = r /\ h.step = "CHECKED" /\ h.read = NoShop
          /\ h.read.revision = 0
      BY <2>1, RowTypes DEF Handler
    <3>2. handling' \subseteq handling \cup {h}
      BY <2>4 DEF Begins
    <3> HIDE DEF h
    <3>3. HandlerKnows(h)'
      BY <2>1, <3>1 DEF HandlerKnows, SeenInv
    <3>4. handling' \subseteq Handler /\ HandlersKnow'
      BY <2>1, <3>1, <3>2, <3>3, HandlersKeep
    <3> QED BY <2>1, <2>4, <3>4, HandlerStep
  <2> QED BY <1>8, <2>2, <2>3, <2>4 DEF Arrives
<1>9. ASSUME NEW h \in handling  PROVE h \in Handler /\ HandlerKnows(h) /\ h.request \in underway
  BY DEF SeenInv, StoreTypeOK, HandlersKnow, HandlerKnows
<1>10. ASSUME NEW h \in handling, ReadsShop(h)  PROVE SeenInv'
  <2>0. PICK g : g = [h EXCEPT !.step = "READ", !.read = shop]
    OBVIOUS
  <2>1. /\ UNCHANGED <<shop, receipts, window, sent, underway>> /\ Moves
        /\ handling' \subseteq handling \cup {g}
        /\ shop \in ShopRow /\ shop.revision \in Nat
    BY <1>10, <2>0 DEF ReadsShop, Moves, SeenInv, StoreTypeOK, ShopRow
  <2>2. g \in Handler /\ g.request = h.request /\ g.step = "READ" /\ g.read = shop
    BY <1>9, <2>0, <2>1 DEF Handler
  <2>3. h.request.expected <= shop.revision
    BY <1>9 DEF SeenInv, RequestsKnow, Known
  <2>4. HandlerKnows(g)'
    BY <1>9, <2>1, <2>2, <2>3 DEF HandlerKnows
  <2>5. handling' \subseteq Handler /\ HandlersKnow'
    BY <2>1, <2>2, <2>4, HandlersKeep
  <2> QED BY <1>9, <2>1, <2>5, HandlerStep
<1>11. ASSUME NEW h \in handling, CommitSave(h)  PROVE SeenInv'
  <2> DEFINE row == Merged(h.read, h.request.input, h.request.key)
  <2>1. /\ h.request.kind = "SAVE" /\ h.step = "READ" /\ Commit(h.request, row)
        /\ UNCHANGED <<sent, underway>>
        /\ UNCHANGED window \/ Answers(h.request, receipts'[h.request.key])
        /\ Goes(h, "HIDING") \/ Ends(h)
    BY <1>11 DEF CommitSave, Keyed
  <2>2. row \in ShopRow /\ row.revision = shop.revision + 1
    BY <2>1, MergedType
  <2> HIDE DEF row
  <2>3. Moves => handling' \subseteq Handler /\ HandlersKnow'
    <3>1. CASE Goes(h, "HIDING")
      BY <2>1, <3>1, GoesKeeps
    <3>2. CASE Ends(h)
      BY <2>1, <3>2, HandlersEnd DEF Ends
    <3> QED BY <2>1, <3>1, <3>2
  <2> QED BY <1>9, <2>1, <2>2, <2>3, CommitStep
<1>12. ASSUME NEW h \in handling, HidePictures(h)  PROVE SeenInv'
  <2>1. /\ UNCHANGED <<shop, receipts, sent, underway>> /\ Moves /\ handling' \subseteq handling
        /\ Answers(h.request, receipts[h.request.key])
    BY <1>12 DEF HidePictures, Moves, Ends, Keyed
  <2>2. handling' \subseteq Handler /\ HandlersKnow'
    BY <2>1, HandlersEnd
  <2> QED BY <1>9, <2>1, <2>2, HandlerStep
<1>13. ASSUME NEW h \in handling, ChecksPublication(h)  PROVE SeenInv'
  <2>1. /\ UNCHANGED <<shop, receipts, sent, underway>> /\ Moves
        /\ h.request.kind = "PUBLISH" /\ h.step = "READ"
        /\ UNCHANGED window \/ Answers(h.request, receipts[h.request.key])
    BY <1>13 DEF ChecksPublication, Moves, Keyed
  <2>2. handling' \subseteq Handler /\ HandlersKnow'
    <3>1. CASE Ends(h)
      BY <2>1, <3>1, HandlersEnd DEF Ends
    <3>2. CASE h.read.status = "PUBLISHED" /\ Goes(h, "SHOWN")
      BY <2>1, <3>2, GoesKeeps
    <3>3. CASE Ready(h.read) /\ Goes(h, "READY")
      BY <2>1, <3>3, GoesKeeps
    <3> QED BY <1>13, <3>1, <3>2, <3>3 DEF ChecksPublication
  <2> QED BY <1>9, <2>1, <2>2, HandlerStep
<1>14. ASSUME NEW h \in handling, ShowPictures(h)  PROVE SeenInv'
  <2>1. /\ UNCHANGED <<shop, receipts, window, sent, underway>> /\ Moves
        /\ h.step = "READY" /\ Goes(h, "SHOWN")
    BY <1>14 DEF ShowPictures, Moves
  <2>2. h.request.kind = "PUBLISH" /\ Ready(h.read)
    BY <1>9, <2>1 DEF HandlerKnows
  <2>3. handling' \subseteq Handler /\ HandlersKnow'
    BY <2>1, <2>2, GoesKeeps
  <2> QED BY <1>9, <2>1, <2>3, HandlerStep
<1>15. ASSUME NEW h \in handling, CommitPublication(h)  PROVE SeenInv'
  <2>1. /\ h.step = "SHOWN" /\ Commit(h.request, Published(shop)) /\ UNCHANGED <<sent, underway>>
        /\ Answers(h.request, receipts'[h.request.key]) /\ handling' \subseteq handling
    BY <1>15 DEF CommitPublication, Keyed, Ends
  <2>2. Moves => handling' \subseteq Handler /\ HandlersKnow'
    BY <2>1, HandlersEnd
  <2> QED BY <1>9, <2>1, <2>2, PublishedRow, CommitStep
<1>16. ASSUME NEW h \in handling, FailPublication(h)  PROVE SeenInv'
  <2>1. /\ UNCHANGED <<shop, receipts, window, sent, underway>> /\ Moves
        /\ h.step # "CHECKED" /\ (Goes(h, "FAILED") \/ Ends(h))
    BY <1>16 DEF FailPublication, Moves
  <2>2. handling' \subseteq Handler /\ HandlersKnow'
    <3>1. CASE Goes(h, "FAILED")
      BY <2>1, <3>1, GoesKeeps
    <3>2. CASE Ends(h)
      BY <2>1, <3>2, HandlersEnd DEF Ends
    <3> QED BY <2>1, <3>1, <3>2
  <2> QED BY <1>9, <2>1, <2>2, HandlerStep
<1>17. ASSUME NEW h \in handling, TakeBackPictures(h) \/ HandlerEnds(h)  PROVE SeenInv'
  <2>1. /\ UNCHANGED <<shop, receipts, window, sent, underway>> /\ Moves
        /\ handling' \subseteq handling
    BY <1>17 DEF TakeBackPictures, HandlerEnds, Ends, Moves
  <2>2. handling' \subseteq Handler /\ HandlersKnow'
    BY <2>1, HandlersEnd
  <2> QED BY <1>9, <2>1, <2>2, HandlerStep
<1> QED BY <1>1, <1>2, <1>3, <1>4, <1>5, <1>6, <1>7, <1>8, <1>10, <1>11, <1>12, <1>13, <1>14,
           <1>15, <1>16, <1>17 DEF ShopNext

\* The editor's state is always one of its types, and nobody who names the store's
\* revision has seen something else than it holds.
THEOREM RevisionsAreKnown == ShopSpec => []SeenInv
<1>1. SeenInv /\ [ShopNext]_shopVars => SeenInv'
  <2> SUFFICES ASSUME SeenInv, [ShopNext]_shopVars  PROVE SeenInv'
    OBVIOUS
  <2>1. CASE ShopNext
    BY <2>1, SeenStep
  <2>2. CASE UNCHANGED shopVars
    BY <2>2 DEF shopVars, SeenInv, StoreTypeOK, ReceiptsKnown, Answerable, WindowsKnow,
                RequestsKnow, WaitingKnow, HandlersKnow, HandlerKnows
  <2> QED BY <2>1, <2>2
<1> QED BY <1>1, SeenInit, PTL DEF ShopSpec

\* What the store's row can become in one step.
LEMMA ShopChanges ==
  ASSUME SeenInv, ShopNext
  PROVE  \/ UNCHANGED <<shop, receipts>>
         \/ /\ shop = NoShop /\ shop' = [NoShop EXCEPT !.revision = 1]
            /\ UNCHANGED receipts
         \/ \E h \in handling :
              /\ ~Answerable(h.request.key) /\ shop.revision = h.request.expected
              /\ \/ /\ h.request.kind = "SAVE" /\ h.step = "READ"
                    /\ Commits(h.request.key, Merged(h.read, h.request.input, h.request.key))
                 \/ /\ h.step = "SHOWN"
                    /\ Commits(h.request.key, Published(shop))
<1>1. CASE Provision
  BY <1>1 DEF Provision, SeenInv
<1>2. ASSUME NEW w \in Windows,
             \/ Load(w) \/ ShowPreview(w) \/ BackToEditing(w) \/ Publish(w) \/ GivesUp(w)
             \/ \E section \in Sections, exits \in BOOLEAN : Save(w, section, exits)
      PROVE  UNCHANGED <<shop, receipts>>
  BY <1>2 DEF Load, ShowPreview, BackToEditing, Publish, GivesUp, Save, Asks, WindowOnly
<1>3. ASSUME NEW r \in underway, Arrives(r)  PROVE UNCHANGED <<shop, receipts>>
  BY <1>3 DEF Arrives
<1>4. ASSUME NEW h \in handling,
             \/ ReadsShop(h) \/ HidePictures(h) \/ ChecksPublication(h) \/ ShowPictures(h)
             \/ FailPublication(h) \/ TakeBackPictures(h) \/ HandlerEnds(h)
      PROVE  UNCHANGED <<shop, receipts>>
  BY <1>4 DEF ReadsShop, HidePictures, ChecksPublication, ShowPictures, FailPublication,
              TakeBackPictures, HandlerEnds
<1>5. ASSUME NEW h \in handling, CommitSave(h)
      PROVE  \/ UNCHANGED <<shop, receipts>>
             \/ /\ ~Answerable(h.request.key) /\ shop.revision = h.request.expected
                /\ h.request.kind = "SAVE" /\ h.step = "READ"
                /\ Commits(h.request.key, Merged(h.read, h.request.input, h.request.key))
  BY <1>5 DEF CommitSave, Commit, Replays
<1>6. ASSUME NEW h \in handling, CommitPublication(h)
      PROVE  \/ UNCHANGED <<shop, receipts>>
             \/ /\ ~Answerable(h.request.key) /\ shop.revision = h.request.expected
                /\ h.step = "SHOWN" /\ Commits(h.request.key, Published(shop))
  BY <1>6 DEF CommitPublication, Commit, Replays
<1> QED BY <1>1, <1>2, <1>3, <1>4, <1>5, <1>6 DEF ShopNext

\* A save replaces what its window showed, by nothing but what it was sent, and a
\* publication shows the public what its window's preview showed, and all of it.
THEOREM SellersSawWhatChanged == ShopSpec => SellerSawWhatChanges
<1>1. SeenInv /\ [ShopNext]_shopVars =>
        [/\ shop'.text # shop.text =>
              \E h \in handling :
                /\ h.request.kind = "SAVE" /\ h.request.seen = shop.text
                /\ shop'.text = Over(h.request.input, shop.text)
         /\ shop'.publication # shop.publication =>
              /\ Ready(shop')
              /\ \E h \in handling : h.request.kind = "PUBLISH" /\ h.request.seen = shop'.text
        ]_shopVars
  <2> SUFFICES ASSUME SeenInv, ShopNext
               PROVE  /\ shop'.text # shop.text =>
                           \E h \in handling :
                             /\ h.request.kind = "SAVE" /\ h.request.seen = shop.text
                             /\ shop'.text = Over(h.request.input, shop.text)
                      /\ shop'.publication # shop.publication =>
                           /\ Ready(shop')
                           /\ \E h \in handling :
                                h.request.kind = "PUBLISH" /\ h.request.seen = shop'.text
    OBVIOUS
  <2>1. ASSUME NEW h \in handling, shop.revision = h.request.expected
        PROVE  h.request.seen = shop.text
    BY <2>1 DEF SeenInv, HandlersKnow, HandlerKnows, RequestsKnow, Known
  <2>2. CASE shop = NoShop /\ shop' = [NoShop EXCEPT !.revision = 1]
    BY <2>2 DEF NoShop
  <2>3. ASSUME NEW h \in handling, h.request.kind = "SAVE", h.step = "READ",
               shop.revision = h.request.expected,
               Commits(h.request.key, Merged(h.read, h.request.input, h.request.key))
        PROVE  /\ h.request.seen = shop.text
               /\ shop'.text = Over(h.request.input, shop.text)
               /\ shop'.publication = shop.publication
    <3>1. shop' = Merged(h.read, h.request.input, h.request.key)
      BY <2>3 DEF Commits
    <3> QED BY <2>1, <2>3, <3>1, MergedRow DEF Merged
  <2>4. ASSUME NEW h \in handling, h.step = "SHOWN", shop.revision = h.request.expected,
               Commits(h.request.key, Published(shop)),
               shop'.publication # shop.publication
        PROVE  h.request.kind = "PUBLISH" /\ Ready(shop') /\ h.request.seen = shop'.text
    <3>1. shop' = Published(shop) /\ shop'.text = shop.text
      BY <2>4, PublishedRow DEF Commits
    <3>2. shop.status # "PUBLISHED"
      BY <2>4, <3>1 DEF Published
    <3>3. h \in Handler /\ HandlerKnows(h) /\ shop.revision \in Nat
      BY DEF SeenInv, StoreTypeOK, HandlersKnow, ShopRow
    <3>4. h.read.revision \in Nat
      BY <3>3 DEF Handler, ShopRow
    <3>5. h.read = shop
      BY <2>4, <3>3, <3>4 DEF HandlerKnows
    <3>6. h.request.kind = "PUBLISH" /\ Ready(shop)
      BY <2>4, <3>2, <3>3, <3>5 DEF HandlerKnows
    <3> QED BY <2>1, <2>4, <3>1, <3>6 DEF Ready
  <2>5. CASE \E h \in handling :
               /\ ~Answerable(h.request.key) /\ shop.revision = h.request.expected
               /\ h.step = "SHOWN" /\ Commits(h.request.key, Published(shop))
    <3>1. shop'.text = shop.text
      BY <2>5, PublishedRow DEF Commits
    <3> QED BY <2>4, <2>5, <3>1
  <2> QED BY <2>2, <2>3, <2>5, ShopChanges
<1> QED BY <1>1, RevisionsAreKnown, PTL DEF ShopSpec, SellerSawWhatChanges

\* The module's own types: no more requests than there are keys, and only pictures that
\* somebody uploaded are visible.
THEOREM EditingTypeCorrect == ShopSpec => []ShopTypeOK
<1> DEFINE Bounded == sent <= KeyBound /\ visible \subseteq 1 .. KeyBound + 1
<1>1. ASSUME NEW row \in ShopRow  PROVE Pictures(row) \subseteq 1 .. KeyBound + 1
  <2>1. row.text["profile"] \in 0 .. KeyBound + 1
    BY DEF ShopRow, Text, Fields
  <2> QED BY <2>1, StoreEditingAssumption DEF Pictures, Unset
<1>2. ShopInit => Bounded
  BY <1>1, RowTypes, StoreEditingAssumption DEF ShopInit
<1>3. SeenInv /\ Bounded /\ [ShopNext]_shopVars => Bounded'
  <2> SUFFICES ASSUME SeenInv, Bounded, [ShopNext]_shopVars  PROVE Bounded'
    OBVIOUS
  <2>1. \A h \in handling : h.read \in ShopRow
    BY DEF SeenInv, StoreTypeOK, Handler
  <2>2. \/ UNCHANGED visible
        \/ \E h \in handling : visible' \subseteq visible \cup Pictures(h.read)
    BY DEF ShopNext, shopVars, Provision, Load, ShowPreview, BackToEditing, Publish, GivesUp,
           Save, Asks, WindowOnly, Arrives, ReadsShop, CommitSave, HidePictures,
           ChecksPublication, ShowPictures, CommitPublication, FailPublication,
           TakeBackPictures, HandlerEnds
  <2>3. UNCHANGED sent \/ (sent' = sent + 1 /\ (sent < KeyBound \/ sent < SaveBound))
    BY DEF ShopNext, shopVars, Provision, Load, ShowPreview, BackToEditing, Publish, GivesUp,
           Save, Asks, WindowOnly, Arrives, ReadsShop, CommitSave, HidePictures,
           ChecksPublication, ShowPictures, CommitPublication, FailPublication,
           TakeBackPictures, HandlerEnds
  <2>4. sent \in Nat /\ (UNCHANGED sent \/ (sent' = sent + 1 /\ sent < KeyBound))
    <3>1. sent \in Nat /\ SaveBound \in Nat /\ KeyBound \in Nat /\ SaveBound <= KeyBound
      BY StoreEditingAssumption DEF SeenInv, StoreTypeOK
    <3> QED BY <2>3, <3>1
  <2>5. sent' <= KeyBound
    BY <2>4, StoreEditingAssumption
  <2>6. visible' \subseteq 1 .. KeyBound + 1
    BY <1>1, <2>1, <2>2
  <2> QED BY <2>5, <2>6
<1>4. SeenInv /\ Bounded => ShopTypeOK
  BY DEF SeenInv, StoreTypeOK, ShopTypeOK, Request, Handler
<1> QED BY <1>2, <1>3, <1>4, RevisionsAreKnown, PTL DEF ShopSpec

-----------------------------------------------------------------------------
(* What a term of trade goes by. *)

\* An identity is the former one or that of a save that was answered; of one identity
\* the revision in force is the last; a method without an identity is none.
TermsAreDated ==
  \A a \in Versions, f \in Terms :
    /\ \/ a.term[f].id \in {Unset, Former}
       \/ a.term[f].id \in StoreKeys /\ Answerable(a.term[f].id)
    /\ a.term[f].id = shop.term[f].id => a.term[f].revision <= shop.term[f].revision
    /\ f \in Codes /\ a.term[f].id = Unset => a.term[f].revision = 0 /\ a.text[f] = Unset

TermInv == TermsAreDated /\ TermsKeepTheirMeaning

\* What a save may make of a term: nothing; the next revision of it, if it has an identity;
\* none, if it is a method; or the first revision of the save's own identity.
Succeeds(row, k, f) ==
  \/ row.term[f] = shop.term[f] /\ row.text[f] = shop.text[f]
  \/ /\ row.term[f].id = shop.term[f].id
     /\ row.term[f].revision = shop.term[f].revision + 1
     /\ f \in Codes => row.term[f].id # Unset
  \/ row.term[f] = NoTerm /\ row.text[f] = Unset /\ f \in Codes
  \/ row.term[f].id = k

LEMMA VersionTypes ==
  ASSUME SeenInv, NEW a \in Versions, NEW f \in Terms
  PROVE  a \in ShopRow /\ a.term[f] \in Term /\ a.term[f].id \in Nat /\ a.term[f].revision \in Nat
<1>1. a \in ShopRow
  BY RowTypes DEF Versions, SeenInv, StoreTypeOK
<1>2. a.term[f] \in Term
  BY <1>1 DEF ShopRow
<1> QED BY <1>1, <1>2, StoreEditingAssumption DEF Term

LEMMA NextTermCases ==
  ASSUME NEW row, NEW input, NEW f, NEW k, NEW next, next = NextTerm(row, input, f, k)
  PROVE  IF f \notin DOMAIN input \/ input[f] = row.text[f] THEN next = row.term[f]
         ELSE IF f \in Codes /\ input[f] = Unset THEN next = NoTerm
         ELSE IF f \in Codes /\ row.text[f] = Unset THEN next = [id |-> k, revision |-> 1]
         ELSE next = [row.term[f] EXCEPT !.revision = @ + 1]
  BY DEF NextTerm

LEMMA MergedSucceeds ==
  ASSUME SeenInv, TermInv, NEW input, NEW k, NEW row, row = Merged(shop, input, k),
         NEW f \in Terms
  PROVE  Succeeds(row, k, f)
<1>1. f \in Fields /\ shop \in Versions
  BY DEF Terms, Fields, Versions
<1>2. PICK next : next = NextTerm(shop, input, f, k)
  OBVIOUS
<1>3. row.term[f] = next /\ row.text[f] = Over(input, shop.text)[f]
  BY <1>2 DEF Merged
<1>4. row.text[f] = IF f \in DOMAIN input THEN input[f] ELSE shop.text[f]
  BY <1>1, <1>3 DEF Over
<1>5. PICK t, x : t = shop.term[f] /\ x = shop.text[f]
  OBVIOUS
<1>6. t \in Term
  BY <1>1, <1>5, VersionTypes
<1>7. IF f \notin DOMAIN input \/ input[f] = x THEN next = t
      ELSE IF f \in Codes /\ input[f] = Unset THEN next = NoTerm
      ELSE IF f \in Codes /\ x = Unset THEN next = [id |-> k, revision |-> 1]
      ELSE next = [t EXCEPT !.revision = @ + 1]
  BY <1>2, <1>5, NextTermCases
<1>8. f \in Codes /\ x # Unset => t.id # Unset
  BY <1>1, <1>5 DEF TermInv, TermsAreDated
<1>9. CASE next = t /\ row.text[f] = x
  BY <1>3, <1>5, <1>9 DEF Succeeds
<1>10. CASE f \in Codes /\ next = NoTerm /\ row.text[f] = Unset
  BY <1>3, <1>10 DEF Succeeds
<1>11. CASE next = [id |-> k, revision |-> 1]
  <2>1. row.term[f].id = k
    BY <1>3, <1>11
  <2> QED BY <2>1 DEF Succeeds
<1>12. CASE next = [t EXCEPT !.revision = @ + 1] /\ (f \in Codes => x # Unset)
  <2>1. next.id = t.id /\ next.revision = t.revision + 1
    BY <1>6, <1>12 DEF Term
  <2> QED BY <1>3, <1>5, <1>8, <1>12, <2>1 DEF Succeeds
<1> QED BY <1>4, <1>5, <1>7, <1>9, <1>10, <1>11, <1>12

\* A new row of the store whose terms succeed those it had.
LEMMA TermsSucceed ==
  ASSUME SeenInv, SeenInv', TermInv, NEW k \in StoreKeys, ~Answerable(k), Answerable(k)',
         NEW row, Commits(k, row), \A f \in Terms : Succeeds(row, k, f)
  PROVE  TermInv'
<1>1. shop' = row /\ receipts' = [receipts EXCEPT ![k] = row]
  BY DEF Commits
<1>2. \A j \in StoreKeys : Answerable(j) => Answerable(j)'
  BY <1>1 DEF Answerable, SeenInv, StoreTypeOK
<1>3. \A a \in Versions' : a = row \/ a \in Versions
  BY <1>1 DEF Versions, SeenInv, StoreTypeOK
<1>4. shop \in Versions /\ row \in Versions'
  BY <1>1 DEF Versions
<1>5. k \in Nat /\ k # Unset /\ k # Former
  BY DEF StoreKeys, Unset, Former
<1>6. ASSUME NEW a \in Versions, NEW f \in Terms
      PROVE  /\ a.term[f].id # k
             /\ a.term[f] = row.term[f] => a.text[f] = row.text[f]
             /\ a.term[f].id = row.term[f].id => a.term[f].revision <= row.term[f].revision
  <2>1. /\ a.term[f].id \in Nat /\ a.term[f].revision \in Nat
        /\ shop.term[f].id \in Nat /\ shop.term[f].revision \in Nat
        /\ row.term[f].revision \in Nat
    BY <1>1, <1>4, VersionTypes DEF SeenInv, StoreTypeOK, ShopRow, Term
  <2>2. a.term[f].id # k
    BY <1>5 DEF TermInv, TermsAreDated
  <2>3. CASE row.term[f] = shop.term[f] /\ row.text[f] = shop.text[f]
    <3>1. a.term[f] = shop.term[f] => a.text[f] = shop.text[f]
      BY <1>4 DEF TermInv, TermsKeepTheirMeaning
    <3>2. a.term[f].id = shop.term[f].id => a.term[f].revision <= shop.term[f].revision
      BY DEF TermInv, TermsAreDated
    <3> QED BY <2>2, <2>3, <3>1, <3>2
  <2>4. CASE /\ row.term[f].id = shop.term[f].id
             /\ row.term[f].revision = shop.term[f].revision + 1
    <3>1. a.term[f].id = shop.term[f].id => a.term[f].revision <= shop.term[f].revision
      BY DEF TermInv, TermsAreDated
    <3> QED BY <2>1, <2>2, <2>4, <3>1
  <2>5. CASE row.term[f] = NoTerm /\ row.text[f] = Unset /\ f \in Codes
    <3>1. a.term[f].id = Unset => a.term[f].revision = 0 /\ a.text[f] = Unset
      BY <2>5 DEF TermInv, TermsAreDated
    <3> QED BY <2>1, <2>2, <2>5, <3>1 DEF NoTerm
  <2>6. CASE row.term[f].id = k
    BY <2>2, <2>6
  <2> QED BY <2>3, <2>4, <2>5, <2>6 DEF Succeeds
<1>7. ASSUME NEW f \in Terms
      PROVE  /\ \/ row.term[f].id \in {Unset, Former}
                \/ row.term[f].id \in StoreKeys /\ receipts'[row.term[f].id] # NoShop
             /\ f \in Codes /\ row.term[f].id = Unset =>
                  row.term[f].revision = 0 /\ row.text[f] = Unset
  <2>1. PICK new, old : new = row.term[f] /\ old = shop.term[f]
    OBVIOUS
  <2>2. /\ old.id \in {Unset, Former} \/ (old.id \in StoreKeys /\ receipts[old.id] # NoShop)
        /\ f \in Codes /\ old.id = Unset => old.revision = 0 /\ shop.text[f] = Unset
    BY <1>4, <2>1 DEF TermInv, TermsAreDated, Answerable
  <2>3. old.id \in {Unset, Former} \/ (old.id \in StoreKeys /\ receipts'[old.id] # NoShop)
    BY <1>2, <2>2 DEF Answerable
  <2>4. NoTerm.id = Unset /\ NoTerm.revision = 0 /\ receipts'[k] # NoShop
    BY DEF NoTerm, Answerable
  <2>5. CASE new = old /\ row.text[f] = shop.text[f]
    BY <2>1, <2>2, <2>3, <2>5
  <2>6. CASE new.id = old.id /\ (f \in Codes => new.id # Unset)
    BY <2>1, <2>3, <2>6
  <2>7. CASE new = NoTerm /\ row.text[f] = Unset /\ f \in Codes
    BY <2>1, <2>4, <2>7
  <2>8. CASE new.id = k
    BY <1>5, <2>1, <2>4, <2>8
  <2> QED BY <2>1, <2>5, <2>6, <2>7, <2>8 DEF Succeeds
<1>8. TermsAreDated'
  <2> SUFFICES ASSUME NEW a \in Versions', NEW f \in Terms
               PROVE  /\ \/ a.term[f].id \in {Unset, Former}
                         \/ a.term[f].id \in StoreKeys /\ receipts'[a.term[f].id] # NoShop
                      /\ a.term[f].id = row.term[f].id =>
                           a.term[f].revision <= row.term[f].revision
                      /\ f \in Codes /\ a.term[f].id = Unset =>
                           a.term[f].revision = 0 /\ a.text[f] = Unset
    BY <1>1 DEF TermsAreDated, Answerable
  <2>1. CASE a = row
    <3>1. row.term[f].revision \in Nat
      BY <1>1, <1>4, VersionTypes DEF SeenInv, StoreTypeOK, ShopRow, Term
    <3> QED BY <1>7, <2>1, <3>1
  <2>2. CASE a \in Versions
    <3>1. /\ \/ a.term[f].id \in {Unset, Former}
             \/ a.term[f].id \in StoreKeys /\ receipts[a.term[f].id] # NoShop
          /\ f \in Codes /\ a.term[f].id = Unset =>
               a.term[f].revision = 0 /\ a.text[f] = Unset
      BY <2>2 DEF TermInv, TermsAreDated, Answerable
    <3>2. \A j \in StoreKeys : receipts[j] # NoShop => receipts'[j] # NoShop
      BY <1>2 DEF Answerable
    <3> QED BY <1>6, <2>2, <3>1, <3>2
  <2> QED BY <1>3, <2>1, <2>2
<1>9. TermsKeepTheirMeaning'
  <2> SUFFICES ASSUME NEW a \in Versions', NEW b \in Versions', NEW f \in Terms,
                      a.term[f] = b.term[f]
               PROVE  a.text[f] = b.text[f]
    BY DEF TermsKeepTheirMeaning
  <2>1. CASE a \in Versions /\ b \in Versions
    BY <2>1 DEF TermInv, TermsKeepTheirMeaning
  <2>2. CASE a \in Versions /\ b = row
    BY <1>6, <2>2
  <2>3. CASE a = row /\ b \in Versions
    BY <1>6, <2>3
  <2>4. CASE a = row /\ b = row
    BY <2>4
  <2> QED BY <1>3, <2>1, <2>2, <2>3, <2>4
<1> QED BY <1>8, <1>9 DEF TermInv

\* The same revision of a shipping method or of the return policy never stands for two
\* texts, among all versions of the store, however it was edited.
THEOREM TermsMeanOneThing == ShopSpec => []TermsKeepTheirMeaning
<1>1. ShopInit => TermInv
  <2> SUFFICES ASSUME ShopInit  PROVE TermInv
    OBVIOUS
  <2>1. \A a \in Versions : a = NoShop \/ a = FormerShop
    BY DEF ShopInit, Versions
  <2>2. \A f \in Terms : /\ NoShop.term[f] = NoTerm /\ FormerShop.term[f].id = Former
                         /\ FormerShop.term[f].revision = 1
                         /\ NoShop.text[f] = Unset /\ FormerShop.text[f] = Former
    BY DEF NoShop, FormerShop, Terms, Fields, Filled
  <2>3. NoTerm.id = Unset /\ NoTerm.revision = 0 /\ Unset # Former
    BY DEF NoTerm, Unset, Former
  <2>4. shop = NoShop \/ shop = FormerShop
    BY DEF ShopInit
  <2>5. TermsAreDated
    BY <2>1, <2>2, <2>3, <2>4 DEF TermsAreDated
  <2>6. TermsKeepTheirMeaning
    BY <2>1, <2>2, <2>3 DEF TermsKeepTheirMeaning
  <2> QED BY <2>5, <2>6 DEF TermInv
<1>2. SeenInv /\ SeenInv' /\ TermInv /\ [ShopNext]_shopVars => TermInv'
  <2> SUFFICES ASSUME SeenInv, SeenInv', TermInv, [ShopNext]_shopVars  PROVE TermInv'
    OBVIOUS
  <2>1. CASE UNCHANGED <<shop, receipts>>
    BY <2>1 DEF TermInv, TermsAreDated, TermsKeepTheirMeaning, Versions, Answerable
  <2>2. CASE shop = NoShop /\ shop' = [NoShop EXCEPT !.revision = 1] /\ UNCHANGED receipts
    <3>1. shop'.term = shop.term /\ shop'.text = shop.text
      BY <2>2 DEF NoShop
    <3>2. \A a \in Versions' : a \in Versions \/ a = shop'
      BY <2>2 DEF Versions
    <3>3. shop \in Versions
      BY DEF Versions
    <3>4. \A a \in Versions' : \E b \in Versions : a.term = b.term /\ a.text = b.text
      BY <3>1, <3>2, <3>3
    <3>5. TermsAreDated'
      <4> SUFFICES ASSUME NEW a \in Versions', NEW f \in Terms
                   PROVE  /\ \/ a.term[f].id \in {Unset, Former}
                             \/ a.term[f].id \in StoreKeys /\ Answerable(a.term[f].id)
                          /\ a.term[f].id = shop.term[f].id =>
                               a.term[f].revision <= shop.term[f].revision
                          /\ f \in Codes /\ a.term[f].id = Unset =>
                               a.term[f].revision = 0 /\ a.text[f] = Unset
        BY <2>2, <3>1 DEF TermsAreDated, Answerable
      <4>1. PICK b \in Versions : a.term = b.term /\ a.text = b.text
        BY <3>4
      <4> QED BY <4>1 DEF TermInv, TermsAreDated
    <3>6. TermsKeepTheirMeaning'
      <4> SUFFICES ASSUME NEW a \in Versions', NEW b \in Versions', NEW f \in Terms,
                          a.term[f] = b.term[f]
                   PROVE  a.text[f] = b.text[f]
        BY DEF TermsKeepTheirMeaning
      <4>1. PICK c \in Versions : a.term = c.term /\ a.text = c.text
        BY <3>4
      <4>2. PICK d \in Versions : b.term = d.term /\ b.text = d.text
        BY <3>4
      <4> QED BY <4>1, <4>2 DEF TermInv, TermsKeepTheirMeaning
    <3> QED BY <3>5, <3>6 DEF TermInv
  <2>3. ASSUME NEW h \in handling, ~Answerable(h.request.key),
               shop.revision = h.request.expected,
               \/ /\ h.request.kind = "SAVE" /\ h.step = "READ"
                  /\ Commits(h.request.key, Merged(h.read, h.request.input, h.request.key))
               \/ h.step = "SHOWN" /\ Commits(h.request.key, Published(shop))
        PROVE  TermInv'
    <3>1. h.request.key \in StoreKeys
      BY DEF SeenInv, StoreTypeOK, Handler, Request
    <3>2. PICK row : Commits(h.request.key, row)
      BY <2>3
    <3>3. shop' = row /\ receipts'[h.request.key] = row
      BY <3>1, <3>2 DEF Commits, SeenInv, StoreTypeOK
    <3>4. shop.revision \in Nat
      BY DEF SeenInv, StoreTypeOK, ShopRow
    <3>5. CASE /\ h.request.kind = "SAVE" /\ h.step = "READ"
               /\ Commits(h.request.key, Merged(h.read, h.request.input, h.request.key))
      <4>1. h.read = shop
        BY <2>3, <3>5, MergedRow
      <4>3. row = Merged(h.read, h.request.input, h.request.key)
        BY <3>3, <3>5 DEF Commits
      <4>2. \A f \in Terms : Succeeds(row, h.request.key, f)
        BY <4>1, <4>3, MergedSucceeds
      <4>4. row.revision = shop.revision + 1
        BY <3>5, <4>3, MergedType
      <4>5. Answerable(h.request.key)'
        BY <3>3, <3>4, <4>4, RowTypes DEF Answerable
      <4> QED BY <2>3, <3>1, <3>2, <4>2, <4>3, <4>5, TermsSucceed
    <3>6. CASE h.step = "SHOWN" /\ Commits(h.request.key, Published(shop))
      <4>1. row = Published(shop) /\ row.term = shop.term /\ row.text = shop.text
        BY <3>3, <3>6, PublishedRow DEF Commits
      <4>2. \A f \in Terms : Succeeds(row, h.request.key, f)
        BY <4>1 DEF Succeeds
      <4>3. row.status = "PUBLISHED"
        BY <4>1 DEF Published, SeenInv, StoreTypeOK, ShopRow
      <4>4. Answerable(h.request.key)'
        BY <3>3, <4>3, RowTypes DEF Answerable
      <4> QED BY <2>3, <3>1, <3>2, <4>2, <4>4, TermsSucceed
    <3> QED BY <2>3, <3>5, <3>6
  <2>4. CASE ShopNext
    BY <2>1, <2>2, <2>3, <2>4, ShopChanges
  <2>5. CASE UNCHANGED shopVars
    BY <2>1, <2>5 DEF shopVars
  <2> QED BY <2>4, <2>5
<1>3. TermInv => TermsKeepTheirMeaning
  BY DEF TermInv
<1> QED BY <1>1, <1>2, <1>3, RevisionsAreKnown, PTL DEF ShopSpec
-----------------------------------------------------------------------------
(***************************************************************************)
(* Follower counts.                                                        *)
(***************************************************************************)
FollowRow == [subject : {"IDENTITY", "FOLLOW"}, identity : Identities,
              store : Stores \cup {""}, row : Versioned]
Tables == [identity : [Identities -> Versioned],
           relation : [Identities -> [Stores -> Versioned]],
           count : [Stores -> Int]]

IsStatus(i, t) == followLog[t].subject = "IDENTITY" /\ followLog[t].identity = i
IsFollow(i, s, t) ==
  /\ followLog[t].subject = "FOLLOW"
  /\ followLog[t].identity = i /\ followLog[t].store = s

\* Event row r was told of a row that by now is "current".
Told(current, r) ==
  /\ 1 <= r.version /\ r.version <= current.version
  /\ r.version = current.version => r = current

\* The log tells every change of an identity or a relation, and nothing else.
IdentityTold(i) ==
  /\ \A t \in FollowTimes : IsStatus(i, t) => Told(identity[i], followLog[t].row)
  /\ \/ identity[i] = At("ACTIVE", 0)
     \/ \E t \in FollowTimes : IsStatus(i, t) /\ followLog[t].row = identity[i]

RelationTold(i, s) ==
  /\ \A t \in FollowTimes : IsFollow(i, s, t) => Told(follow[i][s], followLog[t].row)
  /\ \/ follow[i][s] = None
     \/ \E t \in FollowTimes : IsFollow(i, s, t) /\ followLog[t].row = follow[i][s]

FollowLogInv ==
  /\ identity \in [Identities -> Versioned]
  /\ follow \in [Identities -> [Stores -> Versioned]]
  /\ followLog \in Seq(FollowRow)
  /\ \A t \in FollowTimes : followLog[t].subject = "FOLLOW" => followLog[t].store \in Stores
  /\ \A i \in Identities : IdentityTold(i) /\ \A s \in Stores : RelationTold(i, s)

\* Tables c hold rows that were told, as new as any told at the times D.
KnowsStatus(c, D, i) ==
  /\ \/ c.identity[i] = None \/ c.identity[i] = At("ACTIVE", 0)
     \/ \E t \in FollowTimes : IsStatus(i, t) /\ followLog[t].row = c.identity[i]
  /\ \A t \in D : IsStatus(i, t) => c.identity[i].version >= followLog[t].row.version

KnowsRelation(c, D, i, s) ==
  /\ \/ c.relation[i][s] = None
     \/ \E t \in FollowTimes : IsFollow(i, s, t) /\ followLog[t].row = c.relation[i][s]
  /\ \A t \in D : IsFollow(i, s, t) => c.relation[i][s].version >= followLog[t].row.version
  /\ follow[i][s] # None => c.identity[i] # None

Followers(c, s) == {i \in Identities : c.relation[i][s].status = "ACTIVE"}
Audience(c, s) == {i \in Identities : c.relation[i][s].status = "ACTIVE"
                                        /\ c.identity[i].status = "ACTIVE"}

CountsAudience(c, s) ==
  IsFiniteSet(Followers(c, s)) /\ c.count[s] = Cardinality(Audience(c, s))

TablesAgree(c, D) ==
  /\ c \in Tables
  /\ \A i \in Identities :
       KnowsStatus(c, D, i) /\ \A s \in Stores : KnowsRelation(c, D, i, s)
  /\ \A s \in Stores : CountsAudience(c, s)

\* A handler has read the row as it is, or before a write made the identity known.
SeenRight(c, i, seen) ==
  \/ seen = c.identity[i]
  \/ /\ seen = None /\ c.identity[i] = At("ACTIVE", 0)
     /\ \A s \in Stores : c.relation[i][s] = None

ReadInv ==
  /\ statusRead \in [Identities -> [time : Nat, row : Versioned]]
  /\ \A i \in Identities : statusRead[i] # NoRead =>
       /\ statusRead[i].time \in FollowTimes /\ IsStatus(i, statusRead[i].time)
       /\ SeenRight(counts, i, statusRead[i].row)

FollowingInv ==
  /\ FollowLogInv
  /\ counted \subseteq FollowTimes
  /\ TablesAgree(counts, counted)
  /\ ReadInv

\* What an element that comes or goes makes of the size of a set.
LEMMA SizeChanges ==
  ASSUME NEW A, NEW B, IsFiniteSet(A), IsFiniteSet(B), NEW x, A \ {x} = B \ {x}
  PROVE  Cardinality(B) = Cardinality(A) + Counts(x \in B) - Counts(x \in A)
<1>1. Cardinality(A) \in Nat /\ Cardinality(B) \in Nat
  BY FS_CardinalityType
<1>2. CASE x \in A /\ x \in B
  <2>1. A = B
    BY <1>2
  <2> QED BY <1>1, <1>2, <2>1 DEF Counts
<1>3. CASE x \notin A /\ x \notin B
  <2>1. A = B
    BY <1>3
  <2> QED BY <1>1, <1>3, <2>1 DEF Counts
<1>4. CASE x \in A /\ x \notin B
  <2>1. B = A \ {x}
    BY <1>4
  <2>2. Cardinality(B) = Cardinality(A) - 1
    BY <1>4, <2>1, FS_RemoveElement
  <2> QED BY <1>1, <1>4, <2>2 DEF Counts
<1>5. CASE x \notin A /\ x \in B
  <2>1. B = A \cup {x}
    BY <1>5
  <2>2. Cardinality(B) = Cardinality(A) + 1
    BY <1>5, <2>1, FS_AddElement
  <2> QED BY <1>1, <1>5, <2>2 DEF Counts
<1> QED BY <1>2, <1>3, <1>4, <1>5

\* A count is a natural number, and nothing but followers are counted.
LEMMA CountsNatural ==
  ASSUME NEW c, NEW s, CountsAudience(c, s)
  PROVE  IsFiniteSet(Audience(c, s)) /\ c.count[s] \in Nat
<1>1. Audience(c, s) \subseteq Followers(c, s)
  BY DEF Audience, Followers
<1> QED BY <1>1, FS_Subset, FS_CardinalityType DEF CountsAudience

\* What a newer status makes of the tables,
StatusMakes(c, e, seen, d) ==
  LET delta == Counts(e.row.status = "ACTIVE") - Counts(seen.status = "ACTIVE")
  IN /\ d \in Tables
     /\ d.relation = c.relation
     /\ d.identity = [c.identity EXCEPT ![e.identity] = e.row]
     /\ \A s \in Stores : d.count[s] = IF c.relation[e.identity][s].status = "ACTIVE"
                                        THEN c.count[s] + delta ELSE c.count[s]

StatusIsNews(e, seen) == ~(seen # None /\ seen.version >= e.row.version)

LEMMA StatusProjected ==
  ASSUME NEW c \in Tables, NEW e \in FollowRow, NEW seen \in Versioned,
         StatusIsNews(e, seen)
  PROVE  StatusMakes(c, e, seen, ProjectStatus(c, e, seen))
<1> USE DEF StatusIsNews
<1> DEFINE i == e.identity
           delta == Counts(e.row.status = "ACTIVE") - Counts(seen.status = "ACTIVE")
           count == [s \in Stores |-> IF c.relation[i][s].status = "ACTIVE"
                                      THEN c.count[s] + delta ELSE c.count[s]]
           rows == [c.identity EXCEPT ![i] = e.row]
           d == ProjectStatus(c, e, seen)
<1>1. d = [c EXCEPT !.identity = rows, !.count = count]
  BY Zenon DEF ProjectStatus, Tables
<1>2. delta \in Int
  BY DEF Counts
<1>3. count \in [Stores -> Int]
  <2> HIDE DEF delta
  <2> QED BY <1>2 DEF Tables
<1>4. rows \in [Identities -> Versioned]
  BY DEF Tables, FollowRow
<1>5. d = [identity |-> rows, relation |-> c.relation, count |-> count]
  <2> HIDE DEF rows, count, d
  <2> QED BY <1>1 DEF Tables
<1> HIDE DEF d, rows
<1>6. /\ d \in Tables /\ d.relation = c.relation /\ d.identity = rows /\ d.count = count
  <2> HIDE DEF count
  <2> QED BY <1>3, <1>4, <1>5 DEF Tables
<1> QED BY <1>6 DEF d, rows, StatusMakes

\* What a relation contributes to a count.
Gain(c, i, row) == Counts(row.status = "ACTIVE" /\ c.identity[i].status = "ACTIVE")

\* and a newer follow.
FollowMakes(c, e, d) ==
  LET i == e.identity
  IN /\ d \in Tables
     /\ d.identity = c.identity
     /\ d.relation = [c.relation EXCEPT ![i][e.store] = e.row]
     /\ \A s \in Stores : d.count[s] =
          IF s = e.store THEN c.count[s] + Gain(c, i, e.row) - Gain(c, i, c.relation[i][s])
                         ELSE c.count[s]

FollowIsNews(c, e) ==
  LET before == c.relation[e.identity][e.store]
  IN ~(before # None /\ before.version >= e.row.version)

LEMMA FollowProjected ==
  ASSUME NEW c \in Tables, NEW e \in FollowRow, e.store \in Stores, FollowIsNews(c, e)
  PROVE  FollowMakes(c, e, ProjectFollow(c, e))
<1> USE DEF FollowIsNews
<1> DEFINE i == e.identity
           s == e.store
           sum == c.count[s] + Gain(c, i, e.row) - Gain(c, i, c.relation[i][s])
           count == [c.count EXCEPT ![s] = sum]
           rows == [c.relation EXCEPT ![i][s] = e.row]
           d == ProjectFollow(c, e)
<1>1. d = [c EXCEPT !.relation = rows, !.count = count]
  BY Zenon DEF ProjectFollow, Tables, Gain
<1>2. \A row : Gain(c, i, row) \in Int
  BY DEF Counts, Gain
<1>3. count \in [Stores -> Int]
  <2>1. sum \in Int
    BY <1>2 DEF Tables
  <2> HIDE DEF sum
  <2> QED BY <2>1 DEF Tables
<1>4. rows \in [Identities -> [Stores -> Versioned]]
  BY DEF Tables, FollowRow
<1>5. d = [identity |-> c.identity, relation |-> rows, count |-> count]
  <2> HIDE DEF rows, count, d
  <2> QED BY <1>1 DEF Tables
<1> HIDE DEF d, rows
<1>6. d \in Tables /\ d.relation = rows /\ d.identity = c.identity /\ d.count = count
  <2> HIDE DEF count
  <2> QED BY <1>3, <1>4, <1>5 DEF Tables
<1>7. \A u \in Stores : count[u] = IF u = s THEN sum ELSE c.count[u]
  BY DEF Tables
<1> QED BY <1>6, <1>7 DEF d, rows, FollowMakes

\* Rows of a log of events.
LEMMA LogRows ==
  ASSUME FollowLogInv, NEW t \in FollowTimes
  PROVE  /\ followLog[t] \in FollowRow
         /\ t \in 1 .. Len(followLog)
BY DEF FollowLogInv, FollowTimes

\* Handling a status keeps the tables in agreement with the log,
LEMMA StatusKeeps ==
  ASSUME FollowLogInv, NEW c, NEW D, D \subseteq FollowTimes, TablesAgree(c, D),
         NEW t \in FollowTimes, NEW i \in Identities, IsStatus(i, t),
         NEW seen, SeenRight(c, i, seen)
  PROVE  TablesAgree(ProjectStatus(c, followLog[t], seen), D \cup {t})
<1> DEFINE e == followLog[t]
           d == ProjectStatus(c, e, seen)
<1>1. e \in FollowRow /\ e.identity = i /\ e.subject = "IDENTITY" /\ e.row \in Versioned
  BY LogRows DEF IsStatus, FollowRow
<1>2. e.row.version \in Nat /\ e.row.version >= 1
  BY <1>1 DEF FollowLogInv, IdentityTold, Told, Versioned
<1>3. c \in Tables /\ c.identity[i] \in Versioned
  BY DEF TablesAgree, Tables
<1>4. seen \in Versioned
  BY <1>3 DEF SeenRight, None, Versioned, Status
<1>5. ASSUME NEW s \in Stores, NEW u, IsFollow(i, s, u), u = t PROVE FALSE
  BY <1>1, <1>5 DEF IsFollow
<1>6. CASE seen # None /\ seen.version >= e.row.version
  <2>1. d = c
    BY <1>6 DEF ProjectStatus
  <2>2. c.identity[i] = seen
    BY <1>6 DEF SeenRight
  <2>3. \A j \in Identities : KnowsStatus(c, D \cup {t}, j)
    BY <1>1, <1>6, <2>2 DEF TablesAgree, KnowsStatus, IsStatus
  <2>4. \A j \in Identities, s \in Stores : KnowsRelation(c, D \cup {t}, j, s)
    BY <1>1 DEF TablesAgree, KnowsRelation, IsFollow
  <2> QED BY <2>1, <2>3, <2>4 DEF TablesAgree
<1>7. CASE ~(seen # None /\ seen.version >= e.row.version)
  <2> DEFINE delta == Counts(e.row.status = "ACTIVE") - Counts(seen.status = "ACTIVE")
  <2>1. /\ d \in Tables
        /\ d.relation = c.relation
        /\ d.identity = [c.identity EXCEPT ![i] = e.row]
        /\ \A s \in Stores : d.count[s] = IF c.relation[i][s].status = "ACTIVE"
                                          THEN c.count[s] + delta ELSE c.count[s]
    <3>1. StatusIsNews(e, seen)
      BY <1>7 DEF StatusIsNews
    <3> HIDE DEF e
    <3>2. StatusMakes(c, e, seen, d)
      BY <1>1, <1>3, <1>4, <3>1, StatusProjected
    <3> HIDE DEF d
    <3> QED BY <1>1, <3>2 DEF StatusMakes
  <2> HIDE DEF d
  <2>2. d.identity[i] = e.row /\ \A j \in Identities \ {i} : d.identity[j] = c.identity[j]
    BY <1>3, <2>1 DEF Tables
  <2>3. c.identity[i].version < e.row.version
    BY <1>2, <1>3, <1>4, <1>7 DEF SeenRight, None, At, Versioned
  <2>4. ASSUME NEW j \in Identities PROVE KnowsStatus(d, D \cup {t}, j)
    <3>1. KnowsStatus(c, D, j)
      BY DEF TablesAgree
    <3>2. CASE j = i
      <4>1. ASSUME NEW u \in D, IsStatus(i, u) PROVE followLog[u].row.version <= e.row.version
        <5>1. c.identity[i].version >= followLog[u].row.version
          BY <3>1, <3>2, <4>1 DEF KnowsStatus
        <5>2. followLog[u].row.version \in Nat
          BY LogRows DEF FollowRow, Versioned
        <5>3. c.identity[i].version \in Nat
          BY <1>3 DEF Versioned
        <5> QED BY <1>2, <2>3, <5>1, <5>2, <5>3
      <4>2. ASSUME NEW u \in D \cup {t}, IsStatus(i, u) PROVE e.row.version >= followLog[u].row.version
        <5>1. followLog[u].row.version \in Nat
          BY LogRows DEF FollowRow, Versioned
        <5> QED BY <1>2, <4>1, <4>2, <5>1
      <4>3. IsStatus(i, t) /\ followLog[t].row = d.identity[i]
        BY <2>2
      <4> QED BY <2>2, <3>2, <4>2, <4>3 DEF KnowsStatus
    <3>3. CASE j # i
      <4>1. ~IsStatus(j, t)
        BY <1>1, <3>3 DEF IsStatus
      <4> QED BY <2>2, <3>1, <3>3, <4>1 DEF KnowsStatus
    <3> QED BY <3>2, <3>3
  <2>5. ASSUME NEW j \in Identities, NEW s \in Stores PROVE KnowsRelation(d, D \cup {t}, j, s)
    <3>1. KnowsRelation(c, D, j, s)
      BY DEF TablesAgree
    <3>2. d.identity[i] # None
      BY <1>2, <2>2 DEF None
    <3>3. c.identity[j] # None => d.identity[j] # None
      BY <2>2, <3>2
    <3> QED BY <1>1, <2>1, <3>1, <3>3 DEF KnowsRelation, IsFollow
  <2>6. ASSUME NEW s \in Stores PROVE CountsAudience(d, s)
    <3>1. CountsAudience(c, s)
      BY DEF TablesAgree
    <3>2. Followers(d, s) = Followers(c, s)
      BY <2>1 DEF Followers
    <3>3. IsFiniteSet(Audience(c, s)) /\ c.count[s] \in Nat
      BY <3>1, CountsNatural
    <3>4. Audience(c, s) \ {i} = Audience(d, s) \ {i}
      BY <2>1, <2>2 DEF Audience
    <3>5. IsFiniteSet(Audience(d, s))
      <4>1. Audience(d, s) \subseteq Followers(d, s)
        BY DEF Audience, Followers
      <4> QED BY <3>1, <3>2, <4>1, FS_Subset DEF CountsAudience
    <3>6. Cardinality(Audience(d, s)) = Cardinality(Audience(c, s))
            + Counts(i \in Audience(d, s)) - Counts(i \in Audience(c, s))
      BY <3>3, <3>4, <3>5, SizeChanges
    <3>7. i \in Audience(d, s) <=> c.relation[i][s].status = "ACTIVE" /\ e.row.status = "ACTIVE"
      BY <2>1, <2>2 DEF Audience
    <3>8. i \in Audience(c, s) <=> c.relation[i][s].status = "ACTIVE" /\ seen.status = "ACTIVE"
      BY DEF Audience, SeenRight, None
    <3>9. d.count[s] = c.count[s] + Counts(i \in Audience(d, s)) - Counts(i \in Audience(c, s))
      <4>1. CASE c.relation[i][s].status = "ACTIVE"
        BY <2>1, <3>3, <3>7, <3>8, <4>1 DEF Counts
      <4>2. CASE c.relation[i][s].status # "ACTIVE"
        BY <2>1, <3>3, <3>7, <3>8, <4>2 DEF Counts
      <4> QED BY <4>1, <4>2
    <3> QED BY <3>1, <3>2, <3>6, <3>9 DEF CountsAudience
  <2> QED BY <2>1, <2>4, <2>5, <2>6 DEF TablesAgree, d
<1> QED BY <1>6, <1>7

\* and so does handling a follow.
LEMMA FollowKeeps ==
  ASSUME FollowLogInv, NEW c, NEW D, D \subseteq FollowTimes, TablesAgree(c, D),
         NEW t \in FollowTimes, followLog[t].subject = "FOLLOW"
  PROVE  TablesAgree(ProjectFollow(c, followLog[t]), D \cup {t})
<1> DEFINE e == followLog[t]
           i == e.identity
           s == e.store
           d == ProjectFollow(c, e)
<1>1. /\ e \in FollowRow /\ i \in Identities /\ e.row \in Versioned
      /\ s \in Stores /\ IsFollow(i, s, t)
  BY LogRows DEF IsFollow, FollowRow, FollowLogInv
<1>2. e.row.version \in Nat /\ e.row.version >= 1 /\ follow[i][s] # None
  BY <1>1 DEF FollowLogInv, RelationTold, Told, Versioned, None
<1>3. c \in Tables /\ c.relation[i][s] \in Versioned
  BY <1>1 DEF TablesAgree, Tables
<1>4. \A j \in Identities : ~IsStatus(j, t)
  BY DEF IsStatus
<1>5. \A j \in Identities, u \in Stores : IsFollow(j, u, t) <=> j = i /\ u = s
  BY DEF IsFollow
<1> HIDE DEF i, s
<1>6. CASE c.relation[i][s] # None /\ c.relation[i][s].version >= e.row.version
  <2>1. d = c
    BY <1>6 DEF ProjectFollow, i, s
  <2>2. \A j \in Identities : KnowsStatus(c, D \cup {t}, j)
    BY <1>4 DEF TablesAgree, KnowsStatus
  <2>3. ASSUME NEW j \in Identities, NEW u \in Stores PROVE KnowsRelation(c, D \cup {t}, j, u)
    BY <1>5, <1>6 DEF TablesAgree, KnowsRelation
  <2> QED BY <2>1, <2>2, <2>3 DEF TablesAgree
<1>7. CASE ~(c.relation[i][s] # None /\ c.relation[i][s].version >= e.row.version)
  <2>1. /\ d \in Tables
        /\ d.identity = c.identity
        /\ d.relation = [c.relation EXCEPT ![i][s] = e.row]
        /\ \A u \in Stores : d.count[u] =
             IF u = s THEN c.count[u] + Gain(c, i, e.row) - Gain(c, i, c.relation[i][u])
             ELSE c.count[u]
    <3>1. FollowIsNews(c, e)
      BY <1>7 DEF FollowIsNews, i, s
    <3> HIDE DEF e
    <3>2. FollowMakes(c, e, d)
      BY <1>1, <1>3, <3>1, FollowProjected DEF i, s
    <3> HIDE DEF d
    <3> QED BY <1>1, <3>2 DEF FollowMakes, i, s
  <2> HIDE DEF d
  <2>2. /\ d.relation[i][s] = e.row
        /\ \A j \in Identities, u \in Stores :
             j # i \/ u # s => d.relation[j][u] = c.relation[j][u]
    BY <1>1, <1>3, <2>1 DEF Tables
  <2>3. c.relation[i][s].version < e.row.version
    BY <1>2, <1>3, <1>7 DEF None, Versioned
  <2>4. ASSUME NEW j \in Identities PROVE KnowsStatus(d, D \cup {t}, j)
    BY <1>4, <2>1 DEF TablesAgree, KnowsStatus
  <2>5. ASSUME NEW j \in Identities, NEW u \in Stores PROVE KnowsRelation(d, D \cup {t}, j, u)
    <3>1. KnowsRelation(c, D, j, u)
      BY DEF TablesAgree
    <3>2. CASE j = i /\ u = s
      <4>1. ASSUME NEW w \in D, IsFollow(i, s, w) PROVE followLog[w].row.version <= e.row.version
        <5>1. c.relation[i][s].version >= followLog[w].row.version
          BY <3>1, <3>2, <4>1 DEF KnowsRelation
        <5>2. followLog[w].row.version \in Nat
          BY LogRows DEF FollowRow, Versioned
        <5>3. c.relation[i][s].version \in Nat
          BY <1>3 DEF Versioned
        <5> QED BY <1>2, <2>3, <5>1, <5>2, <5>3
      <4>2. ASSUME NEW w \in D \cup {t}, IsFollow(i, s, w)
            PROVE  e.row.version >= followLog[w].row.version
        <5>1. followLog[w].row.version \in Nat
          BY LogRows DEF FollowRow, Versioned
        <5> QED BY <1>2, <4>1, <4>2, <5>1
      <4>3. IsFollow(i, s, t) /\ followLog[t].row = d.relation[i][s]
        BY <1>1, <2>2
      <4> QED BY <2>1, <2>2, <3>1, <3>2, <4>2, <4>3 DEF KnowsRelation
    <3>3. CASE ~(j = i /\ u = s)
      BY <1>5, <2>1, <2>2, <3>1, <3>3 DEF KnowsRelation
    <3> QED BY <3>2, <3>3
  <2>6. ASSUME NEW u \in Stores PROVE CountsAudience(d, u)
    <3>1. CountsAudience(c, u)
      BY DEF TablesAgree
    <3>2. CASE u # s
      <4>1. Followers(d, u) = Followers(c, u) /\ Audience(d, u) = Audience(c, u)
        BY <2>1, <2>2, <3>2 DEF Followers, Audience
      <4> QED BY <2>1, <3>1, <3>2, <4>1 DEF CountsAudience
    <3>3. CASE u = s
      <4>1. IsFiniteSet(Audience(c, s)) /\ c.count[s] \in Nat
        BY <3>1, <3>3, CountsNatural
      <4>2. IsFiniteSet(Followers(d, s))
        <5>1. IsFiniteSet(Followers(c, s) \cup {i})
          BY <3>1, <3>3, FS_AddElement DEF CountsAudience
        <5>2. Followers(d, s) \subseteq Followers(c, s) \cup {i}
          BY <1>1, <2>2 DEF Followers
        <5> QED BY <5>1, <5>2, FS_Subset
      <4>3. IsFiniteSet(Audience(d, s))
        <5>1. Audience(d, s) \subseteq Followers(d, s)
          BY DEF Audience, Followers
        <5> QED BY <4>2, <5>1, FS_Subset
      <4>4. Audience(c, s) \ {i} = Audience(d, s) \ {i}
        BY <1>1, <2>1, <2>2 DEF Audience
      <4>5. Cardinality(Audience(d, s)) = Cardinality(Audience(c, s))
              + Counts(i \in Audience(d, s)) - Counts(i \in Audience(c, s))
        BY <4>1, <4>3, <4>4, SizeChanges
      <4>6. /\ i \in Audience(d, s) <=> e.row.status = "ACTIVE" /\ c.identity[i].status = "ACTIVE"
            /\ i \in Audience(c, s) <=>
                 c.relation[i][s].status = "ACTIVE" /\ c.identity[i].status = "ACTIVE"
        BY <1>1, <2>1, <2>2 DEF Audience
      <4>7. d.count[s] = c.count[s] + Counts(i \in Audience(d, s)) - Counts(i \in Audience(c, s))
        BY <1>1, <2>1, <4>1, <4>6 DEF Counts, Gain
      <4> QED BY <3>1, <3>3, <4>2, <4>5, <4>7 DEF CountsAudience
    <3> QED BY <3>2, <3>3
  <2> QED BY <2>1, <2>4, <2>5, <2>6 DEF TablesAgree, d
<1> QED BY <1>6, <1>7
-----------------------------------------------------------------------------
\* The times of a log are finitely many numbers.
LEMMA TimesFinite ==
  ASSUME FollowLogInv PROVE IsFiniteSet(FollowTimes) /\ FollowTimes \subseteq Int
<1>1. FollowTimes = 1 .. Len(followLog) /\ Len(followLog) \in Nat
  BY DEF FollowTimes, FollowLogInv
<1>2. IsFiniteSet(1 .. Len(followLog))
  BY <1>1, FS_Interval
<1> QED BY <1>1, <1>2

\* A row of the archive turns tables into tables,
LEMMA ReplayTyped ==
  ASSUME FollowLogInv, NEW c \in Tables, NEW t \in FollowTimes
  PROVE  Replay(c, followLog[t]) \in Tables
<1>1. PICK e : e = followLog[t]
  OBVIOUS
<1>2. e \in FollowRow /\ (e.subject = "FOLLOW" => e.store \in Stores)
  BY <1>1, LogRows DEF FollowLogInv
<1>3. CASE e.subject = "IDENTITY"
  <2> DEFINE seen == c.identity[e.identity]
             d == ProjectStatus(c, e, seen)
  <2>1. seen \in Versioned
    BY <1>2 DEF FollowRow, Tables
  <2>2. Replay(c, e) = d
    BY <1>3 DEF Replay
  <2>3. CASE StatusIsNews(e, seen)
    <3> HIDE DEF seen
    <3>1. StatusMakes(c, e, seen, d)
      BY <1>2, <2>1, <2>3, StatusProjected
    <3> HIDE DEF d
    <3> QED BY <1>1, <2>2, <3>1 DEF StatusMakes
  <2>4. CASE ~StatusIsNews(e, seen)
    BY <1>1, <2>2, <2>4 DEF StatusIsNews, ProjectStatus
  <2> QED BY <2>3, <2>4
<1>4. CASE e.subject = "FOLLOW"
  <2> DEFINE d == ProjectFollow(c, e)
  <2>1. Replay(c, e) = d
    BY <1>4 DEF Replay
  <2>2. CASE FollowIsNews(c, e)
    <3>1. FollowMakes(c, e, d)
      BY <1>2, <1>4, <2>2, FollowProjected
    <3> HIDE DEF d
    <3> QED BY <1>1, <2>1, <3>1 DEF FollowMakes
  <2>3. CASE ~FollowIsNews(c, e)
    BY <1>1, <2>1, <2>3 DEF FollowIsNews, ProjectFollow
  <2> QED BY <2>2, <2>3
<1> QED BY <1>2, <1>3, <1>4 DEF FollowRow

\* and keeps their agreement with the log.
LEMMA ReplayKeeps ==
  ASSUME FollowLogInv, NEW c, NEW D, D \subseteq FollowTimes, TablesAgree(c, D),
         NEW t \in FollowTimes
  PROVE  TablesAgree(Replay(c, followLog[t]), D \cup {t})
<1>1. followLog[t] \in FollowRow
  BY LogRows
<1>2. CASE followLog[t].subject = "IDENTITY"
  <2>1. PICK i : i = followLog[t].identity
    OBVIOUS
  <2>2. i \in Identities /\ IsStatus(i, t)
    BY <1>1, <1>2, <2>1 DEF IsStatus, FollowRow
  <2>3. PICK seen : seen = c.identity[i]
    OBVIOUS
  <2>4. SeenRight(c, i, seen)
    BY <2>3 DEF SeenRight
  <2>5. TablesAgree(ProjectStatus(c, followLog[t], seen), D \cup {t})
    BY <2>2, <2>4, StatusKeeps
  <2>6. Replay(c, followLog[t]) = ProjectStatus(c, followLog[t], seen)
    BY <1>2, <2>1, <2>3 DEF Replay
  <2> QED BY <2>5, <2>6
<1>3. CASE followLog[t].subject = "FOLLOW"
  <2>1. Replay(c, followLog[t]) = ProjectFollow(c, followLog[t])
    BY <1>3 DEF Replay
  <2> QED BY <1>3, <2>1, FollowKeeps
<1> QED BY <1>1, <1>2, <1>3 DEF FollowRow

\* The tables that a rebuild begins with agree with a log of which nothing is replayed.
LEMMA SeededAgrees == ASSUME FollowLogInv PROVE TablesAgree(Seeded, {})
<1> DEFINE rows == [i \in Identities |-> IF \E s \in Stores : follow[i][s] # None
                                         THEN At("ACTIVE", 0) ELSE None]
           relations == [i \in Identities |-> [s \in Stores |-> None]]
           zero == [s \in Stores |-> 0]
           c == [identity |-> rows, relation |-> relations, count |-> zero]
<1>1. Seeded = c
  BY DEF Seeded, NoCounts
<1>2. rows \in [Identities -> Versioned]
  BY DEF At, None, Versioned, Status
<1>3. relations \in [Identities -> [Stores -> Versioned]]
  BY DEF None, Versioned, Status
<1>4. c \in Tables
  <2> HIDE DEF rows, relations
  <2> QED BY <1>2, <1>3 DEF Tables
<1>5. ASSUME NEW i \in Identities PROVE KnowsStatus(c, {}, i)
  BY DEF KnowsStatus
<1>6. ASSUME NEW i \in Identities, NEW s \in Stores PROVE KnowsRelation(c, {}, i, s)
  BY DEF KnowsRelation, At, None
<1>7. ASSUME NEW s \in Stores PROVE CountsAudience(c, s)
  <2>1. Followers(c, s) = {} /\ Audience(c, s) = {}
    BY DEF Followers, Audience, None
  <2>2. c.count[s] = 0
    OBVIOUS
  <2> QED BY <2>1, <2>2, FS_EmptySet DEF CountsAudience
<1> QED
  <2> HIDE DEF c
  <2> QED BY <1>1, <1>4, <1>5, <1>6, <1>7 DEF TablesAgree

\* What a rebuild makes of each part of the archive.
Rebuilds(g) ==
  g = [S \in SUBSET FollowTimes |->
         IF S = {} THEN Seeded ELSE Replay(g[S \ {Max(S)}], followLog[Max(S)])]

\* A rebuild makes of the archive what it makes of all of it, one event at a time.
LEMMA RebuildIsReplay ==
  ASSUME \E g : Rebuilds(g)
  PROVE  \E g : Rebuilds(g) /\ FoldLeft(Replay, Seeded, followLog) = g[FollowTimes]
<1> DEFINE h == CHOOSE g : Rebuilds(g)
<1>1. Rebuilds(h)
  BY Zenon
<1>2. FoldLeft(Replay, Seeded, followLog) = h[FollowTimes]
  BY DEF FoldLeft, MapThenFoldSet, Rebuilds, FollowTimes
<1> QED BY <1>1, <1>2

\* There is such a function, since a log is finite.
LEMMA ReplayExists ==
  ASSUME FollowLogInv
  PROVE  \E g : Rebuilds(g)
<1> DEFINE S == FollowTimes
           pick == Largest(S)
           step == [x \in S \X Tables |-> Replay(x[2], followLog[x[1]])]
<1>1. IsFiniteSet(S) /\ Picks(pick, S)
  BY TimesFinite, LargestPicks
<1>2. Seeded \in Tables
  BY SeededAgrees DEF TablesAgree
<1>3. step \in [S \X Tables -> Tables]
  BY ReplayTyped
<1>4. \E g \in [SUBSET S -> Tables] : IsFold(g, S, Seeded, pick, step)
  <2> HIDE DEF S, pick, step
  <2> QED BY <1>1, <1>2, <1>3, FoldExists
<1>5. PICK g \in [SUBSET S -> Tables] : IsFold(g, S, Seeded, pick, step)
  BY <1>4
<1>6. ASSUME NEW s \in SUBSET S, s # {}
      PROVE  g[s] = Replay(g[s \ {Max(s)}], followLog[Max(s)])
  <2>1. g[s] = step[<<pick[s], g[s \ {pick[s]}]>>]
    <3> HIDE DEF S, pick, step
    <3> QED BY <1>5, <1>6, FoldUnfolds
  <2>2. PICK m : m = Max(s)
    OBVIOUS
  <2>3. pick[s] = m /\ m \in S
    BY <1>1, <1>6, <2>2 DEF Largest, Max, Picks
  <2>4. g[s \ {m}] \in Tables
    OBVIOUS
  <2>5. <<m, g[s \ {m}]>> \in S \X Tables
    BY <2>3, <2>4
  <2> HIDE DEF pick
  <2>6. step[<<m, g[s \ {m}]>>] = Replay(g[s \ {m}], followLog[m])
    BY <2>5
  <2> HIDE DEF step
  <2> QED BY <2>1, <2>2, <2>3, <2>6
<1>7. g[{}] = Seeded
  <2> HIDE DEF S, pick, step
  <2> QED BY <1>5, FoldEmpty
<1>8. g = [s \in SUBSET S |-> g[s]]
  OBVIOUS
<1>9. Rebuilds(g)
  <2> HIDE DEF S
  <2>1. [s \in SUBSET S |-> g[s]] = [s \in SUBSET S |->
           IF s = {} THEN Seeded ELSE Replay(g[s \ {Max(s)}], followLog[Max(s)])]
    BY <1>6, <1>7
  <2> QED BY <1>8, <2>1 DEF Rebuilds, S
<1> QED BY <1>9

\* A rebuild knows all that the log tells.
LEMMA RebuildAgrees ==
  ASSUME FollowLogInv
  PROVE  TablesAgree(FoldLeft(Replay, Seeded, followLog), FollowTimes)
<1>1. PICK g : Rebuilds(g) /\ FoldLeft(Replay, Seeded, followLog) = g[FollowTimes]
  BY ReplayExists, RebuildIsReplay
<1> DEFINE S == FollowTimes
           pick == Largest(S)
           J == {U \in SUBSET S : TablesAgree(g[U], U)}
           h == [s \in SUBSET S |->
                   IF s = {} THEN Seeded ELSE Replay(g[s \ {Max(s)}], followLog[Max(s)])]
<1>2. IsFiniteSet(S) /\ Picks(pick, S)
  BY TimesFinite, LargestPicks
<1>3. g = h
  BY <1>1 DEF Rebuilds
<1>4. /\ h[{}] = Seeded
      /\ \A s \in SUBSET S : s # {} => h[s] = Replay(g[s \ {Max(s)}], followLog[Max(s)])
  OBVIOUS
<1> HIDE DEF h
<1>5. {} \in J
  BY <1>3, <1>4, SeededAgrees
<1>6. ASSUME NEW s \in SUBSET S, s # {}, s \ {pick[s]} \in J PROVE s \in J
  <2>1. PICK m : m = Max(s)
    OBVIOUS
  <2>2. pick[s] = m /\ m \in s
    BY <1>2, <1>6, <2>1 DEF Largest, Max, Picks
  <2>3. TablesAgree(g[s \ {m}], s \ {m})
    BY <1>6, <2>2
  <2>4. TablesAgree(Replay(g[s \ {m}], followLog[m]), (s \ {m}) \cup {m})
    BY <2>2, <2>3, ReplayKeeps
  <2>5. g[s] = Replay(g[s \ {m}], followLog[m]) /\ (s \ {m}) \cup {m} = s
    BY <1>3, <1>4, <1>6, <2>1, <2>2
  <2> QED BY <2>4, <2>5
<1>7. S \in J
  <2> HIDE DEF J, S, pick
  <2>1. Hereditary(J, S, pick)
    BY <1>5, <1>6 DEF Hereditary
  <2> QED BY <1>2, <2>1, SetInduction
<1> QED BY <1>1, <1>7
-----------------------------------------------------------------------------
\* What an event adds to the log.
LEMMA LogGrows ==
  ASSUME FollowLogInv, NEW e \in FollowRow, followLog' = Append(followLog, e)
  PROVE  LET n == Len(followLog) + 1
         IN /\ followLog' \in Seq(FollowRow)
            /\ FollowTimes' = FollowTimes \cup {n} /\ n \notin FollowTimes
            /\ \A t \in FollowTimes : followLog'[t] = followLog[t]
            /\ followLog'[n] = e
BY DEF FollowLogInv, FollowTimes

\* Tables that agree with a log agree with a longer one, when they know whoever
\* follows a store for the first time.
LEMMA AgreementLasts ==
  ASSUME NEW c, NEW D, D \subseteq FollowTimes, TablesAgree(c, D),
         FollowTimes \subseteq FollowTimes',
         \A t \in FollowTimes : followLog'[t] = followLog[t],
         \A i \in Identities, s \in Stores :
           follow'[i][s] # None => follow[i][s] # None \/ c.identity[i] # None
  PROVE  TablesAgree(c, D)'
<1>1. ASSUME NEW i \in Identities, NEW t \in FollowTimes PROVE IsStatus(i, t)' <=> IsStatus(i, t)
  BY DEF IsStatus
<1>2. ASSUME NEW i \in Identities, NEW s \in Stores, NEW t \in FollowTimes
      PROVE  IsFollow(i, s, t)' <=> IsFollow(i, s, t)
  BY DEF IsFollow
<1>3. ASSUME NEW i \in Identities PROVE KnowsStatus(c, D, i)'
  <2>1. KnowsStatus(c, D, i)
    BY DEF TablesAgree
  <2> QED BY <1>1, <2>1 DEF KnowsStatus
<1>4. ASSUME NEW i \in Identities, NEW s \in Stores PROVE KnowsRelation(c, D, i, s)'
  <2>1. KnowsRelation(c, D, i, s)
    BY DEF TablesAgree
  <2> QED BY <1>2, <2>1 DEF KnowsRelation
<1>5. ASSUME NEW s \in Stores PROVE CountsAudience(c, s)'
  BY DEF TablesAgree, CountsAudience, Followers, Audience
<1> QED BY <1>3, <1>4, <1>5 DEF TablesAgree

\* and with fewer of its events.
LEMMA AgreesWithFewer ==
  ASSUME NEW c, NEW D, TablesAgree(c, D), NEW E \in SUBSET D
  PROVE  TablesAgree(c, E)
<1>1. \A i \in Identities : KnowsStatus(c, E, i)
  BY DEF TablesAgree, KnowsStatus
<1>2. \A i \in Identities, s \in Stores : KnowsRelation(c, E, i, s)
  BY DEF TablesAgree, KnowsRelation
<1> QED BY <1>1, <1>2 DEF TablesAgree

\* Tables have a row for a relation only if there is one.
LEMMA RelationExists ==
  ASSUME FollowLogInv, NEW c, NEW D, TablesAgree(c, D),
         NEW i \in Identities, NEW s \in Stores, c.relation[i][s] # None
  PROVE  follow[i][s] # None /\ c.identity[i] # None
<1>1. KnowsRelation(c, D, i, s)
  BY DEF TablesAgree
<1>2. PICK t \in FollowTimes : IsFollow(i, s, t)
  BY <1>1 DEF KnowsRelation
<1>3. Told(follow[i][s], followLog[t].row)
  BY <1>2 DEF FollowLogInv, RelationTold
<1>4. followLog[t].row.version \in Nat /\ follow[i][s].version \in Nat
  <2>1. followLog[t] \in FollowRow
    BY LogRows
  <2>2. follow[i][s] \in Versioned
    BY DEF FollowLogInv
  <2> QED BY <2>1, <2>2 DEF Versioned, FollowRow
<1>5. follow[i][s].version # 0
  BY <1>3, <1>4 DEF Told
<1>6. follow[i][s] # None
  BY <1>5 DEF None
<1> QED BY <1>1, <1>6 DEF KnowsRelation

\* A change of status is told,
LEMMA StatusLogged ==
  ASSUME FollowLogInv, NEW i \in Identities, NEW status \in {"ACTIVE", "INACTIVE"},
         ChangeStatus(i, status)
  PROVE  FollowLogInv'
<1> DEFINE row == At(status, identity[i].version + 1)
           e == StatusEvent(i, row)
<1>1. row \in Versioned /\ row.version = identity[i].version + 1 /\ identity[i].version \in Nat
  BY DEF At, Versioned, Status, FollowLogInv
<1>2. e \in FollowRow /\ e.subject = "IDENTITY" /\ e.identity = i /\ e.row = row
  <2> HIDE DEF row
  <2> QED BY <1>1 DEF StatusEvent, FollowRow
<1>3. /\ followLog' = Append(followLog, e) /\ follow' = follow
      /\ identity' = [identity EXCEPT ![i] = row]
  BY DEF ChangeStatus, Logged
<1> HIDE DEF row, e
<1>0. PICK n : n = Len(followLog) + 1
  OBVIOUS
<1>4. /\ followLog' \in Seq(FollowRow)
      /\ FollowTimes' = FollowTimes \cup {n} /\ n \notin FollowTimes
      /\ \A t \in FollowTimes : followLog'[t] = followLog[t]
      /\ followLog'[n] = e
  BY <1>0, <1>2, <1>3, LogGrows
<1>5. /\ identity' \in [Identities -> Versioned]
      /\ identity'[i] = row /\ \A j \in Identities \ {i} : identity'[j] = identity[j]
  BY <1>1, <1>3 DEF FollowLogInv
<1>6. ASSUME NEW j \in Identities PROVE IdentityTold(j)'
  <2>1. IdentityTold(j)
    BY DEF FollowLogInv
  <2>2. \A t \in FollowTimes : IsStatus(j, t)' <=> IsStatus(j, t)
    BY <1>4 DEF IsStatus
  <2>3. CASE j = i
    <3>1. IsStatus(i, n)' /\ followLog'[n].row = row
      BY <1>2, <1>4 DEF IsStatus
    <3>2. Told(row, row)
      BY <1>1 DEF Told
    <3>3. ASSUME NEW t \in FollowTimes, IsStatus(i, t) PROVE Told(row, followLog[t].row)
      <4>1. Told(identity[i], followLog[t].row)
        BY <2>1, <2>3, <3>3 DEF IdentityTold
      <4>2. followLog[t].row.version \in Nat
        BY LogRows DEF FollowRow, Versioned
      <4> QED BY <1>1, <4>1, <4>2 DEF Told
    <3> QED BY <1>4, <1>5, <2>2, <2>3, <3>1, <3>2, <3>3 DEF IdentityTold
  <2>4. CASE j # i
    <3>1. ~IsStatus(j, n)'
      BY <1>2, <1>4, <2>4 DEF IsStatus
    <3> QED BY <1>4, <1>5, <2>1, <2>2, <2>4, <3>1 DEF IdentityTold
  <2> QED BY <2>3, <2>4
<1>7. ASSUME NEW j \in Identities, NEW s \in Stores PROVE RelationTold(j, s)'
  <2>1. RelationTold(j, s)
    BY DEF FollowLogInv
  <2>2. \A t \in FollowTimes : IsFollow(j, s, t)' <=> IsFollow(j, s, t)
    BY <1>4 DEF IsFollow
  <2>3. ~IsFollow(j, s, n)'
    BY <1>2, <1>4 DEF IsFollow
  <2> QED BY <1>3, <1>4, <2>1, <2>2, <2>3 DEF RelationTold
<1>8. \A t \in FollowTimes' : followLog'[t].subject = "FOLLOW" => followLog'[t].store \in Stores
  BY <1>2, <1>4 DEF FollowLogInv
<1> QED BY <1>3, <1>4, <1>5, <1>6, <1>7, <1>8 DEF FollowLogInv

\* and so is a follow.
LEMMA FollowLogged ==
  ASSUME FollowLogInv, NEW i \in Identities, NEW s \in Stores,
         NEW status \in {"ACTIVE", "INACTIVE"}, Write(i, s, status)
  PROVE  FollowLogInv'
<1> DEFINE row == At(status, follow[i][s].version + 1)
           e == FollowEvent(i, s, row)
<1>1. row \in Versioned /\ row.version = follow[i][s].version + 1 /\ follow[i][s].version \in Nat
  BY DEF At, Versioned, Status, FollowLogInv
<1>2. e \in FollowRow /\ e.subject = "FOLLOW" /\ e.identity = i /\ e.store = s /\ e.row = row
  <2> HIDE DEF row
  <2> QED BY <1>1 DEF FollowEvent, FollowRow
<1>3. /\ followLog' = Append(followLog, e) /\ identity' = identity
      /\ follow' = [follow EXCEPT ![i][s] = row]
  BY DEF Write, Logged
<1> HIDE DEF row, e
<1>0. PICK n : n = Len(followLog) + 1
  OBVIOUS
<1>4. /\ followLog' \in Seq(FollowRow)
      /\ FollowTimes' = FollowTimes \cup {n} /\ n \notin FollowTimes
      /\ \A t \in FollowTimes : followLog'[t] = followLog[t]
      /\ followLog'[n] = e
  BY <1>0, <1>2, <1>3, LogGrows
<1>5. /\ follow' \in [Identities -> [Stores -> Versioned]]
      /\ follow'[i][s] = row
      /\ \A j \in Identities, u \in Stores : j # i \/ u # s => follow'[j][u] = follow[j][u]
  BY <1>1, <1>3 DEF FollowLogInv
<1>6. ASSUME NEW j \in Identities, NEW u \in Stores PROVE RelationTold(j, u)'
  <2>1. RelationTold(j, u)
    BY DEF FollowLogInv
  <2>2. \A t \in FollowTimes : IsFollow(j, u, t)' <=> IsFollow(j, u, t)
    BY <1>4 DEF IsFollow
  <2>3. CASE j = i /\ u = s
    <3>1. IsFollow(i, s, n)' /\ followLog'[n].row = row
      BY <1>2, <1>4 DEF IsFollow
    <3>2. Told(row, row)
      BY <1>1 DEF Told
    <3>3. ASSUME NEW t \in FollowTimes, IsFollow(i, s, t) PROVE Told(row, followLog[t].row)
      <4>1. Told(follow[i][s], followLog[t].row)
        BY <2>1, <2>3, <3>3 DEF RelationTold
      <4>2. followLog[t].row.version \in Nat
        BY LogRows DEF FollowRow, Versioned
      <4> QED BY <1>1, <4>1, <4>2 DEF Told
    <3> QED BY <1>4, <1>5, <2>2, <2>3, <3>1, <3>2, <3>3 DEF RelationTold
  <2>4. CASE ~(j = i /\ u = s)
    <3>1. ~IsFollow(j, u, n)'
      BY <1>2, <1>4, <2>4 DEF IsFollow
    <3> QED BY <1>4, <1>5, <2>1, <2>2, <2>4, <3>1 DEF RelationTold
  <2> QED BY <2>3, <2>4
<1>7. ASSUME NEW j \in Identities PROVE IdentityTold(j)'
  <2>1. IdentityTold(j)
    BY DEF FollowLogInv
  <2>2. \A t \in FollowTimes : IsStatus(j, t)' <=> IsStatus(j, t)
    BY <1>4 DEF IsStatus
  <2>3. ~IsStatus(j, n)'
    BY <1>2, <1>4 DEF IsStatus
  <2> QED BY <1>3, <1>4, <2>1, <2>2, <2>3 DEF IdentityTold
<1>8. \A t \in FollowTimes' : followLog'[t].subject = "FOLLOW" => followLog'[t].store \in Stores
  BY <1>2, <1>4 DEF FollowLogInv
<1> QED BY <1>3, <1>4, <1>5, <1>6, <1>7, <1>8 DEF FollowLogInv
-----------------------------------------------------------------------------
\* A change of status
LEMMA ChangeStatusStep ==
  ASSUME FollowingInv, NEW i \in Identities, NEW status \in {"ACTIVE", "INACTIVE"},
         ChangeStatus(i, status)
  PROVE  FollowingInv'
<1> DEFINE e == StatusEvent(i, At(status, identity[i].version + 1))
<1>1. FollowLogInv /\ FollowLogInv'
  BY StatusLogged DEF FollowingInv
<1>2. /\ followLog' = Append(followLog, e) /\ UNCHANGED <<follow, counts, statusRead, counted>>
      /\ e \in FollowRow
  BY <1>1 DEF ChangeStatus, Logged, StatusEvent, FollowRow, FollowLogInv, At, Versioned, Status
<1> HIDE DEF e
<1>3. /\ FollowTimes \subseteq FollowTimes'
      /\ \A t \in FollowTimes : followLog'[t] = followLog[t]
  BY <1>1, <1>2, LogGrows
<1>4. PICK c, D : c = counts /\ D = counted
  OBVIOUS
<1>5. TablesAgree(c, D)'
  BY <1>2, <1>3, <1>4, AgreementLasts DEF FollowingInv
<1>6. TablesAgree(counts, counted)'
  BY <1>2, <1>4, <1>5
<1>7. ReadInv'
  BY <1>2, <1>3 DEF FollowingInv, ReadInv, IsStatus, SeenRight
<1> QED BY <1>1, <1>2, <1>3, <1>6, <1>7 DEF FollowingInv

\* and a write of a buyer: before it nothing is known of its identity but, perhaps,
\* that it has no relation.
LEMMA WriteStep ==
  ASSUME FollowingInv, NEW i \in Identities, NEW s \in Stores,
         NEW status \in {"ACTIVE", "INACTIVE"}, Write(i, s, status)
  PROVE  FollowingInv'
<1> DEFINE e == FollowEvent(i, s, At(status, follow[i][s].version + 1))
           known == IF counts.identity[i] = None THEN At("ACTIVE", 0) ELSE counts.identity[i]
           rows == [counts.identity EXCEPT ![i] = known]
<1>1. FollowLogInv /\ FollowLogInv' /\ TablesAgree(counts, counted) /\ counts \in Tables
  BY FollowLogged DEF FollowingInv, TablesAgree
<1>2. /\ followLog' = Append(followLog, e) /\ UNCHANGED <<identity, statusRead, counted>>
      /\ follow' = [follow EXCEPT ![i][s] = At(status, follow[i][s].version + 1)]
  BY DEF Write, Logged
<1>3. e \in FollowRow
  <2> DEFINE row == At(status, follow[i][s].version + 1)
  <2>1. follow[i][s].version \in Nat
    BY <1>1 DEF FollowLogInv, Versioned
  <2>2. row \in Versioned
    BY <2>1 DEF At, Versioned, Status
  <2> HIDE DEF row
  <2>3. FollowEvent(i, s, row) \in FollowRow
    BY <2>2 DEF FollowEvent, FollowRow
  <2> QED BY <2>3 DEF row
<1> HIDE DEF e
<1>4. /\ FollowTimes \subseteq FollowTimes'
      /\ \A t \in FollowTimes : followLog'[t] = followLog[t]
  BY <1>1, <1>2, <1>3, LogGrows
<1>5. PICK d : d = counts'
  OBVIOUS
<1>6. d = [identity |-> rows, relation |-> counts.relation, count |-> counts.count]
  <2>1. d = [counts EXCEPT !.identity = rows]
    BY <1>1, <1>5, Zenon DEF Write, Tables
  <2> HIDE DEF rows
  <2> QED BY <1>1, <2>1 DEF Tables
<1>7. known \in Versioned /\ known # None
  BY <1>1 DEF Tables, Versioned, Status, At, None
<1>8. /\ d \in Tables /\ d.relation = counts.relation /\ d.count = counts.count
      /\ d.identity[i] = known
      /\ \A j \in Identities \ {i} : d.identity[j] = counts.identity[j]
  <2> HIDE DEF known
  <2> QED BY <1>1, <1>6, <1>7 DEF Tables
<1>9. ASSUME counts.identity[i] = None, NEW u \in Stores PROVE counts.relation[i][u] = None
  BY <1>1, <1>9, RelationExists
<1>10. TablesAgree(d, counted)
  <2>1. ASSUME NEW j \in Identities PROVE KnowsStatus(d, counted, j)
    <3>1. KnowsStatus(counts, counted, j)
      BY <1>1 DEF TablesAgree
    <3>2. CASE j = i /\ counts.identity[i] = None
      BY <1>8, <3>1, <3>2 DEF KnowsStatus, At, None
    <3>3. CASE ~(j = i /\ counts.identity[i] = None)
      <4>1. d.identity[j] = counts.identity[j]
        BY <1>8, <3>3
      <4> QED BY <3>1, <4>1 DEF KnowsStatus
    <3> QED BY <3>2, <3>3
  <2>2. ASSUME NEW j \in Identities, NEW u \in Stores PROVE KnowsRelation(d, counted, j, u)
    <3>1. KnowsRelation(counts, counted, j, u)
      BY <1>1 DEF TablesAgree
    <3> QED BY <1>7, <1>8, <3>1 DEF KnowsRelation
  <2>3. ASSUME NEW u \in Stores PROVE CountsAudience(d, u)
    <3>1. CountsAudience(counts, u)
      BY <1>1 DEF TablesAgree
    <3>2. Followers(d, u) = Followers(counts, u)
      BY <1>8 DEF Followers
    <3>3. ASSUME NEW j \in Identities, counts.relation[j][u].status = "ACTIVE"
          PROVE  d.identity[j] = counts.identity[j]
      BY <1>8, <1>9, <3>3 DEF None
    <3>4. Audience(d, u) = Audience(counts, u)
      BY <1>8, <3>3 DEF Audience
    <3> QED BY <1>8, <3>1, <3>2, <3>4 DEF CountsAudience
  <2> QED BY <1>8, <2>1, <2>2, <2>3 DEF TablesAgree
<1>11. ASSUME NEW j \in Identities, NEW u \in Stores, follow'[j][u] # None
       PROVE  follow[j][u] # None \/ d.identity[j] # None
  <2>1. CASE j = i
    BY <1>7, <1>8, <2>1
  <2>2. CASE j # i
    BY <1>1, <1>2, <1>11, <2>2 DEF FollowLogInv
  <2> QED BY <2>1, <2>2
<1>12. PICK D : D = counted
  OBVIOUS
<1>13. TablesAgree(d, D)'
  BY <1>4, <1>10, <1>11, <1>12, AgreementLasts DEF FollowingInv
<1>14. TablesAgree(counts, counted)'
  BY <1>2, <1>5, <1>12, <1>13
<1>15. ASSUME NEW j \in Identities, NEW seen, SeenRight(counts, j, seen) PROVE SeenRight(d, j, seen)
  <2>1. CASE j = i /\ counts.identity[i] = None
    BY <1>8, <1>9, <1>15, <2>1 DEF SeenRight, At, None
  <2>2. CASE ~(j = i /\ counts.identity[i] = None)
    <3>1. d.identity[j] = counts.identity[j]
      BY <1>8, <2>2
    <3> QED BY <1>8, <1>15, <3>1 DEF SeenRight
  <2> QED BY <2>1, <2>2
<1>16. ReadInv'
  BY <1>2, <1>4, <1>5, <1>15 DEF FollowingInv, ReadInv, IsStatus
<1> QED BY <1>1, <1>2, <1>4, <1>14, <1>16 DEF FollowingInv

\* Handlers leave the log alone,
LEMMA LogStays ==
  ASSUME FollowLogInv, UNCHANGED <<identity, follow, followLog>>
  PROVE  /\ FollowLogInv' /\ FollowTimes' = FollowTimes
         /\ \A i \in Identities, t \in FollowTimes : IsStatus(i, t)' <=> IsStatus(i, t)
<1>1. FollowTimes' = FollowTimes
  BY DEF FollowTimes
<1>2. \A i, t : IsStatus(i, t)' <=> IsStatus(i, t)
  BY DEF IsStatus
<1>3. \A i, s, t : IsFollow(i, s, t)' <=> IsFollow(i, s, t)
  BY DEF IsFollow
<1>4. \A i \in Identities : IdentityTold(i)' <=> IdentityTold(i)
  BY <1>1, <1>2 DEF IdentityTold
<1>5. \A i \in Identities, s \in Stores : RelationTold(i, s)' <=> RelationTold(i, s)
  BY <1>1, <1>3 DEF RelationTold
<1> QED BY <1>1, <1>2, <1>4, <1>5 DEF FollowLogInv

\* and with it whatever agrees with it.
LEMMA AgreementStays ==
  ASSUME NEW c, NEW D, D \subseteq FollowTimes, TablesAgree(c, D),
         UNCHANGED <<identity, follow, followLog>>
  PROVE  TablesAgree(c, D)'
<1>1. FollowTimes' = FollowTimes
  BY DEF FollowTimes
<1> QED BY <1>1, AgreementLasts

\* A handler that reads an identity's row,
LEMMA ReadStatusStep ==
  ASSUME FollowingInv, NEW t \in FollowTimes, ReadStatus(t)
  PROVE  FollowingInv'
<1> DEFINE i == followLog[t].identity
           r == [time |-> t, row |-> counts.identity[i]]
<1>1. UNCHANGED <<identity, follow, followLog, counts, counted>>
  BY DEF ReadStatus
<1>2. FollowLogInv' /\ TablesAgree(counts, counted)' /\ FollowTimes' = FollowTimes
  <2>1. PICK c, D : c = counts /\ D = counted
    OBVIOUS
  <2>2. TablesAgree(c, D)'
    BY <1>1, <2>1, AgreementStays DEF FollowingInv
  <2> QED BY <1>1, <2>1, <2>2, LogStays DEF FollowingInv
<1>3. /\ followLog[t] \in FollowRow /\ t \in Nat /\ i \in Identities
      /\ IsStatus(i, t)
  <2>1. followLog[t] \in FollowRow /\ t \in 1 .. Len(followLog)
    BY LogRows DEF FollowingInv
  <2>2. Len(followLog) \in Nat
    BY DEF FollowingInv, FollowLogInv
  <2>3. t \in Nat
    BY <2>1, <2>2
  <2>4. i \in Identities
    BY <2>1 DEF FollowRow
  <2>5. followLog[t].subject = "IDENTITY"
    BY DEF ReadStatus
  <2>6. IsStatus(i, t)
    BY <2>5 DEF IsStatus
  <2> QED BY <2>1, <2>3, <2>4, <2>6
<1>4. r \in [time : Nat, row : Versioned]
  BY <1>3 DEF FollowingInv, TablesAgree, Tables
<1>5. statusRead' = [statusRead EXCEPT ![i] = r]
  BY DEF ReadStatus
<1>6. r.time = t /\ r.row = counts.identity[i]
  OBVIOUS
<1> HIDE DEF r, i
<1>7. ReadInv'
  BY <1>1, <1>2, <1>3, <1>4, <1>5, <1>6 DEF FollowingInv, ReadInv, IsStatus, SeenRight
<1> QED BY <1>1, <1>2, <1>7 DEF FollowingInv

\* one that writes what it makes of it,
LEMMA CountStatusStep ==
  ASSUME FollowingInv, NEW i \in Identities, CountStatus(i)
  PROVE  FollowingInv'
<1>1. PICK t, seen : t = statusRead[i].time /\ seen = statusRead[i].row
  OBVIOUS
<1>2. PICK d : d = ProjectStatus(counts, followLog[t], seen)
  OBVIOUS
<1>3. PICK D : D = counted \cup {t}
  OBVIOUS
<1>4. /\ UNCHANGED <<identity, follow, followLog>> /\ counts' = d /\ counted' = D
      /\ statusRead[i] # NoRead /\ statusRead' = [statusRead EXCEPT ![i] = NoRead]
  BY <1>1, <1>2, <1>3 DEF CountStatus
<1>5. FollowLogInv /\ ReadInv /\ counted \subseteq FollowTimes /\ TablesAgree(counts, counted)
  BY DEF FollowingInv
<1>6. t \in FollowTimes /\ IsStatus(i, t) /\ SeenRight(counts, i, seen)
  BY <1>1, <1>4, <1>5 DEF ReadInv
<1>7. TablesAgree(d, D)
  BY <1>2, <1>3, <1>5, <1>6, StatusKeeps
<1>8. TablesAgree(d, D)'
  BY <1>3, <1>4, <1>5, <1>6, <1>7, AgreementStays
<1>9. d.relation = counts.relation /\ \A j \in Identities \ {i} : d.identity[j] = counts.identity[j]
  <2>1. followLog[t] \in FollowRow /\ followLog[t].identity = i
    BY <1>5, <1>6, LogRows DEF IsStatus
  <2>2. seen \in Versioned /\ counts \in Tables
    BY <1>1, <1>5 DEF ReadInv, TablesAgree
  <2>3. CASE StatusIsNews(followLog[t], seen)
    <3>1. StatusMakes(counts, followLog[t], seen, d)
      BY <1>2, <2>1, <2>2, <2>3, StatusProjected
    <3> QED BY <2>1, <2>2, <3>1 DEF StatusMakes, Tables
  <2>4. CASE ~StatusIsNews(followLog[t], seen)
    BY <1>2, <2>4 DEF StatusIsNews, ProjectStatus
  <2> QED BY <2>3, <2>4
<1>10. FollowLogInv' /\ FollowTimes' = FollowTimes
       /\ \A j \in Identities, u \in FollowTimes : IsStatus(j, u)' <=> IsStatus(j, u)
  BY <1>4, <1>5, LogStays
<1>11. ReadInv'
  <2>1. NoRead \in [time : Nat, row : Versioned]
    BY DEF NoRead, None, Versioned, Status
  <2>2. /\ statusRead' \in [Identities -> [time : Nat, row : Versioned]]
        /\ statusRead'[i] = NoRead
        /\ \A j \in Identities \ {i} : statusRead'[j] = statusRead[j]
    BY <1>4, <1>5, <2>1 DEF ReadInv
  <2>3. ASSUME NEW j \in Identities \ {i}, NEW r, SeenRight(counts, j, r) PROVE SeenRight(d, j, r)
    BY <1>9, <2>3 DEF SeenRight
  <2>4. PICK r : r = statusRead'
    OBVIOUS
  <2>5. ASSUME NEW j \in Identities, r[j] # NoRead
        PROVE  /\ r[j].time \in FollowTimes' /\ IsStatus(j, r[j].time)'
               /\ SeenRight(counts, j, r[j].row)'
    <3>1. j \in Identities \ {i} /\ r[j] = statusRead[j]
      BY <2>2, <2>4, <2>5
    <3>2. r[j].time \in FollowTimes /\ IsStatus(j, r[j].time) /\ SeenRight(counts, j, r[j].row)
      BY <1>5, <2>5, <3>1 DEF ReadInv
    <3>3. SeenRight(d, j, r[j].row)
      BY <2>3, <3>1, <3>2
    <3> QED BY <1>4, <1>10, <3>1, <3>2, <3>3 DEF SeenRight
  <2> QED BY <2>2, <2>4, <2>5 DEF ReadInv
<1> QED BY <1>3, <1>4, <1>5, <1>6, <1>8, <1>10, <1>11 DEF FollowingInv

\* the handler of a follow,
LEMMA CountFollowStep ==
  ASSUME FollowingInv, NEW t \in FollowTimes, CountFollow(t)
  PROVE  FollowingInv'
<1>1. PICK e, i : e = followLog[t] /\ i = followLog[t].identity
  OBVIOUS
<1>2. PICK d : d = ProjectFollow(counts, e)
  OBVIOUS
<1>3. PICK D : D = counted \cup {t}
  OBVIOUS
<1>4. /\ UNCHANGED <<identity, follow, followLog, statusRead>> /\ counts' = d /\ counted' = D
      /\ statusRead[i] = NoRead /\ e.subject = "FOLLOW"
  BY <1>1, <1>2, <1>3 DEF CountFollow
<1>5. FollowLogInv /\ ReadInv /\ counted \subseteq FollowTimes /\ TablesAgree(counts, counted)
  BY DEF FollowingInv
<1>6. TablesAgree(d, D)
  BY <1>1, <1>2, <1>3, <1>4, <1>5, FollowKeeps
<1>7. TablesAgree(d, D)'
  BY <1>3, <1>4, <1>5, <1>6, AgreementStays
<1>8. /\ d.identity = counts.identity
      /\ \A j \in Identities \ {i}, s \in Stores : d.relation[j][s] = counts.relation[j][s]
  <2>1. e \in FollowRow /\ e.store \in Stores /\ e.identity = i
    BY <1>1, <1>4, <1>5, LogRows DEF FollowLogInv
  <2>2. counts \in Tables
    BY <1>5 DEF TablesAgree
  <2>3. CASE FollowIsNews(counts, e)
    <3>1. FollowMakes(counts, e, d)
      BY <1>2, <2>1, <2>2, <2>3, FollowProjected
    <3> QED BY <2>1, <2>2, <3>1 DEF FollowMakes, Tables
  <2>4. CASE ~FollowIsNews(counts, e)
    BY <1>2, <2>4 DEF FollowIsNews, ProjectFollow
  <2> QED BY <2>3, <2>4
<1>9. FollowLogInv' /\ FollowTimes' = FollowTimes
       /\ \A j \in Identities, u \in FollowTimes : IsStatus(j, u)' <=> IsStatus(j, u)
  BY <1>4, <1>5, LogStays
<1>10. ReadInv'
  <2>1. ASSUME NEW j \in Identities \ {i}, NEW r, SeenRight(counts, j, r) PROVE SeenRight(d, j, r)
    BY <1>8, <2>1 DEF SeenRight
  <2>2. ASSUME NEW j \in Identities, statusRead[j] # NoRead
        PROVE  /\ statusRead[j].time \in FollowTimes /\ IsStatus(j, statusRead[j].time)
               /\ SeenRight(d, j, statusRead[j].row)
    <3>1. j \in Identities \ {i}
      BY <1>4, <2>2
    <3>2. /\ statusRead[j].time \in FollowTimes /\ IsStatus(j, statusRead[j].time)
          /\ SeenRight(counts, j, statusRead[j].row)
      BY <1>5, <2>2 DEF ReadInv
    <3> QED BY <2>1, <3>1, <3>2
  <2>3. PICK r : r = statusRead
    OBVIOUS
  <2>4. ASSUME NEW j \in Identities, r[j] # NoRead
        PROVE  /\ r[j].time \in FollowTimes' /\ IsStatus(j, r[j].time)'
               /\ SeenRight(counts, j, r[j].row)'
    <3>1. r[j].time \in FollowTimes /\ IsStatus(j, r[j].time) /\ SeenRight(d, j, r[j].row)
      BY <2>2, <2>3, <2>4
    <3> QED BY <1>4, <1>9, <3>1 DEF SeenRight
  <2>5. statusRead' = r /\ r \in [Identities -> [time : Nat, row : Versioned]]
    BY <1>4, <1>5, <2>3 DEF ReadInv
  <2> QED BY <2>4, <2>5 DEF ReadInv
<1> QED BY <1>3, <1>4, <1>5, <1>7, <1>9, <1>10 DEF FollowingInv

\* one that dies
LEMMA AbandonStatusStep ==
  ASSUME FollowingInv, NEW i \in Identities, AbandonStatus(i)
  PROVE  FollowingInv'
<1>1. PICK c, D : c = counts /\ D = counted
  OBVIOUS
<1>2. /\ UNCHANGED <<identity, follow, followLog, counts, counted>>
      /\ statusRead' = [statusRead EXCEPT ![i] = NoRead]
  BY DEF AbandonStatus
<1>3. TablesAgree(c, D)'
  BY <1>1, <1>2, AgreementStays DEF FollowingInv
<1>4. FollowLogInv' /\ FollowTimes' = FollowTimes
       /\ \A j \in Identities, u \in FollowTimes : IsStatus(j, u)' <=> IsStatus(j, u)
  BY <1>2, LogStays DEF FollowingInv
<1>5. ReadInv'
  <2>1. NoRead \in [time : Nat, row : Versioned]
    BY DEF NoRead, None, Versioned, Status
  <2>2. /\ statusRead' \in [Identities -> [time : Nat, row : Versioned]]
        /\ statusRead'[i] = NoRead
        /\ \A j \in Identities \ {i} : statusRead'[j] = statusRead[j]
    BY <1>2, <2>1 DEF FollowingInv, ReadInv
  <2> QED BY <1>2, <1>4, <2>2 DEF FollowingInv, ReadInv, SeenRight
<1> QED BY <1>1, <1>2, <1>3, <1>4, <1>5 DEF FollowingInv

\* and a rebuild.
LEMMA RebuildStep ==
  ASSUME FollowingInv, RebuildCounts
  PROVE  FollowingInv'
<1>1. PICK d : d = FoldLeft(Replay, Seeded, followLog)
  OBVIOUS
<1>2. PICK D : D = counted'
  OBVIOUS
<1>3. /\ UNCHANGED <<identity, follow, followLog, statusRead>> /\ counts' = d
      /\ \A i \in Identities : statusRead[i] = NoRead
      /\ D \subseteq FollowTimes
  BY <1>1, <1>2 DEF RebuildCounts
<1>4. TablesAgree(d, FollowTimes)
  BY <1>1, RebuildAgrees DEF FollowingInv
<1>5. TablesAgree(d, D)
  BY <1>3, <1>4, AgreesWithFewer
<1>6. TablesAgree(d, D)'
  BY <1>3, <1>5, AgreementStays
<1>7. FollowLogInv' /\ FollowTimes' = FollowTimes
  BY <1>3, LogStays DEF FollowingInv
<1>8. ReadInv'
  BY <1>3 DEF FollowingInv, ReadInv
<1> QED BY <1>2, <1>3, <1>6, <1>7, <1>8 DEF FollowingInv

LEMMA FollowingStep == ASSUME FollowingInv, FollowingNext PROVE FollowingInv'
BY ChangeStatusStep, WriteStep, ReadStatusStep, CountStatusStep, CountFollowStep,
   AbandonStatusStep, RebuildStep DEF FollowingNext

LEMMA FollowingStays == ASSUME FollowingInv, UNCHANGED followingVars PROVE FollowingInv'
<1>1. PICK c, D : c = counts /\ D = counted
  OBVIOUS
<1>2. UNCHANGED <<identity, follow, followLog>> /\ UNCHANGED <<counts, statusRead, counted>>
  BY DEF followingVars
<1>3. TablesAgree(c, D)'
  BY <1>1, <1>2, AgreementStays DEF FollowingInv
<1>4. FollowLogInv' /\ FollowTimes' = FollowTimes
       /\ \A j \in Identities, u \in FollowTimes : IsStatus(j, u)' <=> IsStatus(j, u)
  BY <1>2, LogStays DEF FollowingInv
<1>5. ReadInv'
  BY <1>2, <1>4 DEF FollowingInv, ReadInv, SeenRight
<1> QED BY <1>1, <1>2, <1>3, <1>4, <1>5 DEF FollowingInv

\* The first tables agree with the empty log.
LEMMA FollowingStarts == ASSUME FollowingInit PROVE FollowingInv
<1>1. followLog = <<>> /\ FollowTimes = {}
  BY DEF FollowingInit, FollowTimes
<1>2. identity \in [Identities -> Versioned] /\ follow \in [Identities -> [Stores -> Versioned]]
  <2>1. At("ACTIVE", 0) \in Versioned /\ None \in Versioned
    BY DEF At, None, Versioned, Status
  <2> QED BY <2>1 DEF FollowingInit
<1>3. FollowLogInv
  BY <1>1, <1>2 DEF FollowingInit, FollowLogInv, IdentityTold, RelationTold
<1>4. Seeded = counts
  <2>1. \A i \in Identities : ~\E s \in Stores : follow[i][s] # None
    BY DEF FollowingInit
  <2>2. [i \in Identities |-> IF \E s \in Stores : follow[i][s] # None
                              THEN At("ACTIVE", 0) ELSE None] = NoCounts.identity
    BY <2>1 DEF NoCounts
  <2> QED BY <2>2 DEF Seeded, NoCounts, FollowingInit
<1>5. TablesAgree(counts, counted) /\ counted \subseteq FollowTimes
  BY <1>3, <1>4, SeededAgrees DEF FollowingInit
<1>6. ReadInv
  BY DEF FollowingInit, ReadInv, NoRead, None, Versioned, Status
<1> QED BY <1>3, <1>5, <1>6 DEF FollowingInv
-----------------------------------------------------------------------------
\* Tables that saw the whole log know the rows as they are.
LEMMA RelationKnown ==
  ASSUME FollowLogInv, NEW c, TablesAgree(c, FollowTimes),
         NEW i \in Identities, NEW s \in Stores
  PROVE  c.relation[i][s] = follow[i][s]
<1>1. KnowsRelation(c, FollowTimes, i, s) /\ c.relation[i][s] \in Versioned
  BY DEF TablesAgree, Tables
<1>2. RelationTold(i, s) /\ follow[i][s] \in Versioned
  BY DEF FollowLogInv
<1>3. CASE follow[i][s] = None
  <2>1. c.relation[i][s] = None
    BY <1>3, RelationExists
  <2> QED BY <1>3, <2>1
<1>4. CASE follow[i][s] # None
  <2>1. PICK t \in FollowTimes : IsFollow(i, s, t) /\ followLog[t].row = follow[i][s]
    BY <1>2, <1>4 DEF RelationTold
  <2>2. Told(follow[i][s], follow[i][s])
    BY <1>2, <2>1 DEF RelationTold
  <2>3. c.relation[i][s].version >= follow[i][s].version /\ follow[i][s].version >= 1
    BY <1>1, <1>2, <2>1, <2>2 DEF KnowsRelation, Told, Versioned
  <2>4. c.relation[i][s] # None
    BY <1>1, <1>2, <2>3 DEF None, Versioned
  <2>5. Told(follow[i][s], c.relation[i][s])
    BY <1>1, <1>2, <2>4 DEF KnowsRelation, RelationTold
  <2> QED BY <1>1, <1>2, <2>3, <2>5 DEF Told, Versioned
<1> QED BY <1>3, <1>4

LEMMA StatusKnown ==
  ASSUME FollowLogInv, NEW c, TablesAgree(c, FollowTimes),
         NEW i \in Identities, c.identity[i] # None
  PROVE  c.identity[i] = identity[i]
<1>1. KnowsStatus(c, FollowTimes, i) /\ c.identity[i] \in Versioned
  BY DEF TablesAgree, Tables
<1>2. IdentityTold(i) /\ identity[i] \in Versioned
  BY DEF FollowLogInv
<1>3. ASSUME c.identity[i] # At("ACTIVE", 0) PROVE Told(identity[i], c.identity[i])
  BY <1>1, <1>2, <1>3 DEF KnowsStatus, IdentityTold
<1>4. CASE identity[i] = At("ACTIVE", 0)
  BY <1>1, <1>3, <1>4 DEF Told, At, Versioned
<1>5. CASE identity[i] # At("ACTIVE", 0)
  <2>1. PICK t \in FollowTimes : IsStatus(i, t) /\ followLog[t].row = identity[i]
    BY <1>2, <1>5 DEF IdentityTold
  <2>2. Told(identity[i], identity[i])
    BY <1>2, <2>1 DEF IdentityTold
  <2>3. c.identity[i].version >= identity[i].version /\ identity[i].version >= 1
    BY <1>1, <1>2, <2>1, <2>2 DEF KnowsStatus, Told, Versioned
  <2>4. c.identity[i] # At("ACTIVE", 0)
    BY <1>1, <1>2, <2>3 DEF At, Versioned
  <2> QED BY <1>1, <1>2, <1>3, <2>3, <2>4 DEF Told, Versioned
<1> QED BY <1>4, <1>5

\* The invariant says what the property asks.
LEMMA FollowingCounts == ASSUME FollowingInv PROVE CountsAgree
<1>1. FollowLogInv /\ TablesAgree(counts, counted)
  BY DEF FollowingInv
<1>2. ASSUME NEW s \in Stores
      PROVE  counts.count[s] = Cardinality({i \in Identities :
               counts.relation[i][s].status = "ACTIVE" /\ counts.identity[i].status = "ACTIVE"})
  BY <1>1 DEF TablesAgree, CountsAudience, Audience
<1>3. ASSUME NEW s \in Stores, counted = FollowTimes
      PROVE  counts.count[s] = Cardinality({i \in Identities :
               follow[i][s].status = "ACTIVE" /\ identity[i].status = "ACTIVE"})
  <2>1. TablesAgree(counts, FollowTimes)
    BY <1>1, <1>3
  <2>2. ASSUME NEW i \in Identities
        PROVE  (counts.relation[i][s].status = "ACTIVE" /\ counts.identity[i].status = "ACTIVE")
                 <=> (follow[i][s].status = "ACTIVE" /\ identity[i].status = "ACTIVE")
    <3>1. counts.relation[i][s] = follow[i][s]
      BY <1>1, <2>1, RelationKnown
    <3>2. follow[i][s] # None => counts.identity[i] # None
      BY <2>1 DEF TablesAgree, KnowsRelation
    <3>3. counts.identity[i] # None => counts.identity[i] = identity[i]
      BY <1>1, <2>1, StatusKnown
    <3> QED BY <3>1, <3>2, <3>3 DEF None
  <2>3. {i \in Identities :
           counts.relation[i][s].status = "ACTIVE" /\ counts.identity[i].status = "ACTIVE"}
          = {i \in Identities : follow[i][s].status = "ACTIVE" /\ identity[i].status = "ACTIVE"}
    BY <2>2
  <2> QED BY <1>2, <2>3
<1> QED BY <1>2, <1>3 DEF CountsAgree

\* Every step keeps the projection in agreement with the log it is told.
THEOREM TablesFollowLog == Spec => []FollowingInv
<1>1. Init => FollowingInv
  BY FollowingStarts DEF Init
<1>2. FollowingInv /\ [Next]_vars => FollowingInv'
  BY FollowingStep, FollowingStays DEF Next, vars
<1> QED BY <1>1, <1>2, PTL DEF Spec

\* So a public count is the number of followers in the projection and, when every
\* event is counted, the number of active identities that follow the store.
THEOREM CountsAreRight == Spec => []CountsAgree
BY TablesFollowLog, FollowingCounts, PTL

\* No handler ever makes a count negative, and neither does a rebuild: none of them
\* throws, whatever order events come in.
Countables ==
  /\ \A i \in Identities : statusRead[i] # NoRead =>
       Countable(ProjectStatus(counts, followLog[statusRead[i].time], statusRead[i].row))
  /\ \A t \in FollowTimes : followLog[t].subject = "FOLLOW" =>
       Countable(ProjectFollow(counts, followLog[t]))
  /\ Countable(FoldLeft(Replay, Seeded, followLog))

THEOREM HandlersNeverThrow == Spec => []Countables
<1>1. ASSUME NEW c, NEW D, TablesAgree(c, D) PROVE Countable(c)
  BY <1>1, CountsNatural DEF TablesAgree, Countable
<1>2. FollowingInv => Countables
  <2> SUFFICES ASSUME FollowingInv PROVE Countables
    OBVIOUS
  <2>1. FollowLogInv /\ ReadInv /\ counted \subseteq FollowTimes /\ TablesAgree(counts, counted)
    BY DEF FollowingInv
  <2>2. ASSUME NEW i \in Identities, statusRead[i] # NoRead
        PROVE  Countable(ProjectStatus(counts, followLog[statusRead[i].time], statusRead[i].row))
    <3>1. PICK t, seen : t = statusRead[i].time /\ seen = statusRead[i].row
      OBVIOUS
    <3>2. t \in FollowTimes /\ IsStatus(i, t) /\ SeenRight(counts, i, seen)
      BY <2>1, <2>2, <3>1 DEF ReadInv
    <3>3. TablesAgree(ProjectStatus(counts, followLog[t], seen), counted \cup {t})
      BY <2>1, <3>2, StatusKeeps
    <3> QED BY <1>1, <3>1, <3>3
  <2>3. ASSUME NEW t \in FollowTimes, followLog[t].subject = "FOLLOW"
        PROVE  Countable(ProjectFollow(counts, followLog[t]))
    <3>1. TablesAgree(ProjectFollow(counts, followLog[t]), counted \cup {t})
      BY <2>1, <2>3, FollowKeeps
    <3> QED BY <1>1, <3>1
  <2>4. Countable(FoldLeft(Replay, Seeded, followLog))
    <3>1. TablesAgree(FoldLeft(Replay, Seeded, followLog), FollowTimes)
      BY <2>1, RebuildAgrees
    <3> QED BY <1>1, <3>1
  <2> QED BY <2>2, <2>3, <2>4 DEF Countables
<1> QED BY <1>2, TablesFollowLog, PTL
-----------------------------------------------------------------------------
(***************************************************************************)
(* The log of the storefront.                                              *)
(***************************************************************************)
Of(x, t) == log[t].subject = x
TellsOfMarket(t) == log[t].type \in StoreEvents \cup ProductEvents

Opening == {"StorePublished", "ProductPublished"}
Opens(t) == log[t].type \in Opening

\* The events of a store or product are in the order of its revisions, and each
\* publication is of a number of its own.
Ordered ==
  \A s, t \in Times : s < t /\ log[s].subject = log[t].subject =>
    /\ log[s].aggregate < log[t].aggregate
    /\ log[s].publication <= log[t].publication
    /\ Opens(t) => log[s].publication < log[t].publication

\* The log tells of row r of x whether it is public, and in which publication.
ToldOfRow(x, r, public) ==
  /\ \A t \in Times : Of(x, t) =>
       /\ 1 <= log[t].publication /\ log[t].publication <= r.publication
       /\ 1 <= log[t].aggregate /\ log[t].aggregate <= r.revision
  /\ \/ r.publication = 0 /\ ~public /\ \A t \in Times : ~Of(x, t)
     \/ \E t \in Times :
          /\ Of(x, t) /\ TellsOfMarket(t)
          /\ log[t].publication = r.publication /\ (Opens(t) <=> public)
          /\ \A u \in Times : Of(x, u) /\ TellsOfMarket(u) => u <= t

StoreLogInv ==
  /\ store \in StoreRow /\ product \in [Products -> ProductRow]
  /\ log \in Seq(Event)
  /\ \A t \in Times : Of(Store, t) <=> log[t].type \in StoreEvents
  /\ Ordered
  /\ ToldOfRow(Store, store, store.status = "PUBLISHED")
  /\ \A p \in Products : ToldOfRow(p, product[p], product[p].state = "PUBLISHED")

\* Event e tells that row r of x became q.
Tells(e, x, r, q, public, open) ==
  /\ e \in Event /\ e.subject = x /\ (x = Store <=> e.type \in StoreEvents)
  /\ e.aggregate = q.revision /\ e.publication = q.publication
  /\ r.revision < q.revision /\ r.publication <= q.publication /\ 1 <= q.publication
  /\ \/ /\ e.type \in StoreEvents \cup ProductEvents
        /\ e.type \in Opening <=> open
        /\ open => r.publication < q.publication
     \/ e.type \in VersionEvents /\ q.publication = r.publication /\ public /\ open

IsRow(r) == r.revision \in Nat /\ r.publication \in Nat

LEMMA EventTypes ==
  ASSUME StoreLogInv, NEW t \in Times
  PROVE  /\ log[t] \in Event /\ t \in Nat /\ t \in 1 .. Len(log)
         /\ log[t].aggregate \in Nat /\ log[t].publication \in Nat
<1>1. log[t] \in Event /\ t \in 1 .. Len(log) /\ Len(log) \in Nat
  BY DEF StoreLogInv, Times
<1> QED BY <1>1 DEF Event

LEMMA RowBounds ==
  ASSUME NEW x, NEW r, NEW public, ToldOfRow(x, r, public), NEW t \in Times, Of(x, t)
  PROVE  /\ 1 <= log[t].publication /\ log[t].publication <= r.publication
         /\ 1 <= log[t].aggregate /\ log[t].aggregate <= r.revision
BY DEF ToldOfRow

LEMMA TellsFacts ==
  ASSUME NEW e, NEW x, NEW r, NEW q, NEW public, NEW open, Tells(e, x, r, q, public, open)
  PROVE  /\ e \in Event /\ e.subject = x /\ e.aggregate \in Nat /\ e.publication \in Nat
         /\ e.aggregate = q.revision /\ e.publication = q.publication
         /\ r.revision < q.revision /\ r.publication <= q.publication /\ 1 <= q.publication
BY DEF Tells, Event

\* What the next event adds to the log.
LEMMA StoreLogGrows ==
  ASSUME StoreLogInv, NEW e \in Event, log' = Append(log, e), NEW n, n = Len(log) + 1
  PROVE  /\ log' \in Seq(Event)
         /\ Times' = Times \cup {n} /\ n \notin Times /\ n \in Nat
         /\ \A t \in Times : t < n /\ log'[t] = log[t]
         /\ log'[n] = e
BY DEF StoreLogInv, Times

LEMMA OrderKept ==
  ASSUME StoreLogInv, NEW x, NEW r, NEW q, NEW public, NEW open, NEW e,
         IsRow(r), ToldOfRow(x, r, public), Tells(e, x, r, q, public, open),
         log' = Append(log, e)
  PROVE  Ordered'
<1>1. PICK n : n = Len(log) + 1
  OBVIOUS
<1>2. /\ Times' = Times \cup {n} /\ n \notin Times /\ n \in Nat
      /\ \A t \in Times : t < n /\ log'[t] = log[t]
      /\ log'[n] = e
  BY <1>1, StoreLogGrows DEF Tells
<1>3. ASSUME NEW s \in Times', NEW t \in Times', s < t, log'[s].subject = log'[t].subject
      PROVE  /\ log'[s].aggregate < log'[t].aggregate
             /\ log'[s].publication <= log'[t].publication
             /\ log'[t].type \in Opening => log'[s].publication < log'[t].publication
  <2>1. CASE t = n
    <3>0. s # n
      BY <1>2, <1>3, <2>1
    <3>1. s \in Times /\ log'[s] = log[s] /\ Of(x, s) /\ log'[t] = e
      BY <1>2, <1>3, <2>1, <3>0, TellsFacts DEF Of
    <3>2. log[s].aggregate \in Nat /\ log[s].publication \in Nat
      BY <3>1, EventTypes
    <3>3. log[s].publication <= r.publication /\ log[s].aggregate <= r.revision
      BY <3>1, RowBounds
    <3>4. e.type \in Opening => r.publication < e.publication
      BY DEF Tells, Opening, VersionEvents
    <3> QED BY <3>1, <3>2, <3>3, <3>4, TellsFacts DEF IsRow
  <2>2. CASE t # n
    <3>1. t \in Times
      BY <1>2, <2>2
    <3>2. s # n
      BY <1>2, <1>3, <3>1, EventTypes
    <3>3. s \in Times /\ log'[s] = log[s] /\ log'[t] = log[t]
      BY <1>2, <3>1, <3>2
    <3> QED BY <1>3, <3>1, <3>3 DEF StoreLogInv, Ordered, Opens
  <2> QED BY <2>1, <2>2
<1> QED BY <1>3 DEF Ordered, Opens

\* The new row is told,
LEMMA NewRowTold ==
  ASSUME StoreLogInv, NEW x, NEW r, NEW q, NEW public, NEW open, NEW e,
         IsRow(r), IsRow(q), ToldOfRow(x, r, public), Tells(e, x, r, q, public, open),
         log' = Append(log, e)
  PROVE  ToldOfRow(x, q, open)'
<1>1. PICK n : n = Len(log) + 1
  OBVIOUS
<1>2. /\ Times' = Times \cup {n} /\ n \notin Times /\ n \in Nat
      /\ \A t \in Times : t < n /\ log'[t] = log[t]
      /\ log'[n] = e
  BY <1>1, StoreLogGrows DEF Tells
<1>3. ASSUME NEW t \in Times', Of(x, t)'
      PROVE  /\ 1 <= log'[t].publication /\ log'[t].publication <= q.publication
             /\ 1 <= log'[t].aggregate /\ log'[t].aggregate <= q.revision
  <2>1. CASE t = n
    <3>1. log'[t] = e
      BY <1>2, <2>1
    <3> QED BY <3>1, TellsFacts DEF IsRow
  <2>2. CASE t # n
    <3>1. t \in Times /\ log'[t] = log[t] /\ Of(x, t)
      BY <1>2, <1>3, <2>2 DEF Of
    <3>2. log[t].aggregate \in Nat /\ log[t].publication \in Nat
      BY <3>1, EventTypes
    <3>3. /\ 1 <= log[t].publication /\ log[t].publication <= r.publication
          /\ 1 <= log[t].aggregate /\ log[t].aggregate <= r.revision
      BY <3>1, RowBounds
    <3> QED BY <3>1, <3>2, <3>3, TellsFacts DEF IsRow
  <2> QED BY <2>1, <2>2
<1>4. \E t \in Times' :
          /\ Of(x, t)' /\ TellsOfMarket(t)'
          /\ log'[t].publication = q.publication /\ (Opens(t)' <=> open)
          /\ \A u \in Times' : Of(x, u)' /\ TellsOfMarket(u)' => u <= t
  <2>1. CASE e.type \in StoreEvents \cup ProductEvents
    <3>1. Of(x, n)' /\ TellsOfMarket(n)' /\ log'[n].publication = q.publication
      BY <1>2, <2>1 DEF Of, TellsOfMarket, Tells
    <3>2. Opens(n)' <=> open
      BY <1>2, <2>1 DEF Opens, Tells, StoreEvents, ProductEvents, VersionEvents
    <3>3. \A u \in Times' : u <= n
      BY <1>2, EventTypes
    <3> QED BY <1>2, <3>1, <3>2, <3>3
  <2>2. CASE e.type \notin StoreEvents \cup ProductEvents
    <3>1. public /\ open /\ q.publication = r.publication
      BY <2>2 DEF Tells
    <3>2. PICK t \in Times :
            /\ Of(x, t) /\ TellsOfMarket(t)
            /\ log[t].publication = r.publication /\ (Opens(t) <=> public)
            /\ \A u \in Times : Of(x, u) /\ TellsOfMarket(u) => u <= t
      BY <3>1 DEF ToldOfRow
    <3>3. ~TellsOfMarket(n)'
      BY <1>2, <2>2 DEF TellsOfMarket
    <3>4. \A u \in Times : (Of(x, u)' <=> Of(x, u)) /\ (TellsOfMarket(u)' <=> TellsOfMarket(u))
                             /\ (Opens(u)' <=> Opens(u)) /\ log'[u] = log[u]
      BY <1>2 DEF Of, TellsOfMarket, Opens
    <3> QED BY <1>2, <3>1, <3>2, <3>3, <3>4
  <2> QED BY <2>1, <2>2
<1> QED BY <1>3, <1>4 DEF ToldOfRow

\* the others stay so,
LEMMA OtherRowsTold ==
  ASSUME StoreLogInv, NEW e \in Event, log' = Append(log, e),
         NEW y, e.subject # y, NEW r, NEW public, ToldOfRow(y, r, public)
  PROVE  ToldOfRow(y, r, public)'
<1>1. PICK n : n = Len(log) + 1
  OBVIOUS
<1>2. /\ Times' = Times \cup {n} /\ n \notin Times /\ n \in Nat
      /\ \A t \in Times : t < n /\ log'[t] = log[t]
      /\ log'[n] = e
  BY <1>1, StoreLogGrows
<1>3. ~Of(y, n)'
  BY <1>2 DEF Of
<1>4. \A u \in Times : (Of(y, u)' <=> Of(y, u)) /\ (TellsOfMarket(u)' <=> TellsOfMarket(u))
                          /\ (Opens(u)' <=> Opens(u)) /\ log'[u] = log[u]
  BY <1>2 DEF Of, TellsOfMarket, Opens
<1>5. \A t \in Times' : Of(y, t)' => t \in Times /\ Of(y, t)
  BY <1>2, <1>3, <1>4
<1> QED BY <1>2, <1>4, <1>5 DEF ToldOfRow

\* and so does a row that changes in nothing that is told.
LEMMA SilentRowTold ==
  ASSUME StoreLogInv, NEW x, NEW r, NEW q, NEW public, IsRow(r), IsRow(q),
         ToldOfRow(x, r, public), log' = log,
         r.revision <= q.revision, q.publication = r.publication
  PROVE  ToldOfRow(x, q, public)'
<1>1. Times' = Times
  BY DEF Times
<1>2. \A u \in Times : (Of(x, u)' <=> Of(x, u)) /\ (TellsOfMarket(u)' <=> TellsOfMarket(u))
                          /\ (Opens(u)' <=> Opens(u)) /\ log'[u] = log[u]
  BY DEF Of, TellsOfMarket, Opens
<1>3. \A u \in Times : log[u].aggregate \in Nat
  BY EventTypes
<1>4. \A t \in Times : Of(x, t) => 1 <= log[t].aggregate /\ log[t].aggregate <= q.revision
  BY <1>3 DEF ToldOfRow, IsRow
<1> QED BY <1>1, <1>2, <1>4 DEF ToldOfRow

\* A row on the market has been published.
LEMMA PublicRow ==
  ASSUME StoreLogInv, NEW x, NEW r, IsRow(r), ToldOfRow(x, r, TRUE)
  PROVE  r.publication >= 1
<1>1. PICK t \in Times : Of(x, t) /\ log[t].publication = r.publication
  BY DEF ToldOfRow
<1> QED BY <1>1, RowBounds DEF IsRow

LEMMA RowTypesOfStore ==
  ASSUME StoreLogInv
  PROVE  IsRow(store) /\ \A p \in Products : IsRow(product[p]) /\ product[p] \in ProductRow
BY DEF StoreLogInv, StoreRow, ProductRow, IsRow

Public(r) == r.state = "PUBLISHED"

\* The store tells of a change,
LEMMA StoreTells ==
  ASSUME StoreLogInv, NEW q \in StoreRow, NEW e,
         Tells(e, Store, store, q, store.status = "PUBLISHED", q.status = "PUBLISHED"),
         log' = Append(log, e), store' = q, product' = product
  PROVE  StoreLogInv'
<1>1. e \in Event /\ IsRow(q) /\ IsRow(store)
  BY RowTypesOfStore, TellsFacts DEF StoreRow, IsRow
<1>2. PICK n : n = Len(log) + 1
  OBVIOUS
<1>3. /\ log' \in Seq(Event) /\ Times' = Times \cup {n}
      /\ \A t \in Times : log'[t] = log[t]
      /\ log'[n] = e
  BY <1>1, <1>2, StoreLogGrows
<1>4. PICK r, was, is : r = store /\ was = (store.status = "PUBLISHED") /\ is = (q.status = "PUBLISHED")
  OBVIOUS
<1>5. ToldOfRow(Store, r, was) /\ Tells(e, Store, r, q, was, is)
  BY <1>4 DEF StoreLogInv
<1>6. Ordered'
  BY <1>1, <1>4, <1>5, OrderKept
<1>7. ToldOfRow(Store, q, is)'
  BY <1>1, <1>4, <1>5, NewRowTold
<1>8. ToldOfRow(Store, store, store.status = "PUBLISHED")'
  BY <1>4, <1>7
<1>9. ASSUME NEW p \in Products PROVE ToldOfRow(p, product[p], product[p].state = "PUBLISHED")'
  <2>1. PICK row, public : row = product[p] /\ public = (product[p].state = "PUBLISHED")
    OBVIOUS
  <2>2. ToldOfRow(p, row, public)
    BY <2>1 DEF StoreLogInv
  <2>3. e.subject # p
    BY TellsFacts, StorefrontAssumption
  <2>4. ToldOfRow(p, row, public)'
    BY <1>1, <2>2, <2>3, OtherRowsTold
  <2> QED BY <2>1, <2>4
<1>10. \A t \in Times' : Of(Store, t)' <=> log'[t].type \in StoreEvents
  BY <1>3 DEF StoreLogInv, Of, Tells
<1> QED BY <1>3, <1>6, <1>8, <1>9, <1>10 DEF StoreLogInv

\* or makes one that it does not tell of.
LEMMA StoreSilent ==
  ASSUME StoreLogInv, NEW q \in StoreRow, log' = log, store' = q, product' = product,
         store.revision <= q.revision, q.publication = store.publication,
         (q.status = "PUBLISHED") = (store.status = "PUBLISHED")
  PROVE  StoreLogInv'
<1>1. IsRow(q) /\ IsRow(store)
  BY RowTypesOfStore DEF StoreRow, IsRow
<1>2. PICK r, was : r = store /\ was = (store.status = "PUBLISHED")
  OBVIOUS
<1>3. ToldOfRow(Store, r, was)
  BY <1>2 DEF StoreLogInv
<1>4. ToldOfRow(Store, q, was)'
  BY <1>1, <1>2, <1>3, SilentRowTold
<1>5. ToldOfRow(Store, store, store.status = "PUBLISHED")'
  BY <1>2, <1>4
<1>6. ASSUME NEW p \in Products PROVE ToldOfRow(p, product[p], product[p].state = "PUBLISHED")'
  <2>1. PICK row, public : row = product[p] /\ public = (product[p].state = "PUBLISHED")
    OBVIOUS
  <2>2. ToldOfRow(p, row, public) /\ IsRow(row)
    BY <2>1, RowTypesOfStore DEF StoreLogInv
  <2>3. ToldOfRow(p, row, public)'
    BY <2>2, SilentRowTold DEF IsRow
  <2> QED BY <2>1, <2>3
<1>7. Times' = Times /\ Ordered'
  BY DEF StoreLogInv, Ordered, Opens, Times
<1>8. \A t \in Times' : Of(Store, t)' <=> log'[t].type \in StoreEvents
  BY <1>7 DEF StoreLogInv, Of
<1> QED BY <1>5, <1>6, <1>7, <1>8 DEF StoreLogInv

\* A product likewise.
LEMMA ProductTells ==
  ASSUME StoreLogInv, NEW p \in Products, NEW q \in ProductRow, NEW e,
         Tells(e, p, product[p], q, Public(product[p]), Public(q)),
         log' = Append(log, e), product' = [product EXCEPT ![p] = q], store' = store
  PROVE  StoreLogInv'
<1>1. e \in Event /\ IsRow(q) /\ IsRow(product[p]) /\ e.subject = p
  BY RowTypesOfStore, TellsFacts DEF ProductRow, IsRow
<1>2. PICK n : n = Len(log) + 1
  OBVIOUS
<1>3. /\ log' \in Seq(Event) /\ Times' = Times \cup {n}
      /\ \A t \in Times : log'[t] = log[t]
      /\ log'[n] = e
  BY <1>1, <1>2, StoreLogGrows
<1>4. PICK r, was, is : r = product[p] /\ was = Public(product[p]) /\ is = Public(q)
  OBVIOUS
<1>5. ToldOfRow(p, r, was) /\ Tells(e, p, r, q, was, is)
  BY <1>4 DEF StoreLogInv, Public
<1>6. Ordered'
  BY <1>1, <1>4, <1>5, OrderKept
<1>7. ToldOfRow(p, q, is)'
  BY <1>1, <1>4, <1>5, NewRowTold
<1>8. /\ product' \in [Products -> ProductRow] /\ product'[p] = q
      /\ \A o \in Products \ {p} : product'[o] = product[o]
  BY DEF StoreLogInv
<1>9. ASSUME NEW o \in Products PROVE ToldOfRow(o, product[o], product[o].state = "PUBLISHED")'
  <2>1. CASE o = p
    BY <1>4, <1>7, <1>8, <2>1 DEF Public
  <2>2. CASE o # p
    <3>1. PICK row, public : row = product[o] /\ public = (product[o].state = "PUBLISHED")
      OBVIOUS
    <3>2. ToldOfRow(o, row, public)
      BY <3>1 DEF StoreLogInv
    <3>3. ToldOfRow(o, row, public)'
      BY <1>1, <2>2, <3>2, OtherRowsTold
    <3> QED BY <1>8, <2>2, <3>1, <3>3
  <2> QED BY <2>1, <2>2
<1>10. ToldOfRow(Store, store, store.status = "PUBLISHED")'
  <2>1. PICK row, public : row = store /\ public = (store.status = "PUBLISHED")
    OBVIOUS
  <2>2. ToldOfRow(Store, row, public)
    BY <2>1 DEF StoreLogInv
  <2>3. e.subject # Store
    BY <1>1, StorefrontAssumption
  <2>4. ToldOfRow(Store, row, public)'
    BY <1>1, <2>2, <2>3, OtherRowsTold
  <2> QED BY <2>1, <2>4
<1>11. \A t \in Times' : Of(Store, t)' <=> log'[t].type \in StoreEvents
  BY <1>3 DEF StoreLogInv, Of, Tells
<1> QED BY <1>3, <1>6, <1>8, <1>9, <1>10, <1>11 DEF StoreLogInv

LEMMA ProductSilent ==
  ASSUME StoreLogInv, NEW p \in Products, NEW q \in ProductRow,
         log' = log, product' = [product EXCEPT ![p] = q], store' = store,
         product[p].revision <= q.revision, q.publication = product[p].publication,
         Public(q) = Public(product[p])
  PROVE  StoreLogInv'
<1>1. IsRow(q) /\ IsRow(product[p]) /\ IsRow(store)
  BY RowTypesOfStore DEF ProductRow, IsRow
<1>2. /\ product' \in [Products -> ProductRow] /\ product'[p] = q
      /\ \A o \in Products \ {p} : product'[o] = product[o]
  BY DEF StoreLogInv
<1>3. ASSUME NEW o \in Products PROVE ToldOfRow(o, product[o], product[o].state = "PUBLISHED")'
  <2>1. PICK row, public : row = product[o] /\ public = (product[o].state = "PUBLISHED")
    OBVIOUS
  <2>2. PICK new : new = product'[o]
    OBVIOUS
  <2>3. ToldOfRow(o, row, public) /\ IsRow(row)
    BY <2>1, RowTypesOfStore DEF StoreLogInv
  <2>4. /\ row.revision <= new.revision /\ new.publication = row.publication
        /\ public = (new.state = "PUBLISHED") /\ IsRow(new)
    BY <1>1, <1>2, <2>1, <2>2, <2>3 DEF Public, IsRow
  <2>5. ToldOfRow(o, new, public)'
    BY <2>3, <2>4, SilentRowTold
  <2> QED BY <2>2, <2>4, <2>5
<1>4. ToldOfRow(Store, store, store.status = "PUBLISHED")'
  <2>1. PICK row, public : row = store /\ public = (store.status = "PUBLISHED")
    OBVIOUS
  <2>2. ToldOfRow(Store, row, public)
    BY <2>1 DEF StoreLogInv
  <2>3. ToldOfRow(Store, row, public)'
    BY <1>1, <2>1, <2>2, SilentRowTold DEF IsRow
  <2> QED BY <2>1, <2>3
<1>5. Times' = Times /\ Ordered'
  BY DEF StoreLogInv, Ordered, Opens, Times
<1>6. \A t \in Times' : Of(Store, t)' <=> log'[t].type \in StoreEvents
  BY <1>5 DEF StoreLogInv, Of
<1> QED BY <1>2, <1>3, <1>4, <1>5, <1>6 DEF StoreLogInv

\* A draft that is saved,
LEMMA SavedRow ==
  ASSUME NEW r \in StoreRow
  PROVE  [r EXCEPT !.status = "DRAFT", !.revision = @ + 1]
           = [status |-> "DRAFT", revision |-> r.revision + 1, publication |-> r.publication]
<1>1. PICK n : n = r.revision + 1
  OBVIOUS
<1>2. PICK d : d = [r EXCEPT !.status = "DRAFT", !.revision = n]
  OBVIOUS
<1>3. d = [status |-> "DRAFT", revision |-> n, publication |-> r.publication]
  BY <1>2 DEF StoreRow
<1>4. [r EXCEPT !.status = "DRAFT", !.revision = @ + 1]
        = [r EXCEPT !.status = "DRAFT", !.revision = n]
  BY <1>1, Zenon DEF StoreRow
<1> QED BY <1>1, <1>2, <1>3, <1>4, Zenon

\* a product that is revised,
LEMMA RevisedRow ==
  ASSUME StoreLogInv, NEW p \in Products
  PROVE  /\ Revised(p) \in ProductRow /\ Revised(p).state = product[p].state
         /\ Revised(p).revision = product[p].revision + 1
         /\ Revised(p).publication = product[p].publication
         /\ Revised(p).offer = product[p].offer /\ Revised(p).stock = product[p].stock
<1>1. PICK r, n : r = product[p] /\ n = r.revision + 1
  OBVIOUS
<1>2. r \in ProductRow /\ n \in Nat
  BY <1>1, RowTypesOfStore DEF IsRow
<1>3. PICK v : v = [r EXCEPT !.revision = n]
  OBVIOUS
<1>4. /\ v \in ProductRow /\ v.state = r.state /\ v.revision = n
      /\ v.publication = r.publication /\ v.offer = r.offer /\ v.stock = r.stock
  BY <1>2, <1>3 DEF ProductRow
<1>5. Revised(p) = v
  BY <1>1, <1>3 DEF Revised
<1> QED BY <1>1, <1>4, <1>5

\* and one that is published.
LEMMA PublishedProduct ==
  ASSUME NEW v \in ProductRow,
         NEW q, q = [v EXCEPT !.state = "PUBLISHED", !.publication = @ + 1]
  PROVE  /\ q \in ProductRow /\ q.state = "PUBLISHED" /\ q.revision = v.revision
         /\ q.publication = v.publication + 1 /\ q.offer = v.offer /\ q.stock = v.stock
<1>1. PICK m : m = v.publication + 1
  OBVIOUS
<1>2. PICK d : d = [v EXCEPT !.state = "PUBLISHED", !.publication = m]
  OBVIOUS
<1>3. m \in Nat
  BY <1>1 DEF ProductRow
<1>4. /\ d \in ProductRow /\ d.state = "PUBLISHED" /\ d.revision = v.revision
      /\ d.publication = m /\ d.offer = v.offer /\ d.stock = v.stock
  BY <1>2, <1>3 DEF ProductRow
<1>5. [v EXCEPT !.state = "PUBLISHED", !.publication = @ + 1]
        = [v EXCEPT !.state = "PUBLISHED", !.publication = m]
  <2>1. PICK a : a = [v EXCEPT !.state = "PUBLISHED"]
    OBVIOUS
  <2>2. a.publication + 1 = m
    BY <1>1, <2>1 DEF ProductRow
  <2> QED BY <2>1, <2>2, Zenon
<1> QED BY <1>1, <1>2, <1>4, <1>5, Zenon

LEMMA StoreStep ==
  ASSUME StoreLogInv, SaveStoreDraft \/ PublishStore
  PROVE  StoreLogInv'
<1>1. /\ store \in StoreRow /\ store.revision \in Nat /\ store.publication \in Nat
      /\ store.status \in {"DRAFT", "PUBLISHED"}
  BY DEF StoreLogInv, StoreRow
<1>2. CASE SaveStoreDraft
  <2> DEFINE q == [store EXCEPT !.status = "DRAFT", !.revision = @ + 1]
             e == StoreEvent("StoreUnpublished", q)
  <2>1. q = [status |-> "DRAFT", revision |-> store.revision + 1, publication |-> store.publication]
    BY <1>1, SavedRow
  <2>2. /\ q \in StoreRow /\ q.status = "DRAFT" /\ q.revision = store.revision + 1
        /\ q.publication = store.publication
    <3> HIDE DEF q
    <3> QED BY <1>1, <2>1 DEF StoreRow
  <2>3. store' = q /\ product' = product
    BY <1>2 DEF SaveStoreDraft
  <2>4. CASE store.status = "PUBLISHED"
    <3>1. log' = Append(log, e)
      BY <1>2, <2>4 DEF SaveStoreDraft, Stored
    <3>2. store.publication >= 1
      <4>1. PICK r : r = store
        OBVIOUS
      <4>2. ToldOfRow(Store, r, TRUE) /\ IsRow(r)
        BY <2>4, <4>1, RowTypesOfStore DEF StoreLogInv
      <4> QED BY <4>1, <4>2, PublicRow
    <3> HIDE DEF q
    <3>3. Tells(e, Store, store, q, store.status = "PUBLISHED", q.status = "PUBLISHED")
      <4>1. e \in Event
        BY <1>1, <2>2 DEF StoreEvent, Event, StoreEvents
      <4> QED BY <1>1, <2>2, <3>2, <4>1
              DEF Tells, StoreEvent, StoreEvents, ProductEvents, VersionEvents, Opening
    <3> QED BY <2>2, <2>3, <3>1, <3>3, StoreTells
  <2>5. CASE store.status # "PUBLISHED"
    <3>1. log' = log
      BY <1>2, <2>5 DEF SaveStoreDraft
    <3> HIDE DEF q
    <3> QED BY <1>1, <2>2, <2>3, <2>5, <3>1, StoreSilent
  <2> QED BY <2>4, <2>5
<1>3. CASE PublishStore
  <2> DEFINE q == [status |-> "PUBLISHED", revision |-> store.revision + 1,
                   publication |-> store.publication + 1]
             e == StoreEvent("StorePublished", q)
  <2>1. /\ q \in StoreRow /\ q.status = "PUBLISHED" /\ q.revision = store.revision + 1
        /\ q.publication = store.publication + 1
    BY <1>1 DEF StoreRow
  <2>2. store' = q /\ product' = product /\ log' = Append(log, e)
    BY <1>3 DEF PublishStore, Stored
  <2> HIDE DEF q
  <2>3. Tells(e, Store, store, q, store.status = "PUBLISHED", q.status = "PUBLISHED")
    <3>1. e \in Event
      BY <1>1, <2>1 DEF StoreEvent, Event, StoreEvents
    <3> QED BY <1>1, <2>1, <3>1
            DEF Tells, StoreEvent, StoreEvents, ProductEvents, VersionEvents, Opening
  <2> QED BY <2>1, <2>2, <2>3, StoreTells
<1> QED BY <1>2, <1>3

\* An event of a product tells how its row became q.
LEMMA ProductEventTells ==
  ASSUME StoreLogInv, NEW p \in Products, NEW q \in ProductRow,
         NEW type \in ProductEvents \cup VersionEvents,
         product[p].revision < q.revision, product[p].publication <= q.publication,
         \/ type = "ProductPublished" /\ Public(q) /\ product[p].publication < q.publication
         \/ type = "ProductUnpublished" /\ ~Public(q) /\ Public(product[p])
         \/ /\ type \in VersionEvents /\ Public(q) /\ Public(product[p])
            /\ product[p].publication = q.publication
  PROVE  Tells(ProductEvent(type, p, q), p, product[p], q, Public(product[p]), Public(q))
<1>1. ProductEvent(type, p, q) \in Event
  BY DEF ProductEvent, Event, ProductRow
<1>2. p # Store /\ type \notin StoreEvents
  BY StorefrontAssumption DEF ProductEvents, VersionEvents, StoreEvents
<1>3. 1 <= q.publication
  <2>1. product[p].publication \in Nat /\ q.publication \in Nat
    BY RowTypesOfStore DEF IsRow, ProductRow
  <2>2. CASE Public(product[p])
    <3>1. PICK r : r = product[p]
      OBVIOUS
    <3>2. ToldOfRow(p, r, TRUE) /\ IsRow(r)
      BY <2>2, <3>1, RowTypesOfStore DEF StoreLogInv, Public
    <3>3. r.publication >= 1
      BY <3>2, PublicRow
    <3> QED BY <2>1, <3>1, <3>3
  <2>3. CASE ~Public(product[p])
    BY <2>1, <2>3
  <2> QED BY <2>2, <2>3
<1> QED BY <1>1, <1>2, <1>3
        DEF Tells, ProductEvent, StoreEvents, ProductEvents, VersionEvents, Opening

LEMMA PublishStep ==
  ASSUME StoreLogInv, NEW p \in Products, PublishProduct(p) \/ UnpublishProduct(p)
  PROVE  StoreLogInv'
<1>1. /\ product[p] \in ProductRow /\ product[p].revision \in Nat
      /\ product[p].publication \in Nat
  BY RowTypesOfStore DEF IsRow
<1>2. CASE PublishProduct(p)
  <2> DEFINE q == [Revised(p) EXCEPT !.state = "PUBLISHED", !.publication = @ + 1]
             e == ProductEvent("ProductPublished", p, q)
  <2>1. /\ q \in ProductRow /\ q.state = "PUBLISHED" /\ q.revision = product[p].revision + 1
        /\ q.publication = product[p].publication + 1
    <3>1. PICK v, z : v = Revised(p) /\ z = q
      OBVIOUS
    <3>2. z = [v EXCEPT !.state = "PUBLISHED", !.publication = @ + 1]
      BY <3>1
    <3> HIDE DEF q
    <3>3. v \in ProductRow /\ v.revision = product[p].revision + 1
          /\ v.publication = product[p].publication
      BY <3>1, RevisedRow
    <3>4. /\ z \in ProductRow /\ z.state = "PUBLISHED" /\ z.revision = v.revision
          /\ z.publication = v.publication + 1
      BY <3>2, <3>3, PublishedProduct
    <3> QED BY <3>1, <3>3, <3>4
  <2> HIDE DEF q
  <2>2. CASE product[p].revision = publishing[p]
    <3>1. /\ store' = store /\ product' = [product EXCEPT ![p] = q] /\ log' = Append(log, e)
      BY <1>2, <2>2 DEF PublishProduct, Stored, q
    <3>2. Tells(e, p, product[p], q, Public(product[p]), Public(q))
      BY <1>1, <2>1, ProductEventTells DEF Public, ProductEvents
    <3> QED BY <2>1, <3>1, <3>2, ProductTells
  <2>3. CASE product[p].revision # publishing[p]
    <3>1. store' = store /\ product' = product /\ log' = log
      BY <1>2, <2>3 DEF PublishProduct
    <3>2. PICK row : row = store
      OBVIOUS
    <3>3. row \in StoreRow /\ store' = row /\ IsRow(row)
      BY <3>1, <3>2, RowTypesOfStore DEF StoreLogInv
    <3>4. row.revision <= row.revision
      BY <3>3 DEF IsRow
    <3> QED BY <3>1, <3>2, <3>3, <3>4, StoreSilent
  <2> QED BY <2>2, <2>3
<1>3. CASE UnpublishProduct(p)
  <2> DEFINE q == [Revised(p) EXCEPT !.state = "UNPUBLISHED"]
             e == ProductEvent("ProductUnpublished", p, q)
  <2>1. /\ q \in ProductRow /\ q.state = "UNPUBLISHED" /\ q.revision = product[p].revision + 1
        /\ q.publication = product[p].publication
    <3>1. PICK v : v = Revised(p)
      OBVIOUS
    <3> QED BY <3>1, RevisedRow DEF ProductRow
  <2> HIDE DEF q
  <2>2. /\ store' = store /\ product' = [product EXCEPT ![p] = q] /\ log' = Append(log, e)
        /\ product[p].state = "PUBLISHED"
    BY <1>3 DEF UnpublishProduct, Stored, q
  <2>3. Tells(e, p, product[p], q, Public(product[p]), Public(q))
    BY <1>1, <2>1, <2>2, ProductEventTells DEF Public, ProductEvents
  <2> QED BY <2>1, <2>2, <2>3, ProductTells
<1> QED BY <1>2, <1>3

\* A change of what a product costs or of how many there are.
LEMMA ChangedStep ==
  ASSUME StoreLogInv, NEW p \in Products, NEW type \in VersionEvents,
         NEW q \in ProductRow, NEW told, Changed(p, type, q, told),
         q.state = product[p].state, q.publication = product[p].publication,
         q.revision = product[p].revision + 1
  PROVE  StoreLogInv'
<1>1. product[p].revision \in Nat /\ product[p].publication \in Nat
  BY RowTypesOfStore DEF IsRow
<1>2. store' = store /\ product' = [product EXCEPT ![p] = q]
  BY DEF Changed
<1>3. Public(q) = Public(product[p])
  BY DEF Public
<1>4. CASE product[p].state = "PUBLISHED" /\ told
  <2>0. PICK e : e = ProductEvent(type, p, q)
    OBVIOUS
  <2>1. log' = Append(log, e)
    BY <1>4, <2>0 DEF Changed, Stored
  <2>2. Tells(e, p, product[p], q, Public(product[p]), Public(q))
    BY <1>1, <1>4, <2>0, ProductEventTells DEF Public
  <2> QED BY <1>2, <2>1, <2>2, ProductTells
<1>5. CASE ~(product[p].state = "PUBLISHED" /\ told)
  <2>1. log' = log
    BY <1>5 DEF Changed
  <2>2. product[p].revision <= q.revision
    BY <1>1
  <2> QED BY <1>2, <1>3, <2>1, <2>2, ProductSilent
<1> QED BY <1>4, <1>5

LEMMA ChangeStep ==
  ASSUME StoreLogInv, NEW p \in Products,
         ReplaceOffers(p) \/ ReplaceInventory(p) \/ ReplaceWorkingCopy(p)
  PROVE  StoreLogInv'
<1>1. /\ product[p] \in ProductRow /\ product[p].revision \in Nat
      /\ product[p].publication \in Nat
  BY RowTypesOfStore DEF IsRow
<1>2. CASE ReplaceOffers(p)
  <2> DEFINE q == [Revised(p) EXCEPT !.offer = @ + 1]
  <2>1. /\ q \in ProductRow /\ q.state = product[p].state /\ q.publication = product[p].publication
        /\ q.revision = product[p].revision + 1
    <3>1. PICK v : v = Revised(p)
      OBVIOUS
    <3> QED BY <3>1, <1>1, RevisedRow DEF ProductRow
  <2> HIDE DEF q
  <2>2. Changed(p, "VariantPriceChanged", q, TRUE)
    BY <1>2 DEF ReplaceOffers, q
  <2> QED BY <2>1, <2>2, ChangedStep DEF VersionEvents
<1>3. CASE ReplaceInventory(p)
  <2> DEFINE q == [Revised(p) EXCEPT !.stock = @ + 1]
  <2>1. /\ q \in ProductRow /\ q.state = product[p].state /\ q.publication = product[p].publication
        /\ q.revision = product[p].revision + 1
    <3>1. PICK v : v = Revised(p)
      OBVIOUS
    <3> QED BY <3>1, <1>1, RevisedRow DEF ProductRow
  <2> HIDE DEF q
  <2>2. PICK flips \in BOOLEAN : Changed(p, "VariantAvailabilityChanged", q, flips)
    BY <1>3 DEF ReplaceInventory, q
  <2> QED BY <2>1, <2>2, ChangedStep DEF VersionEvents
<1>4. CASE ReplaceWorkingCopy(p)
  <2>1. PICK offer \in {product[p].offer, product[p].offer + 1} :
          /\ product' = [product EXCEPT ![p] = [Revised(p) EXCEPT !.offer = offer]]
          /\ store' = store /\ log' = log
    BY <1>4 DEF ReplaceWorkingCopy
  <2> DEFINE q == [Revised(p) EXCEPT !.offer = offer]
  <2>2. /\ q \in ProductRow /\ q.state = product[p].state /\ q.publication = product[p].publication
        /\ q.revision = product[p].revision + 1
    <3>1. PICK v : v = Revised(p)
      OBVIOUS
    <3> QED BY <3>1, <1>1, RevisedRow DEF ProductRow
  <2> HIDE DEF q
  <2>3. Public(q) = Public(product[p]) /\ product[p].revision <= q.revision
    BY <1>1, <2>2 DEF Public
  <2> QED BY <2>1, <2>2, <2>3, ProductSilent DEF q
<1> QED BY <1>2, <1>3, <1>4

\* Every step of the storefront keeps its log true,
LEMMA StorefrontStep == ASSUME StoreLogInv, StorefrontNext PROVE StoreLogInv'
<1>1. ASSUME UNCHANGED <<store, product, log>> PROVE StoreLogInv'
  <2>1. PICK row : row = store
    OBVIOUS
  <2>2. row \in StoreRow /\ store' = row /\ row.revision <= row.revision
    BY <1>1, <2>1, RowTypesOfStore DEF StoreLogInv, IsRow
  <2> QED BY <1>1, <2>1, <2>2, StoreSilent
<1>2. ASSUME NEW p \in Products, BeginPublishProduct(p) PROVE StoreLogInv'
  BY <1>1, <1>2 DEF BeginPublishProduct
<1> QED BY <1>2, StoreStep, PublishStep, ChangeStep DEF StorefrontNext

LEMMA StorefrontStays == ASSUME StoreLogInv, UNCHANGED storefrontVars PROVE StoreLogInv'
<1>1. PICK row : row = store
  OBVIOUS
<1>2. row \in StoreRow /\ store' = row /\ row.revision <= row.revision
  BY <1>1, RowTypesOfStore DEF StoreLogInv, IsRow, storefrontVars
<1> QED BY <1>1, <1>2, StoreSilent DEF storefrontVars

LEMMA StorefrontStarts == ASSUME StorefrontInit PROVE StoreLogInv
<1>1. log = <<>> /\ Times = {}
  BY DEF StorefrontInit, Times
<1>2. store \in StoreRow /\ product \in [Products -> ProductRow]
  BY DEF StorefrontInit, StoreRow, ProductRow
<1> QED BY <1>1, <1>2 DEF StorefrontInit, StoreLogInv, Ordered, ToldOfRow

\* and only adds to it.
LogExtends ==
  /\ Times \subseteq Times'
  /\ \A t \in Times : log'[t] = log[t]

LEMMA LogLasts == ASSUME StoreLogInv, StorefrontNext \/ UNCHANGED storefrontVars PROVE LogExtends
<1>1. ASSUME log' = log PROVE LogExtends
  BY <1>1 DEF LogExtends, Times
<1>2. ASSUME NEW e, log' = Append(log, e) PROVE LogExtends
  BY <1>2 DEF LogExtends, Times, StoreLogInv
<1>3. log' = log \/ \E e : log' = Append(log, e)
  BY DEF StorefrontNext, SaveStoreDraft, PublishStore, BeginPublishProduct, PublishProduct,
         UnpublishProduct, ReplaceOffers, ReplaceInventory, ReplaceWorkingCopy, Changed,
         Stored, storefrontVars
<1> QED BY <1>1, <1>2, <1>3

\* Of two events of the same subject the later one tells of the larger revision.
LEMMA LaterIsLarger ==
  ASSUME StoreLogInv, NEW s \in Times, NEW t \in Times, log[s].subject = log[t].subject
  PROVE  s < t <=> log[s].aggregate < log[t].aggregate
<1>1. /\ s \in Nat /\ t \in Nat /\ log[s].aggregate \in Nat /\ log[t].aggregate \in Nat
  BY EventTypes
<1>2. CASE s < t
  BY <1>2 DEF StoreLogInv, Ordered
<1>3. CASE t < s
  BY <1>1, <1>3 DEF StoreLogInv, Ordered
<1>4. CASE s = t
  BY <1>1, <1>4
<1> QED BY <1>1, <1>2, <1>3, <1>4

\* An event belongs to the store or to a product.
LEMMA Subjects ==
  ASSUME StoreLogInv, NEW t \in Times
  PROVE  /\ log[t].subject \in Products \cup {Store} /\ 1 <= log[t].aggregate
         /\ t \in StoreTimes <=> Of(Store, t)
         /\ t \in ProductTimes => log[t].subject \in Products /\ t \notin StoreTimes
<1>1. log[t].subject \in Products \cup {Store}
  BY EventTypes DEF Event
<1>2. t \in StoreTimes <=> Of(Store, t)
  BY DEF StoreLogInv, StoreTimes
<1>3. t \in ProductTimes => t \notin StoreTimes
  BY DEF ProductTimes, StoreTimes, StoreEvents, ProductEvents
<1>4. 1 <= log[t].aggregate
  <2>1. PICK x : x = log[t].subject
    OBVIOUS
  <2>2. \E r, public : ToldOfRow(x, r, public)
    BY <1>1, <2>1 DEF StoreLogInv
  <2> QED BY <2>1, <2>2, RowBounds DEF Of
<1> QED BY <1>1, <1>2, <1>3, <1>4 DEF Of
-----------------------------------------------------------------------------
(***************************************************************************)
(* The projections of a content.                                           *)
(***************************************************************************)
NewestIn(S, x, t) == t \in S /\ Of(x, t) /\ \A u \in S : Of(x, u) => u <= t
NoneIn(S, x) == \A t \in S : ~Of(x, t)

\* The projected state of p is that of its newest event in S.
Knows(S, p, state) ==
  \/ NoneIn(S, p) /\ state = Unknown
  \/ \E t \in S : NewestIn(S, p, t) /\ state = StateOf(log[t])

After(state, e) == IF state.aggregate < e.aggregate THEN StateOf(e) ELSE state

LEMMA KnowsMore ==
  ASSUME StoreLogInv, NEW S, S \subseteq Times, NEW p, NEW state, Knows(S, p, state),
         NEW t \in Times, Of(p, t)
  PROVE  Knows(S \cup {t}, p, After(state, log[t]))
<1>1. log[t].aggregate \in Nat /\ 1 <= log[t].aggregate /\ t \in Nat
  BY EventTypes, Subjects
<1>2. CASE NoneIn(S, p) /\ state = Unknown
  <2>1. After(state, log[t]) = StateOf(log[t])
    BY <1>1, <1>2 DEF After, Unknown
  <2>2. \A u \in S \cup {t} : Of(p, u) => u = t
    BY <1>2 DEF NoneIn
  <2>3. t <= t
    BY <1>1
  <2>4. NewestIn(S \cup {t}, p, t)
    BY <2>2, <2>3 DEF NewestIn
  <2> QED BY <2>1, <2>4 DEF Knows
<1>3. ASSUME NEW u \in S, NewestIn(S, p, u), state = StateOf(log[u])
      PROVE  Knows(S \cup {t}, p, After(state, log[t]))
  <2>1. u \in Times /\ u \in Nat /\ log[u].subject = log[t].subject /\ state.aggregate = log[u].aggregate
    BY <1>3, EventTypes DEF NewestIn, Of, StateOf
  <2>2. \A w \in S : w \in Nat
    BY EventTypes
  <2>3. CASE u < t
    <3>1. After(state, log[t]) = StateOf(log[t])
      BY <2>1, <2>3, LaterIsLarger DEF After
    <3>2. NewestIn(S \cup {t}, p, t)
      BY <1>1, <1>3, <2>1, <2>2, <2>3 DEF NewestIn
    <3> QED BY <3>1, <3>2 DEF Knows
  <2>4. CASE ~(u < t)
    <3>1. After(state, log[t]) = state
      BY <2>1, <2>4, LaterIsLarger DEF After
    <3>2. NewestIn(S \cup {t}, p, u)
      BY <1>1, <1>3, <2>1, <2>4 DEF NewestIn
    <3> QED BY <1>3, <3>1, <3>2 DEF Knows
  <2> QED BY <2>3, <2>4
<1> QED BY <1>2, <1>3 DEF Knows

\* Events of others change nothing.
LEMMA KnowsOthers ==
  ASSUME NEW S, NEW p, NEW state, Knows(S, p, state), NEW t, ~Of(p, t)
  PROVE  Knows(S \cup {t}, p, state)
BY DEF Knows, NoneIn, NewestIn

\* What is known stays so while the log grows.
LEMMA KnowsLasts ==
  ASSUME NEW S, S \subseteq Times, NEW p, NEW state, Knows(S, p, state), LogExtends
  PROVE  Knows(S, p, state)'
<1>1. \A t \in S : (Of(p, t)' <=> Of(p, t)) /\ log'[t] = log[t]
  BY DEF LogExtends, Of
<1>2. \A t \in S : StateOf(log[t])' = StateOf(log[t])
  BY <1>1 DEF StateOf
<1> QED BY <1>1, <1>2 DEF Knows, NoneIn, NewestIn

ContentTables == [active : BOOLEAN, links : Links, state : [Products -> ProductState]]
ShownTables == [revision : Nat, links : Links, last : [Products -> Nat],
                state : [Products -> ProductState],
                store : [published : BOOLEAN, aggregate : Nat, publication : Nat]]

WasPublished(p) == \E t \in ProductTimes : Of(p, t)

\* The consumer has a newer event of p before it.
Lags(p, state) ==
  \E t \in ProductTimes \ applied : Of(p, t) /\ log[t].aggregate > state.aggregate

\* A request names publications that there were.
RequestInv ==
  /\ submitted \in [revision : Nat, read : [Products -> Nat], open : BOOLEAN]
  /\ \A p \in Products : submitted.read[p] # 0 =>
       \E t \in ProductTimes : Of(p, t) /\ log[t].publication = submitted.read[p]
                                 /\ log[t].type = "ProductPublished"

\* The seller's tables know what was applied to them, and a link that is not as the
\* state of its product wants it has a newer one before it.
SellerInv ==
  /\ content \in ContentTables
  /\ contentLog \in Seq(SUBSET Products)
  /\ applied \subseteq ProductTimes
  /\ \A p \in Products : Knows(applied, p, content.state[p])
  /\ \A p \in Linked(content.links) :
       /\ WasPublished(p)
       /\ content.links[p] = On(content.state[p].active) \/ Lags(p, content.state[p])
  /\ \A r \in Revisions : \A p \in contentLog[r] : WasPublished(p)

\* Each open transaction is of an event of its product.
ApplyingInv ==
  /\ applying \in [Products -> [time : Nat, others : BOOLEAN]]
  /\ \A p \in Products : applying[p] # Idle =>
       applying[p].time \in ProductTimes /\ Of(p, applying[p].time)

\* The public's tables know what was shown to them, of the newest content each link
\* is as its product's state wants it.
LinkShown(c, p) == c.last[p] = c.state[p].aggregate /\ c.links[p] = On(c.state[p].active)

RevisionShown(c, revisions) ==
  \/ c.revision = 0 /\ revisions = {} /\ Linked(c.links) = {}
  \/ /\ c.revision \in revisions
     /\ \A r \in revisions : r <= c.revision
     /\ Linked(c.links) = contentLog[c.revision]

NoStore == [published |-> FALSE, aggregate |-> 0, publication |-> 0]
StoreStateOf(e) == [published |-> e.type = "StorePublished", aggregate |-> e.aggregate,
                    publication |-> e.publication]
KnowsStore(S, row) ==
  \/ NoneIn(S, Store) /\ row = NoStore
  \/ \E t \in S : NewestIn(S, Store, t) /\ row = StoreStateOf(log[t])

ShownInv ==
  /\ shown \in ShownTables
  /\ shownTimes \subseteq ProductTimes \cup StoreTimes
  /\ shownRevisions \subseteq Revisions
  /\ \A p \in Products : Knows(shownTimes, p, shown.state[p])
  /\ \A p \in Linked(shown.links) : LinkShown(shown, p)
  /\ RevisionShown(shown, shownRevisions)
  /\ KnowsStore(shownTimes, shown.store)

ContentInv == StoreLogInv /\ RequestInv /\ SellerInv /\ ApplyingInv /\ ShownInv

\* What outlasts the steps of others.
LEMMA MoreTimes ==
  ASSUME LogExtends
  PROVE  /\ ProductTimes \subseteq ProductTimes' /\ StoreTimes \subseteq StoreTimes'
         /\ \A x, t : t \in Times => (Of(x, t)' <=> Of(x, t))
         /\ \A p : WasPublished(p) => WasPublished(p)'
<1>1. \A x, t : t \in Times => (Of(x, t)' <=> Of(x, t))
  BY DEF LogExtends, Of
<1>2. ProductTimes \subseteq ProductTimes' /\ StoreTimes \subseteq StoreTimes'
  BY DEF LogExtends, ProductTimes, StoreTimes
<1>3. ProductTimes \subseteq Times
  BY DEF ProductTimes
<1> QED BY <1>1, <1>2, <1>3 DEF WasPublished

LEMMA LagLasts ==
  ASSUME LogExtends, applied' = applied, NEW p, NEW state, Lags(p, state)
  PROVE  Lags(p, state)'
<1>1. PICK t \in ProductTimes \ applied : Of(p, t) /\ log[t].aggregate > state.aggregate
  BY DEF Lags
<1>2. t \in Times
  BY DEF ProductTimes
<1> QED BY <1>1, <1>2, MoreTimes DEF LogExtends, Lags

LEMMA RequestFrame ==
  ASSUME RequestInv, LogExtends, submitted' = submitted
  PROVE  RequestInv'
<1>1. ProductTimes \subseteq Times
  BY DEF ProductTimes
<1>2. ASSUME NEW p \in Products, submitted.read[p] # 0
      PROVE  \E t \in ProductTimes' : Of(p, t)' /\ log'[t].publication = submitted.read[p]
                                 /\ log'[t].type = "ProductPublished"
  <2>1. PICK t \in ProductTimes : Of(p, t) /\ log[t].publication = submitted.read[p]
                                 /\ log[t].type = "ProductPublished"
    BY <1>2 DEF RequestInv
  <2>2. t \in ProductTimes' /\ Of(p, t)' /\ log'[t] = log[t]
    BY <1>1, <2>1, MoreTimes DEF LogExtends
  <2> QED BY <2>1, <2>2
<1> QED BY <1>2 DEF RequestInv

LEMMA SellerFrame ==
  ASSUME SellerInv, LogExtends, UNCHANGED <<content, contentLog, applied>>
  PROVE  SellerInv'
<1>1. PICK c, S : c = content /\ S = applied
  OBVIOUS
<1>2. S \subseteq ProductTimes /\ S \subseteq Times /\ ProductTimes \subseteq Times
  BY <1>1 DEF SellerInv, ProductTimes
<1>3. ASSUME NEW p \in Products PROVE Knows(applied, p, content.state[p])'
  <2>1. PICK state : state = c.state[p]
    OBVIOUS
  <2>2. Knows(S, p, state)'
    BY <1>1, <1>2, <2>1, KnowsLasts DEF SellerInv
  <2> QED BY <1>1, <2>1, <2>2
<1>4. ASSUME NEW p \in Linked(c.links)
      PROVE  WasPublished(p)' /\ (c.links[p] = On(c.state[p].active) \/ Lags(p, c.state[p])')
  <2>1. PICK state : state = c.state[p]
    OBVIOUS
  <2>2. WasPublished(p) /\ (c.links[p] = On(state.active) \/ Lags(p, state))
    BY <1>1, <1>4, <2>1 DEF SellerInv
  <2>3. WasPublished(p)' /\ (c.links[p] = On(state.active) \/ Lags(p, state)')
    BY <2>2, MoreTimes, LagLasts
  <2> QED BY <2>1, <2>3
<1>5. \A p \in Linked(content'.links) :
        /\ WasPublished(p)'
        /\ content'.links[p] = On(content'.state[p].active) \/ Lags(p, content.state[p])'
  BY <1>1, <1>4
<1>7. Revisions' = Revisions /\ \A r \in Revisions' : \A p \in contentLog'[r] : WasPublished(p)'
  BY MoreTimes DEF SellerInv, Revisions
<1>8. applied' \subseteq ProductTimes'
  BY MoreTimes DEF SellerInv
<1>9. Linked(content.links)' = Linked(content'.links)
  BY DEF Linked
<1> QED BY <1>3, <1>5, <1>7, <1>8, <1>9 DEF SellerInv, On

LEMMA ApplyingFrame ==
  ASSUME ApplyingInv, LogExtends, applying' = applying
  PROVE  ApplyingInv'
<1>1. ProductTimes \subseteq Times
  BY DEF ProductTimes
<1>2. PICK a : a = applying
  OBVIOUS
<1>3. \A p \in Products : a[p] # Idle => a[p].time \in ProductTimes' /\ Of(p, a[p].time)'
  BY <1>1, <1>2, MoreTimes DEF ApplyingInv
<1> QED BY <1>2, <1>3 DEF ApplyingInv

\* A longer list of the content's revisions keeps what was shown of it.
LEMMA ShownFrame ==
  ASSUME ShownInv, LogExtends, UNCHANGED <<shown, shownTimes, shownRevisions>>,
         Revisions \subseteq Revisions', \A r \in Revisions : contentLog'[r] = contentLog[r]
  PROVE  ShownInv'
<1>1. PICK c, S, R : c = shown /\ S = shownTimes /\ R = shownRevisions
  OBVIOUS
<1>2. /\ S \subseteq ProductTimes \cup StoreTimes /\ S \subseteq Times /\ R \subseteq Revisions
      /\ S \subseteq ProductTimes' \cup StoreTimes'
  BY <1>1, MoreTimes DEF ShownInv, ProductTimes, StoreTimes
<1>3. ASSUME NEW p \in Products PROVE Knows(shownTimes, p, shown.state[p])'
  <2>1. PICK state : state = c.state[p]
    OBVIOUS
  <2>2. Knows(S, p, state)'
    BY <1>1, <1>2, <2>1, KnowsLasts DEF ShownInv
  <2> QED BY <1>1, <2>1, <2>2
<1>4. RevisionShown(shown, shownRevisions)'
  <2>1. RevisionShown(c, R)
    BY <1>1 DEF ShownInv
  <2>2. c.revision \in R => contentLog'[c.revision] = contentLog[c.revision]
    BY <1>2
  <2>3. RevisionShown(c, R)'
    BY <2>1, <2>2 DEF RevisionShown
  <2> QED BY <1>1, <2>3
<1>5. KnowsStore(shownTimes, shown.store)'
  <2>1. KnowsStore(S, c.store)
    BY <1>1 DEF ShownInv
  <2>2. \A t \in S : (Of(Store, t)' <=> Of(Store, t)) /\ log'[t] = log[t]
    BY <1>2, MoreTimes DEF LogExtends
  <2>3. KnowsStore(S, c.store)'
    BY <2>1, <2>2 DEF KnowsStore, NoneIn, NewestIn, StoreStateOf
  <2> QED BY <1>1, <2>3
<1>6. \A p \in Linked(shown.links)' : LinkShown(shown, p)'
  BY DEF ShownInv, Linked, LinkShown
<1> QED BY <1>1, <1>2, <1>3, <1>4, <1>5, <1>6 DEF ShownInv
-----------------------------------------------------------------------------
\* The content's steps leave the storefront alone.
ContentFrame == StoreLogInv /\ StoreLogInv' /\ UNCHANGED storefrontVars /\ LogExtends

\* The seller sends a request,
LEMMA SubmitStep ==
  ASSUME ContentInv, ContentFrame, NEW products \in SUBSET Products, SubmitContent(products)
  PROVE  ContentInv'
<1>1. UNCHANGED <<content, contentLog, applying, applied>>
      /\ UNCHANGED <<shown, shownTimes, shownRevisions, log>>
  BY DEF SubmitContent, ContentFrame, storefrontVars
<1>2. SellerInv' /\ ApplyingInv' /\ ShownInv'
  BY <1>1, SellerFrame, ApplyingFrame, ShownFrame DEF ContentInv, ContentFrame, Revisions
<1> DEFINE read == [p \in Products |-> IF p \in products THEN product[p].publication ELSE 0]
<1>3. Len(contentLog) \in Nat
  BY DEF ContentInv, SellerInv
<1>4. read \in [Products -> Nat]
  <2>1. \A p \in Products : product[p].publication \in Nat
    BY RowTypesOfStore DEF ContentInv, IsRow
  <2> QED BY <2>1
<1>5. submitted' = [revision |-> Len(contentLog), open |-> TRUE, read |-> read]
  BY DEF SubmitContent
<1>6. ASSUME NEW p \in Products, read[p] # 0
      PROVE  \E t \in ProductTimes : Of(p, t) /\ log[t].publication = read[p]
                                 /\ log[t].type = "ProductPublished"
  <2>1. product[p].state = "PUBLISHED" /\ read[p] = product[p].publication
    BY <1>6 DEF SubmitContent
  <2>2. PICK t \in Times : /\ Of(p, t) /\ TellsOfMarket(t) /\ Opens(t)
                           /\ log[t].publication = product[p].publication
    BY <2>1 DEF ContentInv, StoreLogInv, ToldOfRow
  <2>3. log[t].type \notin StoreEvents
    BY <2>2, StorefrontAssumption DEF ContentInv, StoreLogInv, Of
  <2>4. log[t].type = "ProductPublished" /\ t \in ProductTimes
    BY <2>2, <2>3 DEF Opens, Opening, StoreEvents, ProductEvents, ProductTimes
  <2> QED BY <2>1, <2>2, <2>4
<1> HIDE DEF read
<1>7. RequestInv'
  <2>1. submitted' \in [revision : Nat, read : [Products -> Nat], open : BOOLEAN]
        /\ submitted'.read = read
    BY <1>3, <1>4, <1>5
  <2>2. ProductTimes' = ProductTimes /\ \A p, t : Of(p, t)' <=> Of(p, t)
    BY <1>1 DEF ProductTimes, Times, Of
  <2> QED BY <1>1, <1>6, <2>1, <2>2 DEF RequestInv
<1> QED BY <1>2, <1>7 DEF ContentInv, ContentFrame

\* What is accepted is as the projected state wants it, or will be.
LEMMA AcceptedLinks ==
  ASSUME StoreLogInv, RequestInv, SellerInv, NEW p \in Products, submitted.read[p] # 0,
         ~Superseded(content.state[p], submitted.read[p])
  PROVE  On(content.state[p].active) = "ON" \/ Lags(p, content.state[p])
<1>1. PICK s : s = content.state[p]
  OBVIOUS
<1>2. PICK t \in ProductTimes : /\ Of(p, t) /\ log[t].publication = submitted.read[p]
                                /\ log[t].type = "ProductPublished"
  BY DEF RequestInv
<1>3. Knows(applied, p, s) /\ applied \subseteq Times /\ t \in Times
  BY <1>1 DEF SellerInv, ProductTimes
<1>4. CASE s = Unknown
  BY <1>1, <1>4 DEF Unknown, On
<1>5. CASE s # Unknown
  <2>1. PICK u \in applied : NewestIn(applied, p, u) /\ s = StateOf(log[u])
    BY <1>3, <1>5 DEF Knows
  <2>2. u \in Times /\ Of(p, u) /\ s.aggregate = log[u].aggregate
        /\ s.publication = log[u].publication
    BY <1>3, <2>1 DEF NewestIn, StateOf
  <2>3. /\ log[u].publication \in Nat /\ log[t].publication \in Nat /\ u \in Nat /\ t \in Nat
        /\ log[u].aggregate \in Nat /\ log[t].aggregate \in Nat
    BY <1>3, <2>2, EventTypes
  <2>4. CASE s.active
    BY <1>1, <2>4 DEF On
  <2>5. CASE ~s.active
    <3>1. log[u].publication < log[t].publication
      BY <1>1, <1>2, <1>5, <2>2, <2>3, <2>5 DEF Superseded
    <3>2. ~(t < u) /\ t # u
      BY <1>2, <1>3, <2>2, <2>3, <3>1 DEF StoreLogInv, Ordered, Of
    <3>3. u < t
      BY <2>3, <3>2
    <3>4. t \notin applied
      BY <1>2, <2>1, <2>3, <3>3 DEF NewestIn
    <3>5. log[t].aggregate > s.aggregate
      BY <1>2, <1>3, <2>2, <2>3, <3>3, LaterIsLarger DEF Of
    <3> QED BY <1>1, <1>2, <3>4, <3>5 DEF Lags
  <2> QED BY <2>4, <2>5
<1> QED BY <1>4, <1>5

\* and the transaction takes it or not.
LEMMA CommitContentStep ==
  ASSUME ContentInv, ContentFrame, CommitContent
  PROVE  ContentInv'
<1> DEFINE products == {p \in Products : submitted.read[p] # 0}
           accepted == /\ submitted.revision = Len(contentLog)
                       /\ \A p \in products : ~Superseded(content.state[p], submitted.read[p])
           links == [p \in Products |-> IF p \in products THEN "ON" ELSE "NONE"]
<1>1. /\ UNCHANGED <<applying, applied, shown, shownTimes, shownRevisions, log>>
      /\ submitted' = NoRequest
  BY DEF CommitContent, ContentFrame, storefrontVars
<1>2. RequestInv'
  <2>1. NoRequest \in [revision : Nat, read : [Products -> Nat], open : BOOLEAN]
        /\ \A p \in Products : NoRequest.read[p] = 0
    BY DEF NoRequest
  <2> QED BY <1>1, <2>1 DEF RequestInv
<1>3. CASE ~accepted
  <2>1. content' = content /\ contentLog' = contentLog
    BY <1>3 DEF CommitContent
  <2>2. SellerInv' /\ ApplyingInv' /\ ShownInv'
    BY <1>1, <2>1, SellerFrame, ApplyingFrame, ShownFrame DEF ContentInv, ContentFrame, Revisions
  <2> QED BY <1>2, <2>2 DEF ContentInv, ContentFrame
<1>4. CASE accepted
  <2>1. /\ content' = [content EXCEPT !.active = TRUE, !.links = links]
        /\ contentLog' = Append(contentLog, products)
    BY <1>4 DEF CommitContent
  <2>2. PICK c : c = content'
    OBVIOUS
  <2>3. links \in Links
    BY DEF Links
  <2>4. c \in ContentTables /\ c.links = links /\ c.state = content.state
    <3> HIDE DEF links
    <3> QED BY <2>1, <2>2, <2>3 DEF ContentInv, SellerInv, ContentTables
  <2>5. /\ contentLog' \in Seq(SUBSET Products) /\ Revisions \subseteq Revisions'
        /\ \A r \in Revisions : contentLog'[r] = contentLog[r]
        /\ \A r \in Revisions' : r \in Revisions \/ contentLog'[r] = products
    <3> DEFINE ps == products
    <3>1. ps \in SUBSET Products /\ contentLog \in Seq(SUBSET Products)
      BY DEF ContentInv, SellerInv
    <3> HIDE DEF ps
    <3> QED BY <2>1, <3>1 DEF Revisions
  <2>6. ShownInv'
    BY <1>1, <2>5, ShownFrame DEF ContentInv, ContentFrame
  <2>7. /\ ProductTimes' = ProductTimes /\ \A p, t : Of(p, t)' <=> Of(p, t)
        /\ \A p : WasPublished(p)' <=> WasPublished(p)
    BY <1>1 DEF ProductTimes, Times, Of, WasPublished
  <2>8. \A p, state : Lags(p, state)' <=> Lags(p, state)
    BY <1>1, <2>7 DEF Lags
  <2>9. \A p \in products : WasPublished(p)
    BY DEF ContentInv, RequestInv, WasPublished
  <2>10. ASSUME NEW p \in Products, c.links[p] # "NONE"
         PROVE  /\ WasPublished(p)
                /\ c.links[p] = On(c.state[p].active) \/ Lags(p, c.state[p])
    <3>1. p \in products /\ c.links[p] = "ON"
      BY <2>4, <2>10
    <3> QED BY <1>4, <2>4, <2>9, <3>1, AcceptedLinks DEF ContentInv
  <2>11. \A p \in Products : Knows(applied, p, content.state[p])'
    <3>1. PICK S : S = applied
      OBVIOUS
    <3>2. S \subseteq Times
      BY <3>1 DEF ContentInv, SellerInv, ProductTimes
    <3>3. ASSUME NEW p \in Products PROVE Knows(S, p, c.state[p])'
      <4>1. PICK state : state = c.state[p]
        OBVIOUS
      <4>2. Knows(S, p, state)
        BY <2>4, <3>1, <4>1 DEF ContentInv, SellerInv
      <4>3. Knows(S, p, state)'
        BY <3>2, <4>2, KnowsLasts DEF ContentFrame
      <4> QED BY <4>1, <4>3
    <3> QED BY <1>1, <2>2, <3>1, <3>3
  <2>12. \A r \in Revisions' : \A p \in contentLog'[r] : WasPublished(p)'
    BY <2>5, <2>7, <2>9 DEF ContentInv, SellerInv
  <2>13. \A p \in Linked(content.links)' : /\ WasPublished(p)'
           /\ (content.links[p] = On(content.state[p].active) \/ Lags(p, content.state[p]))'
    <3> SUFFICES ASSUME NEW p \in Linked(content.links)'
                 PROVE  /\ WasPublished(p)'
                        /\ (content.links[p] = On(content.state[p].active) \/ Lags(p, content.state[p]))'
      OBVIOUS
    <3>1. PICK state : state = c.state[p]
      OBVIOUS
    <3>2. p \in Products /\ c.links[p] # "NONE"
      BY <2>2 DEF Linked
    <3>3. WasPublished(p)' /\ (c.links[p] = On(state.active) \/ Lags(p, state)')
      BY <2>7, <2>8, <2>10, <3>1, <3>2
    <3> QED BY <2>2, <3>1, <3>3 DEF On
  <2>14. applied' \subseteq ProductTimes' /\ ApplyingInv'
    BY <1>1, <2>7, ApplyingFrame DEF ContentInv, ContentFrame, SellerInv
  <2>15. SellerInv'
    <3>1. content' \in ContentTables /\ contentLog' \in Seq(SUBSET Products)
      BY <2>2, <2>4, <2>5
    <3> HIDE DEF products, accepted, links
    <3> QED BY <2>11, <2>12, <2>13, <2>14, <3>1 DEF SellerInv
  <2> QED BY <1>2, <2>6, <2>14, <2>15 DEF ContentInv, ContentFrame
<1> QED BY <1>3, <1>4

\* A worker of the seller's consumer begins,
LEMMA BeginApplyStep ==
  ASSUME ContentInv, ContentFrame, NEW t \in Times, BeginApply(t)
  PROVE  ContentInv'
<1>1. UNCHANGED <<content, contentLog, applied>>
      /\ UNCHANGED <<submitted, shown, shownTimes, shownRevisions>>
  BY DEF BeginApply
<1>2. SellerInv' /\ RequestInv' /\ ShownInv'
  BY <1>1, SellerFrame, RequestFrame, ShownFrame DEF ContentInv, ContentFrame, Revisions
<1>3. PICK p, others : /\ p = log[t].subject
                       /\ applying' = [applying EXCEPT ![p] = [time |-> t, others |-> others]]
                       /\ others \in BOOLEAN
  BY DEF BeginApply
<1>4. t \in ProductTimes /\ t \in Nat /\ p \in Products /\ Of(p, t)
  BY <1>3, EventTypes, Subjects DEF BeginApply, Of, ContentInv
<1>5. PICK r : r = [time |-> t, others |-> others]
  OBVIOUS
<1>6. r \in [time : Nat, others : BOOLEAN] /\ r.time = t
  BY <1>3, <1>4, <1>5
<1>7. PICK a : a = applying'
  OBVIOUS
<1>8. a \in [Products -> [time : Nat, others : BOOLEAN]]
      /\ a[p] = r /\ \A q \in Products \ {p} : a[q] = applying[q]
  BY <1>3, <1>4, <1>5, <1>6, <1>7 DEF ContentInv, ApplyingInv
<1>9. \A q \in Products : a[q] # Idle => a[q].time \in ProductTimes /\ Of(q, a[q].time)
  BY <1>4, <1>6, <1>8 DEF ContentInv, ApplyingInv
<1>10. ProductTimes \subseteq Times
  BY DEF ProductTimes
<1>11. \A q \in Products : a[q] # Idle => a[q].time \in ProductTimes' /\ Of(q, a[q].time)'
  BY <1>9, <1>10, MoreTimes DEF ContentFrame
<1>12. ApplyingInv'
  BY <1>7, <1>8, <1>11 DEF ApplyingInv
<1> QED BY <1>2, <1>12 DEF ContentInv, ContentFrame

\* and ends without having done anything,
LEMMA Released ==
  ASSUME ApplyingInv, LogExtends, NEW p \in Products, applying' = [applying EXCEPT ![p] = Idle]
  PROVE  ApplyingInv'
<1>1. PICK a : a = applying'
  OBVIOUS
<1>2. Idle \in [time : Nat, others : BOOLEAN]
  BY DEF Idle
<1>3. a \in [Products -> [time : Nat, others : BOOLEAN]]
      /\ a[p] = Idle /\ \A q \in Products \ {p} : a[q] = applying[q]
  BY <1>1, <1>2 DEF ApplyingInv
<1>4. \A q \in Products : a[q] # Idle => a[q].time \in ProductTimes /\ Of(q, a[q].time)
  BY <1>3 DEF ApplyingInv
<1>5. ProductTimes \subseteq Times
  BY DEF ProductTimes
<1>6. \A q \in Products : a[q] # Idle => a[q].time \in ProductTimes' /\ Of(q, a[q].time)'
  BY <1>4, <1>5, MoreTimes
<1> QED BY <1>1, <1>3, <1>6 DEF ApplyingInv

LEMMA AbandonApplyStep ==
  ASSUME ContentInv, ContentFrame, NEW p \in Products, AbandonApply(p)
  PROVE  ContentInv'
<1>1. /\ UNCHANGED <<content, contentLog, applied>>
      /\ UNCHANGED <<submitted, shown, shownTimes, shownRevisions>>
      /\ applying' = [applying EXCEPT ![p] = Idle]
  BY DEF AbandonApply
<1>2. SellerInv' /\ RequestInv' /\ ShownInv' /\ ApplyingInv'
  BY <1>1, SellerFrame, RequestFrame, ShownFrame, Released DEF ContentInv, ContentFrame, Revisions
<1> QED BY <1>2 DEF ContentInv, ContentFrame

\* What an event makes of the seller's tables,
AppliedFacts(c, p, e, d) ==
  LET old == c.state[p].aggregate >= e.aggregate
  IN /\ d \in ContentTables
     /\ d.state = [c.state EXCEPT ![p] = IF old THEN @ ELSE StateOf(e)]
     /\ d.links = IF old \/ c.links[p] = "NONE" THEN c.links
                  ELSE [c.links EXCEPT ![p] = On(StateOf(e).active)]

LEMMA AppliedTables ==
  ASSUME NEW c \in ContentTables, NEW p \in Products, NEW e \in Event, NEW others \in BOOLEAN
  PROVE  AppliedFacts(c, p, e, Applied(c, p, e, others))
<1> DEFINE d == Applied(c, p, e, others)
           states == [c.state EXCEPT ![p] = StateOf(e)]
           active == StateOf(e).active
           links == [c.links EXCEPT ![p] = On(active)]
           live == active \/ others
<1>1. StateOf(e) \in ProductState /\ active \in BOOLEAN
  BY DEF StateOf, ProductState, Event
<1>2. states \in [Products -> ProductState]
  <2>1. PICK s : s = StateOf(e)
    OBVIOUS
  <2> QED BY <1>1, <2>1 DEF ContentTables
<1>3. links \in Links
  BY DEF ContentTables, Links, On
<1>4. live \in BOOLEAN
  OBVIOUS
<1>5. CASE c.state[p].aggregate >= e.aggregate
  <2>1. d = c
    BY <1>5 DEF Applied
  <2>2. c.state = [c.state EXCEPT ![p] = @]
    BY DEF ContentTables
  <2> QED BY <1>5, <2>1, <2>2 DEF AppliedFacts
<1>6. CASE ~(c.state[p].aggregate >= e.aggregate)
  <2> DEFINE known == [c EXCEPT !.state[p] = StateOf(e)]
  <2>1. known = [c EXCEPT !.state = states]
    BY Zenon
  <2>2. known = [active |-> c.active, links |-> c.links, state |-> states]
    <3> HIDE DEF states, known
    <3> QED BY <2>1 DEF ContentTables
  <2>3. CASE c.links[p] = "NONE"
    <3>1. d = known
      BY <1>6, <2>3 DEF Applied
    <3> HIDE DEF states, known, d
    <3>2. d \in ContentTables /\ d.state = states /\ d.links = c.links
      BY <1>2, <2>2, <3>1 DEF ContentTables
    <3> QED BY <1>6, <2>3, <3>2 DEF AppliedFacts, states, d
  <2>4. CASE c.links[p] # "NONE"
    <3>1. d = [known EXCEPT !.links[p] = On(active), !.active = live]
      BY <1>6, <2>4 DEF Applied
    <3>2. PICK k : k = known
      OBVIOUS
    <3> HIDE DEF known
    <3>3. k.links = c.links
      <4> HIDE DEF states
      <4> QED BY <2>2, <3>2
    <3>4. d = [k EXCEPT !.links = links, !.active = live]
      <4> HIDE DEF d, live, active
      <4> QED BY <3>1, <3>2, <3>3, Zenon
    <3> HIDE DEF states, d, links, live
    <3>5. d = [active |-> live, links |-> links, state |-> states]
      BY <2>2, <3>2, <3>4
    <3>6. d \in ContentTables /\ d.state = states /\ d.links = links
      BY <1>2, <1>3, <1>4, <3>5 DEF ContentTables
    <3> QED BY <1>6, <2>4, <3>6 DEF AppliedFacts, states, links, d
  <2> QED BY <2>3, <2>4
<1> QED BY <1>5, <1>6

\* and what that leaves them knowing.
LEMMA CommitApplyStep ==
  ASSUME ContentInv, ContentFrame, NEW p \in Products, CommitApply(p)
  PROVE  ContentInv'
<1>1. PICK t, others, c, d, e : /\ t = applying[p].time /\ others = applying[p].others
                                /\ c = content /\ d = content' /\ e = log[t]
  OBVIOUS
<1>2. /\ d = Applied(c, p, e, others) /\ applied' = applied \cup {t}
      /\ applying' = [applying EXCEPT ![p] = Idle] /\ contentLog' = contentLog
      /\ UNCHANGED <<submitted, shown, shownTimes, shownRevisions, log>>
  BY <1>1 DEF CommitApply, ContentFrame, storefrontVars
<1>3. RequestInv' /\ ShownInv' /\ ApplyingInv'
  BY <1>2, RequestFrame, ShownFrame, Released DEF ContentInv, ContentFrame, Revisions
<1>4. t \in ProductTimes /\ t \in Times /\ Of(p, t) /\ others \in BOOLEAN /\ c \in ContentTables
  BY <1>1 DEF CommitApply, ContentInv, ApplyingInv, SellerInv, ProductTimes
<1>5. e \in Event /\ e.aggregate \in Nat
  BY <1>1, <1>4, EventTypes DEF ContentInv
<1>6. AppliedFacts(c, p, e, d)
  BY <1>2, <1>4, <1>5, AppliedTables
<1>7. /\ d \in ContentTables
      /\ \A q \in Products \ {p} : d.state[q] = c.state[q] /\ d.links[q] = c.links[q]
      /\ d.state[p] = After(c.state[p], e)
      /\ d.links[p] = "NONE" <=> c.links[p] = "NONE"
      /\ c.links[p] # "NONE" =>
           d.links[p] = IF c.state[p].aggregate < e.aggregate THEN On(d.state[p].active)
                        ELSE c.links[p]
  <2>0. c.state \in [Products -> ProductState] /\ c.links \in Links
    BY <1>4 DEF ContentTables
  <2>1. c.state[p].aggregate \in Nat
    BY <2>0 DEF ProductState
  <2>2. c.state[p].aggregate >= e.aggregate <=> ~(c.state[p].aggregate < e.aggregate)
    BY <1>5, <2>1
  <2>3. PICK s, a : s = StateOf(e) /\ a = On(s.active) /\ a # "NONE"
    BY DEF On
  <2>4. CASE c.state[p].aggregate < e.aggregate
    <3>1. /\ d.state = [c.state EXCEPT ![p] = s]
          /\ d.links = IF c.links[p] = "NONE" THEN c.links ELSE [c.links EXCEPT ![p] = a]
      BY <1>6, <2>2, <2>3, <2>4 DEF AppliedFacts
    <3>2. d.state[p] = s /\ \A q \in Products \ {p} : d.state[q] = c.state[q]
      BY <2>0, <3>1
    <3>3. /\ d.links[p] = IF c.links[p] = "NONE" THEN c.links[p] ELSE a
          /\ \A q \in Products \ {p} : d.links[q] = c.links[q]
      BY <2>0, <3>1 DEF Links
    <3> QED BY <1>6, <2>3, <2>4, <3>2, <3>3 DEF AppliedFacts, After
  <2>5. CASE ~(c.state[p].aggregate < e.aggregate)
    <3>1. d.state = [c.state EXCEPT ![p] = c.state[p]] /\ d.links = c.links
      BY <1>6, <2>2, <2>5 DEF AppliedFacts
    <3>2. d.state = c.state
      BY <2>0, <3>1
    <3> QED BY <1>6, <2>5, <3>1, <3>2 DEF AppliedFacts, After
  <2> QED BY <2>4, <2>5
<1>8. /\ ProductTimes' = ProductTimes /\ \A x, u : Of(x, u)' <=> Of(x, u)
      /\ \A x : WasPublished(x)' <=> WasPublished(x)
  BY <1>2 DEF ProductTimes, Times, Of, WasPublished
<1>9. ASSUME NEW q, NEW s, NEW w \in ProductTimes \ applied, Of(q, w),
             log[w].aggregate > s.aggregate, w # t
      PROVE  Lags(q, s)'
  BY <1>2, <1>8, <1>9 DEF Lags
<1>10. ASSUME NEW q \in Products
       PROVE  Knows(applied, q, content.state[q])'
  <2>1. PICK S, s : S = applied \cup {t} /\ s = d.state[q]
    OBVIOUS
  <2>2. Knows(applied, q, c.state[q]) /\ applied \subseteq Times
    BY <1>1 DEF ContentInv, SellerInv, ProductTimes
  <2>3. Knows(S, q, s)
    <3>1. CASE q = p
      BY <1>1, <1>4, <1>7, <2>1, <2>2, <3>1, KnowsMore DEF ContentInv
    <3>2. CASE q # p
      <4>1. ~Of(q, t)
        BY <1>4, <3>2 DEF Of
      <4> QED BY <1>7, <2>1, <2>2, <3>2, <4>1, KnowsOthers
    <3> QED BY <3>1, <3>2
  <2>4. Knows(S, q, s)'
    BY <1>4, <2>1, <2>2, <2>3, KnowsLasts DEF ContentFrame
  <2> QED BY <1>1, <1>2, <2>1, <2>4
<1>11. ASSUME NEW q \in Products, d.links[q] # "NONE"
       PROVE  WasPublished(q)' /\ (d.links[q] = On(d.state[q].active) \/ Lags(q, d.state[q])')
  <2>1. c.links[q] # "NONE"
    BY <1>7, <1>11
  <2>2. WasPublished(q) /\ (c.links[q] = On(c.state[q].active) \/ Lags(q, c.state[q]))
    BY <1>1, <2>1 DEF ContentInv, SellerInv, Linked
  <2>3. PICK s : s = c.state[q]
    OBVIOUS
  <2>4. CASE q # p
    <3>1. ASSUME Lags(q, s) PROVE Lags(q, s)'
      <4>1. PICK w \in ProductTimes \ applied : Of(q, w) /\ log[w].aggregate > s.aggregate
        BY <3>1 DEF Lags
      <4>2. w # t
        BY <1>4, <2>4, <4>1 DEF Of
      <4> QED BY <1>9, <4>1, <4>2
    <3>2. d.state[q] = s /\ d.links[q] = c.links[q]
      BY <1>7, <2>3, <2>4
    <3>3. Lags(q, d.state[q])' <=> Lags(q, s)'
      BY <3>2 DEF Lags
    <3> QED BY <1>8, <2>2, <2>3, <3>1, <3>2, <3>3
  <2>5. CASE q = p /\ s.aggregate < e.aggregate
    BY <1>7, <1>8, <2>1, <2>2, <2>3, <2>5
  <2>6. CASE q = p /\ ~(s.aggregate < e.aggregate)
    <3>1. ASSUME Lags(q, s) PROVE Lags(q, s)'
      <4>1. PICK w \in ProductTimes \ applied : Of(q, w) /\ log[w].aggregate > s.aggregate
        BY <3>1 DEF Lags
      <4>2. w # t
        BY <1>1, <2>6, <4>1
      <4> QED BY <1>9, <4>1, <4>2
    <3>2. d.state[q] = s /\ d.links[q] = c.links[q]
      BY <1>7, <2>1, <2>3, <2>6 DEF After
    <3>3. Lags(q, d.state[q])' <=> Lags(q, s)'
      BY <3>2 DEF Lags
    <3> QED BY <1>8, <2>2, <2>3, <3>1, <3>2, <3>3
  <2> QED BY <2>4, <2>5, <2>6
<1>12. \A q \in Linked(content.links)' : /\ WasPublished(q)'
         /\ (content.links[q] = On(content.state[q].active) \/ Lags(q, content.state[q]))'
  <2> SUFFICES ASSUME NEW q \in Linked(content.links)'
               PROVE  /\ WasPublished(q)'
                      /\ (content.links[q] = On(content.state[q].active) \/ Lags(q, content.state[q]))'
    OBVIOUS
  <2>1. PICK s : s = d.state[q]
    OBVIOUS
  <2>2. q \in Products /\ d.links[q] # "NONE"
    BY <1>1 DEF Linked
  <2>3. WasPublished(q)' /\ (d.links[q] = On(s.active) \/ Lags(q, s)')
    <3>1. Lags(q, d.state[q])' <=> Lags(q, s)'
      BY <2>1 DEF Lags
    <3> QED BY <1>11, <2>1, <2>2, <3>1
  <2> QED BY <1>1, <2>1, <2>3 DEF On
<1>13. SellerInv'
  <2>1. /\ content' \in ContentTables /\ contentLog' \in Seq(SUBSET Products)
        /\ applied' \subseteq ProductTimes'
    BY <1>1, <1>2, <1>4, <1>7, <1>8 DEF ContentInv, SellerInv
  <2>2. \A r \in Revisions' : \A q \in contentLog'[r] : WasPublished(q)'
    BY <1>2, <1>8 DEF ContentInv, SellerInv, Revisions
  <2> QED BY <1>10, <1>12, <2>1, <2>2 DEF SellerInv
<1> QED BY <1>3, <1>13 DEF ContentInv, ContentFrame

\* What an event of a product makes of the public's tables.
ShownFacts(c, p, e, d) ==
  /\ d \in ShownTables
  /\ d.revision = c.revision /\ d.store = c.store
  /\ \A q \in Products \ {p} :
       d.state[q] = c.state[q] /\ d.links[q] = c.links[q] /\ d.last[q] = c.last[q]
  /\ d.state[p] = After(c.state[p], e)
  /\ LET newer == c.links[p] # "NONE" /\ c.last[p] < e.aggregate
     IN /\ d.links[p] = IF newer THEN On(StateOf(e).active) ELSE c.links[p]
        /\ d.last[p] = IF newer THEN e.aggregate ELSE c.last[p]

LEMMA ShownTablesOfProduct ==
  ASSUME shown \in ShownTables, NEW e \in Event, e.subject \in Products
  PROVE  ShownFacts(shown, e.subject, e, ShowProduct(e))
<1>1. PICK p, c, d : p = e.subject /\ c = shown /\ d = ShowProduct(e)
  OBVIOUS
<1> DEFINE newer == c.links[p] # "NONE" /\ c.last[p] < e.aggregate
<1>2. PICK A, B, C : /\ A = After(c.state[p], e)
                     /\ B = IF newer THEN On(StateOf(e).active) ELSE c.links[p]
                     /\ C = IF newer THEN e.aggregate ELSE c.last[p]
  OBVIOUS
<1>3. p \in Products /\ c \in ShownTables /\ e.aggregate \in Nat
  BY <1>1 DEF Event
<1>4. c.state \in [Products -> ProductState] /\ c.links \in Links /\ c.last \in [Products -> Nat]
  BY <1>3 DEF ShownTables
<1>5. A \in ProductState /\ B \in {"NONE", "ON", "OFF"} /\ C \in Nat
  <2>1. StateOf(e) \in ProductState
    BY DEF StateOf, ProductState, Event
  <2> QED BY <1>2, <1>3, <1>4, <2>1 DEF After, On, Links
<1>6. PICK state, links, last : /\ state = [c.state EXCEPT ![p] = A]
                                /\ links = [c.links EXCEPT ![p] = B]
                                /\ last = [c.last EXCEPT ![p] = C]
  OBVIOUS
<1>7. state \in [Products -> ProductState] /\ links \in Links /\ last \in [Products -> Nat]
  BY <1>3, <1>4, <1>5, <1>6 DEF Links
<1>8. d = [c EXCEPT !.state[p] = A, !.links[p] = B, !.last[p] = C]
  BY <1>1, <1>2, Zenon DEF ShowProduct, After
<1>9. d = [c EXCEPT !.state = state, !.links = links, !.last = last]
  <2> HIDE DEF newer
  <2> QED BY <1>6, <1>8, Zenon
<1>10. d = [revision |-> c.revision, links |-> links, last |-> last, state |-> state,
            store |-> c.store]
  <2> HIDE DEF newer
  <2> QED BY <1>3, <1>9 DEF ShownTables
<1>11. /\ d \in ShownTables /\ d.revision = c.revision /\ d.store = c.store
       /\ d.state = state /\ d.links = links /\ d.last = last
  <2> HIDE DEF newer
  <2> QED BY <1>3, <1>7, <1>10 DEF ShownTables
<1>12. /\ state[p] = A /\ links[p] = B /\ last[p] = C
       /\ \A q \in Products \ {p} :
            state[q] = c.state[q] /\ links[q] = c.links[q] /\ last[q] = c.last[q]
  BY <1>3, <1>4, <1>6 DEF Links
<1> QED BY <1>1, <1>2, <1>11, <1>12 DEF ShownFacts

\* The store's row follows its newest event: publications and revisions of the store
\* are in the order of its events.
NewerStore(row, e) ==
  \/ row.publication < e.publication
  \/ row.publication = e.publication /\ row.aggregate < e.aggregate

LEMMA KnowsStoreMore ==
  ASSUME StoreLogInv, NEW S, S \subseteq Times, NEW row, KnowsStore(S, row),
         NEW t \in Times, Of(Store, t)
  PROVE  KnowsStore(S \cup {t}, IF NewerStore(row, log[t]) THEN StoreStateOf(log[t]) ELSE row)
<1>1. /\ t \in Nat /\ log[t].aggregate \in Nat /\ log[t].publication \in Nat
      /\ 1 <= log[t].publication
  <2>1. \E r, public : ToldOfRow(Store, r, public)
    BY DEF StoreLogInv
  <2> QED BY <2>1, EventTypes, RowBounds
<1>2. CASE NoneIn(S, Store) /\ row = NoStore
  <2>1. NewerStore(row, log[t])
    BY <1>1, <1>2 DEF NewerStore, NoStore
  <2>2. \A u \in S \cup {t} : Of(Store, u) => u = t
    BY <1>2 DEF NoneIn
  <2>3. t <= t
    BY <1>1
  <2>4. NewestIn(S \cup {t}, Store, t)
    BY <2>2, <2>3 DEF NewestIn
  <2> QED BY <2>1, <2>4 DEF KnowsStore
<1>3. ASSUME NEW u \in S, NewestIn(S, Store, u), row = StoreStateOf(log[u])
      PROVE  KnowsStore(S \cup {t}, IF NewerStore(row, log[t]) THEN StoreStateOf(log[t]) ELSE row)
  <2>1. /\ u \in Times /\ u \in Nat /\ Of(Store, u) /\ log[u].subject = log[t].subject
        /\ log[u].aggregate \in Nat /\ log[u].publication \in Nat
        /\ row.aggregate = log[u].aggregate /\ row.publication = log[u].publication
    BY <1>3, EventTypes DEF NewestIn, Of, StoreStateOf
  <2>2. \A w \in S : w \in Nat
    BY EventTypes
  <2>3. CASE u < t
    <3>1. log[u].aggregate < log[t].aggregate /\ log[u].publication <= log[t].publication
      BY <2>1, <2>3 DEF StoreLogInv, Ordered
    <3>2. NewerStore(row, log[t])
      BY <1>1, <2>1, <3>1 DEF NewerStore
    <3>3. NewestIn(S \cup {t}, Store, t)
      <4>1. ASSUME NEW w \in S, Of(Store, w) PROVE w <= t
        <5>1. w <= u /\ w \in Nat
          BY <1>3, <2>2, <4>1 DEF NewestIn
        <5> QED BY <1>1, <2>1, <2>3, <5>1
      <4>2. t <= t
        BY <1>1
      <4> QED BY <4>1, <4>2 DEF NewestIn
    <3> QED BY <3>2, <3>3 DEF KnowsStore
  <2>4. CASE ~(u < t)
    <3>1. \/ t = u
          \/ log[t].aggregate < log[u].aggregate /\ log[t].publication <= log[u].publication
      <4>1. t = u \/ t < u
        BY <1>1, <2>1, <2>4
      <4>2. Ordered
        BY DEF StoreLogInv
      <4> QED BY <2>1, <4>1, <4>2 DEF Ordered
    <3>2. ~NewerStore(row, log[t])
      BY <1>1, <2>1, <3>1 DEF NewerStore
    <3>3. NewestIn(S \cup {t}, Store, u)
      BY <1>1, <1>3, <2>1, <2>4 DEF NewestIn
    <3> QED BY <1>3, <3>2, <3>3 DEF KnowsStore
  <2> QED BY <2>3, <2>4
<1> QED BY <1>2, <1>3 DEF KnowsStore

\* The public's consumer does an event,
LEMMA ShowEventStep ==
  ASSUME ContentInv, ContentFrame, NEW t \in Times, ShowEvent(t)
  PROVE  ContentInv'
<1>1. PICK c, d, e, S, R : /\ c = shown /\ d = shown' /\ e = log[t]
                           /\ S = shownTimes \cup {t} /\ R = shownRevisions
  OBVIOUS
<1>2. /\ d = (IF t \in StoreTimes THEN ShowStore(e) ELSE ShowProduct(e))
      /\ shownTimes' = S /\ shownRevisions' = R
      /\ UNCHANGED <<content, submitted, contentLog, applying, applied, log>>
  BY <1>1 DEF ShowEvent, ContentFrame, storefrontVars
<1>3. RequestInv' /\ SellerInv' /\ ApplyingInv'
  BY <1>2, RequestFrame, SellerFrame, ApplyingFrame DEF ContentInv, ContentFrame
<1>4. /\ c \in ShownTables /\ shownTimes \subseteq Times /\ S \subseteq Times
      /\ S \subseteq ProductTimes \cup StoreTimes /\ R \subseteq Revisions
      /\ KnowsStore(shownTimes, c.store) /\ RevisionShown(c, R)
      /\ \A p \in Products : Knows(shownTimes, p, c.state[p])
      /\ \A p \in Products : c.links[p] # "NONE" => LinkShown(c, p)
  BY <1>1 DEF ContentInv, ShownInv, ShowEvent, ProductTimes, StoreTimes, Linked
<1>5. StoreLogInv /\ e \in Event /\ e.aggregate \in Nat
  BY <1>1, EventTypes DEF ContentInv
<1>6. /\ d \in ShownTables
      /\ d.revision = c.revision /\ Linked(d.links) = Linked(c.links)
      /\ \A p \in Products : Knows(S, p, d.state[p])
      /\ \A p \in Products : d.links[p] # "NONE" => LinkShown(d, p)
      /\ KnowsStore(S, d.store)
  <2>1. CASE t \in StoreTimes
    <3>1. Of(Store, t) /\ \A p \in Products : ~Of(p, t)
      BY <1>5, <2>1, Subjects, StorefrontAssumption DEF Of
    <3>2. KnowsStore(S, IF NewerStore(c.store, e) THEN StoreStateOf(e) ELSE c.store)
      BY <1>1, <1>4, <1>5, <3>1, KnowsStoreMore
    <3>3. PICK row : row = IF NewerStore(c.store, e) THEN StoreStateOf(e) ELSE c.store
      OBVIOUS
    <3>4. row \in [published : BOOLEAN, aggregate : Nat, publication : Nat]
      BY <1>4, <1>5, <3>3 DEF StoreStateOf, Event, ShownTables
    <3>5. d = [c EXCEPT !.store = row]
      <4>1. c = [c EXCEPT !.store = c.store]
        BY <1>4 DEF ShownTables
      <4> QED BY <1>1, <1>2, <2>1, <3>3, <4>1 DEF ShowStore, NewerStore, StoreStateOf
    <3>6. /\ d \in ShownTables /\ d.store = row /\ d.revision = c.revision
          /\ d.links = c.links /\ d.state = c.state /\ d.last = c.last
      BY <1>4, <3>4, <3>5 DEF ShownTables
    <3>7. \A p \in Products : Knows(S, p, d.state[p])
      BY <1>1, <1>4, <3>1, <3>6, KnowsOthers
    <3> QED BY <1>4, <3>2, <3>3, <3>6, <3>7 DEF LinkShown
  <2>2. CASE t \notin StoreTimes
    <3>1. PICK p : p = e.subject
      OBVIOUS
    <3>2. p \in Products /\ Of(p, t) /\ ~Of(Store, t) /\ t \in ProductTimes
      BY <1>1, <1>5, <2>2, <3>1, Subjects DEF Of, ShowEvent
    <3>3. ShownFacts(c, p, e, d)
      BY <1>1, <1>2, <1>4, <1>5, <2>2, <3>1, <3>2, ShownTablesOfProduct
    <3>4. ASSUME NEW q \in Products PROVE Knows(S, q, d.state[q])
      <4>1. CASE q = p
        BY <1>1, <1>4, <1>5, <3>2, <3>3, <4>1, KnowsMore DEF ShownFacts
      <4>2. CASE q # p
        <5>1. ~Of(q, t)
          BY <3>2, <4>2 DEF Of
        <5> QED BY <1>1, <1>4, <3>3, <4>2, <5>1, KnowsOthers DEF ShownFacts
      <4> QED BY <4>1, <4>2
    <3>5. KnowsStore(S, d.store)
      BY <1>1, <1>4, <3>2, <3>3 DEF ShownFacts, KnowsStore, NoneIn, NewestIn
    <3>6. ASSUME NEW q \in Products
          PROVE  /\ d.links[q] = "NONE" <=> c.links[q] = "NONE"
                 /\ d.links[q] # "NONE" => LinkShown(d, q)
      <4>1. CASE q # p
        BY <1>4, <3>3, <4>1 DEF ShownFacts, LinkShown
      <4>2. CASE q = p /\ c.links[p] = "NONE"
        BY <3>3, <4>2 DEF ShownFacts
      <4>3. CASE q = p /\ c.links[p] # "NONE"
        <5>1. c.last[p] = c.state[p].aggregate /\ c.links[p] = On(c.state[p].active)
          BY <1>4, <3>2, <4>3 DEF LinkShown
        <5>2. CASE c.last[p] < e.aggregate
          <6>1. d.state[p] = StateOf(e) /\ d.last[p] = e.aggregate /\ d.links[p] = On(StateOf(e).active)
            BY <3>3, <4>3, <5>1, <5>2 DEF ShownFacts, After
          <6>2. d.state[p].aggregate = e.aggregate /\ d.links[p] # "NONE"
            BY <6>1 DEF StateOf, On
          <6> QED BY <4>3, <6>1, <6>2 DEF LinkShown
        <5>3. CASE ~(c.last[p] < e.aggregate)
          BY <3>3, <4>3, <5>1, <5>3 DEF ShownFacts, After, LinkShown
        <5> QED BY <5>2, <5>3
      <4> QED BY <4>1, <4>2, <4>3
    <3>7. Linked(d.links) = Linked(c.links)
      BY <3>6 DEF Linked
    <3> QED BY <3>3, <3>4, <3>5, <3>6, <3>7 DEF ShownFacts
  <2> QED BY <2>1, <2>2
<1>7. RevisionShown(d, R)
  BY <1>4, <1>6 DEF RevisionShown
<1>8. /\ RevisionShown(d, R)' /\ KnowsStore(S, d.store)'
      /\ ProductTimes' = ProductTimes /\ StoreTimes' = StoreTimes
  BY <1>2, <1>6, <1>7
     DEF RevisionShown, KnowsStore, NoneIn, NewestIn, Of, StoreStateOf, ProductTimes, StoreTimes, Times
<1>9. ASSUME NEW p \in Products PROVE Knows(shownTimes, p, shown.state[p])'
  <2>1. PICK s : s = d.state[p]
    OBVIOUS
  <2>2. Knows(S, p, s)'
    BY <1>4, <1>6, <2>1, KnowsLasts DEF ContentFrame
  <2> QED BY <1>1, <1>2, <2>1, <2>2
<1>10. \A p \in Linked(shown.links)' : LinkShown(shown, p)'
  BY <1>1, <1>6 DEF Linked, LinkShown, On
<1>11. /\ shown' \in ShownTables /\ shownTimes' \subseteq ProductTimes' \cup StoreTimes'
       /\ shownRevisions' \subseteq Revisions'
       /\ RevisionShown(shown, shownRevisions)' /\ KnowsStore(shownTimes, shown.store)'
  BY <1>1, <1>2, <1>4, <1>6, <1>8 DEF Revisions
<1>12. ShownInv'
  BY <1>9, <1>10, <1>11 DEF ShownInv
<1> QED BY <1>3, <1>12 DEF ContentInv, ContentFrame

\* a revision of the content,
LEMMA ShowRevisionStep ==
  ASSUME ContentInv, ContentFrame, NEW revision \in Revisions, ShowRevision(revision)
  PROVE  ContentInv'
<1>1. PICK c, d, S, R, products : /\ c = shown /\ d = shown' /\ S = shownTimes
                                  /\ R = shownRevisions \cup {revision}
                                  /\ products = contentLog[revision]
  OBVIOUS
<1>2. /\ d = ShowContent(revision) /\ shownTimes' = S /\ shownRevisions' = R
      /\ UNCHANGED <<content, submitted, contentLog, applying, applied, log>>
  BY <1>1 DEF ShowRevision, ContentFrame, storefrontVars
<1>3. RequestInv' /\ SellerInv' /\ ApplyingInv'
  BY <1>2, RequestFrame, SellerFrame, ApplyingFrame DEF ContentInv, ContentFrame
<1>4. /\ c \in ShownTables /\ S \subseteq Times /\ S \subseteq ProductTimes \cup StoreTimes
      /\ R \subseteq Revisions /\ KnowsStore(S, c.store) /\ RevisionShown(c, shownRevisions)
      /\ \A p \in Products : Knows(S, p, c.state[p])
      /\ \A p \in Products : c.links[p] # "NONE" => LinkShown(c, p)
      /\ shownRevisions \subseteq Revisions
  BY <1>1 DEF ContentInv, ShownInv, ProductTimes, StoreTimes, Linked
<1>5. /\ products \in SUBSET Products /\ revision \in Nat /\ 1 <= revision
      /\ \A r \in Revisions : r \in Nat
  BY <1>1 DEF ContentInv, SellerInv, Revisions
<1>6. c.revision \in Nat /\ c.state \in [Products -> ProductState] /\ c.links \in Links
      /\ c.last \in [Products -> Nat]
  BY <1>4 DEF ShownTables
<1>7. /\ d \in ShownTables /\ d.state = c.state /\ d.store = c.store
      /\ \A p \in Products : d.links[p] # "NONE" => LinkShown(d, p)
      /\ RevisionShown(d, R)
  <2>1. CASE c.revision >= revision
    <3>1. d = c
      BY <1>1, <1>2, <2>1 DEF ShowContent
    <3>2. RevisionShown(c, R)
      BY <1>1, <1>4, <1>5, <1>6, <2>1 DEF RevisionShown
    <3> QED BY <1>4, <3>1, <3>2
  <2>2. CASE ~(c.revision >= revision)
    <3> DEFINE kept(p) == p \in products /\ c.links[p] # "NONE" /\ c.last[p] >= c.state[p].aggregate
               links == [p \in Products |-> IF kept(p) THEN c.links[p]
                                            ELSE IF p \in products THEN On(c.state[p].active)
                                            ELSE "NONE"]
               last == [p \in Products |-> IF kept(p) THEN c.last[p]
                                           ELSE IF p \in products THEN c.state[p].aggregate
                                           ELSE 0]
    <3>1. d = [c EXCEPT !.revision = revision, !.links = links, !.last = last]
      BY <1>1, <1>2, <2>2, Zenon DEF ShowContent
    <3>2. links \in Links /\ last \in [Products -> Nat]
      <4>1. \A p \in Products : c.state[p].aggregate \in Nat
        BY <1>6 DEF ProductState
      <4> QED BY <1>6, <4>1 DEF Links, On
    <3>3. ASSUME NEW p \in Products
          PROVE  /\ links[p] # "NONE" <=> p \in products
                 /\ links[p] # "NONE" => last[p] = c.state[p].aggregate /\ links[p] = On(c.state[p].active)
      <4>1. c.links[p] # "NONE" => c.last[p] = c.state[p].aggregate /\ c.links[p] = On(c.state[p].active)
        BY <1>4 DEF LinkShown
      <4> QED BY <4>1 DEF On
    <3> HIDE DEF links, last
    <3>4. d = [revision |-> revision, links |-> links, last |-> last, state |-> c.state,
               store |-> c.store]
      BY <1>4, <3>1 DEF ShownTables
    <3>5. /\ d \in ShownTables /\ d.revision = revision /\ d.links = links /\ d.last = last
          /\ d.state = c.state /\ d.store = c.store
      BY <1>4, <1>5, <3>2, <3>4 DEF ShownTables
    <3>6. \A p \in Products : d.links[p] # "NONE" => LinkShown(d, p)
      BY <3>3, <3>5 DEF LinkShown
    <3>7. Linked(d.links) = products
      BY <1>5, <3>3, <3>5 DEF Linked
    <3>8. \A r \in R : r <= revision
      BY <1>1, <1>4, <1>5, <1>6, <2>2 DEF RevisionShown
    <3>9. RevisionShown(d, R)
      BY <1>1, <3>5, <3>7, <3>8 DEF RevisionShown
    <3> QED BY <3>5, <3>6, <3>9
  <2> QED BY <2>1, <2>2
<1>8. /\ RevisionShown(d, R)' /\ KnowsStore(S, d.store)'
      /\ ProductTimes' = ProductTimes /\ StoreTimes' = StoreTimes
  BY <1>2, <1>4, <1>7
     DEF RevisionShown, KnowsStore, NoneIn, NewestIn, Of, StoreStateOf, ProductTimes, StoreTimes, Times
<1>9. ASSUME NEW p \in Products PROVE Knows(shownTimes, p, shown.state[p])'
  <2>1. PICK s : s = d.state[p]
    OBVIOUS
  <2>2. Knows(S, p, s)'
    BY <1>4, <1>7, <2>1, KnowsLasts DEF ContentFrame
  <2> QED BY <1>1, <1>2, <2>1, <2>2
<1>10. \A p \in Linked(shown.links)' : LinkShown(shown, p)'
  BY <1>1, <1>7 DEF Linked, LinkShown, On
<1>11. /\ shown' \in ShownTables /\ shownTimes' \subseteq ProductTimes' \cup StoreTimes'
       /\ shownRevisions' \subseteq Revisions'
       /\ RevisionShown(shown, shownRevisions)' /\ KnowsStore(shownTimes, shown.store)'
  BY <1>1, <1>2, <1>4, <1>7, <1>8 DEF Revisions
<1>12. ShownInv'
  BY <1>9, <1>10, <1>11 DEF ShownInv
<1> QED BY <1>3, <1>12 DEF ContentInv, ContentFrame

\* and every step of the system keeps all of this.
LEMMA ContentStays ==
  ASSUME ContentInv, StoreLogInv', LogExtends, UNCHANGED contentVars
  PROVE  ContentInv'
<1>1. UNCHANGED <<content, submitted, contentLog, applying, applied>>
      /\ UNCHANGED <<shown, shownTimes, shownRevisions>>
  BY DEF contentVars
<1> QED BY <1>1, RequestFrame, SellerFrame, ApplyingFrame, ShownFrame DEF ContentInv, Revisions

LEMMA ContentStep == ASSUME ContentInv, [Next]_vars PROVE ContentInv'
<1>1. CASE StorefrontNext /\ UNCHANGED contentVars
  BY <1>1, StorefrontStep, LogLasts, ContentStays DEF ContentInv
<1>2. CASE UNCHANGED storefrontVars /\ UNCHANGED contentVars
  BY <1>2, StorefrontStays, LogLasts, ContentStays DEF ContentInv
<1>3. CASE ContentNext /\ UNCHANGED storefrontVars
  <2>1. ContentFrame
    BY <1>3, StorefrontStays, LogLasts DEF ContentInv, ContentFrame
  <2> QED BY <1>3, <2>1, SubmitStep, CommitContentStep, BeginApplyStep, ShowEventStep,
             CommitApplyStep, AbandonApplyStep, ShowRevisionStep DEF ContentNext
<1>4. CASE UNCHANGED vars
  BY <1>2, <1>4 DEF vars
<1> QED BY <1>1, <1>2, <1>3, <1>4 DEF Next

LEMMA ContentStarts == ASSUME Init PROVE ContentInv
<1>1. StoreLogInv
  BY StorefrontStarts DEF Init
<1>2. Unknown \in ProductState /\ NoLinks \in Links /\ Linked(NoLinks) = {}
      /\ NoLinks \in [Products -> {"NONE", "ON", "OFF"}]
  BY DEF Unknown, ProductState, NoLinks, Links, Linked
<1>3. RequestInv
  BY DEF Init, ContentInit, NoRequest, RequestInv
<1>4. SellerInv
  <2>1. content \in ContentTables /\ content.links = NoLinks
        /\ \A p \in Products : content.state[p] = Unknown
    BY <1>2 DEF Init, ContentInit, ContentTables
  <2>2. applied = {} /\ contentLog = <<>>
    BY DEF Init, ContentInit
  <2> QED BY <1>2, <2>1, <2>2 DEF SellerInv, Knows, NoneIn, Revisions
<1>5. ApplyingInv
  <2>1. Idle \in [time : Nat, others : BOOLEAN]
    BY DEF Idle
  <2> QED BY <2>1 DEF Init, ContentInit, ApplyingInv
<1>6. ShownInv
  <2>1. /\ shown \in ShownTables /\ shown.links = NoLinks /\ shown.revision = 0
        /\ shown.store = NoStore /\ \A p \in Products : shown.state[p] = Unknown
    BY <1>2 DEF Init, ContentInit, ShownTables, NoStore
  <2>2. shownTimes = {} /\ shownRevisions = {}
    BY DEF Init, ContentInit
  <2> QED BY <1>2, <2>1, <2>2 DEF ShownInv, Knows, KnowsStore, NoneIn, RevisionShown
<1> QED BY <1>1, <1>3, <1>4, <1>5, <1>6 DEF ContentInv

\* Who knows all of a product's events knows whether it is published.
LEMMA KnowsAll ==
  ASSUME StoreLogInv, NEW p \in Products, NEW S, S \subseteq Times, NEW state,
         Knows(S, p, state), \A t \in ProductTimes : t \in S,
         \A t \in S : t \in ProductTimes \/ t \in StoreTimes, WasPublished(p)
  PROVE  state.active = (product[p].state = "PUBLISHED")
<1>1. PICK t \in ProductTimes : Of(p, t)
  BY DEF WasPublished
<1>2. PICK u \in S : NewestIn(S, p, u) /\ state = StateOf(log[u])
  BY <1>1 DEF Knows, NoneIn
<1>3. \A w \in Times : Of(p, w) => ~Of(Store, w)
  BY StorefrontAssumption DEF Of
<1>4. PICK w \in Times : /\ Of(p, w) /\ TellsOfMarket(w)
                         /\ Opens(w) <=> product[p].state = "PUBLISHED"
                         /\ \A v \in Times : Of(p, v) /\ TellsOfMarket(v) => v <= w
  <2>1. t \in Times
    BY <1>1 DEF ProductTimes
  <2> QED BY <1>1, <2>1 DEF StoreLogInv, ToldOfRow
<1>5. w \in ProductTimes
  BY <1>3, <1>4 DEF StoreLogInv, TellsOfMarket, ProductTimes
<1>6. u \in Times /\ Of(p, u) /\ TellsOfMarket(u)
  BY <1>2 DEF NewestIn, TellsOfMarket, ProductTimes, StoreTimes
<1>7. u <= w /\ w <= u
  BY <1>2, <1>4, <1>5, <1>6 DEF NewestIn
<1>8. u = w
  BY <1>6, <1>7, EventTypes
<1>9. Opens(w) <=> log[w].type = "ProductPublished"
  BY <1>5 DEF Opens, Opening, ProductTimes, ProductEvents
<1> QED BY <1>2, <1>4, <1>8, <1>9 DEF StateOf

LEMMA KnowsAllOfStore ==
  ASSUME StoreLogInv, NEW S, S \subseteq Times, NEW row, KnowsStore(S, row),
         \A t \in StoreTimes : t \in S
  PROVE  row.published = (store.status = "PUBLISHED")
<1>1. \A t \in Times : Of(Store, t) => t \in S /\ TellsOfMarket(t)
  BY DEF StoreLogInv, StoreTimes, TellsOfMarket
<1>2. PICK public : public = (store.status = "PUBLISHED")
  OBVIOUS
<1>3. ToldOfRow(Store, store, public)
  BY <1>2 DEF StoreLogInv
<1>4. CASE NoneIn(S, Store) /\ row = NoStore
  <2>1. \A t \in Times : ~Of(Store, t)
    BY <1>1, <1>4 DEF NoneIn
  <2> QED BY <1>2, <1>3, <1>4, <2>1 DEF ToldOfRow, NoStore
<1>5. ASSUME NEW u \in S, NewestIn(S, Store, u), row = StoreStateOf(log[u])
      PROVE  row.published = (store.status = "PUBLISHED")
  <2>1. u \in Times /\ Of(Store, u)
    BY <1>5 DEF NewestIn
  <2>2. PICK w \in Times : /\ Of(Store, w) /\ TellsOfMarket(w)
                           /\ Opens(w) <=> public
                           /\ \A v \in Times : Of(Store, v) /\ TellsOfMarket(v) => v <= w
    BY <1>3, <2>1 DEF ToldOfRow
  <2>3. u <= w /\ w <= u
    BY <1>1, <1>5, <2>1, <2>2 DEF NewestIn
  <2>4. u = w
    BY <2>1, <2>3, EventTypes
  <2>5. Opens(w) <=> log[w].type = "StorePublished"
    BY <2>2 DEF StoreLogInv, Opens, Opening, StoreEvents
  <2> QED BY <1>2, <1>5, <2>2, <2>4, <2>5 DEF StoreStateOf
<1> QED BY <1>4, <1>5 DEF KnowsStore

LEMMA ContentAgrees == ASSUME ContentInv PROVE LinksAgree
<1>1. /\ StoreLogInv /\ shownTimes \subseteq Times
      /\ \A t \in shownTimes : t \in ProductTimes \/ t \in StoreTimes
  BY DEF ContentInv, ShownInv, ProductTimes, StoreTimes
<1>2. \A p \in Linked(shown.links) :
         /\ p \in Products /\ shown.links[p] = On(shown.state[p].active)
         /\ Knows(shownTimes, p, shown.state[p])
  BY DEF ContentInv, ShownInv, Linked, LinkShown
<1>3. ASSUME NEW p \in Linked(shown.links), {t \in shownTimes : log[t].subject = p} # {}
      PROVE  (shown.links[p] = "ON")
               = (log[Max({t \in shownTimes : log[t].subject = p})].type = "ProductPublished")
  <2> DEFINE known == {t \in shownTimes : log[t].subject = p}
  <2>1. PICK u \in shownTimes : /\ NewestIn(shownTimes, p, u)
                                /\ shown.state[p] = StateOf(log[u])
    BY <1>2, <1>3 DEF Knows, NoneIn, Of
  <2>2. u \in known /\ (\A v \in known : v <= u) /\ \A v \in known : v \in Nat
    BY <1>1, <2>1, EventTypes DEF NewestIn, Of
  <2>3. \A x \in known : (\A y \in known : x >= y) => x = u
    BY <2>2
  <2>4. \A y \in known : u >= y
    BY <2>2
  <2>5. Max(known) = u
    <3> HIDE DEF known
    <3> QED BY <2>2, <2>3, <2>4 DEF Max
  <2>6. shown.links[p] = "ON" <=> log[u].type = "ProductPublished"
    <3>1. shown.state[p].active = (log[u].type = "ProductPublished")
      BY <2>1 DEF StateOf
    <3>2. shown.links[p] = IF shown.state[p].active THEN "ON" ELSE "OFF"
      BY <1>2 DEF On
    <3> QED BY <3>1, <3>2
  <2> QED BY <2>5, <2>6
<1>4. ASSUME ProductTimes \cup StoreTimes = shownTimes, Revisions = shownRevisions
      PROVE  /\ shown.store.published = (store.status = "PUBLISHED")
             /\ contentLog # <<>> => Linked(shown.links) = Last(contentLog)
             /\ \A p \in Linked(shown.links) :
                  (shown.links[p] = "ON") = (product[p].state = "PUBLISHED")
  <2>1. shown.store.published = (store.status = "PUBLISHED")
    <3>1. KnowsStore(shownTimes, shown.store)
      BY DEF ContentInv, ShownInv
    <3> QED BY <1>1, <1>4, <3>1, KnowsAllOfStore
  <2>2. ASSUME contentLog # <<>> PROVE Linked(shown.links) = Last(contentLog)
    <3>1. contentLog \in Seq(SUBSET Products) /\ Len(contentLog) \in Nat /\ Len(contentLog) >= 1
      BY <2>2 DEF ContentInv, SellerInv
    <3>2. Len(contentLog) \in shownRevisions /\ shownRevisions = 1 .. Len(contentLog)
      BY <1>4, <3>1 DEF Revisions
    <3>3. /\ shown.revision \in shownRevisions /\ Linked(shown.links) = contentLog[shown.revision]
          /\ \A r \in shownRevisions : r <= shown.revision
      BY <3>2 DEF ContentInv, ShownInv, RevisionShown
    <3>4. shown.revision = Len(contentLog)
      BY <3>1, <3>2, <3>3
    <3> QED BY <3>3, <3>4 DEF Last
  <2>3. ASSUME NEW p \in Linked(shown.links)
        PROVE  (shown.links[p] = "ON") = (product[p].state = "PUBLISHED")
    <3>1. WasPublished(p)
      <4>1. p \in contentLog[shown.revision] /\ shown.revision \in Revisions
        BY DEF ContentInv, ShownInv, RevisionShown
      <4> QED BY <4>1 DEF ContentInv, SellerInv
    <3>2. shown.state[p].active = (product[p].state = "PUBLISHED")
      BY <1>1, <1>2, <1>4, <3>1, KnowsAll
    <3> QED BY <1>2, <3>2 DEF On
  <2> QED BY <2>1, <2>2, <2>3
<1>5. ASSUME Settled, NEW p \in Linked(content.links)
      PROVE  (content.links[p] = "ON") = (product[p].state = "PUBLISHED")
  <2>1. applied = ProductTimes /\ applied \subseteq Times
    BY <1>5 DEF Settled, ProductTimes
  <2>2. ~Lags(p, content.state[p])
    BY <2>1 DEF Lags
  <2>3. p \in Products /\ WasPublished(p) /\ content.links[p] = On(content.state[p].active)
        /\ Knows(applied, p, content.state[p])
    BY <2>2 DEF ContentInv, SellerInv, Linked
  <2>4. content.state[p].active = (product[p].state = "PUBLISHED")
    BY <1>1, <2>1, <2>3, KnowsAll
  <2> QED BY <2>3, <2>4 DEF On
<1> QED BY <1>3, <1>4, <1>5 DEF LinksAgree

\* The seller's and the public's tables of a content follow the storefront's log:
\* each state is that of the newest event that was done, and each link is as its
\* state wants it or has a newer event before it.
THEOREM ContentFollowsLog == Spec => []ContentInv
<1>1. Init => ContentInv
  BY ContentStarts
<1>2. ContentInv /\ [Next]_vars => ContentInv'
  BY ContentStep
<1> QED BY <1>1, <1>2, PTL DEF Spec

\* No content is shown with a product whose withdrawal is known, and when a consumer
\* has done all its events its links are those of the last revision, each active
\* exactly while its product is published.
THEOREM LinksAreRight == Spec => []LinksAgree
<1>1. ContentInv => LinksAgree
  BY ContentAgrees
<1> QED BY <1>1, ContentFollowsLog, PTL
-----------------------------------------------------------------------------
(***************************************************************************)
(* What the log tells of prices and stock.                                 *)
(***************************************************************************)
Begun(p, t) == Of(p, t) /\ log[t].type = "ProductPublished"

\* An event tells of a publication that has begun, and no more than the row holds.
PriceTold(p, t) ==
  /\ log[t].offer <= product[p].offer /\ log[t].stock <= product[p].stock
  /\ \E s \in Times : Begun(p, s) /\ log[s].publication = log[t].publication

PricesInv ==
  \A p \in Products : \A t \in Times : Of(p, t) =>
    /\ PriceTold(p, t)
    /\ \A s \in Times : Of(p, s) /\ s < t =>
         log[s].offer <= log[t].offer /\ log[s].stock <= log[t].stock

\* Event e tells of its product what the new row holds, while that is public.
TellsPrices(e) ==
  \A p \in Products : e.subject = p =>
    /\ e.offer = product'[p].offer /\ e.stock = product'[p].stock
    /\ \/ e.type = "ProductPublished"
       \/ product[p].state = "PUBLISHED" /\ e.publication = product[p].publication

PricesRise ==
  /\ product \in [Products -> ProductRow] /\ product' \in [Products -> ProductRow]
  /\ \A p \in Products :
       product[p].offer <= product'[p].offer /\ product[p].stock <= product'[p].stock

LEMMA PriceTypes ==
  ASSUME StoreLogInv, NEW t \in Times
  PROVE  log[t].offer \in Nat /\ log[t].stock \in Nat
BY EventTypes DEF Event

LEMMA PricesStay ==
  ASSUME StoreLogInv, PricesInv, PricesRise, LogExtends, log' = log
  PROVE  PricesInv'
<1>1. Times' = Times /\ \A p, t : (Of(p, t)' <=> Of(p, t)) /\ (Begun(p, t)' <=> Begun(p, t))
  BY DEF Times, Of, Begun
<1>2. ASSUME NEW p \in Products, NEW t \in Times, Of(p, t) PROVE PriceTold(p, t)'
  <2>1. /\ product[p].offer \in Nat /\ product'[p].offer \in Nat
        /\ product[p].stock \in Nat /\ product'[p].stock \in Nat
    BY DEF PricesRise, ProductRow
  <2>2. PriceTold(p, t)
    BY <1>2 DEF PricesInv
  <2> QED BY <1>1, <2>1, <2>2, PriceTypes DEF PricesRise, PriceTold
<1> QED BY <1>1, <1>2 DEF PricesInv

LEMMA PricesTold ==
  ASSUME StoreLogInv, PricesInv, PricesRise, NEW e \in Event, log' = Append(log, e),
         TellsPrices(e)
  PROVE  PricesInv'
<1>1. PICK n : n = Len(log) + 1
  OBVIOUS
<1>2. /\ Times' = Times \cup {n} /\ n \notin Times /\ n \in Nat
      /\ \A t \in Times : t < n /\ log'[t] = log[t]
      /\ log'[n] = e
  BY <1>1, StoreLogGrows
<1>3. \A p, t : t \in Times => (Of(p, t)' <=> Of(p, t)) /\ (Begun(p, t)' <=> Begun(p, t))
  BY <1>2 DEF Of, Begun
<1>4. ASSUME NEW p \in Products, NEW t \in Times, Of(p, t)
      PROVE  /\ PriceTold(p, t)'
             /\ log[t].offer <= product'[p].offer /\ log[t].stock <= product'[p].stock
  <2>1. /\ product[p].offer \in Nat /\ product'[p].offer \in Nat
        /\ product[p].stock \in Nat /\ product'[p].stock \in Nat
    BY DEF PricesRise, ProductRow
  <2>2. PriceTold(p, t)
    BY <1>4 DEF PricesInv
  <2>3. log[t].offer <= product'[p].offer /\ log[t].stock <= product'[p].stock
    BY <2>1, <2>2, PriceTypes DEF PricesRise, PriceTold
  <2>4. PICK s \in Times : Begun(p, s) /\ log[s].publication = log[t].publication
    BY <2>2 DEF PriceTold
  <2>5. s \in Times' /\ Begun(p, s)' /\ log'[s].publication = log'[t].publication
    BY <1>2, <1>3, <2>4
  <2> QED BY <1>2, <2>3, <2>5 DEF PriceTold
<1>5. ASSUME NEW p \in Products, Of(p, n)'
      PROVE  /\ PriceTold(p, n)'
             /\ \A s \in Times : Of(p, s) => log[s].offer <= e.offer /\ log[s].stock <= e.stock
  <2>1. e.subject = p
    BY <1>2, <1>5 DEF Of
  <2>2. /\ e.offer = product'[p].offer /\ e.stock = product'[p].stock
        /\ \/ e.type = "ProductPublished"
           \/ product[p].state = "PUBLISHED" /\ e.publication = product[p].publication
    BY <2>1 DEF TellsPrices
  <2>3. \E s \in Times' : Begun(p, s)' /\ log'[s].publication = log'[n].publication
    <3>1. CASE e.type = "ProductPublished"
      BY <1>2, <1>5, <3>1 DEF Begun
    <3>2. CASE product[p].state = "PUBLISHED" /\ e.publication = product[p].publication
      <4>1. PICK s \in Times : /\ Of(p, s) /\ TellsOfMarket(s) /\ Opens(s)
                               /\ log[s].publication = product[p].publication
        BY <3>2 DEF StoreLogInv, ToldOfRow
      <4>2. log[s].type \notin StoreEvents
        BY <4>1, StorefrontAssumption DEF StoreLogInv, Of
      <4>3. Begun(p, s)
        BY <4>1, <4>2 DEF Begun, Opens, Opening, StoreEvents
      <4> QED BY <1>2, <1>3, <3>2, <4>1, <4>3
    <3> QED BY <2>2, <3>1, <3>2
  <2>4. e.offer <= product'[p].offer /\ e.stock <= product'[p].stock
    BY <2>2 DEF PricesRise, ProductRow
  <2> QED BY <1>2, <1>4, <2>2, <2>3, <2>4 DEF PriceTold
<1>6. ASSUME NEW p \in Products, NEW t \in Times', Of(p, t)'
      PROVE  /\ PriceTold(p, t)'
             /\ \A s \in Times' : Of(p, s)' /\ s < t =>
                  log'[s].offer <= log'[t].offer /\ log'[s].stock <= log'[t].stock
  <2>1. CASE t = n
    <3>1. /\ PriceTold(p, n)'
          /\ \A s \in Times : Of(p, s) => log[s].offer <= e.offer /\ log[s].stock <= e.stock
      BY <1>5, <1>6, <2>1
    <3>2. \A s \in Times' : Of(p, s)' /\ s < n => s \in Times /\ Of(p, s)
      BY <1>2, <1>3
    <3> QED BY <1>2, <2>1, <3>1, <3>2
  <2>2. CASE t # n
    <3>1. t \in Times /\ Of(p, t) /\ t \in Nat
      BY <1>2, <1>3, <1>6, <2>2, EventTypes
    <3>2. \A s \in Times' : s < t => s \in Times
      BY <1>2, <3>1
    <3>3. ASSUME NEW s \in Times', Of(p, s)', s < t
          PROVE  log'[s].offer <= log'[t].offer /\ log'[s].stock <= log'[t].stock
      <4>1. s \in Times /\ Of(p, s) /\ log'[s] = log[s] /\ log'[t] = log[t]
        BY <1>2, <1>3, <3>1, <3>2, <3>3
      <4> QED BY <3>1, <3>3, <4>1 DEF PricesInv
    <3> QED BY <1>4, <3>1, <3>3
  <2> QED BY <2>1, <2>2
<1> QED BY <1>6 DEF PricesInv

\* A product changes, and an event may tell it.
LEMMA ProductPrices ==
  ASSUME StoreLogInv, StoreLogInv', PricesInv, LogExtends, NEW p \in Products, NEW q \in ProductRow,
         product' = [product EXCEPT ![p] = q],
         product[p].offer <= q.offer, product[p].stock <= q.stock, NEW type,
         \/ log' = log
         \/ /\ log' = Append(log, ProductEvent(type, p, q))
            /\ \/ type = "ProductPublished"
               \/ product[p].state = "PUBLISHED" /\ q.publication = product[p].publication
  PROVE  PricesInv'
<1>1. /\ product \in [Products -> ProductRow] /\ product' \in [Products -> ProductRow]
      /\ product'[p] = q /\ \A o \in Products \ {p} : product'[o] = product[o]
  BY DEF StoreLogInv
<1>2. PricesRise
  <2>1. ASSUME NEW o \in Products
        PROVE  product[o].offer <= product'[o].offer /\ product[o].stock <= product'[o].stock
    <3>1. CASE o = p
      BY <1>1, <3>1
    <3>2. CASE o # p
      <4>1. product[o].offer \in Nat /\ product[o].stock \in Nat
        BY <1>1 DEF ProductRow
      <4> QED BY <1>1, <3>2, <4>1
    <3> QED BY <3>1, <3>2
  <2> QED BY <1>1, <2>1 DEF PricesRise
<1>3. CASE log' = log
  BY <1>2, <1>3, PricesStay
<1>4. ASSUME log' = Append(log, ProductEvent(type, p, q)),
             \/ type = "ProductPublished"
             \/ product[p].state = "PUBLISHED" /\ q.publication = product[p].publication
      PROVE  PricesInv'
  <2>1. PICK e : e = ProductEvent(type, p, q)
    OBVIOUS
  <2>2. /\ e.subject = p /\ e.offer = q.offer /\ e.stock = q.stock /\ e.type = type
        /\ e.publication = q.publication
    BY <2>1 DEF ProductEvent
  <2>3. e \in Event
    <3>1. log' \in Seq(Event) /\ log \in Seq(Event) /\ log' = Append(log, e)
      BY <1>4, <2>1 DEF StoreLogInv
    <3>2. log'[Len(log) + 1] = e /\ Len(log) + 1 \in 1 .. Len(log')
      BY <3>1
    <3> QED BY <3>1, <3>2
  <2>4. TellsPrices(e)
    BY <1>1, <1>4, <2>2 DEF TellsPrices
  <2> QED BY <1>2, <1>4, <2>1, <2>3, <2>4, PricesTold
<1> QED BY <1>3, <1>4

LEMMA PricesStep ==
  ASSUME StoreLogInv, PricesInv, StorefrontNext
  PROVE  PricesInv'
<1>1. StoreLogInv' /\ LogExtends
  BY StorefrontStep, LogLasts
<1>2. ASSUME product' = product PROVE PricesRise
  BY <1>2 DEF PricesRise, StoreLogInv, ProductRow
<1>3. ASSUME product' = product, NEW e, log' = Append(log, e), e.subject = Store PROVE PricesInv'
  <2>1. TellsPrices(e)
    BY <1>3, StorefrontAssumption DEF TellsPrices
  <2>2. e \in Event
    <3>1. log' \in Seq(Event) /\ log \in Seq(Event) /\ log' = Append(log, e)
      BY <1>1, <1>3 DEF StoreLogInv
    <3>2. log'[Len(log) + 1] = e /\ Len(log) + 1 \in 1 .. Len(log')
      BY <3>1
    <3> QED BY <3>1, <3>2
  <2> QED BY <1>2, <1>3, <2>1, <2>2, PricesTold
<1>4. CASE SaveStoreDraft
  <2>1. CASE log' = log
    BY <1>1, <1>2, <1>4, <2>1, PricesStay DEF SaveStoreDraft
  <2>2. CASE log' # log
    <3>1. \E row : log' = Append(log, StoreEvent("StoreUnpublished", row)) /\ product' = product
      BY <1>4, <2>2 DEF SaveStoreDraft, Stored
    <3> QED BY <1>3, <3>1 DEF StoreEvent
  <2> QED BY <2>1, <2>2
<1>5. CASE PublishStore
  <2>1. \E row : log' = Append(log, StoreEvent("StorePublished", row)) /\ product' = product
    BY <1>5 DEF PublishStore, Stored
  <2> QED BY <1>3, <2>1 DEF StoreEvent
<1>6. ASSUME NEW p \in Products, BeginPublishProduct(p) PROVE PricesInv'
  BY <1>1, <1>2, <1>6, PricesStay DEF BeginPublishProduct
<1>7. ASSUME NEW p \in Products
      PROVE  /\ Revised(p) \in ProductRow /\ Revised(p).state = product[p].state
             /\ Revised(p).publication = product[p].publication
             /\ Revised(p).offer = product[p].offer /\ Revised(p).stock = product[p].stock
             /\ product[p].offer \in Nat /\ product[p].stock \in Nat
  BY RevisedRow DEF StoreLogInv, ProductRow
<1>8. ASSUME NEW p \in Products, PublishProduct(p) PROVE PricesInv'
  <2> DEFINE q == [Revised(p) EXCEPT !.state = "PUBLISHED", !.publication = @ + 1]
  <2>1. q \in ProductRow /\ q.offer = product[p].offer /\ q.stock = product[p].stock
    <3>1. PICK v, z : v = Revised(p) /\ z = q
      OBVIOUS
    <3>2. z = [v EXCEPT !.state = "PUBLISHED", !.publication = @ + 1]
      BY <3>1
    <3> HIDE DEF q
    <3>3. v \in ProductRow /\ v.offer = product[p].offer /\ v.stock = product[p].stock
      BY <1>7, <3>1
    <3>4. z \in ProductRow /\ z.offer = v.offer /\ z.stock = v.stock
      BY <3>2, <3>3, PublishedProduct
    <3> QED BY <3>1, <3>3, <3>4
  <2> HIDE DEF q
  <2>2. CASE product[p].revision = publishing[p]
    <3>1. product' = [product EXCEPT ![p] = q] /\ log' = Append(log, ProductEvent("ProductPublished", p, q))
      BY <1>8, <2>2 DEF PublishProduct, Stored, q
    <3>2. product[p].offer <= q.offer /\ product[p].stock <= q.stock
      BY <1>7, <2>1
    <3> QED BY <1>1, <2>1, <3>1, <3>2, ProductPrices
  <2>3. CASE product[p].revision # publishing[p]
    BY <1>1, <1>2, <1>8, <2>3, PricesStay DEF PublishProduct
  <2> QED BY <2>2, <2>3
<1>9. ASSUME NEW p \in Products, UnpublishProduct(p) PROVE PricesInv'
  <2> DEFINE q == [Revised(p) EXCEPT !.state = "UNPUBLISHED"]
  <2>1. /\ q \in ProductRow /\ q.offer = product[p].offer /\ q.stock = product[p].stock
        /\ q.publication = product[p].publication
    <3>1. PICK v : v = Revised(p)
      OBVIOUS
    <3> QED BY <3>1, <1>7 DEF ProductRow
  <2> HIDE DEF q
  <2>2. /\ product' = [product EXCEPT ![p] = q] /\ product[p].state = "PUBLISHED"
        /\ log' = Append(log, ProductEvent("ProductUnpublished", p, q))
    BY <1>9 DEF UnpublishProduct, Stored, q
  <2>3. product[p].offer <= q.offer /\ product[p].stock <= q.stock
    BY <1>7, <2>1
  <2> QED BY <1>1, <2>1, <2>2, <2>3, ProductPrices
<1>10. ASSUME NEW p \in Products, NEW type, NEW q \in ProductRow, NEW told, Changed(p, type, q, told),
              q.publication = product[p].publication,
              product[p].offer <= q.offer, product[p].stock <= q.stock
       PROVE  PricesInv'
  <2>1. product' = [product EXCEPT ![p] = q]
    BY <1>10 DEF Changed
  <2>2. \/ log' = log
        \/ /\ log' = Append(log, ProductEvent(type, p, q))
           /\ product[p].state = "PUBLISHED" /\ q.publication = product[p].publication
    BY <1>10 DEF Changed, Stored
  <2> QED BY <1>1, <1>10, <2>1, <2>2, ProductPrices
<1>11. ASSUME NEW p \in Products, ReplaceOffers(p) PROVE PricesInv'
  <2> DEFINE q == [Revised(p) EXCEPT !.offer = @ + 1]
  <2>1. /\ q \in ProductRow /\ product[p].offer <= q.offer /\ product[p].stock <= q.stock
        /\ q.publication = product[p].publication
    <3>1. PICK v : v = Revised(p)
      OBVIOUS
    <3> QED BY <3>1, <1>7 DEF ProductRow
  <2> HIDE DEF q
  <2>2. Changed(p, "VariantPriceChanged", q, TRUE)
    BY <1>11 DEF ReplaceOffers, q
  <2> QED BY <1>10, <2>1, <2>2
<1>12. ASSUME NEW p \in Products, ReplaceInventory(p) PROVE PricesInv'
  <2> DEFINE q == [Revised(p) EXCEPT !.stock = @ + 1]
  <2>1. /\ q \in ProductRow /\ product[p].offer <= q.offer /\ product[p].stock <= q.stock
        /\ q.publication = product[p].publication
    <3>1. PICK v : v = Revised(p)
      OBVIOUS
    <3> QED BY <3>1, <1>7 DEF ProductRow
  <2> HIDE DEF q
  <2>2. PICK flips \in BOOLEAN : Changed(p, "VariantAvailabilityChanged", q, flips)
    BY <1>12 DEF ReplaceInventory, q
  <2> QED BY <1>10, <2>1, <2>2
<1>13. ASSUME NEW p \in Products, ReplaceWorkingCopy(p) PROVE PricesInv'
  <2>1. PICK offer \in {product[p].offer, product[p].offer + 1} :
          product' = [product EXCEPT ![p] = [Revised(p) EXCEPT !.offer = offer]] /\ log' = log
    BY <1>13 DEF ReplaceWorkingCopy
  <2> DEFINE q == [Revised(p) EXCEPT !.offer = offer]
  <2>2. q \in ProductRow /\ product[p].offer <= q.offer /\ product[p].stock <= q.stock
    <3>1. PICK v : v = Revised(p)
      OBVIOUS
    <3> QED BY <3>1, <1>7 DEF ProductRow
  <2> QED BY <1>1, <2>1, <2>2, ProductPrices DEF q
<1> QED BY <1>4, <1>5, <1>6, <1>8, <1>9, <1>11, <1>12, <1>13 DEF StorefrontNext
-----------------------------------------------------------------------------
(***************************************************************************)
(* What the feed's handlers make of its tables.                            *)
(***************************************************************************)
FeedTables == [store : StoreFeedRow, row : [Products -> FeedRow], buffer : SUBSET BufferRow]

\* Tables d are f with row r of p and with buffers B.
Becomes(f, p, r, B, d) ==
  /\ d \in FeedTables /\ d.store = f.store /\ d.buffer = B
  /\ d.row[p] = r /\ \A q \in Products \ {p} : d.row[q] = f.row[q]

LEMMA WithRowBecomes ==
  ASSUME NEW f \in FeedTables, NEW p \in Products, NEW r \in FeedRow
  PROVE  Becomes(f, p, r, f.buffer, WithRow(f, p, r))
<1>1. PICK rows, d : rows = [f.row EXCEPT ![p] = r] /\ d = WithRow(f, p, r)
  OBVIOUS
<1>2. f.row \in [Products -> FeedRow]
  BY DEF FeedTables
<1>3. /\ rows \in [Products -> FeedRow] /\ rows[p] = r
      /\ \A q \in Products \ {p} : rows[q] = f.row[q]
  BY <1>1, <1>2
<1>4. d = [f EXCEPT !.row = rows]
  BY <1>1, Zenon DEF WithRow
<1>5. d = [store |-> f.store, row |-> rows, buffer |-> f.buffer]
  BY <1>4 DEF FeedTables
<1>6. d \in FeedTables /\ d.store = f.store /\ d.row = rows /\ d.buffer = f.buffer
  BY <1>3, <1>5 DEF FeedTables
<1> QED BY <1>1, <1>3, <1>6 DEF Becomes

\* Two buffers for the same product, publication and kind.
Kin(b, c) == b.product = c.product /\ b.publication = c.publication /\ b.kind = c.kind
NoTwins(B) == \A b, c \in B : Kin(b, c) => b = c

\* Buffers B with new noted are C: the newest of its kin is kept.
Noted(B, new, C) ==
  /\ C \subseteq B \cup {new}
  /\ \A b \in B : \E c \in C : Kin(b, c) /\ c.version >= b.version
  /\ \E c \in C : Kin(new, c) /\ c.version >= new.version
  /\ NoTwins(C)

LEMMA BufferedBecomes ==
  ASSUME NEW f \in FeedTables, NEW p \in Products, NEW publication \in Nat,
         NEW kind \in {"OFFER", "AVAILABILITY", "PUBLICATION"}, NEW version \in Nat,
         NoTwins(f.buffer), NEW new,
         new = [product |-> p, publication |-> publication, kind |-> kind, version |-> version]
  PROVE  \E B : /\ Noted(f.buffer, new, B)
                /\ Becomes(f, p, f.row[p], B, Buffered(f, p, publication, kind, version))
<1> DEFINE same == {b \in f.buffer :
                     b.product = p /\ b.publication = publication /\ b.kind = kind}
           kept == {b \in same : b.version > version}
           B == (f.buffer \ same) \cup (IF kept = {} THEN {new} ELSE kept)
<1>1. f.buffer \subseteq BufferRow /\ new \in BufferRow
  BY DEF FeedTables, BufferRow
<1>2. \A b \in f.buffer \cup {new} : b.version \in Nat
  BY <1>1 DEF BufferRow
<1>3. /\ new.product = p /\ new.publication = publication /\ new.kind = kind
      /\ new.version = version
  OBVIOUS
<1>4. \A b \in f.buffer : b \in same <=> Kin(b, new)
  BY <1>3 DEF Kin
<1>5. B \subseteq f.buffer \cup {new} /\ B \in SUBSET BufferRow
  BY <1>1
<1>6. NoTwins(B)
  <2>1. CASE kept = {}
    <3>1. B = (f.buffer \ same) \cup {new}
      BY <2>1
    <3> HIDE DEF B, kept, same
    <3>2. ASSUME NEW b \in B, NEW c \in B, Kin(b, c) PROVE b = c
      <4>1. CASE b \in f.buffer \ same /\ c \in f.buffer \ same
        BY <3>2, <4>1 DEF NoTwins
      <4>2. CASE b = new /\ c \in f.buffer \ same
        BY <1>4, <3>2, <4>2 DEF Kin
      <4>3. CASE c = new /\ b \in f.buffer \ same
        BY <1>4, <3>2, <4>3 DEF Kin
      <4> QED BY <3>1, <4>1, <4>2, <4>3
    <3> QED BY <3>2 DEF NoTwins
  <2>2. CASE kept # {}
    <3>1. B \subseteq f.buffer
      BY <2>2
    <3> HIDE DEF B, kept, same
    <3> QED BY <3>1 DEF NoTwins
  <2> QED BY <2>1, <2>2
<1>7. \E c \in B : Kin(new, c) /\ c.version >= version
  <2>1. CASE kept = {}
    <3>1. new \in B /\ new.version >= version /\ Kin(new, new)
      BY <1>3, <2>1 DEF Kin
    <3> QED BY <3>1
  <2>2. CASE kept # {}
    <3>1. PICK c \in kept : TRUE
      BY <2>2
    <3>2. c \in B /\ c \in same /\ c \in f.buffer /\ c.version > version
      BY <2>2, <3>1
    <3>3. Kin(new, c)
      BY <1>4, <3>2 DEF Kin
    <3>4. c.version >= version
      BY <1>2, <3>2
    <3> HIDE DEF B
    <3> QED BY <3>2, <3>3, <3>4
  <2> QED BY <2>1, <2>2
<1>8. ASSUME NEW b \in f.buffer PROVE \E c \in B : Kin(b, c) /\ c.version >= b.version
  <2>0. Kin(b, b) /\ b.version >= b.version
    BY <1>2 DEF Kin
  <2>1. CASE b \notin same
    <3>1. b \in B
      BY <2>1
    <3> HIDE DEF B
    <3> QED BY <2>0, <3>1
  <2>2. CASE b \in same /\ kept = {}
    <3>1. new \in B /\ ~(b.version > version)
      BY <2>2
    <3>2. Kin(b, new) /\ new.version >= b.version
      BY <1>2, <1>3, <1>4, <2>2, <3>1
    <3> HIDE DEF B
    <3> QED BY <3>1, <3>2
  <2>3. CASE b \in same /\ kept # {}
    <3>1. PICK c \in kept : TRUE
      BY <2>3
    <3>2. c \in B /\ c \in same /\ c \in f.buffer
      BY <2>3, <3>1
    <3>3. b = c
      BY <1>4, <2>3, <3>2 DEF Kin, NoTwins
    <3> HIDE DEF B
    <3> QED BY <2>0, <3>2, <3>3
  <2> QED BY <2>1, <2>2, <2>3
<1>9. Noted(f.buffer, new, B)
  <2> HIDE DEF B
  <2> QED BY <1>3, <1>5, <1>6, <1>7, <1>8 DEF Noted
<1>10. Becomes(f, p, f.row[p], B, Buffered(f, p, publication, kind, version))
  <2>1. PICK d : d = Buffered(f, p, publication, kind, version)
    OBVIOUS
  <2>2. d = [f EXCEPT !.buffer = B]
    BY <2>1, Zenon DEF Buffered
  <2> HIDE DEF B
  <2>3. d = [store |-> f.store, row |-> f.row, buffer |-> B]
    BY <2>2 DEF FeedTables
  <2>4. d \in FeedTables /\ d.store = f.store /\ d.row = f.row /\ d.buffer = B
    BY <1>5, <2>3 DEF FeedTables
  <2> QED BY <2>1, <2>4 DEF Becomes
<1> HIDE DEF B
<1> QED BY <1>9, <1>10

\* The newest version of a kind, of what is given and what is buffered.
NewestOf(buffers, kind, least) ==
  LET of == {b \in buffers : b.kind = kind /\ b.version > least}
  IN IF of = {} THEN least ELSE (CHOOSE b \in of : TRUE).version

\* Version v is the newest of a kind.
IsNewest(buffers, kind, least, v) ==
  /\ v \in Nat /\ least <= v
  /\ \A b \in buffers : b.kind = kind => b.version <= v
  /\ v = least \/ \E b \in buffers : b.kind = kind /\ b.version = v

LEMMA NewestOfIsNewest ==
  ASSUME NEW B \in SUBSET BufferRow, \A b, c \in B : b.kind = c.kind => b = c,
         NEW kind, NEW least \in Nat
  PROVE  IsNewest(B, kind, least, NewestOf(B, kind, least))
<1> DEFINE of == {b \in B : b.kind = kind /\ b.version > least}
<1>1. PICK v : v = NewestOf(B, kind, least)
  OBVIOUS
<1>2. \A b \in B : b.version \in Nat
  BY DEF BufferRow
<1>3. CASE of = {}
  <2>1. v = least
    BY <1>1, <1>3 DEF NewestOf
  <2>2. \A b \in B : b.kind = kind => b.version <= v
    BY <1>2, <1>3, <2>1
  <2>3. v \in Nat /\ least <= v
    BY <2>1
  <2> HIDE DEF of
  <2> QED BY <1>1, <2>1, <2>2, <2>3 DEF IsNewest
<1>4. CASE of # {}
  <2>1. PICK c : c = CHOOSE b \in of : TRUE
    OBVIOUS
  <2>2. c \in of /\ v = c.version
    BY <1>1, <1>4, <2>1 DEF NewestOf
  <2>3. c \in B /\ c.kind = kind /\ c.version > least
    BY <2>2
  <2>4. v \in Nat /\ least <= v
    BY <1>2, <2>2, <2>3
  <2>5. \A b \in B : b.kind = kind => b.version <= v
    BY <1>2, <2>2, <2>3
  <2> HIDE DEF of
  <2> QED BY <1>1, <2>2, <2>3, <2>4, <2>5 DEF IsNewest
<1> QED BY <1>3, <1>4

\* What the due buffers make of row r is q.
CatchesUp(r, due, q) ==
  /\ q \in FeedRow
  /\ q.publication = r.publication /\ q.first = r.first
  /\ IsNewest(due, "OFFER", r.offer, q.offer)
  /\ IsNewest(due, "AVAILABILITY", r.stock, q.stock)
  /\ IsNewest(due, "PUBLICATION", r.aggregate, q.aggregate)
  /\ q.published <=> r.published /\ q.aggregate = r.aggregate

LEMMA ApplyBufferedApplies ==
  ASSUME NEW B \in SUBSET BufferRow, \A b, c \in B : b.kind = c.kind => b = c,
         NEW r \in FeedRow
  PROVE  CatchesUp(r, B, ApplyBuffered(r, B))
<1>1. PICK o, s, a : /\ o = NewestOf(B, "OFFER", r.offer)
                     /\ s = NewestOf(B, "AVAILABILITY", r.stock)
                     /\ a = NewestOf(B, "PUBLICATION", r.aggregate)
  OBVIOUS
<1>2. /\ r.offer \in Nat /\ r.stock \in Nat /\ r.aggregate \in Nat
      /\ r.published \in BOOLEAN
  BY DEF FeedRow
<1>3. /\ IsNewest(B, "OFFER", r.offer, o) /\ IsNewest(B, "AVAILABILITY", r.stock, s)
      /\ IsNewest(B, "PUBLICATION", r.aggregate, a)
  BY <1>1, <1>2, NewestOfIsNewest
<1>4. PICK q, shows : /\ q = ApplyBuffered(r, B)
                      /\ shows = (r.published /\ a = r.aggregate)
  OBVIOUS
<1>5. q = [r EXCEPT !.offer = o, !.stock = s, !.aggregate = a, !.published = shows]
  <2>1. ApplyBuffered(r, B) =
          [r EXCEPT !.offer = NewestOf(B, "OFFER", r.offer),
                    !.stock = NewestOf(B, "AVAILABILITY", r.stock),
                    !.aggregate = NewestOf(B, "PUBLICATION", r.aggregate),
                    !.published = r.published
                                    /\ NewestOf(B, "PUBLICATION", r.aggregate) = r.aggregate]
    BY Zenon DEF ApplyBuffered, NewestOf
  <2> QED BY <1>1, <1>4, <2>1, Zenon
<1>6. q = [publication |-> r.publication, aggregate |-> a, published |-> shows,
           first |-> r.first, eligible |-> r.eligible, updated |-> r.updated,
           offer |-> o, stock |-> s]
  BY <1>5 DEF FeedRow
<1>7. o \in Nat /\ s \in Nat /\ a \in Nat /\ shows \in BOOLEAN
  BY <1>3, <1>4 DEF IsNewest
<1>8. /\ q \in FeedRow /\ q.publication = r.publication /\ q.first = r.first
      /\ q.offer = o /\ q.stock = s /\ q.aggregate = a
  BY <1>6, <1>7 DEF FeedRow
<1>9. q.published = shows
  BY <1>6
<1>10. q.published <=> r.published /\ q.aggregate = r.aggregate
  BY <1>4, <1>8, <1>9
<1> QED BY <1>3, <1>4, <1>8, <1>10, Zenon DEF CatchesUp

LEMMA VersionsApplied ==
  ASSUME NEW f \in FeedTables, NoTwins(f.buffer), NEW p \in Products, NEW r \in FeedRow,
         NEW due, due = {b \in f.buffer : b.product = p /\ b.publication = r.publication},
         NEW past, past = {b \in f.buffer : b.product = p /\ b.publication <= r.publication},
         NEW k, k = r.publication
  PROVE  \E q : /\ CatchesUp(r, due, q)
                /\ Becomes(f, p, q, f.buffer \ past,
                           ApplyBufferedVersions(WithRow(f, p, r), p, k))
<1>1. PICK g, d, q : /\ g = WithRow(f, p, r) /\ q = ApplyBuffered(r, due)
                     /\ d = ApplyBufferedVersions(g, p, k)
  OBVIOUS
<1>2. Becomes(f, p, r, f.buffer, g)
  BY <1>1, WithRowBecomes
<1>3. g \in FeedTables /\ g.buffer = f.buffer /\ g.row[p] = r /\ g.store = f.store
  BY <1>2 DEF Becomes
<1>4. due \in SUBSET BufferRow /\ \A b, c \in due : b.kind = c.kind => b = c
  BY DEF FeedTables, NoTwins, Kin
<1>5. CatchesUp(r, due, q)
  BY <1>1, <1>4, ApplyBufferedApplies
<1>6. q \in FeedRow
  BY <1>5 DEF CatchesUp
<1>7. PICK rows, B : rows = [g.row EXCEPT ![p] = q] /\ B = f.buffer \ past
  OBVIOUS
<1>8. d = [g EXCEPT !.row[p] = ApplyBuffered(@, due), !.buffer = @ \ past]
  BY <1>1, <1>3, Zenon DEF ApplyBufferedVersions
<1>9. d = [g EXCEPT !.row = rows, !.buffer = B]
  BY <1>1, <1>3, <1>7, <1>8, Zenon
<1>10. d = [store |-> g.store, row |-> rows, buffer |-> B]
  BY <1>3, <1>9 DEF FeedTables
<1>11. /\ rows \in [Products -> FeedRow] /\ rows[p] = q
       /\ \A o \in Products \ {p} : rows[o] = g.row[o]
  BY <1>3, <1>6, <1>7 DEF FeedTables
<1>12. B \in SUBSET BufferRow
  BY <1>7 DEF FeedTables
<1>13. d \in FeedTables /\ d.store = f.store /\ d.row = rows /\ d.buffer = B
  BY <1>3, <1>10, <1>11, <1>12 DEF FeedTables
<1>14. Becomes(f, p, q, B, d)
  BY <1>2, <1>11, <1>13 DEF Becomes
<1> QED BY <1>1, <1>5, <1>7, <1>14
-----------------------------------------------------------------------------
(***************************************************************************)
(* The order of a product's publications.                                  *)
(***************************************************************************)
LEMMA BegunFirst ==
  ASSUME StoreLogInv, NEW p \in Products, NEW s \in Times, NEW t \in Times, Of(p, s), Begun(p, t)
  PROVE  /\ s < t => log[s].publication < log[t].publication
         /\ log[s].publication = log[t].publication
              => t <= s /\ log[t].aggregate <= log[s].aggregate
<1>1. /\ s \in Nat /\ t \in Nat /\ log[s].publication \in Nat /\ log[t].publication \in Nat
      /\ log[s].aggregate \in Nat /\ log[t].aggregate \in Nat
  BY EventTypes
<1>2. log[s].subject = log[t].subject /\ Opens(t)
  BY DEF Begun, Of, Opens, Opening
<1>3. s < t => log[s].publication < log[t].publication
  BY <1>2 DEF StoreLogInv, Ordered
<1>4. t < s => log[t].aggregate < log[s].aggregate
  BY <1>2, LaterIsLarger
<1>5. t = s => log[t].aggregate = log[s].aggregate
  OBVIOUS
<1> QED BY <1>1, <1>3, <1>4, <1>5

\* A product begins each publication once.
LEMMA BegunOnce ==
  ASSUME StoreLogInv, NEW p \in Products, NEW s \in Times, NEW t \in Times,
         Begun(p, s), Begun(p, t), log[s].publication = log[t].publication
  PROVE  s = t
<1>1. t <= s /\ s <= t
  BY BegunFirst DEF Begun
<1> QED BY <1>1, EventTypes

LEMMA LaterPublication ==
  ASSUME StoreLogInv, NEW p \in Products, NEW s \in Times, NEW t \in Times, Of(p, s), Of(p, t),
         log[s].publication < log[t].publication
  PROVE  s < t
<1>1. /\ s \in Nat /\ t \in Nat /\ log[s].publication \in Nat /\ log[t].publication \in Nat
  BY EventTypes
<1>2. log[s].subject = log[t].subject
  BY DEF Of
<1>3. CASE t < s
  <2>1. log[t].publication <= log[s].publication
    BY <1>2, <1>3 DEF StoreLogInv, Ordered
  <2> QED BY <1>1, <2>1
<1>4. CASE s = t
  BY <1>1, <1>4
<1> QED BY <1>1, <1>3, <1>4

LEMMA LaterPrices ==
  ASSUME StoreLogInv, PricesInv, NEW p \in Products, NEW s \in Times, NEW t \in Times,
         Of(p, s), Of(p, t), s <= t
  PROVE  log[s].offer <= log[t].offer /\ log[s].stock <= log[t].stock
<1>1. s \in Nat /\ t \in Nat
  BY EventTypes
<1>2. CASE s = t
  BY <1>2, PriceTypes
<1>3. CASE s < t
  BY <1>3 DEF PricesInv
<1> QED BY <1>1, <1>2, <1>3
-----------------------------------------------------------------------------
(***************************************************************************)
(* What the feed knows of the events it was given.                         *)
(***************************************************************************)
Early == {"ProductUnpublished"} \cup VersionEvents
Kind(e) == IF e.type = "ProductUnpublished" THEN "PUBLICATION"
           ELSE IF e.type = "VariantPriceChanged" THEN "OFFER" ELSE "AVAILABILITY"
Version(e) == IF e.type = "ProductUnpublished" THEN e.aggregate
              ELSE IF e.type = "VariantPriceChanged" THEN e.offer ELSE e.stock

\* Event e is buffered as b,
Bears(e, b) == /\ e.type \in Early /\ e.subject = b.product /\ e.publication = b.publication
               /\ Kind(e) = b.kind /\ Version(e) = b.version

\* or waits behind a newer one of its kin.
Waits(B, e) == \E b \in B : /\ b.product = e.subject /\ b.publication = e.publication
                            /\ b.kind = Kind(e) /\ b.version >= Version(e)

BufferRight(B, S) == NoTwins(B) /\ \A b \in B : \E t \in S : Bears(log[t], b)

\* Event t tells p's price (its availability) by its type.
Sets(p, t, type) == Of(p, t) /\ log[t].type \in {"ProductPublished", type}

Offers == [t \in Times |-> log[t].offer]
Stocks == [t \in Times |-> log[t].stock]

\* A value of row r is the newest that the events of its publication told, while
\* it is published, and otherwise one that was told before.
Tops(S, p, r, value, type, V) ==
  /\ \E s \in S : /\ Sets(p, s, type) /\ V[s] = value /\ log[s].publication <= r.publication
                  /\ r.published => log[s].publication = r.publication
  /\ r.published => \A t \in S : Sets(p, t, type) /\ log[t].publication = r.publication
                                   => V[t] <= value

IsState(p, m, r) ==
  /\ Of(p, m) /\ log[m].type \in ProductEvents
  /\ r.publication = log[m].publication /\ r.aggregate = log[m].aggregate
  /\ r.published <=> log[m].type = "ProductPublished"

\* Row r of p stands for the events of S.
Stands(S, p, r) ==
  /\ \E m \in S : IsState(p, m, r)
  /\ r.first \in S /\ Begun(p, r.first) /\ \A t \in S : Begun(p, t) => r.first <= t
  /\ Tops(S, p, r, r.offer, "VariantPriceChanged", Offers)
  /\ Tops(S, p, r, r.stock, "VariantAvailabilityChanged", Stocks)

\* Row r and the buffers have caught up with event e.
Caught(B, r, e) ==
  /\ e.type = "ProductPublished" => ~Newer(e, r)
  /\ e.type = "ProductUnpublished"
       => \/ ~Newer(e, r)
          \/ Waits(B, e) /\ (r.published => r.publication < e.publication)
  /\ e.type \in VersionEvents => e.publication <= r.publication \/ Waits(B, e)

RowRight(S, B, p, r) ==
  /\ r = NoRow \/ Stands(S, p, r)
  /\ \A t \in S : Of(p, t) => Caught(B, r, log[t])

FeedKnows(f, S) ==
  /\ f \in FeedTables /\ BufferRight(f.buffer, S) /\ KnowsStore(S, f.store)
  /\ \A p \in Products : RowRight(S, f.buffer, p, f.row[p])

\* Row q follows row r and opens no publication.
Follows(r, q) ==
  /\ \/ r.publication < q.publication
     \/ r.publication = q.publication /\ r.aggregate <= q.aggregate
  /\ q.published => r.published /\ r.publication = q.publication

\* What waits in B waits in C.
WaitsOn(B, C, p) == \A e \in Event : e.subject = p /\ Waits(B, e) => Waits(C, e)

LEMMA CaughtLasts ==
  ASSUME NEW B, NEW C, NEW r \in FeedRow, NEW q \in FeedRow, NEW e \in Event,
         WaitsOn(B, C, e.subject), Follows(r, q), Caught(B, r, e)
  PROVE  Caught(C, q, e)
<1>1. /\ e.publication \in Nat /\ e.aggregate \in Nat
      /\ r.publication \in Nat /\ r.aggregate \in Nat
      /\ q.publication \in Nat /\ q.aggregate \in Nat
  BY DEF Event, FeedRow
<1>2. ~Newer(e, r) => ~Newer(e, q)
  BY <1>1 DEF Newer, Follows
<1>3. e.publication <= r.publication => e.publication <= q.publication
  BY <1>1 DEF Follows
<1>4. Waits(B, e) => Waits(C, e)
  BY DEF WaitsOn
<1>5. q.published => r.published /\ r.publication = q.publication
  BY DEF Follows
<1> QED BY <1>2, <1>3, <1>4, <1>5 DEF Caught

\* Event t adds nothing to the values of row r.
Adds(p, r, value, type, V, t) ==
  r.published /\ Sets(p, t, type) /\ log[t].publication = r.publication => V[t] <= value

LEMMA TopsMore ==
  ASSUME NEW S, NEW p, NEW r, NEW value, NEW type, NEW V, Tops(S, p, r, value, type, V),
         NEW t, Adds(p, r, value, type, V, t)
  PROVE  Tops(S \cup {t}, p, r, value, type, V)
BY DEF Tops, Adds

LEMMA StandsMore ==
  ASSUME NEW S, NEW p, NEW r, Stands(S, p, r), NEW t, Begun(p, t) => r.first <= t,
         Adds(p, r, r.offer, "VariantPriceChanged", Offers, t),
         Adds(p, r, r.stock, "VariantAvailabilityChanged", Stocks, t)
  PROVE  Stands(S \cup {t}, p, r)
BY TopsMore DEF Stands

\* A row stays right while others change,
LEMMA RowKept ==
  ASSUME StoreLogInv, NEW S, S \subseteq Times, NEW B, NEW C, NEW p \in Products, NEW r \in FeedRow,
         RowRight(S, B, p, r), NEW t \in Times, ~Of(p, t), WaitsOn(B, C, p)
  PROVE  RowRight(S \cup {t}, C, p, r)
<1>1. r = NoRow \/ Stands(S \cup {t}, p, r)
  <2>1. Adds(p, r, r.offer, "VariantPriceChanged", Offers, t)
        /\ Adds(p, r, r.stock, "VariantAvailabilityChanged", Stocks, t)
    BY DEF Adds, Sets
  <2> QED BY <2>1, StandsMore DEF RowRight, Begun
<1>2. Follows(r, r)
  BY DEF Follows, FeedRow
<1>3. ASSUME NEW u \in S, Of(p, u) PROVE Caught(C, r, log[u])
  <2>1. log[u] \in Event /\ log[u].subject = p /\ Caught(B, r, log[u])
    BY <1>3, EventTypes DEF RowRight, Of
  <2> QED BY <1>2, <2>1, CaughtLasts
<1> QED BY <1>1, <1>3 DEF RowRight

\* so that what remains of a handler is the row it writes.
LEMMA RowSettles ==
  ASSUME StoreLogInv, NEW S, S \subseteq Times, NEW f, FeedKnows(f, S), NEW t \in Times,
         NEW p \in Products, Of(p, t), NEW r, NEW B, NEW d, Becomes(f, p, r, B, d),
         BufferRight(B, S \cup {t}), \A q \in Products \ {p} : WaitsOn(f.buffer, B, q),
         RowRight(S \cup {t}, B, p, r)
  PROVE  FeedKnows(d, S \cup {t})
<1>1. d \in FeedTables /\ d.store = f.store /\ d.buffer = B
  BY DEF Becomes
<1>2. f \in FeedTables /\ KnowsStore(S, f.store)
  BY DEF FeedKnows
<1>3. KnowsStore(S \cup {t}, d.store)
  <2>1. ~Of(Store, t)
    BY StorefrontAssumption DEF Of
  <2> QED BY <1>1, <1>2, <2>1 DEF KnowsStore, NoneIn, NewestIn
<1>4. ASSUME NEW q \in Products PROVE RowRight(S \cup {t}, B, q, d.row[q])
  <2>1. CASE q = p
    BY <2>1 DEF Becomes
  <2>2. CASE q # p
    <3>1. d.row[q] = f.row[q] /\ f.row[q] \in FeedRow
      BY <1>2, <2>2 DEF Becomes, FeedTables
    <3>2. RowRight(S, f.buffer, q, f.row[q]) /\ ~Of(q, t) /\ WaitsOn(f.buffer, B, q)
      BY <2>2 DEF FeedKnows, Of
    <3> QED BY <3>1, <3>2, RowKept
  <2> QED BY <2>1, <2>2
<1> QED BY <1>1, <1>3, <1>4 DEF FeedKnows

LEMMA RowKnown ==
  ASSUME StoreLogInv, NEW S, S \subseteq Times, NEW f, FeedKnows(f, S), NEW p \in Products,
         NEW r, r = f.row[p]
  PROVE  /\ f \in FeedTables /\ r \in FeedRow /\ NoTwins(f.buffer)
         /\ RowRight(S, f.buffer, p, r) /\ BufferRight(f.buffer, S)
         /\ r.publication \in Nat /\ r.aggregate \in Nat /\ r.first \in Nat
         /\ r.offer \in Nat /\ r.stock \in Nat /\ r.published \in BOOLEAN
<1>1. f \in FeedTables /\ RowRight(S, f.buffer, p, r) /\ BufferRight(f.buffer, S)
  BY DEF FeedKnows
<1>2. r \in FeedRow
  BY <1>1 DEF FeedTables
<1> QED BY <1>1, <1>2 DEF BufferRight, FeedRow

LEMMA BuffersStay ==
  ASSUME NEW B, NEW S, BufferRight(B, S), NEW C, C \subseteq B, NEW t
  PROVE  BufferRight(C, S \cup {t})
BY DEF BufferRight, NoTwins

\* A handler that only writes the row of its product,
LEMMA RowChanges ==
  ASSUME StoreLogInv, NEW S, S \subseteq Times, NEW f, FeedKnows(f, S), NEW t \in Times,
         NEW p \in Products, Of(p, t), NEW r, r = f.row[p], NEW q \in FeedRow,
         Stands(S \cup {t}, p, q), Follows(r, q), Caught(f.buffer, q, log[t])
  PROVE  FeedKnows(WithRow(f, p, q), S \cup {t})
<1>1. /\ f \in FeedTables /\ r \in FeedRow /\ RowRight(S, f.buffer, p, r)
      /\ BufferRight(f.buffer, S)
  BY RowKnown
<1>2. Becomes(f, p, q, f.buffer, WithRow(f, p, q))
  BY <1>1, WithRowBecomes
<1>3. \A o : WaitsOn(f.buffer, f.buffer, o)
  BY DEF WaitsOn
<1>4. ASSUME NEW u \in S, Of(p, u) PROVE Caught(f.buffer, q, log[u])
  <2>1. log[u] \in Event /\ Caught(f.buffer, r, log[u])
    BY <1>1, <1>4, EventTypes DEF RowRight
  <2> QED BY <1>1, <1>3, <2>1, CaughtLasts
<1>5. RowRight(S \cup {t}, f.buffer, p, q)
  BY <1>4 DEF RowRight
<1>6. BufferRight(f.buffer, S \cup {t})
  BY <1>1, BuffersStay
<1> QED BY <1>2, <1>3, <1>5, <1>6, RowSettles

\* one that writes nothing,
LEMMA RowStays ==
  ASSUME StoreLogInv, NEW S, S \subseteq Times, NEW f, FeedKnows(f, S), NEW t \in Times,
         NEW p \in Products, Of(p, t), NEW r, r = f.row[p],
         r = NoRow \/ Stands(S \cup {t}, p, r), Caught(f.buffer, r, log[t])
  PROVE  FeedKnows(f, S \cup {t})
<1>1. /\ f \in FeedTables /\ r \in FeedRow /\ RowRight(S, f.buffer, p, r)
      /\ BufferRight(f.buffer, S)
  BY RowKnown
<1>2. Becomes(f, p, r, f.buffer, f)
  BY <1>1 DEF Becomes
<1>3. \A o : WaitsOn(f.buffer, f.buffer, o)
  BY DEF WaitsOn
<1>4. RowRight(S \cup {t}, f.buffer, p, r)
  BY <1>1 DEF RowRight
<1>5. BufferRight(f.buffer, S \cup {t})
  BY <1>1, BuffersStay
<1> QED BY <1>2, <1>3, <1>4, <1>5, RowSettles

\* and one that notes in a buffer what came too early.
LEMMA NotedRight ==
  ASSUME NEW B \in SUBSET BufferRow, NEW S, BufferRight(B, S), NEW new \in BufferRow, NEW C,
         Noted(B, new, C), NEW t, log[t] \in Event, Bears(log[t], new)
  PROVE  /\ BufferRight(C, S \cup {t}) /\ \A p : WaitsOn(B, C, p)
         /\ Waits(C, log[t])
<1>1. \A b \in B \cup C : b.version \in Nat
  BY DEF Noted, BufferRow
<1>2. BufferRight(C, S \cup {t})
  BY DEF Noted, BufferRight
<1>3. ASSUME NEW p, NEW e \in Event, e.subject = p, Waits(B, e) PROVE Waits(C, e)
  <2>1. PICK b \in B : /\ b.product = e.subject /\ b.publication = e.publication
                       /\ b.kind = Kind(e) /\ b.version >= Version(e)
    BY <1>3 DEF Waits
  <2>2. PICK c \in C : Kin(b, c) /\ c.version >= b.version
    BY DEF Noted
  <2>3. Version(e) \in Nat
    BY DEF Version, Event
  <2>4. c.version >= Version(e)
    BY <1>1, <2>1, <2>2, <2>3
  <2> QED BY <2>1, <2>2, <2>4 DEF Waits, Kin
<1>4. Waits(C, log[t])
  <2>1. PICK c \in C : Kin(new, c) /\ c.version >= new.version
    BY DEF Noted
  <2> QED BY <2>1 DEF Waits, Kin, Bears
<1> QED BY <1>2, <1>3, <1>4 DEF WaitsOn

LEMMA BufferedKeeps ==
  ASSUME StoreLogInv, NEW S, S \subseteq Times, NEW f, FeedKnows(f, S), NEW t \in Times,
         NEW p \in Products, Of(p, t), NEW e, e = log[t], e.type \in Early,
         NEW r, r = f.row[p], r = NoRow \/ e.publication > r.publication
  PROVE  FeedKnows(Buffered(f, p, e.publication, Kind(e), Version(e)), S \cup {t})
<1>1. /\ f \in FeedTables /\ r \in FeedRow /\ RowRight(S, f.buffer, p, r)
      /\ BufferRight(f.buffer, S) /\ NoTwins(f.buffer) /\ r.publication \in Nat
  BY RowKnown
<1>2. /\ e \in Event /\ e.publication \in Nat /\ e.subject = p /\ Version(e) \in Nat
      /\ Kind(e) \in {"OFFER", "AVAILABILITY", "PUBLICATION"}
  <2>1. e \in Event /\ e.subject = p
    BY EventTypes DEF Of
  <2> QED BY <2>1 DEF Event, Version, Kind
<1>3. PICK new : new = [product |-> p, publication |-> e.publication, kind |-> Kind(e),
                        version |-> Version(e)]
  OBVIOUS
<1>4. new \in BufferRow /\ Bears(e, new)
  BY <1>2, <1>3 DEF BufferRow, Bears
<1>5. PICK B : /\ Noted(f.buffer, new, B)
               /\ Becomes(f, p, r, B, Buffered(f, p, e.publication, Kind(e), Version(e)))
  BY <1>1, <1>2, <1>3, BufferedBecomes
<1>6. f.buffer \in SUBSET BufferRow
  BY <1>1 DEF FeedTables
<1>7. /\ BufferRight(B, S \cup {t}) /\ \A o : WaitsOn(f.buffer, B, o)
      /\ Waits(B, e)
  BY <1>1, <1>2, <1>4, <1>5, <1>6, NotedRight
<1>8. r = NoRow \/ Stands(S \cup {t}, p, r)
  <2>1. CASE r # NoRow
    <3>1. ~(e.publication = r.publication) /\ Stands(S, p, r) /\ ~Begun(p, t)
      BY <1>1, <1>2, <2>1 DEF RowRight, Begun, Early, VersionEvents
    <3>2. Adds(p, r, r.offer, "VariantPriceChanged", Offers, t)
          /\ Adds(p, r, r.stock, "VariantAvailabilityChanged", Stocks, t)
      BY <3>1 DEF Adds
    <3> QED BY <3>1, <3>2, StandsMore
  <2> QED BY <2>1
<1>9. Follows(r, r)
  BY <1>1 DEF Follows, FeedRow
<1>10. ASSUME NEW u \in S, Of(p, u) PROVE Caught(B, r, log[u])
  <2>1. log[u] \in Event /\ Caught(f.buffer, r, log[u])
    BY <1>1, <1>10, EventTypes DEF RowRight
  <2> QED BY <1>1, <1>7, <1>9, <2>1, CaughtLasts
<1>11. Caught(B, r, e)
  <2>1. r.published => r.publication < e.publication
    BY <1>1, <1>2 DEF NoRow
  <2> QED BY <1>7, <2>1 DEF Caught, Early, VersionEvents
<1>12. RowRight(S \cup {t}, B, p, r)
  BY <1>8, <1>10, <1>11 DEF RowRight
<1> QED BY <1>5, <1>7, <1>12, RowSettles
-----------------------------------------------------------------------------
(***************************************************************************)
(* Events of versions and withdrawals.                                     *)
(***************************************************************************)
LEMMA ToldTypes ==
  ASSUME StoreLogInv, NEW p \in Products, NEW t \in Times, Of(p, t), NEW e, e = log[t]
  PROVE  /\ e \in Event /\ e.subject = p /\ t \in Nat
         /\ e.publication \in Nat /\ e.aggregate \in Nat
         /\ 1 <= e.publication /\ 1 <= e.aggregate
         /\ e.offer \in Nat /\ e.stock \in Nat
         /\ Offers[t] = e.offer /\ Stocks[t] = e.stock
         /\ e.type \in ProductEvents \cup VersionEvents
<1>1. 1 <= e.publication /\ 1 <= e.aggregate
  BY RowBounds DEF StoreLogInv
<1>2. e.type \notin StoreEvents
  BY StorefrontAssumption DEF StoreLogInv, Of
<1> QED BY <1>1, <1>2, EventTypes DEF Event, Of, Offers, Stocks

LEMMA TopsRaised ==
  ASSUME NEW S, NEW p, NEW r, NEW value \in Nat, NEW type, NEW V, NEW t,
         \A u \in S \cup {t} : V[u] \in Nat,
         Tops(S, p, r, value, type, V), Sets(p, t, type),
         log[t].publication = r.publication, r.publication \in Nat
  PROVE  Tops(S \cup {t}, p, r, Larger(value, V[t]), type, V)
<1>1. PICK s \in S : /\ Sets(p, s, type) /\ V[s] = value /\ log[s].publication <= r.publication
                     /\ r.published => log[s].publication = r.publication
  BY DEF Tops
<1>2. PICK v : v = Larger(value, V[t])
  OBVIOUS
<1>3. v \in Nat /\ value <= v /\ V[t] <= v /\ (v = value \/ v = V[t])
  BY <1>2 DEF Larger
<1>4. \E u \in S \cup {t} : /\ Sets(p, u, type) /\ V[u] = v
                            /\ log[u].publication <= r.publication
                            /\ r.published => log[u].publication = r.publication
  <2>1. CASE v = value
    BY <1>1, <2>1
  <2>2. CASE v = V[t]
    BY <2>2
  <2> QED BY <1>3, <2>1, <2>2
<1>5. ASSUME r.published, NEW u \in S \cup {t}, Sets(p, u, type),
             log[u].publication = r.publication
      PROVE  V[u] <= v
  <2>1. CASE u = t
    BY <1>3, <2>1
  <2>2. CASE u \in S
    <3>1. V[u] <= value /\ V[u] \in Nat
      BY <1>5, <2>2 DEF Tops
    <3> QED BY <1>3, <3>1
  <2> QED BY <2>1, <2>2
<1> QED BY <1>2, <1>4, <1>5 DEF Tops

\* Rows of the same state share what is the newest of it.
LEMMA TopsShared ==
  ASSUME NEW S, NEW p, NEW r, NEW q, NEW value, NEW type, NEW V,
         Tops(S, p, r, value, type, V), q.publication = r.publication,
         q.published <=> r.published
  PROVE  Tops(S, p, q, value, type, V)
BY DEF Tops

LEMMA VersionKeeps ==
  ASSUME StoreLogInv, NEW S, S \subseteq Times, NEW f, FeedKnows(f, S), NEW t \in Times,
         NEW p \in Products, Of(p, t), NEW e, e = log[t], e.type \in VersionEvents
  PROVE  FeedKnows(ProjectVersion(f, e), S \cup {t})
<1>1. PICK r : r = f.row[p]
  OBVIOUS
<1>2. /\ f \in FeedTables /\ r \in FeedRow /\ RowRight(S, f.buffer, p, r)
      /\ r.publication \in Nat /\ r.offer \in Nat /\ r.stock \in Nat
  BY <1>1, RowKnown
<1>3. /\ e \in Event /\ e.subject = p /\ e.publication \in Nat /\ e.offer \in Nat /\ e.stock \in Nat
      /\ Offers[t] = e.offer /\ Stocks[t] = e.stock
  BY ToldTypes
<1>4. e.type # "ProductUnpublished" /\ e.type # "ProductPublished" /\ e.type \in Early
  BY DEF VersionEvents, Early
<1>5. CASE r = NoRow \/ e.publication > r.publication
  <2>1. ProjectVersion(f, e) = Buffered(f, p, e.publication, Kind(e), Version(e))
    BY <1>1, <1>3, <1>4, <1>5, Zenon DEF ProjectVersion, Kind, Version
  <2>2. FeedKnows(Buffered(f, p, e.publication, Kind(e), Version(e)), S \cup {t})
    BY <1>1, <1>4, <1>5, BufferedKeeps
  <2> QED BY <2>1, <2>2
<1>6. CASE r # NoRow /\ e.publication < r.publication
  <2>1. ProjectVersion(f, e) = f
    BY <1>1, <1>2, <1>3, <1>6 DEF ProjectVersion
  <2>2. Stands(S \cup {t}, p, r)
    <3>1. Stands(S, p, r) /\ ~Begun(p, t) /\ ~(e.publication = r.publication)
      BY <1>2, <1>3, <1>4, <1>6 DEF RowRight, Begun
    <3>2. Adds(p, r, r.offer, "VariantPriceChanged", Offers, t)
          /\ Adds(p, r, r.stock, "VariantAvailabilityChanged", Stocks, t)
      BY <3>1 DEF Adds
    <3> QED BY <3>1, <3>2, StandsMore
  <2>3. Caught(f.buffer, r, e)
    BY <1>2, <1>3, <1>4, <1>6 DEF Caught
  <2> QED BY <1>1, <2>1, <2>2, <2>3, RowStays
<1>7. CASE r # NoRow /\ e.publication = r.publication
  <2>0. ~(e.publication > r.publication) /\ ~(e.publication < r.publication)
    BY <1>2, <1>3, <1>7
  <2>1. /\ Stands(S, p, r) /\ ~Begun(p, t)
        /\ \A u \in S \cup {t} : Offers[u] \in Nat /\ Stocks[u] \in Nat
    <3>1. \A u \in S \cup {t} : u \in Times /\ Offers[u] = log[u].offer /\ Stocks[u] = log[u].stock
      BY DEF Offers, Stocks
    <3> QED BY <1>2, <1>4, <1>7, <3>1, PriceTypes DEF RowRight, Begun
  <2>2. PICK m \in S : IsState(p, m, r)
    BY <2>1 DEF Stands
  <2>3. r.first \in S /\ Begun(p, r.first) /\ \A u \in S \cup {t} : Begun(p, u) => r.first <= u
    BY <2>1 DEF Stands
  <2>4. /\ Tops(S, p, r, r.offer, "VariantPriceChanged", Offers)
        /\ Tops(S, p, r, r.stock, "VariantAvailabilityChanged", Stocks)
    BY <2>1 DEF Stands
  <2>5. ASSUME NEW q \in FeedRow, q.publication = r.publication, q.aggregate = r.aggregate,
               q.published <=> r.published, q.first = r.first,
               Tops(S \cup {t}, p, r, q.offer, "VariantPriceChanged", Offers),
               Tops(S \cup {t}, p, r, q.stock, "VariantAvailabilityChanged", Stocks)
        PROVE  FeedKnows(WithRow(f, p, q), S \cup {t})
    <3>1. IsState(p, m, q)
      BY <2>2, <2>5 DEF IsState
    <3>2. /\ Tops(S \cup {t}, p, q, q.offer, "VariantPriceChanged", Offers)
          /\ Tops(S \cup {t}, p, q, q.stock, "VariantAvailabilityChanged", Stocks)
      BY <2>5, TopsShared
    <3>3. Stands(S \cup {t}, p, q)
      BY <2>2, <2>3, <2>5, <3>1, <3>2 DEF Stands
    <3>4. Follows(r, q)
      BY <1>2, <2>5 DEF Follows, FeedRow
    <3>5. Caught(f.buffer, q, e)
      BY <1>2, <1>3, <1>4, <1>7, <2>5 DEF Caught
    <3> QED BY <1>1, <3>3, <3>4, <3>5, RowChanges
  <2>6. CASE e.type = "VariantPriceChanged"
    <3>1. PICK v, q : v = Larger(r.offer, e.offer) /\ q = [r EXCEPT !.offer = Larger(@, e.offer)]
      OBVIOUS
    <3>2. ProjectVersion(f, e) = WithRow(f, p, q)
      BY <1>1, <1>3, <1>7, <2>0, <2>6, <3>1, Zenon DEF ProjectVersion
    <3>3. v \in Nat
      BY <1>2, <1>3, <3>1 DEF Larger
    <3>4. q = [r EXCEPT !.offer = v]
      BY <3>1, Zenon
    <3>5. /\ q \in FeedRow /\ q.publication = r.publication /\ q.aggregate = r.aggregate
          /\ q.published = r.published /\ q.first = r.first /\ q.offer = v /\ q.stock = r.stock
      BY <1>2, <3>3, <3>4 DEF FeedRow
    <3>6. Tops(S \cup {t}, p, r, q.offer, "VariantPriceChanged", Offers)
      <4>1. Sets(p, t, "VariantPriceChanged") /\ log[t].publication = r.publication
        BY <1>7, <2>6 DEF Sets
      <4>2. Tops(S \cup {t}, p, r, Larger(r.offer, Offers[t]), "VariantPriceChanged", Offers)
        <5>1. \A u \in S \cup {t} : Offers[u] \in Nat
          BY <2>1
        <5> QED BY <1>2, <2>4, <4>1, <5>1, TopsRaised
      <4>3. q.offer = Larger(r.offer, Offers[t])
        BY <1>3, <3>1, <3>5
      <4> QED BY <4>2, <4>3, Zenon
    <3>7. Tops(S \cup {t}, p, r, q.stock, "VariantAvailabilityChanged", Stocks)
      <4>1. ~Sets(p, t, "VariantAvailabilityChanged")
        BY <2>6 DEF Sets
      <4>2. Adds(p, r, r.stock, "VariantAvailabilityChanged", Stocks, t)
        BY <4>1 DEF Adds
      <4> QED BY <2>4, <3>5, <4>2, TopsMore
    <3> QED BY <2>5, <3>2, <3>5, <3>6, <3>7
  <2>7. CASE e.type = "VariantAvailabilityChanged"
    <3>1. PICK v, q : v = Larger(r.stock, e.stock) /\ q = [r EXCEPT !.stock = Larger(@, e.stock)]
      OBVIOUS
    <3>2. ProjectVersion(f, e) = WithRow(f, p, q)
      <4>1. e.type # "VariantPriceChanged"
        BY <2>7
      <4> QED BY <1>1, <1>3, <1>7, <2>0, <4>1, <3>1, Zenon DEF ProjectVersion
    <3>3. v \in Nat
      BY <1>2, <1>3, <3>1 DEF Larger
    <3>4. q = [r EXCEPT !.stock = v]
      BY <3>1, Zenon
    <3>5. /\ q \in FeedRow /\ q.publication = r.publication /\ q.aggregate = r.aggregate
          /\ q.published = r.published /\ q.first = r.first /\ q.stock = v /\ q.offer = r.offer
      BY <1>2, <3>3, <3>4 DEF FeedRow
    <3>6. Tops(S \cup {t}, p, r, q.stock, "VariantAvailabilityChanged", Stocks)
      <4>1. Sets(p, t, "VariantAvailabilityChanged") /\ log[t].publication = r.publication
        BY <1>7, <2>7 DEF Sets
      <4>2. Tops(S \cup {t}, p, r, Larger(r.stock, Stocks[t]), "VariantAvailabilityChanged", Stocks)
        <5>1. \A u \in S \cup {t} : Stocks[u] \in Nat
          BY <2>1
        <5> QED BY <1>2, <2>4, <4>1, <5>1, TopsRaised
      <4>3. q.stock = Larger(r.stock, Stocks[t])
        BY <1>3, <3>1, <3>5
      <4> QED BY <4>2, <4>3, Zenon
    <3>7. Tops(S \cup {t}, p, r, q.offer, "VariantPriceChanged", Offers)
      <4>1. ~Sets(p, t, "VariantPriceChanged")
        BY <2>7 DEF Sets
      <4>2. Adds(p, r, r.offer, "VariantPriceChanged", Offers, t)
        BY <4>1 DEF Adds
      <4> QED BY <2>4, <3>5, <4>2, TopsMore
    <3> QED BY <2>5, <3>2, <3>5, <3>6, <3>7
  <2> QED BY <2>6, <2>7 DEF VersionEvents
<1>8. r = NoRow \/ e.publication > r.publication \/ e.publication < r.publication
        \/ e.publication = r.publication
  BY <1>2, <1>3
<1> QED BY <1>5, <1>6, <1>7, <1>8

LEMMA UnpublicationKeeps ==
  ASSUME StoreLogInv, NEW S, S \subseteq Times, NEW f, FeedKnows(f, S), NEW t \in Times,
         NEW p \in Products, Of(p, t), NEW e, e = log[t], e.type = "ProductUnpublished"
  PROVE  FeedKnows(ProjectUnpublication(f, e), S \cup {t})
<1>1. PICK r : r = f.row[p]
  OBVIOUS
<1>2. /\ f \in FeedTables /\ r \in FeedRow /\ RowRight(S, f.buffer, p, r)
      /\ r.publication \in Nat /\ r.aggregate \in Nat /\ r.published \in BOOLEAN
  BY <1>1, RowKnown
<1>3. /\ e \in Event /\ e.subject = p /\ e.publication \in Nat /\ e.aggregate \in Nat
  BY ToldTypes
<1>4. ~Begun(p, t) /\ e.type \in Early /\ e.type \notin VersionEvents
      /\ ~Sets(p, t, "VariantPriceChanged") /\ ~Sets(p, t, "VariantAvailabilityChanged")
  BY DEF Begun, Early, Sets, VersionEvents
<1>5. CASE r = NoRow
  <2>1. ProjectUnpublication(f, e) = Buffered(f, p, e.publication, Kind(e), Version(e))
    BY <1>1, <1>3, <1>5, Zenon DEF ProjectUnpublication, Kind, Version
  <2>2. FeedKnows(Buffered(f, p, e.publication, Kind(e), Version(e)), S \cup {t})
    BY <1>1, <1>4, <1>5, BufferedKeeps
  <2> QED BY <2>1, <2>2
<1>6. ASSUME r # NoRow PROVE Stands(S, p, r) /\ Stands(S \cup {t}, p, r)
  <2>1. Stands(S, p, r)
    BY <1>2, <1>6 DEF RowRight
  <2>2. Adds(p, r, r.offer, "VariantPriceChanged", Offers, t)
        /\ Adds(p, r, r.stock, "VariantAvailabilityChanged", Stocks, t)
    BY <1>4 DEF Adds
  <2> QED BY <1>4, <2>1, <2>2, StandsMore
<1>7. CASE r # NoRow /\ e.publication < r.publication
  <2>1. PICK q, v : /\ v = Larger(r.eligible, r.updated)
                    /\ q = [r EXCEPT !.eligible = Larger(@, r.updated)]
    OBVIOUS
  <2>2. ProjectUnpublication(f, e) = WithRow(f, p, q)
    BY <1>1, <1>3, <1>7, <2>1, Zenon DEF ProjectUnpublication
  <2>3. v \in Nat
    BY <1>2, <2>1 DEF Larger, FeedRow
  <2>4. q = [r EXCEPT !.eligible = v]
    BY <2>1, Zenon
  <2>5. /\ q \in FeedRow /\ q.publication = r.publication /\ q.aggregate = r.aggregate
        /\ q.published = r.published /\ q.first = r.first /\ q.offer = r.offer
        /\ q.stock = r.stock
    BY <1>2, <2>3, <2>4 DEF FeedRow
  <2>6. Stands(S \cup {t}, p, q)
    <3>1. Stands(S \cup {t}, p, r)
      BY <1>6, <1>7
    <3>2. PICK m \in S \cup {t} : IsState(p, m, r)
      BY <3>1 DEF Stands
    <3>3. IsState(p, m, q)
      BY <2>5, <3>2 DEF IsState
    <3>4. /\ Tops(S \cup {t}, p, q, q.offer, "VariantPriceChanged", Offers)
          /\ Tops(S \cup {t}, p, q, q.stock, "VariantAvailabilityChanged", Stocks)
      BY <2>5, <3>1, TopsShared DEF Stands
    <3> QED BY <2>5, <3>1, <3>3, <3>4 DEF Stands
  <2>7. Follows(r, q)
    BY <1>2, <2>5 DEF Follows
  <2>8. Caught(f.buffer, q, e)
    <3>1. ~Newer(e, q)
      BY <1>2, <1>3, <1>7, <2>5 DEF Newer
    <3> QED BY <1>4, <3>1 DEF Caught
  <2> QED BY <1>1, <2>2, <2>5, <2>6, <2>7, <2>8, RowChanges
<1>8. CASE r # NoRow /\ ~(e.publication < r.publication) /\ Newer(e, r)
  <2>1. PICK q : q = [r EXCEPT !.publication = e.publication, !.aggregate = e.aggregate,
                               !.published = FALSE]
    OBVIOUS
  <2>2. ProjectUnpublication(f, e) = WithRow(f, p, q)
    BY <1>1, <1>3, <1>8, <2>1, Zenon DEF ProjectUnpublication
  <2>3. /\ q \in FeedRow /\ q.publication = e.publication /\ q.aggregate = e.aggregate
        /\ ~q.published /\ q.first = r.first /\ q.offer = r.offer /\ q.stock = r.stock
    BY <1>2, <1>3, <2>1 DEF FeedRow
  <2>4. r.publication <= q.publication
    BY <1>2, <1>3, <1>8, <2>3
  <2>5. Stands(S, p, r) /\ Stands(S \cup {t}, p, r)
    BY <1>6, <1>8
  <2>6. Stands(S \cup {t}, p, q)
    <3>1. IsState(p, t, q)
      BY <2>3 DEF IsState, ProductEvents
    <3>2. ASSUME NEW value, NEW type, NEW V, Tops(S, p, r, value, type, V)
          PROVE  Tops(S \cup {t}, p, q, value, type, V)
      <4>1. PICK s \in S : Sets(p, s, type) /\ V[s] = value /\ log[s].publication <= r.publication
        BY <3>2 DEF Tops
      <4>2. log[s].publication \in Nat
        BY EventTypes
      <4>3. log[s].publication <= q.publication
        BY <1>2, <1>3, <2>3, <2>4, <4>1, <4>2
      <4> QED BY <2>3, <4>1, <4>3 DEF Tops
    <3>3. /\ Tops(S \cup {t}, p, q, q.offer, "VariantPriceChanged", Offers)
          /\ Tops(S \cup {t}, p, q, q.stock, "VariantAvailabilityChanged", Stocks)
      BY <2>3, <2>5, <3>2 DEF Stands
    <3> QED BY <2>3, <2>5, <3>1, <3>3 DEF Stands
  <2>7. Follows(r, q)
    BY <1>2, <1>3, <1>8, <2>3 DEF Follows, Newer
  <2>8. Caught(f.buffer, q, e)
    <3>1. ~Newer(e, q)
      BY <1>3, <2>3 DEF Newer
    <3> QED BY <1>4, <3>1 DEF Caught
  <2> QED BY <1>1, <2>2, <2>3, <2>6, <2>7, <2>8, RowChanges
<1>9. CASE r # NoRow /\ ~(e.publication < r.publication) /\ ~Newer(e, r)
  <2>1. ProjectUnpublication(f, e) = f
    BY <1>1, <1>3, <1>9, Zenon DEF ProjectUnpublication
  <2>2. Caught(f.buffer, r, e)
    BY <1>4, <1>9 DEF Caught
  <2>3. Stands(S \cup {t}, p, r)
    BY <1>6, <1>9
  <2> QED BY <1>1, <2>1, <2>2, <2>3, RowStays
<1> QED BY <1>5, <1>7, <1>8, <1>9

\* A publication that the row already knows, or that a newer one has overtaken.
LEMMA OldPublicationKeeps ==
  ASSUME StoreLogInv, NEW S, S \subseteq Times, NEW f, FeedKnows(f, S), NEW t \in Times,
         NEW p \in Products, Begun(p, t), NEW e, e = log[t], NEW r, r = f.row[p], r # NoRow,
         ~Newer(e, r), NEW q, q = [r EXCEPT !.first = Smaller(@, t)]
  PROVE  FeedKnows(WithRow(f, p, q), S \cup {t})
<1>1. /\ f \in FeedTables /\ r \in FeedRow /\ RowRight(S, f.buffer, p, r)
      /\ r.publication \in Nat /\ r.aggregate \in Nat /\ r.published \in BOOLEAN
      /\ r.first \in Nat
  BY RowKnown
<1>2. Of(p, t) /\ e.type = "ProductPublished"
  BY DEF Begun
<1>3. /\ e \in Event /\ e.subject = p /\ e.publication \in Nat /\ e.aggregate \in Nat /\ t \in Nat
  BY <1>2, ToldTypes
<1>4. PICK v : v = Smaller(r.first, t)
  OBVIOUS
<1>5. v \in Nat /\ v <= t /\ v <= r.first /\ (v = t \/ v = r.first)
  BY <1>1, <1>3, <1>4 DEF Smaller
<1>6. q = [r EXCEPT !.first = v]
  BY <1>4, Zenon
<1>7. /\ q \in FeedRow /\ q.publication = r.publication /\ q.aggregate = r.aggregate
      /\ q.published = r.published /\ q.first = v /\ q.offer = r.offer
      /\ q.stock = r.stock
  BY <1>1, <1>5, <1>6 DEF FeedRow
<1>8. Stands(S, p, r)
  BY <1>1 DEF RowRight
<1>9. PICK m \in S : IsState(p, m, r)
  BY <1>8 DEF Stands
<1>10. ASSUME r.published, e.publication = r.publication PROVE t \in S
  <2>1. Begun(p, m) /\ log[m].publication = log[t].publication
    BY <1>9, <1>10 DEF IsState, Begun
  <2> QED BY <2>1, BegunOnce
<1>11. ASSUME NEW value, NEW type, NEW V, Tops(S, p, r, value, type, V)
       PROVE  Tops(S \cup {t}, p, q, value, type, V)
  <2>1. Adds(p, r, value, type, V, t)
    <3>1. ASSUME r.published, Sets(p, t, type), log[t].publication = r.publication
          PROVE  V[t] <= value
      BY <1>10, <1>11, <3>1 DEF Tops
    <3> QED BY <3>1 DEF Adds
  <2>2. Tops(S \cup {t}, p, r, value, type, V)
    BY <1>11, <2>1, TopsMore
  <2> QED BY <1>7, <2>2, TopsShared
<1>12. /\ Tops(S \cup {t}, p, q, q.offer, "VariantPriceChanged", Offers)
       /\ Tops(S \cup {t}, p, q, q.stock, "VariantAvailabilityChanged", Stocks)
  BY <1>7, <1>8, <1>11 DEF Stands
<1>13. q.first \in S \cup {t} /\ Begun(p, q.first) /\ \A u \in S \cup {t} : Begun(p, u) => q.first <= u
  <2>1. r.first \in S /\ Begun(p, r.first) /\ \A u \in S : Begun(p, u) => r.first <= u
    BY <1>8 DEF Stands
  <2>2. ASSUME NEW u \in S, Begun(p, u) PROVE v <= u
    <3>1. u \in Nat /\ r.first <= u
      BY <2>1, <2>2, EventTypes
    <3> QED BY <1>1, <1>5, <3>1
  <2> QED BY <1>5, <1>7, <2>1, <2>2
<1>14. IsState(p, m, q)
  BY <1>7, <1>9 DEF IsState
<1>15. Stands(S \cup {t}, p, q)
  BY <1>12, <1>13, <1>14 DEF Stands
<1>16. Follows(r, q)
  BY <1>1, <1>7 DEF Follows
<1>17. Caught(f.buffer, q, e)
  <2>1. ~Newer(e, q)
    BY <1>7 DEF Newer
  <2> QED BY <1>2, <2>1 DEF Caught, VersionEvents
<1> QED BY <1>2, <1>7, <1>15, <1>16, <1>17, RowChanges
-----------------------------------------------------------------------------
(***************************************************************************)
(* A new publication, which catches up with what came before it.           *)
(***************************************************************************)
LEMMA NewPublicationKeeps ==
  ASSUME StoreLogInv, NEW S, S \subseteq Times, NEW f, FeedKnows(f, S), NEW t \in Times,
         NEW p \in Products, Begun(p, t), NEW e, e = log[t], NEW r, r = f.row[p],
         r = NoRow \/ Newer(e, r), NEW n \in FeedRow,
         n.publication = e.publication, n.aggregate = e.aggregate, n.published,
         r = NoRow => n.first = t, r # NoRow => n.first = Smaller(r.first, t),
         n.offer = e.offer, n.stock = e.stock
  PROVE  FeedKnows(ApplyBufferedVersions(WithRow(f, p, n), p, e.publication), S \cup {t})
<1> DEFINE due == {b \in f.buffer : b.product = p /\ b.publication = n.publication}
           past == {b \in f.buffer : b.product = p /\ b.publication <= n.publication}
           C == f.buffer \ past
<1>1. /\ f \in FeedTables /\ r \in FeedRow /\ RowRight(S, f.buffer, p, r) /\ NoTwins(f.buffer)
      /\ BufferRight(f.buffer, S) /\ r.publication \in Nat /\ r.aggregate \in Nat
      /\ r.published \in BOOLEAN /\ r.first \in Nat
  BY RowKnown
<1>2. Of(p, t) /\ e.type = "ProductPublished"
  BY DEF Begun
<1>3. /\ e \in Event /\ e.subject = p /\ e.publication \in Nat /\ e.aggregate \in Nat /\ t \in Nat
      /\ 1 <= e.publication /\ e.offer \in Nat /\ e.stock \in Nat
      /\ Offers[t] = e.offer /\ Stocks[t] = e.stock
  BY <1>2, ToldTypes
<1>4. r.publication < e.publication
  <2>1. CASE r = NoRow
    BY <1>3, <2>1 DEF NoRow
  <2>2. CASE r # NoRow
    <3>1. PICK m \in S : IsState(p, m, r)
      BY <1>1, <2>2 DEF RowRight, Stands
    <3>2. /\ m \in Times /\ Of(p, m) /\ r.publication = log[m].publication
          /\ r.aggregate = log[m].aggregate
      BY <3>1 DEF IsState
    <3>3. log[m].publication = e.publication => e.aggregate <= r.aggregate
      BY <3>2, BegunFirst
    <3> QED BY <1>1, <1>3, <2>2, <3>2, <3>3 DEF Newer
  <2> QED BY <2>1, <2>2
<1>5. ASSUME NEW u \in S, Of(p, u)
      PROVE  /\ log[u] \in Event /\ log[u].subject = p /\ u \in Times
             /\ log[u].publication \in Nat /\ log[u].aggregate \in Nat
             /\ log[u].type \in ProductEvents \cup VersionEvents
             /\ Caught(f.buffer, r, log[u])
  BY <1>1, <1>5, ToldTypes DEF RowRight
<1>6. ASSUME NEW u \in S, Of(p, u), log[u].type = "ProductPublished"
      PROVE  log[u].publication < e.publication
  <2>1. ~Newer(log[u], r)
    BY <1>5, <1>6 DEF Caught
  <2> QED BY <1>1, <1>3, <1>4, <1>5, <1>6, <2>1 DEF Newer
<1>7. ASSUME NEW u \in S, Of(p, u), log[u].type # "ProductPublished",
             e.publication <= log[u].publication
      PROVE  Waits(f.buffer, log[u])
  <2>1. r.publication < log[u].publication
    BY <1>1, <1>3, <1>4, <1>5, <1>7
  <2>2. Newer(log[u], r) /\ ~(log[u].publication <= r.publication)
    BY <1>1, <1>5, <1>7, <2>1 DEF Newer
  <2>3. log[u].type = "ProductUnpublished" \/ log[u].type \in VersionEvents
    BY <1>5, <1>7 DEF ProductEvents
  <2> QED BY <1>5, <1>7, <2>2, <2>3 DEF Caught
<1>8. PICK q : /\ CatchesUp(n, due, q)
               /\ Becomes(f, p, q, C, ApplyBufferedVersions(WithRow(f, p, n), p, e.publication))
  BY <1>1, VersionsApplied
<1>9. /\ q \in FeedRow /\ q.publication = e.publication /\ q.first = n.first
      /\ q.offer \in Nat /\ q.stock \in Nat /\ q.aggregate \in Nat
      /\ q.published <=> q.aggregate = e.aggregate
  BY <1>8 DEF CatchesUp, FeedRow
<1>10. /\ IsNewest(due, "OFFER", e.offer, q.offer)
       /\ IsNewest(due, "AVAILABILITY", e.stock, q.stock)
       /\ IsNewest(due, "PUBLICATION", e.aggregate, q.aggregate)
  BY <1>8 DEF CatchesUp
<1>11. \A b \in due : /\ b \in f.buffer /\ b.product = p /\ b.publication = e.publication
                      /\ b.version \in Nat
  BY <1>1 DEF FeedTables, BufferRow
<1>12. ASSUME NEW x \in Event, x.subject = p, x.publication = e.publication, Waits(f.buffer, x)
       PROVE  \E b \in due : b.kind = Kind(x) /\ Version(x) <= b.version
  <2>1. PICK b \in f.buffer : /\ b.product = x.subject /\ b.publication = x.publication
                              /\ b.kind = Kind(x) /\ b.version >= Version(x)
    BY <1>12 DEF Waits
  <2>2. b \in due
    BY <1>12, <2>1
  <2>3. b.version \in Nat /\ Version(x) \in Nat
    BY <1>11, <1>12, <2>2 DEF Version, Event
  <2>4. Version(x) <= b.version
    BY <2>1, <2>3
  <2> HIDE DEF due
  <2> QED BY <2>1, <2>2, <2>4
<1>13. ASSUME NEW b \in due
       PROVE  \E u \in S : Bears(log[u], b) /\ Of(p, u) /\ log[u].publication = e.publication
  <2>1. b \in f.buffer /\ b.product = p /\ b.publication = e.publication
    BY <1>11
  <2>2. PICK u \in S : Bears(log[u], b)
    BY <1>1, <2>1 DEF BufferRight
  <2> QED BY <2>1, <2>2 DEF Bears, Of
<1>14. BufferRight(C, S \cup {t})
  BY <1>1, BuffersStay
<1>15. \A o \in Products \ {p} : WaitsOn(f.buffer, C, o)
  BY DEF WaitsOn, Waits
<1>16. ASSUME NEW x \in Event, x.subject = p, e.publication < x.publication, Waits(f.buffer, x)
       PROVE  Waits(C, x)
  <2>1. PICK b \in f.buffer : /\ b.product = x.subject /\ b.publication = x.publication
                              /\ b.kind = Kind(x) /\ b.version >= Version(x)
    BY <1>16 DEF Waits
  <2>2. ~(b.publication <= n.publication)
    BY <1>3, <1>16, <2>1 DEF Event
  <2>3. b \in C
    BY <2>2
  <2> HIDE DEF C
  <2> QED BY <2>1, <2>3 DEF Waits
<1> HIDE DEF due, past, C
<1>17. \E m \in S \cup {t} : IsState(p, m, q)
  <2>1. CASE q.aggregate = e.aggregate
    <3>1. IsState(p, t, q)
      BY <1>2, <1>9, <2>1 DEF IsState, ProductEvents
    <3> QED BY <3>1
  <2>2. CASE q.aggregate # e.aggregate
    <3>1. PICK b \in due : b.kind = "PUBLICATION" /\ b.version = q.aggregate
      BY <1>10, <2>2 DEF IsNewest
    <3>2. PICK u \in S : Bears(log[u], b) /\ Of(p, u) /\ log[u].publication = e.publication
      BY <1>13
    <3>3. log[u].type = "ProductUnpublished"
      BY <3>1, <3>2 DEF Bears, Kind
    <3>4. log[u].aggregate = q.aggregate
      BY <3>1, <3>2, <3>3 DEF Bears, Version
    <3>5. IsState(p, u, q)
      BY <1>9, <2>2, <3>2, <3>3, <3>4 DEF IsState, ProductEvents
    <3> QED BY <3>5
  <2> QED BY <2>1, <2>2
<1>18. q.first \in S \cup {t} /\ Begun(p, q.first) /\ \A u \in S \cup {t} : Begun(p, u) => q.first <= u
  <2>1. CASE r = NoRow
    <3>1. \A u \in S : ~Begun(p, u)
      <4>1. ASSUME NEW u \in S, Begun(p, u) PROVE FALSE
        <5>1. Of(p, u) /\ ~Newer(log[u], r)
          BY <1>5, <4>1 DEF Begun, Caught
        <5>2. u \in Times /\ 1 <= log[u].publication /\ log[u].publication \in Nat
          BY <5>1, ToldTypes
        <5> QED BY <2>1, <5>1, <5>2 DEF Newer, NoRow
      <4> QED BY <4>1
    <3> QED BY <1>3, <1>9, <2>1, <3>1
  <2>2. CASE r # NoRow
    <3>1. r.first \in S /\ Begun(p, r.first) /\ \A u \in S : Begun(p, u) => r.first <= u
      BY <1>1, <2>2 DEF RowRight, Stands
    <3>2. PICK v : v = Smaller(r.first, t)
      OBVIOUS
    <3>3. v \in Nat /\ v <= t /\ v <= r.first /\ (v = t \/ v = r.first)
      BY <1>1, <1>3, <3>2 DEF Smaller
    <3>4. ASSUME NEW u \in S, Begun(p, u) PROVE v <= u
      <4>1. u \in Nat /\ r.first <= u
        BY <3>1, <3>4, EventTypes
      <4> QED BY <1>1, <3>3, <4>1
    <3> QED BY <1>9, <2>2, <3>1, <3>2, <3>3, <3>4
  <2> QED BY <2>1, <2>2
<1>19. ASSUME NEW type \in VersionEvents, NEW V, NEW kind, NEW least, NEW value \in Nat,
              V[t] = least, least \in Nat, IsNewest(due, kind, least, value),
              \A x : (x.type \in Early /\ Kind(x) = kind) <=> x.type = type,
              \A u \in S : u \in Times /\ log[u].type = type => Version(log[u]) = V[u] /\ V[u] \in Nat
       PROVE  Tops(S \cup {t}, p, q, value, type, V)
  <2>1. Sets(p, t, type) /\ log[t].publication = q.publication
    BY <1>2, <1>9 DEF Sets
  <2>2. \E s \in S \cup {t} : /\ Sets(p, s, type) /\ V[s] = value
                              /\ log[s].publication = q.publication
    <3>1. CASE value = least
      BY <1>19, <2>1, <3>1
    <3>2. CASE value # least
      <4>1. PICK b \in due : b.kind = kind /\ b.version = value
        BY <1>19, <3>2 DEF IsNewest
      <4>2. PICK u \in S : Bears(log[u], b) /\ Of(p, u) /\ log[u].publication = e.publication
        BY <1>13
      <4>3. log[u].type \in Early /\ Kind(log[u]) = kind /\ Version(log[u]) = value
        BY <4>1, <4>2 DEF Bears
      <4>4. log[u].type = type
        BY <1>19, <4>3
      <4>5. V[u] = value
        BY <1>5, <1>19, <4>2, <4>3, <4>4
      <4> QED BY <1>9, <4>2, <4>4, <4>5 DEF Sets
    <3> QED BY <3>1, <3>2
  <2>3. ASSUME NEW u \in S \cup {t}, Sets(p, u, type), log[u].publication = q.publication
        PROVE  V[u] <= value
    <3>1. CASE u = t
      BY <1>19, <3>1 DEF IsNewest
    <3>2. CASE u \in S
      <4>1. Of(p, u) /\ log[u].publication = e.publication
        BY <1>9, <2>3 DEF Sets
      <4>2. log[u].type = type /\ log[u].type # "ProductPublished"
        <5>1. log[u].type # "ProductPublished"
          BY <1>3, <1>6, <3>2, <4>1
        <5> QED BY <2>3, <5>1 DEF Sets
      <4>3. Waits(f.buffer, log[u])
        BY <1>3, <1>7, <3>2, <4>1, <4>2
      <4>4. log[u] \in Event /\ log[u].subject = p /\ u \in Times
        BY <1>5, <3>2, <4>1
      <4>5. PICK b \in due : b.kind = Kind(log[u]) /\ Version(log[u]) <= b.version
        BY <1>12, <4>1, <4>3, <4>4
      <4>6. Kind(log[u]) = kind /\ Version(log[u]) = V[u] /\ V[u] \in Nat
        BY <1>19, <3>2, <4>2, <4>4
      <4>7. b.version <= value /\ b.version \in Nat
        BY <1>11, <1>19, <4>5, <4>6 DEF IsNewest
      <4> QED BY <1>19, <4>5, <4>6, <4>7
    <3> QED BY <3>1, <3>2
  <2>4. q.publication <= q.publication
    BY <1>3, <1>9
  <2> QED BY <2>2, <2>3, <2>4 DEF Tops
<1>20. Tops(S \cup {t}, p, q, q.offer, "VariantPriceChanged", Offers)
  <2>1. \A x : (x.type \in Early /\ Kind(x) = "OFFER") <=> x.type = "VariantPriceChanged"
    BY DEF Early, Kind, VersionEvents
  <2>2. \A u \in S : u \in Times /\ log[u].type = "VariantPriceChanged"
                        => Version(log[u]) = Offers[u] /\ Offers[u] \in Nat
    BY PriceTypes DEF Version, Offers
  <2>3. "VariantPriceChanged" \in VersionEvents
    BY DEF VersionEvents
  <2> QED BY <1>3, <1>9, <1>10, <1>19, <2>1, <2>2, <2>3
<1>21. Tops(S \cup {t}, p, q, q.stock, "VariantAvailabilityChanged", Stocks)
  <2>1. \A x : (x.type \in Early /\ Kind(x) = "AVAILABILITY") <=> x.type = "VariantAvailabilityChanged"
    BY DEF Early, Kind, VersionEvents
  <2>2. \A u \in S : u \in Times /\ log[u].type = "VariantAvailabilityChanged"
                        => Version(log[u]) = Stocks[u] /\ Stocks[u] \in Nat
    BY PriceTypes DEF Version, Stocks
  <2>3. "VariantAvailabilityChanged" \in VersionEvents
    BY DEF VersionEvents
  <2> QED BY <1>3, <1>9, <1>10, <1>19, <2>1, <2>2, <2>3
<1>22. Stands(S \cup {t}, p, q)
  BY <1>17, <1>18, <1>20, <1>21 DEF Stands
<1>23. e.aggregate <= q.aggregate
  BY <1>10 DEF IsNewest
<1>24. ASSUME NEW u \in S \cup {t}, Of(p, u) PROVE Caught(C, q, log[u])
  <2>1. CASE u = t
    <3>1. ~Newer(log[t], q)
      BY <1>3, <1>9, <1>23 DEF Newer
    <3> QED BY <1>2, <2>1, <3>1 DEF Caught, VersionEvents
  <2>2. CASE u \in S /\ log[u].publication < e.publication
    <3>1. ~Newer(log[u], q) /\ log[u].publication <= q.publication
      BY <1>3, <1>5, <1>9, <1>24, <2>2 DEF Newer
    <3> QED BY <3>1 DEF Caught
  <2>3. CASE u \in S /\ ~(log[u].publication < e.publication)
    <3>1. log[u].type # "ProductPublished"
      BY <1>6, <1>24, <2>3
    <3>2. e.publication <= log[u].publication /\ log[u] \in Event /\ log[u].subject = p
      BY <1>3, <1>5, <1>24, <2>3
    <3>3. Waits(f.buffer, log[u])
      BY <1>7, <1>24, <2>3, <3>1, <3>2
    <3>4. CASE e.publication < log[u].publication
      <4>1. Waits(C, log[u])
        BY <1>16, <3>2, <3>3, <3>4
      <4>2. q.publication < log[u].publication
        BY <1>9, <3>4
      <4> QED BY <3>1, <4>1, <4>2 DEF Caught
    <3>5. CASE e.publication = log[u].publication
      <4>1. log[u].type = "ProductUnpublished" => ~Newer(log[u], q)
        <5>1. ASSUME log[u].type = "ProductUnpublished" PROVE ~Newer(log[u], q)
          <6>1. PICK b \in due : b.kind = Kind(log[u]) /\ Version(log[u]) <= b.version
            BY <1>12, <3>2, <3>3, <3>5
          <6>2. b.kind = "PUBLICATION" /\ log[u].aggregate <= b.version
            BY <5>1, <6>1 DEF Kind, Version
          <6>3. b.version <= q.aggregate /\ b.version \in Nat
            BY <1>10, <1>11, <6>2 DEF IsNewest
          <6>4. log[u].aggregate <= q.aggregate
            BY <1>5, <1>9, <1>24, <2>3, <6>2, <6>3
          <6> QED BY <1>3, <1>5, <1>9, <1>24, <2>3, <3>5, <6>4 DEF Newer
        <5> QED BY <5>1
      <4>2. log[u].publication <= q.publication
        BY <1>3, <1>9, <3>5
      <4> QED BY <3>1, <4>1, <4>2 DEF Caught
    <3>6. log[u].publication \in Nat
      BY <3>2 DEF Event
    <3> QED BY <1>3, <3>2, <3>4, <3>5, <3>6
  <2> QED BY <2>1, <2>2, <2>3
<1>25. RowRight(S \cup {t}, C, p, q)
  BY <1>22, <1>24 DEF RowRight
<1> QED BY <1>2, <1>8, <1>14, <1>15, <1>25, RowSettles

\* What a row shows when its product is published again.
LEMMA PublicationKeeps ==
  ASSUME StoreLogInv, PricesInv, NEW S, S \subseteq Times, NEW f, FeedKnows(f, S), NEW t \in Times,
         NEW p \in Products, Begun(p, t), NEW e, e = log[t]
  PROVE  FeedKnows(ProjectPublication(f, e, t), S \cup {t})
<1>1. PICK r : r = f.row[p]
  OBVIOUS
<1>2. /\ f \in FeedTables /\ r \in FeedRow /\ RowRight(S, f.buffer, p, r)
      /\ r.publication \in Nat /\ r.aggregate \in Nat /\ r.first \in Nat
      /\ r.offer \in Nat /\ r.stock \in Nat /\ r.eligible \in Nat /\ r.published \in BOOLEAN
  <2>1. r \in FeedRow
    BY <1>1, RowKnown
  <2>2. r.eligible \in Nat
    BY <2>1 DEF FeedRow
  <2> QED BY <1>1, <2>2, RowKnown
<1>3. Of(p, t) /\ e.type = "ProductPublished"
  BY DEF Begun
<1>4. /\ e \in Event /\ e.subject = p /\ e.publication \in Nat /\ e.aggregate \in Nat /\ t \in Nat
      /\ e.offer \in Nat /\ e.stock \in Nat
  BY <1>3, ToldTypes
<1>5. CASE r = NoRow
  <2>1. PICK n : n = [publication |-> e.publication, aggregate |-> e.aggregate,
                      published |-> TRUE, first |-> t, eligible |-> t, updated |-> t,
                      offer |-> e.offer, stock |-> e.stock]
    OBVIOUS
  <2>2. ProjectPublication(f, e, t) = ApplyBufferedVersions(WithRow(f, p, n), p, e.publication)
    BY <1>1, <1>4, <1>5, <2>1, Zenon DEF ProjectPublication
  <2>3. /\ n \in FeedRow /\ n.publication = e.publication /\ n.aggregate = e.aggregate
        /\ n.published /\ n.first = t /\ n.offer = e.offer /\ n.stock = e.stock
    BY <1>4, <2>1 DEF FeedRow
  <2>4. FeedKnows(ApplyBufferedVersions(WithRow(f, p, n), p, e.publication), S \cup {t})
    BY <1>1, <1>5, <2>3, NewPublicationKeeps
  <2> QED BY <2>2, <2>4
<1>6. CASE r # NoRow /\ Newer(e, r)
  <2>1. PICK first, eligible, offer, stock :
          /\ first = Smaller(r.first, t) /\ eligible = (IF r.published THEN r.eligible ELSE t)
          /\ offer = Larger(r.offer, e.offer) /\ stock = Larger(r.stock, e.stock)
    OBVIOUS
  <2>2. PICK n : n = [publication |-> e.publication, aggregate |-> e.aggregate,
                      published |-> TRUE, first |-> first, eligible |-> eligible,
                      updated |-> t, offer |-> offer, stock |-> stock]
    OBVIOUS
  <2>3. n = [publication |-> e.publication, aggregate |-> e.aggregate,
             published |-> TRUE, first |-> Smaller(r.first, t),
             eligible |-> IF r.published THEN r.eligible ELSE t, updated |-> t,
             offer |-> Larger(r.offer, e.offer), stock |-> Larger(r.stock, e.stock)]
    BY <2>1, <2>2, Zenon
  <2>4. ProjectPublication(f, e, t) = ApplyBufferedVersions(WithRow(f, p, n), p, e.publication)
    BY <1>1, <1>4, <1>6, <2>3, Zenon DEF ProjectPublication
  <2>5. r.publication < e.publication
    <3>1. PICK m \in S : IsState(p, m, r)
      BY <1>2, <1>6 DEF RowRight, Stands
    <3>2. /\ m \in Times /\ Of(p, m) /\ r.publication = log[m].publication
          /\ r.aggregate = log[m].aggregate
      BY <3>1 DEF IsState
    <3>3. log[m].publication = e.publication => e.aggregate <= r.aggregate
      BY <3>2, BegunFirst
    <3> QED BY <1>2, <1>4, <1>6, <3>2, <3>3 DEF Newer
  <2>6. ASSUME NEW s \in S, Of(p, s), log[s].publication <= r.publication
        PROVE  log[s].offer <= e.offer /\ log[s].stock <= e.stock
    <3>1. s \in Times /\ s \in Nat /\ log[s].publication < log[t].publication
      <4>1. s \in Times /\ log[s].publication \in Nat /\ s \in Nat
        BY EventTypes
      <4> QED BY <1>2, <1>4, <2>5, <2>6, <4>1
    <3>2. s < t
      BY <1>3, <2>6, <3>1, LaterPublication
    <3>3. s <= t
      BY <1>4, <3>1, <3>2
    <3> QED BY <1>3, <2>6, <3>1, <3>3, LaterPrices
  <2>7. Stands(S, p, r)
    BY <1>2, <1>6 DEF RowRight
  <2>8. offer = e.offer
    <3>1. PICK s \in S : /\ Sets(p, s, "VariantPriceChanged") /\ Offers[s] = r.offer
                         /\ log[s].publication <= r.publication
      BY <2>7 DEF Stands, Tops
    <3>2. log[s].offer = r.offer /\ Of(p, s)
      BY <3>1 DEF Offers, Sets
    <3>3. r.offer <= e.offer
      BY <2>6, <3>1, <3>2
    <3> QED BY <1>2, <1>4, <2>1, <3>3 DEF Larger
  <2>9. stock = e.stock
    <3>1. PICK s \in S : /\ Sets(p, s, "VariantAvailabilityChanged") /\ Stocks[s] = r.stock
                         /\ log[s].publication <= r.publication
      BY <2>7 DEF Stands, Tops
    <3>2. log[s].stock = r.stock /\ Of(p, s)
      BY <3>1 DEF Stocks, Sets
    <3>3. r.stock <= e.stock
      BY <2>6, <3>1, <3>2
    <3> QED BY <1>2, <1>4, <2>1, <3>3 DEF Larger
  <2>10. first \in Nat /\ eligible \in Nat
    BY <1>2, <1>4, <2>1 DEF Smaller
  <2>11. /\ n \in FeedRow /\ n.publication = e.publication /\ n.aggregate = e.aggregate
         /\ n.published /\ n.first = first /\ n.offer = e.offer /\ n.stock = e.stock
    BY <1>4, <2>2, <2>8, <2>9, <2>10 DEF FeedRow
  <2> QED BY <1>1, <1>6, <2>1, <2>4, <2>11, NewPublicationKeeps
<1>7. CASE r # NoRow /\ ~Newer(e, r)
  <2>1. PICK q : q = [r EXCEPT !.first = Smaller(@, t)]
    OBVIOUS
  <2>2. ProjectPublication(f, e, t) = WithRow(f, p, q)
    BY <1>1, <1>4, <1>7, <2>1, Zenon DEF ProjectPublication
  <2> QED BY <1>1, <1>7, <2>1, <2>2, OldPublicationKeeps
<1> QED BY <1>5, <1>6, <1>7

LEMMA StoreKeeps ==
  ASSUME StoreLogInv, NEW S, S \subseteq Times, NEW f, FeedKnows(f, S), NEW t \in Times,
         Of(Store, t), NEW e, e = log[t]
  PROVE  FeedKnows(ProjectStore(f, e), S \cup {t})
<1>1. PICK s, d, row : /\ s = f.store /\ d = ProjectStore(f, e)
                       /\ row = IF NewerStore(s, e) THEN StoreStateOf(e) ELSE s
  OBVIOUS
<1>2. f \in FeedTables /\ e \in Event /\ s \in StoreFeedRow
  BY <1>1, EventTypes DEF FeedKnows, FeedTables
<1>3. Newer(e, s) <=> NewerStore(s, e)
  BY <1>2 DEF Newer, NewerStore, Event, StoreFeedRow
<1>4. d \in FeedTables /\ d.store = row /\ d.row = f.row /\ d.buffer = f.buffer
  <2>1. CASE Newer(e, s)
    <3>1. d = [f EXCEPT !.store = StoreStateOf(e)]
      BY <1>1, <2>1, Zenon DEF ProjectStore, StoreStateOf
    <3>2. StoreStateOf(e) \in StoreFeedRow
      BY <1>2 DEF StoreStateOf, StoreFeedRow, Event
    <3>3. d = [store |-> StoreStateOf(e), row |-> f.row, buffer |-> f.buffer]
      BY <1>2, <3>1 DEF FeedTables
    <3> QED BY <1>1, <1>2, <1>3, <2>1, <3>2, <3>3 DEF FeedTables
  <2>2. CASE ~Newer(e, s)
    <3>1. d = f
      BY <1>1, <2>2 DEF ProjectStore
    <3> QED BY <1>1, <1>2, <1>3, <2>2, <3>1
  <2> QED BY <2>1, <2>2
<1>5. KnowsStore(S \cup {t}, row)
  BY <1>1, KnowsStoreMore DEF FeedKnows
<1>6. BufferRight(f.buffer, S \cup {t})
  BY BuffersStay DEF FeedKnows
<1>7. ASSUME NEW p \in Products PROVE RowRight(S \cup {t}, f.buffer, p, f.row[p])
  <2>1. ~Of(p, t)
    BY StorefrontAssumption DEF Of
  <2>2. f.row[p] \in FeedRow /\ RowRight(S, f.buffer, p, f.row[p])
    BY RowKnown
  <2>3. WaitsOn(f.buffer, f.buffer, p)
    BY DEF WaitsOn
  <2> QED BY <2>1, <2>2, <2>3, RowKept
<1>8. FeedKnows(d, S \cup {t})
  BY <1>4, <1>5, <1>6, <1>7 DEF FeedKnows
<1> QED BY <1>1, <1>8

\* Handling an event makes the feed know it.
LEMMA ProjectKeeps ==
  ASSUME StoreLogInv, PricesInv, NEW S, S \subseteq Times, NEW f, FeedKnows(f, S), NEW t \in Times
  PROVE  FeedKnows(Project(f, t), S \cup {t})
<1>1. PICK e : e = log[t]
  OBVIOUS
<1>2. e \in Event /\ (Of(Store, t) <=> e.type \in StoreEvents)
  BY <1>1, EventTypes DEF StoreLogInv
<1>3. CASE e.type \in StoreEvents
  <2>1. Project(f, t) = ProjectStore(f, e)
    BY <1>1, <1>3 DEF Project, StoreEvents, ProductEvents, VersionEvents
  <2> QED BY <1>1, <1>2, <1>3, <2>1, StoreKeeps
<1>4. CASE e.type \notin StoreEvents
  <2>1. PICK p \in Products : Of(p, t)
    BY <1>1, <1>2, <1>4 DEF Event, Of
  <2>2. CASE e.type = "ProductPublished"
    <3>1. Project(f, t) = ProjectPublication(f, e, t)
      BY <1>1, <2>2 DEF Project, StoreEvents, ProductEvents, VersionEvents
    <3>2. Begun(p, t)
      BY <1>1, <2>1, <2>2 DEF Begun
    <3> QED BY <1>1, <3>1, <3>2, PublicationKeeps
  <2>3. CASE e.type = "ProductUnpublished"
    <3>1. Project(f, t) = ProjectUnpublication(f, e)
      BY <1>1, <2>3 DEF Project, StoreEvents, ProductEvents, VersionEvents
    <3>2. FeedKnows(ProjectUnpublication(f, e), S \cup {t})
      BY <1>1, <2>1, <2>3, UnpublicationKeeps
    <3> QED BY <3>1, <3>2
  <2>4. CASE e.type \in VersionEvents
    <3>1. Project(f, t) = ProjectVersion(f, e)
      BY <1>1, <2>4 DEF Project, StoreEvents, ProductEvents, VersionEvents
    <3> QED BY <1>1, <2>1, <2>4, <3>1, VersionKeeps
  <2> QED BY <1>2, <1>4, <2>2, <2>3, <2>4 DEF Event, ProductEvents
<1> QED BY <1>3, <1>4
-----------------------------------------------------------------------------
(***************************************************************************)
(* Rebuilding the feed from the archive.                                   *)
(***************************************************************************)
LEMMA EmptyFeedKnows == FeedKnows(EmptyFeed, {})
<1> DEFINE rows == [p \in Products |-> NoRow]
<1>1. PICK f : f = EmptyFeed
  OBVIOUS
<1>2. f = [store |-> NoStore, row |-> rows, buffer |-> {}]
  BY <1>1, Zenon DEF EmptyFeed, NoStore
<1>3. rows \in [Products -> FeedRow] /\ \A p \in Products : rows[p] = NoRow
  BY DEF NoRow, FeedRow
<1>4. NoStore \in StoreFeedRow
  BY DEF NoStore, StoreFeedRow
<1> HIDE DEF rows
<1>5. f \in FeedTables /\ f.store = NoStore /\ f.row = rows /\ f.buffer = {}
  BY <1>2, <1>3, <1>4 DEF FeedTables
<1>6. BufferRight({}, {})
  BY DEF BufferRight, NoTwins
<1>7. KnowsStore({}, NoStore)
  BY DEF KnowsStore, NoneIn
<1>8. \A p \in Products : RowRight({}, {}, p, rows[p])
  BY <1>3 DEF RowRight
<1> QED BY <1>1, <1>5, <1>6, <1>7, <1>8 DEF FeedKnows

LEMMA StoreTimesFinite ==
  ASSUME StoreLogInv PROVE IsFiniteSet(Times) /\ Times \subseteq Int
<1>1. Times = 1 .. Len(log) /\ Len(log) \in Nat
  BY DEF Times, StoreLogInv
<1>2. IsFiniteSet(1 .. Len(log))
  BY <1>1, FS_Interval
<1> QED BY <1>1, <1>2

Replayed == [t \in Times |-> t]

\* What a rebuild of the feed makes of each part of the archive.
FeedRebuilds(g) ==
  g = [S \in SUBSET (DOMAIN Replayed) |->
         IF S = {} THEN EmptyFeed ELSE Project(g[S \ {Max(S)}], Replayed[Max(S)])]

LEMMA FeedRebuildIsReplay ==
  ASSUME \E g : FeedRebuilds(g)
  PROVE  \E g : FeedRebuilds(g) /\ FoldLeft(Project, EmptyFeed, Replayed) = g[DOMAIN Replayed]
<1> DEFINE h == CHOOSE g : FeedRebuilds(g)
<1>1. FeedRebuilds(h)
  BY Zenon
<1>2. FoldLeft(Project, EmptyFeed, Replayed) = h[DOMAIN Replayed]
  BY DEF FoldLeft, MapThenFoldSet, FeedRebuilds
<1> QED BY <1>1, <1>2

LEMMA FeedReplayExists ==
  ASSUME StoreLogInv, PricesInv
  PROVE  \E g : FeedRebuilds(g)
<1> DEFINE S == Times
           pick == Largest(S)
           V == {f \in FeedTables : \E D \in SUBSET S : FeedKnows(f, D)}
           step == [x \in S \X V |-> Project(x[2], x[1])]
<1>1. IsFiniteSet(S) /\ Picks(pick, S)
  BY StoreTimesFinite, LargestPicks
<1>2. EmptyFeed \in V
  BY EmptyFeedKnows DEF FeedKnows
<1>3. ASSUME NEW t \in S, NEW f \in V PROVE Project(f, t) \in V
  <2>1. PICK D \in SUBSET S : FeedKnows(f, D)
    BY <1>3
  <2>2. FeedKnows(Project(f, t), D \cup {t}) /\ D \cup {t} \in SUBSET S
    BY <2>1, ProjectKeeps
  <2> QED BY <2>2 DEF FeedKnows
<1>4. step \in [S \X V -> V]
  <2> HIDE DEF S, V
  <2> QED BY <1>3
<1>5. \E g \in [SUBSET S -> V] : IsFold(g, S, EmptyFeed, pick, step)
  <2> HIDE DEF S, pick, step, V
  <2> QED BY <1>1, <1>2, <1>4, FoldExists
<1>6. PICK g \in [SUBSET S -> V] : IsFold(g, S, EmptyFeed, pick, step)
  BY <1>5
<1>7. DOMAIN Replayed = S /\ \A t \in S : Replayed[t] = t
  BY DEF Replayed
<1>8. ASSUME NEW s \in SUBSET S, s # {}
      PROVE  g[s] = Project(g[s \ {Max(s)}], Replayed[Max(s)])
  <2>1. g[s] = step[<<pick[s], g[s \ {pick[s]}]>>]
    <3> HIDE DEF S, pick, step, V
    <3> QED BY <1>6, <1>8, FoldUnfolds
  <2>2. PICK m : m = Max(s)
    OBVIOUS
  <2>3. pick[s] = m /\ m \in S
    BY <1>1, <1>8, <2>2 DEF Largest, Max, Picks
  <2> HIDE DEF V, pick
  <2>4. g[s \ {m}] \in V
    OBVIOUS
  <2>5. <<m, g[s \ {m}]>> \in S \X V
    BY <2>3, <2>4
  <2>6. step[<<m, g[s \ {m}]>>] = Project(g[s \ {m}], m)
    BY <2>5
  <2> HIDE DEF step
  <2> QED BY <1>7, <2>1, <2>2, <2>3, <2>6
<1>9. g[{}] = EmptyFeed
  <2> HIDE DEF S, pick, step, V
  <2> QED BY <1>6, FoldEmpty
<1>10. g = [s \in SUBSET S |-> g[s]]
  <2> HIDE DEF V
  <2> QED OBVIOUS
<1>11. FeedRebuilds(g)
  <2> HIDE DEF S, V
  <2>1. [s \in SUBSET S |-> g[s]] = [s \in SUBSET S |->
           IF s = {} THEN EmptyFeed ELSE Project(g[s \ {Max(s)}], Replayed[Max(s)])]
    BY <1>8, <1>9
  <2> QED BY <1>7, <1>10, <2>1 DEF FeedRebuilds
<1> QED BY <1>11

\* A rebuilt feed knows all that the log tells.
LEMMA RebuiltFeedKnows ==
  ASSUME StoreLogInv, PricesInv
  PROVE  FeedKnows(FoldLeft(Project, EmptyFeed, [t \in Times |-> t]), Times)
<1>1. PICK g : /\ FeedRebuilds(g)
               /\ FoldLeft(Project, EmptyFeed, Replayed) = g[DOMAIN Replayed]
  BY FeedReplayExists, FeedRebuildIsReplay
<1> DEFINE S == Times
           pick == Largest(S)
           J == {U \in SUBSET S : FeedKnows(g[U], U)}
           h == [s \in SUBSET (DOMAIN Replayed) |->
                   IF s = {} THEN EmptyFeed ELSE Project(g[s \ {Max(s)}], Replayed[Max(s)])]
<1>2. IsFiniteSet(S) /\ Picks(pick, S)
  BY StoreTimesFinite, LargestPicks
<1>3. DOMAIN Replayed = S /\ \A t \in S : Replayed[t] = t
  BY DEF Replayed
<1>4. g = h
  BY <1>1 DEF FeedRebuilds
<1>5. /\ h[{}] = EmptyFeed
      /\ \A s \in SUBSET S : s # {} => h[s] = Project(g[s \ {Max(s)}], Replayed[Max(s)])
  <2> HIDE DEF S
  <2> QED BY <1>3
<1> HIDE DEF h
<1>6. {} \in J
  BY <1>4, <1>5, EmptyFeedKnows
<1>7. ASSUME NEW s \in SUBSET S, s # {}, s \ {pick[s]} \in J PROVE s \in J
  <2>1. PICK m : m = Max(s)
    OBVIOUS
  <2>2. pick[s] = m /\ m \in s
    BY <1>2, <1>7, <2>1 DEF Largest, Max, Picks
  <2>3. FeedKnows(g[s \ {m}], s \ {m})
    BY <1>7, <2>2
  <2>4. FeedKnows(Project(g[s \ {m}], m), (s \ {m}) \cup {m})
    BY <2>2, <2>3, ProjectKeeps
  <2>5. g[s] = Project(g[s \ {m}], m) /\ (s \ {m}) \cup {m} = s
    BY <1>3, <1>4, <1>5, <1>7, <2>1, <2>2
  <2> QED BY <2>4, <2>5
<1>8. S \in J
  <2> HIDE DEF J, S, pick
  <2>1. Hereditary(J, S, pick)
    BY <1>6, <1>7 DEF Hereditary
  <2> QED BY <1>2, <2>1, SetInduction
<1> QED BY <1>1, <1>3, <1>8 DEF Replayed
-----------------------------------------------------------------------------
(***************************************************************************)
(* The feed and the log.                                                   *)
(***************************************************************************)
\* The feed knows the events that were handled, and perhaps more.
FeedInv ==
  /\ StoreLogInv /\ PricesInv /\ given \subseteq Times
  /\ \E S \in SUBSET Times : handled \subseteq S /\ FeedKnows(feed, S)

LEMMA FeedLasts ==
  ASSUME StoreLogInv, LogExtends, NEW S, S \subseteq Times, NEW f, FeedKnows(f, S)
  PROVE  FeedKnows(f, S)'
<1>1. \A t \in S : t \in Times /\ t \in Times' /\ log'[t] = log[t]
  BY DEF LogExtends
<1>2. \A t \in S : Offers'[t] = Offers[t] /\ Stocks'[t] = Stocks[t]
  BY <1>1 DEF Offers, Stocks
<1>3. \A x, t : t \in S => (Of(x, t)' <=> Of(x, t)) /\ (Begun(x, t)' <=> Begun(x, t))
  BY <1>1 DEF Of, Begun
<1>4. f \in FeedTables /\ BufferRight(f.buffer, S) /\ KnowsStore(S, f.store)
  BY DEF FeedKnows
<1>5. BufferRight(f.buffer, S)'
  BY <1>1, <1>4 DEF BufferRight
<1>6. KnowsStore(S, f.store)'
  <2>1. CASE NoneIn(S, Store) /\ f.store = NoStore
    BY <1>3, <2>1 DEF KnowsStore, NoneIn
  <2>2. ASSUME NEW t \in S, NewestIn(S, Store, t), f.store = StoreStateOf(log[t])
        PROVE  KnowsStore(S, f.store)'
    <3>1. NewestIn(S, Store, t)'
      BY <1>3, <2>2 DEF NewestIn
    <3>2. f.store = StoreStateOf(log'[t])
      BY <1>1, <2>2
    <3> QED BY <3>1, <3>2 DEF KnowsStore
  <2> QED BY <1>4, <2>1, <2>2 DEF KnowsStore
<1>7. ASSUME NEW p \in Products PROVE RowRight(S, f.buffer, p, f.row[p])'
  <2>1. PICK r, B : r = f.row[p] /\ B = f.buffer
    OBVIOUS
  <2>2. RowRight(S, B, p, r)
    BY <2>1 DEF FeedKnows
  <2>3. ASSUME NEW t \in S, Of(p, t)' PROVE Caught(B, r, log'[t])
    BY <1>1, <1>3, <2>2, <2>3 DEF RowRight
  <2>4. ASSUME NEW value, NEW type, Tops(S, p, r, value, type, Offers)
        PROVE  Tops(S, p, r, value, type, Offers)'
    <3>1. \A t \in S : Sets(p, t, type)' <=> Sets(p, t, type)
      BY <1>1, <1>3 DEF Sets
    <3>2. PICK s \in S : /\ Sets(p, s, type) /\ Offers[s] = value
                         /\ log[s].publication <= r.publication
                         /\ r.published => log[s].publication = r.publication
      BY <2>4 DEF Tops
    <3>3. ASSUME r.published, NEW t \in S, Sets(p, t, type)', log'[t].publication = r.publication
          PROVE  Offers'[t] <= value
      BY <1>1, <1>2, <2>4, <3>1, <3>3 DEF Tops
    <3> QED BY <1>1, <1>2, <3>1, <3>2, <3>3 DEF Tops
  <2>5. ASSUME NEW value, NEW type, Tops(S, p, r, value, type, Stocks)
        PROVE  Tops(S, p, r, value, type, Stocks)'
    <3>1. \A t \in S : Sets(p, t, type)' <=> Sets(p, t, type)
      BY <1>1, <1>3 DEF Sets
    <3>2. PICK s \in S : /\ Sets(p, s, type) /\ Stocks[s] = value
                         /\ log[s].publication <= r.publication
                         /\ r.published => log[s].publication = r.publication
      BY <2>5 DEF Tops
    <3>3. ASSUME r.published, NEW t \in S, Sets(p, t, type)', log'[t].publication = r.publication
          PROVE  Stocks'[t] <= value
      BY <1>1, <1>2, <2>5, <3>1, <3>3 DEF Tops
    <3> QED BY <1>1, <1>2, <3>1, <3>2, <3>3 DEF Tops
  <2>6. ASSUME Stands(S, p, r) PROVE Stands(S, p, r)'
    <3>1. PICK m \in S : IsState(p, m, r)
      BY <2>6 DEF Stands
    <3>2. IsState(p, m, r)'
      BY <1>1, <1>3, <3>1 DEF IsState
    <3>3. r.first \in S /\ Begun(p, r.first)' /\ \A t \in S : Begun(p, t)' => r.first <= t
      BY <1>3, <2>6 DEF Stands
    <3>4. Tops(S, p, r, r.offer, "VariantPriceChanged", Offers)'
      BY <2>4, <2>6 DEF Stands
    <3>5. Tops(S, p, r, r.stock, "VariantAvailabilityChanged", Stocks)'
      BY <2>5, <2>6 DEF Stands
    <3> QED BY <3>2, <3>3, <3>4, <3>5 DEF Stands
  <2>7. RowRight(S, B, p, r)'
    BY <2>2, <2>3, <2>6 DEF RowRight
  <2> QED BY <2>1, <2>7
<1> QED BY <1>4, <1>5, <1>6, <1>7 DEF FeedKnows

LEMMA FeedStays ==
  ASSUME FeedInv, StorefrontNext \/ UNCHANGED storefrontVars, UNCHANGED feedVars
  PROVE  FeedInv'
<1>1. StoreLogInv' /\ LogExtends
  BY StorefrontStep, StorefrontStays, LogLasts DEF FeedInv
<1>2. PricesInv'
  <2>1. CASE StorefrontNext
    BY <2>1, PricesStep DEF FeedInv
  <2>2. CASE UNCHANGED storefrontVars
    <3>1. product' = product /\ log' = log
      BY <2>2 DEF storefrontVars
    <3>2. PricesRise
      BY <3>1 DEF PricesRise, FeedInv, StoreLogInv, ProductRow
    <3> QED BY <1>1, <3>1, <3>2, PricesStay DEF FeedInv
  <2> QED BY <2>1, <2>2
<1>3. given' \subseteq Times'
  BY <1>1 DEF FeedInv, feedVars, LogExtends
<1>4. PICK S \in SUBSET Times : handled \subseteq S /\ FeedKnows(feed, S)
  BY DEF FeedInv
<1>5. PICK f : f = feed
  OBVIOUS
<1>6. feed' = f /\ handled' \subseteq S /\ S \in SUBSET Times'
  BY <1>1, <1>4, <1>5 DEF feedVars, LogExtends
<1>7. FeedKnows(f, S)'
  BY <1>1, <1>4, <1>5, FeedLasts DEF FeedInv
<1>8. FeedKnows(feed, S)'
  BY <1>6, <1>7
<1> QED BY <1>1, <1>2, <1>3, <1>6, <1>8 DEF FeedInv

LEMMA FeedHandles ==
  ASSUME FeedInv, FeedNext, UNCHANGED storefrontVars
  PROVE  FeedInv'
<1>1. StoreLogInv' /\ log' = log /\ Times' = Times /\ PricesInv'
  <2>1. product' = product /\ log' = log
    BY DEF storefrontVars
  <2>2. StoreLogInv' /\ LogExtends
    BY StorefrontStays, LogLasts DEF FeedInv
  <2>3. PricesRise
    BY <2>1 DEF PricesRise, FeedInv, StoreLogInv, ProductRow
  <2> QED BY <2>1, <2>2, <2>3, PricesStay DEF FeedInv, Times
<1>2. PICK S \in SUBSET Times : handled \subseteq S /\ FeedKnows(feed, S)
  BY DEF FeedInv
<1>3. ASSUME NEW U \in SUBSET Times, NEW f, FeedKnows(f, U), feed' = f, handled' \subseteq U,
             given' \subseteq Times
      PROVE  FeedInv'
  <2>1. LogExtends
    BY <1>1 DEF LogExtends
  <2>2. FeedKnows(f, U)'
    BY <1>3, <2>1, FeedLasts DEF FeedInv
  <2>3. FeedKnows(feed, U)'
    BY <1>3, <2>2
  <2> QED BY <1>1, <1>3, <2>3 DEF FeedInv
<1>4. ASSUME NEW t \in Times, Deliver(t) PROVE FeedInv'
  <2>1. FeedKnows(Project(feed, t), S \cup {t})
    BY <1>2, ProjectKeeps DEF FeedInv
  <2>2. PICK f : f = Project(feed, t)
    OBVIOUS
  <2>3. feed' = f /\ handled' \subseteq S \cup {t} /\ given' \subseteq Times
        /\ S \cup {t} \in SUBSET Times
    BY <1>2, <1>4, <2>2 DEF Deliver, FeedInv
  <2> QED BY <1>3, <2>1, <2>2, <2>3
<1>5. ASSUME NEW t \in Times, GiveUp(t) PROVE FeedInv'
  <2>1. PICK f : f = feed
    OBVIOUS
  <2>2. feed' = f /\ handled' \subseteq S /\ given' \subseteq Times /\ FeedKnows(f, S)
    BY <1>2, <1>5, <2>1 DEF GiveUp, FeedInv
  <2> QED BY <1>3, <2>2
<1>6. CASE Rebuild
  <2>1. PICK f : f = FoldLeft(Project, EmptyFeed, [t \in Times |-> t])
    OBVIOUS
  <2>2. FeedKnows(f, Times)
    BY <2>1, RebuiltFeedKnows DEF FeedInv
  <2>3. feed' = f /\ handled' \subseteq Times /\ given' \subseteq Times
    BY <1>6, <2>1 DEF Rebuild
  <2> QED BY <1>3, <2>2, <2>3
<1> QED BY <1>4, <1>5, <1>6 DEF FeedNext

LEMMA FeedStep == ASSUME FeedInv, [Next]_vars PROVE FeedInv'
<1>1. CASE StorefrontNext /\ UNCHANGED feedVars
  BY <1>1, FeedStays
<1>2. CASE FeedNext /\ UNCHANGED storefrontVars
  BY <1>2, FeedHandles
<1>3. CASE UNCHANGED storefrontVars /\ UNCHANGED feedVars
  BY <1>3, FeedStays
<1> QED BY <1>1, <1>2, <1>3 DEF Next, vars

LEMMA FeedStarts == ASSUME Init PROVE FeedInv
<1>1. StoreLogInv
  BY StorefrontStarts DEF Init
<1>2. Times = {}
  BY DEF Times, Init, StorefrontInit
<1>3. PricesInv
  BY <1>2 DEF PricesInv
<1>4. feed = EmptyFeed /\ handled = {} /\ given = {}
  BY DEF Init, FeedInit
<1>5. FeedKnows(feed, {})
  BY <1>4, EmptyFeedKnows
<1> QED BY <1>1, <1>3, <1>4, <1>5 DEF FeedInv

\* While the feed is healthy nothing waits, and a withdrawal is in the row.
LEMMA WithdrawnAreOlder == ASSUME FeedInv PROVE WithdrawnIsNotListed
<1>1. PICK S \in SUBSET Times : handled \subseteq S /\ FeedKnows(feed, S)
  BY DEF FeedInv
<1>2. StoreLogInv
  BY DEF FeedInv
<1>3. ASSUME NEW p \in Products, Listed(p), NEW t \in handled,
             log[t].type = "ProductUnpublished", log[t].subject = p
      PROVE  Newer(feed.row[p], log[t])
  <2>1. PICK r, B : r = feed.row[p] /\ B = feed.buffer
    OBVIOUS
  <2>2. B = {} /\ r.published /\ RowRight(S, B, p, r) /\ t \in S /\ t \in Times /\ Of(p, t)
    BY <1>1, <1>3, <2>1 DEF Listed, Healthy, FeedKnows, Of
  <2>3. ~Newer(log[t], r)
    BY <1>3, <2>2 DEF RowRight, Caught, Waits
  <2>4. PICK m \in S : IsState(p, m, r)
    BY <2>2 DEF RowRight, Stands, NoRow
  <2>5. /\ m \in Times /\ log[m].subject = log[t].subject /\ log[m].type = "ProductPublished"
        /\ r.publication = log[m].publication /\ r.aggregate = log[m].aggregate
    BY <1>3, <2>2, <2>4 DEF IsState, Of
  <2>6. m # t
    BY <1>3, <2>5
  <2>7. /\ m \in Nat /\ t \in Nat /\ log[m].publication \in Nat /\ log[m].aggregate \in Nat
        /\ log[t].publication \in Nat /\ log[t].aggregate \in Nat
    BY <1>2, <2>2, <2>5, EventTypes
  <2>8. m < t <=> log[m].aggregate < log[t].aggregate
    BY <1>2, <2>2, <2>5, LaterIsLarger
  <2>9. t < m <=> log[t].aggregate < log[m].aggregate
    BY <1>2, <2>2, <2>5, LaterIsLarger
  <2>10. Newer(r, log[t])
    BY <2>3, <2>5, <2>6, <2>7, <2>8, <2>9 DEF Newer
  <2> QED BY <2>1, <2>10
<1>4. ASSUME NEW p \in Products, Listed(p), NEW t \in handled, log[t].type = "StoreUnpublished"
      PROVE  Newer(feed.store, log[t])
  <2>1. PICK s : s = feed.store
    OBVIOUS
  <2>2. s.published /\ KnowsStore(S, s) /\ t \in S /\ t \in Times
    BY <1>1, <1>4, <2>1 DEF Listed, FeedKnows
  <2>3. Of(Store, t)
    BY <1>2, <1>4, <2>2 DEF StoreLogInv, StoreEvents
  <2>4. PICK u \in S : NewestIn(S, Store, u) /\ s = StoreStateOf(log[u])
    BY <2>2 DEF KnowsStore, NoStore
  <2>5. /\ u \in Times /\ Of(Store, u) /\ t <= u /\ log[u].type = "StorePublished"
        /\ s.publication = log[u].publication /\ s.aggregate = log[u].aggregate
    BY <2>2, <2>3, <2>4 DEF NewestIn, StoreStateOf
  <2>6. t < u /\ log[t].subject = log[u].subject
    BY <1>2, <1>4, <2>2, <2>3, <2>5, EventTypes DEF Of
  <2>7. log[t].aggregate < log[u].aggregate /\ log[t].publication <= log[u].publication
    BY <1>2, <2>2, <2>5, <2>6 DEF StoreLogInv, Ordered
  <2>8. Newer(s, log[t])
    <3>1. /\ log[u].publication \in Nat /\ log[u].aggregate \in Nat
          /\ log[t].publication \in Nat /\ log[t].aggregate \in Nat
      BY <1>2, <2>2, <2>5, EventTypes
    <3> QED BY <2>5, <2>7, <3>1 DEF Newer
  <2> QED BY <2>1, <2>8
<1> QED BY <1>3, <1>4 DEF WithdrawnIsNotListed

\* Who knows all events knows of each product what its row says,
LEMMA RowAgrees ==
  ASSUME StoreLogInv, PricesInv, NEW f, FeedKnows(f, Times), NEW p \in Products,
         NEW r, r = f.row[p], NEW t \in Times, Begun(p, t)
  PROVE  /\ Stands(Times, p, r) /\ r.publication = product[p].publication
         /\ r.published <=> product[p].state = "PUBLISHED"
<1>1. RowRight(Times, f.buffer, p, r) /\ r.publication \in Nat /\ r.aggregate \in Nat
  BY RowKnown
<1>2. Of(p, t) /\ log[t].type = "ProductPublished"
  BY DEF Begun
<1>3. Stands(Times, p, r)
  <2>1. ~Newer(log[t], r)
    BY <1>1, <1>2 DEF RowRight, Caught
  <2>2. 1 <= log[t].publication /\ log[t].publication \in Nat
    BY <1>2, ToldTypes
  <2>3. r # NoRow
    BY <2>1, <2>2 DEF Newer, NoRow
  <2> QED BY <1>1, <2>3 DEF RowRight
<1>4. PICK public : public = (product[p].state = "PUBLISHED")
  OBVIOUS
<1>5. ToldOfRow(p, product[p], public)
  BY <1>4 DEF StoreLogInv
<1>6. PICK w \in Times : /\ Of(p, w) /\ TellsOfMarket(w)
                         /\ log[w].publication = product[p].publication
                         /\ Opens(w) <=> public
                         /\ \A u \in Times : Of(p, u) /\ TellsOfMarket(u) => u <= w
  BY <1>2, <1>5 DEF ToldOfRow
<1>7. /\ w \in Nat /\ log[w].publication \in Nat /\ log[w].aggregate \in Nat
      /\ log[w].type \in ProductEvents
  <2>1. log[w].type \notin StoreEvents
    BY <1>6, ToldTypes DEF StoreEvents, ProductEvents, VersionEvents
  <2> QED BY <1>6, <2>1, EventTypes DEF TellsOfMarket
<1>8. Opens(w) <=> log[w].type = "ProductPublished"
  BY <1>7 DEF Opens, Opening, ProductEvents
<1>9. PICK m \in Times : IsState(p, m, r)
  BY <1>3 DEF Stands
<1>10. /\ Of(p, m) /\ m \in Nat /\ log[m].subject = log[w].subject /\ TellsOfMarket(m)
       /\ r.publication = log[m].publication /\ r.aggregate = log[m].aggregate
       /\ r.published <=> log[m].type = "ProductPublished"
  BY <1>6, <1>9, EventTypes DEF IsState, Of, TellsOfMarket
<1>11. m <= w
  BY <1>6, <1>10
<1>12. m < w => /\ log[m].aggregate < log[w].aggregate
                /\ log[m].publication <= log[w].publication
                /\ Opens(w) => log[m].publication < log[w].publication
  BY <1>6, <1>10 DEF StoreLogInv, Ordered
<1>13. m < w => Newer(log[w], r)
  BY <1>1, <1>7, <1>10, <1>12 DEF Newer
<1>14. Caught(f.buffer, r, log[w])
  BY <1>1, <1>6 DEF RowRight
<1>15. CASE log[w].type = "ProductPublished"
  <2>1. ~Newer(log[w], r)
    BY <1>14, <1>15 DEF Caught
  <2>2. m = w
    BY <1>7, <1>10, <1>11, <1>13, <2>1
  <2> QED BY <1>3, <1>4, <1>6, <1>8, <1>10, <1>15, <2>2
<1>16. CASE log[w].type = "ProductUnpublished"
  <2>1. ~public
    BY <1>6, <1>8, <1>16
  <2>2. PICK s \in Times : Begun(p, s) /\ log[s].publication = log[w].publication
    <3>1. PriceTold(p, w)
      BY <1>6 DEF PricesInv
    <3> QED BY <3>1 DEF PriceTold
  <2>3. log[w].publication <= r.publication
    <3>1. ~Newer(log[s], r)
      BY <1>1, <2>2 DEF RowRight, Caught, Begun
    <3> QED BY <1>1, <1>7, <2>2, <3>1 DEF Newer
  <2>4. r.publication = log[w].publication
    <3>1. log[m].publication <= log[w].publication
      BY <1>7, <1>10, <1>11, <1>12
    <3> QED BY <1>1, <1>7, <1>10, <2>3, <3>1
  <2>5. ~r.published
    <3>1. SUFFICES ASSUME r.published PROVE FALSE
      OBVIOUS
    <3>2. log[m].type = "ProductPublished"
      BY <1>10, <3>1
    <3>3. m # w
      BY <1>16, <3>2
    <3>4. m < w
      BY <1>7, <1>10, <1>11, <3>3
    <3>5. Newer(log[w], r)
      BY <1>13, <3>4
    <3>6. r.publication < log[w].publication
      BY <1>14, <1>16, <3>1, <3>5 DEF Caught
    <3> QED BY <1>1, <1>7, <2>4, <3>6
  <2> QED BY <1>3, <1>4, <1>6, <2>1, <2>4, <2>5
<1> QED BY <1>7, <1>15, <1>16 DEF ProductEvents

\* and of the store.
LEMMA StoreAgrees ==
  ASSUME StoreLogInv, NEW row, KnowsStore(Times, row)
  PROVE  row.published = (store.status = "PUBLISHED") /\ row.publication = store.publication
<1>1. row.published = (store.status = "PUBLISHED")
  BY KnowsAllOfStore DEF StoreTimes
<1>2. PICK public : public = (store.status = "PUBLISHED")
  OBVIOUS
<1>3. ToldOfRow(Store, store, public)
  BY <1>2 DEF StoreLogInv
<1>4. ASSUME NoneIn(Times, Store), row = NoStore PROVE row.publication = store.publication
  <2>1. store.publication = 0
    BY <1>3, <1>4 DEF ToldOfRow, NoneIn
  <2> QED BY <1>4, <2>1 DEF NoStore
<1>5. ASSUME NEW u \in Times, NewestIn(Times, Store, u), row = StoreStateOf(log[u])
      PROVE  row.publication = store.publication
  <2>1. Of(Store, u)
    BY <1>5 DEF NewestIn
  <2>2. PICK w \in Times : /\ Of(Store, w) /\ TellsOfMarket(w)
                           /\ log[w].publication = store.publication
                           /\ \A v \in Times : Of(Store, v) /\ TellsOfMarket(v) => v <= w
    BY <1>3, <2>1 DEF ToldOfRow
  <2>3. TellsOfMarket(u)
    BY <2>1 DEF StoreLogInv, TellsOfMarket
  <2>4. u <= w /\ w <= u
    BY <1>5, <2>1, <2>2, <2>3 DEF NewestIn
  <2>5. u = w
    BY <2>4, EventTypes
  <2> QED BY <1>5, <2>2, <2>5 DEF StoreStateOf
<1> QED BY <1>1, <1>4, <1>5 DEF KnowsStore

\* The least and the greatest of a set are what bounds it and is in it.
LEMMA MinIs == ASSUME NEW T \in SUBSET Nat, NEW x \in T, \A y \in T : x <= y PROVE x = Min(T)
<1>1. PICK m : m = Min(T)
  OBVIOUS
<1>2. m \in T /\ \A y \in T : m <= y
  BY <1>1 DEF Min
<1>3. m <= x /\ x <= m /\ m \in Nat /\ x \in Nat
  BY <1>2
<1> QED BY <1>1, <1>3

LEMMA MaxIs == ASSUME NEW T \in SUBSET Nat, NEW x \in T, \A y \in T : y <= x PROVE x = Max(T)
<1>1. PICK m : m = Max(T)
  OBVIOUS
<1>2. m \in T /\ \A y \in T : m >= y
  BY <1>1 DEF Max
<1>3. m >= x /\ m <= x /\ m \in Nat /\ x \in Nat
  BY <1>2
<1> QED BY <1>1, <1>3

LEMMA TopsIsMax ==
  ASSUME StoreLogInv, NEW p \in Products, NEW r, r.published, NEW value, NEW type, NEW V,
         \A t \in Times : V[t] \in Nat, Tops(Times, p, r, value, type, V), NEW T,
         T = {V[t] : t \in {u \in Times : /\ log[u].subject = p /\ log[u].publication = r.publication
                                          /\ log[u].type \in {"ProductPublished", type}}}
  PROVE  value = Max(T)
<1>1. T \in SUBSET Nat
  OBVIOUS
<1>2. PICK s \in Times : Sets(p, s, type) /\ V[s] = value /\ log[s].publication = r.publication
  BY DEF Tops
<1>3. value \in T
  BY <1>2 DEF Sets, Of
<1>4. \A y \in T : y <= value
  BY DEF Tops, Sets, Of
<1> QED BY <1>1, <1>3, <1>4, MaxIs

LEMMA AllHandledAgrees == ASSUME FeedInv PROVE FeedAgrees
<1>1. SUFFICES ASSUME handled = Times PROVE FeedAgrees
  BY DEF FeedAgrees
<1>2. PICK S \in SUBSET Times : handled \subseteq S /\ FeedKnows(feed, S)
  BY DEF FeedInv
<1>3. S = Times
  BY <1>1, <1>2
<1>4. PICK f : f = feed
  OBVIOUS
<1>5. StoreLogInv /\ PricesInv /\ FeedKnows(f, Times)
  BY <1>2, <1>3, <1>4 DEF FeedInv
<1>6. f.store.published = (store.status = "PUBLISHED") /\ f.store.publication = store.publication
  BY <1>5, StoreAgrees DEF FeedKnows
<1>7. ASSUME NEW p \in Products, TimesOf(p, "ProductPublished") = {} PROVE f.row[p] = NoRow
  <2>1. RowRight(Times, f.buffer, p, f.row[p])
    BY <1>5 DEF FeedKnows
  <2>2. \A t \in Times : ~Begun(p, t)
    BY <1>7 DEF TimesOf, Begun, Of
  <2> QED BY <2>1, <2>2 DEF RowRight, Stands
<1>8. ASSUME NEW p \in Products, TimesOf(p, "ProductPublished") # {}, NEW r, r = f.row[p]
      PROVE  /\ r.published = (product[p].state = "PUBLISHED")
             /\ r.publication = product[p].publication
             /\ r.first = Min(TimesOf(p, "ProductPublished"))
             /\ r.published =>
                  /\ r.offer = Max(NewestTold(p, r.publication, "VariantPriceChanged", OfferOf))
                  /\ r.stock = Max(NewestTold(p, r.publication, "VariantAvailabilityChanged", StockOf))
  <2>1. PICK t \in Times : Begun(p, t)
    BY <1>8 DEF TimesOf, Begun, Of
  <2>2. /\ Stands(Times, p, r) /\ r.publication = product[p].publication
        /\ r.published <=> product[p].state = "PUBLISHED"
    BY <1>5, <1>8, <2>1, RowAgrees
  <2>3. r.published \in BOOLEAN
    BY <1>5, <1>8, RowKnown
  <2>4. r.published = (product[p].state = "PUBLISHED")
    BY <2>2, <2>3
  <2>5. r.first = Min(TimesOf(p, "ProductPublished"))
    <3>1. TimesOf(p, "ProductPublished") \in SUBSET Nat
      BY <1>5, EventTypes DEF TimesOf
    <3>2. \A u : u \in TimesOf(p, "ProductPublished") <=> u \in Times /\ Begun(p, u)
      BY DEF TimesOf, Begun, Of
    <3>3. /\ r.first \in TimesOf(p, "ProductPublished")
          /\ \A u \in TimesOf(p, "ProductPublished") : r.first <= u
      BY <2>2, <3>2 DEF Stands
    <3> QED BY <3>1, <3>3, MinIs
  <2>6. \A u \in Times : /\ Offers[u] = log[u].offer /\ Offers[u] \in Nat
                         /\ Stocks[u] = log[u].stock /\ Stocks[u] \in Nat
    BY <1>5, PriceTypes DEF Offers, Stocks
  <2>7. ASSUME r.published
        PROVE  r.offer = Max(NewestTold(p, r.publication, "VariantPriceChanged", OfferOf))
    <3> DEFINE U == {u \in Times : /\ log[u].subject = p /\ log[u].publication = r.publication
                                   /\ log[u].type \in {"ProductPublished", "VariantPriceChanged"}}
    <3>1. NewestTold(p, r.publication, "VariantPriceChanged", OfferOf) = {log[u].offer : u \in U}
      BY DEF NewestTold, OfferOf
    <3>2. {log[u].offer : u \in U} = {Offers[u] : u \in U}
      BY <2>6
    <3>3. Tops(Times, p, r, r.offer, "VariantPriceChanged", Offers)
      BY <2>2 DEF Stands
    <3>4. PICK T : T = {Offers[u] : u \in U}
      OBVIOUS
    <3>5. r.offer = Max(T)
      BY <1>5, <2>6, <2>7, <3>3, <3>4, TopsIsMax
    <3> HIDE DEF U
    <3> QED BY <3>1, <3>2, <3>4, <3>5
  <2>8. ASSUME r.published
        PROVE  r.stock = Max(NewestTold(p, r.publication, "VariantAvailabilityChanged", StockOf))
    <3> DEFINE U == {u \in Times : /\ log[u].subject = p /\ log[u].publication = r.publication
                                   /\ log[u].type \in {"ProductPublished", "VariantAvailabilityChanged"}}
    <3>1. NewestTold(p, r.publication, "VariantAvailabilityChanged", StockOf) = {log[u].stock : u \in U}
      BY DEF NewestTold, StockOf
    <3>2. {log[u].stock : u \in U} = {Stocks[u] : u \in U}
      BY <2>6
    <3>3. Tops(Times, p, r, r.stock, "VariantAvailabilityChanged", Stocks)
      BY <2>2 DEF Stands
    <3>4. PICK T : T = {Stocks[u] : u \in U}
      OBVIOUS
    <3>5. r.stock = Max(T)
      BY <1>5, <2>6, <2>8, <3>3, <3>4, TopsIsMax
    <3> HIDE DEF U
    <3> QED BY <3>1, <3>2, <3>4, <3>5
  <2> QED BY <2>2, <2>4, <2>5, <2>7, <2>8
<1> QED BY <1>4, <1>6, <1>7, <1>8 DEF FeedAgrees

\* The feed's tables are what the events it was given say, in whatever order they came
\* and however often they were replayed: each row stands for the newest state, first
\* publication and newest versions among them, and what is not in a row waits in a
\* buffer (the projection of postgres-discovery-projection).
THEOREM FeedFollowsLog == Spec => []FeedInv
<1>1. Init => FeedInv
  BY FeedStarts
<1>2. FeedInv /\ [Next]_vars => FeedInv'
  BY FeedStep
<1> QED BY <1>1, <1>2, PTL DEF Spec

\* The feed shows no withdrawn product, nor anything of a withdrawn store, and once every
\* event is handled it shows what the producers say.
THEOREM FeedIsRight == Spec => []FeedIsTrue
<1>1. FeedInv => FeedIsTrue
  BY WithdrawnAreOlder, AllHandledAgrees DEF FeedIsTrue
<1> QED BY <1>1, FeedFollowsLog, PTL
=============================================================================
