--------------------------- MODULE ProductEditing ---------------------------
(***************************************************************************)
(* The seller's product editor against the product API: one editor in      *)
(* detail and, as Elsewhere, whatever else writes the same product, be it  *)
(* another window, the inventory screen or a sale.  Every write names the  *)
(* revision it builds on and carries an idempotency key, which the editor  *)
(* keeps while it sends the same payload.  A save of a live product goes   *)
(* on, when asked to, with the prices and then the stock.                  *)
(*                                                                         *)
(* What a field holds is known by the revision that last wrote it: the     *)
(* product's for details (name, texts, images, variants) and prices, the   *)
(* inventory's own for stock.  The seller may type anything, so that any   *)
(* save writes all it carries.  Readiness, images on their way and what    *)
(* the public sees are left out.                                           *)
(***************************************************************************)
EXTENDS Naturals, FiniteSets

CONSTANTS
  Keys,       \* idempotency keys, used again when nothing refers to them
  LateBound,  \* requests given up that may still arrive
  None        \* no request, no reading, no last payload

VARIABLES
  product,  \* the rows of the product, its offers and its inventory level
  answers,  \* stored answers whose key a request still carries
  editor,   \* state of the editor's component
  asked,    \* its five references to the last payload and its key, by kind
  call,     \* its outstanding write with what is to follow
  reading,  \* its outstanding reading, or the conflict it shows
  late      \* requests given up after three tries, perhaps still on their way

editingVars == <<product, answers, editor, asked, call, reading, late>>

\* A save names the stock it builds on only while the product is a draft.
Saves == {"SAVE_DRAFT", "SAVE_LIVE"}
Kinds == Saves \cup {"OFFERS", "STOCK", "PUBLISH", "UNPUBLISH"}
Purposes == {"LOAD", "CONFLICT", "APPLIED", "PREVIEW"}
Afterwards == {"STAY", "PREVIEW", "EXIT"}

SeenIn(p) == [details |-> p.details, price |-> p.price, stock |-> p.stock]
Nothing == [details |-> 0, price |-> 0, stock |-> 0]

Versions == [details : Nat, price : Nat, stock : Nat]
ProductRow == [state : {"DRAFT", "PUBLISHED", "UNPUBLISHED"}, revision : Nat,
               details : Nat, price : Nat, stock : Nat]
Request == [kind : Kinds, expected : Nat, rows : Nat, key : Keys, seen : Versions]
Payload == [expected : Nat, rows : Nat, key : Keys]

ASSUME EditingAssumption == None \notin Payload

EditingTypeOK ==
  /\ product \in ProductRow
  /\ answers \subseteq [kind : Kinds, key : Keys, view : ProductRow]
  /\ editor.step \in {"AWAY", "FORM", "REVIEW"} /\ editor.seen \in Versions
  /\ \A k \in Kinds : asked[k] = None \/ asked[k] \in Payload
  /\ call # None => call.request \in Request /\ call.then \in Afterwards
  /\ reading # None => reading.for \in Purposes /\ reading.view \in ProductRow
  /\ late \subseteq Request /\ Cardinality(late) <= LateBound

NothingAsked == [k \in Kinds |-> None]
Away == [step |-> "AWAY", revision |-> 0, state |-> "DRAFT", rows |-> 0,
         seen |-> Nothing, preview |-> Nothing]

NoView == [state |-> "DRAFT", revision |-> 0, details |-> 0, price |-> 0, stock |-> 0]

\* A draft just created by the editor that is open on it, or a product that
\* was published some time ago, whose revisions are counted from there.
EditingInit ==
  /\ \/ product = NoView /\ editor = [Away EXCEPT !.step = "FORM"]
     \/ product = [NoView EXCEPT !.state = "PUBLISHED"] /\ editor = Away
  /\ answers = {} /\ asked = NothingAsked
  /\ call = None /\ reading = None /\ late = {}

-----------------------------------------------------------------------------
(* The product API: one transaction per write, which the lock on the        *)
(* product's row puts in order.                                             *)

Stored(r) == {a \in answers : a.kind = r.kind /\ a.key = r.key}

Accepts(r) ==
  /\ r.expected = product.revision
  /\ r.kind \in {"SAVE_DRAFT", "STOCK"} => r.rows = product.stock
  /\ r.kind = "UNPUBLISH" => product.state = "PUBLISHED"

\* The fields a write replaces: the offers of a live product stay as they are.
Replaces(kind) ==
  CASE kind \in Saves -> {"details"}
         \cup (IF product.state = "DRAFT" THEN {"price"} ELSE {})
         \cup (IF kind = "SAVE_DRAFT" THEN {"stock"} ELSE {})
    [] kind = "OFFERS" -> {"price"}
    [] kind = "STOCK" -> {"stock"}
    [] OTHER -> {}

StateAfter(kind) ==
  CASE kind = "PUBLISH" -> "PUBLISHED"
    [] kind = "UNPUBLISH" -> "UNPUBLISHED"
    [] OTHER -> product.state

NextRevision == product.revision + 1
Rewritten(state, fields) ==
  [state |-> state, revision |-> NextRevision,
   details |-> IF "details" \in fields THEN NextRevision ELSE product.details,
   price |-> IF "price" \in fields THEN NextRevision ELSE product.price,
   stock |-> IF "stock" \in fields THEN product.stock + 1 ELSE product.stock]

\* A key with an answer is answered again; otherwise the write is made once.
Commits(r) ==
  /\ Stored(r) = {} /\ Accepts(r)
  /\ product' = Rewritten(StateAfter(r.kind), Replaces(r.kind))

\* Only the key the editor would send again is worth keeping.
Keeps(r, view) ==
  IF asked[r.kind] # None /\ asked[r.kind].key = r.key
  THEN {[kind |-> r.kind, key |-> r.key, view |-> view]} ELSE {}

-----------------------------------------------------------------------------
(* Requests of the editor.                                                  *)

LastKey(kind) == IF asked[kind] = None THEN {} ELSE {asked[kind].key}
Unused(kind) == Keys \ (LastKey(kind) \cup {r.key : r \in {q \in late : q.kind = kind}})

\* requestKey: the last key for the last payload, otherwise a fresh one.  The
\* same numbers may stand for another payload when the seller typed something.
Keyed(kind, expected, rows) ==
  {k \in Unused(kind) : \A j \in Unused(kind) : k <= j}
    \cup {k \in LastKey(kind) : asked[kind].expected = expected /\ asked[kind].rows = rows}

Sends(kind, expected, rows, apply, then, stock) ==
  \E key \in Keyed(kind, expected, rows) :
    /\ call' = [request |-> [kind |-> kind, expected |-> expected, rows |-> rows,
                             key |-> key, seen |-> editor.seen],
                apply |-> apply, then |-> then, stock |-> stock]
    /\ asked' = [asked EXCEPT ![kind] = [expected |-> expected, rows |-> rows, key |-> key]]
    /\ answers' = {a \in answers : a.kind = kind => a.key = key}

Reads(purpose, then) ==
  reading' = [for |-> purpose, at |-> "ROW", then |-> then, view |-> NoView]

Idle == call = None /\ reading = None
Leaves == editor' = Away /\ asked' = NothingAsked /\ answers' = {}
\* A payload of a revision left behind is never sent again.
Remembers(revision) ==
  /\ asked' = [k \in Kinds |->
       IF asked[k] # None /\ asked[k].expected < revision THEN None ELSE asked[k]]
  /\ answers' = {a \in answers : asked'[a.kind] # None}

\* hydrate: everything on the screen is the view's.
Hydrated(view) ==
  [editor EXCEPT !.revision = view.revision, !.state = view.state,
                 !.rows = view.stock, !.seen = SeenIn(view)]
\* After a save of a live product's details the rows typed are put back.
HydratedBesideRows(view) ==
  [editor EXCEPT !.revision = view.revision, !.state = view.state,
                 !.seen.details = view.details]

-----------------------------------------------------------------------------
(* Loading, reviewing a conflict, reading back and previewing.  A view is   *)
(* read in several statements outside a transaction: the product's row      *)
(* first, its offers and its inventory after it.                            *)

\* A draft that was never saved is not readable by the editor.
WasSaved == product.state = "DRAFT" => product.revision > 0
Open ==
  /\ editor.step = "AWAY" /\ Idle /\ WasSaved
  /\ Reads("LOAD", "STAY")
  /\ UNCHANGED <<product, answers, editor, asked, call, late>>

ReadRow ==
  /\ reading # None /\ reading.at = "ROW"
  /\ reading' = [reading EXCEPT !.at = "REST", !.view = product]
  /\ UNCHANGED <<product, answers, editor, asked, call, late>>

\* Mutant: the product's row is read after its offers.
ViewRevisionLast == [product EXCEPT !.details = reading.view.details]
View == [reading.view EXCEPT !.price = product.price, !.stock = product.stock]

\* Mutant: what follows builds on the previewed revision.
PreviewedAtItsRevision(view) ==
  [editor EXCEPT !.step = "REVIEW", !.preview = SeenIn(view), !.revision = view.revision]
\* The preview changes nothing else on the screen.
Previewed(view) == [editor EXCEPT !.step = "REVIEW", !.preview = SeenIn(view)]

Shown(view) ==
  CASE reading.for = "LOAD" -> [Hydrated(view) EXCEPT !.step = "FORM"]
    [] reading.for = "APPLIED" -> Hydrated(view)
    [] reading.for = "PREVIEW" -> Previewed(view)
    [] OTHER -> editor

ReadRest ==
  /\ reading # None /\ reading.at = "REST"
  /\ IF reading.for = "APPLIED" /\ reading.then = "EXIT"
     THEN Leaves /\ reading' = None
     ELSE /\ editor' = Shown(View) /\ Remembers(editor'.revision)
          /\ reading' = CASE reading.for = "CONFLICT" ->
                                [reading EXCEPT !.at = "SHOWN", !.view = View]
                          [] reading.for = "APPLIED" ->
                                [reading EXCEPT !.for = "PREVIEW", !.at = "ROW",
                                                !.then = "STAY", !.view = NoView]
                          [] OTHER -> None
  /\ UNCHANGED <<product, call, late>>

\* Reading fails: a message, and everything on the screen stays.
ReadFails ==
  /\ reading # None /\ reading.at # "SHOWN"
  /\ reading' = None
  /\ UNCHANGED <<product, answers, editor, asked, call, late>>

\* The fresh version with the differences the seller keeps; with variants of
\* the seller's own come the inventory revisions the editor had for them.
ApplyReview(mine) ==
  /\ reading # None /\ reading.at = "SHOWN"
  /\ editor' = [Hydrated(reading.view) EXCEPT
       !.rows = IF mine THEN editor.rows ELSE reading.view.stock]
  /\ Remembers(reading.view.revision) /\ reading' = None
  /\ UNCHANGED <<product, call, late>>

CancelReview ==
  /\ reading # None /\ reading.at = "SHOWN"
  /\ reading' = None
  /\ UNCHANGED <<product, answers, editor, asked, call, late>>

-----------------------------------------------------------------------------
(* Writing.                                                                 *)

\* Leaving a step, exiting and previewing all save first; only from the sale
\* step are prices and stock of a live product applied.  The review step saves
\* when the seller exits from it.
Save(apply, then) ==
  /\ Idle /\ editor.step # "AWAY"
  /\ then = "PREVIEW" /\ editor.state # "DRAFT" => apply
  /\ apply => editor.state # "DRAFT"
  /\ then = "STAY" => ~apply
  /\ editor.step = "REVIEW" => then = "EXIT" /\ ~apply
  /\ IF editor.state = "DRAFT"
     THEN Sends("SAVE_DRAFT", editor.revision, editor.rows, apply, then, 0)
     ELSE Sends("SAVE_LIVE", editor.revision, 0, apply, then, 0)
  /\ UNCHANGED <<product, editor, reading, late>>

Publish ==
  /\ Idle /\ editor.step = "REVIEW"
  /\ Sends("PUBLISH", editor.revision, 0, FALSE, "EXIT", 0)
  /\ UNCHANGED <<product, editor, reading, late>>

Unpublish ==
  /\ Idle /\ editor.step = "REVIEW" /\ editor.state = "PUBLISHED"
  /\ Sends("UNPUBLISH", editor.revision, 0, FALSE, "STAY", 0)
  /\ UNCHANGED <<product, editor, reading, late>>

\* The button works while a write is out, but not under a conflict that is shown.
BackToSale ==
  /\ editor.step = "REVIEW"
  /\ reading # None => reading.at # "SHOWN"
  /\ editor' = [editor EXCEPT !.step = "FORM", !.preview = Nothing]
  /\ UNCHANGED <<product, answers, asked, call, reading, late>>

\* After a save that is all there was to do.
Saved(editorNow, then) ==
  /\ call' = None
  /\ CASE then = "EXIT" -> Leaves /\ UNCHANGED reading
       [] then = "PREVIEW" -> editor' = editorNow /\ Reads("PREVIEW", "STAY")
       [] OTHER -> editor' = [editorNow EXCEPT !.step = "FORM"] /\ UNCHANGED reading

-----------------------------------------------------------------------------
(* Requests at the API and their answers.  fetchWithRetry sends the same    *)
(* request up to three times; the answer to any of them is the stored one.  *)

WriteArrives ==
  /\ call # None /\ Commits(call.request)
  /\ answers' = answers \cup Keeps(call.request, product')
  /\ UNCHANGED <<editor, asked, call, reading, late>>

LateWriteArrives(r) ==
  /\ r \in late /\ Commits(r)
  /\ late' = late \ {r}
  /\ answers' = answers \cup Keeps(r, product')
  /\ UNCHANGED <<editor, asked, call, reading>>

\* A request that can no longer do anything is forgotten.
LateWriteFails(r) ==
  /\ r \in late /\ (Stored(r) # {} \/ ~Accepts(r))
  /\ late' = late \ {r}
  /\ UNCHANGED <<product, answers, editor, asked, call, reading>>

Answered(kinds) == call # None /\ call.request.kind \in kinds /\ Stored(call.request) # {}
Answer == (CHOOSE a \in Stored(call.request) : TRUE).view

SaveAnswered ==
  /\ Answered(Saves) /\ ~call.apply
  /\ Saved(IF editor.state = "DRAFT" THEN Hydrated(Answer) ELSE HydratedBesideRows(Answer),
           call.then)
  /\ call.then # "EXIT" => Remembers(Answer.revision)
  /\ UNCHANGED <<product, late>>

\* A live product's prices follow on the revision the save made, and its stock
\* on the revision the prices made and the inventory's in the save's answer.
OffersFollow ==
  /\ Answered(Saves) /\ call.apply
  /\ Sends("OFFERS", Answer.revision, 0, TRUE, call.then, Answer.stock)
  /\ UNCHANGED <<product, editor, reading, late>>
StockFollows ==
  /\ Answered({"OFFERS"})
  /\ Sends("STOCK", Answer.revision, call.stock, TRUE, call.then, call.stock)
  /\ UNCHANGED <<product, editor, reading, late>>
StockAnswered ==
  /\ Answered({"STOCK"})
  /\ call' = None /\ Reads("APPLIED", call.then)
  /\ UNCHANGED <<product, answers, editor, asked, late>>

\* What was published is left behind; a withdrawn product may be edited on.
PublishAnswered ==
  /\ Answered({"PUBLISH"})
  /\ call' = None /\ Leaves
  /\ UNCHANGED <<product, reading, late>>
UnpublishAnswered ==
  /\ Answered({"UNPUBLISH"})
  /\ Saved([Hydrated(Answer) EXCEPT !.preview = Nothing], "STAY")
  /\ Remembers(Answer.revision) /\ UNCHANGED <<product, late>>

\* A conflict opens a review of the fresh version, except for a publication or
\* its end, which only show the message.
Refused ==
  /\ call # None /\ Stored(call.request) = {} /\ ~Accepts(call.request)
  /\ call' = None
  /\ IF call.request.kind \in {"PUBLISH", "UNPUBLISH"}
     THEN UNCHANGED reading ELSE Reads("CONFLICT", "STAY")
  /\ UNCHANGED <<product, answers, editor, asked, late>>

\* Another refusal, or three tries without an answer: the message, and a
\* request that may still be on its way.
GivesUp ==
  /\ call # None
  /\ call' = None
  /\ late' \in {late} \cup (IF Stored(call.request) = {}
                            THEN {late \cup {call.request}} ELSE {})
  /\ Cardinality(late') <= LateBound
  /\ UNCHANGED <<product, answers, editor, asked, reading>>

\* The window is closed or loaded again, whatever it was doing.
Close ==
  /\ editor.step # "AWAY"
  /\ Leaves /\ call' = None /\ reading' = None
  /\ late' = IF call # None /\ Stored(call.request) = {} /\ late = {}
             THEN {call.request} ELSE late
  /\ UNCHANGED product

-----------------------------------------------------------------------------
(* Elsewhere.                                                               *)

\* Any write through the product API, by either version of the contract, which
\* is as good as one write of each field it changes.
ElsewhereWrites(fields) ==
  /\ product' = Rewritten(product.state, fields)
  /\ UNCHANGED <<answers, editor, asked, call, reading, late>>
ElsewherePublishes(kind) ==
  /\ WasSaved
  /\ kind = "UNPUBLISH" => product.state = "PUBLISHED"
  /\ product' = Rewritten(StateAfter(kind), {})
  /\ UNCHANGED <<answers, editor, asked, call, reading, late>>

\* A sale, a return to stock or the inventory screen: the product's revision
\* is not theirs.
StockMoves ==
  /\ product.state # "DRAFT"
  /\ product' = [product EXCEPT !.stock = @ + 1]
  /\ UNCHANGED <<answers, editor, asked, call, reading, late>>

-----------------------------------------------------------------------------
Editor ==
  \/ Open \/ ReadRow \/ ReadRest \/ ReadFails
  \/ \E mine \in BOOLEAN : ApplyReview(mine)
  \/ CancelReview
  \/ \E apply \in BOOLEAN, then \in Afterwards : Save(apply, then)
  \/ Publish \/ Unpublish \/ BackToSale
  \/ SaveAnswered \/ OffersFollow \/ StockFollows \/ StockAnswered
  \/ PublishAnswered \/ UnpublishAnswered
  \/ Refused \/ GivesUp \/ Close
Arrivals == WriteArrives \/ \E r \in late : LateWriteArrives(r) \/ LateWriteFails(r)
Elsewhere ==
  \/ \E field \in {"details", "price", "stock"} : ElsewhereWrites({field})
  \/ \E kind \in {"PUBLISH", "UNPUBLISH"} : ElsewherePublishes(kind)
  \/ StockMoves

EditingNext == Editor \/ Arrivals \/ Elsewhere
EditingSpec == EditingInit /\ [][EditingNext]_editingVars

-----------------------------------------------------------------------------
(* Whatever the API would still take from the editor. *)
Underway == {r \in late \cup (IF call = None THEN {} ELSE {call.request}) :
               Stored(r) = {} /\ Accepts(r)}

\* A write of the editor, even one that was given up and comes late, replaces
\* only what the seller was shown: texts, images, variants and prices always,
\* the stock as long as the product is a draft.
NoBlindOverwrite ==
  \A r \in Underway : \A f \in Replaces(r.kind) \ (IF r.kind = "STOCK" THEN {"stock"} ELSE {}) :
    SeenIn(product)[f] = r.seen[f]

\* What a publication makes public, details and prices, the seller has been
\* shown, by a view, a review of a conflict or the answer to a save.
PublishedAsShown ==
  \A r \in Underway : r.kind = "PUBLISH" =>
    r.seen.details = product.details /\ r.seen.price = product.price

\* The stock of a live product is replaced only by a seller who was shown it
\* (docs/specs/physical-product-authoring-and-publication.md:132).
StockIsNotOverwritten ==
  \A r \in Underway : r.kind = "STOCK" => r.seen.stock = product.stock

\* What is published is the preview on the screen (:18 of the same document).  The
\* code does not keep this: a review of a conflict that an exit from the review step
\* met leaves the preview as it was.
PublishesThePreview ==
  \A r \in Underway :
    call # None /\ r = call.request /\ r.kind = "PUBLISH" =>
      editor.preview.details = product.details /\ editor.preview.price = product.price
=============================================================================
