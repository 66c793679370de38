---------------------- MODULE ProductEditingProofs ----------------------
(***************************************************************************)
(* Proofs about ProductEditing, for any keys and any bound on the requests *)
(* that may still arrive.                                                  *)
(***************************************************************************)
EXTENDS ProductEditing, TLAPS

-----------------------------------------------------------------------------
(* Revisions and what they stand for. *)

EditorRow == [step : {"AWAY", "FORM", "REVIEW"}, revision : Nat,
              state : {"DRAFT", "PUBLISHED", "UNPUBLISHED"}, rows : Nat,
              seen : Versions, preview : Versions]
Call == [request : Request, apply : BOOLEAN, then : Afterwards, stock : Nat]
Reading == [for : Purposes, at : {"ROW", "REST", "SHOWN"}, then : Afterwards, view : ProductRow]
AnswerRow == [kind : Kinds, key : Keys, view : ProductRow]

RowsTypeOK ==
  /\ product \in ProductRow
  /\ product.details <= product.revision /\ product.price <= product.revision
  /\ answers \subseteq AnswerRow
  /\ editor \in EditorRow
  /\ asked \in [Kinds -> Payload \cup {None}]
  /\ call # None => call \in Call
  /\ reading # None => reading \in Reading
  /\ late \subseteq Request

\* A revision tells the details, or the price, as long as it is the product's.
DetailsKnown(revision, details) ==
  revision <= product.revision /\ (revision = product.revision => details = product.details)
PriceKnown(revision, price) ==
  revision <= product.revision /\ (revision = product.revision => price = product.price)

\* What the seller sees is of the revision it is shown with.  The inventory's
\* revision the editor would send for a draft is not newer than the stock it shows.
EditorKnows ==
  /\ DetailsKnown(editor.revision, editor.seen.details)
  /\ PriceKnown(editor.revision, editor.seen.price)
  /\ editor.rows <= product.stock /\ editor.seen.stock <= product.stock
  /\ editor.state = "DRAFT" => editor.rows <= editor.seen.stock
  /\ editor.state # "DRAFT" => product.state # "DRAFT"
  /\ editor.step = "AWAY" => asked = NothingAsked /\ answers = {}

\* Prices are sent on the revision that the save of the details has made.
RequestKnows(r) ==
  /\ r.expected <= product.revision
  /\ r.kind \in Saves \cup {"PUBLISH"} => DetailsKnown(r.expected, r.seen.details)
  /\ r.kind \in Saves \cup {"PUBLISH", "OFFERS"} => PriceKnown(r.expected, r.seen.price)
  /\ r.kind = "SAVE_DRAFT" => r.rows <= r.seen.stock /\ r.seen.stock <= product.stock

\* The outstanding request is the last of its kind, and the screen has not changed since.
CallKnows ==
  call # None =>
    LET r == call.request
    IN /\ RequestKnows(r)
       /\ asked[r.kind] # None
       /\ asked[r.kind].key = r.key /\ asked[r.kind].expected = r.expected
       /\ r.seen = editor.seen
       /\ reading = None
       /\ r.kind \in Saves \cup {"PUBLISH", "UNPUBLISH"} => r.expected = editor.revision
       /\ r.kind \in Saves => (r.kind = "SAVE_LIVE" <=> editor.state # "DRAFT")
       /\ r.kind \in Saves /\ call.apply => r.kind = "SAVE_LIVE"
       /\ r.kind \in {"OFFERS", "STOCK"} => editor.state # "DRAFT" /\ editor.revision < r.expected

\* A request given up whose key would be sent again builds on the same revision.
LateKnow ==
  \A r \in late :
    /\ RequestKnows(r)
    /\ asked[r.kind] # None /\ asked[r.kind].key = r.key => asked[r.kind].expected = r.expected

\* An answer is what the request of its key has made of the product.
AnswersKnow ==
  \A a \in answers :
    /\ asked[a.kind] # None
    /\ asked[a.kind].key = a.key /\ a.view.revision = asked[a.kind].expected + 1
    /\ DetailsKnown(a.view.revision, a.view.details)
    /\ PriceKnown(a.view.revision, a.view.price)
    /\ a.view.stock <= product.stock
    /\ a.view.state # "DRAFT" => product.state # "DRAFT"

\* A save of a live product leaves the prices, so that those on the screen are as
\* good as the answer's.
LiveSavesKnow ==
  /\ asked["SAVE_LIVE"] # None =>
       asked["SAVE_LIVE"].expected = editor.revision /\ editor.state # "DRAFT"
  /\ \A a \in answers : a.kind = "SAVE_LIVE" =>
       /\ a.view.state # "DRAFT"
       /\ PriceKnown(a.view.revision, editor.seen.price)

\* The row of a view is read first; a conflict and what was just written are of a
\* later revision than the screen's, if the product is live.
ReadingKnows ==
  reading # None =>
    /\ reading.for = "LOAD" => editor.step = "AWAY"
    /\ reading.for \in {"CONFLICT", "APPLIED"} /\ editor.state # "DRAFT" =>
         editor.revision < product.revision
    /\ reading.at # "ROW" =>
         /\ DetailsKnown(reading.view.revision, reading.view.details)
         /\ reading.view.state # "DRAFT" => product.state # "DRAFT"
         /\ reading.for \in {"CONFLICT", "APPLIED"} /\ editor.state # "DRAFT" =>
              editor.revision < reading.view.revision
    /\ reading.at = "SHOWN" =>
         /\ reading.for = "CONFLICT"
         /\ PriceKnown(reading.view.revision, reading.view.price)
         /\ reading.view.stock <= product.stock /\ editor.rows <= reading.view.stock

EditInv ==
  /\ RowsTypeOK
  /\ EditorKnows /\ CallKnows /\ LateKnow /\ AnswersKnow /\ LiveSavesKnow /\ ReadingKnows

-----------------------------------------------------------------------------
(* What others know when the product goes on. *)

GoesOn ==
  /\ product' \in ProductRow
  /\ product'.details <= product'.revision /\ product'.price <= product'.revision
  /\ product.stock <= product'.stock
  /\ product.state # "DRAFT" => product'.state # "DRAFT"
  /\ \/ product.revision < product'.revision
     \/ /\ product'.revision = product.revision
        /\ product'.details = product.details /\ product'.price = product.price

LEMMA ProductTypes ==
  ASSUME NEW row \in ProductRow
  PROVE  /\ row.state \in {"DRAFT", "PUBLISHED", "UNPUBLISHED"} /\ row.revision \in Nat
         /\ row.details \in Nat /\ row.price \in Nat /\ row.stock \in Nat
         /\ SeenIn(row) \in Versions
         /\ SeenIn(row).details = row.details /\ SeenIn(row).price = row.price
         /\ SeenIn(row).stock = row.stock
BY DEF ProductRow, SeenIn, Versions

LEMMA RewrittenRow ==
  ASSUME RowsTypeOK, NEW state \in {"DRAFT", "PUBLISHED", "UNPUBLISHED"}, NEW fields,
         product.state # "DRAFT" => state # "DRAFT",
         product' = Rewritten(state, fields)
  PROVE  /\ GoesOn /\ product'.revision = product.revision + 1
         /\ product'.state = state
         /\ "price" \notin fields => product'.price = product.price
<1>1. product \in ProductRow /\ product.details <= product.revision
      /\ product.price <= product.revision
  BY DEF RowsTypeOK
<1>2. /\ product.revision \in Nat /\ product.details \in Nat /\ product.price \in Nat
      /\ product.stock \in Nat
  BY <1>1, ProductTypes
<1>3. NextRevision \in Nat /\ NextRevision = product.revision + 1
  BY <1>2 DEF NextRevision
<1>4. /\ product'.state = state /\ product'.revision = NextRevision
      /\ product'.details \in {NextRevision, product.details}
      /\ product'.price \in {NextRevision, product.price}
      /\ product'.stock \in {product.stock + 1, product.stock}
      /\ "price" \notin fields => product'.price = product.price
  BY DEF Rewritten
<1>5. product' \in ProductRow
  BY <1>2, <1>3, <1>4 DEF Rewritten, ProductRow
<1>6. product'.details <= product'.revision /\ product'.price <= product'.revision
  BY <1>1, <1>2, <1>3, <1>4
<1>7. product.stock <= product'.stock /\ product.revision < product'.revision
  BY <1>2, <1>3, <1>4
<1> QED BY <1>3, <1>4, <1>5, <1>6, <1>7 DEF GoesOn

LEMMA StillKnown ==
  ASSUME RowsTypeOK, GoesOn, NEW revision \in Nat, NEW text
  PROVE  /\ DetailsKnown(revision, text) => DetailsKnown(revision, text)'
         /\ PriceKnown(revision, text) => PriceKnown(revision, text)'
<1>1. product.revision \in Nat /\ product'.revision \in Nat
  BY ProductTypes DEF RowsTypeOK, GoesOn
<1> QED BY <1>1 DEF GoesOn, DetailsKnown, PriceKnown

LEMMA RequestTypes ==
  ASSUME NEW r \in Request
  PROVE  /\ r.kind \in Kinds /\ r.expected \in Nat /\ r.rows \in Nat /\ r.key \in Keys
         /\ r.seen \in Versions
         /\ r.seen.details \in Nat /\ r.seen.price \in Nat /\ r.seen.stock \in Nat
BY DEF Request, Versions

LEMMA RequestStillKnows ==
  ASSUME RowsTypeOK, GoesOn, NEW r \in Request, RequestKnows(r)
  PROVE  RequestKnows(r)'
<1>1. product.revision \in Nat /\ product'.revision \in Nat /\ product.stock \in Nat
      /\ product'.stock \in Nat /\ product.stock <= product'.stock
      /\ product.revision <= product'.revision
  BY ProductTypes DEF RowsTypeOK, GoesOn
<1>2. r.expected \in Nat /\ r.seen.stock \in Nat
  BY RequestTypes
<1>3. r.expected <= product'.revision
  BY <1>1, <1>2 DEF RequestKnows
<1>4. r.seen.stock <= product.stock => r.seen.stock <= product'.stock
  BY <1>1, <1>2
<1> QED BY <1>2, <1>3, <1>4, StillKnown DEF RequestKnows

LEMMA EditorTypes ==
  ASSUME RowsTypeOK
  PROVE  /\ editor.revision \in Nat /\ editor.rows \in Nat /\ editor.seen \in Versions
         /\ editor.state \in {"DRAFT", "PUBLISHED", "UNPUBLISHED"}
         /\ editor.step \in {"AWAY", "FORM", "REVIEW"}
         /\ editor.preview \in Versions
         /\ editor.seen.details \in Nat /\ editor.seen.price \in Nat /\ editor.seen.stock \in Nat
BY DEF RowsTypeOK, EditorRow, Versions

LEMMA AnswerTypes ==
  ASSUME RowsTypeOK, NEW a \in answers
  PROVE  /\ a.kind \in Kinds /\ a.key \in Keys /\ a.view \in ProductRow
         /\ a.view.revision \in Nat /\ a.view.details \in Nat /\ a.view.price \in Nat
         /\ a.view.stock \in Nat
<1>1. a \in AnswerRow
  BY DEF RowsTypeOK
<1>2. a.kind \in Kinds /\ a.key \in Keys /\ a.view \in ProductRow
  BY <1>1 DEF AnswerRow
<1> QED BY <1>2, ProductTypes

LEMMA CallTypes ==
  ASSUME RowsTypeOK, call # None
  PROVE  /\ call.request \in Request /\ call.apply \in BOOLEAN /\ call.then \in Afterwards
         /\ call.stock \in Nat
BY DEF RowsTypeOK, Call

LEMMA ReadingTypes ==
  ASSUME RowsTypeOK, reading # None
  PROVE  /\ reading.for \in Purposes /\ reading.at \in {"ROW", "REST", "SHOWN"}
         /\ reading.then \in Afterwards /\ reading.view \in ProductRow
BY DEF RowsTypeOK, Reading


\* The product goes on, by others or by a request that arrives; the editor learns of
\* it later, perhaps from an answer that is kept.
LEMMA ProductGoesOn ==
  ASSUME EditInv, GoesOn, UNCHANGED <<editor, asked, call, reading>>, late' \subseteq late,
         NEW new \in SUBSET AnswerRow, answers' = answers \cup new,
         \A a \in new :
           /\ a.view = product'
           /\ asked[a.kind] # None
           /\ asked[a.kind].key = a.key /\ product'.revision = asked[a.kind].expected + 1
           /\ a.kind = "SAVE_LIVE" =>
                editor.seen.price = product'.price /\ product'.state # "DRAFT"
  PROVE  EditInv'
<1> USE DEF EditInv
<1>1. /\ product.stock \in Nat /\ product'.stock \in Nat /\ product.revision \in Nat
      /\ product'.revision \in Nat /\ product.stock <= product'.stock
      /\ product.revision <= product'.revision
  BY ProductTypes DEF RowsTypeOK, GoesOn
<1>2. RowsTypeOK'
  BY DEF RowsTypeOK, GoesOn
<1>3. EditorKnows'
  <2>1. DetailsKnown(editor.revision, editor.seen.details)'
        /\ PriceKnown(editor.revision, editor.seen.price)'
    BY EditorTypes, StillKnown DEF EditorKnows
  <2>2. editor.rows <= product'.stock /\ editor.seen.stock <= product'.stock
    BY <1>1, EditorTypes DEF EditorKnows
  <2>3. ASSUME editor.step = "AWAY"  PROVE new = {}
    <3>1. \A k \in Kinds : asked[k] = None
      BY <2>3 DEF EditorKnows, NothingAsked
    <3> QED BY <3>1 DEF AnswerRow
  <2> QED BY <2>1, <2>2, <2>3 DEF EditorKnows, GoesOn
<1>4. CallKnows'
  <2> SUFFICES ASSUME call # None  PROVE CallKnows'
    BY DEF CallKnows
  <2>1. RequestKnows(call.request)'
    BY CallTypes, RequestStillKnows DEF CallKnows
  <2> QED BY <2>1 DEF CallKnows
<1>5. LateKnow'
  BY RequestStillKnows DEF LateKnow, RowsTypeOK
<1>6. ASSUME NEW a \in answers'
      PROVE  /\ asked[a.kind] # None
             /\ asked[a.kind].key = a.key /\ a.view.revision = asked[a.kind].expected + 1
             /\ DetailsKnown(a.view.revision, a.view.details)'
             /\ PriceKnown(a.view.revision, a.view.price)'
             /\ a.view.stock <= product'.stock
             /\ a.view.state # "DRAFT" => product'.state # "DRAFT"
             /\ a.kind = "SAVE_LIVE" =>
                  a.view.state # "DRAFT" /\ PriceKnown(a.view.revision, editor.seen.price)'
  <2>1. CASE a \in new
    BY <1>1, <2>1 DEF DetailsKnown, PriceKnown
  <2>2. CASE a \in answers
    <3>1. a.view.stock <= product'.stock
      BY <1>1, <2>2, AnswerTypes DEF AnswersKnow
    <3> QED BY <2>2, <3>1, AnswerTypes, StillKnown DEF AnswersKnow, LiveSavesKnow, GoesOn
  <2> QED BY <2>1, <2>2
<1>7. AnswersKnow'
  BY <1>6 DEF AnswersKnow
<1>8. LiveSavesKnow'
  BY <1>6 DEF LiveSavesKnow
<1>9. ReadingKnows'
  <2> SUFFICES ASSUME reading # None  PROVE ReadingKnows'
    BY DEF ReadingKnows
  <2>1. /\ reading.view.revision \in Nat /\ reading.view.stock \in Nat
    BY ReadingTypes, ProductTypes
  <2>2. reading.view.stock <= product.stock => reading.view.stock <= product'.stock
    BY <1>1, <2>1
  <2>3. editor.revision < product.revision => editor.revision < product'.revision
    BY <1>1, EditorTypes
  <2>4. product.state # "DRAFT" => product'.state # "DRAFT"
    BY DEF GoesOn
  <2>5. /\ DetailsKnown(reading.view.revision, reading.view.details) =>
             DetailsKnown(reading.view.revision, reading.view.details)'
        /\ PriceKnown(reading.view.revision, reading.view.price) =>
             PriceKnown(reading.view.revision, reading.view.price)'
    BY <2>1, StillKnown
  <2> QED BY <2>2, <2>3, <2>4, <2>5 DEF ReadingKnows
<1> QED BY <1>2, <1>3, <1>4, <1>5, <1>7, <1>8, <1>9

-----------------------------------------------------------------------------
(* Writes elsewhere, and requests that arrive. *)

LEMMA StateIsState ==
  ASSUME RowsTypeOK, NEW kind \in Kinds
  PROVE  /\ StateAfter(kind) \in {"DRAFT", "PUBLISHED", "UNPUBLISHED"}
         /\ product.state # "DRAFT" => StateAfter(kind) # "DRAFT"
BY ProductTypes DEF RowsTypeOK, StateAfter, Kinds, Saves

LEMMA ElsewhereStep ==
  ASSUME EditInv, Elsewhere
  PROVE  EditInv'
<1>1. RowsTypeOK
  BY DEF EditInv
<1>2. ASSUME GoesOn, UNCHANGED <<answers, editor, asked, call, reading, late>>
      PROVE  EditInv'
  <2>1. answers' = answers \cup {} /\ {} \in SUBSET AnswerRow
    BY <1>2
  <2> QED BY <1>2, <2>1, ProductGoesOn
<1>3. ASSUME NEW fields, ElsewhereWrites(fields)  PROVE EditInv'
  <2>1. product.state \in {"DRAFT", "PUBLISHED", "UNPUBLISHED"}
    BY <1>1, ProductTypes DEF RowsTypeOK
  <2> QED BY <1>1, <1>2, <1>3, <2>1, RewrittenRow DEF ElsewhereWrites
<1>4. ASSUME NEW kind \in {"PUBLISH", "UNPUBLISH"}, ElsewherePublishes(kind)  PROVE EditInv'
  <2>1. kind \in Kinds
    BY DEF Kinds
  <2> QED BY <1>1, <1>2, <1>4, <2>1, StateIsState, RewrittenRow DEF ElsewherePublishes
<1>5. CASE StockMoves
  <2>1. product \in ProductRow /\ product.stock \in Nat /\ product.stock + 1 \in Nat
    BY <1>1, ProductTypes DEF RowsTypeOK
  <2>2. /\ product' \in ProductRow /\ product'.stock = product.stock + 1
        /\ product'.state = product.state /\ product'.revision = product.revision
        /\ product'.details = product.details /\ product'.price = product.price
    BY <1>5, <2>1 DEF StockMoves, ProductRow
  <2>3. GoesOn
    BY <1>1, <2>1, <2>2 DEF GoesOn, RowsTypeOK
  <2> QED BY <1>2, <1>5, <2>3 DEF StockMoves
<1> QED BY <1>3, <1>4, <1>5 DEF Elsewhere

\* A save of a live product leaves its prices alone.
LEMMA WriteStep ==
  ASSUME EditInv, NEW r \in Request, RequestKnows(r), Commits(r),
         asked[r.kind] # None /\ asked[r.kind].key = r.key =>
           asked[r.kind].expected = r.expected,
         answers' = answers \cup Keeps(r, product'), late' \subseteq late,
         UNCHANGED <<editor, asked, call, reading>>
  PROVE  EditInv'
<1>1. RowsTypeOK
  BY DEF EditInv
<1>2. r.kind \in Kinds /\ r.key \in Keys /\ r.expected \in Nat
  BY RequestTypes
<1>3. product' = Rewritten(StateAfter(r.kind), Replaces(r.kind)) /\ r.expected = product.revision
  BY DEF Commits, Accepts
<1>4. /\ GoesOn /\ product'.revision = product.revision + 1
      /\ product'.state = StateAfter(r.kind)
      /\ "price" \notin Replaces(r.kind) => product'.price = product.price
  BY <1>1, <1>2, <1>3, StateIsState, RewrittenRow
<1>5. ASSUME asked[r.kind] # None, asked[r.kind].key = r.key, r.kind = "SAVE_LIVE"
      PROVE  editor.seen.price = product'.price /\ product'.state # "DRAFT"
  <2>1. r.expected = editor.revision /\ editor.state # "DRAFT"
    BY <1>5 DEF EditInv, LiveSavesKnow
  <2>2. product.state # "DRAFT"
    BY <2>1 DEF EditInv, EditorKnows
  <2>3. "price" \notin Replaces(r.kind)
    BY <1>5, <2>2 DEF Replaces, Saves
  <2>4. editor.seen.price = product.price
    BY <1>3, <2>1 DEF EditInv, EditorKnows, PriceKnown
  <2> QED BY <1>4, <2>2, <2>3, <2>4 DEF GoesOn
<1> DEFINE new == Keeps(r, product')
<1>6. new \in SUBSET AnswerRow
  BY <1>2, <1>4 DEF Keeps, AnswerRow, GoesOn
<1>7. ASSUME NEW a \in new
      PROVE  /\ a.view = product' /\ a.kind = r.kind /\ a.key = r.key
             /\ asked[r.kind] # None /\ asked[r.kind].key = r.key
  BY DEF Keeps
<1>8. \A a \in new :
        /\ a.view = product'
        /\ asked[a.kind] # None
        /\ asked[a.kind].key = a.key /\ product'.revision = asked[a.kind].expected + 1
        /\ a.kind = "SAVE_LIVE" => editor.seen.price = product'.price /\ product'.state # "DRAFT"
  BY <1>3, <1>4, <1>5, <1>7
<1> HIDE DEF new
<1>9. answers' = answers \cup new
  BY DEF new
<1> QED BY <1>4, <1>6, <1>8, <1>9, ProductGoesOn

LEMMA ForgottenStep ==
  ASSUME EditInv, late' \subseteq late,
         UNCHANGED <<product, answers, editor, asked, call, reading>>
  PROVE  EditInv'
BY DEF EditInv, RowsTypeOK, EditorKnows, CallKnows, LateKnow, AnswersKnow, LiveSavesKnow,
       ReadingKnows, RequestKnows, DetailsKnown, PriceKnown

LEMMA ArrivalsStep ==
  ASSUME EditInv, Arrivals
  PROVE  EditInv'
<1>1. CASE WriteArrives
  <2>1. /\ call.request \in Request /\ RequestKnows(call.request)
        /\ asked[call.request.kind].expected = call.request.expected
    BY <1>1, CallTypes DEF EditInv, CallKnows, WriteArrives
  <2> QED BY <1>1, <2>1, WriteStep DEF WriteArrives
<1>2. ASSUME NEW r \in late, LateWriteArrives(r)  PROVE EditInv'
  <2>1. /\ r \in Request /\ RequestKnows(r) /\ late' \subseteq late
        /\ asked[r.kind] # None /\ asked[r.kind].key = r.key =>
             asked[r.kind].expected = r.expected
    BY <1>2 DEF EditInv, LateKnow, RowsTypeOK, LateWriteArrives
  <2> QED BY <1>2, <2>1, WriteStep DEF LateWriteArrives
<1>3. ASSUME NEW r \in late, LateWriteFails(r)  PROVE EditInv'
  <2>1. late' \subseteq late
    BY <1>3 DEF LateWriteFails
  <2> QED BY <1>3, <2>1, ForgottenStep DEF LateWriteFails
<1> QED BY <1>1, <1>2, <1>3 DEF Arrivals

-----------------------------------------------------------------------------
(* The editor's requests. *)

LEMMA CallQuiet == EditInv => call = None \/ reading = None
BY DEF EditInv, CallKnows

\* The key a request takes is the last one's, for the same payload, or one that no
\* request given up carries.
LEMMA SendsKeeps ==
  ASSUME EditInv, NEW kind \in Kinds, NEW expected \in Nat, NEW rows \in Nat,
         NEW apply \in BOOLEAN, NEW then \in Afterwards, NEW stock \in Nat,
         Sends(kind, expected, rows, apply, then, stock),
         UNCHANGED <<product, editor, reading, late>>, reading = None, editor.step # "AWAY",
         \A r \in Request : r.kind = kind /\ r.expected = expected /\ r.rows = rows
                              /\ r.seen = editor.seen => RequestKnows(r),
         kind \in Saves \cup {"PUBLISH", "UNPUBLISH"} => expected = editor.revision,
         kind \in Saves => (kind = "SAVE_LIVE" <=> editor.state # "DRAFT"),
         kind \in Saves /\ apply => kind = "SAVE_LIVE",
         kind \in {"OFFERS", "STOCK"} => editor.state # "DRAFT" /\ editor.revision < expected
  PROVE  EditInv'
<1>1. RowsTypeOK
  BY DEF EditInv
<1>2. PICK key \in Keyed(kind, expected, rows) :
        /\ call' = [request |-> [kind |-> kind, expected |-> expected, rows |-> rows,
                                 key |-> key, seen |-> editor.seen],
                    apply |-> apply, then |-> then, stock |-> stock]
        /\ asked' = [asked EXCEPT ![kind] = [expected |-> expected, rows |-> rows, key |-> key]]
        /\ answers' = {a \in answers : a.kind = kind => a.key = key}
  BY DEF Sends
<1>3. asked \in [Kinds -> Payload \cup {None}]
  BY <1>1 DEF RowsTypeOK
<1>4. ASSUME asked[kind] # None  PROVE asked[kind] \in Payload /\ LastKey(kind) = {asked[kind].key}
  BY <1>3, <1>4 DEF LastKey
<1>5. key \in Keys
  <2>1. CASE key \in Unused(kind)
    BY <2>1 DEF Unused
  <2>2. CASE key \in LastKey(kind)
    BY <2>2, <1>4 DEF LastKey, Payload
  <2> QED BY <2>1, <2>2 DEF Keyed
<1>6. /\ asked' \in [Kinds -> Payload \cup {None}]
      /\ asked'[kind] # None
      /\ asked'[kind].key = key /\ asked'[kind].expected = expected
      /\ \A k \in Kinds : k # kind => asked'[k] = asked[k]
  <2>1. [expected |-> expected, rows |-> rows, key |-> key] \in Payload
    BY <1>5 DEF Payload
  <2> QED BY <1>2, <1>3, <2>1, EditingAssumption
<1>7. ASSUME asked[kind] # None, asked[kind].key = key  PROVE asked[kind].expected = expected
  <2>1. key \notin Unused(kind)
    BY <1>4, <1>7 DEF Unused
  <2> QED BY <2>1 DEF Keyed
<1>8. ASSUME NEW a \in answers, a.kind = kind, a.key = key
      PROVE  asked[kind].expected = expected
  BY <1>7, <1>8 DEF EditInv, AnswersKnow
<1>9. ASSUME NEW r \in late, r.kind = kind, r.key = key  PROVE r.expected = expected
  <2>1. key \notin Unused(kind)
    BY <1>9 DEF Unused
  <2>2. key \in LastKey(kind) /\ asked[kind].expected = expected
    BY <2>1 DEF Keyed
  <2>3. asked[kind] # None /\ asked[kind].key = key
    BY <2>2 DEF LastKey
  <2> QED BY <1>9, <2>2, <2>3 DEF EditInv, LateKnow
<1> PICK request : request = [kind |-> kind, expected |-> expected, rows |-> rows,
                              key |-> key, seen |-> editor.seen]
  OBVIOUS
<1>10. /\ call'.request = request /\ request \in Request /\ request.kind = kind /\ request.expected = expected
       /\ request.rows = rows /\ request.key = key /\ request.seen = editor.seen
       /\ call'.apply = apply
  BY <1>1, <1>2, <1>5, EditorTypes DEF Request
<1>11. RowsTypeOK'
  <2>1. call' \in Call
    BY <1>2, <1>10 DEF Call
  <2> QED BY <1>1, <1>2, <1>6, <2>1 DEF RowsTypeOK
<1>12. EditorKnows'
  BY DEF EditInv, EditorKnows, DetailsKnown, PriceKnown
<1>13. \A r \in Request : RequestKnows(r) => RequestKnows(r)'
  BY DEF RequestKnows, DetailsKnown, PriceKnown
<1>14. CallKnows'
  <2>1. RequestKnows(request)'
    BY <1>10, <1>13
  <2> QED BY <1>6, <1>10, <2>1 DEF CallKnows, RequestKnows
<1>15. LateKnow'
  <2> SUFFICES ASSUME NEW r \in late
               PROVE  /\ RequestKnows(r)'
                      /\ asked'[r.kind] # None /\ asked'[r.kind].key = r.key =>
                           asked'[r.kind].expected = r.expected
    BY DEF LateKnow
  <2>1. r \in Request /\ r.kind \in Kinds
    BY <1>1, RequestTypes DEF RowsTypeOK
  <2> QED BY <1>6, <1>9, <1>13, <2>1 DEF EditInv, LateKnow
<1>16. \A a \in answers' : /\ a \in answers /\ a.kind \in Kinds
                           /\ asked'[a.kind] # None /\ asked'[a.kind].key = a.key
                           /\ asked'[a.kind].expected = asked[a.kind].expected
  <2> SUFFICES ASSUME NEW a \in answers'
               PROVE  /\ a \in answers /\ a.kind \in Kinds
                      /\ asked'[a.kind] # None /\ asked'[a.kind].key = a.key
                      /\ asked'[a.kind].expected = asked[a.kind].expected
    OBVIOUS
  <2>1. a \in answers /\ a.kind \in Kinds /\ (a.kind = kind => a.key = key)
    BY <1>1, <1>2, AnswerTypes
  <2> QED BY <1>6, <1>8, <2>1 DEF EditInv, AnswersKnow
<1>17. AnswersKnow'
  BY <1>16 DEF EditInv, AnswersKnow, DetailsKnown, PriceKnown
<1>18. LiveSavesKnow'
  <2>1. kind = "SAVE_LIVE" => expected = editor.revision /\ editor.state # "DRAFT"
    BY DEF Saves
  <2>2. "SAVE_LIVE" \in Kinds
    BY DEF Kinds, Saves
  <2> QED BY <1>6, <1>16, <2>1, <2>2 DEF EditInv, LiveSavesKnow, PriceKnown
<1>19. ReadingKnows'
  BY DEF ReadingKnows
<1> QED BY <1>11, <1>12, <1>14, <1>15, <1>17, <1>18, <1>19 DEF EditInv

LEMMA SendingStep ==
  ASSUME EditInv
  PROVE  /\ \A apply \in BOOLEAN, then \in Afterwards : Save(apply, then) => EditInv'
         /\ Publish \/ Unpublish => EditInv'
<1>1. /\ DetailsKnown(editor.revision, editor.seen.details)
      /\ PriceKnown(editor.revision, editor.seen.price)
      /\ editor.state = "DRAFT" => editor.rows <= editor.seen.stock
      /\ editor.seen.stock <= product.stock /\ editor.revision <= product.revision
  BY DEF EditInv, EditorKnows, DetailsKnown
<1>2. editor.revision \in Nat /\ editor.rows \in Nat /\ editor.seen \in Versions
  BY EditorTypes DEF EditInv
<1>3. ASSUME NEW apply \in BOOLEAN, NEW then \in Afterwards, Save(apply, then)  PROVE EditInv'
  <2> USE <1>3
  <2>1. reading = None /\ editor.step # "AWAY" /\ UNCHANGED <<product, editor, reading, late>>
    BY DEF Save, Idle
  <2>2. CASE editor.state = "DRAFT"
    <3>1. Sends("SAVE_DRAFT", editor.revision, editor.rows, apply, then, 0)
          /\ ~apply /\ "SAVE_DRAFT" \in Kinds
      BY <2>2 DEF Save, Kinds, Saves
    <3>2. \A r \in Request : r.kind = "SAVE_DRAFT" /\ r.expected = editor.revision
             /\ r.rows = editor.rows /\ r.seen = editor.seen => RequestKnows(r)
      BY <1>1, <2>2 DEF RequestKnows
    <3> QED BY <1>2, <2>1, <2>2, <3>1, <3>2, SendsKeeps DEF Saves
  <2>3. CASE editor.state # "DRAFT"
    <3>1. Sends("SAVE_LIVE", editor.revision, 0, apply, then, 0) /\ "SAVE_LIVE" \in Kinds
      BY <2>3 DEF Save, Kinds, Saves
    <3>2. \A r \in Request : r.kind = "SAVE_LIVE" /\ r.expected = editor.revision
             /\ r.rows = 0 /\ r.seen = editor.seen => RequestKnows(r)
      BY <1>1 DEF RequestKnows
    <3> QED BY <1>2, <2>1, <2>3, <3>1, <3>2, SendsKeeps DEF Saves
  <2> QED BY <2>2, <2>3
<1>4. ASSUME NEW kind \in {"PUBLISH", "UNPUBLISH"}, NEW then \in Afterwards,
             Idle, editor.step = "REVIEW", UNCHANGED <<product, editor, reading, late>>,
             NEW apply \in BOOLEAN, apply = FALSE,
             Sends(kind, editor.revision, 0, apply, then, 0)
      PROVE  EditInv'
  <2>1. kind \in Kinds /\ kind \notin Saves /\ reading = None
    BY <1>4 DEF Kinds, Saves, Idle
  <2>2. \A r \in Request : r.kind = kind /\ r.expected = editor.revision
           /\ r.rows = 0 /\ r.seen = editor.seen => RequestKnows(r)
    BY <1>1, <2>1 DEF RequestKnows, Saves
  <2> QED BY <1>2, <1>4, <2>1, <2>2, SendsKeeps
<1>5. Publish \/ Unpublish => EditInv'
  BY <1>4 DEF Publish, Unpublish, Afterwards
<1> QED BY <1>3, <1>5

\* The answer to the outstanding request.
LEMMA TheAnswer ==
  ASSUME EditInv, NEW kinds, Answered(kinds)
  PROVE  \E a \in answers :
           /\ a.kind = call.request.kind /\ a.view = Answer
           /\ call # None /\ call.request.kind \in kinds /\ reading = None
           /\ Answer \in ProductRow /\ Answer.revision = call.request.expected + 1
           /\ Answer.revision \in Nat /\ Answer.stock \in Nat /\ Answer.stock <= product.stock
           /\ Answer.revision <= product.revision
           /\ Answer.state # "DRAFT" => product.state # "DRAFT"
           /\ DetailsKnown(Answer.revision, Answer.details)
           /\ PriceKnown(Answer.revision, Answer.price)
           /\ a.kind = "SAVE_LIVE" =>
                Answer.state # "DRAFT" /\ PriceKnown(Answer.revision, editor.seen.price)
<1>1. PICK a \in Stored(call.request) : a.view = Answer
  BY DEF Answered, Answer
<1>2. a \in answers /\ a.kind = call.request.kind /\ a.key = call.request.key
  BY <1>1 DEF Stored
<1>3. call # None /\ call.request.kind \in kinds
  BY DEF Answered
<1>4. reading = None /\ asked[a.kind].expected = call.request.expected
  BY <1>2, <1>3 DEF EditInv, CallKnows
<1> QED BY <1>1, <1>2, <1>3, <1>4, AnswerTypes
        DEF EditInv, AnswersKnow, LiveSavesKnow, DetailsKnown

\* Prices and then stock follow on what the answer says.
LEMMA FollowingStep ==
  ASSUME EditInv, OffersFollow \/ StockFollows
  PROVE  EditInv'
<1>1. call # None /\ call.then \in Afterwards /\ call.stock \in Nat
      /\ call.request \in Request /\ call.request.expected \in Nat
  BY CallTypes, RequestTypes DEF EditInv, OffersFollow, StockFollows, Answered
<1>2. editor.revision \in Nat /\ editor.step \in {"AWAY", "FORM", "REVIEW"}
  BY EditorTypes DEF EditInv
<1>3. editor.step # "AWAY"
  <2>1. asked[call.request.kind] # None /\ call.request.kind \in Kinds
    BY <1>1, RequestTypes DEF EditInv, CallKnows
  <2> QED BY <2>1 DEF EditInv, EditorKnows, NothingAsked
<1>4. ASSUME NEW kind \in {"OFFERS", "STOCK"}, NEW expected \in Nat, NEW rows \in Nat,
             NEW apply \in BOOLEAN, NEW then \in Afterwards, NEW stock \in Nat,
             Sends(kind, expected, rows, apply, then, stock),
             UNCHANGED <<product, editor, reading, late>>, reading = None,
             editor.state # "DRAFT", editor.revision < expected, expected <= product.revision,
             PriceKnown(expected, editor.seen.price) \/ kind = "STOCK"
      PROVE  EditInv'
  <2>1. kind \in Kinds /\ kind \notin Saves \cup {"PUBLISH", "UNPUBLISH"} /\ kind \notin Saves
    BY DEF Kinds, Saves
  <2>2. \A r \in Request : r.kind = kind /\ r.expected = expected /\ r.rows = rows
                             /\ r.seen = editor.seen => RequestKnows(r)
    BY <1>4, <2>1 DEF RequestKnows, Saves
  <2> QED BY <1>3, <1>4, <2>1, <2>2, SendsKeeps
<1>5. CASE OffersFollow
  <2>1. Answered(Saves) /\ call.apply /\ UNCHANGED <<product, editor, reading, late>>
        /\ Sends("OFFERS", Answer.revision, 0, TRUE, call.then, Answer.stock)
    BY <1>5 DEF OffersFollow
  <2>2. PICK a \in answers :
           /\ a.kind = call.request.kind /\ a.view = Answer
           /\ call # None /\ call.request.kind \in Saves /\ reading = None
           /\ Answer.revision = call.request.expected + 1
           /\ Answer.revision \in Nat /\ Answer.stock \in Nat
           /\ Answer.revision <= product.revision
           /\ a.kind = "SAVE_LIVE" => PriceKnown(Answer.revision, editor.seen.price)
    BY <2>1, TheAnswer
  <2>3. call.request.kind = "SAVE_LIVE" /\ call.request.expected = editor.revision
        /\ editor.state # "DRAFT"
    BY <2>1, <2>2 DEF EditInv, CallKnows
  <2>4. editor.revision < Answer.revision
    BY <1>2, <2>2, <2>3
  <2> QED BY <1>1, <1>4, <2>1, <2>2, <2>3, <2>4
<1>6. CASE StockFollows
  <2>1. Answered({"OFFERS"}) /\ UNCHANGED <<product, editor, reading, late>>
        /\ Sends("STOCK", Answer.revision, call.stock, TRUE, call.then, call.stock)
    BY <1>6 DEF StockFollows
  <2>2. PICK a \in answers :
           /\ call # None /\ call.request.kind \in {"OFFERS"} /\ reading = None
           /\ Answer.revision = call.request.expected + 1
           /\ Answer.revision \in Nat
           /\ Answer.revision <= product.revision
    BY <2>1, TheAnswer
  <2>3. editor.state # "DRAFT" /\ editor.revision < call.request.expected
    BY <2>2 DEF EditInv, CallKnows
  <2>4. editor.revision < Answer.revision
    BY <1>1, <1>2, <2>2, <2>3
  <2> QED BY <1>1, <1>4, <2>1, <2>2, <2>3, <2>4
<1> QED BY <1>5, <1>6

-----------------------------------------------------------------------------
(* What the editor shows. *)

GivenUp == late' \subseteq late \/ (call # None /\ late' \subseteq late \cup {call.request})

LEMMA LateStayKnown ==
  ASSUME EditInv, GivenUp, UNCHANGED product,
         \A k \in Kinds : asked'[k] = asked[k] \/ asked'[k] = None
  PROVE  late' \subseteq Request /\ LateKnow'
<1>1. \A r \in late' : r \in late \/ (call # None /\ r = call.request)
  BY DEF GivenUp
<1>2. ASSUME NEW r \in late'
      PROVE  /\ r \in Request /\ RequestKnows(r)
             /\ asked[r.kind] # None /\ asked[r.kind].key = r.key =>
                  asked[r.kind].expected = r.expected
  <2>1. CASE r \in late
    BY <2>1 DEF EditInv, LateKnow, RowsTypeOK
  <2>2. CASE call # None /\ r = call.request
    BY <2>2, CallTypes DEF EditInv, CallKnows
  <2> QED BY <1>1, <2>1, <2>2
<1>3. \A r \in late' : RequestKnows(r)'
  BY <1>2 DEF RequestKnows, DetailsKnown, PriceKnown
<1>4. \A r \in late' : r.kind \in Kinds
  BY <1>2, RequestTypes
<1> QED BY <1>2, <1>3, <1>4 DEF LateKnow

LEMMA LeavesKeeps ==
  ASSUME EditInv, Leaves, call' = None, reading' = None, UNCHANGED product, GivenUp
  PROVE  EditInv'
<1>1. RowsTypeOK
  BY DEF EditInv
<1>2. /\ editor' = Away /\ asked' = NothingAsked /\ answers' = {}
      /\ \A k \in Kinds : asked'[k] = None
  BY DEF Leaves, NothingAsked
<1>3. late' \subseteq Request /\ LateKnow'
  BY <1>2, LateStayKnown
<1>4. /\ editor' \in EditorRow /\ editor'.revision = 0 /\ editor'.seen = Nothing
      /\ editor'.rows = 0 /\ editor'.state = "DRAFT"
      /\ Nothing.details = 0 /\ Nothing.price = 0 /\ Nothing.stock = 0
  BY <1>2 DEF Away, EditorRow, Nothing, Versions
<1>5. asked' \in [Kinds -> Payload \cup {None}]
  BY <1>2 DEF NothingAsked
<1>6. RowsTypeOK'
  BY <1>1, <1>2, <1>3, <1>4, <1>5 DEF RowsTypeOK
<1>7. /\ product.revision \in Nat /\ product.stock \in Nat /\ product.details \in Nat
      /\ product.price \in Nat /\ product.details <= product.revision
      /\ product.price <= product.revision
  BY <1>1, ProductTypes DEF RowsTypeOK
<1>8. EditorKnows'
  BY <1>2, <1>4, <1>7 DEF EditorKnows, DetailsKnown, PriceKnown
<1>9. "SAVE_LIVE" \in Kinds
  BY DEF Kinds, Saves
<1> QED BY <1>2, <1>3, <1>6, <1>8, <1>9
        DEF EditInv, CallKnows, AnswersKnow, LiveSavesKnow, ReadingKnows

LEMMA ReadsKeeps ==
  ASSUME EditInv, UNCHANGED <<product, answers, editor, asked>>, call' = None, GivenUp,
         reading' # None => reading' \in Reading,
         ReadingKnows'
  PROVE  EditInv'
<1>1. late' \subseteq Request /\ LateKnow'
  BY LateStayKnown
<1> QED BY <1>1 DEF EditInv, RowsTypeOK, EditorKnows, CallKnows, AnswersKnow, LiveSavesKnow,
                    DetailsKnown, PriceKnown

LEMMA Remembering ==
  ASSUME EditInv, NEW revision \in Nat,
         Remembers(revision) \/ (UNCHANGED <<asked, answers>> /\ revision = editor.revision)
  PROVE  /\ asked' \in [Kinds -> Payload \cup {None}]
         /\ \A k \in Kinds : asked'[k] = asked[k] \/ asked'[k] = None
         /\ asked'["SAVE_LIVE"] # None => revision <= editor.revision
         /\ answers' \subseteq answers
         /\ \A a \in answers' : asked'[a.kind] # None
         /\ asked = NothingAsked => asked' = NothingAsked
<1>1. asked \in [Kinds -> Payload \cup {None}] /\ "SAVE_LIVE" \in Kinds
  BY DEF EditInv, RowsTypeOK, Kinds, Saves
<1>2. editor.revision \in Nat
  BY EditorTypes DEF EditInv
<1>3. CASE Remembers(revision)
  <2>1. /\ asked' = [k \in Kinds |->
             IF asked[k] # None /\ asked[k].expected < revision THEN None ELSE asked[k]]
        /\ answers' = {a \in answers : asked'[a.kind] # None}
    BY <1>3 DEF Remembers
  <2>2. ASSUME asked'["SAVE_LIVE"] # None  PROVE revision <= editor.revision
    <3>1. /\ asked["SAVE_LIVE"] # None /\ ~(asked["SAVE_LIVE"].expected < revision)
      BY <1>1, <2>1, <2>2
    <3>2. asked["SAVE_LIVE"].expected = editor.revision
      BY <3>1 DEF EditInv, LiveSavesKnow
    <3> QED BY <1>2, <3>1, <3>2
  <2>3. asked' \in [Kinds -> Payload \cup {None}]
    BY <1>1, <2>1
  <2>4. ASSUME asked = NothingAsked  PROVE asked' = NothingAsked
    <3>1. \A k \in Kinds : asked[k] = None
      BY <2>4 DEF NothingAsked
    <3>2. asked' = [k \in Kinds |-> None]
      BY <2>1, <3>1
    <3> QED BY <3>2 DEF NothingAsked
  <2> QED BY <2>1, <2>2, <2>3, <2>4
<1>4. CASE UNCHANGED <<asked, answers>> /\ revision = editor.revision
  BY <1>1, <1>2, <1>4 DEF EditInv, AnswersKnow
<1> QED BY <1>3, <1>4

\* Another screen: what it says is known, and prices that an answered save has left
\* alone are the same, or the save's answer is forgotten.
LEMMA ShowsKeeps ==
  ASSUME EditInv, UNCHANGED product, late' = late, call' = None,
         editor' \in EditorRow,
         DetailsKnown(editor'.revision, editor'.seen.details),
         PriceKnown(editor'.revision, editor'.seen.price),
         editor'.rows <= product.stock, editor'.seen.stock <= product.stock,
         editor'.state = "DRAFT" => editor'.rows <= editor'.seen.stock,
         editor'.state # "DRAFT" => product.state # "DRAFT",
         editor'.step = "AWAY" => editor.step = "AWAY",
         \/ Remembers(editor'.revision)
         \/ UNCHANGED <<asked, answers>> /\ editor'.revision = editor.revision,
         \/ /\ editor'.revision = editor.revision
            /\ editor'.seen = editor.seen /\ editor'.state = editor.state
         \/ editor.revision < editor'.revision
         \/ asked["SAVE_LIVE"] = None,
         reading' # None => reading' \in Reading,
         ReadingKnows'
  PROVE  EditInv'
<1> PICK revision : revision = editor'.revision
  OBVIOUS
<1>1. revision \in Nat /\ editor.revision \in Nat
  BY EditorTypes DEF EditInv, EditorRow
<1>2. /\ asked' \in [Kinds -> Payload \cup {None}]
      /\ \A k \in Kinds : asked'[k] = asked[k] \/ asked'[k] = None
      /\ asked'["SAVE_LIVE"] # None => revision <= editor.revision
      /\ answers' \subseteq answers
      /\ \A a \in answers' : asked'[a.kind] # None
      /\ asked = NothingAsked => asked' = NothingAsked
  BY <1>1, Remembering
<1>3. late' \subseteq Request /\ LateKnow'
  BY <1>2, LateStayKnown DEF GivenUp
<1>4. RowsTypeOK'
  BY <1>2, <1>3 DEF EditInv, RowsTypeOK
<1>5. EditorKnows'
  BY <1>2 DEF EditInv, EditorKnows, DetailsKnown, PriceKnown
<1>6. CallKnows'
  BY DEF CallKnows
<1>7. \A a \in answers' : /\ a \in answers /\ a.kind \in Kinds /\ asked'[a.kind] # None
                          /\ asked'[a.kind] = asked[a.kind]
  BY <1>2, AnswerTypes DEF EditInv
<1>8. AnswersKnow'
  BY <1>7 DEF EditInv, AnswersKnow, DetailsKnown, PriceKnown
<1>9. LiveSavesKnow'
  <2>1. "SAVE_LIVE" \in Kinds
    BY DEF Kinds, Saves
  <2>2. CASE asked'["SAVE_LIVE"] = None
    BY <1>7, <2>2 DEF LiveSavesKnow
  <2>3. CASE asked'["SAVE_LIVE"] # None
    <3>1. asked["SAVE_LIVE"] # None /\ asked'["SAVE_LIVE"] = asked["SAVE_LIVE"]
          /\ revision <= editor.revision
      BY <1>2, <2>1, <2>3
    <3>2. /\ editor'.revision = editor.revision
          /\ editor'.seen = editor.seen /\ editor'.state = editor.state
      BY <1>1, <3>1
    <3> QED BY <1>7, <3>1, <3>2 DEF EditInv, LiveSavesKnow, PriceKnown
  <2> QED BY <2>2, <2>3
<1> QED BY <1>3, <1>4, <1>5, <1>6, <1>8, <1>9 DEF EditInv

\* A draft's editor has saved no live product.
LEMMA DraftsSaveDrafts ==
  EditInv /\ editor.state = "DRAFT" => asked["SAVE_LIVE"] = None
BY DEF EditInv, LiveSavesKnow

LEMMA HydratedRow ==
  ASSUME EditInv, NEW view \in ProductRow
  PROVE  /\ Hydrated(view) \in EditorRow
         /\ Hydrated(view).step = editor.step /\ Hydrated(view).preview = editor.preview
         /\ Hydrated(view).revision = view.revision /\ Hydrated(view).state = view.state
         /\ Hydrated(view).rows = view.stock
         /\ Hydrated(view).seen.details = view.details
         /\ Hydrated(view).seen.price = view.price
         /\ Hydrated(view).seen.stock = view.stock
BY ProductTypes DEF EditInv, RowsTypeOK, EditorRow, Hydrated

LEMMA HydratedBesideRow ==
  ASSUME EditInv, NEW view \in ProductRow
  PROVE  /\ HydratedBesideRows(view) \in EditorRow
         /\ HydratedBesideRows(view).step = editor.step
         /\ HydratedBesideRows(view).revision = view.revision
         /\ HydratedBesideRows(view).state = view.state
         /\ HydratedBesideRows(view).rows = editor.rows
         /\ HydratedBesideRows(view).seen.details = view.details
         /\ HydratedBesideRows(view).seen.price = editor.seen.price
         /\ HydratedBesideRows(view).seen.stock = editor.seen.stock
<1>1. editor \in EditorRow /\ editor.seen \in Versions
  BY DEF EditInv, RowsTypeOK, EditorRow
<1>2. /\ view.revision \in Nat /\ view.stock \in Nat /\ view.details \in Nat
      /\ view.state \in {"DRAFT", "PUBLISHED", "UNPUBLISHED"}
  BY ProductTypes
<1>3. PICK seen : seen = [editor.seen EXCEPT !.details = view.details]
  OBVIOUS
<1>4. /\ seen \in Versions /\ seen.details = view.details
      /\ seen.price = editor.seen.price /\ seen.stock = editor.seen.stock
  BY <1>1, <1>2, <1>3 DEF Versions
<1>5. HydratedBesideRows(view) =
        [editor EXCEPT !.revision = view.revision, !.state = view.state, !.seen = seen]
  BY <1>1, <1>3 DEF HydratedBesideRows, EditorRow
<1>6. /\ HydratedBesideRows(view) \in EditorRow
      /\ HydratedBesideRows(view).step = editor.step
      /\ HydratedBesideRows(view).revision = view.revision
      /\ HydratedBesideRows(view).state = view.state
      /\ HydratedBesideRows(view).rows = editor.rows
      /\ HydratedBesideRows(view).seen = seen
  BY <1>1, <1>2, <1>4, <1>5 DEF EditorRow
<1> QED BY <1>4, <1>6

LEMMA NewReading ==
  ASSUME NEW purpose \in Purposes, NEW then \in Afterwards, Reads(purpose, then)
  PROVE  /\ reading' \in Reading /\ reading'.for = purpose /\ reading'.at = "ROW"
BY DEF Reads, Reading, NoView, ProductRow

-----------------------------------------------------------------------------
(* Reading. *)

LEMMA OpenStep ==
  ASSUME EditInv, Open  PROVE EditInv'
<1>1. /\ reading'.for = "LOAD" /\ reading'.at = "ROW" /\ reading' \in Reading
      /\ editor.step = "AWAY" /\ call = None
      /\ UNCHANGED <<product, answers, editor, asked, call, late>>
  BY NewReading DEF Open, Idle, Purposes, Afterwards
<1>2. ReadingKnows'
  BY <1>1 DEF ReadingKnows
<1> QED BY <1>1, <1>2, ReadsKeeps DEF GivenUp

LEMMA ReadRowStep ==
  ASSUME EditInv, ReadRow  PROVE EditInv'
<1>1. /\ reading # None /\ reading.at = "ROW"
      /\ reading' = [reading EXCEPT !.at = "REST", !.view = product]
      /\ UNCHANGED <<product, answers, editor, asked, call, late>>
      /\ call = None
  BY CallQuiet DEF ReadRow
<1>2. reading \in Reading /\ product \in ProductRow
  BY <1>1 DEF EditInv, RowsTypeOK
<1>3. /\ reading' \in Reading /\ reading'.at = "REST" /\ reading'.view = product
      /\ reading'.for = reading.for
  BY <1>1, <1>2 DEF Reading
<1>4. product.revision \in Nat
  BY <1>2, ProductTypes
<1>5. DetailsKnown(product.revision, product.details)'
  BY <1>1, <1>4 DEF DetailsKnown
<1>6. ReadingKnows'
  BY <1>1, <1>3, <1>5 DEF EditInv, ReadingKnows, DetailsKnown
<1> QED BY <1>1, <1>3, <1>6, ReadsKeeps DEF GivenUp

LEMMA QuietReadingStep ==
  ASSUME EditInv, ReadFails \/ CancelReview  PROVE EditInv'
<1>1. /\ reading # None /\ reading' = None
      /\ UNCHANGED <<product, answers, editor, asked, call, late>> /\ call = None
  BY CallQuiet DEF ReadFails, CancelReview
<1>2. ReadingKnows'
  BY <1>1 DEF ReadingKnows
<1> QED BY <1>1, <1>2, ReadsKeeps DEF GivenUp

\* The view as it is read: its row first, everything else just now.
LEMMA TheView ==
  ASSUME EditInv, reading # None, reading.at = "REST"
  PROVE  /\ View \in ProductRow
         /\ View.revision = reading.view.revision /\ View.details = reading.view.details
         /\ View.state = reading.view.state
         /\ View.price = product.price /\ View.stock = product.stock
         /\ DetailsKnown(View.revision, View.details)
         /\ PriceKnown(View.revision, View.price)
         /\ View.state # "DRAFT" => product.state # "DRAFT"
<1>1. reading.view \in ProductRow /\ product \in ProductRow
  BY ReadingTypes DEF EditInv, RowsTypeOK
<1>2. /\ View \in ProductRow
      /\ View.revision = reading.view.revision /\ View.details = reading.view.details
      /\ View.state = reading.view.state
      /\ View.price = product.price /\ View.stock = product.stock
  BY <1>1, ProductTypes DEF View, ProductRow
<1> QED BY <1>2 DEF EditInv, ReadingKnows, DetailsKnown, PriceKnown

LEMMA ReadRestStep ==
  ASSUME EditInv, ReadRest  PROVE EditInv'
<1>1. /\ reading # None /\ reading.at = "REST" /\ call = None
      /\ UNCHANGED <<product, call, late>>
  BY CallQuiet DEF ReadRest
<1>2. CASE reading.for = "APPLIED" /\ reading.then = "EXIT"
  <2>1. Leaves /\ reading' = None
    BY <1>2 DEF ReadRest
  <2> QED BY <1>1, <2>1, LeavesKeeps DEF GivenUp
<1>3. CASE ~(reading.for = "APPLIED" /\ reading.then = "EXIT")
  <2>1. /\ editor' = Shown(View) /\ Remembers(editor'.revision)
        /\ reading' = CASE reading.for = "CONFLICT" ->
                               [reading EXCEPT !.at = "SHOWN", !.view = View]
                         [] reading.for = "APPLIED" ->
                               [reading EXCEPT !.for = "PREVIEW", !.at = "ROW",
                                               !.then = "STAY", !.view = NoView]
                         [] OTHER -> None
    BY <1>3 DEF ReadRest
  <2>2. reading \in Reading /\ reading.for \in Purposes
    BY <1>1, ReadingTypes DEF EditInv, RowsTypeOK
  <2> USE <1>1
  <2>3. /\ View \in ProductRow /\ View.revision \in Nat /\ View.stock \in Nat
        /\ View.stock = product.stock /\ product.stock \in Nat
        /\ View.revision = reading.view.revision /\ View.details = reading.view.details
        /\ View.state = reading.view.state /\ View.price = product.price
        /\ DetailsKnown(View.revision, View.details)
        /\ PriceKnown(View.revision, View.price)
        /\ View.state # "DRAFT" => product.state # "DRAFT"
    BY TheView, ProductTypes
  <2>4. /\ editor \in EditorRow
        /\ DetailsKnown(editor.revision, editor.seen.details)
        /\ PriceKnown(editor.revision, editor.seen.price)
        /\ editor.rows <= product.stock /\ editor.seen.stock <= product.stock
        /\ editor.state = "DRAFT" => editor.rows <= editor.seen.stock
        /\ editor.state # "DRAFT" => product.state # "DRAFT"
    BY DEF EditInv, EditorKnows, RowsTypeOK
  <2>5. CASE reading.for = "LOAD"
    <3>1. reading' = None /\ editor' = [Hydrated(View) EXCEPT !.step = "FORM"]
      BY <2>1, <2>5 DEF Shown
    <3>2. /\ editor' \in EditorRow /\ editor'.step = "FORM"
          /\ editor'.revision = View.revision /\ editor'.state = View.state
          /\ editor'.rows = View.stock /\ editor'.seen.details = View.details
          /\ editor'.seen.price = View.price /\ editor'.seen.stock = View.stock
      BY <2>3, <3>1, HydratedRow DEF EditorRow
    <3>3. asked["SAVE_LIVE"] = None
      BY <2>5 DEF EditInv, ReadingKnows, EditorKnows, NothingAsked, Kinds, Saves
    <3>4. ReadingKnows'
      BY <3>1 DEF ReadingKnows
    <3> QED BY <2>1, <2>3, <3>1, <3>2, <3>3, <3>4, ShowsKeeps
  <2>6. CASE reading.for = "CONFLICT"
    <3>1. reading' = [reading EXCEPT !.at = "SHOWN", !.view = View] /\ editor' = editor
      BY <2>1, <2>6 DEF Shown
    <3>2. /\ reading' \in Reading /\ reading'.at = "SHOWN" /\ reading'.view = View
          /\ reading'.for = "CONFLICT"
      BY <2>2, <2>3, <2>6, <3>1 DEF Reading
    <3>3. ReadingKnows'
      BY <2>3, <2>4, <2>6, <3>1, <3>2
         DEF EditInv, ReadingKnows, DetailsKnown, PriceKnown
    <3> QED BY <2>1, <2>4, <3>1, <3>2, <3>3, ShowsKeeps
  <2>7. CASE reading.for = "APPLIED"
    <3>1. /\ reading' = [reading EXCEPT !.for = "PREVIEW", !.at = "ROW",
                                        !.then = "STAY", !.view = NoView]
          /\ editor' = Hydrated(View)
      BY <2>1, <2>7 DEF Shown
    <3>2. reading' \in Reading /\ reading'.for = "PREVIEW" /\ reading'.at = "ROW"
      BY <2>2, <3>1 DEF Reading, NoView, ProductRow, Purposes, Afterwards
    <3>3. ReadingKnows'
      BY <3>2 DEF ReadingKnows
    <3>4. editor.state # "DRAFT" => editor.revision < editor'.revision
      BY <2>3, <2>7, <3>1, HydratedRow DEF EditInv, ReadingKnows
    <3> QED BY <2>1, <2>3, <3>1, <3>2, <3>3, <3>4, HydratedRow, DraftsSaveDrafts, ShowsKeeps
  <2>8. CASE reading.for = "PREVIEW"
    <3>1. reading' = None /\ editor' = Previewed(View)
      BY <2>1, <2>8 DEF Shown
    <3>2. /\ editor' \in EditorRow /\ editor'.step = "REVIEW"
          /\ editor'.revision = editor.revision /\ editor'.state = editor.state
          /\ editor'.rows = editor.rows /\ editor'.seen = editor.seen
      BY <2>3, <2>4, <3>1, ProductTypes DEF Previewed, EditorRow
    <3>3. ReadingKnows'
      BY <3>1 DEF ReadingKnows
    <3> QED BY <2>1, <2>4, <3>1, <3>2, <3>3, ShowsKeeps
  <2> QED BY <2>2, <2>5, <2>6, <2>7, <2>8 DEF Purposes
<1> QED BY <1>2, <1>3

LEMMA ReviewStep ==
  ASSUME EditInv, NEW mine \in BOOLEAN, ApplyReview(mine)  PROVE EditInv'
<1>1. /\ reading # None /\ reading.at = "SHOWN" /\ call = None /\ reading' = None
      /\ UNCHANGED <<product, call, late>>
      /\ editor' = [Hydrated(reading.view) EXCEPT
             !.rows = IF mine THEN editor.rows ELSE reading.view.stock]
      /\ Remembers(reading.view.revision)
  BY CallQuiet DEF ApplyReview
<1>2. PICK view \in ProductRow : view = reading.view
  BY <1>1, ReadingTypes DEF EditInv
<1>3. /\ DetailsKnown(view.revision, view.details) /\ PriceKnown(view.revision, view.price)
      /\ view.state # "DRAFT" => product.state # "DRAFT"
      /\ view.stock <= product.stock /\ editor.rows <= view.stock
      /\ editor.state # "DRAFT" => editor.revision < view.revision
  BY <1>1, <1>2 DEF EditInv, ReadingKnows
<1>4. view.stock \in Nat /\ editor.rows \in Nat /\ editor.rows <= product.stock
  BY ProductTypes, EditorTypes DEF EditInv, EditorKnows
<1>5. PICK rows \in Nat : /\ rows = IF mine THEN editor.rows ELSE view.stock
                          /\ rows <= view.stock /\ rows <= product.stock
  BY <1>3, <1>4
<1>6. editor' = [Hydrated(view) EXCEPT !.rows = rows]
  BY <1>1, <1>2, <1>5
<1>7. /\ editor' \in EditorRow /\ editor'.step = editor.step
      /\ editor'.revision = view.revision /\ editor'.state = view.state
      /\ editor'.rows = rows /\ editor'.seen.details = view.details
      /\ editor'.seen.price = view.price /\ editor'.seen.stock = view.stock
  BY <1>6, HydratedRow DEF EditorRow
<1>8. ReadingKnows'
  BY <1>1 DEF ReadingKnows
<1> QED BY <1>1, <1>2, <1>3, <1>5, <1>7, <1>8, DraftsSaveDrafts, ShowsKeeps

\* Going back changes the step and the preview only, whatever is out.
LEMMA BackStep ==
  ASSUME EditInv, BackToSale  PROVE EditInv'
<1> USE DEF EditInv
<1>1. /\ editor.step = "REVIEW"
      /\ editor' = [editor EXCEPT !.step = "FORM", !.preview = Nothing]
      /\ UNCHANGED <<product, answers, asked, call, reading, late>>
  BY DEF BackToSale
<1>2. editor \in EditorRow
  BY DEF RowsTypeOK
<1>3. /\ editor' \in EditorRow /\ editor'.step = "FORM"
      /\ editor'.revision = editor.revision /\ editor'.state = editor.state
      /\ editor'.rows = editor.rows /\ editor'.seen = editor.seen
  BY <1>1, <1>2 DEF EditorRow, Nothing, Versions
<1>4. RowsTypeOK'
  BY <1>1, <1>3 DEF RowsTypeOK
<1>5. EditorKnows'
  BY <1>1, <1>3 DEF EditorKnows, DetailsKnown, PriceKnown
<1>6. CallKnows' /\ LateKnow'
  BY <1>1, <1>3 DEF CallKnows, LateKnow, RequestKnows, DetailsKnown, PriceKnown
<1>7. AnswersKnow' /\ LiveSavesKnow'
  BY <1>1, <1>3 DEF AnswersKnow, LiveSavesKnow, DetailsKnown, PriceKnown
<1>8. ReadingKnows'
  BY <1>1, <1>3 DEF ReadingKnows, DetailsKnown, PriceKnown
<1> QED BY <1>4, <1>5, <1>6, <1>7, <1>8

-----------------------------------------------------------------------------
(* Answers. *)

LEMMA SaveAnsweredStep ==
  ASSUME EditInv, SaveAnswered  PROVE EditInv'
<1> DEFINE now == IF editor.state = "DRAFT" THEN Hydrated(Answer) ELSE HydratedBesideRows(Answer)
<1>1. /\ Answered(Saves) /\ Saved(now, call.then)
      /\ call.then # "EXIT" => Remembers(Answer.revision)
      /\ UNCHANGED <<product, late>>
  BY DEF SaveAnswered
<1>2. PICK a \in answers :
         /\ a.kind = call.request.kind /\ a.view = Answer
         /\ call # None /\ call.request.kind \in Saves /\ reading = None
         /\ Answer \in ProductRow /\ Answer.revision = call.request.expected + 1
         /\ Answer.revision \in Nat /\ Answer.stock \in Nat /\ Answer.stock <= product.stock
         /\ Answer.state # "DRAFT" => product.state # "DRAFT"
         /\ DetailsKnown(Answer.revision, Answer.details)
         /\ PriceKnown(Answer.revision, Answer.price)
         /\ a.kind = "SAVE_LIVE" =>
              Answer.state # "DRAFT" /\ PriceKnown(Answer.revision, editor.seen.price)
  BY <1>1, TheAnswer
<1>3. /\ call.request.expected = editor.revision
      /\ call.request.kind = "SAVE_LIVE" <=> editor.state # "DRAFT"
  BY <1>2 DEF EditInv, CallKnows
<1>4. call.then \in Afterwards
  BY <1>2, CallTypes DEF EditInv
<1>5. editor.revision \in Nat /\ editor.revision < Answer.revision
  BY <1>2, <1>3, EditorTypes DEF EditInv
<1>6. /\ now \in EditorRow /\ now.step = editor.step /\ now.revision = Answer.revision
      /\ DetailsKnown(now.revision, now.seen.details)
      /\ PriceKnown(now.revision, now.seen.price)
      /\ now.rows <= product.stock /\ now.seen.stock <= product.stock
      /\ now.state = "DRAFT" => now.rows <= now.seen.stock
      /\ now.state # "DRAFT" => product.state # "DRAFT"
  <2>1. CASE editor.state = "DRAFT"
    BY <1>2, <2>1, HydratedRow
  <2>2. CASE editor.state # "DRAFT"
    <3>1. editor.seen.stock <= product.stock /\ editor.rows <= product.stock
      BY DEF EditInv, EditorKnows
    <3> QED BY <1>2, <1>3, <2>2, <3>1, HydratedBesideRow
  <2> QED BY <2>1, <2>2
<1> HIDE DEF now
<1>7. call' = None
  BY <1>1 DEF Saved
<1>8. CASE call.then = "EXIT"
  <2>1. Leaves /\ reading' = None
    BY <1>1, <1>2, <1>8 DEF Saved
  <2> QED BY <1>1, <1>7, <2>1, LeavesKeeps DEF GivenUp
<1>9. CASE call.then = "PREVIEW"
  <2>1. editor' = now /\ Reads("PREVIEW", "STAY")
    BY <1>1, <1>9 DEF Saved
  <2>2. reading' \in Reading /\ reading'.for = "PREVIEW" /\ reading'.at = "ROW"
    BY <2>1, NewReading DEF Purposes, Afterwards
  <2>3. ReadingKnows'
    BY <2>2 DEF ReadingKnows
  <2> QED BY <1>1, <1>5, <1>6, <1>7, <1>9, <2>1, <2>2, <2>3, ShowsKeeps
<1>10. CASE call.then = "STAY"
  <2>1. editor' = [now EXCEPT !.step = "FORM"] /\ reading' = None
    BY <1>1, <1>2, <1>10 DEF Saved
  <2>2. /\ editor' \in EditorRow /\ editor'.step = "FORM" /\ editor'.revision = now.revision
        /\ editor'.rows = now.rows /\ editor'.seen = now.seen /\ editor'.state = now.state
    BY <1>6, <2>1 DEF EditorRow
  <2>3. ReadingKnows'
    BY <2>1 DEF ReadingKnows
  <2> QED BY <1>1, <1>5, <1>6, <1>7, <1>10, <2>1, <2>2, <2>3, ShowsKeeps
<1> QED BY <1>4, <1>8, <1>9, <1>10 DEF Afterwards

LEMMA StockAnsweredStep ==
  ASSUME EditInv, StockAnswered  PROVE EditInv'
<1>1. /\ Answered({"STOCK"}) /\ call' = None /\ Reads("APPLIED", call.then)
      /\ UNCHANGED <<product, answers, editor, asked, late>>
  BY DEF StockAnswered
<1>2. PICK a \in answers :
         /\ call # None /\ call.request.kind \in {"STOCK"}
         /\ Answer.revision = call.request.expected + 1
         /\ Answer.revision <= product.revision /\ Answer.revision \in Nat
  BY <1>1, TheAnswer
<1>3. /\ editor.state # "DRAFT" /\ editor.revision < call.request.expected
      /\ call.then \in Afterwards /\ call.request.expected \in Nat
  BY <1>2, CallTypes, RequestTypes DEF EditInv, CallKnows
<1>4. editor.revision \in Nat /\ product.revision \in Nat
  BY EditorTypes, ProductTypes DEF EditInv, RowsTypeOK
<1>5. editor.revision < product.revision
  BY <1>2, <1>3, <1>4
<1>6. reading' \in Reading /\ reading'.for = "APPLIED" /\ reading'.at = "ROW"
  BY <1>1, <1>3, NewReading DEF Purposes
<1>7. ReadingKnows'
  BY <1>1, <1>5, <1>6 DEF ReadingKnows
<1> QED BY <1>1, <1>6, <1>7, ReadsKeeps DEF GivenUp

LEMMA PublicationAnsweredStep ==
  ASSUME EditInv, PublishAnswered \/ UnpublishAnswered  PROVE EditInv'
<1>1. CASE PublishAnswered
  <2>1. call' = None /\ Leaves /\ UNCHANGED <<product, late>> /\ reading' = reading /\ call # None
    BY <1>1 DEF PublishAnswered, Answered
  <2>2. reading' = None
    BY <2>1, CallQuiet
  <2> QED BY <2>1, <2>2, LeavesKeeps DEF GivenUp
<1>2. CASE UnpublishAnswered
  <2> DEFINE now == [Hydrated(Answer) EXCEPT !.preview = Nothing]
  <2>1. /\ Answered({"UNPUBLISH"}) /\ Saved(now, "STAY") /\ Remembers(Answer.revision)
        /\ UNCHANGED <<product, late>>
    BY <1>2 DEF UnpublishAnswered
  <2>2. PICK a \in answers :
           /\ call # None /\ call.request.kind \in {"UNPUBLISH"} /\ reading = None
           /\ Answer \in ProductRow /\ Answer.revision = call.request.expected + 1
           /\ Answer.revision \in Nat /\ Answer.stock \in Nat /\ Answer.stock <= product.stock
           /\ Answer.state # "DRAFT" => product.state # "DRAFT"
           /\ DetailsKnown(Answer.revision, Answer.details)
           /\ PriceKnown(Answer.revision, Answer.price)
    BY <2>1, TheAnswer
  <2>3. call' = None /\ editor' = [now EXCEPT !.step = "FORM"] /\ reading' = None
    BY <2>1, <2>2 DEF Saved
  <2>4. /\ editor' \in EditorRow /\ editor'.step = "FORM" /\ editor'.revision = Answer.revision
        /\ editor'.rows = Answer.stock /\ editor'.state = Answer.state
        /\ editor'.seen.details = Answer.details /\ editor'.seen.price = Answer.price
        /\ editor'.seen.stock = Answer.stock
    BY <2>2, <2>3, HydratedRow DEF EditorRow, Nothing, Versions
  <2>5. call.request.expected = editor.revision
    BY <2>2 DEF EditInv, CallKnows
  <2>6. editor.revision < editor'.revision
    BY <2>2, <2>4, <2>5, EditorTypes DEF EditInv
  <2>7. ReadingKnows'
    BY <2>3 DEF ReadingKnows
  <2> HIDE DEF now
  <2> QED BY <2>1, <2>2, <2>3, <2>4, <2>6, <2>7, ShowsKeeps
<1> QED BY <1>1, <1>2

LEMMA RefusedStep ==
  ASSUME EditInv, Refused  PROVE EditInv'
<1>1. /\ call # None /\ ~Accepts(call.request) /\ call' = None /\ reading = None
      /\ UNCHANGED <<product, answers, editor, asked, late>>
  BY CallQuiet DEF Refused
<1>2. CASE call.request.kind \in {"PUBLISH", "UNPUBLISH"}
  <2>1. reading' = None
    BY <1>1, <1>2 DEF Refused
  <2>2. ReadingKnows'
    BY <2>1 DEF ReadingKnows
  <2> QED BY <1>1, <2>1, <2>2, ReadsKeeps DEF GivenUp
<1>3. CASE call.request.kind \notin {"PUBLISH", "UNPUBLISH"}
  <2>1. Reads("CONFLICT", "STAY")
    BY <1>3 DEF Refused
  <2>2. reading' \in Reading /\ reading'.for = "CONFLICT" /\ reading'.at = "ROW"
    BY <2>1, NewReading DEF Purposes, Afterwards
  <2>3. ASSUME editor.state # "DRAFT"  PROVE editor.revision < product.revision
    <3>1. /\ call.request.expected \in Nat /\ call.request.kind \in Kinds
          /\ editor.revision \in Nat /\ product.revision \in Nat
      BY <1>1, CallTypes, RequestTypes, EditorTypes, ProductTypes DEF EditInv, RowsTypeOK
    <3>2. call.request.expected <= product.revision
      BY <1>1 DEF EditInv, CallKnows, RequestKnows
    <3>3. CASE call.request.kind \in {"OFFERS", "STOCK"}
      <4>1. editor.revision < call.request.expected
        BY <1>1, <3>3 DEF EditInv, CallKnows
      <4> QED BY <3>1, <3>2, <4>1
    <3>4. CASE call.request.kind \in Saves
      <4>1. call.request.kind = "SAVE_LIVE" /\ call.request.expected = editor.revision
        BY <1>1, <2>3, <3>4 DEF EditInv, CallKnows
      <4>2. call.request.expected # product.revision
        BY <1>1, <4>1 DEF Accepts
      <4> QED BY <3>1, <3>2, <4>1, <4>2
    <3> QED BY <1>3, <3>1, <3>3, <3>4 DEF Kinds
  <2>4. ReadingKnows'
    BY <1>1, <2>2, <2>3 DEF ReadingKnows
  <2> QED BY <1>1, <2>2, <2>4, ReadsKeeps DEF GivenUp
<1> QED BY <1>2, <1>3

LEMMA EndingStep ==
  ASSUME EditInv, GivesUp \/ Close  PROVE EditInv'
<1>1. CASE GivesUp
  <2>1. /\ call # None /\ call' = None /\ GivenUp
        /\ UNCHANGED <<product, answers, editor, asked>> /\ reading' = reading
    BY <1>1 DEF GivesUp, GivenUp
  <2>2. reading' = None
    BY <2>1, CallQuiet
  <2>3. ReadingKnows'
    BY <2>2 DEF ReadingKnows
  <2> QED BY <2>1, <2>2, <2>3, ReadsKeeps
<1>2. CASE Close
  <2>1. GivenUp
    BY <1>2 DEF Close, GivenUp
  <2> QED BY <1>2, <2>1, LeavesKeeps DEF Close
<1> QED BY <1>1, <1>2

-----------------------------------------------------------------------------
(* The theorems. *)

LEMMA EditingBegins == EditingInit => EditInv
<1> SUFFICES ASSUME EditingInit  PROVE EditInv
  OBVIOUS
<1>1. /\ answers = {} /\ asked = NothingAsked /\ call = None /\ reading = None /\ late = {}
      /\ product.revision = 0 /\ product.details = 0 /\ product.price = 0 /\ product.stock = 0
      /\ product \in ProductRow
      /\ editor.revision = 0 /\ editor.rows = 0 /\ editor.seen = Nothing
      /\ editor.state = "DRAFT" /\ editor \in EditorRow
  BY DEF EditingInit, NoView, Away, ProductRow, EditorRow, Nothing, Versions
<1>2. Nothing.details = 0 /\ Nothing.price = 0 /\ Nothing.stock = 0
  BY DEF Nothing
<1>3. "SAVE_LIVE" \in Kinds /\ NothingAsked \in [Kinds -> Payload \cup {None}]
      /\ NothingAsked["SAVE_LIVE"] = None
  BY DEF Kinds, Saves, NothingAsked
<1>4. RowsTypeOK
  BY <1>1, <1>3 DEF RowsTypeOK
<1>5. EditorKnows
  BY <1>1, <1>2 DEF EditorKnows, DetailsKnown, PriceKnown
<1> QED BY <1>1, <1>3, <1>4, <1>5
        DEF EditInv, CallKnows, LateKnow, AnswersKnow, LiveSavesKnow, ReadingKnows

LEMMA EditingStays == EditInv /\ [EditingNext]_editingVars => EditInv'
<1> SUFFICES ASSUME EditInv, [EditingNext]_editingVars  PROVE EditInv'
  OBVIOUS
<1>1. CASE Editor
  BY <1>1, OpenStep, ReadRowStep, ReadRestStep, QuietReadingStep, ReviewStep, BackStep,
     SendingStep, FollowingStep, SaveAnsweredStep, StockAnsweredStep, PublicationAnsweredStep,
     RefusedStep, EndingStep
     DEF Editor
<1>2. CASE Arrivals
  BY <1>2, ArrivalsStep
<1>3. CASE Elsewhere
  BY <1>3, ElsewhereStep
<1>4. CASE UNCHANGED editingVars
  BY <1>4, ForgottenStep DEF editingVars
<1> QED BY <1>1, <1>2, <1>3, <1>4 DEF EditingNext

\* Whoever names the product's revision has seen its details and prices, as far as
\* the request replaces them: screens, requests, answers, and views half read.
THEOREM RevisionsTellWhatWasSeen == EditingSpec => []EditInv
BY EditingBegins, EditingStays, PTL DEF EditingSpec

LEMMA UnderwayKnow ==
  ASSUME EditInv, NEW r \in Underway
  PROVE  r \in Request /\ RequestKnows(r) /\ Accepts(r)
<1>1. Accepts(r) /\ (r \in late \/ (call # None /\ r = call.request))
  BY DEF Underway
<1> QED BY <1>1, CallTypes DEF EditInv, RowsTypeOK, LateKnow, CallKnows

\* A write that the API would still take, even one given up, replaces details, prices
\* and a draft's stock only as the seller was shown them.
THEOREM NothingOverwrittenBlindly == EditingSpec => []NoBlindOverwrite
<1>1. ASSUME EditInv, NEW r \in Underway,
             NEW f \in Replaces(r.kind) \ (IF r.kind = "STOCK" THEN {"stock"} ELSE {})
      PROVE  SeenIn(product)[f] = r.seen[f]
  <2>1. r \in Request /\ RequestKnows(r) /\ Accepts(r) /\ r.kind \in Kinds
    BY <1>1, UnderwayKnow, RequestTypes
  <2>2. /\ SeenIn(product).details = product.details /\ SeenIn(product).price = product.price
        /\ SeenIn(product).stock = product.stock /\ product.stock \in Nat
    BY <1>1, ProductTypes DEF EditInv, RowsTypeOK
  <2>3. r.rows \in Nat /\ r.seen.stock \in Nat
    BY <2>1, RequestTypes
  <2>4. r.expected = product.revision
    BY <2>1 DEF Accepts
  <2>5. CASE f = "details"
    <3>1. r.kind \in Saves
      BY <1>1, <2>1, <2>5 DEF Replaces, Kinds, Saves
    <3> QED BY <2>1, <2>2, <2>4, <2>5, <3>1 DEF RequestKnows, DetailsKnown
  <2>6. CASE f = "price"
    <3>1. r.kind \in Saves \cup {"OFFERS"}
      BY <1>1, <2>1, <2>6 DEF Replaces, Kinds, Saves
    <3> QED BY <2>1, <2>2, <2>4, <2>6, <3>1 DEF RequestKnows, PriceKnown
  <2>7. CASE f = "stock"
    <3>1. r.kind = "SAVE_DRAFT"
      BY <1>1, <2>1, <2>7 DEF Replaces, Kinds, Saves
    <3>2. r.rows = product.stock
      BY <2>1, <3>1 DEF Accepts
    <3> QED BY <2>1, <2>2, <2>3, <2>7, <3>1, <3>2 DEF RequestKnows
  <2>8. f \in {"details", "price", "stock"}
    BY <1>1, <2>1 DEF Replaces, Kinds, Saves
  <2> QED BY <2>5, <2>6, <2>7, <2>8
<1>2. EditInv => NoBlindOverwrite
  BY <1>1 DEF NoBlindOverwrite
<1> QED BY <1>2, RevisionsTellWhatWasSeen, PTL

\* What a publication that the API would still take makes public, the seller was shown.
THEOREM PublicationsWereShown == EditingSpec => []PublishedAsShown
<1>1. ASSUME EditInv  PROVE PublishedAsShown
  <2> SUFFICES ASSUME NEW r \in Underway, r.kind = "PUBLISH"
               PROVE  r.seen.details = product.details /\ r.seen.price = product.price
    BY DEF PublishedAsShown
  <2>1. RequestKnows(r) /\ r.expected = product.revision
    BY <1>1, UnderwayKnow DEF Accepts
  <2> QED BY <2>1 DEF RequestKnows, DetailsKnown, PriceKnown
<1> QED BY <1>1, RevisionsTellWhatWasSeen, PTL
=============================================================================
