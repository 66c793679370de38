---------------------------- MODULE StoreEditing ----------------------------
(***************************************************************************)
(* The seller's store: the editor's windows, the requests they send and    *)
(* the API that answers them.  A request names the revision it builds on   *)
(* and carries an idempotency key of its own; it may arrive late, twice or *)
(* after its window gave it up.  The service reads the store, merges what  *)
(* it was sent into it and only then opens the transaction that compares   *)
(* the revision; whether pictures are visible is kept by the media module, *)
(* and set outside of that transaction.                                    *)
(*                                                                         *)
(* What a save types is new and known by the save's key.  The pages of the *)
(* profile and of its looks, pictures included, save one field here.  The  *)
(* addresses of other stores, settlement, which setup always sends, and    *)
(* disabled shipping methods, which are like others, are left out.         *)
(***************************************************************************)
EXTENDS Naturals, FiniteSets

CONSTANTS
  Windows,       \* the seller's open windows of the editor
  SaveBound,     \* saves are sent until so many requests were,
  KeyBound,      \* publications until so many; each has a key of its own
  TwinBound,     \* bound on the handlers of one request that run at once
  Codes          \* codes of shipping methods

ASSUME StoreEditingAssumption ==
  SaveBound \in Nat /\ KeyBound \in Nat /\ SaveBound <= KeyBound /\ TwinBound \in Nat

VARIABLES
  shop,       \* the row of store_stores with its shipping methods
  receipts,   \* store_idempotency_records: the answer of each key
  visible,    \* pictures whose visibility is PUBLIC
  window,     \* state of each window's component
  sent,       \* how many requests were sent
  underway,   \* requests on their way: each may arrive late, again or never
  handling    \* requests that are being handled

shopVars == <<shop, receipts, visible, window, sent, underway, handling>>

\* Keys are drawn in order; 0 is none, the content of a field left empty, and 1
\* what a store holds that was made some time ago.
StoreKeys == 2 .. KeyBound + 1
Unset == 0
Former == 1

\* A page saves its section, setup all of them; shipping has a field per method.
Fields == {"profile", "returns"} \cup Codes
Sections == {Codes, {"profile"}, {"returns"}, Fields}
\* What orders refer to by a revision, methods by their identity besides.
Terms == Codes \cup {"returns"}

Text == [Fields -> 0 .. KeyBound + 1]
Term == [id : 0 .. KeyBound + 1, revision : Nat]
ShopRow == [revision : Nat, status : {"DRAFT", "PUBLISHED"}, publication : Nat,
            text : Text, term : [Terms -> Term]]
Input == UNION {[F -> 0 .. KeyBound + 1] : F \in Sections}
Request == [key : StoreKeys, from : Windows, kind : {"SAVE", "PUBLISH"}, expected : Nat,
            input : Input \cup {<<>>}, seen : Text, exits : BOOLEAN]
Handler == [request : Request, read : ShopRow,
            step : {"CHECKED", "READ", "READY", "SHOWN", "HIDING", "FAILED"}]
Window == [stage : {"AWAY", "EDIT", "LOADING", "PREVIEW"}, revision : Nat, seen : Text,
           shown : Text, waiting : StoreKeys \cup {Unset}]

Filled(text) == [f \in Fields |-> text]
NoTerm == [id |-> Unset, revision |-> 0]
NoShop == [revision |-> 0, status |-> "DRAFT", publication |-> 0, text |-> Filled(Unset),
           term |-> [f \in Terms |-> NoTerm]]
FormerShop ==
  [revision |-> 1, status |-> "PUBLISHED", publication |-> 1, text |-> Filled(Former),
   term |-> [f \in Terms |-> [id |-> Former, revision |-> 1]]]
Closed == [stage |-> "AWAY", revision |-> 0, seen |-> Filled(Unset),
           shown |-> Filled(Unset), waiting |-> Unset]

\* Pictures are part of the profile.
Pictures(row) == {row.text["profile"]} \ {Unset}

ShopTypeOK ==
  /\ shop \in ShopRow
  /\ \A k \in StoreKeys : receipts[k] = NoShop \/ receipts[k] \in ShopRow
  /\ visible \subseteq 1 .. KeyBound + 1
  /\ \A w \in Windows : window[w] \in Window
  /\ sent \in 0 .. KeyBound
  /\ \A r \in underway : r.key \in StoreKeys /\ r.seen \in Text
  /\ \A h \in handling : h.read \in ShopRow

\* No store yet, or one that was published some time ago.
ShopInit ==
  /\ shop \in {NoShop, FormerShop}
  /\ receipts = [k \in StoreKeys |-> NoShop]
  /\ visible = Pictures(shop)
  /\ window = [w \in Windows |-> Closed]
  /\ sent = 0 /\ underway = {} /\ handling = {}

\* The approval of the seller's application creates the store, with a name only.
Provision ==
  /\ shop.revision = 0
  /\ shop' = [NoShop EXCEPT !.revision = 1]
  /\ UNCHANGED <<receipts, visible, window, sent, underway, handling>>
-----------------------------------------------------------------------------
(***************************************************************************)
(* The windows.                                                            *)
(***************************************************************************)
WindowOnly == UNCHANGED <<shop, receipts, visible, handling>>

\* Mounting or reloading the page; without a store the form is empty.
Load(w) ==
  /\ window' = [window EXCEPT ![w] =
       [Closed EXCEPT !.stage = "EDIT", !.revision = shop.revision, !.seen = shop.text]]
  /\ UNCHANGED <<sent, underway>>
  /\ WindowOnly

Asks(w, kind, input, seen, exits) ==
  /\ sent' = sent + 1
  /\ underway' = underway \cup
       {[key |-> sent + 2, from |-> w, kind |-> kind, expected |-> window[w].revision,
         input |-> input, seen |-> seen, exits |-> exits]}
  /\ window' = [window EXCEPT ![w].waiting = sent + 2]
  /\ WindowOnly

\* Of a section all is typed or one field, the others being sent as they were loaded;
\* setup leaves out a method whose fee is no number, and so removes it, unless no
\* other is left: then it sends none, and they stay.
OneTyped(w, section, f, v) ==
  [g \in section |-> IF g = f THEN v ELSE window[w].seen[g]]
Typed(w, section) ==
  {[f \in section |-> sent + 2]}
    \cup {OneTyped(w, section, f, sent + 2) : f \in section}
    \cup {OneTyped(w, section, c, Unset) :
            c \in {d \in section \cap Codes :
                    section = Fields /\ \E e \in Codes \ {d} : window[w].seen[e] # Unset}}

\* saveAndExit and saveSectionAndExit, and saveAndPreview of setup.
Save(w, section, exits) ==
  /\ window[w].stage = "EDIT" /\ window[w].waiting = Unset
  /\ section = Fields \/ exits
  /\ sent < SaveBound
  /\ \E input \in Typed(w, section) : Asks(w, "SAVE", input, window[w].seen, exits)

\* What is shown is read after the save, and may be somebody else's later save.
ShowPreview(w) ==
  /\ window[w].stage = "LOADING"
  /\ window' = [window EXCEPT ![w].stage = "PREVIEW", ![w].shown = shop.text]
  /\ UNCHANGED <<sent, underway>>
  /\ WindowOnly

\* From the preview, or because it could not be read.
BackToEditing(w) ==
  /\ window[w].stage \in {"LOADING", "PREVIEW"} /\ window[w].waiting = Unset
  /\ window' = [window EXCEPT ![w].stage = "EDIT"]
  /\ UNCHANGED <<sent, underway>>
  /\ WindowOnly

Publish(w) ==
  /\ window[w].stage = "PREVIEW" /\ window[w].waiting = Unset
  /\ sent < KeyBound
  /\ Asks(w, "PUBLISH", <<>>, window[w].shown, FALSE)

\* An error, or no answer: the window keeps what it had.
GivesUp(w) ==
  /\ window[w].waiting # Unset
  /\ window' = [window EXCEPT ![w].waiting = Unset]
  /\ UNCHANGED <<sent, underway>>
  /\ WindowOnly

Answered(win, r, result) ==
  IF r.kind = "PUBLISH"
  THEN [win EXCEPT !.waiting = Unset, !.stage = "EDIT", !.revision = result.revision]
  ELSE IF r.exits THEN Closed
  ELSE [win EXCEPT !.waiting = Unset, !.stage = "LOADING", !.revision = result.revision,
                   !.seen = result.text]

\* The answer reaches the window if it still waits, unless it is lost.
Answers(r, result) ==
  \/ UNCHANGED window
  \/ /\ window[r.from].waiting = r.key
     /\ window' = [window EXCEPT ![r.from] = Answered(@, r, result)]
-----------------------------------------------------------------------------
(***************************************************************************)
(* The API.                                                                *)
(***************************************************************************)
Keyed(h) == receipts[h.request.key]
Answerable(k) == receipts[k] # NoShop

Ends(h) == handling' = handling \ {h}
Goes(h, step) == handling' = (handling \ {h}) \cup {[h EXCEPT !.step = step]}
Begins(r, step, row) ==
  handling' = handling \cup {[request |-> r, step |-> step, read |-> row]}

\* Saving looks for the stored answer first, publishing reads the store first.
Arrives(r) ==
  /\ Cardinality({h \in handling : h.request = r}) < TwinBound
  /\ IF r.kind = "PUBLISH"
     THEN shop.revision > 0 /\ Begins(r, "READ", shop) /\ UNCHANGED window
     ELSE IF Answerable(r.key) THEN Answers(r, receipts[r.key]) /\ UNCHANGED handling
     ELSE Begins(r, "CHECKED", NoShop) /\ UNCHANGED window
  /\ UNCHANGED <<shop, receipts, visible, sent, underway>>

ReadsShop(h) ==
  /\ h.step = "CHECKED"
  /\ handling' = (handling \ {h}) \cup {[h EXCEPT !.step = "READ", !.read = shop]}
  /\ UNCHANGED <<shop, receipts, visible, window, sent, underway>>

\* Mutant: a term is identified by what it is of.
TermByName(row, input, f, k) ==
  IF f \notin DOMAIN input \/ input[f] = row.text[f] THEN row.term[f]
  ELSE IF f \in Codes /\ input[f] = Unset THEN NoTerm
  ELSE [id |-> Former, revision |-> row.term[f].revision + 1]

\* versionShippingMethods and returnPolicyRevision: a changed text takes the next
\* revision, a method that was not there another identity.
NextTerm(row, input, f, k) ==
  IF f \notin DOMAIN input \/ input[f] = row.text[f] THEN row.term[f]
  ELSE IF f \notin Codes THEN [row.term[f] EXCEPT !.revision = @ + 1]
  ELSE IF input[f] = Unset THEN NoTerm
  ELSE IF row.text[f] = Unset THEN [id |-> k, revision |-> 1]
  ELSE [row.term[f] EXCEPT !.revision = @ + 1]

Over(input, text) == [f \in Fields |-> IF f \in DOMAIN input THEN input[f] ELSE text[f]]
Merged(row, input, k) ==
  [revision |-> shop.revision + 1, status |-> "DRAFT", publication |-> shop.publication,
   text |-> Over(input, row.text), term |-> [f \in Terms |-> NextTerm(row, input, f, k)]]

Commits(k, row) == shop' = row /\ receipts' = [receipts EXCEPT ![k] = row]
Replays(k) == Answerable(k) /\ UNCHANGED <<shop, receipts>>

\* Mutant: the revision is not compared.
CommitAnyRevision(r, row) == Replays(r.key) \/ (~Answerable(r.key) /\ Commits(r.key, row))

\* The transaction: the answer of the key, or the write if the revision is the
\* expected one.
Commit(r, row) ==
  \/ Replays(r.key)
  \/ ~Answerable(r.key) /\ shop.revision = r.expected /\ Commits(r.key, row)

\* A store that was published when it was read goes off with its pictures.
HidesAfter(h, result) == h.read.status = "PUBLISHED" /\ result.revision > h.read.revision

CommitSave(h) ==
  /\ h.request.kind = "SAVE" /\ h.step = "READ"
  /\ Commit(h.request, Merged(h.read, h.request.input, h.request.key))
  /\ IF HidesAfter(h, Keyed(h)')
     THEN Goes(h, "HIDING") /\ UNCHANGED window
     ELSE Ends(h) /\ Answers(h.request, Keyed(h)')
  /\ UNCHANGED <<visible, sent, underway>>

HidePictures(h) ==
  /\ h.step = "HIDING"
  /\ visible' = visible \ (Pictures(h.read) \cup Pictures(Keyed(h)))
  /\ Ends(h) /\ Answers(h.request, Keyed(h))
  /\ UNCHANGED <<shop, receipts, sent, underway>>

\* publicationReadiness
Ready(row) ==
  /\ row.text["profile"] # Unset /\ row.text["returns"] # Unset
  /\ \E c \in Codes : row.text[c] # Unset

\* The stored answer, then the checks on what was read.
ChecksPublication(h) ==
  /\ h.request.kind = "PUBLISH" /\ h.step = "READ"
  /\ \/ Answerable(h.request.key) /\ Ends(h) /\ Answers(h.request, Keyed(h))
     \/ /\ ~Answerable(h.request.key)
        /\ \/ h.read.status = "PUBLISHED" /\ Goes(h, "SHOWN")
           \/ h.read.status = "DRAFT" /\ Ready(h.read) /\ Goes(h, "READY")
        /\ UNCHANGED window
  /\ UNCHANGED <<shop, receipts, visible, sent, underway>>

ShowPictures(h) ==
  /\ h.step = "READY"
  /\ visible' = visible \cup Pictures(h.read)
  /\ Goes(h, "SHOWN")
  /\ UNCHANGED <<shop, receipts, window, sent, underway>>

Published(row) ==
  IF row.status = "PUBLISHED" THEN row
  ELSE [row EXCEPT !.status = "PUBLISHED", !.revision = @ + 1, !.publication = @ + 1]

CommitPublication(h) ==
  /\ h.step = "SHOWN"
  /\ Commit(h.request, Published(shop))
  /\ Ends(h) /\ Answers(h.request, Keyed(h)')
  /\ UNCHANGED <<visible, sent, underway>>

\* A conflict or an error takes the pictures back, unless the store was published
\* when it was read.
FailPublication(h) ==
  /\ h.step \in {"READY", "SHOWN"}
  /\ IF h.read.status = "DRAFT" THEN Goes(h, "FAILED") ELSE Ends(h)
  /\ UNCHANGED <<shop, receipts, visible, window, sent, underway>>
TakeBackPictures(h) ==
  /\ h.step = "FAILED"
  /\ visible' = visible \ Pictures(h.read)
  /\ Ends(h)
  /\ UNCHANGED <<shop, receipts, window, sent, underway>>

\* The request is refused for its address, its pictures, what is missing or the
\* revision, or the process goes down.
HandlerEnds(h) ==
  /\ Ends(h)
  /\ UNCHANGED <<shop, receipts, visible, window, sent, underway>>

ShopNext ==
  \/ Provision
  \/ \E w \in Windows :
       \/ Load(w) \/ ShowPreview(w) \/ BackToEditing(w) \/ Publish(w) \/ GivesUp(w)
       \/ \E section \in Sections, exits \in BOOLEAN : Save(w, section, exits)
  \/ \E r \in underway : Arrives(r)
  \/ \E h \in handling :
       \/ ReadsShop(h) \/ CommitSave(h) \/ HidePictures(h)
       \/ ChecksPublication(h) \/ ShowPictures(h) \/ CommitPublication(h)
       \/ FailPublication(h) \/ TakeBackPictures(h) \/ HandlerEnds(h)

ShopSpec == ShopInit /\ [][ShopNext]_shopVars
-----------------------------------------------------------------------------
\* However late or often requests arrive, and whatever the service read before its
\* transaction: what a save replaces is what its window showed, and all it changes
\* is what it was sent; what goes public is complete and what the preview showed.
SellerSawWhatChanges ==
  [][/\ shop'.text # shop.text =>
          \E h \in handling :
            /\ h.request.kind = "SAVE" /\ h.request.seen = shop.text
            /\ shop'.text = Over(h.request.input, shop.text)
     /\ shop'.publication # shop.publication =>
          /\ Ready(shop')
          /\ \E h \in handling : h.request.kind = "PUBLISH" /\ h.request.seen = shop'.text
    ]_shopVars

\* Carts and orders compare the revisions of the terms they saw with those in force:
\* the same revision of the return policy, or of a shipping method, never stands for
\* two texts, however often terms are changed, removed and added again.
Versions == {receipts[k] : k \in StoreKeys} \cup {FormerShop, shop}
TermsKeepTheirMeaning ==
  \A a, b \in Versions : \A f \in Terms :
    a.term[f] = b.term[f] => a.text[f] = b.text[f]

\* The code does not keep this: a publication that fails, or a save that is slow,
\* hides pictures of a store that another request has published meanwhile.
PublishedPicturesAreVisible ==
  shop.status = "PUBLISHED" /\ handling = {} => Pictures(shop) \subseteq visible
=============================================================================
