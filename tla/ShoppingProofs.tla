--------------------------- MODULE ShoppingProofs ---------------------------
(***************************************************************************)
(* Proofs about PurchaseGroup and what it builds on, for any carts,        *)
(* stores, preparations, purchases and keys, and any bounds.               *)
(***************************************************************************)
EXTENDS Shopping, TLAPS

-----------------------------------------------------------------------------
(* Carts. *)

\* What any command on the carts does to a row: it buys nothing and undoes no
\* purchase, and it changes what the cart holds only with its revision.
GoesOn(old, new) ==
  /\ new \in CartRow
  /\ new.status = "CONVERTED" <=> old.status = "CONVERTED"
  /\ old.status # "NONE" =>
       /\ new.status # "NONE" /\ old.revision <= new.revision
       /\ new.revision = old.revision =>
            \A s \in Stores : new.lines[s].quantity = old.lines[s].quantity

LEMMA RevisedRow ==
  ASSUME NEW row \in CartRow, row.status = "ACTIVE", row.revision <= RevisionBound,
         NEW lines \in [Stores -> Line], NEW owner \in Owner
  PROVE  GoesOn(row, [row EXCEPT !.revision = row.revision + 1, !.lines = lines, !.owner = owner])
<1> DEFINE revision == row.revision + 1
           new == [row EXCEPT !.revision = revision, !.lines = lines, !.owner = owner]
<1>1. revision \in 0 .. RevisionBound + 1 /\ revision > row.revision /\ row.revision \in Nat
  BY CartAssumption DEF CartRow
<1> HIDE DEF revision
<1>2. new \in CartRow /\ new.status = row.status /\ new.revision = revision
  BY <1>1 DEF CartRow
<1> HIDE DEF new
<1>3. GoesOn(row, new)
  BY <1>1, <1>2 DEF GoesOn
<1> QED BY <1>3 DEF new, revision

\* A row that gives up its owner, one that lapses, and one that is made.
LEMMA EndedRow ==
  ASSUME NEW row \in CartRow, row.status = "ACTIVE"
  PROVE  /\ \A status \in {"MERGED", "REPLACED", "EXPIRED"} : GoesOn(row, Terminalized(row, status))
         /\ GoesOn(row, [row EXCEPT !.lapsed = TRUE])
         /\ GoesOn(row, row)
<1>1. row.revision \in Nat /\ row.revision <= row.revision
  BY CartAssumption DEF CartRow
<1>2. ASSUME NEW status \in {"MERGED", "REPLACED", "EXPIRED"}
      PROVE  GoesOn(row, Terminalized(row, status))
  <2> DEFINE new == [row EXCEPT !.status = status, !.owner = "NOBODY"]
  <2>1. new \in CartRow
    BY DEF CartRow, CartStatus, Owner
  <2>2. new.status = status /\ new.revision = row.revision /\ new.lines = row.lines
    BY DEF CartRow
  <2> HIDE DEF new
  <2>3. GoesOn(row, new)
    BY <1>1, <2>1, <2>2 DEF GoesOn
  <2> QED BY <2>3 DEF Terminalized, new
<1>3. GoesOn(row, [row EXCEPT !.lapsed = TRUE])
  <2> DEFINE new == [row EXCEPT !.lapsed = TRUE]
  <2>1. new \in CartRow
    BY DEF CartRow
  <2>2. new.status = row.status /\ new.revision = row.revision /\ new.lines = row.lines
    BY DEF CartRow
  <2> HIDE DEF new
  <2>3. GoesOn(row, new)
    BY <1>1, <2>1, <2>2 DEF GoesOn
  <2> QED BY <2>3 DEF new
<1>4. GoesOn(row, row)
  BY <1>1 DEF GoesOn
<1> QED BY <1>2, <1>3, <1>4

LEMMA MadeRow ==
  ASSUME CartTypeOK, NEW row \in CartRow, row.status = "NONE",
         NEW owner \in Owner, NEW s \in Stores, NEW q \in Quantities
  PROVE  GoesOn(row, NewCart(owner, s, q))
<1> DEFINE lines == [t \in Stores |-> IF t = s THEN [quantity |-> q, reviewed |-> terms[s]] ELSE NoLine]
           new == [status |-> "ACTIVE", owner |-> owner, revision |-> 1, lapsed |-> FALSE,
                   store |-> s, lines |-> lines]
<1>1. lines \in [Stores -> Line]
  BY CartAssumption DEF CartTypeOK, Line, NoLine
<1>2. NewCart(owner, s, q) = new
  BY DEF NewCart
<1> HIDE DEF lines
<1>3. new \in CartRow /\ new.status = "ACTIVE"
  BY <1>1, CartAssumption DEF CartRow, CartStatus
<1> HIDE DEF new
<1> QED BY <1>2, <1>3 DEF GoesOn

\* The rows that a command changes are live ones.
LEMMA LiveRow ==
  ASSUME CartTypeOK, NEW owner \in Owner, NEW c \in Live(owner)
  PROVE  c \in Carts /\ cart[c] \in CartRow /\ cart[c].status = "ACTIVE"
BY DEF CartTypeOK, Live

CartsGoOn == \A c \in Carts : GoesOn(cart[c], cart'[c])

LEMMA CartFrame ==
  ASSUME CartTypeOK
  PROVE  \A c \in Carts : GoesOn(cart[c], cart[c])
BY DEF CartTypeOK, GoesOn, CartRow

\* One row changes.
LEMMA OneCart ==
  ASSUME CartTypeOK, NEW c \in Carts, NEW row, GoesOn(cart[c], row),
         cart' = [cart EXCEPT ![c] = row]
  PROVE  cart' \in [Carts -> CartRow] /\ CartsGoOn
BY CartFrame DEF CartTypeOK, CartsGoOn, GoesOn

LEMMA TwoCarts ==
  ASSUME CartTypeOK, NEW c \in Carts, NEW d \in Carts, c # d, NEW row, NEW other,
         GoesOn(cart[c], row), GoesOn(cart[d], other),
         cart' = [cart EXCEPT ![c] = row, ![d] = other]
  PROVE  cart' \in [Carts -> CartRow] /\ CartsGoOn
BY CartFrame DEF CartTypeOK, CartsGoOn, GoesOn

LEMMA LineCommands ==
  ASSUME CartTypeOK, NEW signedIn \in BOOLEAN, NEW s \in Stores,
         (\E q \in Quantities : ChangeItem(signedIn, s, q)) \/ RemoveItem(signedIn, s)
           \/ ConfirmReview(signedIn)
  PROVE  cart' \in [Carts -> CartRow] /\ CartsGoOn
<1>1. AddsTo(signedIn) \in Owner /\ ActsAs(signedIn) \in Owner
  BY DEF AddsTo, ActsAs, Owner
<1>2. ASSUME NEW c \in Carts, cart[c].status = "ACTIVE", Revisable(c), NEW lines \in [Stores -> Line],
             cart' = [cart EXCEPT ![c] = [cart[c] EXCEPT !.revision = cart[c].revision + 1, !.lines = lines]]
      PROVE  cart' \in [Carts -> CartRow] /\ CartsGoOn
  <2> DEFINE row == [cart[c] EXCEPT !.revision = cart[c].revision + 1, !.lines = lines, !.owner = cart[c].owner]
  <2>1. cart[c] \in CartRow
    BY DEF CartTypeOK
  <2>2. row = [cart[c] EXCEPT !.revision = cart[c].revision + 1, !.lines = lines]
    BY <2>1 DEF CartRow
  <2>3. cart[c].owner \in Owner
    BY <2>1 DEF CartRow
  <2>4. GoesOn(cart[c], row)
    BY <1>2, <2>1, <2>3, RevisedRow DEF Revisable
  <2> HIDE DEF row
  <2> QED BY <1>2, <2>2, <2>4, OneCart
<1>3. ASSUME NEW q \in Quantities, ChangeItem(signedIn, s, q)
      PROVE  cart' \in [Carts -> CartRow] /\ CartsGoOn
  <2>1. PICK c \in Live(AddsTo(signedIn)) :
          Revisable(c) /\ cart' = [cart EXCEPT ![c] = WithQuantity(@, s, q)]
    BY <1>3 DEF ChangeItem
  <2>2. c \in Carts /\ cart[c] \in CartRow /\ cart[c].status = "ACTIVE"
    BY <1>1, <2>1, LiveRow
  <2> DEFINE old == cart[c].lines[s]
             line == [quantity |-> q, reviewed |-> IF old.quantity = 0 THEN terms[s] ELSE old.reviewed]
             lines == [cart[c].lines EXCEPT ![s] = line]
  <2>3. line \in Line /\ lines \in [Stores -> Line]
    BY <2>2, CartAssumption DEF CartTypeOK, CartRow, Line
  <2>4. WithQuantity(cart[c], s, q) = [cart[c] EXCEPT !.revision = cart[c].revision + 1, !.lines = lines]
    BY <2>2 DEF WithQuantity, Touched, CartRow
  <2>5. cart' = [cart EXCEPT ![c] = [cart[c] EXCEPT !.revision = cart[c].revision + 1, !.lines = lines]]
    BY <2>1, <2>4
  <2> HIDE DEF lines
  <2> QED BY <1>2, <2>1, <2>2, <2>3, <2>5
<1>4. CASE RemoveItem(signedIn, s)
  <2>1. PICK c \in Live(ActsAs(signedIn)) :
          Revisable(c) /\ cart' = [cart EXCEPT ![c] = [Touched(@) EXCEPT !.lines[s] = NoLine]]
    BY <1>4 DEF RemoveItem
  <2>2. c \in Carts /\ cart[c] \in CartRow /\ cart[c].status = "ACTIVE"
    BY <1>1, <2>1, LiveRow
  <2> DEFINE lines == [cart[c].lines EXCEPT ![s] = NoLine]
  <2>3. lines \in [Stores -> Line]
    BY <2>2, CartAssumption DEF CartRow, Line, NoLine
  <2>4. [Touched(cart[c]) EXCEPT !.lines[s] = NoLine] =
          [cart[c] EXCEPT !.revision = cart[c].revision + 1, !.lines = lines]
    BY <2>2 DEF Touched, CartRow
  <2>5. cart' = [cart EXCEPT ![c] = [cart[c] EXCEPT !.revision = cart[c].revision + 1, !.lines = lines]]
    BY <2>1, <2>4
  <2> HIDE DEF lines
  <2> QED BY <1>2, <2>1, <2>2, <2>3, <2>5
<1>5. CASE ConfirmReview(signedIn)
  <2> DEFINE confirmed(c) == [t \in Stores |->
               IF t \in LinesOf(c) THEN [quantity |-> cart[c].lines[t].quantity, reviewed |-> terms[t]]
               ELSE NoLine]
  <2>1. PICK c \in Live(ActsAs(signedIn)) :
          Revisable(c) /\ cart' = [cart EXCEPT ![c] = [Touched(cart[c]) EXCEPT !.lines = confirmed(c)]]
    BY <1>5 DEF ConfirmReview
  <2>2. c \in Carts /\ cart[c] \in CartRow /\ cart[c].status = "ACTIVE"
    BY <1>1, <2>1, LiveRow
  <2>3. confirmed(c) \in [Stores -> Line]
    BY <2>2, CartAssumption DEF CartTypeOK, CartRow, Line, NoLine
  <2> DEFINE lines == confirmed(c)
  <2> HIDE DEF confirmed
  <2>4. cart' = [cart EXCEPT ![c] = [cart[c] EXCEPT !.revision = cart[c].revision + 1, !.lines = lines]]
    BY <2>1, <2>2 DEF Touched, CartRow
  <2> QED BY <1>2, <2>1, <2>2, <2>3, <2>4
<1> QED BY <1>3, <1>4, <1>5

\* The four shapes of a row in the commands on two carts.
LEMMA LiveRowsGoOn ==
  ASSUME CartTypeOK, NEW c \in Carts, cart[c].status = "ACTIVE", Revisable(c)
  PROVE  /\ GoesOn(cart[c], Attached(cart[c]))
         /\ GoesOn(cart[c], Touched(cart[c]))
         /\ \A lines \in [Stores -> Line] :
              GoesOn(cart[c], [Touched(cart[c]) EXCEPT !.lines = lines])
<1> DEFINE row == cart[c]
           new(lines, owner) ==
             [row EXCEPT !.revision = row.revision + 1, !.lines = lines, !.owner = owner]
<1>1. row \in CartRow /\ row.lines \in [Stores -> Line] /\ row.owner \in Owner /\ "BUYER" \in Owner
  BY DEF CartTypeOK, CartRow, Owner
<1>2. \A lines \in [Stores -> Line], owner \in Owner : GoesOn(row, new(lines, owner))
  BY <1>1, RevisedRow DEF Revisable
<1>3. Attached(row) = new(row.lines, "BUYER")
  BY <1>1 DEF CartRow, Attached, Touched
<1>4. Touched(row) = new(row.lines, row.owner)
  BY <1>1 DEF CartRow, Touched
<1>5. \A lines \in [Stores -> Line] :
        [Touched(row) EXCEPT !.lines = lines] = new(lines, row.owner)
  BY <1>1 DEF CartRow, Touched
<1> HIDE DEF new
<1> QED BY <1>1, <1>2, <1>3, <1>4, <1>5

LEMMA CreatingCommands ==
  ASSUME CartTypeOK, NEW signedIn \in BOOLEAN, NEW s \in Stores, NEW q \in Quantities,
         CreateCart(signedIn, s, q) \/ ReplaceStore(signedIn, s, q)
  PROVE  cart' \in [Carts -> CartRow] /\ CartsGoOn
<1>1. AddsTo(signedIn) \in Owner /\ ActsAs(signedIn) \in Owner
  BY DEF AddsTo, ActsAs, Owner
<1>2. CASE CreateCart(signedIn, s, q)
  <2> DEFINE owner == AddsTo(signedIn)
  <2>1. PICK c \in Carts :
          /\ cart[c].status = "NONE"
          /\ cart' = [k \in Carts |->
               IF k = c THEN NewCart(owner, s, q)
               ELSE IF owner = "BUYER" /\ k \in Indexed THEN Terminalized(cart[k], "EXPIRED")
               ELSE cart[k]]
    BY <1>2 DEF CreateCart
  <2> HIDE DEF owner
  <2>2. \A k \in Carts : cart[k] \in CartRow
    BY DEF CartTypeOK
  <2>3. GoesOn(cart[c], NewCart(owner, s, q))
    BY <1>1, <2>1, <2>2, MadeRow DEF owner
  <2>4. \A k \in Indexed : GoesOn(cart[k], Terminalized(cart[k], "EXPIRED"))
    BY <2>2, EndedRow DEF Indexed
  <2>5. \A k \in Carts : GoesOn(cart[k], cart'[k])
    BY <2>1, <2>3, <2>4, CartFrame
  <2>6. cart' = [k \in Carts |-> cart'[k]]
    BY <2>1
  <2> QED BY <2>5, <2>6 DEF GoesOn, CartsGoOn
<1>3. CASE ReplaceStore(signedIn, s, q)
  <2> DEFINE owner == ActsAs(signedIn)
  <2>1. PICK c \in Live(owner), k \in Carts :
          /\ cart[k].status = "NONE"
          /\ cart' = [cart EXCEPT ![c] = Terminalized(cart[c], "REPLACED"), ![k] = NewCart(owner, s, q)]
    <3>1. PICK c \in Live(owner), k \in Carts :
            /\ cart[k].status = "NONE"
            /\ cart' = [cart EXCEPT ![c] = Terminalized(@, "REPLACED"), ![k] = NewCart(owner, s, q)]
      BY <1>3 DEF ReplaceStore
    <3> QED BY <3>1
  <2> HIDE DEF owner
  <2>2. c \in Carts /\ cart[c] \in CartRow /\ cart[c].status = "ACTIVE" /\ cart[k] \in CartRow /\ c # k
    BY <1>1, <2>1, LiveRow DEF owner, CartTypeOK
  <2>3. GoesOn(cart[c], Terminalized(cart[c], "REPLACED"))
    BY <2>2, EndedRow
  <2>4. GoesOn(cart[k], NewCart(owner, s, q))
    BY <1>1, <2>1, <2>2, MadeRow DEF owner
  <2> QED BY <2>1, <2>2, <2>3, <2>4, TwoCarts
<1> QED BY <1>2, <1>3

LEMMA LoginCommands ==
  ASSUME CartTypeOK, Attach \/ \E decision \in {"MERGE", "KEEP_GUEST", "KEEP_BUYER"} : Resolve(decision)
  PROVE  cart' \in [Carts -> CartRow] /\ CartsGoOn
<1>1. "GUEST" \in Owner /\ "BUYER" \in Owner
  BY DEF Owner
<1>2. CASE Attach
  <2>1. PICK g \in Live("GUEST") : Revisable(g) /\ cart' = [cart EXCEPT ![g] = Attached(cart[g])]
    BY <1>2 DEF Attach
  <2>2. g \in Carts /\ cart[g].status = "ACTIVE"
    BY <1>1, <2>1, LiveRow
  <2>3. GoesOn(cart[g], Attached(cart[g]))
    BY <2>1, <2>2, LiveRowsGoOn
  <2> QED BY <2>1, <2>2, <2>3, OneCart
<1>3. CASE \E decision \in {"MERGE", "KEEP_GUEST", "KEEP_BUYER"} : Resolve(decision)
  <2>1. PICK g \in Live("GUEST"), b \in Live("BUYER") :
          /\ Revisable(g) /\ Revisable(b)
          /\ \/ /\ \A s \in Stores : MergedLines(b, g)[s].quantity <= MaxQuantity
                /\ cart' = [cart EXCEPT ![g] = Terminalized(cart[g], "MERGED"),
                                        ![b] = [Touched(cart[b]) EXCEPT !.lines = MergedLines(b, g)]]
             \/ cart' = [cart EXCEPT ![b] = Terminalized(cart[b], "REPLACED"), ![g] = Attached(cart[g])]
             \/ cart' = [cart EXCEPT ![g] = Terminalized(cart[g], "REPLACED"), ![b] = Touched(cart[b])]
    <3>1. PICK g \in Live("GUEST"), b \in Live("BUYER") :
            /\ Revisable(g) /\ Revisable(b)
            /\ \/ /\ \A s \in Stores : MergedLines(b, g)[s].quantity <= MaxQuantity
                  /\ cart' = [cart EXCEPT ![g] = Terminalized(@, "MERGED"),
                                          ![b] = [Touched(@) EXCEPT !.lines = MergedLines(b, g)]]
               \/ cart' = [cart EXCEPT ![b] = Terminalized(@, "REPLACED"), ![g] = Attached(@)]
               \/ cart' = [cart EXCEPT ![g] = Terminalized(@, "REPLACED"), ![b] = Touched(@)]
      BY <1>3 DEF Resolve
    <3>2. g # b
      BY DEF Live
    <3> QED BY <3>1, <3>2
  <2>2. /\ g \in Carts /\ cart[g].status = "ACTIVE" /\ cart[g] \in CartRow
        /\ b \in Carts /\ cart[b].status = "ACTIVE" /\ cart[b] \in CartRow
        /\ g # b
    BY <1>1, <2>1, LiveRow DEF Live
  <2>3. /\ \A status \in {"MERGED", "REPLACED"} :
             GoesOn(cart[g], Terminalized(cart[g], status)) /\ GoesOn(cart[b], Terminalized(cart[b], status))
        /\ GoesOn(cart[g], Attached(cart[g])) /\ GoesOn(cart[b], Touched(cart[b]))
    BY <2>1, <2>2, EndedRow, LiveRowsGoOn
  <2>4. ASSUME \A s \in Stores : MergedLines(b, g)[s].quantity <= MaxQuantity
        PROVE  GoesOn(cart[b], [Touched(cart[b]) EXCEPT !.lines = MergedLines(b, g)])
    <3>1. /\ cart[b].lines \in [Stores -> Line] /\ cart[g].lines \in [Stores -> Line]
      BY <2>2 DEF CartRow
    <3>2. \A s \in Stores : MergedLine(cart[b].lines[s], cart[g].lines[s]) \in Line
      <4> TAKE s \in Stores
      <4>1. MergedLines(b, g)[s] = MergedLine(cart[b].lines[s], cart[g].lines[s])
        BY DEF MergedLines
      <4>2. MergedLine(cart[b].lines[s], cart[g].lines[s]).quantity <= MaxQuantity
        BY <2>4, <4>1
      <4>3. cart[b].lines[s] \in Line /\ cart[g].lines[s] \in Line
        BY <3>1
      <4> QED BY <4>2, <4>3, CartAssumption DEF MergedLine, Line
    <3>3. MergedLines(b, g) \in [Stores -> Line]
      BY <3>2 DEF MergedLines
    <3> QED BY <2>1, <2>2, <3>3, LiveRowsGoOn
  <2> QED BY <2>1, <2>2, <2>3, <2>4, TwoCarts
<1> QED BY <1>2, <1>3

LEMMA CartCommand ==
  ASSUME CartTypeOK, CartNext
  PROVE  CartTypeOK' /\ CartsGoOn
<1>1. ASSUME cart' \in [Carts -> CartRow] /\ CartsGoOn, UNCHANGED terms
      PROVE  CartTypeOK' /\ CartsGoOn
  BY <1>1 DEF CartTypeOK
<1>2. CASE \E signedIn \in BOOLEAN, s \in Stores, q \in Quantities : ChangeItem(signedIn, s, q)
  BY <1>1, <1>2, LineCommands DEF ChangeItem
<1>3. CASE \E signedIn \in BOOLEAN, s \in Stores : RemoveItem(signedIn, s)
  BY <1>1, <1>3, LineCommands DEF RemoveItem
<1>4. CASE \E signedIn \in BOOLEAN : ConfirmReview(signedIn)
  <2>1. PICK s \in Stores : TRUE
    BY CartAssumption
  <2> QED BY <1>1, <1>4, <2>1, LineCommands DEF ConfirmReview
<1>5. CASE \E signedIn \in BOOLEAN, s \in Stores, q \in Quantities :
             CreateCart(signedIn, s, q) \/ ReplaceStore(signedIn, s, q)
  <2>1. UNCHANGED terms
    BY <1>5 DEF CreateCart, ReplaceStore
  <2> QED BY <1>1, <1>5, <2>1, CreatingCommands
<1>6. CASE Attach \/ \E decision \in {"MERGE", "KEEP_GUEST", "KEEP_BUYER"} : Resolve(decision)
  <2>1. UNCHANGED terms
    BY <1>6 DEF Attach, Resolve
  <2> QED BY <1>1, <1>6, <2>1, LoginCommands
<1>7. CASE \E c \in Carts : Lapse(c)
  <2>1. PICK c \in Carts : Lapse(c)
    BY <1>7
  <2>2. cart' = [cart EXCEPT ![c] = [cart[c] EXCEPT !.lapsed = TRUE]] /\ UNCHANGED terms
    BY <2>1 DEF Lapse
  <2>3. GoesOn(cart[c], [cart[c] EXCEPT !.lapsed = TRUE])
    BY <2>1, EndedRow DEF Lapse, CartTypeOK
  <2> QED BY <1>1, <2>2, <2>3, OneCart
<1>8. CASE \E s \in Stores : ChangeTerms(s)
  BY <1>8, CartFrame DEF ChangeTerms, CartTypeOK, CartsGoOn
<1> QED BY <1>2, <1>3, <1>4, <1>5, <1>6, <1>7, <1>8 DEF CartNext

-----------------------------------------------------------------------------
(* Preparations and purchases. *)

\* What a preparation read of its cart: it is what the cart holds, unless the
\* cart's revision says otherwise.
ReadAsItWas(p) ==
  LET row == preparation[p]
      c == row.cart
  IN row.status # "NONE" =>
       /\ c \in Carts /\ cart[c].status # "NONE" /\ row.revision <= cart[c].revision
       /\ row.revision = cart[c].revision =>
            \A s \in Stores : row.items[s] = cart[c].lines[s].quantity
       /\ StoresOf(p) # {}
       /\ row.status = "SAVED" => row.address # 0

\* A purchase and the preparation it consumed name each other, and a
\* single-store order is the answer of the key that made it.
Stands(q) ==
  LET p == purchase[q].preparation IN
  /\ p \in Preparations /\ preparation[p].status = "SAVED"
  /\ preparation[p].consumed = q
  /\ purchase[q].key \in Keys
  /\ KindOf(q) = "ORDER" => answered[purchase[q].key] = q

CheckoutTypeOK ==
  /\ CartTypeOK
  /\ address \in 0 .. AddressBound
  /\ preparation \in [Preparations -> PreparationRow]
  /\ purchase \in [Purchases -> PurchaseRow]
  /\ answered \in [Keys -> Purchases \cup {Nothing}]

CheckoutInv ==
  /\ CheckoutTypeOK
  /\ \A p \in Preparations : ReadAsItWas(p)
  /\ \A q \in Made : Stands(q)
  /\ \A p \in Preparations : preparation[p].consumed # Nothing =>
       preparation[p].consumed \in Made /\ purchase[preparation[p].consumed].preparation = p
  /\ OnePurchasePerCart

\* A command on the carts leaves everything that was read and bought true.
LEMMA CartStepKeeps ==
  ASSUME CheckoutInv, CartTypeOK', CartsGoOn, UNCHANGED checkoutVars
  PROVE  CheckoutInv'
<1>1. CheckoutTypeOK'
  BY DEF CheckoutInv, CheckoutTypeOK, checkoutVars
<1>2. ASSUME NEW p \in Preparations  PROVE ReadAsItWas(p)'
  <2> DEFINE row == preparation[p]
  <2>1. CASE row.status = "NONE"
    BY <2>1 DEF ReadAsItWas, checkoutVars
  <2>2. CASE row.status # "NONE"
    <3>1. row.cart \in Carts /\ ReadAsItWas(p) /\ GoesOn(cart[row.cart], cart'[row.cart])
      BY <2>2 DEF CheckoutInv, ReadAsItWas, CartsGoOn
    <3>2. /\ cart[row.cart].revision \in Nat /\ cart'[row.cart].revision \in Nat /\ row.revision \in Nat
      BY <3>1, CartAssumption
      DEF CheckoutInv, CheckoutTypeOK, CartTypeOK, CartRow, GoesOn, PreparationRow
    <3> QED BY <2>2, <3>1, <3>2 DEF ReadAsItWas, GoesOn, checkoutVars, StoresOf
  <2> QED BY <2>1, <2>2
<1>3. Made' = Made /\ \A q \in Made : Stands(q)'
  BY DEF CheckoutInv, Made, Stands, KindOf, checkoutVars
<1>4. OnePurchasePerCart'
  BY <1>3 DEF CheckoutInv, OnePurchasePerCart, CartsGoOn, GoesOn, KindOf, Made, checkoutVars
<1> QED BY <1>1, <1>2, <1>3, <1>4 DEF CheckoutInv, checkoutVars

\* What payments and sweeps do to the purchases.
PurchasesGoOn ==
  /\ purchase' \in [Purchases -> PurchaseRow]
  /\ \A q \in Purchases :
       /\ purchase'[q].preparation = purchase[q].preparation
       /\ purchase'[q].key = purchase[q].key
       /\ purchase'[q].status = "NONE" <=> purchase[q].status = "NONE"

LEMMA PaymentKeeps ==
  ASSUME CheckoutInv, PurchasesGoOn, UNCHANGED <<cartVars, address, preparation, answered>>
  PROVE  CheckoutInv'
<1>1. CheckoutTypeOK'
  BY DEF CheckoutInv, CheckoutTypeOK, PurchasesGoOn, cartVars, CartTypeOK
<1>2. \A p \in Preparations : ReadAsItWas(p)'
  BY DEF CheckoutInv, ReadAsItWas, StoresOf, cartVars
<1>3. Made' = Made /\ Made \subseteq Purchases
  BY DEF Made, PurchasesGoOn
<1>4. \A q \in Made : Stands(q)' /\ KindOf(q)' = KindOf(q)
  BY <1>3 DEF CheckoutInv, Stands, KindOf, PurchasesGoOn
<1>5. OnePurchasePerCart'
  BY <1>3, <1>4 DEF CheckoutInv, OnePurchasePerCart, PurchasesGoOn, cartVars
<1>6. \A p \in Preparations : preparation'[p].consumed # Nothing =>
       preparation'[p].consumed \in Made' /\ purchase'[preparation'[p].consumed].preparation = p
  BY <1>3 DEF CheckoutInv, PurchasesGoOn
<1> QED BY <1>1, <1>2, <1>3, <1>4, <1>5, <1>6 DEF CheckoutInv

\* Preparing, and whatever else leaves the purchases alone.
LEMMA PreparationKeeps ==
  ASSUME CheckoutInv, UNCHANGED <<cartVars, purchase, answered>>,
         address' \in 0 .. AddressBound,
         preparation' \in [Preparations -> PreparationRow],
         \A p \in Preparations :
            \/ preparation'[p] = preparation[p]
            \/ /\ preparation[p].status \in {"NONE", "READING"} /\ ReadAsItWas(p)'
               /\ preparation'[p].consumed = Nothing
            \/ /\ preparation[p].status = "SAVED" /\ preparation'[p].status = "SAVED"
               /\ ReadAsItWas(p)'
               /\ preparation'[p].consumed = preparation[p].consumed
               /\ preparation'[p].cart = preparation[p].cart
               /\ preparation'[p].kind = preparation[p].kind
  PROVE  CheckoutInv'
<1>1. CheckoutTypeOK'
  BY DEF CheckoutInv, CheckoutTypeOK, cartVars, CartTypeOK
<1>2. \A p \in Preparations : ReadAsItWas(p)'
  BY DEF CheckoutInv, ReadAsItWas, StoresOf, cartVars
<1>3. Made' = Made
  BY DEF Made
<1>4. \A q \in Made :
        /\ KindOf(q)' = KindOf(q) /\ Stands(q)'
        /\ preparation'[purchase[q].preparation].cart = preparation[purchase[q].preparation].cart
  BY <1>3 DEF CheckoutInv, Stands, KindOf
<1>5. OnePurchasePerCart'
  BY <1>3, <1>4 DEF CheckoutInv, OnePurchasePerCart, cartVars
<1>6. \A p \in Preparations : preparation'[p].consumed # Nothing =>
       preparation'[p].consumed \in Made' /\ purchase'[preparation'[p].consumed].preparation = p
  BY <1>3 DEF CheckoutInv
<1> QED BY <1>1, <1>2, <1>3, <1>4, <1>5, <1>6 DEF CheckoutInv

LEMMA PreparingSteps ==
  ASSUME CheckoutInv, UNCHANGED attempt, NEW p \in Preparations,
         (\E kind \in Kind : BeginPrepare(p, kind)) \/ SavePreparation(p) \/ ExpirePreparation(p)
  PROVE  CheckoutInv'
<1>1. preparation[p] \in PreparationRow /\ ReadAsItWas(p) /\ address \in 0 .. AddressBound
  BY DEF CheckoutInv, CheckoutTypeOK
<1>2. CASE \E kind \in Kind : BeginPrepare(p, kind)
  <2>1. PICK kind \in Kind : BeginPrepare(p, kind)
    BY <1>2
  <2>2. PICK c \in Live("BUYER") :
          /\ LinesOf(c) # {}
          /\ preparation' = [preparation EXCEPT ![p] =
               [EmptyPreparation EXCEPT
                  !.status = "READING", !.kind = kind, !.cart = c, !.revision = cart[c].revision,
                  !.items = [s \in Stores |-> cart[c].lines[s].quantity]]]
    BY <2>1 DEF BeginPrepare
  <2>3. c \in Carts /\ cart[c] \in CartRow /\ cart[c].status = "ACTIVE"
    BY <2>2, LiveRow DEF Owner, CheckoutInv, CheckoutTypeOK
  <2> DEFINE items == [s \in Stores |-> cart[c].lines[s].quantity]
             row == [EmptyPreparation EXCEPT
                       !.status = "READING", !.kind = kind, !.cart = c,
                       !.revision = cart[c].revision, !.items = items]
  <2>4. items \in Quantity /\ cart[c].revision \in 0 .. RevisionBound + 1
    BY <2>3 DEF CartRow, Line, Quantity
  <2>5. preparation' = [preparation EXCEPT ![p] = row]
    BY <2>2
  <2> HIDE DEF items
  <2>6. /\ row \in PreparationRow
        /\ row.status = "READING" /\ row.cart = c /\ row.revision = cart[c].revision
        /\ row.items = items /\ row.consumed = Nothing
    <3>1. EmptyPreparation \in PreparationRow /\ EmptyPreparation.consumed = Nothing
      <4>1. [s \in Stores |-> 0] \in Quantity
        BY CartAssumption DEF Quantity
      <4>2. [s \in Stores |-> 1] \in [Stores -> Nat \ {0}]
        OBVIOUS
      <4> QED BY <4>1, <4>2, CartAssumption, CheckoutAssumption
              DEF EmptyPreparation, PreparationRow, Kind
    <3> QED BY <2>3, <2>4, <3>1 DEF PreparationRow
  <2> HIDE DEF row
  <2>7. preparation'[p] = row /\ preparation' \in [Preparations -> PreparationRow]
    BY <2>5, <2>6 DEF CheckoutInv, CheckoutTypeOK
  <2>8. \A s \in Stores : items[s] = cart[c].lines[s].quantity
    BY DEF items
  <2>9. \E s \in Stores : items[s] > 0
    BY <2>2, <2>8 DEF LinesOf
  <2>10. UNCHANGED <<cartVars, address, purchase, answered>>
    BY <2>1 DEF BeginPrepare
  <2>11. ReadAsItWas(p)'
    BY <2>3, <2>4, <2>6, <2>7, <2>8, <2>9, <2>10, CartAssumption DEF ReadAsItWas, StoresOf, cartVars
  <2>12. preparation[p].status = "NONE"
    BY <2>1 DEF BeginPrepare
  <2>13. \A r \in Preparations : r # p => preparation'[r] = preparation[r]
    BY <2>5 DEF CheckoutInv, CheckoutTypeOK
  <2> QED BY <1>1, <2>6, <2>7, <2>10, <2>11, <2>12, <2>13, PreparationKeeps
<1>3. CASE SavePreparation(p)
  <2> DEFINE row == [preparation[p] EXCEPT !.status = "SAVED", !.terms = terms, !.address = address]
  <2>1. preparation' = [preparation EXCEPT ![p] = row]
    BY <1>1, <1>3 DEF SavePreparation, CheckoutInv, CheckoutTypeOK
  <2>2. terms \in [Stores -> Nat \ {0}]
    BY DEF CheckoutInv, CheckoutTypeOK, CartTypeOK
  <2>3. row \in PreparationRow
    BY <1>1, <2>2 DEF PreparationRow
  <2>4. /\ row.cart = preparation[p].cart /\ row.revision = preparation[p].revision
        /\ row.items = preparation[p].items /\ row.address = address /\ address # 0
        /\ preparation[p].status = "READING"
        /\ row.consumed = preparation[p].consumed /\ row.kind = preparation[p].kind
    BY <1>1, <1>3 DEF SavePreparation, PreparationRow
  <2> HIDE DEF row
  <2>5. preparation'[p] = row /\ preparation' \in [Preparations -> PreparationRow]
    BY <2>1, <2>3 DEF CheckoutInv, CheckoutTypeOK
  <2>6. \A r \in Preparations : r # p => preparation'[r] = preparation[r]
    BY <2>1 DEF CheckoutInv, CheckoutTypeOK
  <2>7. UNCHANGED <<cartVars, address, purchase, answered>>
    BY <1>3 DEF SavePreparation
  <2>8. ReadAsItWas(p)'
    BY <1>1, <2>4, <2>5, <2>7 DEF ReadAsItWas, StoresOf, cartVars
  <2>9. preparation[p].consumed = Nothing
    BY <2>4 DEF CheckoutInv, Stands
  <2> QED BY <1>1, <2>4, <2>5, <2>6, <2>7, <2>8, <2>9, PreparationKeeps
<1>4. CASE ExpirePreparation(p)
  <2> DEFINE row == [preparation[p] EXCEPT !.expired = TRUE]
  <2>1. preparation' = [preparation EXCEPT ![p] = row]
    BY <1>1, <1>4 DEF ExpirePreparation, CheckoutInv, CheckoutTypeOK
  <2>2. row \in PreparationRow
    BY <1>1 DEF PreparationRow
  <2>3. /\ row.cart = preparation[p].cart /\ row.revision = preparation[p].revision
        /\ row.items = preparation[p].items /\ row.address = preparation[p].address
        /\ preparation[p].status = "SAVED" /\ row.status = "SAVED"
        /\ row.consumed = preparation[p].consumed /\ row.kind = preparation[p].kind
    BY <1>1, <1>4 DEF ExpirePreparation, PreparationRow
  <2> HIDE DEF row
  <2>4. preparation'[p] = row /\ preparation' \in [Preparations -> PreparationRow]
    BY <2>1, <2>2 DEF CheckoutInv, CheckoutTypeOK
  <2>5. \A r \in Preparations : r # p => preparation'[r] = preparation[r]
    BY <2>1 DEF CheckoutInv, CheckoutTypeOK
  <2>6. UNCHANGED <<cartVars, address, purchase, answered>>
    BY <1>4 DEF ExpirePreparation
  <2>7. ReadAsItWas(p)'
    BY <1>1, <2>3, <2>4, <2>6 DEF ReadAsItWas, StoresOf, cartVars
  <2> QED BY <1>1, <2>3, <2>4, <2>5, <2>6, <2>7, PreparationKeeps
<1> QED BY <1>2, <1>3, <1>4

LEMMA AddressSteps ==
  ASSUME CheckoutInv, UpdateAddress \/ DeleteAddress
  PROVE  CheckoutInv'
<1>1. UNCHANGED <<cartVars, preparation, purchase, answered>>
  BY DEF UpdateAddress, DeleteAddress
<1>2. address' \in 0 .. AddressBound
  BY CheckoutAssumption DEF UpdateAddress, DeleteAddress
<1>3. preparation \in [Preparations -> PreparationRow]
  BY DEF CheckoutInv, CheckoutTypeOK
<1> QED BY <1>1, <1>2, <1>3, PreparationKeeps

\* A purchase is made of a saved preparation of a cart that nothing bought yet.
LEMMA BuyKeeps ==
  ASSUME CheckoutInv, NEW p \in Preparations, NEW k \in Keys, NEW q \in Purchases,
         CreateOrder(p, k, q) \/ CreateGroup(p, k, q)
  PROVE  CheckoutInv'
<1> DEFINE c == preparation[p].cart
           bought == [preparation[p] EXCEPT !.consumed = q]
           converted == [cart[c] EXCEPT !.status = "CONVERTED"]
           made == [status |-> IF preparation[p].kind = "GROUP" THEN "PENDING_PAYMENT" ELSE "ORDER",
                    preparation |-> p, key |-> k, due |-> FALSE]
<1>1. /\ q \notin Made /\ CartIsReviewed(p) /\ Usable(p) /\ preparation[p].consumed = Nothing
      /\ Buy(p, k, q) /\ preparation[p].kind \in Kind
      /\ preparation[p].kind = "ORDER" => answered[k] = Nothing /\ answered' = [answered EXCEPT ![k] = q]
      /\ preparation[p].kind = "GROUP" =>
           /\ \A r \in Made : KindOf(r) = "GROUP" => purchase[r].key # k
           /\ answered' = answered
  BY DEF CreateOrder, CreateGroup, Buy, Kind
<1>2. /\ preparation[p] \in PreparationRow /\ ReadAsItWas(p)
      /\ preparation[p].status = "SAVED"
  BY <1>1 DEF CheckoutInv, CheckoutTypeOK, Usable
<1>3. c \in Carts /\ cart[c] \in CartRow /\ cart[c].status = "ACTIVE"
  BY <1>1, <1>2 DEF ReadAsItWas, CheckoutInv, CheckoutTypeOK, CartTypeOK, CartIsReviewed, CartOf
<1>4. /\ preparation' = [preparation EXCEPT ![p] = bought]
      /\ purchase' = [purchase EXCEPT ![q] = made]
      /\ cart' = [cart EXCEPT ![c] = converted]
      /\ UNCHANGED <<terms, address>>
  BY <1>1 DEF Buy
<1>5. bought \in PreparationRow /\ made \in PurchaseRow /\ converted \in CartRow
  BY <1>2, <1>3 DEF PreparationRow, PurchaseRow, CartRow, CartStatus, PurchaseStatus
<1>6. /\ bought.consumed = q /\ bought.cart = c /\ bought.kind = preparation[p].kind
      /\ bought.status = "SAVED" /\ bought.address = preparation[p].address
      /\ bought.items = preparation[p].items /\ bought.revision = preparation[p].revision
      /\ made.status # "NONE" /\ made.preparation = p /\ made.key = k
      /\ converted.status = "CONVERTED" /\ converted.lines = cart[c].lines
      /\ converted.revision = cart[c].revision
  BY <1>2, <1>3 DEF PreparationRow, CartRow
<1> HIDE DEF bought, made, converted
<1>7. /\ preparation'[p] = bought /\ purchase'[q] = made /\ cart'[c] = converted
      /\ \A r \in Preparations : r # p => preparation'[r] = preparation[r]
      /\ \A r \in Purchases : r # q => purchase'[r] = purchase[r]
      /\ \A d \in Carts : d # c => cart'[d] = cart[d]
  BY <1>3, <1>4 DEF CheckoutInv, CheckoutTypeOK, CartTypeOK
<1>8. CheckoutTypeOK'
  BY <1>1, <1>4, <1>5 DEF CheckoutInv, CheckoutTypeOK, CartTypeOK, Kind
<1>9. \A r \in Preparations : ReadAsItWas(r)'
  <2>1. ReadAsItWas(p)'
    BY <1>2, <1>3, <1>6, <1>7 DEF ReadAsItWas, StoresOf
  <2>2. ASSUME NEW r \in Preparations, r # p  PROVE ReadAsItWas(r)'
    <3>1. ReadAsItWas(r) /\ preparation'[r] = preparation[r] /\ StoresOf(r)' = StoresOf(r)
      BY <1>7, <2>2 DEF CheckoutInv, StoresOf
    <3>2. \A d \in Carts :
            /\ cart'[d].status # "NONE" <=> cart[d].status # "NONE"
            /\ cart'[d].revision = cart[d].revision /\ cart'[d].lines = cart[d].lines
      BY <1>3, <1>6, <1>7
    <3> QED BY <3>1, <3>2 DEF ReadAsItWas
  <2> QED BY <2>1, <2>2
<1>10. Made' = Made \cup {q} /\ Made \subseteq Purchases
  BY <1>6, <1>7 DEF Made
<1>11. \A r \in Made : /\ r # q /\ purchase[r].preparation \in Preparations \ {p}
                       /\ KindOf(r)' = KindOf(r)
  BY <1>1, <1>7, <1>10, CheckoutAssumption DEF CheckoutInv, Stands, KindOf
<1>12. \A r \in Made : Stands(r)'
  BY <1>1, <1>7, <1>10, <1>11, CheckoutAssumption
  DEF CheckoutInv, CheckoutTypeOK, Stands, KindOf, Kind
<1>13. Stands(q)' /\ KindOf(q)' = preparation[p].kind
  BY <1>1, <1>6, <1>7 DEF Stands, KindOf, CheckoutInv, CheckoutTypeOK, Kind
<1>14. \A r \in Preparations : preparation'[r].consumed # Nothing =>
        preparation'[r].consumed \in Made' /\ purchase'[preparation'[r].consumed].preparation = r
  BY <1>1, <1>6, <1>7, <1>10 DEF CheckoutInv
<1>15. OnePurchasePerCart'
  <2> DEFINE cartOf(r) == preparation[purchase[r].preparation].cart
  <2>1. \A r \in Made : cartOf(r)' = cartOf(r) /\ cartOf(r) # c
    BY <1>3, <1>7, <1>10, <1>11 DEF CheckoutInv, OnePurchasePerCart
  <2>2. cartOf(q)' = c
    BY <1>6, <1>7
  <2>3. \A d \in Carts : cart'[d].status = "CONVERTED" <=> \E r \in Made' : cartOf(r)' = d
    BY <1>3, <1>6, <1>7, <1>10, <2>1, <2>2 DEF CheckoutInv, OnePurchasePerCart
  <2>4. \A r \in Made : KindOf(r)' = KindOf(q)' => purchase'[r].key # k
    BY <1>1, <1>7, <1>10, <1>11, <1>13, CheckoutAssumption DEF CheckoutInv, Stands, Kind
  <2>5. \A r \in Made : purchase'[r] = purchase[r]
    BY <1>7, <1>10, <1>11
  <2>6. \A r, t \in Made' : r # t =>
          /\ cartOf(r)' # cartOf(t)'
          /\ KindOf(r)' = KindOf(t)' => purchase'[r].key # purchase'[t].key
    <3> TAKE r, t \in Made'
    <3>1. CASE r \in Made /\ t \in Made
      BY <1>11, <2>1, <2>5, <3>1 DEF CheckoutInv, OnePurchasePerCart
    <3>2. CASE r = q /\ t \in Made
      BY <1>6, <1>7, <2>1, <2>2, <2>4, <3>2
    <3>3. CASE t = q /\ r \in Made
      BY <1>6, <1>7, <2>1, <2>2, <2>4, <3>3
    <3> QED BY <1>10, <3>1, <3>2, <3>3
  <2>7. \A j \in Keys : answered'[j] # Nothing =>
          answered'[j] \in Made' /\ preparation'[purchase'[answered'[j]].preparation].kind = "ORDER"
    <3>1. \A j \in Keys : answered[j] # Nothing =>
            answered[j] \in Made' /\ preparation'[purchase'[answered[j]].preparation].kind = "ORDER"
      BY <1>10, <1>11 DEF CheckoutInv, OnePurchasePerCart, KindOf
    <3>2. CASE preparation[p].kind = "ORDER"
      <4>1. preparation'[purchase'[q].preparation].kind = "ORDER" /\ q \in Made'
        BY <1>10, <1>13, <3>2 DEF KindOf
      <4>2. answered' = [answered EXCEPT ![k] = q] /\ answered \in [Keys -> Purchases \cup {Nothing}]
        BY <1>1, <3>2 DEF CheckoutInv, CheckoutTypeOK
      <4> QED BY <3>1, <4>1, <4>2
    <3>3. CASE preparation[p].kind = "GROUP"
      BY <1>1, <3>1, <3>3
    <3> QED BY <1>1, <3>2, <3>3 DEF Kind
  <2> QED BY <2>3, <2>6, <2>7 DEF OnePurchasePerCart, KindOf
<1> QED BY <1>8, <1>9, <1>10, <1>12, <1>13, <1>14, <1>15 DEF CheckoutInv

LEMMA RepeatKeeps ==
  ASSUME CheckoutInv, NEW p \in Preparations, NEW k \in Keys, RepeatOrder(p, k)
  PROVE  CheckoutInv'
<1> DEFINE q == preparation[p].consumed
<1>1. /\ UNCHANGED <<cartVars, address, preparation, purchase>>
      /\ answered[k] = Nothing /\ answered' = [answered EXCEPT ![k] = q]
      /\ q # Nothing /\ preparation[p].kind = "ORDER"
  BY DEF RepeatOrder
<1>2. q \in Made /\ purchase[q].preparation = p /\ q \in Purchases
  BY <1>1 DEF CheckoutInv, Made
<1>3. CheckoutTypeOK'
  BY <1>1, <1>2 DEF CheckoutInv, CheckoutTypeOK, cartVars, CartTypeOK
<1>4. Made' = Made /\ \A r \in Made : KindOf(r)' = KindOf(r)
  BY <1>1 DEF Made, KindOf
<1>5. \A r \in Made : Stands(r)'
  BY <1>1, <1>4, CheckoutAssumption DEF CheckoutInv, CheckoutTypeOK, Stands, Made
<1>6. OnePurchasePerCart'
  BY <1>1, <1>2, <1>4 DEF CheckoutInv, CheckoutTypeOK, OnePurchasePerCart, KindOf, cartVars
<1>7. \A r \in Preparations : ReadAsItWas(r)'
  BY <1>1 DEF CheckoutInv, ReadAsItWas, StoresOf, cartVars
<1> QED BY <1>1, <1>3, <1>4, <1>5, <1>6, <1>7 DEF CheckoutInv

-----------------------------------------------------------------------------
(* Payment and expiry. *)

\* An order and its reservation tell one story.
Consistent(row) ==
  /\ row \in OrderType
  /\ row.status = "NONE" => row.reservation = "NONE"
  /\ row.status = "PENDING_PAYMENT" => row.reservation = "ACTIVE"
  /\ row.status = "PAYMENT_REVIEW" => row.reservation = "HELD_FOR_REVIEW"
  /\ row.status = "PAID" => row.reservation = "CONSUMED"
  /\ row.status = "EXPIRED" => row.reservation = "RELEASED"
  /\ row.status \in {"NONE", "PAID", "EXPIRED"} => row.holder = "NOBODY"
  /\ row.status = "PAYMENT_REVIEW" => row.holder # "NOBODY"

Holders == PayKeys \cup {"SOLO"}

LEMMA RowMoves ==
  ASSUME NEW row, Consistent(row), NEW h \in Holders, NEW q \in Purchases
  PROVE  /\ row.reservation = "ACTIVE" /\ row.holder = "NOBODY" =>
              Consistent(Held(row, h)) /\ Held(row, h).holder = h
                /\ Held(row, h).status = "PENDING_PAYMENT" /\ row.status = "PENDING_PAYMENT"
         /\ Consumable(row, h) =>
              Consistent(Paid(row)) /\ Paid(row).holder = "NOBODY" /\ Paid(row).status = "PAID"
         /\ Consistent(Failed(q, row)) /\ Failed(q, row).holder = "NOBODY"
         /\ Failed(q, row).status \in {"EXPIRED", "PENDING_PAYMENT"}
         /\ Reviewable(row, h) =>
              Consistent(Reviewed(row)) /\ Reviewed(row).holder = h
                /\ Reviewed(row).status = "PAYMENT_REVIEW"
         /\ row.reservation = "ACTIVE" /\ row.holder = "NOBODY" =>
              Consistent(Expired(row)) /\ Expired(row).holder = "NOBODY"
                /\ Expired(row).status = "EXPIRED"
<1>1. row \in OrderType /\ h # "NOBODY"
  BY PaymentAssumption DEF Consistent, Holders
<1>2. ASSUME row.reservation = "ACTIVE", row.holder = "NOBODY"
      PROVE  /\ Consistent(Held(row, h)) /\ Held(row, h).holder = h
             /\ Held(row, h).status = "PENDING_PAYMENT" /\ row.status = "PENDING_PAYMENT"
  <2> DEFINE new == [row EXCEPT !.holder = h]
  <2>1. new \in OrderType /\ new.holder = h /\ new.status = row.status /\ new.reservation = row.reservation
    BY <1>1 DEF OrderType, Holders
  <2>2. row.status = "PENDING_PAYMENT"
    BY <1>1, <1>2 DEF Consistent, OrderType, OrderStatus
  <2> HIDE DEF new
  <2>3. Consistent(new)
    BY <1>1, <1>2, <2>1, <2>2 DEF Consistent
  <2> QED BY <2>1, <2>2, <2>3 DEF Held, new
<1>3. ASSUME Consumable(row, h)
      PROVE  Consistent(Paid(row)) /\ Paid(row).holder = "NOBODY" /\ Paid(row).status = "PAID"
  <2> DEFINE new == [row EXCEPT !.status = "PAID", !.reservation = "CONSUMED", !.holder = "NOBODY"]
  <2>1. new \in OrderType /\ new.holder = "NOBODY" /\ new.status = "PAID" /\ new.reservation = "CONSUMED"
    BY <1>1 DEF OrderType, OrderStatus
  <2> HIDE DEF new
  <2>2. Consistent(new)
    BY <2>1 DEF Consistent
  <2> QED BY <2>1, <2>2 DEF Paid, new
<1>4. /\ Consistent(Failed(q, row)) /\ Failed(q, row).holder = "NOBODY"
      /\ Failed(q, row).status \in {"EXPIRED", "PENDING_PAYMENT"}
  BY DEF Failed, Consistent, OrderType, OrderStatus
<1>5. ASSUME Reviewable(row, h)
      PROVE  /\ Consistent(Reviewed(row)) /\ Reviewed(row).holder = h
             /\ Reviewed(row).status = "PAYMENT_REVIEW"
  <2> DEFINE new == [row EXCEPT !.status = "PAYMENT_REVIEW", !.reservation = "HELD_FOR_REVIEW"]
  <2>1. new \in OrderType /\ new.holder = h /\ new.status = "PAYMENT_REVIEW" /\ new.reservation = "HELD_FOR_REVIEW"
    BY <1>1, <1>5 DEF OrderType, OrderStatus, Reviewable
  <2> HIDE DEF new
  <2>2. Consistent(new)
    BY <1>1, <2>1 DEF Consistent
  <2> QED BY <2>1, <2>2 DEF Reviewed, new
<1>6. ASSUME row.reservation = "ACTIVE", row.holder = "NOBODY"
      PROVE  Consistent(Expired(row)) /\ Expired(row).holder = "NOBODY" /\ Expired(row).status = "EXPIRED"
  <2> DEFINE new == [row EXCEPT !.status = "EXPIRED", !.reservation = "RELEASED"]
  <2>1. new \in OrderType /\ new.holder = "NOBODY" /\ new.status = "EXPIRED" /\ new.reservation = "RELEASED"
    BY <1>1, <1>6 DEF OrderType, OrderStatus
  <2> HIDE DEF new
  <2>2. Consistent(new)
    BY <2>1 DEF Consistent
  <2> QED BY <2>1, <2>2 DEF Expired, new
<1> QED BY <1>2, <1>3, <1>4, <1>5, <1>6

\* What GroupIsWhole says of one group.
WholeGroup(q) ==
  LET all(status) == \A s \in ChildrenOf(q) : order[q][s].status = status IN
  /\ ChildrenOf(q) # {}
  /\ purchase[q].status = "PAID" <=> AttemptsOf(q, {"CONFIRMED"}) # {}
  /\ purchase[q].status = "PAID" => all("PAID")
  /\ purchase[q].status = "PAYMENT_REVIEW" <=> AttemptsOf(q, {"REVIEW_REQUIRED"}) # {}
  /\ purchase[q].status = "PAYMENT_REVIEW" => all("PAYMENT_REVIEW")
  /\ purchase[q].status = "EXPIRED" =>
       Active(q) = {} /\ \E s \in ChildrenOf(q) : order[q][s].status = "EXPIRED"
  /\ \A y, z \in Active(q) : y = z

\* Everything that is true of one purchase, its orders and its attempts.
Settled(q) ==
  /\ purchase[q].status = "NONE" => \A s \in Stores : order[q][s] = NoOrder
  /\ \A s \in Stores : Consistent(order[q][s])
  /\ \A s \in Stores, y \in PayKeys :
       order[q][s].holder = y <=> y \in Unresolved(q) /\ s \in ChildrenOf(q)
  /\ q \in Groups => WholeGroup(q)

PaymentTypeOK ==
  /\ purchase \in [Purchases -> PurchaseRow]
  /\ order \in [Purchases -> [Stores -> OrderType]]
  /\ attempt \in [PayKeys -> AttemptRow]

PaymentInv ==
  /\ PaymentTypeOK
  /\ \A y \in PayKeys : attempt[y].status # "NONE" => attempt[y].purchase \in Groups
  /\ \A q \in Purchases : Settled(q)

\* A step that concerns one purchase leaves the others as settled as they were.
LEMMA OnePurchase ==
  ASSUME PaymentInv, PaymentTypeOK', NEW q \in Purchases, Settled(q)',
         q \in Groups => q \in Groups',
         \A r \in Purchases : r # q => order'[r] = order[r] /\ purchase'[r] = purchase[r],
         \A y \in PayKeys :
            \/ attempt'[y] = attempt[y]
            \/ /\ q \in Groups /\ attempt'[y].purchase = q /\ attempt'[y].status # "NONE"
               /\ attempt[y].status = "NONE" \/ attempt[y].purchase = q
  PROVE  PaymentInv'
<1>1. \A r \in Purchases : r # q => (r \in Groups' <=> r \in Groups)
  BY DEF Groups
<1>2. \A y \in PayKeys : attempt'[y].status # "NONE" => attempt'[y].purchase \in Groups'
  BY <1>1 DEF PaymentInv, Groups
<1>3. ASSUME NEW r \in Purchases, r # q  PROVE Settled(r)'
  <2>1. /\ order'[r] = order[r] /\ purchase'[r] = purchase[r] /\ Settled(r)
        /\ (r \in Groups') <=> (r \in Groups)
    BY <1>1, <1>3 DEF PaymentInv
  <2>2. ASSUME NEW statuses, "NONE" \notin statuses
        PROVE  AttemptsOf(r, statuses)' = AttemptsOf(r, statuses)
    <3>1. \A y \in PayKeys :
            (attempt'[y].purchase = r /\ attempt'[y].status \in statuses) <=>
              (attempt[y].purchase = r /\ attempt[y].status \in statuses)
      BY <1>3, <2>2
    <3> QED BY <3>1 DEF AttemptsOf
  <2>3. /\ Active(r)' = Active(r) /\ Unresolved(r)' = Unresolved(r)
        /\ AttemptsOf(r, {"CONFIRMED"})' = AttemptsOf(r, {"CONFIRMED"})
        /\ AttemptsOf(r, {"REVIEW_REQUIRED"})' = AttemptsOf(r, {"REVIEW_REQUIRED"})
    BY <2>2 DEF Active, Unresolved
  <2>4. ChildrenOf(r)' = ChildrenOf(r)
    BY <2>1 DEF ChildrenOf
  <2>5. WholeGroup(r) => WholeGroup(r)'
    BY <2>1, <2>3, <2>4 DEF WholeGroup
  <2> QED BY <1>1, <1>3, <2>1, <2>3, <2>4, <2>5 DEF Settled
<1> QED BY <1>2, <1>3 DEF PaymentInv

\* An attempt that is CREATED is the only active one of a pending group, and it
\* holds all its orders.
LEMMA CreatedAttempt ==
  ASSUME PaymentInv, NEW y \in PayKeys, NEW q, q = attempt[y].purchase, attempt[y].status = "CREATED"
  PROVE  /\ q \in Groups /\ q \in Purchases /\ WholeGroup(q) /\ Settled(q)
         /\ Active(q) = {y} /\ purchase[q].status = "PENDING_PAYMENT"
         /\ \A s \in ChildrenOf(q) : order[q][s].holder = y
<1>1. q \in Groups /\ q \in Purchases /\ Settled(q) /\ WholeGroup(q)
  BY DEF PaymentInv, Settled, Groups
<1>2. y \in Active(q) /\ y \in Unresolved(q)
  BY DEF Active, Unresolved, AttemptsOf
<1>3. Active(q) = {y}
  BY <1>1, <1>2 DEF WholeGroup
<1>4. AttemptsOf(q, {"CONFIRMED"}) = {} /\ AttemptsOf(q, {"REVIEW_REQUIRED"}) = {}
  BY <1>3 DEF Active, AttemptsOf
<1>5. purchase[q].status = "PENDING_PAYMENT"
  BY <1>1, <1>3, <1>4 DEF WholeGroup, Groups, PaymentInv, PaymentTypeOK, PurchaseRow, PurchaseStatus
<1>6. \A s \in ChildrenOf(q) : order[q][s].holder = y
  BY <1>1, <1>2 DEF Settled, ChildrenOf
<1> QED BY <1>1, <1>3, <1>5, <1>6

Confirmed(q) == AttemptsOf(q, {"CONFIRMED"})
InReview(q) == AttemptsOf(q, {"REVIEW_REQUIRED"})

\* The attempts of a group after its only active one has become another.
LEMMA AttemptMoves ==
  ASSUME PaymentInv, NEW q \in Purchases, NEW y \in PayKeys, Active(q) \subseteq {y},
         \A z \in PayKeys \ {y} : attempt'[z] = attempt[z],
         attempt'[y].purchase = q
  PROVE  /\ attempt'[y].status = "CREATED" =>
              Active(q)' = {y} /\ Unresolved(q)' = {y} /\ Confirmed(q)' = {} /\ InReview(q)' = {}
         /\ attempt'[y].status = "CONFIRMED" =>
              Active(q)' = {y} /\ Unresolved(q)' = {} /\ Confirmed(q)' = {y} /\ InReview(q)' = {}
         /\ attempt'[y].status = "FAILED" =>
              Active(q)' = {} /\ Unresolved(q)' = {} /\ Confirmed(q)' = {} /\ InReview(q)' = {}
         /\ attempt'[y].status = "REVIEW_REQUIRED" =>
              Active(q)' = {y} /\ Unresolved(q)' = {y} /\ Confirmed(q)' = {} /\ InReview(q)' = {y}
<1>1. \A z \in PayKeys \ {y} : attempt'[z].purchase = q =>
        attempt'[z].status \notin {"CREATED", "CONFIRMED", "REVIEW_REQUIRED"}
  BY DEF Active, AttemptsOf
<1>2. CASE attempt'[y].status = "CREATED"
  BY <1>1, <1>2 DEF Active, Unresolved, Confirmed, InReview, AttemptsOf
<1>3. CASE attempt'[y].status = "CONFIRMED"
  BY <1>1, <1>3 DEF Active, Unresolved, Confirmed, InReview, AttemptsOf
<1>4. CASE attempt'[y].status = "FAILED"
  BY <1>1, <1>4 DEF Active, Unresolved, Confirmed, InReview, AttemptsOf
<1>5. CASE attempt'[y].status = "REVIEW_REQUIRED"
  BY <1>1, <1>5 DEF Active, Unresolved, Confirmed, InReview, AttemptsOf
<1> QED BY <1>2, <1>3, <1>4, <1>5

\* A group's orders change together: what is left to show of the group.
LEMMA ChildrenMove ==
  ASSUME PaymentInv, NEW q \in Groups, NEW rows,
         order' = [order EXCEPT ![q] =
           [s \in Stores |-> IF s \in ChildrenOf(q) THEN rows[s] ELSE order[q][s]]],
         \A s \in ChildrenOf(q) : Consistent(rows[s]) /\ rows[s].status # "NONE"
  PROVE  /\ order' \in [Purchases -> [Stores -> OrderType]]
         /\ \A r \in Purchases : r # q => order'[r] = order[r]
         /\ ChildrenOf(q)' = ChildrenOf(q)
         /\ \A s \in ChildrenOf(q) : order'[q][s] = rows[s]
         /\ \A s \in Stores : Consistent(order'[q][s])
         /\ \A s \in Stores \ ChildrenOf(q) : order'[q][s].holder \notin PayKeys
<1>1. q \in Purchases /\ order \in [Purchases -> [Stores -> OrderType]] /\ Settled(q)
  BY DEF PaymentInv, PaymentTypeOK, Groups
<1>2. /\ \A r \in Purchases : r # q => order'[r] = order[r]
      /\ \A s \in ChildrenOf(q) : order'[q][s] = rows[s]
      /\ \A s \in Stores \ ChildrenOf(q) : order'[q][s] = order[q][s]
  BY <1>1 DEF ChildrenOf
<1>3. \A s \in Stores : Consistent(order'[q][s])
  BY <1>1, <1>2 DEF Settled
<1>4. order' \in [Purchases -> [Stores -> OrderType]]
  <2> DEFINE news == [s \in Stores |-> IF s \in ChildrenOf(q) THEN rows[s] ELSE order[q][s]]
  <2>1. news \in [Stores -> OrderType]
    BY <1>1 DEF Consistent
  <2>2. order' = [order EXCEPT ![q] = news]
    OBVIOUS
  <2> HIDE DEF news
  <2> QED BY <1>1, <2>1, <2>2
<1>5. ChildrenOf(q)' = ChildrenOf(q)
  BY <1>2 DEF ChildrenOf
<1>6. \A s \in Stores \ ChildrenOf(q) : order'[q][s].holder \notin PayKeys
  BY <1>1, <1>2, PaymentAssumption DEF Settled, Consistent, ChildrenOf
<1> QED BY <1>2, <1>3, <1>4, <1>5, <1>6

LEMMA StartKeeps ==
  ASSUME PaymentInv, NEW q \in Purchases, NEW y \in PayKeys, StartPayment(q, y)
  PROVE  PaymentInv'
<1> DEFINE rows == [s \in Stores |-> Held(order[q][s], y)]
<1>1. /\ q \in Groups /\ attempt[y].status = "NONE" /\ Active(q) = {}
      /\ purchase[q].status \notin {"PAID", "PAYMENT_REVIEW"}
      /\ \A s \in ChildrenOf(q) : order[q][s].status = "PENDING_PAYMENT" /\ Holdable(q, s)
      /\ attempt' = [attempt EXCEPT ![y] = [status |-> "CREATED", purchase |-> q]]
      /\ UNCHANGED purchase
  BY DEF StartPayment
<1>2. order' = [order EXCEPT ![q] =
        [s \in Stores |-> IF s \in ChildrenOf(q) THEN rows[s] ELSE order[q][s]]]
  BY DEF StartPayment
<1>3. Settled(q) /\ WholeGroup(q) /\ ChildrenOf(q) \subseteq Stores
  BY <1>1 DEF PaymentInv, Settled, ChildrenOf
<1>4. \A s \in ChildrenOf(q) :
        Consistent(rows[s]) /\ rows[s].status = "PENDING_PAYMENT" /\ rows[s].holder = y
  BY <1>1, <1>3, RowMoves DEF Settled, Holdable, Holders
<1> HIDE DEF rows
<1>5. /\ order' \in [Purchases -> [Stores -> OrderType]]
      /\ \A r \in Purchases : r # q => order'[r] = order[r]
      /\ ChildrenOf(q)' = ChildrenOf(q)
      /\ \A s \in ChildrenOf(q) : order'[q][s] = rows[s]
      /\ \A s \in Stores : Consistent(order'[q][s])
      /\ \A s \in Stores \ ChildrenOf(q) : order'[q][s].holder \notin PayKeys
  BY <1>1, <1>2, <1>4, ChildrenMove
<1>6. /\ attempt' \in [PayKeys -> AttemptRow]
      /\ \A z \in PayKeys \ {y} : attempt'[z] = attempt[z]
      /\ attempt'[y].status = "CREATED" /\ attempt'[y].purchase = q
      /\ Active(q)' = {y} /\ Unresolved(q)' = {y}
      /\ Confirmed(q)' = {} /\ InReview(q)' = {}
  <2>1. attempt \in [PayKeys -> AttemptRow]
    BY DEF PaymentInv, PaymentTypeOK
  <2>2. /\ attempt' \in [PayKeys -> AttemptRow]
        /\ \A z \in PayKeys \ {y} : attempt'[z] = attempt[z]
        /\ attempt'[y].status = "CREATED" /\ attempt'[y].purchase = q
    BY <1>1, <2>1 DEF AttemptRow, AttemptStatus
  <2>3. Active(q) \subseteq {y}
    BY <1>1
  <2> QED BY <2>2, <2>3, AttemptMoves
<1>7. purchase[q].status \notin {"NONE", "PAID", "PAYMENT_REVIEW", "EXPIRED"}
  BY <1>1, <1>3 DEF WholeGroup, Groups
<1>8. WholeGroup(q)'
  BY <1>1, <1>3, <1>5, <1>6, <1>7 DEF WholeGroup, Confirmed, InReview
<1>9. \A s \in Stores, z \in PayKeys :
        order'[q][s].holder = z <=> z \in Unresolved(q)' /\ s \in ChildrenOf(q)'
  BY <1>4, <1>5, <1>6
<1>10. Settled(q)'
  BY <1>1, <1>5, <1>7, <1>8, <1>9 DEF Settled
<1>11. PaymentTypeOK'
  BY <1>1, <1>5, <1>6 DEF PaymentInv, PaymentTypeOK
<1>12. q \in Groups'
  BY <1>1 DEF Groups
<1> QED BY <1>1, <1>5, <1>6, <1>10, <1>11, <1>12, OnePurchase

\* The orders of a group and its attempt, settled together.
LEMMA SettledTogether ==
  ASSUME PaymentInv, PaymentTypeOK', NEW q \in Groups, NEW y \in PayKeys,
         attempt[y].status = "CREATED", attempt[y].purchase = q,
         attempt'[y].purchase = q, \A z \in PayKeys \ {y} : attempt'[z] = attempt[z],
         \A r \in Purchases : r # q => order'[r] = order[r] /\ purchase'[r] = purchase[r],
         ChildrenOf(q)' = ChildrenOf(q),
         \A s \in Stores : Consistent(order'[q][s]),
         \A s \in Stores \ ChildrenOf(q) : order'[q][s].holder \notin PayKeys,
         \/ /\ attempt'[y].status = "CONFIRMED" /\ purchase'[q].status = "PAID"
            /\ \A s \in ChildrenOf(q) : order'[q][s].status = "PAID" /\ order'[q][s].holder = "NOBODY"
         \/ /\ attempt'[y].status = "FAILED" /\ purchase'[q].status = "PENDING_PAYMENT"
            /\ \A s \in ChildrenOf(q) : order'[q][s].holder = "NOBODY"
         \/ /\ attempt'[y].status = "REVIEW_REQUIRED" /\ purchase'[q].status = "PAYMENT_REVIEW"
            /\ \A s \in ChildrenOf(q) :
                 order'[q][s].status = "PAYMENT_REVIEW" /\ order'[q][s].holder = y
  PROVE  PaymentInv'
<1>1. /\ q \in Purchases /\ WholeGroup(q) /\ Active(q) = {y} /\ ChildrenOf(q) # {}
  <2>1. q \in Purchases /\ WholeGroup(q) /\ Active(q) = {y}
    BY CreatedAttempt
  <2> QED BY <2>1 DEF WholeGroup
<1>2. /\ attempt'[y].status = "CONFIRMED" =>
           Active(q)' = {y} /\ Unresolved(q)' = {} /\ Confirmed(q)' = {y} /\ InReview(q)' = {}
      /\ attempt'[y].status = "FAILED" =>
           Active(q)' = {} /\ Unresolved(q)' = {} /\ Confirmed(q)' = {} /\ InReview(q)' = {}
      /\ attempt'[y].status = "REVIEW_REQUIRED" =>
           Active(q)' = {y} /\ Unresolved(q)' = {y} /\ Confirmed(q)' = {} /\ InReview(q)' = {y}
  <2>1. Active(q) \subseteq {y}
    BY <1>1
  <2> QED BY <1>1, <2>1, AttemptMoves
<1>3. WholeGroup(q)'
  BY <1>1, <1>2 DEF WholeGroup, Confirmed, InReview
<1>4. \A s \in Stores, z \in PayKeys :
        order'[q][s].holder = z <=> z \in Unresolved(q)' /\ s \in ChildrenOf(q)'
  BY <1>2, PaymentAssumption
<1>5. Settled(q)' /\ q \in Groups'
  BY <1>1, <1>3, <1>4 DEF Settled, Groups
<1> QED BY <1>1, <1>5, OnePurchase

\* The second transaction, whichever of its three ends it comes to.
LEMMA SettleKeeps ==
  ASSUME PaymentInv, NEW y \in PayKeys, ConfirmPayment(y) \/ FailPayment(y) \/ MovePaymentToReview(y)
  PROVE  PaymentInv'
<1> PICK q : q = attempt[y].purchase
  OBVIOUS
<1>1. attempt[y].status = "CREATED"
  BY DEF ConfirmPayment, FailPayment, MovePaymentToReview
<1>2. /\ q \in Groups /\ q \in Purchases /\ WholeGroup(q) /\ Settled(q)
      /\ Active(q) = {y} /\ purchase[q].status = "PENDING_PAYMENT"
      /\ \A s \in ChildrenOf(q) : order[q][s].holder = y
  BY <1>1, CreatedAttempt
<1>3. /\ ChildrenOf(q) \subseteq Stores
      /\ attempt \in [PayKeys -> AttemptRow] /\ purchase \in [Purchases -> PurchaseRow]
      /\ \A s \in Stores : Consistent(order[q][s])
      /\ y \in Holders
  BY <1>2 DEF PaymentInv, PaymentTypeOK, Settled, WholeGroup, ChildrenOf, Holders
<1>4. CASE ConfirmPayment(y)
  <2> DEFINE rows == [s \in Stores |-> Paid(order[q][s])]
  <2>1. \A s \in ChildrenOf(q) : Consistent(rows[s]) /\ rows[s].status = "PAID" /\ rows[s].holder = "NOBODY"
    BY <1>2, <1>3, <1>4, RowMoves DEF ConfirmPayment
  <2>2. order' = [order EXCEPT ![q] =
               [s \in Stores |-> IF s \in ChildrenOf(q) THEN rows[s] ELSE order[q][s]]]
    BY <1>4 DEF ConfirmPayment
  <2> HIDE DEF rows
  <2>3. /\ order' \in [Purchases -> [Stores -> OrderType]]
        /\ \A r \in Purchases : r # q => order'[r] = order[r]
        /\ ChildrenOf(q)' = ChildrenOf(q)
        /\ \A s \in ChildrenOf(q) : order'[q][s] = rows[s]
        /\ \A s \in Stores : Consistent(order'[q][s])
        /\ \A s \in Stores \ ChildrenOf(q) : order'[q][s].holder \notin PayKeys
    BY <1>2, <2>1, <2>2, ChildrenMove
  <2>4. /\ attempt' \in [PayKeys -> AttemptRow] /\ attempt'[y].status = "CONFIRMED"
        /\ attempt'[y].purchase = q /\ \A z \in PayKeys \ {y} : attempt'[z] = attempt[z]
    BY <1>3, <1>4 DEF ConfirmPayment, AttemptRow, AttemptStatus
  <2>5. /\ purchase' \in [Purchases -> PurchaseRow] /\ purchase'[q].status = "PAID"
        /\ \A r \in Purchases : r # q => purchase'[r] = purchase[r]
    BY <1>2, <1>3, <1>4 DEF ConfirmPayment, PurchaseRow, PurchaseStatus
  <2>6. PaymentTypeOK' /\ \A s \in ChildrenOf(q) : order'[q][s].status = "PAID" /\ order'[q][s].holder = "NOBODY"
    BY <1>3, <2>1, <2>3, <2>4, <2>5 DEF PaymentTypeOK
  <2> QED BY <1>1, <1>2, <2>3, <2>4, <2>5, <2>6, SettledTogether
<1>5. CASE FailPayment(y)
  <2> DEFINE rows == [s \in Stores |-> Failed(q, order[q][s])]
  <2>1. ASSUME NEW s \in ChildrenOf(q)
        PROVE  /\ Consistent(rows[s]) /\ rows[s].status \in {"EXPIRED", "PENDING_PAYMENT"}
               /\ rows[s].holder = "NOBODY"
    <3>1. Consistent(order[q][s]) /\ rows[s] = Failed(q, order[q][s])
      BY <1>3
    <3> HIDE DEF rows
    <3> QED BY <1>2, <1>3, <3>1, RowMoves
  <2>2. order' = [order EXCEPT ![q] =
               [s \in Stores |-> IF s \in ChildrenOf(q) THEN rows[s] ELSE order[q][s]]]
    BY <1>5 DEF FailPayment
  <2> HIDE DEF rows
  <2>3. /\ order' \in [Purchases -> [Stores -> OrderType]]
        /\ \A r \in Purchases : r # q => order'[r] = order[r]
        /\ ChildrenOf(q)' = ChildrenOf(q)
        /\ \A s \in ChildrenOf(q) : order'[q][s] = rows[s]
        /\ \A s \in Stores : Consistent(order'[q][s])
        /\ \A s \in Stores \ ChildrenOf(q) : order'[q][s].holder \notin PayKeys
    BY <1>2, <2>1, <2>2, ChildrenMove
  <2>4. /\ attempt' \in [PayKeys -> AttemptRow] /\ attempt'[y].status = "FAILED"
        /\ attempt'[y].purchase = q /\ \A z \in PayKeys \ {y} : attempt'[z] = attempt[z]
    BY <1>3, <1>5 DEF FailPayment, AttemptRow, AttemptStatus
  <2>5. purchase' = purchase
    BY <1>5 DEF FailPayment
  <2>6. PaymentTypeOK' /\ \A s \in ChildrenOf(q) : order'[q][s].holder = "NOBODY"
    BY <1>3, <2>1, <2>3, <2>4, <2>5 DEF PaymentTypeOK
  <2> QED BY <1>1, <1>2, <2>3, <2>4, <2>5, <2>6, SettledTogether
<1>6. CASE MovePaymentToReview(y)
  <2> DEFINE rows == [s \in Stores |-> Reviewed(order[q][s])]
  <2>1. \A s \in ChildrenOf(q) : Consistent(rows[s]) /\ rows[s].status = "PAYMENT_REVIEW" /\ rows[s].holder = y
    BY <1>2, <1>3, <1>6, RowMoves DEF MovePaymentToReview
  <2>2. order' = [order EXCEPT ![q] =
               [s \in Stores |-> IF s \in ChildrenOf(q) THEN rows[s] ELSE order[q][s]]]
    BY <1>6 DEF MovePaymentToReview
  <2> HIDE DEF rows
  <2>3. /\ order' \in [Purchases -> [Stores -> OrderType]]
        /\ \A r \in Purchases : r # q => order'[r] = order[r]
        /\ ChildrenOf(q)' = ChildrenOf(q)
        /\ \A s \in ChildrenOf(q) : order'[q][s] = rows[s]
        /\ \A s \in Stores : Consistent(order'[q][s])
        /\ \A s \in Stores \ ChildrenOf(q) : order'[q][s].holder \notin PayKeys
    BY <1>2, <2>1, <2>2, ChildrenMove
  <2>4. /\ attempt' \in [PayKeys -> AttemptRow] /\ attempt'[y].status = "REVIEW_REQUIRED"
        /\ attempt'[y].purchase = q /\ \A z \in PayKeys \ {y} : attempt'[z] = attempt[z]
    BY <1>3, <1>6 DEF MovePaymentToReview, AttemptRow, AttemptStatus
  <2>5. /\ purchase' \in [Purchases -> PurchaseRow] /\ purchase'[q].status = "PAYMENT_REVIEW"
        /\ \A r \in Purchases : r # q => purchase'[r] = purchase[r]
    BY <1>2, <1>3, <1>6 DEF MovePaymentToReview, PurchaseRow, PurchaseStatus
  <2>6. PaymentTypeOK' /\ \A s \in ChildrenOf(q) : order'[q][s].status = "PAYMENT_REVIEW" /\ order'[q][s].holder = y
    BY <1>3, <2>1, <2>3, <2>4, <2>5 DEF PaymentTypeOK
  <2> QED BY <1>1, <1>2, <2>3, <2>4, <2>5, <2>6, SettledTogether
<1> QED BY <1>4, <1>5, <1>6

\* An order that no attempt on its group holds moves alone: then no attempt on
\* the group is unresolved, so that the group is neither paid nor under review.
LEMMA OneOrder ==
  ASSUME PaymentInv, NEW q \in Purchases, NEW s \in Stores, NEW row,
         order[q][s].status \in {"PENDING_PAYMENT", "PAYMENT_REVIEW"},
         order[q][s].holder \notin PayKeys,
         Consistent(row), row.status # "NONE", row.holder \notin PayKeys,
         SoloStep(q, s, row)
  PROVE  PaymentInv'
<1>1. /\ order \in [Purchases -> [Stores -> OrderType]] /\ Settled(q)
      /\ row \in OrderType
      /\ order' = [order EXCEPT ![q][s] = row] /\ UNCHANGED <<purchase, attempt>>
  BY DEF PaymentInv, PaymentTypeOK, Consistent, SoloStep
<1>2. /\ order'[q][s] = row
      /\ \A t \in Stores : t # s => order'[q][t] = order[q][t]
      /\ \A r \in Purchases : r # q => order'[r] = order[r]
      /\ order' \in [Purchases -> [Stores -> OrderType]]
  BY <1>1
<1>3. ChildrenOf(q)' = ChildrenOf(q) /\ s \in ChildrenOf(q)
  BY <1>2 DEF ChildrenOf
<1>4. /\ Active(q)' = Active(q) /\ Unresolved(q)' = Unresolved(q)
      /\ Confirmed(q)' = Confirmed(q) /\ InReview(q)' = InReview(q)
  BY <1>1 DEF Active, Unresolved, Confirmed, InReview, AttemptsOf
<1>5. InReview(q) = {}
  BY <1>1, <1>3 DEF Settled, InReview, Unresolved, AttemptsOf
<1>6. ASSUME q \in Groups  PROVE WholeGroup(q)'
  <2>1. WholeGroup(q)
    BY <1>1, <1>6 DEF Settled
  <2>2. purchase[q].status \notin {"PAID", "PAYMENT_REVIEW"}
    BY <1>3, <1>5, <2>1 DEF WholeGroup, InReview
  <2> QED BY <1>1, <1>2, <1>3, <1>4, <2>1, <2>2 DEF WholeGroup, Confirmed, InReview
<1>7. Settled(q)'
  <2>1. purchase[q].status # "NONE"
    BY <1>1 DEF Settled, NoOrder
  <2>2. \A t \in Stores : Consistent(order'[q][t])
    BY <1>1, <1>2 DEF Settled
  <2>3. \A t \in Stores, y \in PayKeys :
          order'[q][t].holder = y <=> y \in Unresolved(q)' /\ t \in ChildrenOf(q)'
    BY <1>1, <1>2, <1>3, <1>4 DEF Settled
  <2> QED BY <1>1, <1>6, <2>1, <2>2, <2>3 DEF Settled, Groups
<1> QED BY <1>1, <1>2, <1>7, OnePurchase DEF PaymentInv, PaymentTypeOK, Groups

LEMMA SoloKeeps ==
  ASSUME PaymentInv, NEW q \in Purchases, NEW s \in SoloStores,
         SoloHold(q, s) \/ SoloPay(q, s) \/ SoloFail(q, s) \/ SoloReview(q, s)
  PROVE  PaymentInv'
<1>1. /\ s \in Stores /\ Consistent(order[q][s]) /\ "SOLO" \in Holders
      /\ "SOLO" \notin PayKeys /\ "NOBODY" \notin PayKeys
  BY PaymentAssumption DEF PaymentInv, Settled, Holders
<1>2. ASSUME order[q][s].holder = "SOLO"
      PROVE  order[q][s].status \in {"PENDING_PAYMENT", "PAYMENT_REVIEW"}
  BY <1>1, <1>2 DEF Consistent, OrderType, OrderStatus
<1>3. CASE SoloHold(q, s)
  <2> DEFINE row == Held(order[q][s], "SOLO")
  <2>1. Consistent(row) /\ row.holder = "SOLO" /\ row.status = "PENDING_PAYMENT"
    BY <1>1, <1>3, RowMoves DEF SoloHold, Holdable
  <2>2. /\ SoloStep(q, s, row)
        /\ order[q][s].status = "PENDING_PAYMENT" /\ order[q][s].holder = "NOBODY"
    BY <1>3 DEF SoloHold, Holdable
  <2> HIDE DEF row
  <2> QED BY <1>1, <2>1, <2>2, OneOrder
<1>4. CASE SoloPay(q, s)
  <2> DEFINE row == Paid(order[q][s])
  <2>1. Consistent(row) /\ row.holder = "NOBODY" /\ row.status = "PAID"
    BY <1>1, <1>4, RowMoves DEF SoloPay
  <2>2. /\ SoloStep(q, s, row)
        /\ order[q][s].holder = "SOLO"
    BY <1>4 DEF SoloPay, Consumable
  <2> HIDE DEF row
  <2> QED BY <1>1, <1>2, <2>1, <2>2, OneOrder
<1>5. CASE SoloFail(q, s)
  <2> DEFINE row == Failed(q, order[q][s])
  <2>1. Consistent(row) /\ row.holder = "NOBODY" /\ row.status \in {"EXPIRED", "PENDING_PAYMENT"}
    BY <1>1, RowMoves
  <2>2. /\ SoloStep(q, s, row)
        /\ order[q][s].holder = "SOLO"
    BY <1>5 DEF SoloFail
  <2> HIDE DEF row
  <2> QED BY <1>1, <1>2, <2>1, <2>2, OneOrder
<1>6. CASE SoloReview(q, s)
  <2> DEFINE row == Reviewed(order[q][s])
  <2>1. Consistent(row) /\ row.holder = "SOLO" /\ row.status = "PAYMENT_REVIEW"
    BY <1>1, <1>6, RowMoves DEF SoloReview
  <2>2. /\ SoloStep(q, s, row)
        /\ order[q][s].holder = "SOLO"
    BY <1>6 DEF SoloReview, Reviewable
  <2> HIDE DEF row
  <2> QED BY <1>1, <1>2, <2>1, <2>2, OneOrder
<1> QED BY <1>3, <1>4, <1>5, <1>6

LEMMA DeadlineKeeps ==
  ASSUME PaymentInv, NEW q \in Purchases, PassDeadline(q)
  PROVE  PaymentInv'
<1>1. /\ purchase \in [Purchases -> PurchaseRow] /\ Settled(q)
      /\ purchase' = [purchase EXCEPT ![q] = [purchase[q] EXCEPT !.due = TRUE]]
      /\ UNCHANGED <<order, attempt>>
  BY DEF PassDeadline, PaymentInv, PaymentTypeOK
<1>2. /\ purchase' \in [Purchases -> PurchaseRow] /\ purchase'[q].status = purchase[q].status
      /\ \A r \in Purchases : r # q => purchase'[r] = purchase[r]
  <2> DEFINE row == [purchase[q] EXCEPT !.due = TRUE]
  <2>1. row \in PurchaseRow /\ row.status = purchase[q].status
    BY <1>1 DEF PurchaseRow
  <2> HIDE DEF row
  <2>2. purchase' = [purchase EXCEPT ![q] = row]
    BY <1>1 DEF row
  <2> QED BY <1>1, <2>1, <2>2
<1>3. /\ Active(q)' = Active(q) /\ Unresolved(q)' = Unresolved(q)
      /\ Confirmed(q)' = Confirmed(q) /\ InReview(q)' = InReview(q)
      /\ ChildrenOf(q)' = ChildrenOf(q)
  BY <1>1 DEF Active, Unresolved, Confirmed, InReview, AttemptsOf, ChildrenOf
<1>4. (q \in Groups') <=> (q \in Groups)
  BY <1>2 DEF Groups
<1>5. WholeGroup(q) => WholeGroup(q)'
  BY <1>1, <1>2, <1>3 DEF WholeGroup, Confirmed, InReview
<1>6. Settled(q)'
  BY <1>1, <1>2, <1>3, <1>4, <1>5 DEF Settled
<1> QED BY <1>1, <1>2, <1>4, <1>6, OnePurchase DEF PaymentInv, PaymentTypeOK

\* The sweep touches many purchases, but only orders that nobody holds.
LEMMA SweepKeeps ==
  ASSUME PaymentInv, NEW rows \in SUBSET (Purchases \X Stores), Sweep(rows)
  PROVE  PaymentInv'
<1>1. /\ \A q \in Purchases, s \in Stores :
           /\ order'[q][s] = IF <<q, s>> \in rows THEN Expired(order[q][s]) ELSE order[q][s]
           /\ <<q, s>> \in rows => order[q][s].status = "PENDING_PAYMENT" /\ Releasable(q, s)
      /\ \A q \in Purchases :
           purchase'[q] = IF GroupExpires(q) THEN [purchase[q] EXCEPT !.status = "EXPIRED"] ELSE purchase[q]
      /\ UNCHANGED attempt
  BY DEF Sweep
<1>2. /\ order' = [q \in Purchases |-> [s \in Stores |-> order'[q][s]]]
      /\ purchase' = [q \in Purchases |-> purchase'[q]]
  BY DEF Sweep
<1>3. /\ \A q \in Purchases : Settled(q) /\ purchase[q] \in PurchaseRow
      /\ "SOLO" \in Holders /\ "NOBODY" \notin PayKeys
  BY PaymentAssumption DEF PaymentInv, PaymentTypeOK, Holders
<1>4. ASSUME NEW q \in Purchases, NEW s \in Stores
      PROVE  /\ Consistent(order'[q][s])
             /\ <<q, s>> \in rows =>
                  /\ order'[q][s].status = "EXPIRED" /\ order'[q][s].holder = "NOBODY"
                  /\ order[q][s].status = "PENDING_PAYMENT" /\ order[q][s].holder = "NOBODY"
             /\ <<q, s>> \notin rows => order'[q][s] = order[q][s]
  <2>1. Consistent(order[q][s])
    BY <1>3 DEF Settled
  <2>2. CASE <<q, s>> \in rows
    <3>1. order[q][s].reservation = "ACTIVE" /\ order[q][s].holder = "NOBODY"
      BY <1>1, <2>2 DEF Releasable
    <3>2. /\ Consistent(Expired(order[q][s])) /\ Expired(order[q][s]).holder = "NOBODY"
          /\ Expired(order[q][s]).status = "EXPIRED"
      BY <1>3, <2>1, <3>1, RowMoves
    <3> QED BY <1>1, <2>2, <3>1, <3>2
  <2>3. CASE <<q, s>> \notin rows
    BY <1>1, <2>1, <2>3
  <2> QED BY <2>2, <2>3
<1>5. ASSUME NEW q \in Purchases
      PROVE  /\ purchase'[q] \in PurchaseRow
             /\ purchase'[q].status = IF GroupExpires(q) THEN "EXPIRED" ELSE purchase[q].status
             /\ (q \in Groups') <=> (q \in Groups)
  <2>1. CASE GroupExpires(q)
    <3> DEFINE row == [purchase[q] EXCEPT !.status = "EXPIRED"]
    <3>1. row \in PurchaseRow /\ row.status = "EXPIRED"
      BY <1>3 DEF PurchaseRow, PurchaseStatus
    <3>2. purchase'[q] = row /\ purchase[q].status = "PENDING_PAYMENT"
      BY <1>1, <2>1 DEF GroupExpires
    <3> HIDE DEF row
    <3> QED BY <2>1, <3>1, <3>2 DEF Groups
  <2>2. CASE ~GroupExpires(q)
    BY <1>1, <1>3, <2>2 DEF Groups
  <2> QED BY <2>1, <2>2
<1>6. PaymentTypeOK'
  <2>1. \A q \in Purchases, s \in Stores : order'[q][s] \in OrderType
    BY <1>4 DEF Consistent
  <2>2. order' \in [Purchases -> [Stores -> OrderType]]
    BY <1>2, <2>1
  <2>3. purchase' \in [Purchases -> PurchaseRow]
    BY <1>2, <1>5
  <2> QED BY <1>1, <2>2, <2>3 DEF PaymentInv, PaymentTypeOK
<1>7. ASSUME NEW q \in Purchases  PROVE Settled(q)'
  <2>1. /\ Active(q)' = Active(q) /\ Unresolved(q)' = Unresolved(q)
        /\ Confirmed(q)' = Confirmed(q) /\ InReview(q)' = InReview(q)
    BY <1>1 DEF Active, Unresolved, Confirmed, InReview, AttemptsOf
  <2>2. ChildrenOf(q)' = ChildrenOf(q)
    BY <1>4 DEF ChildrenOf
  <2>3. \A s \in Stores, y \in PayKeys :
          order'[q][s].holder = y <=> y \in Unresolved(q)' /\ s \in ChildrenOf(q)'
    <3>1. ASSUME NEW s \in Stores  PROVE order'[q][s].holder = order[q][s].holder
      <4>1. CASE <<q, s>> \in rows
        BY <1>4, <4>1
      <4>2. CASE <<q, s>> \notin rows
        BY <1>4, <4>2
      <4> QED BY <4>1, <4>2
    <3>2. \A s \in Stores, y \in PayKeys :
            order[q][s].holder = y <=> y \in Unresolved(q) /\ s \in ChildrenOf(q)
      BY <1>3 DEF Settled
    <3> QED BY <2>1, <2>2, <3>1, <3>2
  <2>4. ASSUME purchase'[q].status = "NONE"
        PROVE  \A s \in Stores : order'[q][s] = NoOrder
    <3>1. purchase[q].status = "NONE"
      BY <1>5, <2>4
    <3>2. \A s \in Stores : order[q][s] = NoOrder
      BY <1>3, <3>1 DEF Settled
    <3>3. \A s \in Stores : <<q, s>> \notin rows
      BY <1>4, <3>2 DEF NoOrder
    <3> QED BY <1>4, <3>2, <3>3
  <2>5. ASSUME q \in Groups'  PROVE WholeGroup(q)'
    <3>1. WholeGroup(q) /\ q \in Groups
      BY <1>3, <1>5, <2>5 DEF Settled
    <3>2. CASE GroupExpires(q)
      <4>1. /\ purchase'[q].status = "EXPIRED" /\ purchase[q].status = "PENDING_PAYMENT"
            /\ Unresolved(q) = {} /\ \E s \in Stores : order'[q][s].status = "EXPIRED"
        BY <1>5, <3>2 DEF GroupExpires
      <4>2. Confirmed(q) = {} /\ InReview(q) = {} /\ Active(q) = {}
        BY <3>1, <4>1 DEF WholeGroup, Confirmed, InReview, Active, Unresolved, AttemptsOf
      <4>3. \E s \in ChildrenOf(q)' : order'[q][s].status = "EXPIRED"
        BY <4>1 DEF ChildrenOf
      <4> QED BY <2>1, <2>2, <3>1, <4>1, <4>2, <4>3 DEF WholeGroup, Confirmed, InReview
    <3>3. CASE ~GroupExpires(q)
      <4>1. purchase'[q].status = purchase[q].status /\ ChildrenOf(q) \subseteq Stores
        BY <1>5, <3>3 DEF ChildrenOf
      <4>2. \A s \in ChildrenOf(q) :
              order[q][s].status # "PENDING_PAYMENT" => order'[q][s] = order[q][s]
        BY <1>4, <4>1
      <4> QED BY <2>1, <2>2, <3>1, <4>1, <4>2 DEF WholeGroup, Confirmed, InReview
    <3> QED BY <3>2, <3>3
  <2> QED BY <1>4, <2>3, <2>4, <2>5 DEF Settled
<1>8. \A y \in PayKeys : attempt'[y].status # "NONE" => attempt'[y].purchase \in Groups'
  BY <1>1, <1>5 DEF PaymentInv, Groups
<1> QED BY <1>6, <1>7, <1>8 DEF PaymentInv

\* A new purchase has its orders and no attempt yet.
LEMMA BuySettles ==
  ASSUME CheckoutInv, PaymentInv, NEW p \in Preparations, NEW k \in Keys, NEW q \in Purchases,
         CreateOrder(p, k, q) \/ CreateGroup(p, k, q), UNCHANGED attempt
  PROVE  PaymentInv'
<1> DEFINE made == [status |-> IF preparation[p].kind = "GROUP" THEN "PENDING_PAYMENT" ELSE "ORDER",
                    preparation |-> p, key |-> k, due |-> FALSE]
<1>1. /\ q \notin Made /\ Usable(p) /\ Buy(p, k, q) /\ q \notin Groups
      /\ purchase' = [purchase EXCEPT ![q] = made] /\ order' = [order EXCEPT ![q] = OrdersFor(p)]
  BY DEF CreateOrder, CreateGroup, Buy, Made, Groups
<1>2. /\ purchase \in [Purchases -> PurchaseRow] /\ order \in [Purchases -> [Stores -> OrderType]]
      /\ attempt \in [PayKeys -> AttemptRow]
  BY DEF PaymentInv, PaymentTypeOK
<1>3. made \in PurchaseRow /\ made.status \in {"PENDING_PAYMENT", "ORDER"}
  BY DEF PurchaseRow, PurchaseStatus
<1>4. Consistent(OrderRow) /\ Consistent(NoOrder) /\ OrderRow.status = "PENDING_PAYMENT"
      /\ OrderRow.holder = "NOBODY" /\ NoOrder.holder = "NOBODY" /\ NoOrder.status = "NONE"
  BY DEF Consistent, OrderRow, NoOrder, OrderType, OrderStatus
<1>5. StoresOf(p) # {} /\ StoresOf(p) \subseteq Stores
  BY <1>1 DEF CheckoutInv, ReadAsItWas, Usable, StoresOf
<1> HIDE DEF made
<1>6. /\ \A s \in Stores : OrdersFor(p)[s] = IF s \in StoresOf(p) THEN OrderRow ELSE NoOrder
      /\ OrdersFor(p) \in [Stores -> OrderType]
  BY <1>4 DEF OrdersFor, Consistent
<1>7. /\ purchase' \in [Purchases -> PurchaseRow] /\ order' \in [Purchases -> [Stores -> OrderType]]
      /\ purchase'[q] = made /\ order'[q] = OrdersFor(p)
      /\ \A r \in Purchases : r # q => order'[r] = order[r] /\ purchase'[r] = purchase[r]
  BY <1>1, <1>2, <1>3, <1>6
<1>8. ChildrenOf(q)' = StoresOf(p)
  BY <1>4, <1>5, <1>6, <1>7 DEF ChildrenOf
<1>9. Active(q)' = {} /\ Unresolved(q)' = {} /\ Confirmed(q)' = {} /\ InReview(q)' = {}
  BY <1>1 DEF PaymentInv, Active, Unresolved, Confirmed, InReview, AttemptsOf
<1>10. Settled(q)'
  <2>1. \A s \in Stores : Consistent(order'[q][s]) /\ order'[q][s].holder = "NOBODY"
    BY <1>4, <1>6, <1>7
  <2>2. WholeGroup(q)'
    BY <1>3, <1>5, <1>7, <1>8, <1>9 DEF WholeGroup, Confirmed, InReview
  <2> QED BY <1>3, <1>7, <1>9, <2>1, <2>2, PaymentAssumption DEF Settled
<1>11. PaymentTypeOK'
  BY <1>2, <1>7 DEF PaymentTypeOK
<1> QED BY <1>1, <1>7, <1>10, <1>11, OnePurchase

LEMMA PaymentFrame ==
  ASSUME PaymentInv, UNCHANGED <<purchase, order, attempt>>
  PROVE  PaymentInv'
<1>1. \A q : Active(q)' = Active(q) /\ Unresolved(q)' = Unresolved(q) /\ Confirmed(q)' = Confirmed(q)
              /\ InReview(q)' = InReview(q) /\ ChildrenOf(q)' = ChildrenOf(q)
  BY DEF Active, Unresolved, Confirmed, InReview, AttemptsOf, ChildrenOf
<1>2. Groups' = Groups
  BY DEF Groups
<1>3. \A q \in Purchases : WholeGroup(q) => WholeGroup(q)'
  BY <1>1 DEF WholeGroup, Confirmed, InReview
<1>4. \A q \in Purchases : Settled(q)'
  BY <1>1, <1>2, <1>3 DEF PaymentInv, Settled
<1> QED BY <1>2, <1>4 DEF PaymentInv, PaymentTypeOK

\* To the checkout, paying and expiring only move the status of purchases.
LEMMA PaymentsGoOn ==
  ASSUME PaymentInv,
         \/ \E q \in Purchases, y \in PayKeys : StartPayment(q, y)
         \/ \E y \in PayKeys : ConfirmPayment(y) \/ FailPayment(y) \/ MovePaymentToReview(y)
         \/ \E q \in Purchases, s \in SoloStores :
              SoloHold(q, s) \/ SoloPay(q, s) \/ SoloFail(q, s) \/ SoloReview(q, s)
         \/ \E q \in Purchases : PassDeadline(q)
         \/ \E rows \in SUBSET (Purchases \X Stores) : Sweep(rows)
  PROVE  PurchasesGoOn /\ UNCHANGED <<cartVars, address, preparation, answered>>
<1>1. purchase \in [Purchases -> PurchaseRow]
  BY DEF PaymentInv, PaymentTypeOK
<1>2. ASSUME UNCHANGED purchase  PROVE PurchasesGoOn
  BY <1>1, <1>2 DEF PurchasesGoOn
<1>3. ASSUME NEW q \in Purchases, NEW row \in PurchaseRow,
             row.preparation = purchase[q].preparation, row.key = purchase[q].key,
             row.status # "NONE", purchase[q].status # "NONE",
             purchase' = [purchase EXCEPT ![q] = row]
      PROVE  PurchasesGoOn
  BY <1>1, <1>3 DEF PurchasesGoOn
<1>4. CASE \E q \in Purchases, y \in PayKeys : StartPayment(q, y)
  BY <1>2, <1>4 DEF StartPayment
<1>5. CASE \E y \in PayKeys : ConfirmPayment(y) \/ FailPayment(y) \/ MovePaymentToReview(y)
  <2>1. PICK y \in PayKeys : ConfirmPayment(y) \/ FailPayment(y) \/ MovePaymentToReview(y)
    BY <1>5
  <2>2. PICK q : q = attempt[y].purchase
    OBVIOUS
  <2>3. attempt[y].status = "CREATED"
    BY <2>1 DEF ConfirmPayment, FailPayment, MovePaymentToReview
  <2>4. q \in Purchases /\ purchase[q].status # "NONE" /\ purchase[q] \in PurchaseRow
    BY <1>1, <2>2, <2>3 DEF PaymentInv, Groups
  <2>5. \/ UNCHANGED purchase
        \/ purchase' = [purchase EXCEPT ![q] = [purchase[q] EXCEPT !.status = "PAID"]]
        \/ purchase' = [purchase EXCEPT ![q] = [purchase[q] EXCEPT !.status = "PAYMENT_REVIEW"]]
    BY <2>1, <2>2 DEF ConfirmPayment, FailPayment, MovePaymentToReview
  <2>6. ASSUME NEW status \in {"PAID", "PAYMENT_REVIEW"},
               purchase' = [purchase EXCEPT ![q] = [purchase[q] EXCEPT !.status = status]]
        PROVE  PurchasesGoOn
    <3> DEFINE row == [purchase[q] EXCEPT !.status = status]
    <3>1. /\ row \in PurchaseRow /\ row.preparation = purchase[q].preparation
          /\ row.key = purchase[q].key /\ row.status # "NONE"
      BY <2>4 DEF PurchaseRow, PurchaseStatus
    <3>2. purchase' = [purchase EXCEPT ![q] = row]
      BY <2>6
    <3> HIDE DEF row
    <3> QED BY <1>3, <2>4, <3>1, <3>2
  <2>7. UNCHANGED <<cartVars, address, preparation, answered>>
    BY <2>1 DEF ConfirmPayment, FailPayment, MovePaymentToReview
  <2> QED BY <1>2, <2>5, <2>6, <2>7
<1>6. CASE \E q \in Purchases, s \in SoloStores :
             SoloHold(q, s) \/ SoloPay(q, s) \/ SoloFail(q, s) \/ SoloReview(q, s)
  BY <1>2, <1>6 DEF SoloHold, SoloPay, SoloFail, SoloReview, SoloStep
<1>7. CASE \E q \in Purchases : PassDeadline(q)
  <2>1. PICK q \in Purchases : PassDeadline(q)
    BY <1>7
  <2> DEFINE row == [purchase[q] EXCEPT !.due = TRUE]
  <2>2. /\ row \in PurchaseRow /\ row.preparation = purchase[q].preparation
        /\ row.key = purchase[q].key /\ row.status = purchase[q].status
    BY <1>1 DEF PurchaseRow
  <2>3. purchase' = [purchase EXCEPT ![q] = row] /\ purchase[q].status # "NONE"
    BY <2>1 DEF PassDeadline, Made
  <2> HIDE DEF row
  <2> QED BY <1>3, <2>1, <2>2, <2>3 DEF PassDeadline
<1>8. CASE \E rows \in SUBSET (Purchases \X Stores) : Sweep(rows)
  <2>1. PICK rows \in SUBSET (Purchases \X Stores) : Sweep(rows)
    BY <1>8
  <2>2. \A q \in Purchases :
          purchase'[q] = IF GroupExpires(q) THEN [purchase[q] EXCEPT !.status = "EXPIRED"] ELSE purchase[q]
    BY <2>1 DEF Sweep
  <2>3. purchase' = [q \in Purchases |-> purchase'[q]]
    BY <2>1 DEF Sweep
  <2>4. ASSUME NEW q \in Purchases
        PROVE  /\ purchase'[q] \in PurchaseRow
               /\ purchase'[q].preparation = purchase[q].preparation
               /\ purchase'[q].key = purchase[q].key
               /\ purchase'[q].status = "NONE" <=> purchase[q].status = "NONE"
    <3> DEFINE row == [purchase[q] EXCEPT !.status = "EXPIRED"]
    <3>1. /\ row \in PurchaseRow /\ row.preparation = purchase[q].preparation
          /\ row.key = purchase[q].key /\ row.status = "EXPIRED"
      BY <1>1 DEF PurchaseRow, PurchaseStatus
    <3>2. purchase'[q] = IF GroupExpires(q) THEN row ELSE purchase[q]
      BY <2>2
    <3>3. purchase[q] \in PurchaseRow /\ GroupExpires(q) => purchase[q].status = "PENDING_PAYMENT"
      BY DEF GroupExpires
    <3> HIDE DEF row
    <3>4. CASE GroupExpires(q)
      BY <1>1, <3>1, <3>2, <3>3, <3>4
    <3>5. CASE ~GroupExpires(q)
      BY <1>1, <3>2, <3>5
    <3> QED BY <3>4, <3>5
  <2>5. UNCHANGED <<cartVars, address, preparation, answered>>
    BY <2>1 DEF Sweep
  <2> QED BY <2>3, <2>4, <2>5 DEF PurchasesGoOn
<1> QED BY <1>4, <1>5, <1>6, <1>7, <1>8

-----------------------------------------------------------------------------
(* The invariant and what follows from it. *)

ShoppingInv == CheckoutInv /\ PaymentInv

LEMMA ShoppingStart == Init => ShoppingInv
<1> SUFFICES ASSUME Init PROVE ShoppingInv
  OBVIOUS
<1> DEFINE empty == [status |-> "NONE", preparation |-> Nothing, key |-> Nothing, due |-> FALSE]
<1>1. /\ purchase = [q \in Purchases |-> empty] /\ address = 1
      /\ preparation = [p \in Preparations |-> EmptyPreparation]
      /\ answered = [k \in Keys |-> Nothing]
      /\ order = [q \in Purchases |-> [s \in Stores |-> NoOrder]]
      /\ attempt = [y \in PayKeys |-> [status |-> "NONE", purchase |-> Nothing]]
  BY DEF Init, CheckoutInit
<1>2. empty \in PurchaseRow /\ empty.status = "NONE"
  BY DEF PurchaseRow, PurchaseStatus
<1>3. EmptyPreparation \in PreparationRow /\ EmptyPreparation.consumed = Nothing
      /\ EmptyPreparation.status = "NONE"
  <2>1. [s \in Stores |-> 0] \in Quantity
    BY CartAssumption DEF Quantity
  <2>2. [s \in Stores |-> 1] \in [Stores -> Nat \ {0}]
    OBVIOUS
  <2> QED BY <2>1, <2>2, CartAssumption, CheckoutAssumption
          DEF EmptyPreparation, PreparationRow, Kind
<1>4. CartTypeOK /\ \A c \in Carts : cart[c].status = "NONE"
  <2> DEFINE first == CHOOSE s \in Stores : TRUE
             lines == [t \in Stores |-> NoLine]
             row == [status |-> "NONE", owner |-> "NOBODY", revision |-> 0, lapsed |-> FALSE,
                     store |-> first, lines |-> lines]
  <2>1. first \in Stores
    BY CartAssumption
  <2>2. lines \in [Stores -> Line]
    BY CartAssumption DEF Line, NoLine
  <2>3. cart = [c \in Carts |-> row] /\ terms = [s \in Stores |-> 1]
    BY DEF Init, CartInit
  <2> HIDE DEF first, lines
  <2>4. row \in CartRow
    BY <2>1, <2>2, CartAssumption DEF CartRow, CartStatus, Owner
  <2> QED BY <2>3, <2>4 DEF CartTypeOK
<1> HIDE DEF empty
<1>5. Made = {} /\ Groups = {} /\ \A q \in Purchases : purchase[q].status = "NONE"
  BY <1>1, <1>2 DEF Made, Groups
<1>6. CheckoutTypeOK
  BY <1>1, <1>2, <1>3, <1>4, CheckoutAssumption DEF CheckoutTypeOK
<1>7. CheckoutInv
  BY <1>1, <1>3, <1>4, <1>5, <1>6 DEF CheckoutInv, ReadAsItWas, OnePurchasePerCart
<1>8. /\ Consistent(NoOrder) /\ NoOrder \in OrderType /\ NoOrder.holder = "NOBODY"
      /\ \A y \in PayKeys : attempt[y] \in AttemptRow /\ attempt[y].status = "NONE"
  BY <1>1 DEF Consistent, NoOrder, OrderType, OrderStatus, AttemptRow, AttemptStatus
<1>9. PaymentTypeOK
  BY <1>1, <1>2, <1>8 DEF PaymentTypeOK
<1>10. \A q \in Purchases : Settled(q)
  BY <1>1, <1>5, <1>8, PaymentAssumption DEF Settled, Unresolved, AttemptsOf
<1> QED BY <1>7, <1>8, <1>9, <1>10 DEF ShoppingInv, PaymentInv

LEMMA ShoppingSteps == ShoppingInv /\ [Next]_vars => ShoppingInv'
<1> SUFFICES ASSUME ShoppingInv, [Next]_vars PROVE ShoppingInv'
  OBVIOUS
<1>1. CheckoutInv /\ PaymentInv /\ CartTypeOK
  BY DEF ShoppingInv, CheckoutInv, CheckoutTypeOK
<1>2. CASE CartNext /\ UNCHANGED <<checkoutVars, attempt>>
  BY <1>1, <1>2, CartCommand, CartStepKeeps, PaymentFrame DEF ShoppingInv, checkoutVars
<1>3. CASE CheckoutNext /\ UNCHANGED attempt
  <2>1. CASE \E p \in Preparations :
               (\E kind \in Kind : BeginPrepare(p, kind)) \/ SavePreparation(p) \/ ExpirePreparation(p)
    <3>1. CheckoutInv'
      BY <1>1, <1>3, <2>1, PreparingSteps
    <3>2. UNCHANGED <<purchase, order>>
      BY <2>1 DEF BeginPrepare, SavePreparation, ExpirePreparation
    <3> QED BY <1>1, <1>3, <3>1, <3>2, PaymentFrame DEF ShoppingInv
  <2>2. CASE UpdateAddress \/ DeleteAddress
    <3>1. UNCHANGED <<purchase, order>>
      BY <2>2 DEF UpdateAddress, DeleteAddress
    <3> QED BY <1>1, <1>3, <2>2, <3>1, AddressSteps, PaymentFrame DEF ShoppingInv
  <2>3. CASE \E p \in Preparations, k \in Keys : RepeatOrder(p, k)
    <3>1. UNCHANGED <<purchase, order>>
      BY <2>3 DEF RepeatOrder
    <3> QED BY <1>1, <1>3, <2>3, <3>1, RepeatKeeps, PaymentFrame DEF ShoppingInv
  <2>4. CASE \E p \in Preparations, k \in Keys, q \in Purchases : CreateOrder(p, k, q) \/ CreateGroup(p, k, q)
    BY <1>1, <1>3, <2>4, BuyKeeps, BuySettles DEF ShoppingInv
  <2> QED BY <1>3, <2>1, <2>2, <2>3, <2>4 DEF CheckoutNext
<1>4. CASE \/ \E q \in Purchases, y \in PayKeys : StartPayment(q, y)
           \/ \E y \in PayKeys : ConfirmPayment(y) \/ FailPayment(y) \/ MovePaymentToReview(y)
           \/ \E q \in Purchases, s \in SoloStores :
                SoloHold(q, s) \/ SoloPay(q, s) \/ SoloFail(q, s) \/ SoloReview(q, s)
           \/ \E q \in Purchases : PassDeadline(q)
           \/ \E rows \in SUBSET (Purchases \X Stores) : Sweep(rows)
  <2>1. CheckoutInv'
    BY <1>1, <1>4, PaymentsGoOn, PaymentKeeps
  <2>2. PaymentInv'
    BY <1>1, <1>4, StartKeeps, SettleKeeps, SoloKeeps, DeadlineKeeps, SweepKeeps
  <2> QED BY <2>1, <2>2 DEF ShoppingInv
<1>5. CASE UNCHANGED vars
  <2>1. CartTypeOK' /\ CartsGoOn
    BY <1>1, <1>5, CartFrame DEF vars, cartVars, CartTypeOK, CartsGoOn
  <2> QED BY <1>1, <1>5, <2>1, CartStepKeeps, PaymentFrame DEF ShoppingInv, vars, checkoutVars
<1> QED BY <1>2, <1>3, <1>4, <1>5 DEF Next

LEMMA ShoppingInvariant == Spec => []ShoppingInv
BY ShoppingStart, ShoppingSteps, PTL DEF Spec

\* Carts, preparations, purchases, orders and attempts keep their types,
\* however many there are of each.
THEOREM ShoppingTypeCorrect == Spec => []TypeOK
<1>1. ShoppingInv => TypeOK
  BY DEF ShoppingInv, CheckoutInv, CheckoutTypeOK, PaymentInv, PaymentTypeOK, TypeOK
<1> QED BY <1>1, ShoppingInvariant, PTL

\* Whichever checkouts, preparations and keys race for it, a cart is bought once
\* and only a bought cart is converted, and a key names one purchase.
THEOREM CartsBoughtOnce == Spec => []OnePurchasePerCart
<1>1. ShoppingInv => OnePurchasePerCart
  BY DEF ShoppingInv, CheckoutInv
<1> QED BY <1>1, ShoppingInvariant, PTL

\* Orders and reservations agree through payments of groups and of single
\* orders, their failures and the sweep.
THEOREM ReservationsMatch == Spec => []ReservationMatchesOrder
<1>1. ShoppingInv => ReservationMatchesOrder
  <2> SUFFICES ASSUME ShoppingInv, NEW q \in Purchases, NEW s \in Stores
               PROVE  LET row == order[q][s] IN
                 /\ \A y \in PayKeys : row.holder = y <=> y \in Unresolved(q) /\ s \in ChildrenOf(q)
                 /\ row.reservation = CASE row.status = "NONE" -> "NONE"
                                        [] row.status = "PENDING_PAYMENT" -> "ACTIVE"
                                        [] row.status = "PAYMENT_REVIEW" -> "HELD_FOR_REVIEW"
                                        [] row.status = "PAID" -> "CONSUMED"
                                        [] row.status = "EXPIRED" -> "RELEASED"
                 /\ row.status \in {"NONE", "PAID", "EXPIRED"} => row.holder = "NOBODY"
                 /\ row.status = "PAYMENT_REVIEW" => row.holder # "NOBODY"
    BY DEF ReservationMatchesOrder
  <2>1. Settled(q)
    BY DEF ShoppingInv, PaymentInv
  <2>2. /\ Consistent(order[q][s])
        /\ \A y \in PayKeys : order[q][s].holder = y <=> y \in Unresolved(q) /\ s \in ChildrenOf(q)
    BY <2>1 DEF Settled
  <2>3. order[q][s].status \in OrderStatus
    BY <2>2 DEF Consistent, OrderType
  <2> QED BY <2>2, <2>3 DEF Consistent, OrderStatus
<1> QED BY <1>1, ShoppingInvariant, PTL

\* A group is paid, reviewed and expired as a whole, by one active attempt.
THEOREM GroupsAreWhole == Spec => []GroupIsWhole
<1>1. ShoppingInv => GroupIsWhole
  <2> SUFFICES ASSUME ShoppingInv, NEW q \in Groups PROVE WholeGroup(q)
    BY DEF GroupIsWhole, WholeGroup
  <2> QED BY DEF ShoppingInv, PaymentInv, Settled, Groups
<1> QED BY <1>1, ShoppingInvariant, PTL

\* A purchase is made of what the cart holds, at the terms and the address in
\* force, whatever happened to the carts since the buyer saw them.
THEOREM CartsBoughtAsTheyAre == Spec => BuysTheCartAsItIs
<1> DEFINE Bought(q) ==
      LET p == purchase'[q].preparation
          c == preparation[p].cart
      IN /\ cart[c].status = "ACTIVE"
         /\ \A s \in Stores : preparation[p].items[s] = cart[c].lines[s].quantity
         /\ \A s \in LinesOf(c) : order'[q][s].status = "PENDING_PAYMENT"
                                   /\ preparation[p].terms[s] = terms[s]
         /\ preparation[p].address = address /\ address # 0
<1>1. ASSUME ShoppingInv, [Next]_vars  PROVE \A q \in Made' \ Made : Bought(q)
  <2>1. CheckoutInv /\ PaymentInv
    BY <1>1 DEF ShoppingInv
  <2>2. ASSUME UNCHANGED purchase  PROVE Made' = Made
    BY <2>2 DEF Made
  <2>3. CASE CartNext /\ UNCHANGED <<checkoutVars, attempt>>
    BY <2>2, <2>3 DEF checkoutVars
  <2>4. CASE CheckoutNext /\ UNCHANGED attempt
    <3>1. CASE \E p \in Preparations, k \in Keys, q \in Purchases :
                 CreateOrder(p, k, q) \/ CreateGroup(p, k, q)
      <4>1. PICK p \in Preparations, k \in Keys, q \in Purchases :
              CreateOrder(p, k, q) \/ CreateGroup(p, k, q)
        BY <3>1
      <4>2. Buy(p, k, q) /\ Usable(p) /\ ReadAsItWas(p)
        BY <2>1, <4>1 DEF CreateOrder, CreateGroup, CheckoutInv
      <4> DEFINE made == [status |-> IF preparation[p].kind = "GROUP" THEN "PENDING_PAYMENT" ELSE "ORDER",
                          preparation |-> p, key |-> k, due |-> FALSE]
                 c == preparation[p].cart
      <4>3. /\ purchase' = [purchase EXCEPT ![q] = made] /\ order' = [order EXCEPT ![q] = OrdersFor(p)]
            /\ CartIsReviewed(p) /\ TermsInForce(p) /\ AddressInForce(p)
        BY <4>2 DEF Buy
      <4>4. made.preparation = p
        OBVIOUS
      <4> HIDE DEF made
      <4>5. /\ purchase'[q].preparation = p /\ order'[q] = OrdersFor(p)
            /\ \A r \in Purchases : r # q => purchase'[r] = purchase[r]
        BY <2>1, <4>3, <4>4 DEF PaymentInv, PaymentTypeOK
      <4>6. /\ cart[c].status = "ACTIVE" /\ \A s \in Stores : preparation[p].items[s] = cart[c].lines[s].quantity
            /\ preparation[p].address = address /\ address # 0
        BY <4>2, <4>3 DEF CartIsReviewed, CartOf, AddressInForce, ReadAsItWas, Usable
      <4>7. LinesOf(c) = StoresOf(p)
        BY <4>6 DEF LinesOf, StoresOf
      <4>8. \A s \in LinesOf(c) : order'[q][s].status = "PENDING_PAYMENT" /\ preparation[p].terms[s] = terms[s]
        BY <4>3, <4>5, <4>7 DEF OrdersFor, OrderRow, TermsInForce, StoresOf
      <4>9. Bought(q)
        BY <4>5, <4>6, <4>8
      <4>10. Made' \ Made \subseteq {q}
        BY <4>5 DEF Made
      <4> HIDE DEF Bought
      <4> QED BY <4>9, <4>10
    <3>2. CASE ~\E p \in Preparations, k \in Keys, q \in Purchases :
                 CreateOrder(p, k, q) \/ CreateGroup(p, k, q)
      <4>1. UNCHANGED purchase
        BY <2>4, <3>2 DEF CheckoutNext, BeginPrepare, SavePreparation, ExpirePreparation,
             UpdateAddress, DeleteAddress, RepeatOrder
      <4> QED BY <2>2, <4>1
    <3> QED BY <3>1, <3>2
  <2>5. CASE \/ \E q \in Purchases, y \in PayKeys : StartPayment(q, y)
             \/ \E y \in PayKeys : ConfirmPayment(y) \/ FailPayment(y) \/ MovePaymentToReview(y)
             \/ \E q \in Purchases, s \in SoloStores :
                  SoloHold(q, s) \/ SoloPay(q, s) \/ SoloFail(q, s) \/ SoloReview(q, s)
             \/ \E q \in Purchases : PassDeadline(q)
             \/ \E rows \in SUBSET (Purchases \X Stores) : Sweep(rows)
    <3>1. PurchasesGoOn
      BY <2>1, <2>5, PaymentsGoOn
    <3> QED BY <3>1 DEF PurchasesGoOn, Made
  <2>6. CASE UNCHANGED vars
    BY <2>2, <2>6 DEF vars, checkoutVars
  <2> QED BY <1>1, <2>3, <2>4, <2>5, <2>6 DEF Next
<1>2. ShoppingInv /\ [Next]_vars => [\A q \in Made' \ Made : Bought(q)]_vars
  BY <1>1
<1>3. Spec => [][\A q \in Made' \ Made : Bought(q)]_vars
  <2> HIDE DEF Bought
  <2> QED BY <1>2, ShoppingInvariant, PTL DEF Spec
<1> QED BY <1>3 DEF BuysTheCartAsItIs

\* All of it holds of the shopping the run composes.
THEOREM ShoppingIsCheckout == ShoppingSpec => Spec
<1>1. ShoppingInit => Init
  BY DEF ShoppingInit
<1>2. [ShoppingNext]_<<vars, commandVars>> => [Next]_vars
  BY DEF ShoppingNext
<1> QED BY <1>1, <1>2, PTL DEF ShoppingSpec, Spec

-----------------------------------------------------------------------------
(* The answers kept of the cart's commands. *)

CommandsTypeOK ==
  /\ commandAnswer \subseteq Answer /\ responseAnswer \subseteq Answer
  /\ asking \subseteq Asking
  /\ changed \in [CartKeys -> Seq(CartRequests)]

\* An answer of success, in either layer or still on its way, is of the one
\* change its key has made; a key that no answer of the repository mentions has
\* changed nothing.
CommandInv ==
  /\ CommandsTypeOK
  /\ \A k \in CartKeys : AnswersOf(k, commandAnswer) = {} => changed[k] = <<>>
  /\ \A k \in CartKeys, r \in CartRequests :
       Succeeded(k, r) \in commandAnswer \cup responseAnswer => changed[k] = <<r>>
  /\ \A q \in asking : q.step = "CHANGED" => changed[q.key] = <<q.request>>

\* A step that changes no cart and tells nobody anything.
QuietCommand ==
  \/ \E k \in CartKeys, r \in CartRequests, i \in Askers : AskFirst(i, k, r) \/ AskSecond(i, k, r)
  \/ \E q \in asking :
       \/ CheckFails(q) \/ ReplayCommand(q) \/ UndoCommand(q) \/ RecordCommandFailure(q)
       \/ PresentationFails(q) \/ AnswerFailure(q) \/ AskerGoes(q)

LEMMA Asked ==
  ASSUME CommandInv, NEW q \in asking, NEW step \in Step
  PROVE  /\ [q EXCEPT !.step = step] \in Asking
         /\ [q EXCEPT !.step = step].key = q.key /\ [q EXCEPT !.step = step].request = q.request
         /\ [q EXCEPT !.step = step].step = step
         /\ q.key \in CartKeys /\ q.request \in CartRequests
BY DEF CommandInv, CommandsTypeOK, Asking

\* How the requests in flight move.
LEMMA AskingMoves ==
  ASSUME CommandInv, NEW q \in asking,
         Goes(q, "UNDONE") \/ Goes(q, "FAILING") \/ Ends(q)
           \/ (Goes(q, "CHANGED") /\ changed'[q.key] = <<q.request>>),
         \A k \in CartKeys : changed[k] # <<>> => changed'[k] = changed[k]
  PROVE  /\ asking' \subseteq Asking
         /\ \A p \in asking' : p.step = "CHANGED" => changed'[p.key] = <<p.request>>
<1>1. /\ asking \subseteq Asking /\ changed \in [CartKeys -> Seq(CartRequests)]
      /\ \A p \in asking : p.step = "CHANGED" => changed[p.key] = <<p.request>>
  BY DEF CommandInv, CommandsTypeOK
<1>2. \A p \in asking : p.key \in CartKeys /\ p.request \in CartRequests
  BY <1>1 DEF Asking
<1>3. \A p \in asking : p.step = "CHANGED" => changed'[p.key] = <<p.request>>
  <2> TAKE p \in asking
  <2> HAVE p.step = "CHANGED"
  <2>1. changed[p.key] = <<p.request>>
    BY <1>1
  <2>2. <<p.request>> # <<>>
    OBVIOUS
  <2> QED BY <1>2, <2>1, <2>2
<1>4. CASE Ends(q)
  BY <1>1, <1>3, <1>4 DEF Ends
<1>5. ASSUME NEW step \in Step, Goes(q, step), step = "CHANGED" => changed'[q.key] = <<q.request>>
      PROVE  /\ asking' \subseteq Asking
             /\ \A p \in asking' : p.step = "CHANGED" => changed'[p.key] = <<p.request>>
  <2> DEFINE gone == [q EXCEPT !.step = step]
  <2>1. gone \in Asking /\ gone.key = q.key /\ gone.request = q.request /\ gone.step = step
    BY Asked
  <2>2. asking' = (asking \ {q}) \cup {gone}
    BY <1>5 DEF Goes
  <2> HIDE DEF gone
  <2> QED BY <1>1, <1>3, <1>5, <2>1, <2>2
<1> QED BY <1>4, <1>5 DEF Step

LEMMA QuietCommandKeeps ==
  ASSUME CommandInv, QuietCommand
  PROVE  CommandInv' /\ UNCHANGED <<changed, cartTold>>
<1>1. /\ asking \subseteq Asking /\ changed \in [CartKeys -> Seq(CartRequests)]
      /\ commandAnswer \subseteq Answer /\ responseAnswer \subseteq Answer
  BY DEF CommandInv, CommandsTypeOK
<1>2. \A q \in asking : q.key \in CartKeys /\ q.request \in CartRequests
  BY <1>1 DEF Asking
<1>3. UNCHANGED <<changed, cartTold>>
  BY DEF QuietCommand, AskFirst, AskSecond, CheckFails, ReplayCommand, UndoCommand,
     RecordCommandFailure, PresentationFails, AnswerFailure, AskerGoes
<1>4. \A k, r : Succeeded(k, r) # Refused(k, r) /\ Refused(k, r).success = FALSE
                /\ Succeeded(k, r).success = TRUE
  BY DEF Succeeded, Refused
<1>5. /\ asking' \subseteq Asking
      /\ \A p \in asking' : p.step = "CHANGED" => changed'[p.key] = <<p.request>>
  <2>1. CASE \E k \in CartKeys, r \in CartRequests, i \in Askers : AskFirst(i, k, r) \/ AskSecond(i, k, r)
    <3>1. PICK k \in CartKeys, r \in CartRequests, i \in Askers, v1 \in BOOLEAN :
            asking' = asking \cup
              {[id |-> i, key |-> k, request |-> r, first |-> v1, step |-> "CHECKING"]}
      BY <2>1 DEF AskFirst, AskSecond
    <3> QED BY <1>1, <1>3, <3>1 DEF CommandInv, Asking, Step
  <2>2. CASE \E q \in asking : ReplayCommand(q)
    <3>0. PICK q \in asking : ReplayCommand(q)
      BY <2>2
    <3>1. PICK a \in AnswersOf(q.key, commandAnswer) :
            a.request = q.request /\ IF a.success THEN Goes(q, "CHANGED") ELSE Fails(q)
      BY <3>0 DEF ReplayCommand
    <3>2. a \in Answer /\ a.key = q.key /\ a \in commandAnswer
      BY <1>1, <3>1 DEF AnswersOf
    <3>3. CASE a.success
      <4>1. a = Succeeded(q.key, q.request)
        BY <3>1, <3>2, <3>3 DEF Answer, Succeeded
      <4>2. changed[q.key] = <<q.request>>
        BY <1>2, <3>2, <4>1 DEF CommandInv
      <4> QED BY <1>3, <3>1, <3>3, <4>2, AskingMoves
    <3>4. CASE ~a.success
      BY <1>3, <3>1, <3>4, AskingMoves DEF Fails
    <3> QED BY <3>3, <3>4
  <2>3. CASE \E q \in asking :
               \/ CheckFails(q) \/ UndoCommand(q) \/ RecordCommandFailure(q)
               \/ PresentationFails(q) \/ AnswerFailure(q) \/ AskerGoes(q)
    <3>1. PICK q \in asking : Goes(q, "UNDONE") \/ Goes(q, "FAILING") \/ Ends(q)
      BY <2>3 DEF CheckFails, UndoCommand, RecordCommandFailure, PresentationFails,
         AnswerFailure, AskerGoes, Fails
    <3> QED BY <1>3, <3>1, AskingMoves
  <2> QED BY <2>1, <2>2, <2>3 DEF QuietCommand
<1>6. /\ commandAnswer' \subseteq Answer
      /\ \A k \in CartKeys : AnswersOf(k, commandAnswer)' = {} => AnswersOf(k, commandAnswer) = {}
      /\ \A k \in CartKeys, r \in CartRequests :
           Succeeded(k, r) \in commandAnswer' => Succeeded(k, r) \in commandAnswer
  <2>1. CASE UNCHANGED commandAnswer
    BY <1>1, <2>1 DEF AnswersOf
  <2>2. CASE \E q \in asking : commandAnswer' = commandAnswer \cup {Refused(q.key, q.request)}
    <3>1. PICK q \in asking : commandAnswer' = commandAnswer \cup {Refused(q.key, q.request)}
      BY <2>2
    <3>2. Refused(q.key, q.request) \in Answer /\ \A k, r : Succeeded(k, r) # Refused(q.key, q.request)
      BY <1>2 DEF Refused, Succeeded, Answer
    <3> QED BY <1>1, <3>1, <3>2 DEF AnswersOf
  <2> QED BY <2>1, <2>2 DEF QuietCommand, AskFirst, AskSecond, CheckFails, ReplayCommand, UndoCommand,
             RecordCommandFailure, PresentationFails, AnswerFailure, AskerGoes
<1>7. /\ responseAnswer' \subseteq Answer
      /\ \A k \in CartKeys, r \in CartRequests :
           Succeeded(k, r) \in responseAnswer' => Succeeded(k, r) \in responseAnswer
  <2>1. CASE UNCHANGED responseAnswer
    BY <1>1, <2>1
  <2>2. CASE \E q \in asking :
               responseAnswer' = (responseAnswer \ AnswersOf(q.key, responseAnswer)) \cup {Refused(q.key, q.request)}
    <3>1. PICK q \in asking :
            responseAnswer' = (responseAnswer \ AnswersOf(q.key, responseAnswer)) \cup {Refused(q.key, q.request)}
      BY <2>2
    <3>2. Refused(q.key, q.request) \in Answer /\ \A k, r : Succeeded(k, r) # Refused(q.key, q.request)
      BY <1>2 DEF Refused, Succeeded, Answer
    <3> QED BY <1>1, <3>1, <3>2
  <2> QED BY <2>1, <2>2 DEF QuietCommand, AskFirst, AskSecond, CheckFails, ReplayCommand, UndoCommand,
             RecordCommandFailure, PresentationFails, AnswerFailure, AskerGoes, Records
<1> QED BY <1>1, <1>3, <1>5, <1>6, <1>7 DEF CommandInv, CommandsTypeOK

\* The command that finds no answer is the first to change a cart with its key.
LEMMA RunCommandKeeps ==
  ASSUME CommandInv, NEW q \in asking, RunCommand(q)
  PROVE  /\ CommandInv'
         /\ changed[q.key] = <<>> /\ changed' = [changed EXCEPT ![q.key] = <<q.request>>]
         /\ UNCHANGED cartTold
<1>1. /\ asking \subseteq Asking /\ changed \in [CartKeys -> Seq(CartRequests)]
      /\ commandAnswer \subseteq Answer /\ responseAnswer \subseteq Answer
  BY DEF CommandInv, CommandsTypeOK
<1>2. q.key \in CartKeys /\ q.request \in CartRequests
  BY <1>1 DEF Asking
<1>3. changed[q.key] = <<>> /\ AnswersOf(q.key, commandAnswer) = {}
  BY <1>2 DEF RunCommand, CommandInv
<1>4. Append(<<>>, q.request) = <<q.request>>
  BY <1>2
<1>5. changed' = [changed EXCEPT ![q.key] = <<q.request>>]
  BY <1>3, <1>4 DEF RunCommand
<1>6. /\ changed'[q.key] = <<q.request>>
      /\ \A k \in CartKeys : k # q.key => changed'[k] = changed[k]
      /\ changed' \in [CartKeys -> Seq(CartRequests)]
  BY <1>1, <1>2, <1>5
<1>7. /\ commandAnswer' = commandAnswer \cup {Succeeded(q.key, q.request)}
      /\ UNCHANGED <<responseAnswer, cartTold>> /\ Goes(q, "CHANGED")
  BY DEF RunCommand
<1>8. asking' \subseteq Asking /\ \A p \in asking' : p.step = "CHANGED" => changed'[p.key] = <<p.request>>
  <2>1. \A k \in CartKeys : changed[k] # <<>> => changed'[k] = changed[k]
    BY <1>3, <1>6
  <2> QED BY <1>6, <1>7, <2>1, AskingMoves
<1>9. commandAnswer' \subseteq Answer
  <2>1. Succeeded(q.key, q.request) \in Answer
    BY <1>2 DEF Answer, Succeeded
  <2> QED BY <1>1, <1>7, <2>1
<1>10. \A k \in CartKeys : AnswersOf(k, commandAnswer)' = {} => changed'[k] = <<>>
  <2> TAKE k \in CartKeys
  <2> HAVE AnswersOf(k, commandAnswer)' = {}
  <2>1. Succeeded(q.key, q.request).key = q.key
    BY DEF Succeeded
  <2>2. k # q.key
    BY <1>7, <2>1 DEF AnswersOf
  <2>3. AnswersOf(k, commandAnswer) = {}
    BY <1>7 DEF AnswersOf
  <2> QED BY <1>6, <2>2, <2>3 DEF CommandInv
<1>11. \A k \in CartKeys, r \in CartRequests :
         Succeeded(k, r) \in (commandAnswer \cup responseAnswer)' => changed'[k] = <<r>>
  <2> TAKE k \in CartKeys, r \in CartRequests
  <2> HAVE Succeeded(k, r) \in (commandAnswer \cup responseAnswer)'
  <2>1. CASE Succeeded(k, r) = Succeeded(q.key, q.request)
    <3>1. k = q.key /\ r = q.request
      BY <2>1 DEF Succeeded
    <3> QED BY <1>6, <3>1
  <2>2. CASE Succeeded(k, r) \in commandAnswer \cup responseAnswer
    <3>1. changed[k] = <<r>>
      BY <2>2 DEF CommandInv
    <3>2. <<r>> # <<>>
      OBVIOUS
    <3>3. k # q.key
      BY <1>3, <3>1, <3>2
    <3> QED BY <1>6, <3>1, <3>3
  <2> QED BY <1>7, <2>1, <2>2
<1> QED BY <1>3, <1>5, <1>6, <1>7, <1>8, <1>9, <1>10, <1>11 DEF CommandInv, CommandsTypeOK

\* A success told by the first version comes from an answer of its own; it is of the
\* change that was made.
LEMMA ReplayFirstKeeps ==
  ASSUME CommandInv, NEW k \in CartKeys, NEW r \in CartRequests, ReplayFirst(k, r)
  PROVE  CommandInv' /\ changed[k] = <<r>> /\ UNCHANGED changed /\ Tells(k, r)
<1>1. UNCHANGED <<commandAnswer, responseAnswer, asking, changed>> /\ Tells(k, r)
  BY DEF ReplayFirst
<1>2. changed[k] = <<r>>
  BY DEF ReplayFirst, CommandInv
<1>3. CommandInv'
  BY <1>1 DEF CommandInv, CommandsTypeOK, AnswersOf
<1> QED BY <1>1, <1>2, <1>3

LEMMA AnswerSuccessKeeps ==
  ASSUME CommandInv, NEW q \in asking, AnswerSuccess(q)
  PROVE  CommandInv' /\ changed[q.key] = <<q.request>> /\ UNCHANGED changed /\ Tells(q.key, q.request)
<1>1. /\ asking \subseteq Asking /\ changed \in [CartKeys -> Seq(CartRequests)]
      /\ commandAnswer \subseteq Answer /\ responseAnswer \subseteq Answer
  BY DEF CommandInv, CommandsTypeOK
<1>2. q.key \in CartKeys /\ q.request \in CartRequests
  BY <1>1 DEF Asking
<1>3. /\ UNCHANGED <<commandAnswer, changed>> /\ Tells(q.key, q.request) /\ Ends(q)
      /\ changed[q.key] = <<q.request>>
  BY DEF AnswerSuccess, CommandInv
<1>4. asking' \subseteq Asking /\ \A p \in asking' : p.step = "CHANGED" => changed'[p.key] = <<p.request>>
  BY <1>3, AskingMoves
<1>5. \A a \in responseAnswer' : a \in responseAnswer \/ a = Succeeded(q.key, q.request)
  BY DEF AnswerSuccess, Records
<1>6. responseAnswer' \subseteq Answer
  <2>1. Succeeded(q.key, q.request) \in Answer
    BY <1>2 DEF Answer, Succeeded
  <2> QED BY <1>1, <1>5, <2>1
<1>7. \A k \in CartKeys, r \in CartRequests :
        Succeeded(k, r) \in (commandAnswer \cup responseAnswer)' => changed'[k] = <<r>>
  <2> TAKE k \in CartKeys, r \in CartRequests
  <2> HAVE Succeeded(k, r) \in (commandAnswer \cup responseAnswer)'
  <2>1. CASE Succeeded(k, r) = Succeeded(q.key, q.request)
    <3>1. k = q.key /\ r = q.request
      BY <2>1 DEF Succeeded
    <3> QED BY <1>3, <3>1
  <2>2. CASE Succeeded(k, r) \in commandAnswer \cup responseAnswer
    BY <1>3, <2>2 DEF CommandInv
  <2> QED BY <1>3, <1>5, <2>1, <2>2
<1>8. \A k \in CartKeys : AnswersOf(k, commandAnswer)' = {} => changed'[k] = <<>>
  BY <1>3 DEF CommandInv, AnswersOf
<1> QED BY <1>1, <1>3, <1>4, <1>6, <1>7, <1>8 DEF CommandInv, CommandsTypeOK

LEMMA CommandsBegin ==
  ShoppingInit => CommandInv /\ CommandsOnce!Init
BY DEF ShoppingInit, CommandInit, CommandInv, CommandsTypeOK, CommandsOnce!Init

LEMMA CommandStepKeeps ==
  ASSUME CommandInv, [ShoppingNext]_<<vars, commandVars>>
  PROVE  CommandInv' /\ [CommandsOnce!Next]_<<changed, cartTold>>
<1>1. CASE UNCHANGED commandVars
  BY <1>1 DEF commandVars, CommandInv, CommandsTypeOK, AnswersOf
<1>2. CASE QuietCommand
  BY <1>2, QuietCommandKeeps
<1>3. CASE \E q \in asking : RunCommand(q)
  <2>1. PICK q \in asking : RunCommand(q)
    BY <1>3
  <2>2. q.key \in CartKeys /\ q.request \in CartRequests
    BY DEF CommandInv, CommandsTypeOK, Asking
  <2>3. CommandsOnce!Run(q.key, q.request)
    BY <2>1, RunCommandKeeps DEF CommandsOnce!Run
  <2> QED BY <2>1, <2>2, <2>3, RunCommandKeeps DEF CommandsOnce!Next
<1>4. CASE \E k \in CartKeys, r \in CartRequests : ReplayFirst(k, r)
  <2>1. PICK k \in CartKeys, r \in CartRequests : ReplayFirst(k, r)
    BY <1>4
  <2>2. CommandsOnce!Tell(k, r)
    BY <2>1, ReplayFirstKeeps DEF CommandsOnce!Tell, Tells
  <2> QED BY <2>1, <2>2, ReplayFirstKeeps DEF CommandsOnce!Next
<1>5. CASE \E q \in asking : AnswerSuccess(q)
  <2>1. PICK q \in asking : AnswerSuccess(q)
    BY <1>5
  <2>2. q.key \in CartKeys /\ q.request \in CartRequests
    BY DEF CommandInv, CommandsTypeOK, Asking
  <2>3. CommandsOnce!Tell(q.key, q.request)
    BY <2>1, AnswerSuccessKeeps DEF CommandsOnce!Tell, Tells
  <2> QED BY <2>1, <2>2, <2>3, AnswerSuccessKeeps DEF CommandsOnce!Next
<1> QED BY <1>1, <1>2, <1>3, <1>4, <1>5
        DEF ShoppingNext, CommandNext, QuietCommand, vars, commandVars

(* A command of the cart takes effect once for its key at most, and a success is
   only told to a caller whose request took effect, although the first version of
   the API keeps answers of its own and writes them over one another
   (application-store.ts, cart.service.ts). *)
THEOREM CartCommandsImplementOnce == ShoppingSpec => CartCommandsRunOnce
<1>1. ShoppingInit => CommandInv /\ CommandsOnce!Init
  BY CommandsBegin
<1>2. CommandInv /\ [ShoppingNext]_<<vars, commandVars>>
        => CommandInv' /\ [CommandsOnce!Next]_<<changed, cartTold>>
  BY CommandStepKeeps
<1> QED BY <1>1, <1>2, PTL DEF ShoppingSpec, CartCommandsRunOnce, CommandsOnce!Spec
=============================================================================
