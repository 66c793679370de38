-------------------------- MODULE MCProductEditing --------------------------
(***************************************************************************)
(* Both ways a seller's correction of stock meets the sale of it: orders   *)
(* that compete for a unit (DirectPayment) and the product editor.  They   *)
(* share no state here, so each is explored with the other at rest.        *)
(***************************************************************************)
EXTENDS MCDirectPayment, ProductEditing

CONSTANTS
  RevisionBound, StockBound,  \* changes of one product and of its stock
  ElsewhereBound              \* the revision others write up to

Bounded == product.revision <= RevisionBound /\ product.stock <= StockBound

\* What others write while the editor is closed it will load anyway.
OthersWrite == product' # product /\ UNCHANGED <<answers, call, late>>
EarlyOthers == OthersWrite => editor.step # "AWAY" /\ product'.revision <= ElsewhereBound

EditingAtRest == EditingInit /\ editor = Away
OrdersAtRest == Init /\ \A v \in Variants : onHand[v] = 1

OneMoves ==
  \/ EditingAtRest /\ Next /\ UNCHANGED editingVars
  \/ OrdersAtRest /\ EditingNext /\ UNCHANGED vars
OneMovesInit == Init /\ EditingInit
OneMovesSpec == OneMovesInit /\ [][OneMoves]_<<vars, editingVars>>
=============================================================================
