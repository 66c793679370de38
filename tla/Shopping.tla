------------------------------ MODULE Shopping ------------------------------
(***************************************************************************)
(* From the cart to the paid purchase: the carts, checkout and payment of  *)
(* groups, and the answers kept of the cart's commands.                    *)
(***************************************************************************)
EXTENDS PurchaseGroup, CartCommands

ShoppingInit == Init /\ CommandInit
ShoppingNext ==
  \/ Next /\ UNCHANGED commandVars
  \/ CommandNext /\ UNCHANGED vars
ShoppingSpec == ShoppingInit /\ [][ShoppingNext]_<<vars, commandVars>>
=============================================================================
