------------------------------ MODULE BuyerCare ------------------------------
(***************************************************************************)
(* What happens around an order after it is paid: its fulfillment, refunds *)
(* and disputes with the views the worker keeps of them, the conversation  *)
(* between buyer and seller, and the pictures a buyer sends for a dispute  *)
(* or of a purchase.                                                       *)
(***************************************************************************)
EXTENDS AfterSaleViews, MessageSending, Uploads

CareInit == Init /\ MsgInit /\ MediaInit
CareNext ==
  \/ Next /\ UNCHANGED <<msgVars, mediaVars>>
  \/ MsgNext /\ UNCHANGED <<vars, mediaVars>>
  \/ MediaNext /\ UNCHANGED <<vars, msgVars>>
CareSpec == CareInit /\ [][CareNext]_<<vars, msgVars, mediaVars>>

\* Variables hold rows of the tables and requests in flight.
CareTypeOK == TypeOK /\ MsgTypeOK /\ MediaTypeOK
=============================================================================
