-------------------------- MODULE MCReceiptDelivery --------------------------
(* Two deliveries of one receipt, the second of which may be slow.         *)
EXTENDS ReceiptDelivery

CONSTANTS r1, r2, k1, k2, p1
==============================================================================
