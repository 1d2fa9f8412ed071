--------------------------- MODULE MCPurchaseOrders ---------------------------
(* Two lines, two requests at a time; deliveries of one unit of a line, or *)
(* of all; orders of one unit of each line, or two of the first.           *)
EXTENDS PurchaseOrders

CONSTANTS c1, c2, a, b

MCOrders == {[l \in Lines |-> 1], [l \in Lines |-> IF l = a THEN 2 ELSE 1]}
MCDeliveries == {[l \in Lines |-> IF l = a THEN 1 ELSE 0],
                 [l \in Lines |-> IF l = b THEN 1 ELSE 0], [l \in Lines |-> 1]}
===============================================================================
