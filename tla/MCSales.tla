------------------------------- MODULE MCSales -------------------------------
(* Small instances of Sales: clients send every version they may have seen.*)
EXTENDS Sales, TLC

CONSTANTS r1, r2, r3, ann, bob, l1, l2

Versions == 0..2

Voids == [kind: {"void"}, allowed: BOOLEAN, version: Versions]

Refunds(returns) ==
  {a \in [kind: {"refund"}, version: Versions, returned: returns, restockable: returns \cup {Nothing}] :
     \A l \in Lines : a.restockable[l] <= a.returned[l]}

(* Two units of one line and one of another.                               *)
TwoLinesSold    == (l1 :> 2 @@ l2 :> 1)
TwoLinesAmounts == (l1 :> 10 @@ l2 :> 3)
TwoLinesOpening == (l1 :> 2 @@ l2 :> 3)
TwoLinesReturns == {(l1 :> 1 @@ l2 :> 0), (l1 :> 2 @@ l2 :> 0), (l1 :> 0 @@ l2 :> 1), (l1 :> 1 @@ l2 :> 1)}
TwoLinesAsks    == Voids \cup Refunds(TwoLinesReturns) \cup [kind: {"attribute"}, version: {0}, seller: {bob}]
==============================================================================
