---------------------------- MODULE MCBranchStock ----------------------------
(* A branch with two products in stock, around their alert levels and      *)
(* taken in both orders, and one that has no row yet.                      *)
EXTENDS BranchStock, TLC

CONSTANTS j1, j2, cola, rice, salt

Move(p, n) == [product |-> p, amount |-> n]
Plan(kind, lines) == [kind |-> kind, lines |-> lines]

MCPlans ==
  {Plan("sell", <<Move(cola, 1), Move(rice, 1)>>), Plan("sell", <<Move(rice, 1), Move(cola, 2)>>),
   Plan("sell", <<Move(salt, 1)>>),
   Plan("restore", <<Move(cola, 2), Move(rice, 1)>>),
   Plan("decrease", <<Move(cola, 2)>>),
   Plan("increase", <<Move(salt, 2)>>)}

MCOpening == (cola :> 2 @@ rice :> 2 @@ salt :> None)

MCOpeningLevels ==
  {[p \in Products |-> 1], (cola :> 1 @@ rice :> NoLevel @@ salt :> NoLevel)}
==============================================================================
