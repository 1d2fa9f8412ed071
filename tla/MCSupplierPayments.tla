-------------------------- MODULE MCSupplierPayments --------------------------
(* Two instructions, two requests at a time, a proforma and a second one.  *)
EXTENDS SupplierPayments, TLC

CONSTANTS c1, c2, bank, wallet

Symmetry == Permutations(Callers) \cup Permutations(Instructions)
===============================================================================
