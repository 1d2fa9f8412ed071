------------------------------ MODULE NoValue -------------------------------
(* The absence of a row or of a value: NULL in a table, undefined in a      *)
(* request. Each component assumes what it takes it to differ from.         *)
CONSTANT None
==============================================================================
