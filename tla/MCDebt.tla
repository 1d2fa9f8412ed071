------------------------------- MODULE MCDebt --------------------------------
(* A debt of one or two, two requests at a time, two senders of reminders. *)
EXTENDS Reminders

CONSTANTS c1, c2, s1, s2
==============================================================================
