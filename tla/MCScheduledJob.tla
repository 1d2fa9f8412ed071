--------------------------- MODULE MCScheduledJob ----------------------------
(* Three invocations of a job with two attempts.                           *)
EXTENDS ScheduledJob

CONSTANTS w1, w2, w3
==============================================================================
