---------------------------- MODULE MCIdempotency ----------------------------
(* One key claimed and completed in one transaction, one of a split        *)
(* endpoint.                                                               *)
EXTENDS Idempotency

CONSTANTS r1, r2, k1, k2, p1, p2
==============================================================================
