-------------------------------- MODULE Sums ---------------------------------
(* Sums of a function over a finite set, as the modules add up money.      *)
EXTENDS Integers, FiniteSetsExt

Sum(f, S) == MapThenSumSet(LAMBDA x : f[x], S)
==============================================================================
