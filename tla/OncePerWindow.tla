---------------------------- MODULE OncePerWindow ----------------------------
(***************************************************************************)
(* What the idempotency layer promises its callers, without rows, locks or *)
(* transactions: an operation asked for under a key is performed at most   *)
(* once per window, and whoever is told a result is told the result of an  *)
(* operation that was performed for the same key and the same payload.     *)
(* Module Idempotency implements it.                                       *)
(***************************************************************************)
EXTENDS Integers

CONSTANTS Requests, Keys, Payloads, None, Window, MaxTime

VARIABLES ask,    \* what every request asks for: its key and its payload
          done,   \* the operations performed
          told    \* told[r]: the request whose result r was given, or None

abstractVars == <<ask, done, told>>

Question == [key: Keys, payload: Payloads]

Init == /\ ask \in [Requests -> Question]
        /\ done = {}
        /\ told = [r \in Requests |-> None]

(* r performs its operation at time t under a key it called at c and won   *)
(* at w: after any earlier operation under that key took effect, and more  *)
(* than a window after it was called.                                      *)
Perform(r, c, w, t) ==
  /\ \A e \in done : e.key = ask[r].key => w >= e.at /\ w - e.called > Window
  /\ done' = done \cup {[req |-> r, key |-> ask[r].key, payload |-> ask[r].payload,
                         called |-> c, won |-> w, at |-> t]}
  /\ UNCHANGED <<ask, told>>

(* r is given the result of an operation like the one it asked for.        *)
Tell(r, e) ==
  /\ e \in done
  /\ e.key = ask[r].key
  /\ e.payload = ask[r].payload
  /\ told' = [told EXCEPT ![r] = e.req]
  /\ UNCHANGED <<ask, done>>

Next == \E r \in Requests :
          \/ \E c, w, t \in 0..MaxTime : Perform(r, c, w, t)
          \/ \E e \in done : Tell(r, e)

Spec == Init /\ [][Next]_abstractVars
==============================================================================
