----------------------------- MODULE MCNegotiation ----------------------------
(* An order of two lines, two requests at a time.                          *)
EXTENDS InboundMail, TLC

CONSTANTS c1, c2, rice, oil, salt

Change(field, line, value) == [field |-> field, line |-> line, value |-> value]

More    == <<Change("quantity", 1, 3), Change("delivery_date", None, 1)>>
Dearer  == <<Change("unit_price", 2, 2)>>
Swapped == <<Change("product_removed", 2, None), Change("product_added", None, salt)>>
Other   == <<Change("product_substitution", 2, salt), Change("shipping_method", None, 1)>>

MCOffers == {More, Dearer, Swapped, Other}

Offered(party, offer, revision) ==
  [NewDraft(party, offer) EXCEPT !.status = "pending", !.revision = revision]

Both(a, b) == <<Offered("owner", a, 1), Offered("supplier", b, 2)>>

Work(ops, start, n) == [ops |-> ops, proposals |-> start, requests |-> n, mails |-> <<>>]

MCWorkloads == {
  Work({"accept", "reject", "confirm", "cancel", "deadline", "receive"}, Both(More, Dearer), 4),
  Work({"accept", "confirm", "ship"}, Both(Swapped, Other), 3),
  Work({"save", "submit", "attach"}, <<>>, 4),
  Work({"save", "submit", "accept"}, <<NewDraft("supplier", More)>>, 3),
  Work({"regenerate", "revoke", "confirm", "cancel", "view", "lapse"}, <<>>, 4),
  Work({"message", "mark_read", "revoke"}, <<>>, 4),
  Work({"ship", "status", "details", "arrival", "upload"}, <<>>, 5),
  Work({"ship", "milestone"}, <<>>, 3),
  [Work({"mail", "confirm", "message"}, <<>>, 4) EXCEPT
     !.mails = <<"reply", "stranger", "malformed">>]}

Symmetry == Permutations(Callers)
===============================================================================
