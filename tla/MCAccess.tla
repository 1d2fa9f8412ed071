------------------------------ MODULE MCAccess -------------------------------
(* Two requests at a time; a device; a limiter of three logins a window.   *)
EXTENDS Access, TLC

CONSTANTS c1, c2, old, new, phone

Work(account, ops, requests) ==
  [account |-> account, passwords |-> {old}, ops |-> ops, requests |-> requests,
   otp |-> FALSE, lapses |-> FALSE, limited |-> FALSE]

With(w, field) == [w EXCEPT ![field] = TRUE]

MCWorkloads == {
  With(Work(FALSE, {"signup", "invite", "accept", "email"}, 7), "lapses"),
  Work(FALSE, {"signup", "google", "refresh"}, 5),
  With(Work(TRUE, {"login", "new_device_login", "refresh", "logout"}, 5), "otp"),
  With(Work(TRUE, {"login", "refresh", "logout"}, 5), "lapses"),
  Work(TRUE, {"login", "refresh", "logout_all"}, 5),
  With(Work(TRUE, {"login", "refresh", "reset"}, 5), "lapses"),
  With(Work(TRUE, {"login"}, 6), "limited"),
  With(Work(FALSE, {"login"}, 6), "limited")}

Symmetry == Permutations(Callers)
==============================================================================
