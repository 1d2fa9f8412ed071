------------------------------ MODULE MCExpenses -----------------------------
(* Two requests or sweeps at a time; a week and a month of two days.       *)
EXTENDS RecurringExpenses, TLC

CONSTANTS c1, c2

NewSchedule(frequency, interval, mode, end) ==
  [frequency |-> frequency, interval |-> interval, mode |-> mode,
   type |-> "fixed", configured |-> 1, start |-> 0, end |-> end,
   confirmed |-> frequency = "daily", next |-> None, last |-> None, active |-> TRUE]

ToVariable == [type |-> "variable", configured |-> None]
ToPosting  == [mode |-> "auto_post"]
Off        == [active |-> FALSE]

MCAmendments == {ToVariable, ToPosting, Off}

Work(ops, schedules, requests, ticks, days) ==
  [ops |-> ops, schedules |-> schedules, requests |-> requests,
   expenses |-> 1, sweeps |-> ticks, days |-> days]

Weekly(mode)  == NewSchedule("weekly", 1, mode, None)
Daily(mode)   == NewSchedule("daily", 1, mode, 2)
Monthly(mode) == NewSchedule("monthly", 1, mode, None)

MCWorkloads == {
  Work({"update", "annotate", "approve", "reject", "pay", "correct"}, {None}, 5, 0, 0),
  Work({"update", "archive", "restore", "attach", "detach", "approve"}, {None}, 5, 0, 0),
  Work({"update", "approve", "pay"}, {Weekly("auto_post")}, 3, 1, 2),
  Work({"amend"}, {Weekly("auto_draft")}, 2, 2, 2),
  Work({}, {Weekly("auto_post")}, 0, 3, 4),
  Work({}, {Daily("auto_post"), Monthly("auto_draft")}, 0, 3, 2),
  Work({}, {NewSchedule("weekly", 2, "auto_draft", None)}, 0, 2, 5)}

Symmetry == Permutations(Callers)
==============================================================================
