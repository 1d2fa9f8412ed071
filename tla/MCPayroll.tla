------------------------------ MODULE MCPayroll -------------------------------
(* Two employees, two requests at a time, two periods.                     *)
EXTENDS Payroll, TLC

CONSTANTS c1, c2, amina, yusuf

Blank == [fixed |-> 0, rate |-> 0, percent |-> 0, threshold |-> 0, multiplier |-> 0, months |-> 1]

Hourly  == [model |-> "HOURLY", rate |-> 2] @@ Blank
Percent == [model |-> "PERCENTAGE", percent |-> 1] @@ Blank
Mixed   == [model |-> "FIXED_PLUS_PERCENTAGE", fixed |-> 1, percent |-> 3] @@ Blank

MCStructures == {Hourly, Percent, Mixed}

Work(ops, start, n) == [ops |-> ops, start |-> start, requests |-> n]

MCWorkloads == {
  Work({"compensate", "generate"}, {Hourly, None}, 3),
  Work({"attend", "self", "correct", "generate"}, {Hourly}, 3),
  Work({"generate", "attribute", "refund", "pay"}, {Percent, Mixed}, 3),
  Work({"generate", "bulk", "pay", "reverse", "adjust"}, {Percent}, 4)}

MCDeltas == {-2, 1}

Symmetry == Permutations(Callers) \cup Permutations(Employees)
===============================================================================
