SPECIFICATION Spec
CONSTANTS
  none = none
  Keys = {k}
  InOrder = TRUE
  MaxChanges = 2
  Budgets <- FewBudgets
  Levels = {0, 160, 450}
  Total = 1600
  Margin = 35
  Override = none
  AtFirst = {"qwen2.5:0.5b"}
  Callers = {c1, c2}
  Notes = {n}
  Scans = {s}
  MaxMemory = 2
  MaxOutages = 1
  Urls = {u1, u2}
  FirstUrl = u1
  Quotas <- FewQuotas
  DemoNotes <- TwoNotes
  MaxInstalls = 3
  MaxPeople = 1
  MaxRefused = 1
  MaxCrashes = 1
  Rows = {1, 2, 3}
  Urgent = {1, 3}
  Limit = 1
  Overfetch = 2
  MaxEvents = 1
 
INVARIANT ModelIsReady
 
INVARIANT PagesAreComplete
 
 
CHECK_DEADLOCK FALSE
