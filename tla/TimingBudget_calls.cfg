\* Two threads, two labels and a ring of two; the counter wraps after 4 cycles;
\* one budget fits the table.
SPECIFICATION Spec
CONSTANTS
  c1 = c1
  c2 = c2
  l1 = l1
  l2 = l2
  Caller = {c1, c2}
  Label = {l1, l2}
  Size = 2
  Wrap = 4
  Hz = 1
  Mega = 1
  Budget = {0, 1}
  MaxBudgets = 1
  MaxJobs = 5
  Booting = 3
  MaxCycles = 5
INVARIANTS LatestSamples PrintComplete BudgetsFollowCalls
SYMMETRY Alike
CHECK_DEADLOCK FALSE
