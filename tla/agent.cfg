SPECIFICATION FairSpec
CONSTANTS
  Query = {q1, q2, qx}
  Allowed = {q1, q2}
  Opening = {q1}
  Thread = {t1, t2}
  QueryBudget = 1
  MaxTurns = 2
  MaxCalls = 1
  MaxRuns = 2
  None = None
INVARIANTS BudgetKept StoredTrailIsRuns CitationsHold
PROPERTIES RunEnds ResultsAreAudited
CHECK_DEADLOCK FALSE
