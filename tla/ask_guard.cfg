SPECIFICATION ServerSpec
CONSTANTS
  Presser = {a, b}
  Query = {series, metrics}
  Orientation = series
  Number = {n}
  MaxTurns = 1
  QueryBudget = 1
  MaxCalls = 1
  Nobody = Nobody
PROPERTIES GuardBoundsThePress
