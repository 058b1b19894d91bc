SPECIFICATION FairSpec
CONSTANTS
  Presser = {a, b}
  Query = {series, metrics}
  Orientation = series
  Number = {n}
  MaxTurns = 2
  QueryBudget = 2
  MaxCalls = 2
  Nobody = Nobody
INVARIANTS OneQuestion FiguresAreBacked QuestionIsBounded
PROPERTIES AskIsAnswered
