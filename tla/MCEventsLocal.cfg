CONSTANTS
  Slugs = {e1, e2}
  Offset <- MCOffset
  Forms <- MCLocalForms
  Queries <- MCQueries
  Pages <- MCPages
  DayLen = 2
  MaxNow = 18
  Step = 3
  TxTries = 2
SPECIFICATION Spec
INVARIANT LocalTimesShifted
