CONSTANTS
  Slugs = {e1, e2}
  Offset <- MCOffset
  Forms <- MCForms
  Queries <- MCQueries
  Pages <- MCPages
  DayLen = 2
  MaxNow = 15
  Step = 3
  TxTries = 2
SPECIFICATION Spec
INVARIANTS TypeOK ShowsOccurrence FindsWhatIsAsked ListedWerePublic
PROPERTIES SavedAsShown
