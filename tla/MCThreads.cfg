CONSTANTS
  Personas = {1, 2}
  Admins = {2}
  InProgress = 2
  MaxPosts = 3
  MaxLog = 2
  MaxRequests = 3
  TxTries = 2
  Connections = 2
SPECIFICATION Spec
INVARIANTS TypeOK NumberedWithoutGaps AttemptsAgree
PROPERTIES ImplementsForum RequestsEnd
CHECK_DEADLOCK FALSE
