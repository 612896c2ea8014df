SPECIFICATION SessionsSpec
CONSTANTS
    Handles <- MCTwoHandles
    Emails <- MCTwoEmails
    ILike <- MCTwoILike
    InitHandle = "root"
    InitEmail = "r@x"
    MaxPersonas = 2
    EmailTries = 1
    AccountRows = 2
    PersonaRows = 3
    ReservedRows = 0
    ChangeRows = 0
    LoginRows = 2
    MaxInFlight = 1
PROPERTIES LastPersonaKept SomeoneToActAs
CHECK_DEADLOCK FALSE
