SPECIFICATION SessionsSpec
CONSTANTS
    Handles <- MCTwoHandles
    Emails <- MCTwoEmails
    ILike <- MCTwoILike
    InitHandle = "root"
    InitEmail = "r@x"
    MaxPersonas = 2
    EmailTries = 1
    AccountRows = 2
    PersonaRows = 2
    ReservedRows = 0
    ChangeRows = 1
    LoginRows = 2
    MaxInFlight = 2
INVARIANTS SessionsTypeOK LoginKeepsPersona OnlyConfirmedAct
PROPERTIES ImplementsMembership DeletedFallsSilent
CHECK_DEADLOCK FALSE
