SPECIFICATION Spec
CONSTANTS
    Handles <- MCTwoHandles
    Emails <- MCEmails
    ILike <- MCExact
    InitHandle = "root"
    InitEmail = "r@x"
    MaxPersonas = 2
    EmailTries = 1
    AccountRows = 2
    PersonaRows = 2
    ReservedRows = 0
    ChangeRows = 1
INVARIANTS FirstAccountCreated
CHECK_DEADLOCK FALSE
