SPECIFICATION Spec
CONSTANTS
    Handles <- MCHandles
    Emails <- MCEmails
    ILike <- MCILike
    InitHandle = "root"
    InitEmail = "r@x"
    MaxPersonas = 2
    EmailTries = 1
    AccountRows = 2
    PersonaRows = 2
    ReservedRows = 1
    ChangeRows = 1
INVARIANTS TypeOK DefaultSound
PROPERTIES  ReservationKept ClashOnlyByConfirming SendingEnds
CHECK_DEADLOCK FALSE
