SPECIFICATION ReadersSpec
CONSTANTS
    Accounts <- MCAccounts
    Emails <- MCEmails
    Passwords = {"p", "q"}
    ILike <- MCILike
    FirstEmail <- MCFirstEmail
    FirstPassword = "p"
    Codes = 2
INVARIANTS TypeOK AppliedInOrder AddressProven SubscribedByMail CodeKeepsPurpose
PROPERTIES LinkTakesEffect
