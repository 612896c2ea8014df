SPECIFICATION Spec
CONSTANTS
    Personas = {"p", "q", "r"}
    Accounts = {"a", "b"}
    AccountOf <- MCAccountOf
    Admins = {"r"}
    Resources = {"x", "y"}
    KindOf <- MCKindOf
    Elsewhere = {"profile"}
    Tokens = {"t"}
    Kinds = {"detail", "listing", "own", "all", "api"}
    Privacies = {"public", "private"}
    MaxPages = 1
INVARIANTS
    FilesFollowPages
    PrivateFilesStay
    ShownWerePermitted
