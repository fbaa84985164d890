SPECIFICATION AuthSpec
CONSTANTS
    Logins = {l1, l2}
    Accounts = {ana, ben}
    Names = {"<pending>", "ana"}
    Placeholder = "<pending>"
    Jtis = {t1, t2}
    Arrivals = {r1, r2}
    MaxEntries = 1
    FlowLife = 1
    PendingLife = 1
    TokenLife = 2
    MaxTime = 3
INVARIANTS RevokedIsRefused LogoutReachesSockets LoginsAreFinished
SYMMETRY Symmetry
CHECK_DEADLOCK FALSE
