\* Two clients at once; tokens at, just above and far above the limits.
CONSTANTS
    Clients = {c1, c2}
    Lengths = {254, 255, 600}
    Accounts = {254, 255}
SPECIFICATION Spec
INVARIANTS
    TypeOK
    ShortTokenLogsInAgain
