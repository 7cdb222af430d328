\* One client and a token that the edit box returns whole.
CONSTANTS
    Clients = {c1}
    Lengths = {254, 255}
    Accounts = {254, 255}
SPECIFICATION Spec
INVARIANTS
    StoredTokenLogsInAgain
