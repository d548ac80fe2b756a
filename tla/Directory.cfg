\* Handlers, synchronisation, invitations, charges and jobs over both stores.
CONSTANTS
    None = None
    Error = Error
    Teams = {"t1", "t2"}
    Users = {"u1"}
    Orgs = {"o1"}
    Budgets = {"b1"}
    Links = {"l1"}
    Keys = {"k1", "k2"}
    Day = 1
    Settings <- MCSettings
SPECIFICATION Spec
CHECK_DEADLOCK FALSE
INVARIANTS SerialUpdatesAreExact UsesBounded  ResetsBounded
    SessionsSound 
