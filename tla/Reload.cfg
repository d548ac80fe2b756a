\* Reloads by timer and endpoint, the swap of the client, its users and the health checker.
CONSTANTS
    Users = {u1, u2, Checker}
    Swapper = Swapper
    Closer = Closer
    Checker = Checker
    MaxClients = 4
    Goroutines = {g1, g2}
    MaxVersion = 3
    Bad = {2}
    Unbuildable = {1}
    Deployments = {d1}
    Period = 1
    AdminPeriods = {0, 2}
    MaxClock = 2
    Nil = Nil
    Replacements = 3
SPECIFICATION ReloadSpec
CHECK_DEADLOCK FALSE
INVARIANTS ReplacedIsClosed CurrentStaysOpen ReloadsAgree
PROPERTIES LastEditServed 
