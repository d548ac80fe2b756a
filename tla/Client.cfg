CONSTANTS
    Requests = {r1, r2}
    Deployments = {d1, d2}
    Providers = {"p1", "p2"}
    ProviderOf <- TwoProviders
    Nil = Nil
    MaxConcurrent = 1
    Settings <- MCSettings
    r1 = r1
    r2 = r2
    d1 = d1
    d2 = d2
SPECIFICATION FairSpec
INVARIANTS ResourcesAccounted OutcomesReported
PROPERTIES EveryCallReturns
CHECK_DEADLOCK FALSE
