CONSTANTS
    Deployments = {d1, d2}
    Requests = {r1, r2}
    r1 = r1
    r2 = r2
    d1 = d1
    d2 = d2
    ProviderOf <- Providers
    CooldownPeriod = 1
    ImmediateCooldownOn429 = TRUE
    MinRequests = 2
    ThresholdNum = 1
    ThresholdDen = 2
    SingleMinRequests = 2
    WindowMinutes = 2
    MinuteTicks = 1
    Tokens = 1
    Configs <- MCConfigs
SPECIFICATION Spec
CHECK_DEADLOCK FALSE
INVARIANTS WindowExact CooldownJustified 
