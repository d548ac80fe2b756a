CONSTANTS
    Callers = {c1, c2, c3}
    RequestedCapacity = 1
    FailureThreshold = 1
    SuccessThreshold = 2
    HalfOpenMaxRequests = 2
    Burst = 1
SPECIFICATION FairManagerSpec
INVARIANTS Accounting ProbesBounded
PROPERTIES CallersProgress
