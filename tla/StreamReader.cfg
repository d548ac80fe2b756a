CONSTANTS
    Deployments = {d1, d2}
    NoDeployment = NoDeployment
    Settings <- MCSettings
SPECIFICATION FairSpec
INVARIANTS DeliveredInOrder EverythingReleased 
PROPERTIES RecvReturns
