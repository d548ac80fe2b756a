\* Budget resets, rotation, and concurrent management requests.
CONSTANT Settings <- MCSettings
SPECIFICATION FairSpec
CHECK_DEADLOCK FALSE
INVARIANTS KeysAgree
PROPERTY DueIsReset
