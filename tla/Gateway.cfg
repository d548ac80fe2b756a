SPECIFICATION Spec
CONSTANTS
  Requests = {"r1", "r2"}
  Admins = {"a1", "a2"}
  None = None
  Settings <- MCSettings
INVARIANTS   ToolsAccounted
 
CHECK_DEADLOCK FALSE
