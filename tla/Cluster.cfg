SPECIFICATION Spec
CONSTANTS
  None = None
  c1 = c1
  c2 = c2
  n1 = n1
  n2 = n2
  x = x
  y = y
  Settings <- MCSettings
INVARIANTS CachesBounded ActiveAccounted  
PROPERTIES WindowsAgree
CHECK_DEADLOCK FALSE
