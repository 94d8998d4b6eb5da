CONSTANTS
  a = a
  b = b
  c = c
  d = d
  e = e
  Proc <- MCProc
  Earlier = earlier
  Port <- MCPort
  Bind <- MCBind
  Settings <- FirstStarts
SPECIFICATION Spec
CHECK_DEADLOCK FALSE
INVARIANTS
  SameCookie
