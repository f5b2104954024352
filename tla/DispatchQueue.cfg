SPECIFICATION FairSpec
CONSTANTS
  c1 = c1
  c2 = c2
  c3 = c3
  Callers <- MCCallers
  Results = {0}
  Unset = 1
  WriteFailures = 1
INVARIANTS ItemsAreSound NoLostWakeup
PROPERTIES CallsReturn ImplementsRpc
