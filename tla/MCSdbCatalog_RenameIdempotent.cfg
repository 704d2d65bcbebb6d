CONSTANTS
  s1 = s1
  s2 = s2
  a = a
  b = b
  Sessions <- MCSessions
  ClNames <- MCClNames
  MaxCalls = 1
  MaxFaults = 3
SPECIFICATION Spec
INVARIANTS
  RenameIdempotent
