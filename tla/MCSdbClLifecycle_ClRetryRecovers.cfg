CONSTANTS
  s1 = s1
  s2 = s2
  i1 = i1
  k1 = k1
  NoIndex = NoIndex
  Sessions <- MCSessions
  IndexNames <- MCIndexNames
  Keys <- MCKeys
  MaxCalls = 1
  MaxFaults = 1
SPECIFICATION Spec
INVARIANT
  ClRetryRecovers
