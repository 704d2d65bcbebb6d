CONSTANTS
  ReqIsos <- MCReqIsos
  SdbDefaultIso <- MCSdbDefaultIso
  MaxNetFaults = 3
  MaxTxns = 2
  MaxStmts = 2
  Passwords <- MCPasswords
  ClusterPassword <- MCClusterPassword
  MaxPwdUpdates = 1

SPECIFICATION Spec
INVARIANT TypeOK
INVARIANT TxFlagMatchesServer
INVARIANT TxWritesStayInTx
INVARIANT SessionAttrsApplied
INVARIANT NestingBounded
