CONSTANTS
  PageSizes <- MCPageSizes
  PageCounts <- MCPageCounts
  Amounts <- MCAmounts
  MaxDocs = 3
SPECIFICATION Spec
INVARIANTS
  TypeOK
  StatsMatchSpec
