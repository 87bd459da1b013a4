\* Pages are read while jobs and executions come and go; any statement may fail.
CONSTANTS
  Jobs = {a, b}
  Limit = 1
  Faults = {"read"}
  MaxChannels = 2
  MaxEntries = 2
SYMMETRY JobSymmetry
SPECIFICATION DashboardSpec
INVARIANTS DashboardInv StatsFit WalkMissesLittle
\* When an answer is complete nobody asks again.
CHECK_DEADLOCK FALSE
