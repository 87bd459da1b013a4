\* Two replicas, each started once at any step and killed at any step; their claims
\* overlap, and their clocks are up to a minute ahead of or behind the database's.
CONSTANTS
  Replicas = {r1, r2}
  Workers = {w1}
  Jobs <- MCJobs
  JobType <- MCCommands
  JobSchedule <- MCStaggered
  JobCondition <- MCFailureOther
  Schedules <- MCSchedules
  Corrupt <- MCCorrupt
  CronNext <- MCCronNext
  StaleAge = 0
  Faults = {"crash"}
  ClockSkew = 1
  MaxTime = 3
  MaxExecs = 2
  MaxStarts = 1
SYMMETRY ReplicaSymmetry
SPECIFICATION Spec
INVARIANTS SafetyInv AtMostOneHolder ClaimReadsStayCurrent NotifiedOnlyIfWanted 
PROPERTIES OutcomeIsFinal LedgerSpec
\* Run returns after SIGTERM and nobody starts it again.
CHECK_DEADLOCK FALSE
