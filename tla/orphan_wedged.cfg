\* A crash, and a restart before the row of the execution is stale.
CONSTANTS
  Replicas = {r1}
  Workers = {w1}
  Jobs <- OneJob
  JobType <- OneType
  JobSchedule <- OneMinutely
  JobCondition <- OneOther
  Schedules <- MCSchedules
  Corrupt <- MCCorrupt
  CronNext <- MCCronNext
  StaleAge = 1
  Faults = {"crash"}
  ClockSkew = 0
  MaxTime = 5
  MaxExecs = 1
  MaxStarts = 2
SPECIFICATION FairSpec
PROPERTY OrphansAreRecovered
CHECK_DEADLOCK FALSE
