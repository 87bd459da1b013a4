\* SIGTERM between the saturation timeout and markFailed.
CONSTANTS
  Replicas = {r1}
  Workers = {w1}
  Jobs <- MCJobs
  JobType <- MCTypes
  JobSchedule <- MCMinutely
  JobCondition <- MCOtherAlways
  Schedules <- MCSchedules
  Corrupt <- MCCorrupt
  CronNext <- MCCronNext
  StaleAge = 5
  Faults = {}
  ClockSkew = 0
  MaxTime = 3
  MaxExecs = 4
  MaxStarts = 1
SPECIFICATION Spec
PROPERTY EveryClaimGetsOutcome
CHECK_DEADLOCK FALSE
