\* A job is paused while an execution of it runs.
CONSTANTS
  Replicas = {r1}
  Workers = {w1}
  Jobs <- MCJobs
  JobType <- MCTypes
  JobSchedule <- MCSchedule
  JobCondition <- MCCondition
  Schedules <- MCSchedules
  Corrupt <- MCCorrupt
  CronNext <- MCCronNext
  StaleAge = 0
  Faults = {}
  ClockSkew = 0
  MaxTime = 2
  MaxExecs = 1
  MaxStarts = 1
  Clients = {c1}
  NewConditions = {}
SPECIFICATION ServiceSpec
PROPERTY PauseHolds
CHECK_DEADLOCK FALSE
