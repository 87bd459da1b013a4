\* A schedule whose date does not exist: next_run_at becomes the zero time.
CONSTANTS
  Replicas = {r1}
  Workers = {w1}
  Jobs <- OneJob
  JobType <- OneType
  JobSchedule <- OneNever
  JobCondition <- OneOther
  Schedules <- MCSchedules
  Corrupt <- MCCorrupt
  CronNext <- MCCronNext
  StaleAge = 5
  Faults = {}
  ClockSkew = 0
  MaxTime = 3
  MaxExecs = 3
  MaxStarts = 1
SPECIFICATION Spec
INVARIANT ClaimAdvances
CHECK_DEADLOCK FALSE
