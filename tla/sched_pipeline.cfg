\* One replica, one worker, channel of two, LIMIT 2: saturation and SIGTERM.  One of the
\* three jobs has a schedule that does not parse and keeps its place in the LIMIT.
CONSTANTS
  Replicas = {r1}
  Workers = {w1}
  Jobs <- ThreeJobs
  JobType <- ThreeTypes
  JobSchedule <- ThreeMixed
  JobCondition <- ThreeConditions
  Schedules <- MCSchedules
  Corrupt <- MCCorrupt
  CronNext <- MCCronNext
  StaleAge = 2
  Faults = {}
  ClockSkew = 0
  MaxTime = 3
  MaxExecs = 4
  MaxStarts = 1
SPECIFICATION FairSpec
INVARIANTS NothingHeldAfterDrain NotifiedIffWanted
PROPERTIES NeverDropped DueIsClaimed
\* Run returns after SIGTERM and nobody starts it again.
CHECK_DEADLOCK FALSE
