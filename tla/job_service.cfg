\* Two requests overlap with each other and with a replica that may die and whose
\* statements on jobs may fail.
CONSTANTS
  Replicas = {r1}
  Workers = {w1}
  Jobs <- MCJobs
  JobType <- MCTypes
  JobSchedule <- MCSchedule
  JobCondition <- MCCondition
  Schedules <- MCSchedules
  Corrupt <- MCCorrupt
  CronNext <- MCCronNext
  StaleAge = 0
  Faults = {"crash", "claim", "writeback"}
  ClockSkew = 0
  MaxTime = 1
  MaxExecs = 1
  MaxStarts = 1
  Clients = {c1, c2}
  NewConditions = {}
SPECIFICATION ServiceFairSpec
INVARIANTS ServiceInv ActiveIsRunnable ExecutionsFollowJobs OnlyActiveClaimed
PROPERTIES DeletedForGood RestHolds LedgerSpec RequestsEnd
\* Run returns and the job is deleted: nothing is left to do.
CHECK_DEADLOCK FALSE
