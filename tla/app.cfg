\* One process that dies and comes back: every database statement may fail, the
\* server may fail at any moment, a request may outlast the shutdown.
CONSTANTS
  Replicas = {r1}
  Workers = {w1}
  Jobs <- MCJobs
  JobType <- MCTypes
  JobSchedule <- MCMinutely
  JobCondition <- MCSuccessMalformed
  Schedules <- MCSchedules
  Corrupt <- MCCorrupt
  CronNext <- MCCronNext
  StaleAge = 0
  Faults = {"recover","claim","commit","mark","save","writeback","crash"}
  ClockSkew = 0
  MaxTime = 2
  MaxExecs = 2
  MaxStarts = 2
  AppFaults = {"connect", "serve"}
  MaxRequests = 1
SPECIFICATION AppFairSpec
INVARIANTS AppInv PoolOutlivesUsers UnsavedRowsAreOpen
PROPERTIES LeavesNothing FailureEndsProcess HeldIsReleased DrainCompletes
\* The process ends and is not started again.
CHECK_DEADLOCK FALSE
