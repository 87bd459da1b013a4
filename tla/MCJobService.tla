---------------------------- MODULE MCJobService ----------------------------
(* One job, its owner's requests, and the scheduler. *)
EXTENDS JobService

MCJobs == {"a"}
MCTypes == [j \in MCJobs |-> "command"]
MCSchedules == {"minutely", "corrupt"}
MCCorrupt == {"corrupt"}
MCCronNext == [s \in MCSchedules |-> [t \in Times |-> t + 1]]
MCSchedule == [j \in MCJobs |-> "minutely"]
MCCondition == [j \in MCJobs |-> "failure"]
=============================================================================
