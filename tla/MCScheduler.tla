---------------------------- MODULE MCScheduler ----------------------------
(* Small instances of the scheduler.  Minutes 1 .. MaxTime; a job is created *)
(* in minute 1.                                                              *)
EXTENDS SchedulerProperties, TLC

MCJobs == {"a", "b"}
MCTypes == "a" :> "http_check" @@ "b" :> "rss_watch"
MCCommands == [j \in MCJobs |-> "command"]

\* Every minute; every odd minute; a date that does not exist (30 February); an
\* expression the parser rejects.
MCSchedules == {"minutely", "odd", "never", "corrupt"}
MCCorrupt == {"corrupt"}
MCCronNext ==
  [s \in MCSchedules |-> [t \in Times |->
     CASE s = "odd"   -> 2 * ((t + 1) \div 2) + 1
       [] s = "never" -> ZeroTime
       [] OTHER       -> t + 1]]

MCMinutely  == [j \in MCJobs |-> "minutely"]
MCStaggered == "a" :> "minutely" @@ "b" :> "odd"

MCFailureOther  == "a" :> "failure" @@ "b" :> "other"
MCOtherAlways   == "a" :> "other" @@ "b" :> "always"
MCSuccessMalformed == "a" :> "success" @@ "b" :> "malformed"

OneJob == {"a"}
OneType == [j \in OneJob |-> "command"]
OneMinutely == [j \in OneJob |-> "minutely"]
OneNever == [j \in OneJob |-> "never"]
OneOther == [j \in OneJob |-> "other"]

\* One job more than a transaction may claim, the first of them stuck.
ThreeJobs == {"a", "b", "stuck"}
ThreeTypes == "a" :> "http_check" @@ "b" :> "rss_watch" @@ "stuck" :> "command"
ThreeMixed == "a" :> "minutely" @@ "b" :> "minutely" @@ "stuck" :> "corrupt"
ThreeConditions == "a" :> "other" @@ "b" :> "always" @@ "stuck" :> "none"

\* Replicas run the same program.
ReplicaSymmetry == Permutations(Replicas)
=============================================================================
