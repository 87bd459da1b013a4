---------------------------- MODULE MCDispatcher ----------------------------
(* One channel that two executions report to, and one more for the first. *)
EXTENDS Dispatcher, TLC

MCExecutions == {"e1", "e2"}
MCChannels == {"a", "b"}
MCNotify == [e \in MCExecutions |-> IF e = "e1" THEN MCChannels ELSE {"a"}]
MCTypes == {"email"}
=============================================================================
