\* Two workers dispatch, statements fail, a channel is edited and deleted, the
\* process crashes.
CONSTANTS
  Callers = {w1, w2}
  Executions <- MCExecutions
  Channels <- MCChannels
  NotifyChannels <- MCNotify
  ChannelTypes <- MCTypes
  Faults = {"fetch", "create", "save", "crash"}
SPECIFICATION FairSpec
INVARIANTS DispatcherInv PendingHasReason WaitCoversSaves RowsFollowParents
PROPERTIES EveryChannelIsServed WaitEnds
\* After Wait the process is gone.
CHECK_DEADLOCK FALSE
