\* A send times out and the process ends.
CONSTANTS
  Callers = {w1, w2}
  Executions <- MCExecutions
  Channels <- MCChannels
  NotifyChannels <- MCNotify
  ChannelTypes <- MCTypes
  Faults = {"fetch", "create", "save", "crash"}
SPECIFICATION Spec
INVARIANTS AllSendsFinished
CHECK_DEADLOCK FALSE
