\* Two clients register the same email, log in, and edit, toggle and delete one channel at the same time.
CONSTANTS
  Clients = {c1, c2}
  Emails = {"ann"}
  Passwords = {p1, p2}
  TokenTTL = 1
  Faults = {"users"}
  MaxTime = 2
  Channels = {ch}
  Names = {n1, n2}
SYMMETRY ClientSymmetry
SPECIFICATION ChannelsSpec
INVARIANTS ChannelsInv RegistrationHolds
PROPERTIES EditsKeepOthers ToggleTurnsOver DeletedForGood
\* The sessions expire and the clock has stopped.
CHECK_DEADLOCK FALSE
