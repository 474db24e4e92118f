SPECIFICATION FairSpec
CONSTANTS
  Conns = {c1, c2}
  MaxCalls = 3
  MaxMade = 3
  Allowed = {"unsubscribe", "archive", "unarchive", "timeout"}
INVARIANTS TypeOK SubscribersAreLive RunningIsRegistered
CHECK_DEADLOCK FALSE
PROPERTIES UnloadsEnd
