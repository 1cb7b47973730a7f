SPECIFICATION FairSpec
CONSTANTS
  Supervisors = {t1, t2}
  Starters = {owner}
  Stoppers = {owner}
  Sockets = {s1, s2}
  None = none
  ReentrantStops = {"onConnecting", "onConnected", "onSnapshot", "onFailed", "onReconnecting"}
  ConnectOutcomes = {"accepted", "refused", "crashed"}
  FramesPerChunk = {0, 1, 2}
INVARIANT OneSupervisor
INVARIANT NothingLeaks
INVARIANT RegisteredIsLive
INVARIANT EveryAttemptSummarised
PROPERTY CallsReturn
