SPECIFICATION FairSpec
CONSTANTS
  Supervisors = {t1, t2}
  Starters = {owner}
  Stoppers = {owner}
  Sockets = {s1, s2}
  None = none
  ReentrantStops = {"onConnected", "onSnapshot", "onReconnecting"}
  ConnectOutcomes = {"accepted", "refused"}
  FramesPerChunk = {0, 1, 2}
INVARIANT StopSettles
PROPERTY SupervisorSurvives
PROPERTY NothingNewAfterStop
PROPERTY Lifecycle
