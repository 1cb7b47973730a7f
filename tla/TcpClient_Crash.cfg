SPECIFICATION Spec
CONSTANTS
  Supervisors = {t1, t2}
  Starters = {owner}
  Stoppers = {owner}
  Sockets = {s1, s2}
  None = none
  ReentrantStops = {}
  ConnectOutcomes = {"accepted", "refused", "crashed"}
  FramesPerChunk = {0, 1, 2}
PROPERTY SupervisorSurvives
