SPECIFICATION SpecEntry
CONSTANTS
  Readings = {heating, cooling}
  Unavailable = unavailable
  StaleAfter = 4
  RecheckFloor = 2
  MaxEarly = 1
  MaxLate = 1
  NoFrame = noframe
  Off = off
  Manager = manager
  Halter = halter
  Supervisors = {t1}
  Sockets = {s1, s2}
  None = none
  ConnectOutcomes = {"accepted", "refused"}
  FramesPerChunk = {0, 1, 2}
INVARIANT OneTimer
INVARIANT ShownExpires
INVARIANT FreshIsShown
INVARIANT NoBusyRecheck
INVARIANT UnloadedIsQuiet
INVARIANT LoadedIsRunning
PROPERTY ShutdownIsSilent
PROPERTY SilenceIsAnnounced
PROPERTY ShutdownIsUnheard
PROPERTY ShutdownsFinish
PROPERTY CoordinatorLife
