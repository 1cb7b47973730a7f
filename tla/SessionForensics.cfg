CONSTANTS
  Labels = {"refused", "timeout"}
  Banner <- MCBanner
  Chunks <- MCChunks
  None = None
  MaxSessions = 4
  MaxWire = 4
  MaxStops = 2
SPECIFICATION Spec
INVARIANT OutageIsWarned
INVARIANT SummaryNamesTheCause
INVARIANT BannerIsSplitSafe
CHECK_DEADLOCK FALSE
