SPECIFICATION SpecPipeline
CONSTANTS
  Duration = 3
  ConnectTimeout = 1
  ChunkSizes = {1, 2}
  None = None
  MaxBytes = 4
  MaxInterrupts = 2
  FrameBytes = 2
  MaxRuns = 2
  Captures <- MCCaptures
  VerifyCaptures <- MCVerifyCaptures
  Letters <- MCLetters
  Numbers <- MCNumbers
  Times <- MCTimes
  Days <- MCDays
  Codes <- MCCodes
  Ints <- MCInts
  Sentinel = "999"
  PathSymbols <- MCPathSymbols
  ZoneKeys <- MCZoneKeys
  SensedKey <- MCSensedKey
  InstalledKey <- MCInstalledKey
  UnsafeKeys <- MCUnsafeKeys
INVARIANT SummaryAgreesWithRaw
INVARIANT ExitCodeIsEarned
INVARIANT FixtureTellsNothing
INVARIANT ExitTellsTheFiles
PROPERTY CaptureEnds
CHECK_DEADLOCK FALSE
