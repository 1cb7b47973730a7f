CONSTANTS
  Modes <- MCModes
  Zones <- MCZones
  Flagged <- MCFlagged
  Unit = "unit"
  Blank = Blank
  Opaque = Opaque
  Absent = Absent
  None = None
  Frames <- MCFrames
  MaxItems = 4
SPECIFICATION Spec
INVARIANT ObservationsAddUp
INVARIANT ReadingIsOfTheActiveMode
PROPERTY OrderIsIrrelevant
CHECK_DEADLOCK FALSE
