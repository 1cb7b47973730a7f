SPECIFICATION Spec
CONSTANTS
  Delays <- MCDelays
  ConnectTimeout = 2
  IdleLimit = 3
  RecycleDelay = 2
  MaxLate = 1
INVARIANT Paced
INVARIANT RecycleIsEarned
PROPERTY SilenceIsLeft
