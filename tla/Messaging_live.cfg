SPECIFICATION FairSpec
CONSTANTS
  Jobs = {j1, j2}
  None = None
  MaxMessages = 1
  MaxFaults = 1
  Writers <- Owner
  Viewers <- Renter
  Lines = FALSE
  Hiders <- Nobody
CHECK_DEADLOCK FALSE
INVARIANTS OnlyTheGapIsMissed
PROPERTIES EveryoneCatchesUp
