SPECIFICATION Spec
CONSTANTS
  Jobs = {j1, j2}
  None = None
  MaxMessages = 2
  MaxFaults = 0
  Writers <- Renter
  Viewers <- Renter
  Lines = TRUE
  Hiders <- Renter
SYMMETRY JobSymmetry
CHECK_DEADLOCK FALSE
INVARIANTS NothingSaidAfterClosing
PROPERTIES KeepsTheConversation
