SPECIFICATION Spec
CONSTANTS
  Bookings = {b1}
  Calls = {c1, c2}
  Sweeper = sweeper
  None = none
  Texts = {kind, harsh}
  MaxFaults = 1
SYMMETRY Symmetry
INVARIANTS DoubleBlind ToldIsVisible
PROPERTIES KeepsThePromise
