SPECIFICATION RaceSpec
CONSTANTS
  b1 = b1
  b2 = b2
  camera = camera
  owner = owner
  ana = ana
  ben = ben
  BookingIds = {b1, b2}
  Listings = {camera}
  Users = {owner, ana, ben}
  Days = {1, 2, 3}
  Calls = {c1, c2}
  Sweeper = sweeper
  System = system
  None = none
  MaxFaults = 0
  ListingOf <- MCListingOf
  RenterOf <- MCRenterOf
  PeriodOf <- MCPeriodOf
  OwnerOf <- MCOwnerOf
  BlackoutPeriods <- MCBlackouts
SYMMETRY CallSymmetry
INVARIANTS NoDoubleBooking
PROPERTIES KeepsTheCalendar
