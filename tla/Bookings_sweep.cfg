SPECIFICATION SweepSpec
CONSTANTS
  b1 = b1
  b2 = b2
  camera = camera
  owner = owner
  ana = ana
  ben = ben
  BookingIds = {b1, b2}
  Listings = {camera}
  Users = {owner, ana, ben}
  Days = {1, 2, 3}
  Calls = {c1}
  Sweeper = sweeper
  System = system
  None = none
  MaxFaults = 1
  ListingOf <- MCListingOf
  RenterOf <- MCRenterOf
  PeriodOf <- MCPeriodOf
  OwnerOf <- MCOwnerOf
  BlackoutPeriods <- MCBlackouts
INVARIANTS TrailIsUnbroken EveryMoveWasAllowed TellsOnlyTheTrail
PROPERTIES SystemOnlyAfterTheWait
