SPECIFICATION AllSpec
CONSTANTS
  IdleAfter = 3
  Expiry = 5
  SocketLimit = 3
  Window = 10
  Tabs = {t1, t2, t3}
  None = None
  MaxFaults = 1
  MaxWire = 3
  Notes = {n1, n2}
  Calls = {c1, c2}
  NoCall = NoCall
  Unanswered = Unanswered
  Places = {p1, p2, p3}
  MaxSignals = 2
  Max = 2
  Span = 2
  SkipSuccessfulRequests = TRUE
  Routes = {signin}
  Slots = {q1, q2, q3}
  MaxRefused = 2
  MaxTime = 5
  Files = {1, 2, 3}
  Runs = {r1, r2}
  MaxEdits = 1
  PerHour = 2
  Day = 3
  Month = 7
  Durations = {1, 2, 3, 4, 5, 6, 7, 9, 11, 12, 13, 14, 15, 17, 20, 23, 28, 29, 31, 34}
  HourRates = {0, 1, 2, 3}
  DayRates = {0, 3, 4, 5}
  MonthRates = {0, 6, 9, 13}
  NoBest = NoBest
  owner = owner
  ana = ana
  ben = ben
  b1 = b1
  b2 = b2
  camera = camera
  User = {owner, ana, ben}
  Listing = {camera}
  Booking = {b1}
  Handler = {h1, h2, h3}
  Sweeper = sweeper
  System = system
  OwnerOf <- MCOwnerOf
  ListingOf <- MCListingOf
  RenterOf <- MCRenterOf
INVARIANTS
  AllTypesOK
  NeverOutlivesTheTypist
  ShownIsTrueOtherwise
  ExitIsExplained
  GuessesAreCapped
  SchemaIsReproducible
  QuoteIsCheapest
  RenterHasAWayOut
PROPERTIES
  BadgeCatchesUp
  UnansweredRequestsLapse
CHECK_DEADLOCK FALSE
