SPECIFICATION AllSpec
CONSTANTS
  Users = {ana, ben}
  Nobody = nobody
  MaxEdits = 1
  MaxPending = 2
  City <- FourPlaces
  Rate <- FourRates
  Mine = {4}
  Prices = {5}
  Unset = unset
  PageSize = 1
  MaxQuestions = 2
  MaxChanges = 1
  None = none
  MaxPhotos = 1
  MaxChecklists = 2
  MaxAtOnce = 2
  MaxElsewhere = 1
  Dates = {d1, d2}
  d1 = d1
  d2 = d2
  Blank = blank
  Barred <- TooShort
  NoCard = nocard
  MaxQuotes = 3
  Batch = 2
  NotRead = notread
  MaxLoads = 2
CHECK_DEADLOCK FALSE
INVARIANTS
  AllTypesOK
  OneUserAtATime
  ResultsTellTheTruth
  QuietFormIsTrue
  PricedForTheDates
  PrivateImagesAccounted
  QuietPageIsCurrent
