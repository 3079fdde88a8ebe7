SPECIFICATION FeedSpec
CONSTANTS
  Listing = {1, 2, 3}
  Prices = {10, 20}
  CityOf <- TwoCities
  AnyCity = 0
  Filters <- BrowseFilters
  PageSize = 1
  MaxClock = 2
  BedsOf <- TwoOrThreeBeds
  CandidateLimit = 2
  Cards = 1
  ViewedLimit = 2
  ScoreUnit = 1
  Fresh = 1
  MaxViews = 3
  Errands = {"browse", "discover"}
INVARIANTS
  UntouchedShownOnce
PROPERTIES
  WalksEnd
  ForYouOmitsViewed
  SectionsAreFull
