CONSTANTS
  Songs = {t1, t2}
  Parent <- GenreAndList
  Art <- TwoPictures
  MaxStarts = 2
  MaxChanges = 2
  NONE = NONE
  Local <- OneLocal
  Catalogs <- SomeCatalogs
  Requests <- SomeRequests
  MaxTries = 2
  NOTHING = NOTHING
  BAD = BAD
SPECIFICATION ScreensSpec
INVARIANT MainScreenIsCurrent
INVARIANT FullScreenIsCurrent
INVARIANT CatalogPlays
\* The user may go on for as often as the bounds allow, and then stops.
CHECK_DEADLOCK FALSE
