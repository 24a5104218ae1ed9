CONSTANTS
  u1 = u1
  u2 = u2
  u3 = u3
  None = None
  OutOfHashes = OutOfHashes
  Requests = {r1, r2}
  LongUrls <- Urls3
  Slugs <- CollidingSlugs
  MaxTries = 6
  Candidates <- Colliding3
  CollidingOverlap = FALSE
  PowerMayFail = FALSE
SPECIFICATION Spec
INVARIANTS ChosenSlugIsFree ToldStaysTrue OneSlugPerUrl
PROPERTY ImplementsUrlMap
