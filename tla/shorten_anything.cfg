CONSTANTS
  u1 = u1
  u2 = u2
  u3 = u3
  None = None
  OutOfHashes = OutOfHashes
  Requests = {r1, r2}
  LongUrls <- Urls3
  Slugs <- SparseSlugs
  MaxTries = 2
  Candidates <- Sparse3
  CollidingOverlap = TRUE
  PowerMayFail = TRUE
SPECIFICATION FairSpec
INVARIANTS TypeOK Provenance
PROPERTIES Returns FlushedLinksStay
