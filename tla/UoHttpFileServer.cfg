SPECIFICATION FairSpec
CONSTANTS
  Conns = {c1, c2}
  Uris = {u1}
  FileSizes = {0, 1, 2}
  CacheSize = 1
  MaxEdits = 3
  MaxRequests = 3
INVARIANTS
    EntriesSafe
  CountsAreHolders
  SpaceAccounted
  Undisturbed
PROPERTY
  AnsweredUnlessRace
CHECK_DEADLOCK FALSE
