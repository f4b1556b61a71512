SPECIFICATION FairSpec
CONSTANTS
  NumLayers = 1
  LastPos = 2
  Sizes = {2, 3}
  CacheSize = 1
  Workers = {0, 1}
  MaxRequests = 3
INVARIANTS TypeOK PictureComplete ValidMeansDrawn MarkedMeansDrawn CachedMeansComplete
PROPERTIES ComesToRest
CHECK_DEADLOCK FALSE
