SPECIFICATION FairSpec
CONSTANTS
  NumLayers = 1
  LastPos = 2
  Sizes = {2, 3}
  CacheSize = 1
  Workers = {0, 1}
  MaxRequests = 3
PROPERTIES RequestsAddUp
CHECK_DEADLOCK FALSE
