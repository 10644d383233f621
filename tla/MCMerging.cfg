CONSTANTS
  h1 = h1
  m1 = m1
  Handles = {h1}
  Maps <- OneMap
  Sharings <- OneSharing
  Flows = {f1, f2}
  Incs = {1, 2}
  Absent = Absent
  CacheSize = 1
  MaxCacheSize = 2
  MaxCached = 2
  MaxSum = 4
SPECIFICATION MergingSpec
INVARIANT UpdatesMerged
