\* Tries over five keys, any start key, page sizes 1 to 3
CONSTANTS
  KeySpace = {0, 1, 2, 3, 4}
  MaxResults = {1, 2, 3}
  None = None
  MaxFetches = 6
SPECIFICATION Spec
INVARIANT PagesCoverRange
PROPERTY DownloadEnds
