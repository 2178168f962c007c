SPECIFICATION MCSpec
CONSTANTS
  Frames <- MCFrames
  Users = {1}
  Ids = {1, 2, 3}
  Addresses = {1, 2, 3}
  NoId = NoId
  Dates = {1, 2}
  MAX_REPLY = 2
  Dword = 16
  MaxRuns = 3
  MaxCrashes = 1
INVARIANTS TypeOK SortResult UmsgidsAscend MissingMovesBack LinkRepeatable RepliesFound SortedLinked
CHECK_DEADLOCK FALSE
