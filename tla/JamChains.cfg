SPECIFICATION MCSpec
CONSTANTS
  Msgs <- MCMsgs
  Cleared = Cleared
  Zero = Zero
  Users = {1}
  BaseMsgNum = 4
  OldMarks = {1}
  Ids = {1, 2, 3}
  Addresses = {1, 2, 3}
  NoId = NoId
  Dates = {1, 2}
  Dword = 16
  CRC <- MCCRC
  LongIsDword = TRUE
  MaxRuns = 3
  MaxCrashes = 1
INVARIANTS TypeOK SortResult NumbersMatch GrowsOnlyOutside LinkRepeatable LinksFound LinksTrue
CHECK_DEADLOCK FALSE
