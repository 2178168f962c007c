SPECIFICATION MCSpec
CONSTANTS
  Msgs <- MCMsgs
  Cleared = Cleared
  LinkFields = {"ReplyTo"}
  FirstMsgs = {1, 3}
  MaxUsers = 1
  Dword = 16
INVARIANTS TypeOK LiveRenumbered LastReadsErrBack
