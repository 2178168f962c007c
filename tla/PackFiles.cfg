SPECIFICATION MCSpec
CONSTANTS
  N = 4
  Packers = {p, q}
  Mail = {m1, m2}
  Files <- MCFiles
  None = None
  MaxPacks = 2
CHECK_DEADLOCK FALSE
INVARIANTS TypeOK MailKept Recoverable
PROPERTIES Termination
