SPECIFICATION MCSpec
CONSTANTS
  Msgs <- MCMsgs
  TextLen <- MCTextLen
  CtrlLen <- MCCtrlLen
  SOH <- MCSOH
  CR <- MCCR
  NUL <- MCNUL
  MaxDamage = 2
  MaxRefused = 1
INVARIANTS RepairTypeOK Packed  GoneStaysAway
PROPERTY PackAndFixEnd
CHECK_DEADLOCK FALSE
