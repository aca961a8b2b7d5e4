\* The default configuration, with power failures anywhere.
SPECIFICATION FairSpec
CONSTANTS
  MaxVer = 3
  AutoConfirm = TRUE
  Crashes = 3
INVARIANTS RevertPossible MarkedIsWhole
PROPERTIES NoDowngrade KeepsChecking
