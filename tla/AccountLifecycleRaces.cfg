SPECIFICATION Spec
CONSTANTS
  Calls = {t1, t2}
  NoCall = NoCall
  Retention = 1
  MaxAccounts = 3
  MaxTime = 3
SYMMETRY Symmetry
INVARIANTS
  NoLockOut
PROPERTIES
  NoEarlyDeletion
  LoneSignInIsActive
