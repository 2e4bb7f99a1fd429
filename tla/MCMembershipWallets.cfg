\* A member without a Fabric wallet of their own.
SPECIFICATION Spec
CONSTANTS
  Threads = {t1, t2}
  Emails = {e1, e2, e3}
  Keys = {"0", "h2"}
  WalletKey <- KeyOfId
  MaxId = 3
  MaxEra = 0
  None = None
SYMMETRY ThreadSymmetry
INVARIANT MembersHaveWallets
CHECK_DEADLOCK FALSE
