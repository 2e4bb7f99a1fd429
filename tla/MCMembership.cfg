\* Two sign-ups at a time, three emails, one restart; the bounds stop it.
SPECIFICATION Spec
CONSTANTS
  Threads = {t1, t2}
  Emails = {e1, e2, e3}
  Keys = {"0", "h2"}
  WalletKey <- KeyOfId
  MaxId = 3
  MaxEra = 1
  None = None
SYMMETRY ThreadSymmetry
INVARIANTS TypeOK OneRowPerEmail WelcomedIsReady
PROPERTY FirstKeepsWallet
CHECK_DEADLOCK FALSE
