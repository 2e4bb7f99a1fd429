\* One member's wallet, two requests at a time, two credentials of two
\* definitions one of which may not be published, a restart.
SPECIFICATION FairSpec
CONSTANTS
  Threads = {t1, t2}
  Members = {m1}
  Cars = {k1, k2}
  Issuer = issuer
  Tags = {d1, d2}
  Rules <- ServiceRules
  MaxRef = 2
  MaxRestart = 1
  MaxLost = 1
  None = None
INVARIANTS HandleStaysOpen RegisteredAsHeld HeldIsPublished ListIsComplete
           NoHandleIsLost
PROPERTY WalletsAreClosed
