\* One lost answer, two stops, three doings of people or of the trustee.
SPECIFICATION FairSpec
CONSTANTS
  Steward = steward
  Tayo = tayo
  Wallets <- TwoWallets
  TheKey = right
  Passes = {right, other}
  Seed = 0
  Trustee = 1
  Keys <- SomeKeys
  Objects = {}
  Versions = {v1}
  Mechanisms = {click}
  FirstRules <- DefaultRules
  MaxFaults = 1
  MaxStops = 2
  MaxHelp = 3
  None = None
INVARIANTS TypeOK OneIdentity AnchoredUnlessCut
PROPERTIES KeepsIdentity ComesUp
CHECK_DEADLOCK FALSE
