\* A member who borrows, registers and lends, and a lender who has not signed up; two
\* calls of the sharing channel, each of which may be late, among any of the car channel.
SPECIFICATION FlowSpec
CONSTANTS
  u1 = u1
  u2 = u2
  p1 = p1
  Cars = {"c1", "c2", "c5"}
  Keys = {"0", "5"}
  CarKey <- KeyOfCar
  FirstCars <- OneFirstCar
  Owners = {u1, u2}
  Dates = {d1}
  Prices <- SomePrices
  Places = {p1}
  NoValue = NoValue
  Nothing = Nothing
  Threads = {t1, t2}
  Members = {u2}
  NoCar = NoCar
  RoundedCar <- WholeNumber
  LedgerKeys = {"1", "s1", "s2", "s5", "h1", "h2", "h5", "w1", "w2", "w3"}
  ZeroKey = "0"
  WalletKey <- WalletKeys
  PayKey <- HashKeys
  SharingKey <- SharingKeys
  FirstSharing <- DeployedSharing
  Amounts = {30000}
  NoUser = NoUser
  NoCall = NoCall
  MaxCalls = 2
INVARIANTS TypeOK FoundAsAsked SuccessIsShared SharedIsTalkedAbout
PROPERTIES CredentialDataFixed
SYMMETRY ThreadSymmetry
