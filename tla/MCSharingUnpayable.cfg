\* The backend's sharing key: the payment looks elsewhere.
SPECIFICATION Spec
CONSTANTS
  Users = {2, 3}
  NoUser = 0
  Cars = {"car1"}
  NoCar = NoCar
  RoundedCar <- SameCar
  Keys = {"0", "1", "h1", "h3", "md5"}
  ZeroKey = "0"
  WalletKey <- TwoWalletKeys
  PayKey <- CarKey
  Statuses = {"applied", "confirmed"}
  Amounts = {60000}
  Charges = {60000}
  Offers <- BackendOffers
  InitOffer <- DeployedSharing
  Requests = {r1}
  MinMoney = 0
  MaxMoney = 160000
  JavaMax = 100000
INVARIANTS ConfirmedIsPayable
