\* Two concurrent requests, two members with wallets of their own, one car
\* whose sharing is stored under the key the chaincode looks for.
SPECIFICATION Spec
CONSTANTS
  Users = {2, 3}
  NoUser = 0
  Cars = {"car1"}
  NoCar = NoCar
  RoundedCar <- SameCar
  Keys = {"0", "1", "h1", "h3"}
  ZeroKey = "0"
  WalletKey <- TwoWalletKeys
  PayKey <- CarKey
  Statuses = {"applied", "confirmed"}
  Amounts = {60000}
  Charges <- Sums
  Offers <- ChaincodeOffers
  InitOffer <- DeployedSharing
  Requests = {r1, r2}
  MinMoney <- Debt
  MaxMoney = 100000
  JavaMax = 100000
INVARIANT TypeOK
PROPERTIES OverdraftIsAsked Serializable PaymentIsATransfer DealsChangeAsAsked
SYMMETRY RequestSymmetry
