\* Every waiting caller is answered; negative deposits and withdrawals.
SPECIFICATION FairSpec
CONSTANTS
  Users = {2}
  NoUser = 0
  Cars = {"car1"}
  NoCar = NoCar
  RoundedCar <- SameCar
  Keys = {"0", "h1"}
  ZeroKey = "0"
  WalletKey <- ZeroWalletKey
  PayKey <- CarKey
  Statuses = {"applied", "confirmed"}
  Amounts <- Sums
  Charges = {60000}
  Offers <- OwnOffers
  InitOffer <- OwnSharing
  Requests = {r1, r2}
  MinMoney <- Debt
  MaxMoney = 100000
  JavaMax = 100000
PROPERTIES EveryRequestAnswered OverdraftIsAsked
