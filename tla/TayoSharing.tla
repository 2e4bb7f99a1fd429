----------------------------- MODULE TayoSharing -----------------------------
(***************************************************************************)
(* The tayosharing chaincode: what each contract function reads, what it   *)
(* writes and when it refuses, as a function of the world state it is      *)
(* simulated against.  Nothing here is a step: a peer simulates a call,    *)
(* and SharingLedger says when (and whether) its writes take effect.       *)
(*                                                                         *)
(* Sharing records and wallets live in ONE key space without prefixes.  A  *)
(* key is the text "%.0f" of a float64; the hashes that make those floats  *)
(* are the constants WalletKey and PayKey, which need not be injective     *)
(* (members 2 and 19 both get the key "0").                                *)
(***************************************************************************)
EXTENDS Integers

CONSTANTS
  Users,        \* member ids
  NoUser,       \* the zero value of a decoded userID
  Cars,         \* car ids
  NoCar,        \* no car
  RoundedCar,   \* car  -> the car whose id is what "%.0f" prints of it, or NoCar
  Keys,         \* the world-state keys that occur
  ZeroKey,      \* the key "0", printed for any id between -0.5 and 0.5
  WalletKey,    \* user -> "%.0f" of computeUniqueIDInt(user)
  PayKey,       \* car  -> "%.0f" of computeUniqueIDFloat(car)
  Statuses,     \* sharing states a record can hold
  Amounts,      \* amounts a deposit or withdrawal can carry; nothing checks their sign
  Charges,      \* prices a payment can carry; nothing checks theirs either
  Offers,       \* the sharing records, with their key, a request can carry
  InitOffer     \* the sharing InitLedger stores, with its key

Confirmed == "confirmed"
NoStatus == "none"
InitialMoney == 100000

Wallets == [type : {"wallet"}, id : Keys, user : Users \cup {NoUser}, money : Int]
Sharings == [type : {"sharing"}, car : Cars, lender : Users, borrower : Users,
             price : Int, status : Statuses]
Absent == [type |-> "absent"]
Records == Wallets \cup Sharings \cup {Absent}

ASSUME SharingConstants ==
  /\ NoUser \notin Users
  /\ NoCar \notin Cars
  /\ RoundedCar \in [Cars -> Cars \cup {NoCar}]
  /\ ZeroKey \in Keys
  /\ WalletKey \in [Users -> Keys]
  /\ PayKey \in [Cars -> Keys]
  /\ Confirmed \in Statuses
  /\ NoStatus \notin Statuses
  /\ Amounts \subseteq Int
  /\ Charges \subseteq Int
  /\ Offers \subseteq [key : Keys, record : Sharings]
  /\ InitOffer \in [key : Keys, record : Sharings]

(***************************************************************************)
(* The outcome of simulating a call: whether it returned without error,    *)
(* the keys it read, and the records it wrote.  A call that returns an     *)
(* error writes nothing.                                                   *)
(***************************************************************************)
NoWrites == [k \in {} |-> Absent]
Put(key, record) == [k \in {key} |-> record]
Refused(reads) == [ok |-> FALSE, reads |-> reads, writes |-> NoWrites]
Done(reads, writes) == [ok |-> TRUE, reads |-> reads, writes |-> writes]

\* Later writes of one call replace its earlier ones.
Then(first, second) ==
  [k \in DOMAIN first \cup DOMAIN second |->
     IF k \in DOMAIN second THEN second[k] ELSE first[k]]

(***************************************************************************)
(* encoding/json fills the fields it finds and leaves the others zero, so  *)
(* any record decodes as either type.                                      *)
(***************************************************************************)
AsWallet(record) ==
  IF record.type = "wallet" THEN record
  ELSE [type |-> "wallet", id |-> ZeroKey, user |-> NoUser, money |-> 0]

StatusOf(record) == IF record.type = "sharing" THEN record.status ELSE NoStatus

-----------------------------------------------------------------------------
(***************************************************************************)
(* Sharing functions.                                                      *)
(***************************************************************************)

\* A deployment that forgets the status of its first sharing.
InitLedgerWithoutStatus ==
  [k \in Keys |-> IF k = InitOffer.key
                  THEN [InitOffer.record EXCEPT !.status = NoStatus] ELSE Absent]

\* The world state once the chaincode is deployed: deployCC1 -cci initLedger.
InitLedger == [k \in Keys |-> IF k = InitOffer.key THEN InitOffer.record ELSE Absent]

\* Blind write: whatever is stored under the key is replaced.
CreateSharing(world, offer) == Done({}, Put(offer.key, offer.record))

\* The rich query compares the stored carID with the rounded text of the id, which
\* may be another car's, and returns every sharing of it whatever its state.
SharingsOf(world, car) ==
  {k \in Keys : world[k].type = "sharing" /\ world[k].car = RoundedCar[car]}

\* The rows found are not in the read set.
UpdateByQueryOnly(world, car, status) ==
  LET rows == SharingsOf(world, car)
  IN  IF rows = {} THEN Refused({})
      ELSE Done({}, [k \in rows |-> [world[k] EXCEPT !.status = status]])

UpdateSharingStatus(world, car, status) ==
  LET rows == SharingsOf(world, car)
  IN  IF rows = {} THEN Refused({})
      ELSE Done(rows, [k \in rows |-> [world[k] EXCEPT !.status = status]])

-----------------------------------------------------------------------------
(***************************************************************************)
(* Wallet functions.                                                       *)
(***************************************************************************)
\* The existence check made by a rich query, which leaves nothing in the read set.
CreateWalletByQuery(world, user) ==
  LET k == WalletKey[user]
  IN  IF world[k] # Absent THEN Refused({})
      ELSE Done({}, Put(k, [type |-> "wallet", id |-> k, user |-> user,
                            money |-> InitialMoney]))

CreateWallet(world, user) ==
  LET k == WalletKey[user]
  IN  IF world[k] # Absent THEN Refused({k})
      ELSE Done({k}, Put(k, [type |-> "wallet", id |-> k, user |-> user,
                             money |-> InitialMoney]))

\* The parameter is shadowed by what ReadWallet returns: the stored wallet is
\* written back, under the key of the id it decodes to.
UpdateUserWallet(world, key) ==
  IF world[key] = Absent THEN Refused({key})
  ELSE LET wallet == AsWallet(world[key])
       IN  Done({key}, Put(wallet.id, wallet))

\* The balance check forgotten.
PerformTransactionUnchecked(world, user, amount, isWithdraw) ==
  LET k == WalletKey[user]
      wallet == AsWallet(world[k])
  IN  IF world[k] = Absent THEN Refused({k})
      ELSE Done({k}, Put(k, [wallet EXCEPT !.money =
                               IF isWithdraw THEN @ - amount ELSE @ + amount]))

PerformTransaction(world, user, amount, isWithdraw) ==
  LET k == WalletKey[user]
      wallet == AsWallet(world[k])
  IN  IF world[k] = Absent \/ (isWithdraw /\ wallet.money < amount)
      THEN Refused({k})
      ELSE Done({k}, Put(k, [wallet EXCEPT !.money =
                               IF isWithdraw THEN @ - amount ELSE @ + amount]))

Withdraw(world, user, amount) == PerformTransaction(world, user, amount, TRUE)
Deposit(world, user, amount) == PerformTransaction(world, user, amount, FALSE)

\* A query: it has a result and writes nothing.
HasBalance(world, user) == world[WalletKey[user]] # Absent
QueryWalletBalance(world, user) == AsWallet(world[WalletKey[user]]).money

-----------------------------------------------------------------------------
(***************************************************************************)
(* Payment.  Both wallet operations read the world state, which does not   *)
(* show the call's own writes yet: if lender and borrower share a key, the *)
(* withdrawal is computed from the balance before the deposit.             *)
(***************************************************************************)
Transfer(world, lender, borrower, price, reads) ==
  LET deposit == Deposit(world, lender, price)
      withdrawal == Withdraw(world, borrower, price)
  IN  IF deposit.ok /\ withdrawal.ok
      THEN Done(reads \cup deposit.reads \cup withdrawal.reads,
                Then(deposit.writes, withdrawal.writes))
      ELSE Refused(reads \cup deposit.reads \cup withdrawal.reads)

\* The payment made whatever the status.
ProcessTransactionUnconfirmed(world, car, lender, borrower, price) ==
  LET k == PayKey[car]
  IN  IF world[k] = Absent THEN Refused({k})
      ELSE Transfer(world, lender, borrower, price, {k})

ProcessTransaction(world, car, lender, borrower, price) ==
  LET k == PayKey[car]
  IN  IF world[k] = Absent THEN Refused({k})
      ELSE IF StatusOf(world[k]) = Confirmed
           THEN Transfer(world, lender, borrower, price, {k})
           ELSE Done({k}, NoWrites)

-----------------------------------------------------------------------------
(***************************************************************************)
(* A call is a contract function with its arguments.                       *)
(***************************************************************************)
Calls ==
       [fn : {"CreateSharing"}, offer : Offers]
  \cup [fn : {"UpdateSharingStatus"}, car : Cars, status : Statuses]
  \cup [fn : {"ProcessTransaction"}, car : Cars, lender : Users,
        borrower : Users, price : Charges]
  \cup [fn : {"CreateWallet"}, user : Users]
  \cup [fn : {"UpdateUserWallet"}, key : Keys]
  \cup [fn : {"Withdraw", "Deposit"}, user : Users, amount : Amounts]

Simulate(world, call) ==
  IF call.fn = "CreateSharing" THEN CreateSharing(world, call.offer)
  ELSE IF call.fn = "UpdateSharingStatus"
    THEN UpdateSharingStatus(world, call.car, call.status)
  ELSE IF call.fn = "ProcessTransaction"
    THEN ProcessTransaction(world, call.car, call.lender, call.borrower, call.price)
  ELSE IF call.fn = "CreateWallet" THEN CreateWallet(world, call.user)
  ELSE IF call.fn = "UpdateUserWallet" THEN UpdateUserWallet(world, call.key)
  ELSE IF call.fn = "Withdraw" THEN Withdraw(world, call.user, call.amount)
  ELSE Deposit(world, call.user, call.amount)

\* The world state after a set of writes.
Write(world, writes) ==
  [k \in Keys |-> IF k \in DOMAIN writes THEN writes[k] ELSE world[k]]
==============================================================================
