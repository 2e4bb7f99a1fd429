--------------------------- MODULE MCSharingLedger ---------------------------
(***************************************************************************)
(* Small instances of SharingLedger.  Members 2 and 3 have distinct wallet *)
(* keys, "0" and a large number ("h3").  Car 1 is the car of the record     *)
(* InitLedger stores under "1"; the key ProcessTransaction computes for it  *)
(* is the hash of 1.0 ("h1").                                               *)
(***************************************************************************)
EXTENDS SharingLedger, TLC

TwoWalletKeys == 2 :> "0" @@ 3 :> "h3"
CarKey == "car1" :> "h1"
SameCar == "car1" :> "car1"

SharingOf(lender, borrower, price) ==
  [type |-> "sharing", car |-> "car1", lender |-> lender, borrower |-> borrower,
   price |-> price, status |-> "applied"]

\* The record of InitLedger, its parties renamed to members of the instance.
DeployedSharing == [key |-> "1", record |-> SharingOf(3, 2, 60000)]

\* Requests whose sharingID is the one the chaincode computes from the car, before and
\* after its price was changed.
ChaincodeOffers ==
  {[key |-> "h1", record |-> SharingOf(3, 2, price)] : price \in {50000, 60000}}

\* A request whose sharingID is the backend's, from the MD5 of the car's text.
BackendOffers == {[key |-> "md5", record |-> SharingOf(3, 2, 60000)]}

\* One member, whose car it is.
ZeroWalletKey == 2 :> "0"
OwnSharing == [key |-> "h1", record |-> SharingOf(2, 2, 60000)]
OwnOffers == {OwnSharing}

\* A number a client gives may be negative, and a wallet be overdrawn by it.
Sums == {-120000, 60000}
Debt == -20000

\* Requests are interchangeable in the safety runs.
RequestSymmetry == Permutations(Requests)
==============================================================================
