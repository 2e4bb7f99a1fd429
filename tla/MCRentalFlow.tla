----------------------------- MODULE MCRentalFlow -----------------------------
(***************************************************************************)
(* A small instance of RentalFlow.  Car "c5" is one of InitLedger's, its     *)
(* owner u1 has not signed up; the ids of "c1" and "c2" are fractions, so    *)
(* their records share a key and no status update finds their sharings.     *)
(***************************************************************************)
EXTENDS RentalFlow, TLC

CONSTANTS u1, u2, p1

KeyOfCar == "c1" :> "0" @@ "c2" :> "0" @@ "c5" :> "5"
OneFirstCar == {[id |-> "c5", owner |-> u1, dates |-> Dates, place |-> p1,
                 available |-> TRUE, price |-> 30000]}
SomePrices == {-1, 30000}

SharingKeys == "c1" :> "s1" @@ "c2" :> "s2" @@ "c5" :> "s5"
HashKeys == "c1" :> "h1" @@ "c2" :> "h2" @@ "c5" :> "h5"
WholeNumber == "c1" :> NoCar @@ "c2" :> NoCar @@ "c5" :> "c5"
WalletKeys == u1 :> "w1" @@ u2 :> "w2"
DeployedSharing ==
  [key |-> "1", record |-> [type |-> "sharing", car |-> "c5", lender |-> u1,
                            borrower |-> u2, price |-> 30000, status |-> "applied"]]
ThreadSymmetry == Permutations(Threads)
==============================================================================
