------------------------------ MODULE RentalFlow ------------------------------
(***************************************************************************)
(* controller/CarController.java: a member finds a car, asks to share it     *)
(* (requestCar), its lender accepts (acceptCar), the borrower pays (payCar). *)
(* The cars are on the car channel (TayoCar), the sharings and the wallets   *)
(* on the sharing channel, the chat rooms in the backend's database: nothing *)
(* makes the changes of one request a whole.                                *)
(*                                                                         *)
(* The sharing channel is what SharingLedger implements: one whole call at   *)
(* a time (SerialSharing).  A call whose deadline passes may commit later.   *)
(***************************************************************************)
EXTENDS TayoCar

CONSTANTS
  Threads,
  Members,      \* who has signed up; an owner of a first car need not have
  NoCar, RoundedCar, LedgerKeys, ZeroKey, WalletKey, PayKey,   \* as in TayoSharing
  SharingKey,   \* car -> the key of the sharing id the backend makes of it
  FirstSharing, \* the sharing InitLedger stores, with its key
  Amounts,      \* prices the client of a request or of a payment may give
  NoUser, NoCall,
  MaxCalls      \* bound: calls of the sharing channel

ASSUME RentalConstants ==
  /\ Members \subseteq Owners
  /\ SharingKey \in [Cars -> LedgerKeys]
  /\ Amounts \subseteq Int
  /\ MaxCalls \in Nat

VARIABLES
  sharings,  \* the world state of the sharing channel
  rooms,     \* chat rooms, by the deal their first message is about
  req,       \* thread -> the request it serves
  late,      \* calls on their way whose callers were told of an error
  calls,
  placed,    \* history: deals that were on the ledger
  succeeded, \* history: deals whose borrower was told of a success
  failed     \* history: deals whose borrower was told of an error

told == <<succeeded, failed>>
rentalVars == <<sharings, rooms, req, late, calls, placed, succeeded, failed>>
flowVars == <<carVars, rentalVars>>

Applied == "applied"
\* The lender and the price are the client's: nothing compares them with the car's.
Offer(car, lender, borrower, price) ==
  [key |-> SharingKey[car],
   record |-> [type |-> "sharing", car |-> car, lender |-> lender,
               borrower |-> borrower, price |-> price, status |-> Applied]]

L == INSTANCE SerialSharing
  WITH world <- sharings, Users <- Owners, Keys <- LedgerKeys,
       Statuses <- {Applied, "confirmed"}, InitOffer <- FirstSharing,
       Offers <- {Offer(car, lender, m, price) :
                    car \in Cars, lender \in Owners, m \in Members, price \in Amounts},
       Charges <- Amounts

Deal(record) == [borrower |-> record.borrower, lender |-> record.lender, car |-> record.car]
\* The deal a requestCar is about.
Wanted(t) == Deal(req[t].call.offer.record)
Rest == [op |-> "none", at |-> "rest", call |-> NoCall]

\* The members' wallets are on the channel since they signed up.
Deployed ==
  [k \in LedgerKeys |->
     IF \E m \in Members : WalletKey[m] = k
     THEN [type |-> "wallet", id |-> k, user |-> CHOOSE m \in Members : WalletKey[m] = k,
           money |-> L!InitialMoney]
     ELSE L!InitLedger[k]]

FlowInit ==
  /\ Init
  /\ sharings = Deployed
  /\ rooms = {}
  /\ req = [t \in Threads |-> Rest]
  /\ late = {}
  /\ calls = 0
  /\ placed = {}
  /\ succeeded = {} /\ failed = {}

-----------------------------------------------------------------------------
(* What a request asks of the sharing channel. *)

Ask(t, op, call) ==
  /\ req[t] = Rest
  /\ calls < MaxCalls /\ calls' = calls + 1
  /\ req' = [req EXCEPT ![t] = [op |-> op, at |-> "send", call |-> call]]
  /\ UNCHANGED <<carVars, sharings, rooms, late, placed, told>>

\* The client names a car it has found, and the lender and the price as it likes.
RequestCar(t, borrower, date) ==
  \E k \in GetAvailableCars(cars, Places, date), lender \in Owners, price \in Amounts :
    Ask(t, "request", [fn |-> "CreateSharing",
                       offer |-> Offer(cars[k].id, lender, borrower, price)])

AcceptCar(t, car) ==
  Ask(t, "accept", [fn |-> "UpdateSharingStatus", car |-> car, status |-> L!Confirmed])

PayCar(t, borrower, car) ==
  \E lender \in Owners, price \in Amounts :
    Ask(t, "pay", [fn |-> "ProcessTransaction", car |-> car, lender |-> lender,
                   borrower |-> borrower, price |-> price])

-----------------------------------------------------------------------------
(* How the channel takes it. *)

Take(call) ==
  /\ L!Whole(call) \/ L!Partial(call)
  /\ placed' = IF call.fn = "CreateSharing"
               THEN placed \cup {Deal(call.offer.record)} ELSE placed

Succeed(t) ==
  /\ req' = [req EXCEPT ![t] = Rest]
  /\ succeeded' = IF req[t].op = "request" THEN succeeded \cup {Wanted(t)} ELSE succeeded
  /\ UNCHANGED failed

Fail(t) ==
  /\ req' = [req EXCEPT ![t] = Rest]
  /\ failed' = IF req[t].op = "request" THEN failed \cup {Wanted(t)} ELSE failed
  /\ UNCHANGED succeeded

Commit(t) ==
  /\ req[t].at = "send"
  /\ Take(req[t].call)
  /\ IF req[t].op = "request"
     THEN req' = [req EXCEPT ![t] = [@ EXCEPT !.at = "shared"]] /\ UNCHANGED told
     ELSE Succeed(t)
  /\ UNCHANGED <<carVars, rooms, late, calls>>

\* The chaincode refuses, or the call never reaches the orderer.
Refuse(t) ==
  /\ req[t].at = "send"
  /\ Fail(t)
  /\ UNCHANGED <<carVars, sharings, rooms, late, calls, placed>>

\* A mutant: the deadline's exception is caught and the request goes on.
TimeOutOn(t) ==
  /\ req[t].at = "send"
  /\ late' = late \cup {req[t].call}
  /\ IF req[t].op = "request"
     THEN req' = [req EXCEPT ![t] = [@ EXCEPT !.at = "shared"]] /\ UNCHANGED told
     ELSE Succeed(t)
  /\ UNCHANGED <<carVars, sharings, rooms, calls, placed>>

TimeOut(t) ==
  /\ req[t].at = "send"
  /\ late' = late \cup {req[t].call}
  /\ Fail(t)
  /\ UNCHANGED <<carVars, sharings, rooms, calls, placed>>

CommitLate(call) ==
  /\ Take(call)
  /\ late' = late \ {call}
  /\ UNCHANGED <<carVars, rooms, req, calls, told>>

-----------------------------------------------------------------------------
(* requestCar, once the sharing is committed: createChatRoom, in a           *)
(* transaction of the database.  It needs the borrower's row; the side of a  *)
(* lender that is no member is stored as null, and the request succeeds.    *)

OpenRoom(t) ==
  /\ req[t].at = "shared"
  /\ Wanted(t).borrower \in Members
  /\ rooms' = rooms \cup {Wanted(t)}
  /\ Succeed(t)
  /\ UNCHANGED <<carVars, sharings, late, calls, placed>>

\* A mutant: the request succeeds without its room.
RoomLeftOut(t) ==
  /\ req[t].at = "shared"
  /\ Succeed(t)
  /\ UNCHANGED <<carVars, sharings, rooms, late, calls, placed>>

\* The borrower's row is gone, or the database fails: the sharing stays.
RoomFails(t) ==
  /\ req[t].at = "shared"
  /\ Fail(t)
  /\ UNCHANGED <<carVars, sharings, rooms, late, calls, placed>>

-----------------------------------------------------------------------------
(* Meanwhile the owners' requests reach the car channel. *)
OnCarChannel ==
  \/ \E r \in Registrations : r.owner \in Members /\ Create(r)
  \/ \E u \in Updates : Update(u)
  \/ \E u \in Updates : RefuseUpdate(u)
  \/ \E c \in Cars : Delete(c)

FlowNext ==
  \/ OnCarChannel /\ UNCHANGED rentalVars
  \/ \E t \in Threads :
       \/ \E b \in Members, d \in Dates : RequestCar(t, b, d)
       \/ \E c \in Cars : AcceptCar(t, c)
       \/ \E b \in Members, c \in Cars : PayCar(t, b, c)
       \/ Commit(t) \/ Refuse(t) \/ TimeOut(t)
       \/ OpenRoom(t) \/ RoomFails(t)
  \/ \E call \in late : CommitLate(call)

FlowSpec == FlowInit /\ [][FlowNext]_flowVars

-----------------------------------------------------------------------------
(* Properties. *)

\* A borrower whose request succeeded shares the deal with its lender on the ledger and
\* in a chat room, and there is no room about a deal that was never on the ledger,
\* whatever was late (requestCar).
SuccessIsShared == succeeded \subseteq rooms /\ rooms \subseteq placed

\* A deal on the ledger without a room is still being served, or its borrower was told
\* of an error (requestCar: the sharing commits before the room).
SharedIsTalkedAbout ==
  placed \subseteq rooms \cup failed
                     \cup {Wanted(t) : t \in {u \in Threads : req[u].at = "shared"}}
==============================================================================
