-------------------------------- MODULE TayoCar --------------------------------
(***************************************************************************)
(* The tayocar chaincode on the car channel: the records of registered      *)
(* cars, and the functions that change or search them.  Each call is one    *)
(* committed transaction (SharingLedgerProofs shows that a channel behaves  *)
(* like one call at a time, and CallsTouchOneKey of RentalFlowProofs that   *)
(* a call hangs on one key); a refused call changes nothing.                *)
(*                                                                         *)
(* A record is stored under "%.0f" of its float64 id.  The backend's ids    *)
(* are eight bytes of a hash read as a double, so half of them are between  *)
(* -1/2 and 1/2 and print as "0" or "-0": CarKey need not be injective.     *)
(***************************************************************************)
EXTENDS Integers, FiniteSets

CONSTANTS
  Cars,       \* car ids
  Keys,       \* world-state keys
  CarKey,     \* car id -> its key
  Owners, Dates,
  Places,     \* name, address and coordinates of the place of sharing, as one
  Prices,     \* numbers a request may give as the price; a registration checks none
  FirstCars,  \* the cars InitLedger stores
  NoValue,    \* what a request leaves out: null, "" or, for a coordinate, 0
  Nothing     \* no record under a key

Records == [id : Cars, owner : Owners, dates : SUBSET Dates, place : Places,
            available : {TRUE}, price : Prices]

ASSUME CarConstants ==
  /\ CarKey \in [Cars -> Keys]
  /\ Prices \subseteq Int
  /\ NoValue \notin Places
  /\ \A d \in SUBSET Dates : NoValue # d
  /\ FirstCars \subseteq Records
  /\ \A r, s \in FirstCars : CarKey[r.id] = CarKey[s.id] => r = s

VARIABLES
  cars,       \* key -> the car stored there
  word,       \* history: key -> the dates of the last granted call that gave any
  last        \* history: the last request, and whether it was granted

carVars == <<cars, word, last>>

\* The backend registers cars under ids of its own, none of the first cars'.
Registrations == {r \in Records : \A s \in FirstCars : r.id # s.id}
Updates == [id : Cars, dates : (SUBSET Dates) \cup {NoValue},
            place : Places \cup {NoValue}, available : BOOLEAN, price : Prices]

Stored(world, c) == world[CarKey[c]]
Exists(world, c) == Stored(world, c) # Nothing

-----------------------------------------------------------------------------
(* CreateCar: whatever was under the key is replaced. *)
CreateCar(world, car) == [world EXCEPT ![CarKey[car.id]] = car]

(* UpdateCar: the list of dates arrives as Java prints it.  "[]" and "null"  *)
(* are JSON and empty the record's list; with a date in it the text is not   *)
(* JSON and the call fails.  A missing car fails to decode.                  *)
UpdateRefused(world, u) ==
  \/ ~Exists(world, u.id)
  \/ u.dates # NoValue /\ u.dates # {}

\* A mutant: an empty list is taken for one left out.
UpdatedKeepingDates(car, u) ==
  [car EXCEPT !.place = IF u.place = NoValue THEN @ ELSE u.place,
              !.available = IF u.available THEN TRUE ELSE @,
              !.price = IF u.price >= 0 THEN u.price ELSE @]

\* A mutant: the record is made anew from the request.
UpdatedWholly(car, u) ==
  [car EXCEPT !.id = u.id, !.dates = {}, !.place = u.place,
              !.available = u.available, !.price = u.price]

Updated(car, u) ==
  [car EXCEPT !.dates = {},
              !.place = IF u.place = NoValue THEN @ ELSE u.place,
              !.available = IF u.available THEN TRUE ELSE @,
              !.price = IF u.price >= 0 THEN u.price ELSE @]

\* The record goes back under the key of its own id.
UpdateCar(world, u) ==
  LET car == Updated(Stored(world, u.id), u)
  IN  [world EXCEPT ![CarKey[car.id]] = car]

(* DeleteCar: DelState is given "%.0f" of the id's text, which is no key.    *)
DeleteRefused(world, c) == ~Exists(world, c)
DeleteCar(world, c) == world

(* GetAvailableCars. *)
GetAvailableCars(world, area, date) ==
  {k \in Keys : /\ world[k] # Nothing
                /\ world[k].place \in area
                /\ date \in world[k].dates
                /\ world[k].available}

-----------------------------------------------------------------------------
(* InitLedger: the chaincode starts with a few cars. *)
InitLedger ==
  [k \in Keys |-> IF \E r \in FirstCars : CarKey[r.id] = k
                  THEN CHOOSE r \in FirstCars : CarKey[r.id] = k
                  ELSE Nothing]

Init ==
  /\ cars = InitLedger
  /\ word = [k \in Keys |-> IF InitLedger[k] = Nothing THEN {} ELSE InitLedger[k].dates]
  /\ last = "none"

Create(r) ==
  /\ cars' = CreateCar(cars, r)
  /\ word' = [word EXCEPT ![CarKey[r.id]] = r.dates]
  /\ last' = "create"

Update(u) ==
  /\ ~UpdateRefused(cars, u)
  /\ cars' = UpdateCar(cars, u)
  /\ word' = [word EXCEPT ![CarKey[u.id]] = IF u.dates = NoValue THEN @ ELSE u.dates]
  /\ last' = "update"

RefuseUpdate(u) ==
  /\ UpdateRefused(cars, u)
  /\ last' = "refused"
  /\ UNCHANGED <<cars, word>>

Delete(c) ==
  /\ ~DeleteRefused(cars, c)
  /\ cars' = DeleteCar(cars, c)
  /\ last' = "delete"
  /\ UNCHANGED word

Next ==
  \/ \E r \in Registrations : Create(r)
  \/ \E u \in Updates : Update(u)
  \/ \E u \in Updates : RefuseUpdate(u)
  \/ \E c \in Cars : Delete(c)

Spec == Init /\ [][Next]_carVars

-----------------------------------------------------------------------------
(* Properties. *)

\* Every record is a car, under the key its own id prints as.
TypeOK ==
  \A k \in Keys : cars[k] # Nothing =>
    /\ cars[k] \in Records
    /\ CarKey[cars[k].id] = k

\* A search (GetAvailableCars) shows a car only on dates that the last registration or
\* update under its key gave it, whichever id that call named: dates replaced by a later
\* list are gone for good (UpdateCar takes only an empty one).  What else withdraws a
\* car for its owner, a deletion or sharingAvailable = false, is granted and withdraws
\* nothing in the code, so no date counts as withdrawn by it.
FoundAsAsked ==
  \A d \in Dates : \A k \in GetAvailableCars(cars, Places, d) : d \in word[k]

\* "VP data cannot be modified": only a registration changes what the
\* credential says of a car, its id and its owner (updateCar).
CredentialDataFixed ==
  [][\A k \in Keys :
       cars[k] # Nothing /\ last' # "create"
         => /\ cars'[k].id = cars[k].id
            /\ cars'[k].owner = cars[k].owner]_carVars
==============================================================================
