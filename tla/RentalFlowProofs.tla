--------------------------- MODULE RentalFlowProofs ---------------------------
(***************************************************************************)
(* Proofs about TayoCar, and about RentalFlow, for every value of the        *)
(* constants: any cars and keys, however many cars share one, and any number *)
(* of requests.  RentalFlow's theorems rest on TayoCar's, whose behaviours   *)
(* its own are.                                                             *)
(***************************************************************************)
EXTENDS RentalFlow, TLAPS

-----------------------------------------------------------------------------
(* TayoCar.  A record's dates never exceed what its key was last given:      *)
(* that is what keeps dates replaced by a later list hidden.                *)

CarShape ==
  /\ DOMAIN cars = Keys /\ cars = [k \in Keys |-> cars[k]]
  /\ word \in [Keys -> SUBSET Dates]

DatesKept == \A k \in Keys : cars[k] # Nothing => cars[k].dates \subseteq word[k]

CarInv == CarShape /\ TypeOK /\ DatesKept

LEMMA CarInvInit == Init => CarInv
<1> SUFFICES ASSUME Init PROVE CarInv
  OBVIOUS
<1>1. cars = InitLedger
  BY DEF Init
<1>2. \A k \in Keys : cars[k] # Nothing => cars[k] \in FirstCars /\ CarKey[cars[k].id] = k
  BY <1>1 DEF InitLedger
<1>3. word = [k \in Keys |-> IF cars[k] = Nothing THEN {} ELSE cars[k].dates]
  BY <1>1 DEF Init
<1>4. \A r \in Records : r.dates \subseteq Dates
  BY DEF Records
<1>5. TypeOK
  BY <1>2, CarConstants DEF TypeOK
<1>6. CarShape
  <2>1. cars = [k \in Keys |-> cars[k]] /\ DOMAIN cars = Keys
    BY <1>1 DEF InitLedger
  <2> QED
    BY <1>3, <1>4, <1>5, <2>1 DEF CarShape, TypeOK
<1>7. DatesKept
  BY <1>3 DEF DatesKept
<1> QED
  BY <1>5, <1>6, <1>7 DEF CarInv

\* Storing under the key of a record's own id, with dates it may show.
LEMMA StoredRecord ==
  ASSUME CarInv, NEW car \in Records, NEW dates_ \in SUBSET Dates,
         car.dates \subseteq dates_,
         cars' = [cars EXCEPT ![CarKey[car.id]] = car],
         word' = [word EXCEPT ![CarKey[car.id]] = dates_]
  PROVE  CarInv'
<1> DEFINE k == CarKey[car.id]
<1>1. k \in Keys
  BY CarConstants DEF Records
<1>2. cars'[k] = car /\ word'[k] = dates_
  BY <1>1 DEF CarInv, CarShape
<1>3. \A j \in Keys \ {k} : cars'[j] = cars[j] /\ word'[j] = word[j]
  BY DEF CarInv, CarShape
<1>4. CarShape'
  BY <1>1 DEF CarInv, CarShape
<1>5. TypeOK'
  BY <1>2, <1>3 DEF CarInv, TypeOK
<1>6. DatesKept'
  BY <1>2, <1>3 DEF CarInv, DatesKept
<1> QED
  BY <1>4, <1>5, <1>6 DEF CarInv

\* What an update makes of a record is a record of the same car and owner.
LEMMA UpdatedIsRecord ==
  ASSUME NEW car \in Records, NEW u \in Updates
  PROVE  /\ Updated(car, u) \in Records
         /\ Updated(car, u).id = car.id
         /\ Updated(car, u).owner = car.owner
         /\ Updated(car, u).dates = {}
<1> DEFINE new == Updated(car, u)
           place == IF u.place = NoValue THEN car.place ELSE u.place
           available == IF u.available THEN TRUE ELSE car.available
           price == IF u.price >= 0 THEN u.price ELSE car.price
<1>1. car.available = TRUE
  BY DEF Records
<1>2. available = TRUE
  BY <1>1
<1>3. u.place \in Places \cup {NoValue} /\ u.price \in Prices
  BY DEF Updates
<1>4. place \in Places
  BY <1>3 DEF Records
<1>5. price \in Prices
  BY <1>3 DEF Records
<1>6. new = [car EXCEPT !.dates = {}, !.place = place, !.available = available,
                        !.price = price]
  BY Zenon DEF Updated
<1> HIDE DEF place, available, price
<1>7. new = [id |-> car.id, owner |-> car.owner, dates |-> {}, place |-> place,
             available |-> TRUE, price |-> price]
  BY <1>2, <1>6 DEF Records
<1> QED
  BY <1>4, <1>5, <1>7 DEF Records

LEMMA UpdateStores ==
  ASSUME CarInv, NEW u \in Updates, Update(u)
  PROVE  /\ CarKey[u.id] \in Keys
         /\ cars[CarKey[u.id]] \in Records
         /\ LET new == Updated(cars[CarKey[u.id]], u)
            IN  /\ CarKey[new.id] = CarKey[u.id]
                /\ cars' = [cars EXCEPT ![CarKey[u.id]] = new]
<1> DEFINE k == CarKey[u.id]
           new == Updated(cars[k], u)
<1>1. k \in Keys
  BY CarConstants DEF Updates
<1>2. cars[k] # Nothing
  BY DEF Update, UpdateRefused, Exists, Stored
<1>3. cars[k] \in Records /\ CarKey[cars[k].id] = k
  BY <1>1, <1>2 DEF CarInv, TypeOK
<1>4. new.id = cars[k].id
  BY <1>3, UpdatedIsRecord
<1>5. cars' = [cars EXCEPT ![CarKey[new.id]] = new]
  BY DEF Update, UpdateCar, Stored
<1> QED
  BY <1>1, <1>3, <1>4, <1>5

LEMMA CarInvStep == CarInv /\ [Next]_carVars => CarInv'
<1> SUFFICES ASSUME CarInv, [Next]_carVars PROVE CarInv'
  OBVIOUS
<1>1. ASSUME NEW r \in Registrations, Create(r) PROVE CarInv'
  <2>1. r \in Records /\ r.dates \in SUBSET Dates
    BY DEF Registrations, Records
  <2> QED
    BY <1>1, <2>1, StoredRecord DEF Create, CreateCar
<1>2. ASSUME NEW u \in Updates, Update(u) PROVE CarInv'
  <2> DEFINE k == CarKey[u.id]
             new == Updated(cars[k], u)
             granted == IF u.dates = NoValue THEN word[k] ELSE u.dates
  <2>1. k \in Keys /\ cars[k] \in Records /\ CarKey[new.id] = k
        /\ cars' = [cars EXCEPT ![k] = new]
    BY <1>2, UpdateStores
  <2>2. new \in Records /\ new.dates = {}
    BY <2>1, UpdatedIsRecord
  <2>3. granted \in SUBSET Dates
    BY <2>1 DEF Updates, CarInv, CarShape
  <2>4. word' = [word EXCEPT ![k] = granted]
    BY <1>2 DEF Update
  <2> HIDE DEF new, granted
  <2> QED
    BY <2>1, <2>2, <2>3, <2>4, StoredRecord
<1>3. ASSUME UNCHANGED <<cars, word>> PROVE CarInv'
  BY <1>3 DEF CarInv, CarShape, TypeOK, DatesKept
<1>4. CASE UNCHANGED carVars
  BY <1>3, <1>4 DEF carVars
<1>5. ASSUME NEW u \in Updates, RefuseUpdate(u) PROVE CarInv'
  BY <1>3, <1>5 DEF RefuseUpdate
<1>6. ASSUME NEW c \in Cars, Delete(c) PROVE CarInv'
  BY <1>3, <1>6 DEF Delete, DeleteCar
<1> QED
  BY <1>1, <1>2, <1>4, <1>5, <1>6 DEF Next

LEMMA CarInvFound == CarInv => FoundAsAsked
  BY DEF CarInv, DatesKept, FoundAsAsked, GetAvailableCars

LEMMA CarInvFixed ==
  CarInv /\ [Next]_carVars =>
    [\A k \in Keys :
       cars[k] # Nothing /\ last' # "create"
         => /\ cars'[k].id = cars[k].id
            /\ cars'[k].owner = cars[k].owner]_carVars
<1> SUFFICES ASSUME CarInv, [Next]_carVars, ~UNCHANGED carVars,
                    NEW k \in Keys, cars[k] # Nothing, last' # "create"
             PROVE  cars'[k].id = cars[k].id /\ cars'[k].owner = cars[k].owner
  OBVIOUS
<1>1. ASSUME NEW r \in Registrations, Create(r) PROVE FALSE
  BY <1>1 DEF Create
<1>2. ASSUME NEW u \in Updates, Update(u)
      PROVE  cars'[k].id = cars[k].id /\ cars'[k].owner = cars[k].owner
  <2>1. CASE k = CarKey[u.id]
    <3>1. cars[k] \in Records /\ cars' = [cars EXCEPT ![k] = Updated(cars[k], u)]
      BY <1>2, <2>1, UpdateStores
    <3>2. cars'[k] = Updated(cars[k], u)
      BY <3>1 DEF CarInv, CarShape
    <3> QED
      BY <3>1, <3>2, UpdatedIsRecord
  <2>2. CASE k # CarKey[u.id]
    BY <1>2, <2>2, UpdateStores DEF CarInv, CarShape
  <2> QED
    BY <2>1, <2>2
<1>3. ASSUME NEW u \in Updates, RefuseUpdate(u) PROVE cars' = cars
  BY <1>3 DEF RefuseUpdate
<1>4. ASSUME NEW c \in Cars, Delete(c) PROVE cars' = cars
  BY <1>4 DEF Delete, DeleteCar
<1> QED
  BY <1>1, <1>2, <1>3, <1>4 DEF Next

LEMMA CarInvAlways == Spec => []CarInv
  BY CarInvInit, CarInvStep, PTL DEF Spec

\* Every record of the car channel is a car under the key of its own id.
THEOREM CarTypeCorrect == Spec => []TypeOK
<1>1. CarInv => TypeOK
  BY DEF CarInv
<1> QED
  BY <1>1, CarInvAlways, PTL

\* A search shows a car only on dates that the last registration or update under its key
\* gave it, however registrations and updates replace each other under shared keys.
THEOREM ShownAsAsked == Spec => []FoundAsAsked
  BY CarInvAlways, CarInvFound, PTL

\* No update or deletion changes the id or the owner of a record.
THEOREM DataIsFixed == Spec => CredentialDataFixed
  BY CarInvAlways, CarInvFixed, PTL DEF Spec, CredentialDataFixed

\* The outcome of an update or a deletion hangs on the record under the key of its car
\* alone, and an update writes that key alone: transactions about different keys do not
\* see each other, so that the channel may be modelled as one granted call at a time.
THEOREM CallsTouchOneKey ==
  ASSUME NEW one \in [Keys -> Records \cup {Nothing}],
         NEW other \in [Keys -> Records \cup {Nothing}],
         NEW u \in Updates, Stored(one, u.id) = Stored(other, u.id),
         Exists(one, u.id) => CarKey[Stored(one, u.id).id] = CarKey[u.id]
  PROVE  /\ UpdateRefused(one, u) <=> UpdateRefused(other, u)
         /\ DeleteRefused(one, u.id) <=> DeleteRefused(other, u.id)
         /\ ~UpdateRefused(one, u) =>
              /\ Stored(UpdateCar(one, u), u.id) = Stored(UpdateCar(other, u), u.id)
              /\ \A k \in Keys \ {CarKey[u.id]} : UpdateCar(other, u)[k] = other[k]
<1> DEFINE k == CarKey[u.id]
           new == Updated(one[k], u)
<1>1. k \in Keys /\ one[k] = other[k]
  BY CarConstants DEF Updates, Stored
<1>2. /\ UpdateRefused(one, u) <=> UpdateRefused(other, u)
      /\ DeleteRefused(one, u.id) <=> DeleteRefused(other, u.id)
  BY DEF UpdateRefused, DeleteRefused, Exists
<1>3. ASSUME ~UpdateRefused(one, u)
      PROVE  /\ Stored(UpdateCar(one, u), u.id) = Stored(UpdateCar(other, u), u.id)
             /\ \A j \in Keys \ {k} : UpdateCar(other, u)[j] = other[j]
  <2>1. one[k] \in Records /\ CarKey[one[k].id] = k
    BY <1>1, <1>3 DEF UpdateRefused, Exists, Stored
  <2>2. new.id = one[k].id
    BY <2>1, UpdatedIsRecord
  <2>3. /\ UpdateCar(one, u) = [one EXCEPT ![k] = new]
        /\ UpdateCar(other, u) = [other EXCEPT ![k] = new]
    BY <1>1, <2>1, <2>2 DEF UpdateCar, Stored
  <2> QED
    BY <1>1, <2>3 DEF Stored
<1> QED
  BY <1>2, <1>3

-----------------------------------------------------------------------------
(* RentalFlow. *)

\* Seen from the car channel, the rental flow only searches: its behaviours are
\* behaviours of TayoCar, so what is proved of TayoCar holds of it.
THEOREM FlowIsCar == FlowSpec => Spec
<1>1. FlowInit => Init
  BY DEF FlowInit
<1>2. [FlowNext]_flowVars => [Next]_carVars
  <2> SUFFICES ASSUME [FlowNext]_flowVars PROVE [Next]_carVars
    OBVIOUS
  <2>1. CASE OnCarChannel
    BY <2>1 DEF OnCarChannel, Next
  <2>2. ASSUME NEW t \in Threads, NEW b \in Members, NEW d \in Dates, RequestCar(t, b, d)
        PROVE  UNCHANGED carVars
    BY <2>2 DEF RequestCar, Ask
  <2>3. ASSUME NEW t \in Threads, NEW c \in Cars, AcceptCar(t, c) PROVE UNCHANGED carVars
    BY <2>3 DEF AcceptCar, Ask
  <2>4. ASSUME NEW t \in Threads, NEW b \in Members, NEW c \in Cars, PayCar(t, b, c)
        PROVE  UNCHANGED carVars
    BY <2>4 DEF PayCar, Ask
  <2>5. ASSUME NEW t \in Threads, Commit(t) \/ Refuse(t) \/ TimeOut(t) PROVE UNCHANGED carVars
    BY <2>5 DEF Commit, Refuse, TimeOut
  <2>6. ASSUME NEW t \in Threads, OpenRoom(t) \/ RoomFails(t) PROVE UNCHANGED carVars
    BY <2>6 DEF OpenRoom, RoomFails
  <2>7. ASSUME NEW call \in late, CommitLate(call) PROVE UNCHANGED carVars
    BY <2>7 DEF CommitLate
  <2>8. CASE UNCHANGED flowVars
    BY <2>8 DEF flowVars
  <2> QED
    BY <2>1, <2>2, <2>3, <2>4, <2>5, <2>6, <2>7, <2>8 DEF FlowNext
<1> QED
  BY <1>1, <1>2, PTL DEF FlowSpec, Spec

\* What a request asks for fits what it is about; a deal is on the ledger before its
\* room is asked for; a late call's borrower has been told of an error.
IsAbout(op, call) == op = "request" <=> call.fn = "CreateSharing"

ReqOK ==
  /\ req = [t \in Threads |-> req[t]]
  /\ \A t \in Threads : /\ req[t] = [op |-> req[t].op, at |-> req[t].at, call |-> req[t].call]
                        /\ req[t].at = "send" => IsAbout(req[t].op, req[t].call)
                        /\ req[t].at = "shared" => req[t].op = "request" /\ Wanted(t) \in placed

LateOK ==
  \A call \in late : call.fn = "CreateSharing" => Deal(call.offer.record) \in failed

FlowInv == ReqOK /\ LateOK /\ SuccessIsShared /\ SharedIsTalkedAbout

LEMMA FlowInvInit == FlowInit => FlowInv
  BY DEF FlowInit, FlowInv, ReqOK, LateOK, SuccessIsShared, SharedIsTalkedAbout, Rest

\* A thread that asks has no deal on the ledger whose room is not open yet.
LEMMA AskInv ==
  ASSUME FlowInv, NEW t \in Threads, NEW op, NEW call, IsAbout(op, call), Ask(t, op, call)
  PROVE  FlowInv'
<1> USE DEF FlowInv, Ask
<1>1. req'[t] = [op |-> op, at |-> "send", call |-> call]
  BY DEF ReqOK
<1>2. \A u \in Threads \ {t} : req'[u] = req[u]
  BY DEF ReqOK
<1>3. ReqOK'
  BY <1>1, <1>2 DEF ReqOK, Wanted
<1>4. UNCHANGED <<rooms, late, placed, succeeded, failed>>
  BY DEF told
<1>5. LateOK'
  BY <1>4 DEF LateOK
<1>6. SuccessIsShared'
  BY <1>4 DEF SuccessIsShared
<1>7. req[t].at # "shared"
  BY DEF Rest
<1>8. \A u \in Threads : req[u].at = "shared" => req'[u].at = "shared" /\ Wanted(u)' = Wanted(u)
  BY <1>2, <1>7 DEF Wanted
<1>9. SharedIsTalkedAbout'
  BY <1>4, <1>8 DEF SharedIsTalkedAbout
<1> QED
  BY <1>3, <1>5, <1>6, <1>9

\* What the end of a request, and a commit, leave of the invariant.
LEMMA EndInv ==
  ASSUME FlowInv, NEW t \in Threads, req' = [req EXCEPT ![t] = Rest], UNCHANGED placed
  PROVE  /\ ReqOK'
         /\ \A u \in Threads \ {t} : req'[u] = req[u] /\ Wanted(u)' = Wanted(u)
<1> USE DEF FlowInv, ReqOK
<1>1. req'[t] = Rest
  OBVIOUS
<1>2. \A u \in Threads \ {t} : req'[u] = req[u] /\ Wanted(u)' = Wanted(u)
  BY DEF Wanted
<1>3. ReqOK'
  BY <1>1, <1>2 DEF Rest, Wanted
<1> QED
  BY <1>2, <1>3

LEMMA FailInv ==
  ASSUME FlowInv, NEW t \in Threads, Fail(t), UNCHANGED <<rooms, placed>>,
         late' \subseteq late \cup (IF req[t].at = "send" THEN {req[t].call} ELSE {})
  PROVE  FlowInv'
<1> USE DEF FlowInv, Fail
<1>1. /\ ReqOK'
      /\ \A u \in Threads \ {t} : req'[u] = req[u] /\ Wanted(u)' = Wanted(u)
  BY EndInv
<1>2. failed \subseteq failed' /\ (req[t].op = "request" => Wanted(t) \in failed')
  OBVIOUS
<1>3. LateOK'
  <2> SUFFICES ASSUME NEW call \in late', call.fn = "CreateSharing"
               PROVE  Deal(call.offer.record) \in failed'
    BY DEF LateOK
  <2>1. CASE call \in late
    BY <1>2, <2>1 DEF LateOK
  <2>2. CASE req[t].at = "send" /\ call = req[t].call
    BY <1>2, <2>2 DEF ReqOK, IsAbout, Wanted
  <2> QED
    BY <2>1, <2>2
<1>4. SuccessIsShared'
  BY DEF SuccessIsShared
<1>5. SharedIsTalkedAbout'
  <2>1. req[t].at = "shared" => Wanted(t) \in failed'
    BY <1>2 DEF ReqOK
  <2> QED
    BY <1>1, <1>2, <2>1 DEF SharedIsTalkedAbout
<1> QED
  BY <1>1, <1>3, <1>4, <1>5

LEMMA CommitInv ==
  ASSUME FlowInv, NEW t \in Threads, Commit(t)
  PROVE  FlowInv'
<1> USE DEF FlowInv
<1> DEFINE call == req[t].call
<1>1. /\ req[t].at = "send" /\ IsAbout(req[t].op, call)
      /\ placed' = IF call.fn = "CreateSharing"
                   THEN placed \cup {Deal(call.offer.record)} ELSE placed
      /\ UNCHANGED <<rooms, late, failed>>
  BY DEF Commit, Take, ReqOK, Succeed, told
<1>2. CASE req[t].op = "request"
  <2>1. req' = [req EXCEPT ![t] = [@ EXCEPT !.at = "shared"]] /\ UNCHANGED succeeded
    BY <1>2 DEF Commit, told
  <2>2. req'[t] = [req[t] EXCEPT !.at = "shared"]
    BY <2>1 DEF ReqOK
  <2>3. \A u \in Threads \ {t} : req'[u] = req[u] /\ Wanted(u)' = Wanted(u)
    BY <2>1 DEF ReqOK, Wanted
  <2>4. req'[t] = [op |-> "request", at |-> "shared", call |-> call]
    BY <1>2, <2>2 DEF ReqOK
  <2>5. Wanted(t)' = Deal(call.offer.record) /\ Wanted(t)' \in placed'
    BY <1>1, <1>2, <2>4 DEF IsAbout, Wanted
  <2>6. placed \subseteq placed' /\ placed' \subseteq placed \cup {Wanted(t)'}
    BY <1>1, <2>5
  <2>7. ReqOK'
    BY <2>1, <2>3, <2>4, <2>5, <2>6 DEF ReqOK
  <2>8. LateOK'
    BY <1>1 DEF LateOK
  <2>9. SuccessIsShared'
    BY <1>1, <2>1, <2>6 DEF SuccessIsShared
  <2>10. SharedIsTalkedAbout'
    BY <1>1, <2>3, <2>4, <2>6 DEF SharedIsTalkedAbout
  <2> QED
    BY <2>7, <2>8, <2>9, <2>10
<1>3. CASE req[t].op # "request"
  <2>1. Succeed(t) /\ UNCHANGED <<placed, succeeded>>
    BY <1>1, <1>3 DEF Commit, IsAbout, Succeed
  <2>2. /\ ReqOK'
        /\ \A u \in Threads \ {t} : req'[u] = req[u] /\ Wanted(u)' = Wanted(u)
    BY <2>1, EndInv DEF Succeed
  <2>3. LateOK'
    BY <1>1 DEF LateOK
  <2>4. SuccessIsShared'
    BY <1>1, <2>1 DEF SuccessIsShared
  <2>5. SharedIsTalkedAbout'
    BY <1>1, <2>1, <2>2 DEF SharedIsTalkedAbout
  <2> QED
    BY <2>2, <2>3, <2>4, <2>5
<1> QED
  BY <1>2, <1>3

LEMMA CommitLateInv ==
  ASSUME FlowInv, NEW call \in late, CommitLate(call)
  PROVE  FlowInv'
<1> USE DEF FlowInv
<1>1. /\ placed \subseteq placed' /\ placed' \subseteq placed \cup failed
      /\ late' \subseteq late /\ UNCHANGED <<rooms, req, succeeded, failed>>
  BY DEF CommitLate, Take, LateOK, told
<1>2. \A u \in Threads : Wanted(u)' = Wanted(u)
  BY <1>1 DEF Wanted
<1>3. ReqOK'
  BY <1>1, <1>2 DEF ReqOK
<1>4. LateOK'
  BY <1>1 DEF LateOK
<1>5. SuccessIsShared'
  BY <1>1 DEF SuccessIsShared
<1>6. SharedIsTalkedAbout'
  BY <1>1, <1>2 DEF SharedIsTalkedAbout
<1> QED
  BY <1>3, <1>4, <1>5, <1>6

LEMMA OpenRoomInv ==
  ASSUME FlowInv, NEW t \in Threads, OpenRoom(t)
  PROVE  FlowInv'
<1> USE DEF FlowInv
<1>1. /\ req[t].op = "request" /\ Wanted(t) \in placed
      /\ rooms' = rooms \cup {Wanted(t)} /\ succeeded' = succeeded \cup {Wanted(t)}
      /\ UNCHANGED <<placed, late, failed>>
  BY DEF OpenRoom, Succeed, ReqOK
<1>2. /\ ReqOK'
      /\ \A u \in Threads \ {t} : req'[u] = req[u] /\ Wanted(u)' = Wanted(u)
  BY <1>1, EndInv DEF OpenRoom, Succeed
<1>3. LateOK'
  BY <1>1 DEF LateOK
<1>4. SuccessIsShared'
  BY <1>1 DEF SuccessIsShared
<1>5. SharedIsTalkedAbout'
  BY <1>1, <1>2 DEF SharedIsTalkedAbout
<1> QED
  BY <1>2, <1>3, <1>4, <1>5

LEMMA FlowInvStep == FlowInv /\ [FlowNext]_flowVars => FlowInv'
<1> SUFFICES ASSUME FlowInv, [FlowNext]_flowVars PROVE FlowInv'
  OBVIOUS
<1>1. ASSUME UNCHANGED rentalVars PROVE FlowInv'
  <2>1. \A u \in Threads : Wanted(u)' = Wanted(u)
    BY <1>1 DEF rentalVars, Wanted
  <2> QED
    BY <1>1, <2>1 DEF rentalVars, FlowInv, ReqOK, LateOK, SuccessIsShared, SharedIsTalkedAbout
<1>2. ASSUME NEW t \in Threads, NEW b \in Members, NEW d \in Dates, RequestCar(t, b, d)
      PROVE  FlowInv'
  <2>1. PICK k \in GetAvailableCars(cars, Places, d), lender \in Owners, price \in Amounts :
          Ask(t, "request", [fn |-> "CreateSharing",
                             offer |-> Offer(cars[k].id, lender, b, price)])
    BY <1>2 DEF RequestCar
  <2> QED
    BY <2>1, AskInv DEF IsAbout
<1>3. ASSUME NEW t \in Threads, NEW c \in Cars, AcceptCar(t, c) PROVE FlowInv'
  BY <1>3, AskInv DEF AcceptCar, IsAbout
<1>4. ASSUME NEW t \in Threads, NEW b \in Members, NEW c \in Cars, PayCar(t, b, c)
      PROVE  FlowInv'
  BY <1>4, AskInv DEF PayCar, IsAbout
<1>5. ASSUME NEW t \in Threads, Refuse(t) PROVE FlowInv'
  BY <1>5, FailInv DEF Refuse
<1>6. ASSUME NEW t \in Threads, TimeOut(t) PROVE FlowInv'
  BY <1>6, FailInv DEF TimeOut
<1>7. ASSUME NEW t \in Threads, RoomFails(t) PROVE FlowInv'
  BY <1>7, FailInv DEF RoomFails
<1>8. CASE UNCHANGED flowVars
  BY <1>1, <1>8 DEF flowVars
<1> QED
  BY <1>1, <1>2, <1>3, <1>4, <1>5, <1>6, <1>7, <1>8, CommitInv, CommitLateInv, OpenRoomInv
     DEF FlowNext

\* A request that succeeded has its deal on the ledger and in a room, and no room is about
\* a deal that was never on the ledger, whatever calls were late.
THEOREM RequestsAreWhole == FlowSpec => []SuccessIsShared
<1>1. FlowInv => SuccessIsShared
  BY DEF FlowInv
<1> QED
  BY <1>1, FlowInvInit, FlowInvStep, PTL DEF FlowSpec

\* A deal on the ledger without a room is being served, or its borrower knows of an error.
THEOREM NoSilentSharing == FlowSpec => []SharedIsTalkedAbout
<1>1. FlowInv => SharedIsTalkedAbout
  BY DEF FlowInv
<1> QED
  BY <1>1, FlowInvInit, FlowInvStep, PTL DEF FlowSpec
==============================================================================
