# Tayo: a TLA+ model of the car-sharing system

Tayo is a peer-to-peer car rental service: a Spring backend (`src/Tayo-Backend`)
in front of a Hyperledger Fabric network (`src/network`) with two chaincodes
(`src/chaincode`), and of Hyperledger Indy (`src/libindy`) for verifiable
credentials. Members sign up, prove by a credential that a car is theirs,
register it on the *car* channel, ask for each other's cars and pay on the
*sharing* channel, and chat about it.

Paths below are relative to
`src/Tayo-Backend/src/main/java/pnu/cse/TayoTayo/TayoBE/` unless they start
with `src/`.

## 1. Inventory

| Component | State | Operations | Hard behaviour | What makes it correct |
|---|---|---|---|---|
| tayosharing chaincode (`src/chaincode/tayosharing/go/tayosharing.go`) | world state of channel `sharing`: sharings and wallets in one key space | CreateSharing, UpdateSharingStatus, ProcessTransaction, CreateWallet, UpdateUserWallet, Deposit, Withdraw, queries | calls endorsed on old state, blind writes, rich queries, hashed keys that collide, reads that miss the call's own writes | each commit is a call run alone; no overlap overdraws a wallet; a payment moves exactly its price |
| tayocar chaincode (`src/chaincode/tayocar/go/tayocar.go`) | world state of channel `car` | CreateCar, UpdateCar, DeleteCar, searches | blind writes, ids formatted to colliding keys, zero values that mean "left out" | a search shows the dates last given; an update never changes whose car it is |
| `connect/TayoConnect.java` | static settings; a contract per request | constructor, submit, evaluate | statics written and read by concurrent constructors; client-side deadlines | a request signs with the identity of its own case; every caller is answered |
| `model/ConnectState.java`, `config/StompHandler.java` | maps session→user, user→room, room→count | addUserRoom, deleteUserRoom, CONNECT, DISCONNECT | read-modify-write in several map operations, nulls unboxed half-way, `==` on boxed ids | the count of a room is the number of users who have it open |
| chat and notifications (`service/ChatService.java`, `controller/MessageController.java`, `service/NotificationService.java`) | tables ChatRoom, ChatMessage, Notification | createChatRoom, getMessages, sendMessage, createNotification, leaveRoom | the read flag is decided from the count before the transaction that stores the row | a row is read when its addressee has seen it |
| members (`service/MemberService.java`, `service/MyPageService.java`) | table Member (in memory), Indy wallets, Fabric wallets | join, login, deleteMember, changes of profile | three stores without a common transaction, swallowed exceptions, restarts | one member per email; a welcomed member has both wallets |
| car credentials (`service/CarService.java`, `util/PoolAndWalletManager.java`) | one Indy wallet per member, map of last offers | createVC, getVC, postCar | calls that are not awaited, a wallet that one handle may open, a map lost at restart | a registered car is the one of a credential its owner holds; wallets get closed |
| rental flow (`controller/CarController.java`) | none of its own | requestCar, acceptCar, payCar | changes in two channels and the database, one after the other, and calls that commit after their deadline | a success is a sharing with its chat room, and no sharing lacks its room unnoticed |
| start-up of Indy (`PoolAndWalletManager` constructor) | pool config, steward and Tayo wallets, maps of their DIDs | open-or-create, registration of Tayo's DID | a stop between any two calls, one catch for every failure, a registration tried once | each wallet keeps one identity, the process uses it, a start comes up |
| libindy (`src/libindy/include`) | wallets, pool handle; the ledger and its nodes | the calls of the headers | one handle per wallet, nodes that lag, writes the ledger refuses | what the headers say of each call |
| authentication (`config/security`), web and S3 configuration, DTOs, exceptions, repositories | none that changes between requests | | | |
| network scripts and yaml, committed wallets | deployment and data | | | |

How they interact: a request thread of the backend calls one or more of the
stores in order. Every Fabric call constructs a `TayoConnect`; sign-up and
registration touch the database, Indy and Fabric in one method; chat requests
and web socket events share `ConnectState`. Nothing but the database has
transactions, and they span nothing else.

## 2. Modules

| Module | Models | Composes |
|---|---|---|
| `TayoSharing` | each function of the sharing contract, as an operator from a world state to an outcome: granted or refused, keys read, records written | |
| `SerialSharing` | **abstract**: the sharing channel changes by one contract call run alone | TayoSharing |
| `SharingLedger` | requests on the sharing channel: endorse, order, validate, commit, deadlines, answers | TayoSharing; implements SerialSharing |
| `SharingLedgerProofs` | theorems about it | |
| `TayoConnect` | the constructor and its static fields, statement by statement | |
| `TayoConnectProofs` | theorems about it | |
| `ConnectState` | the presence maps, one map operation a step, and the STOMP events | |
| `IdealChat` | **abstract**: who has a room open has read what is addressed to it there, and the room list is current | |
| `ChatRooms` | rooms, messages and notifications, one transaction a request | extends ConnectState; implements IdealChat while requests do not overlap, of users who keep to their rooms |
| `PresenceProofs` | theorems about ConnectState under it | |
| `ChatRoomsProofs` | theorems about the rows | extends PresenceProofs |
| `TayoCar` | the car contract's functions, its search, one committed call a step | relies on SharingLedger's result for calls that overlap |
| `Membership` | sign-up and departure over database, Indy and Fabric, restarts | |
| `MembershipProofs` | theorems about it | |
| `RentalFlow` | requestCar, acceptCar and payCar over the car channel, the sharing channel and the chat rooms | extends TayoCar; INSTANCE SerialSharing |
| `RentalFlowProofs` | theorems about it and about TayoCar | |
| `IndyWallet`, `IndyLedger`, `Anoncreds` | libindy, one operator a call, named and documented as in its headers | |
| `CarRegistration` | createVC, getVC and postCar against one wallet, with Indy's queue of unawaited commands, and the VC service's definitions on the ledger | INSTANCE Anoncreds, IndyLedger |
| `CarRegistrationProofs` | theorems about it | |
| `ServiceIdentity` | **abstract**: a wallet's DID is an identity, adopted once and used while the process runs | |
| `WalletStartup` | the constructor of PoolAndWalletManager, a call a step, with stops, lost answers, people and the pool's trustee | extends IndyWallet, IndyLedger; implements ServiceIdentity, once for each wallet |
| `WalletStartupProofs` | theorems about it | |
| `MC...` | small instances for TLC | |

### TayoSharing and SharingLedger

A Fabric peer *simulates* a call against the committed state; the read set and
write set travel through the orderer and are applied at commit, unless a key
that was read by name has been written since (`stale`), in which case the
transaction is invalid. `Endorse` and `Refuse` are the simulation with the
contract's code (`Simulate`); `Submit`, `Lose`, `Invalidate` and `Commit` are
Fabric's, external, modelled from what the client library waits for. `TimeOut`
and `Reply` are the deadlines of `TayoConnect.java:55-60` and the answer,
including the balance query after a deposit or a withdrawal, which fails for a
balance `Integer.parseInt` does not read. `Release` lets the caller make its
next call, or repeat this one while the first may still commit.

Three facts about the contract decide the model. Sharings and wallets share one
key space without prefixes; a key is `"%.0f"` of a float made from a hash, so
`WalletKey` and `PayKey` are arbitrary functions. `GetState` does not return
the transaction's own writes, so a payment's withdrawal does not see its
deposit (`Then`: the last write of a key wins). `UpdateSharingStatus` finds its
records by a rich query, whose result validation does not repeat: a sharing
created meanwhile is not updated. That is the one way in which a commit is less
than a whole call, and `SerialSharing!Partial` says so. The query compares the
stored car with the rounded text of the id it is given, which may be another
car's, or no car's: `RoundedCar`. `Amounts` (of deposits and withdrawals) and
`Charges` (of payments) have both signs: neither
`dto/request/MemberRequest.java:136-138` nor the contract refuses a negative
number.

### TayoConnect

The ten assignments of the constructor and the eight places where the fields
are read, in the order the code has them. A setting taken from the thread's own
`caseConfig` is written in one step; a right side that reads `ROLE` or
`CRYPTO_PATH` is evaluated in a step before the write. A certificate path made
of two roles does not exist (`NoSuchFile`).

### ConnectState and ChatRooms

A thread's step is one operation of a `ConcurrentHashMap`. `call[t]` holds the
method's locals. The history variable `place` is where a user's last addUserRoom
or deleteUserRoom that returned put it. A database transaction loads, computes and
commits in separate steps, under read committed.

Two variables describe the environment. They are chosen in the initial state and
never change, so that every run and every theorem covers all four cases:

* `alone`: requests come one after the other, or those of different users overlap.
  The requests of one user do not overlap: its client waits for the answer (a
  double click, or a socket that drops while a request runs, is outside the model,
  see section 7).
* `atHome`: clients keep to their users' own rooms, and send from the room they
  have open, or any user opens, and writes in, any room. The server checks neither:
  `ChatService.getMessages` (153-164) hands whatever user and room it is given to
  addUserRoom, `MessageController.sendMessage` (30-43) takes sender and room from
  the client. Whoever is not the lender is taken for the borrower (`Side`).

What a property says of `alone` or `atHome` behaviours only, it names. Not at home,
CountsPresence, NothingFails, ReadIffSeen and NothingUnreadInside fail without any
overlap (section 8); what is left, and holds of every behaviour, is UserStaysPut,
RowsOK, ReadByAddressee with its exception, and LastIsNewest in turn.

A room's lender is null when no member has the id the request gave
(`ChatService.java:41`). Such a room is opened and entered; then getMessages and
sendMessage throw (`NullLender`), the transaction is rolled back and the reader
stays counted.

### TayoCar

Calls are single steps: Fabric orders the calls of a channel and invalidates
those that read by name what has changed, which `SharingLedger` shows for the
sharing channel, and the car contract has no function that both queries and
writes: each call reads and writes under the one key it stores at
(`CallsTouchOneKey`). The list of dates of an update reaches the contract as
Java prints it: only an empty list is JSON, so an update either empties the
dates or is refused. The three clauses "empty string", "zero" and "false" that
stand for a field left out are `NoValue` and `available`.

### RentalFlow

The sharing channel is used as `SerialSharing` states it, which is what
`SharingLedgerProofs` proves of the detailed one; the refinement stands here in
place of four phases per call. `Take` is that channel taking a call, and so no
property of its own. A requestCar names a car its client has found, any lender and
any price; a payment names any car, lender and price: the server compares none of
them with the car's record. A request is at `send` until the channel answers:
`Commit`, `Refuse` (an endorsement that fails), or `TimeOut`, after which its call
stays in `late` and may commit at any later moment (`CommitLate`). A requestCar whose
sharing is committed is at `shared` until `createChatRoom` commits (`OpenRoom`) or
throws (`RoomFails`). The car channel changes meanwhile by TayoCar's own actions.
`Offer` is the sharing requestCar makes: its key is made from the car's id by another
hash than the one a payment looks under (`SharingKey` and `PayKey`). `rooms` are
named by the deal their first message is about; the lender's side of a room is null
when the lender is no member.

### Membership

`join` is one step per store it touches, in order: check, Indy wallet, row (in
an open transaction), Fabric wallet, commit. Any exception after the check is
swallowed. `CreateFabricWallet(t, applied, answered)` covers a ledger that
refuses, loses the call, or commits it and loses the answer. A restart empties
the database (`application.yml`: H2 in memory, `ddl-auto: create`), restarts
the ids, and keeps both kinds of wallets.

### libindy

The library is a binary; `src/libindy/include` states what each call promises,
and the operators of `IndyWallet`, `IndyLedger` and `Anoncreds` are that text:
the errors a call returns, in which order of precedence the model gives them,
and what it changes. Behaviour the headers leave to the ledger's nodes (who may
write what, when a node has caught up, an author agreement) is external. Only
what the backend or the people who run it need is there: no payments,
non-secrets, caches, metrics, pairwise, blob storage.

### CarRegistration

A request is the steps `start`, `opened`, `offered`, `defined`, `listed`,
`requested`, `presented`, `verified`. `proverStoreCredential` and `closeWallet`
are not awaited by the code: they go to the wallet's `queue`, which Indy runs in
order, after the request may have been answered. Any awaited call may throw.
`Restart` forgets the offers, the handles and the queue. The VC service (not in
`src/`) publishes a schema and definitions and offers a definition whether or
not the ledger took it; a read goes to one node, which may lag for ever.
`ensurePreviousRequestApplied` reads up to three times (`ReadCredDef`), createVP
reads once (`IsPopulated`).

### WalletStartup

`at` is the call the constructor is at, `which` the wallet it is about; the
same steps serve the steward and Tayo. Every exception inside the two `try`
blocks leads to the creation of the wallet (or to the configuration of the
pool), every other one ends the process (`Die`) with its error in `exit`. The
process may be stopped between any two calls (`Stop`). While it is down people
use libindy themselves: they back a wallet up, restore or delete it, remove the
pool's configuration, change the steward's key in its three steps, register
Tayo's DID by hand or set the network up anew. The trustee changes rules at any
time. `cut` is a history of the DIDs whose one registration was interrupted,
lost or refused.

## 3. Runs

Every passing run is exhaustive on its instance.

| Run | Checks | Instance, and why it is enough |
|---|---|---|
| `ledger` | TypeOK, OverdraftIsAsked, Serializable, PaymentIsATransfer, DealsChangeAsAsked | two concurrent requests repeated without end, two members, one car, two sharings a request can name under one key (at 50000 and 60000), deposits and withdrawals of 60000, payments of 60000 and of -120000, balances from -20000 to 100000: two overlapping calls are what a conflict needs, 100000 pays for one rental and not for two, a negative payment overdraws a full wallet, and one deal can take another's place while a call that found the other is on its way |
| `ledger_live` | EveryRequestAnswered, under fairness; OverdraftIsAsked | two requests, one member, deposits and withdrawals of 60000 and of -120000 |
| `unpayable` | ConfirmedIsPayable is **violated** | the backend's sharing id instead of the contract's: one sharing is requested and confirmed, under a key no payment looks at |
| `connect` | TypeOK, AgreedIsOwn | two threads, all three cases, constructing over and over |
| `connect_mixed` | AcceptedSignsAsAsked is **violated** | the same |
| `chat` | TypeOK, CountsPresence, NothingFails, UserStaysPut, RowsOK, ReadIffSeen, LastIsNewest, NothingUnreadInside, ReadByAddressee, ChatsInTurn (refinement of IdealChat) | two members and an outsider, two rooms (one whose boxed id is cached and whose lender is null, one not), one socket, two threads: moves between rooms, re-entry, a disconnect, and one request overlapping another at every step. Rows: five in turn and at home (both rooms and a message), three with one of the two, two with neither |
| `chat_unseen` | ReadMeansSeen is **violated** | one room |
| `rental` | TypeOK, FoundAsAsked, SuccessIsShared, SharedIsTalkedAbout, CredentialDataFixed | two threads, a member who borrows, registers and lends, an owner who never signed up, three cars of which two share a key and one comes with the deployment, one date, two calls of the sharing channel among any number on the car channel: one late call beside one on time is what a wrong answer needs. A third call, a second date or a second member each exceed five minutes |
| `members` | TypeOK, OneRowPerEmail, WelcomedIsReady, FirstKeepsWallet | two threads, three emails, three ids of which two share a key, one restart |
| `members_wallets` | MembersHaveWallets is **violated** | the same, no restart |
| `registration` | HandleStaysOpen, RegisteredAsHeld, HeldIsPublished, ListIsComplete, NoHandleIsLost, WalletsAreClosed | two threads, one member, two credentials, two definitions one of which the ledger may not take, one restart. One member is enough: members share nothing but a map with an entry for each |
| `startup` | TypeOK, OneIdentity, AnchoredUnlessCut, KeepsIdentity (refinement of ServiceIdentity), ComesUp (liveness) | one lost answer of the pool, two stops, three doings of people or the trustee, keys for two networks: a stop half-way through a wallet, a repair, and a stop in the repaired start |

Bounds: `MinMoney`, `MaxMoney` (balances explored), `MinCount`/`MaxCount` (counts with
which a room may be entered; overlapping requests may drive a count off),
`MaxRows`, `MaxId`, `MaxEra` (restarts), `MaxRef` (credentials), `MaxRestart`,
`MaxLost` (definitions the ledger does not take), `MaxCalls` (of the sharing
channel), `MaxFaults`, `MaxStops`, `MaxHelp`. They stand in guards. Deadlock
checking is off where the bounds stop the system: in the runs of MCMembership,
with all ids given out there is nobody left to sign up, and in `startup`, a
backend that is up does nothing more once `MaxStops` and `MaxHelp` are spent.

Symmetry is used for request threads, in runs without liveness only.

What the violated properties show:

* **ConfirmedIsPayable** (`tayosharing.go:133`). The backend stores a sharing
  under an id made by `UUID.nameUUIDFromBytes` (`dto/request/CarRequest.java:22`);
  the payment computes another id from the car and finds nothing, so a confirmed
  sharing is never paid.
* **AcceptedSignsAsAsked** (`TayoConnect.java:39`). Two constructors at once
  write the same static fields; a lender's request can be signed by the borrower.
* **ReadMeansSeen** (`MessageController.java:35`). The count is read before the
  message is stored; a reader who leaves in between has a read message it was
  never given.
* **MembersHaveWallets** (`MemberService.java:78`). The exception of a refused
  or lost Fabric wallet is swallowed and the transaction commits the member.

## 4. Fairness

`SharingLedger!FairSpec` is weak fairness of the client's side only: a loss
noticed, a deadline that passes, an answer given. The deadlines are set in
`TayoConnect.java:55-60` for each stage. Nothing makes the orderer or the peers
deliver. `WalletStartup!FairSpec` is weak fairness of `Boot`, people start a
backend that is down, and of `Step`, a call of libindy returns or throws; that
people ever repair a wallet is not assumed. `CarRegistration!FairSpec` is weak
fairness of each serving thread and of Indy's command queue: an awaited call
returns or throws. For Indy that is its executor's contract; for the credential
service it is an assumption, since the `RestTemplate` of `PoolAndWalletManager`
has no timeout (a hazard listed without a property). Requests need not come in
either.

## 5. Proofs

For every value of the constants that satisfies the named assumptions
(each module's, named below; TLC evaluates them in the runs).

`SharingLedgerProofs` - any members, cars, requests, and any key functions
(`SharingConstants`, `LedgerConstants`):

* `TypeCorrect` from `TypeInv`: TypeOK, and a transaction in flight has a real
  call whose simulation was granted.
* `LedgerIsSerial`: SharingLedger implements SerialSharing. `FreshInv` says that
  the outcome of a transaction whose reads are not stale is the outcome its call
  would have now (`FreshOutcome`; for a status update, that the records it found
  are still found and unchanged). Every contract function is shown to depend on
  nothing but the keys in its read set, and a commit to make them stale for the
  others. The initial state maps to the initial state, a commit to `Whole` or
  `Partial`, every other step to a stutter.
* `OverdraftsAreAsked` from the same invariant: a commit is its call run alone, and
  alone a call leaves a wallet below zero, and lower than it was, only if it carries
  a negative number itself (or copies an overdrawn wallet). That no balance is
  negative is no theorem: a request may ask for just that.
* `PaymentsTransfer` from the same invariant: the status and the balances a
  payment saw are those it commits on.
* `DealsAreKept`, also from FreshInv: deposits, withdrawals and payments write
  wallets only, so a sharing changes by a new request that stands in its place or
  by a status given to the deal that stands there *now*. A status update writes
  back the whole record its query found; that the record is still the one there
  is what the invariant adds: the keys found are in the read set, even if what
  else the query would find by then is not.

`MembershipProofs` - any number of threads, emails, ids, keys and restarts
(`MembershipConstants`):

* `TypeCorrect`, `EmailsAreUnique`, `WelcomeMeansReady`, `WalletsAreKept` from
  one invariant. OneRowPerEmail is not inductive, since the check for a
  duplicate does not see uncommitted rows; `EmailsHaveIndy` and `Apart` say that
  a sign-up past its Indy wallet shares its email with no member and no other
  such sign-up, which the wallet's creation guarantees. `SuccessHasWallet`
  carries the Fabric wallet from the moment it is made to the answer.

`RentalFlowProofs` - any cars, keys, members, threads, and any number of calls
(`CarConstants`, `RentalConstants`):

* `CarTypeCorrect`, `ShownAsAsked`, `DataIsFixed` about TayoCar, from `CarInv`:
  TypeOK, and under each key the dates are among those last given. The
  second needs the first: an update writes under the key of the record's own id,
  not of the id it was called with, and only TypeOK says they are the same.
* `FlowIsCar`: FlowSpec implements TayoCar's Spec, so the three hold of the flow.
* `RequestsAreWhole`, `NoSilentSharing` from `FlowInv`. Neither property is
  inductive: `ReqOK` says that a request at `shared` has its deal on the ledger,
  `LateOK` that the caller of a late createSharing was told of an error.
* `CallsTouchOneKey`: what a call of tayocar answers, and what it leaves under its
  key, hangs on what is under that key only, and it changes nothing else. This is
  why TayoCar may run each call in one step.

`WalletStartupProofs` - any number of keys, faults, stops and doings of people
(`StartupConstants`, `WalletConstants`, `LedgerConstants` of the libindy modules):

* `Typed`, `DidsAreUnique`, `TayoIsAnchored` from `Inv`, which is TypeOK and
  four parts. `ContentsOK` speaks of the backups too: what is restored was a
  wallet once. `ProcessOK` says what the process knows at each step, that the
  wallet it is about to give a DID has none. `AnchorOK` says of every DID in
  Tayo's wallet *or its backup* that it is registered under its own key, about
  to be, or cut. `UsedOK` keeps the keys of seed and trustee from being made again.
* `StartKeepsIdentity`: WalletStartup implements ServiceIdentity under two
  refinement mappings.

`PresenceProofs` - any users, rooms (of small ids or large, with a lender or without),
sessions and threads (`PresenceConstants`, `ChatConstants`), about ConnectState as
ChatRooms uses it:

* `PresenceTyped`, `StaysPut`, `CountedRight`, `NeverNull` from `PresenceInv`. Its
  heart is `ThreadOK`: `CallOK` says which methods pass through which steps,
  `PlaceOK` where a call's user is while it runs, and `CountOK` that, in turn, each
  count is right, or right but for the one user that is being moved, and that what
  the call has read of it is still so. `Apart` carries it over other users' steps.
  CountedRight and NeverNull are about users in turn who keep to their rooms, and
  need both: deleteUserRoom leaves a 1 or nothing, which is one less only while a
  room holds its two sides. StaysPut is about all behaviours.

`TayoConnectProofs` - any number of threads and constructors, with no assumption:

* `SettingsTyped`, `ContractsAgreed` from `ConnectInv`. A thread's fields are
  overwritten by others at any time, so the invariant is about agreement: the
  constructors that run are all in one chain of overlaps (`OneChain`), hence
  agree on a setting or all do not (`SameSetting`), and every field a constructor
  has passed still holds its own setting where they agree, whoever wrote it last
  (`WrittenOK`). That a failure means different roles follows, a path made of one
  role being the role.

`CarRegistrationProofs` - any members, threads, credentials, definitions and
restarts (`RegistrationConstants`, and `DistinctValues`: null is none of them):

* `HandlesStayOpen`, `RegisteredCarsAreHeld`, `HeldArePublished`,
  `ListsAreComplete` from `RegInv`. The calls nobody waits for are what makes it
  hard: `StoreOK` says that a store in Indy's queue finds its handle open, since
  no close of it stands before the store, and `HandleOK` that a request's own
  handle has no close at all. `AnsweredOK` says of each pair createVC has
  answered that the wallet lists it or the queue has its store, so that a list,
  which waits for the queue, misses nothing.
* `HandlesAreKept` from `KeptInv`: an open wallet has a request that holds its
  handle and is not done, or a close in Indy's queue. It is the part of
  WalletsAreClosed that needs no fairness; each way out of a request, every
  exception among them, must close.

`ChatRoomsProofs` - any number of users, rooms, sessions, threads and rows
(`PresenceConstants`, `ChatConstants`: a room's members are its borrower and, when
it has one, its lender):

* `RowsAreRows`, `ReadMeansGiven`, `NewestShown`, `OnlyAddresseeReads` from
  `ChatInv`, which contains `PresenceInv`. The properties speak of committed rows
  and of moments of rest, the invariant of all others: `RowOK` says that a row
  inserted and not committed has an id no committed or inserted row has and, while
  requests do not overlap, that it is newer than every message there and, at home,
  that its read flag is still true of the room. `HeldOK` adds that what getMessages
  has loaded is addressed to its reader or, away from home, to the borrower, and that
  the count a sender has read is what the room holds, which is where `CountOK` of
  PresenceProofs is needed.
* `InsideIsRead` and `ChatIsIdeal` (ChatRooms implements IdealChat while requests do
  not overlap, of users who keep to their rooms) from `TurnInv`. `GivenOK` is the
  promise, stated of `place`, where the last finished request put a user; `TurnOK`
  says that what a request has in hand is all its reader is still owed, so that its
  commit is one step of IdealChat, whatever steps it took. `TogetherIs` is where two
  members a room are needed: a count of two means that the addressee is there only if
  nobody else can be.

Every safety property that a passing run checks is proved. Only model-checked is
liveness (EveryRequestAnswered, WalletsAreClosed, ComesUp), which the prover does
not reach.

## 6. Plan

What would come next:

1. Requests of one user that overlap (a dropped socket during getMessages) in
   ConnectState, and the window in which a reader enters while a message is
   stored.

## 7. Not modelled, and why

* Authentication, Swagger, S3, STOMP delivery, DTOs, exceptions, repositories:
  configuration, carriers of data or pure I/O. They keep no state.
* Queries that only read (getChatRooms, getNotifications, getDetailCar, the
  contracts' queries that no write depends on), login, and the changes of
  password and introduction, each of which touches one row in one transaction.
* Network scripts and configuration: a deployment that runs once, mostly
  Fabric's test network.
* Which error code a failed request carries.
* Two requests of one user at once (section 2), planned.
* libindy behind its headers, the Indy nodes and the VC service: they have no
  source here. What the headers promise of unused calls (payments, non-secrets,
  caches, metrics, pairwise, blob storage) has no user to model.
* A room with oneself: nothing refuses a request for one's own car
  (`controller/CarController.java:142`). In ChatRooms borrower and lender differ.
* A requestCar for a car its client has not found, or with another status than the
  one for a new request: the server would store either. One key (`SharingKey`) is
  made of the car's id in any case, so neither adds a way for a sharing to lack its
  room.
* That a request repeated after its deadline takes effect twice is allowed by
  SharingLedger (`TimeOut`, `Release`) and excluded by no property: it is what the
  code does.
* The pool answers in the end: WalletStartup's lost answers are bounded
  (`MaxFaults`), so ComesUp is about a pool that is reached some time.

## 8. Divergences that no run is kept for

Met while reading and modelling; the models do what the code does, and their
properties are stated around it.

Sharing channel (`src/chaincode/tayosharing/go/tayosharing.go`)

* A negative number is refused by nobody: `dto/request/MemberRequest.java:136-138`
  and `dto/request/CarRequest.java:53` take any number, and performTransaction
  compares the balance for withdrawals only (`:271`). A negative deposit, or a
  payment of a negative price, overdraws a wallet; OverdraftIsAsked says that
  nothing else does.
* A status update compares the stored car id with the rounded text of the one it is
  given (`:86`), and ids are arbitrary doubles (`CarService.java:245-254`): most find
  nothing, and some may find another car's sharings.
* Members 2 and 19 get the key `"0"` and so one wallet (`:408`); in a payment
  between two such members the withdrawal's write replaces the deposit's
  (`:141`, `:148`), because neither sees the other.
* A paid sharing stays confirmed (`:140`), so a repeated payment, or one
  repeated after a timeout, is paid again.
* A second request for a car replaces the first (`:74`), also a confirmed one.

Car channel (`src/chaincode/tayocar/go/tayocar.go`)

* Two ids that print as one key: the later registration replaces the earlier
  car (`:100`).
* A car can never be withdrawn (`:278`); dates can be emptied and never changed,
  since a non-empty list does not arrive as JSON (`TayoConnect.java:142`); an
  update without dates or price resets them (`:258-281`).
* A deletion that is granted deletes nothing: DelState is called with
  `fmt.Sprintf("%.0f", carID)` of a string (`:115`), which is no car's key, where
  the comment says "차량 삭제" (`:103`) and the controller answers that the car is
  deleted (`controller/CarController.java:115`).

Rental flow

* A sharing whose chat room fails stays on the ledger, and so does one whose
  caller was told of a deadline; its borrower knows of the error only
  (`controller/CarController.java:161-165`).
* A lender who is no member is stored as null; the request succeeds and nobody
  is on the other side of the room (`service/ChatService.java:41`).
* A date that was accepted is still found: accepting changes the sharing
  channel only (`controller/CarController.java:182`), and the deletion of the
  date that `TayoConnect.java:173-175` speaks of is not there.

Presence and chat

* Two requests of one user at once both count it (`ConnectState.java:48`); two
  users entering at once may be counted as one, after which a DISCONNECT throws
  and the user stays in the room (`ConnectState.java:77`).
* A reader who enters while a message is stored leaves it unread
  (`MessageController.java:43`).
* getMessages does not ask whether its user is a member of the room
  (`service/ChatService.java:153-164`). An outsider is counted there, so that a
  message may be stored read with its addressee away, or unread with its addressee
  inside (three are counted, `MessageController.java:35`); when one of three leaves,
  deleteUserRoom writes 1 (`ConnectState.java:80`), and the next moves drive the
  count to a null. The outsider is taken for the borrower, and the borrower's
  unread messages are marked (`service/ChatService.java:178-198`).
* sendMessage does not ask who sends or from where (`MessageController.java:30-43`):
  a message to a room nobody has open unboxes a null count at line 35.
* A getMessages of a room without a lender throws (`service/ChatService.java:178`)
  after addUserRoom (164): its user is in the room, and counted, all the same.

Members and registration

* The wallets of a member who left stay, so the email cannot sign up again
  (`MyPageService.java:75`).
* createVC answers success whether or not the credential gets stored
  (`CarService.java:108`).
* After a restart a held credential cannot be presented until another one has
  been offered (`PoolAndWalletManager.java:273`).
* A wrong wallet password ends in the NullPointerException of the `finally`
  (`CarService.java:117`), and `FAIL_VERIFY_VP` is swallowed by the method's own
  `catch` (`CarService.java:268`).
* createVC answers before the credential is stored, so that one answered just
  before a stop is lost (`CarService.java:108`).
* createVP does not close its search when it finds no credential
  (`PoolAndWalletManager.java:320-348`).

Start-up (`util/PoolAndWalletManager.java`)

* A wallet that was created and not given its DID keeps every later start down:
  it opens, has no DID, and cannot be created again (`:105`).
* The registration of Tayo's DID is tried when the DID is made and never again
  (`:146`); a write the ledger rejects is logged and counts as done (`:505`).
* Whatever kept the pool from opening, the catch configures it; of a configured
  pool that did not answer, the error seen is that it exists (`:66`).
