------------------------- MODULE SharingLedgerProofs -------------------------
(***************************************************************************)
(* Proofs about SharingLedger for every choice of its constants: every     *)
(* hash (injective or not), every set of members, cars, offers, amounts    *)
(* and concurrent requests.                                                *)
(***************************************************************************)
EXTENDS SharingLedger, TLAPS

(***************************************************************************)
(* The contract functions, one lemma each: what they return is well-formed *)
(* whatever the world state holds.                                         *)
(***************************************************************************)
LEMMA RefusedIsOutcome ==
  ASSUME NEW K \in SUBSET Keys
  PROVE  IsOutcome(Refused(K))
BY DEF IsOutcome, Refused, NoWrites

LEMMA AsWalletType ==
  ASSUME NEW rec \in Records
  PROVE  AsWallet(rec) \in Wallets
BY SharingConstants DEF AsWallet, Records, Wallets, Sharings, Absent

LEMMA PutIsOutcome ==
  ASSUME NEW K \in SUBSET Keys, NEW k \in Keys, NEW rec \in Records
  PROVE  IsOutcome(Done(K, Put(k, rec)))
BY DEF IsOutcome, Done, Put

LEMMA PerformTransactionType ==
  ASSUME NEW db \in [Keys -> Records], NEW u \in Users, NEW a \in Int,
         NEW w \in BOOLEAN
  PROVE  IsOutcome(PerformTransaction(db, u, a, w))
<1> DEFINE k == WalletKey[u]
           wallet == AsWallet(db[k])
           paid == [wallet EXCEPT !.money = IF w THEN @ - a ELSE @ + a]
<1>1. k \in Keys
  BY SharingConstants
<1>2. wallet \in Wallets
  BY <1>1, AsWalletType
<1>3. a \in Int
  BY SharingConstants
<1>4. paid \in Records
  BY <1>2, <1>3 DEF Wallets, Records
<1>5. IsOutcome(Refused({k})) /\ IsOutcome(Done({k}, Put(k, paid)))
  BY <1>1, <1>4, RefusedIsOutcome, PutIsOutcome
<1> QED
  BY <1>5 DEF PerformTransaction

LEMMA ProcessTransactionType ==
  ASSUME NEW db \in [Keys -> Records], NEW c \in Cars, NEW l \in Users,
         NEW b \in Users, NEW p \in Int
  PROVE  IsOutcome(ProcessTransaction(db, c, l, b, p))
<1>1. PayKey[c] \in Keys
  BY SharingConstants
<1>2. IsOutcome(Deposit(db, l, p)) /\ IsOutcome(Withdraw(db, b, p))
  BY PerformTransactionType DEF Deposit, Withdraw
<1>3. IsOutcome(Transfer(db, l, b, p, {PayKey[c]}))
  BY <1>1, <1>2 DEF Transfer, IsOutcome, Done, Refused, NoWrites, Then
<1> QED
  BY <1>1, <1>3 DEF ProcessTransaction, IsOutcome, Done, Refused, NoWrites

LEMMA UpdateSharingStatusType ==
  ASSUME NEW db \in [Keys -> Records], NEW c \in Cars, NEW s \in Statuses
  PROVE  IsOutcome(UpdateSharingStatus(db, c, s))
<1> DEFINE rows == SharingsOf(db, c)
<1>1. rows \subseteq Keys
  BY DEF SharingsOf
<1>2. \A k \in rows : [db[k] EXCEPT !.status = s] \in Records
  BY DEF SharingsOf, Records, Wallets, Sharings, Absent
<1> QED
  BY <1>1, <1>2, RefusedIsOutcome
  DEF UpdateSharingStatus, IsOutcome, Done, Refused, NoWrites

LEMMA CreateWalletType ==
  ASSUME NEW db \in [Keys -> Records], NEW u \in Users
  PROVE  IsOutcome(CreateWallet(db, u))
<1>1. WalletKey[u] \in Keys
  BY SharingConstants
<1>2. [type |-> "wallet", id |-> WalletKey[u], user |-> u, money |-> InitialMoney] \in Records
  BY <1>1 DEF Records, Wallets, InitialMoney
<1> QED
  BY <1>1, <1>2, RefusedIsOutcome, PutIsOutcome DEF CreateWallet

LEMMA UpdateUserWalletType ==
  ASSUME NEW db \in [Keys -> Records], NEW k \in Keys
  PROVE  IsOutcome(UpdateUserWallet(db, k))
<1>1. AsWallet(db[k]) \in Wallets
  BY AsWalletType
<1>2. AsWallet(db[k]).id \in Keys /\ AsWallet(db[k]) \in Records
  BY <1>1 DEF Wallets, Records
<1> QED
  BY <1>2, RefusedIsOutcome, PutIsOutcome DEF UpdateUserWallet

LEMMA CreateSharingType ==
  ASSUME NEW db \in [Keys -> Records], NEW o \in Offers
  PROVE  IsOutcome(CreateSharing(db, o))
<1>1. o.key \in Keys /\ o.record \in Records
  BY SharingConstants DEF Records
<1> QED
  BY <1>1, PutIsOutcome DEF CreateSharing

LEMMA SimulateType ==
  ASSUME NEW db \in [Keys -> Records], NEW c \in Calls
  PROVE  IsOutcome(Simulate(db, c))
<1>1. CASE c.fn = "CreateSharing"
  BY <1>1, CreateSharingType DEF Simulate, Calls
<1>2. CASE c.fn = "UpdateSharingStatus"
  BY <1>2, UpdateSharingStatusType DEF Simulate, Calls
<1>3. CASE c.fn = "ProcessTransaction"
  BY <1>3, SharingConstants, ProcessTransactionType DEF Simulate, Calls
<1>4. CASE c.fn = "CreateWallet"
  BY <1>4, CreateWalletType DEF Simulate, Calls
<1>5. CASE c.fn = "UpdateUserWallet"
  BY <1>5, UpdateUserWalletType DEF Simulate, Calls
<1>6. CASE c.fn = "Withdraw"
  BY <1>6, SharingConstants, PerformTransactionType DEF Simulate, Calls, Withdraw
<1>7. CASE c.fn = "Deposit"
  BY <1>7, SharingConstants, PerformTransactionType DEF Simulate, Calls, Deposit
<1> QED
  BY <1>1, <1>2, <1>3, <1>4, <1>5, <1>6, <1>7 DEF Calls

-----------------------------------------------------------------------------
(***************************************************************************)
(* Type correctness.  A request in flight carries a call and an outcome    *)
(* that simulating it returned without error.                              *)
(***************************************************************************)
CallsInFlight ==
  \A r \in Requests : InFlight(r) => call[r] \in Calls /\ outcome[r].ok

TypeInv == TypeOK /\ CallsInFlight

LEMMA WriteType ==
  ASSUME NEW db \in [Keys -> Records], NEW o, IsOutcome(o)
  PROVE  Write(db, o.writes) \in [Keys -> Records]
BY DEF Write, IsOutcome

LEMMA InitLedgerType == InitLedger \in [Keys -> Records]
BY SharingConstants DEF InitLedger, Records

LEMMA NoOutcomeType == IsOutcome(NoOutcome)
BY RefusedIsOutcome DEF NoOutcome

LEMMA TypeInvInit == Init => TypeInv
BY InitLedgerType, NoOutcomeType
DEF Init, TypeInv, TypeOK, CallsInFlight, InFlight, Phases, Answers

LEMMA TypeInvStep == TypeInv /\ [Next]_ledgerVars => TypeInv'
<1> SUFFICES ASSUME TypeInv, [Next]_ledgerVars PROVE TypeInv'
  OBVIOUS
<1> USE DEF TypeInv, TypeOK, CallsInFlight, InFlight, Phases, Answers
<1>1. ASSUME NEW r \in Requests, NEW c \in Calls, Endorse(r, c) PROVE TypeInv'
  <2>1. IsOutcome(Simulate(world, c))
    BY SimulateType
  <2> QED
    BY <1>1, <2>1 DEF Endorse
<1>2. ASSUME NEW r \in Requests, Refuse(r) PROVE TypeInv'
  BY <1>2 DEF Refuse
<1>3. ASSUME NEW r \in Requests, Submit(r) PROVE TypeInv'
  BY <1>3 DEF Submit
<1>4. ASSUME NEW r \in Requests, Lose(r) PROVE TypeInv'
  BY <1>4, NoOutcomeType DEF Lose
<1>5. ASSUME NEW r \in Requests, Invalidate(r) PROVE TypeInv'
  BY <1>5, NoOutcomeType DEF Invalidate
<1>6. ASSUME NEW r \in Requests, Commit(r) PROVE TypeInv'
  <2>1. world' \in [Keys -> Records]
    BY <1>6, WriteType DEF Commit
  <2>2. stale' \in [Requests -> BOOLEAN]
    BY <1>6 DEF Commit
  <2> QED
    BY <1>6, <2>1, <2>2, NoOutcomeType DEF Commit
<1>7. ASSUME NEW r \in Requests, TimeOut(r) PROVE TypeInv'
  BY <1>7 DEF TimeOut
<1>8. ASSUME NEW r \in Requests, Reply(r) PROVE TypeInv'
  BY <1>8 DEF Reply
<1>9. ASSUME NEW r \in Requests, Release(r) PROVE TypeInv'
  BY <1>9 DEF Release
<1>10. CASE UNCHANGED ledgerVars
  BY <1>10 DEF ledgerVars
<1> QED
  BY <1>1, <1>2, <1>3, <1>4, <1>5, <1>6, <1>7, <1>8, <1>9, <1>10 DEF Next

\* The ledger only ever holds wallets, sharings and absent records, and every
\* transaction in progress is a well-formed outcome of a call.
THEOREM TypeCorrect == Spec => []TypeOK
<1>1. Init => TypeInv
  BY TypeInvInit
<1>2. TypeInv /\ [Next]_ledgerVars => TypeInv'
  BY TypeInvStep
<1>3. TypeInv => TypeOK
  BY DEF TypeInv
<1> QED
  BY <1>1, <1>2, <1>3, PTL DEF Spec

-----------------------------------------------------------------------------
(***************************************************************************)
(* A call's outcome depends on nothing but the keys it reports as read, so *)
(* it is the same in every world state that agrees on them.  The status    *)
(* update is the exception: its query also depends on the keys it did not  *)
(* return.                                                                 *)
(***************************************************************************)
LEMMA WalletReads ==
  ASSUME NEW db, NEW u, NEW a
  PROVE  /\ WalletKey[u] \in Withdraw(db, u, a).reads
         /\ WalletKey[u] \in Deposit(db, u, a).reads
BY DEF PerformTransaction, Withdraw, Deposit, Refused, Done

LEMMA WalletReadsOnly ==
  ASSUME NEW db, NEW db2, NEW u, NEW a,
         db[WalletKey[u]] = db2[WalletKey[u]]
  PROVE  /\ Withdraw(db2, u, a) = Withdraw(db, u, a)
         /\ Deposit(db2, u, a) = Deposit(db, u, a)
BY DEF PerformTransaction, Withdraw, Deposit

LEMMA ReadSetSound ==
  ASSUME NEW db, NEW db2, NEW c \in Calls,
         c.fn # "UpdateSharingStatus",
         Simulate(db, c).ok,
         \A k \in Simulate(db, c).reads : db[k] = db2[k]
  PROVE  Simulate(db2, c) = Simulate(db, c)
<1>1. CASE c.fn = "CreateSharing"
  BY <1>1 DEF Simulate, CreateSharing
<1>2. CASE c.fn = "ProcessTransaction"
  <2> DEFINE k == PayKey[c.car]
             dep == Deposit(db, c.lender, c.price)
             wd == Withdraw(db, c.borrower, c.price)
             pay == ProcessTransaction(db, c.car, c.lender, c.borrower, c.price)
  <2>1. Simulate(db, c) = pay /\ Simulate(db2, c)
          = ProcessTransaction(db2, c.car, c.lender, c.borrower, c.price)
    BY <1>2 DEF Simulate
  <2>2. k \in pay.reads /\ db[k] # Absent
    BY <2>1 DEF ProcessTransaction, Transfer, Done, Refused
  <2>3. CASE StatusOf(db[k]) = Confirmed
    <3>1. pay = Transfer(db, c.lender, c.borrower, c.price, {k}) /\ pay.ok
      BY <2>1, <2>2, <2>3 DEF ProcessTransaction
    <3>2. WalletKey[c.lender] \in pay.reads /\ WalletKey[c.borrower] \in pay.reads
      BY <3>1, WalletReads DEF Transfer, Done, Refused
    <3>3. /\ Deposit(db2, c.lender, c.price) = dep
          /\ Withdraw(db2, c.borrower, c.price) = wd
      BY <2>1, <3>2, WalletReadsOnly
    <3>4. Transfer(db2, c.lender, c.borrower, c.price, {k})
            = Transfer(db, c.lender, c.borrower, c.price, {k})
      BY <3>3 DEF Transfer
    <3> QED
      BY <2>1, <2>2, <2>3, <3>4 DEF ProcessTransaction
  <2>4. CASE StatusOf(db[k]) # Confirmed
    BY <2>1, <2>2, <2>4 DEF ProcessTransaction
  <2> QED
    BY <2>3, <2>4
<1>3. CASE c.fn = "CreateWallet"
  BY <1>3 DEF Simulate, CreateWallet, Refused, Done
<1>4. CASE c.fn = "UpdateUserWallet"
  BY <1>4 DEF Simulate, UpdateUserWallet, Refused, Done
<1>5. CASE c.fn = "Withdraw"
  <2>1. /\ Simulate(db, c) = Withdraw(db, c.user, c.amount)
        /\ Simulate(db2, c) = Withdraw(db2, c.user, c.amount)
    BY <1>5 DEF Simulate
  <2>2. db[WalletKey[c.user]] = db2[WalletKey[c.user]]
    BY <2>1, WalletReads
  <2> QED
    BY <2>1, <2>2, WalletReadsOnly
<1>6. CASE c.fn = "Deposit"
  <2>1. /\ Simulate(db, c) = Deposit(db, c.user, c.amount)
        /\ Simulate(db2, c) = Deposit(db2, c.user, c.amount)
    BY <1>6 DEF Simulate
  <2>2. db[WalletKey[c.user]] = db2[WalletKey[c.user]]
    BY <2>1, WalletReads
  <2> QED
    BY <2>1, <2>2, WalletReadsOnly
<1> QED
  BY <1>1, <1>2, <1>3, <1>4, <1>5, <1>6 DEF Calls

-----------------------------------------------------------------------------
(***************************************************************************)
(* Freshness.  While nothing a transaction read has been overwritten, its  *)
(* recorded outcome is what the call would return on the current state.    *)
(* For a status update: its rows still are sharings of the car, and its    *)
(* writes still are those rows with the new status.                        *)
(***************************************************************************)
StillFound(r) ==
  LET rows == outcome[r].reads
  IN  /\ rows # {}
      /\ rows \subseteq SharingsOf(world, call[r].car)
      /\ DOMAIN outcome[r].writes = rows
      /\ \A k \in rows : outcome[r].writes[k] = [world[k] EXCEPT !.status = call[r].status]

FreshOutcome(r) ==
  IF call[r].fn = "UpdateSharingStatus" THEN StillFound(r)
  ELSE outcome[r] = Simulate(world, call[r])

FreshInv ==
  /\ TypeInv
  /\ \A r \in Requests : InFlight(r) /\ ~stale[r] => FreshOutcome(r)

LEMMA FreshInit == Init => FreshInv
BY TypeInvInit DEF Init, FreshInv, InFlight

\* A request keeps a fresh outcome when the world it read, its phase in
\* flight, its call and its outcome stay as they are.
LEMMA FreshKept ==
  ASSUME TypeInv, NEW r \in Requests, InFlight(r), FreshOutcome(r),
         call'[r] = call[r], outcome'[r] = outcome[r],
         \A k \in outcome[r].reads : world'[k] = world[k]
  PROVE  FreshOutcome(r)'
<1> USE DEF TypeInv, TypeOK, CallsInFlight
<1>1. CASE call[r].fn = "UpdateSharingStatus"
  <2>1. outcome[r].reads \subseteq SharingsOf(world', call[r].car)
    BY <1>1 DEF FreshOutcome, StillFound, SharingsOf
  <2> QED
    BY <1>1, <2>1 DEF FreshOutcome, StillFound
<1>2. CASE call[r].fn # "UpdateSharingStatus"
  <2>1. outcome[r] = Simulate(world, call[r]) /\ outcome[r].ok /\ call[r] \in Calls
    BY <1>2 DEF FreshOutcome
  <2>2. Simulate(world', call[r]) = Simulate(world, call[r])
    BY <1>2, <2>1, ReadSetSound
  <2> QED
    BY <1>2, <2>1, <2>2 DEF FreshOutcome
<1> QED
  BY <1>1, <1>2

LEMMA FreshStep == FreshInv /\ [Next]_ledgerVars => FreshInv'
<1> SUFFICES ASSUME FreshInv, [Next]_ledgerVars PROVE FreshInv'
  OBVIOUS
<1>0. TypeInv /\ TypeInv'
  BY TypeInvStep DEF FreshInv
<1> SUFFICES ASSUME NEW q \in Requests, InFlight(q)', ~stale'[q]
             PROVE  FreshOutcome(q)'
  BY <1>0 DEF FreshInv
<1>1. ASSUME NEW r \in Requests, NEW c \in Calls, Endorse(r, c) PROVE FreshOutcome(q)'
  <2>1. CASE q = r
    <3>1. call'[q] = c /\ outcome'[q] = Simulate(world, c) /\ world' = world
      BY <1>0, <1>1, <2>1 DEF Endorse, TypeInv, TypeOK
    <3>2. CASE c.fn # "UpdateSharingStatus"
      BY <3>1, <3>2 DEF FreshOutcome
    <3>3. CASE c.fn = "UpdateSharingStatus"
      <4> DEFINE rows == SharingsOf(world, c.car)
      <4>1. Simulate(world, c) = UpdateSharingStatus(world, c.car, c.status)
        BY <3>3 DEF Simulate
      <4>2. Simulate(world, c).ok
        BY <1>1 DEF Endorse
      <4>3. rows # {} /\ Simulate(world, c)
              = Done(rows, [k \in rows |-> [world[k] EXCEPT !.status = c.status]])
        BY <4>1, <4>2 DEF UpdateSharingStatus, Refused
      <4> QED
        BY <3>1, <3>3, <4>3 DEF FreshOutcome, StillFound, Done
    <3> QED
      BY <3>2, <3>3
  <2>2. CASE q # r
    <3>1. /\ InFlight(q) /\ ~stale[q] /\ world' = world
          /\ call'[q] = call[q] /\ outcome'[q] = outcome[q]
      BY <1>0, <1>1, <2>2 DEF Endorse, InFlight, TypeInv, TypeOK
    <3> QED
      BY <1>0, <3>1, FreshKept DEF FreshInv
  <2> QED
    BY <2>1, <2>2
<1>2. ASSUME NEW r \in Requests, Commit(r) PROVE FreshOutcome(q)'
  <2>1. q # r
    BY <1>0, <1>2 DEF Commit, InFlight, TypeInv, TypeOK
  <2>2. /\ InFlight(q) /\ ~stale[q]
        /\ call'[q] = call[q] /\ outcome'[q] = outcome[q]
        /\ outcome[q].reads \cap DOMAIN outcome[r].writes = {}
    BY <1>0, <1>2, <2>1 DEF Commit, InFlight, TypeInv, TypeOK
  <2>3. \A k \in outcome[q].reads : world'[k] = world[k]
    BY <1>0, <1>2, <2>2 DEF Commit, Write, TypeInv, TypeOK, IsOutcome
  <2> QED
    BY <1>0, <2>2, <2>3, FreshKept DEF FreshInv
<1>3. ASSUME NEW r \in Requests, Refuse(r) \/ Submit(r) \/ TimeOut(r) \/ Reply(r)
      PROVE  FreshOutcome(q)'
  <2>1. /\ InFlight(q) /\ ~stale[q] /\ world' = world
        /\ call'[q] = call[q] /\ outcome'[q] = outcome[q]
    BY <1>0, <1>3 DEF Refuse, Submit, TimeOut, Reply, InFlight, TypeInv, TypeOK
  <2> QED
    BY <1>0, <2>1, FreshKept DEF FreshInv
<1>4. ASSUME NEW r \in Requests, Lose(r) \/ Invalidate(r) \/ Release(r)
      PROVE  FreshOutcome(q)'
  <2>1. /\ InFlight(q) /\ ~stale[q] /\ world' = world
        /\ call'[q] = call[q] /\ outcome'[q] = outcome[q]
    BY <1>0, <1>4 DEF Lose, Invalidate, Release, InFlight, TypeInv, TypeOK
  <2> QED
    BY <1>0, <2>1, FreshKept DEF FreshInv
<1>5. CASE UNCHANGED ledgerVars
  <2>1. /\ InFlight(q) /\ ~stale[q] /\ world' = world
        /\ call'[q] = call[q] /\ outcome'[q] = outcome[q]
    BY <1>5 DEF ledgerVars, InFlight
  <2> QED
    BY <1>0, <2>1, FreshKept DEF FreshInv
<1> QED
  BY <1>1, <1>2, <1>3, <1>4, <1>5 DEF Next

LEMMA FreshAlways == Spec => []FreshInv
BY FreshInit, FreshStep, PTL DEF Spec

-----------------------------------------------------------------------------
(***************************************************************************)
(* SharingLedger implements SerialSharing.                                 *)
(***************************************************************************)
LEMMA SameSimulate ==
  ASSUME NEW db, NEW c
  PROVE  Serial!Simulate(db, c) = Simulate(db, c)
BY DEF Simulate, CreateSharing, UpdateSharingStatus, SharingsOf, ProcessTransaction,
       Transfer, CreateWallet, UpdateUserWallet, PerformTransaction, Withdraw, Deposit,
       AsWallet, StatusOf, Then, Put, Refused, Done, NoWrites, Absent, Confirmed,
       NoStatus, InitialMoney,
       Serial!Simulate, Serial!CreateSharing, Serial!UpdateSharingStatus,
       Serial!SharingsOf, Serial!ProcessTransaction, Serial!Transfer,
       Serial!CreateWallet, Serial!UpdateUserWallet, Serial!PerformTransaction,
       Serial!Withdraw, Serial!Deposit, Serial!AsWallet, Serial!StatusOf,
       Serial!Then, Serial!Put, Serial!Refused, Serial!Done, Serial!NoWrites,
       Serial!Absent, Serial!Confirmed, Serial!NoStatus, Serial!InitialMoney

LEMMA SameCalls == Serial!Calls = Calls
BY DEF Calls, Serial!Calls

LEMMA SameWrite ==
  ASSUME NEW db, NEW w
  PROVE  Serial!Write(db, w) = Write(db, w)
BY DEF Write, Serial!Write

LEMMA SameInit == Serial!InitLedger = InitLedger
BY DEF InitLedger, Serial!InitLedger, Absent, Serial!Absent

\* A committing transaction whose reads are fresh is one call of the abstract
\* ledger, made on the state it changes.
LEMMA CommitIsSerial ==
  ASSUME FreshInv, NEW r \in Requests, Commit(r)
  PROVE  Serial!Next
<1> DEFINE c == call[r]
           o == outcome[r]
<1>1. InFlight(r) /\ ~stale[r] /\ world' = Write(world, o.writes)
  BY DEF Commit, InFlight
<1>2. c \in Calls /\ o.ok /\ FreshOutcome(r) /\ IsOutcome(o)
  BY <1>1 DEF FreshInv, TypeInv, TypeOK, CallsInFlight
<1>3. CASE c.fn # "UpdateSharingStatus"
  <2>1. o = Simulate(world, c)
    BY <1>2, <1>3 DEF FreshOutcome
  <2>2. Serial!Whole(c)
    BY <1>1, <1>2, <1>3, <2>1, SameSimulate, SameWrite DEF Serial!Whole
  <2> QED
    BY <1>2, <2>2, SameCalls DEF Serial!Next
<1>4. CASE c.fn = "UpdateSharingStatus"
  <2> DEFINE found == SharingsOf(world, c.car)
             rows == o.reads
             all == [k \in found |-> [world[k] EXCEPT !.status = c.status]]
  <2>1. /\ rows # {} /\ rows \subseteq found /\ DOMAIN o.writes = rows
        /\ \A k \in rows : o.writes[k] = [world[k] EXCEPT !.status = c.status]
    BY <1>2, <1>4 DEF FreshOutcome, StillFound
  <2>2. Simulate(world, c) = Done(found, all)
    BY <1>4, <2>1 DEF Simulate, UpdateSharingStatus
  <2>3. Write(world, o.writes) = Write(world, [k \in rows |-> all[k]])
    BY <2>1 DEF Write
  <2>4. /\ Simulate(world, c).ok /\ Simulate(world, c).reads = found
        /\ Simulate(world, c).writes = all
    BY <2>2 DEF Done
  <2>5. /\ Serial!Simulate(world, c).ok
        /\ Serial!Simulate(world, c).reads = found
        /\ [k \in rows |-> Serial!Simulate(world, c).writes[k]] = [k \in rows |-> all[k]]
    BY <2>4, SameSimulate
  <2>6. world' = Serial!Write(world, [k \in rows |-> Serial!Simulate(world, c).writes[k]])
    BY <1>1, <2>3, <2>5, SameWrite
  <2>7. Serial!Partial(c)
    <3> DEFINE S == Serial!Simulate(world, c)
    <3>1. rows \in SUBSET S.reads /\ rows # {}
      BY <2>1, <2>5
    <3>2. world' = Serial!Write(world, [k \in rows |-> S.writes[k]])
      BY <2>6
    <3> HIDE DEF rows
    <3>3. \E rs \in SUBSET S.reads :
            rs # {} /\ world' = Serial!Write(world, [k \in rs |-> S.writes[k]])
      BY <3>1, <3>2
    <3> QED
      BY <1>4, <2>5, <3>3 DEF Serial!Partial
  <2> QED
    BY <1>2, <2>7, SameCalls DEF Serial!Next
<1> QED
  BY <1>3, <1>4

\* Every change of the world state, in every interleaving of endorsements,
\* commits, losses and timeouts, is a single contract call run alone.
THEOREM LedgerIsSerial == Spec => Serializable
<1>1. Init => Serial!Init
  BY SameInit DEF Init, Serial!Init
<1>2. FreshInv /\ [Next]_ledgerVars => [Serial!Next]_world
  <2> SUFFICES ASSUME FreshInv, [Next]_ledgerVars PROVE [Serial!Next]_world
    OBVIOUS
  <2>1. ASSUME NEW r \in Requests, Commit(r) PROVE Serial!Next
    BY <2>1, CommitIsSerial
  <2>2. ASSUME NEW r \in Requests,
               \/ \E c \in Calls : Endorse(r, c)
               \/ Refuse(r) \/ Submit(r) \/ Lose(r) \/ Invalidate(r)
               \/ TimeOut(r) \/ Reply(r) \/ Release(r)
        PROVE  UNCHANGED world
    BY <2>2 DEF Endorse, Refuse, Submit, Lose, Invalidate, TimeOut, Reply, Release
  <2>3. CASE UNCHANGED ledgerVars
    BY <2>3 DEF ledgerVars
  <2> QED
    BY <2>1, <2>2, <2>3 DEF Next
<1> QED
  BY <1>1, <1>2, FreshAlways, PTL DEF Spec, Serializable, Serial!Spec

-----------------------------------------------------------------------------
(***************************************************************************)
(* Overdrafts.  The balance check is made on a world state that may have   *)
(* moved on by the time the money leaves; what makes it count is that the  *)
(* commit of a fresh outcome is the call made on the state it changes.     *)
(***************************************************************************)
LEMMA DepositWrites ==
  ASSUME NEW db \in [Keys -> Records], NEW u \in Users, NEW a \in Int,
         NEW k \in DOMAIN Deposit(db, u, a).writes
  PROVE  /\ k = WalletKey[u] /\ k \in Keys /\ a \in Int
         /\ AsWallet(db[k]).money \in Int
         /\ Deposit(db, u, a).writes[k].money = AsWallet(db[k]).money + a
<1> DEFINE to == WalletKey[u]
           wallet == AsWallet(db[to])
<1>1. to \in Keys /\ a \in Int
  BY SharingConstants
<1>2. wallet \in Wallets
  BY <1>1, AsWalletType
<1>3. Deposit(db, u, a).writes \in
        {NoWrites, Put(to, [wallet EXCEPT !.money = wallet.money + a])}
  BY DEF Deposit, PerformTransaction, Refused, Done
<1>4. [wallet EXCEPT !.money = wallet.money + a].money = wallet.money + a
  BY <1>2 DEF Wallets
<1>5. wallet.money \in Int
  BY <1>2 DEF Wallets
<1> HIDE DEF wallet
<1> QED
  BY <1>1, <1>3, <1>4, <1>5 DEF NoWrites, Put, wallet

LEMMA WithdrawWrites ==
  ASSUME NEW db \in [Keys -> Records], NEW u \in Users, NEW a \in Int,
         NEW k \in DOMAIN Withdraw(db, u, a).writes
  PROVE  /\ Withdraw(db, u, a).writes[k].money \in Int
         /\ Withdraw(db, u, a).writes[k].money >= 0
<1> DEFINE from == WalletKey[u]
           wallet == AsWallet(db[from])
<1>1. from \in Keys /\ a \in Int
  BY SharingConstants
<1>2. wallet \in Wallets
  BY <1>1, AsWalletType
<1>3. wallet.money \in Int
  BY <1>2 DEF Wallets
<1>4. \/ Withdraw(db, u, a).writes = NoWrites
      \/ /\ ~(wallet.money < a)
         /\ Withdraw(db, u, a).writes = Put(from, [wallet EXCEPT !.money = wallet.money - a])
  BY DEF Withdraw, PerformTransaction, Refused, Done
<1>5. [wallet EXCEPT !.money = wallet.money - a].money = wallet.money - a
  BY <1>2 DEF Wallets
<1>6. wallet.money - a \in Int /\ (~(wallet.money < a) => wallet.money - a >= 0)
  BY <1>1, <1>3
<1> HIDE DEF wallet
<1> QED
  BY <1>4, <1>5, <1>6 DEF NoWrites, Put

\* What one call, run alone on a state, does to a wallet it leaves overdrawn further.
LEMMA CallOverdraws ==
  ASSUME NEW db \in [Keys -> Records], NEW c \in Calls,
         c.fn \notin {"CreateSharing", "UpdateSharingStatus"},
         NEW k \in DOMAIN Simulate(db, c).writes,
         Simulate(db, c).writes[k].money < 0,
         Simulate(db, c).writes[k].money < AsWallet(db[k]).money
  PROVE  \/ c.fn = "Deposit" /\ k = WalletKey[c.user] /\ c.amount < 0
         \/ c.fn = "ProcessTransaction" /\ k = WalletKey[c.lender] /\ c.price < 0
         \/ c.fn = "UpdateUserWallet" /\ Simulate(db, c).writes[k] = db[c.key]
<1> DEFINE w == Simulate(db, c).writes
<1>1. CASE c.fn = "Deposit"
  <2>1. c.user \in Users /\ c.amount \in Int /\ w = Deposit(db, c.user, c.amount).writes
    BY <1>1, SharingConstants DEF Calls, Simulate
  <2>2. /\ k = WalletKey[c.user] /\ c.amount \in Int /\ AsWallet(db[k]).money \in Int
        /\ w[k].money = AsWallet(db[k]).money + c.amount
    BY <2>1, DepositWrites
  <2>3. c.amount < 0
    BY <2>2
  <2> QED
    BY <1>1, <2>2, <2>3
<1>2. CASE c.fn = "Withdraw"
  <2>1. c.user \in Users /\ c.amount \in Int /\ w = Withdraw(db, c.user, c.amount).writes
    BY <1>2, SharingConstants DEF Calls, Simulate
  <2>2. w[k].money >= 0 /\ w[k].money \in Int
    BY <2>1, WithdrawWrites
  <2> QED
    BY <2>2
<1>3. CASE c.fn = "ProcessTransaction"
  <2> DEFINE dep == Deposit(db, c.lender, c.price)
             wd == Withdraw(db, c.borrower, c.price)
  <2>1. c.lender \in Users /\ c.borrower \in Users /\ c.price \in Int
    BY <1>3, SharingConstants DEF Calls
  <2>2. w \in {NoWrites, Then(dep.writes, wd.writes)}
    BY <1>3 DEF Simulate, ProcessTransaction, Transfer, Done, Refused
  <2>3. \/ k \in DOMAIN wd.writes /\ w[k] = wd.writes[k]
        \/ k \in DOMAIN dep.writes /\ w[k] = dep.writes[k]
    BY <2>2 DEF Then, NoWrites
  <2>4. CASE k \in DOMAIN wd.writes /\ w[k] = wd.writes[k]
    <3>1. w[k].money >= 0 /\ w[k].money \in Int
      BY <2>1, <2>4, WithdrawWrites
    <3> QED
      BY <3>1
  <2>5. CASE k \in DOMAIN dep.writes /\ w[k] = dep.writes[k]
    <3>1. /\ k = WalletKey[c.lender] /\ c.price \in Int /\ AsWallet(db[k]).money \in Int
          /\ w[k].money = AsWallet(db[k]).money + c.price
      BY <2>1, <2>5, DepositWrites
    <3>2. c.price < 0
      BY <3>1
    <3> QED
      BY <1>3, <3>1, <3>2
  <2> QED
    BY <2>3, <2>4, <2>5
<1>4. CASE c.fn = "CreateWallet"
  <2>1. w[k].money = InitialMoney
    BY <1>4 DEF Simulate, CreateWallet, Done, Refused, Put, NoWrites
  <2> QED
    BY <2>1 DEF InitialMoney
<1>5. CASE c.fn = "UpdateUserWallet"
  <2>1. w[k] = AsWallet(db[c.key])
    BY <1>5 DEF Simulate, UpdateUserWallet, Done, Refused, Put, NoWrites
  <2>2. db[c.key].type = "wallet"
    BY <2>1 DEF AsWallet
  <2>3. w[k] = db[c.key]
    BY <2>1, <2>2 DEF AsWallet
  <2> QED
    BY <1>5, <2>3
<1> QED
  BY <1>1, <1>2, <1>3, <1>4, <1>5 DEF Calls

LEMMA OverdraftStep ==
  ASSUME FreshInv, NEW r \in Requests, Commit(r), NEW k \in Keys, Overdrawn(k)
  PROVE  AsksToOverdraw(call[r], k)
<1> DEFINE c == call[r]
           o == outcome[r]
<1>1. InFlight(r) /\ ~stale[r] /\ world' = Write(world, o.writes)
  BY DEF Commit, InFlight
<1>2. world \in [Keys -> Records] /\ c \in Calls /\ o.ok /\ FreshOutcome(r)
  BY <1>1 DEF FreshInv, TypeInv, TypeOK, CallsInFlight
<1>3. world'[k] # world[k]
  <2>1. world'[k] = world[k] => AsWallet(world[k]) = world'[k]
    BY DEF AsWallet, Overdrawn
  <2>2. world'[k] = world[k] => world'[k].money \in Int
    BY <1>2 DEF Overdrawn, Records, Wallets, Sharings, Absent
  <2> QED
    BY <2>1, <2>2 DEF Overdrawn
<1>4. world'[k].type = "wallet"
  BY DEF Overdrawn
<1>5. k \in DOMAIN o.writes /\ world'[k] = o.writes[k]
  BY <1>1, <1>3 DEF Write
<1> HIDE DEF c, o
<1>6. CASE c.fn = "CreateSharing"
  <2>1. o = CreateSharing(world, c.offer) /\ c.offer \in [key : Keys, record : Sharings]
    BY <1>2, <1>6, SharingConstants DEF FreshOutcome, Simulate, Calls, c, o
  <2>2. world'[k] = c.offer.record
    BY <1>5, <2>1 DEF CreateSharing, Done, Put
  <2> QED
    BY <1>4, <2>1, <2>2 DEF Sharings
<1>7. CASE c.fn = "UpdateSharingStatus"
  <2>1. world'[k] = [world[k] EXCEPT !.status = c.status] /\ world[k].type = "sharing"
    BY <1>2, <1>5, <1>7 DEF FreshOutcome, StillFound, SharingsOf, c, o
  <2> QED
    BY <1>2, <1>4, <2>1 DEF Records, Wallets, Sharings, Absent
<1>8. CASE c.fn \notin {"CreateSharing", "UpdateSharingStatus"}
  <2>1. o = Simulate(world, c)
    BY <1>2, <1>8 DEF FreshOutcome, c, o
  <2>2. \/ c.fn = "Deposit" /\ k = WalletKey[c.user] /\ c.amount < 0
        \/ c.fn = "ProcessTransaction" /\ k = WalletKey[c.lender] /\ c.price < 0
        \/ c.fn = "UpdateUserWallet" /\ o.writes[k] = world[c.key]
    BY <1>2, <1>5, <1>8, <2>1, CallOverdraws DEF Overdrawn
  <2> QED
    BY <1>5, <2>2 DEF AsksToOverdraw, c
<1> QED
  BY <1>6, <1>7, <1>8

\* However withdrawals and payments overlap, a wallet is only overdrawn by a request
\* that itself carries a negative number, or by the copy of an overdrawn balance: for
\* every set of amounts, every hash, and wallets that share a key included.
THEOREM OverdraftsAreAsked == Spec => OverdraftIsAsked
<1> DEFINE A == \A k \in Keys : Overdrawn(k) =>
       \E r \in Requests : /\ phase[r] = "ordered" /\ phase'[r] = "committed"
                           /\ AsksToOverdraw(call[r], k)
<1>1. FreshInv /\ [Next]_ledgerVars => [A]_ledgerVars
  <2> SUFFICES ASSUME FreshInv, Next, NEW k \in Keys, Overdrawn(k)
               PROVE  \E r \in Requests :
                        /\ phase[r] = "ordered" /\ phase'[r] = "committed"
                        /\ AsksToOverdraw(call[r], k)
    OBVIOUS
  <2>1. world' = world => FALSE
    <3>1. world' = world => AsWallet(world[k]) = world'[k]
      BY DEF AsWallet, Overdrawn
    <3>2. world' = world => world'[k].money \in Int
      BY DEF FreshInv, TypeInv, TypeOK, Overdrawn, Records, Wallets, Sharings, Absent
    <3> QED
      BY <3>1, <3>2 DEF Overdrawn
  <2>2. ASSUME NEW r \in Requests,
               \/ \E c \in Calls : Endorse(r, c)
               \/ Refuse(r) \/ Submit(r) \/ Lose(r) \/ Invalidate(r)
               \/ TimeOut(r) \/ Reply(r) \/ Release(r)
        PROVE  FALSE
    BY <2>1, <2>2
    DEF Endorse, Refuse, Submit, Lose, Invalidate, TimeOut, Reply, Release
  <2>3. PICK r \in Requests : Commit(r)
    BY <2>2 DEF Next
  <2>4. phase[r] = "ordered" /\ phase'[r] = "committed"
    BY <2>3 DEF Commit, FreshInv, TypeInv, TypeOK
  <2> QED
    BY <2>3, <2>4, OverdraftStep
<1> QED
  BY <1>1, FreshAlways, PTL DEF Spec, OverdraftIsAsked

-----------------------------------------------------------------------------
(***************************************************************************)
(* Payments.                                                               *)
(***************************************************************************)

\* What the two wallet operations of a payment write.
LEMMA TransferWrites ==
  ASSUME NEW db \in [Keys -> Records], NEW c \in Calls, c.fn = "ProcessTransaction",
         NEW K, Transfer(db, c.lender, c.borrower, c.price, K).ok
  PROVE  LET to == WalletKey[c.lender]
             from == WalletKey[c.borrower]
             w == Transfer(db, c.lender, c.borrower, c.price, K).writes
         IN  /\ DOMAIN w = {to, from}
             /\ w[from].money = AsWallet(db[from]).money - c.price
             /\ to # from => w[to].money = AsWallet(db[to]).money + c.price
<1> DEFINE to == WalletKey[c.lender]
           from == WalletKey[c.borrower]
           dep == Deposit(db, c.lender, c.price)
           wd == Withdraw(db, c.borrower, c.price)
<1>0. c.lender \in Users /\ c.borrower \in Users /\ c.price \in Int
  BY SharingConstants DEF Calls
<1>1. to \in Keys /\ from \in Keys /\ c.price \in Int
  <2>1. \A u \in Users : WalletKey[u] \in Keys
    BY SharingConstants
  <2> QED
    BY <1>0, <2>1
<1>2. AsWallet(db[to]) \in Wallets /\ AsWallet(db[from]) \in Wallets
  BY <1>1, AsWalletType
<1>3. dep.ok /\ wd.ok /\ Transfer(db, c.lender, c.borrower, c.price, K).writes
                            = Then(dep.writes, wd.writes)
  BY DEF Transfer, Done, Refused
<1>4. dep.writes = Put(to, [AsWallet(db[to]) EXCEPT !.money = AsWallet(db[to]).money + c.price])
  BY <1>3 DEF Deposit, PerformTransaction, Done, Refused
<1>5. wd.writes = Put(from, [AsWallet(db[from]) EXCEPT
                               !.money = AsWallet(db[from]).money - c.price])
  BY <1>3 DEF Withdraw, PerformTransaction, Done, Refused
<1>6. /\ DOMAIN dep.writes = {to} /\ DOMAIN wd.writes = {from}
      /\ dep.writes[to].money = AsWallet(db[to]).money + c.price
      /\ wd.writes[from].money = AsWallet(db[from]).money - c.price
  BY <1>2, <1>4, <1>5 DEF Put, Wallets
<1>7. /\ DOMAIN Then(dep.writes, wd.writes) = {to, from}
      /\ Then(dep.writes, wd.writes)[from] = wd.writes[from]
      /\ to # from => Then(dep.writes, wd.writes)[to] = dep.writes[to]
  BY <1>6 DEF Then
<1> QED
  BY <1>3, <1>6, <1>7

LEMMA PaymentStep ==
  ASSUME FreshInv, NEW r \in Requests, Commit(r), Pays(r)
  PROVE  MovesPrice(call[r])
<1> DEFINE c == call[r]
           k == PayKey[c.car]
           o == outcome[r]
           to == WalletKey[c.lender]
           from == WalletKey[c.borrower]
<1>1. InFlight(r) /\ ~stale[r] /\ world' = Write(world, o.writes)
  BY DEF Commit, InFlight
<1>2. /\ world \in [Keys -> Records] /\ c \in Calls /\ c.fn = "ProcessTransaction"
      /\ o.ok /\ FreshOutcome(r)
  BY <1>1 DEF FreshInv, TypeInv, TypeOK, CallsInFlight, Pays
<1>3. o = ProcessTransaction(world, c.car, c.lender, c.borrower, c.price)
  BY <1>2 DEF FreshOutcome, Simulate
<1>4. o.writes # NoWrites
  <2>1. Write(world, NoWrites) = world
    BY <1>2 DEF Write, NoWrites
  <2> QED
    BY <1>1, <2>1 DEF Pays
<1>5. /\ StatusOf(world[k]) = Confirmed
      /\ o = Transfer(world, c.lender, c.borrower, c.price, {k})
  BY <1>2, <1>3, <1>4 DEF ProcessTransaction, Done, Refused
<1>6. world[k].type = "sharing" /\ world[k].status = Confirmed
  BY <1>5 DEF StatusOf, NoStatus, Confirmed
<1>7. c.lender \in Users /\ c.borrower \in Users
  BY <1>2 DEF Calls
<1>8. to \in Keys /\ from \in Keys
  BY <1>7, SharingConstants
<1>9. /\ DOMAIN o.writes = {to, from}
      /\ o.writes[from].money = AsWallet(world[from]).money - c.price
      /\ to # from => o.writes[to].money = AsWallet(world[to]).money + c.price
  <2>1. Transfer(world, c.lender, c.borrower, c.price, {k}).ok
    BY <1>2, <1>5
  <2> HIDE DEF c, k, o
  <2> QED
    BY <1>2, <1>5, <2>1, TransferWrites
<1>10. /\ world'[to] = o.writes[to] /\ world'[from] = o.writes[from]
      /\ \A j \in Keys \ {to, from} : world'[j] = world[j]
  BY <1>1, <1>8, <1>9 DEF Write
<1> QED
  BY <1>6, <1>9, <1>10 DEF MovesPrice

\* A payment that changes anything finds its sharing confirmed when it takes
\* effect and moves exactly the price, whatever committed in between.
THEOREM PaymentsTransfer == Spec => PaymentIsATransfer
<1> DEFINE A == \A r \in Requests : Pays(r) => MovesPrice(call[r])
<1>1. FreshInv /\ [Next]_ledgerVars => [A]_ledgerVars
  <2> SUFFICES ASSUME FreshInv, Next, NEW q \in Requests, Pays(q)
               PROVE  MovesPrice(call[q])
    OBVIOUS
  <2>1. ASSUME NEW r \in Requests, Commit(r) PROVE r = q
    BY <2>1 DEF Commit, Pays, FreshInv, TypeInv, TypeOK
  <2>2. ASSUME NEW r \in Requests,
               \/ \E c \in Calls : Endorse(r, c)
               \/ Refuse(r) \/ Submit(r) \/ Lose(r) \/ Invalidate(r)
               \/ TimeOut(r) \/ Reply(r) \/ Release(r)
        PROVE  FALSE
    BY <2>2
    DEF Endorse, Refuse, Submit, Lose, Invalidate, TimeOut, Reply, Release, Pays
  <2>3. Commit(q)
    BY <2>1, <2>2 DEF Next
  <2> QED
    BY <2>3, PaymentStep
<1> QED
  BY <1>1, FreshAlways, PTL DEF Spec, PaymentIsATransfer
-----------------------------------------------------------------------------
(***************************************************************************)
(* Deals.  A wallet call writes wallets only, whatever it finds under the  *)
(* keys it is given, so what changes a sharing is a request or a status.   *)
(***************************************************************************)
WritesWallets(w) == \A k \in DOMAIN w : w[k].type = "wallet"

LEMMA WalletCallsWrite ==
  ASSUME NEW db \in [Keys -> Records], NEW u \in Users, NEW a \in Int
  PROVE  WritesWallets(Withdraw(db, u, a).writes) /\ WritesWallets(Deposit(db, u, a).writes)
<1> DEFINE k == WalletKey[u]
           wallet == AsWallet(db[k])
<1>1. wallet \in Wallets
  BY SharingConstants, AsWalletType
<1>2. \A x : [wallet EXCEPT !.money = x].type = "wallet"
  BY <1>1 DEF Wallets
<1> HIDE DEF wallet
<1>3. \A w \in BOOLEAN : PerformTransaction(db, u, a, w).writes = NoWrites
        \/ \E x : PerformTransaction(db, u, a, w).writes = Put(k, [wallet EXCEPT !.money = x])
  BY DEF PerformTransaction, Refused, Done, wallet
<1> QED
  BY <1>2, <1>3 DEF WritesWallets, Withdraw, Deposit, NoWrites, Put

LEMMA OtherCallsWriteWallets ==
  ASSUME NEW db \in [Keys -> Records], NEW c \in Calls,
         c.fn \notin {"CreateSharing", "UpdateSharingStatus"}
  PROVE  WritesWallets(Simulate(db, c).writes)
<1>0. WritesWallets(NoWrites)
  BY DEF WritesWallets, NoWrites
<1>1. CASE c.fn = "ProcessTransaction"
  <2>1. /\ WritesWallets(Deposit(db, c.lender, c.price).writes)
        /\ WritesWallets(Withdraw(db, c.borrower, c.price).writes)
    BY <1>1, WalletCallsWrite, SharingConstants DEF Calls
  <2>2. WritesWallets(Then(Deposit(db, c.lender, c.price).writes,
                           Withdraw(db, c.borrower, c.price).writes))
    BY <2>1 DEF WritesWallets, Then
  <2>3. WritesWallets(Transfer(db, c.lender, c.borrower, c.price, {PayKey[c.car]}).writes)
    BY <1>0, <2>2 DEF Transfer, Done, Refused
  <2> QED
    BY <1>0, <1>1, <2>3 DEF Simulate, ProcessTransaction, Done, Refused
<1>2. CASE c.fn = "CreateWallet"
  BY <1>0, <1>2 DEF Simulate, CreateWallet, Done, Refused, Put, WritesWallets
<1>3. CASE c.fn = "UpdateUserWallet"
  <2>1. AsWallet(db[c.key]).type = "wallet"
    BY DEF AsWallet
  <2> QED
    BY <1>0, <1>3, <2>1 DEF Simulate, UpdateUserWallet, Done, Refused, Put, WritesWallets
<1>4. CASE c.fn = "Withdraw"
  BY <1>4, WalletCallsWrite, SharingConstants DEF Simulate, Calls
<1>5. CASE c.fn = "Deposit"
  BY <1>5, WalletCallsWrite, SharingConstants DEF Simulate, Calls
<1> QED
  BY <1>1, <1>2, <1>3, <1>4, <1>5 DEF Calls

LEMMA DealStep ==
  ASSUME FreshInv, NEW r \in Requests, Commit(r),
         NEW k \in Keys, world'[k] # world[k], world'[k].type = "sharing"
  PROVE  ReplacesDeal(call[r], k, world'[k]) \/ GivesStatus(call[r], world[k], world'[k])
<1> DEFINE c == call[r]
           o == outcome[r]
<1>1. InFlight(r) /\ ~stale[r] /\ world' = Write(world, o.writes)
  BY DEF Commit, InFlight
<1>2. world \in [Keys -> Records] /\ c \in Calls /\ o.ok /\ FreshOutcome(r)
  BY <1>1 DEF FreshInv, TypeInv, TypeOK, CallsInFlight
<1>3. k \in DOMAIN o.writes /\ world'[k] = o.writes[k]
  BY <1>1 DEF Write
<1> HIDE DEF c, o
<1>4. CASE c.fn = "CreateSharing"
  <2>1. o = CreateSharing(world, c.offer) /\ c.offer \in [key : Keys, record : Sharings]
    BY <1>2, <1>4, SharingConstants DEF FreshOutcome, Simulate, Calls, c, o
  <2>2. o.writes = Put(c.offer.key, c.offer.record)
    BY <2>1 DEF CreateSharing, Done
  <2>3. k = c.offer.key /\ world'[k] = c.offer.record
    BY <1>3, <2>2 DEF Put
  <2>4. c.offer = [key |-> k, record |-> world'[k]]
    BY <2>1, <2>3
  <2> QED
    BY <1>4, <2>4 DEF ReplacesDeal, c
<1>5. CASE c.fn = "UpdateSharingStatus"
  <2>1. /\ o.reads \subseteq SharingsOf(world, c.car) /\ DOMAIN o.writes = o.reads
        /\ \A j \in o.reads : o.writes[j] = [world[j] EXCEPT !.status = c.status]
    BY <1>2, <1>5 DEF FreshOutcome, StillFound, c, o
  <2>2. k \in SharingsOf(world, c.car)
    BY <1>3, <2>1
  <2>3. world'[k] = [world[k] EXCEPT !.status = c.status]
    BY <1>3, <2>1
  <2> QED
    BY <1>5, <2>2, <2>3 DEF GivesStatus, SharingsOf, c
<1>6. CASE c.fn \notin {"CreateSharing", "UpdateSharingStatus"}
  <2>1. o = Simulate(world, c)
    BY <1>2, <1>6 DEF FreshOutcome, c, o
  <2>2. WritesWallets(o.writes)
    BY <1>2, <1>6, <2>1, OtherCallsWriteWallets
  <2> QED
    BY <1>3, <2>2 DEF WritesWallets
<1> QED
  BY <1>4, <1>5, <1>6

\* A sharing changes by a new request, or in its status alone, given to the deal that
\* stands at that moment: whatever an acceptance had read when it was simulated.
THEOREM DealsAreKept == Spec => DealsChangeAsAsked
<1> DEFINE A == \A k \in Keys :
                  world'[k] # world[k] /\ world'[k].type = "sharing" =>
                    \E r \in Requests :
                      /\ phase[r] = "ordered" /\ phase'[r] = "committed"
                      /\ ReplacesDeal(call[r], k, world'[k])
                         \/ GivesStatus(call[r], world[k], world'[k])
<1>1. FreshInv /\ [Next]_ledgerVars => [A]_ledgerVars
  <2> SUFFICES ASSUME FreshInv, Next, NEW k \in Keys,
                      world'[k] # world[k], world'[k].type = "sharing"
               PROVE  \E r \in Requests :
                        /\ phase[r] = "ordered" /\ phase'[r] = "committed"
                        /\ \/ ReplacesDeal(call[r], k, world'[k])
                           \/ GivesStatus(call[r], world[k], world'[k])
    OBVIOUS
  <2>1. ASSUME NEW r \in Requests,
               \/ \E c \in Calls : Endorse(r, c)
               \/ Refuse(r) \/ Submit(r) \/ Lose(r) \/ Invalidate(r)
               \/ TimeOut(r) \/ Reply(r) \/ Release(r)
        PROVE  FALSE
    BY <2>1 DEF Endorse, Refuse, Submit, Lose, Invalidate, TimeOut, Reply, Release
  <2>2. PICK r \in Requests : Commit(r)
    BY <2>1 DEF Next
  <2>3. phase[r] = "ordered" /\ phase'[r] = "committed"
    BY <2>2 DEF Commit, FreshInv, TypeInv, TypeOK
  <2> QED
    BY <2>2, <2>3, DealStep
<1> QED
  BY <1>1, FreshAlways, PTL DEF Spec, DealsChangeAsAsked
==============================================================================
