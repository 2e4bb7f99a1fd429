---------------------------- MODULE SharingLedger ----------------------------
(***************************************************************************)
(* Requests of the backend on the sharing channel.  A request is a thread  *)
(* inside TayoConnect.submitTransaction: its call is endorsed (simulated   *)
(* against the committed world state), submitted to the orderer, and later *)
(* validated and committed by the peers.  Other requests commit in         *)
(* between.  Each stage has a client-side deadline, so a caller may be     *)
(* told of a failure while its transaction is still on the way.            *)
(*                                                                         *)
(* Endorsement, ordering and validation are Hyperledger Fabric's and       *)
(* external; the rest is the chaincode (TayoSharing) and TayoConnect.      *)
(***************************************************************************)
EXTENDS TayoSharing

CONSTANTS
  Requests,     \* concurrent request threads
  MinMoney, MaxMoney,  \* bound: balances outside this range are not explored
  JavaMax       \* the largest balance Integer.parseInt reads

ASSUME LedgerConstants == MinMoney \in Int /\ MaxMoney \in Int /\ JavaMax \in Int

VARIABLES
  world,        \* committed world state: key -> record
  phase,        \* request -> where its transaction is
  call,         \* request -> the call it made
  outcome,      \* request -> what simulating the call returned
  stale,        \* request -> a key it read was written since
  answer        \* request -> what its caller has been told

ledgerVars == <<world, phase, call, outcome, stale, answer>>

NoCall == [fn |-> "none"]
NoOutcome == Refused({})
Phases == {"idle", "endorsed", "ordered", "lost", "invalid", "committed"}
Answers == {"none", "waiting", "ok", "error"}

InFlight(r) == phase[r] \in {"endorsed", "ordered"}

Init ==
  /\ world = InitLedger
  /\ phase = [r \in Requests |-> "idle"]
  /\ call = [r \in Requests |-> NoCall]
  /\ outcome = [r \in Requests |-> NoOutcome]
  /\ stale = [r \in Requests |-> FALSE]
  /\ answer = [r \in Requests |-> "none"]

-----------------------------------------------------------------------------
MoneyBounded(writes) ==
  \A k \in DOMAIN writes :
    writes[k].type = "wallet" => writes[k].money \in MinMoney .. MaxMoney

\* The peers simulate the call against the committed state.
Endorse(r, c) ==
  LET simulated == Simulate(world, c)
  IN  /\ phase[r] = "idle"
      /\ simulated.ok
      /\ MoneyBounded(simulated.writes)
      /\ phase' = [phase EXCEPT ![r] = "endorsed"]
      /\ call' = [call EXCEPT ![r] = c]
      /\ outcome' = [outcome EXCEPT ![r] = simulated]
      /\ answer' = [answer EXCEPT ![r] = "waiting"]
      /\ UNCHANGED <<world, stale>>

\* The chaincode returned an error, or a peer is unreachable: nothing is
\* submitted and the caller gets the exception.
Refuse(r) ==
  /\ phase[r] = "idle"
  /\ phase' = [phase EXCEPT ![r] = "lost"]
  /\ answer' = [answer EXCEPT ![r] = "error"]
  /\ UNCHANGED <<world, call, outcome, stale>>

\* The endorsed transaction reaches the orderer.
Submit(r) ==
  /\ phase[r] = "endorsed"
  /\ phase' = [phase EXCEPT ![r] = "ordered"]
  /\ UNCHANGED <<world, call, outcome, stale, answer>>

\* The endorse or submit deadline passes and the transaction never reaches
\* the orderer.
Lose(r) ==
  /\ phase[r] = "endorsed"
  /\ phase' = [phase EXCEPT ![r] = "lost"]
  /\ answer' = [answer EXCEPT ![r] = "error"]
  /\ call' = [call EXCEPT ![r] = NoCall]
  /\ outcome' = [outcome EXCEPT ![r] = NoOutcome]
  /\ stale' = [stale EXCEPT ![r] = FALSE]
  /\ UNCHANGED world

\* Validation: a transaction whose read set is out of date changes nothing.
Invalidate(r) ==
  /\ phase[r] = "ordered"
  /\ stale[r]
  /\ phase' = [phase EXCEPT ![r] = "invalid"]
  /\ call' = [call EXCEPT ![r] = NoCall]
  /\ outcome' = [outcome EXCEPT ![r] = NoOutcome]
  /\ stale' = [stale EXCEPT ![r] = FALSE]
  /\ UNCHANGED <<world, answer>>

\* Otherwise its writes take effect, and outdate what others have read.
Commit(r) ==
  /\ phase[r] = "ordered"
  /\ ~stale[r]
  /\ phase' = [phase EXCEPT ![r] = "committed"]
  /\ world' = Write(world, outcome[r].writes)
  /\ stale' = [q \in Requests |->
                 \/ stale[q]
                 \/ /\ q # r
                    /\ InFlight(q)
                    /\ outcome[q].reads \cap DOMAIN outcome[r].writes # {}]
  /\ outcome' = [outcome EXCEPT ![r] = NoOutcome]
  /\ UNCHANGED <<call, answer>>

\* The submit or commit-status deadline passes: the caller sees an error, the
\* ordered transaction stays on its way.
TimeOut(r) ==
  /\ phase[r] = "ordered"
  /\ answer[r] = "waiting"
  /\ answer' = [answer EXCEPT ![r] = "error"]
  /\ UNCHANGED <<world, phase, call, outcome, stale>>

\* After a deposit or withdrawal TayoConnect queries the balance for the log,
\* and fails if it does not fit an Integer.
BalanceReadable(r) ==
  call[r].fn \in {"Deposit", "Withdraw"} =>
    /\ HasBalance(world, call[r].user)
    /\ QueryWalletBalance(world, call[r].user) <= JavaMax

\* An invalidated transaction is never reported to its caller.
ReplyIfCommitted(r) ==
  /\ phase[r] = "committed"
  /\ answer[r] = "waiting"
  /\ answer' = [answer EXCEPT ![r] = IF BalanceReadable(r) THEN "ok" ELSE "error"]
  /\ UNCHANGED <<world, phase, call, outcome, stale>>

\* The commit status arrives and the handler answers its caller.
Reply(r) ==
  /\ phase[r] \in {"committed", "invalid"}
  /\ answer[r] = "waiting"
  /\ answer' = [answer EXCEPT ![r] =
       IF phase[r] = "committed" /\ BalanceReadable(r) THEN "ok" ELSE "error"]
  /\ UNCHANGED <<world, phase, call, outcome, stale>>

\* The thread is free for another request; the caller may repeat this one.
Release(r) ==
  /\ phase[r] \in {"committed", "invalid", "lost"}
  /\ answer[r] \in {"ok", "error"}
  /\ phase' = [phase EXCEPT ![r] = "idle"]
  /\ call' = [call EXCEPT ![r] = NoCall]
  /\ answer' = [answer EXCEPT ![r] = "none"]
  /\ UNCHANGED <<world, outcome, stale>>

Next ==
  \E r \in Requests :
    \/ \E c \in Calls : Endorse(r, c)
    \/ Refuse(r)
    \/ Submit(r)
    \/ Lose(r)
    \/ Invalidate(r)
    \/ Commit(r)
    \/ TimeOut(r)
    \/ Reply(r)
    \/ Release(r)

\* TayoConnect sets a deadline on every stage of a call, so a waiting caller
\* is answered; nothing makes the orderer or the peers deliver.
Fairness == \A r \in Requests : WF_ledgerVars(Lose(r) \/ TimeOut(r) \/ Reply(r))

Spec == Init /\ [][Next]_ledgerVars
FairSpec == Spec /\ Fairness

-----------------------------------------------------------------------------
(***************************************************************************)
(* Properties.                                                             *)
(***************************************************************************)

\* Type correctness of the ledger and of the requests in progress.
IsOutcome(o) ==
  /\ o.ok \in BOOLEAN
  /\ o.reads \subseteq Keys
  /\ DOMAIN o.writes \subseteq Keys
  /\ \A k \in DOMAIN o.writes : o.writes[k] \in Records

TypeOK ==
  /\ world \in [Keys -> Records]
  /\ phase \in [Requests -> Phases]
  /\ call \in [Requests -> Calls \cup {NoCall}]
  /\ DOMAIN outcome = Requests
  /\ \A r \in Requests : IsOutcome(outcome[r])
  /\ stale \in [Requests -> BOOLEAN]
  /\ answer \in [Requests -> Answers]

\* However requests overlap, the ledger only changes as if every committed
\* call had run alone on the state it changes: nothing a call read (a
\* balance, a status, the absence of a wallet) has changed under it.
Serial == INSTANCE SerialSharing
Serializable == Serial!Spec

\* A wallet is only overdrawn, or further, by a request that carries a negative
\* number, a deposit to it or a price paid to it (neither MemberRequest nor the
\* chaincode refuses one), or by the copy of a balance that was overdrawn before: the
\* check of performTransaction (line 271) is made against the balance at simulation,
\* the money leaves at commit, and no two requests that overlap take the same money.
Overdrawn(k) ==
  /\ world'[k].type = "wallet" /\ world'[k].money < 0
  /\ world'[k].money < AsWallet(world[k]).money

AsksToOverdraw(c, k) ==
  \/ c.fn = "Deposit" /\ k = WalletKey[c.user] /\ c.amount < 0
  \/ c.fn = "ProcessTransaction" /\ k = WalletKey[c.lender] /\ c.price < 0
  \/ c.fn = "UpdateUserWallet" /\ world'[k] = world[c.key]

OverdraftIsAsked ==
  [][\A k \in Keys : Overdrawn(k) =>
       \E r \in Requests : /\ phase[r] = "ordered" /\ phase'[r] = "committed"
                           /\ AsksToOverdraw(call[r], k)]_ledgerVars

\* When the commit of ProcessTransaction changes anything, the sharing it
\* pays for is confirmed at that moment, exactly the price moves from the
\* borrower's wallet to the lender's, and nothing else changes.
Pays(r) ==
  /\ phase[r] = "ordered"
  /\ phase'[r] = "committed"
  /\ call[r].fn = "ProcessTransaction"
  /\ world' # world

MovesPrice(c) ==
  LET to == WalletKey[c.lender]
      from == WalletKey[c.borrower]
  IN  /\ world[PayKey[c.car]].type = "sharing"
      /\ world[PayKey[c.car]].status = Confirmed
      /\ to # from =>
           /\ world'[to].money = AsWallet(world[to]).money + c.price
           /\ world'[from].money = AsWallet(world[from]).money - c.price
      /\ \A k \in Keys \ {to, from} : world'[k] = world[k]

PaymentIsATransfer == [][\A r \in Requests : Pays(r) => MovesPrice(call[r])]_ledgerVars

ReplacesDeal(c, k, after) ==
  c.fn = "CreateSharing" /\ c.offer = [key |-> k, record |-> after]
GivesStatus(c, before, after) ==
  /\ c.fn = "UpdateSharingStatus"
  /\ before.type = "sharing" /\ before.car = RoundedCar[c.car]
  /\ after = [before EXCEPT !.status = c.status]

\* A deal is only replaced by the commit of a new request (CreateSharing), and a status
\* is only given to the deal that stands when it commits: an acceptance simulated on a
\* deal that was replaced meanwhile neither brings that deal back nor accepts the new
\* one on its terms (UpdateSharingStatus writes the whole record it has read).
DealsChangeAsAsked ==
  [][\A k \in Keys :
       world'[k] # world[k] /\ world'[k].type = "sharing" =>
         \E r \in Requests :
           /\ phase[r] = "ordered" /\ phase'[r] = "committed"
           /\ ReplacesDeal(call[r], k, world'[k])
              \/ GivesStatus(call[r], world[k], world'[k])
    ]_ledgerVars

\* A caller is not left waiting, whatever happens to the transaction.
EveryRequestAnswered ==
  \A r \in Requests : answer[r] = "waiting" ~> answer[r] \in {"ok", "error"}

-----------------------------------------------------------------------------
(***************************************************************************)
(* What a comment of the repository says and the code does not do.         *)
(***************************************************************************)

\* "Convert carID to sharingID": the payment of a car looks at the sharing
\* that a client requested (CreateSharing) and that was confirmed for it.
ConfirmedIsPayable ==
  \A offer \in Offers :
    LET asked == world[offer.key]
    IN  StatusOf(asked) = Confirmed => PayKey[asked.car] = offer.key
==============================================================================
