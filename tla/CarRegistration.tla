---------------------------- MODULE CarRegistration ----------------------------
(***************************************************************************)
(* service/CarService.java with util/PoolAndWalletManager.java: a member     *)
(* gets a verifiable credential of a car (createVC), lists credentials       *)
(* (getVC), and registers a car by presenting one of them (postCar).         *)
(*                                                                         *)
(* Each request opens the member's Indy wallet, which only one handle may do *)
(* at a time, and closes it in a finally.  Calls of Indy are awaited except  *)
(* proverStoreCredential and closeWallet: those are left in the wallet's     *)
(* queue and run in order, after the request may have been answered.  The    *)
(* last offer of each member is kept in a map of the process (Tayo).         *)
(*                                                                         *)
(* The VC service (outside src/) publishes a schema and definitions on the   *)
(* Indy ledger and issues credentials.  A read of the ledger goes to one     *)
(* node, which may lag: createVC reads a definition three times at most,     *)
(* createVP reads once.                                                     *)
(***************************************************************************)
EXTENDS Integers, Sequences, FiniteSets

CONSTANTS
  Threads, Members,
  Cars,       \* what a credential says of a car
  Issuer,     \* the VC service's DID, and its key
  Tags,       \* definitions the VC service may make of its schema
  Rules,      \* the ledger's: type of request -> roles that may make it
  MaxRef,     \* bound: credentials asked for and stored
  MaxRestart, \* bound: restarts of the backend
  MaxLost,    \* bound: writes of the VC service the ledger does not take
  None

ASSUME RegistrationConstants ==
  /\ MaxRef \in Nat /\ MaxRestart \in Nat /\ MaxLost \in Nat
  /\ None \notin Threads \cup Tags

VARIABLES
  opened,   \* member -> the thread whose handle has the wallet open, or None
  creds,    \* member -> credentials in the wallet: [ref, def, car]
  queue,    \* member -> commands of Indy nobody waits for
  offers,   \* member -> definition of the last offer (Tayo), or None
  req,      \* thread -> the request it serves
  cars,     \* the car channel's records: [ref, owner, car]
  nextRef, restarts,
  ledger,   \* of Indy
  own,      \* the definitions in the VC service's wallet
  lost,
  answered  \* history: what createVC answered that it had stored, since the start

backend == <<opened, creds, queue, offers, req, cars, nextRef, restarts, answered>>
aside == <<restarts, answered, ledger, own, lost>>
vars == <<opened, creds, queue, offers, req, cars, nextRef, restarts, ledger, own, lost,
          answered>>

A == INSTANCE Anoncreds
Schema == A!indy_issuer_create_schema(Issuer, "car")
Defs == {[schema |-> Schema, tag |-> tag] : tag \in Tags}

\* None is no credential, and the issuer's DID no object of the ledger's.
ASSUME DistinctValues ==
  /\ None \notin [def : Defs, to : [def : Defs, by : Members, secret : Members], values : Cars]
  /\ Issuer \notin {Schema} \cup Defs

L == INSTANCE IndyLedger
  WITH Wallets <- {}, Passes <- {}, Keys <- {Issuer}, Objects <- {Schema} \cup Defs,
       Versions <- {}, Mechanisms <- {}, FirstRules <- Rules

Rest == [op |-> "none", at |-> "rest", member |-> None, ref |-> 0, car |-> None,
         def |-> None, reads |-> 0, proof |-> None, due |-> {}, list |-> {}]
At(t, op, step) == req[t].op = op /\ req[t].at = step
Member(t) == req[t].member
Goto(t, step) == req' = [req EXCEPT ![t].at = step]
\* A request that waits for Indy runs after what was left in the queue.
Drained(m) == queue[m] = <<>>
Asked == Cardinality({t \in Threads : req[t].op = "createVC"})
         + Cardinality({m \in Members : \E i \in DOMAIN queue[m] : queue[m][i].op = "store"})

Init ==
  /\ opened = [m \in Members |-> None]
  /\ creds = [m \in Members |-> {}]
  /\ queue = [m \in Members |-> <<>>]
  /\ offers = [m \in Members |-> None]
  /\ req = [t \in Threads |-> Rest]
  /\ cars = {}
  /\ nextRef = 1 /\ restarts = 0
  /\ ledger = L!NewLedger([d \in {Issuer} |-> "TRUST_ANCHOR"]) /\ own = {} /\ lost = 0
  /\ answered = [m \in Members |-> {}]

-----------------------------------------------------------------------------
(* How a request ends. *)

Answered(t) == req' = [req EXCEPT ![t] = Rest]

Close(t) == [op |-> "close", by |-> t]
Leave(t, commands) == queue' = [queue EXCEPT ![Member(t)] = @ \o commands]

\* A mutant: the wallet is closed where the request succeeds only.
FailOpen(t) == Answered(t) /\ UNCHANGED queue

\* catch, whatever was thrown, then finally.
Fail(t) == Answered(t) /\ Leave(t, <<Close(t)>>)

\* Any awaited call may throw: the pool of Indy, the VC service, the gateway.
Throws(t) ==
  /\ req[t].at \in {"opened", "offered", "defined", "requested", "presented", "verified"}
  /\ Fail(t)
  /\ UNCHANGED <<opened, creds, offers, cars, nextRef, aside>>

-----------------------------------------------------------------------------
(* How it starts: openUserWallet.  Where that throws, finally closes null,   *)
(* which throws again, in place of the answer catch had chosen.             *)

Start(t, op, m, ref, car) ==
  /\ req[t] = Rest
  /\ op = "createVC" => nextRef + Asked <= MaxRef
  /\ req' = [req EXCEPT ![t] = [Rest EXCEPT !.op = op, !.at = "start", !.member = m,
                                            !.ref = ref, !.car = car,
                        !.due = IF op = "getVC" THEN answered[m] ELSE {}]]
  /\ UNCHANGED <<opened, creds, queue, offers, cars, nextRef, aside>>

\* A mutant: a wallet that another request has open is used as well.
OpenShared(t, rightPassword) ==
  /\ req[t].at = "start"
  /\ Drained(Member(t))
  /\ IF rightPassword
     THEN /\ opened' = [opened EXCEPT ![Member(t)] = t]
          /\ Goto(t, "opened")
     ELSE Answered(t) /\ UNCHANGED opened
  /\ UNCHANGED <<creds, queue, offers, cars, nextRef, aside>>

OpenUserWallet(t, rightPassword) ==
  /\ req[t].at = "start"
  /\ Drained(Member(t))
  /\ IF rightPassword /\ opened[Member(t)] = None
     THEN /\ opened' = [opened EXCEPT ![Member(t)] = t]
          /\ Goto(t, "opened")
     ELSE Answered(t) /\ UNCHANGED opened
  /\ UNCHANGED <<creds, queue, offers, cars, nextRef, aside>>

-----------------------------------------------------------------------------
(* createVC *)

\* A DID for the car is made in the wallet before (createCarDID): it signs what is
\* asked of the service, and is not told apart here.
GetCredentialOffer(t, def) ==
  /\ At(t, "createVC", "opened")
  /\ A!indy_issuer_create_credential_offer(own, def) # None
  /\ offers' = [offers EXCEPT ![Member(t)] = def]
  /\ req' = [req EXCEPT ![t] = [@ EXCEPT !.at = "offered", !.def = def]]
  /\ UNCHANGED <<opened, creds, queue, cars, nextRef, aside>>

\* A mutant: the definition is taken as offered.
TakeAsOffered(t, isUpToDate) ==
  /\ At(t, "createVC", "offered")
  /\ Goto(t, "defined")
  /\ UNCHANGED <<opened, creds, queue, offers, cars, nextRef, aside>>

\* ensurePreviousRequestApplied: a third answer without a "seqNo" is the last.
ReadCredDef(t, isUpToDate) ==
  LET isRead == L!indy_get_cred_def(ledger, req[t].def, isUpToDate) # None
  IN  /\ At(t, "createVC", "offered")
      /\ \/ isRead /\ Goto(t, "defined") /\ UNCHANGED queue
         \/ ~isRead /\ req[t].reads < 2 /\ req' = [req EXCEPT ![t].reads = @ + 1]
            /\ UNCHANGED queue
         \/ ~isRead /\ req[t].reads = 2 /\ Fail(t)
      /\ UNCHANGED <<opened, creds, offers, cars, nextRef, aside>>

\* getVC of the service answers 2xx with a credential, or with some other text:
\* storing that fails, and nobody looks.
Store(t, isCredential) ==
  LET def == req[t].def
      request == A!indy_prover_create_credential_req(
                   Member(t), A!indy_prover_create_master_secret(Member(t)), def, def)
  IN  [op |-> "store", by |-> t, def |-> def, request |-> request,
       credential |-> IF ~isCredential THEN None
                      ELSE A!indy_issuer_create_credential(own, def, request, req[t].car)]

\* A mutant: the wallet is closed before the credential is stored.
CloseThenStore(t, isCredential) ==
  /\ At(t, "createVC", "defined")
  /\ Leave(t, <<Close(t), Store(t, isCredential)>>)
  /\ Answered(t)
  /\ answered' = [answered EXCEPT ![Member(t)] =
       IF isCredential THEN @ \cup {[def |-> req[t].def, car |-> req[t].car]} ELSE @]
  /\ UNCHANGED <<opened, creds, offers, cars, nextRef, restarts, ledger, own, lost>>

StoreCredential(t, isCredential) ==
  /\ At(t, "createVC", "defined")
  /\ Leave(t, <<Store(t, isCredential), Close(t)>>)
  /\ Answered(t)
  /\ answered' = [answered EXCEPT ![Member(t)] =
       IF isCredential THEN @ \cup {[def |-> req[t].def, car |-> req[t].car]} ELSE @]
  /\ UNCHANGED <<opened, creds, offers, cars, nextRef, restarts, ledger, own, lost>>

(* getVC: the wallet is closed once the credentials are read, and again in    *)
(* finally, whether or not the answer could be made of them.                *)
GetCredentials(t) ==
  /\ At(t, "getVC", "opened")
  /\ Drained(Member(t))
  /\ Leave(t, <<Close(t)>>)
  /\ req' = [req EXCEPT ![t] = [@ EXCEPT !.at = "listed",
               !.list = A!indy_prover_get_credentials(creds[Member(t)], Issuer)]]
  /\ UNCHANGED <<opened, creds, offers, cars, nextRef, aside>>

AnswerList(t) ==
  /\ At(t, "getVC", "listed")
  /\ Fail(t)
  /\ UNCHANGED <<opened, creds, offers, cars, nextRef, aside>>

-----------------------------------------------------------------------------
(* postCar *)

GetProofRequest(t) ==
  /\ At(t, "postCar", "opened")
  /\ offers[Member(t)] # None
  /\ req' = [req EXCEPT ![t] = [@ EXCEPT !.at = "requested", !.def = offers[Member(t)]]]
  /\ UNCHANGED <<opened, creds, queue, offers, cars, nextRef, aside>>

NoProofRequest(t) ==
  /\ At(t, "postCar", "opened")
  /\ offers[Member(t)] = None
  /\ Fail(t)
  /\ UNCHANGED <<opened, creds, offers, cars, nextRef, aside>>

ProofRequest(t) == [nonce |-> A!indy_generate_nonce(t), def |-> req[t].def]

\* The credentials found in the wallet, of the definition asked for; and the
\* schemas and definitions populateCredentialInfo reads for them.
Found(t) ==
  A!indy_prover_fetch_credentials_for_proof_req(
    A!indy_prover_search_credentials_for_proof_req(creds[Member(t)], ProofRequest(t)))
DefsOf(found) == {c.def : c \in found}
SchemasOf(found) == {c.def.schema : c \in found}

IsPopulated(found, isUpToDate) ==
  /\ \A d \in DefsOf(found) : L!indy_get_cred_def(ledger, d, isUpToDate) # None
  /\ \A s \in SchemasOf(found) : L!indy_get_schema(ledger, s, isUpToDate) # None

\* A mutant: the first credential found is presented.
ProofOfFirst(t) ==
  IF Found(t) = {} THEN None
  ELSE [request |-> ProofRequest(t), from |-> CHOOSE c \in Found(t) : TRUE]

\* The credential the member chose is presented.
Proof(t) ==
  A!indy_prover_create_proof(creds[Member(t)], ProofRequest(t), req[t].ref,
                             SchemasOf(Found(t)), DefsOf(Found(t)))

CreateVP(t, isUpToDate) ==
  LET isMade == Found(t) # {} /\ IsPopulated(Found(t), isUpToDate) /\ Proof(t) # None
  IN  /\ At(t, "postCar", "requested")
      /\ Drained(Member(t))
      /\ \/ isMade /\ UNCHANGED queue
            /\ req' = [req EXCEPT ![t] = [@ EXCEPT !.at = "presented", !.proof = Proof(t)]]
         \/ ~isMade /\ Fail(t)
      /\ UNCHANGED <<opened, creds, offers, cars, nextRef, aside>>

\* FAIL_VERIFY_VP is thrown inside the try: catch throws FAIL_VERIFY_VP2 instead.
VerifyVP(t) ==
  /\ At(t, "postCar", "presented")
  /\ IF A!indy_verifier_verify_proof(ProofRequest(t), req[t].proof, {Schema}, {req[t].def})
     THEN Goto(t, "verified") /\ UNCHANGED queue
     ELSE Answered(t) /\ Leave(t, <<Close(t), Close(t)>>)
  /\ UNCHANGED <<opened, creds, offers, cars, nextRef, aside>>

\* The car's id is made from the referent.  The ledger's answer may be lost.
CreateCar(t, isAnswered) ==
  /\ At(t, "postCar", "verified")
  /\ cars' = cars \cup {[ref |-> req[t].ref, owner |-> Member(t), def |-> req[t].def,
                         car |-> req[t].proof.from.car]}
  /\ IF isAnswered
     THEN Answered(t) /\ Leave(t, <<Close(t), Close(t)>>)
     ELSE Fail(t)
  /\ UNCHANGED <<opened, creds, offers, nextRef, aside>>

-----------------------------------------------------------------------------
(* Indy runs what nobody waits for. *)

RunStore(m) ==
  LET c == Head(queue[m])
  IN  /\ ~Drained(m)
      /\ c.op = "store"
      /\ queue' = [queue EXCEPT ![m] = Tail(@)]
      /\ creds' = [creds EXCEPT ![m] =
           IF opened[m] # c.by THEN @
           ELSE A!indy_prover_store_credential(@, nextRef, c.request, c.credential, c.def)]
      /\ nextRef' = IF creds' = creds THEN nextRef ELSE nextRef + 1
      /\ UNCHANGED <<opened, offers, req, cars, aside>>

\* A handle closed before is refused, which nobody notices.
RunClose(m) ==
  /\ ~Drained(m)
  /\ Head(queue[m]).op = "close"
  /\ queue' = [queue EXCEPT ![m] = Tail(@)]
  /\ opened' = [opened EXCEPT ![m] = IF @ = Head(queue[m]).by THEN None ELSE @]
  /\ UNCHANGED <<creds, offers, req, cars, nextRef, aside>>

Restart ==
  /\ restarts < MaxRestart
  /\ restarts' = restarts + 1
  /\ opened' = [m \in Members |-> None]
  /\ queue' = [m \in Members |-> <<>>]
  /\ offers' = [m \in Members |-> None]
  /\ req' = [t \in Threads |-> Rest]
  /\ answered' = [m \in Members |-> {}]
  /\ UNCHANGED <<creds, cars, nextRef, ledger, own, lost>>

-----------------------------------------------------------------------------
(* The VC service: it publishes its schema, and definitions of it, which it   *)
(* offers whether or not the ledger took them.  A node may lag for ever.      *)

Publish(request, isTaken) ==
  /\ ~isTaken => lost < MaxLost
  /\ lost' = IF isTaken THEN lost ELSE lost + 1
  /\ ledger' = IF isTaken
               THEN L!indy_submit_request(ledger, L!SignedBy(request, Issuer, Issuer)).ledger
               ELSE ledger
  /\ UNCHANGED backend

PublishSchema ==
  /\ Schema \notin ledger.objects
  /\ Publish(L!indy_build_schema_request(Issuer, Schema), TRUE)
  /\ UNCHANGED own

PublishDef(tag, isTaken) ==
  LET r == A!indy_issuer_create_and_store_credential_def(own, Schema, tag)
      def == [schema |-> Schema, tag |-> tag]
  IN  /\ L!indy_get_schema(ledger, Schema, TRUE) # None
      /\ r.err = "Success"
      /\ own' = r.own
      /\ Publish(L!indy_build_cred_def_request(Issuer, def), isTaken)

-----------------------------------------------------------------------------
Serve(t) ==
  \/ \E rightPassword \in BOOLEAN : OpenUserWallet(t, rightPassword)
  \/ \E def \in Defs : GetCredentialOffer(t, def)
  \/ \E isCredential \in BOOLEAN : StoreCredential(t, isCredential)
  \/ GetCredentials(t) \/ AnswerList(t)
  \/ GetProofRequest(t) \/ NoProofRequest(t)
  \/ \E isUpToDate \in BOOLEAN : ReadCredDef(t, isUpToDate) \/ CreateVP(t, isUpToDate)
  \/ VerifyVP(t)
  \/ \E isAnswered \in BOOLEAN : CreateCar(t, isAnswered)
  \/ Throws(t)

Request(t, m) ==
  \/ \E car \in Cars : Start(t, "createVC", m, 0, car)
  \/ Start(t, "getVC", m, 0, None)
  \/ \E ref \in 1..MaxRef : Start(t, "postCar", m, ref, None)

Indy(m) == RunStore(m) \/ RunClose(m)

Next ==
  \/ \E t \in Threads : Serve(t) \/ \E m \in Members : Request(t, m)
  \/ \E m \in Members : Indy(m)
  \/ Restart
  \/ PublishSchema \/ \E tag \in Tags, isTaken \in BOOLEAN : PublishDef(tag, isTaken)

Spec == Init /\ [][Next]_vars

\* The VC service, the ledgers and Indy answer or fail; requests need not come.
FairSpec ==
  /\ Spec
  /\ \A t \in Threads : WF_vars(Serve(t))
  /\ \A m \in Members : WF_vars(Indy(m))

-----------------------------------------------------------------------------
(* Properties. *)

\* A request past openUserWallet has the wallet open until it is answered: no
\* close left behind by an earlier one, nor a second close, takes it away.
HandleStaysOpen ==
  \A t \in Threads : req[t].at \notin {"rest", "start", "listed"} => opened[Member(t)] = t

\* A registered car is the one of the credential the member chose, which the
\* owner's wallet holds, of the definition it was checked for (createVP, verifyVP).
RegisteredAsHeld ==
  \A c \in cars :
    [ref |-> c.ref, def |-> c.def, car |-> c.car] \in creds[c.owner]

\* What a wallet holds, and so what a car is registered with, is of a definition on the
\* ledger: one the VC service offers and failed to publish leads to no credential
\* (ensurePreviousRequestApplied).
HeldIsPublished ==
  \A m \in Members : \A c \in creds[m] : c.def \in ledger.objects

\* What createVC answered that it had stored, without waiting for it, is in every
\* list getVC is asked for later, unless the process stopped in between.
ListIsComplete ==
  \A t \in Threads : At(t, "getVC", "listed") =>
    req[t].due \subseteq {[def |-> c.def, car |-> c.car] : c \in req[t].list}

\* A wallet that is open is in the hands of a request that is still to close it, or the
\* close is in its queue already: no way out of createVC, getVC or postCar, nor the
\* order in which Indy runs what they left, keeps a member out of its wallet for good.
NoHandleIsLost ==
  \A m \in Members :
    LET t == opened[m]
    IN  t # None =>
          \/ Member(t) = m /\ req[t].at \notin {"rest", "start", "listed"}
          \/ \E i \in DOMAIN queue[m] : queue[m][i] = Close(t)

\* Every wallet opened is closed in the end, whichever way the request ends.
WalletsAreClosed ==
  \A m \in Members : opened[m] # None ~> opened[m] = None
==============================================================================
