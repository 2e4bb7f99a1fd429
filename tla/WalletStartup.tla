----------------------------- MODULE WalletStartup -----------------------------
(***************************************************************************)
(* util/PoolAndWalletManager.java, its constructor: what the backend does    *)
(* with libindy before it serves anybody.  createPool opens the pool, or      *)
(* configures it and opens it again.  Then, for the steward's wallet and for *)
(* Tayo's: the wallet is opened and its first DID is taken, or, whatever     *)
(* failed, it is created, opened and given a DID, the steward's from a seed  *)
(* and Tayo's a new one, which the steward registers on the ledger as a      *)
(* TRUST_ANCHOR.  Any other exception ends the process.                     *)
(*                                                                         *)
(* The process may be stopped between any two calls, the pool may not answer *)
(* in time, the pool's trustee changes its rules, and the people who run the *)
(* backend have libindy too: while it is down they back wallets up, restore  *)
(* or delete them, change the steward's key, or register Tayo by hand.       *)
(***************************************************************************)
EXTENDS Naturals, IndyLedger

CONSTANTS
  Steward, Tayo,  \* the two wallets
  Seed,           \* the key pair the steward's seed stands for
  Trustee,        \* a trustee of the pool, and its key
  MaxFaults,      \* bound: calls the pool does not answer
  MaxStops,       \* bound: times the process is stopped
  MaxHelp,        \* bound: things done by people, and by the trustee
  TheKey          \* the key both wallets are made with

ASSUME StartupConstants ==
  /\ Wallets = {Steward, Tayo} /\ Steward # Tayo
  /\ Keys \subseteq Nat
  /\ Seed \in Keys /\ Trustee \in Keys /\ Seed # Trustee
  /\ TheKey \in Passes
  /\ MaxFaults \in Nat /\ MaxStops \in Nat /\ MaxHelp \in Nat

VARIABLES
  ws,       \* libindy's wallets
  pool,     \* libindy's pool
  ledger,   \* what the nodes agree on
  at,       \* the step the process is at, or "down" or "up"
  which,    \* the wallet it is about
  did,      \* wallet -> the DID in the maps steward and Tayo, or None
  exit,     \* the error that ended the last start, or "none"
  used,     \* history: keys ever made
  cut,      \* history: DIDs whose registration was stopped, lost, refused or left behind
  faults, stops, help

process == <<at, which, did, exit>>
bounds == <<faults, stops, help>>
vars == <<ws, pool, ledger, at, which, did, exit, used, cut, faults, stops, help>>

Genesis == [d \in {Seed, Trustee} |-> IF d = Seed THEN "STEWARD" ELSE "TRUSTEE"]
NoDids == [w \in Wallets |-> None]

Init ==
  /\ ws = NoWallets /\ pool = NoPool /\ ledger = NewLedger(Genesis)
  /\ at = "down" /\ which = Steward /\ did = NoDids /\ exit = "none"
  /\ used = {Seed, Trustee} /\ cut = {}
  /\ faults = 0 /\ stops = 0 /\ help = 0

-----------------------------------------------------------------------------
Goto(step) == at' = step /\ UNCHANGED <<which, did, exit>>

Die(err) ==
  /\ at' = "down" /\ which' = Steward /\ did' = NoDids /\ exit' = err
  /\ ws' = AllClosed(ws)
  /\ pool' = PoolKept(pool)

\* A mutant: it is put into the steward's map, whichever wallet it is about.
KnownToSteward(d, next) == /\ did' = [did EXCEPT ![Steward] = d]
                           /\ at' = next /\ UNCHANGED exit

\* The wallet's DID is put into its map.
Known(d, next) == /\ did' = [did EXCEPT ![which] = d]
                  /\ at' = next /\ UNCHANGED exit

-----------------------------------------------------------------------------
(* createPool *)

Boot ==
  /\ at = "down"
  /\ pool' = indy_set_protocol_version(pool, 2)
  /\ Goto("pool")
  /\ UNCHANGED <<ws, ledger, used, cut, bounds>>

\* A mutant: the pool is always configured first.
ConfigureFirst(isReachable) ==
  LET r == indy_open_pool_ledger(pool, isReachable)
  IN  /\ at \in {"pool", "poolAgain"}
      /\ ~isReachable => faults < MaxFaults
      /\ faults' = IF isReachable THEN faults ELSE faults + 1
      /\ \/ at = "pool" /\ Goto("config") /\ UNCHANGED <<ws, pool>>
         \/ r.err = "Success" /\ at = "poolAgain" /\ pool' = r.pool /\ Goto("open")
            /\ UNCHANGED ws
         \/ r.err # "Success" /\ at = "poolAgain" /\ Die(r.err)
      /\ UNCHANGED <<ledger, used, cut, stops, help>>

OpenPool(isReachable) ==
  LET r == indy_open_pool_ledger(pool, isReachable)
  IN  /\ at \in {"pool", "poolAgain"}
      /\ ~isReachable => faults < MaxFaults
      /\ faults' = IF isReachable THEN faults ELSE faults + 1
      /\ \/ r.err = "Success" /\ pool' = r.pool /\ Goto("open") /\ UNCHANGED ws
         \/ r.err # "Success" /\ at = "pool" /\ Goto("config") /\ UNCHANGED <<ws, pool>>
         \/ r.err # "Success" /\ at = "poolAgain" /\ Die(r.err)
      /\ UNCHANGED <<ledger, used, cut, stops, help>>

ConfigurePool ==
  LET r == indy_create_pool_ledger_config(pool)
  IN  /\ at = "config"
      /\ \/ r.err = "Success" /\ pool' = r.pool /\ Goto("poolAgain") /\ UNCHANGED ws
         \/ r.err # "Success" /\ Die(r.err)
      /\ UNCHANGED <<ledger, used, cut, bounds>>

-----------------------------------------------------------------------------
(* createStewardWallet and createTayoWallet *)

OpenWallet ==
  LET r == indy_open_wallet(ws, which, TheKey)
  IN  /\ at = "open"
      /\ ws' = r.ws
      /\ Goto(IF r.err = "Success" THEN "find" ELSE "create")
      /\ UNCHANGED <<pool, ledger, used, cut, bounds>>

\* The wallet that comes next, if any.
AfterWallet == IF which = Steward THEN "open" ELSE "up"
NextWallet == which' = IF which = Steward THEN Tayo ELSE which

FindDid ==
  LET dids == indy_list_my_dids_with_meta(ws, which)
  IN  /\ at = "find"
      /\ \/ \E d \in dids : Known(d, AfterWallet) /\ NextWallet
         \/ dids = {} /\ Goto("create")
      /\ UNCHANGED <<ws, pool, ledger, used, cut, bounds>>

CreateWallet ==
  LET r == indy_create_wallet(ws, which, TheKey)
  IN  /\ at = "create"
      /\ \/ r.err = "Success" /\ ws' = r.ws /\ Goto("reopen") /\ UNCHANGED pool
         \/ r.err # "Success" /\ Die(r.err)
      /\ UNCHANGED <<ledger, used, cut, bounds>>

ReopenWallet ==
  /\ at = "reopen"
  /\ ws' = indy_open_wallet(ws, which, TheKey).ws
  /\ Goto("store")
  /\ UNCHANGED <<pool, ledger, used, cut, bounds>>

\* A new key is one nobody has, whichever: the least will do.
IsNew(key) == key \notin used /\ \A k \in Keys \ used : key <= k

\* A mutant: the steward's DID is made without its seed.
NewKeyWithoutSeed(key) == IsNew(key)

\* The steward's keys come from its seed, Tayo's are new.
NewKey(key) == IF which = Steward THEN key = Seed ELSE IsNew(key)

StoreDid(key) ==
  LET r == indy_create_and_store_my_did(ws, which, key)
  IN  /\ at = "store"
      /\ NewKey(key)
      /\ ws' = r.ws
      /\ used' = used \cup {key}
      /\ Known(key, IF which = Steward THEN "open" ELSE "register")
      /\ NextWallet
      /\ UNCHANGED <<pool, ledger, cut, bounds>>

-----------------------------------------------------------------------------
(* signAndSubmitRequest: whatever the pool replies, the start goes on.       *)

\* A mutant: the key is copied from the steward's map.
RegistrationOfSteward(d) ==
  indy_sign_request(ws, Steward, did[Steward],
    indy_build_nym_request(did[Steward], d, did[Steward], "TRUST_ANCHOR"))

Registration(d) ==
  indy_sign_request(ws, Steward, did[Steward],
    indy_build_nym_request(did[Steward], d, d, "TRUST_ANCHOR"))

Register ==
  LET r == indy_submit_request(ledger, Registration(did[Tayo]))
  IN  /\ at = "register"
      /\ ledger' = r.ledger
      /\ cut' = IF r.op = "REPLY" THEN cut ELSE cut \cup {did[Tayo]}
      /\ Goto("up")
      /\ UNCHANGED <<ws, pool, used, bounds>>

\* No answer in time: the request may have been ordered all the same.
RegisterLost(isOrdered) ==
  LET r == indy_submit_request(ledger, Registration(did[Tayo]))
  IN  /\ at = "register"
      /\ faults < MaxFaults
      /\ faults' = faults + 1
      /\ ledger' = IF isOrdered THEN r.ledger ELSE ledger
      /\ cut' = cut \cup {did[Tayo]}
      /\ Die("PoolLedgerTimeout")
      /\ UNCHANGED <<used, stops, help>>

Stop ==
  /\ at # "down"
  /\ stops < MaxStops
  /\ stops' = stops + 1
  /\ cut' = IF at = "register" THEN cut \cup {did[Tayo]} ELSE cut
  /\ Die("none")
  /\ UNCHANGED <<ledger, used, faults, help>>

-----------------------------------------------------------------------------
(* People, while the backend is down.  A process of theirs opens a wallet and *)
(* closes it again.                                                         *)

Help == at = "down" /\ help < MaxHelp /\ help' = help + 1
        /\ UNCHANGED <<process, faults, stops>>
Opened(w) == indy_open_wallet(ws, w, TheKey)
IsOpenable(w) == Opened(w).err = "Success"

Backup(w) ==
  /\ Help /\ IsOpenable(w)
  /\ ws' = indy_close_wallet(indy_export_wallet(Opened(w).ws, w).ws, w).ws
  /\ UNCHANGED <<pool, ledger, used, cut>>

Restore(w, pass) ==
  /\ Help /\ ws.backup[w] # None
  /\ ws' = indy_import_wallet(ws, w, pass).ws
  /\ UNCHANGED <<pool, ledger, used, cut>>

\* closeAndDeleteWallet, which the process itself never calls.
DeleteWallet(w) ==
  /\ Help /\ IsOpenable(w)
  /\ ws' = indy_delete_wallet(indy_close_wallet(Opened(w).ws, w).ws, w, TheKey).ws
  /\ UNCHANGED <<pool, ledger, used, cut>>

\* What cleanup has commented out.
DeletePool ==
  /\ Help
  /\ pool' = indy_delete_pool_ledger_config(pool).pool
  /\ UNCHANGED <<ws, ledger, used, cut>>

\* The steward's key is changed in two steps, in the wallet and on the ledger.
ReplaceKeyStart(key) ==
  /\ Help /\ IsOpenable(Steward) /\ IsNew(key)
  /\ ws' = AllClosed(indy_replace_keys_start(Opened(Steward).ws, Steward, Seed, key).ws)
  /\ used' = used \cup {key}
  /\ UNCHANGED <<pool, ledger, cut>>

ReplaceKeyOnLedger ==
  LET key == ws.stored[Steward].next[Seed]
  IN  /\ Help /\ IsOpenable(Steward) /\ key # None
      /\ ledger' = indy_sign_and_submit_request(ledger, Opened(Steward).ws, Steward, Seed,
                     indy_build_nym_request(Seed, Seed, key, "STEWARD")).ledger
      /\ UNCHANGED <<ws, pool, used, cut>>

ReplaceKeyApply ==
  /\ Help /\ IsOpenable(Steward)
  /\ ws' = AllClosed(indy_replace_keys_apply(Opened(Steward).ws, Steward, Seed).ws)
  /\ UNCHANGED <<pool, ledger, used, cut>>

\* The steward registers a DID of Tayo's wallet the ledger does not seem to have,
\* and accepts the agreement on the way if there is one.
RegisterByHand(d, isUpToDate) ==
  LET r == indy_build_nym_request(Seed, d, d, "TRUST_ANCHOR")
      taa == indy_get_txn_author_agreement(ledger)
      Submit(request) ==
        ledger' = indy_sign_and_submit_request(ledger, Opened(Steward).ws, Steward,
                                               Seed, request).ledger
  IN  /\ Help /\ IsOpenable(Steward) /\ IsOpenable(Tayo)
      /\ d \in MyDids(ws.stored[Tayo])
      /\ indy_get_nym(ledger, d, isUpToDate) = None
      /\ \/ taa = None /\ Submit(r)
         \/ /\ taa # None
            /\ \E m \in indy_get_acceptance_mechanisms(ledger) :
                 Submit(indy_append_txn_author_agreement_acceptance_to_request(r, taa, m))
      /\ UNCHANGED <<ws, pool, used, cut>>

\* The network is set up anew from its genesis transactions, the wallets are not
\* (those of the repository are of some network there was).
NewNetwork ==
  /\ Help
  /\ ledger' = NewLedger(Genesis)
  /\ cut' = cut \cup (used \ {Seed, Trustee})
  /\ UNCHANGED <<ws, pool, used>>

-----------------------------------------------------------------------------
(* The pool's trustee, at any time. *)

Govern(request) ==
  /\ help < MaxHelp /\ help' = help + 1
  /\ ledger' = indy_submit_request(ledger, SignedBy(request, Trustee, Trustee)).ledger
  /\ UNCHANGED <<ws, pool, process, used, cut, faults, stops>>

ChangeRules ==
  \/ \E version \in Versions :
       Govern(indy_build_txn_author_agreement_request(Trustee, version))
  \/ Govern(indy_build_disable_all_txn_author_agreements_request(Trustee))
  \/ Govern(indy_build_acceptance_mechanisms_request(Trustee, Mechanisms))
  \/ \E writes \in BOOLEAN : Govern(indy_build_pool_config_request(Trustee, writes))
  \/ Govern(indy_build_auth_rule_request(Trustee, "NYM", {"TRUSTEE"}))

CatchUp ==
  /\ ledger.behind # {}
  /\ ledger' = CaughtUp(ledger)
  /\ UNCHANGED <<ws, pool, process, used, cut, bounds>>

-----------------------------------------------------------------------------
Step ==
  \/ \E isReachable \in BOOLEAN : OpenPool(isReachable)
  \/ ConfigurePool
  \/ OpenWallet \/ FindDid \/ CreateWallet \/ ReopenWallet
  \/ \E key \in Keys : StoreDid(key)
  \/ Register
  \/ \E isOrdered \in BOOLEAN : RegisterLost(isOrdered)

People ==
  \/ \E w \in Wallets :
       Backup(w) \/ DeleteWallet(w) \/ \E pass \in Passes : Restore(w, pass)
  \/ DeletePool \/ NewNetwork
  \/ \E key \in Keys : ReplaceKeyStart(key)
  \/ ReplaceKeyOnLedger \/ ReplaceKeyApply
  \/ \E d \in Keys, isUpToDate \in BOOLEAN : RegisterByHand(d, isUpToDate)

Next == Boot \/ Step \/ Stop \/ People \/ ChangeRules \/ CatchUp

Spec == Init /\ [][Next]_vars

\* People start the backend again while it is down, and its calls return.
FairSpec == Spec /\ WF_vars(Boot) /\ WF_vars(Step)

-----------------------------------------------------------------------------
(* Properties. *)

DidsOf(w) == IF ws.stored[w] = None THEN {} ELSE MyDids(ws.stored[w])
Identity(w) == IF DidsOf(w) = {} THEN None ELSE CHOOSE d \in DidsOf(w) : TRUE
Using(w) == IF at = "up" THEN did[w] ELSE None

\* The state is one of libindy's, and a start that fails says why in its terms.
TypeOK ==
  /\ ws \in WalletState /\ pool \in Pools /\ ledger \in Ledgers
  /\ at \in {"down", "pool", "config", "poolAgain", "open", "find", "create", "reopen",
             "store", "register", "up"}
  /\ which \in Wallets
  /\ did \in [Wallets -> Keys \cup {None}]
  /\ exit \in {"none"} \cup WalletErrors \cup PoolErrors
  /\ used \subseteq Keys /\ cut \subseteq Keys

\* However often it is started, stopped, restored or deleted, neither wallet ever
\* holds two DIDs (createStewardWallet, createTayoWallet take the first listed), and
\* the steward's is the one of its seed.
OneIdentity ==
  /\ DidsOf(Steward) \subseteq {Seed}
  /\ \A d, e \in DidsOf(Tayo) : d = e

\* A Tayo DID in use is a TRUST_ANCHOR of the ledger, unless the registration that
\* createTayoWallet tries once was stopped, lost or refused, or made to a network that
\* a new one has replaced: the next start finds the wallet and does not try again.
AnchoredUnlessCut ==
  at = "up" /\ did[Tayo] \notin cut =>
    /\ ledger.nyms[did[Tayo]] # None
    /\ ledger.nyms[did[Tayo]].role = "TRUST_ANCHOR"
    /\ ledger.nyms[did[Tayo]].verkey = ws.stored[Tayo].my[did[Tayo]]

\* The start keeps either wallet's identity (ServiceIdentity): it uses the one DID
\* the wallet has, and gives it one where it has none.
TayoIdentity == INSTANCE ServiceIdentity
  WITH Dids <- Keys, identity <- Identity(Tayo), using <- Using(Tayo)
StewardIdentity == INSTANCE ServiceIdentity
  WITH Dids <- Keys, identity <- Identity(Steward), using <- Using(Steward)
KeepsIdentity == TayoIdentity!Spec /\ StewardIdentity!Spec

\* A wallet that is there and has no DID, or another key: every start fails on it
\* (createWallet finds it there), until people take it away.
IsUnusable(w) ==
  ws.stored[w] # None /\ (MyDids(ws.stored[w]) = {} \/ ws.stored[w].pass # TheKey)

\* A backend that is started again when it is down comes up, or is kept down by an
\* unusable wallet.
ComesUp == []<>(at = "up" \/ \E w \in Wallets : IsUnusable(w))
==============================================================================
