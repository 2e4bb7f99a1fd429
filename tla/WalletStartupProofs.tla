-------------------------- MODULE WalletStartupProofs --------------------------
(***************************************************************************)
(* Proofs about WalletStartup, for any number of keys, faults, stops and     *)
(* doings of people and of the pool's trustee.                              *)
(***************************************************************************)
EXTENDS WalletStartup, TLAPS

\* A wallet's contents, stored or in a backup: the steward's hold no DID but the
\* seed's, Tayo's at most one, a key made for it that was never changed.
StewardContents(c) == c # None => MyDids(c) \subseteq {Seed}
TayoContents(c) ==
  c # None => /\ \A d, e \in MyDids(c) : d = e
              /\ \A d \in MyDids(c) : d \in used \ {Seed, Trustee} /\ c.my[d] = d

ContentsOK ==
  /\ StewardContents(ws.stored[Steward]) /\ StewardContents(ws.backup[Steward])
  /\ TayoContents(ws.stored[Tayo]) /\ TayoContents(ws.backup[Tayo])

Starting == {"pool", "config", "poolAgain"}

\* What the process knows of the wallets at each of its steps.
ProcessOK ==
  /\ \A w \in ws.open : ws.stored[w] # None
  /\ at = "find" => which \in ws.open
  /\ at = "reopen" => which \notin ws.open /\ ws.stored[which].pass = TheKey
  /\ at = "store" => which \in ws.open
  /\ at \in {"reopen", "store"} => ws.stored[which] # None /\ DidsOf(which) = {}
  /\ at \in Starting \cup {"down"} => which = Steward
  /\ which = Tayo => did[Steward] \in DidsOf(Steward)
  /\ at \in {"register", "up"} => which = Tayo /\ did[Tayo] \in DidsOf(Tayo)

Anchored(d) == /\ ledger.nyms[d] # None
               /\ ledger.nyms[d].role = "TRUST_ANCHOR"
               /\ ledger.nyms[d].verkey = d

\* Tayo's DID is registered, about to be, or was cut.
Accounted(d) == \/ d \in cut \/ Anchored(d)
                \/ at = "register" /\ d = did[Tayo]
AnchorOK ==
  /\ \A d \in DidsOf(Tayo) : Accounted(d)
  /\ ws.backup[Tayo] # None => \A d \in MyDids(ws.backup[Tayo]) : Accounted(d)

UsedOK == Seed \in used /\ Trustee \in used

Inv == TypeOK /\ UsedOK /\ ContentsOK /\ ProcessOK /\ AnchorOK

-----------------------------------------------------------------------------
(* libindy's calls. *)

\* Putting contents into a wallet changes that wallet and nothing else.
LEMMA PutIs ==
  ASSUME NEW s \in WalletState, NEW w \in Wallets, NEW c \in Contents \cup {None}
  PROVE  /\ Put(s, w, c).err = "Success"
         /\ Put(s, w, c).ws \in WalletState
         /\ Put(s, w, c).ws.stored = [s.stored EXCEPT ![w] = c]
         /\ Put(s, w, c).ws.open = s.open
         /\ Put(s, w, c).ws.backup = s.backup
<1>1. Put(s, w, c).ws = [s EXCEPT !.stored = [s.stored EXCEPT ![w] = c]]
  BY DEF Put, WalletState
<1>2. [s.stored EXCEPT ![w] = c] \in [Wallets -> Contents \cup {None}]
  BY DEF WalletState
<1> QED
  BY <1>1, <1>2 DEF Put, WalletState

\* A new wallet holds no DID.
LEMMA NewContentsIs ==
  ASSUME NEW pass \in Passes
  PROVE  NewContents(pass) \in Contents /\ MyDids(NewContents(pass)) = {}
         /\ NewContents(pass).pass = pass
BY WalletConstants DEF NewContents, NoKeys, Contents, MyDids

\* Opening a wallet changes what is open, and only if it can be opened.
LEMMA OpenIs ==
  ASSUME NEW s \in WalletState, NEW w \in Wallets, NEW pass
  PROVE  LET r == indy_open_wallet(s, w, pass)
         IN  /\ r.ws \in WalletState
             /\ r.ws.stored = s.stored /\ r.ws.backup = s.backup
             /\ r.err = "Success" => /\ r.ws.open = s.open \cup {w}
                                     /\ s.stored[w] # None /\ w \notin s.open
             /\ r.err # "Success" => r.ws = s
             /\ s.stored[w] # None /\ w \notin s.open /\ s.stored[w].pass = pass
                  => r.err = "Success"
BY DEF indy_open_wallet, Refused, WalletState

\* Closing an open wallet leaves what is stored.
LEMMA CloseIs ==
  ASSUME NEW s \in WalletState, NEW w \in Wallets, w \in s.open
  PROVE  LET r == indy_close_wallet(s, w)
         IN  /\ r.ws \in WalletState /\ r.ws.open = s.open \ {w}
             /\ r.ws.stored = s.stored /\ r.ws.backup = s.backup
BY DEF indy_close_wallet, WalletState

\* Closing everything leaves what is stored.
LEMMA AllClosedIs ==
  ASSUME NEW s \in WalletState
  PROVE  /\ AllClosed(s) \in WalletState
         /\ AllClosed(s).stored = s.stored
         /\ AllClosed(s).backup = s.backup
         /\ AllClosed(s).open = {}
BY DEF AllClosed, WalletState

\* The pool's calls leave a pool.
LEMMA PoolIs ==
  ASSUME NEW p \in Pools, NEW isReachable \in BOOLEAN
  PROVE  /\ indy_set_protocol_version(p, 2) \in Pools
         /\ indy_create_pool_ledger_config(p).pool \in Pools
         /\ indy_create_pool_ledger_config(p).err \in {"Success"} \cup PoolErrors
         /\ indy_open_pool_ledger(p, isReachable).pool \in Pools
         /\ indy_open_pool_ledger(p, isReachable).err \in {"Success"} \cup PoolErrors
         /\ indy_delete_pool_ledger_config(p).pool \in Pools
         /\ PoolKept(p) \in Pools
BY DEF Pools, indy_set_protocol_version, indy_create_pool_ledger_config,
       indy_open_pool_ledger, indy_delete_pool_ledger_config, PoolKept, PoolErrors

\* A request is of the same type, by the same DID and about the same data, signed or not.
LEMMA SignedIs ==
  ASSUME NEW type, NEW by, NEW data, NEW taa, NEW signatures, NEW s, NEW w, NEW d, NEW k,
         NEW r, r = [type |-> type, by |-> by, data |-> data, taa |-> taa,
                     signatures |-> signatures]
  PROVE  /\ indy_sign_request(s, w, d, r).type = type
         /\ indy_sign_request(s, w, d, r).by = by
         /\ indy_sign_request(s, w, d, r).data = data
         /\ SignedBy(r, d, k).type = type
         /\ SignedBy(r, d, k).data = data
<1>1. \A x : /\ SignedBy(r, d, x).type = type
             /\ SignedBy(r, d, x).by = by
             /\ SignedBy(r, d, x).data = data
  BY DEF SignedBy
<1> QED
  BY <1>1 DEF indy_sign_request

\* A ledger with one of its fields changed.
LEMMA LedgerWith ==
  ASSUME NEW l \in Ledgers
  PROVE  /\ \A nyms \in [Keys -> Nym \cup {None}] :
              /\ [l EXCEPT !.nyms = nyms] \in Ledgers
              /\ [l EXCEPT !.nyms = nyms].nyms = nyms
              /\ [l EXCEPT !.nyms = nyms].behind = l.behind
         /\ \A behind \in SUBSET (Keys \cup Objects) :
              /\ [l EXCEPT !.behind = behind] \in Ledgers
              /\ [l EXCEPT !.behind = behind].nyms = l.nyms
         /\ \A rules \in [Types -> SUBSET Roles] :
              /\ [l EXCEPT !.rules = rules] \in Ledgers
              /\ [l EXCEPT !.rules = rules].nyms = l.nyms
         /\ \A taa \in Versions \cup {None} :
              /\ [l EXCEPT !.taa = taa] \in Ledgers
              /\ [l EXCEPT !.taa = taa].nyms = l.nyms
         /\ \A aml \in SUBSET Mechanisms :
              /\ [l EXCEPT !.aml = aml] \in Ledgers
              /\ [l EXCEPT !.aml = aml].nyms = l.nyms
         /\ \A writes \in BOOLEAN :
              /\ [l EXCEPT !.writes = writes] \in Ledgers
              /\ [l EXCEPT !.writes = writes].nyms = l.nyms
BY DEF Ledgers

\* What a NYM request does to the ledger: it concerns one record, which is made as
\* asked where there was none, and which only its owner changes.
LEMMA NymSubmitted ==
  ASSUME NEW l \in Ledgers, NEW r, NEW d \in Keys, NEW k \in Keys, NEW role \in Roles,
         r.type = "NYM", r.data = [did |-> d, verkey |-> k, role |-> role]
  PROVE  LET s == indy_submit_request(l, r)
         IN  /\ s.ledger \in Ledgers
             /\ \A e \in Keys \ {d} : s.ledger.nyms[e] = l.nyms[e]
             /\ s.op # "REPLY" => s.ledger = l
             /\ l.nyms[d] # None /\ r.by # d => s.op # "REPLY"
             /\ l.nyms[d] = None /\ s.op = "REPLY"
                  => s.ledger.nyms[d] = [verkey |-> k, role |-> role]
<1> DEFINE s == indy_submit_request(l, r)
           new == [verkey |-> k, role |-> role]
           changed == [l.nyms[d] EXCEPT !.verkey = k]
<1>1. new \in Nym /\ None \notin Nym
  BY LedgerConstants DEF Nym
<1>2. l.nyms[d] # None => changed \in Nym
  BY DEF Ledgers, Nym
<1>3. \/ s.op = "REPLY" /\ s.ledger = WriteNym(l, r.data) /\ IsAccepted(l, r)
      \/ s.op # "REPLY" /\ s.ledger = l
  BY DEF indy_submit_request, Written
<1>4. IsAccepted(l, r) => l.nyms[d] = None \/ r.by = d
  BY DEF IsAccepted, IsAllowed
<1> DEFINE n == IF l.nyms[d] = None THEN new ELSE changed
           b == IF l.nyms[d] = None THEN l.behind \cup {d} ELSE l.behind
           l1 == [l EXCEPT !.nyms = [l.nyms EXCEPT ![d] = n]]
<1>5. WriteNym(l, r.data) = [l EXCEPT !.nyms = [l.nyms EXCEPT ![d] = n], !.behind = b]
  BY DEF WriteNym
<1>6. n \in Nym \cup {None} /\ b \in SUBSET (Keys \cup Objects)
  BY <1>1, <1>2 DEF Ledgers
<1>n. l.nyms[d] = None => n = new
  OBVIOUS
<1> HIDE DEF n, b
<1>7. l1 \in Ledgers /\ l1.nyms = [l.nyms EXCEPT ![d] = n]
  <2>1. [l.nyms EXCEPT ![d] = n] \in [Keys -> Nym \cup {None}]
    BY <1>6 DEF Ledgers
  <2> QED
    BY <2>1, LedgerWith
<1>8. WriteNym(l, r.data) = [l1 EXCEPT !.behind = b]
  BY <1>5, <1>7 DEF Ledgers
<1> HIDE DEF l1
<1>9. /\ WriteNym(l, r.data) \in Ledgers
      /\ WriteNym(l, r.data).nyms = [l.nyms EXCEPT ![d] = n]
  <2> DEFINE l2 == [l1 EXCEPT !.behind = b]
  <2>1. l2 \in Ledgers /\ l2.nyms = l1.nyms
    BY <1>6, <1>7, LedgerWith
  <2> HIDE DEF l2
  <2> QED
    BY <1>7, <1>8, <2>1 DEF l2
<1> QED
  BY <1>3, <1>4, <1>9, <1>n DEF Ledgers

\* What the trustee changes of the pool's rules leaves every NYM record alone.
LEMMA RulesChanged ==
  ASSUME Inv, ChangeRules
  PROVE  ledger' \in Ledgers /\ ledger'.nyms = ledger.nyms
<1>1. \A r : \/ indy_submit_request(ledger, r).ledger = ledger
             \/ indy_submit_request(ledger, r).ledger = Written(ledger, r)
  BY DEF indy_submit_request
<1>2. ledger \in Ledgers /\ FirstRules \in [Types -> SUBSET Roles]
  BY LedgerConstants DEF Inv, TypeOK
<1>3. ASSUME NEW type \in {"TXN_AUTHR_AGRMT", "TXN_AUTHR_AGRMT_DISABLE",
                          "TXN_AUTHR_AGRMT_AML", "POOL_CONFIG"},
             NEW data, NEW by,
             type = "TXN_AUTHR_AGRMT" => data \in Versions,
             type = "TXN_AUTHR_AGRMT_AML" => data = Mechanisms,
             type = "POOL_CONFIG" => data \in BOOLEAN,
             Govern(Request(type, by, data))
      PROVE  ledger' \in Ledgers /\ ledger'.nyms = ledger.nyms
  <2>1. PICK r : /\ r.type = type /\ r.data = data
                 /\ ledger' = indy_submit_request(ledger, r).ledger
    <3>1. /\ SignedBy(Request(type, by, data), Trustee, Trustee).type = type
          /\ SignedBy(Request(type, by, data), Trustee, Trustee).data = data
      BY SignedIs DEF Request
    <3> QED
      BY <1>3, <3>1 DEF Govern
  <2>2. CASE type = "TXN_AUTHR_AGRMT"
    <3>1. Written(ledger, r) = [ledger EXCEPT !.taa = data]
      BY <1>3, <2>1, <2>2 DEF Written
    <3>2. /\ [ledger EXCEPT !.taa = data] \in Ledgers
          /\ [ledger EXCEPT !.taa = data].nyms = ledger.nyms
      BY <1>2, <1>3, <2>2, LedgerWith
    <3> QED
      BY <1>1, <1>2, <2>1, <3>1, <3>2
  <2>3. CASE type = "TXN_AUTHR_AGRMT_DISABLE"
    <3>1. Written(ledger, r) = [ledger EXCEPT !.taa = None]
      BY <1>3, <2>1, <2>3 DEF Written
    <3>2. /\ [ledger EXCEPT !.taa = None] \in Ledgers
          /\ [ledger EXCEPT !.taa = None].nyms = ledger.nyms
      BY <1>2, <1>3, <2>3, LedgerWith
    <3> QED
      BY <1>1, <1>2, <2>1, <3>1, <3>2
  <2>4. CASE type = "TXN_AUTHR_AGRMT_AML"
    <3>1. Written(ledger, r) = [ledger EXCEPT !.aml = data]
      BY <1>3, <2>1, <2>4 DEF Written
    <3>2. /\ [ledger EXCEPT !.aml = data] \in Ledgers
          /\ [ledger EXCEPT !.aml = data].nyms = ledger.nyms
      BY <1>2, <1>3, <2>4, LedgerWith
    <3> QED
      BY <1>1, <1>2, <2>1, <3>1, <3>2
  <2>5. CASE type = "POOL_CONFIG"
    <3>1. Written(ledger, r) = [ledger EXCEPT !.writes = data]
      BY <1>3, <2>1, <2>5 DEF Written
    <3>2. /\ [ledger EXCEPT !.writes = data] \in Ledgers
          /\ [ledger EXCEPT !.writes = data].nyms = ledger.nyms
      BY <1>2, <1>3, <2>5, LedgerWith
    <3> QED
      BY <1>1, <1>2, <2>1, <3>1, <3>2
  <2> QED
    BY <1>3, <2>2, <2>3, <2>4, <2>5
<1>4. ASSUME Govern(indy_build_auth_rule_request(Trustee, "NYM", {"TRUSTEE"}))
      PROVE  ledger' \in Ledgers /\ ledger'.nyms = ledger.nyms
  <2> DEFINE data == [type |-> "NYM", roles |-> {"TRUSTEE"}]
  <2>1. PICK r : /\ r.type = "AUTH_RULE" /\ r.data = data
                 /\ ledger' = indy_submit_request(ledger, r).ledger
    <3>1. /\ SignedBy(Request("AUTH_RULE", Trustee, data), Trustee, Trustee).type
               = "AUTH_RULE"
          /\ SignedBy(Request("AUTH_RULE", Trustee, data), Trustee, Trustee).data = data
      BY SignedIs DEF Request
    <3> QED
      BY <1>4, <3>1 DEF Govern, indy_build_auth_rule_request
  <2>2. Written(ledger, r)
          = [ledger EXCEPT !.rules = [ledger.rules EXCEPT !["NYM"] = {"TRUSTEE"}]]
    BY <2>1 DEF Written, Ledgers
  <2>3. [ledger.rules EXCEPT !["NYM"] = {"TRUSTEE"}] \in [Types -> SUBSET Roles]
    BY <1>2 DEF Ledgers, Types, Roles
  <2> QED
    BY <1>1, <1>2, <2>1, <2>2, <2>3 DEF Ledgers
<1> QED
  BY <1>3, <1>4 DEF ChangeRules, indy_build_txn_author_agreement_request,
     indy_build_disable_all_txn_author_agreements_request,
     indy_build_acceptance_mechanisms_request, indy_build_pool_config_request

-----------------------------------------------------------------------------
(* The invariant. *)

\* The genesis transactions make a ledger.
LEMMA NewLedgerIs == NewLedger(Genesis) \in Ledgers
<1> USE LedgerConstants, StartupConstants
<1>1. \A d \in DOMAIN Genesis : Genesis[d] \in Roles
  BY DEF Genesis, Roles
<1>2. NewLedger(Genesis).nyms \in [Keys -> Nym \cup {None}]
  BY <1>1 DEF NewLedger, Nym
<1> QED
  BY <1>2 DEF NewLedger, Ledgers

LEMMA InitInv == Init => Inv
<1> SUFFICES ASSUME Init PROVE Inv
  OBVIOUS
<1> USE WalletConstants, LedgerConstants, StartupConstants DEF Init
<1>1. ws \in WalletState
  BY DEF NoWallets, WalletState
<1>2. pool \in Pools
  BY DEF NoPool, Pools
<1>3. ledger \in Ledgers
  BY NewLedgerIs
<1>4. TypeOK /\ UsedOK
  BY <1>1, <1>2, <1>3 DEF TypeOK, UsedOK, NoDids
<1>5. \A w \in Wallets : ws.stored[w] = None /\ ws.backup[w] = None
  BY DEF NoWallets
<1>6. ContentsOK
  BY <1>5 DEF ContentsOK, StewardContents, TayoContents
<1>7. ProcessOK
  BY DEF ProcessOK, NoWallets, Starting
<1>8. AnchorOK
  BY <1>5 DEF AnchorOK, DidsOf
<1> QED
  BY <1>4, <1>6, <1>7, <1>8 DEF Inv

\* A process that ends, and a pool that is closed, leave what is stored.
LEMMA DieIs ==
  ASSUME Inv, NEW err \in {"none"} \cup WalletErrors \cup PoolErrors, Die(err)
  PROVE  /\ ws' \in WalletState /\ pool' \in Pools
         /\ ws'.stored = ws.stored /\ ws'.backup = ws.backup /\ ws'.open = {}
         /\ at' = "down" /\ which' = Steward /\ exit' = err
         /\ did' \in [Wallets -> Keys \cup {None}]
<1>1. pool' \in Pools
  BY PoolIs DEF Inv, TypeOK, Die
<1>2. did' \in [Wallets -> Keys \cup {None}]
  BY DEF Die, NoDids
<1> QED
  BY <1>1, <1>2, AllClosedIs DEF Inv, TypeOK, Die

LEMMA DieInv ==
  ASSUME Inv, NEW err \in {"none"} \cup WalletErrors \cup PoolErrors, Die(err),
         UNCHANGED used, ledger' \in Ledgers,
         \A d \in DidsOf(Tayo) \cup (IF ws.backup[Tayo] = None THEN {}
                                     ELSE MyDids(ws.backup[Tayo])) :
           Accounted(d) => Accounted(d)',
         cut' \subseteq Keys
  PROVE  Inv'
<1> USE StartupConstants
<1>1. /\ ws' \in WalletState /\ pool' \in Pools
      /\ ws'.stored = ws.stored /\ ws'.backup = ws.backup /\ ws'.open = {}
      /\ at' = "down" /\ which' = Steward /\ exit' = err
      /\ did' \in [Wallets -> Keys \cup {None}]
  BY DieIs
<1>2. TypeOK' /\ UsedOK'
  BY <1>1 DEF Inv, TypeOK, UsedOK
<1>3. ContentsOK'
  BY <1>1 DEF Inv, ContentsOK, StewardContents, TayoContents
<1>4. ProcessOK'
  BY <1>1 DEF ProcessOK, Starting
<1>5. AnchorOK'
  BY <1>1 DEF Inv, AnchorOK, DidsOf
<1> QED
  BY <1>2, <1>3, <1>4, <1>5 DEF Inv

LEMMA BootInv == ASSUME Inv, Boot PROVE Inv'
<1> USE StartupConstants DEF Inv, Boot, Goto
<1>1. TypeOK' /\ UsedOK'
  BY PoolIs DEF TypeOK, UsedOK, bounds
<1>2. ContentsOK' /\ AnchorOK'
  BY DEF ContentsOK, StewardContents, TayoContents, AnchorOK, DidsOf, Accounted, Anchored
<1>3. ProcessOK'
  BY DEF ProcessOK, Starting
<1> QED
  BY <1>1, <1>2, <1>3

LEMMA OpenPoolInv ==
  ASSUME Inv, NEW isReachable \in BOOLEAN, OpenPool(isReachable)
  PROVE  Inv'
<1> USE StartupConstants
<1> DEFINE r == indy_open_pool_ledger(pool, isReachable)
<1>1. r.pool \in Pools /\ r.err \in {"Success"} \cup PoolErrors
  BY PoolIs DEF Inv, TypeOK
<1>2. ASSUME UNCHANGED <<ws, which, did, exit, ledger, used, cut>>, pool' \in Pools,
             at \in Starting, at' \in {"open", "config"}
      PROVE  Inv'
  <2> USE <1>2 DEF Inv
  <2>1. TypeOK' /\ UsedOK'
    BY DEF TypeOK, UsedOK
  <2>2. ContentsOK' /\ AnchorOK'
    BY DEF ContentsOK, StewardContents, TayoContents, AnchorOK, DidsOf, Accounted, Anchored,
           Starting
  <2>3. ProcessOK'
    BY DEF ProcessOK, Starting
  <2> QED
    BY <2>1, <2>2, <2>3
<1>3. CASE r.err # "Success" /\ Die(r.err) /\ UNCHANGED <<ledger, used, cut>>
             /\ at = "poolAgain"
  <2>1. Inv => ledger' \in Ledgers /\ cut' \subseteq Keys
    BY <1>3 DEF Inv, TypeOK
  <2>2. \A d : Accounted(d) => Accounted(d)'
    BY <1>3 DEF Accounted, Anchored
  <2> QED
    BY <1>1, <1>3, <2>1, <2>2, DieInv
<1>4. \/ /\ UNCHANGED <<ws, which, did, exit, ledger, used, cut>> /\ pool' \in Pools
         /\ at \in Starting /\ at' \in {"open", "config"}
      \/ /\ r.err # "Success" /\ Die(r.err) /\ UNCHANGED <<ledger, used, cut>>
         /\ at = "poolAgain"
  BY <1>1 DEF Inv, TypeOK, OpenPool, Goto, Starting
<1> QED
  BY <1>2, <1>3, <1>4

LEMMA ConfigurePoolInv == ASSUME Inv, ConfigurePool PROVE Inv'
<1> USE StartupConstants
<1> DEFINE r == indy_create_pool_ledger_config(pool)
<1>1. r.pool \in Pools /\ r.err \in {"Success"} \cup PoolErrors
  BY PoolIs DEF Inv, TypeOK
<1>2. CASE r.err = "Success" /\ pool' = r.pool /\ Goto("poolAgain") /\ UNCHANGED ws
  <2> USE <1>1, <1>2 DEF Inv, ConfigurePool, Goto
  <2>1. TypeOK' /\ UsedOK'
    BY DEF TypeOK, UsedOK
  <2>2. ContentsOK' /\ AnchorOK'
    BY DEF ContentsOK, StewardContents, TayoContents, AnchorOK, DidsOf, Accounted, Anchored
  <2>3. ProcessOK'
    BY DEF ProcessOK, Starting
  <2> QED
    BY <2>1, <2>2, <2>3
<1>3. CASE r.err # "Success" /\ Die(r.err)
  <2>1. ledger' \in Ledgers /\ cut' \subseteq Keys /\ UNCHANGED <<ledger, used, cut>>
    BY DEF Inv, TypeOK, ConfigurePool
  <2>2. \A d : Accounted(d) => Accounted(d)'
    BY <2>1 DEF ConfigurePool, Accounted, Anchored
  <2> QED
    BY <1>1, <1>3, <2>1, <2>2, DieInv
<1> QED
  BY <1>2, <1>3 DEF ConfigurePool

LEMMA OpenWalletInv == ASSUME Inv, OpenWallet PROVE Inv'
<1> USE StartupConstants DEF Inv, OpenWallet, Goto
<1> DEFINE r == indy_open_wallet(ws, which, TheKey)
<1>1. /\ r.ws \in WalletState /\ r.ws.stored = ws.stored /\ r.ws.backup = ws.backup
      /\ r.err = "Success" => r.ws.open = ws.open \cup {which} /\ ws.stored[which] # None
      /\ r.err # "Success" => r.ws = ws
  BY OpenIs DEF TypeOK
<1> HIDE DEF r
<1>2. ws' = r.ws /\ at' = IF r.err = "Success" THEN "find" ELSE "create"
  BY DEF r
<1>3. TypeOK' /\ UsedOK'
  BY <1>1, <1>2 DEF TypeOK, UsedOK
<1>4. ContentsOK' /\ AnchorOK'
  BY <1>1, <1>2 DEF ContentsOK, StewardContents, TayoContents, AnchorOK, DidsOf, Accounted,
                    Anchored
<1>5. ProcessOK'
  BY <1>1, <1>2 DEF ProcessOK, Starting, DidsOf, TypeOK
<1> QED
  BY <1>3, <1>4, <1>5

LEMMA FindDidInv == ASSUME Inv, FindDid PROVE Inv'
<1> USE StartupConstants DEF Inv
<1>1. /\ at = "find" /\ ws.stored[which] # None
      /\ indy_list_my_dids_with_meta(ws, which) = DidsOf(which)
      /\ UNCHANGED <<ws, pool, ledger, used, cut>>
  BY DEF FindDid, ProcessOK, DidsOf, indy_list_my_dids_with_meta
<1>2. ContentsOK' /\ AnchorOK'
  BY <1>1 DEF ContentsOK, StewardContents, TayoContents, AnchorOK, DidsOf, Accounted, Anchored
<1>3. CASE Goto("create")
  <2>1. TypeOK' /\ UsedOK'
    BY <1>1, <1>3 DEF TypeOK, UsedOK, Goto
  <2>2. ProcessOK'
    BY <1>1, <1>3 DEF ProcessOK, Starting, DidsOf, Goto
  <2> QED
    BY <1>2, <2>1, <2>2
<1>4. ASSUME NEW d \in DidsOf(which), Known(d, AfterWallet), NextWallet
      PROVE  Inv'
  <2>1. d \in Keys
    BY <1>4 DEF DidsOf, MyDids
  <2>2. TypeOK' /\ UsedOK'
    BY <1>1, <1>4, <2>1 DEF TypeOK, UsedOK, Known, NextWallet, AfterWallet
  <2>3. ProcessOK'
    BY <1>1, <1>4 DEF TypeOK, ProcessOK, Starting, DidsOf, Known, NextWallet, AfterWallet
  <2> QED
    BY <1>2, <2>2, <2>3
<1> QED
  BY <1>1, <1>3, <1>4 DEF FindDid

LEMMA CreateWalletInv == ASSUME Inv, CreateWallet PROVE Inv'
<1> USE StartupConstants DEF Inv
<1> DEFINE r == indy_create_wallet(ws, which, TheKey)
           new == NewContents(TheKey)
<1>1. which \in Wallets /\ ws \in WalletState
  BY DEF TypeOK
<1>2. new \in Contents /\ MyDids(new) = {} /\ new.pass = TheKey
  BY NewContentsIs
<1>3. \/ r.err = "WalletAlreadyExistsError"
      \/ /\ ws.stored[which] = None /\ r = Put(ws, which, new)
  BY DEF indy_create_wallet, Refused
<1>4. CASE r.err = "Success" /\ ws' = r.ws /\ Goto("reopen") /\ UNCHANGED pool
  <2>1. /\ ws.stored[which] = None /\ ws' \in WalletState
        /\ ws'.stored = [ws.stored EXCEPT ![which] = new]
        /\ ws'.open = ws.open /\ ws'.backup = ws.backup
    BY <1>1, <1>2, <1>3, <1>4, PutIs
  <2> USE <1>1, <1>4, <2>1 DEF CreateWallet, Goto
  <2>2. TypeOK' /\ UsedOK'
    BY DEF TypeOK, UsedOK
  <2>3. /\ ws'.stored[which] = new /\ new # None
        /\ \A w \in Wallets \ {which} : ws'.stored[w] = ws.stored[w]
    BY <1>2, WalletConstants DEF WalletState
  <2> HIDE DEF new
  <2>4. ContentsOK'
    BY <1>2, <2>3 DEF ContentsOK, StewardContents, TayoContents
  <2>5. AnchorOK'
    <3>1. DidsOf(Tayo)' \subseteq DidsOf(Tayo)
      BY <1>2, <2>3 DEF DidsOf
    <3>2. \A d : Accounted(d) => Accounted(d)'
      BY DEF Accounted, Anchored
    <3> QED
      BY <3>1, <3>2 DEF AnchorOK
  <2>6. ProcessOK'
    <3>1. DidsOf(which)' = {} /\ which' = which /\ did' = did
      BY <1>2, <2>3 DEF DidsOf
    <3>2. which = Tayo => DidsOf(Steward)' = DidsOf(Steward)
      BY <2>3 DEF DidsOf
    <3>3. \A w \in ws'.open : ws'.stored[w] # None
      BY <2>3 DEF ProcessOK, WalletState
    <3> QED
      BY <1>2, <2>3, <3>1, <3>2, <3>3 DEF ProcessOK, Starting
  <2> QED
    BY <2>2, <2>4, <2>5, <2>6
<1>5. CASE r.err # "Success" /\ Die(r.err)
  <2>1. ledger' \in Ledgers /\ cut' \subseteq Keys /\ UNCHANGED <<ledger, used, cut>>
    BY DEF TypeOK, CreateWallet
  <2>2. \A d : Accounted(d) => Accounted(d)'
    <3>1. at = "create"
      BY DEF CreateWallet
    <3> QED
      BY <2>1, <3>1 DEF Accounted, Anchored
  <2>3. r.err \in WalletErrors
    <3>1. Put(ws, which, new).err = "Success"
      BY DEF Put
    <3> QED
      BY <1>3, <1>5, <3>1 DEF WalletErrors
  <2> QED
    BY <1>5, <2>1, <2>2, <2>3, DieInv
<1> QED
  BY <1>4, <1>5 DEF CreateWallet

LEMMA ReopenWalletInv == ASSUME Inv, ReopenWallet PROVE Inv'
<1> USE StartupConstants DEF Inv, ReopenWallet, Goto
<1> DEFINE r == indy_open_wallet(ws, which, TheKey)
<1>1. /\ r.ws \in WalletState /\ r.ws.stored = ws.stored /\ r.ws.backup = ws.backup
      /\ r.ws.open = ws.open \cup {which}
  BY OpenIs DEF TypeOK, ProcessOK
<1> HIDE DEF r
<1>2. ws' = r.ws
  BY DEF r
<1>3. TypeOK' /\ UsedOK'
  BY <1>1, <1>2 DEF TypeOK, UsedOK
<1>4. ContentsOK' /\ AnchorOK'
  BY <1>1, <1>2 DEF ContentsOK, StewardContents, TayoContents, AnchorOK, DidsOf, Accounted,
                    Anchored
<1>5. ProcessOK'
  BY <1>1, <1>2 DEF ProcessOK, Starting, DidsOf, TypeOK
<1> QED
  BY <1>3, <1>4, <1>5

\* What storing a DID in the wallet leaves.
LEMMA StoreDidIs ==
  ASSUME Inv, NEW key \in Keys, StoreDid(key)
  PROVE  /\ ws' \in WalletState /\ ws'.open = ws.open /\ ws'.backup = ws.backup
         /\ ws'.stored[which] # None
         /\ MyDids(ws'.stored[which]) = {key} /\ ws'.stored[which].my[key] = key
         /\ \A w \in Wallets \ {which} : ws'.stored[w] = ws.stored[w]
<1> USE StartupConstants DEF Inv
<1> DEFINE c == [ws.stored[which] EXCEPT !.my = [@ EXCEPT ![key] = key]]
<1>1. /\ which \in Wallets /\ ws \in WalletState /\ which \in ws.open
      /\ ws.stored[which] # None /\ MyDids(ws.stored[which]) = {}
  BY DEF TypeOK, StoreDid, ProcessOK, DidsOf
<1>2. ws.stored[which] \in Contents
  BY <1>1 DEF WalletState
<1>3. c \in Contents /\ c.my = [ws.stored[which].my EXCEPT ![key] = key]
  <2>1. key \in Keys \cup {None} /\ ws.stored[which] \in Contents
    BY <1>2
  <2>2. \A x \in Contents : LET y == [x EXCEPT !.my = [@ EXCEPT ![key] = key]]
                           IN  y \in Contents /\ y.my = [x.my EXCEPT ![key] = key]
    BY DEF Contents
  <2> QED
    BY <2>1, <2>2
<1>4. indy_create_and_store_my_did(ws, which, key) = Put(ws, which, c)
  BY <1>1 DEF indy_create_and_store_my_did, MyDids
<1>5. ws' = Put(ws, which, c).ws
  BY <1>4 DEF StoreDid
<1>6. ws.stored[which].my \in [Keys -> Keys \cup {None}]
  BY <1>2 DEF Contents
<1>7. MyDids(c) = {key} /\ c.my[key] = key
  BY <1>1, <1>3, <1>6, WalletConstants DEF MyDids
<1> HIDE DEF c
<1>8. /\ ws' \in WalletState /\ ws'.open = ws.open /\ ws'.backup = ws.backup
      /\ ws'.stored = [ws.stored EXCEPT ![which] = c]
  BY <1>1, <1>3, <1>5, PutIs
<1>9. ws'.stored[which] = c /\ \A w \in Wallets \ {which} : ws'.stored[w] = ws.stored[w]
  BY <1>1, <1>8 DEF WalletState
<1> QED
  BY <1>3, <1>7, <1>8, <1>9, WalletConstants

LEMMA StoreDidInv ==
  ASSUME Inv, NEW key \in Keys, StoreDid(key)
  PROVE  Inv'
<1> USE StartupConstants DEF Inv
<1>1. /\ ws' \in WalletState /\ ws'.open = ws.open /\ ws'.backup = ws.backup
      /\ ws'.stored[which] # None
      /\ MyDids(ws'.stored[which]) = {key} /\ ws'.stored[which].my[key] = key
      /\ \A w \in Wallets \ {which} : ws'.stored[w] = ws.stored[w]
  BY StoreDidIs
<1>2. /\ at = "store" /\ which \in ws.open /\ which \in Wallets
      /\ UNCHANGED <<pool, ledger, cut, exit>> /\ used' = used \cup {key}
      /\ did' = [did EXCEPT ![which] = key] /\ did'[which] = key
      /\ \A w \in Wallets \ {which} : did'[w] = did[w]
  BY DEF StoreDid, Known, ProcessOK, TypeOK
<1>3. CASE which = Steward
  <2>1. key = Seed /\ used' = used /\ at' = "open" /\ which' = Tayo
    BY <1>2, <1>3 DEF StoreDid, NewKey, NextWallet, Known, UsedOK
  <2>2. TypeOK' /\ UsedOK'
    BY <1>1, <1>2, <2>1 DEF TypeOK, UsedOK
  <2>3. ContentsOK'
    BY <1>1, <1>3, <2>1 DEF ContentsOK, StewardContents, TayoContents
  <2>4. AnchorOK'
    BY <1>1, <1>2, <1>3 DEF AnchorOK, DidsOf, Accounted, Anchored
  <2>5. ProcessOK'
    <3>1. \A w \in ws'.open : ws'.stored[w] # None
      BY <1>1, <1>2 DEF ProcessOK, TypeOK, WalletState
    <3> QED
      BY <1>1, <1>2, <1>3, <2>1, <3>1 DEF ProcessOK, Starting, DidsOf
  <2> QED
    BY <2>2, <2>3, <2>4, <2>5
<1>4. CASE which = Tayo
  <2>1. key \notin used /\ at' = "register" /\ which' = Tayo
    BY <1>2, <1>4 DEF StoreDid, NewKey, IsNew, NextWallet, Known
  <2>2. TypeOK' /\ UsedOK'
    BY <1>1, <1>2, <2>1 DEF TypeOK, UsedOK
  <2>3. ContentsOK'
    <3>1. TayoContents(ws.stored[Tayo])'
      BY <1>1, <1>2, <1>4, <2>1 DEF UsedOK, TayoContents
    <3>2. TayoContents(ws.backup[Tayo])'
      BY <1>1, <1>2 DEF ContentsOK, TayoContents
    <3> QED
      BY <1>1, <1>4, <3>1, <3>2 DEF ContentsOK, StewardContents
  <2>4. AnchorOK'
    <3>1. DidsOf(Tayo)' = {did'[Tayo]}
      BY <1>1, <1>2, <1>4 DEF DidsOf
    <3>2. \A d : Accounted(d) => Accounted(d)'
      BY <1>2 DEF Accounted, Anchored
    <3> QED
      BY <1>1, <2>1, <3>1, <3>2 DEF AnchorOK, Accounted
  <2>5. ProcessOK'
    <3>1. \A w \in ws'.open : ws'.stored[w] # None
      BY <1>1, <1>2 DEF ProcessOK, TypeOK, WalletState
    <3> QED
      BY <1>1, <1>2, <1>4, <2>1, <3>1 DEF ProcessOK, Starting, DidsOf
  <2> QED
    BY <2>2, <2>3, <2>4, <2>5
<1> QED
  BY <1>2, <1>3, <1>4

\* The registration of Tayo's DID is a NYM request about it, by the steward.
LEMMA RegistrationIs ==
  ASSUME Inv, at = "register"
  PROVE  LET s == indy_submit_request(ledger, Registration(did[Tayo]))
         IN  /\ did[Tayo] \in Keys
             /\ s.ledger \in Ledgers
             /\ \A e \in Keys \ {did[Tayo]} : s.ledger.nyms[e] = ledger.nyms[e]
             /\ s.op # "REPLY" => s.ledger = ledger
             /\ s.op = "REPLY"
                  => s.ledger.nyms[did[Tayo]]
                       = [verkey |-> did[Tayo], role |-> "TRUST_ANCHOR"]
<1> USE StartupConstants DEF Inv
<1>1. did[Tayo] \in DidsOf(Tayo) /\ did[Steward] \in DidsOf(Steward)
  BY DEF ProcessOK
<1>2. did[Tayo] \in Keys /\ did[Tayo] # Seed /\ did[Steward] = Seed
  BY <1>1 DEF ContentsOK, StewardContents, TayoContents, DidsOf, MyDids
<1> DEFINE r == Registration(did[Tayo])
           d == did[Tayo]
           role == "TRUST_ANCHOR"
<1>3. r.type = "NYM" /\ r.by = Seed /\ r.data = [did |-> d, verkey |-> d, role |-> role]
  BY <1>2, SignedIs DEF Registration, indy_build_nym_request, Request
<1>4. ledger \in Ledgers /\ d \in Keys /\ d # Seed /\ role \in Roles
  BY <1>2 DEF TypeOK, Roles
<1> HIDE DEF r, d, role
<1> DEFINE s == indy_submit_request(ledger, r)
<1>5. /\ s.ledger \in Ledgers
      /\ \A e \in Keys \ {d} : s.ledger.nyms[e] = ledger.nyms[e]
      /\ s.op # "REPLY" => s.ledger = ledger
      /\ ledger.nyms[d] # None /\ r.by # d => s.op # "REPLY"
      /\ ledger.nyms[d] = None /\ s.op = "REPLY"
           => s.ledger.nyms[d] = [verkey |-> d, role |-> role]
  BY <1>3, <1>4, NymSubmitted
<1>6. s.op = "REPLY" => s.ledger.nyms[d] = [verkey |-> d, role |-> role]
  BY <1>3, <1>4, <1>5
<1> HIDE DEF s
<1> QED
  BY <1>4, <1>5, <1>6 DEF r, s, d, role

\* A step that only registers, or that only sends the process on.
LEMMA RegisterInv == ASSUME Inv, Register PROVE Inv'
<1> USE StartupConstants DEF Inv
<1> DEFINE s == indy_submit_request(ledger, Registration(did[Tayo]))
<1>1. /\ did[Tayo] \in Keys /\ s.ledger \in Ledgers
      /\ \A e \in Keys \ {did[Tayo]} : s.ledger.nyms[e] = ledger.nyms[e]
      /\ s.op # "REPLY" => s.ledger = ledger
      /\ s.op = "REPLY" => s.ledger.nyms[did[Tayo]]
                            = [verkey |-> did[Tayo], role |-> "TRUST_ANCHOR"]
  BY RegistrationIs DEF Register
<1>2. /\ at = "register" /\ at' = "up" /\ ledger' = s.ledger
      /\ cut' = IF s.op = "REPLY" THEN cut ELSE cut \cup {did[Tayo]}
      /\ UNCHANGED <<ws, pool, used, which, did, exit>>
  BY DEF Register, Goto
<1> HIDE DEF s
<1>3. TypeOK' /\ UsedOK'
  BY <1>1, <1>2 DEF TypeOK, UsedOK
<1>4. ContentsOK' /\ ProcessOK'
  BY <1>2 DEF ContentsOK, StewardContents, TayoContents, ProcessOK, Starting, DidsOf
<1>5. AnchorOK'
  <2>1. ledger.nyms \in [Keys -> Nym \cup {None}] /\ None \notin Nym
    BY LedgerConstants DEF TypeOK, Ledgers
  <2>2. \A d \in Keys : Anchored(d) => Anchored(d)' \/ d = did[Tayo]
    BY <1>1, <1>2 DEF Anchored
  <2>3. s.op = "REPLY" => Anchored(did[Tayo])'
    <3>1. None \notin Nym /\ [verkey |-> did[Tayo], role |-> "TRUST_ANCHOR"] \in Nym
      BY <1>1, LedgerConstants DEF Nym, Roles
    <3> QED
      BY <1>1, <1>2, <3>1 DEF Anchored
  <2>4. \A d \in Keys : Accounted(d) => Accounted(d)'
    BY <1>2, <2>2, <2>3 DEF Accounted
  <2>5. DidsOf(Tayo) \subseteq Keys
    BY DEF DidsOf, MyDids
  <2> QED
    BY <1>2, <2>4, <2>5 DEF AnchorOK, DidsOf, MyDids
<1> QED
  BY <1>3, <1>4, <1>5

LEMMA RegisterLostInv ==
  ASSUME Inv, NEW isOrdered \in BOOLEAN, RegisterLost(isOrdered)
  PROVE  Inv'
<1> USE StartupConstants
<1> DEFINE s == indy_submit_request(ledger, Registration(did[Tayo]))
<1>1. /\ did[Tayo] \in Keys /\ s.ledger \in Ledgers
      /\ \A e \in Keys \ {did[Tayo]} : s.ledger.nyms[e] = ledger.nyms[e]
  BY RegistrationIs DEF RegisterLost
<1>2. /\ at = "register" /\ (ledger' = s.ledger \/ ledger' = ledger)
      /\ cut' = cut \cup {did[Tayo]} /\ UNCHANGED used /\ Die("PoolLedgerTimeout")
  BY DEF RegisterLost
<1> HIDE DEF s
<1>3. ledger' \in Ledgers /\ cut' \subseteq Keys
  BY <1>1, <1>2 DEF Inv, TypeOK
<1>4. \A d \in Keys : Accounted(d) => Accounted(d)'
  BY <1>1, <1>2 DEF Accounted, Anchored
<1>5. "PoolLedgerTimeout" \in PoolErrors
  BY DEF PoolErrors
<1>6. DidsOf(Tayo) \subseteq Keys /\ MyDids(ws.backup[Tayo]) \subseteq Keys
  BY DEF DidsOf, MyDids
<1> QED
  BY <1>2, <1>3, <1>4, <1>5, <1>6, DieInv

LEMMA StopInv == ASSUME Inv, Stop PROVE Inv'
<1> USE StartupConstants
<1>1. /\ UNCHANGED <<ledger, used>> /\ Die("none")
      /\ cut' = IF at = "register" THEN cut \cup {did[Tayo]} ELSE cut
  BY DEF Stop
<1>2. at = "register" => did[Tayo] \in Keys
  BY DEF Inv, ProcessOK, DidsOf, MyDids
<1>3. ledger' \in Ledgers /\ cut' \subseteq Keys
  BY <1>1, <1>2 DEF Inv, TypeOK
<1>4. \A d : Accounted(d) => Accounted(d)'
  BY <1>1 DEF Accounted, Anchored
<1> QED
  BY <1>1, <1>3, <1>4, DieInv

-----------------------------------------------------------------------------
(* What people do, while the process is down. *)

\* Contents with the DIDs the wallet had, or its backup, and the keys they had.
HadDids(c, w) == \/ c = None
                 \/ ws.stored[w] # None /\ c.my = ws.stored[w].my
                 \/ ws.backup[w] # None /\ c.my = ws.backup[w].my

LEMMA HelpInv ==
  ASSUME Inv, at = "down", UNCHANGED process,
         ws' \in WalletState, pool' \in Pools, ledger' \in Ledgers,
         used \subseteq used', used' \subseteq Keys, cut' \subseteq Keys,
         \A w \in ws'.open : ws'.stored[w] # None,
         StewardContents(ws'.stored[Steward]), StewardContents(ws'.backup[Steward]),
         HadDids(ws'.stored[Tayo], Tayo), HadDids(ws'.backup[Tayo], Tayo),
         \A d \in used \ {Seed, Trustee} : Accounted(d) => Accounted(d)'
  PROVE  Inv'
<1> USE StartupConstants DEF Inv, process
<1>1. TypeOK' /\ UsedOK'
  BY DEF TypeOK, UsedOK
<1>2. ASSUME NEW c, HadDids(c, Tayo), c # None
      PROVE  /\ \A d, e \in MyDids(c) : d = e
             /\ \A d \in MyDids(c) : /\ d \in used \ {Seed, Trustee} /\ c.my[d] = d
                                     /\ Accounted(d)'
  <2>1. ASSUME NEW old \in {ws.stored[Tayo], ws.backup[Tayo]}, old # None, c.my = old.my
        PROVE  /\ \A d, e \in MyDids(c) : d = e
               /\ \A d \in MyDids(c) : /\ d \in used \ {Seed, Trustee} /\ c.my[d] = d
                                       /\ Accounted(d)'
    <3>1. MyDids(c) = MyDids(old)
      BY <2>1 DEF MyDids
    <3>2. TayoContents(old)
      BY DEF ContentsOK
    <3>3. \A d \in MyDids(old) : Accounted(d)
      BY <2>1 DEF AnchorOK, DidsOf
    <3> QED
      BY <2>1, <3>1, <3>2, <3>3 DEF TayoContents
  <2> QED
    BY <1>2, <2>1 DEF HadDids
<1>3. ContentsOK'
  <2>1. TayoContents(ws.stored[Tayo])' /\ TayoContents(ws.backup[Tayo])'
    BY <1>2 DEF TayoContents
  <2> QED
    BY <2>1 DEF ContentsOK, StewardContents
<1>4. ProcessOK'
  BY DEF ProcessOK, Starting
<1>5. AnchorOK'
  BY <1>2 DEF AnchorOK, DidsOf
<1> QED
  BY <1>1, <1>3, <1>4, <1>5

\* Nothing a person does to the wallets alone changes what is registered.
LEMMA WalletHelpInv ==
  ASSUME Inv, Help, ws' \in WalletState, pool' \in Pools,
         used \subseteq used', used' \subseteq Keys, UNCHANGED <<ledger, cut>>,
         \A w \in ws'.open : ws'.stored[w] # None,
         StewardContents(ws'.stored[Steward]), StewardContents(ws'.backup[Steward]),
         HadDids(ws'.stored[Tayo], Tayo), HadDids(ws'.backup[Tayo], Tayo)
  PROVE  Inv'
<1>1. ledger' \in Ledgers /\ cut' \subseteq Keys
  BY DEF Inv, TypeOK
<1>2. \A d : Accounted(d) => Accounted(d)'
  BY DEF Help, process, Accounted, Anchored
<1>3. at = "down" /\ UNCHANGED process
  BY DEF Help
<1> QED
  BY <1>1, <1>2, <1>3, HelpInv

\* Wallets that keep what they have, stored and in backups, satisfy the above.
LEMMA KeptContents ==
  ASSUME Inv
  PROVE  /\ StewardContents(ws.stored[Steward]) /\ StewardContents(ws.backup[Steward])
         /\ HadDids(ws.stored[Tayo], Tayo) /\ HadDids(ws.backup[Tayo], Tayo)
         /\ \A w \in ws.open : ws.stored[w] # None
         /\ ws \in WalletState /\ pool \in Pools /\ used \subseteq Keys
         /\ StewardContents(None) /\ HadDids(None, Tayo)
BY DEF Inv, TypeOK, ContentsOK, ProcessOK, HadDids, StewardContents

\* What a backup leaves.
LEMMA BackupIs ==
  ASSUME Inv, NEW w \in Wallets, Backup(w)
  PROVE  /\ ws' \in WalletState /\ ws'.stored = ws.stored /\ ws'.open = ws.open
         /\ ws'.backup = [ws.backup EXCEPT ![w] = ws.stored[w]]
<1> USE StartupConstants
<1>1. ws \in WalletState
  BY KeptContents
<1> DEFINE o == Opened(w).ws
           b == [o.backup EXCEPT ![w] = ws.stored[w]]
<1>2. /\ o \in WalletState /\ o.stored = ws.stored /\ o.backup = ws.backup
      /\ o.open = ws.open \cup {w} /\ ws.stored[w] # None /\ w \notin ws.open
  BY <1>1, OpenIs DEF Backup, IsOpenable, Opened
<1> HIDE DEF o
<1> DEFINE e == [o EXCEPT !.backup = b]
<1>3. /\ e \in WalletState /\ e.stored = ws.stored /\ e.backup = b /\ e.open = o.open
  BY <1>2 DEF WalletState
<1>4. indy_export_wallet(o, w).ws = e
  BY <1>2 DEF indy_export_wallet
<1> HIDE DEF e, b
<1> DEFINE c == indy_close_wallet(e, w).ws
<1>5. c \in WalletState /\ c.stored = ws.stored /\ c.backup = b /\ c.open = ws.open
  <2>1. c \in WalletState /\ c.stored = e.stored /\ c.backup = e.backup /\ c.open = e.open \ {w}
    BY <1>2, <1>3, CloseIs
  <2> HIDE DEF c
  <2> QED
    BY <1>2, <1>3, <2>1
<1> QED
  BY <1>2, <1>4, <1>5 DEF Backup, b, o

LEMMA BackupInv == ASSUME Inv, NEW w \in Wallets, Backup(w) PROVE Inv'
<1> USE StartupConstants
<1>1. \A v \in Wallets : ws'.backup[v] \in {ws.backup[v], ws.stored[v]}
  BY BackupIs, KeptContents DEF WalletState
<1>2. HadDids(ws'.backup[Tayo], Tayo) /\ StewardContents(ws'.backup[Steward])
  BY <1>1, KeptContents
<1> QED
  BY <1>2, BackupIs, KeptContents, WalletHelpInv DEF Backup

\* What restoring a wallet leaves: nothing if it is there.
LEMMA RestoreIs ==
  ASSUME Inv, NEW w \in Wallets, NEW pass \in Passes, Restore(w, pass), ws' # ws
  PROVE  /\ ws' \in WalletState /\ ws'.open = ws.open /\ ws'.backup = ws.backup
         /\ ws.stored[w] = None /\ ws'.stored[w] # None
         /\ ws.backup[w] # None /\ ws'.stored[w].my = ws.backup[w].my
         /\ \A v \in Wallets \ {w} : ws'.stored[v] = ws.stored[v]
<1> USE StartupConstants
<1> DEFINE c == [ws.backup[w] EXCEPT !.pass = pass]
<1>1. ws \in WalletState /\ ws.backup[w] # None /\ ws.backup[w] \in Contents
  BY KeptContents DEF Restore, WalletState
<1>2. c \in Contents /\ c.my = ws.backup[w].my
  BY <1>1 DEF Contents
<1>3. ws.stored[w] = None /\ ws' = Put(ws, w, c).ws
  BY <1>1 DEF Restore, indy_import_wallet, Refused
<1> HIDE DEF c
<1>4. /\ ws' \in WalletState /\ ws'.stored = [ws.stored EXCEPT ![w] = c]
      /\ ws'.open = ws.open /\ ws'.backup = ws.backup
  BY <1>1, <1>2, <1>3, PutIs
<1>5. ws'.stored[w] = c /\ \A v \in Wallets \ {w} : ws'.stored[v] = ws.stored[v]
  BY <1>1, <1>4 DEF WalletState
<1> QED
  BY <1>1, <1>2, <1>3, <1>4, <1>5, WalletConstants

LEMMA RestoreInv ==
  ASSUME Inv, NEW w \in Wallets, NEW pass \in Passes, Restore(w, pass)
  PROVE  Inv'
<1> USE StartupConstants
<1>1. CASE ws' = ws
  BY <1>1, KeptContents, WalletHelpInv DEF Restore
<1>2. CASE ws' # ws
  <2>1. /\ ws' \in WalletState /\ ws'.open = ws.open /\ ws'.backup = ws.backup
        /\ ws.stored[w] = None /\ ws'.stored[w] # None
        /\ ws.backup[w] # None /\ ws'.stored[w].my = ws.backup[w].my
        /\ \A v \in Wallets \ {w} : ws'.stored[v] = ws.stored[v]
    BY <1>2, RestoreIs
  <2>2. StewardContents(ws'.stored[Steward])
    BY <2>1, KeptContents DEF StewardContents, MyDids
  <2>3. HadDids(ws'.stored[Tayo], Tayo)
    BY <2>1, KeptContents DEF HadDids
  <2>4. \A v \in ws'.open : ws'.stored[v] # None
    BY <2>1, KeptContents DEF WalletState
  <2> QED
    BY <2>1, <2>2, <2>3, <2>4, KeptContents, WalletHelpInv DEF Restore
<1> QED
  BY <1>1, <1>2

\* What deleting a wallet leaves.
LEMMA DeleteWalletIs ==
  ASSUME Inv, NEW w \in Wallets, DeleteWallet(w)
  PROVE  /\ ws' \in WalletState /\ ws'.open = ws.open /\ ws'.backup = ws.backup
         /\ w \notin ws.open
         /\ \A v \in Wallets : ws'.stored[v] = ws.stored[v] \/ (ws'.stored[v] = None /\ v = w)
<1> USE StartupConstants
<1>1. ws \in WalletState
  BY KeptContents
<1> DEFINE o == Opened(w).ws
           c == indy_close_wallet(o, w).ws
<1>2. /\ o \in WalletState /\ o.stored = ws.stored /\ o.backup = ws.backup
      /\ o.open = ws.open \cup {w} /\ ws.stored[w] # None /\ w \notin ws.open
  BY <1>1, OpenIs DEF DeleteWallet, IsOpenable, Opened
<1> HIDE DEF o
<1>3. c \in WalletState /\ c.stored = ws.stored /\ c.backup = ws.backup /\ c.open = ws.open
  <2>1. c \in WalletState /\ c.stored = o.stored /\ c.backup = o.backup /\ c.open = o.open \ {w}
    BY <1>2, CloseIs
  <2> HIDE DEF c
  <2> QED
    BY <1>2, <2>1
<1> HIDE DEF c
<1>4. ws' = c \/ ws' = Put(c, w, None).ws
  BY DEF DeleteWallet, indy_delete_wallet, Refused, c, o
<1>5. /\ ws' \in WalletState /\ ws'.open = ws.open /\ ws'.backup = ws.backup
      /\ (ws'.stored = ws.stored \/ ws'.stored = [ws.stored EXCEPT ![w] = None])
  BY <1>3, <1>4, PutIs
<1>6. \A v \in Wallets : ws'.stored[v] = ws.stored[v] \/ (ws'.stored[v] = None /\ v = w)
  BY <1>1, <1>5 DEF WalletState
<1> QED
  BY <1>2, <1>5, <1>6

LEMMA DeleteWalletInv == ASSUME Inv, NEW w \in Wallets, DeleteWallet(w) PROVE Inv'
<1> USE StartupConstants
<1>1. StewardContents(ws'.stored[Steward]) /\ HadDids(ws'.stored[Tayo], Tayo)
  BY DeleteWalletIs, KeptContents
<1>2. \A v \in ws'.open : ws'.stored[v] # None
  BY DeleteWalletIs, KeptContents DEF WalletState
<1> QED
  BY <1>1, <1>2, DeleteWalletIs, KeptContents, WalletHelpInv DEF DeleteWallet

LEMMA DeletePoolInv == ASSUME Inv, DeletePool PROVE Inv'
<1>1. pool' \in Pools /\ UNCHANGED <<ws, ledger, used, cut>> /\ Help
  BY KeptContents, PoolIs DEF DeletePool
<1> QED
  BY <1>1, KeptContents, WalletHelpInv

\* The steward's wallet with one of its fields changed, closed again.
LEMMA StewardChanged ==
  ASSUME Inv, Help, IsOpenable(Steward), NEW c \in Contents, MyDids(c) \subseteq {Seed},
         ws' = AllClosed(Put(Opened(Steward).ws, Steward, c).ws),
         used \subseteq used', used' \subseteq Keys, UNCHANGED <<pool, ledger, cut>>
  PROVE  Inv'
<1> USE StartupConstants
<1> DEFINE o == Opened(Steward).ws
           p == Put(o, Steward, c).ws
<1>1. o \in WalletState /\ o.stored = ws.stored /\ o.backup = ws.backup
  BY KeptContents, OpenIs DEF IsOpenable, Opened
<1> HIDE DEF o
<1>2. p \in WalletState /\ p.stored = [ws.stored EXCEPT ![Steward] = c] /\ p.backup = ws.backup
  BY <1>1, PutIs
<1>3. AllClosed(p) = ws'
  BY DEF o
<1> HIDE DEF p
<1>4. /\ ws' \in WalletState /\ ws'.stored = [ws.stored EXCEPT ![Steward] = c]
      /\ ws'.backup = ws.backup /\ ws'.open = {}
  BY <1>2, <1>3, AllClosedIs
<1>5. ws'.stored[Steward] = c /\ ws'.stored[Tayo] = ws.stored[Tayo]
  BY <1>4, KeptContents DEF WalletState
<1>6. StewardContents(ws'.stored[Steward]) /\ HadDids(ws'.stored[Tayo], Tayo)
  BY <1>5, KeptContents DEF StewardContents
<1>7. pool' \in Pools /\ UNCHANGED <<ledger, cut>> /\ \A w \in ws'.open : ws'.stored[w] # None
  BY <1>4, KeptContents
<1> QED
  BY <1>4, <1>6, <1>7, KeptContents, WalletHelpInv

LEMMA StewardUntouched ==
  ASSUME Inv, Help, IsOpenable(Steward), ws' = AllClosed(Opened(Steward).ws),
         used \subseteq used', used' \subseteq Keys, UNCHANGED <<pool, ledger, cut>>
  PROVE  Inv'
<1> USE StartupConstants
<1> DEFINE o == Opened(Steward).ws
<1>1. o \in WalletState /\ o.stored = ws.stored /\ o.backup = ws.backup
  BY KeptContents, OpenIs DEF IsOpenable, Opened
<1>2. AllClosed(o) = ws'
  OBVIOUS
<1> HIDE DEF o
<1>3. /\ ws' \in WalletState /\ ws'.stored = ws.stored
      /\ ws'.backup = ws.backup /\ ws'.open = {}
  BY <1>1, <1>2, AllClosedIs
<1>4. pool' \in Pools /\ UNCHANGED <<ledger, cut>> /\ \A w \in ws'.open : ws'.stored[w] # None
  BY <1>3, KeptContents
<1> QED
  BY <1>3, <1>4, KeptContents, WalletHelpInv

\* What the steward's wallet holds when a person has opened it.
LEMMA StewardOpened ==
  ASSUME Inv, IsOpenable(Steward)
  PROVE  LET o == Opened(Steward).ws
             c == o.stored[Steward]
         IN  /\ Steward \in o.open /\ c \in Contents /\ MyDids(c) \subseteq {Seed}
             /\ c = ws.stored[Steward]
<1> USE StartupConstants
<1>1. LET o == Opened(Steward).ws
      IN  /\ o.stored = ws.stored /\ o.open = ws.open \cup {Steward}
          /\ ws.stored[Steward] # None
  BY KeptContents, OpenIs DEF IsOpenable, Opened
<1>2. ws.stored[Steward] \in Contents
  BY <1>1, KeptContents DEF WalletState
<1> QED
  BY <1>1, <1>2, KeptContents DEF StewardContents

LEMMA ReplaceKeyStartInv ==
  ASSUME Inv, NEW key \in Keys, ReplaceKeyStart(key)
  PROVE  Inv'
<1> USE StartupConstants
<1> DEFINE o == Opened(Steward).ws
           old == o.stored[Steward]
           c == [old EXCEPT !.next = [old.next EXCEPT ![Seed] = key]]
<1>1. Steward \in o.open /\ old \in Contents /\ MyDids(old) \subseteq {Seed}
  BY StewardOpened DEF ReplaceKeyStart
<1>2. /\ Help /\ IsOpenable(Steward) /\ UNCHANGED <<pool, ledger, cut>>
      /\ used \subseteq used' /\ used' \subseteq Keys
  BY KeptContents DEF ReplaceKeyStart
<1>3. \/ indy_replace_keys_start(o, Steward, Seed, key).ws = o
      \/ indy_replace_keys_start(o, Steward, Seed, key).ws = Put(o, Steward, c).ws
  BY DEF indy_replace_keys_start, Refused
<1>4. c \in Contents /\ c.my = old.my
  BY <1>1 DEF Contents
<1>5. MyDids(c) \subseteq {Seed}
  BY <1>1, <1>4 DEF MyDids
<1>6. ws' = AllClosed(indy_replace_keys_start(o, Steward, Seed, key).ws)
  BY DEF ReplaceKeyStart
<1> HIDE DEF c
<1> QED
  BY <1>2, <1>3, <1>4, <1>5, <1>6, StewardChanged, StewardUntouched

LEMMA ReplaceKeyApplyInv == ASSUME Inv, ReplaceKeyApply PROVE Inv'
<1> USE StartupConstants
<1> DEFINE o == Opened(Steward).ws
           old == o.stored[Steward]
           my == [old.my EXCEPT ![Seed] = old.next[Seed]]
           next == [old.next EXCEPT ![Seed] = None]
           c == [old EXCEPT !.my = my, !.next = next]
<1>1. Steward \in o.open /\ old \in Contents /\ MyDids(old) \subseteq {Seed}
  BY StewardOpened DEF ReplaceKeyApply
<1>2. /\ Help /\ IsOpenable(Steward) /\ UNCHANGED <<pool, ledger, cut>>
      /\ used \subseteq used' /\ used' \subseteq Keys
  BY KeptContents DEF ReplaceKeyApply
<1>3. \/ indy_replace_keys_apply(o, Steward, Seed).ws = o
      \/ indy_replace_keys_apply(o, Steward, Seed).ws = Put(o, Steward, c).ws
  BY DEF indy_replace_keys_apply, Refused
<1>4. my \in [Keys -> Keys \cup {None}] /\ next \in [Keys -> Keys \cup {None}]
  BY <1>1 DEF Contents
<1>5. \A d \in Keys \ {Seed} : my[d] = None
  BY <1>1 DEF Contents, MyDids
<1> HIDE DEF my, next
<1> DEFINE c1 == [old EXCEPT !.my = my]
<1>6. c1 \in Contents /\ c1.my = my
  BY <1>1, <1>4 DEF Contents
<1>7. c = [c1 EXCEPT !.next = next]
  BY <1>1 DEF Contents
<1> HIDE DEF c1
<1>8. c \in Contents /\ c.my = my
  BY <1>4, <1>6, <1>7 DEF Contents
<1> HIDE DEF c
<1>9. MyDids(c) \subseteq {Seed}
  BY <1>5, <1>8 DEF MyDids
<1>10. ws' = AllClosed(indy_replace_keys_apply(o, Steward, Seed).ws)
  BY DEF ReplaceKeyApply
<1> QED
  BY <1>2, <1>3, <1>8, <1>9, <1>10, StewardChanged, StewardUntouched

\* A change of the ledger by people that keeps what Tayo's DIDs are there.
LEMMA LedgerHelpInv ==
  ASSUME Inv, Help, UNCHANGED <<ws, pool, used>>, ledger' \in Ledgers, cut' \subseteq Keys,
         cut \subseteq cut',
         \A d \in used \ {Seed, Trustee} :
           d \in cut' \/ (Anchored(d) => Anchored(d)')
  PROVE  Inv'
<1>1. at = "down" /\ UNCHANGED process
  BY DEF Help
<1>2. \A d \in used \ {Seed, Trustee} : Accounted(d) => Accounted(d)'
  BY <1>1 DEF Accounted
<1> QED
  BY <1>1, <1>2, KeptContents, HelpInv

LEMMA ReplaceKeyOnLedgerInv == ASSUME Inv, ReplaceKeyOnLedger PROVE Inv'
<1> USE StartupConstants
<1> DEFINE k == ws.stored[Steward].next[Seed]
           role == "STEWARD"
           r == indy_sign_request(Opened(Steward).ws, Steward, Seed,
                  indy_build_nym_request(Seed, Seed, k, role))
<1>1. k \in Keys /\ Help /\ IsOpenable(Steward) /\ UNCHANGED <<ws, pool, used, cut>>
  <2>1. ws.stored[Steward] \in Contents
    BY StewardOpened DEF ReplaceKeyOnLedger
  <2> QED
    BY <2>1 DEF ReplaceKeyOnLedger, Contents
<1>2. ledger' = indy_submit_request(ledger, r).ledger
  BY DEF ReplaceKeyOnLedger, indy_sign_and_submit_request
<1>3. r.type = "NYM" /\ r.data = [did |-> Seed, verkey |-> k, role |-> role]
  BY SignedIs DEF indy_build_nym_request, Request
<1>4. ledger \in Ledgers /\ role \in Roles
  BY DEF Inv, TypeOK, Roles
<1> HIDE DEF r, k, role
<1> DEFINE s == indy_submit_request(ledger, r)
<1>s. /\ s.ledger \in Ledgers
      /\ \A e \in Keys \ {Seed} : s.ledger.nyms[e] = ledger.nyms[e]
      /\ s.op # "REPLY" => s.ledger = ledger
      /\ ledger.nyms[Seed] # None /\ r.by # Seed => s.op # "REPLY"
      /\ ledger.nyms[Seed] = None /\ s.op = "REPLY"
           => s.ledger.nyms[Seed] = [verkey |-> k, role |-> role]
  BY <1>1, <1>3, <1>4, NymSubmitted
<1> HIDE DEF s
<1>5. ledger' \in Ledgers /\ \A e \in Keys \ {Seed} : ledger'.nyms[e] = ledger.nyms[e]
  BY <1>2, <1>s DEF s
<1>6. \A d \in used \ {Seed, Trustee} : Anchored(d) => Anchored(d)'
  BY <1>5, KeptContents DEF Anchored
<1> QED
  BY <1>1, <1>5, <1>6, LedgerHelpInv DEF Inv, TypeOK

LEMMA RegisterByHandInv ==
  ASSUME Inv, NEW d \in Keys, NEW isUpToDate \in BOOLEAN, RegisterByHand(d, isUpToDate)
  PROVE  Inv'
<1> USE StartupConstants
<1> DEFINE o == Opened(Steward).ws
           q == indy_build_nym_request(Seed, d, d, "TRUST_ANCHOR")
           role == "TRUST_ANCHOR"
<1>1. /\ Help /\ UNCHANGED <<ws, pool, used, cut>> /\ d \in MyDids(ws.stored[Tayo])
      /\ ws.stored[Tayo] # None
  <2>1. ws.stored[Tayo] # None
    BY KeptContents, OpenIs DEF RegisterByHand, IsOpenable, Opened
  <2> QED
    BY <2>1 DEF RegisterByHand
<1>2. d # Seed
  BY <1>1 DEF Inv, ContentsOK, TayoContents
<1>3. PICK q1 : /\ ledger' = indy_submit_request(ledger, q1).ledger
                /\ q1.type = "NYM" /\ q1.by = Seed
                /\ q1.data = [did |-> d, verkey |-> d, role |-> role]
  <2> DEFINE data == [did |-> d, verkey |-> d, role |-> "TRUST_ANCHOR"]
  <2>1. q = [type |-> "NYM", by |-> Seed, data |-> data, taa |-> None, signatures |-> {}]
    BY DEF indy_build_nym_request, Request
  <2>2. CASE ledger' = indy_submit_request(ledger, indy_sign_request(o, Steward, Seed, q)).ledger
    BY <2>1, <2>2, SignedIs
  <2>3. ASSUME NEW taa, NEW m,
               ledger' = indy_submit_request(ledger, indy_sign_request(o, Steward, Seed,
                 indy_append_txn_author_agreement_acceptance_to_request(q, taa, m))).ledger
        PROVE  \E q1 : /\ ledger' = indy_submit_request(ledger, q1).ledger
                       /\ q1.type = "NYM" /\ q1.by = Seed /\ q1.data = data
    <3> DEFINE a == [version |-> taa, mechanism |-> m]
               t == indy_append_txn_author_agreement_acceptance_to_request(q, taa, m)
    <3>1. t = [type |-> "NYM", by |-> Seed, data |-> data, taa |-> a, signatures |-> {}]
      BY <2>1 DEF indy_append_txn_author_agreement_acceptance_to_request
    <3> QED
      BY <2>3, <3>1, SignedIs
  <2> QED
    BY <2>2, <2>3 DEF RegisterByHand, indy_sign_and_submit_request
<1>4. ledger \in Ledgers /\ role \in Roles
  BY DEF Inv, TypeOK, Roles
<1> HIDE DEF role
<1> DEFINE s == indy_submit_request(ledger, q1)
<1>5. /\ s.ledger \in Ledgers /\ \A e \in Keys \ {d} : s.ledger.nyms[e] = ledger.nyms[e]
      /\ s.op # "REPLY" => s.ledger = ledger
      /\ ledger.nyms[d] # None /\ q1.by # d => s.op # "REPLY"
      /\ ledger.nyms[d] = None /\ s.op = "REPLY"
           => s.ledger.nyms[d] = [verkey |-> d, role |-> role]
  BY <1>3, <1>4, NymSubmitted
<1> HIDE DEF s
<1>6. ledger' = s.ledger /\ q1.by # d
  BY <1>2, <1>3 DEF s
<1>7. \A e \in used \ {Seed, Trustee} : Anchored(e) => Anchored(e)'
  BY <1>5, <1>6, KeptContents DEF Anchored
<1> QED
  BY <1>1, <1>5, <1>6, <1>7, LedgerHelpInv DEF Inv, TypeOK

LEMMA NewNetworkInv == ASSUME Inv, NewNetwork PROVE Inv'
<1>1. /\ Help /\ UNCHANGED <<ws, pool, used>> /\ ledger' \in Ledgers
      /\ cut' = cut \cup (used \ {Seed, Trustee})
  BY NewLedgerIs DEF NewNetwork
<1>2. cut \subseteq Keys /\ used \subseteq Keys
  BY DEF Inv, TypeOK
<1> QED
  BY <1>1, <1>2, LedgerHelpInv

\* What the trustee and the nodes do changes the rules and who lags, no NYM record.
LEMMA SameNymsInv ==
  ASSUME Inv, UNCHANGED <<ws, pool, process, used, cut>>, ledger' \in Ledgers,
         ledger'.nyms = ledger.nyms
  PROVE  Inv'
<1> USE StartupConstants DEF Inv, process
<1>1. TypeOK' /\ UsedOK'
  BY DEF TypeOK, UsedOK
<1>2. ContentsOK' /\ ProcessOK'
  BY DEF ContentsOK, StewardContents, TayoContents, ProcessOK, DidsOf
<1>3. AnchorOK'
  BY DEF AnchorOK, DidsOf, Accounted, Anchored
<1> QED
  BY <1>1, <1>2, <1>3

LEMMA ChangeRulesInv == ASSUME Inv, ChangeRules PROVE Inv'
<1>1. UNCHANGED <<ws, pool, process, used, cut>>
  BY DEF ChangeRules, Govern
<1> QED
  BY <1>1, RulesChanged, SameNymsInv

LEMMA CatchUpInv == ASSUME Inv, CatchUp PROVE Inv'
<1>1. UNCHANGED <<ws, pool, process, used, cut>>
  BY DEF CatchUp
<1>2. ledger \in Ledgers /\ ledger' = [ledger EXCEPT !.behind = {}]
  BY DEF Inv, TypeOK, CatchUp, CaughtUp
<1>3. ledger' \in Ledgers /\ ledger'.nyms = ledger.nyms
  BY <1>2 DEF Ledgers
<1> QED
  BY <1>1, <1>3, SameNymsInv

LEMMA StutterInv == ASSUME Inv, UNCHANGED vars PROVE Inv'
<1>1. UNCHANGED <<ws, pool, process, used, cut, ledger>>
  BY DEF vars, process
<1> QED
  BY <1>1, SameNymsInv DEF Inv, TypeOK

LEMMA NextInv == ASSUME Inv, [Next]_vars PROVE Inv'
<1>1. CASE Boot
  BY <1>1, BootInv
<1>2. CASE Step
  BY <1>2, OpenPoolInv, ConfigurePoolInv, OpenWalletInv, FindDidInv, CreateWalletInv,
     ReopenWalletInv, StoreDidInv, RegisterInv, RegisterLostInv DEF Step
<1>3. CASE Stop
  BY <1>3, StopInv
<1>4. CASE People
  BY <1>4, BackupInv, RestoreInv, DeleteWalletInv, DeletePoolInv, NewNetworkInv,
     ReplaceKeyStartInv, ReplaceKeyOnLedgerInv, ReplaceKeyApplyInv, RegisterByHandInv
     DEF People
<1>5. CASE ChangeRules
  BY <1>5, ChangeRulesInv
<1>6. CASE CatchUp
  BY <1>6, CatchUpInv
<1>7. CASE UNCHANGED vars
  BY <1>7, StutterInv
<1> QED
  BY <1>1, <1>2, <1>3, <1>4, <1>5, <1>6, <1>7 DEF Next

LEMMA SpecInv == Spec => []Inv
BY InitInv, NextInv, PTL DEF Spec

-----------------------------------------------------------------------------
\* The state stays one of libindy's, whatever happens during the start, and a start
\* that fails does so with an error of libindy's (PoolAndWalletManager's constructor).
THEOREM Typed == Spec => []TypeOK
<1>1. Inv => TypeOK
  BY DEF Inv
<1> QED
  BY <1>1, SpecInv, PTL

\* A wallet never holds two DIDs, so the first listed is the only one
\* (createStewardWallet, createTayoWallet).
THEOREM DidsAreUnique == Spec => []OneIdentity
<1>1. Inv => OneIdentity
  <2> SUFFICES ASSUME Inv PROVE OneIdentity
    OBVIOUS
  <2> QED
    BY DEF Inv, ContentsOK, StewardContents, TayoContents, OneIdentity, DidsOf
<1> QED
  BY <1>1, SpecInv, PTL

\* A Tayo DID in use whose registration was let through is a TRUST_ANCHOR of the ledger
\* under the key in the wallet (createTayoWallet, signAndSubmitRequest).
THEOREM TayoIsAnchored == Spec => []AnchoredUnlessCut
<1>1. Inv => AnchoredUnlessCut
  <2> SUFFICES ASSUME Inv, at = "up", did[Tayo] \notin cut
               PROVE  /\ Anchored(did[Tayo])
                      /\ ws.stored[Tayo].my[did[Tayo]] = did[Tayo]
    BY DEF AnchoredUnlessCut, Anchored
  <2>1. did[Tayo] \in DidsOf(Tayo)
    BY DEF Inv, ProcessOK
  <2>2. Anchored(did[Tayo])
    BY <2>1 DEF Inv, AnchorOK, Accounted
  <2>3. ws.stored[Tayo].my[did[Tayo]] = did[Tayo]
    BY <2>1 DEF Inv, ContentsOK, TayoContents, DidsOf
  <2> QED
    BY <2>2, <2>3
<1> QED
  BY <1>1, SpecInv, PTL

-----------------------------------------------------------------------------
(* The refinement. *)

\* What a step does to the DIDs of a wallet: they stay, with the process going on
\* using them if it does, or the wallet gets or loses its DID while nothing uses it.
DidsStep(w) ==
  \/ DidsOf(w)' = DidsOf(w) /\ (at = "up" /\ at' = "up" => did' = did)
  \/ at # "up" /\ at' # "up" /\ (DidsOf(w) = {} \/ DidsOf(w)' = {})

LEMMA StoredSame ==
  ASSUME Inv, NEW w \in Wallets, ws'.stored = ws.stored,
         at = "up" /\ at' = "up" => did' = did
  PROVE  DidsStep(w)
BY DEF DidsStep, DidsOf

LEMMA ProcessDids ==
  ASSUME Inv, NEW w \in Wallets, Boot \/ Step \/ Stop \/ ChangeRules \/ CatchUp
  PROVE  DidsStep(w)
<1> USE StartupConstants
<1>1. ws \in WalletState /\ which \in Wallets
  BY DEF Inv, TypeOK
<1>2. \A err : Die(err) => ws'.stored = ws.stored /\ at' = "down"
  BY <1>1, AllClosedIs DEF Die
<1>3. CASE Boot \/ CatchUp \/ ChangeRules
  <2>1. ws' = ws /\ (at = "up" => did' = did)
    BY <1>3 DEF Boot, CatchUp, ChangeRules, Govern, process
  <2> QED
    BY <2>1, StoredSame
<1>4. CASE Stop
  <2>1. ws'.stored = ws.stored /\ at' = "down"
    BY <1>2, <1>4 DEF Stop
  <2> QED
    BY <2>1, StoredSame
<1>5. CASE Step
  <2>1. ASSUME NEW isReachable \in BOOLEAN, OpenPool(isReachable) PROVE DidsStep(w)
    <3>1. ws'.stored = ws.stored /\ at # "up"
      BY <1>2, <2>1 DEF OpenPool
    <3> QED
      BY <3>1, StoredSame
  <2>2. CASE ConfigurePool
    <3>1. ws'.stored = ws.stored /\ at # "up"
      BY <1>2, <2>2 DEF ConfigurePool
    <3> QED
      BY <3>1, StoredSame
  <2>3. CASE OpenWallet
    <3>1. ws'.stored = ws.stored /\ at # "up"
      BY <1>1, <2>3, OpenIs DEF OpenWallet
    <3> QED
      BY <3>1, StoredSame
  <2>4. CASE FindDid \/ Register
    <3>1. ws' = ws /\ at # "up"
      BY <2>4 DEF FindDid, Register
    <3> QED
      BY <3>1, StoredSame
  <2>5. CASE CreateWallet
    <3> DEFINE r == indy_create_wallet(ws, which, TheKey)
               new == NewContents(TheKey)
    <3>1. at = "create"
      BY <2>5 DEF CreateWallet
    <3>2. CASE Die(r.err)
      <4>1. ws'.stored = ws.stored
        BY <1>2, <3>2
      <4> QED
        BY <3>1, <4>1, StoredSame
    <3>3. CASE r.err = "Success" /\ ws' = r.ws /\ Goto("reopen")
      <4>1. new \in Contents /\ MyDids(new) = {}
        BY NewContentsIs
      <4>2. ws.stored[which] = None /\ r = Put(ws, which, new)
        BY <3>3 DEF indy_create_wallet, Refused
      <4> HIDE DEF new
      <4>3. ws'.stored = [ws.stored EXCEPT ![which] = new]
        BY <1>1, <3>3, <4>1, <4>2, PutIs
      <4>4. ws'.stored[which] = new /\ \A v \in Wallets \ {which} : ws'.stored[v] = ws.stored[v]
        BY <1>1, <4>3 DEF WalletState
      <4>5. DidsOf(w)' = DidsOf(w)
        BY <4>1, <4>2, <4>4, WalletConstants DEF DidsOf
      <4> QED
        BY <3>1, <4>5 DEF DidsStep
    <3> QED
      BY <2>5, <3>2, <3>3 DEF CreateWallet
  <2>6. CASE ReopenWallet
    <3>1. ws'.stored = ws.stored /\ at # "up"
      BY <1>1, <2>6, OpenIs DEF ReopenWallet
    <3> QED
      BY <3>1, StoredSame
  <2>7. ASSUME NEW key \in Keys, StoreDid(key) PROVE DidsStep(w)
    <3>1. at = "store" /\ at' # "up"
      BY <2>7 DEF StoreDid, Known
    <3>2. CASE w = which
      BY <3>1, <3>2 DEF DidsStep, Inv, ProcessOK
    <3>3. CASE w # which
      <4>1. ws'.stored[w] = ws.stored[w]
        BY <2>7, <3>3, StoreDidIs
      <4> QED
        BY <3>1, <4>1 DEF DidsStep, DidsOf
    <3> QED
      BY <3>2, <3>3
  <2>8. ASSUME NEW isOrdered \in BOOLEAN, RegisterLost(isOrdered) PROVE DidsStep(w)
    <3>1. ws'.stored = ws.stored /\ at # "up"
      BY <1>2, <2>8 DEF RegisterLost
    <3> QED
      BY <3>1, StoredSame
  <2> QED
    BY <1>5, <2>1, <2>2, <2>3, <2>4, <2>5, <2>6, <2>7, <2>8 DEF Step
<1> QED
  BY <1>3, <1>4, <1>5

\* A key that is changed leaves the steward's wallet with the DID it had.
LEMMA KeyChangeDids ==
  ASSUME Inv, (\E key \in Keys : ReplaceKeyStart(key)) \/ ReplaceKeyApply
  PROVE  /\ ws'.stored[Tayo] = ws.stored[Tayo]
         /\ DidsOf(Steward) = {} \/ DidsOf(Steward)' = {} \/ DidsOf(Steward)' = DidsOf(Steward)
<1> USE StartupConstants
<1>1. DidsOf(Steward) \subseteq {Seed}
  BY DEF Inv, ContentsOK, StewardContents, DidsOf
<1>2. Inv'
  BY ReplaceKeyStartInv, ReplaceKeyApplyInv
<1>3. DidsOf(Steward)' \subseteq {Seed}
  BY <1>2 DEF Inv, ContentsOK, StewardContents, DidsOf
<1>4. ws'.stored[Tayo] = ws.stored[Tayo]
  <2> DEFINE o == Opened(Steward).ws
  <2>1. IsOpenable(Steward)
    BY DEF ReplaceKeyStart, ReplaceKeyApply
  <2>2. o \in WalletState /\ o.stored = ws.stored
    BY <2>1, KeptContents, OpenIs DEF IsOpenable, Opened
  <2>3. \E c : ws' = AllClosed(o) \/ ws' = AllClosed(Put(o, Steward, c).ws)
    BY DEF ReplaceKeyStart, ReplaceKeyApply, indy_replace_keys_start,
           indy_replace_keys_apply, Refused
  <2> HIDE DEF o
  <2>4. \A c : AllClosed(Put(o, Steward, c).ws).stored[Tayo] = o.stored[Tayo]
    BY <2>2 DEF AllClosed, Put, WalletState
  <2>5. AllClosed(o).stored = o.stored
    BY <2>2, AllClosedIs
  <2> QED
    BY <2>2, <2>3, <2>4, <2>5
<1> QED
  BY <1>1, <1>3, <1>4

LEMMA PeopleDids == ASSUME Inv, NEW w \in Wallets, People PROVE DidsStep(w)
<1> USE StartupConstants
<1>1. at = "down" /\ at' = "down"
  BY DEF People, Backup, Restore, DeleteWallet, DeletePool, NewNetwork, ReplaceKeyStart,
         ReplaceKeyOnLedger, ReplaceKeyApply, RegisterByHand, Help, process
<1>2. ASSUME NEW v \in Wallets, Backup(v) PROVE DidsStep(w)
  BY <1>1, <1>2, BackupIs, StoredSame
<1>3. ASSUME NEW v \in Wallets, NEW pass \in Passes, Restore(v, pass) PROVE DidsStep(w)
  <2>1. CASE ws' = ws
    BY <1>1, <2>1, StoredSame
  <2>2. CASE ws' # ws
    <3>1. /\ ws.stored[v] = None
          /\ \A u \in Wallets \ {v} : ws'.stored[u] = ws.stored[u]
      BY <1>3, <2>2, RestoreIs
    <3>2. CASE w = v
      BY <1>1, <3>1, <3>2 DEF DidsStep, DidsOf
    <3>3. CASE w # v
      BY <1>1, <3>1, <3>3 DEF DidsStep, DidsOf
    <3> QED
      BY <3>2, <3>3
  <2> QED
    BY <2>1, <2>2
<1>4. ASSUME NEW v \in Wallets, DeleteWallet(v) PROVE DidsStep(w)
  <2>1. ws'.stored[w] = ws.stored[w] \/ ws'.stored[w] = None
    BY <1>4, DeleteWalletIs
  <2> QED
    BY <1>1, <2>1 DEF DidsStep, DidsOf
<1>5. ASSUME (\E key \in Keys : ReplaceKeyStart(key)) \/ ReplaceKeyApply PROVE DidsStep(w)
  <2>1. /\ ws'.stored[Tayo] = ws.stored[Tayo]
        /\ DidsOf(Steward) = {} \/ DidsOf(Steward)' = {} \/ DidsOf(Steward)' = DidsOf(Steward)
    BY <1>5, KeyChangeDids
  <2>2. DidsOf(Tayo)' = DidsOf(Tayo)
    BY <2>1 DEF DidsOf
  <2> QED
    BY <1>1, <2>1, <2>2 DEF DidsStep
<1>6. ASSUME UNCHANGED ws PROVE DidsStep(w)
  BY <1>1, <1>6, StoredSame
<1>7. DeletePool \/ NewNetwork \/ ReplaceKeyOnLedger
        \/ (\E d \in Keys, isUpToDate \in BOOLEAN : RegisterByHand(d, isUpToDate))
      => UNCHANGED ws
  BY DEF DeletePool, NewNetwork, ReplaceKeyOnLedger, RegisterByHand
<1> QED
  BY <1>2, <1>3, <1>4, <1>5, <1>6, <1>7 DEF People

\* The identity of a wallet is its DID, and what the process uses when it is up.
IdentityOK ==
  \A w \in Wallets :
    /\ \A d \in DidsOf(w) : Identity(w) = d
    /\ DidsOf(w) = {} => Identity(w) = None
    /\ at = "up" => Using(w) = Identity(w) /\ Identity(w) = did[w]
    /\ at # "up" => Using(w) = None
    /\ DidsOf(w) \subseteq Keys /\ Identity(w) \in DidsOf(w) \cup {None}

LEMMA IdentityInv == Inv => IdentityOK
<1> SUFFICES ASSUME Inv, NEW w \in Wallets
             PROVE  /\ \A d \in DidsOf(w) : Identity(w) = d
                    /\ DidsOf(w) = {} => Identity(w) = None
                    /\ at = "up" => Using(w) = Identity(w) /\ Identity(w) = did[w]
                    /\ at # "up" => Using(w) = None
                    /\ DidsOf(w) \subseteq Keys /\ Identity(w) \in DidsOf(w) \cup {None}
  BY DEF IdentityOK
<1> USE StartupConstants
<1>1. \A d, e \in DidsOf(w) : d = e
  BY DEF Inv, ContentsOK, StewardContents, TayoContents, DidsOf
<1>2. at = "up" => did[w] \in DidsOf(w)
  BY DEF Inv, ProcessOK
<1>3. \A d \in DidsOf(w) : Identity(w) = d
  BY <1>1 DEF Identity
<1>4. DidsOf(w) = {} => Identity(w) = None
  BY DEF Identity
<1>5. DidsOf(w) \subseteq Keys
  BY DEF DidsOf, MyDids
<1> HIDE DEF Identity
<1> QED
  BY <1>2, <1>3, <1>4, <1>5 DEF Using

\* A step on the DIDs of a wallet is a step of its identity: nothing, an adoption, a
\* loss, or the start or the end of its use.
IdentityNext(w) ==
  \/ UNCHANGED <<Identity(w), Using(w)>>
  \/ /\ Using(w)' = Using(w) /\ Using(w) = None
     /\ \/ Identity(w)' = None
        \/ Identity(w) = None /\ Identity(w)' \in Keys
  \/ /\ Identity(w) # None /\ Using(w) = None
     /\ Using(w)' = Identity(w) /\ Identity(w)' = Identity(w)
  \/ Using(w)' = None /\ Identity(w)' = Identity(w)

LEMMA IdentityStep ==
  ASSUME Inv, Inv', IdentityOK, IdentityOK', NEW w \in Wallets, DidsStep(w)
  PROVE  IdentityNext(w)
<1> USE StartupConstants
<1>1. CASE at # "up" /\ at' # "up" /\ (DidsOf(w) = {} \/ DidsOf(w)' = {})
  BY <1>1 DEF IdentityOK, IdentityNext
<1>2. CASE DidsOf(w)' = DidsOf(w) /\ (at = "up" /\ at' = "up" => did' = did)
  <2>1. Identity(w)' = Identity(w)
    BY <1>2 DEF Identity
  <2>2. (at = "up" => Identity(w) # None) /\ (at' = "up" => Identity(w)' # None)
    <3>1. at = "up" => did[w] \in DidsOf(w)
      BY DEF Inv, ProcessOK
    <3>2. at' = "up" => did'[w] \in DidsOf(w)'
      BY DEF Inv, ProcessOK
    <3>3. None \notin DidsOf(w) /\ None \notin DidsOf(w)'
      BY WalletConstants DEF DidsOf, MyDids
    <3> QED
      BY <3>1, <3>2, <3>3 DEF IdentityOK
  <2> QED
    BY <2>1, <2>2 DEF IdentityOK, IdentityNext
<1> QED
  BY <1>1, <1>2 DEF DidsStep

LEMMA NextIdentity ==
  ASSUME Inv, Inv', IdentityOK, IdentityOK', NEW w \in Wallets, [Next]_vars
  PROVE  IdentityNext(w)
<1>1. CASE UNCHANGED vars
  <2>1. DidsOf(w)' = DidsOf(w) /\ did' = did
    BY <1>1 DEF vars, DidsOf
  <2> QED
    BY <2>1, IdentityStep DEF DidsStep
<1>2. CASE Next
  BY <1>2, ProcessDids, PeopleDids, IdentityStep DEF Next
<1> QED
  BY <1>1, <1>2

\* The start keeps either wallet's identity: the backend uses the one DID the wallet
\* has, gives it one where it has none, and never changes it while it runs
\* (createStewardWallet, createTayoWallet, getDidFromWallet).
THEOREM StartKeepsIdentity == Spec => KeepsIdentity
<1> USE StartupConstants
<1>1. Init => TayoIdentity!Init /\ StewardIdentity!Init
  BY DEF Init, TayoIdentity!Init, StewardIdentity!Init, Identity, Using, DidsOf, NoWallets
<1>2. Inv /\ Inv' /\ IdentityOK /\ IdentityOK' /\ [Next]_vars
        => [TayoIdentity!Next]_TayoIdentity!vars
  <2> SUFFICES ASSUME Inv, Inv', IdentityOK, IdentityOK', [Next]_vars
               PROVE  [TayoIdentity!Next]_TayoIdentity!vars
    OBVIOUS
  <2>1. IdentityNext(Tayo)
    BY NextIdentity
  <2> QED
    BY <2>1 DEF IdentityNext, TayoIdentity!Next, TayoIdentity!Adopt, TayoIdentity!Start,
       TayoIdentity!Stop, TayoIdentity!Lose, TayoIdentity!vars
<1>3. Inv /\ Inv' /\ IdentityOK /\ IdentityOK' /\ [Next]_vars
        => [StewardIdentity!Next]_StewardIdentity!vars
  <2> SUFFICES ASSUME Inv, Inv', IdentityOK, IdentityOK', [Next]_vars
               PROVE  [StewardIdentity!Next]_StewardIdentity!vars
    OBVIOUS
  <2>1. IdentityNext(Steward)
    BY NextIdentity
  <2> QED
    BY <2>1 DEF IdentityNext, StewardIdentity!Next, StewardIdentity!Adopt,
       StewardIdentity!Start, StewardIdentity!Stop, StewardIdentity!Lose,
       StewardIdentity!vars
<1>4. Spec => []Inv /\ []IdentityOK
  BY SpecInv, IdentityInv, PTL
<1> QED
  BY <1>1, <1>2, <1>3, <1>4, PTL DEF Spec, KeepsIdentity, TayoIdentity!Spec,
     StewardIdentity!Spec
==============================================================================
