------------------------------ MODULE IndyLedger ------------------------------
(***************************************************************************)
(* The pool of Indy nodes and its ledger, as libindy's callers see them      *)
(* (indy_pool.h, indy_ledger.h).  As in IndyWallet a call is an operator     *)
(* from a state to what it answers and leaves.                              *)
(*                                                                         *)
(* The ledger holds NYM records, schemas and credential definitions, the     *)
(* rules of who may write what, the agreement authors must accept, if any,   *)
(* and whether writes are taken at all.  A read is answered by one node,     *)
(* which may not have what was written last: "behind" is the set of entries  *)
(* that some node lacks.                                                     *)
(***************************************************************************)
EXTENDS IndyWallet

CONSTANTS
  Objects,    \* schemas and credential definitions
  Versions,   \* of the agreement
  Mechanisms, \* of accepting it
  FirstRules  \* type of request -> roles that may make it, on a new ledger

Roles == {"TRUSTEE", "STEWARD", "TRUST_ANCHOR"}
Types == {"NYM", "SCHEMA", "CRED_DEF", "AUTH_RULE", "POOL_CONFIG", "TXN_AUTHR_AGRMT",
          "TXN_AUTHR_AGRMT_DISABLE", "TXN_AUTHR_AGRMT_AML"}
PoolErrors ==
  {"PoolLedgerNotCreatedError", "PoolLedgerInvalidPoolHandle", "PoolLedgerTimeout",
   "PoolLedgerConfigAlreadyExistsError", "PoolIncompatibleProtocolVersion"}

Nym == [verkey : Keys, role : Roles]

ASSUME LedgerConstants ==
  /\ FirstRules \in [Types -> SUBSET Roles]
  /\ None \notin Nym /\ None \notin Versions

Ledgers == [nyms : [Keys -> Nym \cup {None}], objects : SUBSET Objects,
            behind : SUBSET (Keys \cup Objects), rules : [Types -> SUBSET Roles],
            taa : Versions \cup {None}, aml : SUBSET Mechanisms, writes : BOOLEAN]

\* The NYM records of the genesis transactions: DID -> role.
NewLedger(genesis) ==
  [nyms |-> [d \in Keys |-> IF d \in DOMAIN genesis
                            THEN [verkey |-> d, role |-> genesis[d]] ELSE None],
   objects |-> {}, behind |-> {}, rules |-> FirstRules,
   taa |-> None, aml |-> {}, writes |-> TRUE]

-----------------------------------------------------------------------------
(* The pool, as a process knows it: a configuration on disk, a protocol       *)
(* version and a handle in memory.                                          *)

Pools == [config : BOOLEAN, open : BOOLEAN, version : {1, 2}]
NoPool == [config |-> FALSE, open |-> FALSE, version |-> 1]
PoolKept(pool) == [pool EXCEPT !.open = FALSE, !.version = 1]

indy_set_protocol_version(pool, version) == [pool EXCEPT !.version = version]

indy_create_pool_ledger_config(pool) ==
  IF pool.config THEN [err |-> "PoolLedgerConfigAlreadyExistsError", pool |-> pool]
  ELSE [err |-> "Success", pool |-> [pool EXCEPT !.config = TRUE]]

\* The genesis transactions of the repository are of version 2.
indy_open_pool_ledger(pool, isReachable) ==
  IF ~pool.config THEN [err |-> "PoolLedgerNotCreatedError", pool |-> pool]
  ELSE IF pool.version # 2 THEN [err |-> "PoolIncompatibleProtocolVersion", pool |-> pool]
  ELSE IF ~isReachable THEN [err |-> "PoolLedgerTimeout", pool |-> pool]
  ELSE [err |-> "Success", pool |-> [pool EXCEPT !.open = TRUE]]

indy_delete_pool_ledger_config(pool) ==
  IF ~pool.config THEN [err |-> "PoolLedgerNotCreatedError", pool |-> pool]
  ELSE [err |-> "Success", pool |-> [pool EXCEPT !.config = FALSE]]

-----------------------------------------------------------------------------
(* Requests. *)

Request(type, by, data) ==
  [type |-> type, by |-> by, data |-> data, taa |-> None, signatures |-> {}]
Message(request) == <<request.type, request.by, request.data, request.taa>>

indy_build_nym_request(by, did, verkey, role) ==
  Request("NYM", by, [did |-> did, verkey |-> verkey, role |-> role])
indy_build_schema_request(by, schema) == Request("SCHEMA", by, schema)
indy_build_cred_def_request(by, def) == Request("CRED_DEF", by, def)
indy_build_auth_rule_request(by, type, roles) ==
  Request("AUTH_RULE", by, [type |-> type, roles |-> roles])
indy_build_pool_config_request(by, writes) == Request("POOL_CONFIG", by, writes)
indy_build_txn_author_agreement_request(by, version) ==
  Request("TXN_AUTHR_AGRMT", by, version)
indy_build_disable_all_txn_author_agreements_request(by) ==
  Request("TXN_AUTHR_AGRMT_DISABLE", by, None)
indy_build_acceptance_mechanisms_request(by, mechanisms) ==
  Request("TXN_AUTHR_AGRMT_AML", by, mechanisms)

\* To be done before the request is signed.
indy_append_txn_author_agreement_acceptance_to_request(request, version, mechanism) ==
  [request EXCEPT !.taa = [version |-> version, mechanism |-> mechanism]]

\* Replaces the signature there was.
SignedBy(request, did, key) ==
  [request EXCEPT !.signatures =
     {[did |-> did, signature |-> indy_crypto_sign(Message(request), key)]}]

indy_sign_request(ws, w, did, request) ==
  LET key == indy_key_for_local_did(ws, w, did)
  IN  IF key = None THEN request ELSE SignedBy(request, did, key)

-----------------------------------------------------------------------------
(* What the nodes agree on. *)

IsSigned(ledger, request) ==
  \E s \in request.signatures :
    /\ s.did = request.by
    /\ indy_crypto_verify(ledger.nyms[s.did].verkey, Message(request), s.signature)

\* A NYM record of one's own may be changed by its owner alone.
IsAllowed(ledger, request) ==
  IF request.type = "NYM" /\ ledger.nyms[request.data.did] # None
  THEN request.by = request.data.did
  ELSE ledger.nyms[request.by].role \in ledger.rules[request.type]

IsAgreed(ledger, request) ==
  request.type \in {"NYM", "SCHEMA", "CRED_DEF"} /\ ledger.taa # None =>
    /\ request.taa # None
    /\ request.taa.version = ledger.taa
    /\ request.taa.mechanism \in ledger.aml

IsAccepted(ledger, request) ==
  /\ ledger.nyms[request.by] # None
  /\ IsSigned(ledger, request)
  /\ ledger.writes \/ request.type = "POOL_CONFIG"
  /\ IsAgreed(ledger, request)
  /\ IsAllowed(ledger, request)

WriteNym(ledger, nym) ==
  LET old == ledger.nyms[nym.did]
      new == IF old = None THEN [verkey |-> nym.verkey, role |-> nym.role]
             ELSE [old EXCEPT !.verkey = nym.verkey]
  IN  [ledger EXCEPT !.nyms = [@ EXCEPT ![nym.did] = new],
                     !.behind = IF old = None THEN @ \cup {nym.did} ELSE @]

Written(ledger, request) ==
  LET data == request.data
  IN  IF request.type = "NYM" THEN WriteNym(ledger, data)
      ELSE IF request.type \in {"SCHEMA", "CRED_DEF"}
      THEN [ledger EXCEPT !.objects = @ \cup {data}, !.behind = @ \cup {data}]
      ELSE IF request.type = "AUTH_RULE"
      THEN [ledger EXCEPT !.rules = [@ EXCEPT ![data.type] = data.roles]]
      ELSE IF request.type = "POOL_CONFIG" THEN [ledger EXCEPT !.writes = data]
      ELSE IF request.type = "TXN_AUTHR_AGRMT" THEN [ledger EXCEPT !.taa = data]
      ELSE IF request.type = "TXN_AUTHR_AGRMT_DISABLE" THEN [ledger EXCEPT !.taa = None]
      ELSE [ledger EXCEPT !.aml = data]

indy_submit_request(ledger, request) ==
  IF IsAccepted(ledger, request)
  THEN [op |-> "REPLY", ledger |-> Written(ledger, request)]
  ELSE [op |-> "REJECT", ledger |-> ledger]

indy_sign_and_submit_request(ledger, ws, w, did, request) ==
  indy_submit_request(ledger, indy_sign_request(ws, w, did, request))

\* Every node has caught up.
CaughtUp(ledger) == [ledger EXCEPT !.behind = {}]

-----------------------------------------------------------------------------
(* Reads, answered by one node: isUpToDate where it has what was written.    *)
(* Each stands for building the request, sending it, and parsing the answer. *)

IsThere(ledger, entry) ==
  IF entry \in Keys THEN ledger.nyms[entry] # None ELSE entry \in ledger.objects

\* Whether the answer has a "seqNo", of the transaction that wrote the entry.
indy_get_response_metadata(ledger, entry, isUpToDate) ==
  IsThere(ledger, entry) /\ (isUpToDate \/ entry \notin ledger.behind)

indy_get_nym(ledger, did, isUpToDate) ==
  IF indy_get_response_metadata(ledger, did, isUpToDate) THEN ledger.nyms[did] ELSE None
indy_get_schema(ledger, schema, isUpToDate) ==
  IF indy_get_response_metadata(ledger, schema, isUpToDate) THEN schema ELSE None
indy_get_cred_def(ledger, def, isUpToDate) ==
  IF indy_get_response_metadata(ledger, def, isUpToDate) THEN def ELSE None
indy_get_txn_author_agreement(ledger) == ledger.taa
indy_get_acceptance_mechanisms(ledger) == ledger.aml
==============================================================================
