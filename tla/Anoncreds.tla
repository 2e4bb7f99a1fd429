------------------------------- MODULE Anoncreds -------------------------------
(***************************************************************************)
(* libindy's anonymous credentials (indy_anoncreds.h), as the backend and    *)
(* the VC service use them.  The library is a binary: its header is its      *)
(* source here.  A call is an operator on what the wallet it is given holds: *)
(* the definitions of an issuer, the credentials of a holder.  What a call   *)
(* cannot make is None.                                                     *)
(*                                                                         *)
(* A schema is named by its issuer, a definition by its schema and a tag, a  *)
(* credential in a wallet by a referent.                                    *)
(***************************************************************************)
CONSTANT None

-----------------------------------------------------------------------------
(* The issuer.  own: the definitions in its wallet. *)

indy_issuer_create_schema(issuer, name) == [issuer |-> issuer, name |-> name]

indy_issuer_create_and_store_credential_def(own, schema, tag) ==
  LET def == [schema |-> schema, tag |-> tag]
  IN  IF def \in own THEN [err |-> "AnoncredsCredDefAlreadyExistsError", own |-> own]
      ELSE [err |-> "Success", own |-> own \cup {def}]

indy_issuer_create_credential_offer(own, def) == IF def \in own THEN def ELSE None

indy_issuer_create_credential(own, offer, request, values) ==
  IF offer \in own /\ request.def = offer
  THEN [def |-> offer, to |-> request, values |-> values] ELSE None

-----------------------------------------------------------------------------
(* The holder.  creds: the credentials in its wallet. *)

\* The secret of a holder, by its name in the wallet.
indy_prover_create_master_secret(name) == name

\* The definition is the one read from the ledger.
indy_prover_create_credential_req(did, secret, offer, def) ==
  IF def = offer THEN [def |-> def, by |-> did, secret |-> secret] ELSE None

\* What does not answer the request that was made is refused.
indy_prover_store_credential(creds, ref, request, credential, def) ==
  IF credential # None /\ credential.to = request /\ credential.def = def
  THEN creds \cup {[ref |-> ref, def |-> def, car |-> credential.values]}
  ELSE creds

indy_prover_get_credentials(creds, issuer) ==
  {c \in creds : c.def.schema.issuer = issuer}

\* A proof request asks for attributes of credentials of one definition.
indy_prover_search_credentials_for_proof_req(creds, request) ==
  {c \in creds : c.def = request.def}

indy_prover_fetch_credentials_for_proof_req(search) == search

\* The credential that is presented is named by its referent, and its schema and
\* definition must be among those given.
indy_prover_create_proof(creds, request, ref, schemas, defs) ==
  IF \E c \in creds : c.ref = ref /\ c.def \in defs /\ c.def.schema \in schemas
  THEN [request |-> request, from |-> CHOOSE c \in creds : c.ref = ref]
  ELSE None

\* Its own of the request it is made for.
indy_generate_nonce(by) == by

indy_verifier_verify_proof(request, proof, schemas, defs) ==
  /\ proof.request = request
  /\ proof.from.def = request.def
  /\ proof.from.def \in defs /\ proof.from.def.schema \in schemas
==============================================================================
