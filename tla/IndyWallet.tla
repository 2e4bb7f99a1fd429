------------------------------ MODULE IndyWallet ------------------------------
(***************************************************************************)
(* libindy's wallets and the DIDs in them, as the start of the backend and   *)
(* the people who run it use them (indy_wallet.h, indy_did.h, indy_crypto.h, *)
(* error codes of indy_mod.h).  The library is a binary: its headers are its *)
(* source here.  A call is an operator from the state of the wallets to      *)
(* [err, ws]: the error code it answers and the state it leaves; a call that *)
(* fails leaves the state as it was.                                         *)
(*                                                                         *)
(* A key pair is a member of Keys, a signature the pair of a message and the *)
(* key that made it, and a DID is named by the key it was created with, as   *)
(* indy_create_and_store_my_did derives it.  A handle is the name of the     *)
(* wallet it opened, which one process opens at most once.                   *)
(***************************************************************************)
CONSTANTS
  Wallets,  \* wallet ids
  Passes,   \* keys of wallets ("credentials")
  Keys,     \* key pairs, and the DIDs named after them
  None

WalletErrors ==
  {"WalletInvalidHandle", "WalletAlreadyExistsError", "WalletNotFoundError",
   "WalletAlreadyOpenedError", "WalletAccessFailed", "WalletItemNotFound"}

\* my: a DID's key; next: the key a rotation prepared for it.
Contents == [pass : Passes, my : [Keys -> Keys \cup {None}],
             next : [Keys -> Keys \cup {None}]]
WalletState == [stored : [Wallets -> Contents \cup {None}],
                open   : SUBSET Wallets,
                backup : [Wallets -> Contents \cup {None}]]

ASSUME WalletConstants == None \notin Keys /\ None \notin Contents

NoKeys == [d \in Keys |-> None]
NewContents(pass) == [pass |-> pass, my |-> NoKeys, next |-> NoKeys]
NoWallets == [stored |-> [w \in Wallets |-> None], open |-> {},
              backup |-> [w \in Wallets |-> None]]

Refused(err, ws) == [err |-> err, ws |-> ws]
Put(ws, w, contents) ==
  [err |-> "Success", ws |-> [ws EXCEPT !.stored = [@ EXCEPT ![w] = contents]]]

MyDids(contents) == {d \in Keys : contents.my[d] # None}

\* A handle does not outlive its process.
AllClosed(ws) == [ws EXCEPT !.open = {}]

-----------------------------------------------------------------------------
(* Wallets. *)

\* A mutant: a wallet that is there already is taken for a fault of its storage.
CreateOnFault(ws, w, pass) ==
  IF ws.stored[w] # None
  THEN Refused("CommonIOError", ws)
  ELSE Put(ws, w, NewContents(pass))

indy_create_wallet(ws, w, pass) ==
  IF ws.stored[w] # None
  THEN Refused("WalletAlreadyExistsError", ws)
  ELSE Put(ws, w, NewContents(pass))

indy_open_wallet(ws, w, pass) ==
  IF ws.stored[w] = None THEN Refused("WalletNotFoundError", ws)
  ELSE IF w \in ws.open THEN Refused("WalletAlreadyOpenedError", ws)
  ELSE IF ws.stored[w].pass # pass THEN Refused("WalletAccessFailed", ws)
  ELSE [err |-> "Success", ws |-> [ws EXCEPT !.open = @ \cup {w}]]

indy_close_wallet(ws, w) ==
  IF w \notin ws.open THEN Refused("WalletInvalidHandle", ws)
  ELSE [err |-> "Success", ws |-> [ws EXCEPT !.open = @ \ {w}]]

indy_delete_wallet(ws, w, pass) ==
  IF ws.stored[w] = None THEN Refused("WalletNotFoundError", ws)
  ELSE IF ws.stored[w].pass # pass THEN Refused("WalletAccessFailed", ws)
  ELSE Put(ws, w, None)

indy_export_wallet(ws, w) ==
  IF w \notin ws.open THEN Refused("WalletInvalidHandle", ws)
  ELSE [err |-> "Success",
        ws |-> [ws EXCEPT !.backup = [@ EXCEPT ![w] = ws.stored[w]]]]

\* The imported wallet is opened with the key given here.
indy_import_wallet(ws, w, pass) ==
  IF ws.stored[w] # None THEN Refused("WalletAlreadyExistsError", ws)
  ELSE IF ws.backup[w] = None THEN Refused("CommonIOError", ws)
  ELSE Put(ws, w, [ws.backup[w] EXCEPT !.pass = pass])

-----------------------------------------------------------------------------
(* DIDs. *)

indy_create_and_store_my_did(ws, w, key) ==
  IF w \notin ws.open THEN Refused("WalletInvalidHandle", ws)
  ELSE IF ws.stored[w].my[key] # None THEN Refused("DidAlreadyExistsError", ws)
  ELSE Put(ws, w, [ws.stored[w] EXCEPT !.my = [@ EXCEPT ![key] = key]])

\* Signatures are made with the old key until the new one is applied.
indy_replace_keys_start(ws, w, did, key) ==
  IF w \notin ws.open THEN Refused("WalletInvalidHandle", ws)
  ELSE IF ws.stored[w].my[did] = None THEN Refused("WalletItemNotFound", ws)
  ELSE Put(ws, w, [ws.stored[w] EXCEPT !.next = [@ EXCEPT ![did] = key]])

indy_replace_keys_apply(ws, w, did) ==
  IF w \notin ws.open THEN Refused("WalletInvalidHandle", ws)
  ELSE IF ws.stored[w].next[did] = None THEN Refused("WalletItemNotFound", ws)
  ELSE Put(ws, w, [ws.stored[w] EXCEPT
                     !.my = [@ EXCEPT ![did] = ws.stored[w].next[did]],
                     !.next = [@ EXCEPT ![did] = None]])

indy_key_for_local_did(ws, w, did) ==
  IF w \notin ws.open THEN None ELSE ws.stored[w].my[did]

\* In no particular order: the caller that takes the first takes any of them.
indy_list_my_dids_with_meta(ws, w) ==
  IF w \notin ws.open THEN {} ELSE MyDids(ws.stored[w])

-----------------------------------------------------------------------------
(* Signatures. *)

indy_crypto_sign(message, key) == [message |-> message, key |-> key]
indy_crypto_verify(key, message, signature) ==
  signature = [message |-> message, key |-> key]
==============================================================================
