------------------------------- MODULE Membership -------------------------------
(***************************************************************************)
(* Signing up (MemberService.join) and leaving (MyPageService.deleteMember). *)
(* A sign-up touches three stores that share no transaction: the backend's   *)
(* database (in memory: a restart empties it), the Indy wallets on disk, one *)
(* per email, and the Fabric wallets on the sharing channel, one per         *)
(* WalletKey of a member's id.  Every exception after the check for a        *)
(* duplicate is swallowed: what was saved is committed, and the caller gets  *)
(* an error because the answer is made from null.                           *)
(***************************************************************************)
EXTENDS Integers, FiniteSets

CONSTANTS
  Threads,    \* request threads
  Emails,
  Keys,       \* keys of Fabric wallets
  WalletKey,  \* member id -> key (computeUniqueIDInt)
  MaxId,      \* bound: members saved between two restarts
  MaxEra,     \* bound: restarts of the backend
  None

ASSUME MembershipConstants ==
  /\ MaxId \in Nat /\ MaxEra \in Nat
  /\ WalletKey \in [1..MaxId -> Keys]
  /\ None \notin Emails
  /\ None \notin (1..MaxId) \X (0..MaxEra)

VARIABLES
  rows,     \* committed members: [id, email]
  nextId,   \* next value of the ids' sequence
  era,      \* restarts so far
  indy,     \* emails that have an Indy wallet
  fabric,   \* key -> the sign-up its Fabric wallet was made for, <<id, era>>, or None
  inRoom,   \* ids that a chat room refers to
  join,     \* thread -> [at, email, id, ok]
  welcomed  \* history: ids answered with success, and still members

vars == <<rows, nextId, era, indy, fabric, inRoom, join, welcomed>>

Resting == [at |-> "rest", email |-> None, id |-> 0, ok |-> FALSE]
At(t, step) == join[t].at = step
Goto(t, step) == join' = [join EXCEPT ![t].at = step]
Taken(email) == \E r \in rows : r.email = email
Ids == {r.id : r \in rows}

Init ==
  /\ rows = {} /\ nextId = 1 /\ era = 0
  /\ indy = {} /\ fabric = [k \in Keys |-> None]
  /\ inRoom = {}
  /\ join = [t \in Threads |-> Resting]
  /\ welcomed = {}

-----------------------------------------------------------------------------
(* join, a step for each store it touches.                                  *)

\* validateDuplicateMember sees committed members only.
Validate(t, email) ==
  /\ At(t, "rest")
  /\ ~Taken(email)
  /\ join' = [join EXCEPT ![t] = [@ EXCEPT !.at = "wallet", !.email = email]]
  /\ UNCHANGED <<rows, nextId, era, indy, fabric, inRoom, welcomed>>

\* A mutant: an existing wallet is opened, as createTayoWallet does.
CreateOrOpenMemberWallet(t) ==
  /\ At(t, "wallet")
  /\ indy' = indy \cup {join[t].email}
  /\ Goto(t, "save")
  /\ UNCHANGED <<rows, nextId, era, fabric, inRoom, welcomed>>

\* createMemberWallet, with the master secret: fails for an email that has one.
CreateMemberWallet(t) ==
  /\ At(t, "wallet")
  /\ IF join[t].email \in indy
     THEN join' = [join EXCEPT ![t] = Resting] /\ UNCHANGED indy
     ELSE Goto(t, "save") /\ indy' = indy \cup {join[t].email}
  /\ UNCHANGED <<rows, nextId, era, fabric, inRoom, welcomed>>

\* The id comes from a sequence; the row is not committed yet.
Save(t) ==
  /\ At(t, "save")
  /\ nextId <= MaxId
  /\ join' = [join EXCEPT ![t] = [@ EXCEPT !.at = "fabric", !.id = nextId]]
  /\ nextId' = nextId + 1
  /\ UNCHANGED <<rows, era, indy, fabric, inRoom, welcomed>>

\* A mutant: the wallet is put without asking whether one is there.
PutFabricWallet(t, applied, answered) ==
  /\ At(t, "fabric")
  /\ fabric' = [fabric EXCEPT ![WalletKey[join[t].id]] =
                  IF applied THEN <<join[t].id, era>> ELSE @]
  /\ join' = [join EXCEPT ![t] = [@ EXCEPT !.at = "commit", !.ok = applied /\ answered]]
  /\ UNCHANGED <<rows, nextId, era, indy, inRoom, welcomed>>

\* CreateWallet on the ledger: refused where the key has a wallet; it may not be
\* applied at all, or be applied and its answer lost.
CreateFabricWallet(t, applied, answered) ==
  LET k == WalletKey[join[t].id]
  IN  /\ At(t, "fabric")
      /\ applied => fabric[k] = None
      /\ fabric' = [fabric EXCEPT ![k] = IF applied THEN <<join[t].id, era>> ELSE @]
      /\ join' = [join EXCEPT ![t] = [@ EXCEPT !.at = "commit", !.ok = applied /\ answered]]
      /\ UNCHANGED <<rows, nextId, era, indy, inRoom, welcomed>>

\* A mutant: the swallowed exception is forgotten, the member answered.
AnswerSaved(t) == TRUE

Answer(t) == join[t].ok

\* The transaction commits whatever became of the Fabric wallet.
Commit(t) ==
  /\ At(t, "commit")
  /\ rows' = rows \cup {[id |-> join[t].id, email |-> join[t].email]}
  /\ welcomed' = welcomed \cup (IF Answer(t) THEN {join[t].id} ELSE {})
  /\ join' = [join EXCEPT ![t] = Resting]
  /\ UNCHANGED <<nextId, era, indy, fabric, inRoom>>

-----------------------------------------------------------------------------
(* A room refers to its members' rows. *)
OpenRoom(ids) ==
  /\ ids \subseteq Ids
  /\ Cardinality(ids) = 2
  /\ inRoom' = inRoom \cup ids
  /\ UNCHANGED <<rows, nextId, era, indy, fabric, join, welcomed>>

\* A mutant: a row goes whatever refers to it.
DeleteAnyMember(id) ==
  /\ id \in Ids
  /\ rows' = {r \in rows : r.id # id}
  /\ welcomed' = welcomed \ {id}
  /\ UNCHANGED <<nextId, era, indy, fabric, inRoom, join>>

(* deleteMember removes the row, which the database refuses while a room     *)
(* refers to it.  Neither wallet is touched.                                *)
DeleteMember(id) ==
  /\ id \in Ids \ inRoom
  /\ rows' = {r \in rows : r.id # id}
  /\ welcomed' = welcomed \ {id}
  /\ UNCHANGED <<nextId, era, indy, fabric, inRoom, join>>

(* The database lives in the backend's memory, wallets do not; a request that *)
(* was running is never answered.                                           *)
Restart ==
  /\ era < MaxEra
  /\ era' = era + 1
  /\ rows' = {} /\ nextId' = 1 /\ inRoom' = {}
  /\ join' = [t \in Threads |-> Resting]
  /\ welcomed' = {}
  /\ UNCHANGED <<indy, fabric>>

Next ==
  \/ \E t \in Threads :
       \/ \E e \in Emails : Validate(t, e)
       \/ CreateMemberWallet(t)
       \/ Save(t)
       \/ \E applied, answered \in BOOLEAN : CreateFabricWallet(t, applied, answered)
       \/ Commit(t)
  \/ \E ids \in SUBSET Ids : OpenRoom(ids)
  \/ \E id \in Ids : DeleteMember(id)
  \/ Restart

Spec == Init /\ [][Next]_vars

-----------------------------------------------------------------------------
(* Properties. *)

MadeFor(id) == fabric[WalletKey[id]] = <<id, era>>

\* Ids are ids, every row is below the sequence, and rooms have their members.
TypeOK ==
  /\ rows \subseteq [id : 1..MaxId, email : Emails]
  /\ nextId \in 1..(MaxId + 1)
  /\ \A id \in Ids : id < nextId
  /\ indy \subseteq Emails
  /\ \A k \in Keys : fabric[k] = None \/ fabric[k] \in (1..MaxId) \X (0..MaxEra)
  /\ inRoom \subseteq Ids

\* Two members never have one email, nor one id, although the check for a
\* duplicate (validateDuplicateMember) misses a sign-up that has not committed,
\* and the table has no such constraint: the Indy wallet stands in for it.
OneRowPerEmail ==
  \A r, s \in rows : r.email = s.email \/ r.id = s.id => r = s

\* A sign-up answered with success leaves a member who has both wallets, the
\* Fabric one made in that sign-up and in nobody else's (join).
WelcomedIsReady ==
  \A id \in welcomed :
    /\ MadeFor(id)
    /\ \E r \in rows : r.id = id /\ r.email \in indy

\* A Fabric wallet stays the one it was made for: no later sign-up, of a shared
\* key or after a restart, replaces it and its money (CreateWallet).
FirstKeepsWallet ==
  [][\A k \in Keys : fabric[k] # None => fabric'[k] = fabric[k]]_vars

\* "1. sign-up creates a wallet" (TayoConnect).
MembersHaveWallets == \A id \in Ids : MadeFor(id)
==============================================================================
