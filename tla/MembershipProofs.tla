--------------------------- MODULE MembershipProofs ---------------------------
(***************************************************************************)
(* Proofs about Membership for any number of request threads, emails,      *)
(* members, keys (shared or not) and restarts.                             *)
(***************************************************************************)
EXTENDS Membership, TLAPS

Steps == {"rest", "wallet", "save", "fabric", "commit"}
Requests == [at : Steps, email : Emails \cup {None}, id : 0..MaxId, ok : BOOLEAN]

\* A sign-up that has made its Indy wallet, and one that also has its id.
HasIndy(t) == join[t].at \in {"save", "fabric", "commit"}
Numbered(t) == join[t].at \in {"fabric", "commit"}

JoinOK ==
  /\ join \in [Threads -> Requests]
  /\ \A t \in Threads : join[t].at # "rest" => join[t].email \in Emails
  /\ \A t \in Threads : Numbered(t) => join[t].id \in 1 .. nextId - 1

\* The email of a member, and of a sign-up past its Indy wallet, has a wallet.
EmailsHaveIndy ==
  /\ \A r \in rows : r.email \in indy
  /\ \A t \in Threads : HasIndy(t) => join[t].email \in indy

\* Members and such sign-ups never meet in an email, nor in an id.
Apart ==
  /\ \A t \in Threads, r \in rows :
       /\ HasIndy(t) => r.email # join[t].email
       /\ Numbered(t) => r.id # join[t].id
  /\ \A t, u \in Threads : t # u =>
       /\ HasIndy(t) /\ HasIndy(u) => join[t].email # join[u].email
       /\ Numbered(t) /\ Numbered(u) => join[t].id # join[u].id

\* A success, given or about to be given, has its Fabric wallet.
SuccessHasWallet ==
  /\ era \in 0..MaxEra /\ fabric \in [Keys -> {None} \cup (1..MaxId) \X (0..MaxEra)]
  /\ welcomed \subseteq Ids
  /\ \A id \in welcomed : MadeFor(id)
  /\ \A t \in Threads : join[t].at = "commit" /\ join[t].ok => MadeFor(join[t].id)

Inv ==
  /\ TypeOK
  /\ OneRowPerEmail
  /\ JoinOK
  /\ EmailsHaveIndy
  /\ Apart
  /\ SuccessHasWallet

-----------------------------------------------------------------------------
LEMMA InitInv == Init => Inv
<1> SUFFICES ASSUME Init PROVE Inv
  OBVIOUS
<1> USE MembershipConstants DEF Init, Resting
<1>1. TypeOK /\ OneRowPerEmail
  BY DEF TypeOK, OneRowPerEmail, Ids
<1>2. JoinOK
  BY DEF JoinOK, Requests, Steps, Numbered
<1>3. EmailsHaveIndy /\ Apart
  BY DEF EmailsHaveIndy, Apart, HasIndy, Numbered
<1>4. SuccessHasWallet
  BY DEF SuccessHasWallet, Ids
<1> QED
  BY <1>1, <1>2, <1>3, <1>4 DEF Inv

\* A step gives its request's thread a new entry, the others keep theirs.
LEMMA NewEntry ==
  ASSUME join \in [Threads -> Requests], NEW t \in Threads, NEW r \in Requests,
         join' = [join EXCEPT ![t] = r]
  PROVE  /\ join' \in [Threads -> Requests]
         /\ join'[t] = r
         /\ \A u \in Threads \ {t} : join'[u] = join[u]
OBVIOUS

LEMMA ValidateInv ==
  ASSUME Inv, NEW t \in Threads, NEW e \in Emails, Validate(t, e)
  PROVE  Inv'
<1> USE DEF Inv, Validate, At
<1>1. join[t] \in Requests
  BY DEF JoinOK
<1>2. /\ join'[t].at = "wallet" /\ join'[t].email = e /\ join'[t].id = join[t].id
      /\ join'[t] \in Requests
      /\ join' \in [Threads -> Requests]
      /\ \A u \in Threads \ {t} : join'[u] = join[u]
  BY <1>1 DEF JoinOK, Requests, Steps
<1>3. TypeOK' /\ OneRowPerEmail'
  BY DEF TypeOK, OneRowPerEmail, Ids
<1>4. JoinOK'
  BY <1>2 DEF JoinOK, Numbered
<1>5. EmailsHaveIndy' /\ Apart'
  BY <1>2 DEF EmailsHaveIndy, Apart, HasIndy, Numbered
<1>6. SuccessHasWallet'
  BY <1>2 DEF SuccessHasWallet, Ids, MadeFor
<1> QED
  BY <1>3, <1>4, <1>5, <1>6

LEMMA CreateMemberWalletInv ==
  ASSUME Inv, NEW t \in Threads, CreateMemberWallet(t)
  PROVE  Inv'
<1> USE DEF Inv, CreateMemberWallet, At, Goto
<1>1. join[t] \in Requests /\ join[t].at = "wallet" /\ join[t].email \in Emails
  BY DEF JoinOK
<1> DEFINE made == [join[t] EXCEPT !.at = "save"]
<1>entry. made \in Requests /\ Resting \in Requests
  BY <1>1, MembershipConstants DEF Requests, Steps, Resting
<1>join. join' = [join EXCEPT ![t] = Resting] \/ join' = [join EXCEPT ![t] = made]
  BY <1>1 DEF JoinOK, Resting
<1>2. /\ join' \in [Threads -> Requests]
      /\ \A u \in Threads \ {t} : join'[u] = join[u]
  BY <1>entry, <1>join, NewEntry DEF JoinOK
<1>3. \/ join'[t].at = "rest" /\ indy' = indy
      \/ /\ join'[t].at = "save" /\ join'[t].email = join[t].email
         /\ join[t].email \notin indy /\ indy' = indy \cup {join[t].email}
  BY <1>1 DEF JoinOK, Requests, Resting
<1>4. TypeOK' /\ OneRowPerEmail'
  BY <1>1 DEF TypeOK, OneRowPerEmail, Ids
<1>5. JoinOK'
  BY <1>1, <1>2, <1>3 DEF JoinOK, Numbered
<1>6. EmailsHaveIndy'
  BY <1>2, <1>3 DEF EmailsHaveIndy, HasIndy
<1>7. Apart'
  BY <1>2, <1>3 DEF EmailsHaveIndy, Apart, HasIndy, Numbered
<1>8. SuccessHasWallet'
  BY <1>2, <1>3 DEF SuccessHasWallet, Ids, MadeFor
<1> QED
  BY <1>4, <1>5, <1>6, <1>7, <1>8

LEMMA SaveInv ==
  ASSUME Inv, NEW t \in Threads, Save(t)
  PROVE  Inv'
<1> USE DEF Inv, Save, At
<1>1. /\ join[t] \in Requests /\ join[t].at = "save" /\ join[t].email \in Emails
      /\ MaxId \in Nat /\ nextId \in 1..MaxId
  BY MembershipConstants DEF JoinOK, TypeOK
<1> DEFINE saved == [join[t] EXCEPT !.at = "fabric", !.id = nextId]
<1>entry. /\ saved \in Requests /\ saved.at = "fabric"
      /\ saved.email = join[t].email /\ saved.id = nextId
  <2> DEFINE moved == [join[t] EXCEPT !.at = "fabric"]
  <2>1. moved \in Requests /\ moved.at = "fabric" /\ moved.email = join[t].email
    BY <1>1 DEF Requests, Steps
  <2>2. nextId \in 0..MaxId
    BY <1>1
  <2>3. saved = [moved EXCEPT !.id = nextId]
    OBVIOUS
  <2> HIDE DEF moved, saved
  <2> QED
    BY <2>1, <2>2, <2>3 DEF Requests, Steps
<1>join. join' = [join EXCEPT ![t] = saved]
  OBVIOUS
<1>2. /\ join' \in [Threads -> Requests]
      /\ \A u \in Threads \ {t} : join'[u] = join[u]
      /\ join'[t].at = "fabric" /\ join'[t].email = join[t].email /\ join'[t].id = nextId
  BY <1>entry, <1>join, NewEntry DEF JoinOK
<1>3. TypeOK'
  BY <1>1 DEF TypeOK, Ids
<1>4. OneRowPerEmail'
  BY DEF OneRowPerEmail
<1>5. JoinOK'
  BY <1>1, <1>2 DEF JoinOK, Numbered
<1>6. EmailsHaveIndy'
  BY <1>1, <1>2 DEF EmailsHaveIndy, HasIndy
<1>7. \A r \in rows : r.id # nextId
  <2>1. \A r \in rows : r.id \in Ids /\ r.id \in 1..MaxId
    BY DEF Ids, TypeOK
  <2>2. \A id \in Ids : id < nextId
    BY DEF TypeOK
  <2> QED
    BY <1>1, <2>1, <2>2
<1>8. \A u \in Threads : Numbered(u) => join[u].id # nextId
  BY <1>1 DEF JoinOK, Numbered
<1>9. Apart'
  BY <1>1, <1>2, <1>7, <1>8 DEF Apart, HasIndy, Numbered
<1>10. SuccessHasWallet'
  BY <1>2 DEF SuccessHasWallet, Ids, MadeFor
<1> QED
  BY <1>3, <1>4, <1>5, <1>6, <1>9, <1>10

LEMMA CreateFabricWalletInv ==
  ASSUME Inv, NEW t \in Threads, NEW applied \in BOOLEAN, NEW answered \in BOOLEAN,
         CreateFabricWallet(t, applied, answered)
  PROVE  Inv'
<1> DEFINE k == WalletKey[join[t].id]
           pair == <<join[t].id, era>>
<1> USE DEF Inv, CreateFabricWallet, At
<1>1. /\ join[t] \in Requests /\ join[t].at = "fabric" /\ join[t].email \in Emails
      /\ join[t].id \in 1..MaxId /\ k \in Keys
      /\ pair \in (1..MaxId) \X (0..MaxEra)
  BY MembershipConstants DEF JoinOK, TypeOK, Numbered, SuccessHasWallet
<1>2. /\ join' \in [Threads -> Requests]
      /\ \A u \in Threads \ {t} : join'[u] = join[u]
      /\ join'[t].at = "commit" /\ join'[t].email = join[t].email
      /\ join'[t].id = join[t].id
      /\ join'[t].ok => applied
  BY <1>1 DEF JoinOK, Requests, Steps
<1>3. /\ fabric' \in [Keys -> {None} \cup (1..MaxId) \X (0..MaxEra)]
      /\ applied => fabric'[k] = pair
      /\ \A j \in Keys : fabric[j] # None => fabric'[j] = fabric[j]
  BY <1>1 DEF SuccessHasWallet
<1>4. TypeOK'
  BY <1>3 DEF TypeOK, Ids
<1>5. OneRowPerEmail'
  BY DEF OneRowPerEmail
<1>6. JoinOK'
  BY <1>1, <1>2 DEF JoinOK, Numbered
<1>7. EmailsHaveIndy'
  BY <1>1, <1>2 DEF EmailsHaveIndy, HasIndy
<1>8. Apart'
  BY <1>1, <1>2 DEF Apart, HasIndy, Numbered
<1>9. ASSUME NEW id \in 1..MaxId, MadeFor(id)
      PROVE  MadeFor(id)'
  BY <1>1, <1>3, <1>9, MembershipConstants DEF MadeFor, SuccessHasWallet
<1>10. \A id \in welcomed : MadeFor(id)'
  BY <1>9 DEF SuccessHasWallet, TypeOK, Ids
<1>11. ASSUME NEW u \in Threads, join'[u].at = "commit", join'[u].ok
       PROVE  MadeFor(join[u].id)' /\ join'[u].id = join[u].id
  <2>1. CASE u = t
    BY <1>2, <1>3, <1>11, <2>1 DEF MadeFor
  <2>2. CASE u # t
    <3>1. join'[u] = join[u] /\ join[u].id \in 1..MaxId
      BY <1>2, <1>11, <2>2, MembershipConstants DEF JoinOK, Numbered, TypeOK
    <3> QED
      BY <1>9, <1>11, <3>1 DEF SuccessHasWallet
  <2> QED
    BY <2>1, <2>2
<1>12. SuccessHasWallet'
  BY <1>3, <1>10, <1>11 DEF SuccessHasWallet, Ids, MadeFor
<1> QED
  BY <1>4, <1>5, <1>6, <1>7, <1>8, <1>12

LEMMA CommitInv ==
  ASSUME Inv, NEW t \in Threads, Commit(t)
  PROVE  Inv'
<1> DEFINE row == [id |-> join[t].id, email |-> join[t].email]
<1> USE DEF Inv, Commit, At
<1>1. /\ join[t] \in Requests /\ join[t].at = "commit" /\ join[t].email \in Emails
      /\ join[t].id \in 1 .. nextId - 1 /\ join[t].id \in 1..MaxId
      /\ rows' = rows \cup {row}
  BY MembershipConstants DEF JoinOK, Numbered, TypeOK
<1>entry. Resting \in Requests /\ Resting.at = "rest"
  BY MembershipConstants DEF Requests, Steps, Resting
<1>2. /\ join' \in [Threads -> Requests]
      /\ \A u \in Threads \ {t} : join'[u] = join[u]
      /\ join'[t].at = "rest"
  BY <1>entry, NewEntry DEF JoinOK
<1>row. /\ row.id = join[t].id /\ row.email = join[t].email
      /\ row \in [id : 1..MaxId, email : Emails]
  BY <1>1
<1>ids. {r.id : r \in rows \cup {row}} = {r.id : r \in rows} \cup {row.id}
  OBVIOUS
<1>3. /\ row.id = join[t].id /\ row.email = join[t].email
      /\ row \in [id : 1..MaxId, email : Emails]
      /\ Ids' = Ids \cup {join[t].id}
  BY <1>1, <1>row, <1>ids DEF Ids
<1>4. TypeOK'
  BY <1>1, <1>3 DEF TypeOK
<1>5. \A r \in rows : r.email # row.email /\ r.id # row.id
  BY <1>1 DEF Apart, HasIndy, Numbered
<1>6. OneRowPerEmail'
  BY <1>1, <1>5 DEF OneRowPerEmail
<1>7. JoinOK'
  BY <1>2 DEF JoinOK, Numbered
<1>8. EmailsHaveIndy'
  BY <1>1, <1>2 DEF EmailsHaveIndy, HasIndy
<1>9. Apart'
  BY <1>1, <1>2 DEF Apart, HasIndy, Numbered
<1>10. \A id \in welcomed' : id \in Ids' /\ MadeFor(id)
  BY <1>1, <1>3 DEF SuccessHasWallet, Answer
<1>11. SuccessHasWallet'
  BY <1>2, <1>10 DEF SuccessHasWallet, MadeFor
<1> QED
  BY <1>4, <1>6, <1>7, <1>8, <1>9, <1>11

LEMMA OpenRoomInv ==
  ASSUME Inv, NEW ids \in SUBSET Ids, OpenRoom(ids)
  PROVE  Inv'
<1> USE DEF Inv, OpenRoom
<1>1. TypeOK' /\ OneRowPerEmail'
  BY DEF TypeOK, OneRowPerEmail, Ids
<1>2. JoinOK' /\ EmailsHaveIndy' /\ Apart'
  BY DEF JoinOK, EmailsHaveIndy, Apart, HasIndy, Numbered
<1>3. SuccessHasWallet'
  BY DEF SuccessHasWallet, Ids, MadeFor
<1> QED
  BY <1>1, <1>2, <1>3

LEMMA DeleteMemberInv ==
  ASSUME Inv, NEW m \in Ids, DeleteMember(m)
  PROVE  Inv'
<1> USE DEF Inv, DeleteMember
<1>1. rows' \subseteq rows /\ Ids' = Ids \ {m}
  BY DEF Ids
<1>2. TypeOK' /\ OneRowPerEmail'
  BY <1>1 DEF TypeOK, OneRowPerEmail
<1>3. JoinOK'
  BY DEF JoinOK, Numbered
<1>4. EmailsHaveIndy' /\ Apart'
  BY <1>1 DEF EmailsHaveIndy, Apart, HasIndy, Numbered
<1>5. SuccessHasWallet'
  BY <1>1 DEF SuccessHasWallet, MadeFor
<1> QED
  BY <1>2, <1>3, <1>4, <1>5

LEMMA RestartInv ==
  ASSUME Inv, Restart
  PROVE  Inv'
<1> USE DEF Inv, Restart
<1>1. /\ MaxId \in Nat /\ MaxEra \in Nat /\ era' \in 0..MaxEra
  BY MembershipConstants DEF SuccessHasWallet
<1>2. join' \in [Threads -> Requests] /\ \A t \in Threads : join'[t].at = "rest"
  BY <1>1 DEF Requests, Steps, Resting
<1>3. TypeOK' /\ OneRowPerEmail'
  BY <1>1 DEF TypeOK, OneRowPerEmail, Ids
<1>4. JoinOK'
  BY <1>2 DEF JoinOK, Numbered
<1>5. EmailsHaveIndy' /\ Apart'
  BY <1>2 DEF EmailsHaveIndy, Apart, HasIndy, Numbered
<1>6. SuccessHasWallet'
  BY <1>1, <1>2 DEF SuccessHasWallet, Ids, MadeFor
<1> QED
  BY <1>3, <1>4, <1>5, <1>6

LEMMA NextInv == Inv /\ [Next]_vars => Inv'
<1> SUFFICES ASSUME Inv, [Next]_vars PROVE Inv'
  OBVIOUS
<1>1. ASSUME NEW t \in Threads, NEW e \in Emails, Validate(t, e) PROVE Inv'
  BY <1>1, ValidateInv
<1>2. ASSUME NEW t \in Threads, CreateMemberWallet(t) PROVE Inv'
  BY <1>2, CreateMemberWalletInv
<1>3. ASSUME NEW t \in Threads, Save(t) PROVE Inv'
  BY <1>3, SaveInv
<1>4. ASSUME NEW t \in Threads, NEW applied \in BOOLEAN, NEW answered \in BOOLEAN,
             CreateFabricWallet(t, applied, answered)
      PROVE  Inv'
  BY <1>4, CreateFabricWalletInv
<1>5. ASSUME NEW t \in Threads, Commit(t) PROVE Inv'
  BY <1>5, CommitInv
<1>6. ASSUME NEW ids \in SUBSET Ids, OpenRoom(ids) PROVE Inv'
  BY <1>6, OpenRoomInv
<1>7. ASSUME NEW id \in Ids, DeleteMember(id) PROVE Inv'
  BY <1>7, DeleteMemberInv
<1>8. CASE Restart
  BY <1>8, RestartInv
<1>9. CASE UNCHANGED vars
  BY <1>9 DEF vars, Inv, TypeOK, OneRowPerEmail, Ids, JoinOK, EmailsHaveIndy, Apart,
              SuccessHasWallet, HasIndy, Numbered, MadeFor
<1> QED
  BY <1>1, <1>2, <1>3, <1>4, <1>5, <1>6, <1>7, <1>8, <1>9 DEF Next

LEMMA InvHolds == Spec => []Inv
BY InitInv, NextInv, PTL DEF Spec

-----------------------------------------------------------------------------
\* The members, the wallets and the rooms stay what they are supposed to be,
\* through sign-ups, departures and restarts (MemberService, MyPageService).
THEOREM TypeCorrect == Spec => []TypeOK
<1>1. Inv => TypeOK
  BY DEF Inv
<1> QED
  BY <1>1, InvHolds, PTL

\* However many sign-ups of one email run at once, one member comes of them
\* (join: the check is not enough, the Indy wallet is).
THEOREM EmailsAreUnique == Spec => []OneRowPerEmail
<1>1. Inv => OneRowPerEmail
  BY DEF Inv
<1> QED
  BY <1>1, InvHolds, PTL

\* A member who was answered with success has both wallets (join).
THEOREM WelcomeMeansReady == Spec => []WelcomedIsReady
<1>1. Inv => WelcomedIsReady
  BY DEF Inv, SuccessHasWallet, EmailsHaveIndy, Ids, WelcomedIsReady
<1> QED
  BY <1>1, InvHolds, PTL

\* No sign-up takes over a Fabric wallet that is there, whatever keys ids
\* share (CreateWallet of the sharing channel).
THEOREM WalletsAreKept == Spec => FirstKeepsWallet
<1>1. ASSUME Inv, [Next]_vars
      PROVE  \A k \in Keys : fabric[k] # None => fabric'[k] = fabric[k]
  <2> SUFFICES ASSUME NEW k \in Keys, fabric[k] # None
               PROVE  fabric'[k] = fabric[k]
    OBVIOUS
  <2>1. ASSUME NEW t \in Threads, NEW applied \in BOOLEAN, NEW answered \in BOOLEAN,
               CreateFabricWallet(t, applied, answered)
        PROVE  fabric'[k] = fabric[k]
    BY <1>1, <2>1 DEF CreateFabricWallet, Inv, SuccessHasWallet
  <2>2. CASE fabric' = fabric
    BY <2>2
  <2> QED
    BY <1>1, <2>1, <2>2 DEF Next, vars, Validate, CreateMemberWallet, Save, Commit,
                            OpenRoom, DeleteMember, Restart
<1>2. Inv /\ [Next]_vars
        => [\A k \in Keys : fabric[k] # None => fabric'[k] = fabric[k]]_vars
  BY <1>1
<1> QED
  BY <1>2, InvHolds, PTL DEF Spec, FirstKeepsWallet
==============================================================================
