---------------------------- MODULE ChatRoomsProofs ----------------------------
(***************************************************************************)
(* Proofs about the rows of ChatRooms, on top of what PresenceProofs knows  *)
(* of the counts they depend on.                                            *)
(***************************************************************************)
EXTENDS PresenceProofs

USE DEF environment, InTurn

RowRecords == [id : Nat, room : Rooms, to : Users \cup {None}, isRead : BOOLEAN]
Stored == messages \cup notes

TablesOK ==
  /\ messages \in SUBSET RowRecords /\ notes \in SUBSET RowRecords
  /\ nextId \in Nat
  /\ lastMessage \in [Rooms -> Nat \cup {None}]
  /\ held \in [Threads -> SUBSET RowRecords]

\* An id is of one row, and the last message of a room is a message of it.  Rows of a
\* room without a lender are addressed to nobody.
StoredOK ==
  /\ \A m \in Stored :
       /\ m.id < nextId /\ Exists(m.room) /\ m.to \in {Borrower[m.room], Lender[m.room]}
       /\ Lender[m.room] = None => m.to = None
  /\ \A m, n \in Stored : m.id = n.id => m = n
  /\ \A r \in Rooms : Exists(r) => \E m \in messages : m.room = r /\ m.id = lastMessage[r]
  /\ seen \subseteq 0 .. nextId - 1

\* In turn, and alone, at every moment.
SeenOK == \A m \in Stored : m.isRead <=> m.id \in seen
NewestOK == \A m \in messages : m.id <= lastMessage[m.room]

Together(r) == Holds(r) = 2

\* A row that is inserted and not committed is for the room's other member and has an id
\* of its own; alone, it is the newest of its room; in turn, whether it is read is still so.
RowOK(t, row) ==
  /\ held[t] = {row} /\ row.room = Room(t) /\ Lender[Room(t)] # None
  /\ row.to = Other(Room(t), User(t)) /\ row.to \in Members[Room(t)]
  /\ row.id \notin Ids(Stored)
  /\ \A o \in Threads \ {t} : call[o].at = "save" => row.id \notin Ids(held[o])
  /\ alone => \A m \in messages : m.room = Room(t) => m.id < row.id
  /\ InTurn => (row.isRead <=> Together(Room(t))) /\ row.id \notin seen

\* A message to the borrower, in the hands of somebody who is not of the room.
Mistaken(m) == ~atHome /\ \E n \in messages : n.id = m.id /\ n.to = Borrower[n.room]

HeldOK(t) ==
  /\ \A m \in held[t] : m.id < nextId
  /\ call[t].at \in {"load", "commit"} => \A m \in held[t] : m.to = User(t) \/ Mistaken(m)
  /\ call[t].at # "idle" /\ call[t].op \in {"enter", "send", "notify"} => Exists(Room(t))
  /\ InTurn /\ call[t].at = "insert" => (IsRead(t) <=> Together(Room(t)))
  /\ call[t].at = "save" => \E row \in RowRecords : RowOK(t, row)

ChatInv ==
  /\ PresenceInv /\ TablesOK /\ StoredOK
  /\ InTurn => SeenOK
  /\ alone => NewestOK
  /\ \A t \in Threads : HeldOK(t)

-----------------------------------------------------------------------------
(* Rows. *)

Mark(m, ids) == IF m.id \in ids THEN [m EXCEPT !.isRead = TRUE] ELSE m

LEMMA MarkIs ==
  ASSUME NEW m \in RowRecords, NEW ids
  PROVE  /\ Mark(m, ids) \in RowRecords
         /\ Mark(m, ids).id = m.id /\ Mark(m, ids).room = m.room /\ Mark(m, ids).to = m.to
         /\ Mark(m, ids).isRead <=> m.isRead \/ m.id \in ids
BY DEF Mark, RowRecords

LEMMA MarkReadIs == \A rows, ids : MarkRead(rows, ids) = {Mark(m, ids) : m \in rows}
BY DEF MarkRead, Mark

LEMMA RowIs ==
  ASSUME NEW id \in Nat, NEW r \in Rooms, NEW u \in Users, NEW read \in BOOLEAN
  PROVE  /\ Row(id, r, u, read) \in RowRecords
         /\ Row(id, r, u, read).id = id /\ Row(id, r, u, read).room = r
         /\ Row(id, r, u, read).to = u /\ (Row(id, r, u, read).isRead <=> read)
BY DEF Row, RowRecords

LEMMA MaxIs ==
  ASSUME NEW S, NEW x \in S, x \in Nat, \A y \in S : y \in Nat /\ y <= x
  PROVE  Max(S) = x
<1> DEFINE IsMax(m) == m \in S /\ \A y \in S : m >= y
<1>1. IsMax(x)
  OBVIOUS
<1>2. \A m : IsMax(m) => m = x
  OBVIOUS
<1>3. Max(S) = CHOOSE m : IsMax(m)
  BY DEF Max
<1> HIDE DEF IsMax
<1>4. IsMax(Max(S))
  BY <1>1, <1>3
<1> QED
  BY <1>2, <1>4

\* A room with a lender has somebody else to write to.
LEMMA OtherIs ==
  ASSUME NEW r \in Rooms, NEW u
  PROVE  /\ Other(r, u) # u \/ Lender[r] = None
         /\ Lender[r] # None => Other(r, u) \in Members[r]
         /\ Members[r] = {Borrower[r], Lender[r]} \ {None} /\ Members[r] \subseteq Users
BY PresenceConstants, ChatConstants DEF Other

-----------------------------------------------------------------------------
LEMMA ChatInitInv == ChatInit => ChatInv
<1> SUFFICES ASSUME ChatInit PROVE ChatInv
  OBVIOUS
<1>1. PresenceInv
  BY PresenceInit
<1>2. TablesOK
  BY DEF ChatInit, TablesOK
<1>3. StoredOK /\ SeenOK /\ NewestOK
  BY DEF ChatInit, StoredOK, SeenOK, NewestOK, Stored, Exists
<1>4. ASSUME NEW t \in Threads PROVE HeldOK(t)
  <2>1. call[t].at = "idle" /\ held[t] = {}
    BY DEF ChatInit, Init, Idle
  <2> QED
    BY <2>1 DEF HeldOK
<1> QED
  BY <1>1, <1>2, <1>3, <1>4 DEF ChatInv

\* A step of one thread that commits nothing.
Alongside(t) ==
  /\ \A o \in Calls \ {t} : ~alone
  /\ UNCHANGED environment
  /\ \A o \in Threads \ {t} : call'[o] = call[o]

LEMMA IdsGrow ==
  ASSUME NEW m \in Nat, NEW n \in Nat, n >= m
  PROVE  0 .. m - 1 \subseteq 0 .. n - 1
OBVIOUS

LEMMA ThreadInv ==
  ASSUME ChatInv, PresenceInv', NEW t \in Threads, Alongside(t),
         UNCHANGED <<messages, notes, lastMessage, seen>>,
         nextId' \in Nat, nextId' >= nextId,
         held' \in [Threads -> SUBSET RowRecords],
         \A o \in Threads \ {t} : held'[o] = held[o],
         \A o \in Threads \ {t} : call'[t].at = "save" /\ call[o].at = "save"
           => \A i \in Ids(held'[t]) : i \notin Ids(held[o]),
         HeldOK(t)'
  PROVE  ChatInv'
<1>1. TablesOK'
  BY DEF ChatInv, TablesOK
<1>2. StoredOK'
  <2>1. \A m \in Stored : m.id \in Nat
    BY DEF ChatInv, TablesOK, Stored, RowRecords
  <2>2. seen \subseteq 0 .. nextId' - 1
    <3>1. nextId \in Nat /\ seen \subseteq 0 .. nextId - 1
      BY DEF ChatInv, TablesOK, StoredOK
    <3>2. 0 .. nextId - 1 \subseteq 0 .. nextId' - 1
      BY <3>1, IdsGrow
    <3> QED
      BY <3>1, <3>2
  <2>3. \A m \in Stored : m.id < nextId'
    BY <2>1 DEF ChatInv, TablesOK, StoredOK
  <2>4. /\ \A m \in Stored : /\ Exists(m.room) /\ m.to \in {Borrower[m.room], Lender[m.room]}
                             /\ Lender[m.room] = None => m.to = None
        /\ \A m, n \in Stored : m.id = n.id => m = n
        /\ \A r \in Rooms : Exists(r) => \E m \in messages : m.room = r /\ m.id = lastMessage[r]
    BY DEF ChatInv, StoredOK
  <2>5. Stored' = Stored /\ \A r : Exists(r)' <=> Exists(r)
    BY DEF Stored, Exists
  <2> QED
    BY <2>2, <2>3, <2>4, <2>5 DEF StoredOK
<1>3. (InTurn' => SeenOK') /\ (alone' => NewestOK')
  BY DEF ChatInv, SeenOK, NewestOK, Stored, Alongside
<1>4. ASSUME NEW o \in Threads PROVE HeldOK(o)'
  <2>1. CASE o = t
    BY <2>1
  <2>2. CASE o # t
    <3>1. HeldOK(o) /\ call'[o] = call[o] /\ held'[o] = held[o] /\ UNCHANGED environment
      BY <2>2 DEF ChatInv, Alongside
    <3>2. call[o].at # "idle" => ~alone
      BY <2>2 DEF Calls, At, Alongside
    <3>3. \A m \in held[o] : m.id \in Nat
      BY DEF ChatInv, TablesOK, RowRecords
    <3>4. \A m \in held'[o] : m.id < nextId'
      BY <3>1, <3>3 DEF HeldOK, ChatInv, TablesOK
    <3>5. ASSUME call[o].at = "save" PROVE \E row \in RowRecords : RowOK(o, row)'
      <4>1. PICK row \in RowRecords : RowOK(o, row)
        BY <3>1, <3>5 DEF HeldOK
      <4>2. ~alone
        BY <3>2, <3>5
      <4>3. ASSUME NEW p \in Threads \ {o}, call'[p].at = "save" PROVE row.id \notin Ids(held'[p])
        <5>1. CASE p = t
          BY <2>2, <3>5, <4>1, <4>3, <5>1 DEF RowOK, Ids
        <5>2. CASE p # t
          BY <4>1, <4>3, <5>2 DEF RowOK, Alongside
        <5> QED
          BY <5>1, <5>2
      <4>4. Ids(Stored)' = Ids(Stored)
        BY DEF Ids, Stored
      <4>5. RowOK(o, row)'
        BY <3>1, <4>1, <4>2, <4>3, <4>4 DEF RowOK, Room, User
      <4> QED
        BY <4>5
    <3>6. call[o].at # "idle" /\ call[o].op \in {"enter", "send", "notify"} => Exists(Room(o))'
      BY <3>1 DEF HeldOK, Exists, Room
    <3>7. call[o].at \in {"load", "commit"}
            => \A m \in held[o] : m.to = User(o)' \/ Mistaken(m)'
      BY <3>1 DEF HeldOK, User, Mistaken
    <3> QED
      BY <3>1, <3>2, <3>4, <3>5, <3>6, <3>7 DEF HeldOK
  <2> QED
    BY <2>1, <2>2
<1> QED
  BY <1>1, <1>2, <1>3, <1>4 DEF ChatInv

\* One that changes no row it holds either.
LEMMA LookInv ==
  ASSUME ChatInv, PresenceInv', NEW t \in Threads, Alongside(t), UNCHANGED tables,
         call'[t].at \notin {"load", "commit", "save"},
         call'[t].at # "idle" /\ call'[t].op \in {"enter", "send", "notify"}
           => Exists(call'[t].room),
         InTurn /\ call'[t].at = "insert" => (IsRead(t)' <=> Together(Room(t))')
  PROVE  ChatInv'
<1>1. UNCHANGED <<messages, notes, lastMessage, nextId, held, seen>>
  BY DEF tables
<1>2. nextId \in Nat /\ held \in [Threads -> SUBSET RowRecords] /\ HeldOK(t)
  BY DEF ChatInv, TablesOK
<1>3. HeldOK(t)'
  BY <1>1, <1>2 DEF HeldOK, Room, Exists, Alongside
<1> QED
  BY <1>1, <1>2, <1>3, ThreadInv

\* A call under way is alone or among calls of other users; so is one that starts.
LEMMA UnderWay ==
  ASSUME PresenceInv, NEW t \in Threads, call[t].at # "idle", OnlyCall(t), UNCHANGED environment
  PROVE  Alongside(t)
BY Own DEF Alongside, OnlyCall, At

LEMMA Starts ==
  ASSUME PresenceInv, NEW t \in Threads, NEW u, Free(u), OnlyCall(t), UNCHANGED environment
  PROVE  Alongside(t)
BY DEF Alongside, OnlyCall, Free

\* Steps inside ConnectState keep the call's method and room.
LEMMA InMethodIs ==
  ASSUME PresenceInv, NEW t \in Threads, InMethod(t)
  PROVE  /\ OnlyCall(t) /\ SameCaller(t) /\ call[t].at # "idle" /\ UNCHANGED environment
         /\ call'[t].at \notin {"load", "commit", "save", "insert"}
<1>1. MapsOK
  BY DEF PresenceInv
<1>2. ASSUME NEW label \in {"join", "returned", "compare", "oldRoom", "remove", "failed", "size"},
             Go(t, label)
      PROVE  OnlyCall(t) /\ SameCaller(t) /\ call'[t].at = label
  BY <1>1, <1>2, GoIs DEF Labels, EnterAts, LeaveAts
<1>3. CASE Contains(t)
  BY <1>2, <1>3 DEF Contains, At
<1>4. CASE Compare(t)
  BY <1>2, <1>4 DEF Compare, At
<1>5. CASE OldRoom(t) \/ RoomAgain(t)
  <2>1. PICK label \in {"oldCount", "recount"} : Load(t, label, "key", userRooms[User(t)])
    BY <1>5 DEF OldRoom, RoomAgain
  <2>2. userRooms[User(t)] \in Rooms \cup {None} /\ call[t].at \in {"oldRoom", "roomAgain"}
    BY <1>1, <1>5, Own DEF OldRoom, RoomAgain, At, MapsOK
  <2>3. label \in Labels /\ UNCHANGED environment
    BY <1>5 DEF OldRoom, RoomAgain, Labels, EnterAts
  <2> QED
    BY <1>1, <2>1, <2>2, <2>3, LoadKeyIs
<1>6. CASE OldCount(t)
  <2>1. Load(t, "roomAgain", "n", userCount[call[t].key]) /\ call[t].key # None
    BY <1>6 DEF OldCount
  <2>2. userCount[call[t].key] \in Int \cup {None} /\ call[t].at = "oldCount" /\ UNCHANGED environment
    BY <1>1, <1>6, <2>1 DEF OldCount, At, MapsOK, CallRecords
  <2>3. "roomAgain" \in Labels
    BY DEF Labels, EnterAts
  <2> QED
    BY <1>1, <2>1, <2>2, <2>3, LoadNIs
<1>7. CASE Recount(t)
  BY <1>2, <1>7 DEF Recount, At
<1>8. CASE NullPointer(t)
  BY <1>2, <1>8 DEF NullPointer, At
<1>9. CASE Join(t)
  BY <1>2, <1>9 DEF Join, At
<1>10. CASE Size(t)
  <2>1. Load(t, "grow", "n", CountOf(Room(t))) /\ call[t].at = "size" /\ UNCHANGED environment
    BY <1>10 DEF Size, At
  <2>2. Room(t) \in Rooms
    BY <2>1, Own DEF At, CallOK, LeaveAts, RowAts
  <2>3. CountOf(Room(t)) \in Int \cup {None} /\ "grow" \in Labels
    BY <1>1, <2>2 DEF CountOf, MapsOK, Labels, EnterAts
  <2> QED
    BY <1>1, <2>1, <2>3, LoadNIs
<1>11. CASE Grow(t)
  BY <1>2, <1>11 DEF Grow, At
<1>12. CASE Remove(t)
  BY <1>2, <1>12 DEF Remove, At
<1> QED
  BY <1>3, <1>4, <1>5, <1>6, <1>7, <1>8, <1>9, <1>10, <1>11, <1>12 DEF InMethod

LEMMA MethodInv ==
  ASSUME ChatInv, PresenceInv', NEW t \in Threads, InMethod(t), UNCHANGED tables
  PROVE  ChatInv'
<1>1. /\ OnlyCall(t) /\ SameCaller(t) /\ call[t].at # "idle" /\ UNCHANGED environment
      /\ call'[t].at \notin {"load", "commit", "save", "insert"}
  BY InMethodIs DEF ChatInv
<1>2. HeldOK(t)
  BY DEF ChatInv
<1>3. call'[t].op \in {"enter", "send", "notify"} => Exists(call'[t].room)
  BY <1>1, <1>2 DEF HeldOK, SameCaller, Room
<1>4. Alongside(t)
  BY <1>1, UnderWay DEF ChatInv
<1> QED
  BY <1>1, <1>3, <1>4, LookInv

LEMMA AnsweredInv ==
  ASSUME ChatInv, PresenceInv', NEW t \in Threads, Answer(t) \/ AnswerError(t),
         UNCHANGED tables
  PROVE  ChatInv'
<1>1. call' = [call EXCEPT ![t] = Idle] /\ call[t].at # "idle" /\ UNCHANGED environment
  BY DEF Answer, AnswerError, At
<1>2. OnlyCall(t) /\ call'[t].at = "idle"
  BY <1>1, IdleIs DEF ChatInv, PresenceInv, At
<1>3. Alongside(t)
  BY <1>1, <1>2, UnderWay DEF ChatInv
<1> QED
  BY <1>2, <1>3, LookInv

LEMMA BegunInv ==
  ASSUME ChatInv, PresenceInv', NEW t \in Threads, NEW u, NEW op, NEW r, NEW s,
         Begin(t, op, u, r, s), UNCHANGED tables,
         op \in {"enter", "send", "notify"} => Exists(r)
  PROVE  ChatInv'
<1>1. /\ Free(u) /\ UNCHANGED environment
      /\ call' = [call EXCEPT ![t] = [Idle EXCEPT !.at = "contains", !.op = op, !.user = u,
                                                  !.room = r, !.session = s]]
  BY DEF Begin
<1>2. call'[t].at = "contains" /\ call'[t].op = op /\ call'[t].room = r
  BY <1>1 DEF ChatInv, PresenceInv, MapsOK, Idle
<1>3. OnlyCall(t)
  BY <1>1 DEF ChatInv, PresenceInv, MapsOK, OnlyCall
<1>4. Alongside(t)
  BY <1>1, <1>3, Starts DEF ChatInv
<1> QED
  BY <1>2, <1>4, LookInv

LEMMA SentInv ==
  ASSUME ChatInv, PresenceInv', NEW t \in Threads, NEW u, NEW op, NEW r, Send(t, op, u, r)
  PROVE  ChatInv'
<1>1. /\ Free(u) /\ UNCHANGED environment /\ UNCHANGED tables /\ Exists(r)
      /\ call' = [call EXCEPT ![t] = [Idle EXCEPT !.at = "count", !.op = op, !.user = u,
                                                  !.room = r]]
  BY DEF Send
<1>2. call'[t].at = "count" /\ call'[t].op = op /\ call'[t].room = r
  BY <1>1 DEF ChatInv, PresenceInv, MapsOK, Idle
<1>3. OnlyCall(t)
  BY <1>1 DEF ChatInv, PresenceInv, MapsOK, OnlyCall
<1>4. Alongside(t)
  BY <1>1, <1>3, Starts DEF ChatInv
<1> QED
  BY <1>1, <1>2, <1>4, LookInv

\* In turn, the count that decides isRead is two exactly when both are in the room.
LEMMA CountReadInv ==
  ASSUME ChatInv, PresenceInv', NEW t \in Threads, GetUserCount(t) PROVE ChatInv'
<1>1. /\ call[t].at = "count" /\ ~At(t, "idle") /\ UNCHANGED <<environment, userRooms, userCount>>
      /\ UNCHANGED tables
  BY DEF GetUserCount, At
<1>2. CallOK(t) /\ (InTurn => CountOK(t)) /\ HeldOK(t) /\ MapsOK
  BY <1>1, Own DEF ChatInv, PresenceInv
<1>3. call[t].op \in Rows /\ Room(t) \in Rooms
  BY <1>1, <1>2 DEF CallOK, EnterAts, LeaveAts
<1>4. CASE userCount[Room(t)] = None
  <2>1. OnlyCall(t) /\ SameCaller(t) /\ call'[t].at = "failed"
    BY <1>2, <1>4, GoIs DEF GetUserCount, Labels, EnterAts
  <2>2. Alongside(t)
    BY <1>1, <2>1, UnderWay DEF ChatInv
  <2>3. call'[t].op \in {"enter", "send", "notify"} => Exists(call'[t].room)
    BY <1>1, <1>2, <2>1 DEF HeldOK, SameCaller, Room
  <2> QED
    BY <1>1, <2>1, <2>2, <2>3, LookInv
<1>5. CASE userCount[Room(t)] # None
  <2>1. userCount[Room(t)] \in Int
    BY <1>2, <1>3, <1>5 DEF MapsOK
  <2>2. Load(t, "insert", "n", userCount[Room(t)]) /\ "insert" \in Labels
    BY <1>5 DEF GetUserCount, Labels, RowAts
  <2>3. /\ OnlyCall(t) /\ SameCaller(t) /\ call'[t].at = "insert"
        /\ call'[t].n = userCount[Room(t)]
    BY <1>2, <2>1, <2>2, LoadNIs
  <2>4. Alongside(t)
    BY <1>1, <2>3, UnderWay DEF ChatInv
  <2>5. call'[t].op \in {"enter", "send", "notify"} => Exists(call'[t].room)
    BY <1>1, <1>2, <2>3 DEF HeldOK, SameCaller, Room
  <2>6. ASSUME InTurn PROVE IsRead(t)' <=> Together(Room(t))'
    <3>1. userCount[Room(t)] = Cardinality(In(userRooms, Room(t)))
      BY <1>1, <1>2, <1>3, <1>5, <2>6 DEF CountOK, CountOf, Away
    <3>2. Room(t)' = Room(t) /\ Holds(Room(t))' = Cardinality(In(userRooms, Room(t)))
      BY <1>1, <2>3 DEF SameCaller, Room, Holds, In
    <3> QED
      BY <2>3, <3>1, <3>2 DEF IsRead, Together
  <2> QED
    BY <1>1, <2>3, <2>4, <2>5, <2>6, LookInv
<1> QED
  BY <1>4, <1>5

-----------------------------------------------------------------------------
(* The steps that hold rows. *)

\* What getMessages loads is addressed to its reader.
LEMMA NotesLoadedInv ==
  ASSUME ChatInv, PresenceInv', NEW t \in Threads, LoadNotes(t) PROVE ChatInv'
<1> DEFINE rows == {n \in notes : n.to = User(t) /\ n.room = Room(t) /\ ~n.isRead}
<1>1. /\ held' = [held EXCEPT ![t] = rows] /\ Go(t, "load") /\ call[t].at = "returned"
      /\ UNCHANGED <<environment, messages, notes, lastMessage, nextId, seen>>
  BY DEF LoadNotes, At
<1>2. OnlyCall(t) /\ SameCaller(t) /\ call'[t].at = "load"
  BY <1>1, GoIs DEF ChatInv, PresenceInv, Labels, EnterAts
<1>3. Alongside(t)
  BY <1>1, <1>2, UnderWay DEF ChatInv
<1>4. nextId \in Nat /\ held \in [Threads -> SUBSET RowRecords] /\ HeldOK(t)
  BY DEF ChatInv, TablesOK
<1>5. rows \subseteq RowRecords /\ \A m \in rows : m.to = User(t) /\ m.id < nextId
  BY DEF ChatInv, TablesOK, StoredOK, Stored
<1> HIDE DEF rows
<1>6. /\ held' \in [Threads -> SUBSET RowRecords] /\ held'[t] = rows
      /\ \A o \in Threads \ {t} : held'[o] = held[o]
  BY <1>1, <1>4, <1>5
<1>7. call'[t].op \in {"enter", "send", "notify"} => Exists(Room(t))'
  BY <1>1, <1>2, <1>4 DEF HeldOK, SameCaller, Room, Exists
<1>8. HeldOK(t)'
  BY <1>1, <1>2, <1>5, <1>6, <1>7 DEF HeldOK, SameCaller, User
<1> QED
  BY <1>1, <1>2, <1>3, <1>4, <1>6, <1>8, ThreadInv

LEMMA MessagesLoadedInv ==
  ASSUME ChatInv, PresenceInv', NEW t \in Threads, LoadMessages(t) PROVE ChatInv'
<1> DEFINE rows == ToMark(t, {m \in messages : m.room = Room(t)})
<1>1. /\ held' = [held EXCEPT ![t] = @ \cup rows] /\ Go(t, "commit") /\ call[t].at = "load"
      /\ UNCHANGED <<environment, messages, notes, lastMessage, nextId, seen>>
  BY DEF LoadMessages, At
<1>2. OnlyCall(t) /\ SameCaller(t) /\ call'[t].at = "commit"
  BY <1>1, GoIs DEF ChatInv, PresenceInv, Labels, EnterAts
<1>3. Alongside(t)
  BY <1>1, <1>2, UnderWay DEF ChatInv
<1>4. nextId \in Nat /\ held \in [Threads -> SUBSET RowRecords] /\ HeldOK(t)
  BY DEF ChatInv, TablesOK
<1>5. rows \subseteq RowRecords /\ \A m \in rows : (m.to = User(t) \/ Mistaken(m)) /\ m.id < nextId
  <2>1. /\ Room(t) \in Rooms /\ User(t) \in Users
        /\ atHome => User(t) \in Members[Room(t)]
    BY <1>1, Own DEF ChatInv, At, CallOK, LeaveAts, RowAts
  <2>2. Side(Room(t), User(t)) = User(t) \/ (~atHome /\ Side(Room(t), User(t)) = Borrower[Room(t)])
    BY <2>1, OtherIs DEF Side
  <2>3. \A m \in rows : m \in messages /\ m.room = Room(t) /\ m.to = Side(Room(t), User(t))
    BY DEF ToMark
  <2>4. \A m \in rows : m.to = User(t) \/ Mistaken(m)
    BY <2>2, <2>3 DEF Mistaken
  <2> QED
    BY <2>3, <2>4 DEF ChatInv, TablesOK, StoredOK, Stored
<1> HIDE DEF rows
<1>6. /\ held' \in [Threads -> SUBSET RowRecords] /\ held'[t] = held[t] \cup rows
      /\ \A o \in Threads \ {t} : held'[o] = held[o]
  BY <1>1, <1>4, <1>5
<1>7. call'[t].op \in {"enter", "send", "notify"} => Exists(Room(t))'
  BY <1>1, <1>2, <1>4 DEF HeldOK, SameCaller, Room, Exists
<1>8. \A m \in held[t] : (m.to = User(t) \/ Mistaken(m)) /\ m.id < nextId
  BY <1>1, <1>4 DEF HeldOK
<1>9. \A m : Mistaken(m)' <=> Mistaken(m)
  BY <1>1 DEF Mistaken
<1>10. HeldOK(t)'
  BY <1>1, <1>2, <1>5, <1>6, <1>7, <1>8, <1>9 DEF HeldOK, SameCaller, User
<1> QED
  BY <1>1, <1>2, <1>3, <1>4, <1>6, <1>10, ThreadInv

\* The identity column gives each row an id above all the others.
LEMMA InsertedInv ==
  ASSUME ChatInv, PresenceInv', NEW t \in Threads, Insert(t) PROVE ChatInv'
<1> DEFINE read == IsRead(t)
           new == Row(nextId, Room(t), Other(Room(t), User(t)), read)
<1>1. /\ held' = [held EXCEPT ![t] = {new}] /\ Go(t, "save") /\ call[t].at = "insert"
      /\ nextId' = nextId + 1 /\ Lender[Room(t)] # None
      /\ UNCHANGED <<environment, userRooms, messages, notes, lastMessage, seen>>
  BY DEF Insert, At
<1>2. OnlyCall(t) /\ SameCaller(t) /\ call'[t].at = "save"
  BY <1>1, GoIs DEF ChatInv, PresenceInv, Labels, RowAts
<1>3. Alongside(t)
  BY <1>1, <1>2, UnderWay DEF ChatInv
<1>4. nextId \in Nat /\ held \in [Threads -> SUBSET RowRecords] /\ HeldOK(t)
  BY DEF ChatInv, TablesOK
<1>5. Room(t) \in Rooms
  <2>1. CallOK(t)
    BY <1>1, Own DEF ChatInv, At
  <2> QED
    BY <1>1, <2>1 DEF CallOK, EnterAts, LeaveAts
<1>6. read \in BOOLEAN /\ (InTurn => (read <=> Together(Room(t))))
  BY <1>1, <1>4 DEF IsRead, HeldOK
<1> HIDE DEF read
<1>7. PICK row \in RowRecords :
        /\ row = new /\ row.id = nextId /\ row.room = Room(t)
        /\ row.to = Other(Room(t), User(t)) /\ row.to \in Members[Room(t)]
        /\ (row.isRead <=> read)
  <2>1. Other(Room(t), User(t)) \in Members[Room(t)] /\ Members[Room(t)] \subseteq Users
    BY <1>1, <1>5, OtherIs
  <2> QED
    BY <1>4, <1>5, <1>6, <2>1, RowIs
<1> HIDE DEF new
<1>8. /\ held' \in [Threads -> SUBSET RowRecords] /\ held'[t] = {row}
      /\ \A o \in Threads \ {t} : held'[o] = held[o]
  BY <1>1, <1>4, <1>7
<1>9. \A o \in Threads \ {t} : nextId \notin Ids(held[o])
  <2>1. \A o \in Threads : \A m \in held[o] : m.id < nextId
    BY DEF ChatInv, HeldOK
  <2> QED
    BY <1>4, <2>1 DEF Ids
<1>10. nextId \notin Ids(Stored) /\ nextId \notin seen
  BY <1>4 DEF ChatInv, StoredOK, Ids
<1>11. RowOK(t, row)'
  <2>1. /\ Room(t)' = Room(t) /\ User(t)' = User(t) /\ Ids(Stored)' = Ids(Stored)
        /\ Together(Room(t))' = Together(Room(t))
    BY <1>1, <1>2 DEF SameCaller, Room, User, Ids, Stored, Together, Holds
  <2>2. \A o \in Threads \ {t} : row.id \notin Ids(held'[o])
    BY <1>7, <1>8, <1>9
  <2>3. \A m \in messages : m.id < nextId
    BY DEF ChatInv, StoredOK, Stored
  <2>4. InTurn => (row.isRead <=> Together(Room(t)))
    BY <1>6, <1>7
  <2>5. /\ alone' => \A m \in messages' : m.room = Room(t)' => m.id < row.id
        /\ InTurn' => (row.isRead <=> Together(Room(t))') /\ row.id \notin seen'
    <3>1. UNCHANGED <<environment, seen, messages>>
      BY <1>1
    <3> QED
      BY <1>7, <1>10, <2>1, <2>3, <2>4, <3>1
  <2>6. /\ held'[t] = {row} /\ row.room = Room(t)' /\ row.to \in Members[Room(t)']
        /\ row.to = Other(Room(t)', User(t)') /\ Lender[Room(t)'] # None
    BY <1>1, <1>7, <1>8, <2>1
  <2>7. row.id \notin Ids(Stored)'
    BY <1>7, <1>10, <2>1
  <2> QED
    BY <2>2, <2>5, <2>6, <2>7 DEF RowOK
<1>12. HeldOK(t)'
  <2>1. Exists(Room(t))' \/ call'[t].op \notin {"enter", "send", "notify"}
    BY <1>1, <1>2, <1>4 DEF HeldOK, SameCaller, Room, Exists
  <2>2. \A m \in held'[t] : m.id < nextId'
    BY <1>1, <1>4, <1>7, <1>8
  <2>3. \E x \in RowRecords : RowOK(t, x)'
    BY <1>7, <1>11
  <2> QED
    BY <1>2, <2>1, <2>2, <2>3 DEF HeldOK
<1>13. \A o \in Threads \ {t} : \A i \in Ids(held'[t]) : i \notin Ids(held[o])
  BY <1>7, <1>8, <1>9 DEF Ids
<1>14. nextId' \in Nat /\ nextId' >= nextId
  BY <1>1, <1>4
<1>15. UNCHANGED <<messages, notes, lastMessage, seen>>
  BY <1>1
<1> QED
  BY <1>3, <1>8, <1>12, <1>13, <1>14, <1>15, ThreadInv

-----------------------------------------------------------------------------
(* The commits. *)

LEMMA RoomIs ==
  ASSUME PresenceInv, NEW t \in Threads, call[t].at # "idle",
         call[t].op \in {"enter", "send", "notify"}
  PROVE  Room(t) \in Rooms
BY Own DEF CallOK, Leaves, Rows, At

LEMMA CommitInv ==
  ASSUME ChatInv, PresenceInv', NEW t \in Threads, call[t].at # "idle",
         call' = [call EXCEPT ![t] = Idle], held' = [held EXCEPT ![t] = {}],
         UNCHANGED <<environment, nextId>>,
         messages' \in SUBSET RowRecords, notes' \in SUBSET RowRecords,
         lastMessage' \in [Rooms -> Nat \cup {None}],
         StoredOK', InTurn => SeenOK', alone => NewestOK',
         \A r \in Rooms : Exists(r) => Exists(r)',
         \A m \in messages : \E n \in messages' : n.id = m.id /\ n.room = m.room /\ n.to = m.to,
         \A i \in Ids(Stored)' : i \in Ids(Stored) \/ (call[t].at = "save" /\ i \in Ids(held[t]))
  PROVE  ChatInv'
<1>1. /\ OnlyCall(t) /\ call'[t].at = "idle"
  BY IdleIs DEF ChatInv, PresenceInv, At
<1>2. Alongside(t)
  BY <1>1, UnderWay DEF ChatInv
<1>3. /\ held' \in [Threads -> SUBSET RowRecords] /\ held'[t] = {}
      /\ \A o \in Threads \ {t} : held'[o] = held[o]
  BY DEF ChatInv, TablesOK
<1>4. TablesOK'
  BY <1>3 DEF ChatInv, TablesOK
<1>5. ASSUME NEW o \in Threads PROVE HeldOK(o)'
  <2>1. CASE o = t
    BY <1>1, <1>3, <2>1 DEF HeldOK
  <2>2. CASE o # t
    <3>1. HeldOK(o) /\ call'[o] = call[o] /\ held'[o] = held[o]
      BY <1>2, <1>3, <2>2 DEF ChatInv, Alongside
    <3>2. call[o].at # "idle" => ~alone
      BY <1>2, <2>2 DEF Calls, At, Alongside
    <3>3. ASSUME call[o].at = "save" PROVE \E row \in RowRecords : RowOK(o, row)'
      <4>1. PICK row \in RowRecords : RowOK(o, row)
        BY <3>1, <3>3 DEF HeldOK
      <4>2. row.id \notin Ids(Stored)'
        BY <2>2, <4>1 DEF RowOK
      <4>3. ASSUME NEW p \in Threads \ {o}, call'[p].at = "save" PROVE row.id \notin Ids(held'[p])
        BY <1>1, <1>2, <1>3, <4>1, <4>3 DEF RowOK, Alongside
      <4>4. RowOK(o, row)'
        BY <3>1, <3>2, <3>3, <4>1, <4>2, <4>3 DEF RowOK, Room, User
      <4> QED
        BY <4>4
    <3>4. call[o].at # "idle" /\ call[o].op \in {"enter", "send", "notify"} => Exists(Room(o))'
      BY <3>1, RoomIs DEF ChatInv, HeldOK, Room
    <3>5. \A m : Mistaken(m) => Mistaken(m)'
      BY DEF Mistaken
    <3>6. call[o].at \in {"load", "commit"}
            => \A m \in held[o] : m.to = User(o)' \/ Mistaken(m)'
      BY <3>1, <3>5 DEF HeldOK, User
    <3> QED
      BY <3>1, <3>2, <3>3, <3>4, <3>6 DEF HeldOK
  <2> QED
    BY <2>1, <2>2
<1> QED
  BY <1>4, <1>5 DEF ChatInv

\* In turn, what getMessages marks read is what it has given its reader.
LEMMA ReadCommittedInv ==
  ASSUME ChatInv, PresenceInv', NEW t \in Threads, CommitRead(t) PROVE ChatInv'
<1>1. /\ call[t].at = "commit"
      /\ call' = [call EXCEPT ![t] = Idle] /\ held' = [held EXCEPT ![t] = {}]
      /\ UNCHANGED <<environment, nextId, lastMessage>>
  BY DEF CommitRead, At
<1>2. PICK ids : ids = Ids(held[t])
  OBVIOUS
<1>3. /\ messages' = {Mark(m, ids) : m \in messages} /\ notes' = {Mark(m, ids) : m \in notes}
  BY <1>2, MarkReadIs DEF CommitRead
<1>4. /\ seen' \subseteq seen \cup ids /\ \A i \in ids : i \in 0 .. nextId - 1
      /\ atHome => seen' = seen \cup ids
  <2>1. /\ \A m \in held[t] : (m.to = User(t) \/ Mistaken(m)) /\ m.id < nextId
        /\ held[t] \subseteq RowRecords /\ nextId \in Nat
    BY <1>1 DEF ChatInv, HeldOK, TablesOK
  <2>2. atHome => {m \in held[t] : m.to = User(t)} = held[t]
    BY <2>1 DEF Mistaken
  <2>3. seen' = seen \cup Ids({m \in held[t] : m.to = User(t)})
    BY DEF CommitRead
  <2>4. \A m \in held[t] : m.id \in 0 .. nextId - 1
    BY <2>1 DEF RowRecords
  <2> QED
    BY <1>2, <2>2, <2>3, <2>4 DEF Ids
<1>5. messages \subseteq RowRecords /\ notes \subseteq RowRecords /\ StoredOK
  BY DEF ChatInv, TablesOK
<1>6. messages' \in SUBSET RowRecords /\ notes' \in SUBSET RowRecords
  BY <1>3, <1>5, MarkIs
<1>7. /\ \A n \in Stored' : \E m \in Stored : n = Mark(m, ids)
      /\ \A m \in messages : Mark(m, ids) \in messages'
      /\ \A n \in messages' : \E m \in messages : n = Mark(m, ids)
      /\ Stored \subseteq RowRecords
  BY <1>3, <1>5 DEF Stored
<1>8. \A r : Exists(r)' <=> Exists(r)
  BY <1>1 DEF Exists
<1>9. StoredOK'
  <2>1. ASSUME NEW n \in Stored'
        PROVE  /\ n.id < nextId /\ Exists(n.room) /\ n.to \in {Borrower[n.room], Lender[n.room]}
               /\ Lender[n.room] = None => n.to = None
    <3>1. PICK m \in Stored : n = Mark(m, ids)
      BY <1>7
    <3> QED
      BY <1>5, <1>7, <3>1, MarkIs DEF StoredOK
  <2>2. ASSUME NEW n \in Stored', NEW p \in Stored', n.id = p.id PROVE n = p
    <3>1. PICK m \in Stored : n = Mark(m, ids)
      BY <1>7
    <3>2. PICK q \in Stored : p = Mark(q, ids)
      BY <1>7
    <3>3. m.id = q.id
      BY <1>7, <2>2, <3>1, <3>2, MarkIs
    <3>4. m = q
      BY <1>5, <3>3 DEF StoredOK
    <3> QED
      BY <3>1, <3>2, <3>4
  <2>3. ASSUME NEW r \in Rooms, Exists(r)
        PROVE  \E n \in messages' : n.room = r /\ n.id = lastMessage[r]
    <3>1. PICK m \in messages : m.room = r /\ m.id = lastMessage[r]
      BY <1>5, <2>3 DEF StoredOK
    <3>2. m \in RowRecords /\ Mark(m, ids) \in messages'
      BY <1>5, <1>7
    <3>3. Mark(m, ids).room = r /\ Mark(m, ids).id = lastMessage[r]
      BY <3>1, <3>2, MarkIs
    <3> QED
      BY <3>2, <3>3
  <2>4. seen' \subseteq 0 .. nextId - 1
    BY <1>4, <1>5 DEF StoredOK
  <2> QED
    BY <1>1, <1>8, <2>1, <2>2, <2>3, <2>4 DEF StoredOK
<1>10. ASSUME InTurn PROVE SeenOK'
  <2>1. SeenOK
    BY <1>10 DEF ChatInv
  <2>2. ASSUME NEW n \in Stored' PROVE n.isRead <=> n.id \in seen'
    <3>1. PICK m \in Stored : n = Mark(m, ids)
      BY <1>7
    <3>2. m \in RowRecords /\ (m.isRead <=> m.id \in seen)
      BY <1>7, <2>1 DEF SeenOK
    <3>3. n.id = m.id /\ (n.isRead <=> m.isRead \/ m.id \in ids)
      BY <3>1, <3>2, MarkIs
    <3> QED
      BY <1>4, <1>10, <3>2, <3>3
  <2> QED
    BY <2>2 DEF SeenOK
<1>11. ASSUME alone PROVE NewestOK'
  <2>1. NewestOK
    BY <1>11 DEF ChatInv
  <2>2. ASSUME NEW n \in messages' PROVE n.id <= lastMessage[n.room]
    <3>1. PICK m \in messages : n = Mark(m, ids)
      BY <1>7
    <3>2. n.id = m.id /\ n.room = m.room
      BY <1>5, <3>1, MarkIs
    <3> QED
      BY <2>1, <3>2 DEF NewestOK
  <2> QED
    BY <1>1, <2>2 DEF NewestOK
<1>12. \A i \in Ids(Stored)' : i \in Ids(Stored)
  <2>1. ASSUME NEW n \in Stored' PROVE n.id \in Ids(Stored)
    <3>1. PICK m \in Stored : n = Mark(m, ids)
      BY <1>7
    <3> QED
      BY <1>7, <3>1, MarkIs DEF Ids
  <2> QED
    BY <2>1 DEF Ids
<1>13. lastMessage' \in [Rooms -> Nat \cup {None}]
  BY <1>1 DEF ChatInv, TablesOK
<1>14. \A m \in messages : \E n \in messages' : n.id = m.id /\ n.room = m.room /\ n.to = m.to
  <2>1. ASSUME NEW m \in messages
        PROVE  \E n \in messages' : n.id = m.id /\ n.room = m.room /\ n.to = m.to
    <3>1. Mark(m, ids) \in messages' /\ m \in RowRecords
      BY <1>5, <1>7
    <3> QED
      BY <3>1, MarkIs
  <2> QED
    BY <2>1
<1> QED
  BY <1>1, <1>6, <1>8, <1>9, <1>10, <1>11, <1>12, <1>13, <1>14, CommitInv

\* Two are counted in a room exactly when its other member is there too.
LEMMA TogetherIs ==
  ASSUME InsideOK, atHome, NEW r \in Rooms, Lender[r] # None,
         NEW u \in Users, NEW v \in Members[r], v # u, userRooms[u] = r
  PROVE  Together(r) <=> userRooms[v] = r
<1>1. IsFiniteSet(Members[r]) /\ Cardinality(Members[r]) <= 2 /\ v \in Users
  BY PresenceConstants
<1>2. In(userRooms, r) \subseteq Members[r] /\ u \in Members[r]
  BY DEF InsideOK, In
<1>3. /\ Cardinality(In(userRooms, r)) \in 0 .. 2
      /\ Cardinality(Out(userRooms, r, u)) \in Nat
      /\ Cardinality(In(userRooms, r)) = Cardinality(Out(userRooms, r, u)) + 1
  BY HoldsIs DEF InsideOK
<1>4. ASSUME userRooms[v] = r PROVE Together(r)
  <2>1. IsFiniteSet(Out(userRooms, r, u)) /\ Out(userRooms, r, u) # {}
    <3>1. Out(userRooms, r, u) \subseteq Members[r]
      BY <1>2 DEF Out, In
    <3>2. v \in Out(userRooms, r, u)
      BY <1>1, <1>4 DEF Out
    <3> QED
      BY <1>1, <3>1, <3>2, FS_Subset
  <2>2. Cardinality(Out(userRooms, r, u)) # 0
    BY <2>1, FS_EmptySet
  <2> QED
    BY <1>3, <2>2, HoldsDef DEF Together
<1>5. ASSUME Together(r) PROVE userRooms[v] = r
  <2>1. Cardinality(In(userRooms, r)) = 2
    BY <1>5, HoldsDef DEF Together
  <2>2. Cardinality(Members[r]) = 2
    <3>1. Cardinality(In(userRooms, r)) <= Cardinality(Members[r]) /\ Cardinality(Members[r]) \in Nat
      BY <1>1, <1>2, FS_Subset, FS_CardinalityType
    <3> QED
      BY <1>1, <2>1, <3>1
  <2>3. In(userRooms, r) = Members[r]
    BY <1>1, <1>2, <2>1, <2>2, FS_Subset
  <2> QED
    BY <2>3 DEF In
<1> QED
  BY <1>4, <1>5

\* In turn, a row about to be stored is read exactly when its addressee has the room open.
LEMMA SentIs ==
  ASSUME ChatInv, InTurn, NEW t \in Threads, call[t].at = "save",
         NEW row \in RowRecords, RowOK(t, row)
  PROVE  /\ row.to # User(t) /\ row.to \in Users /\ place[User(t)] = row.room
         /\ userRooms[row.to] = place[row.to]
         /\ row.isRead <=> userRooms[row.to] = row.room
<1>1. /\ held[t] = {row} /\ row.room = Room(t) /\ row.to \in Members[Room(t)]
      /\ Lender[Room(t)] # None /\ row.to = Other(Room(t), User(t))
      /\ row.isRead <=> Together(Room(t))
  BY DEF RowOK
<1>2. row.room \in Rooms
  BY DEF RowRecords
<1>3. row.to # User(t) /\ row.to \in Users
  BY <1>1, <1>2, OtherIs
<1>4. /\ t \in Calls /\ User(t) \in Users /\ \A o \in Calls \ {t} : ~alone
      /\ CallOK(t) /\ PlaceOK(t) /\ InsideOK /\ UserStaysPut
  BY Own DEF ChatInv, PresenceInv, At
<1>5. call[t].op \in Rows
  BY <1>4 DEF CallOK, EnterAts, LeaveAts
<1>6. userRooms[User(t)] = Room(t) /\ place[User(t)] = Room(t)
  BY <1>4, <1>5 DEF PlaceOK, Moved
<1>7. userRooms[row.to] = place[row.to]
  BY <1>3, <1>4 DEF UserStaysPut
<1>8. Together(Room(t)) <=> userRooms[row.to] = Room(t)
  BY <1>1, <1>2, <1>3, <1>4, <1>6, TogetherIs
<1> QED
  BY <1>1, <1>3, <1>6, <1>7, <1>8

\* A row that is stored, by sendMessage or createNotification.
LEMMA SavedInv ==
  ASSUME ChatInv, PresenceInv', NEW t \in Threads, CommitMessage(t) \/ CommitNote(t)
  PROVE  ChatInv'
<1>1. /\ call[t].at = "save" /\ call[t].op \in {"send", "notify"}
      /\ call' = [call EXCEPT ![t] = Idle] /\ held' = [held EXCEPT ![t] = {}]
      /\ UNCHANGED <<environment, nextId>>
  BY DEF CommitMessage, CommitNote, At
<1>2. PICK row \in RowRecords : RowOK(t, row)
  BY <1>1 DEF ChatInv, HeldOK
<1>3. held[t] = {row} /\ row.room = Room(t) /\ Ids(held[t]) = {row.id}
  BY <1>2 DEF RowOK, Ids
<1>4. /\ seen' \subseteq seen \cup {row.id} /\ seen \subseteq seen'
      /\ row.to \in Users => (row.id \in seen' <=> row.id \in seen \/ userRooms[row.to] = row.room)
  <2>1. seen' = seen \cup Ids(Watched({row}))
    BY <1>3 DEF CommitMessage, CommitNote
  <2>2. \A i : i \in Ids(Watched({row}))
               <=> i = row.id /\ \E u \in Users : row.to = u /\ userRooms[u] = row.room
    BY DEF Ids, Watched
  <2> QED
    BY <2>1, <2>2
<1>5. /\ TablesOK /\ StoredOK /\ nextId \in Nat /\ Room(t) \in Rooms /\ Exists(Room(t))
      /\ row.id \in 0 .. nextId - 1
  <2>1. CallOK(t)
    BY <1>1, Own DEF ChatInv, At
  <2>2. Room(t) \in Rooms
    BY <1>1, <2>1 DEF CallOK, EnterAts, LeaveAts
  <2>3. Exists(Room(t)) /\ row.id < nextId
    BY <1>1, <1>3 DEF ChatInv, HeldOK
  <2>4. row.id \in Nat /\ nextId \in Nat
    BY DEF RowRecords, ChatInv, TablesOK
  <2> QED
    BY <2>2, <2>3, <2>4 DEF ChatInv
<1>6. /\ Stored' = Stored \cup {row}
      /\ \/ messages' = messages \cup {row}
            /\ lastMessage' = [lastMessage EXCEPT ![Room(t)] = row.id]
         \/ UNCHANGED <<messages, lastMessage>>
      /\ messages' \in SUBSET RowRecords /\ notes' \in SUBSET RowRecords
  <2>1. messages \subseteq RowRecords /\ notes \subseteq RowRecords
    BY <1>5 DEF TablesOK
  <2>2. CASE CommitMessage(t)
    <3>1. Max(Ids(held[t])) = row.id
      BY <1>3, <1>5, MaxIs
    <3> QED
      BY <1>3, <2>1, <2>2, <3>1 DEF CommitMessage, Stored
  <2>3. CASE CommitNote(t)
    BY <1>3, <2>1, <2>3 DEF CommitNote, Stored
  <2> QED
    BY <2>2, <2>3
<1>7. /\ lastMessage' \in [Rooms -> Nat \cup {None}]
      /\ \A r \in Rooms : r # Room(t) => lastMessage'[r] = lastMessage[r]
      /\ None \notin Nat
  <2>1. lastMessage \in [Rooms -> Nat \cup {None}] /\ row.id \in Nat /\ None \notin Nat
    BY <1>5, PresenceConstants DEF TablesOK
  <2> QED
    BY <1>5, <1>6, <2>1
<1>8. \A r \in Rooms : Exists(r) => Exists(r)'
  <2>1. lastMessage \in [Rooms -> Nat \cup {None}] /\ row.id \in Nat
    BY <1>5 DEF TablesOK
  <2> QED
    BY <1>5, <1>6, <1>7, <2>1 DEF Exists
<1>9. StoredOK'
  <2>1. ASSUME NEW m \in Stored'
        PROVE  /\ m.id < nextId /\ Exists(m.room)' /\ m.to \in {Borrower[m.room], Lender[m.room]}
               /\ Lender[m.room] = None => m.to = None
    <3>1. CASE m = row
      <4>1. row.to \in Members[Room(t)] /\ Lender[Room(t)] # None
        BY <1>2 DEF RowOK
      <4>2. row.to \in {Borrower[Room(t)], Lender[Room(t)]}
        BY <1>5, <4>1, OtherIs
      <4> QED
        BY <1>3, <1>5, <1>8, <3>1, <4>1, <4>2
    <3>2. CASE m \in Stored
      <4>1. m.room \in Rooms
        BY <1>5, <3>2 DEF TablesOK, Stored, RowRecords
      <4>2. /\ m.id < nextId /\ Exists(m.room) /\ m.to \in {Borrower[m.room], Lender[m.room]}
            /\ Lender[m.room] = None => m.to = None
        BY <1>5, <3>2 DEF StoredOK
      <4> QED
        BY <1>8, <4>1, <4>2
    <3> QED
      BY <1>6, <3>1, <3>2
  <2>2. ASSUME NEW m \in Stored', NEW n \in Stored', m.id = n.id PROVE m = n
    <3>1. \A x \in Stored : x.id # row.id
      BY <1>2 DEF RowOK, Ids
    <3>2. (m = row \/ m \in Stored) /\ (n = row \/ n \in Stored)
      BY <1>6
    <3> QED
      BY <1>5, <2>2, <3>1, <3>2 DEF StoredOK
  <2>3. ASSUME NEW r \in Rooms, Exists(r)'
        PROVE  \E m \in messages' : m.room = r /\ m.id = lastMessage'[r]
    <3>1. CASE UNCHANGED <<messages, lastMessage>>
      BY <1>5, <2>3, <3>1 DEF StoredOK, Exists
    <3>2. CASE messages' = messages \cup {row}
               /\ lastMessage' = [lastMessage EXCEPT ![Room(t)] = row.id]
      <4>1. CASE r = Room(t)
        BY <1>3, <1>5, <3>2, <4>1 DEF TablesOK
      <4>2. CASE r # Room(t)
        <5>1. lastMessage'[r] = lastMessage[r] /\ Exists(r)
          BY <1>7, <2>3, <4>2 DEF Exists
        <5> QED
          BY <1>5, <3>2, <5>1 DEF StoredOK
      <4> QED
        BY <4>1, <4>2
    <3> QED
      BY <1>6, <3>1, <3>2
  <2>4. seen' \subseteq 0 .. nextId - 1
    BY <1>4, <1>5 DEF StoredOK
  <2> QED
    BY <1>1, <2>1, <2>2, <2>3, <2>4 DEF StoredOK
<1>10. ASSUME InTurn PROVE SeenOK'
  <2>1. /\ SeenOK /\ row.id \notin seen /\ row.to \in Users
        /\ row.isRead <=> userRooms[row.to] = row.room
    BY <1>1, <1>2, <1>10, SentIs DEF ChatInv, RowOK
  <2>2. ASSUME NEW m \in Stored' PROVE m.isRead <=> m.id \in seen'
    <3>1. CASE m = row
      BY <1>4, <2>1, <3>1
    <3>2. CASE m \in Stored
      <4>1. m.id # row.id /\ (m.isRead <=> m.id \in seen)
        BY <1>2, <2>1, <3>2 DEF RowOK, Ids, SeenOK
      <4> QED
        BY <1>4, <4>1
    <3> QED
      BY <1>6, <3>1, <3>2
  <2> QED
    BY <2>2 DEF SeenOK
<1>11. ASSUME alone PROVE NewestOK'
  <2>1. NewestOK /\ \A m \in messages : m.room = Room(t) => m.id < row.id
    BY <1>2, <1>11 DEF ChatInv, RowOK
  <2>2. ASSUME NEW m \in messages' PROVE m.id <= lastMessage'[m.room]
    <3>1. CASE UNCHANGED <<messages, lastMessage>>
      BY <2>1, <3>1 DEF NewestOK
    <3>2. CASE messages' = messages \cup {row}
               /\ lastMessage' = [lastMessage EXCEPT ![Room(t)] = row.id]
      <4>1. m \in RowRecords /\ lastMessage'[Room(t)] = row.id
        BY <1>5, <1>6, <3>2 DEF TablesOK
      <4>2. CASE m.room = Room(t)
        <5>1. m = row \/ m.id < row.id
          BY <2>1, <3>2, <4>2
        <5> QED
          BY <1>5, <4>1, <4>2, <5>1 DEF RowRecords
      <4>3. CASE m.room # Room(t)
        <5>1. m \in messages /\ lastMessage'[m.room] = lastMessage[m.room]
          BY <1>3, <1>7, <3>2, <4>1, <4>3 DEF RowRecords
        <5> QED
          BY <2>1, <5>1 DEF NewestOK
      <4> QED
        BY <4>2, <4>3
    <3> QED
      BY <1>6, <3>1, <3>2
  <2> QED
    BY <2>2 DEF NewestOK
<1>12. \A i \in Ids(Stored)' : i \in Ids(Stored) \/ i \in Ids(held[t])
  BY <1>3, <1>6 DEF Ids
<1>13. \A m \in messages : \E n \in messages' : n.id = m.id /\ n.room = m.room /\ n.to = m.to
  BY <1>6
<1> QED
  BY <1>1, <1>6, <1>7, <1>8, <1>9, <1>10, <1>11, <1>12, <1>13, CommitInv

\* A request that fails for want of a lender leaves the tables as they were.
LEMMA NullRowsInv ==
  ASSUME ChatInv, PresenceInv', NEW t \in Threads, NullLender(t) PROVE ChatInv'
<1>1. /\ call[t].at # "idle"
      /\ call' = [call EXCEPT ![t] = Idle] /\ held' = [held EXCEPT ![t] = {}]
      /\ UNCHANGED <<environment, messages, notes, lastMessage, nextId, seen>>
  BY DEF NullLender
<1>2. /\ messages' \in SUBSET RowRecords /\ notes' \in SUBSET RowRecords
      /\ lastMessage' \in [Rooms -> Nat \cup {None}]
  BY <1>1 DEF ChatInv, TablesOK
<1>3. StoredOK' /\ (InTurn => SeenOK') /\ (alone => NewestOK') /\ Ids(Stored)' = Ids(Stored)
      /\ \A r \in Rooms : Exists(r) => Exists(r)'
  BY <1>1 DEF ChatInv, StoredOK, SeenOK, NewestOK, Stored, Exists, Ids
<1> QED
  BY <1>1, <1>2, <1>3, CommitInv

\* A room is created with rows of its own.
LEMMA CreateInv == ASSUME ChatInv, PresenceInv', NEW r \in Rooms, CreateChatRoom(r) PROVE ChatInv'
<1>1. /\ ~Exists(r) /\ nextId' = nextId + 2
      /\ lastMessage' = [lastMessage EXCEPT ![r] = nextId]
      /\ UNCHANGED <<environment, userRooms, call, held, seen>>
  BY DEF CreateChatRoom
<1>2. TablesOK /\ StoredOK /\ nextId \in Nat /\ None \notin Nat
  BY PresenceConstants DEF ChatInv, TablesOK
<1>3. PICK a \in RowRecords, b \in RowRecords :
        /\ messages' = messages \cup {a} /\ notes' = notes \cup {b}
        /\ a.id = nextId /\ b.id = nextId + 1 /\ a.room = r /\ b.room = r
        /\ a.to = Lender[r] /\ b.to = Lender[r] /\ ~a.isRead /\ ~b.isRead
  <2>1. Lender[r] \in Users \cup {None}
    BY ChatConstants
  <2>2. FALSE \in BOOLEAN /\ nextId + 1 \in Nat
    BY <1>2
  <2> DEFINE x == Row(nextId, r, Lender[r], FALSE)
             y == Row(nextId + 1, r, Lender[r], FALSE)
  <2>3. x \in RowRecords /\ x.id = nextId /\ x.room = r /\ x.to = Lender[r] /\ ~x.isRead
    BY <1>2, <2>1, <2>2 DEF Row, RowRecords
  <2>4. y \in RowRecords /\ y.id = nextId + 1 /\ y.room = r /\ y.to = Lender[r] /\ ~y.isRead
    BY <2>1, <2>2 DEF Row, RowRecords
  <2>5. messages' = messages \cup {x} /\ notes' = notes \cup {y}
    BY DEF CreateChatRoom
  <2> HIDE DEF x, y
  <2> QED
    BY <2>3, <2>4, <2>5
<1>4. /\ lastMessage' \in [Rooms -> Nat \cup {None}] /\ lastMessage'[r] = nextId
      /\ \A q \in Rooms \ {r} : lastMessage'[q] = lastMessage[q]
  BY <1>1, <1>2 DEF TablesOK
<1>5. TablesOK'
  BY <1>1, <1>2, <1>3, <1>4 DEF TablesOK
<1>6. Stored' = Stored \cup {a, b} /\ Stored \subseteq RowRecords
  BY <1>2, <1>3 DEF Stored, TablesOK
<1>7. \A q \in Rooms : Exists(q)' <=> q = r \/ Exists(q)
  BY <1>2, <1>4 DEF Exists
<1>8. \A m \in Stored : m.id < nextId /\ m.room # r /\ m.room \in Rooms /\ m.id \in Nat
  BY <1>1, <1>2, <1>6 DEF StoredOK, RowRecords
<1>9. StoredOK'
  <2>1. ASSUME NEW m \in Stored'
        PROVE  /\ m.id < nextId' /\ Exists(m.room)' /\ m.to \in {Borrower[m.room], Lender[m.room]}
               /\ Lender[m.room] = None => m.to = None
    <3>1. CASE m \in {a, b}
      <4>1. m.room = r /\ m.to = Lender[r] /\ (m.id = nextId \/ m.id = nextId + 1)
        BY <1>3, <3>1
      <4> QED
        BY <1>1, <1>2, <1>7, <4>1
    <3>2. CASE m \in Stored
      BY <1>1, <1>2, <1>7, <1>8, <3>2 DEF StoredOK
    <3> QED
      BY <1>6, <3>1, <3>2
  <2>2. ASSUME NEW m \in Stored', NEW n \in Stored', m.id = n.id PROVE m = n
    <3>1. (m \in Stored \/ m = a \/ m = b) /\ (n \in Stored \/ n = a \/ n = b)
      BY <1>6
    <3>2. \A x \in Stored : x.id # nextId /\ x.id # nextId + 1
      BY <1>2, <1>8
    <3>3. nextId # nextId + 1
      BY <1>2
    <3> QED
      BY <1>2, <1>3, <2>2, <3>1, <3>2, <3>3 DEF StoredOK
  <2>3. ASSUME NEW q \in Rooms, Exists(q)'
        PROVE  \E m \in messages' : m.room = q /\ m.id = lastMessage'[q]
    <3>1. CASE q = r
      BY <1>3, <1>4, <3>1
    <3>2. CASE q # r
      BY <1>2, <1>3, <1>4, <1>7, <2>3, <3>2 DEF StoredOK
    <3> QED
      BY <3>1, <3>2
  <2>4. seen' \subseteq 0 .. nextId' - 1
    <3>1. seen \subseteq 0 .. nextId - 1
      BY <1>2 DEF StoredOK
    <3>2. 0 .. nextId - 1 \subseteq 0 .. nextId' - 1
      BY <1>1, <1>2
    <3> QED
      BY <1>1, <3>1, <3>2
  <2> QED
    BY <2>1, <2>2, <2>3, <2>4 DEF StoredOK
<1>10. nextId \notin seen /\ nextId + 1 \notin seen
  BY <1>2 DEF StoredOK
<1>11. ASSUME SeenOK PROVE SeenOK'
  <2>1. ASSUME NEW m \in Stored' PROVE m.isRead <=> m.id \in seen
    <3>1. CASE m = a \/ m = b
      BY <1>3, <1>10, <3>1
    <3>2. CASE m \in Stored
      BY <1>11, <3>2 DEF SeenOK
    <3> QED
      BY <1>6, <3>1, <3>2
  <2> QED
    BY <1>1, <2>1 DEF SeenOK
<1>12. ASSUME NewestOK PROVE NewestOK'
  <2>1. ASSUME NEW m \in messages' PROVE m.id <= lastMessage'[m.room]
    <3>1. CASE m = a
      BY <1>2, <1>3, <1>4, <3>1
    <3>2. CASE m \in messages
      <4>1. m.room \in Rooms \ {r}
        BY <1>8, <3>2 DEF Stored
      <4> QED
        BY <1>4, <1>12, <3>2, <4>1 DEF NewestOK
    <3> QED
      BY <1>3, <3>1, <3>2
  <2> QED
    BY <2>1 DEF NewestOK
<1>13. ASSUME NEW t \in Threads PROVE HeldOK(t)'
  <2>1. HeldOK(t) /\ \A m \in held[t] : m.id \in Nat
    BY <1>2 DEF ChatInv, TablesOK, RowRecords
  <2>2. call[t].at # "idle" /\ call[t].op \in {"enter", "send", "notify"}
          => Room(t) \in Rooms /\ Exists(Room(t))
    BY <2>1, RoomIs DEF ChatInv, HeldOK
  <2>3. ASSUME call[t].at = "save" PROVE \E row \in RowRecords : RowOK(t, row)'
    <3>1. PICK row \in RowRecords : RowOK(t, row)
      BY <2>1, <2>3 DEF HeldOK
    <3>2. row.id < nextId /\ row.id \in Nat
      BY <2>1, <3>1 DEF RowOK, HeldOK
    <3>3. Exists(Room(t))
      <4>1. CallOK(t)
        BY <2>3, Own DEF ChatInv, At
      <4>2. call[t].op \in {"send", "notify"}
        BY <2>3, <4>1 DEF CallOK, EnterAts, LeaveAts, Rows
      <4> QED
        BY <2>2, <2>3, <4>2
    <3>4. row.id \notin Ids(Stored)'
      BY <1>2, <1>3, <1>6, <3>1, <3>2 DEF RowOK, Ids
    <3>5. \A m \in messages' : m.room = Room(t) => m \in messages
      BY <1>1, <1>3, <3>3
    <3>6. /\ Together(Room(t))' = Together(Room(t)) /\ Room(t)' = Room(t) /\ User(t)' = User(t)
      BY <1>1 DEF Together, Holds, Room, User
    <3>7. RowOK(t, row)'
      BY <1>1, <3>1, <3>4, <3>5, <3>6 DEF RowOK
    <3> QED
      BY <3>7
  <2>4. \A m \in held[t] : m.id < nextId'
    BY <1>1, <1>2, <2>1 DEF HeldOK
  <2>5. /\ Room(t)' = Room(t) /\ User(t)' = User(t) /\ IsRead(t)' = IsRead(t)
        /\ Together(Room(t))' = Together(Room(t))
    BY <1>1 DEF Room, User, IsRead, Together, Holds
  <2>6. call[t].at # "idle" /\ call[t].op \in {"enter", "send", "notify"} => Exists(Room(t))'
    BY <1>7, <2>2, <2>5 DEF Exists
  <2>7. \A m : Mistaken(m) => Mistaken(m)'
    BY <1>1, <1>3 DEF Mistaken
  <2> QED
    BY <1>1, <2>1, <2>3, <2>4, <2>5, <2>6, <2>7 DEF HeldOK
<1> QED
  BY <1>1, <1>5, <1>9, <1>11, <1>12, <1>13 DEF ChatInv

\* Sessions come and go without a row.
LEMMA SameRowsInv ==
  ASSUME ChatInv, PresenceInv', UNCHANGED <<environment, userRooms, call>>, UNCHANGED tables
  PROVE  ChatInv'
<1>1. UNCHANGED <<messages, notes, lastMessage, nextId, held, seen>>
  BY DEF tables
<1>2. TablesOK' /\ StoredOK' /\ (InTurn => SeenOK') /\ (alone => NewestOK')
  BY <1>1 DEF ChatInv, TablesOK, StoredOK, SeenOK, NewestOK, Stored, Exists
<1>3. ASSUME NEW t \in Threads PROVE HeldOK(t)'
  <2>1. HeldOK(t)
    BY DEF ChatInv
  <2>2. /\ Room(t)' = Room(t) /\ User(t)' = User(t) /\ (IsRead(t)' <=> IsRead(t))
        /\ (Together(Room(t))' <=> Together(Room(t))) /\ (Exists(Room(t))' <=> Exists(Room(t)))
        /\ Stored' = Stored /\ \A m : Mistaken(m)' <=> Mistaken(m)
    BY <1>1 DEF Room, User, IsRead, Together, Holds, Exists, Stored, Mistaken
  <2>3. \A row : RowOK(t, row) => RowOK(t, row)'
    BY <1>1, <2>2 DEF RowOK, Ids
  <2> QED
    BY <1>1, <2>1, <2>2, <2>3 DEF HeldOK
<1> QED
  BY <1>2, <1>3 DEF ChatInv

-----------------------------------------------------------------------------
LEMMA ChatStep == ChatInv /\ [ChatNext]_chatVars => ChatInv'
<1> SUFFICES ASSUME ChatInv, [ChatNext]_chatVars PROVE ChatInv'
  OBVIOUS
<1>1. PresenceInv'
  BY PresenceStep DEF ChatInv
<1>2. ASSUME NEW r \in Rooms, CreateChatRoom(r) PROVE ChatInv'
  BY <1>1, <1>2, CreateInv
<1>3. ASSUME NEW s \in Sessions, NEW u \in Users, AddUserSession(s, u), UNCHANGED tables
      PROVE  ChatInv'
  BY <1>1, <1>3, SameRowsInv DEF AddUserSession
<1>4. ASSUME NEW t \in Threads, NEW u \in Users, NEW r \in Rooms, GetMessages(t, u, r)
      PROVE  ChatInv'
  BY <1>1, <1>4, BegunInv DEF GetMessages, AddUserRoom
<1>5. ASSUME NEW t \in Threads, NEW u \in Users, NEW r \in Rooms, NEW op \in {"send", "notify"},
             Send(t, op, u, r)
      PROVE  ChatInv'
  BY <1>1, <1>5, SentInv
<1>6. ASSUME NEW t \in Threads, NEW u \in Users, DeleteUserRoom(t, u), UNCHANGED tables
      PROVE  ChatInv'
  BY <1>1, <1>6, BegunInv DEF DeleteUserRoom
<1>7. ASSUME NEW t \in Threads, NEW s \in Sessions, Disconnect(t, s), UNCHANGED tables
      PROVE  ChatInv'
  BY <1>1, <1>7, BegunInv DEF Disconnect
<1>8. ASSUME NEW t \in Threads, InMethod(t), UNCHANGED tables PROVE ChatInv'
  BY <1>1, <1>8, MethodInv
<1>9. ASSUME NEW t \in Threads, Answer(t) \/ AnswerError(t), UNCHANGED tables PROVE ChatInv'
  BY <1>1, <1>9, AnsweredInv
<1>10. ASSUME NEW t \in Threads,
              \/ LoadNotes(t) \/ LoadMessages(t) \/ CommitRead(t)
              \/ GetUserCount(t) \/ Insert(t) \/ CommitMessage(t) \/ CommitNote(t)
              \/ NullLender(t)
       PROVE  ChatInv'
  BY <1>1, <1>10, NotesLoadedInv, MessagesLoadedInv, ReadCommittedInv, CountReadInv, InsertedInv,
     SavedInv, NullRowsInv
<1>11. CASE UNCHANGED chatVars
  BY <1>1, <1>11, SameRowsInv DEF chatVars, presenceVars
<1> QED
  BY <1>2, <1>3, <1>4, <1>5, <1>6, <1>7, <1>8, <1>9, <1>10, <1>11 DEF ChatNext

LEMMA ChatHolds == ChatSpec => []ChatInv
BY ChatInitInv, ChatStep, PTL DEF ChatSpec

-----------------------------------------------------------------------------
(* In turn, who has a room open has been given all of it. *)

PlacedOK == \A u \in Users : place[u] # None => Exists(place[u])
GivenOK == \A m \in Stored, u \in Users : m.to = u /\ place[u] = m.room => m.isRead
ToGive(t, rows) == {m \in rows : m.to = User(t) /\ m.room = Room(t) /\ ~m.isRead}

\* What a request has in hand is all it will have to give when it commits.
TurnOK(t) ==
  /\ call[t].at = "load" => held[t] = ToGive(t, notes)
  /\ call[t].at = "commit" => held[t] = ToGive(t, Stored)

TurnInv ==
  /\ ChatInv /\ PlacedOK
  /\ InTurn => GivenOK /\ \A t \in Threads : TurnOK(t)

LEMMA TurnInit == ChatInit => TurnInv
BY ChatInitInv DEF ChatInit, Init, TurnInv, PlacedOK, GivenOK, TurnOK, Stored, Idle

\* In turn, a row about to be stored is what its author writes from the room it has open.
LEMMA SavedIs ==
  ASSUME TurnInv, InTurn, NEW t \in Threads, call[t].at = "save"
  PROVE  \E row \in RowRecords :
           /\ RowOK(t, row) /\ row.to # User(t) /\ place[User(t)] = row.room
           /\ row.isRead <=> place[row.to] = row.room
<1>1. PICK row \in RowRecords : RowOK(t, row)
  BY DEF TurnInv, ChatInv, HeldOK
<1> QED
  BY <1>1, SentIs DEF TurnInv

LEMMA TurnThread ==
  ASSUME TurnInv, ChatInv', NEW t \in Threads, Alongside(t), PlacedOK',
         InTurn => GivenOK' /\ TurnOK(t)'
  PROVE  TurnInv'
<1>1. ASSUME NEW o \in Threads \ {t}, InTurn PROVE TurnOK(o)'
  <2>1. call[o].at = "idle" /\ call'[o] = call[o]
    BY <1>1 DEF Alongside, Calls, At
  <2> QED
    BY <2>1 DEF TurnOK
<1> QED
  BY <1>1 DEF TurnInv, Alongside

\* A step that stores nothing and after which everybody is where it was.
Still == UNCHANGED <<environment, messages, notes, lastMessage, place>>

LEMMA StillOK == ASSUME TurnInv, Still PROVE PlacedOK' /\ (InTurn => GivenOK')
<1>1. Stored' = Stored
  BY DEF Still, Stored
<1> QED
  BY <1>1 DEF TurnInv, Still, PlacedOK, GivenOK, Exists

LEMMA StillTurn ==
  ASSUME TurnInv, ChatInv', Still, NEW t \in Threads, Alongside(t),
         call'[t].at \notin {"load", "commit", "save"}
  PROVE  TurnInv'
BY StillOK, TurnThread DEF TurnOK

LEMMA BegunTurn ==
  ASSUME TurnInv, ChatInv', NEW t \in Threads, NEW u, NEW op, NEW r, NEW s,
         Begin(t, op, u, r, s), UNCHANGED tables
  PROVE  TurnInv'
<1>1. /\ Free(u) /\ Still
      /\ call' = [call EXCEPT ![t] = [Idle EXCEPT !.at = "contains", !.op = op, !.user = u,
                                                  !.room = r, !.session = s]]
  BY DEF Begin, Still, tables
<1>2. call'[t].at = "contains"
  BY <1>1 DEF TurnInv, ChatInv, PresenceInv, MapsOK, Idle
<1>3. OnlyCall(t)
  BY <1>1 DEF TurnInv, ChatInv, PresenceInv, MapsOK, OnlyCall
<1>4. Alongside(t)
  BY <1>1, <1>3, Starts DEF TurnInv, ChatInv, Still
<1> QED
  BY <1>1, <1>2, <1>4, StillTurn

LEMMA SentTurn ==
  ASSUME TurnInv, ChatInv', NEW t \in Threads, NEW u, NEW op, NEW r, Send(t, op, u, r)
  PROVE  TurnInv'
<1>1. /\ Free(u) /\ Still
      /\ call' = [call EXCEPT ![t] = [Idle EXCEPT !.at = "count", !.op = op, !.user = u,
                                                  !.room = r]]
  BY DEF Send, Still, tables
<1>2. call'[t].at = "count"
  BY <1>1 DEF TurnInv, ChatInv, PresenceInv, MapsOK, Idle
<1>3. OnlyCall(t)
  BY <1>1 DEF TurnInv, ChatInv, PresenceInv, MapsOK, OnlyCall
<1>4. Alongside(t)
  BY <1>1, <1>3, Starts DEF TurnInv, ChatInv, Still
<1> QED
  BY <1>1, <1>2, <1>4, StillTurn

LEMMA MethodTurn ==
  ASSUME TurnInv, ChatInv', NEW t \in Threads, InMethod(t), UNCHANGED tables
  PROVE  TurnInv'
<1>1. /\ OnlyCall(t) /\ call[t].at # "idle" /\ UNCHANGED environment
      /\ call'[t].at \notin {"load", "commit", "save", "insert"}
  BY InMethodIs DEF TurnInv, ChatInv
<1>2. Alongside(t)
  BY <1>1, UnderWay DEF TurnInv, ChatInv
<1>3. Still
  BY DEF Still, tables, InMethod, Contains, Compare, OldRoom, OldCount, RoomAgain, Recount,
         NullPointer, Join, Size, Grow, Remove
<1> QED
  BY <1>1, <1>2, <1>3, StillTurn

LEMMA CountTurn ==
  ASSUME TurnInv, ChatInv', NEW t \in Threads, GetUserCount(t) PROVE TurnInv'
<1>1. /\ call[t].at = "count" /\ ~At(t, "idle") /\ Still /\ UNCHANGED environment
  BY DEF GetUserCount, At, Still, tables
<1>2. CallOK(t) /\ MapsOK
  BY <1>1, Own DEF TurnInv, ChatInv, PresenceInv
<1>3. Room(t) \in Rooms
  BY <1>1, <1>2 DEF CallOK, EnterAts, LeaveAts
<1>4. OnlyCall(t) /\ call'[t].at \in {"failed", "insert"}
  <2>1. CASE userCount[Room(t)] = None
    BY <1>2, <2>1, GoIs DEF GetUserCount, Labels, EnterAts
  <2>2. CASE userCount[Room(t)] # None
    <3>1. userCount[Room(t)] \in Int
      BY <1>2, <1>3, <2>2 DEF MapsOK
    <3>2. Load(t, "insert", "n", userCount[Room(t)]) /\ "insert" \in Labels
      BY <2>2 DEF GetUserCount, Labels, RowAts
    <3> QED
      BY <1>2, <3>1, <3>2, LoadNIs
  <2> QED
    BY <2>1, <2>2
<1>5. Alongside(t)
  BY <1>1, <1>4, UnderWay DEF TurnInv, ChatInv
<1> QED
  BY <1>1, <1>4, <1>5, StillTurn

LEMMA FailedTurn ==
  ASSUME TurnInv, ChatInv', NEW t \in Threads, AnswerError(t), UNCHANGED tables
  PROVE  TurnInv'
<1>1. call' = [call EXCEPT ![t] = Idle] /\ call[t].at # "idle" /\ Still /\ UNCHANGED environment
  BY DEF AnswerError, At, Still, tables
<1>2. OnlyCall(t) /\ call'[t].at = "idle"
  BY <1>1, IdleIs DEF TurnInv, ChatInv, PresenceInv, At
<1>3. Alongside(t)
  BY <1>1, <1>2, UnderWay DEF TurnInv, ChatInv
<1> QED
  BY <1>1, <1>2, <1>3, StillTurn

\* Who leaves has no room open.
LEMMA LeftTurn ==
  ASSUME TurnInv, ChatInv', NEW t \in Threads, ~Entering(t), Answer(t), UNCHANGED tables
  PROVE  TurnInv'
<1>1. /\ call' = [call EXCEPT ![t] = Idle] /\ call[t].at = "returned" /\ UNCHANGED environment
      /\ place' = [place EXCEPT ![User(t)] = Room(t)]
      /\ UNCHANGED <<messages, notes, lastMessage>>
  BY DEF Answer, At, tables
<1>2. OnlyCall(t) /\ call'[t].at = "idle"
  BY <1>1, IdleIs DEF TurnInv, ChatInv, PresenceInv, At
<1>3. Alongside(t)
  BY <1>1, <1>2, UnderWay DEF TurnInv, ChatInv
<1>4. Room(t) = None
  <2>1. CallOK(t)
    BY <1>1, Own DEF TurnInv, ChatInv, At
  <2> QED
    BY <1>1, <2>1 DEF CallOK, RowAts
<1>5. \A u \in Users : place'[u] = place[u] \/ place'[u] = None
  BY <1>1, <1>4 DEF TurnInv, ChatInv, PresenceInv, MapsOK
<1>6. PlacedOK'
  BY <1>1, <1>5 DEF TurnInv, PlacedOK, Exists
<1>7. ASSUME InTurn PROVE GivenOK'
  <2>1. Stored' = Stored /\ \A m \in Stored : m.room # None
    BY <1>1, PresenceConstants DEF Stored, TurnInv, ChatInv, TablesOK, RowRecords
  <2> QED
    BY <1>5, <1>7, <2>1 DEF TurnInv, GivenOK
<1> QED
  BY <1>2, <1>3, <1>6, <1>7, TurnThread DEF TurnOK

-----------------------------------------------------------------------------
LEMMA NotesTurn ==
  ASSUME TurnInv, ChatInv', NEW t \in Threads, LoadNotes(t) PROVE TurnInv'
<1>1. /\ Go(t, "load") /\ call[t].at = "returned" /\ Still /\ UNCHANGED environment
      /\ held' = [held EXCEPT ![t] = ToGive(t, notes)]
  BY DEF LoadNotes, At, Still, ToGive
<1>2. OnlyCall(t) /\ SameCaller(t) /\ call'[t].at = "load"
  BY <1>1, GoIs DEF TurnInv, ChatInv, PresenceInv, Labels, EnterAts
<1>3. Alongside(t)
  BY <1>1, <1>2, UnderWay DEF TurnInv, ChatInv
<1>4. held'[t] = ToGive(t, notes) /\ ToGive(t, notes)' = ToGive(t, notes)
  BY <1>1, <1>2 DEF TurnInv, ChatInv, TablesOK, ToGive, SameCaller, User, Room, Still
<1> QED
  BY <1>1, <1>2, <1>3, <1>4, StillOK, TurnThread DEF TurnOK

LEMMA MessagesTurn ==
  ASSUME TurnInv, ChatInv', NEW t \in Threads, LoadMessages(t) PROVE TurnInv'
<1>1. /\ Go(t, "commit") /\ call[t].at = "load" /\ Still /\ UNCHANGED environment
      /\ held' = [held EXCEPT ![t] = @ \cup ToMark(t, {m \in messages : m.room = Room(t)})]
  BY DEF LoadMessages, At, Still
<1>2. OnlyCall(t) /\ SameCaller(t) /\ call'[t].at = "commit"
  BY <1>1, GoIs DEF TurnInv, ChatInv, PresenceInv, Labels, EnterAts
<1>3. Alongside(t)
  BY <1>1, <1>2, UnderWay DEF TurnInv, ChatInv
<1>4. ASSUME InTurn PROVE held'[t] = ToGive(t, Stored)
  <2>1. held[t] = ToGive(t, notes)
    BY <1>1, <1>4 DEF TurnInv, TurnOK
  <2>2. Side(Room(t), User(t)) = User(t)
    <3>1. Room(t) \in Rooms /\ User(t) \in Members[Room(t)]
      BY <1>1, <1>4, Own DEF TurnInv, ChatInv, At, CallOK, LeaveAts, RowAts
    <3> QED
      BY <3>1, OtherIs DEF Side
  <2>3. ToMark(t, {m \in messages : m.room = Room(t)}) = ToGive(t, messages)
    BY <2>2 DEF ToMark, ToGive
  <2>4. held'[t] = held[t] \cup ToGive(t, messages)
    BY <1>1, <2>3 DEF TurnInv, ChatInv, TablesOK
  <2> QED
    BY <2>1, <2>4 DEF ToGive, Stored
<1>5. ToGive(t, Stored)' = ToGive(t, Stored)
  BY <1>1, <1>2 DEF ToGive, SameCaller, User, Room, Still, Stored
<1> QED
  BY <1>1, <1>2, <1>3, <1>4, <1>5, StillOK, TurnThread DEF TurnOK

LEMMA InsertTurn ==
  ASSUME TurnInv, ChatInv', NEW t \in Threads, Insert(t) PROVE TurnInv'
<1>1. Go(t, "save") /\ call[t].at = "insert" /\ Still /\ UNCHANGED environment
  BY DEF Insert, At, Still
<1>2. OnlyCall(t) /\ SameCaller(t) /\ call'[t].at = "save"
  BY <1>1, GoIs DEF TurnInv, ChatInv, PresenceInv, Labels, RowAts
<1>3. Alongside(t)
  BY <1>1, <1>2, UnderWay DEF TurnInv, ChatInv
<1> QED
  BY <1>1, <1>2, <1>3, StillOK, TurnThread DEF TurnOK

\* In turn, what a reader is given is every row of the room addressed to it.
LEMMA GivenIs ==
  ASSUME TurnInv, InTurn, NEW t \in Threads, call[t].at = "commit", NEW m \in Stored
  PROVE  (m.isRead \/ m.id \in Ids(held[t]))
           <=> (m.isRead \/ (m.to = User(t) /\ m.room = Room(t)))
<1>1. held[t] = ToGive(t, Stored)
  BY DEF TurnInv, TurnOK
<1>2. \A n \in Stored : n.id = m.id => n = m
  BY DEF TurnInv, ChatInv, StoredOK
<1>3. m.id \in Ids(held[t]) <=> m \in held[t]
  BY <1>1, <1>2 DEF Ids, ToGive
<1> QED
  BY <1>1, <1>3 DEF ToGive

LEMMA ReadTurn ==
  ASSUME TurnInv, ChatInv', NEW t \in Threads, CommitRead(t) PROVE TurnInv'
<1>1. /\ call[t].at = "commit" /\ call' = [call EXCEPT ![t] = Idle]
      /\ place' = [place EXCEPT ![User(t)] = Room(t)]
      /\ UNCHANGED <<environment, lastMessage>>
      /\ messages' = {Mark(m, Ids(held[t])) : m \in messages}
      /\ notes' = {Mark(m, Ids(held[t])) : m \in notes}
  BY MarkReadIs DEF CommitRead, At
<1>2. OnlyCall(t) /\ call'[t].at = "idle"
  BY <1>1, IdleIs DEF TurnInv, ChatInv, PresenceInv, At
<1>3. Alongside(t)
  BY <1>1, <1>2, UnderWay DEF TurnInv, ChatInv
<1>4. Room(t) \in Rooms /\ Exists(Room(t)) /\ User(t) \in Users
  <2>1. CallOK(t) /\ HeldOK(t)
    BY <1>1, Own DEF TurnInv, ChatInv, At
  <2>2. Entering(t) /\ Room(t) \in Rooms /\ User(t) \in Users
    BY <1>1, <2>1 DEF CallOK, LeaveAts, RowAts
  <2> QED
    BY <1>1, <2>1, <2>2 DEF HeldOK, Entering
<1>5. \A u \in Users : place'[u] = IF u = User(t) THEN Room(t) ELSE place[u]
  BY <1>1 DEF TurnInv, ChatInv, PresenceInv, MapsOK
<1>6. PlacedOK'
  BY <1>1, <1>4, <1>5 DEF TurnInv, PlacedOK, Exists
<1>7. ASSUME InTurn PROVE GivenOK'
  <2> SUFFICES ASSUME NEW n \in Stored', NEW u \in Users, n.to = u, place'[u] = n.room
               PROVE  n.isRead
    BY DEF GivenOK
  <2>1. PICK m \in Stored : n = Mark(m, Ids(held[t]))
    BY <1>1 DEF Stored
  <2>2. m \in RowRecords
    BY DEF TurnInv, ChatInv, TablesOK, Stored
  <2>3. n.room = m.room /\ n.to = m.to /\ (n.isRead <=> m.isRead \/ m.id \in Ids(held[t]))
    BY <2>1, <2>2, MarkIs
  <2>4. m.to \in Users
    BY <2>3
  <2>5. CASE m.to = User(t)
    BY <1>1, <1>5, <1>7, <2>3, <2>4, <2>5, GivenIs
  <2>6. CASE m.to # User(t)
    BY <1>5, <1>7, <2>3, <2>4, <2>6 DEF TurnInv, GivenOK
  <2> QED
    BY <2>5, <2>6
<1> QED
  BY <1>2, <1>3, <1>6, <1>7, TurnThread DEF TurnOK

\* Who opens a room without a lender finds nothing there addressed to a user.
LEMMA NullTurn ==
  ASSUME TurnInv, ChatInv', NEW t \in Threads, NullLender(t) PROVE TurnInv'
<1>1. /\ call[t].at \in {"load", "insert"} /\ call' = [call EXCEPT ![t] = Idle]
      /\ place' = IF Entering(t) THEN [place EXCEPT ![User(t)] = Room(t)] ELSE place
      /\ Lender[Room(t)] = None /\ UNCHANGED <<environment, messages, notes, lastMessage>>
  BY DEF NullLender
<1>2. OnlyCall(t) /\ call'[t].at = "idle"
  BY <1>1, IdleIs DEF TurnInv, ChatInv, PresenceInv, At
<1>3. Alongside(t)
  BY <1>1, <1>2, UnderWay DEF TurnInv, ChatInv
<1>4. Entering(t) => Exists(Room(t))
  BY <1>1 DEF TurnInv, ChatInv, HeldOK, Entering
<1>5. \A u \in Users : place'[u] = place[u] \/ (Entering(t) /\ place'[u] = Room(t))
  BY <1>1 DEF TurnInv, ChatInv, PresenceInv, MapsOK
<1>6. PlacedOK'
  BY <1>1, <1>4, <1>5 DEF TurnInv, PlacedOK, Exists
<1>7. ASSUME InTurn PROVE GivenOK'
  <2>1. Stored' = Stored /\ None \notin Users
    BY <1>1, PresenceConstants DEF Stored
  <2>2. \A m \in Stored : m.room = Room(t) => m.to = None
    BY <1>1 DEF TurnInv, ChatInv, StoredOK
  <2> QED
    BY <1>5, <1>7, <2>1, <2>2 DEF TurnInv, GivenOK
<1> QED
  BY <1>2, <1>3, <1>6, <1>7, TurnThread DEF TurnOK

\* What a stored row changes.
LEMMA SavedRows ==
  ASSUME ChatInv, NEW t \in Threads, NEW row \in RowRecords, RowOK(t, row)
  PROVE  /\ CommitMessage(t) =>
              /\ messages' = messages \cup {row} /\ notes' = notes
              /\ lastMessage' = [lastMessage EXCEPT ![row.room] = row.id]
         /\ CommitNote(t) => notes' = notes \cup {row} /\ UNCHANGED <<messages, lastMessage>>
<1>1. held[t] = {row} /\ row.room = Room(t) /\ Ids(held[t]) = {row.id} /\ row.id \in Nat
  BY DEF RowOK, Ids, RowRecords
<1>2. Max({row.id}) = row.id
  BY <1>1, MaxIs
<1> QED
  BY <1>1, <1>2 DEF CommitMessage, CommitNote

LEMMA SavedTurn ==
  ASSUME TurnInv, ChatInv', NEW t \in Threads, CommitMessage(t) \/ CommitNote(t)
  PROVE  TurnInv'
<1>1. /\ call[t].at = "save" /\ call' = [call EXCEPT ![t] = Idle] /\ UNCHANGED <<environment, place>>
  BY DEF CommitMessage, CommitNote, At
<1>2. OnlyCall(t) /\ call'[t].at = "idle"
  BY <1>1, IdleIs DEF TurnInv, ChatInv, PresenceInv, At
<1>3. Alongside(t)
  BY <1>1, <1>2, UnderWay DEF TurnInv, ChatInv
<1>4. PICK row \in RowRecords :
        RowOK(t, row) /\ (InTurn => (row.isRead <=> place[row.to] = row.room))
  <2>1. PICK row \in RowRecords : RowOK(t, row)
    BY <1>1 DEF TurnInv, ChatInv, HeldOK
  <2>2. CASE InTurn
    BY <1>1, <2>2, SavedIs
  <2> QED
    BY <2>1, <2>2
<1>5. /\ Stored' = Stored \cup {row}
      /\ \A r \in Rooms : Exists(r) => Exists(r)'
  <2>1. row.id \in Nat /\ None \notin Nat /\ lastMessage \in [Rooms -> Nat \cup {None}]
    BY PresenceConstants DEF RowRecords, TurnInv, ChatInv, TablesOK
  <2> QED
    BY <1>4, <2>1, SavedRows DEF TurnInv, Stored, Exists
<1>6. PlacedOK'
  <2>1. \A u \in Users : place[u] # None => place[u] \in Rooms
    BY DEF TurnInv, ChatInv, PresenceInv, MapsOK
  <2> QED
    BY <1>1, <1>5, <2>1 DEF TurnInv, PlacedOK
<1>7. ASSUME InTurn PROVE GivenOK'
  BY <1>1, <1>4, <1>5, <1>7 DEF TurnInv, GivenOK
<1> QED
  BY <1>2, <1>3, <1>6, <1>7, TurnThread DEF TurnOK

\* Nobody has a room open that did not exist.
LEMMA CreateTurn ==
  ASSUME TurnInv, ChatInv', NEW r \in Rooms, CreateChatRoom(r) PROVE TurnInv'
<1>1. /\ ~Exists(r) /\ UNCHANGED <<environment, place, call, held>>
      /\ lastMessage' = [lastMessage EXCEPT ![r] = nextId]
      /\ messages' = messages \cup {Row(nextId, r, Lender[r], FALSE)}
      /\ notes' = notes \cup {Row(nextId + 1, r, Lender[r], FALSE)}
  BY DEF CreateChatRoom
<1>2. \A u \in Users : place[u] # r
  <2>1. r # None
    BY PresenceConstants
  <2> QED
    BY <1>1, <2>1 DEF TurnInv, PlacedOK
<1>3. PlacedOK'
  <2>1. \A u \in Users : place[u] # None => lastMessage'[place[u]] = lastMessage[place[u]]
    BY <1>1, <1>2 DEF TurnInv, ChatInv, TablesOK, PresenceInv, MapsOK
  <2> QED
    BY <1>1, <2>1 DEF TurnInv, PlacedOK, Exists
<1>4. \A m \in Stored' : m \in Stored \/ m.room = r
  BY <1>1 DEF Stored, Row
<1>5. InTurn => GivenOK'
  BY <1>1, <1>2, <1>4 DEF TurnInv, GivenOK
<1>6. ASSUME InTurn, NEW t \in Threads PROVE TurnOK(t)'
  <2>1. TurnOK(t) /\ HeldOK(t) /\ Room(t)' = Room(t) /\ User(t)' = User(t)
    BY <1>1, <1>6 DEF TurnInv, ChatInv, Room, User
  <2>2. ASSUME call[t].at \in {"load", "commit"}
        PROVE  /\ ToGive(t, notes)' = ToGive(t, notes)
               /\ ToGive(t, Stored)' = ToGive(t, Stored)
    <3>1. CallOK(t)
      BY <2>2, Own DEF TurnInv, ChatInv, At
    <3>2. Room(t) # r
      BY <1>1, <2>1, <2>2, <3>1 DEF CallOK, LeaveAts, RowAts, Entering, HeldOK
    <3>3. PICK a, b : /\ messages' = messages \cup {a} /\ notes' = notes \cup {b}
                      /\ a.room = r /\ b.room = r
      <4>1. \A id : Row(id, r, Lender[r], FALSE).room = r
        BY DEF Row
      <4> QED
        BY <1>1, <4>1
    <3> QED
      BY <2>1, <3>2, <3>3 DEF ToGive, Stored
  <2> QED
    BY <1>1, <2>1, <2>2 DEF TurnOK
<1> QED
  BY <1>1, <1>3, <1>5, <1>6 DEF TurnInv

LEMMA TurnStep == TurnInv /\ [ChatNext]_chatVars => TurnInv'
<1> SUFFICES ASSUME TurnInv, [ChatNext]_chatVars PROVE TurnInv'
  OBVIOUS
<1>1. ChatInv'
  BY ChatStep DEF TurnInv
<1>2. ASSUME NEW r \in Rooms, CreateChatRoom(r) PROVE TurnInv'
  BY <1>1, <1>2, CreateTurn
<1>3. ASSUME UNCHANGED <<environment, call, place>>, UNCHANGED tables PROVE TurnInv'
  <2>1. Still /\ UNCHANGED held /\ Stored' = Stored
    BY <1>3 DEF Still, tables, Stored
  <2>2. \A t \in Threads : TurnOK(t) => TurnOK(t)'
    BY <1>3, <2>1 DEF TurnOK, ToGive, User, Room, Still
  <2> QED
    BY <1>1, <1>3, <2>1, <2>2, StillOK DEF TurnInv
<1>4. ASSUME NEW t \in Threads, NEW u \in Users, NEW r \in Rooms, GetMessages(t, u, r)
      PROVE  TurnInv'
  BY <1>1, <1>4, BegunTurn DEF GetMessages, AddUserRoom
<1>5. ASSUME NEW t \in Threads, NEW u \in Users, NEW r \in Rooms, NEW op \in {"send", "notify"},
             Send(t, op, u, r)
      PROVE  TurnInv'
  BY <1>1, <1>5, SentTurn
<1>6. ASSUME NEW t \in Threads, NEW u \in Users, DeleteUserRoom(t, u), UNCHANGED tables
      PROVE  TurnInv'
  BY <1>1, <1>6, BegunTurn DEF DeleteUserRoom
<1>7. ASSUME NEW t \in Threads, NEW s \in Sessions, Disconnect(t, s), UNCHANGED tables
      PROVE  TurnInv'
  BY <1>1, <1>7, BegunTurn DEF Disconnect
<1>8. ASSUME NEW t \in Threads, InMethod(t), UNCHANGED tables PROVE TurnInv'
  BY <1>1, <1>8, MethodTurn
<1>9. ASSUME NEW t \in Threads, ~Entering(t), Answer(t), UNCHANGED tables PROVE TurnInv'
  BY <1>1, <1>9, LeftTurn
<1>10. ASSUME NEW t \in Threads, AnswerError(t), UNCHANGED tables PROVE TurnInv'
  BY <1>1, <1>10, FailedTurn
<1>11. ASSUME NEW t \in Threads, LoadNotes(t) \/ LoadMessages(t) \/ CommitRead(t) PROVE TurnInv'
  BY <1>1, <1>11, NotesTurn, MessagesTurn, ReadTurn
<1>12. ASSUME NEW t \in Threads,
              \/ GetUserCount(t) \/ Insert(t) \/ CommitMessage(t) \/ CommitNote(t)
              \/ NullLender(t)
       PROVE  TurnInv'
  BY <1>1, <1>12, CountTurn, InsertTurn, SavedTurn, NullTurn
<1>13. CASE UNCHANGED chatVars
  BY <1>3, <1>13 DEF chatVars, presenceVars
<1>14. ASSUME NEW s \in Sessions, NEW u \in Users, AddUserSession(s, u), UNCHANGED tables
       PROVE  TurnInv'
  BY <1>3, <1>14 DEF AddUserSession
<1> QED
  BY <1>2, <1>4, <1>5, <1>6, <1>7, <1>8, <1>9, <1>10, <1>11, <1>12, <1>13, <1>14 DEF ChatNext

LEMMA TurnHolds == ChatSpec => []TurnInv
BY TurnInit, TurnStep, PTL DEF ChatSpec

-----------------------------------------------------------------------------
(* The theorems. *)

\* Whatever requests overlap and whoever makes them, each row of the tables has an id of its
\* own, is addressed to a side of its room, and the room's last message is one of the messages.
THEOREM RowsAreRows == ChatSpec => []RowsOK
<1>1. ASSUME ChatInv PROVE RowsOK
  <2>1. TablesOK /\ StoredOK /\ Stored \subseteq RowRecords /\ nextId \in Nat
    BY <1>1 DEF ChatInv, TablesOK, Stored
  <2>2. \A m \in Stored : m.id \in 0 .. nextId - 1 /\ m.isRead \in BOOLEAN
                         /\ m.to \in {Borrower[m.room], Lender[m.room]}
    BY <2>1 DEF StoredOK, RowRecords
  <2>3. Cardinality(Stored) = Cardinality(Ids(Stored))
    <3> DEFINE f == [m \in Stored |-> m.id]
    <3>1. f \in Injection(Stored, Ids(Stored)) /\ f \in Surjection(Stored, Ids(Stored))
      <4>1. f \in [Stored -> Ids(Stored)]
        BY DEF Ids
      <4>2. \A m, n \in Stored : f[m] = f[n] => m = n
        BY <2>1 DEF StoredOK
      <4>3. \A i \in Ids(Stored) : \E m \in Stored : f[m] = i
        BY DEF Ids
      <4> HIDE DEF f
      <4> QED
        BY <4>1, <4>2, <4>3 DEF Injection, Surjection, IsInjective
    <3>2. IsFiniteSet(Ids(Stored))
      <4>1. Ids(Stored) \in SUBSET (0 .. nextId - 1)
        BY <2>2 DEF Ids
      <4>2. IsFiniteSet(0 .. nextId - 1)
        BY <2>1, FS_Interval
      <4> QED
        BY <4>1, <4>2, FS_Subset
    <3> HIDE DEF f
    <3> QED
      BY <3>1, <3>2, FS_Injection
  <2>4. \A r \in Rooms : Exists(r) => lastMessage[r] \in Ids(messages)
    BY <2>1 DEF StoredOK, Ids
  <2> QED
    BY <2>2, <2>3, <2>4 DEF RowsOK, Stored
<1> QED
  BY <1>1, ChatHolds, PTL

\* Requests that do not overlap, of users who keep to their rooms: a row is read exactly when
\* its addressee was given it by getMessages, or had the room open when sendMessage or
\* createNotification stored it.
THEOREM ReadMeansGiven == ChatSpec => []ReadIffSeen
<1>1. ChatInv => ReadIffSeen
  BY DEF ChatInv, SeenOK, Stored, ReadIffSeen
<1> QED
  BY <1>1, ChatHolds, PTL

\* Requests that do not overlap, for any rooms: the room list shows the newest message,
\* addChatMessage setting it to the one that is stored.
THEOREM NewestShown == ChatSpec => []LastIsNewest
<1>1. ASSUME ChatInv PROVE LastIsNewest
  <2> SUFFICES ASSUME alone, NEW r \in Rooms, Exists(r)
               PROVE  lastMessage[r] = Max(Ids({m \in messages : m.room = r}))
    BY DEF LastIsNewest
  <2> DEFINE S == Ids({m \in messages : m.room = r})
  <2>1. PICK m \in messages : m.room = r /\ m.id = lastMessage[r]
    BY <1>1 DEF ChatInv, StoredOK
  <2>2. messages \subseteq RowRecords
    BY <1>1 DEF ChatInv, TablesOK
  <2>3. lastMessage[r] \in S /\ lastMessage[r] \in Nat
    BY <2>1, <2>2 DEF Ids, RowRecords
  <2>4. \A y \in S : y \in Nat /\ y <= lastMessage[r]
    BY <1>1, <2>2 DEF ChatInv, NewestOK, Ids, RowRecords
  <2> HIDE DEF S
  <2> QED
    BY <2>3, <2>4, MaxIs DEF S
<1> QED
  BY <1>1, ChatHolds, PTL

\* What ReadByAddressee says of one step.
KeepsRows ==
  /\ \A m \in messages \cup notes : \E n \in messages' \cup notes' :
       /\ n.id = m.id
       /\ m.isRead => n.isRead
       /\ ~m.isRead /\ n.isRead =>
            \/ m.id \in seen'
            \/ ~atHome /\ m \in messages /\ m.to = Borrower[m.room]

\* However requests overlap, a stored row stays, a read one stays read, and an unread one
\* turns read only for the addressee whom getMessages has given it, unless it is a message
\* to the borrower of a room that somebody else asked for.
THEOREM OnlyAddresseeReads == ChatSpec => ReadByAddressee
<1> DEFINE Kept(m) == \E n \in messages' \cup notes' :
             /\ n.id = m.id
             /\ m.isRead => n.isRead
             /\ ~m.isRead /\ n.isRead =>
                  \/ m.id \in seen'
                  \/ ~atHome /\ m \in messages /\ m.to = Borrower[m.room]
           A == \A m \in messages \cup notes : Kept(m)
<1>1. ASSUME ChatInv, [ChatNext]_chatVars PROVE [KeepsRows]_chatVars
  <2>1. ASSUME NEW t \in Threads, CommitRead(t) PROVE A
    <3>1. /\ messages' = {Mark(m, Ids(held[t])) : m \in messages}
          /\ notes' = {Mark(m, Ids(held[t])) : m \in notes}
      BY <2>1, MarkReadIs DEF CommitRead
    <3>2. \A m \in held[t] : m.to = User(t) \/ Mistaken(m)
      BY <1>1, <2>1 DEF ChatInv, HeldOK, CommitRead, At
    <3>3. seen' = seen \cup Ids({m \in held[t] : m.to = User(t)})
      BY <2>1 DEF CommitRead
    <3>4. /\ messages \cup notes \subseteq RowRecords
          /\ \A m, n \in messages \cup notes : m.id = n.id => m = n
      BY <1>1 DEF ChatInv, TablesOK, StoredOK, Stored
    <3>5. ASSUME NEW m \in messages \cup notes, m.id \in Ids(held[t])
          PROVE  \/ m.id \in seen'
                 \/ ~atHome /\ m \in messages /\ m.to = Borrower[m.room]
      <4>1. PICK h \in held[t] : h.id = m.id
        BY <3>5 DEF Ids
      <4>2. CASE h.to = User(t)
        BY <3>3, <4>1, <4>2 DEF Ids
      <4>3. CASE Mistaken(h)
        BY <3>4, <4>1, <4>3 DEF Mistaken
      <4> QED
        BY <3>2, <4>1, <4>2, <4>3
    <3>6. ASSUME NEW m \in messages \cup notes PROVE Kept(m)
      <4>1. Mark(m, Ids(held[t])) \in messages' \cup notes'
        BY <3>1
      <4>2. /\ Mark(m, Ids(held[t])).id = m.id
            /\ Mark(m, Ids(held[t])).isRead <=> m.isRead \/ m.id \in Ids(held[t])
        BY <3>4, MarkIs
      <4> QED
        BY <3>5, <4>1, <4>2
    <3> QED
      BY <3>6
  <2>2. ASSUME messages \cup notes \subseteq messages' \cup notes' PROVE A
    BY <2>2
  <2>3. ASSUME NEW r \in Rooms, CreateChatRoom(r) PROVE A
    BY <2>2, <2>3 DEF CreateChatRoom
  <2>4. ASSUME NEW t \in Threads, CommitMessage(t) \/ CommitNote(t) PROVE A
    BY <2>2, <2>4 DEF CommitMessage, CommitNote
  <2>5. ASSUME UNCHANGED <<messages, notes>> PROVE A
    BY <2>2, <2>5
  <2>6. A => KeepsRows
    BY DEF KeepsRows
  <2> HIDE DEF A
  <2> QED
    BY <1>1, <2>1, <2>3, <2>4, <2>5, <2>6
    DEF ChatNext, tables, GetMessages, Send, LoadNotes, LoadMessages, GetUserCount, Insert,
        NullLender
<1> QED
  BY <1>1, ChatHolds, PTL DEF ChatSpec, ReadByAddressee, KeepsRows

\* Requests that do not overlap, of users who keep to their rooms: who has a room open has
\* nothing unread in it, be it a message or a notification, stored before or after getMessages.
THEOREM InsideIsRead == ChatSpec => []NothingUnreadInside
<1>1. ASSUME TurnInv PROVE NothingUnreadInside
  <2> SUFFICES ASSUME InTurn, AtRest, NEW m \in Stored, NEW u \in Users,
                      m.to = u, userRooms[u] = m.room
               PROVE  m.isRead
    BY DEF NothingUnreadInside, Stored
  <2>1. userRooms[u] = place[u]
    BY <1>1 DEF TurnInv, ChatInv, PresenceInv, UserStaysPut, AtRest
  <2> QED
    BY <1>1, <2>1 DEF TurnInv, GivenOK
<1> QED
  BY <1>1, TurnHolds, PTL

\* Requests in turn are the chat IdealChat describes, one step of it for each commit, each
\* user that leaves and each that opens a room without a lender.
Changes == <<environment, place, messages, notes, lastMessage>>

LEMMA IdealStutter == ASSUME UNCHANGED Changes PROVE UNCHANGED Ideal!vars
BY DEF Changes, Ideal!vars

\* The state IdealChat sees, before and after a step.
LEMMA IdealIs ==
  ASSUME InTurn, UNCHANGED environment
  PROVE  /\ Ideal!Next <=>
              \/ \E r \in Rooms, m \in messages', n \in notes' : Ideal!Open(r, m, n)
              \/ \E u \in Users :
                   \/ \E r \in Rooms : Ideal!Enter(u, r)
                   \/ Ideal!Leave(u)
                   \/ \E m \in messages' : Ideal!Write(u, m)
                   \/ \E n \in notes' : Ideal!Notify(u, n)
         /\ \A row : Ideal!IsNew(row) <=> \A m \in Stored : m.id # row.id
         /\ \A row : Ideal!IsNewest(row) <=> \A m \in messages : m.room = row.room => m.id < row.id
BY DEF Ideal!Next, Ideal!IsNew, Ideal!IsNewest, Stored

\* A room is opened with a message and a notification to its lender.
LEMMA IdealOpen ==
  ASSUME TurnInv, InTurn, NEW r \in Rooms, CreateChatRoom(r) PROVE Ideal!Next
<1>1. /\ ~Exists(r) /\ UNCHANGED <<environment, place>>
      /\ lastMessage' = [lastMessage EXCEPT ![r] = nextId]
  BY DEF CreateChatRoom
<1>2. nextId \in Nat /\ \A m \in Stored : m.id \in Nat /\ m.id < nextId
  BY DEF TurnInv, ChatInv, TablesOK, StoredOK, Stored, RowRecords
<1>3. PICK a, b :
        /\ messages' = messages \cup {a} /\ notes' = notes \cup {b}
        /\ a.id = nextId /\ b.id = nextId + 1 /\ a.room = r /\ b.room = r
        /\ a.to = Lender[r] /\ b.to = Lender[r] /\ ~a.isRead /\ ~b.isRead
  <2> DEFINE x == Row(nextId, r, Lender[r], FALSE)
             y == Row(nextId + 1, r, Lender[r], FALSE)
  <2>1. /\ x.id = nextId /\ x.room = r /\ x.to = Lender[r] /\ ~x.isRead
        /\ y.id = nextId + 1 /\ y.room = r /\ y.to = Lender[r] /\ ~y.isRead
    BY DEF Row
  <2>2. messages' = messages \cup {x} /\ notes' = notes \cup {y}
    BY DEF CreateChatRoom
  <2> HIDE DEF x, y
  <2> QED
    BY <2>1, <2>2
<1>4. Ideal!IsNew(a) /\ Ideal!IsNew(b) /\ a.id # b.id
  BY <1>1, <1>2, <1>3, IdealIs
<1>5. Ideal!Open(r, a, b)
  BY <1>1, <1>3, <1>4 DEF Ideal!Open, Exists
<1> QED
  BY <1>1, <1>3, <1>5, IdealIs

\* What getMessages marks is what is addressed to its reader in the room.
LEMMA IdealMark ==
  ASSUME TurnInv, InTurn, NEW t \in Threads, call[t].at = "commit", NEW m \in Stored
  PROVE  Mark(m, Ids(held[t])) =
           IF m.to = User(t) /\ m.room = Room(t) THEN [m EXCEPT !.isRead = TRUE] ELSE m
<1>1. m \in RowRecords
  BY DEF TurnInv, ChatInv, TablesOK, Stored
<1>2. (m.isRead \/ m.id \in Ids(held[t])) <=> (m.isRead \/ (m.to = User(t) /\ m.room = Room(t)))
  BY GivenIs
<1>3. CASE m.isRead
  <2>1. [m EXCEPT !.isRead = TRUE] = m
    BY <1>1, <1>3 DEF RowRecords
  <2> QED
    BY <2>1 DEF Mark
<1>4. CASE ~m.isRead
  BY <1>2, <1>4 DEF Mark
<1> QED
  BY <1>3, <1>4

LEMMA IdealEnter ==
  ASSUME TurnInv, InTurn, NEW t \in Threads, CommitRead(t) PROVE Ideal!Next
<1>1. /\ call[t].at = "commit" /\ UNCHANGED <<environment, lastMessage>>
      /\ place' = [place EXCEPT ![User(t)] = Room(t)]
      /\ messages' = {Mark(m, Ids(held[t])) : m \in messages}
      /\ notes' = {Mark(m, Ids(held[t])) : m \in notes}
  BY MarkReadIs DEF CommitRead, At
<1>2. Room(t) \in Rooms /\ Exists(Room(t)) /\ User(t) \in Users /\ User(t) \in Members[Room(t)]
  <2>1. CallOK(t) /\ HeldOK(t)
    BY <1>1, Own DEF TurnInv, ChatInv, At
  <2>2. Entering(t) /\ Room(t) \in Rooms /\ User(t) \in Users /\ User(t) \in Members[Room(t)]
    BY <1>1, <2>1 DEF CallOK, LeaveAts, RowAts
  <2> QED
    BY <1>1, <2>1, <2>2 DEF HeldOK, Entering
<1>3. /\ messages' = Ideal!Given(messages, User(t), Room(t))
      /\ notes' = Ideal!Given(notes, User(t), Room(t))
  <2>1. \A m \in Stored : Mark(m, Ids(held[t])) =
          IF m.to = User(t) /\ m.room = Room(t) THEN [m EXCEPT !.isRead = TRUE] ELSE m
    BY <1>1, IdealMark
  <2>2. messages \subseteq Stored /\ notes \subseteq Stored
    BY DEF Stored
  <2> QED
    BY <1>1, <2>1, <2>2 DEF Ideal!Given
<1>4. Ideal!Enter(User(t), Room(t))
  BY <1>1, <1>2, <1>3 DEF Ideal!Enter, Exists
<1> QED
  BY <1>1, <1>2, <1>4, IdealIs

\* In a room without a lender nothing is addressed to a user, so there is nothing to give.
LEMMA IdealNull ==
  ASSUME TurnInv, InTurn, NEW t \in Threads, NullLender(t)
  PROVE  Ideal!Next \/ UNCHANGED Changes
<1>1. /\ call[t].at \in {"load", "insert"} /\ Lender[Room(t)] = None
      /\ place' = IF Entering(t) THEN [place EXCEPT ![User(t)] = Room(t)] ELSE place
      /\ UNCHANGED <<environment, messages, notes, lastMessage>>
  BY DEF NullLender
<1>2. CASE ~Entering(t)
  BY <1>1, <1>2 DEF Changes
<1>3. CASE Entering(t)
  <2>1. Room(t) \in Rooms /\ Exists(Room(t)) /\ User(t) \in Users /\ User(t) \in Members[Room(t)]
    <3>1. CallOK(t) /\ HeldOK(t)
      BY <1>1, Own DEF TurnInv, ChatInv, At
    <3> QED
      BY <1>1, <1>3, <3>1 DEF CallOK, HeldOK, Entering, Leaves, Rows
  <2>2. \A m \in Stored : ~(m.to = User(t) /\ m.room = Room(t))
    BY <1>1, <2>1, PresenceConstants DEF TurnInv, ChatInv, StoredOK
  <2>3. messages \subseteq Stored /\ notes \subseteq Stored
    BY DEF Stored
  <2>4. /\ Ideal!Given(messages, User(t), Room(t)) = messages
        /\ Ideal!Given(notes, User(t), Room(t)) = notes
    BY <2>2, <2>3 DEF Ideal!Given
  <2>5. Ideal!Enter(User(t), Room(t))
    BY <1>1, <1>3, <2>1, <2>4 DEF Ideal!Enter, Exists
  <2> QED
    BY <1>1, <2>1, <2>5, IdealIs
<1> QED
  BY <1>2, <1>3

LEMMA IdealLeave ==
  ASSUME TurnInv, InTurn, NEW t \in Threads, ~Entering(t), Answer(t), UNCHANGED tables
  PROVE  Ideal!Next
<1>1. /\ call[t].at = "returned" /\ UNCHANGED <<environment, messages, notes, lastMessage>>
      /\ place' = [place EXCEPT ![User(t)] = Room(t)]
  BY DEF Answer, At, tables
<1>2. Room(t) = None /\ User(t) \in Users
  <2>1. CallOK(t)
    BY <1>1, Own DEF TurnInv, ChatInv, At
  <2> QED
    BY <1>1, <2>1 DEF CallOK, RowAts
<1>3. Ideal!Leave(User(t))
  BY <1>1, <1>2 DEF Ideal!Leave
<1> QED
  BY <1>1, <1>2, <1>3, IdealIs

LEMMA IdealSave ==
  ASSUME TurnInv, InTurn, NEW t \in Threads, CommitMessage(t) \/ CommitNote(t)
  PROVE  Ideal!Next
<1>1. call[t].at = "save" /\ UNCHANGED <<environment, place>>
  BY DEF CommitMessage, CommitNote, At
<1>2. PICK row \in RowRecords :
        /\ RowOK(t, row) /\ row.to # User(t) /\ place[User(t)] = row.room
        /\ row.isRead <=> place[row.to] = row.room
  BY <1>1, SavedIs
<1>3. User(t) \in Users
  BY <1>1, Own DEF TurnInv, ChatInv, At
<1>4. row.to \in Members[row.room] /\ Ideal!IsNew(row) /\ Ideal!IsNewest(row)
  BY <1>1, <1>2, IdealIs DEF RowOK, Ids
<1>5. Ideal!IsWritten(User(t), row)
  BY <1>1, <1>2, <1>4 DEF Ideal!IsWritten
<1>6. CASE CommitMessage(t)
  <2>1. Ideal!Write(User(t), row) /\ row \in messages'
    BY <1>1, <1>2, <1>5, <1>6, SavedRows DEF Ideal!Write, TurnInv
  <2> QED
    BY <1>1, <1>3, <2>1, IdealIs
<1>7. CASE CommitNote(t)
  <2>1. Ideal!Notify(User(t), row) /\ row \in notes'
    BY <1>1, <1>2, <1>5, <1>7, SavedRows DEF Ideal!Notify, TurnInv
  <2> QED
    BY <1>1, <1>3, <2>1, IdealIs
<1> QED
  BY <1>6, <1>7

LEMMA IdealStep == TurnInv /\ [ChatNext]_chatVars => [Ideal!Next]_(Ideal!vars)
<1> SUFFICES ASSUME TurnInv, [ChatNext]_chatVars PROVE Ideal!Next \/ UNCHANGED Ideal!vars
  OBVIOUS
<1>1. UNCHANGED environment
  BY DEF ChatNext, chatVars, presenceVars, CreateChatRoom, AddUserSession, GetMessages,
     AddUserRoom, Begin, Send, DeleteUserRoom, Disconnect, InMethod, Contains, Compare, OldRoom,
     OldCount, RoomAgain, Recount, NullPointer, Join, Size, Grow, Remove, Answer, AnswerError,
     LoadNotes, LoadMessages, CommitRead, GetUserCount, Insert, CommitMessage, CommitNote,
     NullLender
<1>2. CASE ~InTurn
  BY <1>1, <1>2 DEF Ideal!vars
<1>3. CASE InTurn
  <2>1. CASE \E r \in Rooms : CreateChatRoom(r)
    BY <1>3, <2>1, IdealOpen
  <2>2. CASE \E t \in Threads : ~Entering(t) /\ Answer(t) /\ UNCHANGED tables
    BY <1>3, <2>2, IdealLeave
  <2>3. CASE \E t \in Threads : CommitRead(t)
    BY <1>3, <2>3, IdealEnter
  <2>4. CASE \E t \in Threads : CommitMessage(t) \/ CommitNote(t)
    BY <1>3, <2>4, IdealSave
  <2>5. ASSUME NEW t \in Threads, InMethod(t), UNCHANGED tables PROVE UNCHANGED Changes
    BY <2>5 DEF Changes, tables, InMethod, Contains, Compare, OldRoom, OldCount, RoomAgain,
       Recount, NullPointer, Join, Size, Grow, Remove
  <2>6. ASSUME UNCHANGED tables, UNCHANGED <<environment, place>> PROVE UNCHANGED Changes
    BY <2>6 DEF Changes, tables
  <2>7. CASE \/ \E s \in Sessions, u \in Users : AddUserSession(s, u) /\ UNCHANGED tables
             \/ \E t \in Threads :
                  \/ \E u \in Users, r \in Rooms : GetMessages(t, u, r)
                  \/ \E u \in Users, r \in Rooms, op \in {"send", "notify"} : Send(t, op, u, r)
                  \/ \E u \in Users : DeleteUserRoom(t, u) /\ UNCHANGED tables
                  \/ \E s \in Sessions : Disconnect(t, s) /\ UNCHANGED tables
                  \/ AnswerError(t) /\ UNCHANGED tables
                  \/ GetUserCount(t)
    BY <2>6, <2>7, IdealStutter DEF AddUserSession, GetMessages, AddUserRoom, Begin, Send,
       DeleteUserRoom, Disconnect, AnswerError, GetUserCount
  <2>8. CASE \E t \in Threads : LoadNotes(t) \/ LoadMessages(t) \/ Insert(t)
    BY <2>8, IdealStutter DEF LoadNotes, LoadMessages, Insert, Changes
  <2>9. CASE UNCHANGED chatVars
    BY <2>6, <2>9, IdealStutter DEF chatVars, presenceVars
  <2>10. CASE \E t \in Threads : NullLender(t)
    BY <1>3, <2>10, IdealNull, IdealStutter
  <2> QED
    BY <2>1, <2>2, <2>3, <2>4, <2>5, <2>7, <2>8, <2>9, <2>10, IdealStutter DEF ChatNext
<1> QED
  BY <1>2, <1>3

\* Requests that do not overlap, of users who keep to their rooms: a room opens with an unread
\* message and notification to its lender, entering it gives its reader everything in it at
\* once, what is written is read at once exactly when its addressee is inside, and the room
\* list follows.
THEOREM ChatIsIdeal == ChatSpec => ChatsInTurn
<1>1. ChatInit => Ideal!Init
  BY DEF ChatInit, Init, Ideal!Init
<1> QED
  BY <1>1, TurnHolds, IdealStep, PTL DEF ChatSpec, ChatsInTurn, Ideal!Spec
==============================================================================
