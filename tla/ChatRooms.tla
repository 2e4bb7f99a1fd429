------------------------------- MODULE ChatRooms -------------------------------
(***************************************************************************)
(* service/ChatService.java, controller/MessageController.java and          *)
(* service/NotificationService.java on top of ConnectState: messages and    *)
(* notifications are rows of the backend's database, and a row is read from *)
(* the start when ConnectState counts two users in the room.  A request is  *)
(* one transaction (read committed): what it inserts or changes is seen by  *)
(* others when it commits; what it learnt from ConnectState may be out of   *)
(* date by then.                                                            *)
(***************************************************************************)
EXTENDS ConnectState, FiniteSetsExt

CONSTANTS
  Borrower,    \* room -> the member who asked for the car (fromMember)
  Lender,      \* room -> the member asked (toMember): null when there is no
               \* member of the id that the borrower's client gave
  MaxRows      \* bound: alone, atHome -> rows ever inserted

ASSUME ChatConstants ==
  /\ Borrower \in [Rooms -> Users] /\ Lender \in [Rooms -> Users \cup {None}]
  /\ \A r \in Rooms :
       /\ Borrower[r] # Lender[r]
       /\ Members[r] = {Borrower[r], Lender[r]} \ {None}
  /\ MaxRows \in [BOOLEAN -> [BOOLEAN -> Nat]]

VARIABLES
  messages,     \* committed chat messages
  notes,        \* committed notifications
  lastMessage,  \* room -> its last message's id; None before the room exists
  nextId,       \* next value of the tables' identity columns, kept as one
  held,         \* thread -> the rows its transaction has loaded or inserted
  seen          \* history: ids returned to, or stored while with, their addressee

tables == <<messages, notes, lastMessage, nextId, held, seen>>
chatVars == <<presenceVars, tables>>

Row(id, r, to, read) == [id |-> id, room |-> r, to |-> to, isRead |-> read]
\* Whoever is not the lender is taken for the borrower.
Side(r, u) == IF u = Lender[r] THEN Lender[r] ELSE Borrower[r]
Other(r, u) == IF u = Lender[r] THEN Borrower[r] ELSE Lender[r]
Exists(r) == lastMessage[r] # None
Spare(k) ==
  nextId + Cardinality({t \in Threads : call[t].at \in {"count", "insert"}}) + k
    <= MaxRows[alone][atHome]
Ids(rows) == {m.id : m \in rows}
\* Those whose addressee has their room open.
Watched(rows) == {m \in rows : \E u \in Users : m.to = u /\ userRooms[u] = m.room}
MarkRead(rows, ids) ==
  {IF m.id \in ids THEN [m EXCEPT !.isRead = TRUE] ELSE m : m \in rows}

ChatInit ==
  /\ Init
  /\ messages = {}
  /\ notes = {}
  /\ lastMessage = [r \in Rooms |-> None]
  /\ nextId = 0
  /\ held = [t \in Threads |-> {}]
  /\ seen = {}

-----------------------------------------------------------------------------
(* createChatRoom: the borrower's request opens a room, with a first message *)
(* and a notification to the lender, both unread.                           *)

CreateChatRoom(r) ==
  /\ ~Exists(r)
  /\ Spare(2)
  /\ messages' = messages \cup {Row(nextId, r, Lender[r], FALSE)}
  /\ notes' = notes \cup {Row(nextId + 1, r, Lender[r], FALSE)}
  /\ lastMessage' = [lastMessage EXCEPT ![r] = nextId]
  /\ nextId' = nextId + 2
  /\ UNCHANGED <<environment, userSessions, userRooms, userCount, call, place, held, seen>>

(* getMessages: addUserRoom, then the unread notifications, then the         *)
(* messages; what it marks read is written when it commits.                 *)

GetMessages(t, u, r) ==
  /\ Exists(r)
  /\ AddUserRoom(t, u, r)
  /\ UNCHANGED tables

\* A mutant: the notifications of the room's other messages are left unread.
LoadNoNotes(t) ==
  /\ At(t, "returned") /\ Entering(t)
  /\ Go(t, "load")
  /\ UNCHANGED <<environment, userSessions, userRooms, userCount, place,
                 messages, notes, lastMessage, nextId, held, seen>>

LoadNotes(t) ==
  /\ At(t, "returned") /\ Entering(t)
  /\ held' = [held EXCEPT ![t] =
       {n \in notes : n.to = User(t) /\ n.room = Room(t) /\ ~n.isRead}]
  /\ Go(t, "load")
  /\ UNCHANGED <<environment, userSessions, userRooms, userCount, place,
                 messages, notes, lastMessage, nextId, seen>>

\* A mutant: both parties' messages are marked.
ToMarkAll(t, rows) == {m \in rows : ~m.isRead}

\* The opponent's messages only: those addressed to the reader's side.
ToMark(t, rows) == {m \in rows : m.to = Side(Room(t), User(t)) /\ ~m.isRead}

LoadMessages(t) ==
  /\ At(t, "load")
  /\ Lender[Room(t)] # None
  /\ held' = [held EXCEPT ![t] =
       @ \cup ToMark(t, {m \in messages : m.room = Room(t)})]
  /\ Go(t, "commit")
  /\ UNCHANGED <<environment, userSessions, userRooms, userCount, place,
                 messages, notes, lastMessage, nextId, seen>>

CommitRead(t) ==
  /\ At(t, "commit")
  /\ messages' = MarkRead(messages, Ids(held[t]))
  /\ notes' = MarkRead(notes, Ids(held[t]))
  /\ seen' = seen \cup Ids({m \in held[t] : m.to = User(t)})
  /\ held' = [held EXCEPT ![t] = {}]
  /\ call' = [call EXCEPT ![t] = Idle]
  /\ place' = [place EXCEPT ![User(t)] = Room(t)]
  /\ UNCHANGED <<environment, userSessions, userRooms, userCount, lastMessage, nextId>>

(* sendMessage and createNotification: whether the new row is read is        *)
(* decided from the count before the transaction starts.  A client at home   *)
(* sends from the room it has open; the server checks no sender.            *)

Send(t, op, u, r) ==
  /\ op \in {"send", "notify"}
  /\ Exists(r)
  /\ atHome => place[u] = r
  /\ Spare(1)
  /\ At(t, "idle")
  /\ Free(u)
  /\ call' = [call EXCEPT ![t] = [Idle EXCEPT !.at = "count", !.op = op,
                                   !.user = u, !.room = r]]
  /\ UNCHANGED <<environment, userSessions, userRooms, userCount, place, tables>>

GetUserCount(t) ==
  /\ At(t, "count")
  /\ IF userCount[Room(t)] = None THEN Go(t, "failed")
     ELSE Load(t, "insert", "n", userCount[Room(t)])
  /\ UNCHANGED <<environment, userSessions, userRooms, userCount, place, tables>>

\* A mutant: one user in the room, the sender itself, is enough.
IsReadAlone(t) == call[t].n >= 1

\* A mutant: the room would have to hold more than two.
IsReadCrowded(t) == call[t].n > 2

IsRead(t) == call[t].n = 2

\* A mutant: the identity column is not advanced.
InsertSameId(t) ==
  /\ At(t, "insert")
  /\ Lender[Room(t)] # None
  /\ held' = [held EXCEPT ![t] =
       {Row(nextId, Room(t), Other(Room(t), User(t)), IsRead(t))}]
  /\ Go(t, "save")
  /\ UNCHANGED <<environment, userSessions, userRooms, userCount, place,
                 messages, notes, lastMessage, nextId, seen>>

Insert(t) ==
  /\ At(t, "insert")
  /\ Lender[Room(t)] # None
  /\ held' = [held EXCEPT ![t] =
       {Row(nextId, Room(t), Other(Room(t), User(t)), IsRead(t))}]
  /\ nextId' = nextId + 1
  /\ Go(t, "save")
  /\ UNCHANGED <<environment, userSessions, userRooms, userCount, place,
                 messages, notes, lastMessage, seen>>

\* A mutant: the room's last message is left as it was.
CommitMessageOnly(t) ==
  /\ At(t, "save") /\ call[t].op = "send"
  /\ messages' = messages \cup held[t]
  /\ seen' = seen \cup Ids(Watched(held[t]))
  /\ held' = [held EXCEPT ![t] = {}]
  /\ call' = [call EXCEPT ![t] = Idle]
  /\ UNCHANGED <<environment, userSessions, userRooms, userCount, place, notes, lastMessage, nextId>>

CommitMessage(t) ==
  /\ At(t, "save") /\ call[t].op = "send"
  /\ messages' = messages \cup held[t]
  /\ lastMessage' = [lastMessage EXCEPT ![Room(t)] = Max(Ids(held[t]))]
  /\ seen' = seen \cup Ids(Watched(held[t]))
  /\ held' = [held EXCEPT ![t] = {}]
  /\ call' = [call EXCEPT ![t] = Idle]
  /\ UNCHANGED <<environment, userSessions, userRooms, userCount, place, notes, nextId>>

CommitNote(t) ==
  /\ At(t, "save") /\ call[t].op = "notify"
  /\ notes' = notes \cup held[t]
  /\ seen' = seen \cup Ids(Watched(held[t]))
  /\ held' = [held EXCEPT ![t] = {}]
  /\ call' = [call EXCEPT ![t] = Idle]
  /\ UNCHANGED <<environment, userSessions, userRooms, userCount, place,
                 messages, lastMessage, nextId>>

(* A room without a lender: a NullPointerException where toMember is asked   *)
(* who it is.  The transaction is rolled back; a reader has been moved.     *)

NullLender(t) ==
  /\ call[t].at \in {"load", "insert"}
  /\ Lender[Room(t)] = None
  /\ held' = [held EXCEPT ![t] = {}]
  /\ call' = [call EXCEPT ![t] = Idle]
  /\ place' = IF Entering(t) THEN [place EXCEPT ![User(t)] = Room(t)] ELSE place
  /\ UNCHANGED <<environment, userSessions, userRooms, userCount,
                 messages, notes, lastMessage, nextId, seen>>

-----------------------------------------------------------------------------
ChatNext ==
  \/ \E r \in Rooms : CreateChatRoom(r)
  \/ \E s \in Sessions, u \in Users : AddUserSession(s, u) /\ UNCHANGED tables
  \/ \E t \in Threads :
       \/ \E u \in Users, r \in Rooms : GetMessages(t, u, r)
       \/ \E u \in Users, r \in Rooms, op \in {"send", "notify"} : Send(t, op, u, r)
       \/ \E u \in Users : DeleteUserRoom(t, u) /\ UNCHANGED tables
       \/ \E s \in Sessions : Disconnect(t, s) /\ UNCHANGED tables
       \/ InMethod(t) /\ UNCHANGED tables
       \/ ~Entering(t) /\ Answer(t) /\ UNCHANGED tables
       \/ AnswerError(t) /\ UNCHANGED tables
       \/ LoadNotes(t) \/ LoadMessages(t) \/ CommitRead(t)
       \/ GetUserCount(t) \/ Insert(t) \/ CommitMessage(t) \/ CommitNote(t)
       \/ NullLender(t)

ChatSpec == ChatInit /\ [][ChatNext]_chatVars

-----------------------------------------------------------------------------
(* Properties. *)

\* Rows are rows, each id is used once, and only existing rooms have rows.
RowsOK ==
  /\ \A m \in messages \cup notes :
       /\ m.id \in 0 .. nextId - 1 /\ m.isRead \in BOOLEAN
       /\ m.to \in {Borrower[m.room], Lender[m.room]}
  /\ Cardinality(messages \cup notes) = Cardinality(Ids(messages \cup notes))
  /\ \A r \in Rooms : Exists(r) => lastMessage[r] \in Ids(messages)

\* As long as requests never overlap and users keep to their own rooms, a message
\* or notification is read exactly when its addressee has fetched it, or had the
\* room open when it was stored (sendMessage, createNotification and getMessages
\* together).
ReadIffSeen ==
  InTurn /\ AtRest => \A m \in messages \cup notes : m.isRead <=> m.id \in seen

\* Requests that never overlap, for any rooms: the room list shows the newest
\* message (addChatMessage's lastMessage).
LastIsNewest ==
  alone /\ AtRest => \A r \in Rooms : Exists(r) =>
    lastMessage[r] = Max(Ids({m \in messages : m.room = r}))

\* As long as requests never overlap and users keep to their own rooms, who has a
\* room open has nothing unread in it, whichever of getMessages, sendMessage and
\* createNotification dealt with the row.
NothingUnreadInside ==
  InTurn /\ AtRest =>
    \A m \in messages \cup notes, u \in Users :
      m.to = u /\ userRooms[u] = m.room => m.isRead

\* As long as requests never overlap and users keep to their own rooms, they are
\* the chat IdealChat describes: each takes effect as a whole when it commits.
\* Of others nothing is said here.
Ideal == INSTANCE IdealChat
  WITH inside <- IF InTurn THEN place ELSE [u \in Users |-> None],
       messages <- IF InTurn THEN messages ELSE {},
       notes <- IF InTurn THEN notes ELSE {},
       newest <- IF InTurn THEN lastMessage ELSE [r \in Rooms |-> None]
ChatsInTurn == Ideal!Spec

\* However requests overlap, and whoever asks for whatever room: no row goes, no
\* row becomes unread again, and one that is stored unread is read only once its
\* addressee has been given it by getMessages.  One exception is in the code: the
\* messages to a borrower are marked by anyone but the lender who asks for the room.
ReadByAddressee ==
  [][/\ \A m \in messages \cup notes : \E n \in messages' \cup notes' :
          /\ n.id = m.id
          /\ m.isRead => n.isRead
          /\ ~m.isRead /\ n.isRead =>
               \/ m.id \in seen'
               \/ ~atHome /\ m \in messages /\ m.to = Borrower[m.room]]_chatVars

\* MessageController: isRead is decided for "when the message was sent, the
\* other user is in the same room".  Nobody asks for another's room here.
ReadMeansSeen ==
  atHome => \A m \in messages : m.isRead => m.id \in seen
==============================================================================
