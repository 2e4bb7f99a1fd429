----------------------------- MODULE ConnectState -----------------------------
(***************************************************************************)
(* model/ConnectState.java and config/StompHandler.java: which chat room    *)
(* each user has open, and how many users each room holds.  A request runs  *)
(* on a server thread of its own.  The maps are ConcurrentHashMaps: one     *)
(* get, put or remove is atomic and a method is a sequence of them, so a    *)
(* step here is one map operation and other threads run between the steps.  *)
(***************************************************************************)
EXTENDS Integers, FiniteSets

CONSTANTS
  Users, Rooms, Sessions,
  Threads,      \* server threads that can be inside ConnectState at once
  Members,      \* room -> its borrower and its lender, as far as it has them
  SmallRooms,   \* rooms whose boxed id is one shared object (ids up to 127)
  MinCount, MaxCount,  \* bound: a room is entered with counts in this range
  None          \* null, or no key in a map

ASSUME PresenceConstants ==
  /\ Members \in [Rooms -> SUBSET Users]
  /\ \A r \in Rooms : IsFiniteSet(Members[r]) /\ Cardinality(Members[r]) <= 2
  /\ SmallRooms \subseteq Rooms
  /\ MinCount \in Int /\ MaxCount \in Int
  /\ None \notin Users \cup Rooms \cup Sessions \cup Int

VARIABLES
  alone,         \* the environment: whether requests come one after the other,
                 \* or those of different users may overlap
  atHome,        \* the environment: whether clients keep to their users' own
                 \* rooms, or use any room; the server checks neither
  userSessions,  \* web socket session -> its user
  userRooms,     \* user -> the room it has open
  userCount,     \* room -> number of users it is said to hold
  call,          \* thread -> the method it runs, its arguments and its locals
  place          \* history: user -> the room of its last addUserRoom that
                 \* returned, or None when a deleteUserRoom has since

environment == <<alone, atHome>>
presenceVars == <<environment, userSessions, userRooms, userCount, call, place>>

InTurn == alone /\ atHome

Idle == [at |-> "idle", op |-> None, user |-> None, room |-> None,
         session |-> None, key |-> None, n |-> None]

At(t, label) == call[t].at = label
User(t) == call[t].user
Room(t) == call[t].room
Entering(t) == call[t].op = "enter"
Go(t, label) == call' = [call EXCEPT ![t].at = label]
Load(t, label, field, value) ==
  call' = [call EXCEPT ![t].at = label, ![t][field] = value]

Calls == {t \in Threads : ~At(t, "idle")}
\* A client waits for the answer to its user's last request.
Free(u) == \A t \in Calls : ~alone /\ User(t) # u
Holds(r) == Cardinality({u \in Users : userRooms[u] = r})
CountOf(r) == IF userCount[r] = None THEN 0 ELSE userCount[r]
CountsBounded ==
  /\ \A r \in Rooms : CountOf(r) \in MinCount .. MaxCount
  /\ \A t \in Calls : call[t].n # None => call[t].n \in MinCount .. MaxCount

Init ==
  /\ alone \in BOOLEAN /\ atHome \in BOOLEAN
  /\ userSessions = [s \in Sessions |-> None]
  /\ userRooms = [u \in Users |-> None]
  /\ userCount = [r \in Rooms |-> None]
  /\ call = [t \in Threads |-> Idle]
  /\ place = [u \in Users |-> None]

-----------------------------------------------------------------------------
(* The calls. *)

\* STOMP CONNECT: a session is its user's.
AddUserSession(s, u) ==
  /\ userSessions[s] = None
  /\ userSessions' = [userSessions EXCEPT ![s] = u]
  /\ UNCHANGED <<environment, userRooms, userCount, call, place>>

Begin(t, op, u, r, s) ==
  /\ At(t, "idle")
  /\ Free(u)
  /\ call' = [call EXCEPT ![t] = [Idle EXCEPT !.at = "contains", !.op = op,
                                   !.user = u, !.room = r, !.session = s]]
  /\ UNCHANGED <<environment, userSessions, userRooms, userCount, place>>

\* Any user may ask for any room; a client at home asks for its user's own.
AddUserRoom(t, u, r) ==
  /\ atHome => u \in Members[r]
  /\ CountsBounded
  /\ Begin(t, "enter", u, r, None)

DeleteUserRoom(t, u) == Begin(t, "leave", u, None, None)

\* STOMP DISCONNECT: the session's user leaves its room, whichever of the
\* user's sessions had it open.
Disconnect(t, s) ==
  /\ userSessions[s] # None
  /\ \A other \in Calls : call[other].session # s
  /\ Begin(t, "disconnect", userSessions[s], None, s)

\* userRooms.containsKey
Contains(t) ==
  /\ At(t, "contains")
  /\ Go(t, IF userRooms[User(t)] = None
             THEN IF Entering(t) THEN "join" ELSE "returned"
             ELSE IF Entering(t) THEN "compare" ELSE "oldRoom")
  /\ UNCHANGED <<environment, userSessions, userRooms, userCount, place>>

\* A mutant: the user is moved before the old room is recounted.
CompareAndMove(t) ==
  /\ At(t, "compare")
  /\ Go(t, "oldRoom")
  /\ userRooms' = [userRooms EXCEPT ![User(t)] = Room(t)]
  /\ UNCHANGED <<environment, userSessions, userCount, place>>

\* == on two Longs: the same room is recognised only when its id is small.
Compare(t) ==
  /\ At(t, "compare")
  /\ Go(t, IF userRooms[User(t)] = Room(t) /\ Room(t) \in SmallRooms
             THEN "returned" ELSE "oldRoom")
  /\ UNCHANGED <<environment, userSessions, userRooms, userCount, place>>

OldRoom(t) ==
  /\ At(t, "oldRoom")
  /\ Load(t, "oldCount", "key", userRooms[User(t)])
  /\ UNCHANGED <<environment, userSessions, userRooms, userCount, place>>

OldCount(t) ==
  /\ At(t, "oldCount")
  /\ call[t].key # None
  /\ userCount[call[t].key] # None
  /\ Load(t, "roomAgain", "n", userCount[call[t].key])
  /\ UNCHANGED <<environment, userSessions, userRooms, userCount, place>>

RoomAgain(t) ==
  /\ At(t, "roomAgain")
  /\ Load(t, "recount", "key", userRooms[User(t)])
  /\ UNCHANGED <<environment, userSessions, userRooms, userCount, place>>

\* A mutant: changing rooms leaves the old room's count alone.
LessOneWhenLeaving(t) ==
  IF Entering(t) THEN call[t].n ELSE IF call[t].n = 1 THEN None ELSE 1

\* A mutant: whoever leaves takes the room's entry along.
LessOneIsNone(t) == IF Entering(t) THEN call[t].n - 1 ELSE None

\* One fewer when the user changes rooms; when it leaves, one is left, or
\* the room's entry goes.
LessOne(t) ==
  IF Entering(t) THEN call[t].n - 1 ELSE IF call[t].n = 1 THEN None ELSE 1

Recount(t) ==
  /\ At(t, "recount")
  /\ call[t].key # None
  /\ userCount' = [userCount EXCEPT ![call[t].key] = LessOne(t)]
  /\ Go(t, IF Entering(t) THEN "join" ELSE "remove")
  /\ UNCHANGED <<environment, userSessions, userRooms, place>>

\* A NullPointerException: the room to recount, or its count, is gone.
NullPointer(t) ==
  /\ \/ At(t, "oldCount") /\ call[t].key = None
     \/ At(t, "oldCount") /\ call[t].key # None /\ userCount[call[t].key] = None
     \/ At(t, "recount") /\ call[t].key = None
  /\ Go(t, "failed")
  /\ UNCHANGED <<environment, userSessions, userRooms, userCount, place>>

\* A mutant: userRooms.put with its arguments swapped.
JoinSwapped(t) ==
  /\ At(t, "join")
  /\ userRooms' = [k \in Users \cup {Room(t)} |->
                     IF k = Room(t) THEN User(t) ELSE userRooms[k]]
  /\ Go(t, "size")
  /\ UNCHANGED <<environment, userSessions, userCount, place>>

Join(t) ==
  /\ At(t, "join")
  /\ userRooms' = [userRooms EXCEPT ![User(t)] = Room(t)]
  /\ Go(t, "size")
  /\ UNCHANGED <<environment, userSessions, userCount, place>>

Size(t) ==
  /\ At(t, "size")
  /\ Load(t, "grow", "n", CountOf(Room(t)))
  /\ UNCHANGED <<environment, userSessions, userRooms, userCount, place>>

Grow(t) ==
  /\ At(t, "grow")
  /\ userCount' = [userCount EXCEPT ![Room(t)] = call[t].n + 1]
  /\ Go(t, "returned")
  /\ UNCHANGED <<environment, userSessions, userRooms, place>>

Remove(t) ==
  /\ At(t, "remove")
  /\ userRooms' = [userRooms EXCEPT ![User(t)] = None]
  /\ Go(t, "returned")
  /\ UNCHANGED <<environment, userSessions, userCount, place>>

\* The request ends; after a disconnect the session is forgotten, unless an
\* exception left deleteUserRoom first.
Answer(t) ==
  /\ At(t, "returned")
  /\ call' = [call EXCEPT ![t] = Idle]
  /\ place' = [place EXCEPT ![User(t)] = Room(t)]
  /\ userSessions' = IF call[t].session = None THEN userSessions
                     ELSE [userSessions EXCEPT ![call[t].session] = None]
  /\ UNCHANGED <<environment, userRooms, userCount>>

AnswerError(t) ==
  /\ At(t, "failed")
  /\ call' = [call EXCEPT ![t] = Idle]
  /\ UNCHANGED <<environment, userSessions, userRooms, userCount, place>>

-----------------------------------------------------------------------------
InMethod(t) ==
  \/ Contains(t) \/ Compare(t) \/ OldRoom(t) \/ OldCount(t) \/ RoomAgain(t)
  \/ Recount(t) \/ NullPointer(t) \/ Join(t) \/ Size(t) \/ Grow(t) \/ Remove(t)

Next ==
  \/ \E s \in Sessions, u \in Users : AddUserSession(s, u)
  \/ \E t \in Threads :
       \/ \E u \in Users, r \in Rooms : AddUserRoom(t, u, r)
       \/ \E u \in Users : DeleteUserRoom(t, u)
       \/ \E s \in Sessions : Disconnect(t, s)
       \/ InMethod(t)
       \/ Answer(t)
       \/ AnswerError(t)

Spec == Init /\ [][Next]_presenceVars

-----------------------------------------------------------------------------
(* Properties. *)

\* The maps hold users, rooms and numbers.
TypeOK ==
  /\ userSessions \in [Sessions -> Users \cup {None}]
  /\ userRooms \in [Users -> Rooms \cup {None}]
  /\ place \in [Users -> Rooms \cup {None}]
  /\ \A r \in Rooms : userCount[r] = None \/ userCount[r] \in Int

AtRest == Calls = {}

\* As long as requests never overlap and users keep to their own rooms, the
\* number kept for a room is, between requests, the number of users who have it
\* open (addUserRoom and deleteUserRoom, over any sequence of moves).  A third
\* user in a room breaks it: deleteUserRoom then writes 1 for two.
CountsPresence == InTurn /\ AtRest => \A r \in Rooms : CountOf(r) = Holds(r)

\* As long as requests never overlap and users keep to their own rooms, no null
\* count is unboxed (ConnectState's userCount.get).
NothingFails == InTurn => \A t \in Threads : ~At(t, "failed")

\* Requests of different users overlap in any way, for any rooms: a user with
\* no request under way is where its last addUserRoom or deleteUserRoom that
\* returned put it, whatever became of the request afterwards.  One that throws
\* half-way has not moved its user, and no other user's request ever does.
UserStaysPut ==
  \A u \in Users : (\A t \in Calls : User(t) # u) => userRooms[u] = place[u]
==============================================================================
