----------------------------- MODULE PresenceProofs -----------------------------
(***************************************************************************)
(* Proofs about ConnectState as ChatRooms uses it, for any number of users,  *)
(* rooms (of small ids or large), sessions and threads.                     *)
(***************************************************************************)
EXTENDS ChatRooms, FiniteSetTheorems, TLAPS

USE DEF environment, InTurn

EnterAts == {"contains", "compare", "oldRoom", "oldCount", "roomAgain", "recount", "join",
             "size", "grow", "returned", "load", "commit", "failed"}
LeaveAts == {"contains", "oldRoom", "oldCount", "roomAgain", "recount", "remove",
             "returned", "failed"}
RowAts == {"count", "insert", "save", "failed"}
Leaves == {"leave", "disconnect"}
Rows == {"send", "notify"}
CallRecords ==
  [at : {"idle"} \cup EnterAts \cup LeaveAts \cup RowAts,
   op : {None, "enter"} \cup Leaves \cup Rows, user : Users \cup {None},
   room : Rooms \cup {None}, session : Sessions \cup {None}, key : Rooms \cup {None},
   n : Int \cup {None}]

MapsOK ==
  /\ alone \in BOOLEAN /\ atHome \in BOOLEAN
  /\ userSessions \in [Sessions -> Users \cup {None}]
  /\ userRooms \in [Users -> Rooms \cup {None}]
  /\ place \in [Users -> Rooms \cup {None}]
  /\ userCount \in [Rooms -> Int \cup {None}]
  /\ call \in [Threads -> CallRecords]

\* As long as users keep to their rooms, only its members have a room open.
InsideOK == atHome => \A u \in Users, r \in Rooms : userRooms[u] = r => u \in Members[r]

\* Requests of one user do not overlap; alone, none do.
Apart == \A t, o \in Calls : t # o => ~alone /\ User(t) # User(o)

\* What a call in each method is.
CallOK(t) ==
  /\ User(t) \in Users
  /\ \/ /\ Entering(t) /\ call[t].at \in EnterAts
        /\ Room(t) \in Rooms /\ (atHome => User(t) \in Members[Room(t)])
     \/ call[t].op \in Leaves /\ call[t].at \in LeaveAts /\ Room(t) = None
     \/ call[t].op \in Rows /\ call[t].at \in RowAts /\ Room(t) \in Rooms
  /\ call[t].at \in {"roomAgain", "recount", "grow"} => call[t].n \in Int

\* Where the user of a call is.
Moved == {"size", "grow", "returned", "load", "commit"}
PlaceOK(t) ==
  /\ userRooms[User(t)] = IF call[t].at \in Moved THEN Room(t) ELSE place[User(t)]
  /\ atHome /\ call[t].op \in Rows => place[User(t)] = Room(t)

In(rooms, r) == {u \in Users : rooms[u] = r}
Out(rooms, r, u) == {v \in Users \ {u} : rooms[v] = r}

\* In turn, the counts are right, or right but for the user that is moved.
Away == {"join", "size", "grow", "remove"}
CountOK(t) ==
  /\ \A r \in Rooms :
       CountOf(r) = IF call[t].at \in Away THEN Cardinality(Out(userRooms, r, User(t)))
                    ELSE Cardinality(In(userRooms, r))
  /\ call[t].at \in {"compare", "oldRoom", "oldCount", "roomAgain", "recount"}
       => userRooms[User(t)] # None
  /\ call[t].at \in {"oldCount", "recount"} => call[t].key = userRooms[User(t)]
  /\ call[t].at \in {"roomAgain", "recount"} => call[t].n = userCount[userRooms[User(t)]]
  /\ call[t].at = "grow" => call[t].n = CountOf(Room(t))
  /\ call[t].at # "failed"

ThreadOK(t) == t \in Calls => CallOK(t) /\ PlaceOK(t) /\ (InTurn => CountOK(t))

RestOK == InTurn /\ AtRest => \A r \in Rooms : CountOf(r) = Cardinality(In(userRooms, r))

PresenceInv ==
  /\ MapsOK /\ InsideOK /\ Apart /\ UserStaysPut /\ RestOK
  /\ \A t \in Threads : ThreadOK(t)

-----------------------------------------------------------------------------
(* Counting. *)

LEMMA RoomIsFinite ==
  ASSUME NEW rooms, \A u \in Users, r \in Rooms : rooms[u] = r => u \in Members[r],
         NEW r \in Rooms
  PROVE  IsFiniteSet(In(rooms, r)) /\ Cardinality(In(rooms, r)) \in 0 .. 2
<1>1. In(rooms, r) \subseteq Members[r]
  BY DEF In
<1>2. IsFiniteSet(Members[r]) /\ Cardinality(Members[r]) <= 2
  BY PresenceConstants
<1>3. IsFiniteSet(In(rooms, r)) /\ Cardinality(In(rooms, r)) <= Cardinality(Members[r])
  BY <1>1, <1>2, FS_Subset
<1> QED
  BY <1>2, <1>3, FS_CardinalityType

\* A room holds its other users, and the user if it is there.
LEMMA HoldsIs ==
  ASSUME NEW rooms, \A v \in Users, r \in Rooms : rooms[v] = r => v \in Members[r],
         NEW r \in Rooms, NEW u \in Users
  PROVE  /\ Cardinality(In(rooms, r)) \in 0 .. 2
         /\ Cardinality(Out(rooms, r, u)) \in Nat
         /\ rooms[u] = r => Cardinality(In(rooms, r)) = Cardinality(Out(rooms, r, u)) + 1
         /\ rooms[u] # r => Cardinality(In(rooms, r)) = Cardinality(Out(rooms, r, u))
<1>1. IsFiniteSet(In(rooms, r)) /\ Cardinality(In(rooms, r)) \in 0 .. 2
  BY RoomIsFinite
<1>2. Out(rooms, r, u) = In(rooms, r) \ {u}
  BY DEF In, Out
<1>3. /\ IsFiniteSet(In(rooms, r) \ {u})
      /\ Cardinality(In(rooms, r) \ {u}) =
           IF u \in In(rooms, r) THEN Cardinality(In(rooms, r)) - 1 ELSE Cardinality(In(rooms, r))
  BY <1>1, FS_RemoveElement
<1>4. Cardinality(In(rooms, r) \ {u}) \in Nat
  BY <1>3, FS_CardinalityType
<1>5. u \in In(rooms, r) <=> rooms[u] = r
  BY DEF In
<1> QED
  BY <1>1, <1>2, <1>3, <1>4, <1>5

\* The others of a room do not depend on where the user itself is.
LEMMA OthersStay ==
  ASSUME NEW rooms, NEW after, NEW u \in Users,
         \A v \in Users \ {u} : after[v] = rooms[v]
  PROVE  \A r \in Rooms : Out(after, r, u) = Out(rooms, r, u)
BY DEF Out

LEMMA HoldsDef == \A r \in Rooms : Holds(r) = Cardinality(In(userRooms, r))
BY DEF Holds, In

-----------------------------------------------------------------------------
LEMMA PresenceInit == ChatInit => PresenceInv
<1> SUFFICES ASSUME ChatInit PROVE PresenceInv
  OBVIOUS
<1> USE PresenceConstants DEF ChatInit, Init
<1>1. Idle \in CallRecords /\ Idle.at = "idle"
  BY DEF Idle, CallRecords
<1>2. MapsOK
  BY <1>1 DEF MapsOK
<1>3. Calls = {}
  BY <1>1 DEF Calls, At
<1>4. InsideOK /\ Apart /\ UserStaysPut /\ \A t \in Threads : ThreadOK(t)
  BY <1>3 DEF InsideOK, Apart, UserStaysPut, ThreadOK
<1>5. RestOK
  <2> SUFFICES ASSUME NEW r \in Rooms PROVE CountOf(r) = Cardinality(In(userRooms, r))
    BY DEF RestOK
  <2>1. In(userRooms, r) = {}
    BY DEF In
  <2> QED
    BY <2>1, FS_EmptySet DEF CountOf
<1> QED
  BY <1>2, <1>4, <1>5 DEF PresenceInv

\* What a step of one thread, for one user, has to show.
Others(t, u) ==
  /\ \A o \in Calls \ {t} : ~alone /\ User(o) # u
  /\ UNCHANGED environment
  /\ \A o \in Threads \ {t} : call'[o] = call[o]
  /\ \A v \in Users \ {u} : userRooms'[v] = userRooms[v] /\ place'[v] = place[v]
  /\ t \in Calls => User(t) = u

LEMMA StepInv ==
  ASSUME PresenceInv, NEW t \in Threads, NEW u \in Users, Others(t, u), MapsOK',
         atHome /\ userRooms'[u] \in Rooms => u \in Members[userRooms'[u]],
         At(t, "idle")' => userRooms'[u] = place'[u] /\ RestOK',
         ~At(t, "idle")' => User(t)' = u /\ ThreadOK(t)'
  PROVE  PresenceInv'
<1> USE DEF PresenceInv
<1>1. InsideOK'
  BY DEF InsideOK, Others, MapsOK
<1>2. \A o \in Calls' \ {t} : o \in Calls \ {t} /\ User(o)' = User(o) /\ call'[o] = call[o]
  BY DEF Calls, At, User, Others
<1>3. \A o \in Calls \ {t} : o \in Calls' \ {t}
  BY DEF Calls, At, Others
<1>4. Apart'
  <2> SUFFICES ASSUME NEW a \in Calls', NEW b \in Calls', a # b
               PROVE  ~alone' /\ User(a)' # User(b)'
    BY DEF Apart
  <2>1. CASE a # t /\ b # t
    BY <2>1, <1>2 DEF Apart, Others
  <2>2. CASE a = t
    BY <2>2, <1>2 DEF Calls, Others
  <2>3. CASE b = t
    BY <2>3, <1>2 DEF Calls, Others
  <2> QED
    BY <2>1, <2>2, <2>3
<1>5. UserStaysPut'
  <2> SUFFICES ASSUME NEW v \in Users, \A o \in Calls' : User(o)' # v
               PROVE  userRooms'[v] = place'[v]
    BY DEF UserStaysPut
  <2>1. CASE v = u
    BY <2>1 DEF Calls
  <2>2. CASE v # u
    <3>1. \A o \in Calls : User(o) # v
      BY <2>2, <1>2, <1>3 DEF Others
    <3> QED
      BY <2>2, <3>1 DEF UserStaysPut, Others
  <2> QED
    BY <2>1, <2>2
<1>6. RestOK'
  <2>1. CASE At(t, "idle")'
    BY <2>1
  <2>2. CASE ~At(t, "idle")'
    BY <2>2 DEF RestOK, AtRest, Calls
  <2> QED
    BY <2>1, <2>2
<1>7. ASSUME NEW o \in Threads PROVE ThreadOK(o)'
  <2>1. CASE o = t
    BY <2>1 DEF ThreadOK, Calls
  <2>2. CASE o # t /\ o \in Calls'
    <3>1. ~alone' /\ call'[o] = call[o] /\ ThreadOK(o) /\ o \in Calls /\ User(o) # u
      BY <2>2, <1>2 DEF Others
    <3>2. CallOK(o) /\ PlaceOK(o)
      BY <3>1 DEF ThreadOK
    <3>3. CallOK(o)'
      BY <3>1, <3>2 DEF CallOK, User, Room, Entering, Others
    <3>4. userRooms'[User(o)] = userRooms[User(o)] /\ place'[User(o)] = place[User(o)]
      BY <3>1, <3>2 DEF Others, CallOK
    <3>5. PlaceOK(o)'
      BY <3>1, <3>2, <3>4 DEF PlaceOK, User, Room, Others
    <3> QED
      BY <3>1, <3>3, <3>5 DEF ThreadOK
  <2>3. CASE o \notin Calls'
    BY <2>3 DEF ThreadOK
  <2> QED
    BY <2>1, <2>2, <2>3
<1> QED
  BY <1>1, <1>4, <1>5, <1>6, <1>7

-----------------------------------------------------------------------------
(* How a step changes its thread's call. *)

Labels == {"idle"} \cup EnterAts \cup LeaveAts \cup RowAts
SameCaller(t) == /\ call'[t].op = call[t].op /\ call'[t].user = call[t].user
                 /\ call'[t].room = call[t].room
OnlyCall(t) == /\ call' \in [Threads -> CallRecords]
               /\ \A o \in Threads \ {t} : call'[o] = call[o]

LEMMA GoIs ==
  ASSUME MapsOK, NEW t \in Threads, NEW label \in Labels, Go(t, label)
  PROVE  /\ OnlyCall(t) /\ SameCaller(t) /\ call'[t].at = label
         /\ call'[t].key = call[t].key /\ call'[t].n = call[t].n
<1> DEFINE c == [call[t] EXCEPT !.at = label]
<1>1. call[t] \in CallRecords
  BY DEF MapsOK
<1>2. c \in CallRecords
  BY <1>1 DEF CallRecords, Labels
<1>3. call' = [call EXCEPT ![t] = c]
  BY DEF Go
<1>4. /\ c.at = label /\ c.op = call[t].op /\ c.user = call[t].user /\ c.room = call[t].room
      /\ c.key = call[t].key /\ c.n = call[t].n
  BY <1>1 DEF CallRecords
<1> HIDE DEF c
<1> QED
  BY <1>2, <1>3, <1>4 DEF MapsOK, OnlyCall, SameCaller

LEMMA LoadKeyIs ==
  ASSUME MapsOK, NEW t \in Threads, NEW label \in Labels, NEW v \in Rooms \cup {None},
         Load(t, label, "key", v)
  PROVE  /\ OnlyCall(t) /\ SameCaller(t) /\ call'[t].at = label
         /\ call'[t].key = v /\ call'[t].n = call[t].n
<1> DEFINE c == [call[t] EXCEPT !.at = label, !.key = v]
<1>1. call[t] \in CallRecords
  BY DEF MapsOK
<1>2. c \in CallRecords
  BY <1>1 DEF CallRecords, Labels
<1>3. call' = [call EXCEPT ![t] = c]
  BY DEF Load
<1>4. /\ c.at = label /\ c.op = call[t].op /\ c.user = call[t].user /\ c.room = call[t].room
      /\ c.key = v /\ c.n = call[t].n
  BY <1>1 DEF CallRecords
<1> HIDE DEF c
<1> QED
  BY <1>2, <1>3, <1>4 DEF MapsOK, OnlyCall, SameCaller

LEMMA LoadNIs ==
  ASSUME MapsOK, NEW t \in Threads, NEW label \in Labels, NEW v \in Int \cup {None},
         Load(t, label, "n", v)
  PROVE  /\ OnlyCall(t) /\ SameCaller(t) /\ call'[t].at = label
         /\ call'[t].key = call[t].key /\ call'[t].n = v
<1> DEFINE c == [call[t] EXCEPT !.at = label, !.n = v]
<1>1. call[t] \in CallRecords
  BY DEF MapsOK
<1>2. c \in CallRecords
  BY <1>1 DEF CallRecords, Labels
<1>3. call' = [call EXCEPT ![t] = c]
  BY DEF Load
<1>4. /\ c.at = label /\ c.op = call[t].op /\ c.user = call[t].user /\ c.room = call[t].room
      /\ c.key = call[t].key /\ c.n = v
  BY <1>1 DEF CallRecords
<1> HIDE DEF c
<1> QED
  BY <1>2, <1>3, <1>4 DEF MapsOK, OnlyCall, SameCaller

LEMMA IdleIs ==
  ASSUME MapsOK, NEW t \in Threads, call' = [call EXCEPT ![t] = Idle]
  PROVE  OnlyCall(t) /\ At(t, "idle")'
<1>1. Idle \in CallRecords /\ Idle.at = "idle"
  BY DEF Idle, CallRecords
<1> QED
  BY <1>1 DEF MapsOK, OnlyCall, At

\* What is known of a call under way.
LEMMA Own ==
  ASSUME PresenceInv, NEW t \in Threads, ~At(t, "idle")
  PROVE  /\ t \in Calls /\ User(t) \in Users
         /\ \A o \in Calls \ {t} : ~alone /\ User(o) # User(t)
         /\ CallOK(t) /\ PlaceOK(t) /\ (InTurn => CountOK(t))
<1>1. t \in Calls
  BY DEF Calls
<1>2. CallOK(t) /\ PlaceOK(t) /\ (InTurn => CountOK(t))
  BY <1>1 DEF PresenceInv, ThreadOK
<1> QED
  BY <1>1, <1>2 DEF PresenceInv, Apart, CallOK

\* A step that only changes what its thread knows.
LEMMA LocalInv ==
  ASSUME PresenceInv, NEW t \in Threads, ~At(t, "idle"), OnlyCall(t), SameCaller(t),
         call'[t].at # "idle",
         UNCHANGED <<environment, userSessions, userRooms, userCount, place>>,
         CallOK(t)', PlaceOK(t)', InTurn => CountOK(t)'
  PROVE  PresenceInv'
<1> DEFINE u == User(t)
<1>1. u \in Users /\ Others(t, u)
  BY Own DEF Others, OnlyCall
<1>2. MapsOK'
  BY DEF PresenceInv, MapsOK, OnlyCall
<1>3. atHome /\ userRooms'[u] \in Rooms => u \in Members[userRooms'[u]]
  BY <1>1 DEF PresenceInv, InsideOK
<1>4. User(t)' = u /\ ThreadOK(t)' /\ ~At(t, "idle")'
  BY DEF ThreadOK, User, SameCaller, At
<1> HIDE DEF u
<1> QED
  BY <1>1, <1>2, <1>3, <1>4, StepInv

-----------------------------------------------------------------------------
(* The steps that look. *)

\* What Own says of the counts where the user is not between two rooms, and is.
LEMMA Counted ==
  ASSUME PresenceInv, NEW t \in Threads, ~At(t, "idle"), NEW r \in Rooms
  PROVE  /\ userCount[r] \in Int \cup {None} /\ CountOf(r) \in Int
         /\ userCount[r] # None => CountOf(r) = userCount[r]
         /\ InTurn /\ userRooms[User(t)] = r /\ call[t].at \notin Away
              => userCount[r] # None /\ CountOf(r) \in 1 .. 2
         /\ InTurn /\ userRooms[User(t)] # r
              => Cardinality(In(userRooms, r)) = Cardinality(Out(userRooms, r, User(t)))
         /\ InTurn /\ userRooms[User(t)] = r
              => Cardinality(In(userRooms, r)) = Cardinality(Out(userRooms, r, User(t))) + 1
<1>1. userCount[r] \in Int \cup {None} /\ None \notin Int
  BY PresenceConstants DEF PresenceInv, MapsOK
<1>2. CountOf(r) \in Int /\ (userCount[r] # None => CountOf(r) = userCount[r])
  BY <1>1 DEF CountOf
<1>3. InTurn =>
      /\ Cardinality(In(userRooms, r)) \in 0 .. 2
      /\ Cardinality(Out(userRooms, r, User(t))) \in Nat
      /\ userRooms[User(t)] = r
           => Cardinality(In(userRooms, r)) = Cardinality(Out(userRooms, r, User(t))) + 1
      /\ userRooms[User(t)] # r
           => Cardinality(In(userRooms, r)) = Cardinality(Out(userRooms, r, User(t)))
  BY Own, HoldsIs DEF PresenceInv, InsideOK
<1>4. InTurn /\ call[t].at \notin Away => CountOf(r) = Cardinality(In(userRooms, r))
  BY Own DEF CountOK
<1>5. CountOf(r) # 0 => userCount[r] # None
  BY DEF CountOf
<1> QED
  BY <1>1, <1>2, <1>3, <1>4, <1>5

\* The counts of CountOK are not touched by a step that looks, unless it goes from a
\* user that is in a room to one that is between two.
CountsOK(t) == \A r \in Rooms :
  CountOf(r) = IF call[t].at \in Away THEN Cardinality(Out(userRooms, r, User(t)))
               ELSE Cardinality(In(userRooms, r))

LEMMA SameCounts ==
  ASSUME PresenceInv, NEW t \in Threads, ~At(t, "idle"), SameCaller(t),
         UNCHANGED <<userRooms, userCount>>, InTurn,
         call[t].at \in Away <=> call'[t].at \in Away
  PROVE  CountsOK(t)'
<1>1. CountsOK(t)
  BY Own DEF CountOK, CountsOK
<1>2. User(t)' = User(t) /\ \A r \in Rooms : CountOf(r)' = CountOf(r)
  BY DEF SameCaller, User, CountOf
<1> QED
  BY <1>1, <1>2 DEF CountsOK

LEMMA ContainsInv == ASSUME PresenceInv, NEW t \in Threads, Contains(t) PROVE PresenceInv'
<1> DEFINE label == IF userRooms[User(t)] = None
                    THEN IF Entering(t) THEN "join" ELSE "returned"
                    ELSE IF Entering(t) THEN "compare" ELSE "oldRoom"
<1>1. /\ Go(t, label) /\ label \in Labels /\ call[t].at = "contains" /\ ~At(t, "idle")
      /\ UNCHANGED <<environment, userSessions, userRooms, userCount, place>>
  BY DEF Contains, At, Labels, EnterAts, LeaveAts
<1>2. OnlyCall(t) /\ SameCaller(t) /\ call'[t].at = label
  BY <1>1, GoIs DEF PresenceInv
<1>3. CallOK(t) /\ PlaceOK(t) /\ (InTurn => CountOK(t)) /\ User(t) \in Users
  BY <1>1, Own
<1>4. CallOK(t)'
  BY <1>1, <1>2, <1>3 DEF CallOK, User, Room, Entering, SameCaller, EnterAts, LeaveAts, RowAts,
                          Leaves, Rows
<1>5. PlaceOK(t)'
  BY <1>1, <1>2, <1>3 DEF CallOK, PlaceOK, User, Room, Entering, SameCaller, Moved, RowAts, Rows,
                          Leaves
<1>6. ASSUME InTurn PROVE CountOK(t)'
  <2>1. label # "join" => CountsOK(t)'
    BY <1>1, <1>2, <1>6, SameCounts DEF Away
  <2>2. ASSUME label = "join", NEW r \in Rooms
        PROVE  CountOf(r)' = Cardinality(Out(userRooms, r, User(t)))
    <3>1. userRooms[User(t)] = None /\ None \notin Rooms
      BY <2>2, PresenceConstants
    <3>2. CountOf(r) = Cardinality(In(userRooms, r))
      BY <1>1, <1>3, <1>6 DEF CountOK, Away
    <3>3. CountOf(r)' = CountOf(r)
      BY <1>1 DEF CountOf
    <3> QED
      BY <1>1, <1>6, <3>1, <3>2, <3>3, Counted
  <2>3. label = "join" => CountsOK(t)'
    BY <1>1, <1>2, <2>2 DEF CountsOK, SameCaller, User, Away
  <2>4. label \in {"compare", "oldRoom"} => userRooms[User(t)] # None
    OBVIOUS
  <2> QED
    BY <1>1, <1>2, <2>1, <2>3, <2>4 DEF CountOK, CountsOK, SameCaller, User
<1> QED
  BY <1>1, <1>2, <1>4, <1>5, <1>6, LocalInv DEF Labels

LEMMA CompareInv == ASSUME PresenceInv, NEW t \in Threads, Compare(t) PROVE PresenceInv'
<1> DEFINE label == IF userRooms[User(t)] = Room(t) /\ Room(t) \in SmallRooms
                    THEN "returned" ELSE "oldRoom"
<1>1. /\ Go(t, label) /\ label \in Labels /\ call[t].at = "compare" /\ ~At(t, "idle")
      /\ UNCHANGED <<environment, userSessions, userRooms, userCount, place>>
  BY DEF Compare, At, Labels, EnterAts, LeaveAts
<1>2. OnlyCall(t) /\ SameCaller(t) /\ call'[t].at = label
  BY <1>1, GoIs DEF PresenceInv
<1>3. CallOK(t) /\ PlaceOK(t) /\ (InTurn => CountOK(t)) /\ User(t) \in Users
  BY <1>1, Own
<1>4. CallOK(t)'
  BY <1>1, <1>2, <1>3 DEF CallOK, User, Room, Entering, SameCaller, EnterAts, LeaveAts, RowAts,
                          Leaves, Rows
<1>5. PlaceOK(t)'
  BY <1>1, <1>2, <1>3 DEF CallOK, PlaceOK, User, Room, Entering, SameCaller, Moved, RowAts, Rows,
                          LeaveAts
<1>6. ASSUME InTurn PROVE CountOK(t)'
  <2>1. CountsOK(t)'
    BY <1>1, <1>2, <1>6, SameCounts DEF Away
  <2> QED
    BY <1>1, <1>2, <1>3, <1>6, <2>1 DEF CountOK, CountsOK, SameCaller, User
<1> QED
  BY <1>1, <1>2, <1>4, <1>5, <1>6, LocalInv DEF Labels

LEMMA OldRoomInv == ASSUME PresenceInv, NEW t \in Threads, OldRoom(t) PROVE PresenceInv'
<1>1. /\ Load(t, "oldCount", "key", userRooms[User(t)]) /\ call[t].at = "oldRoom"
      /\ ~At(t, "idle") /\ UNCHANGED <<environment, userSessions, userRooms, userCount, place>>
  BY DEF OldRoom, At
<1>2. CallOK(t) /\ PlaceOK(t) /\ (InTurn => CountOK(t)) /\ User(t) \in Users
  BY <1>1, Own
<1>3. /\ OnlyCall(t) /\ SameCaller(t) /\ call'[t].at = "oldCount"
      /\ call'[t].key = userRooms[User(t)]
  BY <1>1, <1>2, LoadKeyIs DEF PresenceInv, MapsOK, Labels, EnterAts
<1>4. CallOK(t)'
  BY <1>1, <1>2, <1>3 DEF CallOK, User, Room, Entering, SameCaller, EnterAts, LeaveAts, RowAts
<1>5. PlaceOK(t)'
  BY <1>1, <1>2, <1>3 DEF PlaceOK, User, Room, SameCaller, Moved
<1>6. ASSUME InTurn PROVE CountOK(t)'
  <2>1. CountsOK(t)'
    BY <1>1, <1>3, <1>6, SameCounts DEF Away
  <2> QED
    BY <1>1, <1>2, <1>3, <1>6, <2>1 DEF CountOK, CountsOK, SameCaller, User
<1> QED
  BY <1>1, <1>3, <1>4, <1>5, <1>6, LocalInv

LEMMA OldCountInv == ASSUME PresenceInv, NEW t \in Threads, OldCount(t) PROVE PresenceInv'
<1>1. /\ Load(t, "roomAgain", "n", userCount[call[t].key]) /\ call[t].at = "oldCount"
      /\ call[t].key # None /\ userCount[call[t].key] # None
      /\ ~At(t, "idle") /\ UNCHANGED <<environment, userSessions, userRooms, userCount, place>>
  BY DEF OldCount, At
<1>2. CallOK(t) /\ PlaceOK(t) /\ (InTurn => CountOK(t)) /\ User(t) \in Users
  BY <1>1, Own
<1>3. call[t].key \in Rooms /\ userCount[call[t].key] \in Int
  BY <1>1 DEF PresenceInv, MapsOK, CallRecords
<1>4. /\ OnlyCall(t) /\ SameCaller(t) /\ call'[t].at = "roomAgain"
      /\ call'[t].n = userCount[call[t].key]
  BY <1>1, <1>3, LoadNIs DEF PresenceInv, Labels, EnterAts
<1>5. CallOK(t)'
  BY <1>1, <1>2, <1>3, <1>4 DEF CallOK, User, Room, Entering, SameCaller, EnterAts, LeaveAts,
                                RowAts
<1>6. PlaceOK(t)'
  BY <1>1, <1>2, <1>4 DEF PlaceOK, User, Room, SameCaller, Moved
<1>7. ASSUME InTurn PROVE CountOK(t)'
  <2>1. CountsOK(t)'
    BY <1>1, <1>4, <1>7, SameCounts DEF Away
  <2> QED
    BY <1>1, <1>2, <1>4, <1>7, <2>1 DEF CountOK, CountsOK, SameCaller, User
<1> QED
  BY <1>1, <1>4, <1>5, <1>6, <1>7, LocalInv

LEMMA RoomAgainInv == ASSUME PresenceInv, NEW t \in Threads, RoomAgain(t) PROVE PresenceInv'
<1>1. /\ Load(t, "recount", "key", userRooms[User(t)]) /\ call[t].at = "roomAgain"
      /\ ~At(t, "idle") /\ UNCHANGED <<environment, userSessions, userRooms, userCount, place>>
  BY DEF RoomAgain, At
<1>2. CallOK(t) /\ PlaceOK(t) /\ (InTurn => CountOK(t)) /\ User(t) \in Users
  BY <1>1, Own
<1>3. /\ OnlyCall(t) /\ SameCaller(t) /\ call'[t].at = "recount"
      /\ call'[t].key = userRooms[User(t)] /\ call'[t].n = call[t].n
  BY <1>1, <1>2, LoadKeyIs DEF PresenceInv, MapsOK, Labels, EnterAts
<1>4. CallOK(t)'
  BY <1>1, <1>2, <1>3 DEF CallOK, User, Room, Entering, SameCaller, EnterAts, LeaveAts, RowAts
<1>5. PlaceOK(t)'
  BY <1>1, <1>2, <1>3 DEF PlaceOK, User, Room, SameCaller, Moved
<1>6. ASSUME InTurn PROVE CountOK(t)'
  <2>1. CountsOK(t)'
    BY <1>1, <1>3, <1>6, SameCounts DEF Away
  <2> QED
    BY <1>1, <1>2, <1>3, <1>6, <2>1 DEF CountOK, CountsOK, SameCaller, User
<1> QED
  BY <1>1, <1>3, <1>4, <1>5, <1>6, LocalInv

\* In turn, what is unboxed is never null.
LEMMA NullPointerInv ==
  ASSUME PresenceInv, NEW t \in Threads, NullPointer(t)
  PROVE  PresenceInv'
<1>1. /\ Go(t, "failed") /\ call[t].at \in {"oldCount", "recount"} /\ ~At(t, "idle")
      /\ UNCHANGED <<environment, userSessions, userRooms, userCount, place>>
  BY DEF NullPointer, At
<1>2. CallOK(t) /\ PlaceOK(t) /\ (InTurn => CountOK(t)) /\ User(t) \in Users
  BY <1>1, Own
<1>3. OnlyCall(t) /\ SameCaller(t) /\ call'[t].at = "failed"
  BY <1>1, GoIs DEF PresenceInv, Labels, EnterAts
<1>4. CallOK(t)'
  BY <1>1, <1>2, <1>3 DEF CallOK, User, Room, Entering, SameCaller, EnterAts, LeaveAts, RowAts
<1>5. PlaceOK(t)'
  BY <1>1, <1>2, <1>3 DEF PlaceOK, User, Room, SameCaller, Moved
<1>6. ~InTurn
  <2> SUFFICES ASSUME InTurn PROVE FALSE
    OBVIOUS
  <2>1. call[t].key = userRooms[User(t)] /\ userRooms[User(t)] # None
    BY <1>1, <1>2 DEF CountOK
  <2>2. userRooms[User(t)] \in Rooms
    BY <1>2, <2>1 DEF PresenceInv, MapsOK
  <2>3. userCount[userRooms[User(t)]] # None
    BY <1>1, <2>2, Counted DEF Away
  <2> QED
    BY <2>1, <2>3 DEF NullPointer, At
<1> QED
  BY <1>1, <1>3, <1>4, <1>5, <1>6, LocalInv

LEMMA SizeInv == ASSUME PresenceInv, NEW t \in Threads, Size(t) PROVE PresenceInv'
<1>1. /\ Load(t, "grow", "n", CountOf(Room(t))) /\ call[t].at = "size"
      /\ ~At(t, "idle") /\ UNCHANGED <<environment, userSessions, userRooms, userCount, place>>
  BY DEF Size, At
<1>2. CallOK(t) /\ PlaceOK(t) /\ (InTurn => CountOK(t)) /\ User(t) \in Users
  BY <1>1, Own
<1>3. Entering(t) /\ Room(t) \in Rooms
  BY <1>1, <1>2 DEF CallOK, LeaveAts, RowAts
<1>4. CountOf(Room(t)) \in Int
  BY <1>1, <1>3, Counted
<1>5. /\ OnlyCall(t) /\ SameCaller(t) /\ call'[t].at = "grow"
      /\ call'[t].n = CountOf(Room(t))
  BY <1>1, <1>4, LoadNIs DEF PresenceInv, Labels, EnterAts
<1>6. CallOK(t)'
  BY <1>1, <1>2, <1>3, <1>4, <1>5 DEF CallOK, User, Room, Entering, SameCaller, EnterAts, Leaves, Rows
<1>7. PlaceOK(t)'
  BY <1>1, <1>2, <1>5 DEF PlaceOK, User, Room, SameCaller, Moved
<1>8. ASSUME InTurn PROVE CountOK(t)'
  <2>1. CountsOK(t)'
    BY <1>1, <1>5, <1>8, SameCounts DEF Away
  <2>2. CountOf(Room(t))' = CountOf(Room(t))
    BY <1>1, <1>5 DEF CountOf, Room, SameCaller
  <2> QED
    BY <1>5, <2>1, <2>2 DEF CountOK, CountsOK, SameCaller, User
<1> QED
  BY <1>1, <1>5, <1>6, <1>7, <1>8, LocalInv

-----------------------------------------------------------------------------
(* The steps that write. *)

\* A step that changes a count, or where its user is.
LEMMA WriteInv ==
  ASSUME PresenceInv, NEW t \in Threads, ~At(t, "idle"), OnlyCall(t), SameCaller(t),
         call'[t].at # "idle",
         UNCHANGED <<environment, userSessions, place>>,
         userRooms' \in [Users -> Rooms \cup {None}],
         userCount' \in [Rooms -> Int \cup {None}],
         \A v \in Users \ {User(t)} : userRooms'[v] = userRooms[v],
         atHome /\ userRooms'[User(t)] \in Rooms => User(t) \in Members[userRooms'[User(t)]],
         CallOK(t)', PlaceOK(t)', InTurn => CountOK(t)'
  PROVE  PresenceInv'
<1> DEFINE u == User(t)
<1>1. u \in Users /\ Others(t, u)
  BY Own DEF Others, OnlyCall
<1>2. MapsOK'
  BY DEF PresenceInv, MapsOK, OnlyCall
<1>3. User(t)' = u /\ ThreadOK(t)' /\ ~At(t, "idle")'
  BY DEF ThreadOK, User, SameCaller, At
<1>4. atHome /\ userRooms'[u] \in Rooms => u \in Members[userRooms'[u]]
  OBVIOUS
<1> HIDE DEF u
<1> QED
  BY <1>1, <1>2, <1>3, <1>4, StepInv

LEMMA RecountInv == ASSUME PresenceInv, NEW t \in Threads, Recount(t) PROVE PresenceInv'
<1> DEFINE label == IF Entering(t) THEN "join" ELSE "remove"
           key == call[t].key
           u == User(t)
<1>1. /\ Go(t, label) /\ label \in Labels /\ call[t].at = "recount" /\ ~At(t, "idle")
      /\ key # None /\ userCount' = [userCount EXCEPT ![key] = LessOne(t)]
      /\ UNCHANGED <<environment, userSessions, userRooms, place>>
  BY DEF Recount, At, Labels, EnterAts, LeaveAts
<1>2. CallOK(t) /\ PlaceOK(t) /\ (InTurn => CountOK(t)) /\ u \in Users
  BY <1>1, Own
<1>3. OnlyCall(t) /\ SameCaller(t) /\ call'[t].at = label
  BY <1>1, GoIs DEF PresenceInv
<1>4. key \in Rooms /\ call[t].n \in Int /\ None \notin Int
  BY <1>1, <1>2, PresenceConstants DEF PresenceInv, MapsOK, CallRecords, CallOK
<1>5. LessOne(t) \in Int \cup {None}
  BY <1>4 DEF LessOne
<1>6. CallOK(t)'
  BY <1>1, <1>2, <1>3 DEF CallOK, User, Room, Entering, SameCaller, EnterAts, LeaveAts, RowAts,
                          Leaves, Rows
<1>7. PlaceOK(t)'
  BY <1>1, <1>2, <1>3 DEF PlaceOK, User, Room, SameCaller, Moved
<1>8. ASSUME InTurn, NEW r \in Rooms PROVE CountOf(r)' = Cardinality(Out(userRooms, r, u))
  <2>1. /\ key = userRooms[u] /\ call[t].n = userCount[key]
        /\ CountOf(r) = Cardinality(In(userRooms, r))
    BY <1>1, <1>2, <1>8 DEF CountOK, Away
  <2>2. CASE r = key
    <3>1. /\ userCount[r] # None /\ CountOf(r) = userCount[r] /\ CountOf(r) \in 1 .. 2
          /\ CountOf(r) = Cardinality(Out(userRooms, r, u)) + 1
          /\ Cardinality(Out(userRooms, r, u)) \in Nat
      BY <1>1, <1>2, <1>8, <2>1, <2>2, Counted, HoldsIs DEF Away, PresenceInv, InsideOK
    <3>2. userCount'[r] = LessOne(t)
      BY <1>1, <2>2 DEF PresenceInv, MapsOK
    <3> QED
      BY <1>4, <2>1, <2>2, <3>1, <3>2 DEF CountOf, LessOne
  <2>3. CASE r # key
    <3>1. userCount'[r] = userCount[r]
      BY <1>1, <2>3 DEF PresenceInv, MapsOK
    <3> QED
      BY <1>1, <1>8, <2>1, <2>3, <3>1, Counted DEF CountOf
  <2> QED
    BY <2>2, <2>3
<1>9. InTurn => CountOK(t)'
  BY <1>1, <1>3, <1>8 DEF CountOK, SameCaller, User, Away
<1>10. userCount' \in [Rooms -> Int \cup {None}]
  BY <1>1, <1>4, <1>5 DEF PresenceInv, MapsOK
<1>11. /\ userRooms' \in [Users -> Rooms \cup {None}]
       /\ \A v \in Users \ {u} : userRooms'[v] = userRooms[v]
       /\ atHome /\ userRooms'[u] \in Rooms => u \in Members[userRooms'[u]]
  BY <1>1, <1>2 DEF PresenceInv, MapsOK, InsideOK
<1>12. call'[t].at # "idle"
  BY <1>3
<1> HIDE DEF label, key
<1> QED
  BY <1>1, <1>3, <1>6, <1>7, <1>9, <1>10, <1>11, <1>12, WriteInv

LEMMA JoinInv == ASSUME PresenceInv, NEW t \in Threads, Join(t) PROVE PresenceInv'
<1> DEFINE u == User(t)
<1>1. /\ Go(t, "size") /\ call[t].at = "join" /\ ~At(t, "idle")
      /\ userRooms' = [userRooms EXCEPT ![u] = Room(t)]
      /\ UNCHANGED <<environment, userSessions, userCount, place>>
  BY DEF Join, At
<1>2. CallOK(t) /\ PlaceOK(t) /\ (InTurn => CountOK(t)) /\ u \in Users
  BY <1>1, Own
<1>3. OnlyCall(t) /\ SameCaller(t) /\ call'[t].at = "size"
  BY <1>1, GoIs DEF PresenceInv, Labels, EnterAts
<1>4. Entering(t) /\ Room(t) \in Rooms /\ (atHome => u \in Members[Room(t)])
  BY <1>1, <1>2 DEF CallOK, LeaveAts, RowAts
<1>5. CallOK(t)'
  BY <1>1, <1>2, <1>3, <1>4 DEF CallOK, User, Room, Entering, SameCaller, EnterAts, Leaves, Rows
<1>6. /\ userRooms' \in [Users -> Rooms \cup {None}] /\ userRooms'[u] = Room(t)
      /\ \A v \in Users \ {u} : userRooms'[v] = userRooms[v]
  BY <1>1, <1>2, <1>4 DEF PresenceInv, MapsOK
<1>7. PlaceOK(t)'
  BY <1>1, <1>2, <1>3, <1>4, <1>6 DEF PlaceOK, User, Room, SameCaller, Moved, Entering, Rows
<1>8. ASSUME InTurn, NEW r \in Rooms PROVE CountOf(r)' = Cardinality(Out(userRooms', r, u))
  <2>1. CountOf(r) = Cardinality(Out(userRooms, r, u))
    BY <1>1, <1>2, <1>8 DEF CountOK, Away
  <2>2. Out(userRooms', r, u) = Out(userRooms, r, u)
    BY <1>2, <1>6, OthersStay
  <2> QED
    BY <1>1, <2>1, <2>2 DEF CountOf
<1>9. InTurn => CountOK(t)'
  BY <1>1, <1>3, <1>8 DEF CountOK, SameCaller, User, Away
<1>10. userCount' \in [Rooms -> Int \cup {None}]
  BY <1>1 DEF PresenceInv, MapsOK
<1> QED
  BY <1>1, <1>3, <1>4, <1>5, <1>6, <1>7, <1>9, <1>10, WriteInv

LEMMA GrowInv == ASSUME PresenceInv, NEW t \in Threads, Grow(t) PROVE PresenceInv'
<1> DEFINE u == User(t)
<1>1. /\ Go(t, "returned") /\ call[t].at = "grow" /\ ~At(t, "idle")
      /\ userCount' = [userCount EXCEPT ![Room(t)] = call[t].n + 1]
      /\ UNCHANGED <<environment, userSessions, userRooms, place>>
  BY DEF Grow, At
<1>2. CallOK(t) /\ PlaceOK(t) /\ (InTurn => CountOK(t)) /\ u \in Users
  BY <1>1, Own
<1>3. OnlyCall(t) /\ SameCaller(t) /\ call'[t].at = "returned"
  BY <1>1, GoIs DEF PresenceInv, Labels, EnterAts
<1>4. Entering(t) /\ Room(t) \in Rooms /\ (atHome => u \in Members[Room(t)]) /\ call[t].n \in Int
  BY <1>1, <1>2 DEF CallOK, LeaveAts, RowAts
<1>5. CallOK(t)'
  BY <1>1, <1>2, <1>3, <1>4 DEF CallOK, User, Room, Entering, SameCaller, EnterAts, Leaves, Rows
<1>6. PlaceOK(t)'
  BY <1>1, <1>2, <1>3, <1>4 DEF PlaceOK, User, Room, SameCaller, Moved, Entering, Rows
<1>7. ASSUME InTurn, NEW r \in Rooms PROVE CountOf(r)' = Cardinality(In(userRooms, r))
  <2>1. CountOf(r) = Cardinality(Out(userRooms, r, u)) /\ call[t].n = CountOf(Room(t))
    BY <1>1, <1>2, <1>7 DEF CountOK, Away
  <2>2. userRooms[u] = Room(t)
    BY <1>1, <1>2 DEF PlaceOK, Moved
  <2>3. CASE r = Room(t)
    <3>1. userCount'[r] = call[t].n + 1 /\ call[t].n + 1 # None
      BY <1>1, <1>4, <2>3, PresenceConstants DEF PresenceInv, MapsOK
    <3> QED
      BY <1>1, <1>7, <2>1, <2>2, <2>3, <3>1, Counted DEF CountOf
  <2>4. CASE r # Room(t)
    <3>1. userCount'[r] = userCount[r]
      BY <1>1, <2>4 DEF PresenceInv, MapsOK
    <3> QED
      BY <1>1, <1>7, <2>1, <2>2, <2>4, <3>1, Counted DEF CountOf
  <2> QED
    BY <2>3, <2>4
<1>8. InTurn => CountOK(t)'
  BY <1>1, <1>3, <1>7 DEF CountOK, SameCaller, User, Away
<1>9. userCount' \in [Rooms -> Int \cup {None}]
  BY <1>1, <1>4 DEF PresenceInv, MapsOK
<1>10. /\ userRooms' \in [Users -> Rooms \cup {None}]
       /\ \A v \in Users \ {u} : userRooms'[v] = userRooms[v]
       /\ atHome /\ userRooms'[u] \in Rooms => u \in Members[userRooms'[u]]
  BY <1>1, <1>2 DEF PresenceInv, MapsOK, InsideOK
<1> QED
  BY <1>1, <1>3, <1>5, <1>6, <1>8, <1>9, <1>10, WriteInv

LEMMA RemoveInv == ASSUME PresenceInv, NEW t \in Threads, Remove(t) PROVE PresenceInv'
<1> DEFINE u == User(t)
<1>1. /\ Go(t, "returned") /\ call[t].at = "remove" /\ ~At(t, "idle")
      /\ userRooms' = [userRooms EXCEPT ![u] = None]
      /\ UNCHANGED <<environment, userSessions, userCount, place>>
  BY DEF Remove, At
<1>2. CallOK(t) /\ PlaceOK(t) /\ (InTurn => CountOK(t)) /\ u \in Users
  BY <1>1, Own
<1>3. OnlyCall(t) /\ SameCaller(t) /\ call'[t].at = "returned"
  BY <1>1, GoIs DEF PresenceInv, Labels, EnterAts
<1>4. call[t].op \in Leaves /\ Room(t) = None
  BY <1>1, <1>2 DEF CallOK, EnterAts, RowAts
<1>5. CallOK(t)'
  BY <1>1, <1>2, <1>3, <1>4 DEF CallOK, User, Room, Entering, SameCaller, LeaveAts, Leaves
<1>6. /\ userRooms' \in [Users -> Rooms \cup {None}] /\ userRooms'[u] = None
      /\ \A v \in Users \ {u} : userRooms'[v] = userRooms[v] /\ None \notin Rooms
  BY <1>1, <1>2, PresenceConstants DEF PresenceInv, MapsOK
<1>7. PlaceOK(t)'
  BY <1>1, <1>2, <1>3, <1>4, <1>6 DEF PlaceOK, User, Room, SameCaller, Moved, Leaves, Rows
<1>8. ASSUME InTurn, NEW r \in Rooms PROVE CountOf(r)' = Cardinality(In(userRooms', r))
  <2>1. CountOf(r) = Cardinality(Out(userRooms, r, u))
    BY <1>1, <1>2, <1>8 DEF CountOK, Away
  <2>2. In(userRooms', r) = Out(userRooms, r, u)
    BY <1>6, PresenceConstants DEF In, Out
  <2> QED
    BY <1>1, <2>1, <2>2 DEF CountOf
<1>9. InTurn => CountOK(t)'
  BY <1>1, <1>3, <1>8 DEF CountOK, SameCaller, User, Away
<1>10. userCount' \in [Rooms -> Int \cup {None}]
  BY <1>1 DEF PresenceInv, MapsOK
<1>11. atHome /\ userRooms'[u] \in Rooms => u \in Members[userRooms'[u]]
  BY <1>6, PresenceConstants
<1> QED
  BY <1>1, <1>3, <1>5, <1>6, <1>7, <1>9, <1>10, <1>11, WriteInv

-----------------------------------------------------------------------------
(* The steps on rows: what they know of the room comes from ConnectState. *)

LEMMA LoadNotesInv == ASSUME PresenceInv, NEW t \in Threads, LoadNotes(t) PROVE PresenceInv'
<1>1. /\ Go(t, "load") /\ call[t].at = "returned" /\ Entering(t) /\ ~At(t, "idle")
      /\ UNCHANGED <<environment, userSessions, userRooms, userCount, place>>
  BY DEF LoadNotes, At
<1>2. CallOK(t) /\ PlaceOK(t) /\ (InTurn => CountOK(t)) /\ User(t) \in Users
  BY <1>1, Own
<1>3. OnlyCall(t) /\ SameCaller(t) /\ call'[t].at = "load"
  BY <1>1, GoIs DEF PresenceInv, Labels, EnterAts
<1>4. CallOK(t)'
  BY <1>1, <1>2, <1>3 DEF CallOK, User, Room, Entering, SameCaller, EnterAts, Leaves, Rows
<1>5. PlaceOK(t)'
  BY <1>1, <1>2, <1>3 DEF PlaceOK, User, Room, SameCaller, Moved
<1>6. ASSUME InTurn PROVE CountOK(t)'
  <2>1. CountsOK(t)'
    BY <1>1, <1>3, <1>6, SameCounts DEF Away
  <2> QED
    BY <1>3, <2>1 DEF CountOK, CountsOK
<1> QED
  BY <1>1, <1>3, <1>4, <1>5, <1>6, LocalInv

LEMMA LoadMessagesInv ==
  ASSUME PresenceInv, NEW t \in Threads, LoadMessages(t) PROVE PresenceInv'
<1>1. /\ Go(t, "commit") /\ call[t].at = "load" /\ ~At(t, "idle")
      /\ UNCHANGED <<environment, userSessions, userRooms, userCount, place>>
  BY DEF LoadMessages, At
<1>2. CallOK(t) /\ PlaceOK(t) /\ (InTurn => CountOK(t)) /\ User(t) \in Users
  BY <1>1, Own
<1>3. OnlyCall(t) /\ SameCaller(t) /\ call'[t].at = "commit"
  BY <1>1, GoIs DEF PresenceInv, Labels, EnterAts
<1>4. CallOK(t)'
  BY <1>1, <1>2, <1>3 DEF CallOK, User, Room, Entering, SameCaller, EnterAts, LeaveAts, RowAts
<1>5. PlaceOK(t)'
  BY <1>1, <1>2, <1>3 DEF PlaceOK, User, Room, SameCaller, Moved
<1>6. ASSUME InTurn PROVE CountOK(t)'
  <2>1. CountsOK(t)'
    BY <1>1, <1>3, <1>6, SameCounts DEF Away
  <2> QED
    BY <1>3, <2>1 DEF CountOK, CountsOK
<1> QED
  BY <1>1, <1>3, <1>4, <1>5, <1>6, LocalInv

\* In turn, the room a message is sent from has a count.
LEMMA GetUserCountInv ==
  ASSUME PresenceInv, NEW t \in Threads, GetUserCount(t) PROVE PresenceInv'
<1>1. /\ call[t].at = "count" /\ ~At(t, "idle")
      /\ UNCHANGED <<environment, userSessions, userRooms, userCount, place>>
  BY DEF GetUserCount, At
<1>2. CallOK(t) /\ PlaceOK(t) /\ (InTurn => CountOK(t)) /\ User(t) \in Users
  BY <1>1, Own
<1>3. call[t].op \in Rows /\ Room(t) \in Rooms
  BY <1>1, <1>2 DEF CallOK, EnterAts, LeaveAts
<1>4. /\ OnlyCall(t) /\ SameCaller(t) /\ call'[t].at \in {"failed", "insert"}
      /\ call'[t].at = "failed" => userCount[Room(t)] = None
  <2>1. CASE userCount[Room(t)] = None
    BY <1>1, <2>1, GoIs DEF GetUserCount, PresenceInv, Labels, EnterAts
  <2>2. CASE userCount[Room(t)] # None
    BY <1>3, <2>2, Counted, LoadNIs DEF GetUserCount, PresenceInv, MapsOK, Labels, RowAts
  <2> QED
    BY <2>1, <2>2
<1>5. CallOK(t)'
  BY <1>1, <1>2, <1>3, <1>4 DEF CallOK, User, Room, Entering, SameCaller, RowAts
<1>6. PlaceOK(t)'
  BY <1>1, <1>2, <1>4 DEF PlaceOK, User, Room, SameCaller, Moved
<1>7. ASSUME InTurn PROVE CountOK(t)'
  <2>1. CountsOK(t)'
    BY <1>1, <1>4, <1>7, SameCounts DEF Away
  <2>2. userRooms[User(t)] = Room(t)
    BY <1>1, <1>2, <1>3, <1>7 DEF PlaceOK, Moved
  <2>3. userCount[Room(t)] # None
    BY <1>1, <1>3, <1>7, <2>2, Counted DEF Away
  <2> QED
    BY <1>4, <2>1, <2>3 DEF CountOK, CountsOK
<1> QED
  BY <1>1, <1>4, <1>5, <1>6, <1>7, LocalInv

LEMMA InsertInv == ASSUME PresenceInv, NEW t \in Threads, Insert(t) PROVE PresenceInv'
<1>1. /\ Go(t, "save") /\ call[t].at = "insert" /\ ~At(t, "idle")
      /\ UNCHANGED <<environment, userSessions, userRooms, userCount, place>>
  BY DEF Insert, At
<1>2. CallOK(t) /\ PlaceOK(t) /\ (InTurn => CountOK(t)) /\ User(t) \in Users
  BY <1>1, Own
<1>3. OnlyCall(t) /\ SameCaller(t) /\ call'[t].at = "save"
  BY <1>1, GoIs DEF PresenceInv, Labels, RowAts
<1>4. CallOK(t)'
  BY <1>1, <1>2, <1>3 DEF CallOK, User, Room, Entering, SameCaller, EnterAts, LeaveAts, RowAts
<1>5. PlaceOK(t)'
  BY <1>1, <1>2, <1>3 DEF PlaceOK, User, Room, SameCaller, Moved
<1>6. ASSUME InTurn PROVE CountOK(t)'
  <2>1. CountsOK(t)'
    BY <1>1, <1>3, <1>6, SameCounts DEF Away
  <2> QED
    BY <1>3, <2>1 DEF CountOK, CountsOK
<1> QED
  BY <1>1, <1>3, <1>4, <1>5, <1>6, LocalInv

-----------------------------------------------------------------------------
(* The steps that end a call. *)

LEMMA EndInv ==
  ASSUME PresenceInv, NEW t \in Threads, ~At(t, "idle"),
         call' = [call EXCEPT ![t] = Idle],
         UNCHANGED <<environment, userRooms, userCount>>,
         userSessions' \in [Sessions -> Users \cup {None}],
         place' \in [Users -> Rooms \cup {None}],
         \A v \in Users \ {User(t)} : place'[v] = place[v],
         place'[User(t)] = userRooms[User(t)],
         call[t].at \notin Away
  PROVE  PresenceInv'
<1> DEFINE u == User(t)
<1>1. OnlyCall(t) /\ At(t, "idle")'
  BY IdleIs DEF PresenceInv
<1>2. u \in Users /\ Others(t, u)
  BY <1>1, Own DEF Others, OnlyCall
<1>3. MapsOK'
  BY <1>1 DEF PresenceInv, MapsOK, OnlyCall
<1>4. atHome /\ userRooms'[u] \in Rooms => u \in Members[userRooms'[u]]
  BY <1>2 DEF PresenceInv, InsideOK
<1>5. RestOK'
  <2> SUFFICES ASSUME InTurn, NEW r \in Rooms
               PROVE  CountOf(r)' = Cardinality(In(userRooms, r))
    BY DEF RestOK
  <2>1. CountOK(t)
    BY Own
  <2> QED
    BY <2>1 DEF CountOK, CountOf
<1>6. userRooms'[u] = place'[u]
  OBVIOUS
<1> HIDE DEF u
<1> QED
  BY <1>1, <1>2, <1>3, <1>4, <1>5, <1>6, StepInv

LEMMA AnswerInv == ASSUME PresenceInv, NEW t \in Threads, Answer(t) PROVE PresenceInv'
<1>1. /\ call[t].at = "returned" /\ ~At(t, "idle")
      /\ call' = [call EXCEPT ![t] = Idle]
      /\ place' = [place EXCEPT ![User(t)] = Room(t)]
      /\ UNCHANGED <<environment, userRooms, userCount>>
  BY DEF Answer, At
<1>2. CallOK(t) /\ PlaceOK(t) /\ User(t) \in Users
  BY <1>1, Own
<1>3. call[t].room \in Rooms \cup {None} /\ call[t].session \in Sessions \cup {None}
  BY DEF PresenceInv, MapsOK, CallRecords
<1>4. userSessions' \in [Sessions -> Users \cup {None}]
  BY <1>3 DEF Answer, PresenceInv, MapsOK
<1>5. /\ place' \in [Users -> Rooms \cup {None}] /\ place'[User(t)] = Room(t)
      /\ \A v \in Users \ {User(t)} : place'[v] = place[v]
  BY <1>1, <1>2, <1>3 DEF PresenceInv, MapsOK, Room
<1>6. userRooms[User(t)] = Room(t)
  BY <1>1, <1>2 DEF PlaceOK, Moved
<1> QED
  BY <1>1, <1>4, <1>5, <1>6, EndInv DEF Away

LEMMA CommitReadInv == ASSUME PresenceInv, NEW t \in Threads, CommitRead(t) PROVE PresenceInv'
<1>1. /\ call[t].at = "commit" /\ ~At(t, "idle")
      /\ call' = [call EXCEPT ![t] = Idle]
      /\ place' = [place EXCEPT ![User(t)] = Room(t)]
      /\ UNCHANGED <<environment, userSessions, userRooms, userCount>>
  BY DEF CommitRead, At
<1>2. CallOK(t) /\ PlaceOK(t) /\ User(t) \in Users
  BY <1>1, Own
<1>3. Room(t) \in Rooms \cup {None}
  BY DEF PresenceInv, MapsOK, CallRecords, Room
<1>4. userSessions' \in [Sessions -> Users \cup {None}]
  BY <1>1 DEF PresenceInv, MapsOK
<1>5. /\ place' \in [Users -> Rooms \cup {None}] /\ place'[User(t)] = Room(t)
      /\ \A v \in Users \ {User(t)} : place'[v] = place[v]
  BY <1>1, <1>2, <1>3 DEF PresenceInv, MapsOK
<1>6. userRooms[User(t)] = Room(t)
  BY <1>1, <1>2 DEF PlaceOK, Moved
<1> QED
  BY <1>1, <1>4, <1>5, <1>6, EndInv DEF Away

\* The transaction is rolled back, but its user stays where it has been put.
LEMMA NullLenderInv ==
  ASSUME PresenceInv, NEW t \in Threads, NullLender(t) PROVE PresenceInv'
<1>1. /\ call[t].at \in {"load", "insert"} /\ ~At(t, "idle")
      /\ call' = [call EXCEPT ![t] = Idle]
      /\ place' = IF Entering(t) THEN [place EXCEPT ![User(t)] = Room(t)] ELSE place
      /\ UNCHANGED <<environment, userSessions, userRooms, userCount>>
  BY DEF NullLender, At
<1>2. CallOK(t) /\ PlaceOK(t) /\ User(t) \in Users
  BY <1>1, Own
<1>3. Room(t) \in Rooms \cup {None}
  BY DEF PresenceInv, MapsOK, CallRecords, Room
<1>4. userSessions' \in [Sessions -> Users \cup {None}]
  BY <1>1 DEF PresenceInv, MapsOK
<1>5. Entering(t) <=> call[t].at = "load"
  BY <1>1, <1>2 DEF CallOK, EnterAts, LeaveAts, RowAts, Leaves, Rows, Entering
<1>6. /\ place' \in [Users -> Rooms \cup {None}] /\ place'[User(t)] = userRooms[User(t)]
      /\ \A v \in Users \ {User(t)} : place'[v] = place[v]
  BY <1>1, <1>2, <1>3, <1>5 DEF PresenceInv, MapsOK, PlaceOK, Moved
<1> QED
  BY <1>1, <1>4, <1>6, EndInv DEF Away

\* The calls that end without moving their user.
LEMMA EndInPlaceInv ==
  ASSUME PresenceInv, NEW t \in Threads, call[t].at \in {"failed", "save"},
         call' = [call EXCEPT ![t] = Idle],
         UNCHANGED <<environment, userSessions, userRooms, userCount, place>>
  PROVE  PresenceInv'
<1>1. ~At(t, "idle")
  BY DEF At
<1>2. PlaceOK(t)
  BY <1>1, Own
<1>3. place[User(t)] = userRooms[User(t)]
  BY <1>2 DEF PlaceOK, Moved
<1>4. /\ userSessions' \in [Sessions -> Users \cup {None}]
      /\ place' \in [Users -> Rooms \cup {None}]
  BY DEF PresenceInv, MapsOK
<1> QED
  BY <1>1, <1>3, <1>4, EndInv DEF Away

-----------------------------------------------------------------------------
(* The steps that begin a call, and those of no call. *)

LEMMA StartInv ==
  ASSUME PresenceInv, NEW t \in Threads, NEW u \in Users, At(t, "idle"), Free(u),
         NEW c \in CallRecords, call' = [call EXCEPT ![t] = c],
         c.at \in {"contains", "count"}, c.user = u,
         atHome /\ c.op \in Rows => place[u] = c.room,
         UNCHANGED <<environment, userSessions, userRooms, userCount, place>>,
         CallOK(t)'
  PROVE  PresenceInv'
<1>1. /\ call' \in [Threads -> CallRecords] /\ call'[t] = c
      /\ \A o \in Threads \ {t} : call'[o] = call[o]
  BY DEF PresenceInv, MapsOK
<1>2. Others(t, u)
  BY <1>1 DEF Others, Free, Calls
<1>3. MapsOK'
  BY <1>1 DEF PresenceInv, MapsOK
<1>4. atHome /\ userRooms'[u] \in Rooms => u \in Members[userRooms'[u]]
  BY DEF PresenceInv, InsideOK
<1>5. userRooms[u] = place[u]
  BY DEF PresenceInv, UserStaysPut, Free
<1>6. PlaceOK(t)'
  BY <1>1, <1>5 DEF PlaceOK, User, Room, Moved
<1>7. ASSUME InTurn PROVE CountOK(t)'
  <2>1. \A r \in Rooms : CountOf(r) = Cardinality(In(userRooms, r))
    BY <1>7 DEF PresenceInv, RestOK, AtRest, Free
  <2>2. \A r \in Rooms : CountOf(r)' = CountOf(r)
    BY DEF CountOf
  <2> QED
    BY <1>1, <2>1, <2>2 DEF CountOK, Away
<1>8. ~At(t, "idle")' /\ User(t)' = u /\ ThreadOK(t)'
  BY <1>1, <1>6, <1>7 DEF At, User, ThreadOK
<1> QED
  BY <1>2, <1>3, <1>4, <1>8, StepInv

LEMMA BeginInv ==
  ASSUME PresenceInv, NEW t \in Threads, NEW u \in Users, NEW op, NEW r, NEW s,
         Begin(t, op, u, r, s), s \in Sessions \cup {None},
         \/ op = "enter" /\ r \in Rooms /\ (atHome => u \in Members[r])
         \/ op \in Leaves /\ r = None
  PROVE  PresenceInv'
<1> DEFINE c == [Idle EXCEPT !.at = "contains", !.op = op, !.user = u, !.room = r,
                             !.session = s]
<1>1. At(t, "idle") /\ Free(u) /\ call' = [call EXCEPT ![t] = c]
  BY DEF Begin
<1>2. UNCHANGED <<environment, userSessions, userRooms, userCount, place>>
  BY DEF Begin
<1>3. c \in CallRecords /\ c.at = "contains" /\ c.user = u /\ c.op = op /\ c.room = r
  BY DEF Idle, CallRecords, EnterAts, Leaves
<1>4. op \notin Rows
  BY DEF Leaves, Rows
<1> HIDE DEF c
<1>5. call'[t] = c
  BY <1>1 DEF PresenceInv, MapsOK
<1>6. CallOK(t)'
  BY <1>2, <1>3, <1>5 DEF CallOK, User, Room, Entering, EnterAts, LeaveAts
<1> QED
  BY <1>1, <1>2, <1>3, <1>4, <1>6, StartInv

LEMMA SendInv ==
  ASSUME PresenceInv, NEW t \in Threads, NEW u \in Users, NEW r \in Rooms, NEW op,
         Send(t, op, u, r)
  PROVE  PresenceInv'
<1> DEFINE c == [Idle EXCEPT !.at = "count", !.op = op, !.user = u, !.room = r]
<1>1. /\ At(t, "idle") /\ Free(u) /\ call' = [call EXCEPT ![t] = c]
      /\ atHome => place[u] = r
      /\ op \in Rows
  BY DEF Send, Rows
<1>2. UNCHANGED <<environment, userSessions, userRooms, userCount, place>>
  BY DEF Send
<1>3. c \in CallRecords /\ c.at = "count" /\ c.user = u /\ c.op = op /\ c.room = r
  BY <1>1 DEF Idle, CallRecords, RowAts
<1> HIDE DEF c
<1>4. call'[t] = c
  BY <1>1 DEF PresenceInv, MapsOK
<1>5. CallOK(t)'
  BY <1>1, <1>3, <1>4 DEF CallOK, User, Room, Entering, RowAts
<1> QED
  BY <1>1, <1>2, <1>3, <1>5, StartInv

\* Sessions come without anybody moving, and rows without ConnectState.
LEMMA SameInv ==
  ASSUME PresenceInv, UNCHANGED <<environment, userRooms, userCount, call, place>>,
         userSessions' \in [Sessions -> Users \cup {None}]
  PROVE  PresenceInv'
<1>1. MapsOK' /\ InsideOK'
  BY DEF PresenceInv, MapsOK, InsideOK
<1>2. Calls' = Calls /\ (\A t \in Threads : User(t)' = User(t))
  BY DEF Calls, At, User
<1>3. Apart' /\ UserStaysPut'
  BY <1>2 DEF PresenceInv, Apart, UserStaysPut, Calls
<1>4. \A r \in Rooms : CountOf(r)' = CountOf(r)
  BY DEF CountOf
<1>5. RestOK'
  BY <1>2, <1>4 DEF PresenceInv, RestOK, AtRest
<1>6. ASSUME NEW t \in Threads PROVE ThreadOK(t)'
  <2>1. ThreadOK(t) /\ (t \in Calls <=> t \in Calls')
    BY <1>2 DEF PresenceInv
  <2>2. CallOK(t) => CallOK(t)'
    BY DEF CallOK, User, Room, Entering
  <2>3. PlaceOK(t) => PlaceOK(t)'
    BY DEF PlaceOK, User, Room
  <2>4. CountOK(t) => CountOK(t)'
    BY <1>4 DEF CountOK, User, Room, CountOf
  <2> QED
    BY <2>1, <2>2, <2>3, <2>4 DEF ThreadOK
<1> QED
  BY <1>1, <1>3, <1>5, <1>6 DEF PresenceInv

-----------------------------------------------------------------------------
LEMMA InMethodInv == ASSUME PresenceInv, NEW t \in Threads, InMethod(t) PROVE PresenceInv'
BY ContainsInv, CompareInv, OldRoomInv, OldCountInv, RoomAgainInv, RecountInv, NullPointerInv,
   JoinInv, SizeInv, GrowInv, RemoveInv DEF InMethod

LEMMA PresenceStep == PresenceInv /\ [ChatNext]_chatVars => PresenceInv'
<1> SUFFICES ASSUME PresenceInv, [ChatNext]_chatVars PROVE PresenceInv'
  OBVIOUS
<1> USE DEF Leaves
<1>1. ASSUME NEW r \in Rooms, CreateChatRoom(r) PROVE PresenceInv'
  BY <1>1, SameInv DEF CreateChatRoom, PresenceInv, MapsOK
<1>2. ASSUME NEW s \in Sessions, NEW u \in Users, AddUserSession(s, u) PROVE PresenceInv'
  BY <1>2, SameInv DEF AddUserSession, PresenceInv, MapsOK
<1>3. ASSUME NEW t \in Threads, NEW u \in Users, NEW r \in Rooms, GetMessages(t, u, r)
      PROVE  PresenceInv'
  BY <1>3, BeginInv DEF GetMessages, AddUserRoom
<1>4. ASSUME NEW t \in Threads, NEW u \in Users, NEW r \in Rooms, NEW op \in {"send", "notify"},
             Send(t, op, u, r)
      PROVE  PresenceInv'
  BY <1>4, SendInv
<1>5. ASSUME NEW t \in Threads, NEW u \in Users, DeleteUserRoom(t, u) PROVE PresenceInv'
  BY <1>5, BeginInv DEF DeleteUserRoom
<1>6. ASSUME NEW t \in Threads, NEW s \in Sessions, Disconnect(t, s) PROVE PresenceInv'
  <2>1. userSessions[s] \in Users
    BY <1>6 DEF Disconnect, PresenceInv, MapsOK
  <2> QED
    BY <1>6, <2>1, BeginInv DEF Disconnect
<1>7. ASSUME NEW t \in Threads, InMethod(t) PROVE PresenceInv'
  BY <1>7, InMethodInv
<1>8. ASSUME NEW t \in Threads, Answer(t) PROVE PresenceInv'
  BY <1>8, AnswerInv
<1>9. ASSUME NEW t \in Threads,
             \/ AnswerError(t)
             \/ CommitMessage(t)
             \/ CommitNote(t)
      PROVE  PresenceInv'
  BY <1>9, EndInPlaceInv DEF AnswerError, CommitMessage, CommitNote, At
<1>10. ASSUME NEW t \in Threads,
              \/ LoadNotes(t) \/ LoadMessages(t) \/ GetUserCount(t) \/ Insert(t)
              \/ CommitRead(t) \/ NullLender(t)
       PROVE  PresenceInv'
  BY <1>10, LoadNotesInv, LoadMessagesInv, GetUserCountInv, InsertInv, CommitReadInv,
     NullLenderInv
<1>11. CASE UNCHANGED chatVars
  BY <1>11, SameInv DEF chatVars, presenceVars, PresenceInv, MapsOK
<1> QED
  BY <1>1, <1>2, <1>3, <1>4, <1>5, <1>6, <1>7, <1>8, <1>9, <1>10, <1>11 DEF ChatNext

LEMMA PresenceHolds == ChatSpec => []PresenceInv
BY PresenceInit, PresenceStep, PTL DEF ChatSpec

-----------------------------------------------------------------------------
(* The theorems. *)

\* ConnectState's maps hold users, rooms and numbers, whatever the requests.
THEOREM PresenceTyped == ChatSpec => []TypeOK
<1>1. PresenceInv => TypeOK
  BY DEF PresenceInv, MapsOK, TypeOK
<1> QED
  BY <1>1, PresenceHolds, PTL

\* However the requests of different users overlap, whatever rooms they ask for and
\* whichever of them fails: a user with no request under way has open the room its last
\* addUserRoom that returned put it in, or none once a deleteUserRoom has returned.  A
\* getMessages that throws afterwards, for want of a lender, has moved its user.
THEOREM StaysPut == ChatSpec => []UserStaysPut
<1>1. PresenceInv => UserStaysPut
  BY DEF PresenceInv
<1> QED
  BY <1>1, PresenceHolds, PTL

\* As long as requests come one after the other and users keep to their own rooms, the
\* number addUserRoom and deleteUserRoom keep is, between two of them, that of the users
\* in the room.  It needs both: deleteUserRoom leaves one or none in any room, and the
\* server lets a third user in.
THEOREM CountedRight == ChatSpec => []CountsPresence
<1>1. PresenceInv => CountsPresence
  BY HoldsDef DEF PresenceInv, RestOK, CountsPresence
<1> QED
  BY <1>1, PresenceHolds, PTL

\* As long as requests come one after the other and users keep to their own rooms, no
\* null count is unboxed: a room somebody leaves, or a message is sent from, has a count.
THEOREM NeverNull == ChatSpec => []NothingFails
<1>1. PresenceInv => NothingFails
  <2> SUFFICES ASSUME PresenceInv, InTurn, NEW t \in Threads, At(t, "failed") PROVE FALSE
    BY DEF NothingFails
  <2>1. CountOK(t)
    BY Own DEF At
  <2> QED
    BY <2>1 DEF CountOK, At
<1> QED
  BY <1>1, PresenceHolds, PTL
==============================================================================
