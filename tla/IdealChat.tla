------------------------------- MODULE IdealChat -------------------------------
(***************************************************************************)
(* What the chat promises two members of a room: whoever has the room open   *)
(* has read what is addressed to it there, whoever has not has not, and the  *)
(* room list shows the newest message.  ChatRooms implements it while        *)
(* requests come one after the other, of users who keep to their rooms.      *)
(***************************************************************************)
EXTENDS Integers

CONSTANTS Users, Rooms, Members, Lender, None

VARIABLES
  inside,           \* user -> the room it has open
  messages, notes,
  newest            \* room -> id of its newest message; None before the room exists

vars == <<inside, messages, notes, newest>>

Init ==
  /\ inside = [u \in Users |-> None]
  /\ messages = {} /\ notes = {}
  /\ newest = [r \in Rooms |-> None]

IsNew(row) == \A m \in messages \cup notes : m.id # row.id
IsNewest(row) == \A m \in messages : m.room = row.room => m.id < row.id

\* The borrower asks for a car: the lender gets a message and a notification.
Open(r, message, note) ==
  /\ newest[r] = None
  /\ IsNew(message) /\ IsNew(note) /\ message.id # note.id
  /\ \A row \in {message, note} : row.room = r /\ row.to = Lender[r] /\ ~row.isRead
  /\ messages' = messages \cup {message}
  /\ notes' = notes \cup {note}
  /\ newest' = [newest EXCEPT ![r] = message.id]
  /\ UNCHANGED inside

\* All that is addressed to u in r is given to u.
Given(rows, u, r) ==
  {IF m.to = u /\ m.room = r THEN [m EXCEPT !.isRead = TRUE] ELSE m : m \in rows}

Enter(u, r) ==
  /\ newest[r] # None
  /\ u \in Members[r]
  /\ inside' = [inside EXCEPT ![u] = r]
  /\ messages' = Given(messages, u, r)
  /\ notes' = Given(notes, u, r)
  /\ UNCHANGED newest

Leave(u) ==
  /\ inside' = [inside EXCEPT ![u] = None]
  /\ UNCHANGED <<messages, notes, newest>>

\* What u writes from the room it has open is read at once by who is there too.
IsWritten(u, row) ==
  /\ inside[u] = row.room
  /\ row.to \in Members[row.room] \ {u}
  /\ row.isRead <=> inside[row.to] = row.room
  /\ IsNew(row) /\ IsNewest(row)

Write(u, message) ==
  /\ IsWritten(u, message)
  /\ messages' = messages \cup {message}
  /\ newest' = [newest EXCEPT ![message.room] = message.id]
  /\ UNCHANGED <<inside, notes>>

Notify(u, note) ==
  /\ IsWritten(u, note)
  /\ notes' = notes \cup {note}
  /\ UNCHANGED <<inside, messages, newest>>

Next ==
  \/ \E r \in Rooms, m \in messages', n \in notes' : Open(r, m, n)
  \/ \E u \in Users :
       \/ \E r \in Rooms : Enter(u, r)
       \/ Leave(u)
       \/ \E m \in messages' : Write(u, m)
       \/ \E n \in notes' : Notify(u, n)

Spec == Init /\ [][Next]_vars
==============================================================================
