------------------------------ MODULE MCChatRooms ------------------------------
(***************************************************************************)
(* Small instances of ChatRooms: ann asks bob for a car, or a member who    *)
(* does not exist; cat is a member of neither room.                         *)
(***************************************************************************)
EXTENDS ChatRooms, TLC

CONSTANTS ann, bob, cat, r1, r200

AnnBorrows == [r \in Rooms |-> ann]
BobLends == [r \in Rooms |-> bob]
BobLendsOne == [r \in Rooms |-> IF r = r1 THEN None ELSE bob]
TheirMembers == [r \in Rooms |-> {ann, Lender[r]} \ {None}]
\* Both rooms and a message when in turn; one room and a message when requests
\* overlap or users go where they like; one room and no message when both do.
FewRows ==
  [isAlone \in BOOLEAN |-> [isAtHome \in BOOLEAN |->
     IF isAlone /\ isAtHome THEN 5 ELSE IF isAlone \/ isAtHome THEN 3 ELSE 2]]
ThreadSymmetry == Permutations(Threads)
==============================================================================
