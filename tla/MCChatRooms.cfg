\* Two members and an outsider, a room of theirs with a large id and one of no
\* lender; up to two requests at a time.
SPECIFICATION ChatSpec
CONSTANTS
  ann = ann
  bob = bob
  cat = cat
  r1 = r1
  r200 = r200
  Users = {ann, bob, cat}
  Rooms = {r1, r200}
  Sessions = {s1}
  Threads = {t1, t2}
  Members <- TheirMembers
  Borrower <- AnnBorrows
  Lender <- BobLendsOne
  SmallRooms = {r1}
  MinCount = 0
  MaxCount = 2
  MaxRows <- FewRows
  None = None
INVARIANTS TypeOK CountsPresence NothingFails UserStaysPut
INVARIANTS RowsOK ReadIffSeen LastIsNewest NothingUnreadInside
PROPERTIES ReadByAddressee ChatsInTurn
SYMMETRY ThreadSymmetry
