\* The addressee leaves while a message is being stored.
SPECIFICATION ChatSpec
CONSTANTS
  ann = ann
  bob = bob
  cat = cat
  r1 = r1
  r200 = r200
  Users = {ann, bob}
  Rooms = {r200}
  Sessions = {}
  Threads = {t1, t2}
  Members <- TheirMembers
  Borrower <- AnnBorrows
  Lender <- BobLends
  SmallRooms = {}
  MinCount = 0
  MaxCount = 2
  MaxRows <- FewRows
  None = None
INVARIANT ReadMeansSeen
