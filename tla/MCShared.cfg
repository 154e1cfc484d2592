SPECIFICATION SharedSpec
CONSTANTS
  r1 = r1 r2 = r2 r3 = r3 q1 = q1 q2 = q2 post = post sort = sort w1 = w1 w2 = w2
  userRow = userRow noteRow = noteRow city = city sorts = sorts points = points
  author = author guest = guest pub = pub a = a p1 = p1 p2 = p2 n1 = n1 i1 = i1
  Requests = {r1, r2, r3, q1, q2}
  Keys = {post, sort}
  KeyOf <- MCKeyOf
  Sorting = {q1, q2}
  Workers = {w1, w2}
  WorkerOf <- MCWorkerOf
  MaxCrashes = 1
  None = None
  Orphan = Orphan
  UserRows = {userRow}
  NoteRows = {noteRow}
  PublicRows <- MCPublicRows
  Callers = {r1, r2}
  MaxWrites = 2
  Absent = Absent
  Children = {w1, w2}
  MaxAsked = 3
  MaxUploads = 1
  MaxExits = 2
  NoToken = NoToken
  Newcomers = {guest}
  Recommends = {i1}
  MailRequests = {r1, r2}
  MaxAsks = 4
  NoOne = NoOne
  Guests = {author, guest}
  Points = {p1, p2}
  PlaceAt <- MCPlaceAt
  Origin <- MCOrigin
  OwnerOf <- MCOwnerOf
  Notes = {n1}
  Tallying = {r1, r2}
  Nil = Nil
  MaxTallies = 2
CONSTRAINT Followed
INVARIANTS
  SharedTypeOK
  KeysHaveOwners
  CacheFresh
  TokensAgree
  MailsSent
  
PROPERTIES
  KeysServed
  CachesCatchUp
  TokensArrive
CHECK_DEADLOCK FALSE
