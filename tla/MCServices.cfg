SPECIFICATION ServicesSpec
CONSTANTS
  r1 = r1 r2 = r2 author = author guest = guest pub = pub p1 = p1 p2 = p2 s1 = s1
  Requests = {r1, r2}
  Kinds = {"stat", "comment", "hint"}
  None = None
  MaxUpdates = 4
  Savers = {guest}
  Creaters = {author}
  Sorts = {s1}
  MapRequests = {r1, r2}
  Nothing = Nothing
  MaxMapSaves = 5
  Users = {author, guest}
  Writers = {guest}
  Author = author
  Public = pub
  MaxComments = 3
  CommentRequests = {r1, r2}
  Nobody = Nobody
  Owners = {author, guest}
  Saves = {1, 2, 3, 4}
  Points = {p1, p2}
  PointOf <- MCPointOf
  Codes = {"province", "cityA", "cityB"}
  CodesOf <- MCCodesOf
  LikesOf <- MCLikesOf
  PageSize = 2
  Nameless = Nameless
  MaxHints = 2
SYMMETRY Symmetry
CONSTRAINT Followed
INVARIANTS
  ServicesTypeOK
  StatExact
  StatNeverOver
  ChangesMarked
  CommentsCounted
  MailsAddressed
  SavedMapsAgree
  MigrationCounts
PROPERTY IsStatistic
CHECK_DEADLOCK FALSE
