SPECIFICATION MapsSpec
CONSTANTS
  u1 = u1 u2 = u2 pub = pub a = a b = b
  p1 = p1 p2 = p2 p3 = p3 n1 = n1 n2 = n2 r1 = r1 r2 = r2 again = again
  t1 = t1 t2 = t2
  Public = pub
  None = None
  Idle = Idle
  Places = {a}
  Codes = {"province"}
  Adcodes <- MCAdcodes
  CodesOf <- MCCodesOf
  Users = {u1, u2}
  SaveIds = {p1, p2, p3}
  NoteIds = {n1, n2}
  Requests = {r1, r2}
  Ops <- CopyOps
  Sorts = {}
  SortOwner <- MCNoSorts
  PublicMap <- MCPublicMap
  Liberties = {}
  Members = {u1, u2}
  PublicUser = pub
  Spots = {a, b}
  City = "city"
  InCity = {a}
  PointSaveIds = {p2, p3}
  PointSorts = {t1, t2}
  Names = {"name"}
  Transfers = {again, r1, r2}
  Again = {again}
  Likes <- MCLikes
  Null = Null
  Likers = {u1, u2}
  Liked = {t1, t2}
  LikeRequests = {r1, r2}
  Kinds = {"note", "comment"}
  NoLiker = NoLiker
  MaxRequests = 4
SYMMETRY Symmetry
INVARIANTS
  PointsNeverOver
  RegionsNeverOver
  OwnNoteLive
  SavedNotMasked
  SaversLinked
  MapsTypeOK
  MapsCounted
  RegionsKept
  LikesCounted
PROPERTY MapsGivenWhole
CHECK_DEADLOCK FALSE
