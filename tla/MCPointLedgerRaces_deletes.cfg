SPECIFICATION RaceSpec
CONSTANTS
  u1 = u1 u2 = u2 pub = pub a = a b = b s1 = s1
  p1 = p1 p2 = p2 p3 = p3 n1 = n1 n2 = n2 r1 = r1 r2 = r2
  Public = pub
  None = None
  Idle = Idle
  Codes = {"city", "other"}
  Places = {a, b}
  Adcodes <- MCAdcodes
  CodesOf <- MCCodesOfBoth
  Users = {u1}
  SaveIds = {p1, p2}
  NoteIds = {}
  Requests = {r1, r2}
  Ops <- DeleteOps
  Sorts = {}
  SortOwner <- MCNoSorts
  PublicMap <- MCNoPublicMap
  Liberties = {}
SYMMETRY Symmetry
INVARIANTS
  PointsCounted
CHECK_DEADLOCK FALSE
