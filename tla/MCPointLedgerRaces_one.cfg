SPECIFICATION RaceSpec
CONSTANTS
  u1 = u1 u2 = u2 pub = pub a = a b = b s1 = s1
  p1 = p1 p2 = p2 p3 = p3 n1 = n1 n2 = n2 r1 = r1 r2 = r2
  Public = pub
  None = None
  Idle = Idle
  Codes = {"city", "other"}
  Places = {a}
  Adcodes <- MCAdcodes
  CodesOf <- MCCodesOf
  Users = {u1}
  SaveIds = {p1, p2, p3}
  NoteIds = {n1, n2}
  Requests = {r1}
  Ops <- AllOps
  Sorts = {s1}
  SortOwner <- MCSortOwner
  PublicMap <- MCPublicMap
  Liberties = {}
SYMMETRY PublicSymmetry
PROPERTY SerialLedger
CHECK_DEADLOCK FALSE
