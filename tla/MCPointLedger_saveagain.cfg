SPECIFICATION Spec
CONSTANTS
  u1 = u1 u2 = u2 pub = pub a = a b = b s1 = s1
  p1 = p1 p2 = p2 p3 = p3 n1 = n1 n2 = n2 n3 = n3
  Users = {u1, u2}
  Public = pub
  Places = {a}
  Codes = {"province", "cityA"}
  Adcodes <- MCAdcodesA
  CodesOf <- MCCodesOfA
  Sorts = {}
  SortOwner <- MCNoSorts
  SaveIds = {p1, p2, p3}
  NoteIds = {n1}
  None = None
  PublicMap <- MCNoPublicMap
  Liberties = {"saveAgain"}
SYMMETRY Symmetry
INVARIANTS
  OneSavePerPlace
