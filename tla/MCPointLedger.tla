---------------------------- MODULE MCPointLedger ----------------------------
(* Instances of PointLedger, and of what queries show of it, for TLC.  With  *)
(* the public map, p1 and n1 are its point and its note, and the other       *)
(* identifiers are interchangeable.                                          *)
EXTENDS PointViews, TLC

CONSTANTS u1, u2, pub, a, b, s1, p1, p2, p3, n1, n2, n3

MCSortOwner == s1 :> u1
MCNoSorts == <<>>
InA == {"province", "cityA"}
InB == {"province", "cityB"}
MCAdcodes  == {InA, InB}
MCAdcodesA == {InA}
MCCodesOf  == a :> InA @@ b :> InB
MCCodesOfA == a :> InA
MCPublicMap == p1 :> [place |-> a, note |-> n1]
MCNoPublicMap == <<>>

Symmetry == Permutations(SaveIds) \cup Permutations(NoteIds)
PublicSymmetry ==
  Permutations(Users) \cup Permutations({p2, p3}) \cup Permutations({n2, n3})
=============================================================================
