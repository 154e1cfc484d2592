-------------------------- MODULE MCPointLedgerRaces --------------------------
(* Instances of PointLedgerRaces for TLC.  With the public map, p1 and n1 are *)
(* its point and its note, and the other saves are interchangeable.           *)
EXTENDS PointLedgerRaces, TLC

CONSTANTS u1, u2, pub, a, b, s1, p1, p2, p3, n1, n2, r1, r2

MCNoSorts == <<>>
MCSortOwner == s1 :> u1
MCAdcodes == {{"city"}, {"other"}}
MCCodesOf == a :> {"city"}
MCCodesOfBoth == a :> {"city"} @@ b :> {"other"}
MCPublicMap == p1 :> [place |-> a, note |-> n1]
MCNoPublicMap == <<>>

AllOps == {"createPoint", "createSave", "updatePoint", "updateSave", "deleteSave", "setTop",
           "createSort", "deleteSort", "firstNote", "createNote", "deleteNote",
           "saveNote", "firstSave", "unsaveNote"}
DeleteOps == {"createPoint", "deleteSave"}

Symmetry       == Permutations(SaveIds) \cup Permutations(Requests)
PublicSymmetry == Permutations({p2, p3})
=============================================================================
