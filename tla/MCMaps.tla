--------------------------------- MODULE MCMaps ---------------------------------
(* An instance, for TLC, of what requests do with maps: two requests of two   *)
(* users on the ledger of one place, with a point of the public map; transfers *)
(* of whole maps; and two requests that like and unlike.                       *)
EXTENDS Maps, TLC

CONSTANTS u1, u2, pub, a, b, p1, p2, p3, n1, n2, r1, r2, again, t1, t2

(* p1 and n1 are the public map's point and its note. *)
MCNoSorts == <<>>
MCAdcodes == {{"province"}}
MCCodesOf == a :> {"province"}
MCPublicMap == p1 :> [place |-> a, note |-> n1]

CopyOps == {"firstNote", "createNote", "deleteNote", "saveNote", "firstSave", "unsaveNote",
            "createSave", "deleteSave"}

MCLikes == [u \in {u1, u2} |-> 0]

Symmetry ==
  Permutations({p2, p3}) \cup Permutations({u1, u2}) \cup Permutations({t1, t2})
  \cup Permutations({r1, r2})
================================================================================
