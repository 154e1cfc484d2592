------------------------------- MODULE MCShared -------------------------------
(* An instance, for TLC, of what the worker processes share: three requests  *)
(* for one key and two for the key of a sort on two workers, copies of a     *)
(* user, a note and the lists of a city, two workers with their master, two  *)
(* logins or audits at a time, and two visits or shares at a time.           *)
EXTENDS SharedState, TLC

CONSTANTS
  r1, r2, r3, q1, q2, post, sort, w1, w2, userRow, noteRow, city, sorts, points,
  author, guest, pub, a, p1, p2, n1, i1

MCKeyOf == r1 :> post @@ r2 :> post @@ r3 :> post @@ q1 :> sort @@ q2 :> sort
MCWorkerOf == r1 :> w1 @@ r2 :> w2 @@ r3 :> w2 @@ q1 :> w1 @@ q2 :> w2

MCPublicRows == <<city, sorts, points>>

(* p2 is a save of the public point p1, at the same place. *)
MCPlaceAt == p1 :> a @@ p2 :> a
MCOrigin  == p1 :> p1 @@ p2 :> p1
MCOwnerOf == p1 :> pub @@ p2 :> author

(* Visits and shares are followed until the shares of a note are unsure; the  *)
(* liveness properties are about the other behaviours.                        *)
Followed == unsure = {}
================================================================================
