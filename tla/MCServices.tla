------------------------------- MODULE MCServices -------------------------------
(* An instance, for TLC, of the services: two requests at a time with one     *)
(* statistic, with the maps of one user, with the comments of one note, and   *)
(* the migrations of four saves.                                             *)
EXTENDS Services, TLC

CONSTANTS r1, r2, author, guest, pub, p1, p2, s1

Two == {r1, r2}

(* Pages of two, of up to four saves of two points in two cities *)
MCPointOf == [x \in 1..4 |-> IF x % 2 = 0 THEN p1 ELSE p2]
MCCodesOf == p1 :> {"province", "cityA"} @@ p2 :> {"province", "cityB"}
MCLikesOf == [x \in 1..4 |-> x % 3]

(* The comments are followed until their statistic is blurred. *)
Followed == ~blurred

Symmetry == Permutations(Two)
================================================================================
