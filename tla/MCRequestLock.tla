---------------------------- MODULE MCRequestLock ----------------------------
(* Instances of RequestLock for TLC: two requests for one key on two workers. *)
EXTENDS RequestLock, TLC

CONSTANTS r1, r2, post, w1, w2

MCKeyOf == r1 :> post @@ r2 :> post
MCWorkerOf == r1 :> w1 @@ r2 :> w2
=============================================================================
