------------------------------ MODULE MCStatCache ------------------------------
(* Small instances of StatCache for TLC. *)
EXTENDS StatCache, TLC

CONSTANTS r1, r2
================================================================================
