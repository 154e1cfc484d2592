---------------------------------- MODULE Maps ----------------------------------
(* What requests do with maps, one step at a time: requests on the ledger      *)
(* (PointLedgerRaces), the transfer of whole maps, and likes.  They are        *)
(* modelled with tables of their own, so that a behaviour is about one of      *)
(* them: part says which, and the others do not begin.                         *)
EXTENDS PointLedgerRaces, MapTransfer, NoteLikes

VARIABLE part

MapsInit ==
  /\ part \in {"requests", "transfers", "crossing", "likes"}
  /\ RaceInit /\ TransferInit /\ LikesInit
  /\ part # "likes" => kind = "note"

Requesting ==
  /\ part = "requests" /\ RaceNext
  /\ UNCHANGED <<part, transferVars, likeVars>>
(* Users give their maps to each other or to the public map: one map at a    *)
(* time, again and again ...                                                 *)
Transferring ==
  /\ part = "transfers" /\ TransferNext
  /\ \A r \in Transfers \ Again : transfer'[r] = NoTransfer
  /\ UNCHANGED <<part, raceVars, likeVars>>
(* ... or several maps of the places of a city at the same time. *)
Crossing ==
  /\ part = "crossing" /\ TransferNext
  /\ \A r \in Again : transfer'[r] = NoTransfer
  /\ \A p \in PointSaveIds : pointSave'[p].place \in InCity \cup {Null}
  /\ UNCHANGED <<part, raceVars, likeVars>>
Liking ==
  /\ part = "likes" /\ LikesNext
  /\ UNCHANGED <<part, raceVars, transferVars>>

MapsNext == Requesting \/ Transferring \/ Crossing \/ Liking
mapsVars == <<part, raceVars, transferVars, likeVars>>

MapsSpec == MapsInit /\ [][MapsNext]_mapsVars

(* Types *)
MapsTypeOK == TransferTypeOK /\ LikesTypeOK
=================================================================================
