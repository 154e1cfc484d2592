-------------------------------- MODULE MapSaves --------------------------------
(***************************************************************************)
(* Keeping other users' maps: a row of map_saves is a part of the map of a *)
(* creater that a user has saved, which is one sort, the points without a  *)
(* sort, or the whole map; users.saveMaps counts the rows of a user.       *)
(* createOne looks for a row of the whole map and then writes, in one      *)
(* transaction of isolation READ COMMITTED; deleteOne deletes the row and  *)
(* lowers the counter in two statements without a transaction.             *)
(*                                                                         *)
(* The lock of createOne is left out: what it lets through is any number   *)
(* of requests (RequestLock).                                              *)
(***************************************************************************)
EXTENDS Naturals, FiniteSets

CONSTANTS
  Savers,      \* the users who save maps
  Creaters,    \* the users whose maps are saved
  Sorts,       \* sorts of these maps, as clients name them
  MapRequests, \* requests in progress at a time
  Nothing,
  MaxMapSaves  \* bound on the number of requests begun

Whole   == "whole"     \* sortId -1
Default == "default"   \* sortId 0
Parts   == Sorts \cup {Whole, Default}

ASSUME MapSaveConstants ==
  /\ Nothing \notin Savers \cup Creaters \cup Parts
  /\ IsFiniteSet(Savers) /\ IsFiniteSet(Creaters) /\ IsFiniteSet(Sorts)
  /\ MaxMapSaves \in Nat

VARIABLES
  saved,     \* the rows of map_saves
  saveMaps,  \* saveMaps[u], a column of users
  follows,   \* rows of user_links
  told,      \* the messages to creaters: who saved which part, as it is named
  sreq,      \* sreq[r]: where request r is and what it is about
  sbegun,
  uncounted, \* uncounted[u]: rows deleted by requests that then failed
  overlapped \* whether two requests about one map of one user have overlapped

saveVars == <<saved, saveMaps, follows, told, sreq, sbegun, uncounted, overlapped>>

SavedRow == [user : Savers, creater : Creaters, part : Parts]
SaveSteps == {"idle", "find", "write", "message", "delete", "decrement"}
NoSave   == [at |-> "idle", row |-> Nothing]

SavesInit ==
  /\ saved = {} /\ follows = {} /\ told = {}
  /\ saveMaps = [u \in Savers |-> 0] /\ uncounted = [u \in Savers |-> 0]
  /\ sreq = [r \in MapRequests |-> NoSave]
  /\ sbegun = 0 /\ overlapped = FALSE

SavedBy(u)    == { m \in saved : m.user = u }
PartsOf(u, c) == { m.part : m \in { x \in saved : x.user = u /\ x.creater = c } }
Row(r)        == sreq[r].row
SaveAt(r, at) == sreq[r].at = at
SaveGoto(r, at) ==
  sreq' = [sreq EXCEPT ![r] = IF at = "idle" THEN NoSave ELSE [@ EXCEPT !.at = at]]

(* The route refuses a map of one's own. *)
BeginSave(r, row, at) ==
  /\ sreq[r] = NoSave /\ sbegun < MaxMapSaves
  /\ row.user # row.creater
  /\ sreq' = [sreq EXCEPT ![r] = [at |-> at, row |-> row]]
  /\ sbegun' = sbegun + 1
  /\ overlapped' = (overlapped \/ \E q \in MapRequests :
       /\ sreq[q] # NoSave
       /\ Row(q).user = row.user /\ Row(q).creater = row.creater)
  /\ UNCHANGED <<saved, saveMaps, follows, told, uncounted>>

(* MAPSAVE_DUP, when the whole map is saved *)
FindWhole(r) ==
  /\ SaveAt(r, "find")
  /\ SaveGoto(r, IF Whole \in PartsOf(Row(r).user, Row(r).creater) THEN "idle" ELSE "write")
  /\ UNCHANGED <<saved, saveMaps, follows, told, sbegun, uncounted, overlapped>>

(* Mutant: the parts that the whole map replaces are not counted down. *)
ReplacedUncounted(row) == 0
(* How many rows the whole map replaces *)
Replaced(row) == IF row.part = Whole THEN Cardinality(PartsOf(row.user, row.creater)) ELSE 0

(* The statements of the transaction; the index (userId, createrId, sortId)  *)
(* refuses the row that is there.                                            *)
WriteSave(r) ==
  LET row  == Row(r)
      gone == { m \in saved : row.part = Whole /\ m.user = row.user /\ m.creater = row.creater } IN
  /\ SaveAt(r, "write")
  /\ row \notin saved \ gone
  /\ saved' = (saved \ gone) \cup {row}
  /\ saveMaps' = [saveMaps EXCEPT ![row.user] = @ - Replaced(row) + 1]
  /\ follows' = follows \cup {<<row.user, row.creater>>}
  /\ SaveGoto(r, "message")
  /\ UNCHANGED <<told, sbegun, uncounted, overlapped>>

(* ER_DUP_ENTRY, or any other error: the transaction is rolled back. *)
WriteFails(r) ==
  /\ SaveAt(r, "write")
  /\ SaveGoto(r, "idle")
  /\ UNCHANGED <<saved, saveMaps, follows, told, sbegun, uncounted, overlapped>>

(* The message names the points without a sort as the whole map: "sortId ?". *)
TellCreater(r) ==
  /\ SaveAt(r, "message")
  /\ told' = told \cup {[Row(r) EXCEPT !.part = IF @ = Default THEN Whole ELSE @]}
  /\ SaveGoto(r, "idle")
  /\ UNCHANGED <<saved, saveMaps, follows, sbegun, uncounted, overlapped>>

(* mapName finds no such sort, or the message cannot be created. *)
TellFails(r) ==
  /\ SaveAt(r, "message")
  /\ SaveGoto(r, "idle")
  /\ UNCHANGED <<saved, saveMaps, follows, told, sbegun, uncounted, overlapped>>

DeleteSaved(r) ==
  /\ SaveAt(r, "delete")
  /\ saved' = saved \ {Row(r)}
  /\ SaveGoto(r, IF Row(r) \in saved THEN "decrement" ELSE "idle")
  /\ UNCHANGED <<saveMaps, follows, told, sbegun, uncounted, overlapped>>

DecrementMaps(r) ==
  /\ SaveAt(r, "decrement")
  /\ saveMaps' = [saveMaps EXCEPT ![Row(r).user] = @ - 1]
  /\ SaveGoto(r, "idle")
  /\ UNCHANGED <<saved, follows, told, sbegun, uncounted, overlapped>>

(* The worker dies, or the database fails, between the two statements. *)
DecrementFails(r) ==
  /\ SaveAt(r, "decrement")
  /\ uncounted' = [uncounted EXCEPT ![Row(r).user] = @ + 1]
  /\ SaveGoto(r, "idle")
  /\ UNCHANGED <<saved, saveMaps, follows, told, sbegun, overlapped>>

SavesNext ==
  \E r \in MapRequests :
    \/ \E row \in SavedRow, at \in {"find", "delete"} : BeginSave(r, row, at)
    \/ FindWhole(r) \/ WriteSave(r) \/ WriteFails(r) \/ TellCreater(r) \/ TellFails(r)
    \/ DeleteSaved(r) \/ DecrementMaps(r) \/ DecrementFails(r)

SavesSpec == SavesInit /\ [][SavesNext]_saveVars

--------------------------------------------------------------------------------
(* What is shown *)

(* getAll lists the rows whose creater is a user, all of them here, and      *)
(* isSaveMap says whether u sees part s of c's map as saved.                 *)
SavedList(u)       == SavedBy(u)
IsSaveMap(u, c, s) == PartsOf(u, c) \cap {s, Whole} # {}

--------------------------------------------------------------------------------
(* Properties *)

SavesTypeOK ==
  /\ saved \subseteq SavedRow /\ told \subseteq SavedRow
  /\ saveMaps \in [Savers -> Nat] /\ uncounted \in [Savers -> Nat]
  /\ follows \subseteq Savers \X Creaters
  /\ sreq \in [MapRequests -> [at : SaveSteps, row : SavedRow \cup {Nothing}]]

(* However savings and deletions of maps overlap: saveMaps is the number of  *)
(* maps that getAll lists, and more only by the deletions that have not      *)
(* reached their second statement or have failed before it.  So the unsigned *)
(* counter is never lowered below zero, and no deletion fails for that.      *)
MapSavesCounted ==
  \A u \in Savers :
    saveMaps[u] = Cardinality(SavedList(u)) + uncounted[u]
      + Cardinality({ r \in MapRequests : SaveAt(r, "decrement") /\ Row(r).user = u })

(* "If the whole map is saved, the sorts that were saved before are deleted" *)
(* (createOne): no part is listed beside the whole map, unless two requests  *)
(* for that map have overlapped.                                             *)
WholeMapAlone ==
  ~overlapped =>
    \A u \in Savers, c \in Creaters : Whole \in PartsOf(u, c) => PartsOf(u, c) = {Whole}

(* Whoever sees a map as saved has it in the list, and follows its creater.  *)
SavedFollowed ==
  \A u \in Savers, c \in Creaters, s \in Parts :
    IsSaveMap(u, c, s) =>
      /\ <<u, c>> \in follows
      /\ \E m \in SavedList(u) : m.creater = c

(* The counter, the list and the marks of saved maps agree. *)
SavedMapsAgree == MapSavesCounted /\ WholeMapAlone /\ SavedFollowed
================================================================================
