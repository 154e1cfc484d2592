----------------------- MODULE PointLedgerCountsProofs -----------------------
(***************************************************************************)
(* Proofs about the counters of PointLedger and about what the queries of  *)
(* PointViews show of them, for any number of users, places, saves, notes  *)
(* and sorts.                                                              *)
(*                                                                         *)
(* Everything that is counted depends on a few columns of point_saves, and *)
(* LedgerMoves says how a step can change these: not at all (Idle), by one *)
(* new save (Adds), one deleted save (Deletes), one save filed in another  *)
(* sort (Files), one save that gets a note of its own (Writes), or by a    *)
(* sort that comes or goes.  Each invariant below then takes one lemma per *)
(* kind of step.                                                           *)
(*                                                                         *)
(* Some of them hold only while clients refrain from a request that no     *)
(* handler refuses: the theorem then assumes that Liberties lacks it.      *)
(***************************************************************************)
EXTENDS PointLedgerProofs, PointViews

(* The columns that a step leaves alone in a row of point_saves *)
Stays(x) ==
  /\ save'[x].status = save[x].status
  /\ save'[x].user = save[x].user
  /\ save'[x].place = save[x].place
  /\ save'[x].ff = save[x].ff
  /\ save'[x].astray = save[x].astray
SortStays(x) == save'[x].sort = save[x].sort
OwnStays(x)  == save'[x].own = save[x].own /\ save'[x].note \in {save[x].note, None}

Rest(p) == \A x \in SaveIds \ {p} : Stays(x) /\ SortStays(x) /\ OwnStays(x)

Idle ==
  /\ \A x \in SaveIds : Stays(x) /\ SortStays(x) /\ OwnStays(x)
  /\ UNCHANGED <<counters, sort>>

(* A user has at most one live save of a place. *)
OneEach ==
  \A x, y \in SaveIds :
    /\ LiveSave(x) /\ LiveSave(y)
    /\ save[x].user \in Users /\ save[x].user = save[y].user
    /\ save[x].place = save[y].place
    => x = y

(* p is created at a place of the map, or copied from a live save. *)
Descent(p) ==
  IF save'[p].own = "MY_CREATE" THEN save'[p].ff = p /\ save'[p].place \in Places
  ELSE \E q \in SaveIds : /\ LiveSave(q)
                          /\ save'[p].ff = save[q].ff /\ save'[p].place = save[q].place

(* The adcode by which a new save is counted may differ from that of its    *)
(* place in the codes that are astray.                                      *)
RegionsAs(u, row, adcode) ==
  /\ regions' = IncrementPCP(u, adcode)
  /\ \A c \in Codes \ row.astray : c \in adcode <=> c \in CodesOf[row.place]

(* How a new save is counted *)
CountedAs(u, row) ==
  /\ points' = Plus(CountedIn(u, row.sort))
  /\ \E adcode : RegionsAs(u, row, adcode)
  /\ saves' = IF row.own = "MY_CREATE" THEN saves ELSE [saves EXCEPT ![row.ff] = @ + 1]
  /\ IF row.own = "ONLY_SAVE"
     THEN savePoints' = [savePoints EXCEPT ![u] = @ + 1] /\ createPoints' = createPoints
     ELSE createPoints' = [createPoints EXCEPT ![u] = @ + 1] /\ savePoints' = savePoints

Adds(u, p) ==
  /\ FreshSave(p) /\ save'[p].status = "live" /\ save'[p].user = u
  /\ save'[p].sort = None \/ (save'[p].sort \in Sorts /\ sort[save'[p].sort] = "live")
  /\ save'[p].note # None => save'[p].own # "ONLY_SAVE"
  /\ "saveAgain" \notin Liberties => SavesAt(u, save'[p].place) = {}
  /\ Descent(p)
  /\ Rest(p)
  /\ CountedAs(u, save'[p])
  /\ sort' = sort

Deletes(u, p) ==
  /\ p \in SavesOf(u)
  /\ save'[p].status = "deleted" /\ save'[p].user = u /\ save'[p].place = save[p].place
  /\ save'[p].ff = save[p].ff /\ save'[p].astray = save[p].astray
  /\ SortStays(p) /\ OwnStays(p)
  /\ Rest(p)
  /\ Uncount(u, save[p])
  /\ sort' = sort

Files(u, p, s) ==
  /\ p \in SavesOf(u) /\ SortFound(u, save[p], s)
  /\ Rest(p) /\ Stays(p) /\ OwnStays(p)
  /\ "sortZero" \notin Liberties => save'[p].sort = s
  /\ points' = Shifted(CountedIn(u, save[p].sort), CountedIn(u, s))
  /\ UNCHANGED <<createPoints, savePoints, saves, regions, sort>>

Writes(u, p, promoted) ==
  /\ p \in SavesOf(u)
  /\ Rest(p) /\ Stays(p) /\ SortStays(p)
  /\ Promote(u, promoted)
  /\ save'[p].own = IF promoted THEN "SAVE_FIND" ELSE save[p].own
  /\ OneEach /\ "foreignNote" \notin Liberties => (promoted <=> save[p].own = "ONLY_SAVE")
  /\ UNCHANGED <<points, saves, regions, sort>>

Sorting(u) ==
  /\ \E s \in Sorts : CreateSort(u, s) \/ (sort[s] = "live" /\ DeleteSort(s, points[s]))
  /\ UNCHANGED <<save, counters>>

--------------------------------------------------------------------------------
(* What any step does *)

(* The steps on points add, delete and file saves, or leave them as they are. *)
LEMMA PointChanges ==
  ASSUME Typed, NEW u \in Users, PointStep(u)
  PROVE  \/ Idle
         \/ \E p \in SaveIds : Adds(u, p) \/ Deletes(u, p)
         \/ \E p \in SaveIds, s \in Sorts \cup {None} : Files(u, p, s)
<1> USE DEF Typed, TypeOK
<1>1. ASSUME NEW pl \in Places, NEW adcode \in Adcodes, NEW s \in Sorts \cup {None}, NEW p \in SaveIds,
             SavesAt(u, pl) = {}, s \in Sorts => sort[s] = "live", CreatePoint(u, pl, adcode, s, p)
      PROVE  Adds(u, p)
  <2> DEFINE row == [BlankSave EXCEPT !.status = "live", !.user = u, !.place = pl, !.sort = s,
                                      !.own = "MY_CREATE", !.ff = p,
                                      !.astray = (adcode \ CodesOf[pl]) \cup (CodesOf[pl] \ adcode)]
  <2>1. save'[p] = row /\ \A x \in SaveIds \ {p} : save'[x] = save[x]
    BY <1>1 DEF CreatePoint, SaveType
  <2>2. /\ row.status = "live" /\ row.user = u /\ row.place = pl /\ row.sort = s
        /\ row.own = "MY_CREATE" /\ row.ff = p /\ row.note = None
        /\ row.astray = (adcode \ CodesOf[pl]) \cup (CodesOf[pl] \ adcode)
    BY DEF BlankSave
  <2>3. Rest(p)
    BY <2>1 DEF Rest, Stays, SortStays, OwnStays
  <2>4. CountedAs(u, save'[p])
    <3>1. RegionsAs(u, save'[p], adcode)
      BY <1>1, <2>1, <2>2 DEF CreatePoint, RegionsAs
    <3> QED
      BY <1>1, <2>1, <2>2, <3>1 DEF CreatePoint, CountedAs
  <2> QED
    BY <1>1, <2>1, <2>2, <2>3, <2>4 DEF Adds, CreatePoint, Descent
<1>2. ASSUME NEW q \in SaveIds, NEW p \in SaveIds, LiveSave(q), SavesPlaceOf(u, q),
             CreateSave(u, q, save[q], p)
      PROVE  Adds(u, p)
  <2> DEFINE row == CopyOf(u, q, save[q], save[q].toped)
  <2>1. save'[p] = row /\ \A x \in SaveIds \ {p} : save'[x] = save[x]
    BY <1>2 DEF CreateSave, SaveType
  <2>2. /\ row.status = "live" /\ row.user = u /\ row.place = save[q].place /\ row.sort = None
        /\ row.own = "ONLY_SAVE" /\ row.ff = save[q].ff /\ row.note = None /\ row.astray = {}
    BY DEF CopyOf, BlankSave
  <2>3. Rest(p)
    BY <2>1 DEF Rest, Stays, SortStays, OwnStays
  <2>4. CountedAs(u, save'[p])
    <3>1. RegionsAs(u, save'[p], CodesOf[save[q].place])
      BY <1>2, <2>1, <2>2 DEF CreateSave, RegionsAs
    <3> QED
      BY <1>2, <2>1, <2>2, <3>1 DEF CreateSave, CountCopy, CountedAs, CountedIn
  <2> QED
    BY <1>2, <2>1, <2>2, <2>3, <2>4 DEF Adds, CreateSave, Descent, SavesPlaceOf
<1>3. ASSUME NEW p \in SavesOf(u), NEW s \in Sorts \cup {None}, SortFound(u, save[p], s),
             \/ UpdatePoint(u, p, save[p], s)
             \/ SortIds(s) /\ UpdateSave(u, p, save[p], s)
      PROVE  Files(u, p, s)
  <2>1. Refile(u, save[p], s) /\ (save' = save \/ save' = [save EXCEPT ![p].sort = s])
    BY <1>3 DEF UpdatePoint, UpdateSave
  <2>2. p \in SaveIds /\ save[p] \in SaveRow
    BY DEF SavesOf, SaveType
  <2>3. Rest(p) /\ Stays(p) /\ OwnStays(p)
    BY <2>1, <2>2 DEF Rest, Stays, SortStays, OwnStays, SaveType, SaveRow
  <2>4. "sortZero" \notin Liberties => save'[p].sort = s
    BY <1>3, <2>2 DEF UpdatePoint, UpdateSave, SortIds, SaveType, SaveRow
  <2> QED
    BY <1>3, <2>1, <2>3, <2>4 DEF Files, Refile
<1>4. ASSUME NEW p \in SavesOf(u), DeleteSave(u, p, save[p])
      PROVE  Deletes(u, p)
  <2>1. p \in SaveIds /\ save[p] \in SaveRow /\ save[p].user = u
    BY DEF SavesOf, SaveType
  <2> QED
    BY <1>4, <2>1 DEF DeleteSave, Deletes, Rest, Stays, SortStays, OwnStays, SaveType, SaveRow
<1>5. ASSUME NEW p \in SaveIds, NEW n \in NoteIds, SetTop(p, n, save[p].note, note[n].user)
      PROVE  Idle
  BY <1>5 DEF SetTop, Idle, Stays, SortStays, OwnStays, SaveType, SaveRow
<1> QED
  BY <1>1, <1>2, <1>3, <1>4, <1>5 DEF PointStep, SavesOf

(* The steps on notes add a save, write on one, or leave them as they are. *)
LEMMA NoteChanges ==
  ASSUME Typed, NEW u \in Users, NoteStep(u)
  PROVE  \/ Idle
         \/ \E p \in SaveIds : Adds(u, p)
         \/ \E p \in SaveIds, b \in BOOLEAN : Writes(u, p, b)
<1> USE DEF Typed, TypeOK
<1>1. ASSUME NEW q \in SaveIds, NEW p \in SaveIds, NEW n \in NoteIds, LiveSave(q),
             SavesAt(u, save[q].place) = {}, CreateNoteWithSave(u, save[q], n, p)
      PROVE  Adds(u, p)
  <2> DEFINE row == [BlankSave EXCEPT !.status = "live", !.user = u, !.place = save[q].place,
                         !.own = "SAVE_FIND", !.ff = save[q].ff, !.f = save[q].f, !.note = n]
  <2>1. save'[p] = row /\ \A x \in SaveIds \ {p} : save'[x] = save[x]
    BY <1>1 DEF CreateNoteWithSave, SaveType
  <2>2. /\ row.status = "live" /\ row.user = u /\ row.place = save[q].place /\ row.sort = None
        /\ row.own = "SAVE_FIND" /\ row.ff = save[q].ff /\ row.astray = {}
    BY DEF BlankSave
  <2>3. Rest(p)
    BY <2>1 DEF Rest, Stays, SortStays, OwnStays
  <2>4. CountedAs(u, save'[p])
    <3>1. RegionsAs(u, save'[p], CodesOf[save[q].place])
      BY <1>1, <2>1, <2>2 DEF CreateNoteWithSave, RegionsAs
    <3> QED
      BY <1>1, <2>1, <2>2, <3>1 DEF CreateNoteWithSave, CountCopy, CountedAs, CountedIn
  <2> QED
    BY <1>1, <2>1, <2>2, <2>3, <2>4 DEF Adds, CreateNoteWithSave, Descent
<1>2. ASSUME NEW q \in SaveIds, NEW n \in NoteIds, LiveSave(q), NotePsave(u, q),
             NEW p \in SavesAt(u, save[q].place), CreateNote(u, save[q], save[p], n, p)
      PROVE  \E b \in BOOLEAN : Writes(u, p, b)
  <2> DEFINE b == (IF save[q].user = Public THEN save[p].own ELSE save[q].own) = "ONLY_SAVE"
  <2>1. p \in SaveIds /\ save[p] \in SaveRow /\ p \in SavesOf(u) /\ save[p].user = u
        /\ save[p].place = save[q].place
    BY DEF SavesAt, SavesOf, SaveType
  <2>2. Promote(u, b) /\ UNCHANGED <<points, saves, regions, sort>>
    BY <1>2 DEF CreateNote
  <2>3. save'[p] = WithNote(save[p], n, b)
    BY <1>2, <2>1 DEF CreateNote
  <2>4. Stays(p) /\ SortStays(p) /\ save'[p].own = IF b THEN "SAVE_FIND" ELSE save[p].own
    BY <2>1, <2>3 DEF WithNote, Stays, SortStays, SaveRow
  <2>5. Rest(p)
    <3> SUFFICES ASSUME NEW x \in SaveIds \ {p}
                 PROVE  Stays(x) /\ SortStays(x) /\ OwnStays(x)
      BY DEF Rest
    <3>1. save[x] \in SaveRow /\ (save'[x] = save[x] \/ save'[x] = [save[x] EXCEPT !.top = n])
      BY <1>2 DEF CreateNote, SaveType
    <3> QED
      BY <3>1 DEF Stays, SortStays, OwnStays, SaveRow
  <2>6. OneEach /\ "foreignNote" \notin Liberties => (b <=> save[p].own = "ONLY_SAVE")
    <3> SUFFICES ASSUME OneEach, "foreignNote" \notin Liberties, save[q].user # Public
                 PROVE  p = q
      OBVIOUS
    <3>1. save[q].user = u
      BY <1>2 DEF NotePsave
    <3> QED
      BY <1>2, <2>1, <3>1 DEF OneEach, SavesOf
  <2>7. Writes(u, p, b)
    BY <2>1, <2>2, <2>4, <2>5, <2>6 DEF Writes
  <2>8. b \in BOOLEAN
    OBVIOUS
  <2> HIDE DEF b
  <2> QED
    BY <2>7, <2>8
<1>3. ASSUME NEW n \in NoteIds, DeleteNote(n, note[n].psave)
      PROVE  Idle
  BY <1>3 DEF DeleteNote, Idle, Stays, SortStays, OwnStays, SaveType, SaveRow
<1> QED
  BY <1>1, <1>2, <1>3 DEF NoteStep, SavesAt, SavesOf

(* The steps on saved notes add and delete saves. *)
LEMMA NoteSaveChanges ==
  ASSUME Typed, NEW u \in Users, NoteSaveStep(u)
  PROVE  Idle \/ \E p \in SaveIds : Adds(u, p) \/ Deletes(u, p)
<1> USE DEF Typed, TypeOK
<1>1. ASSUME NEW n \in NoteIds, NEW p \in SaveIds, SaveNote(u, n, p)
      PROVE  Idle
  BY <1>1 DEF SaveNote, Idle, Stays, SortStays, OwnStays, SaveType, SaveRow
<1>2. ASSUME NEW n \in NoteIds, NEW p \in SaveIds, CanBeSaved(u, n),
             SavesAt(u, save[note[n].psave].place) = {}, SaveNoteWithSave(u, n, note[n], p)
      PROVE  Adds(u, p)
  <2> DEFINE q == note[n].psave
             row == CopyOf(u, q, save[q], FALSE)
  <2>1. save'[p] = row /\ \A x \in SaveIds \ {p} : save'[x] = save[x]
    BY <1>2 DEF SaveNoteWithSave, SaveType
  <2>2. /\ row.status = "live" /\ row.user = u /\ row.place = save[q].place /\ row.sort = None
        /\ row.own = "ONLY_SAVE" /\ row.ff = save[q].ff /\ row.note = None /\ row.astray = {}
    BY DEF CopyOf, BlankSave
  <2>3. Rest(p)
    BY <2>1 DEF Rest, Stays, SortStays, OwnStays
  <2>4. CountedAs(u, save'[p])
    <3>1. RegionsAs(u, save'[p], CodesOf[save[q].place])
      BY <1>2, <2>1, <2>2 DEF SaveNoteWithSave, RegionsAs
    <3> QED
      BY <1>2, <2>1, <2>2, <3>1 DEF SaveNoteWithSave, CountCopy, CountedAs, CountedIn
  <2>5. q \in SaveIds /\ LiveSave(q)
    BY <1>2 DEF CanBeSaved, NotesPlaced
  <2> QED
    BY <1>2, <2>1, <2>2, <2>3, <2>4, <2>5 DEF Adds, SaveNoteWithSave, Descent
<1>3. ASSUME NEW ns \in noteSaves, ns.psave \in SavesOf(u),
             UnsaveNote(u, ns, save[ns.psave], LeftOn(ns))
      PROVE  Idle \/ Deletes(u, ns.psave)
  <2> DEFINE p == ns.psave
  <2>1. p \in SaveIds /\ save[p] \in SaveRow /\ save[p].user = u /\ sort' = sort
    BY <1>3 DEF SavesOf, SaveType, UnsaveNote
  <2>2. CASE UNCHANGED <<save, counters>>
    BY <2>1, <2>2 DEF Idle, Stays, SortStays, OwnStays
  <2>3. ASSUME NEW t, save' = [save EXCEPT ![p].top = t], UNCHANGED counters
        PROVE  Idle
    BY <2>1, <2>3 DEF Idle, Stays, SortStays, OwnStays, SaveType, SaveRow
  <2>4. CASE /\ save' = [save EXCEPT ![p].top = None, ![p].status = "deleted"]
             /\ Uncount(u, save[p])
    BY <1>3, <2>1, <2>4 DEF Deletes, Rest, Stays, SortStays, OwnStays, SaveType, SaveRow
  <2> QED
    BY <1>3, <2>2, <2>3, <2>4 DEF UnsaveNote
<1> QED
  BY <1>1, <1>2, <1>3 DEF NoteSaveStep, SavesAt, SavesOf

Change ==
  \/ Idle
  \/ \E u \in Users :
       \/ \E p \in SaveIds : Adds(u, p) \/ Deletes(u, p)
       \/ \E p \in SaveIds, s \in Sorts \cup {None} : Files(u, p, s)
       \/ \E p \in SaveIds, b \in BOOLEAN : Writes(u, p, b)
       \/ Sorting(u)

(* Every step is of one of the kinds. *)
LEMMA LedgerMoves == ASSUME Typed, [Next]_vars PROVE Change
<1>1. ASSUME NEW u \in Users, SortStep(u)
      PROVE  Sorting(u)
  BY <1>1 DEF SortStep, Sorting, CreateSort, DeleteSort
<1>2. CASE Rejected \/ UNCHANGED vars
  BY <1>2 DEF Rejected, vars, tables, counters, Idle, Stays, SortStays, OwnStays, Change
<1> QED
  BY <1>1, <1>2, PointChanges, NoteChanges, NoteSaveChanges DEF Next, Change
--------------------------------------------------------------------------------
(* One save of a place *)

(* The saves that are live after the step were so before, where they were. *)
NoneNew ==
  \A x \in SaveIds : LiveSave(x)' =>
    LiveSave(x) /\ save'[x].user = save[x].user /\ save'[x].place = save[x].place

(* Only an added save is new. *)
LEMMA NewSaves ==
  ASSUME Change
  PROVE  NoneNew \/ \E u \in Users, p \in SaveIds : Adds(u, p)
<1>1. ASSUME Idle PROVE NoneNew
  BY <1>1 DEF Idle, Stays, NoneNew, LiveSave
<1>2. ASSUME NEW u \in Users, NEW p \in SaveIds, Deletes(u, p)
      PROVE  NoneNew
  BY <1>2 DEF Deletes, Rest, Stays, NoneNew, LiveSave
<1>3. ASSUME NEW u \in Users, NEW p \in SaveIds, NEW s \in Sorts \cup {None}, Files(u, p, s)
      PROVE  NoneNew
  BY <1>3 DEF Files, Rest, Stays, NoneNew, LiveSave
<1>4. ASSUME NEW u \in Users, NEW p \in SaveIds, NEW b \in BOOLEAN, Writes(u, p, b)
      PROVE  NoneNew
  BY <1>4 DEF Writes, Rest, Stays, NoneNew, LiveSave
<1>5. ASSUME NEW u \in Users, Sorting(u)
      PROVE  NoneNew
  BY <1>5 DEF Sorting, NoneNew, LiveSave
<1> QED
  BY <1>1, <1>2, <1>3, <1>4, <1>5 DEF Change

(* A place that its handler found without a save of the user gets one only. *)
LEMMA OneEachKept ==
  ASSUME OneEach, Change, "saveAgain" \notin Liberties
  PROVE  OneEach'
<1>1. CASE NoneNew
  BY <1>1 DEF OneEach, NoneNew
<1>2. ASSUME NEW u \in Users, NEW p \in SaveIds, Adds(u, p)
      PROVE  OneEach'
  <2>1. \A x \in SaveIds \ {p} : /\ LiveSave(x)' <=> LiveSave(x)
                                 /\ save'[x].user = save[x].user
                                 /\ save'[x].place = save[x].place
    BY <1>2 DEF Adds, Rest, Stays, LiveSave
  <2>2. \A x \in SaveIds \ {p} : LiveSave(x) /\ save[x].user = u =>
                                   save[x].place # save'[p].place
    BY <1>2 DEF Adds, SavesAt, SavesOf
  <2>3. save'[p].user = u
    BY <1>2 DEF Adds
  <2> QED
    BY <2>1, <2>2, <2>3 DEF OneEach
<1> QED
  BY <1>1, <1>2, NewSaves

(* At first there are the points of user 0, and no save of any other. *)
LEMMA InitSaves ==
  ASSUME Init, NEW p \in SaveIds
  PROVE  /\ save[p].user = Public /\ save[p].sort = None
         /\ LiveSave(p) => p \in DOMAIN PublicMap /\ save[p] = PublicSave(p)
BY DEF Init, PublicSave, BlankSave, LiveSave

(* No handler but POST point/save gives a user a second save of a place,     *)
(* whatever is created, copied, noted, deleted and saved again in between.   *)
THEOREM OneSaveEach ==
  ASSUME "saveAgain" \notin Liberties
  PROVE  Spec => []OneSavePerPlace
<1>1. Init => OneEach
  BY InitSaves, LedgerConstants DEF OneEach
<1>2. OneEach /\ Typed /\ [Next]_vars => OneEach'
  BY LedgerMoves, OneEachKept
<1>3. OneEach => OneSavePerPlace
  <2> SUFFICES ASSUME OneEach, NEW u \in Users, NEW pl \in Places
               PROVE  Cardinality(SavesAt(u, pl)) <= 1
    BY DEF OneSavePerPlace
  <2>1. CASE SavesAt(u, pl) = {}
    BY <2>1, FS_EmptySet
  <2>2. ASSUME NEW p \in SavesAt(u, pl)
        PROVE  Cardinality(SavesAt(u, pl)) <= 1
    <3>1. SavesAt(u, pl) = {p}
      BY DEF OneEach, SavesAt, SavesOf
    <3> QED
      BY <3>1, FS_Singleton
  <2> QED
    BY <2>1, <2>2
<1> QED
  BY <1>1, <1>2, <1>3, InitTyped, NextTyped, PTL DEF Spec

--------------------------------------------------------------------------------
(* Regions *)

There(u, c) == { p \in SavesOf(u) : c \in CodesOf[save[p].place] }

RegionRight(u, c) ==
  IF regions[u][c] = Absent THEN There(u, c) = {}
  ELSE regions[u][c] = Cardinality(There(u, c))

(* What has strayed stays so, as long as saves keep their rows.              *)
LEMMA StraysStay ==
  ASSUME NEW u \in Users, \A x \in SaveIds : Stays(x) \/ FreshSave(x)
  PROVE  Strayed(u) \subseteq Strayed(u)'
BY DEF Strayed, Stays, FreshSave

(* A step that moves no save leaves the counts of the regions right ... *)
LEMMA RegionsStay ==
  ASSUME RegionsCounted, \A x \in SaveIds : Stays(x), regions' = regions
  PROVE  RegionsCounted'
<1>1. \A u \in Users, c \in Codes : There(u, c)' = There(u, c)
  BY DEF There, SavesOf, LiveSave, Stays
<1>2. \A u \in Users : Strayed(u) \subseteq Strayed(u)'
  BY StraysStay
<1> QED
  BY <1>1, <1>2 DEF RegionsCounted, RegionCounted, There

(* ... a new save is counted in the regions of its place, or strays ... *)
LEMMA RegionsGain ==
  ASSUME Typed, RegionsCounted, NEW u \in Users, NEW p \in SaveIds, Adds(u, p)
  PROVE  RegionsCounted'
<1> SUFFICES ASSUME NEW v \in Users, NEW c \in Codes, c \notin Strayed(v)'
             PROVE  RegionRight(v, c)'
  BY DEF RegionsCounted, RegionCounted, RegionRight, There
<1> DEFINE pl == save'[p].place
<1>0. c \notin Strayed(v)
  <2>1. \A x \in SaveIds : Stays(x) \/ FreshSave(x)
    BY DEF Adds, Rest
  <2> QED
    BY <2>1, StraysStay
<1>1. RegionRight(v, c) /\ regions[v][c] \in Nat \cup {Absent} /\ There(v, c) \subseteq SaveIds
  BY <1>0 DEF RegionsCounted, RegionCounted, RegionRight, There, SavesOf, Typed, TypeOK, RegionsType
<1>2. There(v, c)' = IF v = u /\ c \in CodesOf[pl] THEN There(v, c) \cup {p} ELSE There(v, c)
  BY DEF There, SavesOf, LiveSave, Adds, FreshSave, Rest, Stays
<1>3. p \notin There(v, c)
  BY DEF There, SavesOf, LiveSave, Adds, FreshSave
<1>4. regions'[v][c] = IF v # u \/ c \notin CodesOf[pl] THEN regions[v][c]
                       ELSE IF regions[v][c] = Absent THEN 1 ELSE regions[v][c] + 1
  <2>1. PICK adcode : RegionsAs(u, save'[p], adcode)
    BY DEF Adds, CountedAs
  <2>2. v = u => c \notin save'[p].astray
    BY DEF Strayed, Adds, FreshSave
  <2>3. v = u => (c \in adcode <=> c \in CodesOf[pl])
    BY <2>1, <2>2 DEF RegionsAs
  <2> QED
    BY <2>1, <2>3 DEF RegionsAs, IncrementPCP, Typed, TypeOK, RegionsType
<1>5. Cardinality(There(v, c) \cup {p}) = Cardinality(There(v, c)) + 1
  BY <1>1, <1>3, CountedFinite
<1>6. CASE v = u /\ c \in CodesOf[pl]
  <2>1. regions[v][c] = Absent => Cardinality(There(v, c)) = 0
    BY <1>1, CountedFinite DEF RegionRight
  <2> QED
    BY <1>1, <1>2, <1>4, <1>5, <1>6, <2>1 DEF RegionRight, Absent
<1>7. CASE ~(v = u /\ c \in CodesOf[pl])
  BY <1>1, <1>2, <1>4, <1>7 DEF RegionRight
<1> QED
  BY <1>6, <1>7

(* ... and a deleted one is counted out of those it was counted in. *)
LEMMA RegionsLose ==
  ASSUME Typed, RegionsCounted, NEW u \in Users, NEW p \in SaveIds, Deletes(u, p)
  PROVE  RegionsCounted'
<1> SUFFICES ASSUME NEW v \in Users, NEW c \in Codes, c \notin Strayed(v)'
             PROVE  RegionRight(v, c)'
  BY DEF RegionsCounted, RegionCounted, RegionRight, There
<1> DEFINE pl == save[p].place
<1>0. c \notin Strayed(v)
  BY DEF Strayed, FreshSave, Deletes, SavesOf, LiveSave, Rest, Stays
<1>1. RegionRight(v, c) /\ regions[v][c] \in Nat \cup {Absent} /\ There(v, c) \subseteq SaveIds
  BY <1>0 DEF RegionsCounted, RegionCounted, RegionRight, There, SavesOf, Typed, TypeOK, RegionsType
<1>2. There(v, c)' = IF v = u /\ c \in CodesOf[pl] THEN There(v, c) \ {p} ELSE There(v, c)
  BY DEF There, SavesOf, LiveSave, Deletes, Rest, Stays
<1>3. v = u /\ c \in CodesOf[pl] => p \in There(v, c)
  BY DEF There, Deletes
<1>4. regions'[v][c] = IF v = u /\ c \in CodesOf[pl] /\ regions[v][c] # Absent
                       THEN regions[v][c] - 1 ELSE regions[v][c]
  BY DEF Deletes, Uncount, DecrementPCP, Typed, TypeOK, RegionsType
<1>5. p \in There(v, c) => /\ Cardinality(There(v, c) \ {p}) = Cardinality(There(v, c)) - 1
                           /\ Cardinality(There(v, c)) \in Nat
                           /\ Cardinality(There(v, c)) # 0
  BY <1>1, CountedFinite
<1> QED
  BY <1>1, <1>2, <1>3, <1>4, <1>5 DEF RegionRight, Absent

(* Whoever moves, writes, files and deletes points: the counts from which    *)
(* the map is drawn at low zoom are the live saves in each region, but for   *)
(* the regions in which the user has created a point by another adcode.      *)
THEOREM AllRegionsCounted == Spec => []RegionsCounted
<1>1. Init => RegionsCounted
  BY InitSaves, LedgerConstants DEF Init, RegionsCounted, RegionCounted, SavesOf
<1>2. RegionsCounted /\ Typed /\ [Next]_vars => RegionsCounted'
  <2> SUFFICES ASSUME RegionsCounted, Typed, Change
               PROVE  RegionsCounted'
    BY LedgerMoves
  <2>1. CASE Idle
    BY <2>1, RegionsStay DEF Idle, counters
  <2>2. ASSUME NEW u \in Users, NEW p \in SaveIds, NEW s \in Sorts \cup {None}, Files(u, p, s)
        PROVE  RegionsCounted'
    BY <2>2, RegionsStay DEF Files, Rest
  <2>3. ASSUME NEW u \in Users, NEW p \in SaveIds, NEW b \in BOOLEAN, Writes(u, p, b)
        PROVE  RegionsCounted'
    BY <2>3, RegionsStay DEF Writes, Rest
  <2>4. ASSUME NEW u \in Users, Sorting(u)
        PROVE  RegionsCounted'
    BY <2>4, RegionsStay DEF Sorting, counters, Stays
  <2> QED
    BY <2>1, <2>2, <2>3, <2>4, RegionsGain, RegionsLose DEF Change
<1> QED
  BY <1>1, <1>2, InitTyped, NextTyped, PTL DEF Spec
--------------------------------------------------------------------------------
(* Sorts *)

(* The live saves that are counted in b: in the sort b, or in the default   *)
(* sort of user b.                                                          *)
InBox(p, b) == IF b \in Users THEN save[p].user = b /\ save[p].sort = None
               ELSE save[p].sort = b
Filed(b)    == { p \in SaveIds : LiveSave(p) /\ InBox(p, b) }
BoxRight(b) == RowExists(b) => points[b] = Cardinality(Filed(b))

(* A sort that is not yet there has no points waiting for it. *)
SortsRight ==
  /\ \A b \in Users \cup Sorts : BoxRight(b)
  /\ SortsKept
  /\ \A s \in Sorts : sort[s] = "free" => points[s] = 0

(* A save of a registered user is counted in one place.                     *)
LEMMA OneBox ==
  ASSUME NEW u \in Users, NEW s \in Sorts \cup {None}, NEW b \in Users \cup Sorts
  PROVE  b = CountedIn(u, s) <=> IF b \in Users THEN u = b /\ s = None ELSE s = b
BY LedgerConstants DEF CountedIn

(* A step that files nothing leaves the points of the sorts right ... *)
LEMMA SortsStay ==
  ASSUME SortsRight, \A x \in SaveIds : Stays(x) /\ SortStays(x), UNCHANGED <<points, sort>>
  PROVE  SortsRight'
<1>1. \A b \in Users \cup Sorts : Filed(b)' = Filed(b)
  BY DEF Filed, InBox, LiveSave, Stays, SortStays
<1>2. \A b \in Users \cup Sorts : BoxRight(b)'
  BY <1>1 DEF SortsRight, BoxRight, RowExists
<1>3. SortsKept'
  BY DEF SortsRight, SortsKept, LiveSave, Stays, SortStays
<1> QED
  BY <1>2, <1>3 DEF SortsRight

(* ... a new save is counted in its sort ... *)
LEMMA SortsGain ==
  ASSUME Typed, SortsRight, NEW u \in Users, NEW p \in SaveIds, Adds(u, p)
  PROVE  SortsRight'
<1> DEFINE s  == save'[p].sort
           to == CountedIn(u, s)
<1>1. s \in Sorts \cup {None} /\ save'[p].user = u /\ LiveSave(p)' /\ ~LiveSave(p)
  BY DEF Adds, FreshSave, LiveSave
<1>2. \A x \in SaveIds \ {p} : (LiveSave(x)' <=> LiveSave(x)) /\ save'[x].user = save[x].user
                               /\ save'[x].sort = save[x].sort
  BY DEF Adds, Rest, Stays, SortStays, LiveSave
<1>3. sort' = sort /\ points' = Plus(to)
  BY DEF Adds, CountedAs
<1>4. ASSUME NEW b \in Users \cup Sorts
      PROVE  BoxRight(b)'
  <2>1. CASE b = to
    <3>1. InBox(p, b)'
      BY <1>1, <2>1, OneBox DEF InBox
    <3>2. Filed(b)' = Filed(b) \cup {p} /\ p \notin Filed(b)
      BY <1>1, <1>2, <3>1 DEF Filed, InBox
    <3>3. Cardinality(Filed(b)') = Cardinality(Filed(b)) + 1
      BY <3>2, CountedFinite DEF Filed
    <3> QED
      BY <1>3, <2>1, <3>3 DEF SortsRight, BoxRight, Plus, RowExists, Typed, TypeOK, PointsType
  <2>2. CASE b # to
    <3>1. ~InBox(p, b)'
      BY <1>1, <2>2, OneBox DEF InBox
    <3>2. Filed(b)' = Filed(b)
      BY <1>1, <1>2, <3>1 DEF Filed, InBox
    <3> QED
      BY <1>3, <2>2, <3>2 DEF SortsRight, BoxRight, Plus, RowExists, Typed, TypeOK, PointsType
  <2> QED
    BY <2>1, <2>2
<1>5. SortsKept'
  BY <1>2, <1>3 DEF SortsRight, SortsKept, Adds
<1>6. \A x \in Sorts : sort'[x] = "free" => points'[x] = 0
  BY <1>3, LedgerConstants DEF SortsRight, Plus, RowExists, Typed, TypeOK, PointsType
<1> QED
  BY <1>4, <1>5, <1>6 DEF SortsRight

(* ... a deleted one is counted out of it ... *)
LEMMA SortsLose ==
  ASSUME Typed, SortsRight, NEW u \in Users, NEW p \in SaveIds, Deletes(u, p)
  PROVE  SortsRight'
<1> DEFINE s    == save[p].sort
           from == CountedIn(u, s)
<1>1. s \in Sorts \cup {None} /\ save[p].user = u /\ LiveSave(p) /\ ~LiveSave(p)'
  BY DEF Deletes, SavesOf, LiveSave, Typed, TypeOK, SaveType, SaveRow
<1>2. \A x \in SaveIds \ {p} : (LiveSave(x)' <=> LiveSave(x)) /\ save'[x].user = save[x].user
                               /\ save'[x].sort = save[x].sort
  BY DEF Deletes, Rest, Stays, SortStays, LiveSave
<1>3. sort' = sort /\ points' = Minus(from)
  BY DEF Deletes, Uncount
<1>4. ASSUME NEW b \in Users \cup Sorts
      PROVE  BoxRight(b)'
  <2>1. CASE b = from
    <3>1. InBox(p, b)
      BY <1>1, <2>1, OneBox DEF InBox
    <3>2. Filed(b)' = Filed(b) \ {p} /\ p \in Filed(b)
      BY <1>1, <1>2, <3>1 DEF Filed, InBox
    <3>3. Cardinality(Filed(b)') = Cardinality(Filed(b)) - 1
      BY <3>2, CountedFinite DEF Filed
    <3> QED
      BY <1>3, <2>1, <3>3 DEF SortsRight, BoxRight, Minus, RowExists, Typed, TypeOK, PointsType
  <2>2. CASE b # from
    <3>1. ~InBox(p, b)
      BY <1>1, <2>2, OneBox DEF InBox
    <3>2. Filed(b)' = Filed(b)
      BY <1>1, <1>2, <3>1 DEF Filed, InBox
    <3> QED
      BY <1>3, <2>2, <3>2 DEF SortsRight, BoxRight, Minus, RowExists, Typed, TypeOK, PointsType
  <2> QED
    BY <2>1, <2>2
<1>5. SortsKept'
  BY <1>1, <1>2, <1>3 DEF SortsRight, SortsKept
<1>6. \A x \in Sorts : sort'[x] = "free" => points'[x] = 0
  BY <1>3, LedgerConstants DEF SortsRight, Minus, RowExists, Typed, TypeOK, PointsType
<1> QED
  BY <1>4, <1>5, <1>6 DEF SortsRight

(* ... and one that is filed elsewhere is counted there and no more here. *)
LEMMA SortsMove ==
  ASSUME Typed, SortsRight, "sortZero" \notin Liberties,
         NEW u \in Users, NEW p \in SaveIds, NEW s \in Sorts \cup {None}, Files(u, p, s)
  PROVE  SortsRight'
<1> DEFINE from == CountedIn(u, save[p].sort)
           to   == CountedIn(u, s)
<1>1. /\ save[p].sort \in Sorts \cup {None} /\ save[p].user = u /\ LiveSave(p)
      /\ save'[p].sort = s /\ save'[p].user = u /\ LiveSave(p)'
  BY DEF Files, Stays, SavesOf, LiveSave, Typed, TypeOK, SaveType, SaveRow
<1>2. \A x \in SaveIds \ {p} : (LiveSave(x)' <=> LiveSave(x)) /\ save'[x].user = save[x].user
                               /\ save'[x].sort = save[x].sort
  BY DEF Files, Rest, Stays, SortStays, LiveSave
<1>3. sort' = sort /\ points' = Shifted(from, to) /\ DOMAIN points = Users \cup Sorts
  BY DEF Files, Typed, TypeOK, PointsType
<1>4. ASSUME NEW b \in Users \cup Sorts
      PROVE  BoxRight(b)'
  <2>0. (InBox(p, b) <=> b = from) /\ (InBox(p, b)' <=> b = to)
    BY <1>1, OneBox DEF InBox
  <2>1. CASE b = from /\ b # to
    <3>1. Filed(b)' = Filed(b) \ {p} /\ p \in Filed(b)
      BY <1>1, <1>2, <2>0, <2>1 DEF Filed, InBox
    <3>2. Cardinality(Filed(b)') = Cardinality(Filed(b)) - 1
      BY <3>1, CountedFinite DEF Filed
    <3> QED
      BY <1>3, <2>1, <3>2 DEF SortsRight, BoxRight, Shifted, RowExists
  <2>2. CASE b # from /\ b = to
    <3>1. Filed(b)' = Filed(b) \cup {p} /\ p \notin Filed(b)
      BY <1>1, <1>2, <2>0, <2>2 DEF Filed, InBox
    <3>2. Cardinality(Filed(b)') = Cardinality(Filed(b)) + 1
      BY <3>1, CountedFinite DEF Filed
    <3> QED
      BY <1>3, <2>2, <3>2 DEF SortsRight, BoxRight, Shifted, RowExists
  <2>3. CASE b = from <=> b = to
    <3>1. Filed(b)' = Filed(b)
      BY <1>1, <1>2, <2>0, <2>3 DEF Filed, InBox
    <3>2. points'[b] = points[b]
      BY <1>3, <2>3 DEF Shifted
    <3> QED
      BY <1>3, <3>1, <3>2 DEF SortsRight, BoxRight, RowExists
  <2> QED
    BY <2>1, <2>2, <2>3
<1>5. SortsKept'
  BY <1>1, <1>2, <1>3 DEF SortsRight, SortsKept, Files, SortFound
<1>6. \A x \in Sorts : sort'[x] = "free" => points'[x] = 0
  BY <1>3, LedgerConstants DEF SortsRight, Shifted, RowExists
<1> QED
  BY <1>4, <1>5, <1>6 DEF SortsRight

(* A sort starts without points, and is deleted without any. *)
LEMMA SortsComeAndGo ==
  ASSUME Typed, SortsRight, NEW u \in Users, Sorting(u)
  PROVE  SortsRight'
<1>1. UNCHANGED <<save, points>> /\ \A b : Filed(b)' = Filed(b)
  BY DEF Sorting, counters, Filed, InBox, LiveSave
<1>2. PICK s \in Sorts : CreateSort(u, s) \/ (sort[s] = "live" /\ DeleteSort(s, points[s]))
  BY DEF Sorting
<1>3. /\ \A x \in Sorts \ {s} : sort'[x] = sort[x]
      /\ sort'[s] \in {"live", "deleted"}
      /\ s \notin Users
  BY <1>2, LedgerConstants DEF CreateSort, DeleteSort, Typed, TypeOK, SortType
<1>4. \A x \in Sorts : sort'[x] = "free" => points'[x] = 0
  BY <1>1, <1>3 DEF SortsRight
<1>5. \A b \in (Users \cup Sorts) \ {s} : BoxRight(b)'
  BY <1>1, <1>3 DEF SortsRight, BoxRight, RowExists
<1>6. CASE CreateSort(u, s)
  <2>1. Filed(s) = {} /\ points[s] = 0
    BY <1>3, <1>6, LedgerConstants DEF CreateSort, SortsRight, SortsKept, Filed, InBox
  <2>2. BoxRight(s)'
    BY <1>1, <2>1, FS_EmptySet DEF BoxRight
  <2>3. SortsKept'
    BY <1>1, <1>3, <1>6 DEF CreateSort, SortsRight, SortsKept, LiveSave, Typed, TypeOK, SortType
  <2> QED
    BY <1>4, <1>5, <2>2, <2>3 DEF SortsRight
<1>7. CASE sort[s] = "live" /\ DeleteSort(s, points[s])
  <2>1. Filed(s) = {} /\ sort'[s] = "deleted"
    <3>1. points[s] = 0 /\ RowExists(s) /\ sort'[s] = "deleted"
      BY <1>7 DEF DeleteSort, RowExists, Typed, TypeOK, SortType
    <3>2. Filed(s) \in SUBSET SaveIds
      BY DEF Filed
    <3> QED
      BY <3>1, <3>2, CountedFinite DEF SortsRight, BoxRight
  <2>2. BoxRight(s)'
    BY <1>3, <2>1 DEF BoxRight, RowExists
  <2>3. SortsKept'
    BY <1>1, <1>3, <2>1 DEF SortsRight, SortsKept, LiveSave, Filed, InBox, Typed, TypeOK, SaveType, SaveRow
  <2> QED
    BY <1>4, <1>5, <2>2, <2>3 DEF SortsRight
<1> QED
  BY <1>2, <1>6, <1>7

(* While no client sends PUT point/save with sortId 0, every step keeps the *)
(* sorts right.                                                             *)
LEMMA SortsStep ==
  ASSUME "sortZero" \notin Liberties
  PROVE  SortsRight /\ Typed /\ [Next]_vars => SortsRight'
<1> SUFFICES ASSUME SortsRight, Typed, Change
             PROVE  SortsRight'
  BY LedgerMoves
<1>1. CASE Idle
  BY <1>1, SortsStay DEF Idle, counters
<1>2. ASSUME NEW u \in Users, NEW p \in SaveIds, NEW b \in BOOLEAN, Writes(u, p, b)
      PROVE  SortsRight'
  BY <1>2, SortsStay DEF Writes, Rest
<1> QED
  BY <1>1, <1>2, SortsGain, SortsLose, SortsMove, SortsComeAndGo DEF Change

(* At first nothing is filed. *)
LEMMA SortsInit == Init => SortsRight
<1> SUFFICES ASSUME Init
             PROVE  SortsRight
  OBVIOUS
<1>1. ASSUME NEW b \in Users \cup Sorts, RowExists(b)
      PROVE  points[b] = Cardinality(Filed(b))
  <2>1. b \in Users
    BY <1>1 DEF Init, RowExists
  <2>2. Filed(b) = {}
    BY <2>1, InitSaves, LedgerConstants DEF Filed, InBox
  <2> QED
    BY <2>2, FS_EmptySet DEF Init
<1>2. SortsKept
  BY InitSaves DEF SortsKept
<1>3. \A s \in Sorts : points[s] = 0
  BY DEF Init
<1> QED
  BY <1>1, <1>2, <1>3 DEF SortsRight, BoxRight

(* The points of a sort are the saves filed in it, and defaultCss counts    *)
(* those without a sort: for any number of sorts and saves, while nobody    *)
(* sends sortId 0.                                                          *)
THEOREM AllSortsCounted ==
  ASSUME "sortZero" \notin Liberties
  PROVE  Spec => []SortsCounted
<1>1. SortsRight => SortsCounted
  <2> SUFFICES ASSUME SortsRight
               PROVE  SortsCounted
    OBVIOUS
  <2>1. \A u \in Users : Filed(u) = { p \in SavesOf(u) : save[p].sort = None }
    BY DEF Filed, InBox, SavesOf
  <2>2. \A s \in Sorts : Filed(s) = { p \in SaveIds : LiveSave(p) /\ save[p].sort = s }
    BY LedgerConstants DEF Filed, InBox
  <2> QED
    BY <2>1, <2>2 DEF SortsCounted, SortsRight, BoxRight, RowExists
<1> QED
  BY <1>1, SortsInit, SortsStep, InitTyped, NextTyped, PTL DEF Spec

(* Under the same condition no live save is filed in a sort that was        *)
(* deleted, since the points that deleteOne reads as 0 are exact.           *)
THEOREM AllSortsKept ==
  ASSUME "sortZero" \notin Liberties
  PROVE  Spec => []SortsKept
<1>1. SortsRight => SortsKept
  BY DEF SortsRight
<1> QED
  BY <1>1, SortsInit, SortsStep, InitTyped, NextTyped, PTL DEF Spec

--------------------------------------------------------------------------------
(* Created and saved points *)

Kept(u)   == { p \in SavesOf(u) : save[p].own = "ONLY_SAVE" }
From(q)   == { p \in SaveIds : LiveSave(p) /\ save[p].ff = q /\ save[p].own # "MY_CREATE" }

(* No request writes into somebody else's points: what a note promotes is   *)
(* then the very save whose type was read.                                  *)
Restrained == "foreignNote" \notin Liberties /\ "saveAgain" \notin Liberties

(* A step that changes no type leaves both counts right ... *)
LEMMA TypesStay ==
  ASSUME OwnTypesCounted, \A x \in SaveIds : Stays(x) /\ save'[x].own = save[x].own,
         UNCHANGED <<savePoints, saves>>
  PROVE  OwnTypesCounted'
<1>1. \A u \in Users : Kept(u)' = Kept(u)
  BY DEF Kept, SavesOf, LiveSave, Stays
<1>2. \A q \in SaveIds : From(q)' = From(q)
  BY DEF From, LiveSave, Stays
<1> QED
  BY <1>1, <1>2 DEF OwnTypesCounted, Kept, From

(* ... a new save is counted by its type ... *)
LEMMA TypesGain ==
  ASSUME Typed, OwnTypesCounted, NEW u \in Users, NEW p \in SaveIds, Adds(u, p)
  PROVE  OwnTypesCounted'
<1>1. /\ save'[p].user = u /\ LiveSave(p)' /\ ~LiveSave(p)
      /\ \A x \in SaveIds \ {p} : Stays(x) /\ save'[x].own = save[x].own
  BY DEF Adds, FreshSave, LiveSave, Rest, OwnStays
<1>2. ASSUME NEW v \in Users
      PROVE  savePoints'[v] = Cardinality(Kept(v)')
  <2>1. savePoints[v] = Cardinality(Kept(v)) /\ Kept(v) \in SUBSET SaveIds /\ p \notin Kept(v)
    BY <1>1 DEF OwnTypesCounted, Kept, SavesOf
  <2>2. CASE v = u /\ save'[p].own = "ONLY_SAVE"
    <3>1. Kept(v)' = Kept(v) \cup {p}
      BY <1>1, <2>2 DEF Kept, SavesOf, LiveSave, Stays
    <3> QED
      BY <2>1, <2>2, <3>1, CountedFinite DEF Adds, CountedAs, Typed, TypeOK, CountType
  <2>3. CASE ~(v = u /\ save'[p].own = "ONLY_SAVE")
    <3>1. Kept(v)' = Kept(v)
      BY <1>1, <2>3 DEF Kept, SavesOf, LiveSave, Stays
    <3> QED
      BY <2>1, <2>3, <3>1 DEF Adds, CountedAs, Typed, TypeOK, CountType
  <2> QED
    BY <2>2, <2>3
<1>3. ASSUME NEW q \in SaveIds
      PROVE  saves'[q] = Cardinality(From(q)')
  <2>1. saves[q] = Cardinality(From(q)) /\ From(q) \in SUBSET SaveIds /\ p \notin From(q)
    BY <1>1 DEF OwnTypesCounted, From
  <2>2. CASE q = save'[p].ff /\ save'[p].own # "MY_CREATE"
    <3>1. From(q)' = From(q) \cup {p}
      BY <1>1, <2>2 DEF From, LiveSave, Stays
    <3> QED
      BY <2>1, <2>2, <3>1, CountedFinite DEF Adds, CountedAs, Typed, TypeOK, SavesType
  <2>3. CASE ~(q = save'[p].ff /\ save'[p].own # "MY_CREATE")
    <3>1. From(q)' = From(q)
      BY <1>1, <2>3 DEF From, LiveSave, Stays
    <3> QED
      BY <2>1, <2>3, <3>1 DEF Adds, CountedAs, Typed, TypeOK, SavesType
  <2> QED
    BY <2>2, <2>3
<1> QED
  BY <1>2, <1>3 DEF OwnTypesCounted, Kept, From

(* ... a deleted one by the type that was read ... *)
LEMMA TypesLose ==
  ASSUME Typed, OwnTypesCounted, NEW u \in Users, NEW p \in SaveIds, Deletes(u, p)
  PROVE  OwnTypesCounted'
<1>1. /\ save[p].user = u /\ LiveSave(p) /\ ~LiveSave(p)'
      /\ \A x \in SaveIds \ {p} : Stays(x) /\ save'[x].own = save[x].own
  BY DEF Deletes, SavesOf, LiveSave, Rest, OwnStays
<1>2. ASSUME NEW v \in Users
      PROVE  savePoints'[v] = Cardinality(Kept(v)')
  <2>1. savePoints[v] = Cardinality(Kept(v)) /\ Kept(v) \in SUBSET SaveIds
    BY DEF OwnTypesCounted, Kept, SavesOf
  <2>2. CASE v = u /\ save[p].own = "ONLY_SAVE"
    <3>1. Kept(v)' = Kept(v) \ {p} /\ p \in Kept(v)
      BY <1>1, <2>2 DEF Kept, SavesOf, LiveSave, Stays
    <3> QED
      BY <2>1, <2>2, <3>1, CountedFinite DEF Deletes, Uncount, Typed, TypeOK, CountType
  <2>3. CASE ~(v = u /\ save[p].own = "ONLY_SAVE")
    <3>1. Kept(v)' = Kept(v)
      BY <1>1, <2>3 DEF Kept, SavesOf, LiveSave, Stays
    <3> QED
      BY <2>1, <2>3, <3>1 DEF Deletes, Uncount, Typed, TypeOK, CountType
  <2> QED
    BY <2>2, <2>3
<1>3. ASSUME NEW q \in SaveIds
      PROVE  saves'[q] = Cardinality(From(q)')
  <2>1. saves[q] = Cardinality(From(q)) /\ From(q) \in SUBSET SaveIds
    BY DEF OwnTypesCounted, From
  <2>2. CASE q = save[p].ff /\ save[p].own # "MY_CREATE"
    <3>1. From(q)' = From(q) \ {p} /\ p \in From(q)
      BY <1>1, <2>2 DEF From, LiveSave, Stays
    <3> QED
      BY <2>1, <2>2, <3>1, CountedFinite DEF Deletes, Uncount, Typed, TypeOK, SavesType
  <2>3. CASE ~(q = save[p].ff /\ save[p].own # "MY_CREATE")
    <3>1. From(q)' = From(q)
      BY <1>1, <2>3 DEF From, LiveSave, Stays
    <3> QED
      BY <2>1, <2>3, <3>1 DEF Deletes, Uncount, Typed, TypeOK, SavesType
  <2> QED
    BY <2>2, <2>3
<1> QED
  BY <1>2, <1>3 DEF OwnTypesCounted, Kept, From

(* ... and a kept save that gets a note is counted as kept no more. *)
LEMMA TypesPromote ==
  ASSUME Typed, OwnTypesCounted, OneEach, Restrained,
         NEW u \in Users, NEW p \in SaveIds, NEW b \in BOOLEAN, Writes(u, p, b)
  PROVE  OwnTypesCounted'
<1>1. /\ save[p].user = u /\ LiveSave(p) /\ LiveSave(p)' /\ save'[p].user = u
      /\ \A x \in SaveIds : Stays(x)
      /\ \A x \in SaveIds \ {p} : save'[x].own = save[x].own
  BY DEF Writes, SavesOf, LiveSave, Rest, Stays, OwnStays
<1>2. b <=> save[p].own = "ONLY_SAVE"
  BY DEF Writes, Restrained
<1>3. save'[p].own = IF b THEN "SAVE_FIND" ELSE save[p].own
  BY DEF Writes
<1>4. ASSUME NEW v \in Users
      PROVE  savePoints'[v] = Cardinality(Kept(v)')
  <2>1. savePoints[v] = Cardinality(Kept(v)) /\ Kept(v) \in SUBSET SaveIds
    BY DEF OwnTypesCounted, Kept, SavesOf
  <2>2. CASE v = u /\ b
    <3>1. Kept(v)' = Kept(v) \ {p} /\ p \in Kept(v)
      BY <1>1, <1>2, <1>3, <2>2 DEF Kept, SavesOf, LiveSave, Stays
    <3> QED
      BY <2>1, <2>2, <3>1, CountedFinite DEF Writes, Promote, Typed, TypeOK, CountType
  <2>3. CASE ~(v = u /\ b)
    <3>1. Kept(v)' = Kept(v)
      BY <1>1, <1>2, <1>3, <2>3 DEF Kept, SavesOf, LiveSave, Stays
    <3> QED
      BY <2>1, <2>3, <3>1 DEF Writes, Promote, Typed, TypeOK, CountType
  <2> QED
    BY <2>2, <2>3
<1>5. \A q \in SaveIds : From(q)' = From(q)
  BY <1>1, <1>2, <1>3 DEF From, LiveSave, Stays
<1> QED
  BY <1>4, <1>5 DEF OwnTypesCounted, Kept, From, Writes

(* Every step of restrained clients keeps both counts right.                *)
LEMMA TypesStep ==
  ASSUME Restrained
  PROVE  OwnTypesCounted /\ OneEach /\ Typed /\ [Next]_vars => OwnTypesCounted'
<1> SUFFICES ASSUME OwnTypesCounted, OneEach, Typed, Change
             PROVE  OwnTypesCounted'
  BY LedgerMoves
<1>1. CASE Idle
  BY <1>1, TypesStay DEF Idle, counters, OwnStays
<1>2. ASSUME NEW u \in Users, NEW p \in SaveIds, NEW s \in Sorts \cup {None}, Files(u, p, s)
      PROVE  OwnTypesCounted'
  BY <1>2, TypesStay DEF Files, Rest, OwnStays
<1>3. ASSUME NEW u \in Users, Sorting(u)
      PROVE  OwnTypesCounted'
  BY <1>3, TypesStay DEF Sorting, counters, Stays
<1> QED
  BY <1>1, <1>2, <1>3, TypesGain, TypesLose, TypesPromote DEF Change

(* At first the points of user 0 are all created, and nobody has saved one. *)
LEMMA TypesInit == Init => OwnTypesCounted
<1> SUFFICES ASSUME Init
             PROVE  OwnTypesCounted
  OBVIOUS
<1>1. \A u \in Users : Kept(u) = {}
  BY InitSaves, LedgerConstants DEF Kept, SavesOf
<1>2. \A q \in SaveIds : From(q) = {}
  BY InitSaves DEF From, PublicSave, BlankSave
<1> QED
  BY <1>1, <1>2, FS_EmptySet DEF Init, OwnTypesCounted, Kept, From

(* OneEach holds of every state that restrained clients reach.              *)
LEMMA OneEachAlways ==
  ASSUME Restrained
  PROVE  /\ Init => OneEach
         /\ OneEach /\ Typed /\ [Next]_vars => OneEach'
<1>1. Init => OneEach
  BY InitSaves, LedgerConstants DEF OneEach
<1>2. OneEach /\ Typed /\ [Next]_vars => OneEach'
  BY LedgerMoves, OneEachKept DEF Restrained
<1> QED
  BY <1>1, <1>2

(* savePoints counts the points that a user only keeps, and the statistic   *)
(* saves of a created point its copies at any remove, through promotions    *)
(* by notes, copies of copies and deletions in any order; clients that do   *)
(* not save a place again or write notes on saves of others assumed.        *)
THEOREM AllTypesCounted ==
  ASSUME Restrained
  PROVE  Spec => []OwnTypesCounted
<1>1. Init => OneEach /\ OwnTypesCounted
  BY OneEachAlways, TypesInit
<1>2. OneEach /\ OwnTypesCounted /\ Typed /\ [Next]_vars => (OneEach /\ OwnTypesCounted)'
  BY OneEachAlways, TypesStep
<1> QED
  BY <1>1, <1>2, InitTyped, NextTyped, PTL DEF Spec

--------------------------------------------------------------------------------
(* The origin of a point *)

(* Whatever is or was a save lies at a place, descends from a created point *)
(* of that place, and is no mere copy once it has a note.                   *)
Noted(p) == save[p].note # None => save[p].own # "ONLY_SAVE"

Born(p) ==
  save[p].status # "free" =>
    LET q == save[p].ff IN
    /\ save[p].place \in Places
    /\ q \in SaveIds /\ save[q].status # "free" /\ save[q].place = save[p].place
    /\ save[q].own = "MY_CREATE" /\ save[q].ff = q
    /\ save[p].own = "MY_CREATE" => q = p
    /\ Noted(p)

AllBorn == \A p \in SaveIds : Born(p)

(* What the columns of a row that is in use may do *)
RowAges(p) ==
  save[p].status # "free" =>
    /\ save'[p].status # "free"
    /\ save'[p].place = save[p].place /\ save'[p].ff = save[p].ff
    /\ save'[p].own = "MY_CREATE" <=> save[p].own = "MY_CREATE"
    /\ Noted(p) => Noted(p)'

(* The origin of the saves is kept by rows that only age and by new ones    *)
(* that descend from others.                                                *)
LEMMA BornKept ==
  ASSUME AllBorn, \A p \in SaveIds : RowAges(p),
         \A p \in SaveIds : save[p].status = "free" /\ save'[p].status # "free" =>
           Descent(p) /\ Noted(p)'
  PROVE  AllBorn'
<1> SUFFICES ASSUME NEW p \in SaveIds, save'[p].status # "free"
             PROVE  Born(p)'
  BY DEF AllBorn, Born
<1>1. CASE save[p].status # "free"
  <2>1. Born(p) /\ save[p].ff \in SaveIds /\ Born(save[p].ff)
    BY <1>1 DEF AllBorn, Born
  <2>2. RowAges(p) /\ RowAges(save[p].ff)
    BY <2>1
  <2> QED
    BY <1>1, <2>1, <2>2 DEF Born, RowAges
<1>2. CASE save[p].status = "free"
  <2>1. Descent(p) /\ Noted(p)'
    BY <1>2
  <2>2. CASE save'[p].own = "MY_CREATE"
    BY <2>1, <2>2 DEF Descent, Born
  <2>3. CASE save'[p].own # "MY_CREATE"
    <3>1. PICK q \in SaveIds : LiveSave(q) /\ save'[p].ff = save[q].ff /\ save'[p].place = save[q].place
      BY <2>1, <2>3 DEF Descent
    <3>2. Born(q) /\ save[q].status # "free" /\ save[q].ff \in SaveIds /\ RowAges(save[q].ff)
      BY <3>1 DEF AllBorn, Born, LiveSave
    <3> QED
      BY <2>1, <2>3, <3>1, <3>2 DEF Born, RowAges
  <2> QED
    BY <2>2, <2>3
<1> QED
  BY <1>1, <1>2

(* Every step of restrained clients keeps the origin of the saves.          *)
LEMMA BornStep ==
  ASSUME Restrained
  PROVE  AllBorn /\ OneEach /\ Typed /\ [Next]_vars => AllBorn'
<1> SUFFICES ASSUME AllBorn, OneEach, Typed, Change
             PROVE  AllBorn'
  BY LedgerMoves
<1> DEFINE Older == /\ \A p \in SaveIds : RowAges(p)
                    /\ \A p \in SaveIds : save[p].status = "free" => save'[p].status = "free"
<1>1. CASE Idle
  <2>1. Older
    BY <1>1 DEF Idle, Stays, OwnStays, RowAges, Noted
  <2> QED
    BY <2>1, BornKept
<1>2. ASSUME NEW u \in Users, NEW p \in SaveIds, Adds(u, p)
      PROVE  AllBorn'
  <2>1. \A x \in SaveIds : RowAges(x)
    BY <1>2 DEF Adds, FreshSave, Rest, Stays, OwnStays, RowAges, Noted
  <2>2. \A x \in SaveIds : save[x].status = "free" /\ save'[x].status # "free" =>
          Descent(x) /\ Noted(x)'
    BY <1>2 DEF Adds, Rest, Stays, Noted
  <2> QED
    BY <2>1, <2>2, BornKept
<1>3. ASSUME NEW u \in Users, NEW p \in SaveIds, Deletes(u, p)
      PROVE  AllBorn'
  <2>1. Older
    BY <1>3 DEF Deletes, SavesOf, LiveSave, Rest, Stays, OwnStays, RowAges, Noted
  <2> QED
    BY <2>1, BornKept
<1>4. ASSUME NEW u \in Users, NEW p \in SaveIds, NEW s \in Sorts \cup {None}, Files(u, p, s)
      PROVE  AllBorn'
  <2>1. Older
    BY <1>4 DEF Files, SavesOf, LiveSave, Rest, Stays, OwnStays, RowAges, Noted
  <2> QED
    BY <2>1, BornKept
<1>5. ASSUME NEW u \in Users, NEW p \in SaveIds, NEW b \in BOOLEAN, Writes(u, p, b)
      PROVE  AllBorn'
  <2>1. Older
    <3>1. \A x \in SaveIds \ {p} : RowAges(x)
      BY <1>5 DEF Writes, Rest, Stays, OwnStays, RowAges, Noted
    <3>2. save'[p].own # "ONLY_SAVE" /\ Stays(p) /\ LiveSave(p)
          /\ (save'[p].own = "MY_CREATE" <=> save[p].own = "MY_CREATE")
      BY <1>5 DEF Writes, Restrained, SavesOf
    <3>3. RowAges(p)
      BY <3>2 DEF Stays, LiveSave, RowAges, Noted
    <3>4. \A x \in SaveIds : Stays(x)
      BY <1>5 DEF Writes, Rest
    <3> QED
      BY <3>1, <3>3, <3>4 DEF Stays
  <2> QED
    BY <2>1, BornKept
<1>6. ASSUME NEW u \in Users, Sorting(u)
      PROVE  AllBorn'
  <2>1. Older
    BY <1>6 DEF Sorting, RowAges, Noted
  <2> QED
    BY <2>1, BornKept
<1> QED
  BY <1>1, <1>2, <1>3, <1>4, <1>5, <1>6 DEF Change

(* The points of user 0 are all created.                                    *)
LEMMA BornInit == Init => AllBorn
<1> SUFFICES ASSUME Init, NEW p \in SaveIds, save[p].status # "free"
             PROVE  Born(p)
  BY DEF AllBorn, Born
<1>1. p \in DOMAIN PublicMap /\ save[p] = PublicSave(p)
  BY DEF Init, BlankSave
<1>2. PublicMap[p].place \in Places
  BY <1>1, LedgerConstants
<1> QED
  BY <1>1, <1>2 DEF Born, Noted, PublicSave, BlankSave

--------------------------------------------------------------------------------
(* What the queries show *)

(* The whole ledger of restrained clients who send no sortId 0 *)
LedgerRight ==
  /\ PointsCounted /\ RegionsCounted /\ SortsRight /\ OwnTypesCounted /\ AllBorn

(* The statistic of every save is found.                                    *)
LEMMA StatFound ==
  ASSUME AllBorn, NEW p \in SaveIds, LiveSave(p)
  PROVE  HasStat(p)
BY LedgerConstants DEF AllBorn, Born, HasStat, LiveSave

(* The lists are as long as the counters say.                               *)
LEMMA ListsRight == Typed /\ LedgerRight => ListsAgree
<1> SUFFICES ASSUME Typed, LedgerRight, NEW u \in Users
             PROVE  /\ GetMy(u) \cup GetSave(u) = SavesOf(u)
                    /\ Cardinality(GetMy(u)) = createPoints[u]
                    /\ Cardinality(GetSave(u)) = savePoints[u]
                    /\ GetNotedPoints(u) \subseteq GetMy(u)
  BY DEF ListsAgree
<1> USE DEF LedgerRight
<1>1. GetByCreaterId(u, AllSorts) = SavesOf(u)
  BY StatFound DEF GetByCreaterId, SavesOf
<1>2. GetMy(u) \cup GetSave(u) = SavesOf(u) /\ GetMy(u) \cap GetSave(u) = {}
      /\ GetSave(u) = Kept(u)
  BY <1>1 DEF GetMy, GetSave, Kept
<1>3. IsFiniteSet(SavesOf(u))
  BY CountedFinite DEF SavesOf
<1>4. IsFiniteSet(GetMy(u)) /\ IsFiniteSet(GetSave(u))
  BY <1>2, <1>3, FS_Subset
<1>5. Cardinality(SavesOf(u)) = Cardinality(GetMy(u)) + Cardinality(GetSave(u))
  <2>1. Cardinality(GetMy(u) \cup GetSave(u)) =
          Cardinality(GetMy(u)) + Cardinality(GetSave(u)) - Cardinality(GetMy(u) \cap GetSave(u))
    BY <1>4, FS_Union
  <2>2. Cardinality(GetMy(u)) \in Nat /\ Cardinality(GetSave(u)) \in Nat
    BY <1>4, FS_CardinalityType
  <2> QED
    <3>1. Cardinality(GetMy(u) \cap GetSave(u)) = 0
      BY <1>2, FS_EmptySet
    <3>2. Cardinality(GetMy(u) \cup GetSave(u)) = Cardinality(SavesOf(u))
      BY <1>2, Zenon
    <3> HIDE DEF LedgerRight
    <3> QED
      BY <2>1, <2>2, <3>1, <3>2
<1>6. Cardinality(GetSave(u)) = savePoints[u]
  BY <1>2 DEF OwnTypesCounted, Kept
<1>7. Cardinality(GetMy(u)) = createPoints[u]
  BY <1>4, <1>5, <1>6, FS_CardinalityType DEF PointsCounted, Typed, TypeOK, CountType
<1>8. GetNotedPoints(u) \subseteq GetMy(u)
  BY <1>1 DEF GetNotedPoints, GetMy, AllBorn, Born, Noted, SavesOf, LiveSave
<1> QED
  BY <1>2, <1>6, <1>7, <1>8

(* The creater of a point is found.                                         *)
LEMMA CreatersRight == AllBorn => CreatersFound
<1> SUFFICES ASSUME AllBorn, NEW p \in SaveIds, LiveSave(p), save[p].user # Public
             PROVE  LET q == save[p].ff IN
                    /\ GetPointMore(p).found
                    /\ save[q].place = save[p].place /\ save[q].own = "MY_CREATE" /\ save[q].ff = q
                    /\ GetPointMore(p).creater =
                         IF save[q].user = Public THEN save[p].user ELSE save[q].user
  BY DEF CreatersFound
<1>1. Born(p) /\ save[p].status # "free"
  BY DEF AllBorn, LiveSave
<1> QED
  BY <1>1, LedgerConstants DEF Born, GetPointMore

(* What the map lists for a sort is what is filed in it, and in no other's. *)
LEMMA MapLists ==
  ASSUME Typed, LedgerRight, NEW u \in Users, NEW s \in Sortings(u)
  PROVE  /\ GetByCreaterId(u, s) =
              IF s = AllSorts THEN SavesOf(u) ELSE { p \in SavesOf(u) : save[p].sort = s }
         /\ TotalPoints(u, s) = Cardinality(GetByCreaterId(u, s))
<1> USE DEF LedgerRight
<1>1. GetByCreaterId(u, s) =
        IF s = AllSorts THEN SavesOf(u) ELSE { p \in SavesOf(u) : save[p].sort = s }
  BY StatFound DEF GetByCreaterId, SavesOf
<1>2. CASE s = AllSorts
  BY <1>1, <1>2 DEF TotalPoints, PointsCounted
<1>3. CASE s # AllSorts /\ s = None
  <2>1. Filed(u) = { p \in SavesOf(u) : save[p].sort = None }
    BY DEF Filed, InBox, SavesOf
  <2> QED
    BY <1>1, <1>3, <2>1 DEF TotalPoints, CountedIn, SortsRight, BoxRight, RowExists
<1>4. CASE s # AllSorts /\ s # None
  <2>1. s \in Sorts /\ sort[s] = "live" /\ FiledBy(s) \subseteq {u} /\ s \notin Users
    BY <1>4, LedgerConstants DEF Sortings
  <2>2. Filed(s) = { p \in SavesOf(u) : save[p].sort = s }
    BY <2>1 DEF Filed, InBox, SavesOf, FiledBy
  <2> QED
    BY <1>1, <1>4, <2>1, <2>2 DEF TotalPoints, CountedIn, SortsRight, BoxRight, RowExists
<1> QED
  BY <1>1, <1>2, <1>3, <1>4

(* Each point that the map lists lies in a city that it shows, or in one    *)
(* that has strayed.                                                        *)
LEMMA CitiesShown ==
  ASSUME Typed, LedgerRight, NEW u \in Users, NEW s \in Sortings(u),
         NEW p \in GetByCreaterId(u, s), NEW c \in CodesOf[save[p].place] \ Strayed(u)
  PROVE  /\ [code |-> c, counts |-> Cardinality(GetPoints(u, s, c))]
              \in GetByMap(u, s, c, FALSE).maps
         /\ p \in GetByMap(u, s, c, TRUE).points
<1> USE DEF LedgerRight
<1>1. p \in SavesOf(u) /\ p \in SaveIds /\ LiveSave(p) /\ p \in GetPoints(u, s, c)
  BY DEF GetByCreaterId, SavesOf, GetPoints
<1>2. c \in Codes
  BY <1>1, LedgerConstants DEF AllBorn, Born, LiveSave
<1>3. There(u, c) \in SUBSET SaveIds /\ p \in There(u, c)
  BY <1>1 DEF There, SavesOf
<1>4. Cardinality(There(u, c)) \in Nat /\ Cardinality(There(u, c)) # 0
  BY <1>3, CountedFinite
<1>5. regions[u][c] = Cardinality(There(u, c)) /\ regions[u][c] # Absent
  BY <1>2, <1>3, <1>4 DEF RegionsCounted, RegionCounted, There, Absent
<1>6. c \in Citys(u)
  BY <1>2, <1>4, <1>5 DEF Citys
<1>7. GetPoints(u, s, c) \in SUBSET SaveIds /\ Cardinality(GetPoints(u, s, c)) > 0
  <2>1. GetPoints(u, s, c) \in SUBSET SaveIds
    BY DEF GetPoints, GetByCreaterId, SavesOf
  <2> QED
    BY <1>1, <2>1, CountedFinite
<1>8. CityCounts(u, s, c) = Cardinality(GetPoints(u, s, c))
  <2>1. CASE s = AllSorts
    <3>1. GetPoints(u, s, c) = There(u, c)
      BY <2>1, MapLists DEF GetPoints, There
    <3> QED
      BY <1>5, <2>1, <3>1 DEF CityCounts
  <2>2. CASE s # AllSorts
    <3>1. GetPoints(u, s, c) = { x \in SavesOf(u) : save[x].sort = s /\ c \in CodesOf[save[x].place] }
      BY <2>2, MapLists DEF GetPoints
    <3> QED
      BY <2>2, <3>1 DEF CityCounts
  <2> QED
    BY <2>1, <2>2
<1>9. [code |-> c, counts |-> Cardinality(GetPoints(u, s, c))] \in GetCitys(u, s)
  BY <1>6, <1>7, <1>8 DEF GetCitys
<1> QED
  BY <1>1, <1>6, <1>9 DEF GetByMap

(* The map, its sorts, its cities and the lists of points agree with one     *)
(* another, and the creater of each point is found, for any number of users, *)
(* points and sorts, while clients send no sortId 0, save no place again and *)
(* write no notes on saves of others.                                        *)
THEOREM AllViewsAgree ==
  ASSUME Restrained, "sortZero" \notin Liberties
  PROVE  Spec => []ViewsAgree
<1>1. Init => OneEach /\ OwnTypesCounted /\ AllBorn /\ SortsRight
  BY OneEachAlways, TypesInit, BornInit, SortsInit
<1>2. OneEach /\ OwnTypesCounted /\ AllBorn /\ SortsRight /\ Typed /\ [Next]_vars =>
        (OneEach /\ OwnTypesCounted /\ AllBorn /\ SortsRight)'
  BY OneEachAlways, TypesStep, BornStep, SortsStep
<1>3. OwnTypesCounted /\ AllBorn /\ SortsRight /\ PointsCounted /\ RegionsCounted /\ Typed =>
        ViewsAgree
  BY ListsRight, CreatersRight, MapLists, CitiesShown DEF LedgerRight, MapsAgree, ViewsAgree
<1> QED
  BY <1>1, <1>2, <1>3, AllPointsCounted, AllRegionsCounted, InitTyped, NextTyped, PTL DEF Spec

--------------------------------------------------------------------------------
(* The notes that are shown *)

(* A row of note_saves or note_masks names a note of somebody else, and a   *)
(* save that is or was the user's.                                          *)
RowRight(ns) ==
  /\ note[ns.note].status # "free" /\ note[ns.note].user # ns.user
  /\ save[ns.psave].status # "free" /\ save[ns.psave].user = ns.user

RowsOfOthers == \A ns \in noteSaves \cup noteMasks : RowRight(ns)

(* A row that is added names a live note of somebody else.                  *)
LEMMA RowsAdded ==
  ASSUME Typed, [Next]_vars, NEW ns \in (noteSaves \cup noteMasks)',
         ns \notin noteSaves \cup noteMasks
  PROVE  /\ ns.psave \in SaveIds /\ ns.note \in NoteIds
         /\ LiveNote(ns.note) /\ note[ns.note].user # ns.user
         /\ LiveSave(ns.psave)' /\ save'[ns.psave].user = ns.user
<1> USE DEF Typed, TypeOK
<1>1. \E u \in Users : NoteSaveStep(u)
  <2>1. ASSUME NEW u \in Users, PointStep(u)
        PROVE  noteSaves' \subseteq noteSaves /\ noteMasks' = noteMasks
    BY <2>1 DEF PointStep, CreatePoint, CreateSave, UpdatePoint, UpdateSave, Refile,
                DeleteSave, SetTop, notes
  <2>2. ASSUME NEW u \in Users, NoteStep(u)
        PROVE  noteSaves' = noteSaves /\ noteMasks' = noteMasks
    BY <2>2 DEF NoteStep, CreateNoteWithSave, CreateNote, DeleteNote
  <2> QED
    BY <2>1, <2>2, OthersAlone DEF Next
<1>2. PICK u \in Users : NoteSaveStep(u)
  BY <1>1
<1>3. ASSUME NEW n \in NoteIds, CanBeSaved(u, n), NEW p \in SavesOf(u), SaveNote(u, n, p)
      PROVE  /\ ns.psave = p /\ ns.note = n /\ ns.user = u
             /\ LiveSave(p)' /\ save'[p].user = u
  <2>1. ns = [user |-> u, psave |-> p, note |-> n]
    BY <1>3 DEF SaveNote, InsertNoteSave
  <2>2. p \in SaveIds /\ save[p] \in SaveRow /\ LiveSave(p) /\ save[p].user = u
    BY DEF SavesOf, SaveType
  <2> QED
    BY <1>3, <2>1, <2>2 DEF SaveNote, LiveSave, SaveType, SaveRow
<1>4. ASSUME NEW n \in NoteIds, CanBeSaved(u, n), NEW p \in SaveIds, SaveNoteWithSave(u, n, note[n], p)
      PROVE  /\ ns.psave = p /\ ns.note = n /\ ns.user = u
             /\ LiveSave(p)' /\ save'[p].user = u
  <2>1. ns = [user |-> u, psave |-> p, note |-> n]
    BY <1>4 DEF SaveNoteWithSave, InsertNoteSave
  <2> QED
    BY <1>4, <2>1 DEF SaveNoteWithSave, CopyOf, BlankSave, LiveSave, SaveType
<1>5. ASSUME NEW x \in noteSaves, UnsaveNote(u, x, save[x.psave], LeftOn(x))
      PROVE  FALSE
  BY <1>5 DEF UnsaveNote
<1> QED
  BY <1>2, <1>3, <1>4, <1>5 DEF NoteSaveStep, SavesAt, CanBeSaved, SavesOf

(* Every step keeps the rows right.                                         *)
LEMMA RowsStep == RowsOfOthers /\ Typed /\ [Next]_vars => RowsOfOthers'
<1> SUFFICES ASSUME RowsOfOthers, Typed, [Next]_vars, NEW ns \in (noteSaves \cup noteMasks)'
             PROVE  RowRight(ns)'
  BY DEF RowsOfOthers
<1>1. (\A p \in SaveIds : SaveAges(p)) /\ (\A n \in NoteIds : NoteAges(n))
  BY NextTransacts, SavesAge, NotesAge
<1>2. CASE ns \in noteSaves \cup noteMasks
  <2>1. ns.psave \in SaveIds /\ ns.note \in NoteIds /\ RowRight(ns)
    BY <1>2 DEF RowsOfOthers, Typed, TypeOK, NoteSaveRow
  <2> QED
    BY <1>1, <2>1 DEF SaveAges, NoteAges, RowRight
<1>3. CASE ns \notin noteSaves \cup noteMasks
  <2>1. /\ ns.psave \in SaveIds /\ ns.note \in NoteIds
        /\ LiveNote(ns.note) /\ note[ns.note].user # ns.user
        /\ LiveSave(ns.psave)' /\ save'[ns.psave].user = ns.user
    BY <1>3, RowsAdded
  <2> QED
    BY <1>1, <2>1 DEF SaveAges, NoteAges, RowRight, LiveNote, LiveSave
<1> QED
  BY <1>2, <1>3

(* The notes of the friends' saves are as many as the saves.                *)
LEMMA NewsCounted ==
  ASSUME Typed, OwnNoteLive, NEW v
  PROVE  Cardinality(GetNews(v)) = Cardinality(NewsSaves(v))
<1> DEFINE f == [p \in NewsSaves(v) |-> save[p].note]
<1>1. NewsSaves(v) \in SUBSET SaveIds /\ IsFiniteSet(NewsSaves(v))
  BY CountedFinite DEF NewsSaves
<1>2. \A p \in NewsSaves(v) : LiveNote(save[p].note) /\ note[save[p].note].psave = p /\ LiveSave(p)
  BY DEF NewsSaves, OwnNoteLive
<1>3. \A n : n \in GetNews(v) <=> \E p \in NewsSaves(v) : n = save[p].note
  BY <1>2 DEF GetNews, Showable
<1>4. f \in Bijection(NewsSaves(v), GetNews(v))
  <2>1. f \in [NewsSaves(v) -> GetNews(v)]
    BY <1>3
  <2>2. \A p, q \in NewsSaves(v) : f[p] = f[q] => p = q
    BY <1>2
  <2>3. \A n \in GetNews(v) : \E p \in NewsSaves(v) : f[p] = n
    BY <1>3
  <2> QED
    BY <2>1, <2>2, <2>3 DEF Bijection, Injection, Surjection, IsInjective
<1> QED
  BY <1>1, <1>4, FS_Bijection DEF ExistsBijection

(* Nobody's mask hides a note from the notes of its own save, the map of     *)
(* the public shows it where its place is, and the news list what they       *)
(* count: for any number of users and notes, and whatever clients send.      *)
THEOREM OwnNotesShown == Spec => []OwnNoteShown
<1>1. Init => RowsOfOthers
  BY DEF Init, RowsOfOthers
<1>2. RowsOfOthers /\ OwnNoteLive /\ Typed => OwnNoteShown
  <2> SUFFICES ASSUME RowsOfOthers, OwnNoteLive, Typed,
                      NEW p \in SaveIds, LiveSave(p), save[p].note # None
               PROVE  /\ \A v \in Users : save[p].note \in GetMore(v, p)
                      /\ \A q \in SavesOf(Public) : save[q].place = save[p].place =>
                           save[p].note \in PointNotes(q)
                      /\ \A v \in Users : Cardinality(GetNews(v)) = Cardinality(NewsSaves(v))
    BY DEF OwnNoteShown
  <2> DEFINE n == save[p].note
  <2>1. n \in NoteIds /\ LiveNote(n) /\ note[n].psave = p /\ note[n].user = save[p].user
    BY DEF OwnNoteLive, Typed, TypeOK, SaveType, SaveRow
  <2>2. ASSUME NEW v \in Users
        PROVE  n \in GetMore(v, p)
    <3>1. n \notin MaskedOn(v, p)
      BY <2>1 DEF MaskedOn, RowsOfOthers, RowRight
    <3> QED
      BY <2>1, <3>1 DEF GetMore, MoreIds, Showable
  <2>3. \A q \in SavesOf(Public) : save[q].place = save[p].place => n \in PointNotes(q)
    BY <2>1 DEF PointNotes
  <2> QED
    BY <2>2, <2>3, NewsCounted
<1> QED
  BY <1>1, <1>2, RowsStep, OwnNotesLive, InitTyped, NextTyped, PTL DEF Spec
================================================================================
