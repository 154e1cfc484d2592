------------------------------ MODULE PointLedger ------------------------------
(***************************************************************************)
(* The tables behind a user's food map and the counters kept beside them:  *)
(* point_saves, point_sorts, point_notes, note_saves, note_masks,          *)
(* user_links, the columns createPoints, savePoints and defaultCss of      *)
(* users, the column saves of point_save_stats, and the province, city and *)
(* county counts.  No SQL constraint ties a counter to the rows it counts: *)
(* each handler moves both by hand, in one transaction.                    *)
(*                                                                         *)
(* A handler reads some rows first, outside its transaction, and decides   *)
(* on what it has read.  Here each transaction is an action that takes     *)
(* what was read as a parameter (src, old, ...), and Next runs the         *)
(* handlers one at a time, so that what was read is what is in the tables. *)
(* PointLedgerRaces lets the two parts of different requests interleave.   *)
(*                                                                         *)
(* A request that throws rolls its transaction back: its conditions are    *)
(* guards here, and Rejected is the step of such a request.  The counters  *)
(* are unsigned columns, so that a decrement of a zero throws as well.     *)
(***************************************************************************)
EXTENDS Naturals, Integers, FiniteSets

CONSTANTS
  Users,      \* the registered users, each with a row in users
  Public,     \* user 0, the owner of the public map: it has no row in users
  Places,     \* the map points (map_points), found by position or by name
  Codes,      \* the province, city and county codes that points are counted in
  Adcodes,    \* the adcodes of positions, each as the codes that it counts in
  CodesOf,    \* CodesOf[pl]: the adcode that map point pl was inserted with;
              \* no handler changes that column, updateOne moves the point only
  Sorts,      \* identifiers of sorts (categories), each created at most once
  SortOwner,  \* SortOwner[s]: the user who creates sort s
  SaveIds,    \* identifiers of rows of point_saves; the bound on their number
  NoteIds,    \* identifiers of notes; the bound on their number
  None,       \* the identifier 0: no sort, no note, no save
  PublicMap,  \* PublicMap[p]: the place and note of each point of the public map
  Liberties   \* which requests clients send that no handler refuses:
              \*   "sortZero"     PUT point/save with sortId 0
              \*   "foreignNote"  POST note with the psaveId of another user
              \*   "saveAgain"    POST point/save for a place already saved

Accounts == Users \cup {Public}
Status   == {"free", "live", "deleted"}
OwnTypes == {"MY_CREATE", "SAVE_FIND", "ONLY_SAVE"}
Absent   == -1   \* no row yet for this user and code

ASSUME LedgerConstants ==
  /\ IsFiniteSet(SaveIds)
  /\ Public \notin Users
  /\ None \notin Users \cup {Public} \cup Places \cup Sorts \cup SaveIds \cup NoteIds
  /\ Users \cap Sorts = {}
  /\ Adcodes \subseteq SUBSET Codes
  /\ CodesOf \in [Places -> Adcodes]
  /\ SortOwner \in [Sorts -> Users]
  /\ DOMAIN PublicMap \subseteq SaveIds
  /\ \A p \in DOMAIN PublicMap :
       PublicMap[p] \in [place : Places, note : NoteIds]
  /\ \A p, q \in DOMAIN PublicMap :
       p # q => PublicMap[p].note # PublicMap[q].note
  /\ Liberties \subseteq {"sortZero", "foreignNote", "saveAgain"}

SaveRow ==
  [status : Status, user : Accounts, place : Places \cup {None},
   sort : Sorts \cup {None}, own : OwnTypes,
   ff : SaveIds \cup {None}, f : SaveIds \cup {None},
   note : NoteIds \cup {None}, top : NoteIds \cup {None}, toped : BOOLEAN,
   astray : SUBSET Codes]

NoteRow == [status : Status, user : Accounts, psave : SaveIds \cup {None}]

NoteSaveRow == [user : Users, psave : SaveIds, note : NoteIds]

SaveType    == [SaveIds -> SaveRow]
PointsType  == [Users \cup Sorts -> Nat]
CountType   == [Users -> Nat]
SavesType   == [SaveIds -> Nat]
RegionsType == [Users -> [Codes -> Nat \cup {Absent}]]
SortType    == [Sorts -> Status]
NoteType    == [NoteIds -> NoteRow]
CallsType   == [bump : NoteIds \cup {None}, mail : Users \cup {None}, committed : BOOLEAN]

VARIABLES
  save,         \* save[p]: the row of point_saves with psaveId p, and astray,
                \* a history: the codes in which p was counted although its
                \* place is not in them, or the other way round
  points,       \* points[s]: the column points of sort s; points[u]: the
                \* column defaultCss of user u, the points of the default sort
  createPoints, \* createPoints[u], a column of users
  savePoints,   \* savePoints[u], a column of users
  saves,        \* saves[p]: the column saves of point_save_stats
  regions,      \* regions[u][c]: the column counts of user u's row for code c
  sort,         \* sort[s]: the status of sort s
  note,         \* note[n]: the row of point_notes with noteId n
  noteSaves,    \* the rows of note_saves
  noteMasks,    \* the rows of note_masks
  links,        \* the rows of user_links, as pairs (userId, followerId)
  calls         \* what the last request asked of other services, and whether
                \* its transaction was committed

counters == <<points, createPoints, savePoints, saves, regions>>
notes    == <<note, noteSaves, noteMasks>>
tables   == <<save, counters, sort, notes, links>>
vars     == <<save, points, createPoints, savePoints, saves, regions, sort,
              note, noteSaves, noteMasks, links, calls>>

BlankSave ==
  [status |-> "free", user |-> Public, place |-> None, sort |-> None,
   own |-> "ONLY_SAVE", ff |-> None, f |-> None,
   note |-> None, top |-> None, toped |-> FALSE, astray |-> {}]

BlankNote == [status |-> "free", user |-> Public, psave |-> None]

(* A request that commits: the note whose TOPS statistic it raised, if any, *)
(* and the user it sent a message to, if any.                               *)
Done(bump, mail) == [bump |-> bump, mail |-> mail, committed |-> TRUE]
RolledBack(bump) == [bump |-> bump, mail |-> None, committed |-> FALSE]

PublicSave(p) ==
  [BlankSave EXCEPT !.status = "live", !.place = PublicMap[p].place,
                    !.own = "MY_CREATE", !.ff = p, !.note = PublicMap[p].note]

PublicNoteOf(n) == { p \in DOMAIN PublicMap : PublicMap[p].note = n }

(* An empty service, but for the points of the public map: transferPublicMap *)
(* gives user 0 only created points that have a note.                        *)
Init ==
  /\ save = [p \in SaveIds |->
               IF p \in DOMAIN PublicMap THEN PublicSave(p) ELSE BlankSave]
  /\ points = [b \in Users \cup Sorts |-> 0]
  /\ createPoints = [u \in Users |-> 0]
  /\ savePoints = [u \in Users |-> 0]
  /\ saves = [p \in SaveIds |-> 0]
  /\ regions = [u \in Users |-> [c \in Codes |-> Absent]]
  /\ sort = [s \in Sorts |-> "free"]
  /\ note = [n \in NoteIds |->
               IF PublicNoteOf(n) = {} THEN BlankNote
               ELSE [status |-> "live", user |-> Public,
                     psave |-> CHOOSE p \in PublicNoteOf(n) : TRUE]]
  /\ noteSaves = {}
  /\ noteMasks = {}
  /\ links = {}
  /\ calls = Done(None, None)

--------------------------------------------------------------------------------
(* Queries *)

LiveSave(p) == save[p].status = "live"
LiveNote(n) == note[n].status = "live"
SavesOf(u)  == { p \in SaveIds : LiveSave(p) /\ save[p].user = u }
SavesAt(u, pl) == { p \in SavesOf(u) : save[p].place = pl }
FreshSave(p) == save[p].status = "free"

(* A map point is inserted with its first save, and neither is ever removed. *)
PointExists(pl) == \E p \in SaveIds : save[p].place = pl

(* Where a save is counted: in the points of its sort, or in the defaultCss *)
(* of its user when it has none.                                            *)
CountedIn(u, s) == IF s = None THEN u ELSE s
RowExists(b)    == b \in Users \/ (b \in Sorts /\ sort[b] = "live")

(* An UPDATE of a sort that is gone changes no row and raises no error. *)
Plus(b)  == IF RowExists(b) THEN [points EXCEPT ![b] = @ + 1] ELSE points
Minus(b) == IF RowExists(b) THEN [points EXCEPT ![b] = @ - 1] ELSE points
CanMinus(b) == RowExists(b) => points[b] > 0

(* Mutant: the sort that the save leaves is not counted down. *)
ShiftedUp(from, to) ==
  [b \in DOMAIN points |-> IF b = to /\ from # to /\ RowExists(b) THEN points[b] + 1 ELSE points[b]]

(* PointUtilsService.updateBySortIdChanged: one more in `to`, one less in `from` *)
Shifted(from, to) ==
  [b \in DOMAIN points |->
     IF ~RowExists(b) \/ from = to THEN points[b]
     ELSE IF b = to THEN points[b] + 1
     ELSE IF b = from THEN points[b] - 1
     ELSE points[b]]

IncrementPCP(u, adcode) ==
  [regions EXCEPT ![u] = [c \in Codes |->
     IF c \notin adcode THEN @[c] ELSE IF @[c] = Absent THEN 1 ELSE @[c] + 1]]
(* Mutant: a save leaves without being counted out of its regions. *)
KeepPCP(u, adcode) == regions

DecrementPCP(u, adcode) ==
  [regions EXCEPT ![u] = [c \in Codes |->
     IF c \in adcode /\ @[c] # Absent THEN @[c] - 1 ELSE @[c]]]
CanDecrementPCP(u, adcode) == \A c \in adcode : regions[u][c] # 0

(* Mutant: follower and followed are swapped. *)
LinkedBack(u, owner) == IF u = owner THEN links ELSE links \cup {<<owner, u>>}

Linked(u, owner) == IF u = owner THEN links ELSE links \cup {<<u, owner>>}

(* Mutant: the map of user 0 gets messages. *)
MailToAny(owner) == owner

(* MessageService.message sends nothing to user 0. *)
MailTo(owner) == IF owner = Public THEN None ELSE owner

--------------------------------------------------------------------------------
(* MapPointService.createOne, once it has found no save of the place.  It     *)
(* counts the point by the adcode of the position that the client has sent:   *)
(* a point that is there already, found by its name and address or moved      *)
(* since, may have been inserted with another one.                            *)
CreatePoint(u, pl, adcode, s, p) ==
  /\ FreshSave(p)
  /\ ~PointExists(pl) => adcode = CodesOf[pl]
  /\ save' = [save EXCEPT ![p] =
       [BlankSave EXCEPT !.status = "live", !.user = u, !.place = pl, !.sort = s,
                         !.own = "MY_CREATE", !.ff = p,
                         !.astray = (adcode \ CodesOf[pl]) \cup (CodesOf[pl] \ adcode)]]
  /\ points' = Plus(CountedIn(u, s))
  /\ createPoints' = [createPoints EXCEPT ![u] = @ + 1]
  /\ regions' = IncrementPCP(u, adcode)
  /\ calls' = Done(None, None)
  /\ UNCHANGED <<savePoints, saves, sort, notes, links>>

(* The save that u gets of another save q, whose columns were read as src. *)
(* isToped is passed apart: PointNoteService.save does not select it.      *)
TopFor(src, toped) ==
  IF ~toped /\ src.note # None THEN src.note ELSE src.top

CopyOf(u, q, src, toped) ==
  [BlankSave EXCEPT !.status = "live", !.user = u, !.place = src.place,
                    !.own = "ONLY_SAVE", !.ff = src.ff, !.f = q,
                    !.top = TopFor(src, toped)]

(* updateNumber reads the author of the top note, and throws without it. *)
AuthorFound(n) == n # None => LiveNote(n)

CountCopy(u, ff) ==
  /\ saves' = [saves EXCEPT ![ff] = @ + 1]
  /\ points' = Plus(u)

(* PointSaveService.createOne *)
CreateSave(u, q, src, p) ==
  LET row == CopyOf(u, q, src, src.toped) IN
  /\ FreshSave(p)
  /\ AuthorFound(row.top)
  /\ save' = [save EXCEPT ![p] = row]
  /\ CountCopy(u, src.ff)
  /\ savePoints' = [savePoints EXCEPT ![u] = @ + 1]
  /\ regions' = IncrementPCP(u, CodesOf[src.place])
  /\ links' = Linked(u, src.user)
  /\ calls' = Done(row.top, MailTo(src.user))
  /\ UNCHANGED <<createPoints, sort, notes>>

(* The part that the two update handlers share; the sort is looked up first. *)
SortFound(u, old, s) == s \in Sorts /\ s # old.sort => sort[s] = "live" /\ SortOwner[s] = u

Refile(u, old, s) ==
  LET from == CountedIn(u, old.sort)
      to   == CountedIn(u, s) IN
  /\ from # to => CanMinus(from)
  /\ points' = Shifted(from, to)
  /\ calls' = Done(None, None)
  /\ UNCHANGED <<createPoints, savePoints, saves, regions, sort, notes, links>>

(* MapPointService.updateOne.  It may also move the map point and rename it,  *)
(* for all its saves; a later createOne then finds it by what it is now.      *)
UpdatePoint(u, p, old, s) ==
  /\ Refile(u, old, s)
  /\ save' = IF s = old.sort THEN save ELSE [save EXCEPT ![p].sort = s]

(* PointSaveService.updateOne: sortId 0 is not written into the row. *)
UpdateSave(u, p, old, s) ==
  /\ Refile(u, old, s)
  /\ save' = IF s = None THEN save ELSE [save EXCEPT ![p].sort = s]

(* Mutant: only saved points are counted down, and not created ones. *)
UncountSaved(u, old) ==
  /\ savePoints' = IF old.own = "ONLY_SAVE" THEN [savePoints EXCEPT ![u] = @ - 1] ELSE savePoints
  /\ UNCHANGED createPoints
  /\ saves' = IF old.own = "MY_CREATE" THEN saves ELSE [saves EXCEPT ![old.ff] = @ - 1]
  /\ points' = Minus(CountedIn(u, old.sort))
  /\ regions' = DecrementPCP(u, CodesOf[old.place])

(* What deleting a save does to the counters, from the row as it was read. *)
Uncount(u, old) ==
  /\ IF old.own = "ONLY_SAVE"
     THEN /\ savePoints[u] > 0
          /\ savePoints' = [savePoints EXCEPT ![u] = @ - 1]
          /\ UNCHANGED createPoints
     ELSE /\ createPoints[u] > 0
          /\ createPoints' = [createPoints EXCEPT ![u] = @ - 1]
          /\ UNCHANGED savePoints
  /\ IF old.own = "MY_CREATE"
     THEN UNCHANGED saves
     ELSE saves[old.ff] > 0 /\ saves' = [saves EXCEPT ![old.ff] = @ - 1]
  /\ CanMinus(CountedIn(u, old.sort))
  /\ points' = Minus(CountedIn(u, old.sort))
  /\ CanDecrementPCP(u, CodesOf[old.place])
  /\ regions' = DecrementPCP(u, CodesOf[old.place])

(* Mutant: the rows of note_saves of the deleted save are left behind. *)
DeleteSaveRow(u, p, old) ==
  /\ Uncount(u, old)
  /\ save' = [save EXCEPT ![p].status = "deleted"]
  /\ calls' = Done(None, None)
  /\ UNCHANGED <<sort, notes, links>>

(* PointSaveService.deleteOne *)
DeleteSave(u, p, old) ==
  /\ Uncount(u, old)
  /\ save' = [save EXCEPT ![p].status = "deleted"]
  /\ noteSaves' = { ns \in noteSaves : ~(ns.user = u /\ ns.psave = p) }
  /\ calls' = Done(None, None)
  /\ UNCHANGED <<sort, note, noteMasks, links>>

(* PointSaveService.setTop: written is the noteId read from the save, and *)
(* author the author read from the note.                                  *)
SetTop(p, n, written, author) ==
  /\ save' = [save EXCEPT
       ![p].top   = IF written = n THEN None ELSE n,
       ![p].toped = (written # n)]
  /\ calls' = Done(n, MailTo(author))
  /\ UNCHANGED <<counters, sort, notes, links>>
--------------------------------------------------------------------------------
(* PointNoteService.createOne.  The client names the save q; the note goes *)
(* to mine, the user's own save of the same place.                         *)

NewNote(u, n, p) ==
  /\ note[n].status = "free"
  /\ note' = [note EXCEPT ![n] = [status |-> "live", user |-> u, psave |-> p]]

(* Mutant: the save is counted as created and is still counted as saved. *)
PromoteTwice(u, promoted) ==
  /\ createPoints' = IF promoted THEN [createPoints EXCEPT ![u] = @ + 1] ELSE createPoints
  /\ UNCHANGED savePoints

(* A save that was only kept becomes one with a note of one's own. *)
Promote(u, promoted) ==
  IF promoted
  THEN /\ savePoints[u] > 0
       /\ createPoints' = [createPoints EXCEPT ![u] = @ + 1]
       /\ savePoints' = [savePoints EXCEPT ![u] = @ - 1]
  ELSE UNCHANGED <<createPoints, savePoints>>

WithNote(row, n, promoted) ==
  [row EXCEPT !.note = n, !.toped = FALSE,
              !.own = IF promoted THEN "SAVE_FIND" ELSE @]

(* Saves made from p that have no top note get the new note on top. *)
Follows(x, p) == save[x].f = p /\ save[x].top = None /\ ~save[x].toped

(* Mutant: the save made for the note is counted as one that was only kept. *)
CreateNoteKeepingSave(u, src, n, p) ==
  /\ FreshSave(p)
  /\ NewNote(u, n, p)
  /\ save' = [save EXCEPT ![p] =
       [CopyOf(u, src.f, src, TRUE) EXCEPT !.own = "SAVE_FIND", !.note = n]]
  /\ CountCopy(u, src.ff)
  /\ savePoints' = [savePoints EXCEPT ![u] = @ + 1]
  /\ regions' = IncrementPCP(u, CodesOf[src.place])
  /\ calls' = Done(None, None)
  /\ UNCHANGED <<createPoints, sort, noteSaves, noteMasks, links>>

(* On the public map, by a user without a save of the place: p is created. *)
CreateNoteWithSave(u, src, n, p) ==
  /\ FreshSave(p)
  /\ NewNote(u, n, p)
  /\ save' = [save EXCEPT ![p] =
       [BlankSave EXCEPT !.status = "live", !.user = u, !.place = src.place,
                         !.own = "SAVE_FIND", !.ff = src.ff, !.f = src.f,
                         !.note = n]]
  /\ CountCopy(u, src.ff)
  /\ createPoints' = [createPoints EXCEPT ![u] = @ + 1]
  /\ regions' = IncrementPCP(u, CodesOf[src.place])
  /\ calls' = Done(None, None)
  /\ UNCHANGED <<savePoints, sort, noteSaves, noteMasks, links>>

(* Otherwise p is the user's own save, read as mine. *)
CreateNote(u, src, mine, n, p) ==
  LET onPublic == src.user = Public
      promoted == (IF onPublic THEN mine.own ELSE src.own) = "ONLY_SAVE" IN
  /\ NewNote(u, n, p)
  /\ Promote(u, promoted)
  /\ save' = [x \in SaveIds |->
       IF x = p THEN WithNote(save[p], n, promoted)
       ELSE IF ~onPublic /\ Follows(x, p) THEN [save[x] EXCEPT !.top = n]
       ELSE save[x]]
  /\ calls' = Done(None, None)
  /\ UNCHANGED <<points, saves, regions, sort, noteSaves, noteMasks, links>>

(* Mutant: the deleted note stays on top of the saves of other users. *)
DeleteNoteOfSave(n, p) ==
  /\ note' = [note EXCEPT ![n].status = "deleted"]
  /\ save' = [save EXCEPT ![p].note = None, ![p].top = None, ![p].toped = FALSE]
  /\ calls' = Done(None, None)
  /\ UNCHANGED <<counters, sort, noteSaves, noteMasks, links>>

(* Mutant: the note is taken off the tops, and stays the save's own. *)
DeleteNoteTop(n, p) ==
  /\ note' = [note EXCEPT ![n].status = "deleted"]
  /\ save' = [x \in SaveIds |-> IF save[x].top # n THEN save[x]
                                 ELSE [save[x] EXCEPT !.top = None, !.toped = FALSE]]
  /\ calls' = Done(None, None)
  /\ UNCHANGED <<counters, sort, noteSaves, noteMasks, links>>

(* PointNoteService.deleteOne, of a note whose psaveId was read as p.  The *)
(* rows of note_saves that name the note stay.                             *)
DeleteNote(n, p) ==
  /\ note' = [note EXCEPT ![n].status = "deleted"]
  /\ save' = [x \in SaveIds |->
       [save[x] EXCEPT !.note  = IF x = p THEN None ELSE @,
                       !.top   = IF @ = n THEN None ELSE @,
                       !.toped = IF save[x].top = n THEN FALSE ELSE @]]
  /\ calls' = Done(None, None)
  /\ UNCHANGED <<counters, sort, noteSaves, noteMasks, links>>

(* note_saves is unique in (userId, noteId) and in (psaveId, noteId). *)
NoteSaveExists(u, p, n) ==
  \E ns \in noteSaves : ns.note = n /\ (ns.user = u \/ ns.psave = p)

(* Mutant: the mask of the note is not removed. *)
InsertNoteSaveMasked(u, p, n) ==
  /\ ~NoteSaveExists(u, p, n)
  /\ noteSaves' = noteSaves \cup {[user |-> u, psave |-> p, note |-> n]}
  /\ UNCHANGED noteMasks

InsertNoteSave(u, p, n) ==
  /\ ~NoteSaveExists(u, p, n)
  /\ noteSaves' = noteSaves \cup {[user |-> u, psave |-> p, note |-> n]}
  /\ noteMasks' = noteMasks \ {[user |-> u, psave |-> p, note |-> n]}

(* PointNoteService.save by a user who has a save p of the note's place. *)
SaveNote(u, n, p) ==
  /\ InsertNoteSave(u, p, n)
  /\ save' = [save EXCEPT ![p].top = n]
  /\ calls' = Done(None, None)
  /\ UNCHANGED <<counters, sort, note, links>>

(* The same by a user who has none.  old is the note as it was read; the   *)
(* save it was written on is read again, inside the transaction.           *)
SaveNoteWithSave(u, n, old, p) ==
  LET src == save[old.psave]
      row == CopyOf(u, old.psave, src, FALSE) IN
  /\ LiveSave(old.psave)
  /\ FreshSave(p)
  /\ AuthorFound(row.top)
  /\ InsertNoteSave(u, p, n)
  /\ save' = [save EXCEPT ![p] = row]
  /\ CountCopy(u, src.ff)
  /\ savePoints' = [savePoints EXCEPT ![u] = @ + 1]
  /\ regions' = IncrementPCP(u, CodesOf[src.place])
  /\ links' = Linked(u, src.user)
  /\ calls' = Done(row.top, MailTo(old.user))
  /\ UNCHANGED <<createPoints, sort, note>>

(* PointNoteService.unsave, of the row ns of note_saves, whose save was    *)
(* read as old.  The next top note is one of left, the notes that the user *)
(* still has saved on it; the code takes the latest, any is allowed here.  *)
LeftOn(ns) == { x.note : x \in { y \in noteSaves \ {ns} :
                                   y.user = ns.user /\ y.psave = ns.psave } }

UnsaveNote(u, ns, old, left) ==
  /\ ns \in noteSaves
  /\ ns \notin noteMasks
  /\ noteSaves' = noteSaves \ {ns}
  /\ noteMasks' = noteMasks \cup {ns}
  /\ calls' = Done(None, None)
  /\ \/ /\ old.top = None
        /\ UNCHANGED <<save, counters>>
     \/ /\ old.top # None
        /\ \E n \in left : save' = [save EXCEPT ![ns.psave].top = n]
        /\ UNCHANGED counters
     \/ /\ old.top # None /\ left = {} /\ old.own # "ONLY_SAVE"
        /\ save' = [save EXCEPT ![ns.psave].top = None]
        /\ UNCHANGED counters
     \/ /\ old.top # None /\ left = {} /\ old.own = "ONLY_SAVE"
        /\ save' = [save EXCEPT ![ns.psave].top = None,
                                ![ns.psave].status = "deleted"]
        /\ Uncount(u, old)
  /\ UNCHANGED <<sort, note, links>>

--------------------------------------------------------------------------------
(* PointSortService.createOne and deleteOne.  The second reads the row first *)
(* and deletes it when its points were 0.                                    *)

CreateSort(u, s) ==
  /\ sort[s] = "free" /\ SortOwner[s] = u
  /\ sort' = [sort EXCEPT ![s] = "live"]
  /\ calls' = Done(None, None)
  /\ UNCHANGED <<save, counters, notes, links>>

(* Mutant: a sort is deleted whatever its points. *)
DeleteSortAnyway(s, pointsRead) ==
  /\ sort' = [sort EXCEPT ![s] = "deleted"]
  /\ calls' = Done(None, None)
  /\ UNCHANGED <<save, counters, notes, links>>

DeleteSort(s, pointsRead) ==
  /\ pointsRead = 0
  /\ sort' = [sort EXCEPT ![s] = "deleted"]
  /\ calls' = Done(None, None)
  /\ UNCHANGED <<save, counters, notes, links>>

(* A request that throws before it has changed anything. *)
Rejected ==
  /\ calls' = RolledBack(None)
  /\ UNCHANGED tables

--------------------------------------------------------------------------------
(* The handlers, one at a time: what a request reads is what is there. *)

(* The saves whose psaveId u's client names when it writes a note: its own, *)
(* one of the public map, or, with "foreignNote", anybody's.                *)
NotePsave(u, q) == "foreignNote" \in Liberties \/ save[q].user \in {u, Public}

SavesPlaceOf(u, q) == "saveAgain" \in Liberties \/ SavesAt(u, save[q].place) = {}

SortIds(s) == s # None \/ "sortZero" \in Liberties

PointStep(u) ==
  \/ \E pl \in Places, adcode \in Adcodes, s \in Sorts \cup {None}, p \in SaveIds :
       /\ SavesAt(u, pl) = {}
       /\ s \in Sorts => sort[s] = "live"
       /\ CreatePoint(u, pl, adcode, s, p)
  \/ \E q, p \in SaveIds :
       LiveSave(q) /\ SavesPlaceOf(u, q) /\ CreateSave(u, q, save[q], p)
  \/ \E p \in SavesOf(u), s \in Sorts \cup {None} :
       SortFound(u, save[p], s) /\ UpdatePoint(u, p, save[p], s)
  \/ \E p \in SavesOf(u), s \in Sorts \cup {None} :
       SortFound(u, save[p], s) /\ SortIds(s) /\ UpdateSave(u, p, save[p], s)
  \/ \E p \in SavesOf(u) : DeleteSave(u, p, save[p])
  \/ \E p \in SavesOf(u), n \in NoteIds :
       LiveNote(n) /\ SetTop(p, n, save[p].note, note[n].user)

NoteStep(u) ==
  \/ \E q, p \in SaveIds, n \in NoteIds :
       /\ LiveSave(q) /\ save[q].user = Public
       /\ SavesAt(u, save[q].place) = {}
       /\ CreateNoteWithSave(u, save[q], n, p)
  \/ \E q \in SaveIds, n \in NoteIds :
       /\ LiveSave(q) /\ NotePsave(u, q)
       /\ \E p \in SavesAt(u, save[q].place) : CreateNote(u, save[q], save[p], n, p)
  \/ \E n \in NoteIds :
       LiveNote(n) /\ note[n].user = u /\ DeleteNote(n, note[n].psave)

(* The note must be there, with the save it was written on, and not be one's own. *)
CanBeSaved(u, n) == LiveNote(n) /\ LiveSave(note[n].psave) /\ note[n].user # u

NoteSaveStep(u) ==
  \/ \E n \in NoteIds :
       /\ CanBeSaved(u, n)
       /\ \E p \in SavesAt(u, save[note[n].psave].place) : SaveNote(u, n, p)
  \/ \E n \in NoteIds, p \in SaveIds :
       /\ CanBeSaved(u, n)
       /\ SavesAt(u, save[note[n].psave].place) = {}
       /\ SaveNoteWithSave(u, n, note[n], p)
  \/ \E ns \in noteSaves :
       /\ ns.user = u /\ ns.psave \in SavesOf(u)
       /\ UnsaveNote(u, ns, save[ns.psave], LeftOn(ns))

SortStep(u) ==
  \/ \E s \in Sorts : CreateSort(u, s)
  \/ \E s \in Sorts :
       sort[s] = "live" /\ SortOwner[s] = u /\ DeleteSort(s, points[s])

Next ==
  \/ \E u \in Users : PointStep(u) \/ NoteStep(u) \/ NoteSaveStep(u) \/ SortStep(u)
  \/ Rejected

Spec == Init /\ [][Next]_vars

--------------------------------------------------------------------------------
(* Properties *)

TypeOK ==
  /\ save \in SaveType
  /\ points \in PointsType
  /\ createPoints \in CountType
  /\ savePoints \in CountType
  /\ saves \in SavesType
  /\ regions \in RegionsType
  /\ sort \in SortType
  /\ note \in NoteType
  /\ noteSaves \subseteq NoteSaveRow
  /\ noteMasks \subseteq NoteSaveRow
  /\ links \subseteq Users \X Accounts
  /\ calls \in CallsType

(* PointSortService.getOne shows createPoints + savePoints as the number of *)
(* all of a user's points: it is the number of the user's live saves,       *)
(* whichever handler made, promoted or deleted them.                        *)
PointsCounted ==
  \A u \in Users : createPoints[u] + savePoints[u] = Cardinality(SavesOf(u))

(* Each of the two columns counts its own kind of save, and the statistic   *)
(* saves of a created point counts the live saves that descend from it:     *)
(* "the number of points created", "the number of points saved", "the       *)
(* number of times the point is saved" (comments of the three columns).     *)
OwnTypesCounted ==
  /\ \A u \in Users :
       savePoints[u] = Cardinality({ p \in SavesOf(u) : save[p].own = "ONLY_SAVE" })
  /\ \A q \in SaveIds :
       saves[q] = Cardinality({ p \in SaveIds :
                    LiveSave(p) /\ save[p].ff = q /\ save[p].own # "MY_CREATE" })

(* The points of a sort are the live saves filed in it, and defaultCss      *)
(* counts "the points without a sort, created and saved ones" of the user.  *)
SortsCounted ==
  /\ \A u \in Users :
       points[u] = Cardinality({ p \in SavesOf(u) : save[p].sort = None })
  /\ \A s \in Sorts : sort[s] = "live" =>
       points[s] = Cardinality({ p \in SaveIds : LiveSave(p) /\ save[p].sort = s })

(* No live save is filed in a sort that was deleted: its points would be    *)
(* shown under no sort.                                                     *)
SortsKept ==
  \A p \in SaveIds :
    LiveSave(p) /\ save[p].sort # None => sort[save[p].sort] = "live"

(* The codes in which u has ever created a point that was counted by another *)
(* adcode than that of its place: deletions count it down by the latter.     *)
Strayed(u) ==
  UNION { save[p].astray : p \in { x \in SaveIds : ~FreshSave(x) /\ save[x].user = u } }

(* What a province, city or county counts, and what it should                *)
RegionCounted(u, c) ==
  LET there == { p \in SavesOf(u) : c \in CodesOf[save[p].place] } IN
  IF regions[u][c] = Absent THEN there = {} ELSE regions[u][c] = Cardinality(there)

(* The province, city and county counts from which the map is drawn at low  *)
(* zoom agree with the live saves at places with that code, but for codes   *)
(* that createOne has taken from another position than the place's.         *)
RegionsCounted == \A u \in Users : \A c \in Codes \ Strayed(u) : RegionCounted(u, c)

(* "The number of the corresponding points" (counts of the three tables)    *)
RegionsExact == \A u \in Users, c \in Codes : RegionCounted(u, c)

(* A row of note_saves belongs to a live save of the same user: otherwise   *)
(* unsave fails on the missing save, and save on the duplicate row, forever.*)
NoteSavesHaveSave ==
  \A ns \in noteSaves : LiveSave(ns.psave) /\ save[ns.psave].user = ns.user

(* A note is not both saved and masked by a user on the same save. *)
SavedNotMasked == noteSaves \cap noteMasks = {}

(* The note a live save carries as the user's own is a live note of that    *)
(* user written on that save.                                               *)
OwnNoteLive ==
  \A p \in SaveIds :
    LiveSave(p) /\ save[p].note # None =>
      /\ LiveNote(save[p].note)
      /\ note[save[p].note].psave = p
      /\ note[save[p].note].user = save[p].user

(* deleteOne clears a deleted note from the top of every save; it comes     *)
(* back on top of a live save only where a row of note_saves was left.      *)
TopsLiveOrSaved ==
  \A p \in SaveIds :
    LiveSave(p) /\ save[p].top # None =>
      \/ LiveNote(save[p].top)
      \/ \E ns \in noteSaves : ns.psave = p /\ ns.note = save[p].top

(* Whoever saves a point of somebody else's map follows that somebody.      *)
SaversLinked ==
  \A p \in SaveIds :
    LET q == save[p].f IN
    (LiveSave(p) /\ save[p].own = "ONLY_SAVE" /\ save[q].user # save[p].user) =>
      <<save[p].user, save[q].user>> \in links

(* ERRORS.POINTSAVE_DUP: a user has one save of a place at most. *)
OneSavePerPlace ==
  \A u \in Users, pl \in Places : Cardinality(SavesAt(u, pl)) <= 1

(* ERRORS.POINT_NOTE_DUP: a user has one live note on a save at most. *)
OneNotePerSave ==
  \A m, n \in NoteIds :
    LiveNote(m) /\ LiveNote(n) /\ note[m].psave = note[n].psave => m = n
================================================================================
