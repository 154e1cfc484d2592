------------------------------- MODULE PointViews -------------------------------
(***************************************************************************)
(* What the queries show of the tables of PointLedger: the points of a map *)
(* and of its sorts, the cities of the map at low zoom, the lists of one's *)
(* own and of one's saved points, and the notes of a point.  They read     *)
(* counters here and rows there, and join rows that other requests write,  *)
(* so that they agree only if the ledger is right.                         *)
(*                                                                         *)
(* A query is an operator on one state; pages, the order of rows and the   *)
(* columns that are copied along are left out.  AllSorts is the sortId -1, *)
(* and None the sortId 0.  One level of the region codes stands for the    *)
(* cities: any of Codes.                                                   *)
(***************************************************************************)
EXTENDS PointLedger

AllSorts  == "all"

(* The sorts that u's map can be shown for.  createOne and updateOne take the *)
(* sort of somebody else as well, which then counts points that its owner is  *)
(* not shown; such a sort is left out.                                        *)
FiledBy(s)  == { save[p].user : p \in { x \in SaveIds : LiveSave(x) /\ save[x].sort = s } }
Sortings(u) ==
  { s \in Sorts : sort[s] = "live" /\ SortOwner[s] = u /\ FiledBy(s) \subseteq {u} }
    \cup {None, AllSorts}

(* point_save_stats gets a row for each point that is created. *)
HasStat(p) ==
  save[p].ff # None /\ save[save[p].ff].status # "free" /\ save[save[p].ff].own = "MY_CREATE"

(* The saves of user u filed in s, joined with their statistic *)
GetByCreaterId(u, s) ==
  { p \in SavesOf(u) : (s = AllSorts \/ save[p].sort = s) /\ HasStat(p) }

(* The number of points that the map, and the list of sorts, say there are *)
TotalPoints(u, s) ==
  IF s = AllSorts THEN createPoints[u] + savePoints[u] ELSE points[CountedIn(u, s)]

--------------------------------------------------------------------------------
(* The map at low zoom *)

Citys(u) == { c \in Codes : regions[u][c] \notin {Absent, 0} }

GetPoints(u, s, c) == { p \in GetByCreaterId(u, s) : c \in CodesOf[save[p].place] }

(* Mutant: a sort shows the counts of the whole map. *)
CityCountsOfMap(u, s, c) == regions[u][c]

(* The counts of a city are those of its row, or counted again for a sort. *)
CityCounts(u, s, c) ==
  IF s = AllSorts THEN regions[u][c]
  ELSE Cardinality({ p \in SavesOf(u) : save[p].sort = s /\ c \in CodesOf[save[p].place] })

GetCitys(u, s) ==
  { city \in { [code |-> c, counts |-> CityCounts(u, s, c)] : c \in Citys(u) } :
      s # AllSorts => city.counts > 0 }

(* Zoomed in on city c the points are shown, unless the sort has none there. *)
GetByMap(u, s, c, zoomed) ==
  IF c \in Citys(u) /\ zoomed /\ GetPoints(u, s, c) # {}
  THEN [type |-> "POINTS", points |-> GetPoints(u, s, c)]
  ELSE [type |-> "CITYS", maps |-> GetCitys(u, s)]

--------------------------------------------------------------------------------
(* The lists of points *)

(* Points created, or found by writing a note, and points only saved *)
GetMy(u)   == { p \in GetByCreaterId(u, AllSorts) : save[p].own # "ONLY_SAVE" }
GetSave(u) == { p \in GetByCreaterId(u, AllSorts) : save[p].own = "ONLY_SAVE" }

(* PointSortService.getPoints with isNote *)
GetNotedPoints(u) == { p \in SavesOf(u) : save[p].note # None }

(* getPointMore names the creator of a point that is not the owner's own; it *)
(* throws when there is no such row, deleted ones included.                  *)
GetPointMore(p) ==
  LET q == save[p].ff IN
  [found |-> save[p].own # "MY_CREATE" => q # None /\ save[q].status # "free",
   creater |-> IF save[p].own = "MY_CREATE" \/ save[q].user = Public THEN save[p].user
               ELSE save[q].user]

--------------------------------------------------------------------------------
(* The notes of a point *)

Followed(p) == { w \in Accounts : <<save[p].user, w>> \in links }

NotesByFollowed(p) ==
  { save[q].note : q \in { x \in SaveIds :
      /\ LiveSave(x) /\ save[x].user \in Followed(p)
      /\ save[x].ff = save[p].ff \/ save[x].place = save[p].place } }

SavedOn(p) == { ns.note : ns \in { x \in noteSaves : x.psave = p } }

MaskedOn(v, p) == { ns.note : ns \in { x \in noteMasks : x.user = v /\ x.psave = p } }

(* A note is shown with its save: not when that is gone. *)
Showable(n) == LiveNote(n) /\ LiveSave(note[n].psave)

(* Mutant: the note of the save itself is not among its notes. *)
MoreIdsOfOthers(p) == {save[p].top} \cup SavedOn(p) \cup NotesByFollowed(p)
MoreIds(p) == {save[p].note, save[p].top} \cup SavedOn(p) \cup NotesByFollowed(p)

(* PointNoteService.getMore, of the notes of save p for viewer v *)
GetMore(v, p) ==
  IF Followed(p) = {} /\ save[p].note = None /\ save[p].top = None THEN {}
  ELSE { n \in (MoreIds(p) \ {None}) \ MaskedOn(v, p) : Showable(n) }

(* PublicMapService.pointNotes, once the notes are audited: the notes of all *)
(* saves of the place, joined by the save that they were written on          *)
PointNotes(p) ==
  { n \in NoteIds :
      /\ LiveNote(n) /\ LiveSave(note[n].psave)
      /\ save[note[n].psave].note # None /\ save[note[n].psave].place = save[p].place }

(* MessageService.getNews: the notes of the saves of v's friends and of the  *)
(* public map, which all count as of the last thirty days here               *)
NewsSaves(v) ==
  { p \in SaveIds :
      /\ LiveSave(p) /\ save[p].note # None
      /\ save[p].user = Public \/ <<v, save[p].user>> \in links }

GetNews(v) == { n \in { save[p].note : p \in NewsSaves(v) } : Showable(n) }

--------------------------------------------------------------------------------
(* Properties *)

(* Whatever is created, saved, filed elsewhere and deleted: the number of    *)
(* points that the map of a user shows for a sort is the number of points    *)
(* that it lists, and each of them lies in a city that is shown with the     *)
(* number of points that opening it will list, unless a point of theirs was  *)
(* counted in the city of another position (Strayed).                        *)
MapsAgree ==
  \A u \in Users : \A s \in Sortings(u) :
    /\ TotalPoints(u, s) = Cardinality(GetByCreaterId(u, s))
    /\ \A p \in GetByCreaterId(u, s) : \A c \in CodesOf[save[p].place] \ Strayed(u) :
         /\ [code |-> c, counts |-> Cardinality(GetPoints(u, s, c))]
              \in GetByMap(u, s, c, FALSE).maps
         /\ p \in GetByMap(u, s, c, TRUE).points

(* The lists of one's own and of one's saved points are as long as the two   *)
(* counters say, leave no point out, and a point with a note of one's own is *)
(* in the first.                                                             *)
ListsAgree ==
  \A u \in Users :
    /\ GetMy(u) \cup GetSave(u) = SavesOf(u)
    /\ Cardinality(GetMy(u)) = createPoints[u]
    /\ Cardinality(GetSave(u)) = savePoints[u]
    /\ GetNotedPoints(u) \subseteq GetMy(u)

(* Through any chain of saves of saves the creator of a point is found, and  *)
(* it is whoever created it at that place, or its owner for a point of the   *)
(* public map.                                                               *)
CreatersFound ==
  \A p \in SaveIds : LiveSave(p) /\ save[p].user # Public =>
    LET q == save[p].ff IN
    /\ GetPointMore(p).found
    /\ save[q].place = save[p].place /\ save[q].own = "MY_CREATE" /\ save[q].ff = q
    /\ GetPointMore(p).creater = IF save[q].user = Public THEN save[p].user ELSE save[q].user

(* The map, its sorts, its cities and the lists of points agree, and the     *)
(* creater of each point is found.                                           *)
ViewsAgree == MapsAgree /\ ListsAgree /\ CreatersFound

(* The note that somebody has written on a point is among the notes of that  *)
(* point for everybody, and on the public map where the place is on it: no   *)
(* mask hides it, and its save is there.  The news list as many notes as     *)
(* they say that there are.                                                  *)
OwnNoteShown ==
  \A p \in SaveIds : LiveSave(p) /\ save[p].note # None =>
    /\ \A v \in Users : save[p].note \in GetMore(v, p)
    /\ \A q \in SavesOf(Public) : save[q].place = save[p].place => save[p].note \in PointNotes(q)
    /\ \A v \in Users : Cardinality(GetNews(v)) = Cardinality(NewsSaves(v))
================================================================================
