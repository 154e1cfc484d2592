------------------------------ MODULE MapTransfer ------------------------------
(***************************************************************************)
(* Giving a whole food map away: the map of a provider becomes part of the *)
(* map of another user (transfer) or of the public map of a city           *)
(* (transferPublicMap).  A request checks the map, reads the counters and  *)
(* the sorts of both sides, takes the lock TRANSFER_LOCKED, and moves      *)
(* everything in one transaction, in which it writes the counters as       *)
(* computed from what it read before the lock.  Each of these is a step;   *)
(* other requests, of which creating points, notes and sorts are looked at *)
(* here, may come between.  A transfer may begin at any time: the code of  *)
(* the map (createQrCode) and that of the telephone are asked for, and     *)
(* expire, by themselves.                                                  *)
(*                                                                         *)
(* One place stands for one point, one code for each level of the region   *)
(* counts, and a save has one note at most.  The lock is taken in one      *)
(* step: that GET and SET NX are two is the subject of RequestLock.        *)
(***************************************************************************)
EXTENDS Integers, FiniteSetsExt

CONSTANTS
  Members,       \* registered users
  PublicUser,    \* user 0, the owner of the public maps
  Spots,         \* map points
  City,          \* the city of the public map; City = "" is the map of a user
  InCity,        \* the places that lie in City
  PointSaveIds,  \* rows of point_saves; the bound on the points created
  PointSorts,    \* identifiers of sorts; the bound on the sorts created
  Names,         \* names of sorts
  Transfers,     \* transfers at a time,
  Again,         \* those that begin anew when they have ended; the others do not
  Likes,         \* Likes[u]: the likes of u's notes when the model begins
  Null

MapOwners == Members \cup {PublicUser}

ASSUME TransferConstants ==
  /\ PublicUser \notin Members
  /\ Null \notin MapOwners \cup PointSorts \cup Spots \cup Names
  /\ InCity \subseteq Spots
  /\ Likes \in [Members -> Nat]
  /\ City # "" /\ Again \subseteq Transfers
  /\ IsFiniteSet(PointSaveIds) /\ IsFiniteSet(MapOwners)

VARIABLES
  pointSave,      \* pointSave[p]: row p of point_saves, with the author of its note
  pointSort,      \* pointSort[s]: row s of point_sorts
  createdPoints,  \* columns of users
  defaultCss,
  noteLikes,      \* noteLikes[u], a column of user_stats
  cityPoints,     \* cityPoints[a]: the column counts of a's city_points
  publicCitys,    \* the rows of public_citys
  providers,      \* the rows of user_publics
  locked,         \* whether the key transfer:locked exists
  transfer,       \* transfer[r]: where transfer r is and what it has read
  disturbed       \* whether a transfer has written something computed from
                  \* rows that were changed after it had read them

maps == <<pointSave, pointSort, createdPoints, defaultCss, noteLikes, cityPoints>>
transferVars == <<pointSave, pointSort, createdPoints, defaultCss, noteLikes, cityPoints,
                  publicCitys, providers, locked, transfer, disturbed>>

MapSaveRow == [live : BOOLEAN, user : MapOwners, place : Spots \cup {Null},
               sort : PointSorts \cup {Null}, own : {"MY_CREATE", "ONLY_SAVE"},
               noteBy : Members \cup {PublicUser, Null}]
SortRow == [live : BOOLEAN, user : MapOwners, name : Names \cup {Null},
            points : Nat, city : {"", City}]

(* What userTranfer reads before the lock. *)
SortRead == [id : PointSorts, name : Names, points : Nat]
ReadRow  == [src : SUBSET SortRead, dst : SUBSET SortRead,
             fromCreate : Nat, fromDefault : Nat, toCreate : Nat, toDefault : Nat]
Blank    == [src |-> {}, dst |-> {}, fromCreate |-> 0, fromDefault |-> 0,
             toCreate |-> 0, toDefault |-> 0]
NoTransfer   == [at |-> "idle", from |-> Null, to |-> Null, got |-> Blank, fresh |-> TRUE]
Unlocking    == [NoTransfer EXCEPT !.at = "unlock"]
TransferDone == [NoTransfer EXCEPT !.at = "done"]
Ended(r) == IF r \in Again THEN NoTransfer ELSE TransferDone

BlankMapSave == [live |-> FALSE, user |-> PublicUser, place |-> Null, sort |-> Null,
                 own |-> "MY_CREATE", noteBy |-> Null]
BlankSort == [live |-> FALSE, user |-> PublicUser, name |-> Null, points |-> 0, city |-> ""]

TransferInit ==
  /\ pointSave = [p \in PointSaveIds |-> BlankMapSave]
  /\ pointSort = [s \in PointSorts |-> BlankSort]
  /\ createdPoints = [u \in Members |-> 0] /\ defaultCss = [u \in Members |-> 0]
  /\ noteLikes = Likes
  /\ cityPoints = [a \in MapOwners |-> 0]
  /\ publicCitys = {} /\ providers = {}
  /\ locked = FALSE
  /\ transfer = [r \in Transfers |-> NoTransfer]
  /\ disturbed = FALSE

--------------------------------------------------------------------------------
(* Queries *)

MapSavesOf(a)  == { p \in PointSaveIds : pointSave[p].live /\ pointSave[p].user = a }
PlacesOf(S) == { pointSave[p].place : p \in S }
Created(a)  == { p \in MapSavesOf(a) : pointSave[p].own = "MY_CREATE" }
CityOf(a)   == IF a = PublicUser THEN City ELSE ""
SortsOf(a)  == { s \in PointSorts : /\ pointSort[s].live /\ pointSort[s].user = a
                                    /\ pointSort[s].city = CityOf(a) }

(* checkNotCreatePointCount *)
OnlyCreated(a) == MapSavesOf(a) = Created(a)
(* checkoutTransferPointSame *)
NoSame(from, to) == PlacesOf(Created(from)) \cap PlacesOf(MapSavesOf(to)) = {}
(* checkAllPointHasNote, and the check of the city in transferPublicMap *)
FitsPublicMap(a) ==
  /\ defaultCss[a] = 0
  /\ \A p \in MapSavesOf(a) : pointSave[p].noteBy # Null /\ pointSave[p].place \in InCity

--------------------------------------------------------------------------------
(* Other requests, as far as they touch the same rows; PointLedger has them  *)
(* in full.  Whatever a transfer has read is stale after one of them.        *)

Outdate == transfer' = [r \in Transfers |->
  IF transfer[r].at \in {"read", "lock", "commit"} THEN [transfer[r] EXCEPT !.fresh = FALSE]
  ELSE transfer[r]]

Bystander == Outdate /\ UNCHANGED <<noteLikes, publicCitys, providers, locked, disturbed>>

PointsOf(s, d) == IF s = Null THEN pointSort ELSE [pointSort EXCEPT ![s].points = @ + d]

(* A point is created in a sort or in none, or a point of another map kept. *)
AddPoint(u, p, pl, s, own) ==
  /\ ~pointSave[p].live /\ pointSave[p].place = Null
  /\ \A q \in MapSavesOf(u) : pointSave[q].place # pl
  /\ own = "ONLY_SAVE" => s = Null
  /\ pointSave' = [pointSave EXCEPT ![p] = [live |-> TRUE, user |-> u, place |-> pl,
                                            sort |-> s, own |-> own, noteBy |-> Null]]
  /\ pointSort' = PointsOf(s, 1)
  /\ defaultCss' = IF s = Null THEN [defaultCss EXCEPT ![u] = @ + 1] ELSE defaultCss
  /\ createdPoints' = IF own = "MY_CREATE" THEN [createdPoints EXCEPT ![u] = @ + 1]
                      ELSE createdPoints
  /\ cityPoints' = [cityPoints EXCEPT ![u] = @ + 1]
  /\ Bystander

AddNote(u, p) ==
  /\ p \in Created(u) /\ pointSave[p].noteBy = Null
  /\ pointSave' = [pointSave EXCEPT ![p].noteBy = u]
  /\ UNCHANGED <<pointSort, createdPoints, defaultCss, cityPoints>>
  /\ Bystander

AddSort(u, s, n) ==
  /\ pointSort[s] = BlankSort
  /\ \A d \in SortsOf(u) : pointSort[d].name # n
  /\ pointSort' = [pointSort EXCEPT
       ![s] = [live |-> TRUE, user |-> u, name |-> n, points |-> 0, city |-> ""]]
  /\ UNCHANGED <<pointSave, createdPoints, defaultCss, cityPoints>>
  /\ Bystander

--------------------------------------------------------------------------------
(* A transfer *)

(* The time of the key is over; that is seen by a request that comes to it. *)
LockExpires ==
  /\ locked /\ \E r \in Transfers : transfer[r].at = "lock"
  /\ locked' = FALSE
  /\ UNCHANGED <<maps, publicCitys, providers, transfer, disturbed>>

At(r, at) == transfer[r].at = at

Begin(r, from, to) ==
  /\ At(r, "idle")
  /\ OnlyCreated(from) /\ NoSame(from, to)
  /\ transfer' = [transfer EXCEPT
       ![r] = [NoTransfer EXCEPT !.at = "read", !.from = from, !.to = to]]
  /\ UNCHANGED <<maps, publicCitys, providers, locked, disturbed>>

(* transfer, up to the call of userTranfer: phone and code are right. *)
CheckTransfer(r, from, to) ==
  /\ from # to
  /\ Begin(r, from, to)

(* transferPublicMap, up to the call of userTranfer *)
CheckPublicTransfer(r, from) ==
  /\ FitsPublicMap(from)
  /\ Begin(r, from, PublicUser)

ReadSorts(a) ==
  { [id |-> s, name |-> pointSort[s].name, points |-> pointSort[s].points] : s \in SortsOf(a) }

ReadCounters(r) ==
  /\ At(r, "read")
  /\ LET from == transfer[r].from  to == transfer[r].to IN
     transfer' = [transfer EXCEPT ![r].at = "lock", ![r].got =
       [src |-> ReadSorts(from), dst |-> ReadSorts(to),
        fromCreate |-> createdPoints[from], fromDefault |-> defaultCss[from],
        toCreate   |-> IF to = PublicUser THEN 0 ELSE createdPoints[to],
        toDefault  |-> IF to = PublicUser THEN 0 ELSE defaultCss[to]]]
  /\ UNCHANGED <<maps, publicCitys, providers, locked, disturbed>>

(* A refused request returns undefined, and its finally unlocks as well. *)
Lock(r) ==
  /\ At(r, "lock")
  /\ locked' = TRUE
  /\ transfer' = [transfer EXCEPT ![r] = IF locked THEN Unlocking ELSE [@ EXCEPT !.at = "commit"]]
  /\ UNCHANGED <<maps, publicCitys, providers, disturbed>>

(* Pairs of sorts that have one name; without a sort of the provider there   *)
(* is none, though the code then takes every sort of the target for one,     *)
(* with identifiers that match no row.                                       *)
SameSorts(g) == { sd \in g.src \X g.dst : sd[1].name = sd[2].name }
Twin(g, s)   == { sd \in SameSorts(g) : sd[1].id = s }
SortIdsOf(S) == { x.id : x \in S }

(* Mutant: the points without a sort stay. *)
MovedInSorts(from, g) == { p \in Created(from) : pointSave[p].sort \in SortIdsOf(g.src) }
(* The saves that move: created ones, in a sort that was read or in none. *)
Moved(from, g) == { p \in Created(from) : pointSave[p].sort \in SortIdsOf(g.src) \cup {Null} }

MovedSave(p, to, g) ==
  LET same == Twin(g, pointSave[p].sort) IN
  [pointSave[p] EXCEPT !.user = to,
                       !.sort = IF same = {} THEN @ ELSE (CHOOSE sd \in same : TRUE)[2].id]

(* The notes of the provider on what are now saves of the target follow. *)
WithNoteOf(row, from, to) ==
  IF row.live /\ row.user = to /\ row.noteBy = from THEN [row EXCEPT !.noteBy = to] ELSE row

(* Mutant: the points of the sort that is merged are forgotten. *)
MergedForgetting(sd) == sd[2].points
MergedPoints(sd) == sd[1].points + sd[2].points

MovedSort(s, from, to, g) ==
  LET src == Twin(g, s)
      dst == { sd \in SameSorts(g) : sd[2].id = s } IN
  IF src # {} THEN [pointSort[s] EXCEPT !.live = FALSE]
  ELSE IF dst # {} /\ pointSort[s].live
       THEN LET sd == CHOOSE x \in dst : TRUE IN [pointSort[s] EXCEPT !.points = MergedPoints(sd)]
  ELSE IF s \in SortIdsOf(g.src) /\ pointSort[s].live /\ pointSort[s].user = from
       THEN [pointSort[s] EXCEPT !.user = to, !.city = CityOf(to)]
  ELSE pointSort[s]

(* Mutant: the counts of the target are replaced. *)
TransferReplacing(from, to) ==
  [cityPoints EXCEPT ![to] = IF cityPoints[from] > 0 THEN cityPoints[from] ELSE @, ![from] = 0]

(* PointUtilsService.transferPCP: all counts of the provider move. *)
TransferPCP(from, to) == [cityPoints EXCEPT ![to] = @ + cityPoints[from], ![from] = 0]

(* Mutant: the columns are signed. *)
AnyCounters(g, moved, unsorted) == TRUE
(* The columns are unsigned: the transaction fails if what was read of them  *)
(* is less than what is moved now.                                           *)
CountersSuffice(g, moved, unsorted) ==
  g.fromCreate >= Cardinality(moved) /\ g.fromDefault >= Cardinality(unsorted)

CommitTransfer(r) ==
  LET from == transfer[r].from  to == transfer[r].to  g == transfer[r].got
      moved == Moved(from, g)
      unsorted == { p \in moved : pointSave[p].sort = Null } IN
  /\ At(r, "commit")
  /\ CountersSuffice(g, moved, unsorted)
  /\ pointSave' = [p \in PointSaveIds |->
       WithNoteOf(IF p \in moved THEN MovedSave(p, to, g) ELSE pointSave[p], from, to)]
  /\ pointSort' = [s \in PointSorts |-> MovedSort(s, from, to, g)]
  /\ createdPoints' = [u \in Members |->
       IF u = to THEN g.toCreate + Cardinality(moved)
       ELSE IF u = from THEN g.fromCreate - Cardinality(moved) ELSE createdPoints[u]]
  /\ defaultCss' = [u \in Members |->
       IF u = to THEN g.toDefault + Cardinality(unsorted)
       ELSE IF u = from THEN g.fromDefault - Cardinality(unsorted) ELSE defaultCss[u]]
  /\ noteLikes' = [u \in Members |->
       IF u = from THEN 0 ELSE IF u = to THEN noteLikes[from] ELSE noteLikes[u]]
  /\ cityPoints' = TransferPCP(from, to)
  /\ publicCitys' = IF to = PublicUser THEN publicCitys \cup {City} ELSE publicCitys
  /\ providers' = IF to = PublicUser THEN providers \cup {from} ELSE providers
  /\ disturbed' = (disturbed \/ ~transfer[r].fresh)
  /\ transfer' = [x \in Transfers |->
       IF x = r THEN Unlocking
       ELSE IF transfer[x].at \in {"read", "lock", "commit"}
            THEN [transfer[x] EXCEPT !.fresh = FALSE]
       ELSE transfer[x]]
  /\ UNCHANGED locked

(* TRANSFER_EXCEPTION: the transaction is rolled back. *)
Abort(r) ==
  /\ At(r, "commit")
  /\ transfer' = [transfer EXCEPT ![r] = Unlocking]
  /\ UNCHANGED <<maps, publicCitys, providers, locked, disturbed>>

(* The finally of userTranfer; then transfer, if it succeeded, removes the   *)
(* two keys that let it begin.                                               *)
Unlock(r) ==
  /\ At(r, "unlock")
  /\ locked' = FALSE
  /\ transfer' = [transfer EXCEPT ![r] = Ended(r)]
  /\ UNCHANGED <<maps, publicCitys, providers, disturbed>>

--------------------------------------------------------------------------------

OtherRequest(u) ==
  \/ \E p \in PointSaveIds, pl \in Spots, s \in SortsOf(u) \cup {Null} :
       \E own \in {"MY_CREATE", "ONLY_SAVE"} : AddPoint(u, p, pl, s, own)
  \/ \E p \in PointSaveIds : AddNote(u, p)
  \/ \E s \in PointSorts, n \in Names : AddSort(u, s, n)

TransferStep(r) ==
  \/ \E from \in Members :
       CheckPublicTransfer(r, from) \/ \E to \in Members : CheckTransfer(r, from, to)
  \/ ReadCounters(r) \/ Lock(r) \/ CommitTransfer(r) \/ Abort(r) \/ Unlock(r)

TransferNext ==
  \/ ~disturbed /\ \E u \in Members : OtherRequest(u)  \* a bound
  \/ LockExpires
  \/ \E r \in Transfers : TransferStep(r)

TransferSpec == TransferInit /\ [][TransferNext]_transferVars

--------------------------------------------------------------------------------
(* Properties *)

(* Every column keeps its type; the counters stay unsigned although the      *)
(* transfer subtracts what it finds from what it has read.                   *)
TransferTypeOK ==
  /\ pointSave \in [PointSaveIds -> MapSaveRow]
  /\ pointSort \in [PointSorts -> SortRow]
  /\ createdPoints \in [Members -> Nat] /\ defaultCss \in [Members -> Nat]
  /\ noteLikes \in [Members -> Nat] /\ cityPoints \in [MapOwners -> Nat]
  /\ publicCitys \subseteq {City} /\ providers \subseteq Members
  /\ locked \in BOOLEAN
  /\ disturbed \in BOOLEAN

(* No save is filed in a sort that is gone or that belongs to another user:  *)
(* merging a sort into the one of that name takes all its saves along.       *)
SavesFiled ==
  \A p \in PointSaveIds : pointSave[p].live /\ pointSave[p].sort # Null =>
    pointSort[pointSave[p].sort].live /\ pointSort[pointSave[p].sort].user = pointSave[p].user

(* Whoever a map is given to, in how many steps and with whatever sorts the  *)
(* two have in common, the counters of users and sorts are the numbers of    *)
(* the rows, and each row is filed in a sort of its user: as long as no      *)
(* transfer has written what it computed from rows that changed after it     *)
(* read them (the lock does not prevent that).                               *)
MapsCounted ==
  ~disturbed =>
    /\ SavesFiled
    /\ \A u \in Members :
         /\ createdPoints[u] = Cardinality(Created(u))
         /\ defaultCss[u] = Cardinality({ p \in MapSavesOf(u) : pointSave[p].sort = Null })
    /\ \A s \in PointSorts : pointSort[s].live =>
         pointSort[s].points =
           Cardinality({ p \in PointSaveIds : pointSave[p].live /\ pointSave[p].sort = s })

(* "This transfer cannot handle a point that both have": after any number of *)
(* transfers nobody, nor the public map, has a place twice.                  *)
NoPlaceTwice ==
  ~disturbed =>
    \A p, q \in PointSaveIds :
      /\ pointSave[p].live /\ pointSave[q].live
      /\ pointSave[p].user = pointSave[q].user
      /\ pointSave[p].place = pointSave[q].place
      => p = q

(* The counts of a region move with increments and inside the transaction:   *)
(* whatever overlaps, their sum over all maps is the number of saves there.  *)
RegionsKept ==
  MapThenSumSet(LAMBDA a : cityPoints[a], MapOwners) =
    Cardinality({ p \in PointSaveIds : pointSave[p].live })

(* user_stats.noteLikes is "the total of the likes of the notes"             *)
(* (user.stat.entity.ts), and a transfer moves the notes with their likes:   *)
(* among users, the total stays what it was.                                 *)
LikesKept ==
  providers = {} =>
    MapThenSumSet(LAMBDA u : noteLikes[u], Members) = MapThenSumSet(LAMBDA u : Likes[u], Members)

(* Whose map p is on, the name of the sort it is filed in, and those of a map *)
HolderOf(p) == IF pointSave[p].live THEN pointSave[p].user ELSE Null
LabelOf(p)  == IF pointSave[p].sort = Null THEN Null ELSE pointSort[pointSave[p].sort].name
LabelsOf(a) == { pointSort[s].name : s \in SortsOf(a) }

Whole == INSTANCE FoodMaps WITH
  Owners  <- MapOwners,
  Ids     <- PointSaveIds,
  Nothing <- Null,
  holder  <- [p \in PointSaveIds |-> HolderOf(p)],
  place   <- [p \in PointSaveIds |-> pointSave[p].place],
  label   <- [p \in PointSaveIds |-> LabelOf(p)],
  labels  <- [a \in MapOwners |-> LabelsOf(a)],
  blurred <- disturbed

(* The steps of a transfer, with whatever comes between them, give the map   *)
(* away at once and whole, as FoodMaps says: checks, counters and sorts are  *)
(* read before the transaction, and sorts of one name are merged in it.  If  *)
(* rows changed since they were read, a part of the map may stay.            *)
MapsGivenWhole == Whole!Spec
================================================================================
