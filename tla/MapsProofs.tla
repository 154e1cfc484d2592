------------------------------ MODULE MapsProofs -------------------------------
(***************************************************************************)
(* Proofs about what is counted beside a map, for any number of users,     *)
(* saves, sorts, regions and overlapping requests: the points, sorts and   *)
(* regions of two maps, one of which is given to the owner of the other    *)
(* (MapTransfer), and the likes of a note and of its author (NoteLikes).   *)
(*                                                                         *)
(* A map is given within one transaction that writes, one after the other, *)
(* the saves, the sorts, the counters and the points of the regions; its   *)
(* effect is summarised by what it leaves of both maps (MapGiven) before   *)
(* the invariant is looked at.                                             *)
(***************************************************************************)
EXTENDS Maps, FiniteSums

--------------------------------------------------------------------------------
(* MapTransfer *)

(* A transfer that has begun and has not written anything yet *)
Flying(x) == x.at \in {"read", "lock", "commit"}

TransferRow ==
  [at : {"idle", "read", "lock", "commit", "unlock", "done"}, from : Members \cup {Null},
   to : MapOwners \cup {Null}, got : ReadRow, fresh : BOOLEAN]

FlightRight(x) ==
  /\ x \in TransferRow
  /\ Flying(x) => x.from \in Members /\ x.to \in MapOwners /\ x.from # x.to

TransferTyped ==
  /\ TransferTypeOK
  /\ DOMAIN transfer = Transfers /\ \A r \in Transfers : FlightRight(transfer[r])
  /\ \A s \in PointSorts : pointSort[s].live => pointSort[s].name \in Names

Unsorted(a) == { p \in MapSavesOf(a) : pointSave[p].sort = Null }
InSort(s)   == { p \in PointSaveIds : pointSave[p].live /\ pointSave[p].sort = s }

UsersCounted ==
  \A u \in Members : /\ createdPoints[u] = Cardinality(Created(u))
                     /\ defaultCss[u] = Cardinality(Unsorted(u))

SortsNumbered ==
  \A s \in PointSorts : pointSort[s].live => pointSort[s].points = Cardinality(InSort(s))

PlacesOnce ==
  \A p, q \in PointSaveIds :
    /\ pointSave[p].live /\ pointSave[q].live
    /\ pointSave[p].user = pointSave[q].user
    /\ pointSave[p].place = pointSave[q].place
    => p = q

(* The names of the sorts of one map are different. *)
NamesOnce ==
  \A s, t \in PointSorts :
    /\ pointSort[s].live /\ pointSort[t].live
    /\ pointSort[s].user = pointSort[t].user /\ pointSort[s].name = pointSort[t].name
    => s = t

CitiesRight ==
  \A s \in PointSorts : pointSort[s].live => pointSort[s].city = CityOf(pointSort[s].user)

(* What a transfer has read is what there is. *)
Current(g, from, to) ==
  /\ g.src = ReadSorts(from) /\ g.dst = ReadSorts(to)
  /\ g.fromCreate = createdPoints[from] /\ g.fromDefault = defaultCss[from]
  /\ to # PublicUser => g.toCreate = createdPoints[to] /\ g.toDefault = defaultCss[to]

(* What it has checked and read holds still, if nothing was written meanwhile. *)
ReadsCurrent(x) ==
  Flying(x) /\ x.fresh =>
    /\ OnlyCreated(x.from) /\ NoSame(x.from, x.to)
    /\ x.at # "read" => Current(x.got, x.from, x.to)

Ledger ==
  /\ SavesFiled /\ UsersCounted /\ SortsNumbered /\ PlacesOnce /\ NamesOnce /\ CitiesRight
  /\ \A r \in Transfers : ReadsCurrent(transfer[r])

LiveSaves == { p \in PointSaveIds : pointSave[p].live }

RegionsSummed == Sum(cityPoints, MapOwners) = Cardinality(LiveSaves)

TransferInv == TransferTyped /\ RegionsSummed /\ (~disturbed => Ledger)

--------------------------------------------------------------------------------
(* Types, and the counts of regions *)

(* The sets of saves that are counted are finite. *)
LEMMA MapSetsFinite ==
  /\ \A S \in SUBSET PointSaveIds : IsFiniteSet(S) /\ Cardinality(S) \in Nat
  /\ \A a : /\ MapSavesOf(a) \subseteq PointSaveIds /\ Created(a) \subseteq PointSaveIds
            /\ Unsorted(a) \subseteq PointSaveIds /\ InSort(a) \subseteq PointSaveIds
BY TransferConstants, FS_Subset, FS_CardinalityType DEF MapSavesOf, Created, Unsorted, InSort

(* A transfer that waits, or has ended, has read nothing. *)
LEMMA TransfersTyped ==
  /\ NoTransfer \in TransferRow /\ ~Flying(NoTransfer) /\ FlightRight(NoTransfer)
  /\ Unlocking \in TransferRow /\ ~Flying(Unlocking) /\ FlightRight(Unlocking)
  /\ TransferDone \in TransferRow /\ ~Flying(TransferDone) /\ FlightRight(TransferDone)
  /\ NoTransfer.fresh = TRUE /\ NoTransfer.at = "idle"
<1>1. Blank \in ReadRow
  BY DEF Blank, ReadRow
<1>2. NoTransfer \in TransferRow /\ NoTransfer.at = "idle" /\ NoTransfer.fresh = TRUE
  BY <1>1 DEF NoTransfer, TransferRow
<1>3. Unlocking \in TransferRow /\ Unlocking.at = "unlock"
  BY <1>2 DEF Unlocking, TransferRow
<1>4. TransferDone \in TransferRow /\ TransferDone.at = "done"
  BY <1>2 DEF TransferDone, TransferRow
<1> QED
  BY <1>2, <1>3, <1>4 DEF Flying, FlightRight

(* A row that is told that something has changed *)
LEMMA StaleRight ==
  ASSUME NEW x, FlightRight(x)
  PROVE  FlightRight([x EXCEPT !.fresh = FALSE])
BY DEF FlightRight, TransferRow, Flying

(* What a step of other requests does to the rows and counters of the public *)
(* map and of users                                                          *)
LEMMA BystanderTyped ==
  ASSUME TransferTyped, Bystander
  PROVE  /\ DOMAIN transfer' = Transfers /\ \A r \in Transfers : FlightRight(transfer'[r])
         /\ \A r \in Transfers : Flying(transfer'[r]) => ~transfer'[r].fresh
         /\ UNCHANGED <<noteLikes, publicCitys, providers, locked, disturbed>>
<1>1. /\ UNCHANGED <<noteLikes, publicCitys, providers, locked, disturbed>>
      /\ transfer' = [r \in Transfers |->
           IF Flying(transfer[r]) THEN [transfer[r] EXCEPT !.fresh = FALSE] ELSE transfer[r]]
  BY DEF Bystander, Outdate, Flying
<1>2. \A r \in Transfers : Flying(transfer'[r]) => ~transfer'[r].fresh
  <2> SUFFICES ASSUME NEW r \in Transfers, Flying(transfer'[r])
               PROVE  ~transfer'[r].fresh
    OBVIOUS
  <2>1. transfer[r] \in TransferRow
    BY DEF TransferTyped, FlightRight
  <2> QED
    BY <1>1, <2>1 DEF TransferRow
<1> QED
  BY <1>1, <1>2, StaleRight DEF TransferTyped

(* A new point keeps the types. *)
LEMMA AddPointTyped ==
  ASSUME TransferTyped, NEW u \in Members, NEW p \in PointSaveIds, NEW pl \in Spots,
         NEW s \in SortsOf(u) \cup {Null}, NEW own \in {"MY_CREATE", "ONLY_SAVE"},
         AddPoint(u, p, pl, s, own)
  PROVE  TransferTyped'
<1>1. /\ pointSave' = [pointSave EXCEPT ![p] = [live |-> TRUE, user |-> u, place |-> pl,
                                            sort |-> s, own |-> own, noteBy |-> Null]]
      /\ pointSort' = PointsOf(s, 1)
      /\ defaultCss' = IF s = Null THEN [defaultCss EXCEPT ![u] = @ + 1] ELSE defaultCss
      /\ createdPoints' = IF own = "MY_CREATE" THEN [createdPoints EXCEPT ![u] = @ + 1]
                          ELSE createdPoints
      /\ cityPoints' = [cityPoints EXCEPT ![u] = @ + 1]
      /\ Bystander /\ TransferTypeOK
  BY DEF AddPoint, TransferTyped
<1>2. pointSort' \in [PointSorts -> SortRow] /\
      \A x \in PointSorts : pointSort'[x].live = pointSort[x].live /\ pointSort'[x].name = pointSort[x].name
  <2>1. CASE s = Null
    BY <1>1, <2>1 DEF PointsOf, TransferTypeOK
  <2>2. CASE s # Null
    <3>1. s \in PointSorts /\ pointSort' = [pointSort EXCEPT ![s].points = @ + 1]
      BY <1>1, <2>2 DEF PointsOf, SortsOf
    <3>2. pointSort[s] \in SortRow
      BY <1>1, <3>1 DEF TransferTypeOK
    <3>3. pointSort'[s] = [pointSort[s] EXCEPT !.points = @ + 1]
      BY <1>1, <3>1 DEF TransferTypeOK
    <3>4. pointSort'[s] \in SortRow
      <4>1. pointSort[s].points \in Nat
        BY <3>2 DEF SortRow
      <4>2. pointSort[s].points + 1 \in Nat
        BY <4>1
      <4> QED
        BY <3>2, <3>3, <4>2 DEF SortRow
    <3>5. pointSort'[s].live = pointSort[s].live /\ pointSort'[s].name = pointSort[s].name
      BY <3>2, <3>3 DEF SortRow
    <3> QED
      BY <1>1, <3>1, <3>4, <3>5 DEF TransferTypeOK
  <2> QED
    BY <2>1, <2>2
<1>3. pointSave' \in [PointSaveIds -> MapSaveRow]
  <2>1. s \in PointSorts \cup {Null} /\ u \in MapOwners
    BY DEF SortsOf, MapOwners
  <2>2. [live |-> TRUE, user |-> u, place |-> pl, sort |-> s, own |-> own, noteBy |-> Null]
          \in MapSaveRow
    BY <2>1 DEF MapSaveRow
  <2> QED
    BY <1>1, <2>2 DEF TransferTypeOK
<1>4. /\ defaultCss' \in [Members -> Nat] /\ createdPoints' \in [Members -> Nat]
      /\ cityPoints' \in [MapOwners -> Nat]
  BY <1>1 DEF TransferTypeOK, MapOwners
<1> QED
  BY <1>1, <1>2, <1>3, <1>4, BystanderTyped DEF TransferTyped, TransferTypeOK

(* A note on a created point keeps the types. *)
LEMMA AddNoteTyped ==
  ASSUME TransferTyped, NEW u \in Members, NEW p \in PointSaveIds, AddNote(u, p)
  PROVE  TransferTyped'
<1>1. /\ pointSave' = [pointSave EXCEPT ![p].noteBy = u]
      /\ UNCHANGED <<pointSort, createdPoints, defaultCss, cityPoints>>
      /\ Bystander /\ TransferTypeOK
  BY DEF AddNote, TransferTyped
<1>2. pointSave' \in [PointSaveIds -> MapSaveRow]
  BY <1>1 DEF TransferTypeOK, MapSaveRow
<1> QED
  BY <1>1, <1>2, BystanderTyped DEF TransferTyped, TransferTypeOK

(* A new sort keeps the types. *)
LEMMA AddSortTyped ==
  ASSUME TransferTyped, NEW u \in Members, NEW s \in PointSorts, NEW n \in Names, AddSort(u, s, n)
  PROVE  TransferTyped'
<1>1. /\ pointSort' = [pointSort EXCEPT
           ![s] = [live |-> TRUE, user |-> u, name |-> n, points |-> 0, city |-> ""]]
      /\ UNCHANGED <<pointSave, createdPoints, defaultCss, cityPoints>>
      /\ Bystander /\ TransferTypeOK
  BY DEF AddSort, TransferTyped
<1>2. [live |-> TRUE, user |-> u, name |-> n, points |-> 0, city |-> ""] \in SortRow
  BY DEF SortRow, MapOwners
<1>3. pointSort' \in [PointSorts -> SortRow] /\
      \A x \in PointSorts : pointSort'[x].live => pointSort'[x].name \in Names
  BY <1>1, <1>2 DEF TransferTypeOK, TransferTyped
<1> QED
  BY <1>1, <1>3, BystanderTyped DEF TransferTyped, TransferTypeOK

(* A step of r alone, which reads, waits or ends, and leaves the maps alone *)
Waits(r) ==
  /\ UNCHANGED <<pointSave, pointSort, createdPoints, defaultCss, noteLikes, cityPoints,
                 publicCitys, providers, disturbed>>
  /\ locked' \in BOOLEAN
  /\ transfer' = [transfer EXCEPT ![r] = transfer'[r]]
  /\ FlightRight(transfer'[r])

(* A transfer that writes nothing keeps the types. *)
LEMMA WaitsTyped ==
  ASSUME TransferTyped, NEW r \in Transfers, Waits(r)
  PROVE  TransferTyped'
<1>1. DOMAIN transfer' = Transfers /\ \A x \in Transfers : x # r => transfer'[x] = transfer[x]
  BY DEF Waits, TransferTyped
<1> QED
  BY <1>1 DEF Waits, TransferTyped, TransferTypeOK

(* The sorts that are read are rows with names and numbers. *)
LEMMA ReadSortsTyped ==
  ASSUME TransferTyped, NEW a
  PROVE  ReadSorts(a) \in SUBSET SortRead
<1> SUFFICES ASSUME NEW s \in SortsOf(a)
             PROVE  [id |-> s, name |-> pointSort[s].name, points |-> pointSort[s].points] \in SortRead
  BY DEF ReadSorts
<1>1. s \in PointSorts /\ pointSort[s].name \in Names /\ pointSort[s] \in SortRow
  BY DEF SortsOf, TransferTyped, TransferTypeOK
<1>2. pointSort[s].points \in Nat
  BY <1>1 DEF SortRow
<1> QED
  BY <1>1, <1>2 DEF SortRead

(* A transfer that begins writes nothing. *)
LEMMA BeginWaits ==
  ASSUME TransferTyped, NEW r \in Transfers, NEW from \in Members, NEW to \in MapOwners,
         from # to, Begin(r, from, to)
  PROVE  /\ Waits(r) /\ Flying(transfer'[r]) /\ transfer'[r].at = "read"
         /\ transfer'[r].from = from /\ transfer'[r].to = to
<1> DEFINE x == [NoTransfer EXCEPT !.at = "read", !.from = from, !.to = to]
<1>1. transfer' = [transfer EXCEPT ![r] = x] /\ UNCHANGED <<maps, publicCitys, providers, locked, disturbed>>
  BY DEF Begin
<1>2. x \in TransferRow /\ x.at = "read" /\ x.from = from /\ x.to = to
  BY TransfersTyped DEF TransferRow
<1> HIDE DEF x
<1>3. transfer'[r] = x
  BY <1>1 DEF TransferTyped
<1> QED
  BY <1>1, <1>2, <1>3 DEF Waits, maps, FlightRight, Flying, TransferTyped, TransferTypeOK

(* The counters that are read are those of that moment. *)
LEMMA ReadWaits ==
  ASSUME TransferTyped, NEW r \in Transfers, ReadCounters(r)
  PROVE  /\ Waits(r) /\ Flying(transfer[r]) /\ transfer[r].at = "read"
         /\ Flying(transfer'[r]) /\ transfer'[r].fresh = transfer[r].fresh
         /\ transfer'[r].from = transfer[r].from /\ transfer'[r].to = transfer[r].to
         /\ Current(transfer'[r].got, transfer[r].from, transfer[r].to)
<1> DEFINE from == transfer[r].from
<1> DEFINE to == transfer[r].to
<1> DEFINE g == [src |-> ReadSorts(from), dst |-> ReadSorts(to),
        fromCreate |-> createdPoints[from], fromDefault |-> defaultCss[from],
        toCreate   |-> IF to = PublicUser THEN 0 ELSE createdPoints[to],
        toDefault  |-> IF to = PublicUser THEN 0 ELSE defaultCss[to]]
<1>1. /\ transfer[r].at = "read" /\ Flying(transfer[r]) /\ transfer[r] \in TransferRow
      /\ transfer' = [transfer EXCEPT ![r].at = "lock", ![r].got = g]
      /\ UNCHANGED <<maps, publicCitys, providers, locked, disturbed>>
  BY DEF ReadCounters, At, Flying, TransferTyped, FlightRight
<1>2. from \in Members /\ to \in MapOwners /\ from # to
  BY <1>1 DEF TransferTyped, FlightRight
<1>3. g \in ReadRow
  <2>1. /\ createdPoints[from] \in Nat /\ defaultCss[from] \in Nat
        /\ to # PublicUser => createdPoints[to] \in Nat /\ defaultCss[to] \in Nat
    BY <1>2 DEF TransferTyped, TransferTypeOK, MapOwners
  <2>2. ReadSorts(from) \in SUBSET SortRead /\ ReadSorts(to) \in SUBSET SortRead
    BY ReadSortsTyped
  <2> QED
    BY <2>1, <2>2 DEF ReadRow
<1>4. Current(g, from, to)
  BY DEF Current
<1> HIDE DEF g
<1>5. transfer'[r] = [transfer[r] EXCEPT !.at = "lock", !.got = g]
  BY <1>1 DEF TransferTyped
<1>6. /\ transfer'[r] \in TransferRow /\ transfer'[r].at = "lock" /\ transfer'[r].got = g
      /\ transfer'[r].from = from /\ transfer'[r].to = to
      /\ transfer'[r].fresh = transfer[r].fresh
  <2> DEFINE x == transfer[r]
  <2> HIDE DEF x
  <2>1. x \in TransferRow /\ transfer'[r] = [x EXCEPT !.at = "lock", !.got = g]
    BY <1>1, <1>5 DEF x
  <2>2. transfer'[r] \in TransferRow
    BY <1>3, <2>1 DEF TransferRow
  <2>3. /\ transfer'[r].at = "lock" /\ transfer'[r].got = g
        /\ transfer'[r].from = x.from /\ transfer'[r].to = x.to
        /\ transfer'[r].fresh = x.fresh
    BY <2>1 DEF TransferRow
  <2> QED
    BY <2>2, <2>3 DEF x
<1>7. transfer' = [transfer EXCEPT ![r] = transfer'[r]]
  BY <1>1, <1>5
<1>8. FlightRight(transfer'[r])
  BY <1>2, <1>6 DEF FlightRight
<1>9. Waits(r)
  BY <1>1, <1>7, <1>8 DEF Waits, maps, TransferTyped, TransferTypeOK
<1> QED
  BY <1>1, <1>4, <1>6, <1>9 DEF Flying

(* Locking, failing and unlocking write nothing, and change nothing of what *)
(* was read.                                                                *)
LEMMA LockWaits ==
  ASSUME TransferTyped, NEW r \in Transfers, Lock(r) \/ Abort(r) \/ Unlock(r)
  PROVE  /\ Waits(r)
         /\ Flying(transfer'[r]) =>
              /\ Flying(transfer[r]) /\ transfer[r].at # "read" /\ transfer'[r].fresh = transfer[r].fresh
              /\ transfer'[r].from = transfer[r].from /\ transfer'[r].to = transfer[r].to
              /\ transfer'[r].got = transfer[r].got
<1>1. FlightRight(transfer[r]) /\ DOMAIN transfer = Transfers /\ locked \in BOOLEAN
  BY DEF TransferTyped, TransferTypeOK
<1>2. CASE Lock(r)
  <2>1. /\ transfer[r].at = "lock" /\ Flying(transfer[r]) /\ locked' = TRUE
        /\ transfer' = [transfer EXCEPT ![r] = IF locked THEN Unlocking ELSE [@ EXCEPT !.at = "commit"]]
        /\ UNCHANGED <<maps, publicCitys, providers, disturbed>>
    BY <1>2 DEF Lock, At, Flying
  <2>2. transfer'[r] = IF locked THEN Unlocking ELSE [transfer[r] EXCEPT !.at = "commit"]
    BY <1>1, <2>1
  <2>3. CASE locked
    BY <1>1, <2>1, <2>2, <2>3, TransfersTyped DEF Waits, maps
  <2>4. CASE ~locked
    <3>1. /\ transfer'[r] \in TransferRow /\ transfer'[r].at = "commit"
          /\ transfer'[r].from = transfer[r].from /\ transfer'[r].to = transfer[r].to
          /\ transfer'[r].got = transfer[r].got /\ transfer'[r].fresh = transfer[r].fresh
      BY <1>1, <2>2, <2>4 DEF FlightRight, TransferRow
    <3>2. FlightRight(transfer'[r])
      BY <1>1, <2>1, <3>1 DEF FlightRight
    <3> QED
      BY <1>1, <2>1, <2>2, <3>1, <3>2 DEF Waits, maps
  <2> QED
    BY <2>3, <2>4
<1>3. CASE Abort(r) \/ Unlock(r)
  <2>1. /\ locked' \in BOOLEAN /\ UNCHANGED <<maps, publicCitys, providers, disturbed>>
        /\ \E x \in {Unlocking, NoTransfer, TransferDone} : transfer' = [transfer EXCEPT ![r] = x]
    BY <1>1, <1>3 DEF Abort, Unlock, Ended
  <2>2. PICK x \in {Unlocking, NoTransfer, TransferDone} : transfer' = [transfer EXCEPT ![r] = x]
    BY <2>1
  <2>3. transfer'[r] = x /\ ~Flying(x) /\ FlightRight(x)
    BY <1>1, <2>2, TransfersTyped
  <2> QED
    BY <2>1, <2>2, <2>3 DEF Waits, maps
<1> QED
  BY <1>2, <1>3

(* What a transfer writes into a save *)
LEMMA SaveMoves ==
  ASSUME TransferTyped, NEW from \in Members, NEW to \in MapOwners, NEW g \in ReadRow,
         NEW p \in PointSaveIds
  PROVE  LET x == WithNoteOf(IF p \in Moved(from, g) THEN MovedSave(p, to, g) ELSE pointSave[p],
                             from, to)
             row == pointSave[p] IN
         /\ x \in MapSaveRow /\ x.live = row.live /\ x.place = row.place /\ x.own = row.own
         /\ p \notin Moved(from, g) => x.user = row.user /\ x.sort = row.sort
         /\ p \in Moved(from, g) =>
              /\ x.user = to
              /\ Twin(g, row.sort) = {} => x.sort = row.sort
              /\ Twin(g, row.sort) # {} => \E sd \in Twin(g, row.sort) : x.sort = sd[2].id
<1> DEFINE row == pointSave[p]
<1> DEFINE same == Twin(g, row.sort)
<1> DEFINE id == IF same = {} THEN row.sort ELSE (CHOOSE sd \in same : TRUE)[2].id
<1> DEFINE y == IF p \in Moved(from, g) THEN MovedSave(p, to, g) ELSE row
<1> DEFINE x == WithNoteOf(y, from, to)
<1>1. row \in MapSaveRow
  BY DEF TransferTyped, TransferTypeOK
<1>2. /\ id \in PointSorts \cup {Null}
      /\ same = {} => id = row.sort
      /\ same # {} => \E sd \in same : id = sd[2].id
  <2>1. \A sd \in same : sd[2].id \in PointSorts
    BY DEF Twin, SameSorts, ReadRow, SortRead
  <2>2. same # {} => (CHOOSE sd \in same : TRUE) \in same
    OBVIOUS
  <2>3. row.sort \in PointSorts \cup {Null}
    BY <1>1 DEF MapSaveRow
  <2> HIDE DEF same
  <2> QED
    BY <2>1, <2>2, <2>3
<1>3. MovedSave(p, to, g) = [row EXCEPT !.user = to, !.sort = id]
  BY <1>1 DEF MovedSave, MapSaveRow
<1> HIDE DEF row, id, same
<1>4. /\ y \in MapSaveRow /\ y.live = row.live /\ y.place = row.place /\ y.own = row.own
      /\ p \notin Moved(from, g) => y.user = row.user /\ y.sort = row.sort
      /\ p \in Moved(from, g) => y.user = to /\ y.sort = id
  <2>1. CASE p \in Moved(from, g)
    BY <1>1, <1>2, <1>3, <2>1 DEF MapSaveRow
  <2>2. CASE p \notin Moved(from, g)
    BY <1>1, <2>2
  <2> QED
    BY <2>1, <2>2
<1> HIDE DEF y
<1>5. /\ x \in MapSaveRow /\ x.live = y.live /\ x.place = y.place /\ x.own = y.own
      /\ x.user = y.user /\ x.sort = y.sort
  <2>1. CASE y.live /\ y.user = to /\ y.noteBy = from
    <3>1. x = [y EXCEPT !.noteBy = to] /\ to \in Members \cup {PublicUser, Null}
      BY <2>1 DEF WithNoteOf, MapOwners
    <3> HIDE DEF x
    <3> QED
      BY <1>4, <3>1 DEF MapSaveRow
  <2>2. CASE ~(y.live /\ y.user = to /\ y.noteBy = from)
    BY <1>4, <2>2 DEF WithNoteOf
  <2> QED
    BY <2>1, <2>2
<1> QED
  BY <1>2, <1>4, <1>5 DEF x, y, row, same

(* What a transfer writes into a sort *)
LEMMA SortMoves ==
  ASSUME TransferTyped, NEW from \in Members, NEW to \in MapOwners, NEW g \in ReadRow,
         NEW s \in PointSorts
  PROVE  LET x == MovedSort(s, from, to, g)
             row == pointSort[s]
             dst == { sd \in SameSorts(g) : sd[2].id = s } IN
         /\ x \in SortRow /\ x.name = row.name
         /\ x.live => row.live
         /\ Twin(g, s) # {} => ~x.live
         /\ Twin(g, s) = {} /\ row.live =>
              /\ x.live
              /\ dst # {} => /\ x.user = row.user /\ x.city = row.city
                             /\ \E sd \in dst : x.points = sd[1].points + sd[2].points
              /\ dst = {} =>
                   /\ x.points = row.points
                   /\ IF s \in SortIdsOf(g.src) /\ row.user = from
                      THEN x.user = to /\ x.city = CityOf(to)
                      ELSE x.user = row.user /\ x.city = row.city
<1> DEFINE row == pointSort[s]
<1> DEFINE src == Twin(g, s)
<1> DEFINE dst == { sd \in SameSorts(g) : sd[2].id = s }
<1> DEFINE x == MovedSort(s, from, to, g)
<1>1. row \in SortRow
  BY DEF TransferTyped, TransferTypeOK
<1>2. CASE src # {}
  <2>1. x = [row EXCEPT !.live = FALSE]
    BY <1>2 DEF MovedSort
  <2> HIDE DEF x, row
  <2>2. x \in SortRow /\ x.name = row.name /\ ~x.live
    BY <1>1, <2>1 DEF SortRow
  <2> QED
    BY <1>2, <2>2 DEF x, row
<1>3. CASE src = {} /\ dst # {} /\ row.live
  <2> DEFINE sd == CHOOSE z \in dst : TRUE
  <2>1. sd \in dst
    BY <1>3
  <2>2. sd[1].points \in Nat /\ sd[2].points \in Nat
    BY <2>1 DEF SameSorts, ReadRow, SortRead
  <2>3. x = [row EXCEPT !.points = MergedPoints(sd)]
    BY <1>3 DEF MovedSort
  <2>4. MergedPoints(sd) = sd[1].points + sd[2].points
    BY DEF MergedPoints
  <2> HIDE DEF x, dst, sd
  <2>5. MergedPoints(sd) \in Nat
    BY <2>2, <2>4
  <2> HIDE DEF row
  <2>6. x \in SortRow /\ x.points = MergedPoints(sd)
        /\ x.live = row.live /\ x.user = row.user /\ x.name = row.name /\ x.city = row.city
    BY <1>1, <2>3, <2>5 DEF SortRow
  <2>7. \E z \in dst : x.points = z[1].points + z[2].points
    BY <2>1, <2>4, <2>6
  <2> QED
    BY <1>3, <2>6, <2>7 DEF row, dst, x
<1>4. CASE src = {} /\ ~(dst # {} /\ row.live) /\ s \in SortIdsOf(g.src) /\ row.live /\ row.user = from
  <2>1. x = [row EXCEPT !.user = to, !.city = CityOf(to)]
    BY <1>4 DEF MovedSort
  <2>2. CityOf(to) \in {"", City}
    BY DEF CityOf
  <2> HIDE DEF x, row
  <2>3. x \in SortRow /\ x.user = to /\ x.city = CityOf(to)
        /\ x.live = row.live /\ x.points = row.points /\ x.name = row.name
    BY <1>1, <2>1, <2>2 DEF SortRow
  <2> QED
    BY <1>4, <2>3 DEF x, row
<1>5. CASE /\ src = {} /\ ~(dst # {} /\ row.live)
           /\ ~(s \in SortIdsOf(g.src) /\ row.live /\ row.user = from)
  <2>1. x = row
    BY <1>5 DEF MovedSort
  <2> HIDE DEF x
  <2> QED
    BY <1>1, <1>5, <2>1 DEF x
<1> QED
  BY <1>2, <1>3, <1>4, <1>5

(* A transfer keeps the types, and ends what others had read. *)
LEMMA CommitTyped ==
  ASSUME TransferTyped, NEW r \in Transfers, CommitTransfer(r)
  PROVE  /\ TransferTyped'
         /\ \A x \in Transfers : Flying(transfer'[x]) => ~transfer'[x].fresh
<1> DEFINE from == transfer[r].from
<1> DEFINE to == transfer[r].to
<1> DEFINE g == transfer[r].got
<1> DEFINE moved == Moved(from, g)
<1> DEFINE unsorted == { p \in moved : pointSave[p].sort = Null }
<1>1. /\ FlightRight(transfer[r]) /\ Flying(transfer[r]) /\ TransferTypeOK
      /\ from \in Members /\ to \in MapOwners /\ from # to /\ g \in ReadRow
  BY DEF CommitTransfer, At, TransferTyped, Flying, FlightRight, TransferRow
<1>2. Cardinality(moved) \in Nat /\ Cardinality(unsorted) \in Nat
  BY MapSetsFinite DEF Moved
<1>3. pointSave' \in [PointSaveIds -> MapSaveRow]
  <2>1. pointSave' = [p \in PointSaveIds |->
          WithNoteOf(IF p \in moved THEN MovedSave(p, to, g) ELSE pointSave[p], from, to)]
    BY DEF CommitTransfer
  <2> QED
    BY <1>1, <2>1, SaveMoves
<1>4. /\ pointSort' \in [PointSorts -> SortRow]
      /\ \A s \in PointSorts : pointSort'[s].live => pointSort'[s].name \in Names
  <2>1. pointSort' = [s \in PointSorts |-> MovedSort(s, from, to, g)]
    BY DEF CommitTransfer
  <2>2. \A s \in PointSorts :
          /\ pointSort'[s] \in SortRow /\ pointSort'[s].name = pointSort[s].name
          /\ pointSort'[s].live => pointSort[s].live
    BY <1>1, <2>1, SortMoves
  <2> QED
    BY <2>1, <2>2 DEF TransferTyped
<1>5. /\ g.fromCreate \in Nat /\ g.fromDefault \in Nat /\ g.toCreate \in Nat /\ g.toDefault \in Nat
      /\ g.fromCreate - Cardinality(moved) \in Nat /\ g.fromDefault - Cardinality(unsorted) \in Nat
  <2>1. g.fromCreate >= Cardinality(moved) /\ g.fromDefault >= Cardinality(unsorted)
    BY DEF CommitTransfer, CountersSuffice
  <2>2. g.fromCreate \in Nat /\ g.fromDefault \in Nat /\ g.toCreate \in Nat /\ g.toDefault \in Nat
    BY <1>1 DEF ReadRow
  <2> QED
    BY <1>2, <2>1, <2>2
<1>6. /\ createdPoints' = [u \in Members |->
           IF u = to THEN g.toCreate + Cardinality(moved)
           ELSE IF u = from THEN g.fromCreate - Cardinality(moved) ELSE createdPoints[u]]
      /\ defaultCss' = [u \in Members |->
           IF u = to THEN g.toDefault + Cardinality(unsorted)
           ELSE IF u = from THEN g.fromDefault - Cardinality(unsorted) ELSE defaultCss[u]]
      /\ noteLikes' = [u \in Members |->
           IF u = from THEN 0 ELSE IF u = to THEN noteLikes[from] ELSE noteLikes[u]]
  BY DEF CommitTransfer
<1>7. createdPoints' \in [Members -> Nat] /\ defaultCss' \in [Members -> Nat]
  <2> HIDE DEF moved, unsorted, g, from, to
  <2> QED
    BY <1>1, <1>2, <1>5, <1>6 DEF TransferTypeOK
<1>8. noteLikes' \in [Members -> Nat] /\ cityPoints' \in [MapOwners -> Nat]
  <2>1. cityPoints' = [cityPoints EXCEPT ![to] = @ + cityPoints[from], ![from] = 0]
    BY DEF CommitTransfer, TransferPCP
  <2> HIDE DEF from, to
  <2> QED
    BY <1>1, <1>6, <2>1 DEF TransferTypeOK, MapOwners
<1>9. publicCitys' \subseteq {City} /\ providers' \subseteq Members /\ locked' \in BOOLEAN /\ disturbed' \in BOOLEAN
  BY <1>1 DEF CommitTransfer, TransferTypeOK, FlightRight, TransferRow
<1>10. transfer' = [x \in Transfers |->
         IF x = r THEN Unlocking
         ELSE IF Flying(transfer[x]) THEN [transfer[x] EXCEPT !.fresh = FALSE] ELSE transfer[x]]
  BY DEF CommitTransfer, Flying
<1>11. /\ DOMAIN transfer' = Transfers
       /\ \A x \in Transfers : FlightRight(transfer'[x])
  BY <1>10, StaleRight, TransfersTyped DEF TransferTyped
<1>12. ASSUME NEW x \in Transfers, Flying(transfer'[x])
       PROVE  ~transfer'[x].fresh
  <2>1. x # r /\ transfer[x] \in TransferRow
    BY <1>10, <1>12, TransfersTyped DEF TransferTyped, FlightRight
  <2> QED
    BY <1>10, <1>12, <2>1 DEF TransferRow
<1> QED
  BY <1>3, <1>4, <1>7, <1>8, <1>9, <1>11, <1>12 DEF TransferTyped, TransferTypeOK

--------------------------------------------------------------------------------
(* The counts of regions *)

(* The numbers of points of the owners have a sum. *)
LEMMA CitiesSummed ==
  ASSUME TransferTyped
  PROVE  /\ Terms(cityPoints, MapOwners) /\ Sum(cityPoints, MapOwners) \in Int
         /\ Cardinality(LiveSaves) \in Nat
<1>1. \A a \in MapOwners : cityPoints[a] \in Nat
  BY DEF TransferTyped, TransferTypeOK
<1>2. \A a \in MapOwners : cityPoints[a] \in Int
  BY <1>1
<1>3. IsFiniteSet(MapOwners)
  BY TransferConstants
<1>4. Terms(cityPoints, MapOwners)
  BY <1>2, <1>3 DEF Terms
<1> QED
  BY <1>4, SumOfTerms, MapSetsFinite DEF LiveSaves

(* What leaves saves and regions alone leaves their sum. *)
LEMMA RegionsStay ==
  ASSUME RegionsSummed, UNCHANGED cityPoints, LiveSaves' = LiveSaves
  PROVE  RegionsSummed'
BY DEF RegionsSummed

(* A new point is one more in its region. *)
LEMMA AddPointRegions ==
  ASSUME TransferTyped, RegionsSummed, NEW u \in Members, NEW p \in PointSaveIds, NEW pl, NEW s,
         NEW own, AddPoint(u, p, pl, s, own)
  PROVE  RegionsSummed'
<1>1. /\ ~pointSave[p].live /\ cityPoints' = [cityPoints EXCEPT ![u] = @ + 1]
      /\ pointSave' = [pointSave EXCEPT ![p] = [live |-> TRUE, user |-> u, place |-> pl,
                                            sort |-> s, own |-> own, noteBy |-> Null]]
      /\ pointSave \in [PointSaveIds -> MapSaveRow] /\ cityPoints \in [MapOwners -> Nat]
      /\ u \in MapOwners
  BY DEF AddPoint, TransferTyped, TransferTypeOK, MapOwners
<1>2. LiveSaves' = LiveSaves \cup {p} /\ p \notin LiveSaves
  BY <1>1 DEF LiveSaves
<1>3. Cardinality(LiveSaves') = Cardinality(LiveSaves) + 1
  BY <1>2, MapSetsFinite, FS_AddElement DEF LiveSaves
<1>4. Terms(cityPoints, MapOwners)
  BY CitiesSummed
<1>5. /\ cityPoints'[u] = cityPoints[u] + 1 /\ cityPoints[u] \in Nat /\ cityPoints'[u] \in Int
      /\ \A a \in MapOwners \ {u} : cityPoints'[a] = cityPoints[a]
  BY <1>1
<1>6. Sum(cityPoints', MapOwners) = Sum(cityPoints, MapOwners) + cityPoints'[u] - cityPoints[u]
  <2>1. u \in MapOwners
    BY <1>1
  <2>2. cityPoints'[u] \in Int /\ \A a \in MapOwners \ {u} : cityPoints'[a] = cityPoints[a]
    BY <1>5
  <2> QED
    BY <2>1, <2>2, <1>4, SumWithOne
<1>7. Sum(cityPoints, MapOwners) \in Int /\ Cardinality(LiveSaves) \in Nat
  BY CitiesSummed
<1> QED
  BY <1>3, <1>5, <1>6, <1>7 DEF RegionsSummed

(* A transfer moves as many points of the region as saves. *)
LEMMA CommitRegions ==
  ASSUME TransferTyped, RegionsSummed, NEW r \in Transfers, CommitTransfer(r)
  PROVE  RegionsSummed'
<1> DEFINE from == transfer[r].from
<1> DEFINE to == transfer[r].to
<1> DEFINE g == transfer[r].got
<1>1. /\ FlightRight(transfer[r]) /\ Flying(transfer[r]) /\ TransferTypeOK
      /\ from \in MapOwners /\ from \in Members /\ to \in MapOwners /\ from # to /\ g \in ReadRow
      /\ cityPoints \in [MapOwners -> Nat]
  BY DEF CommitTransfer, At, TransferTyped, Flying, FlightRight, TransferRow, MapOwners, TransferTypeOK
<1>2. LiveSaves' = LiveSaves
  <2>1. pointSave' = [p \in PointSaveIds |->
          WithNoteOf(IF p \in Moved(from, g) THEN MovedSave(p, to, g) ELSE pointSave[p], from, to)]
    BY DEF CommitTransfer
  <2>2. \A p \in PointSaveIds : pointSave'[p].live = pointSave[p].live
    BY <1>1, <2>1, SaveMoves
  <2> QED
    BY <2>2 DEF LiveSaves
<1>3. cityPoints' = [cityPoints EXCEPT ![to] = @ + cityPoints[from], ![from] = 0]
  BY DEF CommitTransfer, TransferPCP
<1> HIDE DEF from, to, g
<1>4. /\ cityPoints'[to] = cityPoints[to] + cityPoints[from] /\ cityPoints'[from] = 0
      /\ \A a \in MapOwners \ {to, from} : cityPoints'[a] = cityPoints[a]
      /\ cityPoints[to] \in Nat /\ cityPoints[from] \in Nat
  BY <1>1, <1>3
<1>5. Terms(cityPoints, MapOwners)
  BY CitiesSummed
<1>6. Sum(cityPoints', MapOwners) = Sum(cityPoints, MapOwners)
        + (cityPoints'[to] + cityPoints'[from]) - (cityPoints[to] + cityPoints[from])
  BY <1>1, <1>4, <1>5, SumWithTwo
<1>7. Sum(cityPoints, MapOwners) \in Int
  BY CitiesSummed
<1>8. Sum(cityPoints', MapOwners) = Sum(cityPoints, MapOwners)
  BY <1>4, <1>6, <1>7
<1> QED
  BY <1>2, <1>8 DEF RegionsSummed

--------------------------------------------------------------------------------
(* The ledger, when others create points, notes and sorts *)

(* The sorts of a map are the rows of its user. *)
LEMMA SortsOfUser ==
  ASSUME CitiesRight, NEW a
  PROVE  SortsOf(a) = { s \in PointSorts : pointSort[s].live /\ pointSort[s].user = a }
BY DEF CitiesRight, SortsOf

(* A set with one more element has one more element. *)
LEMMA OneMore ==
  ASSUME NEW S \in SUBSET PointSaveIds, NEW p, p \notin S
  PROVE  Cardinality(S \cup {p}) = Cardinality(S) + 1
BY MapSetsFinite, FS_AddElement

(* A new point is counted once for its user, its sort and its region. *)
LEMMA AddPointLedger ==
  ASSUME TransferTyped, Ledger, NEW u \in Members, NEW p \in PointSaveIds, NEW pl \in Spots,
         NEW s \in SortsOf(u) \cup {Null}, NEW own \in {"MY_CREATE", "ONLY_SAVE"},
         AddPoint(u, p, pl, s, own)
  PROVE  Ledger'
<1> DEFINE row == [live |-> TRUE, user |-> u, place |-> pl, sort |-> s, own |-> own, noteBy |-> Null]
<1>1. /\ pointSave' = [pointSave EXCEPT ![p] = row]
      /\ ~pointSave[p].live /\ Bystander
      /\ \A q \in MapSavesOf(u) : pointSave[q].place # pl
      /\ pointSave \in [PointSaveIds -> MapSaveRow]
      /\ own = "ONLY_SAVE" => s = Null
  BY DEF AddPoint, TransferTyped, TransferTypeOK
<1>2. /\ row.live /\ row.user = u /\ row.place = pl /\ row.sort = s /\ row.own = own
      /\ pointSave'[p] = row /\ \A q \in PointSaveIds \ {p} : pointSave'[q] = pointSave[q]
  BY <1>1
<1> HIDE DEF row
<1>3. /\ \A d \in PointSorts : d # s => pointSort'[d] = pointSort[d]
      /\ \A d \in PointSorts : /\ pointSort'[d].live = pointSort[d].live
                               /\ pointSort'[d].user = pointSort[d].user
                               /\ pointSort'[d].name = pointSort[d].name
                               /\ pointSort'[d].city = pointSort[d].city
      /\ s # Null => s \in PointSorts /\ pointSort'[s].points = pointSort[s].points + 1
  <2>1. pointSort' = PointsOf(s, 1) /\ pointSort \in [PointSorts -> SortRow]
    BY DEF AddPoint, TransferTyped, TransferTypeOK
  <2>2. CASE s = Null
    BY <2>1, <2>2, TransferConstants DEF PointsOf
  <2>3. CASE s # Null
    <3>1. s \in PointSorts /\ pointSort' = [pointSort EXCEPT ![s].points = @ + 1]
      BY <2>1, <2>3 DEF PointsOf, SortsOf
    <3>2. pointSort[s] \in SortRow /\ pointSort'[s] = [pointSort[s] EXCEPT !.points = @ + 1]
      BY <2>1, <3>1
    <3>3. /\ pointSort'[s].live = pointSort[s].live /\ pointSort'[s].user = pointSort[s].user
          /\ pointSort'[s].name = pointSort[s].name /\ pointSort'[s].city = pointSort[s].city
          /\ pointSort'[s].points = pointSort[s].points + 1
      BY <3>2 DEF SortRow
    <3> QED
      BY <2>1, <3>1, <3>3
  <2> QED
    BY <2>2, <2>3
<1>4. /\ SavesFiled /\ UsersCounted /\ SortsNumbered /\ PlacesOnce /\ NamesOnce /\ CitiesRight
  BY DEF Ledger
<1>5. s # Null => s \in PointSorts /\ pointSort[s].live /\ pointSort[s].user = u
  BY DEF SortsOf
<1>6. SavesFiled'
  <2> SUFFICES ASSUME NEW q \in PointSaveIds, pointSave'[q].live, pointSave'[q].sort # Null
               PROVE  /\ pointSort'[pointSave'[q].sort].live
                      /\ pointSort'[pointSave'[q].sort].user = pointSave'[q].user
    BY DEF SavesFiled
  <2>1. CASE q = p
    BY <1>2, <1>3, <1>5, <2>1
  <2>2. CASE q # p
    <3>1. pointSave'[q] = pointSave[q] /\ pointSave[q].sort \in PointSorts
      BY <1>1, <1>2, <2>2 DEF MapSaveRow
    <3> QED
      BY <1>3, <1>4, <3>1 DEF SavesFiled
  <2> QED
    BY <2>1, <2>2
<1>7. UsersCounted'
  <2> SUFFICES ASSUME NEW v \in Members
               PROVE  /\ createdPoints'[v] = Cardinality(Created(v)')
                      /\ defaultCss'[v] = Cardinality(Unsorted(v)')
    BY DEF UsersCounted
  <2>1. /\ createdPoints' = IF own = "MY_CREATE" THEN [createdPoints EXCEPT ![u] = @ + 1]
                            ELSE createdPoints
        /\ defaultCss' = IF s = Null THEN [defaultCss EXCEPT ![u] = @ + 1] ELSE defaultCss
        /\ createdPoints \in [Members -> Nat] /\ defaultCss \in [Members -> Nat]
    BY DEF AddPoint, TransferTyped, TransferTypeOK
  <2>2. createdPoints[v] = Cardinality(Created(v)) /\ defaultCss[v] = Cardinality(Unsorted(v))
    BY <1>4 DEF UsersCounted
  <2>3. /\ p \notin Created(v) /\ Created(v) \in SUBSET PointSaveIds
        /\ p \notin Unsorted(v) /\ Unsorted(v) \in SUBSET PointSaveIds
    BY <1>1 DEF Created, Unsorted, MapSavesOf
  <2>4. Created(v)' = IF v = u /\ own = "MY_CREATE" THEN Created(v) \cup {p} ELSE Created(v)
    BY <1>1, <1>2 DEF Created, MapSavesOf
  <2>5. Unsorted(v)' = IF v = u /\ s = Null THEN Unsorted(v) \cup {p} ELSE Unsorted(v)
    BY <1>1, <1>2 DEF Unsorted, MapSavesOf
  <2>6. createdPoints'[v] = Cardinality(Created(v)')
    <3>1. CASE v = u /\ own = "MY_CREATE"
      BY <2>1, <2>2, <2>3, <2>4, <3>1, OneMore
    <3>2. CASE ~(v = u /\ own = "MY_CREATE")
      BY <2>1, <2>2, <2>4, <3>2
    <3> QED
      BY <3>1, <3>2
  <2>7. defaultCss'[v] = Cardinality(Unsorted(v)')
    <3>1. CASE v = u /\ s = Null
      BY <2>1, <2>2, <2>3, <2>5, <3>1, OneMore
    <3>2. CASE ~(v = u /\ s = Null)
      BY <2>1, <2>2, <2>5, <3>2
    <3> QED
      BY <3>1, <3>2
  <2> QED
    BY <2>6, <2>7
<1>8. SortsNumbered'
  <2> SUFFICES ASSUME NEW d \in PointSorts, pointSort'[d].live
               PROVE  pointSort'[d].points = Cardinality(InSort(d)')
    BY DEF SortsNumbered
  <2>1. pointSort[d].points = Cardinality(InSort(d))
    BY <1>3, <1>4 DEF SortsNumbered
  <2>2. InSort(d)' = IF d = s THEN InSort(d) \cup {p} ELSE InSort(d)
    BY <1>1, <1>2 DEF InSort
  <2>3. p \notin InSort(d) /\ InSort(d) \in SUBSET PointSaveIds
    BY <1>1 DEF InSort
  <2>4. d = s => s # Null
    BY TransferConstants
  <2>5. CASE d = s
    BY <1>3, <2>1, <2>2, <2>3, <2>4, <2>5, OneMore
  <2>6. CASE d # s
    BY <1>3, <2>1, <2>2, <2>6
  <2> QED
    BY <2>5, <2>6
<1>9. PlacesOnce'
  BY <1>1, <1>2, <1>4 DEF PlacesOnce, MapSavesOf
<1>10. NamesOnce' /\ CitiesRight'
  BY <1>3, <1>4 DEF NamesOnce, CitiesRight, CityOf
<1>11. \A r \in Transfers : ReadsCurrent(transfer[r])'
  BY <1>1, BystanderTyped DEF ReadsCurrent
<1> QED
  BY <1>6, <1>7, <1>8, <1>9, <1>10, <1>11 DEF Ledger

(* A note on a created point changes no count. *)
LEMMA AddNoteLedger ==
  ASSUME TransferTyped, Ledger, NEW u \in Members, NEW p \in PointSaveIds, AddNote(u, p)
  PROVE  Ledger' /\ LiveSaves' = LiveSaves
<1>1. /\ pointSave' = [pointSave EXCEPT ![p].noteBy = u] /\ Bystander
      /\ UNCHANGED <<pointSort, createdPoints, defaultCss>>
      /\ pointSave \in [PointSaveIds -> MapSaveRow]
  BY DEF AddNote, TransferTyped, TransferTypeOK
<1>2. \A q \in PointSaveIds :
        /\ pointSave'[q].live = pointSave[q].live /\ pointSave'[q].user = pointSave[q].user
        /\ pointSave'[q].place = pointSave[q].place /\ pointSave'[q].sort = pointSave[q].sort
        /\ pointSave'[q].own = pointSave[q].own
  BY <1>1 DEF MapSaveRow
<1>3. /\ \A v : Created(v)' = Created(v) /\ Unsorted(v)' = Unsorted(v) /\ InSort(v)' = InSort(v)
      /\ LiveSaves' = LiveSaves
  BY <1>2 DEF Created, Unsorted, InSort, MapSavesOf, LiveSaves
<1>4. /\ SavesFiled /\ UsersCounted /\ SortsNumbered /\ PlacesOnce /\ NamesOnce /\ CitiesRight
  BY DEF Ledger
<1>5. SavesFiled' /\ PlacesOnce'
  BY <1>1, <1>2, <1>4 DEF SavesFiled, PlacesOnce
<1>6. UsersCounted' /\ SortsNumbered'
  BY <1>1, <1>3, <1>4 DEF UsersCounted, SortsNumbered
<1>7. NamesOnce' /\ CitiesRight'
  BY <1>1, <1>4 DEF NamesOnce, CitiesRight, CityOf
<1>8. \A r \in Transfers : ReadsCurrent(transfer[r])'
  BY <1>1, BystanderTyped DEF ReadsCurrent
<1> QED
  BY <1>3, <1>5, <1>6, <1>7, <1>8 DEF Ledger

(* A new sort is empty, and its name is new on the map. *)
LEMMA AddSortLedger ==
  ASSUME TransferTyped, Ledger, NEW u \in Members, NEW s \in PointSorts, NEW n \in Names,
         AddSort(u, s, n)
  PROVE  Ledger'
<1> DEFINE row == [live |-> TRUE, user |-> u, name |-> n, points |-> 0, city |-> ""]
<1>1. /\ pointSort' = [pointSort EXCEPT ![s] = row] /\ Bystander
      /\ UNCHANGED <<pointSave, createdPoints, defaultCss>>
      /\ pointSort[s] = BlankSort /\ \A d \in SortsOf(u) : pointSort[d].name # n
      /\ pointSort \in [PointSorts -> SortRow] /\ pointSave \in [PointSaveIds -> MapSaveRow]
  BY DEF AddSort, TransferTyped, TransferTypeOK
<1>b. ~BlankSort.live
  BY DEF BlankSort
<1>r. row.live /\ row.user = u /\ row.name = n /\ row.points = 0 /\ row.city = ""
  OBVIOUS
<1> HIDE DEF row
<1>2. /\ row.live /\ row.user = u /\ row.name = n /\ row.points = 0 /\ row.city = ""
      /\ ~pointSort[s].live
      /\ pointSort'[s] = row /\ \A d \in PointSorts \ {s} : pointSort'[d] = pointSort[d]
  BY <1>1, <1>b, <1>r
<1>3. /\ SavesFiled /\ UsersCounted /\ SortsNumbered /\ PlacesOnce /\ NamesOnce /\ CitiesRight
  BY DEF Ledger
<1>4. \A q \in PointSaveIds : pointSave[q].live => pointSave[q].sort # s
  <2> SUFFICES ASSUME NEW q \in PointSaveIds, pointSave[q].live, pointSave[q].sort = s
               PROVE  FALSE
    OBVIOUS
  <2>1. s # Null
    BY TransferConstants
  <2> QED
    BY <1>2, <1>3, <2>1 DEF SavesFiled
<1>5. SavesFiled'
  <2> SUFFICES ASSUME NEW q \in PointSaveIds, pointSave[q].live, pointSave[q].sort # Null
               PROVE  /\ pointSort'[pointSave[q].sort].live
                      /\ pointSort'[pointSave[q].sort].user = pointSave[q].user
    BY <1>1 DEF SavesFiled
  <2>1. pointSave[q].sort \in PointSorts \ {s}
    BY <1>1, <1>4 DEF MapSaveRow
  <2> QED
    BY <1>2, <1>3, <2>1 DEF SavesFiled
<1>6. \A v : Created(v)' = Created(v) /\ Unsorted(v)' = Unsorted(v) /\ InSort(v)' = InSort(v)
  BY <1>1 DEF Created, Unsorted, InSort, MapSavesOf
<1>7. UsersCounted'
  BY <1>1, <1>3, <1>6 DEF UsersCounted
<1>8. SortsNumbered'
  <2> SUFFICES ASSUME NEW d \in PointSorts, pointSort'[d].live
               PROVE  pointSort'[d].points = Cardinality(InSort(d))
    BY <1>6 DEF SortsNumbered
  <2>1. CASE d = s
    <3>1. InSort(s) = {}
      BY <1>4 DEF InSort
    <3> QED
      BY <1>2, <2>1, <3>1, FS_EmptySet
  <2>2. CASE d # s
    BY <1>2, <1>3, <2>2 DEF SortsNumbered
  <2> QED
    BY <2>1, <2>2
<1>9. PlacesOnce'
  BY <1>1, <1>3 DEF PlacesOnce
<1>10. u # PublicUser
  BY TransferConstants
<1>11. CitiesRight'
  BY <1>2, <1>3, <1>10 DEF CitiesRight, CityOf
<1>12. NamesOnce'
  <2>1. \A d \in PointSorts : pointSort[d].live /\ pointSort[d].user = u => pointSort[d].name # n
    BY <1>1, <1>3, SortsOfUser
  <2> QED
    BY <1>2, <1>3, <2>1 DEF NamesOnce
<1>13. \A r \in Transfers : ReadsCurrent(transfer[r])'
  BY <1>1, BystanderTyped DEF ReadsCurrent
<1> QED
  BY <1>5, <1>7, <1>8, <1>9, <1>11, <1>12, <1>13 DEF Ledger

--------------------------------------------------------------------------------
(* The ledger, while a transfer reads and waits *)

(* A step that leaves the maps alone keeps what is known of them. *)
LEMMA WaitsLedger ==
  ASSUME TransferTyped, Ledger, NEW r \in Transfers, Waits(r), ReadsCurrent(transfer'[r])
  PROVE  Ledger'
<1>1. /\ UNCHANGED <<pointSave, pointSort, createdPoints, defaultCss>>
      /\ \A x \in Transfers : x # r => transfer'[x] = transfer[x]
  BY DEF Waits, TransferTyped
<1>2. /\ SavesFiled /\ UsersCounted /\ SortsNumbered /\ PlacesOnce /\ NamesOnce /\ CitiesRight
      /\ \A x \in Transfers : ReadsCurrent(transfer[x])
  BY DEF Ledger
<1>3. \A x \in Transfers : ReadsCurrent(transfer'[x])
  BY <1>1, <1>2
<1>4. \A a : Created(a)' = Created(a) /\ Unsorted(a)' = Unsorted(a) /\ InSort(a)' = InSort(a)
             /\ MapSavesOf(a)' = MapSavesOf(a) /\ SortsOf(a)' = SortsOf(a)
  BY <1>1 DEF Created, Unsorted, InSort, MapSavesOf, SortsOf, CityOf
<1>5. SavesFiled' /\ PlacesOnce' /\ NamesOnce' /\ CitiesRight'
  BY <1>1, <1>2 DEF SavesFiled, PlacesOnce, NamesOnce, CitiesRight, CityOf
<1>6. UsersCounted' /\ SortsNumbered'
  BY <1>1, <1>2, <1>4 DEF UsersCounted, SortsNumbered
<1>7. ASSUME NEW x \in Transfers
      PROVE  ReadsCurrent(transfer[x])'
  <2>1. \A a : ReadSorts(a)' = ReadSorts(a)
    BY <1>1, <1>4 DEF ReadSorts
  <2>2. \A S : PlacesOf(S)' = PlacesOf(S)
    BY <1>1 DEF PlacesOf
  <2>3. ReadsCurrent(transfer'[x])
    BY <1>3
  <2> QED
    BY <1>1, <1>4, <2>1, <2>2, <2>3 DEF ReadsCurrent, OnlyCreated, NoSame, Current
<1> QED
  BY <1>5, <1>6, <1>7 DEF Ledger

(* A transfer that begins changes no map. *)
LEMMA BeginLedger ==
  ASSUME TransferTyped, Ledger, NEW r \in Transfers, NEW from \in Members, NEW to \in MapOwners,
         from # to, Begin(r, from, to)
  PROVE  Ledger'
<1>1. /\ Waits(r) /\ transfer'[r].at = "read"
      /\ transfer'[r].from = from /\ transfer'[r].to = to
  BY BeginWaits
<1>2. OnlyCreated(from) /\ NoSame(from, to)
  BY DEF Begin
<1>3. ReadsCurrent(transfer'[r])
  BY <1>1, <1>2 DEF ReadsCurrent
<1> QED
  BY <1>1, <1>3, WaitsLedger

(* Nor does one that reads, locks, fails or unlocks. *)
LEMMA ReadLedger ==
  ASSUME TransferTyped, Ledger, NEW r \in Transfers,
         ReadCounters(r) \/ Lock(r) \/ Abort(r) \/ Unlock(r)
  PROVE  Ledger' /\ Waits(r)
<1>1. ReadsCurrent(transfer[r])
  BY DEF Ledger
<1>2. Waits(r) /\ ReadsCurrent(transfer'[r])
  <2>1. CASE ReadCounters(r)
    BY <1>1, <2>1, ReadWaits DEF ReadsCurrent
  <2>2. CASE Lock(r) \/ Abort(r) \/ Unlock(r)
    BY <1>1, <2>2, LockWaits DEF ReadsCurrent
  <2> QED
    BY <2>1, <2>2
<1> QED
  BY <1>2, WaitsLedger

--------------------------------------------------------------------------------
(* The ledger, when a transfer writes: the rows *)

(* The sorts of the target that a sort of the provider is merged into *)
Heirs(s, to) == { d \in SortsOf(to) : pointSort[d].name = pointSort[s].name }

(* What becomes of a save, and of a sort, of the map that is given away, and *)
(* of those of others, if what the transfer has read is what there is        *)
SaveGiven(row, new, from, to) ==
  /\ new.live = row.live /\ new.place = row.place /\ new.own = row.own
  /\ row.live /\ row.user = from =>
       /\ new.user = to
       /\ row.sort = Null => new.sort = Null
       /\ row.sort # Null =>
            IF Heirs(row.sort, to) = {} THEN new.sort = row.sort
            ELSE new.sort \in Heirs(row.sort, to)
  /\ ~(row.live /\ row.user = from) => new.user = row.user /\ new.sort = row.sort

SortGiven(s, row, new, from, to) ==
  /\ new.name = row.name /\ (new.live => row.live)
  /\ row.live /\ row.user = from =>
       IF Heirs(s, to) = {}
       THEN new.live /\ new.user = to /\ new.city = CityOf(to) /\ new.points = row.points
       ELSE ~new.live
  /\ row.live /\ row.user # from =>
       /\ new.live /\ new.user = row.user /\ new.city = row.city
       /\ IF \E z \in SortsOf(from) : s \in Heirs(z, to)
          THEN \E z \in SortsOf(from) :
                 s \in Heirs(z, to) /\ new.points = pointSort[z].points + row.points
          ELSE new.points = row.points

MapGiven(from, to) ==
  /\ from \in Members /\ to \in MapOwners /\ from # to
  /\ \A p \in PointSaveIds : SaveGiven(pointSave[p], pointSave'[p], from, to)
  /\ \A s \in PointSorts : SortGiven(s, pointSort[s], pointSort'[s], from, to)

(* The pairs a transfer makes of sorts of one name are sorts and their heirs. *)
LEMMA TwinsAreHeirs ==
  ASSUME NEW g, NEW from, NEW to, g.src = ReadSorts(from), g.dst = ReadSorts(to)
  PROVE  /\ SortIdsOf(g.src) = SortsOf(from)
         /\ \A s : \A sd \in Twin(g, s) : s \in SortsOf(from) /\ sd[2].id \in Heirs(s, to)
         /\ \A s \in SortsOf(from) : \A d \in Heirs(s, to) : Twin(g, s) # {}
         /\ \A d : \A sd \in SameSorts(g) : sd[2].id = d =>
              /\ sd[1].id \in SortsOf(from) /\ d \in Heirs(sd[1].id, to)
              /\ sd[1].points = pointSort[sd[1].id].points /\ sd[2].points = pointSort[d].points
         /\ \A s \in SortsOf(from) : \A d \in Heirs(s, to) :
              \E sd \in SameSorts(g) : sd[2].id = d
<1> DEFINE R(s) == [id |-> s, name |-> pointSort[s].name, points |-> pointSort[s].points]
<1>1. g.src = { R(s) : s \in SortsOf(from) } /\ g.dst = { R(s) : s \in SortsOf(to) }
  BY DEF ReadSorts
<1>2. \A s : R(s).id = s /\ R(s).name = pointSort[s].name /\ R(s).points = pointSort[s].points
  OBVIOUS
<1> HIDE DEF R
<1>3. SortIdsOf(g.src) = SortsOf(from)
  BY <1>1, <1>2 DEF SortIdsOf
<1>4. ASSUME NEW sd \in SameSorts(g)
      PROVE  /\ sd[1].id \in SortsOf(from) /\ sd[2].id \in Heirs(sd[1].id, to)
             /\ sd[1].points = pointSort[sd[1].id].points
             /\ sd[2].points = pointSort[sd[2].id].points
  <2>1. PICK a \in g.src, b \in g.dst : sd = <<a, b>> /\ a.name = b.name
    BY DEF SameSorts
  <2>2. PICK s \in SortsOf(from), d \in SortsOf(to) : a = R(s) /\ b = R(d)
    BY <1>1
  <2>3. sd[1] = R(s) /\ sd[2] = R(d)
    BY <2>1, <2>2
  <2> QED
    BY <1>2, <2>1, <2>2, <2>3 DEF Heirs
<1>5. ASSUME NEW s \in SortsOf(from), NEW d \in Heirs(s, to)
      PROVE  \E sd \in SameSorts(g) : sd[1].id = s /\ sd[2].id = d
  <2>1. R(s) \in g.src /\ R(d) \in g.dst /\ R(s).name = R(d).name
    BY <1>1, <1>2 DEF Heirs
  <2>2. <<R(s), R(d)>> \in SameSorts(g)
    BY <2>1 DEF SameSorts
  <2> QED
    BY <1>2, <2>2
<1> QED
  BY <1>3, <1>4, <1>5 DEF Twin

(* A transfer on counters that are still current gives the map: what its *)
(* statements do, without their order.                                   *)
LEMMA CommitGives ==
  ASSUME TransferTyped, Ledger, NEW r \in Transfers, transfer[r].fresh, CommitTransfer(r)
  PROVE  /\ MapGiven(transfer[r].from, transfer[r].to)
         /\ Moved(transfer[r].from, transfer[r].got) = MapSavesOf(transfer[r].from)
         /\ Created(transfer[r].from) = MapSavesOf(transfer[r].from)
         /\ NoSame(transfer[r].from, transfer[r].to)
         /\ Current(transfer[r].got, transfer[r].from, transfer[r].to)
<1> DEFINE from == transfer[r].from
<1> DEFINE to == transfer[r].to
<1> DEFINE g == transfer[r].got
<1>1. /\ FlightRight(transfer[r]) /\ Flying(transfer[r]) /\ transfer[r].at = "commit"
      /\ from \in Members /\ to \in MapOwners /\ from # to /\ g \in ReadRow
  BY DEF CommitTransfer, At, TransferTyped, Flying, FlightRight, TransferRow
<1>2. OnlyCreated(from) /\ NoSame(from, to) /\ Current(g, from, to)
  BY <1>1 DEF Ledger, ReadsCurrent
<1>3. /\ pointSave' = [p \in PointSaveIds |->
           WithNoteOf(IF p \in Moved(from, g) THEN MovedSave(p, to, g) ELSE pointSave[p], from, to)]
      /\ pointSort' = [s \in PointSorts |-> MovedSort(s, from, to, g)]
  BY DEF CommitTransfer
<1>4. SavesFiled /\ CitiesRight /\ NamesOnce /\ TransferTypeOK
  BY DEF Ledger, TransferTyped
<1> HIDE DEF from, to, g
<1>5. g.src = ReadSorts(from) /\ g.dst = ReadSorts(to)
  BY <1>2 DEF Current
<1>6. Created(from) = MapSavesOf(from)
  BY <1>2 DEF OnlyCreated
<1>7. \A p \in MapSavesOf(from) : pointSave[p].sort \in SortsOf(from) \cup {Null}
  <2> SUFFICES ASSUME NEW p \in MapSavesOf(from), pointSave[p].sort # Null
               PROVE  pointSave[p].sort \in SortsOf(from)
    OBVIOUS
  <2>1. /\ p \in PointSaveIds /\ pointSave[p].live /\ pointSave[p].user = from
        /\ pointSave[p].sort \in PointSorts
    BY <1>4 DEF MapSavesOf, TransferTypeOK, MapSaveRow
  <2> QED
    BY <1>4, <2>1, SortsOfUser DEF SavesFiled
<1>8. Moved(from, g) = MapSavesOf(from)
  BY <1>5, <1>6, <1>7, TwinsAreHeirs DEF Moved
<1>9. ASSUME NEW p \in PointSaveIds
      PROVE  SaveGiven(pointSave[p], pointSave'[p], from, to)
  <2> DEFINE row == pointSave[p]
  <2> DEFINE new == pointSave'[p]
  <2>1. /\ new.live = row.live /\ new.place = row.place /\ new.own = row.own
        /\ p \notin Moved(from, g) => new.user = row.user /\ new.sort = row.sort
        /\ p \in Moved(from, g) =>
             /\ new.user = to
             /\ Twin(g, row.sort) = {} => new.sort = row.sort
             /\ Twin(g, row.sort) # {} => \E sd \in Twin(g, row.sort) : new.sort = sd[2].id
    <3>1. new = WithNoteOf(IF p \in Moved(from, g) THEN MovedSave(p, to, g) ELSE row, from, to)
      BY <1>3
    <3> HIDE DEF new
    <3> QED
      BY <1>1, <3>1, SaveMoves
  <2>2. p \in Moved(from, g) <=> row.live /\ row.user = from
    BY <1>8 DEF MapSavesOf
  <2>3. /\ \A sd \in Twin(g, row.sort) : row.sort \in SortsOf(from) /\ sd[2].id \in Heirs(row.sort, to)
        /\ row.sort \in SortsOf(from) => \A d \in Heirs(row.sort, to) : Twin(g, row.sort) # {}
    BY <1>5, TwinsAreHeirs
  <2>4. Null \notin SortsOf(from)
    BY TransferConstants DEF SortsOf
  <2>5. p \in Moved(from, g) => row.sort \in SortsOf(from) \cup {Null}
    BY <1>7, <1>8
  <2> HIDE DEF row, new
  <2>6. SaveGiven(row, new, from, to)
    BY <2>1, <2>2, <2>3, <2>4, <2>5 DEF SaveGiven
  <2> QED
    BY <2>6 DEF row, new
<1>10. ASSUME NEW s \in PointSorts
       PROVE  SortGiven(s, pointSort[s], pointSort'[s], from, to)
  <2> DEFINE row == pointSort[s]
  <2> DEFINE new == pointSort'[s]
  <2> DEFINE dst == { sd \in SameSorts(g) : sd[2].id = s }
  <2>1. /\ new.name = row.name
        /\ new.live => row.live
        /\ Twin(g, s) # {} => ~new.live
        /\ Twin(g, s) = {} /\ row.live =>
             /\ new.live
             /\ dst # {} => /\ new.user = row.user /\ new.city = row.city
                            /\ \E sd \in dst : new.points = sd[1].points + sd[2].points
             /\ dst = {} =>
                  /\ new.points = row.points
                  /\ IF s \in SortIdsOf(g.src) /\ row.user = from
                     THEN new.user = to /\ new.city = CityOf(to)
                     ELSE new.user = row.user /\ new.city = row.city
    BY <1>1, <1>3, SortMoves
  <2>2. /\ s \in SortsOf(from) <=> row.live /\ row.user = from
        /\ s \in SortsOf(to) <=> row.live /\ row.user = to
    BY <1>4, SortsOfUser
  <2>3. /\ SortIdsOf(g.src) = SortsOf(from)
        /\ \A sd \in Twin(g, s) : s \in SortsOf(from) /\ sd[2].id \in Heirs(s, to)
        /\ s \in SortsOf(from) => \A d \in Heirs(s, to) : Twin(g, s) # {}
        /\ \A sd \in dst : /\ sd[1].id \in SortsOf(from) /\ s \in Heirs(sd[1].id, to)
                           /\ sd[1].points = pointSort[sd[1].id].points /\ sd[2].points = row.points
        /\ \A z \in SortsOf(from) : s \in Heirs(z, to) => dst # {}
    BY <1>5, TwinsAreHeirs
  <2>4. \A z : s \in Heirs(z, to) => s \in SortsOf(to)
    BY DEF Heirs
  <2> HIDE DEF row, new, dst
  <2>5. row.live /\ row.user = from =>
          IF Heirs(s, to) = {}
          THEN new.live /\ new.user = to /\ new.city = CityOf(to) /\ new.points = row.points
          ELSE ~new.live
    BY <1>1, <2>1, <2>2, <2>3, <2>4
  <2>6. row.live /\ row.user # from =>
          /\ new.live /\ new.user = row.user /\ new.city = row.city
          /\ IF \E z \in SortsOf(from) : s \in Heirs(z, to)
             THEN \E z \in SortsOf(from) :
                    s \in Heirs(z, to) /\ new.points = pointSort[z].points + row.points
             ELSE new.points = row.points
    BY <2>1, <2>2, <2>3, <2>4
  <2>7. SortGiven(s, row, new, from, to)
    BY <2>1, <2>5, <2>6 DEF SortGiven
  <2> QED
    BY <2>7 DEF row, new
<1> QED
  BY <1>1, <1>2, <1>6, <1>8, <1>9, <1>10 DEF MapGiven, from, to, g

--------------------------------------------------------------------------------
(* The ledger, when a transfer writes: where the rows are, and how many *)

(* The rows of the provider, and of everybody else, after the transfer *)
LEMMA GivenSaves ==
  ASSUME TransferTyped, Ledger, NEW from, NEW to, MapGiven(from, to), NEW p \in PointSaveIds,
         pointSave[p].live
  PROVE  /\ pointSave'[p].live /\ pointSave'[p].place = pointSave[p].place
         /\ pointSave'[p].own = pointSave[p].own
         /\ pointSave'[p].user = IF pointSave[p].user = from THEN to ELSE pointSave[p].user
         /\ pointSave[p].sort = Null <=> pointSave'[p].sort = Null
         /\ pointSave[p].sort # Null =>
              LET s == pointSave[p].sort IN
              /\ s \in PointSorts /\ pointSort[s].live /\ pointSort[s].user = pointSave[p].user
              /\ IF pointSave[p].user = from /\ Heirs(s, to) # {} THEN pointSave'[p].sort \in Heirs(s, to)
                 ELSE pointSave'[p].sort = s
<1>1. SaveGiven(pointSave[p], pointSave'[p], from, to)
  BY DEF MapGiven
<1>2. /\ SavesFiled /\ pointSave[p] \in MapSaveRow
  BY DEF Ledger, TransferTyped, TransferTypeOK
<1>3. \A s : Null \notin Heirs(s, to)
  BY TransferConstants DEF Heirs, SortsOf
<1>4. pointSave[p].sort # Null =>
        /\ pointSave[p].sort \in PointSorts /\ pointSort[pointSave[p].sort].live
        /\ pointSort[pointSave[p].sort].user = pointSave[p].user
  BY <1>2 DEF SavesFiled, MapSaveRow
<1> QED
  BY <1>1, <1>3, <1>4 DEF SaveGiven

(* An heir is a sort of the target, stays one, and there is only one. *)
LEMMA HeirsStay ==
  ASSUME TransferTyped, Ledger, NEW from, NEW to, MapGiven(from, to), NEW s, NEW d \in Heirs(s, to)
  PROVE  /\ d \in PointSorts /\ pointSort[d].live /\ pointSort[d].user = to
         /\ pointSort[d].name = pointSort[s].name
         /\ pointSort'[d].live /\ pointSort'[d].user = to /\ pointSort'[d].city = pointSort[d].city
         /\ Heirs(s, to) = {d}
<1>1. CitiesRight /\ NamesOnce
  BY DEF Ledger
<1>2. \A x \in Heirs(s, to) : /\ x \in PointSorts /\ pointSort[x].live /\ pointSort[x].user = to
                              /\ pointSort[x].name = pointSort[s].name
  BY <1>1, SortsOfUser DEF Heirs
<1>3. Heirs(s, to) = {d}
  BY <1>1, <1>2 DEF NamesOnce
<1>4. SortGiven(d, pointSort[d], pointSort'[d], from, to) /\ from # to
  BY <1>2 DEF MapGiven
<1>5. pointSort'[d].live /\ pointSort'[d].user = to /\ pointSort'[d].city = pointSort[d].city
  BY <1>2, <1>4 DEF SortGiven
<1> QED
  BY <1>2, <1>3, <1>5

(* The saves of a map that was given are filed in sorts of the new owner, *)
(* each place once, and its sorts have different names.                   *)
LEMMA GivenRows ==
  ASSUME TransferTyped, Ledger, NEW from, NEW to, MapGiven(from, to), NoSame(from, to),
         Created(from) = MapSavesOf(from)
  PROVE  SavesFiled' /\ PlacesOnce' /\ NamesOnce' /\ CitiesRight'
<1>1. /\ SavesFiled /\ PlacesOnce /\ NamesOnce /\ CitiesRight
      /\ from # to
      /\ \A p \in PointSaveIds : pointSave'[p].live = pointSave[p].live
      /\ \A s \in PointSorts : SortGiven(s, pointSort[s], pointSort'[s], from, to)
  BY DEF Ledger, MapGiven, SaveGiven
<1>2. SavesFiled'
  <2> SUFFICES ASSUME NEW p \in PointSaveIds, pointSave'[p].live, pointSave'[p].sort # Null
               PROVE  /\ pointSort'[pointSave'[p].sort].live
                      /\ pointSort'[pointSave'[p].sort].user = pointSave'[p].user
    BY DEF SavesFiled
  <2> DEFINE s == pointSave[p].sort
  <2>1. /\ pointSave'[p].user = IF pointSave[p].user = from THEN to ELSE pointSave[p].user
        /\ s \in PointSorts /\ pointSort[s].live /\ pointSort[s].user = pointSave[p].user
        /\ IF pointSave[p].user = from /\ Heirs(s, to) # {} THEN pointSave'[p].sort \in Heirs(s, to)
           ELSE pointSave'[p].sort = s
    BY <1>1, GivenSaves
  <2> HIDE DEF s
  <2>2. CASE pointSave[p].user = from /\ Heirs(s, to) # {}
    BY <2>1, <2>2, HeirsStay
  <2>3. CASE pointSave[p].user = from /\ Heirs(s, to) = {}
    BY <1>1, <2>1, <2>3 DEF SortGiven
  <2>4. CASE pointSave[p].user # from
    BY <1>1, <2>1, <2>4 DEF SortGiven
  <2> QED
    BY <2>2, <2>3, <2>4
<1>3. PlacesOnce'
  <2> SUFFICES ASSUME NEW p \in PointSaveIds, NEW q \in PointSaveIds,
                      pointSave'[p].live, pointSave'[q].live,
                      pointSave'[p].user = pointSave'[q].user,
                      pointSave'[p].place = pointSave'[q].place
               PROVE  p = q
    BY DEF PlacesOnce
  <2>1. /\ pointSave[p].live /\ pointSave[q].live
        /\ pointSave[p].place = pointSave[q].place
        /\ pointSave'[p].user = IF pointSave[p].user = from THEN to ELSE pointSave[p].user
        /\ pointSave'[q].user = IF pointSave[q].user = from THEN to ELSE pointSave[q].user
    BY <1>1, GivenSaves
  <2>2. \A x, y \in PointSaveIds :
          pointSave[x].live /\ pointSave[x].user = from /\ pointSave[y].live /\ pointSave[y].user = to
            => pointSave[x].place # pointSave[y].place
    <3> SUFFICES ASSUME NEW x \in PointSaveIds, NEW y \in PointSaveIds,
                        pointSave[x].live, pointSave[x].user = from,
                        pointSave[y].live, pointSave[y].user = to
                 PROVE  pointSave[x].place # pointSave[y].place
      OBVIOUS
    <3>1. x \in Created(from) /\ y \in MapSavesOf(to)
      BY DEF MapSavesOf
    <3>2. pointSave[x].place \in PlacesOf(Created(from)) /\ pointSave[y].place \in PlacesOf(MapSavesOf(to))
      BY <3>1 DEF PlacesOf
    <3> QED
      BY <3>2 DEF NoSame
  <2>3. pointSave[p].user = pointSave[q].user
    BY <2>1, <2>2
  <2> QED
    BY <1>1, <2>1, <2>3 DEF PlacesOnce
<1>4. ASSUME NEW s \in PointSorts, pointSort'[s].live
      PROVE  /\ pointSort[s].live /\ pointSort'[s].name = pointSort[s].name
             /\ pointSort'[s].user = IF pointSort[s].user = from THEN to ELSE pointSort[s].user
             /\ pointSort[s].user = from => Heirs(s, to) = {} /\ pointSort'[s].city = CityOf(to)
             /\ pointSort[s].user # from => pointSort'[s].city = pointSort[s].city
  BY <1>1, <1>4 DEF SortGiven
<1>5. CitiesRight'
  <2>1. \A a : CityOf(a)' = CityOf(a)
    BY DEF CityOf
  <2>2. \A s \in PointSorts : pointSort'[s].live => pointSort'[s].city = CityOf(pointSort'[s].user)
    BY <1>1, <1>4 DEF CitiesRight
  <2> QED
    BY <2>2 DEF CitiesRight, CityOf
<1>6. NamesOnce'
  <2>1. \A s, t \in PointSorts :
          /\ pointSort[s].live /\ pointSort[s].user = from /\ Heirs(s, to) = {}
          /\ pointSort[t].live /\ pointSort[t].user = to
          => pointSort[s].name # pointSort[t].name
    BY <1>1, SortsOfUser DEF Heirs
  <2>2. \A s, t \in PointSorts :
          /\ pointSort'[s].live /\ pointSort'[t].live
          /\ pointSort'[s].user = pointSort'[t].user /\ pointSort'[s].name = pointSort'[t].name
          => s = t
    BY <1>1, <1>4, <2>1 DEF NamesOnce
  <2> QED
    BY <2>2 DEF NamesOnce
<1> QED
  BY <1>2, <1>3, <1>5, <1>6

(* Rows of two sets that have none in common *)
LEMMA Together ==
  ASSUME NEW S \in SUBSET PointSaveIds, NEW T \in SUBSET PointSaveIds, S \cap T = {}
  PROVE  Cardinality(S \cup T) = Cardinality(S) + Cardinality(T)
<1>1. IsFiniteSet(S) /\ IsFiniteSet(T) /\ Cardinality(S) \in Nat /\ Cardinality(T) \in Nat
  BY MapSetsFinite
<1>2. Cardinality(S \cup T) = Cardinality(S) + Cardinality(T) - Cardinality(S \cap T)
  BY <1>1, FS_Union
<1>3. Cardinality(S \cap T) = 0
  BY FS_EmptySet
<1> QED
  BY <1>1, <1>2, <1>3

(* The sorts of a map that was given have the points of both maps. *)
LEMMA GivenSorts ==
  ASSUME TransferTyped, Ledger, NEW from, NEW to, MapGiven(from, to)
  PROVE  SortsNumbered'
<1>1. /\ SavesFiled /\ SortsNumbered /\ CitiesRight /\ NamesOnce /\ from # to
      /\ \A p \in PointSaveIds : pointSave'[p].live = pointSave[p].live
  BY DEF Ledger, MapGiven, SaveGiven
<1> SUFFICES ASSUME NEW s \in PointSorts, pointSort'[s].live
             PROVE  pointSort'[s].points = Cardinality(InSort(s)')
  BY DEF SortsNumbered
<1>2. SortGiven(s, pointSort[s], pointSort'[s], from, to)
  BY DEF MapGiven
<1>3. pointSort[s].live
  BY <1>2 DEF SortGiven
<1>4. pointSort[s].points = Cardinality(InSort(s))
  BY <1>1, <1>3 DEF SortsNumbered
<1>5. InSort(s)' = { p \in PointSaveIds : pointSave[p].live /\ pointSave'[p].sort = s }
  BY <1>1 DEF InSort
<1>6. s # Null
  BY TransferConstants
<1>7. CASE \E z \in SortsOf(from) : s \in Heirs(z, to)
  <2>1. PICK y \in SortsOf(from) : s \in Heirs(y, to)
    BY <1>7
  <2>2. /\ y \in PointSorts /\ pointSort[y].live /\ pointSort[y].user = from
        /\ pointSort[s].user = to /\ pointSort[s].name = pointSort[y].name
    BY <1>1, <2>1, SortsOfUser, HeirsStay
  <2>3. PICK z \in SortsOf(from) :
          s \in Heirs(z, to) /\ pointSort'[s].points = pointSort[z].points + pointSort[s].points
    BY <1>1, <1>2, <1>3, <1>7, <2>2 DEF SortGiven
  <2>4. /\ z \in PointSorts /\ pointSort[z].live /\ pointSort[z].user = from
        /\ pointSort[s].name = pointSort[z].name /\ Heirs(z, to) = {s}
    BY <1>1, <2>3, SortsOfUser, HeirsStay
  <2>5. pointSort[z].points = Cardinality(InSort(z))
    BY <1>1, <2>4 DEF SortsNumbered
  <2>6. ASSUME NEW p \in PointSaveIds, pointSave[p].live
        PROVE  pointSave'[p].sort = s <=> pointSave[p].sort \in {s, z}
    <3>1. /\ pointSave[p].sort = Null <=> pointSave'[p].sort = Null
          /\ pointSave[p].sort # Null =>
               /\ pointSave[p].sort \in PointSorts /\ pointSort[pointSave[p].sort].live
               /\ pointSort[pointSave[p].sort].user = pointSave[p].user
               /\ IF pointSave[p].user = from /\ Heirs(pointSave[p].sort, to) # {}
                  THEN pointSave'[p].sort \in Heirs(pointSave[p].sort, to)
                  ELSE pointSave'[p].sort = pointSave[p].sort
      BY <2>6, GivenSaves
    <3>2. CASE pointSave[p].sort = Null
      BY <1>6, <2>4, <3>1, <3>2, TransferConstants
    <3>3. CASE pointSave[p].sort # Null /\ pointSave[p].user = from /\ Heirs(pointSave[p].sort, to) # {}
      <4> DEFINE t == pointSave[p].sort
      <4>1. pointSave'[p].sort \in Heirs(t, to) /\ t \in PointSorts /\ pointSort[t].live /\ pointSort[t].user = from
        BY <3>1, <3>3
      <4> HIDE DEF t
      <4>2. t # s
        BY <1>1, <2>2, <4>1
      <4>3. s \in Heirs(t, to) => pointSort[t].name = pointSort[s].name
        BY HeirsStay
      <4>4. s \in Heirs(t, to) => t = z
        BY <1>1, <2>4, <4>1, <4>3 DEF NamesOnce
      <4>5. t = z => pointSave'[p].sort = s
        BY <2>4, <4>1
      <4>6. pointSave'[p].sort = s <=> t = z
        BY <4>1, <4>4, <4>5
      <4> QED
        BY <4>2, <4>6 DEF t
    <3>4. CASE pointSave[p].sort # Null /\ ~(pointSave[p].user = from /\ Heirs(pointSave[p].sort, to) # {})
      <4>1. pointSave'[p].sort = pointSave[p].sort
        BY <3>1, <3>4
      <4>2. pointSave[p].sort # z
        BY <2>4, <3>1, <3>4
      <4> QED
        BY <4>1, <4>2
    <3> QED
      BY <3>2, <3>3, <3>4
  <2>7. InSort(s)' = InSort(s) \cup InSort(z) /\ InSort(s) \cap InSort(z) = {}
    <3>1. s # z
      BY <1>1, <2>2, <2>4
    <3> QED
      BY <1>5, <2>6, <3>1 DEF InSort
  <2>8. Cardinality(InSort(s)') = Cardinality(InSort(s)) + Cardinality(InSort(z))
    BY <2>7, MapSetsFinite, Together
  <2>9. Cardinality(InSort(s)) \in Nat /\ Cardinality(InSort(z)) \in Nat
    BY MapSetsFinite
  <2> QED
    BY <1>4, <2>3, <2>5, <2>8, <2>9
<1>8. CASE ~ \E z \in SortsOf(from) : s \in Heirs(z, to)
  <2>1. pointSort'[s].points = pointSort[s].points
    BY <1>2, <1>3, <1>8 DEF SortGiven
  <2>2. pointSort[s].user = from => Heirs(s, to) = {}
    BY <1>2, <1>3 DEF SortGiven
  <2>3. ASSUME NEW p \in PointSaveIds, pointSave[p].live
        PROVE  pointSave'[p].sort = s <=> pointSave[p].sort = s
    <3>1. /\ pointSave[p].sort = Null <=> pointSave'[p].sort = Null
          /\ pointSave[p].sort # Null =>
               /\ pointSave[p].sort \in PointSorts /\ pointSort[pointSave[p].sort].live
               /\ pointSort[pointSave[p].sort].user = pointSave[p].user
               /\ IF pointSave[p].user = from /\ Heirs(pointSave[p].sort, to) # {}
                  THEN pointSave'[p].sort \in Heirs(pointSave[p].sort, to)
                  ELSE pointSave'[p].sort = pointSave[p].sort
      BY <2>3, GivenSaves
    <3>2. pointSave[p].sort # Null /\ pointSave[p].user = from => pointSave[p].sort \in SortsOf(from)
      BY <1>1, <3>1, SortsOfUser
    <3> QED
      BY <1>6, <1>8, <2>2, <3>1, <3>2
  <2>4. InSort(s)' = InSort(s)
    BY <1>5, <2>3 DEF InSort
  <2> QED
    BY <1>4, <2>1, <2>4
<1> QED
  BY <1>7, <1>8

(* The counters of both users are those of the maps they have now. *)
LEMMA GivenUsers ==
  ASSUME TransferTyped, Ledger, NEW r \in Transfers, transfer[r].fresh, CommitTransfer(r)
  PROVE  UsersCounted'
<1> DEFINE from == transfer[r].from
<1> DEFINE to == transfer[r].to
<1> DEFINE g == transfer[r].got
<1>1. /\ MapGiven(from, to) /\ Current(g, from, to)
      /\ Moved(from, g) = MapSavesOf(from) /\ Created(from) = MapSavesOf(from)
  BY CommitGives
<1>2. /\ createdPoints' = [u \in Members |->
           IF u = to THEN g.toCreate + Cardinality(Moved(from, g))
           ELSE IF u = from THEN g.fromCreate - Cardinality(Moved(from, g)) ELSE createdPoints[u]]
      /\ defaultCss' = [u \in Members |->
           IF u = to THEN g.toDefault + Cardinality({ p \in Moved(from, g) : pointSave[p].sort = Null })
           ELSE IF u = from
                THEN g.fromDefault - Cardinality({ p \in Moved(from, g) : pointSave[p].sort = Null })
           ELSE defaultCss[u]]
  BY DEF CommitTransfer
<1> HIDE DEF from, to, g
<1>3. /\ UsersCounted /\ PublicUser \notin Members /\ from \in Members /\ from # to
      /\ \A p \in PointSaveIds : pointSave'[p].live = pointSave[p].live
  BY <1>1, TransferConstants DEF Ledger, MapGiven, SaveGiven
<1>4. { p \in Moved(from, g) : pointSave[p].sort = Null } = Unsorted(from)
  BY <1>1 DEF Unsorted
<1>5. \A p \in PointSaveIds : pointSave[p].live =>
        /\ pointSave'[p].own = pointSave[p].own
        /\ pointSave'[p].user = IF pointSave[p].user = from THEN to ELSE pointSave[p].user
        /\ pointSave[p].sort = Null <=> pointSave'[p].sort = Null
  BY <1>1, GivenSaves
<1>6. \A p \in MapSavesOf(from) : pointSave[p].own = "MY_CREATE"
  BY <1>1 DEF Created
<1> SUFFICES ASSUME NEW u \in Members
             PROVE  /\ createdPoints'[u] = Cardinality(Created(u)')
                    /\ defaultCss'[u] = Cardinality(Unsorted(u)')
  BY DEF UsersCounted
<1>7. /\ createdPoints[u] = Cardinality(Created(u)) /\ defaultCss[u] = Cardinality(Unsorted(u))
      /\ g.fromCreate = Cardinality(Created(from)) /\ g.fromDefault = Cardinality(Unsorted(from))
      /\ u = to => g.toCreate = Cardinality(Created(u)) /\ g.toDefault = Cardinality(Unsorted(u))
  BY <1>1, <1>3 DEF Current, UsersCounted
<1>8. /\ createdPoints'[u] = IF u = to THEN g.toCreate + Cardinality(Created(from))
                             ELSE IF u = from THEN g.fromCreate - Cardinality(Created(from))
                             ELSE createdPoints[u]
      /\ defaultCss'[u] = IF u = to THEN g.toDefault + Cardinality(Unsorted(from))
                          ELSE IF u = from THEN g.fromDefault - Cardinality(Unsorted(from))
                          ELSE defaultCss[u]
  BY <1>1, <1>2, <1>4
<1>9. /\ Created(u)' = { p \in PointSaveIds : /\ pointSave'[p].live /\ pointSave'[p].user = u
                                              /\ pointSave'[p].own = "MY_CREATE" }
      /\ Unsorted(u)' = { p \in PointSaveIds : /\ pointSave'[p].live /\ pointSave'[p].user = u
                                               /\ pointSave'[p].sort = Null }
  BY DEF Created, Unsorted, MapSavesOf
<1>10. CASE u = to
  <2>1. Created(u)' = Created(u) \cup Created(from) /\ Unsorted(u)' = Unsorted(u) \cup Unsorted(from)
    BY <1>3, <1>5, <1>6, <1>9, <1>10 DEF Created, Unsorted, MapSavesOf
  <2>2. Created(u) \cap Created(from) = {} /\ Unsorted(u) \cap Unsorted(from) = {}
    BY <1>3, <1>10 DEF Created, Unsorted, MapSavesOf
  <2>3. /\ Cardinality(Created(u)') = Cardinality(Created(u)) + Cardinality(Created(from))
        /\ Cardinality(Unsorted(u)') = Cardinality(Unsorted(u)) + Cardinality(Unsorted(from))
    BY <2>1, <2>2, Together, MapSetsFinite
  <2> QED
    BY <1>7, <1>8, <1>10, <2>3
<1>11. CASE u = from
  <2>1. Created(u)' = {} /\ Unsorted(u)' = {}
    BY <1>3, <1>5, <1>9, <1>11 DEF Created, Unsorted, MapSavesOf
  <2>2. Cardinality(Created(from)) \in Nat /\ Cardinality(Unsorted(from)) \in Nat
    BY MapSetsFinite
  <2> QED
    BY <1>3, <1>7, <1>8, <1>11, <2>1, <2>2, FS_EmptySet
<1>12. CASE u # from /\ u # to
  <2>1. Created(u)' = Created(u) /\ Unsorted(u)' = Unsorted(u)
    BY <1>3, <1>5, <1>9, <1>12 DEF Created, Unsorted, MapSavesOf
  <2> QED
    BY <1>7, <1>8, <1>12, <2>1
<1> QED
  BY <1>10, <1>11, <1>12

(* A transfer that nothing has disturbed keeps what is counted. *)
LEMMA CommitLedger ==
  ASSUME TransferTyped, Ledger, NEW r \in Transfers, CommitTransfer(r), ~disturbed'
  PROVE  Ledger'
<1>1. transfer[r].fresh
  BY DEF CommitTransfer
<1>2. /\ MapGiven(transfer[r].from, transfer[r].to) /\ NoSame(transfer[r].from, transfer[r].to)
      /\ Created(transfer[r].from) = MapSavesOf(transfer[r].from)
  BY <1>1, CommitGives
<1>3. SavesFiled' /\ PlacesOnce' /\ NamesOnce' /\ CitiesRight'
  BY <1>2, GivenRows
<1>4. SortsNumbered'
  BY <1>2, GivenSorts
<1>5. UsersCounted'
  BY <1>1, GivenUsers
<1>6. \A x \in Transfers : ReadsCurrent(transfer[x])'
  BY CommitTyped DEF ReadsCurrent
<1> QED
  BY <1>3, <1>4, <1>5, <1>6 DEF Ledger

--------------------------------------------------------------------------------
(* Every step *)

(* The other requests preserve the invariant. *)
LEMMA OthersKeep ==
  ASSUME TransferInv, NEW u \in Members, OtherRequest(u), ~disturbed
  PROVE  TransferInv'
<1>1. TransferTyped /\ RegionsSummed /\ Ledger
  BY DEF TransferInv
<1>2. CASE \E p \in PointSaveIds, pl \in Spots, s \in SortsOf(u) \cup {Null} :
             \E own \in {"MY_CREATE", "ONLY_SAVE"} : AddPoint(u, p, pl, s, own)
  <2>1. PICK p \in PointSaveIds, pl \in Spots, s \in SortsOf(u) \cup {Null},
             own \in {"MY_CREATE", "ONLY_SAVE"} : AddPoint(u, p, pl, s, own)
    BY <1>2
  <2> QED
    BY <1>1, <2>1, AddPointTyped, AddPointRegions, AddPointLedger DEF TransferInv
<1>3. CASE \E p \in PointSaveIds : AddNote(u, p)
  <2>1. PICK p \in PointSaveIds : AddNote(u, p)
    BY <1>3
  <2>2. UNCHANGED cityPoints
    BY <2>1 DEF AddNote
  <2> QED
    BY <1>1, <2>1, <2>2, AddNoteTyped, AddNoteLedger, RegionsStay DEF TransferInv
<1>4. CASE \E s \in PointSorts, n \in Names : AddSort(u, s, n)
  <2>1. PICK s \in PointSorts, n \in Names : AddSort(u, s, n)
    BY <1>4
  <2>2. UNCHANGED cityPoints /\ LiveSaves' = LiveSaves
    BY <2>1 DEF AddSort, LiveSaves
  <2> QED
    BY <1>1, <2>1, <2>2, AddSortTyped, AddSortLedger, RegionsStay DEF TransferInv
<1> QED
  BY <1>2, <1>3, <1>4 DEF OtherRequest

(* A step of one transfer that leaves the maps alone *)
LEMMA WaitsKeep ==
  ASSUME TransferInv, NEW r \in Transfers, Waits(r), Ledger => Ledger'
  PROVE  TransferInv'
<1>1. UNCHANGED <<cityPoints, disturbed>> /\ LiveSaves' = LiveSaves
  BY DEF Waits, LiveSaves
<1> QED
  BY <1>1, WaitsTyped, RegionsStay DEF TransferInv

(* So does every step of a transfer. *)
LEMMA TransferKeeps ==
  ASSUME TransferInv, NEW r \in Transfers, TransferStep(r)
  PROVE  TransferInv'
<1>1. TransferTyped /\ RegionsSummed /\ (~disturbed => Ledger)
  BY DEF TransferInv
<1>2. CASE \E from \in Members :
             CheckPublicTransfer(r, from) \/ \E to \in Members : CheckTransfer(r, from, to)
  <2>1. PICK from \in Members, to \in MapOwners : from # to /\ Begin(r, from, to)
    BY <1>2, TransferConstants DEF CheckPublicTransfer, CheckTransfer, MapOwners
  <2> QED
    BY <1>1, <2>1, BeginWaits, BeginLedger, WaitsKeep
<1>3. CASE ReadCounters(r) \/ Lock(r) \/ Abort(r) \/ Unlock(r)
  <2>1. Waits(r)
    BY <1>1, <1>3, ReadWaits, LockWaits
  <2> QED
    BY <1>1, <1>3, <2>1, ReadLedger, WaitsKeep
<1>4. CASE CommitTransfer(r)
  <2>1. ~disturbed' => ~disturbed
    BY <1>4 DEF CommitTransfer
  <2> QED
    BY <1>1, <1>4, <2>1, CommitTyped, CommitRegions, CommitLedger DEF TransferInv
<1> QED
  BY <1>2, <1>3, <1>4 DEF TransferStep

(* The lock expires, or nothing happens. *)
LEMMA NothingMoves ==
  ASSUME TransferInv,
         UNCHANGED <<maps, publicCitys, providers, transfer, disturbed>>, locked' \in BOOLEAN
  PROVE  TransferInv'
<1>1. /\ UNCHANGED <<pointSave, pointSort, createdPoints, defaultCss, noteLikes, cityPoints,
                     publicCitys, providers, transfer, disturbed>>
  BY DEF maps
<1>2. TransferTyped' /\ RegionsSummed'
  BY <1>1 DEF TransferInv, TransferTyped, TransferTypeOK, RegionsSummed, LiveSaves
<1>3. Ledger <=> Ledger'
  BY <1>1 DEF Ledger, SavesFiled, UsersCounted, SortsNumbered, PlacesOnce, NamesOnce, CitiesRight,
     Created, Unsorted, InSort, MapSavesOf, CityOf, ReadsCurrent, OnlyCreated, NoSame, PlacesOf,
     Current, ReadSorts, SortsOf
<1> QED
  BY <1>1, <1>2, <1>3 DEF TransferInv

(* Every step preserves the invariant. *)
LEMMA NextKeeps ==
  ASSUME TransferInv, [TransferNext]_transferVars
  PROVE  TransferInv'
<1>1. CASE ~disturbed /\ \E u \in Members : OtherRequest(u)
  BY <1>1, OthersKeep
<1>2. CASE LockExpires
  BY <1>2, NothingMoves DEF LockExpires
<1>3. CASE \E r \in Transfers : TransferStep(r)
  BY <1>3, TransferKeeps
<1>4. CASE UNCHANGED transferVars
  BY <1>4, NothingMoves DEF transferVars, maps, TransferInv, TransferTyped, TransferTypeOK
<1> QED
  BY <1>1, <1>2, <1>3, <1>4 DEF TransferNext

(* The maps are empty at the start. *)
LEMMA InitKeeps == TransferInit => TransferInv
<1> SUFFICES ASSUME TransferInit
             PROVE  TransferInv
  OBVIOUS
<1>1. /\ \A p \in PointSaveIds : pointSave[p] = BlankMapSave
      /\ \A s \in PointSorts : pointSort[s] = BlankSort
      /\ \A r \in Transfers : transfer[r] = NoTransfer
  BY DEF TransferInit
<1>2. BlankMapSave \in MapSaveRow /\ ~BlankMapSave.live /\ BlankSort \in SortRow /\ ~BlankSort.live
  BY DEF BlankMapSave, BlankSort, MapSaveRow, SortRow, MapOwners
<1>3. TransferTyped
  BY <1>1, <1>2, TransfersTyped, TransferConstants DEF TransferInit, TransferTyped, TransferTypeOK
<1>4. LiveSaves = {} /\ \A a : Created(a) = {} /\ Unsorted(a) = {}
  BY <1>1, <1>2 DEF LiveSaves, Created, Unsorted, MapSavesOf
<1>5. RegionsSummed
  <2>1. Sum(cityPoints, MapOwners) = 0
    BY SumOfZeros, TransferConstants DEF TransferInit
  <2> QED
    BY <1>4, <2>1, FS_EmptySet DEF RegionsSummed
<1>6. UsersCounted
  BY <1>4, FS_EmptySet DEF UsersCounted, TransferInit
<1>7. SavesFiled /\ SortsNumbered /\ PlacesOnce /\ NamesOnce /\ CitiesRight
  BY <1>1, <1>2 DEF SavesFiled, SortsNumbered, PlacesOnce, NamesOnce, CitiesRight
<1>8. \A r \in Transfers : ReadsCurrent(transfer[r])
  BY <1>1, TransfersTyped DEF ReadsCurrent
<1> QED
  BY <1>3, <1>5, <1>6, <1>7, <1>8 DEF TransferInv, Ledger

(* The invariant of the transfers holds in every state. *)
LEMMA TransferInvariant == TransferSpec => []TransferInv
<1>1. TransferInit => TransferInv
  BY InitKeeps
<1>2. TransferInv /\ [TransferNext]_transferVars => TransferInv'
  BY NextKeeps
<1> QED
  BY <1>1, <1>2, PTL DEF TransferSpec

(* The columns keep their types: no counter falls below zero (TransferTypeOK). *)
THEOREM TransfersKeepTypes == TransferSpec => []TransferTypeOK
<1>1. TransferInv => TransferTypeOK
  BY DEF TransferInv, TransferTyped
<1> QED
  BY <1>1, TransferInvariant, PTL

(* userTranfer: as long as no transfer has written what it computed from rows *)
(* that changed after it read them, the counters of users and sorts are the   *)
(* numbers of the rows, and no save is filed in a sort that is gone.          *)
THEOREM TransfersKeepCounts == TransferSpec => []MapsCounted
<1>1. TransferInv => MapsCounted
  BY DEF TransferInv, Ledger, MapsCounted, UsersCounted, SortsNumbered, Unsorted, InSort
<1> QED
  BY <1>1, TransferInvariant, PTL

(* checkoutTransferPointSame is enough: nobody, nor the public map, comes to  *)
(* have a place twice.                                                        *)
THEOREM TransfersKeepPlacesOnce == TransferSpec => []NoPlaceTwice
<1>1. TransferInv => NoPlaceTwice
  BY DEF TransferInv, Ledger, NoPlaceTwice, PlacesOnce
<1> QED
  BY <1>1, TransferInvariant, PTL

(* transferPCP moves the counts of regions by increments: whatever transfers  *)
(* overlap, also where they have spoiled the other counters, the counts of    *)
(* all maps add up to the saves there are.                                    *)
THEOREM TransfersKeepRegions == TransferSpec => []RegionsKept
<1>1. TransferInv => RegionsKept
  BY DEF TransferInv, RegionsSummed, RegionsKept, Sum, LiveSaves
<1> QED
  BY <1>1, TransferInvariant, PTL

--------------------------------------------------------------------------------
(* The refinement of FoodMaps: the names of the sorts that saves are filed in *)
(* and that transfers have read                                              *)
FiledNamed == \A p \in PointSaveIds : pointSave[p].sort # Null => pointSort[pointSave[p].sort].name # Null
NamesRead(g) == \A x \in g.src \cup g.dst : pointSort[x.id].name = x.name
NamesRight == FiledNamed /\ \A r \in Transfers : NamesRead(transfer[r].got)

LiveSorts == { s \in PointSorts : pointSort[s].live }

(* A sort that has a name keeps it. *)
NamesStay == \A s \in PointSorts : pointSort[s].name # Null => pointSort'[s].name = pointSort[s].name

(* A save is filed as it was, or in another sort of that name. *)
Refiled(p) ==
  \/ pointSave'[p].sort = pointSave[p].sort
  \/ /\ pointSave[p].sort \in PointSorts /\ pointSave'[p].sort \in PointSorts
     /\ pointSort[pointSave'[p].sort].name = pointSort[pointSave[p].sort].name

(* What r has read stays, is forgotten, or is what there is. *)
Rereads(r) ==
  \/ transfer'[r].got = transfer[r].got
  \/ transfer'[r].got = Blank
  \/ \E from, to \in MapOwners : transfer'[r].got.src = ReadSorts(from) /\ transfer'[r].got.dst = ReadSorts(to)

(* Nothing that has been read, or is filed, is renamed. *)
LEMMA NamesKeep ==
  ASSUME TransferTyped, NamesRight, NamesStay,
         \A p \in PointSaveIds : Refiled(p) \/ pointSave'[p].sort \in LiveSorts \cup {Null},
         \A r \in Transfers : Rereads(r)
  PROVE  NamesRight'
<1>1. \A s \in PointSorts : pointSort[s].live => pointSort[s].name # Null
  BY TransferConstants DEF TransferTyped
<1>2. ASSUME NEW p \in PointSaveIds, pointSave'[p].sort # Null
      PROVE  pointSort'[pointSave'[p].sort].name # Null
  <2>1. pointSave[p].sort \in PointSorts \cup {Null}
    BY DEF TransferTyped, TransferTypeOK, MapSaveRow
  <2>2. pointSave[p].sort # Null => pointSort[pointSave[p].sort].name # Null
    BY DEF NamesRight, FiledNamed
  <2>3. pointSave'[p].sort \in PointSorts /\ pointSort[pointSave'[p].sort].name # Null
    BY <1>1, <1>2, <2>1, <2>2, TransferConstants DEF Refiled, LiveSorts
  <2> QED
    BY <2>3 DEF NamesStay
<1>3. ASSUME NEW r \in Transfers, NEW x \in transfer'[r].got.src \cup transfer'[r].got.dst
      PROVE  pointSort'[x.id].name = x.name
  <2>1. x.id \in PointSorts /\ pointSort[x.id].name = x.name /\ x.name # Null
    <3>1. CASE transfer'[r].got = transfer[r].got
      <4>1. transfer[r].got \in ReadRow /\ NamesRead(transfer[r].got)
        BY DEF TransferTyped, FlightRight, TransferRow, NamesRight
      <4>2. x \in SortRead /\ pointSort[x.id].name = x.name
        BY <1>3, <3>1, <4>1 DEF ReadRow, NamesRead
      <4> QED
        BY <4>2, TransferConstants DEF SortRead
    <3>2. CASE transfer'[r].got = Blank
      BY <1>3, <3>2 DEF Blank
    <3>3. CASE \E from, to \in MapOwners :
                 transfer'[r].got.src = ReadSorts(from) /\ transfer'[r].got.dst = ReadSorts(to)
      <4>1. PICK a \in MapOwners : x \in ReadSorts(a)
        BY <1>3, <3>3
      <4>2. PICK s \in SortsOf(a) :
              x = [id |-> s, name |-> pointSort[s].name, points |-> pointSort[s].points]
        BY <4>1 DEF ReadSorts
      <4>3. s \in PointSorts /\ pointSort[s].name # Null
        BY <1>1 DEF SortsOf
      <4> QED
        BY <4>2, <4>3
    <3> QED
      BY <3>1, <3>2, <3>3 DEF Rereads
  <2> QED
    BY <2>1 DEF NamesStay
<1> QED
  BY <1>2, <1>3 DEF NamesRight, FiledNamed, NamesRead

(* Other requests leave what transfers have read. *)
LEMMA BystanderRereads ==
  ASSUME TransferTyped, Bystander
  PROVE  \A r \in Transfers : Rereads(r)
<1> SUFFICES ASSUME NEW r \in Transfers
             PROVE  transfer'[r].got = transfer[r].got
  BY DEF Rereads
<1>1. transfer[r] \in TransferRow
  BY DEF TransferTyped, FlightRight
<1>2. transfer'[r] = transfer[r] \/ transfer'[r] = [transfer[r] EXCEPT !.fresh = FALSE]
  BY DEF Bystander, Outdate
<1> QED
  BY <1>1, <1>2 DEF TransferRow

(* So do other transfers, and a transfer that writes forgets it. *)
LEMMA CommitRereads ==
  ASSUME TransferTyped, NEW r \in Transfers, CommitTransfer(r)
  PROVE  \A x \in Transfers : Rereads(x)
<1> SUFFICES ASSUME NEW x \in Transfers
             PROVE  transfer'[x].got = transfer[x].got \/ transfer'[x].got = Blank
  BY DEF Rereads
<1>1. transfer[x] \in TransferRow
  BY DEF TransferTyped, FlightRight
<1>2. \/ transfer'[x] = transfer[x] \/ transfer'[x] = Unlocking
      \/ transfer'[x] = [transfer[x] EXCEPT !.fresh = FALSE]
  BY DEF CommitTransfer
<1>3. Unlocking.got = Blank
  BY DEF Unlocking, NoTransfer
<1> QED
  BY <1>1, <1>2, <1>3 DEF TransferRow

(* A transfer that waits forgets what it has read, or has just read it. *)
LEMMA WaitsRereads ==
  ASSUME TransferTyped, NEW r \in Transfers,
         \/ \E from \in Members, to \in MapOwners : from # to /\ Begin(r, from, to)
         \/ ReadCounters(r) \/ Lock(r) \/ Abort(r) \/ Unlock(r)
  PROVE  Waits(r) /\ \A x \in Transfers : Rereads(x)
<1>1. NoTransfer.got = Blank /\ Unlocking.got = Blank /\ TransferDone.got = Blank
  BY DEF Unlocking, NoTransfer, TransferDone
<1>2. transfer[r] \in TransferRow /\ DOMAIN transfer = Transfers
  BY DEF TransferTyped, FlightRight
<1>3. Waits(r) /\ Rereads(r)
  <2>1. ASSUME NEW from \in Members, NEW to \in MapOwners, from # to, Begin(r, from, to)
        PROVE  Waits(r) /\ Rereads(r)
    <3>1. transfer'[r] = [NoTransfer EXCEPT !.at = "read", !.from = from, !.to = to]
      BY <1>2, <2>1 DEF Begin
    <3>2. transfer'[r].got = Blank
      BY <1>1, <3>1 DEF NoTransfer
    <3> QED
      BY <2>1, <3>2, BeginWaits DEF Rereads
  <2>2. CASE ReadCounters(r)
    <3>1. Waits(r) /\ Flying(transfer[r]) /\ Current(transfer'[r].got, transfer[r].from, transfer[r].to)
      BY <2>2, ReadWaits
    <3>2. transfer[r].from \in MapOwners /\ transfer[r].to \in MapOwners
      BY <3>1 DEF TransferTyped, FlightRight, MapOwners
    <3> QED
      BY <3>1, <3>2 DEF Rereads, Current
  <2>3. CASE Lock(r)
    <3>1. transfer'[r] = IF locked THEN Unlocking ELSE [transfer[r] EXCEPT !.at = "commit"]
      BY <1>2, <2>3 DEF Lock
    <3>2. transfer'[r].got = transfer[r].got \/ transfer'[r].got = Blank
      BY <1>1, <1>2, <3>1 DEF TransferRow
    <3> QED
      BY <2>3, <3>2, LockWaits DEF Rereads
  <2>4. CASE Abort(r) \/ Unlock(r)
    <3>1. transfer'[r] \in {Unlocking, NoTransfer, TransferDone}
      BY <1>2, <2>4 DEF Abort, Unlock, Ended
    <3> QED
      BY <1>1, <2>4, <3>1, LockWaits DEF Rereads
  <2> QED
    BY <2>1, <2>2, <2>3, <2>4
<1>4. \A x \in Transfers : x # r => transfer'[x] = transfer[x]
  BY <1>2, <1>3 DEF Waits
<1> QED
  BY <1>3, <1>4 DEF Rereads

(* Whose maps they are on, and the names of their sorts, as functions *)
Holders == [p \in PointSaveIds |-> HolderOf(p)]
Labels  == [p \in PointSaveIds |-> LabelOf(p)]
MapLabels == [a \in MapOwners |-> LabelsOf(a)]

(* The maps of the abstract specification are those of the rows. *)
LEMMA HeldOnMap ==
  ASSUME NEW a \in MapOwners
  PROVE  Whole!Held(a) = MapSavesOf(a) /\ Whole!PlacesHeld(a) = PlacesOf(MapSavesOf(a))
<1>1. a # Null
  BY TransferConstants
<1>2. Whole!Held(a) = MapSavesOf(a)
  BY <1>1 DEF Whole!Held, MapSavesOf, HolderOf
<1>3. MapSavesOf(a) \subseteq PointSaveIds
  BY DEF MapSavesOf
<1> QED
  BY <1>2, <1>3 DEF Whole!PlacesHeld, PlacesOf

(* A step that leaves saves and sorts as they are, but for notes and counters, *)
(* is none of the abstract specification.                                      *)
LEMMA WholeStays ==
  ASSUME UNCHANGED disturbed,
         \A p \in PointSaveIds : /\ pointSave'[p].live = pointSave[p].live
                                 /\ pointSave'[p].user = pointSave[p].user
                                 /\ pointSave'[p].place = pointSave[p].place
                                 /\ pointSave'[p].sort = pointSave[p].sort,
         UNCHANGED pointSort
  PROVE  UNCHANGED Whole!foodMaps
<1>1. UNCHANGED <<Holders, Labels>>
  BY DEF Holders, Labels, HolderOf, LabelOf
<1>2. UNCHANGED MapLabels
  BY DEF MapLabels, LabelsOf, SortsOf, CityOf
<1>3. UNCHANGED [p \in PointSaveIds |-> pointSave[p].place]
  OBVIOUS
<1> QED
  BY <1>1, <1>2, <1>3 DEF Whole!foodMaps, Holders, Labels, MapLabels

(* A new point is added to a map, under the name of a sort of that map. *)
LEMMA AddPointWhole ==
  ASSUME TransferTyped, NamesRight, NEW u \in Members, NEW p \in PointSaveIds, NEW pl \in Spots,
         NEW s \in SortsOf(u) \cup {Null}, NEW own \in {"MY_CREATE", "ONLY_SAVE"},
         AddPoint(u, p, pl, s, own)
  PROVE  NamesRight' /\ Whole!Add(u, p)
<1> DEFINE row == [live |-> TRUE, user |-> u, place |-> pl, sort |-> s, own |-> own, noteBy |-> Null]
<1>1. /\ pointSave' = [pointSave EXCEPT ![p] = row]
      /\ ~pointSave[p].live /\ Bystander /\ u \in MapOwners
      /\ \A q \in MapSavesOf(u) : pointSave[q].place # pl
      /\ pointSave \in [PointSaveIds -> MapSaveRow] /\ UNCHANGED disturbed
  BY DEF AddPoint, TransferTyped, TransferTypeOK, Bystander, MapOwners
<1>2. /\ row.live /\ row.user = u /\ row.place = pl /\ row.sort = s
      /\ pointSave'[p] = row /\ \A q \in PointSaveIds \ {p} : pointSave'[q] = pointSave[q]
  BY <1>1
<1> HIDE DEF row
<1>3. \A d \in PointSorts : /\ pointSort'[d].live = pointSort[d].live
                            /\ pointSort'[d].user = pointSort[d].user
                            /\ pointSort'[d].name = pointSort[d].name
                            /\ pointSort'[d].city = pointSort[d].city
  <2>1. pointSort' = PointsOf(s, 1) /\ pointSort \in [PointSorts -> SortRow]
    BY DEF AddPoint, TransferTyped, TransferTypeOK
  <2>2. CASE s = Null
    BY <2>1, <2>2 DEF PointsOf
  <2>3. CASE s # Null
    <3>1. s \in PointSorts /\ pointSort' = [pointSort EXCEPT ![s].points = @ + 1]
      BY <2>1, <2>3 DEF PointsOf, SortsOf
    <3>2. pointSort[s] \in SortRow /\ pointSort'[s] = [pointSort[s] EXCEPT !.points = @ + 1]
      BY <2>1, <3>1
    <3>3. /\ pointSort'[s].live = pointSort[s].live /\ pointSort'[s].user = pointSort[s].user
          /\ pointSort'[s].name = pointSort[s].name /\ pointSort'[s].city = pointSort[s].city
      BY <3>2 DEF SortRow
    <3> QED
      BY <2>1, <3>1, <3>3
  <2> QED
    BY <2>2, <2>3
<1>4. \A a : SortsOf(a)' = SortsOf(a)
  BY <1>3 DEF SortsOf, CityOf
<1>5. UNCHANGED MapLabels /\ NamesStay
  <2>1. \A a : LabelsOf(a)' = LabelsOf(a)
    BY <1>3, <1>4 DEF LabelsOf, SortsOf
  <2> QED
    BY <1>3, <2>1 DEF MapLabels, NamesStay
<1>6. s # Null => s \in PointSorts /\ pointSort[s].live /\ s \in SortsOf(u)
  BY DEF SortsOf
<1>7. NamesRight'
  <2>1. pointSave'[p].sort \in LiveSorts \cup {Null}
    BY <1>2, <1>6 DEF LiveSorts
  <2>2. \A q \in PointSaveIds \ {p} : Refiled(q)
    BY <1>2 DEF Refiled
  <2> QED
    BY <1>1, <1>5, <2>1, <2>2, BystanderRereads, NamesKeep
<1>8. Holders' = [Holders EXCEPT ![p] = u] /\ Holders[p] = Null
  BY <1>1, <1>2 DEF Holders, HolderOf
<1>9. \A q \in PointSaveIds \ {p} : Labels'[q] = Labels[q]
  <2> SUFFICES ASSUME NEW q \in PointSaveIds \ {p}
               PROVE  LabelOf(q)' = LabelOf(q)
    BY DEF Labels
  <2>1. pointSave'[q] = pointSave[q] /\ pointSave[q].sort \in PointSorts \cup {Null}
    BY <1>1, <1>2 DEF MapSaveRow
  <2> QED
    BY <1>3, <2>1 DEF LabelOf
<1>10. Labels'[p] \in MapLabels[u] \cup {Null}
  <2>1. Labels'[p] = IF s = Null THEN Null ELSE pointSort'[s].name
    BY <1>2 DEF Labels, LabelOf
  <2> QED
    BY <1>1, <1>3, <1>6, <2>1 DEF MapLabels, LabelsOf
<1>11. pl \notin Whole!PlacesHeld(u)
  BY <1>1, HeldOnMap DEF PlacesOf
<1> QED
  BY <1>1, <1>2, <1>5, <1>7, <1>8, <1>9, <1>10, <1>11 DEF Whole!Add, Holders, Labels, MapLabels


(* A note changes no map. *)
LEMMA AddNoteWhole ==
  ASSUME TransferTyped, NamesRight, NEW u \in Members, NEW p \in PointSaveIds, AddNote(u, p)
  PROVE  NamesRight' /\ UNCHANGED Whole!foodMaps
<1>1. /\ pointSave' = [pointSave EXCEPT ![p].noteBy = u] /\ UNCHANGED pointSort /\ Bystander
      /\ pointSave \in [PointSaveIds -> MapSaveRow]
  BY DEF AddNote, TransferTyped, TransferTypeOK
<1>2. \A q \in PointSaveIds : /\ pointSave'[q].live = pointSave[q].live
                              /\ pointSave'[q].user = pointSave[q].user
                              /\ pointSave'[q].place = pointSave[q].place
                              /\ pointSave'[q].sort = pointSave[q].sort
  BY <1>1 DEF MapSaveRow
<1>3. NamesStay /\ \A q \in PointSaveIds : Refiled(q)
  BY <1>1, <1>2 DEF NamesStay, Refiled
<1> QED
  BY <1>1, <1>2, <1>3, BystanderRereads, NamesKeep, WholeStays DEF Bystander

(* A new sort is a new name on a map. *)
LEMMA AddSortWhole ==
  ASSUME TransferTyped, NamesRight, NEW u \in Members, NEW s \in PointSorts, NEW n \in Names,
         AddSort(u, s, n)
  PROVE  NamesRight' /\ Whole!AddLabel(u, n) /\ n \in MapLabels'[u]
<1> DEFINE row == [live |-> TRUE, user |-> u, name |-> n, points |-> 0, city |-> ""]
<1>1. /\ pointSort' = [pointSort EXCEPT ![s] = row] /\ Bystander /\ UNCHANGED pointSave
      /\ pointSort[s] = BlankSort /\ \A d \in SortsOf(u) : pointSort[d].name # n
      /\ pointSort \in [PointSorts -> SortRow] /\ pointSave \in [PointSaveIds -> MapSaveRow]
  BY DEF AddSort, TransferTyped, TransferTypeOK
<1>b. ~BlankSort.live /\ BlankSort.name = Null
  BY DEF BlankSort
<1>2. /\ row.live /\ row.user = u /\ row.name = n /\ row.city = CityOf(u)
      /\ pointSort'[s] = row /\ \A d \in PointSorts \ {s} : pointSort'[d] = pointSort[d]
      /\ u \in MapOwners
  BY <1>1, TransferConstants DEF CityOf, MapOwners
<1> HIDE DEF row
<1>3. NamesStay /\ \A q \in PointSaveIds : Refiled(q)
  BY <1>1, <1>b, <1>2 DEF NamesStay, Refiled
<1>4. NamesRight'
  BY <1>1, <1>3, BystanderRereads, NamesKeep
<1>5. UNCHANGED <<Holders, Labels>>
  <2>1. ASSUME NEW p \in PointSaveIds
        PROVE  HolderOf(p)' = HolderOf(p) /\ LabelOf(p)' = LabelOf(p)
    <3>1. pointSave[p].sort \in PointSorts \cup {Null} /\ pointSave[p].sort # s
      BY <1>1, <1>b, TransferConstants DEF MapSaveRow, NamesRight, FiledNamed
    <3> QED
      BY <1>1, <1>2, <3>1 DEF HolderOf, LabelOf
  <2> QED
    BY <2>1 DEF Holders, Labels
<1>6. SortsOf(u)' = SortsOf(u) \cup {s} /\ \A a : a # u => SortsOf(a)' = SortsOf(a)
  BY <1>1, <1>b, <1>2 DEF SortsOf, CityOf
<1>7. \A a : \A d \in SortsOf(a) : d \in PointSorts /\ pointSort'[d].name = pointSort[d].name
  BY <1>1, <1>b, <1>2 DEF SortsOf
<1>8. LabelsOf(u)' = LabelsOf(u) \cup {n} /\ \A a : a # u => LabelsOf(a)' = LabelsOf(a)
  BY <1>2, <1>6, <1>7 DEF LabelsOf
<1>9. MapLabels' = [MapLabels EXCEPT ![u] = @ \cup {n}] /\ n \in MapLabels'[u]
  BY <1>2, <1>8 DEF MapLabels
<1>10. n \notin MapLabels[u]
  BY <1>1, <1>2 DEF MapLabels, LabelsOf
<1>11. UNCHANGED [p \in PointSaveIds |-> pointSave[p].place] /\ UNCHANGED disturbed
  BY <1>1 DEF Bystander
<1> QED
  BY <1>4, <1>5, <1>9, <1>10, <1>11 DEF Whole!AddLabel, Holders, Labels, MapLabels

(* A transfer that reads, waits or ends changes no map. *)
LEMMA WaitsWhole ==
  ASSUME TransferTyped, NamesRight, NEW r \in Transfers, Waits(r), \A x \in Transfers : Rereads(x)
  PROVE  NamesRight' /\ UNCHANGED Whole!foodMaps
<1>1. UNCHANGED <<pointSave, pointSort, disturbed>>
  BY DEF Waits
<1>2. NamesStay /\ \A q \in PointSaveIds : Refiled(q)
  BY <1>1 DEF NamesStay, Refiled
<1> QED
  BY <1>1, <1>2, NamesKeep, WholeStays

(* A transfer, on whatever it has read, takes saves of the provider only, to  *)
(* the target only, and leaves each under the name of its sort.               *)
LEMMA CommitWhole ==
  ASSUME TransferTyped, NamesRight, NEW r \in Transfers, CommitTransfer(r)
  PROVE  LET from == transfer[r].from  to == transfer[r].to IN
         /\ NamesRight' /\ from \in MapOwners /\ to \in MapOwners /\ from # to
         /\ UNCHANGED Labels
         /\ \A p \in PointSaveIds : /\ pointSave'[p].live = pointSave[p].live
                                    /\ pointSave'[p].place = pointSave[p].place
         /\ Holders' \in [PointSaveIds -> MapOwners \cup {Null}]
         /\ \A p \in PointSaveIds : Holders'[p] # Holders[p] => Holders[p] = from /\ Holders'[p] = to
<1> DEFINE from == transfer[r].from
<1> DEFINE to == transfer[r].to
<1> DEFINE g == transfer[r].got
<1>1. /\ FlightRight(transfer[r]) /\ Flying(transfer[r])
      /\ from \in Members /\ to \in MapOwners /\ from # to /\ g \in ReadRow /\ NamesRead(g)
  BY DEF CommitTransfer, At, TransferTyped, Flying, FlightRight, TransferRow, NamesRight
<1>2. /\ pointSave' = [p \in PointSaveIds |->
           WithNoteOf(IF p \in Moved(from, g) THEN MovedSave(p, to, g) ELSE pointSave[p], from, to)]
      /\ pointSort' = [s \in PointSorts |-> MovedSort(s, from, to, g)]
  BY DEF CommitTransfer
<1>3. \A s \in PointSorts : pointSort'[s].name = pointSort[s].name
  BY <1>1, <1>2, SortMoves
<1>4. ASSUME NEW p \in PointSaveIds
      PROVE  /\ pointSave'[p] \in MapSaveRow
             /\ pointSave'[p].live = pointSave[p].live /\ pointSave'[p].place = pointSave[p].place
             /\ p \notin Moved(from, g) =>
                  pointSave'[p].user = pointSave[p].user /\ pointSave'[p].sort = pointSave[p].sort
             /\ p \in Moved(from, g) =>
                  /\ pointSave'[p].user = to
                  /\ Twin(g, pointSave[p].sort) = {} => pointSave'[p].sort = pointSave[p].sort
                  /\ Twin(g, pointSave[p].sort) # {} =>
                       \E sd \in Twin(g, pointSave[p].sort) : pointSave'[p].sort = sd[2].id
  <2> DEFINE new == pointSave'[p]
  <2>1. new = WithNoteOf(IF p \in Moved(from, g) THEN MovedSave(p, to, g) ELSE pointSave[p], from, to)
    BY <1>2
  <2> HIDE DEF new
  <2> QED
    BY <1>1, <2>1, SaveMoves DEF new
<1> HIDE DEF from, to, g
<1>5. ASSUME NEW s, NEW sd \in Twin(g, s)
      PROVE  /\ s \in PointSorts /\ sd[2].id \in PointSorts
             /\ pointSort[sd[2].id].name = pointSort[s].name
  <2>1. PICK x \in g.src, y \in g.dst : sd = <<x, y>> /\ x.name = y.name /\ x.id = s
    BY DEF Twin, SameSorts
  <2>2. x \in SortRead /\ y \in SortRead
    BY <1>1, <2>1 DEF ReadRow
  <2>3. pointSort[x.id].name = x.name /\ pointSort[y.id].name = y.name
    BY <1>1, <2>1 DEF NamesRead
  <2>4. sd[2] = y
    BY <2>1
  <2> QED
    BY <2>1, <2>2, <2>3, <2>4 DEF SortRead
<1>6. ASSUME NEW p \in PointSaveIds
      PROVE  Refiled(p)
  <2>1. CASE p \in Moved(from, g) /\ Twin(g, pointSave[p].sort) # {}
    BY <1>4, <1>5, <2>1 DEF Refiled
  <2>2. CASE ~(p \in Moved(from, g) /\ Twin(g, pointSave[p].sort) # {})
    BY <1>4, <2>2 DEF Refiled
  <2> QED
    BY <2>1, <2>2
<1>7. NamesRight'
  <2>1. NamesStay
    BY <1>3 DEF NamesStay
  <2> QED
    BY <1>6, <2>1, CommitRereads, NamesKeep
<1>8. UNCHANGED Labels
  <2> SUFFICES ASSUME NEW p \in PointSaveIds
               PROVE  LabelOf(p)' = LabelOf(p)
    BY DEF Labels
  <2>1. pointSave[p].sort \in PointSorts \cup {Null}
    BY DEF TransferTyped, TransferTypeOK, MapSaveRow
  <2>2. Refiled(p)
    BY <1>6
  <2>3. CASE pointSave'[p].sort = pointSave[p].sort
    BY <1>3, <2>1, <2>3 DEF LabelOf
  <2>4. CASE pointSave'[p].sort # pointSave[p].sort
    BY <1>3, <2>2, <2>4, TransferConstants DEF LabelOf, Refiled
  <2> QED
    BY <2>3, <2>4
<1>9. ASSUME NEW p \in PointSaveIds
      PROVE  /\ Holders'[p] \in MapOwners \cup {Null}
             /\ Holders'[p] # Holders[p] => Holders[p] = from /\ Holders'[p] = to
  <2>1. p \in Moved(from, g) => pointSave[p].live /\ pointSave[p].user = from
    BY DEF Moved, Created, MapSavesOf
  <2>2. pointSave'[p].user \in MapOwners
    BY <1>4 DEF MapSaveRow
  <2>3. /\ Holders'[p] = IF pointSave'[p].live THEN pointSave'[p].user ELSE Null
        /\ Holders[p] = IF pointSave[p].live THEN pointSave[p].user ELSE Null
    BY DEF Holders, HolderOf
  <2> QED
    BY <1>4, <2>1, <2>2, <2>3
<1>10. Holders' \in [PointSaveIds -> MapOwners \cup {Null}]
  BY <1>9 DEF Holders
<1>11. from \in MapOwners
  BY <1>1 DEF MapOwners
<1> QED
  BY <1>1, <1>4, <1>7, <1>8, <1>9, <1>10, <1>11 DEF from, to


(* A transfer on what is still current gives the whole map at once: all its   *)
(* points, and its sorts, those with the name of a sort of the target within  *)
(* that sort.                                                                 *)
LEMMA CommitGivesWhole ==
  ASSUME TransferTyped, NamesRight, Ledger, NEW r \in Transfers, transfer[r].fresh,
         CommitTransfer(r), Ledger', ~disturbed
  PROVE  Whole!Give(transfer[r].from, transfer[r].to)
<1>0. PICK from, to : from = transfer[r].from /\ to = transfer[r].to
  OBVIOUS
<1>1. /\ MapGiven(from, to) /\ Created(from) = MapSavesOf(from) /\ NoSame(from, to)
      /\ from \in MapOwners /\ to \in MapOwners /\ from # to
  BY <1>0, CommitGives DEF MapGiven, MapOwners
<1>2. Whole!PlacesHeld(from) \cap Whole!PlacesHeld(to) = {}
  BY <1>1, HeldOnMap DEF NoSame
<1>3. Holders' = [p \in PointSaveIds |-> IF Holders[p] = from THEN to ELSE Holders[p]]
  <2>1. ASSUME NEW p \in PointSaveIds
        PROVE  HolderOf(p)' = IF HolderOf(p) = from THEN to ELSE HolderOf(p)
    <3>1. SaveGiven(pointSave[p], pointSave'[p], from, to) /\ from # Null
      BY <1>1, TransferConstants DEF MapGiven
    <3> QED
      BY <3>1 DEF HolderOf, SaveGiven
  <2> QED
    BY <2>1 DEF Holders
<1>4. \A a : /\ SortsOf(a) = { s \in PointSorts : pointSort[s].live /\ pointSort[s].user = a }
             /\ SortsOf(a)' = { s \in PointSorts : pointSort'[s].live /\ pointSort'[s].user = a }
  <2>1. CitiesRight /\ CitiesRight'
    BY DEF Ledger
  <2> QED
    BY <2>1 DEF SortsOf, CitiesRight, CityOf
<1>5. \A s \in PointSorts :
        /\ pointSort'[s].name = pointSort[s].name
        /\ pointSort'[s].live => pointSort[s].live
        /\ pointSort[s].live /\ pointSort[s].user = from =>
             IF Heirs(s, to) = {} THEN pointSort'[s].live /\ pointSort'[s].user = to
             ELSE ~pointSort'[s].live
        /\ pointSort[s].live /\ pointSort[s].user # from =>
             pointSort'[s].live /\ pointSort'[s].user = pointSort[s].user
  BY <1>1 DEF MapGiven, SortGiven
<1>6. LabelsOf(from)' = {}
  <2>1. SortsOf(from)' = {}
    BY <1>1, <1>4, <1>5
  <2> QED
    BY <2>1 DEF LabelsOf
<1>7. ASSUME NEW a, a # from, a # to
      PROVE  LabelsOf(a)' = LabelsOf(a)
  <2>1. SortsOf(a)' = SortsOf(a)
    BY <1>4, <1>5, <1>7
  <2>2. \A s \in SortsOf(a) : pointSort'[s].name = pointSort[s].name
    BY <1>4, <1>5
  <2> QED
    BY <2>1, <2>2 DEF LabelsOf
<1>8. LabelsOf(to)' = LabelsOf(to) \cup LabelsOf(from)
  <2>1. ASSUME NEW n \in LabelsOf(to)'
        PROVE  n \in LabelsOf(to) \cup LabelsOf(from)
    <3>1. PICK s \in SortsOf(to)' : n = pointSort'[s].name
      BY <2>1 DEF LabelsOf
    <3>2. s \in SortsOf(to) \cup SortsOf(from) /\ pointSort[s].name = n
      BY <1>4, <1>5, <3>1
    <3> QED
      BY <3>2 DEF LabelsOf
  <2>2. ASSUME NEW s \in SortsOf(to)
        PROVE  pointSort[s].name \in LabelsOf(to)'
    <3>1. s \in SortsOf(to)' /\ pointSort'[s].name = pointSort[s].name
      BY <1>1, <1>4, <1>5
    <3> QED
      BY <3>1 DEF LabelsOf
  <2>3. ASSUME NEW s \in SortsOf(from)
        PROVE  pointSort[s].name \in LabelsOf(to)'
    <3>1. CASE Heirs(s, to) = {}
      <4>1. s \in SortsOf(to)' /\ pointSort'[s].name = pointSort[s].name
        BY <1>4, <1>5, <3>1
      <4> QED
        BY <4>1 DEF LabelsOf
    <3>2. CASE Heirs(s, to) # {}
      <4>1. PICK d \in SortsOf(to) : pointSort[d].name = pointSort[s].name
        BY <3>2 DEF Heirs
      <4> QED
        BY <2>2, <4>1
    <3> QED
      BY <3>1, <3>2
  <2> QED
    BY <2>1, <2>2, <2>3 DEF LabelsOf
<1>9. MapLabels' = [MapLabels EXCEPT ![to] = @ \cup MapLabels[from], ![from] = {}]
  BY <1>1, <1>6, <1>7, <1>8 DEF MapLabels
<1>10. UNCHANGED [p \in PointSaveIds |-> pointSave[p].place] /\ UNCHANGED Labels
  BY CommitWhole
<1>11. disturbed' = disturbed
  <2>1. disturbed' = (disturbed \/ ~transfer[r].fresh)
    BY DEF CommitTransfer
  <2>2. disturbed \in BOOLEAN
    BY DEF TransferTyped, TransferTypeOK
  <2> QED
    BY <2>1, <2>2
<1>12. Whole!Give(from, to)
  BY <1>1, <1>2, <1>3, <1>9, <1>10, <1>11 DEF Whole!Give, Holders, Labels, MapLabels
<1> QED
  BY <1>0, <1>12

(* Everything that the steps of FoodMaps rest on *)
WholeInv == TransferInv /\ NamesRight

(* At the beginning there are no maps. *)
LEMMA InitWhole == TransferInit => WholeInv /\ Whole!Init
<1> SUFFICES ASSUME TransferInit
             PROVE  WholeInv /\ Whole!Init
  OBVIOUS
<1>1. TransferInv
  BY InitKeeps
<1>2. \A p \in PointSaveIds : ~pointSave[p].live /\ pointSave[p].sort = Null
  BY DEF TransferInit, BlankMapSave
<1>3. \A s \in PointSorts : ~pointSort[s].live
  BY DEF TransferInit, BlankSort
<1>4. \A r \in Transfers : transfer[r].got.src \cup transfer[r].got.dst = {}
  BY DEF TransferInit, NoTransfer, Blank
<1>5. NamesRight
  BY <1>2, <1>4 DEF NamesRight, FiledNamed, NamesRead
<1>6. Holders = [p \in PointSaveIds |-> Null] /\ MapLabels = [a \in MapOwners |-> {}]
  BY <1>2, <1>3 DEF Holders, HolderOf, MapLabels, LabelsOf, SortsOf
<1>7. ~disturbed
  BY DEF TransferInit
<1> QED
  BY <1>1, <1>5, <1>6, <1>7 DEF WholeInv, Whole!Init, Holders, MapLabels

(* Every step of the transfers, and of others, is one of FoodMaps or none. *)
LEMMA StepWhole ==
  ASSUME WholeInv, TransferInv', [TransferNext]_transferVars
  PROVE  NamesRight' /\ [Whole!Next]_(Whole!foodMaps)
<1>1. TransferTyped /\ NamesRight /\ (~disturbed => Ledger) /\ (~disturbed' => Ledger')
  BY DEF WholeInv, TransferInv
<1>2. ASSUME NEW u \in Members, OtherRequest(u)
      PROVE  NamesRight' /\ [Whole!Next]_(Whole!foodMaps)
  <2>1. u \in MapOwners
    BY DEF MapOwners
  <2>2. ASSUME NEW p \in PointSaveIds, NEW pl \in Spots, NEW s \in SortsOf(u) \cup {Null},
               NEW own \in {"MY_CREATE", "ONLY_SAVE"}, AddPoint(u, p, pl, s, own)
        PROVE  NamesRight' /\ Whole!Next
    BY <1>1, <2>1, <2>2, AddPointWhole DEF Whole!Next
  <2>3. ASSUME NEW p \in PointSaveIds, AddNote(u, p)
        PROVE  NamesRight' /\ UNCHANGED Whole!foodMaps
    BY <1>1, <2>3, AddNoteWhole
  <2>4. ASSUME NEW s \in PointSorts, NEW n \in Names, AddSort(u, s, n)
        PROVE  NamesRight' /\ Whole!Next
    <3>1. NamesRight' /\ Whole!AddLabel(u, n) /\ n \in MapLabels'[u]
      BY <1>1, <2>4, AddSortWhole
    <3> QED
      BY <2>1, <3>1 DEF Whole!Next, MapLabels
  <2> QED
    BY <1>2, <2>2, <2>3, <2>4 DEF OtherRequest
<1>3. ASSUME LockExpires
      PROVE  NamesRight' /\ UNCHANGED Whole!foodMaps
  <2>1. UNCHANGED <<pointSave, pointSort, transfer, disturbed>>
    BY <1>3 DEF LockExpires, maps
  <2>2. NamesStay /\ \A q \in PointSaveIds : Refiled(q)
    BY <2>1 DEF NamesStay, Refiled
  <2>3. \A r \in Transfers : Rereads(r)
    BY <2>1 DEF Rereads
  <2> QED
    BY <1>1, <2>1, <2>2, <2>3, NamesKeep, WholeStays
<1>4. ASSUME NEW r \in Transfers, TransferStep(r)
      PROVE  NamesRight' /\ [Whole!Next]_(Whole!foodMaps)
  <2>1. CASE \/ \E from \in Members, to \in MapOwners : from # to /\ Begin(r, from, to)
             \/ ReadCounters(r) \/ Lock(r) \/ Abort(r) \/ Unlock(r)
    BY <1>1, <2>1, WaitsRereads, WaitsWhole
  <2>2. CASE CommitTransfer(r)
    <3>0. PICK from, to : from = transfer[r].from /\ to = transfer[r].to
      OBVIOUS
    <3>1. /\ NamesRight' /\ from \in MapOwners /\ to \in MapOwners /\ from # to
          /\ UNCHANGED Labels /\ UNCHANGED [p \in PointSaveIds |-> pointSave[p].place]
          /\ Holders' \in [PointSaveIds -> MapOwners \cup {Null}]
          /\ \A p \in PointSaveIds : Holders'[p] # Holders[p] => Holders[p] = from /\ Holders'[p] = to
      BY <1>1, <2>2, <3>0, CommitWhole
    <3>2. CASE disturbed'
      <4>1. Whole!GiveInPart(from, to)
        BY <3>1, <3>2 DEF Whole!GiveInPart, Holders, Labels
      <4> QED
        BY <3>1, <4>1 DEF Whole!Next
    <3>3. CASE ~disturbed'
      <4>1. ~disturbed /\ transfer[r].fresh
        <5>1. disturbed' = (disturbed \/ ~transfer[r].fresh)
          BY <2>2 DEF CommitTransfer
        <5> QED
          BY <3>3, <5>1
      <4>2. Whole!Give(from, to)
        BY <1>1, <2>2, <3>0, <3>3, <4>1, CommitGivesWhole
      <4> QED
        BY <3>1, <4>1, <4>2 DEF Whole!Next
    <3> QED
      BY <3>2, <3>3
  <2>3. ASSUME NEW from \in Members, CheckPublicTransfer(r, from)
        PROVE  \E f \in Members, to \in MapOwners : f # to /\ Begin(r, f, to)
    BY <2>3, TransferConstants DEF CheckPublicTransfer, MapOwners
  <2>4. ASSUME NEW from \in Members, NEW to \in Members, CheckTransfer(r, from, to)
        PROVE  \E f \in Members, t \in MapOwners : f # t /\ Begin(r, f, t)
    BY <2>4 DEF CheckTransfer, MapOwners
  <2> QED
    BY <1>4, <2>1, <2>2, <2>3, <2>4 DEF TransferStep
<1>5. ASSUME UNCHANGED transferVars
      PROVE  NamesRight' /\ UNCHANGED Whole!foodMaps
  <2>1. UNCHANGED <<pointSave, pointSort, transfer, disturbed>>
    BY <1>5 DEF transferVars
  <2>2. NamesRight'
    BY <1>1, <2>1 DEF NamesRight, FiledNamed, NamesRead
  <2> QED
    BY <2>1, <2>2, WholeStays
<1> QED
  BY <1>2, <1>3, <1>4, <1>5 DEF TransferNext

(* Every behaviour of the transfers, under the mapping of Whole, is one of    *)
(* FoodMaps: checks, reads, the lock, the transaction, failures and whatever  *)
(* other requests do meanwhile give a map away at once and whole, to the one  *)
(* it was meant for, each point under the name it had; and only a transfer on *)
(* stale reads leaves a part of a map behind.                                 *)
THEOREM TransfersGiveWhole == TransferSpec => MapsGivenWhole
<1>1. TransferInit => Whole!Init /\ WholeInv
  BY InitWhole
<1>2. WholeInv /\ TransferInv' /\ [TransferNext]_transferVars => WholeInv' /\ [Whole!Next]_(Whole!foodMaps)
  BY StepWhole DEF WholeInv
<1>3. WholeInv => TransferInv
  BY DEF WholeInv
<1>4. TransferInv /\ [TransferNext]_transferVars => TransferInv'
  BY NextKeeps
<1> QED
  BY <1>1, <1>2, <1>3, <1>4, PTL DEF TransferSpec, MapsGivenWhole, Whole!Spec

--------------------------------------------------------------------------------
(* NoteLikes *)

RowsOf(l, t) == { row \in l : row[2] = t }

(* The requests that are about to do something to t, or to the author *)
Owing(l, t, at)  == { r \in LikeRequests : l[r].at = at /\ l[r].thing = t }
OwingAll(l, at)  == { r \in LikeRequests : l[r].at = at }

(* Each row of a like is counted, or about to be; and no more is taken back  *)
(* than there were rows.                                                     *)
LikersOwed ==
  ("redis" \notin spoiled /\ (kind = "note" => "like" \notin spoiled)) =>
    \A t \in Liked :
      Cardinality(RowsOf(rows, t)) + Cardinality(Owing(lreq, t, "decr"))
        <= likes[t] + Cardinality(Owing(lreq, t, "incr"))

(* What the author has is what the notes have, but for requests between the two. *)
AuthorOwed ==
  (kind = "note" /\ "redis" \notin spoiled) =>
    authorLikes + Cardinality(OwingAll(lreq, "incrAuthor")) =
      Sum(likes, Liked) + Cardinality(OwingAll(lreq, "decrAuthor"))

Named == \A r \in LikeRequests :
  lreq[r].at # "idle" => lreq[r].thing \in Liked /\ lreq[r].user \in Likers

LikesInv == LikesTypeOK /\ Named /\ LikersOwed /\ AuthorOwed

LikeReq == [at : Steps, user : Likers \cup {NoLiker}, thing : Liked \cup {NoLiker}]

OneIf(b) == IF b THEN 1 ELSE 0

(* The requests that owe something are finitely many. *)
LEMMA OwingFinite ==
  ASSUME NEW l, NEW at
  PROVE  /\ IsFiniteSet(OwingAll(l, at)) /\ Cardinality(OwingAll(l, at)) \in Nat
         /\ \A t : IsFiniteSet(Owing(l, t, at)) /\ Cardinality(Owing(l, t, at)) \in Nat
<1>1. OwingAll(l, at) \subseteq LikeRequests /\ \A t : Owing(l, t, at) \subseteq LikeRequests
  BY DEF OwingAll, Owing
<1> QED
  BY <1>1, LikeConstants, FS_Subset, FS_CardinalityType

(* So are the rows of the likes. *)
LEMMA RowsFinite ==
  ASSUME LikesTypeOK
  PROVE  IsFiniteSet(rows) /\ \A t : IsFiniteSet(RowsOf(rows, t)) /\ Cardinality(RowsOf(rows, t)) \in Nat
<1>1. IsFiniteSet(Likers \X Liked)
  BY LikeConstants, FS_Product
<1>2. rows \subseteq Likers \X Liked /\ \A t : RowsOf(rows, t) \subseteq rows
  BY DEF LikesTypeOK, RowsOf
<1> QED
  BY <1>1, <1>2, FS_Subset, FS_CardinalityType

(* One element more or less in a finite set *)
LEMMA OneMoves ==
  ASSUME NEW S, NEW T, NEW r, IsFiniteSet(S), IsFiniteSet(T), S \ {r} = T \ {r}
  PROVE  Cardinality(T) = Cardinality(S) + OneIf(r \in T) - OneIf(r \in S)
<1>1. Cardinality(S) \in Nat /\ Cardinality(T) \in Nat
  BY FS_CardinalityType
<1>2. CASE r \in S /\ r \in T
  <2>1. S = T
    BY <1>2
  <2> QED
    BY <1>1, <1>2, <2>1 DEF OneIf
<1>3. CASE r \in S /\ r \notin T
  <2>1. T = S \ {r}
    BY <1>3
  <2> QED
    BY <1>1, <1>3, <2>1, FS_RemoveElement DEF OneIf
<1>4. CASE r \notin S /\ r \in T
  <2>1. T = S \cup {r}
    BY <1>4
  <2> QED
    BY <1>1, <1>4, <2>1, FS_AddElement DEF OneIf
<1>5. CASE r \notin S /\ r \notin T
  <2>1. S = T
    BY <1>5
  <2> QED
    BY <1>1, <1>5, <2>1 DEF OneIf
<1> QED
  BY <1>2, <1>3, <1>4, <1>5

(* A request that goes from one step to another is owing no more what it did *)
(* at the first, and owing what it does at the second.                       *)
LEMMA OwingMoves ==
  ASSUME LikesTypeOK, Named, NEW r \in LikeRequests, NEW new \in Steps,
         lreq[r].at # "idle", Goto(r, new)
  PROVE  /\ lreq' \in [LikeRequests -> LikeReq] /\ Named'
         /\ \A at \in Steps \ {"idle"} :
              /\ Cardinality(OwingAll(lreq', at)) =
                   Cardinality(OwingAll(lreq, at)) + OneIf(at = new) - OneIf(at = lreq[r].at)
              /\ \A t \in Liked :
                   Cardinality(Owing(lreq', t, at)) =
                     Cardinality(Owing(lreq, t, at)) + OneIf(at = new /\ t = lreq[r].thing)
                       - OneIf(at = lreq[r].at /\ t = lreq[r].thing)
<1>1. lreq \in [LikeRequests -> LikeReq] /\ lreq[r] \in LikeReq
  BY DEF LikesTypeOK, LikeReq
<1>2. NoLike \in LikeReq /\ NoLike.at = "idle"
  BY DEF NoLike, LikeReq, Steps
<1>3. /\ lreq' = [lreq EXCEPT ![r] = lreq'[r]]
      /\ lreq'[r] = IF new = "idle" THEN NoLike ELSE [lreq[r] EXCEPT !.at = new]
  BY <1>1 DEF Goto
<1>4. /\ lreq'[r] \in LikeReq /\ lreq'[r].at = new
      /\ new # "idle" => lreq'[r].thing = lreq[r].thing /\ lreq'[r].user = lreq[r].user
  BY <1>1, <1>2, <1>3 DEF LikeReq
<1>5. lreq' \in [LikeRequests -> LikeReq] /\ \A s \in LikeRequests : s # r => lreq'[s] = lreq[s]
  BY <1>1, <1>3, <1>4
<1>6. Named'
  BY <1>4, <1>5 DEF Named
<1>7. ASSUME NEW at \in Steps \ {"idle"}
      PROVE  Cardinality(OwingAll(lreq', at)) =
               Cardinality(OwingAll(lreq, at)) + OneIf(at = new) - OneIf(at = lreq[r].at)
  <2> DEFINE S == OwingAll(lreq, at)
  <2> DEFINE T == OwingAll(lreq', at)
  <2>1. S \ {r} = T \ {r} /\ (r \in S <=> at = lreq[r].at) /\ (r \in T <=> at = new)
    BY <1>4, <1>5 DEF OwingAll
  <2>2. IsFiniteSet(S) /\ IsFiniteSet(T)
    BY OwingFinite
  <2> HIDE DEF S, T
  <2>3. Cardinality(T) = Cardinality(S) + OneIf(r \in T) - OneIf(r \in S)
    BY <2>1, <2>2, OneMoves
  <2>4. OneIf(r \in T) = OneIf(at = new) /\ OneIf(r \in S) = OneIf(at = lreq[r].at)
    BY <2>1 DEF OneIf
  <2> QED
    BY <2>3, <2>4 DEF S, T
<1>8. ASSUME NEW at \in Steps \ {"idle"}, NEW t \in Liked
      PROVE  Cardinality(Owing(lreq', t, at)) =
               Cardinality(Owing(lreq, t, at)) + OneIf(at = new /\ t = lreq[r].thing)
                 - OneIf(at = lreq[r].at /\ t = lreq[r].thing)
  <2> DEFINE S == Owing(lreq, t, at)
  <2> DEFINE T == Owing(lreq', t, at)
  <2>1. /\ S \ {r} = T \ {r} /\ (r \in S <=> at = lreq[r].at /\ t = lreq[r].thing)
        /\ r \in T <=> at = new /\ t = lreq[r].thing
    BY <1>4, <1>5 DEF Owing
  <2>2. IsFiniteSet(S) /\ IsFiniteSet(T)
    BY OwingFinite
  <2> HIDE DEF S, T
  <2>3. Cardinality(T) = Cardinality(S) + OneIf(r \in T) - OneIf(r \in S)
    BY <2>1, <2>2, OneMoves
  <2>4. /\ OneIf(r \in T) = OneIf(at = new /\ t = lreq[r].thing)
        /\ OneIf(r \in S) = OneIf(at = lreq[r].at /\ t = lreq[r].thing)
    BY <2>1 DEF OneIf
  <2> QED
    BY <2>3, <2>4 DEF S, T
<1> QED
  BY <1>5, <1>6, <1>7, <1>8

(* Nothing is liked, and nothing owed, at the start. *)
LEMMA InitLikes == LikesInit => LikesInv
<1> SUFFICES ASSUME LikesInit
             PROVE  LikesInv
  OBVIOUS
<1>1. LikesTypeOK /\ Named
  BY LikeConstants DEF LikesInit, LikesTypeOK, Named, NoLike, Steps
<1>2. /\ \A r \in LikeRequests : lreq[r].at = "idle"
      /\ rows = {} /\ \A t \in Liked : likes[t] = 0
      /\ authorLikes = 0
  BY DEF LikesInit, NoLike
<1>3. \A at \in Steps \ {"idle"} :
        /\ OwingAll(lreq, at) = {} /\ \A t : Owing(lreq, t, at) = {}
  BY <1>2 DEF OwingAll, Owing
<1>4. \A t \in Liked : RowsOf(rows, t) = {}
  BY <1>2 DEF RowsOf
<1>5. LikersOwed
  BY <1>2, <1>3, <1>4, FS_EmptySet DEF LikersOwed, Steps
<1>6. AuthorOwed
  <2>1. Sum(likes, Liked) = 0
    BY <1>2, LikeConstants, SumOfZeros
  <2> QED
    BY <1>2, <1>3, <2>1, FS_EmptySet DEF AuthorOwed, Steps
<1> QED
  BY <1>1, <1>5, <1>6 DEF LikesInv

(* The numbers of one state, for arithmetic *)
LEMMA LikeNumbers ==
  ASSUME LikesInv
  PROVE  /\ authorLikes \in Int /\ Sum(likes, Liked) \in Int /\ Terms(likes, Liked)
         /\ \A t \in Liked : likes[t] \in Int /\ Cardinality(RowsOf(rows, t)) \in Nat
         /\ \A at : /\ Cardinality(OwingAll(lreq, at)) \in Nat
                    /\ \A t : Cardinality(Owing(lreq, t, at)) \in Nat
<1>1. Terms(likes, Liked)
  BY LikeConstants DEF LikesInv, LikesTypeOK, Terms
<1> QED
  BY <1>1, SumOfTerms, RowsFinite, OwingFinite DEF LikesInv, LikesTypeOK

(* A request that begins owes nothing. *)
LEMMA BeginLikesRight ==
  ASSUME LikesInv, NEW r \in LikeRequests, NEW u \in Likers, NEW t \in Liked,
         NEW at \in {"save", "delete"}, BeginLikes(r, u, t, at)
  PROVE  LikesInv'
<1>1. /\ lreq[r] = NoLike /\ begun < MaxRequests
      /\ lreq' = [lreq EXCEPT ![r] = [at |-> at, user |-> u, thing |-> t]]
      /\ begun' = begun + 1 /\ UNCHANGED <<kind, rows, likes, authorLikes, mails, spoiled>>
  BY DEF BeginLikes, statistics
<1>2. LikesTypeOK' /\ Named'
  BY <1>1, LikeConstants DEF LikesInv, LikesTypeOK, Named, Steps
<1>3. \A s \in LikeRequests : s # r => lreq'[s] = lreq[s]
  BY <1>1 DEF LikesInv, LikesTypeOK
<1>4. lreq[r].at \notin {"incr", "decr", "incrAuthor", "decrAuthor"}
      /\ lreq'[r].at \notin {"incr", "decr", "incrAuthor", "decrAuthor"}
  BY <1>1 DEF NoLike, LikesInv, LikesTypeOK
<1>5. \A s \in {"incr", "decr", "incrAuthor", "decrAuthor"} :
        OwingAll(lreq', s) = OwingAll(lreq, s) /\ \A x : Owing(lreq', x, s) = Owing(lreq, x, s)
  BY <1>3, <1>4 DEF OwingAll, Owing
<1>6. \A x : RowsOf(rows', x) = RowsOf(rows, x)
  BY <1>1 DEF RowsOf
<1>7. LikersOwed'
  BY <1>1, <1>5, <1>6 DEF LikesInv, LikersOwed, RowsOf
<1>8. AuthorOwed'
  BY <1>1, <1>5 DEF LikesInv, AuthorOwed
<1> QED
  BY <1>2, <1>7, <1>8 DEF LikesInv

(* Every step of a request pays what it owed, or spoils what is said. *)
LEMMA LikeStepRight ==
  ASSUME LikesInv, NEW r \in LikeRequests,
         \/ Save(r) \/ SaveFails(r) \/ Incr(r) \/ IncrAuthor(r) \/ Message(r) \/ MessageFails(r)
         \/ Delete(r) \/ Decr(r) \/ DecrAuthor(r) \/ RedisFails(r)
  PROVE  LikesInv'
<1> DEFINE t == lreq[r].thing
<1>1. lreq[r].at # "idle" /\ t \in Liked /\ lreq[r].user \in Likers
  BY DEF Save, SaveFails, Incr, IncrAuthor, Message, MessageFails, Delete, Decr, DecrAuthor,
         RedisFails, LikeAt, LikesInv, Named
<1>2. \E new \in Steps : Goto(r, new)
  BY DEF Save, SaveFails, Incr, IncrAuthor, Message, MessageFails, Delete, Decr, DecrAuthor,
         RedisFails, Catch, Steps
<1>3. /\ lreq' \in [LikeRequests -> LikeReq] /\ Named' /\ begun' = begun /\ kind' = kind
  <2>1. begun' = begun /\ kind' = kind
    BY DEF Save, SaveFails, Incr, IncrAuthor, Message, MessageFails, Delete, Decr, DecrAuthor,
           RedisFails
  <2> QED
    BY <1>1, <1>2, <2>1, OwingMoves DEF LikesInv
<1> DEFINE D(x) == Cardinality(Owing(lreq, x, "decr"))
<1> DEFINE I(x) == Cardinality(Owing(lreq, x, "incr"))
<1> DEFINE DA == Cardinality(OwingAll(lreq, "decrAuthor"))
<1> DEFINE IA == Cardinality(OwingAll(lreq, "incrAuthor"))
<1>4. ASSUME NEW new \in Steps, Goto(r, new)
      PROVE  /\ \A x \in Liked :
                  /\ Cardinality(Owing(lreq', x, "decr")) =
                       D(x) + OneIf(new = "decr" /\ x = t) - OneIf(lreq[r].at = "decr" /\ x = t)
                  /\ Cardinality(Owing(lreq', x, "incr")) =
                       I(x) + OneIf(new = "incr" /\ x = t) - OneIf(lreq[r].at = "incr" /\ x = t)
             /\ Cardinality(OwingAll(lreq', "decrAuthor")) =
                  DA + OneIf(new = "decrAuthor") - OneIf(lreq[r].at = "decrAuthor")
             /\ Cardinality(OwingAll(lreq', "incrAuthor")) =
                  IA + OneIf(new = "incrAuthor") - OneIf(lreq[r].at = "incrAuthor")
  <2>1. {"decr", "incr", "decrAuthor", "incrAuthor"} \subseteq Steps \ {"idle"}
    BY DEF Steps
  <2>2. \A at \in Steps \ {"idle"} :
              /\ Cardinality(OwingAll(lreq', at)) =
                   Cardinality(OwingAll(lreq, at)) + OneIf(at = new) - OneIf(at = lreq[r].at)
              /\ \A x \in Liked :
                   Cardinality(Owing(lreq', x, at)) =
                     Cardinality(Owing(lreq, x, at)) + OneIf(at = new /\ x = lreq[r].thing)
                       - OneIf(at = lreq[r].at /\ x = lreq[r].thing)
    BY <1>1, <1>4, OwingMoves DEF LikesInv
  <2> QED
    BY <2>1, <2>2 DEF OneIf
<1>5. /\ \A x \in Liked : /\ D(x) \in Nat /\ I(x) \in Nat /\ likes[x] \in Int
                          /\ Cardinality(RowsOf(rows, x)) \in Nat
      /\ DA \in Nat /\ IA \in Nat /\ authorLikes \in Int /\ Sum(likes, Liked) \in Int
      /\ Terms(likes, Liked)
  BY LikeNumbers
<1> DEFINE Fine == "redis" \notin spoiled /\ (kind = "note" => "like" \notin spoiled)
<1>6. /\ Fine => \A x \in Liked : Cardinality(RowsOf(rows, x)) + D(x) <= likes[x] + I(x)
      /\ kind = "note" /\ "redis" \notin spoiled => authorLikes + IA = Sum(likes, Liked) + DA
  BY DEF LikesInv, LikersOwed, AuthorOwed
<1>7. \A x \in Liked : RowsOf(rows', x) = { row \in rows' : row[2] = x }
  BY DEF RowsOf
<1> HIDE DEF D, I, DA, IA
<1>8. CASE Save(r)
  <2>1. /\ lreq[r].at = "save" /\ RowOf(r) \notin rows /\ rows' = rows \cup {RowOf(r)}
        /\ Goto(r, "incr") /\ UNCHANGED <<likes, authorLikes, mails, spoiled>>
    BY <1>8 DEF Save, LikeAt, statistics
  <2>2. RowOf(r) \in Likers \X Liked /\ RowOf(r)[2] = t
    BY <1>1 DEF RowOf
  <2>3. LikesTypeOK'
    BY <1>3, <2>1, <2>2 DEF LikesInv, LikesTypeOK, LikeReq
  <2>4. Cardinality(RowsOf(rows', t)) = Cardinality(RowsOf(rows, t)) + 1
    <3>1. RowsOf(rows', t) = RowsOf(rows, t) \cup {RowOf(r)} /\ RowOf(r) \notin RowsOf(rows, t)
      BY <2>1, <2>2 DEF RowsOf
    <3> QED
      BY <3>1, RowsFinite, FS_AddElement DEF LikesInv
  <2>5. \A x \in Liked : x # t => RowsOf(rows', x) = RowsOf(rows, x)
    BY <2>1, <2>2 DEF RowsOf
  <2>6. /\ \A x \in Liked : /\ Cardinality(Owing(lreq', x, "decr")) = D(x)
                            /\ Cardinality(Owing(lreq', x, "incr")) = I(x) + OneIf(x = t)
        /\ Cardinality(OwingAll(lreq', "decrAuthor")) = DA
        /\ Cardinality(OwingAll(lreq', "incrAuthor")) = IA
    BY <1>4, <1>5, <2>1 DEF OneIf, Steps
  <2>7. LikersOwed'
    <3> SUFFICES ASSUME Fine, NEW x \in Liked
                 PROVE  Cardinality(RowsOf(rows', x)) + Cardinality(Owing(lreq', x, "decr"))
                          <= likes[x] + Cardinality(Owing(lreq', x, "incr"))
      BY <1>3, <2>1 DEF LikersOwed
    <3>1. Cardinality(RowsOf(rows, x)) + D(x) <= likes[x] + I(x)
      BY <1>6
    <3>2. Cardinality(RowsOf(rows', x)) = Cardinality(RowsOf(rows, x)) + OneIf(x = t)
      BY <1>5, <2>4, <2>5 DEF OneIf
    <3> HIDE DEF t
    <3> QED
      BY <1>5, <2>6, <3>1, <3>2 DEF OneIf
  <2>8. AuthorOwed'
    BY <1>3, <1>6, <2>1, <2>6 DEF AuthorOwed
  <2> QED
    BY <1>3, <2>3, <2>7, <2>8 DEF LikesInv
<1>9. CASE Delete(r)
  <2> DEFINE gone == { row \in rows : row[2] = t }
  <2>1. /\ lreq[r].at = "delete" /\ rows' = rows \ gone
        /\ Goto(r, IF gone = {} THEN "idle" ELSE "decr")
        /\ UNCHANGED <<likes, authorLikes, mails, spoiled>>
    BY <1>9 DEF Delete, LikeAt, statistics
  <2>2. LikesTypeOK'
    BY <1>3, <2>1 DEF LikesInv, LikesTypeOK, LikeReq
  <2>3. /\ gone = RowsOf(rows, t) /\ RowsOf(rows', t) = {}
        /\ \A x \in Liked : x # t => RowsOf(rows', x) = RowsOf(rows, x)
    BY <2>1 DEF RowsOf
  <2>4. /\ Cardinality(RowsOf(rows', t)) = 0
        /\ gone # {} => Cardinality(RowsOf(rows, t)) >= 1
    BY <2>3, <1>1, <1>5, RowsFinite, FS_EmptySet DEF LikesInv
  <2>5. /\ \A x \in Liked : /\ Cardinality(Owing(lreq', x, "decr")) = D(x) + OneIf(gone # {} /\ x = t)
                            /\ Cardinality(Owing(lreq', x, "incr")) = I(x)
        /\ Cardinality(OwingAll(lreq', "decrAuthor")) = DA
        /\ Cardinality(OwingAll(lreq', "incrAuthor")) = IA
    <3> HIDE DEF gone
    <3> QED
      BY <1>4, <1>5, <2>1 DEF OneIf, Steps
  <2> HIDE DEF gone
  <2>6. LikersOwed'
    <3> SUFFICES ASSUME Fine, NEW x \in Liked
                 PROVE  Cardinality(RowsOf(rows', x)) + Cardinality(Owing(lreq', x, "decr"))
                          <= likes[x] + Cardinality(Owing(lreq', x, "incr"))
      BY <1>3, <2>1 DEF LikersOwed
    <3>1. Cardinality(RowsOf(rows, x)) + D(x) <= likes[x] + I(x)
      BY <1>6
    <3>2. Cardinality(RowsOf(rows', x)) + OneIf(gone # {} /\ x = t) <= Cardinality(RowsOf(rows, x))
      BY <1>5, <2>3, <2>4, FS_EmptySet DEF OneIf
    <3>3. Cardinality(RowsOf(rows', x)) \in Nat
      BY <1>5, <2>3, <2>4
    <3> HIDE DEF t
    <3> QED
      BY <1>5, <2>5, <3>1, <3>2, <3>3 DEF OneIf
  <2>7. AuthorOwed'
    BY <1>3, <1>6, <2>1, <2>5 DEF AuthorOwed
  <2> QED
    BY <1>3, <2>2, <2>6, <2>7 DEF LikesInv
<1>10. CASE Incr(r) \/ Decr(r)
  <2> DEFINE d == IF lreq[r].at = "incr" THEN 1 ELSE -1
  <2> DEFINE new == IF kind = "note" THEN (IF lreq[r].at = "incr" THEN "incrAuthor" ELSE "decrAuthor")
                    ELSE (IF lreq[r].at = "incr" THEN "message" ELSE "idle")
  <2>1. /\ lreq[r].at \in {"incr", "decr"} /\ likes' = [likes EXCEPT ![t] = @ + d]
        /\ Goto(r, new) /\ new \in Steps /\ UNCHANGED <<rows, authorLikes, mails, spoiled>>
    BY <1>1, <1>5, <1>10 DEF Incr, Decr, LikeAt, Steps
  <2>2. d \in Int /\ likes' \in [Liked -> Int] /\ likes'[t] = likes[t] + d
        /\ \A x \in Liked : x # t => likes'[x] = likes[x]
    BY <1>1, <2>1 DEF LikesInv, LikesTypeOK
  <2>3. LikesTypeOK'
    BY <1>3, <2>1, <2>2 DEF LikesInv, LikesTypeOK, LikeReq
  <2>4. /\ \A x \in Liked :
             /\ Cardinality(Owing(lreq', x, "decr")) = D(x) - OneIf(lreq[r].at = "decr" /\ x = t)
             /\ Cardinality(Owing(lreq', x, "incr")) = I(x) - OneIf(lreq[r].at = "incr" /\ x = t)
        /\ Cardinality(OwingAll(lreq', "decrAuthor")) = DA + OneIf(new = "decrAuthor")
        /\ Cardinality(OwingAll(lreq', "incrAuthor")) = IA + OneIf(new = "incrAuthor")
    <3>1. new \notin {"incr", "decr"} /\ lreq[r].at \notin {"incrAuthor", "decrAuthor"}
      BY <2>1
    <3> HIDE DEF new
    <3> QED
      BY <1>4, <1>5, <2>1, <3>1 DEF OneIf
  <2>5. \A x \in Liked : RowsOf(rows', x) = RowsOf(rows, x)
    BY <2>1 DEF RowsOf
  <2>6. LikersOwed'
    BY <1>1, <1>3, <1>5, <1>6, <2>1, <2>2, <2>4, <2>5 DEF LikersOwed, OneIf
  <2>7. Sum(likes', Liked) = Sum(likes, Liked) + d
    <3>1. Sum(likes', Liked) = Sum(likes, Liked) + likes'[t] - likes[t]
      BY <1>1, <1>5, <2>2, SumWithOne
    <3> QED
      BY <1>1, <1>5, <2>2, <3>1
  <2>8. AuthorOwed'
    BY <1>3, <1>5, <1>6, <2>1, <2>4, <2>7 DEF AuthorOwed, OneIf
  <2> QED
    BY <1>3, <2>3, <2>6, <2>8 DEF LikesInv
<1>11. CASE IncrAuthor(r) \/ DecrAuthor(r)
  <2>1. /\ lreq[r].at \in {"incrAuthor", "decrAuthor"}
        /\ authorLikes' = authorLikes + (IF lreq[r].at = "incrAuthor" THEN 1 ELSE -1)
        /\ Goto(r, IF lreq[r].at = "incrAuthor" THEN "message" ELSE "idle")
        /\ UNCHANGED <<rows, likes, mails, spoiled>>
    BY <1>5, <1>11 DEF IncrAuthor, DecrAuthor, LikeAt
  <2>2. LikesTypeOK'
    BY <1>3, <2>1 DEF LikesInv, LikesTypeOK, LikeReq
  <2>3. /\ \A x \in Liked : /\ Cardinality(Owing(lreq', x, "decr")) = D(x)
                            /\ Cardinality(Owing(lreq', x, "incr")) = I(x)
        /\ Cardinality(OwingAll(lreq', "decrAuthor")) = DA - OneIf(lreq[r].at = "decrAuthor")
        /\ Cardinality(OwingAll(lreq', "incrAuthor")) = IA - OneIf(lreq[r].at = "incrAuthor")
    BY <1>4, <1>5, <2>1 DEF OneIf, Steps
  <2>4. \A x \in Liked : RowsOf(rows', x) = RowsOf(rows, x)
    BY <2>1 DEF RowsOf
  <2>5. LikersOwed'
    BY <1>3, <1>6, <2>1, <2>3, <2>4 DEF LikersOwed
  <2>6. AuthorOwed'
    BY <1>3, <1>5, <1>6, <2>1, <2>3 DEF AuthorOwed, OneIf
  <2> QED
    BY <1>3, <2>2, <2>5, <2>6 DEF LikesInv
<1>12. CASE SaveFails(r) \/ Message(r) \/ MessageFails(r)
  <2>1. /\ lreq[r].at \in {"save", "message"} /\ UNCHANGED <<rows, likes, authorLikes>>
        /\ mails' \in {mails, mails + 1}
        /\ \/ spoiled' = spoiled /\ Goto(r, "idle")
           \/ spoiled' = spoiled \cup {"like"} /\ Goto(r, Catch)
    BY <1>12 DEF SaveFails, Message, MessageFails, LikeAt, statistics
  <2>2. LikesTypeOK'
    <3>1. mails' \in Nat
      BY <2>1 DEF LikesInv, LikesTypeOK
    <3>2. spoiled' \subseteq {"redis", "like"}
      BY <2>1 DEF LikesInv, LikesTypeOK
    <3> QED
      BY <1>3, <2>1, <3>1, <3>2 DEF LikesInv, LikesTypeOK, LikeReq
  <2>3. PICK new \in {"idle", "decr"} :
          /\ Goto(r, new)
          /\ new = "decr" => kind = "note" /\ spoiled' = spoiled \cup {"like"}
    BY <2>1 DEF Catch
  <2>4. /\ \A x \in Liked :
             /\ Cardinality(Owing(lreq', x, "decr")) = D(x) + OneIf(new = "decr" /\ x = t)
             /\ Cardinality(Owing(lreq', x, "incr")) = I(x)
        /\ Cardinality(OwingAll(lreq', "decrAuthor")) = DA
        /\ Cardinality(OwingAll(lreq', "incrAuthor")) = IA
    BY <1>4, <1>5, <2>1, <2>3 DEF OneIf, Steps
  <2>5. /\ \A x \in Liked : RowsOf(rows', x) = RowsOf(rows, x)
        /\ spoiled \subseteq spoiled' /\ ("redis" \in spoiled' => "redis" \in spoiled)
    BY <2>1 DEF RowsOf
  <2>6. LikersOwed'
    BY <1>3, <1>5, <1>6, <2>1, <2>3, <2>4, <2>5 DEF LikersOwed, OneIf
  <2>7. AuthorOwed'
    BY <1>3, <1>6, <2>1, <2>4, <2>5 DEF AuthorOwed
  <2> QED
    BY <1>3, <2>2, <2>6, <2>7 DEF LikesInv
<1>13. CASE RedisFails(r)
  <2>1. spoiled' = spoiled \cup {"redis"} /\ UNCHANGED <<rows, likes, authorLikes, mails>>
    BY <1>13 DEF RedisFails, statistics
  <2>2. LikesTypeOK'
    BY <1>3, <2>1 DEF LikesInv, LikesTypeOK, LikeReq
  <2> QED
    BY <1>3, <2>1, <2>2 DEF LikesInv, LikersOwed, AuthorOwed
<1> QED
  BY <1>8, <1>9, <1>10, <1>11, <1>12, <1>13

(* Every step preserves the invariant. *)
LEMMA LikesStep ==
  ASSUME LikesInv, [LikesNext]_likeVars
  PROVE  LikesInv'
<1>1. CASE LikesNext
  <2>1. PICK r \in LikeRequests :
          \/ \E u \in Likers, t \in Liked : BeginLike(r, u, t) \/ BeginUnlike(r, u, t)
          \/ Save(r) \/ SaveFails(r) \/ Incr(r) \/ IncrAuthor(r) \/ Message(r) \/ MessageFails(r)
          \/ Delete(r) \/ Decr(r) \/ DecrAuthor(r) \/ RedisFails(r)
    BY <1>1 DEF LikesNext
  <2> QED
    BY <2>1, BeginLikesRight, LikeStepRight DEF BeginLike, BeginUnlike
<1>2. CASE UNCHANGED likeVars
  <2>1. UNCHANGED <<kind, rows, likes, authorLikes, mails, lreq, begun, spoiled>>
    BY <1>2 DEF likeVars, statistics
  <2>2. LikersOwed'
    BY <2>1 DEF LikesInv, LikersOwed, RowsOf
  <2>3. AuthorOwed'
    BY <2>1 DEF LikesInv, AuthorOwed
  <2> QED
    BY <2>1, <2>2, <2>3 DEF LikesInv, LikesTypeOK, Named
<1> QED
  BY <1>1, <1>2

(* Likes and unlikes of any number of users may overlap or be refused: at    *)
(* rest the likes of an author are the likes of the notes together, and      *)
(* whoever likes something is counted there, unless redis has failed or, of  *)
(* notes, a like has (NoteStatService.createLike, deleteLike).               *)
THEOREM LikesAreCounted == LikesSpec => []LikesCounted
<1>1. ASSUME LikesInv, LikesAtRest
      PROVE  \A at \in Steps \ {"idle"} :
               /\ Cardinality(OwingAll(lreq, at)) = 0
               /\ \A t : Cardinality(Owing(lreq, t, at)) = 0
  <2>1. \A r \in LikeRequests : lreq[r].at = "idle"
    BY <1>1 DEF LikesAtRest, NoLike
  <2>2. \A at \in Steps \ {"idle"} : OwingAll(lreq, at) = {} /\ \A t : Owing(lreq, t, at) = {}
    BY <2>1 DEF OwingAll, Owing
  <2> QED
    BY <2>2, FS_EmptySet
<1>2. LikesInv => TotalsAgree
  <2> SUFFICES ASSUME LikesInv, kind = "note", LikesAtRest, "redis" \notin spoiled
               PROVE  authorLikes = Sum(likes, Liked)
    BY DEF TotalsAgree, Sum
  <2>1. authorLikes + 0 = Sum(likes, Liked) + 0
    BY <1>1 DEF LikesInv, AuthorOwed, Steps
  <2> QED
    BY <2>1, LikeNumbers
<1>3. LikesInv => LikersCounted
  <2> SUFFICES ASSUME LikesInv, LikesAtRest, "redis" \notin spoiled,
                      kind = "note" => "like" \notin spoiled, NEW t \in Liked
               PROVE  Cardinality(RowsOf(rows, t)) <= likes[t]
    BY DEF LikersCounted, RowsOf
  <2>1. Cardinality(RowsOf(rows, t)) + 0 <= likes[t] + 0
    BY <1>1 DEF LikesInv, LikersOwed, Steps
  <2> QED
    BY <2>1, LikeNumbers
<1>4. LikesInv => LikesCounted
  BY <1>2, <1>3 DEF LikesCounted
<1> QED
  BY <1>4, InitLikes, LikesStep, PTL DEF LikesSpec

--------------------------------------------------------------------------------
(* Maps *)

(* A behaviour of all requests on maps is one of each kind: what is proved   *)
(* of each of them is true of it.                                            *)
LEMMA MapsAreEach == MapsSpec => RaceSpec /\ TransferSpec /\ LikesSpec
<1>1. MapsInit => RaceInit /\ TransferInit /\ LikesInit
  BY DEF MapsInit
<1>2. [MapsNext]_mapsVars => [RaceNext]_raceVars /\ [TransferNext]_transferVars /\ [LikesNext]_likeVars
  BY DEF MapsNext, mapsVars, Requesting, Transferring, Crossing, Liking
<1> QED
  BY <1>1, <1>2, PTL DEF MapsSpec, RaceSpec, TransferSpec, LikesSpec

(* The rows of two maps, their counters and those of likes are well typed,   *)
(* however transfers overlap with each other and with other requests.        *)
THEOREM MapsTyped == MapsSpec => []MapsTypeOK
<1>1. LikesSpec => []LikesTypeOK
  <2>1. LikesInv => LikesTypeOK
    BY DEF LikesInv
  <2>2. LikesInv /\ [LikesNext]_likeVars => LikesInv'
    BY LikesStep
  <2> QED
    BY InitLikes, <2>1, <2>2, PTL DEF LikesSpec
<1>2. TransferTypeOK /\ LikesTypeOK <=> MapsTypeOK
  BY DEF MapsTypeOK
<1> QED
  BY MapsAreEach, TransfersKeepTypes, <1>1, <1>2, PTL
================================================================================
