--------------------------------- MODULE Tallies ---------------------------------
(***************************************************************************)
(* Clocking in at a point and sharing a map, a point or a note.  Both are  *)
(* transactions of isolation READ COMMITTED that look for the row of the   *)
(* user and the thing, insert it or raise it, and raise a statistic:       *)
(* goods, bads or shares of the point that the save descends from,         *)
(* mapShares of the user who shares, or shares of the note, in redis.      *)
(* Unique indexes, and not the locks of the handlers (RequestLock), stop   *)
(* the second insertion of a row.                                          *)
(*                                                                         *)
(* mapShares is raised in the row of user_stats, whose other columns are   *)
(* counted in redis: what was loaded there is written back once a day, all *)
(* columns of it (StatCache has the steps, and the like, or view, that     *)
(* loads it).  The shares of a note are raised by updateStat, by redis     *)
(* commands that other requests come between; here are the ones between    *)
(* which a number can be lost.                                             *)
(***************************************************************************)
EXTENDS Naturals, FiniteSetsExt

CONSTANTS
  Guests,      \* the users who clock in and share
  Points,      \* rows of point_saves
  PlaceAt,     \* PlaceAt[p]: the map point of p, which never changes
  Origin,      \* Origin[p]: the column ffpsaveId, the created point p comes from
  OwnerOf,     \* OwnerOf[p]: whose save p is
  Notes,
  Tallying,    \* requests in progress at a time
  Nil,
  MaxTallies   \* bound on the requests begun

ASSUME TallyConstants ==
  /\ IsFiniteSet(Guests) /\ IsFiniteSet(Points) /\ IsFiniteSet(Notes) /\ IsFiniteSet(Tallying)
  /\ Origin \in [Points -> Points]
  /\ Nil \notin Nat \cup Guests \cup Points \cup Notes
  /\ Points \cap Notes = {} /\ (Points \cup Notes) \cap Guests = {}
  /\ MaxTallies \in Nat

Feels  == {"goods", "bads"}
Things == Guests \cup Points \cup Notes  \* the map of a user, a point, a note

VARIABLES
  exists,     \* the saves that are not deleted
  clock,      \* clock[u, p]: the row of user_clocks, all zeros when there is none
  share,      \* share[u, t]: the column counts of map_shares, or 0 without a row
  stats,      \* stats[q]: goods, bads and shares of point_save_stats
  noteShares, \* noteShares[n]: the statistic shares of note n: the column of its
              \* row, the hash in redis or Nil, whether the master writes it back
  mapShares,  \* mapShares[u], a column of user_stats
  userHash,   \* userHash[u]: mapShares as loaded into redis, or Nil
  passed,     \* the saves whose column isPassed is true
  treq,       \* treq[r]: where request r is
  tbegun,
  stale,      \* the users whose row was overwritten by an older value
  unsure      \* the notes where updates were in each other's way (SharesOverlap)

tallyRows == <<clock, share, stats, noteShares, mapShares, passed>>
tallyVars == <<exists, clock, share, stats, noteShares, mapShares, userHash,
               passed, treq, tbegun, stale, unsure>>

ClockRow  == [Feels -> Nat]
StatRow   == [Feels \cup {"shares"} -> Nat]
NoteStat  == [saved : Nat, cached : Nat \cup {Nil}, syncing : BOOLEAN]
TallyReq  == [at : {"idle", "getSave", "find", "write", "exists", "read", "load", "add",
                    "commit", "message"},
              op : Feels \cup {"share", "other"}, user : Guests \cup {Nil},
              thing : Things \cup {Nil}, found : BOOLEAN, got : Nat \cup {Nil}]
NoTally   == [at |-> "idle", op |-> "share", user |-> Nil, thing |-> Nil, found |-> FALSE,
              got |-> Nil]

TalliesInit ==
  /\ exists = Points
  /\ clock = [up \in Guests \X Points |-> [f \in Feels |-> 0]]
  /\ share = [ut \in Guests \X Things |-> 0]
  /\ stats = [q \in Points |-> [f \in Feels \cup {"shares"} |-> 0]]
  /\ noteShares = [n \in Notes |-> [saved |-> 0, cached |-> Nil, syncing |-> FALSE]]
  /\ mapShares = [u \in Guests |-> 0]
  /\ userHash = [u \in Guests |-> Nil]
  /\ passed = {} /\ stale = {} /\ unsure = {}
  /\ treq = [r \in Tallying |-> NoTally]
  /\ tbegun = 0

Clocked(u, p)  == \E f \in Feels : clock[<<u, p>>][f] > 0
TallyAt(r, at) == treq[r].at = at
TallyGoto(r, at) ==
  treq' = [treq EXCEPT ![r] = IF at = "idle" THEN NoTally ELSE [@ EXCEPT !.at = at]]

BeginTally(r, u, t, op) ==
  /\ treq[r] = NoTally /\ tbegun < MaxTallies
  /\ op \in Feels => t \in Points
  /\ treq' = [treq EXCEPT ![r] = [NoTally EXCEPT
       !.at = IF op = "share" THEN "find" ELSE "getSave",
       !.op = op, !.user = u, !.thing = t]]
  /\ tbegun' = tbegun + 1
  /\ UNCHANGED <<exists, tallyRows, userHash, stale>>

(* PointSaveService.getOne throws when the save is deleted. *)
GetSave(r) ==
  /\ TallyAt(r, "getSave")
  /\ TallyGoto(r, IF treq[r].thing \in exists THEN "find" ELSE "idle")
  /\ UNCHANGED <<exists, tallyRows, userHash, tbegun, stale>>

(* The row of this user and this save, or this shared thing *)
FindRow(r) ==
  LET q == treq[r] IN
  /\ TallyAt(r, "find")
  /\ treq' = [treq EXCEPT ![r].at = "write",
                          ![r].found = IF q.op = "share" THEN share[<<q.user, q.thing>>] > 0
                                       ELSE Clocked(q.user, q.thing)]
  /\ UNCHANGED <<exists, tallyRows, userHash, tbegun, stale>>

(* Mutant: the statistic of the save itself is raised. *)
OriginItself(p) == p
(* Which row of point_save_stats counts what happens at save p *)
OriginOf(p) == Origin[p]

(* A first row is refused where the user has clocked in at the place before, *)
(* through whatever save: the index (userId, pointId).                       *)
MayInsertClock(u, p) == \A x \in Points : PlaceAt[x] = PlaceAt[p] => ~Clocked(u, x)

WriteClock(r) ==
  LET q == treq[r] IN
  /\ TallyAt(r, "write") /\ q.op \in Feels
  /\ q.found \/ MayInsertClock(q.user, q.thing)
  /\ clock' = [clock EXCEPT ![<<q.user, q.thing>>][q.op] = @ + 1]
  /\ passed' = IF ~q.found /\ q.user = OwnerOf[q.thing] THEN passed \cup {q.thing} ELSE passed
  /\ stats' = [stats EXCEPT ![OriginOf(q.thing)][q.op] = @ + 1]
  /\ TallyGoto(r, "message")
  /\ UNCHANGED <<exists, share, noteShares, mapShares, userHash, tbegun, stale>>

(* The message to the owner of the save; it may fail, and changes no tally.  *)
TellOwner(r) ==
  /\ TallyAt(r, "message")
  /\ TallyGoto(r, "idle")
  /\ UNCHANGED <<exists, tallyRows, userHash, tbegun, stale>>

MayInsertShare(q) == q.found \/ share[<<q.user, q.thing>>] = 0

(* MAP and POINT: row and statistic in one transaction *)
WriteShare(r) ==
  LET q == treq[r] IN
  /\ TallyAt(r, "write") /\ q.op = "share" /\ q.thing \notin Notes
  /\ MayInsertShare(q)
  /\ q.thing \in Points => q.thing \in exists
  /\ share' = [share EXCEPT ![<<q.user, q.thing>>] = @ + 1]
  /\ mapShares' = IF q.thing \in Guests THEN [mapShares EXCEPT ![q.user] = @ + 1] ELSE mapShares
  /\ stats' = IF q.thing \in Points THEN [stats EXCEPT ![OriginOf(q.thing)].shares = @ + 1]
              ELSE stats
  /\ TallyGoto(r, "idle")
  /\ UNCHANGED <<exists, clock, noteShares, userHash, passed, tbegun, stale>>

(* NOTE: the row is inserted or raised, and the statistic goes up in redis  *)
(* before the transaction commits.                                          *)
BeginNoteShares(r) ==
  LET q == treq[r] IN
  /\ TallyAt(r, "write") /\ q.op = "share" /\ q.thing \in Notes
  /\ MayInsertShare(q)
  /\ TallyGoto(r, "exists")
  /\ UNCHANGED <<exists, tallyRows, userHash, tbegun, stale>>

(* Another number of the note, in the same hash, is raised or shown. *)
BeginNoteStat(r, n) ==
  /\ treq[r] = NoTally /\ tbegun < MaxTallies
  /\ treq' = [treq EXCEPT ![r] = [NoTally EXCEPT !.at = "exists", !.op = "other", !.thing = n]]
  /\ tbegun' = tbegun + 1
  /\ UNCHANGED <<exists, tallyRows, userHash, stale>>

SharesShown(n) ==
  IF noteShares[n].cached = Nil THEN noteShares[n].saved ELSE noteShares[n].cached

FindNoteShares(r) ==
  /\ TallyAt(r, "exists")
  /\ TallyGoto(r, IF noteShares[treq[r].thing].cached = Nil THEN "read" ELSE "add")
  /\ UNCHANGED <<exists, tallyRows, userHash, tbegun, stale>>

(* getOne: the hash, if somebody has loaded it meanwhile, or the row *)
ReadNoteShares(r) ==
  /\ TallyAt(r, "read")
  /\ treq' = [treq EXCEPT ![r].at = "load", ![r].got = SharesShown(treq[r].thing)]
  /\ UNCHANGED <<exists, tallyRows, userHash, tbegun, stale>>

LoadNoteShares(r) ==
  /\ TallyAt(r, "load")
  /\ noteShares' = [noteShares EXCEPT ![treq[r].thing].cached = treq[r].got]
  /\ TallyGoto(r, "add")
  /\ UNCHANGED <<exists, clock, share, stats, mapShares, userHash, passed, tbegun, stale>>

(* HINCRBY takes a hash that is missing for 0. *)
SharesAdded(n, k) == (IF noteShares[n].cached = Nil THEN 0 ELSE noteShares[n].cached) + k

RaiseNoteShares(r) ==
  LET q == treq[r] IN
  /\ TallyAt(r, "add")
  /\ noteShares' = [noteShares EXCEPT ![q.thing].cached =
                     SharesAdded(q.thing, IF q.op = "share" THEN 1 ELSE 0)]
  /\ TallyGoto(r, IF q.op = "share" THEN "commit" ELSE "idle")
  /\ UNCHANGED <<exists, clock, share, stats, mapShares, userHash, passed, tbegun, stale>>

(* The rows that were inserted or raised are locked until here, so that an   *)
(* insertion cannot fail any more for a row of another request.              *)
CommitNoteShare(r) ==
  LET q == treq[r] IN
  /\ TallyAt(r, "commit")
  /\ MayInsertShare(q)
  /\ share' = [share EXCEPT ![<<q.user, q.thing>>] = @ + 1]
  /\ TallyGoto(r, "idle")
  /\ UNCHANGED <<exists, clock, stats, noteShares, mapShares, userHash, passed, tbegun, stale>>

(* A duplicate row, a save that is gone, or any other error: the rows are    *)
(* rolled back, and what redis has counted stays.                            *)
TallyFails(r) ==
  /\ treq[r].at \in {"write", "exists", "read", "load", "add", "commit"}
  /\ TallyGoto(r, "idle")
  /\ UNCHANGED <<exists, tallyRows, userHash, tbegun, stale>>

--------------------------------------------------------------------------------
(* Other requests and the master *)

DeletePoint(p) ==
  /\ p \in exists
  /\ exists' = exists \ {p}
  /\ UNCHANGED <<tallyRows, userHash, treq, tbegun, stale>>

(* A note of u is seen or liked. *)
LoadUserStat(u) ==
  /\ userHash[u] = Nil
  /\ userHash' = [userHash EXCEPT ![u] = mapShares[u]]
  /\ UNCHANGED <<exists, tallyRows, treq, tbegun, stale>>

SyncedShares(u) == userHash[u]

(* syncUserStatToDB writes the columns of the hash; a hash that was loaded   *)
(* to be shown is dropped by FLUSHALL.                                       *)
SyncUserStat(u) ==
  /\ userHash[u] # Nil
  /\ userHash' = [userHash EXCEPT ![u] = Nil]
  /\ \/ /\ mapShares' = [mapShares EXCEPT ![u] = SyncedShares(u)]
        /\ stale' = IF userHash[u] < mapShares[u] THEN stale \cup {u} ELSE stale
     \/ UNCHANGED <<mapShares, stale>>
  /\ UNCHANGED <<exists, clock, share, stats, noteShares, passed, treq, tbegun>>

(* The master begins to write the hash of a note back, and ends it with      *)
(* FLUSHALL.                                                                 *)
BeginNoteSync(n) ==
  /\ ~noteShares[n].syncing
  /\ noteShares' = [noteShares EXCEPT ![n].syncing = TRUE]
  /\ UNCHANGED <<exists, clock, share, stats, mapShares, userHash, passed, treq, tbegun, stale>>

EndNoteSync(n) ==
  /\ noteShares[n].syncing
  /\ noteShares' = [noteShares EXCEPT ![n] =
                     [saved |-> SharesShown(n), cached |-> Nil, syncing |-> FALSE]]
  /\ UNCHANGED <<exists, clock, share, stats, mapShares, userHash, passed, treq, tbegun, stale>>

(* The hash is deleted, and the statement that writes it fails. *)
NoteSyncLoses(n) ==
  /\ noteShares[n].syncing
  /\ noteShares' = [noteShares EXCEPT ![n].cached = Nil, ![n].syncing = FALSE]
  /\ UNCHANGED <<exists, clock, share, stats, mapShares, userHash, passed, treq, tbegun, stale>>

InShares(r, n) == treq[r].at \in {"read", "load", "add"} /\ treq[r].thing = n

(* As Overlap of StatCache: an update meets the synchronisation, or a        *)
(* request that has read the statistic to load the hash with it.             *)
SharesOverlap(n) ==
  \/ noteShares[n].syncing /\ \E r \in Tallying : InShares(r, n)
  \/ \E r, q \in Tallying :
       r # q /\ TallyAt(r, "load") /\ InShares(r, n) /\ InShares(q, n) /\ treq[q].op = "share"

TallyStep(r) ==
  \/ \E u \in Guests, t \in Things, op \in Feels \cup {"share"} : BeginTally(r, u, t, op)
  \/ \E n \in Notes : BeginNoteStat(r, n)
  \/ GetSave(r) \/ FindRow(r) \/ WriteClock(r) \/ TellOwner(r) \/ WriteShare(r)
  \/ BeginNoteShares(r) \/ FindNoteShares(r) \/ ReadNoteShares(r) \/ LoadNoteShares(r)
  \/ RaiseNoteShares(r) \/ CommitNoteShare(r) \/ TallyFails(r)

TalliesNext ==
  \/ /\ \/ \E r \in Tallying : TallyStep(r)
        \/ \E p \in Points : DeletePoint(p)
        \/ \E u \in Guests : LoadUserStat(u) \/ SyncUserStat(u)
        \/ \E n \in Notes : BeginNoteSync(n) \/ EndNoteSync(n)
     /\ unsure' = unsure \cup { n \in Notes : SharesOverlap(n)' }
  \/ \E n \in Notes : NoteSyncLoses(n) /\ unsure' = unsure \cup {n}

TalliesSpec == TalliesInit /\ [][TalliesNext]_tallyVars

--------------------------------------------------------------------------------
(* Properties *)

TalliesTypeOK ==
  /\ exists \subseteq Points /\ passed \subseteq Points /\ stale \subseteq Guests
  /\ unsure \subseteq Notes
  /\ clock \in [Guests \X Points -> ClockRow] /\ share \in [Guests \X Things -> Nat]
  /\ stats \in [Points -> StatRow] /\ noteShares \in [Notes -> NoteStat]
  /\ mapShares \in [Guests -> Nat] /\ userHash \in [Guests -> Nat \cup {Nil}]
  /\ treq \in [Tallying -> TallyReq]

Descendants(q) == { p \in Points : Origin[p] = q }

(* However first and later visits overlap, through whichever saves and also  *)
(* of saves that are deleted meanwhile: goods and bads of a point are what   *)
(* the rows of its visitors say, all saves of it together.                   *)
ClocksCounted ==
  \A q \in Points, f \in Feels :
    stats[q][f] = MapThenSumSet(LAMBDA up : clock[up][f], Guests \X Descendants(q))

(* A save is passed when its owner has clocked in there, and only then. *)
PassedByOwner ==
  \A p \in Points : OwnerOf[p] \in Guests => (p \in passed <=> Clocked(OwnerOf[p], p))

SharesOf(U, T) == MapThenSumSet(LAMBDA ut : share[ut], U \X T)

(* The shares of a point are those of its saves together; the shares of a    *)
(* note are never too low, for redis counts first, unless an update has met  *)
(* the synchronisation or another request that loads the hash; mapShares is  *)
(* never too high, and exact unless the synchronisation has overwritten it.  *)
SharesCounted ==
  /\ \A q \in Points : stats[q].shares = SharesOf(Guests, Descendants(q))
  /\ \A n \in Notes \ unsure : SharesShown(n) >= SharesOf(Guests, {n})
  /\ \A u \in Guests :
       /\ mapShares[u] <= SharesOf({u}, Guests)
       /\ u \notin stale => mapShares[u] = SharesOf({u}, Guests)

(* What is counted of visits and shares is what their rows say. *)
TalliesCounted == ClocksCounted /\ PassedByOwner /\ SharesCounted
================================================================================
