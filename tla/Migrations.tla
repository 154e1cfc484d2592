------------------------------- MODULE Migrations -------------------------------
(***************************************************************************)
(* The migrations OptimizeMapShow and SupportCreatorCenter, which fill the *)
(* tables and columns they add from the rows that are there: the region of *)
(* each point, asked of a map service, the counts of the regions of each   *)
(* user, in pages of saves, the names of the points, and the likes of each *)
(* user.                                                                   *)
(*                                                                         *)
(* A migration that fails is not recorded, and is run again from its first *)
(* statement; MySQL has kept the tables that it created, so that creating  *)
(* them fails.  The renaming of columns and indexes is left out.           *)
(***************************************************************************)
EXTENDS Integers, FiniteSetsExt

CONSTANTS
  Owners,   \* the users
  Saves,    \* the psaveIds
  Points,   \* the points
  PointOf,  \* PointOf[s]: the point that s saves
  Codes,    \* the codes of provinces, cities and districts
  CodesOf,  \* CodesOf[p]: the three codes of p
  LikesOf,  \* LikesOf[s]: the likes of the note of s, 0 without a note
  PageSize, \* how many saves are read at a time
  Nameless  \* the name '' of a point

ASSUME MigrationConstants ==
  /\ Saves \subseteq Nat /\ IsFiniteSet(Saves) /\ Nameless \notin Saves
  /\ PointOf \in [Saves -> Points]
  /\ CodesOf \in [Points -> SUBSET Codes]
  /\ LikesOf \in [Saves -> Nat]
  /\ PageSize \in Nat \ {0}

VARIABLES
  stage,    \* the statement that comes next
  live,     \* the saves that are not deleted
  owner,    \* owner[s]: the user of s
  made,     \* the tables that are there, and "counts" once these are recorded
  coded,    \* the points with a code
  regions,  \* regions[u][c]: the counts of the row of u and c, 0 if none
  skip, left, \* the page that is read next, and how many saves are left
  names,    \* names[p]: the save whose name p has
  likes     \* likes[u]: noteLikes of u

migrationVars == <<stage, live, owner, made, coded, regions, skip, left, names, likes>>
saveRows      == <<live, owner>>
pages         == <<regions, skip, left>>

NoCounts == [u \in Owners |-> [c \in Codes |-> 0]]

MigrationInit ==
  /\ stage = "createRegions"
  /\ live \in SUBSET Saves
  /\ owner \in [Saves -> Owners]
  /\ made = {} /\ coded = {}
  /\ regions = NoCounts /\ skip = 0 /\ left = 0
  /\ names = [p \in Points |-> Nameless]
  /\ likes = [u \in Owners |-> 0]

(* The CREATE TABLE of a migration fails when an earlier run created it. *)
CreateTables ==
  /\ stage \in {"createRegions", "createPublics"}
  /\ made' = made \cup {stage}
  /\ stage' = IF stage \in made THEN "failed"
              ELSE IF stage = "createRegions" THEN "codes" ELSE "names"
  /\ UNCHANGED <<saveRows, coded, pages, names, likes>>

(* updatePointCode asks for the points that have no code yet. *)
Locate(p) ==
  /\ stage = "codes" /\ p \notin coded
  /\ coded' = coded \cup {p}
  /\ UNCHANGED <<stage, saveRows, made, pages, names, likes>>

StartCounts ==
  /\ stage = "codes" /\ coded = Points
  /\ stage' = "counts"
  /\ skip' = 0 /\ left' = Cardinality(live)
  /\ UNCHANGED <<saveRows, made, coded, regions, names, likes>>

(* The saves of S that are counted for u at c *)
SavesAt(S, u, c) == { s \in S : owner[s] = u /\ c \in CodesOf[PointOf[s]] }

(* What incrementPCP does for the saves of a page, one after the other *)
IncrementPCP(page) ==
  [u \in Owners |-> [c \in Codes |-> regions[u][c] + Cardinality(SavesAt(page, u, c))]]

(* Joined with their points, the saves come by their psaveId. *)
Position(s) == Cardinality({ x \in live : x <= s })

Page(from, take) == { s \in live : Position(s) \in (from + 1)..(from + take) }

(* The loop ends with the last save, and the migration with the loop. *)
Counted ==
  /\ stage' = IF left' = 0 THEN "createPublics" ELSE "counts"
  /\ made' = IF left' = 0 THEN made \cup {"counts"} ELSE made

(* Mutant: the offset is not moved, and the first page is read again. *)
CountPageAgain ==
  LET take == IF left > PageSize THEN PageSize ELSE left IN
  /\ stage = "counts"
  /\ regions' = IncrementPCP(Page(skip, take))
  /\ left' = left - take
  /\ Counted
  /\ UNCHANGED <<saveRows, coded, names, likes, skip>>

(* The body of the loop of updatePointCounts, in one transaction with the *)
(* others                                                                 *)
CountPage ==
  LET take == IF left > PageSize THEN PageSize ELSE left IN
  /\ stage = "counts"
  /\ regions' = IncrementPCP(Page(skip, take))
  /\ skip' = skip + take
  /\ left' = left - take
  /\ Counted
  /\ UNCHANGED <<saveRows, coded, names, likes>>

(* updateMapPoints: the first save that is found, deleted ones included *)
Name ==
  /\ stage = "names"
  /\ names' \in [Points -> Saves \cup {Nameless}]
  /\ \A p \in Points :
       LET found == { s \in Saves : PointOf[s] = p } IN
       names'[p] \in IF found = {} THEN {names[p]} ELSE found
  /\ stage' = "likes"
  /\ UNCHANGED <<saveRows, made, coded, pages, likes>>

SumOfLikes(u) ==
  MapThenSumSet(LAMBDA s : LikesOf[s], { s \in live : owner[s] = u })

(* updateUserNoteLikes *)
Likes ==
  /\ stage = "likes"
  /\ likes' = [u \in Owners |-> IF SumOfLikes(u) > 0 THEN SumOfLikes(u) ELSE likes[u]]
  /\ stage' = "done"
  /\ UNCHANGED <<saveRows, made, coded, pages, names>>

(* The map service does not answer, or a statement fails: the transaction *)
(* of the counts is rolled back, and nothing else.                        *)
Fail ==
  /\ stage \notin {"done", "failed"}
  /\ stage' = "failed"
  /\ regions' = IF stage = "counts" THEN NoCounts ELSE regions
  /\ UNCHANGED <<saveRows, made, coded, skip, left, names, likes>>

(* Migrations that are recorded are not run again. *)
RunAgain ==
  /\ stage = "failed"
  /\ stage' = IF "counts" \in made THEN "createPublics" ELSE "createRegions"
  /\ UNCHANGED <<saveRows, made, coded, pages, names, likes>>

MigrationNext ==
  \/ CreateTables \/ StartCounts \/ CountPage \/ Name \/ Likes \/ Fail \/ RunAgain
  \/ \E p \in Points : Locate(p)

MigrationSpec == MigrationInit /\ [][MigrationNext]_migrationVars

--------------------------------------------------------------------------------
(* Properties *)

MigrationsTypeOK ==
  /\ made \subseteq {"createRegions", "createPublics", "counts"}
  /\ coded \subseteq Points
  /\ \A u \in Owners : \A c \in Codes : regions[u][c] \in 0..Cardinality(Saves)
  /\ skip + left <= Cardinality(Saves)

(* Whatever the number of saves and the size of a page: when the first       *)
(* migration is through, the regions of each user count each of its saves    *)
(* once, the invariant that the ledger starts from; and when both are, so do *)
(* its likes, and every point that was saved has the name of one of its      *)
(* saves.  A run that fails after it has created its tables is no exception: *)
(* creating them again fails, so that it never gets through.                 *)
MigrationCounts ==
  /\ stage \in {"createPublics", "names", "likes", "done"} =>
       \A u \in Owners : \A c \in Codes : regions[u][c] =
         Cardinality(SavesAt(live, u, c))
  /\ stage = "done" =>
       /\ \A u \in Owners : likes[u] = SumOfLikes(u)
       /\ \A s \in Saves : names[PointOf[s]] # Nameless /\ PointOf[names[PointOf[s]]] = PointOf[s]
================================================================================
