------------------------------- MODULE RowCaches -------------------------------
(***************************************************************************)
(* The copies of MySQL rows that are kept in redis: users, notes, and the  *)
(* lists of the public map of a city.  A read answers with the copy; when  *)
(* there is none it reads MySQL and writes the copy, in three statements.  *)
(* A change commits first and then drops the copy (users, public map) or   *)
(* reads the row again and overwrites it (notes).  Deleting a note, and    *)
(* the transfer of a map that gives its notes another owner, drop the copy *)
(* before they commit, and a login with a new name or picture changes the  *)
(* row of a user and leaves the copy.  A copy expires an hour later.       *)
(*                                                                         *)
(* A row is its version, the number of times it has been changed.  What a  *)
(* request serves besides the copy (statistics, likes) is left out.        *)
(***************************************************************************)
EXTENDS Integers, Sequences

CONSTANTS
  UserRows, NoteRows, \* the rows of users and notes
  PublicRows,         \* the lists of a city, in the order they are dropped
  Callers,            \* the requests; each starts anew when it has ended
  MaxWrites,          \* bound on the changes
  Absent              \* no copy, and the row of a deleted note

Publics == { PublicRows[i] : i \in DOMAIN PublicRows }
Rows    == UserRows \cup NoteRows \cup Publics

ASSUME CacheConstants ==
  /\ MaxWrites \in Nat
  /\ Absent \notin Nat
  /\ PublicRows \in Seq(Publics)
  /\ UserRows \cap NoteRows = {} /\ (UserRows \cup NoteRows) \cap Publics = {}

VARIABLES
  row,     \* row[k]: the version in MySQL
  copy,    \* copy[k]: the version in redis
  call,    \* call[r]: the request that r is making
  mixed,   \* mixed[k]: requests for k have overlapped or failed
  writes,  \* how many changes were asked for
  kind     \* the rows a behaviour is about; rows of two kinds share nothing

cacheVars == <<row, copy, call, mixed, writes, kind>>

Idle     == [op |-> "none", of |-> Absent, at |-> "idle", val |-> Absent, left |-> <<>>]

OfKind == [user |-> UserRows, note |-> NoteRows, public |-> Publics]
OpsOn  == [user |-> {"read", "updateUser", "login"},
           note |-> {"read", "updateNote", "deleteNote", "transferNote"},
           public |-> {"read", "transfer"}]

(* The rows that a request changes or reads *)
RowsOf(c)  == IF c.op = "transfer" THEN Publics ELSE {c.of}
Busy(k)    == { r \in Callers : call[r].at # "idle" /\ k \in RowsOf(call[r]) }

Proceed(r, l) == call' = [call EXCEPT ![r].at = l]
Ended(r)      == call' = [call EXCEPT ![r] = Idle]

(* What is mixed is forgotten once there is no copy and nobody at work. *)
Calm(k, c, others) == c[k] = Absent /\ others = {}

CacheInit ==
  /\ row = [k \in Rows |-> 0]
  /\ copy = [k \in Rows |-> Absent]
  /\ call = [r \in Callers |-> Idle]
  /\ mixed = [k \in Rows |-> FALSE]
  /\ writes = 0
  /\ kind \in DOMAIN OfKind

FirstStep == [read |-> "get", updateUser |-> "commit", login |-> "commit",
              updateNote |-> "commit", transfer |-> "commit",
              deleteNote |-> "change", transferNote |-> "change"]

(* deleteOne of a note finds it first. *)
Start(r, k, op) ==
  /\ call[r].at = "idle"
  /\ op = "deleteNote" => row[k] # Absent
  /\ op # "read" => writes < MaxWrites
  /\ writes' = IF op = "read" THEN writes ELSE writes + 1
  /\ LET c == [Idle EXCEPT !.op = op, !.of = k, !.at = FirstStep[op]] IN
     /\ call' = [call EXCEPT ![r] = c]
     /\ mixed' = [j \in Rows |->
          IF j \in RowsOf(c) THEN (mixed[j] /\ ~Calm(j, copy, Busy(j))) \/ Busy(j) # {}
          ELSE mixed[j]]
  /\ UNCHANGED <<row, copy, kind>>

(* A copy is the answer. *)
GetByCache(r) ==
  /\ call[r].at = "get"
  /\ IF copy[call[r].of] # Absent THEN Ended(r) ELSE Proceed(r, "read")
  /\ UNCHANGED <<row, copy, mixed, writes, kind>>

(* The row is read; a deleted note ends the request. *)
ReadRow(r) ==
  /\ call[r].at = "read"
  /\ IF row[call[r].of] = Absent THEN Ended(r)
     ELSE call' = [call EXCEPT ![r].at = "cache", ![r].val = row[call[r].of]]
  /\ UNCHANGED <<row, copy, mixed, writes, kind>>

(* cache, cacheCitys, cacheCitySorts, cacheCitySortPoints *)
Cache(r) ==
  /\ call[r].at = "cache"
  /\ copy' = [copy EXCEPT ![call[r].of] = call[r].val]
  /\ Ended(r)
  /\ UNCHANGED <<row, mixed, writes, kind>>

(* Who is in the transaction that deletes or transfers note k holds its row. *)
InTransaction == {"deleteNote", "transferNote"}

Held(k) == \E q \in Callers :
  call[q].op \in InTransaction /\ call[q].of = k /\ call[q].at \in {"uncache", "commit"}

SoftDelete(r) ==
  /\ call[r].op = "deleteNote" /\ call[r].at = "change" /\ ~Held(call[r].of)
  /\ call' = [call EXCEPT ![r].at = "uncache", ![r].left = <<call[r].of>>]
  /\ UNCHANGED <<row, copy, mixed, writes, kind>>

(* userTranfer gives a note another owner, and finds those that are not      *)
(* deleted to drop their copies.                                             *)
ReassignNote(r) ==
  LET k == call[r].of IN
  /\ call[r].op = "transferNote" /\ call[r].at = "change" /\ ~Held(k)
  /\ IF row[k] = Absent THEN Ended(r)
     ELSE call' = [call EXCEPT ![r].at = "uncache", ![r].left = <<k>>]
  /\ UNCHANGED <<row, copy, mixed, writes, kind>>

(* Mutant: the change of a user ends without dropping the copy. *)
CommitOnly(r) ==
  LET k == call[r].of IN
  /\ call[r].op = "updateUser" /\ call[r].at = "commit"
  /\ row' = [row EXCEPT ![k] = row[k] + 1]
  /\ Ended(r)
  /\ UNCHANGED <<copy, mixed, writes, kind>>

(* updateOne of a user, and userTranfer: the copies are dropped afterwards. *)
CommitThenUncache(r) ==
  LET c == call[r] IN
  /\ c.op \in {"updateUser", "transfer"} /\ c.at = "commit"
  /\ row' = [k \in Rows |-> IF k \in RowsOf(c) THEN row[k] + 1 ELSE row[k]]
  /\ call' = [call EXCEPT ![r].at = "uncache",
                          ![r].left = IF c.op = "transfer" THEN PublicRows ELSE <<c.of>>]
  /\ UNCHANGED <<copy, mixed, writes, kind>>

(* createOne of a user who exists: the name and picture of the login *)
CommitLogin(r) ==
  /\ call[r].op = "login" /\ call[r].at = "commit"
  /\ row' = [row EXCEPT ![call[r].of] = @ + 1]
  /\ mixed' = [mixed EXCEPT ![call[r].of] = TRUE]
  /\ Ended(r)
  /\ UNCHANGED <<copy, writes, kind>>

(* updateOne of a note changes deleted rows as well, and then throws. *)
CommitThenRead(r) ==
  LET k == call[r].of IN
  /\ call[r].op = "updateNote" /\ call[r].at = "commit" /\ ~Held(k)
  /\ row' = [row EXCEPT ![k] = IF @ = Absent THEN Absent ELSE @ + 1]
  /\ Proceed(r, "read")
  /\ UNCHANGED <<copy, mixed, writes, kind>>

CommitDelete(r) ==
  /\ call[r].op = "deleteNote" /\ call[r].at = "commit"
  /\ row' = [row EXCEPT ![call[r].of] = Absent]
  /\ Ended(r)
  /\ UNCHANGED <<copy, mixed, writes, kind>>

CommitTransfer(r) ==
  /\ call[r].op = "transferNote" /\ call[r].at = "commit"
  /\ row' = [row EXCEPT ![call[r].of] = IF @ = Absent THEN Absent ELSE @ + 1]
  /\ Ended(r)
  /\ UNCHANGED <<copy, mixed, writes, kind>>

(* Mutant: the calls do not end with the last list. *)
UncacheBeyond(r) ==
  LET c == call[r] IN
  /\ c.at = "uncache"
  /\ copy' = [copy EXCEPT ![Head(c.left)] = Absent]
  /\ call' = [call EXCEPT ![r].left = Tail(@)]
  /\ UNCHANGED <<row, mixed, writes, kind>>

(* uncache, and the calls of clearPublicCache one after the other *)
Uncache(r) ==
  LET c == call[r] IN
  /\ c.at = "uncache"
  /\ copy' = [copy EXCEPT ![Head(c.left)] = Absent]
  /\ call' = [call EXCEPT ![r] =
       IF Len(c.left) > 1 THEN [c EXCEPT !.left = Tail(@)]
       ELSE IF c.op \in InTransaction THEN [c EXCEPT !.at = "commit", !.left = <<>>] ELSE Idle]
  /\ UNCHANGED <<row, mixed, writes, kind>>

(* A statement fails or the worker dies: what is not committed is undone. *)
Fail(r) ==
  /\ call[r].at # "idle"
  /\ mixed' = [k \in Rows |-> mixed[k] \/ k \in RowsOf(call[r])]
  /\ Ended(r)
  /\ UNCHANGED <<row, copy, writes, kind>>

(* Mutant: the copy is written without a time to live. *)
KeepForever(k) == copy[k] # Absent /\ UNCHANGED cacheVars

ExpireCopy(k) ==
  /\ copy[k] # Absent
  /\ copy' = [copy EXCEPT ![k] = Absent]
  /\ UNCHANGED <<row, call, mixed, writes, kind>>

Step(r) ==
  \/ GetByCache(r) \/ ReadRow(r) \/ Cache(r) \/ SoftDelete(r) \/ Uncache(r)
  \/ CommitThenUncache(r) \/ CommitLogin(r) \/ CommitThenRead(r) \/ CommitDelete(r)
  \/ ReassignNote(r) \/ CommitTransfer(r)

CacheNext ==
  \/ \E r \in Callers : Step(r) \/ Fail(r)
  \/ \E r \in Callers : \E k \in OfKind[kind] : \E op \in OpsOn[kind] : Start(r, k, op)
  \/ \E k \in Rows : ExpireCopy(k)

CacheSpec == CacheInit /\ [][CacheNext]_cacheVars

(* Requests run on, and redis drops what has expired. *)
CacheFairness ==
  /\ \A r \in Callers : WF_cacheVars(Step(r))
  /\ \A k \in Rows : WF_cacheVars(ExpireCopy(k))

FairCacheSpec == CacheSpec /\ CacheFairness

--------------------------------------------------------------------------------
(* Properties *)

CachesTypeOK ==
  /\ row \in [Rows -> Nat \cup {Absent}]
  /\ copy \in [Rows -> Nat \cup {Absent}]
  /\ mixed \in [Rows -> BOOLEAN]
  /\ \A r \in Callers :
       /\ call[r].at \in {"idle", "get", "read", "cache", "change", "commit", "uncache"}
       /\ call[r].at = "cache" => call[r].val \in Nat
       /\ call[r].at = "uncache" <=> call[r].left # <<>>

Fresh(k) == copy[k] \in {Absent, row[k]}

(* While the requests for a row come one after the other and none fails, a  *)
(* copy that differs from its row belongs to a change that is still on its  *)
(* way to it; no login has changed the row either.                          *)
CacheFresh ==
  \A k \in Rows : Fresh(k) \/ mixed[k]
    \/ \E r \in Busy(k) : call[r].op # "read" /\ call[r].at \in {"uncache", "read", "cache"}

(* However requests overlap and fail, logins included: once nobody changes  *)
(* the rows any more, every copy in redis is or becomes that of the row.    *)
CachesCatchUp == <>[](\A k \in Rows : Fresh(k))
================================================================================
