---------------------------- MODULE StatCacheProofs ----------------------------
(***************************************************************************)
(* Proofs about StatCache, for any number of requests and of updates and   *)
(* whatever overlaps or fails: the types, and that a statistic of a note   *)
(* or of a user is never more than what was counted.  A value on its way   *)
(* (read by a request, or by the callback that writes it back) is as old   *)
(* as it may be and never more than what was counted when it was read.     *)
(*                                                                         *)
(* As long as nothing has been in each other's way, a statistic is exact,  *)
(* wherever it is at the moment (in the hash, on its way back to the       *)
(* database, or in the row), and what differs from the row is marked for   *)
(* the synchronisation.  And StatCache implements Statistic, whatever      *)
(* happens.                                                                *)
(***************************************************************************)
EXTENDS StatCache, TLAPS

(* What is taken off the hints is a number, what is written back is one,    *)
(* and only the hints are read again before they are written back.          *)
OnItsWay ==
  /\ \A r \in Requests : req[r].at \in {"hintRow", "hintUpdate"} => req[r].got \in Nat
  /\ job.at = "write" => job.val \in Int
  /\ job.at = "row" => kind = "hint"

Typed == TypeOK /\ OnItsWay

(* A number is lowered, by whatever is deleted at a time. *)
SomeLower(r) == \E n \in 1..MaxUpdates : BeginLower(r, n)

(* At the start nothing is counted and nothing is on its way. *)
LEMMA InitTyped == Init => Typed
<1>1. Idle \in ReqRow /\ NoJob \in JobRow
  BY DEF Idle, NoJob, ReqRow, JobRow
<1>2. Idle.at = "done" /\ NoJob.at = "none"
  BY DEF Idle, NoJob
<1> SUFFICES ASSUME Init
             PROVE  Typed
  OBVIOUS
<1>3. req \in [Requests -> ReqRow] /\ \A r \in Requests : req[r].at = "done"
  BY <1>1, <1>2 DEF Init
<1>4. OnItsWay
  BY <1>2, <1>3 DEF Init, OnItsWay
<1> QED
  BY <1>1, <1>3, <1>4 DEF Init, Typed, TypeOK

(* A step that writes one request's row, with a value of the right kind,    *)
(* keeps the rows of all requests.                                          *)
LEMMA RowsKept ==
  ASSUME Typed, NEW r \in Requests, NEW new \in ReqRow,
         new.at \in {"hintRow", "hintUpdate"} => new.got \in Nat,
         req' = [req EXCEPT ![r] = new]
  PROVE  /\ req' \in [Requests -> ReqRow]
         /\ \A q \in Requests : req'[q].at \in {"hintRow", "hintUpdate"} => req'[q].got \in Nat
BY DEF Typed, TypeOK, OnItsWay

Stages == {"done", "exists", "hgetall", "dbread", "cache", "hmset", "sadd",
           "hincrby", "hintRow", "hintUpdate", "hintHash"}

RowWith(r, at, v) == [req[r] EXCEPT !.at = at, !.got = v]

(* Goto and Get write such a row. *)
LEMMA RowType ==
  ASSUME Typed, NEW r \in Requests, NEW v \in Int \cup {None}, NEW at \in Stages
  PROVE  RowWith(r, at, v) \in ReqRow /\ RowWith(r, at, v).at = at /\ RowWith(r, at, v).got = v
<1>1. req[r] \in ReqRow
  BY DEF Typed, TypeOK
<1>2. RowWith(r, at, v) \in ReqRow
  BY <1>1 DEF ReqRow, Stages, RowWith
<1> QED
  BY <1>1, <1>2 DEF ReqRow, RowWith

RowsTyped(rows) ==
  /\ rows \in [Requests -> ReqRow]
  /\ \A q \in Requests : rows[q].at \in {"hintRow", "hintUpdate"} => rows[q].got \in Nat

(* A request keeps the types: first those of the requests' rows ... *)
LEMMA RequestRows ==
  ASSUME Typed, NEW r \in Requests, RequestStep(r)
  PROVE  RowsTyped(req')
<1> USE DEF RowsTyped
<1>0. req[r] \in ReqRow /\ req[r].got \in Int \cup {None} /\ None \in Int \cup {None}
  BY DEF Typed, TypeOK, ReqRow
<1>1. ASSUME NEW at \in {"done", "exists", "hgetall", "dbread", "cache", "hmset", "sadd",
                         "hincrby", "hintHash"}, Goto(r, at)
      PROVE  RowsTyped(req')
  <2> DEFINE new == IF at = "done" THEN Idle ELSE [req[r] EXCEPT !.at = at]
  <2>1. req' = [req EXCEPT ![r] = new]
    BY <1>0, <1>1 DEF Goto, Idle, Typed, TypeOK
  <2>2. new \in ReqRow /\ new.at = at
    BY <1>0 DEF ReqRow, Idle
  <2> HIDE DEF new
  <2> QED
    BY <2>1, <2>2, RowsKept
<1>2. ASSUME NEW at \in {"done", "dbread", "cache", "hmset", "hincrby", "hintUpdate"},
             NEW v \in Int \cup {None}, Get(r, v, at), at = "hintUpdate" => v \in Nat
      PROVE  RowsTyped(req')
  <2>1. req' = [req EXCEPT ![r] = RowWith(r, at, v)]
    BY <1>0, <1>2 DEF Get, RowWith, Typed, TypeOK, ReqRow
  <2>2. at \in Stages
    BY DEF Stages
  <2>3. RowWith(r, at, v) \in ReqRow /\ RowWith(r, at, v).at = at /\ RowWith(r, at, v).got = v
    BY <2>2, RowType
  <2> QED
    BY <1>2, <2>1, <2>3, RowsKept
<1>3. ASSUME NEW op \in Updates \cup {"show"}, NEW at \in {"exists", "hgetall", "hintRow"},
             NEW v \in Int \cup {None}, NEW by \in Nat, Begin(r, op, at, v, by),
             at = "hintRow" => v \in Nat
      PROVE  RowsTyped(req')
  <2> DEFINE new == [op |-> op, at |-> at, got |-> v, by |-> by]
  <2>1. new \in ReqRow /\ (new.at \in {"hintRow", "hintUpdate"} => new.got \in Nat)
    BY <1>3 DEF ReqRow
  <2>2. req' = [req EXCEPT ![r] = new]
    BY <1>3 DEF Begin
  <2> HIDE DEF new
  <2> QED
    BY <2>1, <2>2, RowsKept
<1>4. CASE BeginRaise(r) \/ SomeLower(r) \/ BeginShow(r)
  <2>1. CASE BeginRaise(r) \/ BeginShow(r)
    BY <1>0, <1>3, <2>1 DEF BeginRaise, BeginShow, Updates
  <2>2. CASE SomeLower(r)
    <3>1. PICK n \in 1..MaxUpdates : BeginLower(r, n)
      BY <2>2 DEF SomeLower
    <3>2. n \in Nat /\ Begin(r, "lower", "exists", None, n)
      BY <3>1, StatConstants DEF BeginLower
    <3> QED
      BY <1>0, <1>3, <3>2 DEF Updates
  <2> QED
    BY <1>4, <2>1, <2>2
<1>5. ASSUME NEW n \in 0..unread, BeginMarkRead(r, n)
      PROVE  RowsTyped(req')
  <2>1. n \in Nat
    BY DEF Typed, TypeOK
  <2> QED
    BY <1>3, <1>5, <2>1 DEF BeginMarkRead, Updates
<1>6. CASE Exists(r) \/ Cache(r) \/ Hmset(r) \/ Sadd(r) \/ Hincrby(r) \/ HintUpdate(r) \/ HintHash(r)
  BY <1>1, <1>6 DEF Exists, Found, Cache, Loaded, Hmset, Sadd, Hincrby, HintUpdate, HintHash
<1>7. CASE GetByCache(r) \/ FindOne(r)
  BY <1>2, <1>7 DEF GetByCache, FindOne, Loaded, Typed, TypeOK
<1>8. CASE HintRow(r)
  <2>1. (IF db >= req[r].got THEN db - req[r].got ELSE 0) \in Nat
    BY <1>8 DEF HintRow, At, Typed, TypeOK, OnItsWay
  <2> QED
    BY <1>2, <1>8, <2>1 DEF HintRow
<1> QED
  BY <1>4, <1>5, <1>6, <1>7, <1>8 DEF RequestStep, SomeLower

(* ... and then the others. *)
LEMMA RequestTyped ==
  ASSUME Typed, NEW r \in Requests, RequestStep(r), disturbed' \in BOOLEAN
  PROVE  Typed'
<1>1. RowsTyped(req')
  BY RequestRows
<1>2. req[r].got \in Int \cup {None} /\ (req[r].at = "hintUpdate" => req[r].got \in Nat)
  BY DEF Typed, TypeOK, OnItsWay, ReqRow
<1>3. /\ kind' = kind /\ job' = job /\ syncing' = syncing
      /\ changed' \in BOOLEAN /\ db' \in Nat /\ hash' \in Int \cup {None}
  <2> USE <1>2 DEF Typed, TypeOK, stored, master
  <2>1. CASE BeginRaise(r) \/ SomeLower(r) \/ BeginShow(r) \/ \E n \in 0..unread : BeginMarkRead(r, n)
    BY <2>1 DEF BeginRaise, SomeLower, BeginLower, BeginShow, BeginMarkRead, Begin
  <2>2. CASE Exists(r) \/ GetByCache(r) \/ FindOne(r) \/ HintRow(r)
    BY <2>2 DEF Exists, GetByCache, FindOne, HintRow
  <2>3. CASE Cache(r) \/ Hmset(r) \/ Sadd(r)
    BY <2>3 DEF Cache, Hmset, Sadd
  <2>4. CASE Hincrby(r)
    BY <2>4 DEF Hincrby, Added
  <2>5. CASE HintUpdate(r) \/ HintHash(r)
    BY <2>5 DEF HintUpdate, HintHash, At
  <2> QED
    BY <2>1, <2>2, <2>3, <2>4, <2>5 DEF RequestStep, SomeLower
<1>4. raised' \in Nat /\ lowered' \in Nat /\ unread' \in Nat /\ started' \in Nat
  <2> USE DEF Typed, TypeOK, counted
  <2>1. CASE BeginRaise(r) \/ SomeLower(r) \/ BeginShow(r) \/ \E n \in 0..unread : BeginMarkRead(r, n)
    BY <2>1 DEF BeginRaise, SomeLower, BeginLower, BeginShow, BeginMarkRead, Begin
  <2>2. CASE Hincrby(r)
    BY <2>2 DEF Hincrby, ReqRow
  <2>3. CASE UNCHANGED counted
    BY <2>3
  <2> QED
    BY <2>1, <2>2, <2>3 DEF RequestStep, SomeLower, Exists, GetByCache, FindOne, HintRow, Cache, Hmset,
                            Sadd, HintUpdate, HintHash
<1> QED
  BY <1>1, <1>3, <1>4 DEF Typed, TypeOK, OnItsWay, RowsTyped

(* So does the master, which writes no negative value. *)
LEMMA MasterTyped == ASSUME Typed, MasterStep, disturbed' \in BOOLEAN PROVE Typed'
<1> USE DEF Typed, TypeOK, OnItsWay, JobRow, NoJob, stored, counted, master
<1>1. CASE Pop
  <2>1. job' \in JobRow /\ job'.at \in {"none", "hgetall"}
    BY <1>1 DEF Pop
  <2> QED
    BY <1>1, <2>1 DEF Pop
<1>2. CASE Flush
  BY <1>2 DEF Flush
<1>3. CASE SaveHgetall
  BY <1>3 DEF SaveHgetall
<1>4. CASE SaveDel
  BY <1>4 DEF SaveDel
<1>5. CASE SaveRow
  BY <1>5 DEF SaveRow
<1>6. CASE SaveWrite
  BY <1>6 DEF SaveWrite, Written
<1>7. CASE SyncFails
  BY <1>7 DEF SyncFails
<1> QED
  BY <1>1, <1>2, <1>3, <1>4, <1>5, <1>6, <1>7 DEF MasterStep

(* And so do failures, which only end what was in progress. *)
LEMMA NextTyped == Typed /\ [Next]_vars => Typed'
<1> SUFFICES ASSUME Typed, [Next]_vars
             PROVE  Typed'
  OBVIOUS
<1>1. CASE ((\E r \in Requests : RequestStep(r)) \/ MasterStep)
           /\ disturbed' = (disturbed \/ Overlap')
  <2>1. disturbed' \in BOOLEAN
    BY <1>1 DEF Typed, TypeOK
  <2> QED
    BY <1>1, <2>1, RequestTyped, MasterTyped
<1>2. CASE (\E r \in Requests : RequestFails(r)) /\ disturbed' = (disturbed \/ kind = "hint")
  BY <1>2 DEF RequestFails, Finish, Idle, Typed, TypeOK, OnItsWay, ReqRow, Updates,
              stored, counted, master
<1>3. CASE SaveFails /\ disturbed' = TRUE
  BY <1>3 DEF SaveFails, NoJob, Typed, TypeOK, OnItsWay, JobRow, stored, counted
<1>4. CASE UNCHANGED vars
  BY <1>4 DEF vars, Typed, TypeOK, OnItsWay
<1> QED
  BY <1>1, <1>2, <1>3, <1>4 DEF Next

(* The columns are never written with a negative value, whatever HINCRBY    *)
(* makes of the hash, and every value read on the way is a number.          *)
THEOREM StatTyped == Spec => []TypeOK
<1>1. Typed => TypeOK
  BY DEF Typed
<1> QED
  BY InitTyped, NextTyped, <1>1, PTL DEF Spec

--------------------------------------------------------------------------------

(* No copy of a statistic, stored or on its way, exceeds what was counted.  *)
Bounded(v) == v # None => v <= raised

NoCopyOver ==
  kind = "stat" =>
    /\ Bounded(db) /\ Bounded(hash) /\ Bounded(job.val)
    /\ \A r \in Requests : Bounded(req[r].got)

(* Whatever a request copies was bounded before, and HINCRBY raises the     *)
(* count with the hash.                                                     *)
LEMMA RequestBounded ==
  ASSUME Typed, NoCopyOver, NEW r \in Requests, RequestStep(r)
  PROVE  NoCopyOver'
<1> USE StatConstants DEF Typed, TypeOK, NoCopyOver, Bounded, ReqRow, JobRow, stored, counted, master
<1>1. CASE BeginRaise(r) \/ SomeLower(r) \/ BeginShow(r)
  BY <1>1 DEF BeginRaise, SomeLower, BeginLower, BeginShow, Begin
<1>2. ASSUME NEW n \in 0..unread, BeginMarkRead(r, n)
      PROVE  NoCopyOver'
  BY <1>2 DEF BeginMarkRead, Begin
<1>3. CASE Exists(r)
  BY <1>3 DEF Exists, Goto, Idle
<1>4. CASE GetByCache(r) \/ FindOne(r)
  BY <1>4 DEF GetByCache, FindOne, Get
<1>5. CASE Cache(r) \/ Hmset(r)
  BY <1>5 DEF Cache, Hmset, Goto, Idle
<1>6. CASE Sadd(r)
  BY <1>6 DEF Sadd, Goto, Idle
<1>7. CASE Hincrby(r)
  <2>1. raised' \in Nat /\ raised' >= raised
    BY <1>7 DEF Hincrby
  <2>2. kind = "stat" => hash' <= raised'
    BY <1>7 DEF Hincrby, Added
  <2> QED
    BY <1>7, <2>1, <2>2 DEF Hincrby, Goto, Idle
<1>8. CASE HintRow(r)
  BY <1>8 DEF HintRow, Get, At, OnItsWay
<1>9. CASE HintUpdate(r) \/ HintHash(r)
  BY <1>9 DEF HintUpdate, HintHash, Goto, Idle, At, OnItsWay
<1> QED
  BY <1>1, <1>2, <1>3, <1>4, <1>5, <1>6, <1>7, <1>8, <1>9 DEF RequestStep, SomeLower

(* What the master writes back is what it has read. *)
LEMMA MasterBounded == ASSUME Typed, NoCopyOver, MasterStep PROVE NoCopyOver'
<1> USE StatConstants DEF Typed, TypeOK, NoCopyOver, Bounded, JobRow, NoJob, stored, counted, master
<1>1. CASE Pop \/ Flush \/ SyncFails
  BY <1>1 DEF Pop, Flush, SyncFails
<1>2. CASE SaveHgetall
  BY <1>2 DEF SaveHgetall
<1>3. CASE SaveDel
  BY <1>3 DEF SaveDel
<1>4. CASE SaveRow
  BY <1>4 DEF SaveRow, OnItsWay
<1>5. CASE SaveWrite
  BY <1>5 DEF SaveWrite, Written, OnItsWay
<1> QED
  BY <1>1, <1>2, <1>3, <1>4, <1>5 DEF MasterStep

(* At the start nothing is counted, and no copy says more. *)
LEMMA InitBounded == Init => NoCopyOver
BY StatConstants DEF Init, NoCopyOver, Bounded, Idle, NoJob

(* Every step preserves that no copy says more than what was counted. *)
LEMMA NextBounded == NoCopyOver /\ Typed /\ [Next]_vars => NoCopyOver'
<1> SUFFICES ASSUME NoCopyOver, Typed, [Next]_vars
             PROVE  NoCopyOver'
  OBVIOUS
<1>1. ASSUME NEW r \in Requests, RequestFails(r)
      PROVE  NoCopyOver'
  BY <1>1 DEF RequestFails, Finish, Idle, NoCopyOver, Bounded, stored, counted, master,
              Typed, TypeOK
<1>2. CASE SaveFails
  BY <1>2 DEF SaveFails, NoJob, NoCopyOver, Bounded, stored, counted
<1>3. CASE UNCHANGED vars
  BY <1>3 DEF vars, NoCopyOver, Bounded
<1> QED
  BY <1>1, <1>2, <1>3, RequestBounded, MasterBounded DEF Next

(* A statistic of a note or of a user never says more than was counted, for *)
(* any number of requests that overlap with each other, with the daily      *)
(* synchronisation and with its flush, and with failures at any step.       *)
THEOREM StatsNeverOver == Spec => []StatNeverOver
<1>1. NoCopyOver /\ Typed => StatNeverOver
  BY StatConstants DEF NoCopyOver, Bounded, StatNeverOver, Typed, TypeOK
<1> QED
  BY <1>1, InitTyped, NextTyped, InitBounded, NextBounded, PTL DEF Spec

--------------------------------------------------------------------------------
(* Exactness *)

(* What ~disturbed stands for: nothing overlaps now. *)
Undisturbed == ~disturbed => ~Overlap

(* The steps of a request, if hints are left aside, and of one that only *)
(* shows a number                                                        *)
StatSteps == {"done", "exists", "hgetall", "dbread", "cache", "hmset", "sadd", "hincrby"}
ShowSteps == {"done", "hgetall", "dbread", "cache"}

StatRequests ==
  kind # "hint" =>
    /\ \A r \in Requests :
         /\ req[r].at \in StatSteps /\ req[r].op \in {"raise", "lower", "show"}
         /\ req[r].op = "show" => req[r].at \in ShowSteps
         /\ kind = "comment" => req[r].at \notin {"hgetall", "cache"}
         /\ kind = "comment" /\ req[r].op = "show" => req[r].at = "done"
    /\ job.at \in {"none", "hgetall", "del", "write"}
    /\ job.at = "none" => job = NoJob

Current == raised - lowered

(* What the callback carries is the hash that it is about to delete, or has, *)
(* and nothing is marked between the pop and the flush.                      *)
JobExact ==
  /\ job.at = "del" /\ hash # None => job.val = hash
  /\ job.at = "write" => hash = None /\ job.val # None
  /\ syncing => ~changed

(* A hash that nobody is writing back is marked, or equals its row. *)
Marked == job = NoJob /\ hash # None /\ hash # db => changed

(* What a request that loads the hash has read is what is there, and whoever *)
(* is about to count has a marked hash to count in.                         *)
RequestExact(r) ==
  /\ req[r].at = "dbread" /\ kind = "stat" => db = Current
  /\ req[r].at = "cache" => db = Current /\ req[r].got = db
  /\ req[r].at = "hmset" => req[r].got \in {hash, db} \ {None}
  /\ req[r].at = "hmset" /\ kind = "stat" => req[r].got = hash
  /\ req[r].at = "hmset" /\ kind = "comment" => req[r].got = db
  /\ req[r].at \in {"sadd", "hincrby"} => hash # None
  /\ req[r].at = "hincrby" => changed

Exact ==
  kind # "hint" /\ ~disturbed =>
    /\ kind = "stat" => Value = Current
    /\ JobExact
    /\ Marked
    /\ \A r \in Requests : RequestExact(r)

ExactInv == Typed /\ Undisturbed /\ StatRequests /\ Exact

(* At the start the row is what was counted. *)
LEMMA InitExact == Init => ExactInv
<1> SUFFICES ASSUME Init
             PROVE  ExactInv
  OBVIOUS
<1>1. Typed
  BY InitTyped
<1>2. \A r \in Requests : req[r].at = "done" /\ req[r].op = "show"
  BY DEF Init, Idle
<1>3. Undisturbed
  BY <1>2 DEF Undisturbed, Overlap, Active, Updating, Init
<1>4. StatRequests
  BY <1>2 DEF StatRequests, StatSteps, ShowSteps, Init, NoJob
<1>5. Exact
  BY <1>2 DEF Exact, Value, Current, JobExact, Marked, RequestExact, Init, NoJob
<1> QED
  BY <1>1, <1>3, <1>4, <1>5 DEF ExactInv

--------------------------------------------------------------------------------
(* The steps of a request *)

(* The step that a request takes leaves the others where they are. *)
LEMMA OthersKept ==
  ASSUME Typed, NEW r \in Requests, RequestStep(r)
  PROVE  /\ \A q \in Requests : q # r => req'[q] = req[q]
         /\ kind' = kind /\ job' = job /\ syncing' = syncing
<1> USE DEF Typed, TypeOK, stored, master
<1>1. CASE BeginRaise(r) \/ SomeLower(r) \/ BeginShow(r) \/ \E n \in 0..unread : BeginMarkRead(r, n)
  BY <1>1 DEF BeginRaise, SomeLower, BeginLower, BeginShow, BeginMarkRead, Begin
<1>2. CASE Exists(r) \/ Cache(r) \/ Hmset(r) \/ Sadd(r) \/ Hincrby(r)
  BY <1>2 DEF Exists, Cache, Hmset, Sadd, Hincrby, Goto, Idle
<1>3. CASE GetByCache(r) \/ FindOne(r) \/ HintRow(r)
  BY <1>3 DEF GetByCache, FindOne, HintRow, Get
<1>4. CASE HintUpdate(r) \/ HintHash(r)
  BY <1>4 DEF HintUpdate, HintHash, Goto, Idle
<1> QED
  BY <1>1, <1>2, <1>3, <1>4 DEF RequestStep, SomeLower

(* Where a request of a statistic goes *)
LEMMA RequestStatSteps ==
  ASSUME Typed, StatRequests, NEW r \in Requests, RequestStep(r)
  PROVE  StatRequests'
<1> USE DEF Typed, TypeOK, StatRequests, StatSteps, ShowSteps
<1>0. /\ \A q \in Requests : q # r => req'[q] = req[q]
      /\ kind' = kind /\ job' = job
  BY OthersKept
<1> SUFFICES ASSUME kind # "hint"
             PROVE  /\ req'[r].at \in StatSteps /\ req'[r].op \in {"raise", "lower", "show"}
                    /\ req'[r].op = "show" => req'[r].at \in ShowSteps
                    /\ kind = "comment" => req'[r].at \notin {"hgetall", "cache"}
                    /\ kind = "comment" /\ req'[r].op = "show" => req'[r].at = "done"
  BY <1>0 DEF NoJob
<1>a. req[r] \in ReqRow
  OBVIOUS
<1>1. CASE BeginRaise(r) \/ SomeLower(r) \/ BeginShow(r)
  BY <1>1 DEF BeginRaise, SomeLower, BeginLower, BeginShow, Begin
<1>2. CASE \E n \in 0..unread : BeginMarkRead(r, n)
  BY <1>2 DEF BeginMarkRead
<1>3. CASE Exists(r)
  BY <1>3, <1>a DEF Exists, Goto, Idle, Found, At, ReqRow
<1>4. CASE GetByCache(r)
  BY <1>4, <1>a DEF GetByCache, Get, Loaded, At, ReqRow
<1>5. CASE FindOne(r)
  BY <1>5, <1>a DEF FindOne, Get, At, ReqRow
<1>6. CASE Cache(r)
  BY <1>6, <1>a DEF Cache, Goto, Idle, Loaded, At, ReqRow
<1>7. CASE Hmset(r) \/ Sadd(r)
  BY <1>7, <1>a DEF Hmset, Sadd, Goto, Idle, At, ReqRow
<1>8. CASE Hincrby(r)
  BY <1>8, <1>a DEF Hincrby, Goto, Idle, At, ReqRow
<1>9. CASE HintRow(r) \/ HintUpdate(r) \/ HintHash(r)
  BY <1>9 DEF HintRow, HintUpdate, HintHash, At
<1> QED
  BY <1>1, <1>2, <1>3, <1>4, <1>5, <1>6, <1>7, <1>8, <1>9 DEF RequestStep, SomeLower

(* A request that steps, undisturbed, is not there during the synchronisation, *)
(* and nobody loads the hash while another one updates it.                     *)
LEMMA Alone ==
  ASSUME Typed, Undisturbed, NEW r \in Requests, RequestStep(r), ~disturbed, ~Overlap'
  PROVE  /\ job = NoJob /\ syncing = FALSE
         /\ (Filling(r) => \A q \in Requests : q # r => ~Updating(q))
         /\ (Updating(r) => \A q \in Requests : q # r => ~Filling(q))
<1>1. job' = job /\ syncing' = syncing
  BY OthersKept
<1>2. ~Overlap
  BY DEF Undisturbed
<1>3. CASE Active(r)
  BY <1>2, <1>3 DEF Overlap, Typed, TypeOK
<1>4. CASE ~Active(r)
  <2>1. Active(r)'
    <3>1. req[r].at = "done" /\ req \in [Requests -> ReqRow]
      BY <1>4 DEF Active, Typed, TypeOK
    <3>2. BeginRaise(r) \/ SomeLower(r) \/ BeginShow(r) \/ \E n \in 0..unread : BeginMarkRead(r, n)
      BY <3>1 DEF RequestStep, SomeLower, Exists, GetByCache, FindOne, Cache, Hmset, Sadd, Hincrby,
                  HintRow, HintUpdate, HintHash, At
    <3> QED
      BY <3>1, <3>2 DEF BeginRaise, SomeLower, BeginLower, BeginShow, BeginMarkRead, Begin, Active
  <2>2. job = NoJob /\ syncing = FALSE
    BY <2>1, <1>1 DEF Overlap, Typed, TypeOK
  <2>3. ~Filling(r) /\ ~Updating(r)
    BY <1>4 DEF Active, Filling, Updating
  <2> QED
    BY <2>2, <2>3
<1> QED
  BY <1>3, <1>4

(* A step of a request keeps a statistic that nothing has disturbed exact. *)
LEMMA RequestExactSteps ==
  ASSUME ExactInv, Typed', NEW r \in Requests, RequestStep(r),
         kind # "hint", ~disturbed, ~Overlap'
  PROVE  Exact'
<1>0. /\ \A q \in Requests : q # r => req'[q] = req[q]
      /\ kind' = kind /\ job' = job /\ syncing' = syncing
  BY OthersKept DEF ExactInv
<1>1. /\ job = NoJob /\ syncing = FALSE
      /\ (Filling(r) => \A q \in Requests : q # r => ~Updating(q))
      /\ (Updating(r) => \A q \in Requests : q # r => ~Filling(q))
  BY Alone DEF ExactInv
<1> USE DEF ExactInv, RequestExact, JobExact, Marked, Value, Current, At
<1>2. /\ kind = "stat" => Value = Current
      /\ Marked
      /\ \A q \in Requests : RequestExact(q)
  BY DEF Exact
<1>3. /\ db \in Nat /\ raised \in Nat /\ lowered \in Nat /\ hash \in Int \cup {None}
      /\ None \notin Int
      /\ req \in [Requests -> ReqRow]
  BY StatConstants DEF Typed, TypeOK
<1>4. job.at = "none"
  BY <1>1 DEF NoJob
<1>5. \A q \in Requests : /\ req[q].at \in StatSteps /\ req[q].op \in {"raise", "lower", "show"}
                         /\ (req[q].op = "show" => req[q].at \in ShowSteps)
                         /\ (kind = "comment" => req[q].at \notin {"hgetall", "cache"})
                         /\ (kind = "comment" /\ req[q].op = "show" => req[q].at = "done")
  BY DEF StatRequests
<1> SUFFICES /\ kind = "stat" => Value' = Current'
             /\ Marked'
             /\ \A q \in Requests : RequestExact(q)'
  BY <1>0, <1>1, <1>4 DEF Exact
<1>6. CASE BeginRaise(r) \/ SomeLower(r) \/ BeginShow(r)
  BY <1>0, <1>2, <1>3, <1>4, <1>6 DEF BeginRaise, SomeLower, BeginLower, BeginShow, Begin, stored
<1>7. CASE Exists(r)
  BY <1>0, <1>2, <1>3, <1>4, <1>7 DEF Exists, Goto, Idle, Found, ReqRow, stored, master, counted
<1>8. CASE GetByCache(r)
  <2>1. UNCHANGED <<hash, db, changed, raised, lowered>> /\ req'[r].got = hash
    BY <1>3, <1>8 DEF GetByCache, Get, ReqRow, stored, counted
  <2>2. kind = "stat"
    BY StatConstants, <1>5, <1>8 DEF GetByCache, Typed, TypeOK
  <2>3. req'[r].at \in {"dbread", "hmset", "done"} /\ (req'[r].at = "dbread" <=> hash = None)
    BY <1>3, <1>8, <2>2 DEF GetByCache, Get, Loaded, ReqRow
  <2>4. kind = "stat" => Value' = Current'
    BY <1>0, <1>2, <2>1
  <2>5. req'[r].at = "dbread" => db = Current
    BY <1>2, <1>4, <2>2, <2>3
  <2>6. RequestExact(r)'
    BY <1>0, <2>1, <2>2, <2>3, <2>5
  <2>7. \A q \in Requests : q # r => RequestExact(q)'
    BY <1>0, <1>2, <2>1
  <2> QED
    BY <1>0, <1>2, <2>1, <2>4, <2>6, <2>7
<1>9. CASE FindOne(r)
  <2>1. UNCHANGED <<hash, db, changed, raised, lowered>> /\ req'[r].got = db
    BY <1>3, <1>9 DEF FindOne, Get, ReqRow, stored, counted
  <2>2. req'[r].at = IF kind = "comment" THEN "hmset" ELSE "cache"
    BY <1>3, <1>9 DEF FindOne, Get, ReqRow
  <2>3. kind # "comment" => kind = "stat"
    BY StatConstants DEF Typed, TypeOK
  <2>4. kind = "stat" => Value' = Current' /\ db = Current
    BY <1>0, <1>2, <1>9, <2>1 DEF FindOne
  <2>5. RequestExact(r)'
    BY <1>0, <1>3, <2>1, <2>2, <2>3, <2>4
  <2>6. \A q \in Requests : q # r => RequestExact(q)'
    BY <1>0, <1>2, <2>1
  <2> QED
    BY <1>0, <1>2, <2>1, <2>4, <2>5, <2>6
<1>10. CASE Cache(r)
  <2>1. Filling(r) /\ hash' = req[r].got /\ db' = db /\ changed' = changed
        /\ raised' = raised /\ lowered' = lowered
    BY <1>10 DEF Cache, Filling, counted
  <2>2. hash' = db /\ hash' # None /\ db = Current
    BY <2>1, <1>2, <1>3, <1>10 DEF Cache
  <2>3. \A q \in Requests : q # r => req[q].at \notin {"hmset", "sadd", "hincrby"}
    BY <2>1, <1>1, <1>5 DEF Updating, Active, Updates, ShowSteps
  <2>4. req'[r].at \in {"done", "hmset"} /\ (req'[r].at = "hmset" => req'[r].got = req[r].got)
    <3>1. kind # "hint" /\ req[r] \in ReqRow
      BY <1>3
    <3> QED
      BY <3>1, <1>3, <1>10 DEF Cache, Goto, Idle, Loaded, ReqRow
  <2>5. kind # "comment"
    BY <1>5, <1>10 DEF Cache
  <2> QED
    BY <1>0, <1>2, <1>3, <1>4, <2>1, <2>2, <2>3, <2>4, <2>5
<1>11. CASE Hmset(r)
  <2>1. Filling(r) /\ hash' = req[r].got /\ db' = db /\ changed' = changed
        /\ raised' = raised /\ lowered' = lowered
    BY <1>11 DEF Hmset, Filling, counted
  <2>2. hash' # None /\ (kind = "stat" => hash' = hash) /\ hash' \in {hash, db}
    BY <2>1, <1>2, <1>3, <1>11 DEF Hmset
  <2>3. \A q \in Requests : q # r => req[q].at \notin {"hmset", "sadd", "hincrby"}
    BY <2>1, <1>1, <1>5 DEF Updating, Active, Updates, ShowSteps
  <2>4. req'[r].at = "sadd"
    BY <1>3, <1>11 DEF Hmset, Goto, Idle, ReqRow
  <2> QED
    BY <1>0, <1>2, <1>3, <1>4, <2>1, <2>2, <2>3, <2>4
<1>12. CASE Sadd(r)
  <2>1. UNCHANGED <<hash, db, raised, lowered>> /\ changed' = TRUE
    BY <1>12 DEF Sadd, counted
  <2>2. req'[r].at = "hincrby" /\ hash # None
    BY <1>2, <1>3, <1>12 DEF Sadd, Goto, Idle, ReqRow
  <2> QED
    BY <1>0, <1>2, <1>3, <1>4, <2>1, <2>2
<1>13. CASE Hincrby(r)
  <2>1. /\ db' = db /\ changed' = changed /\ changed
        /\ hash \in Int
        /\ hash' \in Int /\ hash' - hash = Current' - Current
    <3>1. hash # None /\ changed
      BY <1>2, <1>13 DEF Hincrby
    <3>2. req[r].op \in {"raise", "lower"}
      BY <1>5, <1>13 DEF Hincrby, ShowSteps
    <3> QED
      BY <3>1, <3>2, <1>3, <1>13 DEF Hincrby, Added, ReqRow
  <2>2. \A q \in Requests : q # r => ~Filling(q)
    <3>1. Updating(r)
      BY <1>5, <1>13 DEF Hincrby, Updating, Active, Updates, ShowSteps
    <3> QED
      BY <3>1, <1>1
  <2>3. req'[r].at = "done"
    BY <1>3, <1>13 DEF Hincrby, Goto, Idle, ReqRow
  <2>4. hash' # None
    BY <2>1, <1>3
  <2>5. \A q \in Requests : RequestExact(q)'
    BY <1>0, <1>2, <2>1, <2>2, <2>3, <2>4 DEF Filling
  <2>6. kind = "stat" => Value' = Current'
    <3>1. SUFFICES ASSUME kind = "stat"
                   PROVE  hash' = Current'
      BY <2>4
    <3>2. hash = Current
      BY <3>1, <2>1, <1>2, <1>3
    <3>3. raised' \in Nat /\ lowered' \in Nat
      BY DEF Typed, TypeOK
    <3>4. hash \in Int /\ hash' \in Int /\ Current \in Int /\ Current' \in Int
      BY <2>1, <3>3, <1>3
    <3>5. hash' - hash = Current' - Current
      BY <2>1
    <3> HIDE DEF Current
    <3> QED
      BY <3>2, <3>4, <3>5
  <2> QED
    BY <2>1, <2>5, <2>6
<1>14. CASE (\E n \in 0..unread : BeginMarkRead(r, n)) \/ HintRow(r) \/ HintUpdate(r) \/ HintHash(r)
  BY <1>5, <1>14 DEF BeginMarkRead, HintRow, HintUpdate, HintHash, StatSteps
<1> QED
  BY <1>6, <1>7, <1>8, <1>9, <1>10, <1>11, <1>12, <1>13, <1>14 DEF RequestStep, SomeLower

--------------------------------------------------------------------------------
(* The synchronisation *)

(* Nobody is there while the master works, undisturbed. *)
LEMMA MasterAlone ==
  ASSUME Typed, Undisturbed, MasterStep, ~disturbed, ~Overlap'
  PROVE  \A q \in Requests : req[q].at = "done" /\ req'[q] = req[q]
<1>1. req' = req
  BY DEF MasterStep, Pop, Flush, SaveHgetall, SaveDel, SaveRow, SaveWrite, SyncFails
<1>2. syncing' \/ syncing \/ job # NoJob
  BY DEF MasterStep, Pop, Flush, SaveHgetall, SaveDel, SaveRow, SaveWrite, SyncFails, NoJob
<1>3. ~Overlap
  BY DEF Undisturbed
<1> QED
  BY <1>1, <1>2, <1>3 DEF Overlap, Active

(* A step of the synchronisation leaves every request at a step of its *)
(* kind.                                                               *)
LEMMA MasterStatSteps == ASSUME Typed, StatRequests, MasterStep PROVE StatRequests'
<1> USE DEF Typed, TypeOK, StatRequests
<1>1. req' = req /\ kind' = kind
  BY DEF MasterStep, Pop, Flush, SaveHgetall, SaveDel, SaveRow, SaveWrite, SyncFails,
         stored, counted
<1>2. kind # "hint" => /\ job'.at \in {"none", "hgetall", "del", "write"}
                       /\ (job'.at = "none" => job' = NoJob)
  BY DEF MasterStep, Pop, Flush, SaveHgetall, SaveDel, SaveRow, SaveWrite, SyncFails,
         NoJob, JobRow
<1> QED
  BY <1>1, <1>2

(* A step of the synchronisation that overlaps with no request keeps it *)
(* exact.                                                               *)
LEMMA MasterExact ==
  ASSUME ExactInv, Typed', MasterStep, kind # "hint", ~disturbed, ~Overlap'
  PROVE  Exact'
<1> USE DEF ExactInv, JobExact, Marked, Value, Current
<1>1. \A q \in Requests : RequestExact(q)'
  BY MasterAlone DEF RequestExact
<1>2. (kind = "stat" => Value = Current) /\ JobExact /\ Marked
  BY DEF Exact
<1>3. /\ db \in Nat /\ hash \in Int \cup {None} /\ None \notin Int /\ job \in JobRow
  BY StatConstants DEF Typed, TypeOK
<1>4. UNCHANGED <<kind, raised, lowered>>
  BY DEF MasterStep, Pop, Flush, SaveHgetall, SaveDel, SaveRow, SaveWrite, SyncFails,
         stored, counted
<1> SUFFICES (kind = "stat" => Value' = Value) /\ JobExact' /\ Marked'
  BY <1>1, <1>2, <1>4 DEF Exact
<1>5. CASE Pop
  BY <1>2, <1>3, <1>5 DEF Pop, NoJob
<1>6. CASE Flush
  BY <1>2, <1>3, <1>6 DEF Flush, NoJob, ExactInv, StatRequests, JobRow
<1>7. CASE SaveHgetall
  BY <1>2, <1>3, <1>7 DEF SaveHgetall, NoJob, stored
<1>8. CASE SaveDel
  BY <1>2, <1>3, <1>8 DEF SaveDel, NoJob, JobRow
<1>9. CASE SaveWrite
  BY <1>2, <1>3, <1>9 DEF SaveWrite, Written, NoJob
<1>10. CASE SaveRow
  BY <1>10 DEF SaveRow, StatRequests
<1>11. CASE SyncFails
  BY <1>2, <1>3, <1>11 DEF SyncFails, stored
<1> QED
  BY <1>5, <1>6, <1>7, <1>8, <1>9, <1>10, <1>11 DEF MasterStep

--------------------------------------------------------------------------------

(* Every step preserves exactness. *)
LEMMA NextExact == ExactInv /\ [Next]_vars => ExactInv'
<1> SUFFICES ASSUME ExactInv, [Next]_vars
             PROVE  ExactInv'
  OBVIOUS
<1> USE DEF ExactInv
<1>1. Typed'
  BY NextTyped
<1>2. CASE ((\E r \in Requests : RequestStep(r)) \/ MasterStep)
           /\ disturbed' = (disturbed \/ Overlap')
  <2>1. Undisturbed'
    BY <1>2 DEF Undisturbed
  <2>2. StatRequests'
    BY <1>2, RequestStatSteps, MasterStatSteps
  <2>3. kind' = kind
    BY <1>2, OthersKept DEF MasterStep, Pop, Flush, SaveHgetall, SaveDel, SaveRow,
                            SaveWrite, SyncFails, stored
  <2>4. Exact'
    <3>1. CASE kind = "hint" \/ disturbed'
      BY <2>3, <3>1 DEF Exact
    <3>2. CASE kind # "hint" /\ ~disturbed'
      BY <1>1, <1>2, <3>2, RequestExactSteps, MasterExact
    <3> QED
      BY <3>1, <3>2
  <2> QED
    BY <1>1, <2>1, <2>2, <2>4
<1>3. CASE \E r \in Requests : RequestFails(r) /\ disturbed' = (disturbed \/ kind = "hint")
  <2> PICK r \in Requests : RequestFails(r) /\ disturbed' = (disturbed \/ kind = "hint")
    BY <1>3
  <2>1. /\ UNCHANGED <<kind, db, hash, changed, syncing, job, raised, lowered>>
        /\ req'[r].at = "done" /\ req'[r].op = "show"
        /\ \A q \in Requests : q # r => req'[q] = req[q]
    BY DEF RequestFails, Finish, Idle, stored, master, counted, Typed, TypeOK
  <2>2. Undisturbed'
    BY <2>1 DEF Undisturbed, Overlap, Active, Filling, Updating
  <2>3. StatRequests'
    BY <2>1 DEF StatRequests, StatSteps, ShowSteps
  <2>4. Exact'
    BY <2>1 DEF Exact, Value, Current, JobExact, Marked, RequestExact
  <2> QED
    BY <1>1, <2>2, <2>3, <2>4
<1>4. CASE SaveFails /\ disturbed' = TRUE
  <2>1. StatRequests'
    BY <1>4 DEF SaveFails, StatRequests, NoJob, stored
  <2> QED
    BY <1>1, <1>4, <2>1 DEF Undisturbed, Exact
<1>5. CASE UNCHANGED vars
  BY <1>1, <1>5 DEF vars, Undisturbed, Overlap, Active, Filling, Updating, StatRequests,
                    Exact, Value, Current, JobExact, Marked, RequestExact
<1> QED
  BY <1>2, <1>3, <1>4, <1>5 DEF Next

(* The statistic that a request is shown outside the synchronisation is what *)
(* was raised less what was lowered, until it is disturbed: proved from      *)
(* Exact, which says it of the value wherever it is.                         *)
THEOREM StatsExact == Spec => []StatExact
<1>1. ExactInv => StatExact
  <2> SUFFICES ASSUME ExactInv, kind = "stat", ~disturbed, job = NoJob
               PROVE  Shown = raised - lowered
    BY DEF StatExact
  <2>1. Value = Current
    BY DEF ExactInv, Exact
  <2> QED
    BY <2>1 DEF Value, Current, Shown, NoJob
<1> QED
  BY <1>1, InitExact, NextExact, PTL DEF Spec

(* A hash that differs from its row is marked as changed, of a statistic and *)
(* of the likes of a comment: SADD comes before HINCRBY.                     *)
THEOREM StatsMarked == Spec => []ChangesMarked
<1>1. ExactInv => ChangesMarked
  BY DEF ExactInv, Exact, Marked, ChangesMarked
<1> QED
  BY <1>1, InitExact, NextExact, PTL DEF Spec

--------------------------------------------------------------------------------
(* The refinement *)

(* What a step does to the counts *)
LEMMA CountSteps ==
  ASSUME Typed, [Next]_vars
  PROVE  /\ kind' = kind /\ (disturbed => disturbed')
         /\ \/ raised' = raised + 1 /\ lowered' = lowered
            \/ raised' = raised /\ lowered' > lowered
            \/ raised' = raised /\ lowered' = lowered
<1>1. ASSUME NEW r \in Requests, RequestStep(r)
      PROVE  /\ kind' = kind
             /\ \/ raised' = raised + 1 /\ lowered' = lowered
                \/ raised' = raised /\ lowered' > lowered
                \/ raised' = raised /\ lowered' = lowered
  <2>1. CASE Hincrby(r)
    <3>1. req[r].by \in Nat /\ lowered \in Nat
      BY DEF Typed, TypeOK, ReqRow
    <3> QED
      BY <2>1, <3>1 DEF Hincrby
  <2>2. CASE ~Hincrby(r)
    BY <1>1, <2>2 DEF RequestStep, SomeLower, BeginRaise, SomeLower, BeginLower, BeginShow, BeginMarkRead, Begin,
       Exists, GetByCache, FindOne, Cache, Hmset, Sadd, HintRow, HintUpdate, HintHash,
       stored, counted
  <2> QED
    BY <2>1, <2>2
<1>2. ASSUME MasterStep
      PROVE  UNCHANGED <<kind, raised, lowered>>
  BY <1>2 DEF MasterStep, Pop, Flush, SaveHgetall, SaveDel, SaveRow, SaveWrite, SyncFails,
              stored, counted
<1>3. CASE ((\E r \in Requests : RequestStep(r)) \/ MasterStep)
           /\ disturbed' = (disturbed \/ Overlap')
  BY <1>1, <1>2, <1>3
<1>4. CASE (\E r \in Requests : RequestFails(r)) /\ disturbed' = (disturbed \/ kind = "hint")
  BY <1>4 DEF RequestFails, stored, counted
<1>5. CASE SaveFails /\ disturbed' = TRUE
  BY <1>5 DEF SaveFails, stored, counted
<1>6. CASE UNCHANGED vars
  BY <1>6 DEF vars
<1> QED
  BY <1>3, <1>4, <1>5, <1>6 DEF Next

(* An undisturbed step changes the value with the counts; a value that is *)
(* disturbed stays below the count of what was raised.                    *)
LEMMA ValueSteps ==
  ASSUME ExactInv, ExactInv', NoCopyOver', [Next]_vars
  PROVE  /\ kind = "stat" /\ ~disturbed' => Value = Current /\ Value' = Current'
         /\ kind = "stat" => Value' <= raised'
<1>1. kind' = kind /\ (disturbed => disturbed')
  BY CountSteps DEF ExactInv
<1>2. kind = "stat" /\ ~disturbed' => Value = Current /\ Value' = Current'
  BY <1>1 DEF ExactInv, Exact
<1>3. kind = "stat" => Value' <= raised'
  BY <1>1, StatConstants DEF NoCopyOver, Bounded, Value, ExactInv, Typed, TypeOK
<1> QED
  BY <1>2, <1>3

(* Init and the actions of StatCache, under the mapping of Abstract, are     *)
(* those of Statistic: whatever the requests, the callbacks and the failures *)
(* do, a statistic is a number that is raised by one and lowered, and only   *)
(* what disturbs it takes something from it.                                 *)
THEOREM StatImplements == Spec => IsStatistic
<1> DEFINE v == IF kind = "stat" THEN Value ELSE 0
           b == disturbed \/ kind # "stat"
<1>1. Init => Abstract!Init
  BY DEF Init, Abstract!Init, Value, NoJob
<1>2. ASSUME ExactInv, ExactInv', NoCopyOver', [Next]_vars
      PROVE  [Abstract!Next]_(Abstract!statVars)
  <2>1. Typed /\ Typed'
    BY <1>2 DEF ExactInv
  <2>2. /\ raised \in Nat /\ lowered \in Nat /\ raised' \in Nat /\ lowered' \in Nat
        /\ (b => b')
    BY <2>1, <1>2, CountSteps DEF Typed, TypeOK
  <2>3. kind' = kind
    BY <2>1, <1>2, CountSteps
  <2>4. b' => v' <= raised'
    BY <1>2, <2>2, <2>3, ValueSteps
  <2>5. ~b' => v = raised - lowered /\ v' = raised' - lowered'
    BY <1>2, <2>3, ValueSteps DEF Current
  <2>6. CASE raised' = raised + 1 /\ lowered' = lowered
    <3>1. ~b' => v' = v + 1
      BY <2>2, <2>5, <2>6
    <3> QED
      BY <2>2, <2>4, <2>6, <3>1 DEF Abstract!Next, Abstract!Raise, Abstract!Becomes
  <2>7. CASE raised' = raised /\ lowered' > lowered
    <3>1. ~b' => v' = v - (lowered' - lowered)
      BY <2>2, <2>5, <2>7
    <3> QED
      BY <2>2, <2>4, <2>7, <3>1 DEF Abstract!Next, Abstract!Lower, Abstract!Becomes
  <2>8. CASE raised' = raised /\ lowered' = lowered
    <3>1. ~b' => v' = v
      BY <2>2, <2>5, <2>8
    <3> QED
      BY <2>2, <2>4, <2>8, <3>1 DEF Abstract!Next, Abstract!Keep, Abstract!Becomes
  <2> QED
    BY <2>1, <2>6, <2>7, <2>8, <1>2, CountSteps
<1>3. ExactInv => Typed
  BY DEF ExactInv
<1> QED
  BY <1>1, <1>2, <1>3, InitExact, NextExact, InitBounded, NextBounded, PTL
     DEF Spec, IsStatistic, Abstract!Spec
================================================================================
