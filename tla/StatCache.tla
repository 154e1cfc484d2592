------------------------------- MODULE StatCache -------------------------------
(***************************************************************************)
(* A number that the server counts in redis and moves to the database once *)
(* a day: a statistic of a note or of a user (kind "stat"), the likes of a *)
(* comment ("comment"), or the hints of a user, which count the messages   *)
(* that the user has not read ("hint").  The hash in redis is loaded from  *)
(* the row of the database when somebody finds it missing; requests raise  *)
(* it by HINCRBY and put its key into a set of changed keys; the master    *)
(* pops the keys of that set, writes each hash back and flushes redis.     *)
(* The three kinds load and write back in ways of their own.               *)
(*                                                                         *)
(* Keys do not touch each other, so that one key is modelled, and one      *)
(* field of it; kind is chosen at the start.  Each redis command and each  *)
(* statement on the database is a step.  Expiry is left out: the hashes    *)
(* live as long as the time between two flushes, or longer.                *)
(***************************************************************************)
EXTENDS Integers, FiniteSetsExt

CONSTANTS
  Requests,    \* requests in progress at a time, in any worker
  Kinds,       \* which of the three kinds are looked at
  None,        \* no hash, no value
  MaxUpdates   \* bound on the number of updates that are begun

ASSUME StatConstants ==
  /\ Kinds \subseteq {"stat", "comment", "hint"}
  /\ None \notin Int
  /\ MaxUpdates \in Nat

VARIABLES
  kind,       \* the kind of the number
  db,         \* the column of the row in the database
  hash,       \* the field of the hash in redis, or None without a hash
  changed,    \* whether the key is in the set of changed keys
  req,        \* req[r]: what request r does, where it is, the value it has read
  syncing,    \* whether syncRedisToDB has popped the key's set and not flushed
  job,        \* the callback that writes this key back: where it is, its value
  raised,     \* how many times the number was raised, and
  lowered,    \* how much it was lowered in all
  unread,     \* the messages of the user that are not read
  started,    \* the number of updates begun
  disturbed   \* whether two of them have been in each other's way (Overlap)

stored  == <<kind, db, hash, changed>>
counted == <<raised, lowered, unread, started>>
master  == <<syncing, job>>
vars    == <<kind, db, hash, changed, req, syncing, job, raised, lowered,
             unread, started, disturbed>>

Updates == {"raise", "lower", "markRead"}
ReqRow  == [op : Updates \cup {"show"},
            at : {"done", "exists", "hgetall", "dbread", "cache", "hmset",
                  "sadd", "hincrby", "hintRow", "hintUpdate", "hintHash"},
            got : Int \cup {None},  \* the value that it has read
            by : Nat]               \* how much it lowers the number
JobRow  == [at : {"none", "hgetall", "row", "write", "del"}, val : Int \cup {None}]

Idle  == [op |-> "show", at |-> "done", got |-> None, by |-> 0]
NoJob == [at |-> "none", val |-> None]

Init ==
  /\ kind \in Kinds
  /\ db = 0 /\ hash = None /\ changed = FALSE
  /\ req = [r \in Requests |-> Idle]
  /\ syncing = FALSE /\ job = NoJob
  /\ raised = 0 /\ lowered = 0 /\ unread = 0 /\ started = 0
  /\ disturbed = FALSE

--------------------------------------------------------------------------------
(* Requests *)

Active(r) == req[r].at # "done"
Lowers    == { r \in Requests : Active(r) /\ req[r].op = "lower" }
Lowering  == MapThenSumSet(LAMBDA r : req[r].by, Lowers)

Begin(r, op, at, got, by) ==
  /\ ~Active(r)
  /\ req' = [req EXCEPT ![r] = [op |-> op, at |-> at, got |-> got, by |-> by]]
  /\ UNCHANGED <<stored, master, raised, lowered>>

(* updateStat by 1, of any kind; a hint is raised for a message just created. *)
BeginRaise(r) ==
  /\ started < MaxUpdates
  /\ started' = started + 1
  /\ unread' = IF kind = "hint" THEN unread + 1 ELSE unread
  /\ Begin(r, "raise", "exists", None, 0)

(* updateStat by -n: a like, or n comments, that were counted are taken back. *)
BeginLower(r, n) ==
  /\ kind # "hint" /\ started < MaxUpdates
  /\ kind = "stat" \/ n = 1
  /\ raised >= lowered + n + Lowering
  /\ started' = started + 1
  /\ UNCHANGED unread
  /\ Begin(r, "lower", "exists", None, n)

(* getOne, which loads the hash to show it; the likes of a comment are shown *)
(* without that.                                                             *)
BeginShow(r) ==
  /\ kind # "comment"
  /\ UNCHANGED <<unread, started>>
  /\ Begin(r, "show", "hgetall", None, 0)

(* MessageService.get marks the messages of the page that it shows, n of     *)
(* them not read before, and updateHint takes n off the hints.               *)
BeginMarkRead(r, n) ==
  /\ kind = "hint"
  /\ unread' = unread - n
  /\ UNCHANGED started
  /\ Begin(r, "markRead", "hintRow", n, 0)

At(r, at) == req[r].at = at
Goto(r, at)    == req' = [req EXCEPT ![r] = IF at = "done" THEN Idle ELSE [@ EXCEPT !.at = at]]
Get(r, v, at)  == req' = [req EXCEPT ![r].at = at, ![r].got = v]
Finish(r)      == req' = [req EXCEPT ![r] = Idle]

(* Mutant: a hash that is there is not marked as changed. *)
FoundLoaded == "hincrby"

(* Where updateStat and updateHints go once the hash is there: notes, users *)
(* and comments SADD first, hints HINCRBY first.                            *)
Found == IF kind = "hint" THEN "hincrby" ELSE "sadd"

(* Where getOne returns to: updateHints does not use its value, updateStat  *)
(* writes it once more.                                                     *)
Loaded(r) ==
  IF req[r].op = "show" THEN "done" ELSE IF kind = "hint" THEN "hincrby" ELSE "hmset"

(* Mutant: a missing hash is not loaded. *)
ExistsNot(r) ==
  /\ At(r, "exists")
  /\ Goto(r, Found)
  /\ UNCHANGED <<stored, master, counted>>

Exists(r) ==
  /\ At(r, "exists")
  /\ Goto(r, IF hash # None THEN Found ELSE IF kind = "comment" THEN "dbread" ELSE "hgetall")
  /\ UNCHANGED <<stored, master, counted>>

GetByCache(r) ==
  /\ At(r, "hgetall")
  /\ Get(r, hash, IF hash = None THEN "dbread" ELSE Loaded(r))
  /\ UNCHANGED <<stored, master, counted>>

FindOne(r) ==
  /\ At(r, "dbread")
  /\ Get(r, db, IF kind = "comment" THEN "hmset" ELSE "cache")
  /\ UNCHANGED <<stored, master, counted>>

Cache(r) ==
  /\ At(r, "cache")
  /\ hash' = req[r].got
  /\ Goto(r, Loaded(r))
  /\ UNCHANGED <<kind, db, changed, master, counted>>

Hmset(r) ==
  /\ At(r, "hmset")
  /\ hash' = req[r].got
  /\ Goto(r, "sadd")
  /\ UNCHANGED <<kind, db, changed, master, counted>>

Sadd(r) ==
  /\ At(r, "sadd")
  /\ changed' = TRUE
  /\ Goto(r, IF kind = "hint" THEN "done" ELSE "hincrby")
  /\ UNCHANGED <<kind, db, hash, master, counted>>

(* HINCRBY takes a hash that is missing for 0. *)
Added(r) == (IF hash = None THEN 0 ELSE hash) + (IF req[r].op = "raise" THEN 1 ELSE -req[r].by)

Hincrby(r) ==
  /\ At(r, "hincrby")
  /\ hash' = Added(r)
  /\ raised'  = IF req[r].op = "raise" THEN raised + 1 ELSE raised
  /\ lowered' = IF req[r].op = "lower" THEN lowered + req[r].by ELSE lowered
  /\ Goto(r, IF kind = "hint" THEN "sadd" ELSE "done")
  /\ UNCHANGED <<kind, db, changed, master, unread, started>>

(* MessageService.updateHint: the row, and not the hash, is counted down. *)
HintRow(r) ==
  /\ At(r, "hintRow")
  /\ Get(r, IF db >= req[r].got THEN db - req[r].got ELSE 0, "hintUpdate")
  /\ UNCHANGED <<stored, master, counted>>

HintUpdate(r) ==
  /\ At(r, "hintUpdate")
  /\ db' = req[r].got
  /\ Goto(r, "hintHash")
  /\ UNCHANGED <<kind, hash, changed, master, counted>>

HintHash(r) ==
  /\ At(r, "hintHash")
  /\ hash' = req[r].got
  /\ Goto(r, "done")
  /\ UNCHANGED <<kind, db, changed, master, counted>>

--------------------------------------------------------------------------------
(* DataSyncService in the master: syncRedisToDB, then flushdb *)

(* The set is popped, and a callback is begun for the key if it was in it.  *)
Pop ==
  /\ ~syncing /\ job = NoJob
  /\ syncing' = TRUE
  /\ changed' = FALSE
  /\ job' = IF changed THEN [at |-> "hgetall", val |-> None] ELSE NoJob
  /\ UNCHANGED <<kind, db, hash, req, counted>>

(* Nobody waits for the callbacks.  Their HGETALL is sent before FLUSHALL,  *)
(* on the same connection; what they do after it may come later.            *)
Flush ==
  /\ syncing /\ job.at # "hgetall"
  /\ syncing' = FALSE
  /\ hash' = None
  /\ changed' = FALSE
  /\ UNCHANGED <<kind, db, req, job, counted>>

SaveHgetall ==
  /\ job.at = "hgetall"
  /\ job' = [at |-> IF kind = "hint" THEN "row" ELSE "del", val |-> hash]
  /\ UNCHANGED <<stored, req, syncing, counted>>

SaveDel ==
  /\ job.at = "del"
  /\ hash' = None
  /\ job' = IF kind = "hint" \/ job.val = None THEN NoJob ELSE [job EXCEPT !.at = "write"]
  /\ UNCHANGED <<kind, db, changed, req, syncing, counted>>

(* syncHintUserToDB adds the hash to the row as it has read it. *)
SaveRow ==
  /\ job.at = "row"
  /\ job' = [at |-> "write", val |-> db + (IF job.val = None THEN 0 ELSE job.val)]
  /\ UNCHANGED <<stored, req, syncing, counted>>

(* Mutant: every kind is added to its row. *)
WrittenAdded == db + job.val

(* The value that the row gets: syncNoteStatToDB, syncUserStatToDB and the  *)
(* callback of hints set it, syncCommentStatToDB adds the likes of the hash *)
(* to it.  The column is unsigned: SaveFails is the statement that fails.   *)
Written == IF kind = "comment" THEN db + job.val ELSE job.val

(* Mutant: a negative value is written. *)
SaveWriteSigned ==
  /\ job.at = "write"
  /\ db' = Written
  /\ job' = IF kind = "hint" THEN [job EXCEPT !.at = "del"] ELSE NoJob
  /\ UNCHANGED <<kind, hash, changed, req, syncing, counted>>

SaveWrite ==
  /\ job.at = "write"
  /\ Written >= 0
  /\ db' = Written
  /\ job' = IF kind = "hint" THEN [job EXCEPT !.at = "del"] ELSE NoJob
  /\ UNCHANGED <<kind, hash, changed, req, syncing, counted>>

--------------------------------------------------------------------------------
(* Failures *)

(* An error, or a worker that dies, ends a request between two steps ... *)
RequestFails(r) ==
  /\ Active(r)
  /\ Finish(r)
  /\ UNCHANGED <<stored, master, counted>>

(* ... and a callback, whose rejection nobody handles, ... *)
SaveFails ==
  /\ job # NoJob
  /\ job' = NoJob
  /\ syncing' \in {syncing, FALSE}
  /\ UNCHANGED <<stored, req, counted>>

(* ... and oneDayTasks before its flush. *)
SyncFails ==
  /\ syncing /\ job = NoJob
  /\ syncing' = FALSE
  /\ UNCHANGED <<stored, req, job, counted>>

--------------------------------------------------------------------------------

Updating(r) == Active(r) /\ req[r].op \in Updates
Filling(r)  == req[r].at \in {"dbread", "cache", "hmset"}

(* A request is in progress during the synchronisation, or an update while  *)
(* another request, which has found no hash, loads it.                      *)
Overlap ==
  \/ (syncing \/ job # NoJob) /\ \E r \in Requests : Active(r)
  \/ \E r, q \in Requests : r # q /\ Filling(r) /\ Updating(q)

RequestStep(r) ==
  \/ BeginRaise(r) \/ BeginShow(r)
  \/ \E n \in 1..MaxUpdates : BeginLower(r, n)
  \/ \E n \in 0..unread : BeginMarkRead(r, n)
  \/ Exists(r) \/ GetByCache(r) \/ FindOne(r) \/ Cache(r) \/ Hmset(r)
  \/ Sadd(r) \/ Hincrby(r)
  \/ HintRow(r) \/ HintUpdate(r) \/ HintHash(r)

MasterStep ==
  Pop \/ Flush \/ SaveHgetall \/ SaveDel \/ SaveRow \/ SaveWrite \/ SyncFails

Next ==
  \/ /\ (\E r \in Requests : RequestStep(r)) \/ MasterStep
     /\ disturbed' = (disturbed \/ Overlap')
  \/ /\ \E r \in Requests : RequestFails(r)
     /\ disturbed' = (disturbed \/ kind = "hint")
  \/ SaveFails /\ disturbed' = TRUE

Spec == Init /\ [][Next]_vars

--------------------------------------------------------------------------------
(* Properties *)

TypeOK ==
  /\ kind \in Kinds
  /\ db \in Nat
  /\ hash \in Int \cup {None}
  /\ changed \in BOOLEAN
  /\ req \in [Requests -> ReqRow]
  /\ syncing \in BOOLEAN
  /\ job \in JobRow
  /\ raised \in Nat /\ lowered \in Nat /\ unread \in Nat /\ started \in Nat
  /\ disturbed \in BOOLEAN

Shown == IF hash = None THEN db ELSE hash

(* The statistic that anybody reads outside the synchronisation is what was *)
(* raised less what was lowered, as long as no update has met a request     *)
(* that loads the hash and no request has met the synchronisation: updates  *)
(* that find the hash may overlap, requests may fail at any step, and       *)
(* neither SADD before HINCRBY nor DEL before UPDATE loses anything.        *)
StatExact ==
  kind = "stat" /\ ~disturbed /\ job = NoJob => Shown = raised - lowered

(* Whatever overlaps and whatever fails, a statistic of a note or of a user *)
(* never says more than the number of times it was raised: what is written  *)
(* back is a value that was counted, and not added to one.                  *)
StatNeverOver ==
  kind = "stat" => db <= raised /\ (hash # None => hash <= raised)

(* A hash that differs from its row is in the set of changed keys, so that  *)
(* the next synchronisation writes it back before redis is flushed.         *)
ChangesMarked ==
  kind # "hint" /\ ~disturbed /\ job = NoJob /\ hash # None /\ hash # db => changed

(* The value that a statistic has now: the callback of the synchronisation  *)
(* carries it between its HGETALL and its UPDATE.                           *)
Value ==
  IF hash # None THEN hash
  ELSE IF job.at \in {"del", "write"} /\ job.val # None THEN job.val ELSE db

Abstract == INSTANCE Statistic WITH
  value   <- IF kind = "stat" THEN Value ELSE 0,
  blurred <- disturbed \/ kind # "stat"

(* A statistic of a note or of a user is a number that changes by what each  *)
(* HINCRBY adds and by nothing else: not when it is loaded, shown, written   *)
(* back or flushed, nor when a request fails, until it is disturbed.         *)
IsStatistic == Abstract!Spec

(* "The number of the user's hint messages" (hint.dto.ts) is never more     *)
(* than the messages that the user has not read.                            *)
HintsNeverOver ==
  (kind = "hint" /\ ~disturbed /\ job = NoJob /\ \A r \in Requests : ~Active(r))
    => Shown <= unread
================================================================================
