# Verification of rehuo

Rehuo is the server of a WeChat application in which people keep *food maps*: points on
a map (restaurants), notes about them, and copies of points and notes from other
people's maps. It is a NestJS program: one master process forks a worker per CPU, every
worker answers HTTP requests, and all of them share a MySQL database and a redis. A
handler is an `async` function, so that requests interleave at every `await`, within a
worker and between workers. Nothing but the database, a redis lock and redis caches
relates two requests to each other.

This directory holds TLA+ models of that program, the TLC instances that check them and
the proofs that TLAPS checks. Paths below are relative to `src/src/`; the point module,
`map/modules/point/`, is written `point/`.

## 1. Inventory

| Component | State it keeps | Operations | What is hard | Module |
|---|---|---|---|---|
| Points: `point/services/map.point.service.ts`, `point.utils.service.ts` | `map_points`, `point_saves`, `province_/city_/country_points`, counters of `users` and `point_sorts` | createOne, updateOne, incrementPCP, decrementPCP, updateBySortIdChanged | counters moved by hand; counted by the adcode of the request, uncounted by the stored one; check for an existing point without a lock | PointLedger, PointLedgerRaces |
| Point saves: `point/modules/save/point.save.service.ts` | `point_saves`, `point_save_stats`, `user_links` | createOne, updateOne, deleteOne, setTop, updateNumber, the lists | decides on rows read before the transaction; deletions take no lock | PointLedger, PointLedgerRaces, PointViews |
| Notes: `point/modules/note/services/point.note.service.ts` | `point_notes`, `note_saves`, `note_masks`, note cache | createOne, updateOne, deleteOne, save, unsave, getMore, audits | one note sits in several rows (own, on top, saved, masked) | PointLedger, PointLedgerRaces, PointViews, RowCaches |
| Sorts: `point/modules/sort/point.sort.service.ts` | `point_sorts` | createOne, updateOne, deleteOne, getAll | check of `points`, then DELETE; insertion not awaited under the lock | PointLedger, PointViews, RequestLock |
| Note statistics, likes: `note.stat.service.ts` | redis hash, `note_stats`, `note_likes` | updateStat, getOne, createLike, deleteLike | EXISTS / HMSET / HINCRBY by several workers; compensation in a catch | StatCache, NoteLikes, NoteComments, Tallies |
| Comments: `note.comment.service.ts` | `note_comments`, redis hash, `comment_likes` | createOne, deleteOne, createLike, deleteLike, getAll, getSubAll | answers of deleted comments, count of answers, messages and statistic after the transaction | NoteComments, NoteLikes, StatCache |
| User statistics: `user/services/user.stat.service.ts` | redis hash, `user_stats` | updateStat, getOne | as note statistics | StatCache, Tallies |
| Hints, messages: `hint/hint.service.ts`, `message/message.service.ts` | `hint_users`, its redis cache, `messages` | updateHints, getOne, get, getNews, message | a cache that is added to its own database row | StatCache, SystemMails, PointViews |
| Synchronisation: `datasync/datasync.service.ts` | moves redis hashes to the database | syncRedisToDB, flushdb | HGETALL then DEL; callbacks not awaited before FLUSHALL | StatCache, Tallies |
| Redis: `redis/redis.service.ts` | locks, caches | lock, unlock, cache operations | GET then SET NX, DEL by anyone | RequestLock, RowCaches |
| Map transfer: `map/services/user.map.service.ts` | all of a user's tables | transfer, transferPublicMap | absolute writes of counters read earlier; one lock for all; copies of notes dropped before the commit | MapTransfer, FoodMaps, RowCaches |
| Map queries: `map/services/user.map.service.ts` | none | get, getByCreaterId, getScope, isSaveMap | numbers from counters beside lists from joins | PointViews, MapSaves |
| Saved and shared maps: `map/modules/save`, `map/modules/share` | `map_saves`, `map_shares`, `saveMaps` | createOne, deleteOne, getAll | row and counter changed outside a transaction | MapSaves, Tallies |
| Public map: `map/services/public.map.service.ts`, `map.cache.service.ts` | redis caches | publicCitys, citySorts, citySortPoints | fill against invalidation | RowCaches |
| Recommendations, clocks, users: `point/modules/recommend`, `user/` | a table each | find, then insert, then tell | two requests that both find nothing; a message after the flag | SystemMails, Tallies |
| Authentication: `auth/`, `shared/services/token.service.ts` | keys in redis | login, token, session | token replaced while it is used | SystemMails |
| Master, workers, tasks: `system/`, `main.ts` | tokens of WeChat in each process | fork, check, forkOne, sendAll, daily tasks | a worker forked again starts without what the others were told | MasterWorkers |
| Migrations: `migrations/` | the columns that they add | up | pages, failure in the middle, another run | Migrations |
| Media, auditors, logs, controllers, DTOs, the clients of OSS and SMS | none that the others read back | | | not modelled |

How they interact: point, save and note handlers call each other's services inside one
transaction (`updateNumber`, `incrementPCP`); they raise statistics in redis
(`incrTops`) and send messages, which raise hints in redis; once a day the master moves
the redis data to the database and flushes redis. Every transaction is READ COMMITTED,
reads take no lock, `increment` and `decrement` are single UPDATE statements, and all
counters are unsigned columns, so that a decrement of a zero fails and rolls its
transaction back.

What makes the components correct: every counter is the number of rows it stands for;
what a map says and what it lists agree; a note that is gone is nowhere shown; what a
user saved belongs to a save of that user; a lock keeps its second request out and never
keeps everybody out; a statistic counts every event once; a transfer moves every row and
every count; a copy in redis becomes that of its row; every worker has the tokens that
the master has. PROJECT.json lists, under "hazards", the lines where each of these can
go wrong.

## 2. Plan

In this order, the most important behaviour first; all of it is done.

1. **PointLedger**: tables and counters of points, saves, notes and sorts, requests one
   at a time; and **PointViews**, what the queries show of these tables. Proofs in
   **PointLedgerProofs** (rows and what they name) and **PointLedgerCountsProofs**
   (counters and views).
2. **PointLedgerRaces**: the same handlers cut into reads and transactions, refining 1
   when one request is in progress; **PointLedgerRacesProofs**.
3. **RequestLock**: the redis lock.
4. **StatCache**: the numbers that redis counts and the master moves to the database,
   refining **Statistic**, which says what a statistic promises; **StatCacheProofs**.
5. **NoteLikes**, **NoteComments**: on top of single numbers, since StatCache says how
   exact each of them is.
6. **MapTransfer**, refining **FoodMaps**, which says what giving a map away means;
   **MapSaves**; **Tallies** (visits, shares).
7. **SystemMails** (first login, audits), **RowCaches**, **MasterWorkers**,
   **Migrations**.
8. Proofs about 3 and 5 to 7, in the modules that the runs group them in:
   **SharedProofs** (RequestLock, RowCaches, MasterWorkers, SystemMails, Tallies),
   **ServicesProofs** (MapSaves, NoteComments, Migrations) and **MapsProofs**
   (MapTransfer, NoteLikes), on **FiniteSums**, which proves what sums over sets do.

Left for later: the lookup of a place by position and name, and `formatAdcode`.

Which module builds on which: PointViews and PointLedgerRaces EXTEND PointLedger;
StatCache instantiates Statistic, and MapTransfer FoodMaps; every other module stands by
itself. **Maps**, **SharedState** and **Services** compose modules that share no state by
EXTENDING them: a variable `part` says which one a behaviour is about, and the others
stay as they began. So one run asks about several small services, each still interleaves
all of its own requests, and what the run checks is the definition that the theorem
names. A composition implies the specification of every module in it (a lemma in each
module of proofs), so that each theorem about a module is one about what its run checks.

## 3. The modules

### PointLedger

The rows and columns behind a user's map. Each variable is a table or a column:
`save` (`models/point.save.entity.ts`), `note`, `noteSaves`, `noteMasks`, `links`,
`sort`, and the counters `points` (the column `points` of a sort, and `defaultCss` of a
user: both say how many saves are filed in one place), `createPoints`, `savePoints`,
`saves` (of `point_save_stats`) and `regions` (the counts per province, city and
county; `Absent` is "no row yet"). A row of `save` has a history besides its columns,
`astray`: the codes by which its creation was counted otherwise than a deletion will
count it. `calls` records what the last request asked of other
services: a raised TOPS statistic, a message, and whether it was committed.

| Action | Handler |
|---|---|
| CreatePoint, UpdatePoint | MapPointService.createOne, updateOne |
| CreateSave, UpdateSave, DeleteSave, SetTop | PointSaveService.createOne, updateOne, deleteOne, setTop |
| CreateNote, CreateNoteWithSave | PointNoteService.createOne, on one's own save, and on the public map without one |
| DeleteNote | PointNoteService.deleteOne |
| SaveNote, SaveNoteWithSave | PointNoteService.save with and without an earlier save |
| UnsaveNote | PointNoteService.unsave, its four outcomes |
| CreateSort, DeleteSort | PointSortService.createOne, deleteOne |
| Rejected | any request that throws before it has changed anything |

A transaction is one action; what it read earlier are its parameters. `Next` runs
handlers one at a time, so that what was read is what is there.

A place has the adcode it was inserted with (`CodesOf`): createPoint is the only writer
of `map_points.code`, and only when it inserts; updateOne writes latitude, longitude,
address and name of the row (`map.point.service.ts:195-205`), and moves no count. The
adcode that createPoint counts by is another matter: it is that of the coordinates in the
request (lines 62 and 135), and the row of the place, when there is one, was found by its
name and address (line 74) or has been moved since. So CreatePoint takes any `adcode`
for a place that exists (PointExists), counts by it, and records in `astray` where it
differs from that of the place; CreateSave, and every deletion, go by the stored one.

Abstractions: places are identified (how a row of `map_points` is found is left out),
names, tags, logos, prices and texts are left out, and the remaining note that `unsave`
puts on top is any remaining one (the code takes the latest). Rows of `user_clocks` that a
deletion removes are left out. TypeORM leaves soft-deleted rows out of selects and joins
and not out of `update`; the actions keep that difference (`DeleteNote` clears the note
from deleted saves too).

`Liberties` names the requests that clients of the application do not send and no
handler refuses: sortId 0 in PUT point/save, a note on another user's save, a second
save of a place. Without them the model shows what the code guarantees to its clients;
the findings turn one on or need none. Most theorems hold for any Liberties; section 6
names those that assume one is not taken.

### PointViews

The queries, as operators on the tables of PointLedger: the map of a user and of its sorts
(getByCreaterId, TotalPoints), the cities at low zoom (getCitys, getPoints), the lists of
created and of saved points, the creator of a point (getPointMore), the notes of a point
(getMore, pointNotes), the news (getNews). The counters come from one table and the rows
from joins with others, so that ViewsAgree and OwnNoteShown relate what different handlers
have written. The city filter is compared for cities in which the user has not counted a
point astray (`Strayed`). A sort that holds somebody else's points (createOne takes any
sortId) is left out: there the numbers differ, see section 5.

### PointLedgerRaces

Every handler of PointLedger as a *job*: `Read..` keeps the rows that the handler reads
before its transaction, `Commit..` runs PointLedger's action on them, and three `Check..`
steps are the SELECTs of a transaction that come before it holds a lock that matters (the
search for MAPPOINT_DUP, the search for the sort, the notes that are left after unsave).
Between them other requests run. `Throw` ends a job at any time without effect: a
failed check, a deadlock, a dead worker. A commit is one step because counters are
moved by `SET c = c + 1`, and two transactions of a user meet at that user's row.

The redis lock is left out, so that more can happen than with it: RequestLock shows
that it does not keep two requests apart that arrive together, and updates and
deletions do not take it.

### RequestLock

`lock` and `unlock` as redis commands: GET, SET NX whose reply is not looked at, DEL
whoever wrote the key; the handlers that return inside their `try` (a refused request
runs `finally` and deletes the key), and PointSortService.createOne, which locks outside
its `try` and does not wait for its insertion. Keys expire, workers die.

### StatCache and Statistic

One number of one key: a statistic of a note or of a user (`stat`), the likes of a
comment (`comment`), a hint of a user (`hint`). Keys do not touch each other, and the
fields of one hash are loaded, written back and deleted together, so that one field
shows what happens to all.

| Action | Code |
|---|---|
| BeginRaise, BeginLower, BeginShow | the start of updateStat by 1, or down by as many as a request says (a comment takes its answers along), of updateHints for a new message, of getOne |
| Exists, GetByCache, FindOne, Cache, Hmset, Sadd, Hincrby | the commands of updateStat, updateHints and getOne in the order each kind has |
| BeginMarkRead, HintRow, HintUpdate, HintHash | MessageService.get and updateHint |
| Pop, Flush | DatasyncService.syncRedisToDB and flushdb, from oneDayTasks |
| SaveHgetall, SaveDel, SaveRow, SaveWrite | syncNoteStatToDB, syncUserStatToDB, syncCommentStatToDB, syncHintUserToDB |
| RequestFails, SaveFails, SyncFails | an error or a dead process between two commands |

`db`, `hash` and `changed` are the column, the field in redis and the membership in the
set of changed keys; `req` and `job` are the positions of the requests and of the
callback that writes the key back. `raised`, `lowered` and `unread` are what really
happened: increments that reached redis, and unread messages. `disturbed` remembers
whether two parties have been in each other's way (`Overlap`, or a failure that counts),
so that properties can say what holds without that and what holds in any case.

`Statistic` is what the callers expect: a number that is raised by one and lowered by as
many as a request says, and that, once `blurred`, may be too low and never more than what
was counted. The refinement (`IsStatistic`) maps its value to the hash, to what the
synchronisation carries between HGETALL and UPDATE, or to the column, and `blurred` to
`disturbed`.

Reading a page of messages marks them in one step; the code does so message by message.
HMSET and the EXPIRE after it are one step. Expiry is left out: a hash lives at least as
long as the time between two flushes. Only one process, the master, synchronises.

### NoteLikes

`rows` of note_likes or comment_likes, the number beside each thing (`likes`) and the
number of its author (`authorLikes`). createLike is Save, Incr, IncrAuthor, Message;
any failure runs the `catch` of NoteStatService.createLike (Decr, DecrAuthor), which
comments do not have; deleteLike deletes the likes of every user and lowers the numbers
by one. One updateStat is one step (StatCache says how exact it is), and redis may fail
at it (`RedisFails`).

### NoteComments

`row` is note_comments, `nstat` the statistic of the note (its column, the hash in redis,
and whether the master is writing it back), `mails` the messages. The transactions of
createOne (Insert, which finds the question and raises aCounts) and of deleteOne (Delete,
which takes the answers, or the replies to an answer, along) are one step each; Message
comes after the first. Then both move the statistic, outside the transaction: FindStat
(EXISTS), ReadStat and LoadStat when the hash is missing, AddStat (HINCRBY by one, or down
by as many as were deleted). CommentFails ends a request at any of these steps, and
`missed` adds up what it had still to add. BeginOther is an update of another field of the
same hash, which loads this one too; BeginSync, EndSync and SyncLoses are the master's.
`blurred` remembers that an update met the synchronisation, or another request that was
loading the hash: there an HMSET overwrites an increment. StatCache has all the commands of
one number; here are those between which it can be lost. Operators say what getAll and
getSubAll show.

### MapTransfer

The tables of a map as a transfer sees them: `pointSave` with the author of its note,
`pointSort`, `createdPoints`, `defaultCss`, `noteLikes`, the counts of the city
(`cityPoints`), the public cities. A transfer is
Begin, CheckTransfer or CheckPublicTransfer (OnlyCreated, NoSame, FitsPublicMap),
ReadCounters, Lock, Commit or Abort, Unlock. Commit moves the saves, merges the sorts
that both maps name alike, moves the region counts by increments, and writes the other
counters as computed from what was read. `OtherRequest` creates points, notes and sorts
meanwhile; `disturbed` remembers that one of them, or another transfer, changed a map
between the read and the commit. `LockExpires` drops the lock at any time.

`FoodMaps` is what the two users see: points with a place and the name of a sort, on the
map of somebody, and a map that is given away at once and whole, to one that has none of
its places; sorts of one name become one. Once `blurred`, a part of a map may stay
behind, but no point is lost, goes to anybody else or is renamed. The refinement
(`Whole`, MapsGivenWhole) maps holders to the users of live saves, names to those of the
sorts that saves are filed in, and `blurred` to `disturbed`: the checks, the reads of
counters and sorts, the lock and the failures are stutters, the commit is the gift.

### MapSaves

`saved`, `saveMaps`, `follows`, `told`: createOne looks for the whole map (FindWhole),
then replaces, inserts, counts and links in one transaction (WriteSave), then tells the
creater; deleteOne deletes and lowers in two statements, between which the request may
fail (`uncounted`).

### Tallies

Clocking in (`clock`, goods and bads, isPassed) and sharing (`share`, shares of points in
MySQL, mapShares of users), with the origin of a save, the deletion of points meanwhile,
and the daily synchronisation of user statistics, which writes an older mapShares back.
The shares of a note, `noteShares`, are moved as the comments of one are: FindNoteShares,
ReadNoteShares, LoadNoteShares, RaiseNoteShares, with another field of the hash
(BeginNoteStat) and the master (BeginNoteSync, EndNoteSync, NoteSyncLoses) beside them,
but here between the write of the row and its commit (CommitNoteShare), so that a failure
leaves too many; `unsure` is to a note what `blurred` is to the comments.

### SystemMails

The first login (find, GET, SET, insert, unlock, welcome, flag, token, session) and the
audit of a recommendation (verdict, message), statement by statement, with failures at
every one and keys that expire or are deleted.

### RowCaches

Copies of users, notes and the lists of the public map: GET, SELECT, SET with a time to
live for readers; commit then drop (users, transfers), commit then read and overwrite
(notes), drop then commit (deleteOne of a note, and the notes that userTranfer gives
another owner), no drop (login). A row is its version.

### MasterWorkers

The token of each process and the channels between them: the token at the start and by
the timer, a worker's own refresh after a refused interface and its relay by the master,
the daily upload with its media id, a crash of any worker, `check` that forks it again
with the master's token and without listeners, and the error that takes the master down.

### Migrations

up of OptimizeMapShow and SupportCreatorCenter: tables, regions of points by a map
service, counts of regions page by page in one transaction, names of points, likes of
users; every statement may fail, and the migration is then run again from the start.
MySQL has kept the tables that the first run created, so that from there on creating them
is refused each time.

### Maps, SharedState, Services

The compositions. Maps: PointLedgerRaces, MapTransfer (one map at a time, or two
crossing) and NoteLikes. SharedState: RequestLock, RowCaches, MasterWorkers, SystemMails
and Tallies, with the fairness of each. Services: StatCache, MapSaves, NoteComments and
Migrations.

### MC modules

Each gives constants their values and names sets of kinds of requests and symmetry sets.
MCPointLedger, MCPointLedgerRaces, MCRequestLock and MCStatCache instantiate one module;
MCMaps, MCShared and MCServices instantiate the compositions.

## 4. The runs

| Run | What it asks | Bounds | Distinct states |
|---|---|---|---|
| sorts | PointsCounted, SortsCounted, SortsKept, RegionsCounted, ViewsAgree | 2 users, 2 places in 2 cities of one province, points created by the adcode of either, 1 sort, 3 saves, 1 note | 570,094 |
| notes | TypeOK, OwnTypesCounted, NoteSavesHaveSave, TopsLiveOrSaved, OwnNoteShown | 2 users, 1 place with a point and a note of the public map, 3 saves, 3 notes | 601,275 |
| race_one | SerialLedger: PointLedgerRaces implements PointLedger | all handlers, one request in progress, 1 user, public map, 1 sort, 3 saves, 2 notes | 1,042,890 |
| race_two | PointsNeverOver, RegionsNeverOver, OwnNoteLive, SavedNotMasked, SaversLinked; MapsCounted, RegionsKept, MapsGivenWhole; LikesCounted; types | ledger: two requests in progress, 2 users, public map, 3 saves, 2 notes; transfers: 2 users and the public map of a city, 2 saves, 2 sorts of one name, 2 places one at a time or 1 place two at a time; likes: 2 users, 2 things, 4 requests, two in progress | 1,913,500 |
| lock | KeysHaveOwners, KeysServed; CacheFresh, CachesCatchUp; TokensAgree, TokensArrive; MailsSent; TalliesCounted; types | lock: 3 + 2 clients, 2 keys, 2 workers, one crash; copies: 2 requests, 2 changes; processes: 2 workers, 3 questions for a token, 1 upload, 2 exits; messages: 4 logins or audits, two in progress; visits: 2 users, 2 points at one place, 1 note, 2 visits, shares or loads of its hash, until its shares are unsure | 508,894 |
| stats | StatExact, StatNeverOver, ChangesMarked, IsStatistic; SavedMapsAgree; CommentsCounted, MailsAddressed; MigrationCounts; types | two requests in progress everywhere; 4 updates of all three kinds, 2 unread messages; 5 savings of maps; 3 comments, until their statistic is blurred; 4 saves in pages of 2 | 3,114,223 |
| sortzero, saveagain, adcodes, race_deletes, lock_exclusion, hints | the findings | the smallest instance that shows each | |

Why the bounds are enough. In the ledger identifiers are never used twice (rows are
soft-deleted), so the number of rows bounds the length of a history. Three saves let a user
keep a copy of another's point, lose it and make one again, or let two users copy a third
save; two notes let one be replaced, saved beside another and unsaved with one left. One
sort against the default sort gives every kind of move. Two places in one province and two
cities make a shared and two separate counts. Two transfers that cross show every order of
two checks, reads, locks and commits; with one request that begins again maps go to and fro
and to the public map, in any number of transfers. Two sorts of one name are what a merge
needs. Three comments are a question, an answer and a reply, a thread of which each of
three deletions takes another part. Four saves in pages of two make a first page, a last
page and an empty rest. Two exits fork one worker twice or both once.

In stats, three updates are the least with which two meet at one hash while a third
comes before or after, between two synchronisations, and a fourth can follow the second;
`MaxUpdates` bounds nothing else, and `MaxHints` bounds the unread messages at 2.
StatExact speaks about behaviours in which updates that find the hash may overlap and
requests may fail at any step; StatNeverOver about all. In `hints` one request at a time
and two synchronisations are enough.

Two instances are followed to a state constraint only (`Followed`): the comments until
their statistic is blurred, the visits and shares until the shares of the note are unsure.
What CommentsCounted and TalliesCounted say of the other numbers after that point is left
to the theorems, which know no bound. The liveness properties of the run lock are about the
other parts, in which the constraint is always true. `MaxMapSaves`, `MaxRequests`,
`MaxComments`, `MaxTallies`, `MaxAsks`, `MaxWrites`, `MaxAsked`, `MaxUploads`, `MaxCrashes`
and `MaxExits` bound what is begun, and only the guards of the actions that begin something
name them; the theorems hold for any value of them.

The ledger part of race_two leaves out createPoint, updates and setTop: what they do
alone is in race_one, createPoint differs from createSave only before its transaction,
updates without sorts change nothing, and setTop multiplies the states. Sorts are left
out as well: an update that read its save before a second update moved it counts the old
sort down twice or, with a sort deleted in between, raises `defaultCss` each time it is
repeated, so that the counters of sorts are unbounded there. That is what the code does;
the properties of sorts are those of requests that do not overlap, and race_one shows
that they carry over.

Runs with `CHECK_DEADLOCK FALSE` are those in which the system may stop: identifiers or
requests are used up and clients send nothing more, a migration is done, or the master
is gone. Symmetry sets permute values that no module tells apart; the run with liveness
(lock) uses none.

Fairness, in the run lock only. RequestLock: a worker that has accepted a request runs it
on (the event loop and redis answer), clients send their requests again, and redis
removes a key whose time is over; KeysServed says that the requests of a key never all
stay out for ever, and no single client is promised to be served, since other clients
can always be faster. RowCaches: a request that runs goes on or fails, and a copy
expires; CachesCatchUp needs the second, since a login leaves its stale copy to that.
MasterWorkers: a running worker handles its messages, and the master those of the
workers it listens to. Crashes, failures and new requests are never fair.

## 5. What disagrees with the code's own words

Each of these is a run that TLC finds violated; PROJECT.json quotes the lines.

- **sortzero**: PUT point/save with sortId 0, documented as "the default sort", moves
  the counters and not the row (`point.save.service.ts:294`).
- **saveagain**: POINTSAVE_DUP is never raised; a place can be saved twice. A note then
  promotes one row by the type of the other: OwnTypesCounted fails too.
- **adcodes**: createPoint counts by the adcode of the request and every deletion by that
  of the stored point (`map.point.service.ts:135`, `point.save.service.ts:379`), so that a
  city counts points that it does not have, and never loses them.
- **race_deletes**: two overlapping deletions of a save count it down twice.
- **lock_exclusion**: two POST requests with one key run together.
- **hints**: the hash of the hints is loaded from the row and then added to it
  (`datasync.service.ts:42-45`), so that from the second synchronisation on a user is shown
  more hints than there are unread messages. `syncCommentStatToDB` does the same with the
  likes of a comment (line 92). In the other direction, reading one of two unread messages
  sets the hints to what is left of the row, which may be 0 (`message.service.ts:124-137`).

Six more are definitions of the modules that the code violates and no run lists; a cfg
with the definition as its only property shows each:

- `OneNotePerSave` (PointLedger): POINT_NOTE_DUP is never raised; a unique index that
  contains the NULL `deletedAt` does not match (`point.note.entity.ts:17`).
- `LikesKept` (MapTransfer): a transfer overwrites the receiver's noteLikes with the
  provider's (`user.map.service.ts:464-472`; `user.stat.entity.ts` calls it the total).
- `LikesExact` (NoteLikes): taking back a like deletes the likes of all and lowers the
  number by one (`note.stat.service.ts:162`; `note.stat.entity.ts:67`).
- `RepliesAddressed` (NoteComments): getSubAll pairs replies and users by index after
  rows have been left out (`note.comment.service.ts:526-557`; `note.comment.dto.ts:240`).
- `AnswersShown` (NoteComments): getAll uses the sub-comment (line 421) before the test
  whether there is one (line 426).
- `MasterLives` (MasterWorkers): the error event of a worker that was forked again has no
  listener, and takes the master down (`master.service.ts:104` against 33-35).

`NoteSavesHaveSave` holds one request at a time (run notes) and not when requests overlap:
save writes a row of `note_saves` for a save that it read before its transaction
(`point.note.service.ts:831`), and that may be deleted by then; unsave then fails for ever,
and so does saving again.

Met while reading, with no model: the refresh of a null WeChat token throws
(`task.service.ts:44-48`), and an answer without access_token sets a timer of NaN
milliseconds (48-57); `msgSecCheck` is true whatever it is answered; `decodeScene` reads a
number past its bytes; getSave pairs statistics by index (`point.save.service.ts:640-742`)
and getMore its pages (`point.note.service.ts:547-549`); getByLatLong stops after its first
page (`user.map.service.ts:277`); getOne of a note throws without the row of its save
(`point.note.service.ts:378`); createOne and updateOne take somebody else's sort, which
then counts points that nobody is shown; the message about a saved map names the points
without a sort as the whole map (`map.save.service.ts`, near 118; `told` in MapSaves keeps
it); a clock is looked for by the save and refused by the place
(`user.clock.service.ts:66`); mapShares counts the sharer's shares, and the daily
synchronisation may overwrite it (`map.share.service.ts:74-76`); a first login that is
refused by its lock sends a message to user 0, and one refused at the token gets none; the
lock of an audit is that of the auditor and keeps no two auditors apart; deleteOne of a
sort reads its column `points` and then deletes, so that a save filed in it in between
stays in a sort that is gone; a migration that fails after CREATE TABLE cannot be run
again.

## 6. What is proved

Every invariant that the passing runs check is a theorem, for
every value of the constants that the modules' assumptions allow, and so are the three
refinements; only liveness is left to TLC.
The assumptions say that identifiers of different kinds differ, that the sets whose
elements are counted or summed are finite, and what a row of the public map is; the
runs' bounds (`MaxUpdates`, `MaxComments`, ...) are any natural numbers, and
the constants of tables, users and requests any sets. What an argument below calls an
invariant was checked by TLC on the instance of the run before it was proved.

### The ledger, one request at a time (PointLedgerProofs, PointLedgerCountsProofs)

Types and references are proved for a `Transaction`: what a handler writes, on rows that
may be out of date. A handler that runs alone is a transaction on what it finds
(NextTransacts), one of PointLedgerRaces a transaction on what it found once, so that
one proof serves both.

- `LedgerTyped`. The invariant is `Typed`: TypeOK and NotesPlaced (a live note names a
  save), which is needed because saving a note copies the save that the note names.
  That a counter stays a natural number is the content: no handler gets past a zero.
- `AllPointsCounted`. Every step keeps the saves and totals of all users (Steady), adds
  one save and one to the total (Gains), or deletes one and takes one (Loses).
- `NeverSavedAndMasked`, `SavedNotesHang`, `OwnNotesLive` and `TopNotesLive` are
  inductive together with Typed: a row of `save` never changes its user, identifiers
  are not used again, deleting a note clears it wherever it is shown, a copy takes its
  top from a live note or from the save it copies.
- `SaversFollow`. SaversLinked is not inductive: a save may be copied from a copy.
  `CopiesLinked` adds `CopiesDescend`: the row a save was copied from is in use, deleted or
  not, so that its user does not change any more and the link made at the copy stays right.

The counters depend on few columns of `point_saves`. `LedgerMoves` says how a step
changes them: not at all (Idle), by one new save (Adds), one deleted save (Deletes), one
save filed elsewhere (Files), one save that gets a note of its own (Writes), or by a sort
that comes or goes. Each of the following then takes one lemma per kind of step:

- `AllRegionsCounted`, inductive with Typed for any Liberties, and for any adcodes in
  createPoint. It speaks of the codes in which the user has never counted a point astray:
  `astray` only grows with a creation and stays with the row when it is deleted, so that a
  code leaves the claim once and for good, and in every other the adcode of the request and
  that of the place agree.
- `AllSortsCounted`, `AllSortsKept`, if sortZero is not among the Liberties. The invariant
  `SortsRight` speaks of all boxes, the sorts and the default ones, and needs that no live
  save is in a deleted sort: DeleteSort looks at the counter only, and it is the exact
  counter that makes this enough.
- `OneSaveEach` (if saveAgain is not among them), and with it `AllTypesCounted` (nor
  foreignNote): a note promotes a save by the type of a row of the same place, which is
  the row itself as long as there is only one.
- `AllViewsAgree`, under all three conditions. The invariant `AllBorn` says that a save
  descends from a created one at the same place, which is its own origin: this is what
  makes joins over `ff` find what the counters have counted.
- `OwnNotesShown`, for any Liberties: nobody saves or masks a note of their own
  (`RowsOfOthers`), so that the filters of getMore let it pass.

The conditions are requests that clients do not send (section 3), and the runs that check
these invariants leave them out as well; sortzero and saveagain show what fails with them.

### Overlapping requests (PointLedgerRacesProofs)

- `RacesTyped`, `RacesMaskRight`, `RacesNoteRight`, `RacesFollow`. What a job has read may
  be out of date, but not all of it: rows are never given away, moved or used again.
  `JobsRight` is the invariant that says what a job still knows, and it is enough for
  each Commit to be a Transaction; the lemmas about transactions do the rest.
- `RacesNeverOver`, `RaceRegionsNeverOver` (the latter again outside `Strayed`; a job keeps
  the adcode of its request, and its commit is a creation by it). A commit leaves saves and
  totals alone (Leaves), brings one save (Brings), or drops one of a row its user holds
  (Drops), which may be deleted already: so the counters are lowered at least as often as
  saves go.
- `RacesAge`, an action property: no transaction revives a deleted save or note, gives a
  row away or moves it, whatever its request has read; from the lemmas on transactions
  that JobsRight rests on.
- `SerialImplements`: with one request at a time (`Alone`) PointLedgerRaces implements
  PointLedger. The invariant `JobsNow` says that what a job has read still holds when it
  commits, with `RowsPlaced` (a saved note is of the place of the save that carries it),
  which unsave relies on; each step is then a step of the handler, or a stutter.

### Statistics (StatCacheProofs)

- `StatTyped` and `StatsNeverOver`, for any number of requests and updates. The first needs
  `OnItsWay`, what the values are that are read and not yet written; its content is that
  a hash below zero never gets into an unsigned column. The second needs `NoCopyOver`:
  every copy of the number, stored or on its way, is at most what was counted.
- `StatsExact` and `StatsMarked`, from `ExactInv`: while nothing is disturbed, requests and
  the synchronisation are apart (`Apart`), each request carries what its command needs
  (`StatRequests`), and the value is what was raised less what was lowered wherever it is
  just then (`Exact`).
- `StatImplements: Spec => IsStatistic`, the refinement, from both: every step raises,
  lowers or keeps the value of Statistic, or the number is blurred and not too high.

### What the processes share (SharedProofs)

- `KeysOwned`: KeysHaveOwners is inductive with the types, one step per redis command.
- `CopiesFresh`. The invariant `CopiesRight` says of each row that was never mixed up that
  one request at most is busy with it, that the copy is fresh when none is, and what the
  busy one still owes the copy at each of its commands (`Attends`); a change of the public
  map is busy with a list of rows and drops them one by one.
  `CachesKeepTypes` needs besides that what a request is about to write to redis is a row
  that it found, and that only a request that drops copies has some left (`CallsRight`).
  `CopiesNeverAhead` holds without any condition: a copy may be old, also for long, but
  not of a version that was not committed (`NeverAhead`, with `RowsGoOn` for the steps).
- `OneTokenForAll` and `ProcessesTyped`. TokensAgree speaks of empty channels; `OneToken`
  of any: there is a token that every worker will hold when it has read its channel
  (`WillHold`: the last token in it, or the token held if it carries none), but for
  workers whose own news is still on its way to the master.
- `MailsAreSent`. `MailInv` says what each place of a login implies (from the insert on
  there is a user, at the flag a welcome), in any case; and, for users and
  recommendations whose requests were one at a time, how the welcome and the last
  verdict stand at every place. `MailsKeepTypes` rests on it too.
- `TalliesAreCounted`. `TalliesInv` states the sums: the goods, bads and shares of a
  created point over the rows of all saves that descend from it, and mapShares of a user
  over the rows of its map, with what redis has of it. For a note that is not unsure,
  `NoteRight` says that the shares that are shown are at least its rows and the
  transactions that have raised it and not committed (`Raised`), that no update meets a
  loader (`SharesOverlap`), that what a loader has read is still what is shown, and that an
  update about to add finds the hash.
- `SharedTyped`, from the types of the five modules and the lemma `SharedIsEach`: a step of
  one of them leaves the variables of the others alone, and fairness is not needed for
  safety.

### The small services (ServicesProofs)

- `SavedMapsOK`. `SavesInv` adds to the count that the sets are finite, that every row has
  its link, and (`Separate`) that without an overlap requests are about different maps
  and one that is about to write has found no whole map.
- `CommentsAreCounted` and `MailsGoWhereTheyShould`. CommentsCounted speaks of the
  statistic at rest; `StatRight` of all states in which it is not blurred: what is shown of
  it, with what the requests have still to add (`Owed`) and what failed ones did not
  (`missed`), is the number of live comments; no update meets a loader (`StatOverlap`),
  what a loader has read is still what is shown, and an update about to add finds the hash.
  A message goes where it should because `RequestRight` keeps what a request knows of the
  comment it answers. `CommentsSettle`, an action property, is what that knowledge rests
  on: comments keep their author and what they answer, and the deleted ones stay deleted.
- `UpgradesAreCounted`. `MigrationRight`: while pages are read, the regions count the
  saves before the position that comes next, and the positions left add up to all; they
  are rolled back with the position, and recorded with the last page. `UpgradesTyped`: no
  page begins after the last save, since the position and what is left do not exceed the
  saves (`PagesRight`).
- `ServicesTyped`, with the lemma `ServicesAreEach`, as for the shared state.

### Transfers and likes (MapsProofs)

- `TransfersKeepCounts` and `TransfersKeepPlacesOnce`, until a transfer was disturbed;
  `TransfersKeepRegions` and `TransfersKeepTypes` in any case. The invariant is
  `TransferInv == TransferTyped /\ RegionsSummed /\ (~disturbed => Ledger)`. Ledger adds
  to the counts that a map has one sort of a name, that a sort is of the city of its
  user, and that whatever a transfer has read and that is still fresh is what is there
  (`ReadsCurrent`). A commit is summarised by `MapGiven` (whose saves and sorts become
  whose, which sorts are merged) before the counters are compared.
- `TransfersGiveWhole: TransferSpec => MapsGivenWhole`, the refinement. The invariant is
  `WholeInv`: TransferInv, and `NamesRight`, which holds in any case: a sort that a save is
  filed in has a name, and the sorts that a transfer has read have kept theirs, so that
  merging by name renames no point. A gift needs that the receiver has none of the places:
  the check has found that, and while nothing is disturbed it holds at the commit.
- `LikesAreCounted`. `LikesInv` says what is owed at every step: the rows of a thing and
  the requests about to lower its number are at most its likes and the requests about to
  raise it, and likewise, as an equation, for the author and the sum over the notes.

- `MapsTyped`, with the lemma `MapsAreEach`, as for the shared state.

### Sums (FiniteSums)

FiniteSetsExt sums by a recursion over sets with CHOOSE. `SubsetsInductive` is induction
on finite sets in terms of a set instead of a predicate, from the theorem of the library
that a well-founded relation has minimal elements. `Net` counts units, pairs of an
element and a number up to its term, less those of the opposite terms; it solves the
recursion (SumsExist), any two solutions agree (SumsAgree), so that a sum is Net
(SumOfTerms), and how sums change with one or two terms follows.

### What is only model-checked

- Liveness, which needs fairness and ENABLED: KeysServed, CachesCatchUp, TokensArrive.
- That the definitions named in section 5 fail: counterexamples are TLC's.

## 7. What is not modelled

The search around a position (`getByLatLong`, `getArea`) and the lookup of a place by
position and name are geometry and answers of a map service. What a place, sort, tag or
message is called, prices, pictures and texts: nothing depends on them. The audit of
notes sets one flag. The signing of tokens and the codes sent by telephone are
cryptography and the service of a provider. MediaService is a lock and one insertion, of
the shape RequestLock has. The STS token of the object storage takes the way of the
WeChat token. Auditors and logs are single inserts and reads; controllers, DTOs, pipes
and configuration are routing and validation, which bound the inputs of the models.
`src/src/common/constants/` is data.

Outages of redis are failures of a handler (`Throw`, `RequestFails`, `RedisFails`, `Fail`);
the keys they may leave are those of a crash in RequestLock. MySQL itself is trusted: its
transactions are atomic and isolated as READ COMMITTED with row locks says. Three hazards
have no property of a passing run: the TOPS statistic of a transaction that is rolled back,
the check for an earlier save that two requests pass, and the row of `note_saves` written
for a save that is gone; PROJECT.json says why.
