---------------------------- MODULE PointLedgerRaces ----------------------------
(***************************************************************************)
(* The handlers of PointLedger as they run in several worker processes:    *)
(* every request reads the rows that it decides on before its transaction, *)
(* and other requests run between its reads and its transaction.           *)
(*                                                                         *)
(* A request is a job: a Read action keeps what was read in the job, and a *)
(* Commit action runs the transaction of PointLedger on it.  Three         *)
(* handlers have a Check in between: a SELECT of their transaction that    *)
(* takes no lock and comes before the transaction has locked a row that    *)
(* the other requests need, so that what it returns may be out of date as  *)
(* well.  The rest of a transaction is one step: the counters are changed  *)
(* by UPDATE .. SET c = c + 1, and what two transactions of one user both  *)
(* touch is behind that user's row.                                        *)
(*                                                                         *)
(* The redis lock of the handlers is left out, so that more interleavings  *)
(* are allowed than with it.  RequestLock shows that it keeps none of two  *)
(* requests that arrive together out; deletions and updates take no lock.  *)
(***************************************************************************)
EXTENDS PointLedger

CONSTANTS
  Requests,  \* the requests in progress at a time
  Ops,       \* the kinds of request that clients send in this instance
  Idle       \* a job that is not in progress

VARIABLE job   \* job[r]: what the request r has read

raceVars == <<vars, job>>

RaceInit == Init /\ job = [r \in Requests |-> Idle]

Ask(r, j) ==
  /\ job[r] = Idle
  /\ j.op \in Ops
  /\ job' = [job EXCEPT ![r] = j]
  /\ UNCHANGED vars

(* The job goes on to its transaction with one thing more that it has read. *)
Checked(r, op) ==
  /\ job' = [job EXCEPT ![r].op = op]
  /\ UNCHANGED vars

Runs(r, op) == job[r] # Idle /\ job[r].op = op

Answer(r) == job' = [job EXCEPT ![r] = Idle]

--------------------------------------------------------------------------------
(* Points *)

ReadCreatePoint(r, u) ==
  \E pl \in Places, adcode \in Adcodes, s \in Sorts \cup {None} :
    /\ s \in Sorts => sort[s] = "live"
    /\ Ask(r, [op |-> "createPoint", u |-> u, pl |-> pl, adcode |-> adcode, s |-> s])

(* Mutant: the SELECT for MAPPOINT_DUP is not made. *)
SkipCreatePoint(r) == Runs(r, "createPoint") /\ Checked(r, "insertPoint")

(* The SELECT for MAPPOINT_DUP. *)
CheckCreatePoint(r) ==
  /\ Runs(r, "createPoint")
  /\ SavesAt(job[r].u, job[r].pl) = {}
  /\ Checked(r, "insertPoint")

CommitCreatePoint(r) ==
  /\ Runs(r, "insertPoint")
  /\ \E p \in SaveIds : CreatePoint(job[r].u, job[r].pl, job[r].adcode, job[r].s, p)
  /\ Answer(r)

ReadCreateSave(r, u) ==
  \E q \in SaveIds :
    /\ LiveSave(q) /\ SavesPlaceOf(u, q)
    /\ Ask(r, [op |-> "createSave", u |-> u, q |-> q, src |-> save[q]])

CommitCreateSave(r) ==
  /\ Runs(r, "createSave")
  /\ \E p \in SaveIds : CreateSave(job[r].u, job[r].q, job[r].src, p)
  /\ Answer(r)

(* updateOne of the two services. *)
ReadUpdate(r, u) ==
  \E p \in SavesOf(u), s \in Sorts \cup {None}, op \in {"updatePoint", "updateSave"} :
    /\ op = "updateSave" => SortIds(s)
    /\ Ask(r, [op |-> op, u |-> u, p |-> p, old |-> save[p], s |-> s])

(* updateBySortIdChanged looks the sort up. *)
CheckUpdate(r) ==
  LET Found == SortFound(job[r].u, job[r].old, job[r].s) IN
  \/ Runs(r, "updatePoint") /\ Found /\ Checked(r, "writePoint")
  \/ Runs(r, "updateSave") /\ Found /\ Checked(r, "writeSave")

CommitUpdate(r) ==
  /\ \/ /\ Runs(r, "writePoint")
        /\ UpdatePoint(job[r].u, job[r].p, job[r].old, job[r].s)
     \/ /\ Runs(r, "writeSave")
        /\ UpdateSave(job[r].u, job[r].p, job[r].old, job[r].s)
  /\ Answer(r)

ReadDeleteSave(r, u) ==
  \E p \in SavesOf(u) :
    Ask(r, [op |-> "deleteSave", u |-> u, p |-> p, old |-> save[p]])

CommitDeleteSave(r) ==
  /\ Runs(r, "deleteSave")
  /\ DeleteSave(job[r].u, job[r].p, job[r].old)
  /\ Answer(r)

ReadSetTop(r, u) ==
  \E p \in SavesOf(u), n \in NoteIds :
    /\ LiveNote(n)
    /\ Ask(r, [op |-> "setTop", p |-> p, n |-> n,
               written |-> save[p].note, author |-> note[n].user])

CommitSetTop(r) ==
  /\ Runs(r, "setTop")
  /\ SetTop(job[r].p, job[r].n, job[r].written, job[r].author)
  /\ Answer(r)

--------------------------------------------------------------------------------
(* Notes *)

ReadCreateNote(r, u) ==
  \E q \in SaveIds :
    /\ LiveSave(q) /\ NotePsave(u, q)
    /\ \/ /\ save[q].user = Public /\ SavesAt(u, save[q].place) = {}
          /\ Ask(r, [op |-> "firstNote", u |-> u, src |-> save[q]])
       \/ \E p \in SavesAt(u, save[q].place) :
            Ask(r, [op |-> "createNote", u |-> u, src |-> save[q],
                    p |-> p, mine |-> save[p]])

CommitCreateNote(r) ==
  /\ \/ /\ Runs(r, "firstNote")
        /\ \E n \in NoteIds, p \in SaveIds :
             CreateNoteWithSave(job[r].u, job[r].src, n, p)
     \/ /\ Runs(r, "createNote")
        /\ \E n \in NoteIds :
             CreateNote(job[r].u, job[r].src, job[r].mine, n, job[r].p)
  /\ Answer(r)

ReadDeleteNote(r, u) ==
  \E n \in NoteIds :
    /\ LiveNote(n) /\ note[n].user = u
    /\ Ask(r, [op |-> "deleteNote", n |-> n, p |-> note[n].psave])

CommitDeleteNote(r) ==
  /\ Runs(r, "deleteNote")
  /\ DeleteNote(job[r].n, job[r].p)
  /\ Answer(r)

ReadSaveNote(r, u) ==
  \E n \in NoteIds :
    /\ CanBeSaved(u, n)
    /\ LET there == SavesAt(u, save[note[n].psave].place) IN
       \/ \E p \in there : Ask(r, [op |-> "saveNote", u |-> u, n |-> n, p |-> p])
       \/ /\ there = {}
          /\ Ask(r, [op |-> "firstSave", u |-> u, n |-> n, old |-> note[n]])

(* PointNoteService.save by a user who had no save of the place, when the  *)
(* insertion into note_saves finds a duplicate: by then updateNumber has   *)
(* raised the TOPS statistic in redis, which is not rolled back.           *)
SaveNoteDuplicate(u, n, old, p) ==
  LET top == TopFor(save[old.psave], FALSE) IN
  /\ LiveSave(old.psave)
  /\ FreshSave(p)
  /\ AuthorFound(top)
  /\ NoteSaveExists(u, p, n)
  /\ calls' = RolledBack(top)
  /\ UNCHANGED tables

CommitSaveNote(r) ==
  /\ \/ Runs(r, "saveNote") /\ SaveNote(job[r].u, job[r].n, job[r].p)
     \/ /\ Runs(r, "firstSave")
        /\ \E p \in SaveIds :
             \/ SaveNoteWithSave(job[r].u, job[r].n, job[r].old, p)
             \/ SaveNoteDuplicate(job[r].u, job[r].n, job[r].old, p)
  /\ Answer(r)

ReadUnsaveNote(r, u) ==
  \E ns \in noteSaves :
    /\ ns.user = u /\ ns.psave \in SavesOf(u)
    /\ Ask(r, [op |-> "unsaveNote", u |-> u, ns |-> ns, old |-> save[ns.psave],
               left |-> {}])

(* The SELECT of the notes that are left, while other transactions that    *)
(* delete rows of note_saves have not committed.                           *)
CheckUnsaveNote(r) ==
  /\ Runs(r, "unsaveNote")
  /\ job' = [job EXCEPT ![r].op = "deleteNoteSave", ![r].left = LeftOn(job[r].ns)]
  /\ UNCHANGED vars

CommitUnsaveNote(r) ==
  /\ Runs(r, "deleteNoteSave")
  /\ UnsaveNote(job[r].u, job[r].ns, job[r].old, job[r].left)
  /\ Answer(r)

--------------------------------------------------------------------------------
(* Sorts.  The check of createOne and its insertion are in RequestLock.    *)

ReadDeleteSort(r, u) ==
  \E s \in Sorts :
    /\ sort[s] = "live" /\ SortOwner[s] = u
    /\ Ask(r, [op |-> "deleteSort", s |-> s, points |-> points[s]])

CommitDeleteSort(r) ==
  /\ Runs(r, "deleteSort")
  /\ DeleteSort(job[r].s, job[r].points)
  /\ Answer(r)

InsertSort(u) ==
  /\ "createSort" \in Ops
  /\ \E s \in Sorts : CreateSort(u, s)
  /\ UNCHANGED job

(* A request may throw at any time: a guard that does not hold, a deadlock *)
(* of two transactions, a worker that dies.  Nothing of it is kept.        *)
Throw(r) ==
  /\ job[r] # Idle
  /\ Rejected
  /\ Answer(r)

Read(r, u) ==
  \/ ReadCreatePoint(r, u) \/ ReadCreateSave(r, u) \/ ReadUpdate(r, u)
  \/ ReadDeleteSave(r, u) \/ ReadSetTop(r, u)
  \/ ReadCreateNote(r, u) \/ ReadDeleteNote(r, u)
  \/ ReadSaveNote(r, u) \/ ReadUnsaveNote(r, u) \/ ReadDeleteSort(r, u)

Check(r) == CheckCreatePoint(r) \/ CheckUpdate(r) \/ CheckUnsaveNote(r)

Commit(r) ==
  \/ CommitCreatePoint(r) \/ CommitCreateSave(r) \/ CommitUpdate(r)
  \/ CommitDeleteSave(r) \/ CommitSetTop(r)
  \/ CommitCreateNote(r) \/ CommitDeleteNote(r)
  \/ CommitSaveNote(r) \/ CommitUnsaveNote(r) \/ CommitDeleteSort(r)

RaceNext ==
  \/ \E r \in Requests, u \in Users : Read(r, u)
  \/ \E r \in Requests : Check(r) \/ Commit(r) \/ Throw(r)
  \/ \E u \in Users : InsertSort(u)

RaceSpec == RaceInit /\ [][RaceNext]_raceVars

--------------------------------------------------------------------------------
(* Properties *)

(* Whatever interleaves, the number of all points of a user never exceeds   *)
(* the live saves: a race loses counts, and never invents a point.          *)
PointsNeverOver ==
  \A u \in Users : createPoints[u] + savePoints[u] <= Cardinality(SavesOf(u))

(* The same of the province, city and county counts, but for codes that     *)
(* createOne has taken from another position than the place's.              *)
RegionsNeverOver ==
  \A u \in Users : \A c \in Codes \ Strayed(u) :
    regions[u][c] <= Cardinality({ p \in SavesOf(u) : c \in CodesOf[save[p].place] })

(* A request that is alone does what PointLedger says of it, so that its    *)
(* properties are those of a service whose requests do not overlap.         *)
SerialLedger == Spec
================================================================================
