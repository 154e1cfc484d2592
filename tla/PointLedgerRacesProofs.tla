------------------------ MODULE PointLedgerRacesProofs ------------------------
(***************************************************************************)
(* Proofs about PointLedgerRaces, for any number of requests that          *)
(* interleave, and about the service whose requests do not overlap.        *)
(*                                                                         *)
(* What a job has read may be out of date when it commits, but not all of  *)
(* it: rows are never given away, moved or used again (SavesAge, NotesAge).*)
(* JobsRight says what a job still knows, and it is enough for every       *)
(* Commit to be a Transaction of PointLedgerProofs; the invariants that    *)
(* every transaction keeps then hold whatever interleaves.                 *)
(***************************************************************************)
EXTENDS PointLedgerRaces, PointLedgerProofs

(* What a job knows for as long as it runs, by the kind of its request *)
PointJobRight(j) ==
  /\ j.op \in {"createPoint", "insertPoint"} =>
       j.u \in Users /\ j.pl \in Places /\ j.adcode \in Adcodes /\ j.s \in Sorts \cup {None}
  /\ j.op = "createSave" =>
       j.u \in Users /\ j.q \in SaveIds /\ j.src \in SaveRow /\ ReadAs(j.q, j.src)
  /\ j.op \in {"updatePoint", "updateSave", "writePoint", "writeSave"} =>
       /\ j.u \in Users /\ j.p \in SaveIds /\ HeldBy(j.p, j.u)
       /\ j.old \in SaveRow /\ j.s \in Sorts \cup {None}
  /\ j.op = "deleteSave" =>
       /\ j.u \in Users /\ j.p \in SaveIds /\ HeldBy(j.p, j.u)
       /\ j.old \in SaveRow /\ ReadAs(j.p, j.old)
  /\ j.op = "setTop" =>
       /\ j.p \in SaveIds /\ j.n \in NoteIds
       /\ j.written \in NoteIds \cup {None} /\ j.author \in Accounts

NoteJobRight(j) ==
  /\ j.op = "firstNote" => j.u \in Users /\ j.src \in SaveRow
  /\ j.op = "createNote" =>
       /\ j.u \in Users /\ j.p \in SaveIds /\ HeldBy(j.p, j.u)
       /\ j.src \in SaveRow /\ j.mine \in SaveRow
  /\ j.op = "deleteNote" =>
       /\ j.n \in NoteIds /\ j.p \in SaveIds
       /\ note[j.n].status # "free" /\ note[j.n].psave = j.p

NoteSaveJobRight(j) ==
  /\ j.op = "saveNote" =>
       j.u \in Users /\ j.n \in NoteIds /\ j.p \in SaveIds /\ HeldBy(j.p, j.u)
  /\ j.op = "firstSave" =>
       j.u \in Users /\ j.n \in NoteIds /\ j.old \in NoteRow /\ j.old.psave \in SaveIds
  /\ j.op \in {"unsaveNote", "deleteNoteSave"} =>
       /\ j.u \in Users /\ j.ns.psave \in SaveIds /\ HeldBy(j.ns.psave, j.u)
       /\ j.old \in SaveRow /\ ReadAs(j.ns.psave, j.old) /\ j.left \in SUBSET NoteIds

JobRight(j) ==
  /\ PointJobRight(j) /\ NoteJobRight(j) /\ NoteSaveJobRight(j)
  /\ j.op = "deleteSort" => j.s \in Sorts
  /\ Users # {}

JobsRight ==
  /\ job = [r \in Requests |-> job[r]]
  /\ \A r \in Requests : job[r] # Idle => JobRight(job[r])

--------------------------------------------------------------------------------
(* Jobs and transactions *)

Reads ==
  \/ \E r \in Requests, u \in Users : Read(r, u)
  \/ \E r \in Requests : Check(r)

(* A job that only reads changes no table ...                               *)
LEMMA ReadsOnly == ASSUME Reads PROVE UNCHANGED vars
<1>1. \A r, j : Ask(r, j) => UNCHANGED vars
  BY DEF Ask
<1>2. \A r, op : Checked(r, op) => UNCHANGED vars
  BY DEF Checked
<1>3. ASSUME NEW r \in Requests, NEW u \in Users, Read(r, u)
      PROVE  UNCHANGED vars
  <2>1. CASE ReadCreatePoint(r, u) \/ ReadCreateSave(r, u) \/ ReadUpdate(r, u)
    BY <1>1, <2>1 DEF ReadCreatePoint, ReadCreateSave, ReadUpdate
  <2>2. CASE ReadDeleteSave(r, u) \/ ReadSetTop(r, u) \/ ReadDeleteNote(r, u)
    BY <1>1, <2>2 DEF ReadDeleteSave, ReadSetTop, ReadDeleteNote
  <2>3. CASE ReadCreateNote(r, u)
    BY <1>1, <2>3 DEF ReadCreateNote
  <2>4. CASE ReadSaveNote(r, u)
    BY <1>1, <2>4 DEF ReadSaveNote
  <2>5. CASE ReadUnsaveNote(r, u) \/ ReadDeleteSort(r, u)
    BY <1>1, <2>5 DEF ReadUnsaveNote, ReadDeleteSort
  <2> QED
    BY <1>3, <2>1, <2>2, <2>3, <2>4, <2>5 DEF Read
<1>4. ASSUME NEW r \in Requests, Check(r)
      PROVE  UNCHANGED vars
  BY <1>2, <1>4 DEF Check, CheckCreatePoint, CheckUpdate, CheckUnsaveNote
<1> QED
  BY <1>3, <1>4 DEF Reads

(* ... one that commits runs a transaction ...                              *)
LEMMA CommitTransacts ==
  ASSUME Typed, NEW r \in Requests, job[r] # Idle => JobRight(job[r]), Commit(r)
  PROVE  Transaction
<1> DEFINE j == job[r]
<1>1. ASSUME CommitCreatePoint(r)
      PROVE  Transaction
  BY <1>1 DEF CommitCreatePoint, Runs, JobRight, PointJobRight, Transaction, PointTransaction
<1>2. ASSUME CommitCreateSave(r)
      PROVE  Transaction
  BY <1>2 DEF CommitCreateSave, Runs, JobRight, PointJobRight, Transaction, PointTransaction
<1>3. ASSUME CommitUpdate(r)
      PROVE  Transaction
  BY <1>3 DEF CommitUpdate, Runs, JobRight, PointJobRight, Transaction, PointTransaction
<1>4. ASSUME CommitDeleteSave(r)
      PROVE  Transaction
  BY <1>4 DEF CommitDeleteSave, Runs, JobRight, PointJobRight, Transaction, PointTransaction
<1>5. ASSUME CommitSetTop(r)
      PROVE  Transaction
  BY <1>5 DEF CommitSetTop, Runs, JobRight, PointJobRight, Transaction, PointTransaction
<1>6. ASSUME CommitCreateNote(r)
      PROVE  Transaction
  BY <1>6 DEF CommitCreateNote, Runs, JobRight, NoteJobRight, Transaction, NoteTransaction
<1>7. ASSUME CommitDeleteNote(r)
      PROVE  Transaction
  BY <1>7 DEF CommitDeleteNote, Runs, JobRight, NoteJobRight, Transaction, NoteTransaction
<1>8. ASSUME CommitSaveNote(r)
      PROVE  Transaction
  <2>1. CASE Runs(r, "saveNote") /\ SaveNote(j.u, j.n, j.p)
    BY <2>1 DEF Runs, JobRight, NoteSaveJobRight, Transaction, NoteSaveTransaction
  <2>2. ASSUME Runs(r, "firstSave")
        PROVE  j.u \in Users /\ j.n \in NoteIds /\ j.old \in NoteRow /\ j.old.psave \in SaveIds
    BY <2>2 DEF Runs, JobRight, NoteSaveJobRight
  <2>3. ASSUME Runs(r, "firstSave"), NEW p \in SaveIds, SaveNoteWithSave(j.u, j.n, j.old, p)
        PROVE  Transaction
    BY <2>2, <2>3 DEF Transaction, NoteSaveTransaction
  <2>4. ASSUME Runs(r, "firstSave"), NEW p \in SaveIds, SaveNoteDuplicate(j.u, j.n, j.old, p)
        PROVE  Transaction
    <3>1. TopFor(save[j.old.psave], FALSE) \in NoteIds \cup {None}
      BY <2>2, <2>4, TopType DEF Typed, TypeOK, SaveType
    <3>2. calls' \in CallsType
      BY <2>4, <3>1 DEF SaveNoteDuplicate, RolledBack, CallsType
    <3> QED
      BY <2>4, <3>2 DEF SaveNoteDuplicate, Transaction, NoTransaction
  <2> QED
    BY <1>8, <2>1, <2>3, <2>4 DEF CommitSaveNote
<1>9. ASSUME CommitUnsaveNote(r)
      PROVE  Transaction
  BY <1>9 DEF CommitUnsaveNote, Runs, JobRight, NoteSaveJobRight, Transaction,
              NoteSaveTransaction, UnsaveNote
<1>10. ASSUME CommitDeleteSort(r)
       PROVE  Transaction
  BY <1>10 DEF CommitDeleteSort, Runs, JobRight, Transaction, SortTransaction
<1> QED
  BY <1>1, <1>2, <1>3, <1>4, <1>5, <1>6, <1>7, <1>8, <1>9, <1>10 DEF Commit

(* ... and so does every step, for one that throws or reads runs none.      *)
LEMMA RaceTransacts ==
  ASSUME Typed, JobsRight, [RaceNext]_raceVars
  PROVE  Transaction
<1>1. CASE Reads \/ UNCHANGED raceVars
  <2>1. UNCHANGED tables /\ calls' = calls
    BY <1>1, ReadsOnly DEF raceVars, vars, tables, counters, notes
  <2> QED
    BY <2>1 DEF Transaction, NoTransaction, Typed, TypeOK
<1>2. ASSUME NEW r \in Requests, Commit(r)
      PROVE  Transaction
  BY <1>2, CommitTransacts DEF JobsRight
<1>3. ASSUME NEW r \in Requests, Throw(r)
      PROVE  Transaction
  <2>1. calls' \in CallsType
    BY <1>3 DEF Throw, Rejected, RolledBack, CallsType
  <2> QED
    BY <1>3, <2>1 DEF Throw, Rejected, Transaction, NoTransaction
<1>4. ASSUME NEW u \in Users, InsertSort(u)
      PROVE  Transaction
  BY <1>4 DEF InsertSort, Transaction, SortTransaction
<1> QED
  BY <1>1, <1>2, <1>3, <1>4 DEF RaceNext, Reads

(* What a job knows stays so, whatever other jobs do: no row of a save or   *)
(* of a note that it has read is given away, moved or used again.           *)
LEMMA JobKept ==
  ASSUME Typed, Transaction, NEW r \in Requests, JobRight(job[r]), job'[r] = job[r]
  PROVE  JobRight(job[r])'
<1>1. \A p \in SaveIds : save[p].status # "free" =>
        /\ save'[p].status # "free"
        /\ save'[p].user = save[p].user /\ save'[p].place = save[p].place
  BY SavesAge DEF SaveAges
<1>2. \A n \in NoteIds : note[n].status # "free" =>
        note'[n].status # "free" /\ note'[n].psave = note[n].psave
  BY NotesAge DEF NoteAges
<1> USE DEF JobRight
<1>3. PointJobRight(job[r])'
  BY <1>1 DEF PointJobRight, ReadAs, HeldBy
<1>4. NoteJobRight(job[r])'
  BY <1>1, <1>2 DEF NoteJobRight, HeldBy
<1>5. NoteSaveJobRight(job[r])'
  BY <1>1 DEF NoteSaveJobRight, ReadAs, HeldBy
<1> QED
  BY <1>3, <1>4, <1>5

(* A job that starts, or goes on, with what it knows is right ...           *)
LEMMA JobSet ==
  ASSUME JobsRight, NEW r \in Requests, NEW j, JobRight(j), UNCHANGED vars,
         job' = [job EXCEPT ![r] = j]
  PROVE  JobsRight'
<1>1. UNCHANGED <<save, note>>
  BY DEF vars
<1>2. job' = [x \in Requests |-> IF x = r THEN j ELSE job[x]]
  BY DEF JobsRight
<1>3. ASSUME NEW x \in Requests, job'[x] # Idle
      PROVE  JobRight(job[x])'
  <2>1. job'[x] = j \/ (job'[x] = job[x] /\ JobRight(job[x]))
    BY <1>2, <1>3 DEF JobsRight
  <2>2. CASE job'[x] = j
    BY <1>1, <2>2
    DEF JobRight, PointJobRight, NoteJobRight, NoteSaveJobRight, ReadAs, HeldBy
  <2>3. CASE job'[x] = job[x] /\ JobRight(job[x])
    BY <1>1, <2>3
    DEF JobRight, PointJobRight, NoteJobRight, NoteSaveJobRight, ReadAs, HeldBy
  <2> QED
    BY <2>1, <2>2, <2>3
<1> QED
  BY <1>2, <1>3 DEF JobsRight

(* ... one that ends knows nothing ...                                      *)
LEMMA JobEnds ==
  ASSUME Typed, Transaction, JobsRight, NEW r \in Requests, Answer(r) \/ UNCHANGED job
  PROVE  JobsRight'
<1>1. ASSUME NEW x \in Requests, job'[x] # Idle
      PROVE  JobRight(job[x])'
  <2>1. job'[x] = job[x]
    BY <1>1 DEF Answer, JobsRight
  <2> QED
    BY <1>1, <2>1, JobKept DEF JobsRight
<1>2. job' = [x \in Requests |-> job'[x]]
  BY DEF Answer, JobsRight
<1> QED
  BY <1>1, <1>2 DEF JobsRight

(* ... what a job reads first is what there is ...                          *)
LEMMA JobStarts ==
  ASSUME Typed, JobsRight, NEW r \in Requests, NEW u \in Users, Read(r, u)
  PROVE  JobsRight'
<1> USE DEF JobRight, PointJobRight, NoteJobRight, NoteSaveJobRight
<1>1. \A j : Ask(r, j) /\ JobRight(j) => JobsRight'
  BY JobSet DEF Ask
<1>2. \A p \in SavesOf(u) : p \in SaveIds /\ HeldBy(p, u) /\ ReadAs(p, save[p])
  BY DEF SavesOf, LiveSave, HeldBy, ReadAs
<1>3. /\ \A p \in SaveIds : save[p] \in SaveRow /\ save[p].note \in NoteIds \cup {None}
      /\ \A n \in NoteIds : note[n] \in NoteRow /\ note[n].user \in Accounts
  BY DEF Typed, TypeOK, SaveType, SaveRow, NoteType, NoteRow
<1>4. CASE ReadCreatePoint(r, u)
  BY <1>1, <1>4 DEF ReadCreatePoint
<1>5. CASE ReadCreateSave(r, u)
  BY <1>1, <1>3, <1>5 DEF ReadCreateSave, LiveSave, ReadAs
<1>6. CASE ReadUpdate(r, u)
  BY <1>1, <1>2, <1>3, <1>6 DEF ReadUpdate
<1>7. CASE ReadDeleteSave(r, u)
  BY <1>1, <1>2, <1>3, <1>7 DEF ReadDeleteSave
<1>8. CASE ReadSetTop(r, u)
  BY <1>1, <1>2, <1>3, <1>8 DEF ReadSetTop
<1>9. CASE ReadCreateNote(r, u)
  BY <1>1, <1>2, <1>3, <1>9 DEF ReadCreateNote, SavesAt
<1>10. CASE ReadDeleteNote(r, u)
  BY <1>1, <1>10 DEF ReadDeleteNote, LiveNote, Typed, NotesPlaced
<1>11. CASE ReadSaveNote(r, u)
  BY <1>1, <1>2, <1>3, <1>11 DEF ReadSaveNote, CanBeSaved, SavesAt, Typed, NotesPlaced
<1>12. CASE ReadUnsaveNote(r, u)
  BY <1>1, <1>2, <1>3, <1>12 DEF ReadUnsaveNote
<1>13. CASE ReadDeleteSort(r, u)
  BY <1>1, <1>13 DEF ReadDeleteSort
<1> QED
  BY <1>4, <1>5, <1>6, <1>7, <1>8, <1>9, <1>10, <1>11, <1>12, <1>13 DEF Read

(* ... and what it reads in between leaves it what it knows.                *)
LEMMA JobGoesOn ==
  ASSUME Typed, JobsRight, NEW r \in Requests, Check(r)
  PROVE  JobsRight'
<1> DEFINE j == job[r]
<1>1. \A k : UNCHANGED vars /\ job' = [job EXCEPT ![r] = k] /\ JobRight(k) => JobsRight'
  BY JobSet
<1>2. \A op, old : job[r] # Idle /\ job[r].op = old => JobRight(job[r])
  BY DEF JobsRight
<1>3. CASE CheckCreatePoint(r)
  <2> DEFINE k == [j EXCEPT !.op = "insertPoint"]
  <2>1. UNCHANGED vars /\ job' = [job EXCEPT ![r] = k] /\ JobRight(j) /\ j.op = "createPoint"
    BY <1>2, <1>3 DEF CheckCreatePoint, Checked, Runs
  <2>2. JobRight(k)
    BY <2>1 DEF JobRight, PointJobRight, NoteJobRight, NoteSaveJobRight
  <2> QED
    BY <1>1, <2>1, <2>2
<1>4. CASE CheckUpdate(r)
  <2>1. PICK op \in {"writePoint", "writeSave"} :
          /\ UNCHANGED vars /\ job' = [job EXCEPT ![r] = [j EXCEPT !.op = op]]
          /\ JobRight(j) /\ j.op \in {"updatePoint", "updateSave"}
    BY <1>2, <1>4 DEF CheckUpdate, Checked, Runs
  <2>2. JobRight([j EXCEPT !.op = op])
    BY <2>1 DEF JobRight, PointJobRight, NoteJobRight, NoteSaveJobRight
  <2> QED
    BY <1>1, <2>1, <2>2
<1>5. CASE CheckUnsaveNote(r)
  <2> DEFINE k == [j EXCEPT !.op = "deleteNoteSave", !.left = LeftOn(j.ns)]
  <2>1. UNCHANGED vars /\ job' = [job EXCEPT ![r] = k] /\ JobRight(j) /\ j.op = "unsaveNote"
    BY <1>2, <1>5 DEF CheckUnsaveNote, Runs
  <2>2. LeftOn(j.ns) \in SUBSET NoteIds
    BY DEF LeftOn, Typed, TypeOK, NoteSaveRow
  <2>3. JobRight(k)
    BY <2>1, <2>2 DEF JobRight, PointJobRight, NoteJobRight, NoteSaveJobRight
  <2> QED
    BY <1>1, <2>1, <2>3
<1> QED
  BY <1>3, <1>4, <1>5 DEF Check

(* So every step leaves the jobs right.                                     *)
LEMMA JobsStep ==
  ASSUME Typed, JobsRight, [RaceNext]_raceVars
  PROVE  JobsRight'
<1>1. Transaction
  BY RaceTransacts
<1>2. CASE UNCHANGED raceVars \/ \E u \in Users : InsertSort(u)
  <2>1. UNCHANGED job
    BY <1>2 DEF raceVars, InsertSort
  <2>2. CASE Requests = {}
    BY <2>1, <2>2 DEF JobsRight
  <2>3. ASSUME NEW r \in Requests PROVE JobsRight'
    BY <1>1, <2>1, JobEnds
  <2> QED
    BY <2>2, <2>3
<1>3. ASSUME NEW r \in Requests, Commit(r) \/ Throw(r)
      PROVE  JobsRight'
  <2>1. Answer(r)
    BY <1>3 DEF Commit, Throw, CommitCreatePoint, CommitCreateSave, CommitUpdate,
                CommitDeleteSave, CommitSetTop, CommitCreateNote, CommitDeleteNote,
                CommitSaveNote, CommitUnsaveNote, CommitDeleteSort
  <2> QED
    BY <1>1, <2>1, JobEnds
<1> QED
  BY <1>2, <1>3, JobStarts, JobGoesOn DEF RaceNext

(* No job is in progress at first. *)
LEMMA InitRace == RaceInit => Typed /\ JobsRight
BY InitTyped DEF RaceInit, JobsRight

(* The types of the tables and what the jobs know hold together. *)
LEMMA RaceStep == Typed /\ JobsRight /\ [RaceNext]_raceVars => Typed' /\ JobsRight' /\ Transaction
BY RaceTransacts, TransactionTyped, JobsStep

(* Whatever interleaves, every column keeps its type: no two requests bring *)
(* an unsigned counter below zero.                                          *)
THEOREM RacesTyped == RaceSpec => []TypeOK
<1>1. Typed => TypeOK
  BY DEF Typed
<1> QED
  BY <1>1, InitRace, RaceStep, PTL DEF RaceSpec

(* Nor does a transaction that commits after others, with what it read      *)
(* before them, bring a deleted save or note back to life, give one that    *)
(* exists to another user, or move it to another place or save.             *)
THEOREM RacesAge ==
  RaceSpec => [][/\ \A p \in SaveIds : SaveAges(p)
                 /\ \A n \in NoteIds : NoteAges(n)]_raceVars
<1>1. Typed /\ JobsRight /\ [RaceNext]_raceVars =>
        [/\ \A p \in SaveIds : SaveAges(p)
         /\ \A n \in NoteIds : NoteAges(n)]_raceVars
  BY RaceStep, SavesAge, NotesAge
<1> QED
  BY <1>1, InitRace, RaceStep, PTL DEF RaceSpec

--------------------------------------------------------------------------------
(* Notes and links *)

(* A note is not saved and masked at once, whatever interleaves.            *)
THEOREM RacesMaskRight == RaceSpec => []SavedNotMasked
<1>1. RaceInit => SavedNotMasked
  BY DEF RaceInit, Init, SavedNotMasked
<1> QED
  BY <1>1, InitRace, RaceStep, MasksRight, PTL DEF RaceSpec

(* Nor does an interleaving make a deleted or somebody else's note one's    *)
(* own, though a note may be written on a save that is deleted meanwhile,   *)
(* and two on one save.                                                     *)
THEOREM RacesNoteRight == RaceSpec => []OwnNoteLive
<1>1. RaceInit => OwnNoteLive
  BY InitOwnNotes DEF RaceInit
<1> QED
  BY <1>1, InitRace, RaceStep, OwnNotesRight, PTL DEF RaceSpec

(* Whoever keeps a save follows its owner, also when that save was deleted  *)
(* or promoted after it was read.                                           *)
THEOREM RacesFollow == RaceSpec => []SaversLinked
<1>1. RaceInit => CopiesLinked
  BY InitLinks DEF RaceInit
<1> QED
  BY <1>1, InitRace, RaceStep, LinksRight, LinkedSavers, PTL DEF RaceSpec

--------------------------------------------------------------------------------
(* The number of points *)

(* The three ways a transaction can treat the saves, the totals and the     *)
(* regions.  What a deletion takes away may have been taken away before.    *)
Rests(x) ==
  Keeps(x) /\ save'[x].place = save[x].place /\ save'[x].astray = save[x].astray

Leaves ==
  /\ \A x \in SaveIds : Rests(x)
  /\ \A v \in Users : Total(v)' = Total(v)
  /\ regions' = regions

Brings(u, p) ==
  /\ save[p].status = "free" /\ save'[p].status = "live" /\ save'[p].user = u
  /\ \A x \in SaveIds \ {p} : Rests(x)
  /\ \A v \in Users : Total(v)' = IF v = u THEN Total(v) + 1 ELSE Total(v)
  /\ \E adcode :
       /\ regions' = IncrementPCP(u, adcode)
       /\ \A c \in Codes \ save'[p].astray : c \in adcode <=> c \in CodesOf[save'[p].place]

Drops(u, p) ==
  /\ HeldBy(p, u)
  /\ save'[p].status = "deleted" /\ save'[p].user = u /\ save'[p].place = save[p].place
  /\ save'[p].astray = save[p].astray
  /\ \A x \in SaveIds \ {p} : Rests(x)
  /\ \A v \in Users : Total(v)' = IF v = u THEN Total(v) - 1 ELSE Total(v)
  /\ CanDecrementPCP(u, CodesOf[save[p].place])
  /\ regions' = DecrementPCP(u, CodesOf[save[p].place])

(* What a deletion takes away from the regions and the totals is what its   *)
(* save brought, for its place is the one that was read.                    *)
LEMMA Dropped ==
  ASSUME Typed, NEW u \in Users, NEW p \in SaveIds, NEW old, HeldBy(p, u), ReadAs(p, old),
         Uncount(u, old),
         save'[p].status = "deleted", save'[p].user = save[p].user,
         save'[p].place = save[p].place, save'[p].astray = save[p].astray,
         \A x \in SaveIds \ {p} : save'[x] = save[x]
  PROVE  Drops(u, p)
<1>1. \A v \in Users : Total(v)' = IF v = u THEN Total(v) - 1 ELSE Total(v)
  BY UncountTotal
<1>2. regions' = DecrementPCP(u, CodesOf[save[p].place]) /\ CanDecrementPCP(u, CodesOf[save[p].place])
  BY DEF Uncount, ReadAs
<1> QED
  BY <1>1, <1>2 DEF Drops, HeldBy, Rests, Keeps

(* The transactions on points are of the three kinds ... *)
LEMMA PointEffects ==
  ASSUME Typed, NEW u \in Users, PointTransaction(u)
  PROVE  Leaves \/ \E p \in SaveIds : Brings(u, p) \/ Drops(u, p)
<1> USE DEF Typed, TypeOK
<1>1. ASSUME NEW pl \in Places, NEW adcode \in Adcodes, NEW s \in Sorts \cup {None}, NEW p \in SaveIds,
             CreatePoint(u, pl, adcode, s, p)
      PROVE  Brings(u, p)
  <2> DEFINE astray == (adcode \ CodesOf[pl]) \cup (CodesOf[pl] \ adcode)
             row == [BlankSave EXCEPT !.status = "live", !.user = u, !.place = pl, !.sort = s,
                                      !.own = "MY_CREATE", !.ff = p, !.astray = astray]
  <2>1. save'[p] = row /\ \A x \in SaveIds \ {p} : save'[x] = save[x]
    BY <1>1 DEF CreatePoint, SaveType
  <2>2. row.status = "live" /\ row.user = u /\ row.place = pl /\ row.astray = astray
    BY DEF BlankSave
  <2>3. /\ regions' = IncrementPCP(u, adcode)
        /\ \A c \in Codes \ save'[p].astray : c \in adcode <=> c \in CodesOf[save'[p].place]
    BY <1>1, <2>1, <2>2 DEF CreatePoint
  <2>4. \A v \in Users : Total(v)' = IF v = u THEN Total(v) + 1 ELSE Total(v)
    BY <1>1 DEF CreatePoint, Total, CountType
  <2> HIDE DEF row
  <2> QED
    BY <1>1, <2>1, <2>2, <2>3, <2>4 DEF CreatePoint, FreshSave, Brings, Rests, Keeps
<1>2. ASSUME NEW q \in SaveIds, NEW src, NEW p \in SaveIds, CreateSave(u, q, src, p)
      PROVE  Brings(u, p)
  <2>1. /\ save[p].status = "free" /\ save'[p].status = "live" /\ save'[p].user = u
        /\ save'[p].place = src.place /\ save'[p].astray = {}
        /\ \A x \in SaveIds \ {p} : Rests(x)
    BY <1>2 DEF CreateSave, CopyOf, FreshSave, BlankSave, Rests, Keeps, SaveType
  <2>2. regions' = IncrementPCP(u, CodesOf[src.place])
    BY <1>2 DEF CreateSave
  <2>3. \A v \in Users : Total(v)' = IF v = u THEN Total(v) + 1 ELSE Total(v)
    BY <1>2 DEF CreateSave, CountCopy, Total, CountType
  <2> QED
    BY <2>1, <2>2, <2>3 DEF Brings
<1>3. ASSUME NEW p \in SaveIds, NEW old, NEW s \in Sorts \cup {None},
             UpdatePoint(u, p, old, s) \/ UpdateSave(u, p, old, s)
      PROVE  Leaves
  BY <1>3 DEF UpdatePoint, UpdateSave, Refile, Leaves, Rests, Keeps, Total, SaveType, SaveRow
<1>4. ASSUME NEW p \in SaveIds, NEW old, HeldBy(p, u), ReadAs(p, old), DeleteSave(u, p, old)
      PROVE  Drops(u, p)
  BY <1>4, Dropped DEF DeleteSave, SaveType, SaveRow
<1>5. ASSUME NEW p \in SaveIds, NEW n \in NoteIds, NEW written, NEW author,
             SetTop(p, n, written, author)
      PROVE  Leaves
  BY <1>5 DEF SetTop, counters, Leaves, Rests, Keeps, Total, SaveType, SaveRow
<1> QED
  BY <1>1, <1>2, <1>3, <1>4, <1>5 DEF PointTransaction

(* ... and so are those on notes, which delete no save ... *)
LEMMA NoteEffects ==
  ASSUME Typed, NEW u \in Users, NoteTransaction(u)
  PROVE  Leaves \/ \E p \in SaveIds : Brings(u, p)
<1> USE DEF Typed, TypeOK
<1>1. ASSUME NEW src, NEW p \in SaveIds, NEW n \in NoteIds, CreateNoteWithSave(u, src, n, p)
      PROVE  Brings(u, p)
  <2>1. /\ save[p].status = "free" /\ save'[p].status = "live" /\ save'[p].user = u
        /\ save'[p].place = src.place /\ save'[p].astray = {}
        /\ \A x \in SaveIds \ {p} : Rests(x)
    BY <1>1 DEF CreateNoteWithSave, FreshSave, BlankSave, Rests, Keeps, SaveType
  <2>2. regions' = IncrementPCP(u, CodesOf[src.place])
    BY <1>1 DEF CreateNoteWithSave
  <2>3. \A v \in Users : Total(v)' = IF v = u THEN Total(v) + 1 ELSE Total(v)
    BY <1>1 DEF CreateNoteWithSave, CountCopy, Total, CountType
  <2> QED
    BY <2>1, <2>2, <2>3 DEF Brings
<1>2. ASSUME NEW src, NEW mine, NEW p \in SaveIds, NEW n \in NoteIds,
             CreateNote(u, src, mine, n, p)
      PROVE  Leaves
  <2>1. \A v \in Users : Total(v)' = Total(v)
    BY <1>2, PromoteTotal DEF CreateNote
  <2>2. \A x \in SaveIds : Rests(x)
    BY <1>2 DEF CreateNote, WithNote, Rests, Keeps, SaveType, SaveRow
  <2> QED
    BY <1>2, <2>1, <2>2 DEF CreateNote, Leaves
<1>3. ASSUME NEW n \in NoteIds, NEW p \in SaveIds, DeleteNote(n, p)
      PROVE  Leaves
  BY <1>3 DEF DeleteNote, counters, Leaves, Rests, Keeps, Total, SaveType, SaveRow
<1> QED
  BY <1>1, <1>2, <1>3 DEF NoteTransaction

(* ... and those on saved notes. *)
LEMMA NoteSaveEffects ==
  ASSUME Typed, NEW u \in Users, NoteSaveTransaction(u)
  PROVE  Leaves \/ \E p \in SaveIds : Brings(u, p) \/ Drops(u, p)
<1> USE DEF Typed, TypeOK
<1>1. ASSUME NEW n \in NoteIds, NEW p \in SaveIds, SaveNote(u, n, p)
      PROVE  Leaves
  BY <1>1 DEF SaveNote, counters, Leaves, Rests, Keeps, Total, SaveType, SaveRow
<1>2. ASSUME NEW n \in NoteIds, NEW old, NEW p \in SaveIds, SaveNoteWithSave(u, n, old, p)
      PROVE  Brings(u, p)
  <2>1. /\ save[p].status = "free" /\ save'[p].status = "live" /\ save'[p].user = u
        /\ save'[p].place = save[old.psave].place /\ save'[p].astray = {}
        /\ \A x \in SaveIds \ {p} : Rests(x)
    BY <1>2 DEF SaveNoteWithSave, CopyOf, FreshSave, BlankSave, Rests, Keeps, SaveType
  <2>2. regions' = IncrementPCP(u, CodesOf[save[old.psave].place])
    BY <1>2 DEF SaveNoteWithSave
  <2>3. \A v \in Users : Total(v)' = IF v = u THEN Total(v) + 1 ELSE Total(v)
    BY <1>2 DEF SaveNoteWithSave, CountCopy, Total, CountType
  <2> QED
    BY <2>1, <2>2, <2>3 DEF Brings
<1>3. ASSUME NEW ns \in noteSaves, NEW old, NEW left, HeldBy(ns.psave, u),
             ReadAs(ns.psave, old), UnsaveNote(u, ns, old, left)
      PROVE  Leaves \/ (ns.psave \in SaveIds /\ Drops(u, ns.psave))
  <2> DEFINE p == ns.psave
  <2>1. p \in SaveIds /\ save[p] \in SaveRow
    BY DEF NoteSaveRow, SaveType
  <2>2. ASSUME NEW t, save' = [save EXCEPT ![p].top = t]
        PROVE  \A x \in SaveIds : Rests(x)
    BY <2>1, <2>2 DEF Rests, Keeps, SaveType, SaveRow
  <2>3. save' = save => \A x \in SaveIds : Rests(x)
    BY DEF Rests, Keeps
  <2>4. CASE UNCHANGED counters /\ (save' = save \/ \E t : save' = [save EXCEPT ![p].top = t])
    BY <2>2, <2>3, <2>4 DEF Leaves, counters, Total
  <2>5. CASE /\ save' = [save EXCEPT ![p].top = None, ![p].status = "deleted"]
             /\ Uncount(u, old)
    BY <1>3, <2>1, <2>5, Dropped DEF SaveType, SaveRow
  <2> QED
    BY <1>3, <2>1, <2>4, <2>5 DEF UnsaveNote
<1> QED
  BY <1>1, <1>2, <1>3 DEF NoteSaveTransaction

(* So every transaction is of the three kinds. *)
LEMMA Effects ==
  ASSUME Typed, Transaction
  PROVE  Leaves \/ \E u \in Users, p \in SaveIds : Brings(u, p) \/ Drops(u, p)
<1>1. ASSUME NEW u \in Users, SortTransaction(u)
      PROVE  Leaves
  BY <1>1 DEF SortTransaction, CreateSort, DeleteSort, counters, Leaves, Rests, Keeps, Total
<1>2. CASE NoTransaction
  BY <1>2 DEF NoTransaction, tables, counters, Leaves, Rests, Keeps, Total
<1> QED
  BY <1>1, <1>2, PointEffects, NoteEffects, NoteSaveEffects DEF Transaction

InRegion(u, c) == { p \in SavesOf(u) : c \in CodesOf[save[p].place] }

RaceCounts == PointsNeverOver /\ RegionsNeverOver

(* What has strayed stays so, as long as saves keep their rows.             *)
LEMMA StraysRest ==
  ASSUME \A x \in SaveIds : Rests(x) \/ FreshSave(x)
  PROVE  \A u \in Users : Strayed(u) \subseteq Strayed(u)'
BY DEF Strayed, Rests, Keeps, FreshSave

(* A transaction that moves no save changes nothing that is counted ...     *)
LEMMA LeavesCounts == ASSUME RaceCounts, Leaves PROVE RaceCounts'
<1>1. \A u \in Users : SavesOf(u)' = SavesOf(u)
  BY DEF Leaves, Rests, Keeps, SavesOf, LiveSave
<1>2. \A u \in Users, c \in Codes : InRegion(u, c)' = InRegion(u, c)
  BY <1>1 DEF Leaves, Rests, InRegion, SavesOf
<1>3. PointsNeverOver'
  BY <1>1 DEF RaceCounts, PointsNeverOver, Leaves, Total
<1>4. RegionsNeverOver'
  BY <1>2, StraysRest DEF RaceCounts, RegionsNeverOver, Leaves, InRegion
<1> QED
  BY <1>3, <1>4 DEF RaceCounts

(* ... one that brings a save counts it once ...                            *)
LEMMA BringsCounts ==
  ASSUME Typed, RaceCounts, NEW u \in Users, NEW p \in SaveIds, Brings(u, p)
  PROVE  RaceCounts'
<1>1. PointsNeverOver'
  <2> SUFFICES ASSUME NEW v \in Users
               PROVE  Total(v)' <= Cardinality(SavesOf(v)')
    BY DEF PointsNeverOver, Total
  <2>1. SavesOf(v)' = (IF v = u THEN SavesOf(v) \cup {p} ELSE SavesOf(v))
        /\ p \notin SavesOf(v)
    BY DEF Brings, Rests, Keeps, SavesOf, LiveSave
  <2>2. Cardinality(SavesOf(v)) \in Nat
        /\ Cardinality(SavesOf(v) \cup {p}) = Cardinality(SavesOf(v)) + 1
    BY <2>1, CountedFinite DEF SavesOf
  <2>3. Total(v) \in Nat /\ Total(v) <= Cardinality(SavesOf(v))
    BY DEF RaceCounts, PointsNeverOver, Total, Typed, TypeOK, CountType
  <2> QED
    BY <2>1, <2>2, <2>3 DEF Brings
<1>2. RegionsNeverOver'
  <2> SUFFICES ASSUME NEW v \in Users, NEW c \in Codes, c \notin Strayed(v)'
               PROVE  regions'[v][c] <= Cardinality(InRegion(v, c)')
    BY DEF RegionsNeverOver, InRegion
  <2>0. c \notin Strayed(v)
    <3>1. \A x \in SaveIds : Rests(x) \/ FreshSave(x)
      BY DEF Brings, FreshSave
    <3> QED
      BY <3>1, StraysRest
  <2> DEFINE counted == v = u /\ c \in CodesOf[save'[p].place]
  <2>1. InRegion(v, c)' = (IF counted THEN InRegion(v, c) \cup {p} ELSE InRegion(v, c))
        /\ p \notin InRegion(v, c)
    BY DEF Brings, Rests, Keeps, InRegion, SavesOf, LiveSave
  <2>2. Cardinality(InRegion(v, c)) \in Nat
        /\ Cardinality(InRegion(v, c) \cup {p}) = Cardinality(InRegion(v, c)) + 1
    BY <2>1, CountedFinite DEF InRegion, SavesOf
  <2>3. regions[v][c] \in Nat \cup {Absent} /\ regions[v][c] <= Cardinality(InRegion(v, c))
    BY <2>0 DEF RaceCounts, RegionsNeverOver, InRegion, Typed, TypeOK, RegionsType
  <2>4. regions'[v][c] = IF ~counted THEN regions[v][c]
                         ELSE IF regions[v][c] = Absent THEN 1 ELSE regions[v][c] + 1
    <3>1. PICK adcode :
            /\ regions' = IncrementPCP(u, adcode)
            /\ \A d \in Codes \ save'[p].astray : d \in adcode <=> d \in CodesOf[save'[p].place]
      BY DEF Brings
    <3>2. v = u => c \notin save'[p].astray
      BY DEF Strayed, Brings, FreshSave
    <3>3. v = u => (c \in adcode <=> c \in CodesOf[save'[p].place])
      BY <3>1, <3>2
    <3> QED
      BY <3>1, <3>3 DEF IncrementPCP, Typed, TypeOK, RegionsType
  <2> QED
    BY <2>1, <2>2, <2>3, <2>4 DEF Absent
<1> QED
  BY <1>1, <1>2 DEF RaceCounts

(* One element less is at most one less. *)
LEMMA CountedWithout ==
  ASSUME NEW S \in SUBSET SaveIds, NEW p
  PROVE  /\ Cardinality(S) \in Nat /\ Cardinality(S \ {p}) \in Nat
         /\ Cardinality(S \ {p}) >= Cardinality(S) - 1
<1>1. CASE p \in S
  BY <1>1, CountedFinite
<1>2. CASE p \notin S
  <2>1. S \ {p} = S
    BY <1>2
  <2> QED
    BY <2>1, CountedFinite
<1> QED
  BY <1>1, <1>2

(* ... and one that drops a save takes away at least what it drops.         *)
LEMMA DropsCounts ==
  ASSUME Typed, RaceCounts, NEW u \in Users, NEW p \in SaveIds, Drops(u, p)
  PROVE  RaceCounts'
<1>1. PointsNeverOver'
  <2> SUFFICES ASSUME NEW v \in Users
               PROVE  Total(v)' <= Cardinality(SavesOf(v)')
    BY DEF PointsNeverOver, Total
  <2>1. SavesOf(v)' = (IF v = u THEN SavesOf(v) \ {p} ELSE SavesOf(v))
    BY DEF Drops, HeldBy, Rests, Keeps, SavesOf, LiveSave
  <2>2. /\ Cardinality(SavesOf(v)) \in Nat /\ Cardinality(SavesOf(v) \ {p}) \in Nat
        /\ Cardinality(SavesOf(v) \ {p}) >= Cardinality(SavesOf(v)) - 1
    BY CountedWithout DEF SavesOf
  <2>3. Total(v) \in Nat /\ Total(v) <= Cardinality(SavesOf(v))
    BY DEF RaceCounts, PointsNeverOver, Total, Typed, TypeOK, CountType
  <2> QED
    BY <2>1, <2>2, <2>3 DEF Drops
<1>2. RegionsNeverOver'
  <2> SUFFICES ASSUME NEW v \in Users, NEW c \in Codes, c \notin Strayed(v)'
               PROVE  regions'[v][c] <= Cardinality(InRegion(v, c)')
    BY DEF RegionsNeverOver, InRegion
  <2>0. c \notin Strayed(v)
    BY DEF Strayed, FreshSave, Drops, HeldBy, Rests, Keeps
  <2> DEFINE counted == v = u /\ c \in CodesOf[save[p].place]
  <2>1. InRegion(v, c)' = (IF counted THEN InRegion(v, c) \ {p} ELSE InRegion(v, c))
    BY DEF Drops, HeldBy, Rests, Keeps, InRegion, SavesOf, LiveSave
  <2>2. /\ Cardinality(InRegion(v, c)) \in Nat /\ Cardinality(InRegion(v, c) \ {p}) \in Nat
        /\ Cardinality(InRegion(v, c) \ {p}) >= Cardinality(InRegion(v, c)) - 1
    BY CountedWithout DEF InRegion, SavesOf
  <2>3. regions[v][c] \in Nat \cup {Absent} /\ regions[v][c] <= Cardinality(InRegion(v, c))
    BY <2>0 DEF RaceCounts, RegionsNeverOver, InRegion, Typed, TypeOK, RegionsType
  <2>4. regions'[v][c] = IF counted /\ regions[v][c] # Absent
                         THEN regions[v][c] - 1 ELSE regions[v][c]
    BY DEF Drops, DecrementPCP, Typed, TypeOK, RegionsType
  <2> QED
    BY <2>1, <2>2, <2>3, <2>4 DEF Absent
<1> QED
  BY <1>1, <1>2 DEF RaceCounts

(* At first nobody has a point. *)
LEMMA InitCounts == RaceInit => RaceCounts
<1> SUFFICES ASSUME RaceInit
             PROVE  RaceCounts
  OBVIOUS
<1>1. \A u \in Users : SavesOf(u) = {}
  BY LedgerConstants DEF RaceInit, Init, SavesOf, LiveSave, PublicSave, BlankSave
<1>2. \A u \in Users, c \in Codes : InRegion(u, c) = {}
  BY <1>1 DEF InRegion
<1>3. PointsNeverOver
  <2>1. \A u \in Users : Cardinality(SavesOf(u)) = 0
    BY <1>1, FS_EmptySet
  <2> QED
    BY <2>1 DEF PointsNeverOver, RaceInit, Init
<1>4. RegionsNeverOver
  <2>1. \A u \in Users, c \in Codes : Cardinality(InRegion(u, c)) = 0
    BY <1>2, FS_EmptySet
  <2> QED
    BY <2>1 DEF RegionsNeverOver, InRegion, RaceInit, Init, Absent
<1> QED
  BY <1>3, <1>4 DEF RaceCounts

(* Every transaction keeps the counts from going over. *)
LEMMA CountsStep == RaceCounts /\ Typed /\ Transaction => RaceCounts'
BY Effects, LeavesCounts, BringsCounts, DropsCounts

(* Whatever interleaves, createPoints and savePoints of a user never add up *)
(* to more than the user's live saves: two deletions of one save take two   *)
(* away, and nothing adds a count without a save.                           *)
THEOREM RacesNeverOver == RaceSpec => []PointsNeverOver
<1>1. RaceCounts => PointsNeverOver
  BY DEF RaceCounts
<1> QED
  BY <1>1, InitCounts, CountsStep, InitRace, RaceStep, PTL DEF RaceSpec

(* Nor do the counts of a region, and they are never below zero: the map    *)
(* at low zoom shows no point that is not there.                            *)
THEOREM RaceRegionsNeverOver == RaceSpec => []RegionsNeverOver
<1>1. RaceCounts => RegionsNeverOver
  BY DEF RaceCounts
<1> QED
  BY <1>1, InitCounts, CountsStep, InitRace, RaceStep, PTL DEF RaceSpec

--------------------------------------------------------------------------------
(* One request at a time *)

Alone == \A q, r \in Requests : q = r

(* What the only job in progress has read is what is there, and what its    *)
(* handler checked holds.                                                   *)
PointJobNow(j) ==
  /\ j.op \in {"createPoint", "insertPoint"} => (j.s \in Sorts => sort[j.s] = "live")
  /\ j.op = "insertPoint" => SavesAt(j.u, j.pl) = {}
  /\ j.op = "createSave" => LiveSave(j.q) /\ SavesPlaceOf(j.u, j.q) /\ j.src = save[j.q]
  /\ j.op \in {"updatePoint", "updateSave", "writePoint", "writeSave", "deleteSave"} =>
       j.p \in SavesOf(j.u) /\ j.old = save[j.p]
  /\ j.op \in {"updateSave", "writeSave"} => SortIds(j.s)
  /\ j.op \in {"writePoint", "writeSave"} => SortFound(j.u, j.old, j.s)
  /\ j.op = "setTop" =>
       /\ \E u \in Users : j.p \in SavesOf(u)
       /\ LiveNote(j.n) /\ j.written = save[j.p].note /\ j.author = note[j.n].user

NoteJobNow(j) ==
  /\ j.op = "firstNote" =>
       \E q \in SaveIds :
         /\ LiveSave(q) /\ save[q].user = Public
         /\ SavesAt(j.u, save[q].place) = {} /\ j.src = save[q]
  /\ j.op = "createNote" =>
       /\ j.mine = save[j.p]
       /\ \E q \in SaveIds :
            LiveSave(q) /\ NotePsave(j.u, q) /\ j.p \in SavesAt(j.u, save[q].place)
            /\ j.src = save[q]
  /\ j.op = "deleteNote" => LiveNote(j.n) /\ note[j.n].user \in Users

NoteSaveJobNow(j) ==
  /\ j.op \in {"saveNote", "firstSave"} => CanBeSaved(j.u, j.n)
  /\ j.op = "saveNote" => j.p \in SavesAt(j.u, save[note[j.n].psave].place)
  /\ j.op = "firstSave" =>
       SavesAt(j.u, save[note[j.n].psave].place) = {} /\ j.old = note[j.n]
  /\ j.op \in {"unsaveNote", "deleteNoteSave"} =>
       j.ns.user = j.u /\ j.ns.psave \in SavesOf(j.u) /\ j.old = save[j.ns.psave]
  /\ j.op = "deleteNoteSave" => j.left = LeftOn(j.ns)

JobNow(j) ==
  /\ PointJobNow(j) /\ NoteJobNow(j) /\ NoteSaveJobNow(j)
  /\ j.op = "deleteSort" => sort[j.s] = "live" /\ j.points = points[j.s]

JobsNow == \A r \in Requests : job[r] # Idle => JobNow(job[r])

(* A row of note_saves is on a save of the place where its note was written.*)
RowPlaced(ns) ==
  /\ save[ns.psave].status # "free" /\ note[ns.note].status # "free"
  /\ note[ns.note].psave \in SaveIds /\ save[note[ns.note].psave].status # "free"
  /\ save[ns.psave].place = save[note[ns.note].psave].place

RowsPlaced == \A ns \in noteSaves : RowPlaced(ns)

(* A note is saved where it was written ...                                 *)
LEMMA NewRowPlaced ==
  ASSUME Typed, [Next]_vars, NEW ns \in noteSaves', ns \notin noteSaves
  PROVE  /\ ns.note \in NoteIds /\ LiveNote(ns.note) /\ LiveSave(note[ns.note].psave)
         /\ ns.psave \in SaveIds /\ save'[ns.psave].status # "free"
         /\ save'[ns.psave].place = save[note[ns.note].psave].place
<1> USE DEF Typed, TypeOK
<1>1. PICK u \in Users : NoteSaveStep(u)
  <2>1. ASSUME NEW u \in Users, PointStep(u)
        PROVE  noteSaves' \subseteq noteSaves
    BY <2>1 DEF PointStep, CreatePoint, CreateSave, UpdatePoint, UpdateSave, Refile,
                DeleteSave, SetTop, notes
  <2>2. ASSUME NEW u \in Users, NoteStep(u)
        PROVE  noteSaves' = noteSaves
    BY <2>2 DEF NoteStep, CreateNoteWithSave, CreateNote, DeleteNote
  <2> QED
    BY <2>1, <2>2, OthersAlone DEF Next
<1>2. ASSUME NEW n \in NoteIds, CanBeSaved(u, n),
             NEW p \in SavesAt(u, save[note[n].psave].place), SaveNote(u, n, p)
      PROVE  /\ ns.note = n /\ ns.psave = p /\ p \in SaveIds /\ save'[p].status # "free"
             /\ save'[p].place = save[note[n].psave].place
  <2>1. ns = [user |-> u, psave |-> p, note |-> n]
    BY <1>2 DEF SaveNote, InsertNoteSave
  <2>2. /\ p \in SaveIds /\ save[p] \in SaveRow /\ LiveSave(p)
        /\ save[p].place = save[note[n].psave].place
    BY DEF SavesAt, SavesOf, SaveType
  <2> QED
    BY <1>2, <2>1, <2>2 DEF SaveNote, LiveSave, SaveType, SaveRow
<1>3. ASSUME NEW n \in NoteIds, CanBeSaved(u, n), NEW p \in SaveIds,
             SaveNoteWithSave(u, n, note[n], p)
      PROVE  /\ ns.note = n /\ ns.psave = p /\ save'[p].status # "free"
             /\ save'[p].place = save[note[n].psave].place
  <2>1. ns = [user |-> u, psave |-> p, note |-> n]
    BY <1>3 DEF SaveNoteWithSave, InsertNoteSave
  <2> QED
    BY <1>3, <2>1 DEF SaveNoteWithSave, CopyOf, BlankSave, SaveType
<1>4. ASSUME NEW x \in noteSaves, UnsaveNote(u, x, save[x.psave], LeftOn(x))
      PROVE  FALSE
  BY <1>4 DEF UnsaveNote
<1> QED
  BY <1>1, <1>2, <1>3, <1>4 DEF NoteSaveStep, CanBeSaved

(* ... and neither of the two saves moves afterwards.                       *)
LEMMA RowsPlacedStep == RowsPlaced /\ Typed /\ [Next]_vars => RowsPlaced'
<1> SUFFICES ASSUME RowsPlaced, Typed, [Next]_vars, NEW ns \in noteSaves'
             PROVE  RowPlaced(ns)'
  BY DEF RowsPlaced
<1>1. (\A p \in SaveIds : SaveAges(p)) /\ (\A n \in NoteIds : NoteAges(n))
  BY NextTransacts, SavesAge, NotesAge
<1>2. CASE ns \in noteSaves
  <2>1. ns.psave \in SaveIds /\ ns.note \in NoteIds /\ RowPlaced(ns)
    BY <1>2 DEF RowsPlaced, Typed, TypeOK, NoteSaveRow
  <2> QED
    BY <1>1, <2>1 DEF SaveAges, NoteAges, RowPlaced
<1>3. CASE ns \notin noteSaves
  <2>1. /\ ns.note \in NoteIds /\ LiveNote(ns.note) /\ LiveSave(note[ns.note].psave)
        /\ ns.psave \in SaveIds /\ save'[ns.psave].status # "free"
        /\ save'[ns.psave].place = save[note[ns.note].psave].place
    BY <1>3, NewRowPlaced
  <2>2. note[ns.note].psave \in SaveIds
    BY <2>1 DEF Typed, NotesPlaced
  <2> QED
    BY <1>1, <2>1, <2>2 DEF SaveAges, NoteAges, RowPlaced, LiveNote, LiveSave
<1> QED
  BY <1>2, <1>3

(* A request that is alone has nothing to insert a duplicate of: its user's *)
(* row for the note would be on a save of the place, and there is none.     *)
LEMMA NoDuplicate ==
  ASSUME Typed, NoteSavesHaveSave, RowsPlaced, NEW u \in Users, NEW n \in NoteIds,
         NEW old, NEW p \in SaveIds, SavesAt(u, save[note[n].psave].place) = {}
  PROVE  ~SaveNoteDuplicate(u, n, old, p)
<1> SUFFICES ASSUME FreshSave(p), NEW ns \in noteSaves, ns.note = n, ns.user = u \/ ns.psave = p
             PROVE  FALSE
  BY DEF SaveNoteDuplicate, NoteSaveExists
<1>1. /\ ns.psave \in SaveIds /\ LiveSave(ns.psave) /\ save[ns.psave].user = ns.user
      /\ save[ns.psave].place = save[note[n].psave].place
  BY DEF Typed, TypeOK, NoteSaveRow, NoteSavesHaveSave, RowsPlaced, RowPlaced
<1>2. ns.psave # p
  BY <1>1 DEF FreshSave, LiveSave
<1> QED
  BY <1>1, <1>2 DEF SavesAt, SavesOf

(* The transaction of the only job is a step of PointLedger.                *)
LEMMA CommitIsStep ==
  ASSUME Typed, NoteSavesHaveSave, RowsPlaced, NEW r \in Requests,
         job[r] # Idle => JobRight(job[r]) /\ JobNow(job[r]), Commit(r)
  PROVE  Next
<1> DEFINE j == job[r]
<1>1. ASSUME CommitCreatePoint(r)
      PROVE  Next
  <2>1. /\ j.u \in Users /\ j.pl \in Places /\ j.adcode \in Adcodes /\ j.s \in Sorts \cup {None}
        /\ SavesAt(j.u, j.pl) = {} /\ (j.s \in Sorts => sort[j.s] = "live")
    BY <1>1 DEF CommitCreatePoint, Runs, JobRight, PointJobRight, JobNow, PointJobNow
  <2>2. PICK p \in SaveIds : CreatePoint(j.u, j.pl, j.adcode, j.s, p)
    BY <1>1 DEF CommitCreatePoint
  <2> QED
    BY <2>1, <2>2 DEF Next, PointStep
<1>2. ASSUME CommitCreateSave(r)
      PROVE  Next
  <2>1. /\ j.u \in Users /\ j.q \in SaveIds /\ LiveSave(j.q) /\ SavesPlaceOf(j.u, j.q)
        /\ j.src = save[j.q]
    BY <1>2 DEF CommitCreateSave, Runs, JobRight, PointJobRight, JobNow, PointJobNow
  <2>2. PICK p \in SaveIds : CreateSave(j.u, j.q, save[j.q], p)
    BY <1>2, <2>1 DEF CommitCreateSave
  <2> QED
    BY <2>1, <2>2 DEF Next, PointStep
<1>3. ASSUME CommitUpdate(r)
      PROVE  Next
  <2>1. /\ j.u \in Users /\ j.p \in SavesOf(j.u) /\ j.s \in Sorts \cup {None}
        /\ j.old = save[j.p] /\ SortFound(j.u, j.old, j.s)
    BY <1>3 DEF CommitUpdate, Runs, JobRight, PointJobRight, JobNow, PointJobNow
  <2>2. CASE UpdatePoint(j.u, j.p, j.old, j.s)
    BY <2>1, <2>2 DEF Next, PointStep
  <2>3. CASE Runs(r, "writeSave") /\ UpdateSave(j.u, j.p, j.old, j.s)
    <3>1. SortIds(j.s)
      BY <2>3 DEF Runs, JobNow, PointJobNow
    <3> QED
      BY <2>1, <2>3, <3>1 DEF Next, PointStep
  <2> QED
    BY <1>3, <2>2, <2>3 DEF CommitUpdate
<1>4. ASSUME CommitDeleteSave(r)
      PROVE  Next
  <2>1. j.u \in Users /\ j.p \in SavesOf(j.u) /\ DeleteSave(j.u, j.p, save[j.p])
    BY <1>4 DEF CommitDeleteSave, Runs, JobRight, PointJobRight, JobNow, PointJobNow
  <2> QED
    BY <2>1 DEF Next, PointStep
<1>5. ASSUME CommitSetTop(r)
      PROVE  Next
  <2>1. PICK u \in Users : j.p \in SavesOf(u)
    BY <1>5 DEF CommitSetTop, Runs, JobNow, PointJobNow
  <2>2. /\ j.n \in NoteIds /\ LiveNote(j.n)
        /\ SetTop(j.p, j.n, save[j.p].note, note[j.n].user)
    BY <1>5 DEF CommitSetTop, Runs, JobRight, PointJobRight, JobNow, PointJobNow
  <2> QED
    BY <2>1, <2>2 DEF Next, PointStep
<1>6. ASSUME CommitCreateNote(r)
      PROVE  Next
  <2>1. ASSUME Runs(r, "firstNote"), NEW n \in NoteIds, NEW p \in SaveIds,
               CreateNoteWithSave(j.u, j.src, n, p)
        PROVE  Next
    <3>1. j.u \in Users
      BY <2>1 DEF Runs, JobRight, NoteJobRight
    <3>2. PICK q \in SaveIds : /\ LiveSave(q) /\ save[q].user = Public
                               /\ SavesAt(j.u, save[q].place) = {} /\ j.src = save[q]
      BY <2>1 DEF Runs, JobNow, NoteJobNow
    <3> QED
      BY <2>1, <3>1, <3>2 DEF Next, NoteStep
  <2>2. ASSUME Runs(r, "createNote"), NEW n \in NoteIds,
               CreateNote(j.u, j.src, j.mine, n, j.p)
        PROVE  Next
    <3>1. j.u \in Users /\ j.mine = save[j.p]
      BY <2>2 DEF Runs, JobRight, NoteJobRight, JobNow, NoteJobNow
    <3>2. PICK q \in SaveIds : /\ LiveSave(q) /\ NotePsave(j.u, q)
                               /\ j.p \in SavesAt(j.u, save[q].place) /\ j.src = save[q]
      BY <2>2 DEF Runs, JobNow, NoteJobNow
    <3> QED
      BY <2>2, <3>1, <3>2 DEF Next, NoteStep
  <2> QED
    BY <1>6, <2>1, <2>2 DEF CommitCreateNote
<1>7. ASSUME CommitDeleteNote(r)
      PROVE  Next
  <2>1. /\ j.n \in NoteIds /\ LiveNote(j.n) /\ note[j.n].user \in Users
        /\ DeleteNote(j.n, note[j.n].psave)
    BY <1>7 DEF CommitDeleteNote, Runs, JobRight, NoteJobRight, JobNow, NoteJobNow
  <2> QED
    BY <2>1 DEF Next, NoteStep
<1>8. ASSUME CommitSaveNote(r)
      PROVE  Next
  <2>1. ASSUME Runs(r, "saveNote"), SaveNote(j.u, j.n, j.p)
        PROVE  Next
    <3>1. /\ j.u \in Users /\ j.n \in NoteIds /\ CanBeSaved(j.u, j.n)
          /\ j.p \in SavesAt(j.u, save[note[j.n].psave].place)
      BY <2>1 DEF Runs, JobRight, NoteSaveJobRight, JobNow, NoteSaveJobNow
    <3> QED
      BY <2>1, <3>1 DEF Next, NoteSaveStep
  <2>2. ASSUME Runs(r, "firstSave")
        PROVE  /\ j.u \in Users /\ j.n \in NoteIds /\ CanBeSaved(j.u, j.n)
               /\ SavesAt(j.u, save[note[j.n].psave].place) = {} /\ j.old = note[j.n]
    BY <2>2 DEF Runs, JobRight, NoteSaveJobRight, JobNow, NoteSaveJobNow
  <2>3. ASSUME Runs(r, "firstSave"), NEW p \in SaveIds, SaveNoteWithSave(j.u, j.n, j.old, p)
        PROVE  Next
    BY <2>2, <2>3 DEF Next, NoteSaveStep
  <2>4. ASSUME Runs(r, "firstSave"), NEW p \in SaveIds, SaveNoteDuplicate(j.u, j.n, j.old, p)
        PROVE  FALSE
    BY <2>2, <2>4, NoDuplicate
  <2> QED
    BY <1>8, <2>1, <2>3, <2>4 DEF CommitSaveNote
<1>9. ASSUME CommitUnsaveNote(r)
      PROVE  Next
  <2>1. /\ j.u \in Users /\ j.ns.user = j.u /\ j.ns.psave \in SavesOf(j.u)
        /\ j.old = save[j.ns.psave] /\ j.left = LeftOn(j.ns)
    BY <1>9 DEF CommitUnsaveNote, Runs, JobRight, NoteSaveJobRight, JobNow, NoteSaveJobNow
  <2>2. j.ns \in noteSaves /\ UnsaveNote(j.u, j.ns, save[j.ns.psave], LeftOn(j.ns))
    BY <1>9, <2>1 DEF CommitUnsaveNote, UnsaveNote
  <2> QED
    BY <2>1, <2>2 DEF Next, NoteSaveStep
<1>10. ASSUME CommitDeleteSort(r)
       PROVE  Next
  <2>1. j.s \in Sorts /\ sort[j.s] = "live" /\ DeleteSort(j.s, points[j.s])
    BY <1>10 DEF CommitDeleteSort, Runs, JobRight, JobNow
  <2>2. SortOwner[j.s] \in Users
    BY <2>1, LedgerConstants
  <2> QED
    BY <2>1, <2>2 DEF Next, SortStep
<1> QED
  BY <1>1, <1>2, <1>3, <1>4, <1>5, <1>6, <1>7, <1>8, <1>9, <1>10 DEF Commit

(* Nothing but the sorts that users add comes in between.                   *)
Undisturbed ==
  /\ UNCHANGED <<save, points, note, noteSaves>>
  /\ \A s \in Sorts : sort[s] = "live" => sort'[s] = "live"

(* Then what was read is still what is there ...                            *)
LEMMA JobStillNow ==
  ASSUME NEW j, JobRight(j), JobNow(j), Undisturbed, NEW r \in Requests, job'[r] = j
  PROVE  JobNow(job[r])'
<1>1. /\ \A u : SavesOf(u)' = SavesOf(u)
      /\ \A u, pl : SavesAt(u, pl)' = SavesAt(u, pl)
      /\ \A p : LiveSave(p)' = LiveSave(p)
      /\ \A n : LiveNote(n)' = LiveNote(n)
      /\ \A ns : LeftOn(ns)' = LeftOn(ns)
      /\ \A u, n : CanBeSaved(u, n)' = CanBeSaved(u, n)
      /\ \A u, q : NotePsave(u, q)' = NotePsave(u, q)
      /\ \A u, q : SavesPlaceOf(u, q)' = SavesPlaceOf(u, q)
      /\ \A s : SortIds(s)' = SortIds(s)
  BY DEF Undisturbed, SavesOf, SavesAt, LiveSave, LiveNote, LeftOn, CanBeSaved, NotePsave,
         SavesPlaceOf, SortIds
<1>2. \A u, old, s : SortFound(u, old, s) => SortFound(u, old, s)'
  BY DEF Undisturbed, SortFound
<1>3. PointJobNow(job[r])'
  BY <1>1, <1>2 DEF PointJobNow, JobNow, Undisturbed
<1>4. NoteJobNow(job[r])'
  BY <1>1 DEF NoteJobNow, JobNow, Undisturbed
<1>5. NoteSaveJobNow(job[r])'
  BY <1>1 DEF NoteSaveJobNow, JobNow, Undisturbed
<1> QED
  BY <1>3, <1>4, <1>5 DEF JobNow, JobRight, Undisturbed

(* ... for a job that starts or goes on ...                                 *)
LEMMA JobNowSet ==
  ASSUME Alone, JobsRight, NEW r \in Requests, NEW j, JobRight(j), JobNow(j), UNCHANGED vars,
         job' = [job EXCEPT ![r] = j]
  PROVE  JobsNow'
<1>1. Undisturbed
  BY DEF Undisturbed, vars
<1>2. job'[r] = j /\ \A x \in Requests : x = r
  BY DEF JobsRight, Alone
<1> QED
  BY <1>1, <1>2, JobStillNow DEF JobsNow

(* ... with what it reads first ...                                         *)
LEMMA JobStartsNow ==
  ASSUME Typed, Alone, JobsRight, NEW r \in Requests, NEW u \in Users, Read(r, u)
  PROVE  JobsNow'
<1> USE DEF JobRight, PointJobRight, NoteJobRight, NoteSaveJobRight,
            JobNow, PointJobNow, NoteJobNow, NoteSaveJobNow
<1>1. \A j : Ask(r, j) /\ JobRight(j) /\ JobNow(j) => JobsNow'
  BY JobNowSet DEF Ask
<1>2. \A p \in SavesOf(u) : p \in SaveIds /\ HeldBy(p, u) /\ ReadAs(p, save[p])
  BY DEF SavesOf, LiveSave, HeldBy, ReadAs
<1>3. /\ \A p \in SaveIds : save[p] \in SaveRow /\ save[p].note \in NoteIds \cup {None}
      /\ \A n \in NoteIds : note[n] \in NoteRow /\ note[n].user \in Accounts
  BY DEF Typed, TypeOK, SaveType, SaveRow, NoteType, NoteRow
<1>4. CASE ReadCreatePoint(r, u)
  BY <1>1, <1>4 DEF ReadCreatePoint
<1>5. CASE ReadCreateSave(r, u)
  BY <1>1, <1>3, <1>5 DEF ReadCreateSave, LiveSave, ReadAs
<1>6. CASE ReadUpdate(r, u)
  BY <1>1, <1>2, <1>3, <1>6 DEF ReadUpdate
<1>7. CASE ReadDeleteSave(r, u)
  BY <1>1, <1>2, <1>3, <1>7 DEF ReadDeleteSave
<1>8. CASE ReadSetTop(r, u)
  BY <1>1, <1>2, <1>3, <1>8 DEF ReadSetTop
<1>9. CASE ReadCreateNote(r, u)
  BY <1>1, <1>2, <1>3, <1>9 DEF ReadCreateNote, SavesAt
<1>10. CASE ReadDeleteNote(r, u)
  BY <1>1, <1>10 DEF ReadDeleteNote, LiveNote, Typed, NotesPlaced
<1>11. CASE ReadSaveNote(r, u)
  BY <1>1, <1>2, <1>3, <1>11 DEF ReadSaveNote, CanBeSaved, SavesAt, Typed, NotesPlaced
<1>12. CASE ReadUnsaveNote(r, u)
  BY <1>1, <1>2, <1>3, <1>12 DEF ReadUnsaveNote
<1>13. CASE ReadDeleteSort(r, u)
  BY <1>1, <1>13 DEF ReadDeleteSort
<1> QED
  BY <1>4, <1>5, <1>6, <1>7, <1>8, <1>9, <1>10, <1>11, <1>12, <1>13 DEF Read

(* ... and with what it reads in between.                                   *)
LEMMA JobGoesOnNow ==
  ASSUME Typed, Alone, JobsRight, JobsNow, NEW r \in Requests, Check(r)
  PROVE  JobsNow'
<1> USE DEF JobRight, PointJobRight, NoteJobRight, NoteSaveJobRight,
            JobNow, PointJobNow, NoteJobNow, NoteSaveJobNow
<1> DEFINE j == job[r]
<1>1. \A k : UNCHANGED vars /\ job' = [job EXCEPT ![r] = k] /\ JobRight(k) /\ JobNow(k) => JobsNow'
  BY JobNowSet
<1>2. job[r] # Idle => JobRight(job[r]) /\ JobNow(job[r])
  BY DEF JobsRight, JobsNow
<1>3. CASE CheckCreatePoint(r)
  <2> DEFINE k == [j EXCEPT !.op = "insertPoint"]
  <2>1. /\ UNCHANGED vars /\ job' = [job EXCEPT ![r] = k]
        /\ JobRight(j) /\ JobNow(j) /\ j.op = "createPoint" /\ SavesAt(j.u, j.pl) = {}
    BY <1>2, <1>3 DEF CheckCreatePoint, Checked, Runs
  <2>2. JobRight(k) /\ JobNow(k)
    BY <2>1
  <2> QED
    BY <1>1, <2>1, <2>2
<1>4. CASE CheckUpdate(r)
  <2>1. SortFound(j.u, j.old, j.s) /\ job[r] # Idle
    BY <1>4 DEF CheckUpdate, Runs
  <2>2. CASE Runs(r, "updatePoint") /\ Checked(r, "writePoint")
    <3> DEFINE k == [j EXCEPT !.op = "writePoint"]
    <3>1. JobRight(k) /\ JobNow(k)
      BY <1>2, <2>1, <2>2 DEF Runs
    <3> QED
      BY <1>1, <2>2, <3>1 DEF Checked
  <2>3. CASE Runs(r, "updateSave") /\ Checked(r, "writeSave")
    <3> DEFINE k == [j EXCEPT !.op = "writeSave"]
    <3>1. JobRight(k) /\ JobNow(k)
      BY <1>2, <2>1, <2>3 DEF Runs
    <3> QED
      BY <1>1, <2>3, <3>1 DEF Checked
  <2> QED
    BY <1>4, <2>2, <2>3 DEF CheckUpdate
<1>5. CASE CheckUnsaveNote(r)
  <2> DEFINE k == [j EXCEPT !.op = "deleteNoteSave", !.left = LeftOn(j.ns)]
  <2>1. /\ UNCHANGED vars /\ job' = [job EXCEPT ![r] = k]
        /\ JobRight(j) /\ JobNow(j) /\ j.op = "unsaveNote"
    BY <1>2, <1>5 DEF CheckUnsaveNote, Runs
  <2>2. LeftOn(j.ns) \in SUBSET NoteIds
    BY DEF LeftOn, Typed, TypeOK, NoteSaveRow
  <2>3. JobRight(k) /\ JobNow(k)
    BY <2>1, <2>2
  <2> QED
    BY <1>1, <2>1, <2>3
<1> QED
  BY <1>3, <1>4, <1>5 DEF Check

SerialRight == Typed /\ NoteSavesHaveSave /\ RowsPlaced /\ JobsRight /\ JobsNow

(* Every step of the only request is a step of PointLedger, or reads.       *)
LEMMA RaceIsSerial ==
  ASSUME SerialRight, [RaceNext]_raceVars
  PROVE  [Next]_vars
<1> USE DEF SerialRight
<1>1. CASE Reads \/ UNCHANGED raceVars
  BY <1>1, ReadsOnly DEF raceVars
<1>2. ASSUME NEW r \in Requests, Commit(r)
      PROVE  Next
  BY <1>2, CommitIsStep DEF JobsRight, JobsNow
<1>3. ASSUME NEW r \in Requests, Throw(r)
      PROVE  Next
  BY <1>3 DEF Throw, Next
<1>4. ASSUME NEW u \in Users, InsertSort(u)
      PROVE  Next
  BY <1>4 DEF InsertSort, Next, SortStep
<1> QED
  BY <1>1, <1>2, <1>3, <1>4 DEF RaceNext, Reads

(* And it leaves right what the next one depends on.                        *)
LEMMA SerialStep ==
  ASSUME Alone, SerialRight, [RaceNext]_raceVars
  PROVE  SerialRight'
<1> USE DEF SerialRight
<1>1. [Next]_vars
  BY RaceIsSerial
<1>2. Typed' /\ NoteSavesHaveSave' /\ RowsPlaced' /\ JobsRight'
  BY <1>1, NextTyped, RowsHang, RowsPlacedStep, JobsStep
<1>3. ASSUME UNCHANGED raceVars \/ \E u \in Users : InsertSort(u)
      PROVE  JobsNow'
  <2>1. Undisturbed /\ UNCHANGED job
    BY <1>3 DEF raceVars, vars, InsertSort, CreateSort, counters, notes, Undisturbed,
                Typed, TypeOK, SortType
  <2> SUFFICES ASSUME NEW r \in Requests, job'[r] # Idle
               PROVE  JobNow(job[r])'
    BY DEF JobsNow
  <2>2. job'[r] = job[r] /\ JobRight(job[r]) /\ JobNow(job[r])
    BY <2>1 DEF JobsRight, JobsNow
  <2> QED
    BY <2>1, <2>2, JobStillNow
<1>4. ASSUME NEW r \in Requests, Commit(r) \/ Throw(r)
      PROVE  JobsNow'
  <2>1. Answer(r)
    BY <1>4 DEF Commit, Throw, CommitCreatePoint, CommitCreateSave, CommitUpdate,
                CommitDeleteSave, CommitSetTop, CommitCreateNote, CommitDeleteNote,
                CommitSaveNote, CommitUnsaveNote, CommitDeleteSort
  <2>2. \A x \in Requests : job'[x] = Idle
    BY <2>1 DEF Answer, Alone, JobsRight
  <2> QED
    BY <2>2 DEF JobsNow
<1> QED
  BY <1>2, <1>3, <1>4, JobStartsNow, JobGoesOnNow DEF RaceNext

(* When requests do not overlap, reading first and committing later is no   *)
(* different from PointLedger, for any users, places and rows, so that all  *)
(* that is proved of PointLedger holds of a service whose requests come one *)
(* at a time; what fails beyond that needs two requests at once.            *)
THEOREM SerialImplements ==
  ASSUME Alone
  PROVE  RaceSpec => SerialLedger
<1>1. RaceInit => Init /\ SerialRight
  BY InitRace DEF RaceInit, SerialRight, Init, NoteSavesHaveSave, RowsPlaced, JobsNow
<1> QED
  BY <1>1, RaceIsSerial, SerialStep, PTL DEF RaceSpec, SerialLedger, Spec
================================================================================
