--------------------------- MODULE PointLedgerProofs ---------------------------
(***************************************************************************)
(* Proofs about PointLedger, for any number of users, places, saves and    *)
(* notes, any sorts, any points of the public map and any liberties.       *)
(*                                                                         *)
(* The types come first.  They need one thing more than the types of the   *)
(* columns: a live note names a save (NotesPlaced), because saving a note  *)
(* copies the save that the note names.  They are proved for every         *)
(* Transaction, whatever else has happened since it read what it decides   *)
(* on; a step of PointLedger is a transaction on what is there, and one of *)
(* PointLedgerRaces a transaction on what was there once.                  *)
(*                                                                         *)
(* The count of a user's points then follows from what a step can do to    *)
(* it: it leaves the saves and the total as they are (Steady), adds one    *)
(* save and one to the total (Gains), or deletes one save and takes one    *)
(* from it (Loses).                                                        *)
(*                                                                         *)
(* Then the notes: the rows of note_saves and note_masks, the note that a  *)
(* save carries as its owner's own, the note on top of it, and the links   *)
(* to the owners of what a user saved.  Each of these invariants is        *)
(* inductive once the types (Typed) are known; SaversLinked needs          *)
(* CopiesDescend besides: what a save was copied from was a save.          *)
(***************************************************************************)
EXTENDS PointLedger, FiniteSetTheorems, TLAPS

--------------------------------------------------------------------------------
(* Types *)

(* A live note names the save it was written on. *)
NotesPlaced == \A n \in NoteIds : LiveNote(n) => note[n].psave \in SaveIds

Typed == TypeOK /\ NotesPlaced

(* A counter of points stays one when a save is filed in a sort. *)
LEMMA PlusType == ASSUME points \in PointsType, NEW b PROVE Plus(b) \in PointsType
BY DEF Plus, RowExists, PointsType

(* The same when a save leaves a sort that has points. *)
LEMMA MinusType ==
  ASSUME points \in PointsType, NEW b, CanMinus(b) PROVE Minus(b) \in PointsType
BY DEF Minus, CanMinus, RowExists, PointsType

(* The same when a save moves from one sort to another. *)
LEMMA ShiftedType ==
  ASSUME points \in PointsType, NEW from, NEW to, from # to => CanMinus(from)
  PROVE  Shifted(from, to) \in PointsType
BY DEF Shifted, CanMinus, RowExists, PointsType

(* A column of users stays a column of numbers, counted up or down. *)
LEMMA CountsType ==
  ASSUME NEW f \in CountType, NEW u \in Users
  PROVE  /\ [f EXCEPT ![u] = @ + 1] \in CountType
         /\ f[u] > 0 => [f EXCEPT ![u] = @ - 1] \in CountType
BY DEF CountType

(* So do the rows of the regions, when a save is counted in ... *)
LEMMA IncrementType ==
  ASSUME regions \in RegionsType, NEW u \in Users, NEW adcode
  PROVE  IncrementPCP(u, adcode) \in RegionsType
BY DEF IncrementPCP, RegionsType, Absent

(* ... and when it is counted out, which no zero allows. *)
LEMMA DecrementType ==
  ASSUME regions \in RegionsType, NEW u \in Users, NEW adcode, CanDecrementPCP(u, adcode)
  PROVE  DecrementPCP(u, adcode) \in RegionsType
BY DEF DecrementPCP, CanDecrementPCP, RegionsType, Absent

(* What updateNumber counts has the type of what it counts in. *)
LEMMA CountCopyType ==
  ASSUME points \in PointsType, saves \in SavesType, NEW u \in Users, NEW ff, CountCopy(u, ff)
  PROVE  points' \in PointsType /\ saves' \in SavesType
<1>1. points' \in PointsType
  BY PlusType DEF CountCopy
<1>2. CASE ff \in SaveIds
  BY <1>1, <1>2 DEF CountCopy, SavesType
<1>3. CASE ff \notin SaveIds
  <2>1. saves' = saves
    BY <1>3 DEF CountCopy, SavesType
  <2> QED
    BY <1>1, <2>1
<1> QED
  BY <1>2, <1>3

(* So has what the deletion of a save takes away. *)
LEMMA UncountType ==
  ASSUME TypeOK, NEW u \in Users, NEW old, Uncount(u, old)
  PROVE  /\ points' \in PointsType
         /\ createPoints' \in CountType
         /\ savePoints' \in CountType
         /\ saves' \in SavesType
         /\ regions' \in RegionsType
<1>1. points' \in PointsType
  BY MinusType DEF TypeOK, Uncount
<1>2. regions' \in RegionsType
  BY DecrementType DEF TypeOK, Uncount
<1>3. createPoints' \in CountType /\ savePoints' \in CountType
  BY CountsType DEF TypeOK, Uncount
<1>4. saves' \in SavesType
  BY DEF TypeOK, Uncount, SavesType
<1> QED
  BY <1>1, <1>2, <1>3, <1>4

(* What the handlers write into a row of point_saves leaves a row of it. *)
LEMMA SaveRowType ==
  ASSUME NEW row \in SaveRow, NEW n \in NoteIds \cup {None}, NEW b \in BOOLEAN,
         NEW s \in Sorts \cup {None}
  PROVE  /\ [row EXCEPT !.sort = s] \in SaveRow
         /\ [row EXCEPT !.status = "deleted"] \in SaveRow
         /\ [row EXCEPT !.note = n] \in SaveRow
         /\ [row EXCEPT !.top = n] \in SaveRow
         /\ [row EXCEPT !.toped = b] \in SaveRow
         /\ [row EXCEPT !.own = "SAVE_FIND"] \in SaveRow
<1>1. [row EXCEPT !.sort = s] \in SaveRow
  BY DEF SaveRow
<1>2. [row EXCEPT !.status = "deleted"] \in SaveRow
  BY DEF SaveRow, Status
<1>3. [row EXCEPT !.note = n] \in SaveRow
  BY DEF SaveRow
<1>4. [row EXCEPT !.top = n] \in SaveRow
  BY DEF SaveRow
<1>5. [row EXCEPT !.toped = b] \in SaveRow
  BY DEF SaveRow
<1>6. [row EXCEPT !.own = "SAVE_FIND"] \in SaveRow
  BY DEF SaveRow, OwnTypes
<1> QED
  BY <1>1, <1>2, <1>3, <1>4, <1>5, <1>6

(* The top note of a copy is a note, or none. *)
LEMMA TopType ==
  ASSUME NEW row \in SaveRow, NEW toped
  PROVE  TopFor(row, toped) \in NoteIds \cup {None}
BY DEF TopFor, SaveRow

(* The copy of a row is a row, with the top note that TopFor gives. *)
LEMMA CopyType ==
  ASSUME NEW row \in SaveRow, NEW u \in Users, NEW q \in SaveIds, NEW toped
  PROVE  /\ CopyOf(u, q, row, toped) \in SaveRow
         /\ CopyOf(u, q, row, toped).top = TopFor(row, toped)
<1>1. CopyOf(u, q, row, toped) \in SaveRow
  BY TopType DEF CopyOf, BlankSave, SaveRow, Accounts, Status, OwnTypes
<1>2. CopyOf(u, q, row, toped).top = TopFor(row, toped)
  BY DEF CopyOf, BlankSave
<1> QED
  BY <1>1, <1>2

(* Messages go to registered users only. *)
LEMMA MailType ==
  ASSUME NEW owner \in Accounts PROVE MailTo(owner) \in Users \cup {None}
BY DEF MailTo, Accounts

(* The record of a request that commits has its type. *)
LEMMA DoneType ==
  ASSUME NEW n \in NoteIds \cup {None}, NEW m \in Users \cup {None}
  PROVE  Done(n, m) \in CallsType
BY DEF Done, CallsType

(* The first state is well typed. *)
LEMMA InitTyped == Init => Typed
<1> SUFFICES ASSUME Init
             PROVE  Typed
  OBVIOUS
<1> USE LedgerConstants DEF Init
<1>1. \A n \in NoteIds : PublicNoteOf(n) # {} =>
        (CHOOSE p \in PublicNoteOf(n) : TRUE) \in SaveIds
  BY DEF PublicNoteOf
<1>2. NotesPlaced
  BY <1>1 DEF NotesPlaced, LiveNote, BlankNote
<1>3. save \in SaveType
  BY DEF SaveType, SaveRow, PublicSave, BlankSave, Accounts, Status, OwnTypes
<1>4. note \in NoteType
  BY <1>1 DEF NoteType, NoteRow, BlankNote, Accounts, Status
<1>5. calls \in CallsType
  BY DoneType
<1>6. /\ points \in PointsType /\ regions \in RegionsType /\ sort \in SortType
      /\ createPoints \in CountType /\ savePoints \in CountType /\ saves \in SavesType
  BY DEF PointsType, RegionsType, SortType, CountType, SavesType, Status
<1> QED
  BY <1>2, <1>3, <1>4, <1>5, <1>6 DEF Typed, TypeOK

--------------------------------------------------------------------------------
(* Transactions *)

(* What a request knows of a save that it has read: the save was there, and *)
(* the owner and the place were those of the row, which do not change.      *)
ReadAs(p, row) ==
  /\ save[p].status # "free"
  /\ row.user = save[p].user /\ row.place = save[p].place

HeldBy(p, u) == save[p].status # "free" /\ save[p].user = u

PointTransaction(u) ==
  \/ \E pl \in Places, adcode \in Adcodes, s \in Sorts \cup {None}, p \in SaveIds :
       CreatePoint(u, pl, adcode, s, p)
  \/ \E q, p \in SaveIds, src \in SaveRow : ReadAs(q, src) /\ CreateSave(u, q, src, p)
  \/ \E p \in SaveIds, old \in SaveRow, s \in Sorts \cup {None} :
       HeldBy(p, u) /\ (UpdatePoint(u, p, old, s) \/ UpdateSave(u, p, old, s))
  \/ \E p \in SaveIds, old \in SaveRow :
       HeldBy(p, u) /\ ReadAs(p, old) /\ DeleteSave(u, p, old)
  \/ \E p \in SaveIds, n \in NoteIds, written \in NoteIds \cup {None}, author \in Accounts :
       SetTop(p, n, written, author)

NoteTransaction(u) ==
  \/ \E src \in SaveRow, n \in NoteIds, p \in SaveIds : CreateNoteWithSave(u, src, n, p)
  \/ \E src, mine \in SaveRow, n \in NoteIds, p \in SaveIds :
       HeldBy(p, u) /\ CreateNote(u, src, mine, n, p)
  \/ \E n \in NoteIds, p \in SaveIds :
       note[n].status # "free" /\ note[n].psave = p /\ DeleteNote(n, p)

NoteSaveTransaction(u) ==
  \/ \E n \in NoteIds, p \in SaveIds : HeldBy(p, u) /\ SaveNote(u, n, p)
  \/ \E n \in NoteIds, old \in NoteRow, p \in SaveIds :
       old.psave \in SaveIds /\ SaveNoteWithSave(u, n, old, p)
  \/ \E ns \in noteSaves, old \in SaveRow, left \in SUBSET NoteIds :
       HeldBy(ns.psave, u) /\ ReadAs(ns.psave, old) /\ UnsaveNote(u, ns, old, left)

SortTransaction(u) == \E s \in Sorts : CreateSort(u, s) \/ \E n : DeleteSort(s, n)

NoTransaction == UNCHANGED tables /\ calls' \in CallsType

Transaction ==
  \/ \E u \in Users : \/ PointTransaction(u) \/ NoteTransaction(u)
                      \/ NoteSaveTransaction(u) \/ SortTransaction(u)
  \/ NoTransaction

(* A handler that runs alone runs a transaction on what it finds. *)
LEMMA NextTransacts == ASSUME Typed, [Next]_vars PROVE Transaction
<1> USE DEF Typed, TypeOK
<1>0. \A p \in SaveIds : /\ save[p] \in SaveRow /\ save[p].note \in NoteIds \cup {None}
                         /\ LiveSave(p) => ReadAs(p, save[p])
  BY DEF SaveType, SaveRow, LiveSave, ReadAs
<1>1. ASSUME NEW u \in Users, NEW p \in SavesOf(u)
      PROVE  p \in SaveIds /\ HeldBy(p, u) /\ ReadAs(p, save[p])
  BY <1>0 DEF SavesOf, HeldBy, LiveSave
<1>2. ASSUME NEW u \in Users, PointStep(u)
      PROVE  PointTransaction(u)
  <2>1. \A n \in NoteIds : note[n].user \in Accounts
    BY DEF NoteType, NoteRow
  <2> QED
    BY <1>0, <1>1, <1>2, <2>1 DEF PointStep, PointTransaction
<1>3. ASSUME NEW u \in Users, NoteStep(u)
      PROVE  NoteTransaction(u)
  <2>1. ASSUME NEW q \in SaveIds, NEW p \in SaveIds, NEW n \in NoteIds,
               CreateNoteWithSave(u, save[q], n, p)
        PROVE  NoteTransaction(u)
    BY <1>0, <2>1 DEF NoteTransaction
  <2>2. ASSUME NEW q \in SaveIds, NEW n \in NoteIds, NEW p \in SavesAt(u, save[q].place),
               CreateNote(u, save[q], save[p], n, p)
        PROVE  NoteTransaction(u)
    <3>1. p \in SaveIds /\ HeldBy(p, u)
      BY <1>1 DEF SavesAt
    <3> QED
      BY <1>0, <2>2, <3>1 DEF NoteTransaction
  <2>3. ASSUME NEW n \in NoteIds, LiveNote(n), DeleteNote(n, note[n].psave)
        PROVE  NoteTransaction(u)
    <3>1. note[n].psave \in SaveIds /\ note[n].status # "free"
      BY <2>3 DEF NotesPlaced, LiveNote
    <3> QED
      BY <2>3, <3>1 DEF NoteTransaction
  <2> QED
    BY <1>3, <2>1, <2>2, <2>3 DEF NoteStep
<1>4. ASSUME NEW u \in Users, NoteSaveStep(u)
      PROVE  NoteSaveTransaction(u)
  <2>1. ASSUME NEW n \in NoteIds, CanBeSaved(u, n)
        PROVE  note[n] \in NoteRow /\ note[n].psave \in SaveIds
    BY <2>1 DEF CanBeSaved, NotesPlaced, NoteType
  <2>2. ASSUME NEW n \in NoteIds, NEW q, NEW p \in SavesAt(u, q), SaveNote(u, n, p)
        PROVE  NoteSaveTransaction(u)
    <3>1. p \in SaveIds /\ HeldBy(p, u)
      BY <1>1 DEF SavesAt
    <3> QED
      BY <2>2, <3>1 DEF NoteSaveTransaction
  <2>3. ASSUME NEW n \in NoteIds, NEW p \in SaveIds, CanBeSaved(u, n),
               SaveNoteWithSave(u, n, note[n], p)
        PROVE  NoteSaveTransaction(u)
    BY <2>1, <2>3 DEF NoteSaveTransaction
  <2>4. ASSUME NEW ns \in noteSaves, ns.psave \in SavesOf(u),
               UnsaveNote(u, ns, save[ns.psave], LeftOn(ns))
        PROVE  NoteSaveTransaction(u)
    <3>1. LeftOn(ns) \in SUBSET NoteIds
      BY DEF LeftOn, NoteSaveRow
    <3>2. ns.psave \in SaveIds /\ HeldBy(ns.psave, u) /\ ReadAs(ns.psave, save[ns.psave])
      BY <1>1, <2>4
    <3>3. save[ns.psave] \in SaveRow
      BY <1>0, <3>2
    <3> QED
      BY <2>4, <3>1, <3>2, <3>3 DEF NoteSaveTransaction
  <2> QED
    BY <1>4, <2>2, <2>3, <2>4 DEF NoteSaveStep
<1>5. ASSUME NEW u \in Users, SortStep(u)
      PROVE  SortTransaction(u)
  BY <1>5 DEF SortStep, SortTransaction
<1>6. CASE Rejected
  <2>1. calls' \in CallsType
    BY <1>6 DEF Rejected, RolledBack, CallsType
  <2> QED
    BY <1>6, <2>1 DEF Rejected, NoTransaction, Transaction
<1>7. CASE UNCHANGED vars
  <2>1. UNCHANGED tables /\ calls' = calls
    BY <1>7 DEF vars, tables, counters, notes
  <2> QED
    BY <2>1 DEF NoTransaction, Transaction
<1> QED
  BY <1>2, <1>3, <1>4, <1>5, <1>6, <1>7 DEF Next, Transaction

--------------------------------------------------------------------------------
(* Transactions keep the types *)

(* The transactions on points. *)
LEMMA PointTyped == ASSUME Typed, NEW u \in Users, PointTransaction(u) PROVE Typed'
<1> USE DEF Typed, TypeOK
<1>1. ASSUME NEW pl \in Places, NEW adcode \in Adcodes, NEW s \in Sorts \cup {None}, NEW p \in SaveIds,
             CreatePoint(u, pl, adcode, s, p)
      PROVE  Typed'
  <2> DEFINE astray == (adcode \ CodesOf[pl]) \cup (CodesOf[pl] \ adcode)
             row == [BlankSave EXCEPT !.status = "live", !.user = u, !.place = pl, !.sort = s,
                                      !.own = "MY_CREATE", !.ff = p, !.astray = astray]
  <2>a. astray \in SUBSET Codes
    BY LedgerConstants
  <2>b. row \in SaveRow
    <3> HIDE DEF astray
    <3> QED
      BY <2>a DEF SaveRow, BlankSave, Accounts, Status, OwnTypes
  <2>1. save' \in SaveType
    <3>1. save' = [save EXCEPT ![p] = row]
      BY <1>1 DEF CreatePoint
    <3> HIDE DEF row
    <3> QED
      BY <2>b, <3>1 DEF SaveType
  <2>2. points' \in PointsType /\ regions' \in RegionsType /\ calls' \in CallsType
        /\ createPoints' \in CountType
    BY <1>1, PlusType, IncrementType, DoneType, CountsType DEF CreatePoint
  <2> QED
    BY <1>1, <2>1, <2>2 DEF CreatePoint, notes, NotesPlaced, LiveNote
<1>2. ASSUME NEW q \in SaveIds, NEW p \in SaveIds, NEW src \in SaveRow,
             CreateSave(u, q, src, p)
      PROVE  Typed'
  <2>1. src.user \in Accounts
    BY DEF SaveRow
  <2>2. save' \in SaveType
    BY <1>2, CopyType DEF CreateSave, SaveType
  <2>3. points' \in PointsType /\ saves' \in SavesType
    BY <1>2, CountCopyType DEF CreateSave
  <2>4. regions' \in RegionsType /\ savePoints' \in CountType
    BY <1>2, IncrementType, CountsType DEF CreateSave
  <2>5. calls' \in CallsType
    BY <1>2, <2>1, CopyType, TopType, MailType, DoneType DEF CreateSave
  <2>6. links' \subseteq Users \X Accounts
    BY <1>2, <2>1 DEF CreateSave, Linked
  <2> QED
    BY <1>2, <2>2, <2>3, <2>4, <2>5, <2>6 DEF CreateSave, notes, NotesPlaced, LiveNote
<1>3. ASSUME NEW p \in SaveIds, NEW old \in SaveRow, NEW s \in Sorts \cup {None},
             UpdatePoint(u, p, old, s) \/ UpdateSave(u, p, old, s)
      PROVE  Typed'
  <2>1. Refile(u, old, s) /\ (save' = save \/ save' = [save EXCEPT ![p].sort = s])
    BY <1>3 DEF UpdatePoint, UpdateSave
  <2>2. save' \in SaveType
    <3>1. [save[p] EXCEPT !.sort = s] \in SaveRow
      BY SaveRowType DEF SaveType
    <3> QED
      BY <2>1, <3>1 DEF SaveType
  <2>3. points' \in PointsType /\ calls' \in CallsType
    BY <2>1, ShiftedType, DoneType DEF Refile
  <2> QED
    BY <2>1, <2>2, <2>3 DEF Refile, notes, NotesPlaced, LiveNote
<1>4. ASSUME NEW p \in SaveIds, NEW old \in SaveRow, DeleteSave(u, p, old)
      PROVE  Typed'
  <2>1. save' \in SaveType
    BY <1>4, SaveRowType DEF DeleteSave, SaveType
  <2>2. calls' \in CallsType /\ noteSaves' \subseteq NoteSaveRow
    BY <1>4, DoneType DEF DeleteSave
  <2>3. /\ points' \in PointsType /\ createPoints' \in CountType
        /\ savePoints' \in CountType /\ saves' \in SavesType /\ regions' \in RegionsType
    BY <1>4, UncountType DEF DeleteSave
  <2> QED
    BY <1>4, <2>1, <2>2, <2>3 DEF DeleteSave, NotesPlaced, LiveNote
<1>5. ASSUME NEW p \in SaveIds, NEW n \in NoteIds, NEW written \in NoteIds \cup {None},
             NEW author \in Accounts, SetTop(p, n, written, author)
      PROVE  Typed'
  <2>1. save' \in SaveType
    <3>1. \A t \in NoteIds \cup {None}, b \in BOOLEAN :
            [save[p] EXCEPT !.top = t, !.toped = b] \in SaveRow
      BY DEF SaveType, SaveRow
    <3>2. save' = [save EXCEPT ![p] = [@ EXCEPT !.top = IF written = n THEN None ELSE n,
                                                !.toped = (written # n)]]
      BY <1>5 DEF SetTop
    <3> QED
      BY <3>1, <3>2 DEF SaveType
  <2>2. calls' \in CallsType
    BY <1>5, MailType, DoneType DEF SetTop
  <2> QED
    BY <1>5, <2>1, <2>2 DEF SetTop, counters, notes, NotesPlaced, LiveNote
<1> QED
  BY <1>1, <1>2, <1>3, <1>4, <1>5 DEF PointTransaction

(* A new note names its save; a deleted one is live no more. *)
LEMMA NewNoteTyped ==
  ASSUME note \in NoteType, NotesPlaced, NEW u \in Users, NEW n \in NoteIds,
         NEW p \in SaveIds, NewNote(u, n, p)
  PROVE  note' \in NoteType /\ NotesPlaced'
BY DEF NewNote, NoteType, NoteRow, Accounts, Status, NotesPlaced, LiveNote

(* A save with a note of its own is a row of point_saves. *)
LEMMA WithNoteType ==
  ASSUME NEW row \in SaveRow, NEW n \in NoteIds, NEW promoted \in BOOLEAN
  PROVE  WithNote(row, n, promoted) \in SaveRow
<1>1. CASE promoted
  <2>1. WithNote(row, n, promoted) =
          [row EXCEPT !.note = n, !.toped = FALSE, !.own = "SAVE_FIND"]
    BY <1>1 DEF WithNote
  <2> QED
    BY <2>1 DEF SaveRow, OwnTypes
<1>2. CASE ~promoted
  <2>1. WithNote(row, n, promoted) = [row EXCEPT !.note = n, !.toped = FALSE, !.own = @]
    BY <1>2 DEF WithNote
  <2> QED
    BY <2>1 DEF SaveRow
<1> QED
  BY <1>1, <1>2

(* The transactions on notes. *)
LEMMA NoteTyped == ASSUME Typed, NEW u \in Users, NoteTransaction(u) PROVE Typed'
<1> USE DEF Typed, TypeOK
<1>1. ASSUME NEW src \in SaveRow, NEW n \in NoteIds, NEW p \in SaveIds,
             CreateNoteWithSave(u, src, n, p)
      PROVE  Typed'
  <2>1. save' \in SaveType
    BY <1>1 DEF CreateNoteWithSave, SaveType, SaveRow, BlankSave, Accounts, Status, OwnTypes
  <2>2. points' \in PointsType /\ saves' \in SavesType
    BY <1>1, CountCopyType DEF CreateNoteWithSave
  <2>3. /\ regions' \in RegionsType /\ calls' \in CallsType /\ createPoints' \in CountType
    BY <1>1, IncrementType, DoneType, CountsType DEF CreateNoteWithSave
  <2>4. note' \in NoteType /\ NotesPlaced'
    BY <1>1, NewNoteTyped DEF CreateNoteWithSave
  <2> QED
    BY <1>1, <2>1, <2>2, <2>3, <2>4 DEF CreateNoteWithSave
<1>2. ASSUME NEW src \in SaveRow, NEW mine \in SaveRow, NEW n \in NoteIds, NEW p \in SaveIds,
             CreateNote(u, src, mine, n, p)
      PROVE  Typed'
  <2>1. \A x \in SaveIds : save'[x] \in SaveRow
    <3> TAKE x \in SaveIds
    <3>1. save[x] \in SaveRow /\ save[p] \in SaveRow
      BY DEF SaveType
    <3>2. PICK promoted \in BOOLEAN :
                             save'[x] = WithNote(save[p], n, promoted)
                          \/ save'[x] = [save[x] EXCEPT !.top = n] \/ save'[x] = save[x]
      BY <1>2 DEF CreateNote
    <3>3. WithNote(save[p], n, promoted) \in SaveRow
      BY <3>1, WithNoteType
    <3>4. [save[x] EXCEPT !.top = n] \in SaveRow
      BY <3>1, SaveRowType
    <3> QED
      BY <3>1, <3>2, <3>3, <3>4
  <2>2. save' \in SaveType
    BY <1>2, <2>1 DEF CreateNote, SaveType
  <2>3. createPoints' \in CountType /\ savePoints' \in CountType
    BY <1>2, CountsType DEF CreateNote, Promote
  <2>4. note' \in NoteType /\ NotesPlaced' /\ calls' \in CallsType
    BY <1>2, NewNoteTyped, DoneType DEF CreateNote
  <2> QED
    BY <1>2, <2>2, <2>3, <2>4 DEF CreateNote
<1>3. ASSUME NEW n \in NoteIds, NEW p \in SaveIds, DeleteNote(n, p)
      PROVE  Typed'
  <2>1. save' \in SaveType
    <3> SUFFICES ASSUME NEW x \in SaveIds PROVE save'[x] \in SaveRow
      BY <1>3 DEF DeleteNote, SaveType
    <3> DEFINE t == IF save[x].top = n THEN None ELSE save[x].top
               o == IF x = p THEN None ELSE save[x].note
               b == IF save[x].top = n THEN FALSE ELSE save[x].toped
    <3>1. save[x] \in SaveRow /\ t \in NoteIds \cup {None} /\ o \in NoteIds \cup {None} /\ b \in BOOLEAN
      BY DEF SaveType, SaveRow
    <3>2. save'[x] = [save[x] EXCEPT !.note = o, !.top = t, !.toped = b]
      BY <1>3 DEF DeleteNote
    <3> HIDE DEF t, o, b
    <3> QED
      BY <3>1, <3>2 DEF SaveRow
  <2>2. note' \in NoteType /\ NotesPlaced'
    BY <1>3 DEF DeleteNote, NoteType, NoteRow, Status, NotesPlaced, LiveNote
  <2>3. calls' \in CallsType
    BY <1>3, DoneType DEF DeleteNote
  <2> QED
    BY <1>3, <2>1, <2>2, <2>3 DEF DeleteNote, counters
<1> QED
  BY <1>1, <1>2, <1>3 DEF NoteTransaction

(* The transactions on the rows of note_saves. *)
LEMMA NoteSaveTyped == ASSUME Typed, NEW u \in Users, NoteSaveTransaction(u) PROVE Typed'
<1> USE DEF Typed, TypeOK
<1>1. ASSUME NEW n \in NoteIds, NEW p \in SaveIds, SaveNote(u, n, p)
      PROVE  Typed'
  <2>1. save' \in SaveType
    BY <1>1, SaveRowType DEF SaveNote, SaveType
  <2>2. noteSaves' \subseteq NoteSaveRow /\ noteMasks' \subseteq NoteSaveRow
    BY <1>1 DEF SaveNote, InsertNoteSave, NoteSaveRow
  <2>3. calls' \in CallsType
    BY <1>1, DoneType DEF SaveNote
  <2> QED
    BY <1>1, <2>1, <2>2, <2>3 DEF SaveNote, counters, NotesPlaced, LiveNote
<1>2. ASSUME NEW n \in NoteIds, NEW old \in NoteRow, old.psave \in SaveIds, NEW p \in SaveIds,
             SaveNoteWithSave(u, n, old, p)
      PROVE  Typed'
  <2> DEFINE q == old.psave
  <2>1. q \in SaveIds /\ save[q] \in SaveRow /\ save[q].user \in Accounts
        /\ old.user \in Accounts
    BY <1>2 DEF SaveType, SaveRow, NoteRow
  <2>2. save' \in SaveType
    BY <1>2, <2>1, CopyType DEF SaveNoteWithSave, SaveType
  <2>3. points' \in PointsType /\ saves' \in SavesType
    BY <1>2, CountCopyType DEF SaveNoteWithSave
  <2>4. regions' \in RegionsType /\ savePoints' \in CountType
    BY <1>2, IncrementType, CountsType DEF SaveNoteWithSave
  <2>5. calls' \in CallsType
    <3>1. CopyOf(u, q, save[q], FALSE).top \in NoteIds \cup {None}
      BY <2>1 DEF CopyOf, BlankSave, TopFor, SaveRow
    <3>2. MailTo(old.user) \in Users \cup {None}
      BY <2>1, MailType
    <3> QED
      BY <1>2, <3>1, <3>2, DoneType DEF SaveNoteWithSave
  <2>6. links' \subseteq Users \X Accounts
    BY <1>2, <2>1 DEF SaveNoteWithSave, Linked
  <2>7. noteSaves' \subseteq NoteSaveRow /\ noteMasks' \subseteq NoteSaveRow
    BY <1>2 DEF SaveNoteWithSave, InsertNoteSave, NoteSaveRow
  <2> QED
    BY <1>2, <2>2, <2>3, <2>4, <2>5, <2>6, <2>7
    DEF SaveNoteWithSave, NotesPlaced, LiveNote
<1>3. ASSUME NEW ns \in noteSaves, NEW old \in SaveRow, NEW left \in SUBSET NoteIds,
             UnsaveNote(u, ns, old, left)
      PROVE  Typed'
  <2>1. noteSaves' \subseteq NoteSaveRow /\ noteMasks' \subseteq NoteSaveRow
    BY <1>3 DEF UnsaveNote
  <2>2. save' \in SaveType
    <3>1. ns.psave \in SaveIds /\ save[ns.psave] \in SaveRow
      BY DEF NoteSaveRow, SaveType
    <3>2. \A t \in NoteIds \cup {None} : [save[ns.psave] EXCEPT !.top = t] \in SaveRow
      BY <3>1, SaveRowType
    <3>3. [save[ns.psave] EXCEPT !.top = None, !.status = "deleted"] \in SaveRow
      BY <3>1 DEF SaveRow, Status
    <3>4. \/ save' = save
          \/ \E t \in NoteIds \cup {None} :
               save' = [save EXCEPT ![ns.psave] = [@ EXCEPT !.top = t]]
          \/ save' = [save EXCEPT ![ns.psave] = [@ EXCEPT !.top = None, !.status = "deleted"]]
      BY <1>3 DEF UnsaveNote
    <3> QED
      BY <3>1, <3>2, <3>3, <3>4 DEF SaveType
  <2>3. /\ points' \in PointsType /\ createPoints' \in CountType
        /\ savePoints' \in CountType /\ saves' \in SavesType /\ regions' \in RegionsType
    BY <1>3, UncountType DEF UnsaveNote, counters
  <2>4. calls' \in CallsType
    BY <1>3, DoneType DEF UnsaveNote
  <2> QED
    BY <1>3, <2>1, <2>2, <2>3, <2>4 DEF UnsaveNote, NotesPlaced, LiveNote
<1> QED
  BY <1>1, <1>2, <1>3 DEF NoteSaveTransaction

(* Every transaction keeps the types. *)
LEMMA TransactionTyped == ASSUME Typed, Transaction PROVE Typed'
<1> USE DEF Typed, TypeOK
<1>1. ASSUME NEW u \in Users, SortTransaction(u)
      PROVE  Typed'
  <2>1. sort' \in SortType /\ calls' \in CallsType
    BY <1>1, DoneType DEF SortTransaction, CreateSort, DeleteSort, SortType, Status
  <2> QED
    BY <1>1, <2>1
    DEF SortTransaction, CreateSort, DeleteSort, counters, notes, NotesPlaced, LiveNote
<1>2. CASE NoTransaction
  BY <1>2 DEF NoTransaction, tables, counters, notes, NotesPlaced, LiveNote
<1> QED
  BY <1>1, <1>2, PointTyped, NoteTyped, NoteSaveTyped DEF Transaction

(* So does every step of PointLedger. *)
LEMMA NextTyped == Typed /\ [Next]_vars => Typed'
BY NextTransacts, TransactionTyped

(* Every column keeps its type, for any number of users, places and rows and *)
(* whatever clients send: no unsigned counter goes below zero.               *)
THEOREM LedgerTyped == Spec => []TypeOK
<1>1. Typed => TypeOK
  BY DEF Typed
<1> QED
  BY InitTyped, NextTyped, <1>1, PTL DEF Spec

--------------------------------------------------------------------------------
(* The number of a user's points *)

(* The sets that are counted are finite, and so are their parts. *)
LEMMA CountedFinite ==
  ASSUME NEW S \in SUBSET SaveIds
  PROVE  /\ IsFiniteSet(S) /\ Cardinality(S) \in Nat
         /\ Cardinality(S) = 0 <=> S = {}
         /\ \A x \in SaveIds \ S : Cardinality(S \cup {x}) = Cardinality(S) + 1
         /\ \A x \in S : Cardinality(S \ {x}) = Cardinality(S) - 1
<1>1. IsFiniteSet(S)
  BY FS_Subset, LedgerConstants
<1>2. Cardinality(S) \in Nat
  BY <1>1, FS_CardinalityType
<1>3. Cardinality(S) = 0 <=> S = {}
  BY <1>1, FS_EmptySet
<1>4. \A x \in SaveIds \ S : Cardinality(S \cup {x}) = Cardinality(S) + 1
  BY <1>1, FS_AddElement
<1>5. \A x \in S : Cardinality(S \ {x}) = Cardinality(S) - 1
  BY <1>1, FS_RemoveElement
<1> QED
  BY <1>1, <1>2, <1>3, <1>4, <1>5

Total(u) == createPoints[u] + savePoints[u]

(* The three ways a step can treat the saves and the totals of the users. *)
Keeps(x) == save'[x].status = save[x].status /\ save'[x].user = save[x].user

Steady ==
  /\ \A x \in SaveIds : Keeps(x)
  /\ \A v \in Users : Total(v)' = Total(v)

Gains(u, p) ==
  /\ save[p].status = "free"
  /\ save'[p].status = "live" /\ save'[p].user = u
  /\ \A x \in SaveIds \ {p} : Keeps(x)
  /\ \A v \in Users : Total(v)' = IF v = u THEN Total(v) + 1 ELSE Total(v)

Loses(u, p) ==
  /\ save[p].status = "live" /\ save[p].user = u
  /\ save'[p].status = "deleted"
  /\ \A x \in SaveIds \ {p} : Keeps(x)
  /\ \A v \in Users : Total(v)' = IF v = u THEN Total(v) - 1 ELSE Total(v)

(* Each of the three keeps the totals right: nothing counted changes ... *)
LEMMA SteadyCount == ASSUME PointsCounted, Steady PROVE PointsCounted'
<1>1. \A u \in Users : SavesOf(u)' = SavesOf(u)
  BY DEF Steady, Keeps, SavesOf, LiveSave
<1> QED
  BY <1>1 DEF PointsCounted, Steady, Total

(* ... or a new save is counted ... *)
LEMMA GainsCount ==
  ASSUME PointsCounted, Typed, NEW u \in Users, NEW p \in SaveIds, Gains(u, p)
  PROVE  PointsCounted'
<1>1. SavesOf(u)' = SavesOf(u) \cup {p} /\ p \notin SavesOf(u)
  BY DEF Gains, Keeps, SavesOf, LiveSave
<1>2. \A v \in Users \ {u} : SavesOf(v)' = SavesOf(v)
  BY DEF Gains, Keeps, SavesOf, LiveSave
<1>3. IsFiniteSet(SavesOf(u))
  BY FS_Subset, LedgerConstants DEF SavesOf
<1>4. Cardinality(SavesOf(u)') = Cardinality(SavesOf(u)) + 1
  BY <1>1, <1>3, FS_AddElement
<1> QED
  BY <1>2, <1>4 DEF PointsCounted, Gains, Total

(* ... or a deleted one is counted no more. *)
LEMMA LosesCount ==
  ASSUME PointsCounted, Typed, NEW u \in Users, NEW p \in SaveIds, Loses(u, p)
  PROVE  PointsCounted'
<1>1. SavesOf(u)' = SavesOf(u) \ {p} /\ p \in SavesOf(u)
  BY DEF Loses, Keeps, SavesOf, LiveSave
<1>2. \A v \in Users \ {u} : SavesOf(v)' = SavesOf(v)
  BY DEF Loses, Keeps, SavesOf, LiveSave
<1>3. IsFiniteSet(SavesOf(u))
  BY FS_Subset, LedgerConstants DEF SavesOf
<1>4. Cardinality(SavesOf(u)') = Cardinality(SavesOf(u)) - 1
  BY <1>1, <1>3, FS_RemoveElement
<1> QED
  BY <1>2, <1>4 DEF PointsCounted, Loses, Total

(* A save that is deleted takes one from the total of its user. *)
LEMMA UncountTotal ==
  ASSUME Typed, NEW u \in Users, NEW old, Uncount(u, old)
  PROVE  \A v \in Users : Total(v)' = IF v = u THEN Total(v) - 1 ELSE Total(v)
BY DEF Typed, TypeOK, CountType, Uncount, Total

(* A save that is promoted leaves it as it is. *)
LEMMA PromoteTotal ==
  ASSUME Typed, NEW u \in Users, NEW promoted \in BOOLEAN, Promote(u, promoted)
  PROVE  \A v \in Users : Total(v)' = Total(v)
BY DEF Typed, TypeOK, CountType, Promote, Total

(* The steps on points are of the three kinds ... *)
LEMMA PointMoves ==
  ASSUME Typed, NEW u \in Users, PointStep(u)
  PROVE  Steady \/ \E p \in SaveIds : Gains(u, p) \/ Loses(u, p)
<1> USE DEF Typed, TypeOK
<1>1. ASSUME NEW pl \in Places, NEW adcode \in Adcodes, NEW s \in Sorts \cup {None}, NEW p \in SaveIds,
             CreatePoint(u, pl, adcode, s, p)
      PROVE  Gains(u, p)
  BY <1>1 DEF CreatePoint, FreshSave, BlankSave, Gains, Keeps, Total, SaveType, CountType
<1>2. ASSUME NEW q \in SaveIds, NEW p \in SaveIds, CreateSave(u, q, save[q], p)
      PROVE  Gains(u, p)
  BY <1>2 DEF CreateSave, CopyOf, FreshSave, BlankSave, Gains, Keeps, Total, SaveType, CountType
<1>3. ASSUME NEW p \in SaveIds, NEW s \in Sorts \cup {None},
             UpdatePoint(u, p, save[p], s) \/ UpdateSave(u, p, save[p], s)
      PROVE  Steady
  BY <1>3 DEF UpdatePoint, UpdateSave, Refile, Steady, Keeps, Total, SaveType, SaveRow
<1>4. ASSUME NEW p \in SavesOf(u), DeleteSave(u, p, save[p])
      PROVE  Loses(u, p)
  BY <1>4, UncountTotal DEF DeleteSave, Loses, Keeps, SaveType, SaveRow, SavesOf, LiveSave
<1>5. ASSUME NEW p \in SaveIds, NEW n \in NoteIds, SetTop(p, n, save[p].note, note[n].user)
      PROVE  Steady
  BY <1>5 DEF SetTop, counters, Steady, Keeps, Total, SaveType, SaveRow
<1> QED
  BY <1>1, <1>2, <1>3, <1>4, <1>5 DEF PointStep, SavesOf

(* ... and so are those on notes, which delete no save ... *)
LEMMA NoteMoves ==
  ASSUME Typed, NEW u \in Users, NoteStep(u)
  PROVE  Steady \/ \E p \in SaveIds : Gains(u, p)
<1> USE DEF Typed, TypeOK
<1>1. ASSUME NEW q \in SaveIds, NEW p \in SaveIds, NEW n \in NoteIds,
             CreateNoteWithSave(u, save[q], n, p)
      PROVE  Gains(u, p)
  BY <1>1 DEF CreateNoteWithSave, FreshSave, BlankSave, Gains, Keeps, Total, SaveType, CountType
<1>2. ASSUME NEW q \in SaveIds, NEW p \in SaveIds, NEW n \in NoteIds,
             CreateNote(u, save[q], save[p], n, p)
      PROVE  Steady
  <2>1. \A v \in Users : Total(v)' = Total(v)
    BY <1>2, PromoteTotal DEF CreateNote
  <2>2. \A x \in SaveIds : Keeps(x)
    BY <1>2 DEF CreateNote, WithNote, Keeps, SaveType, SaveRow
  <2> QED
    BY <2>1, <2>2 DEF Steady
<1>3. ASSUME NEW n \in NoteIds, DeleteNote(n, note[n].psave)
      PROVE  Steady
  BY <1>3 DEF DeleteNote, counters, Steady, Keeps, Total, SaveType, SaveRow
<1> QED
  BY <1>1, <1>2, <1>3 DEF NoteStep, SavesAt, SavesOf

(* ... and those on saved notes. *)
LEMMA NoteSaveMoves ==
  ASSUME Typed, NEW u \in Users, NoteSaveStep(u)
  PROVE  Steady \/ \E p \in SaveIds : Gains(u, p) \/ Loses(u, p)
<1> USE DEF Typed, TypeOK
<1>1. ASSUME NEW n \in NoteIds, NEW p \in SaveIds, SaveNote(u, n, p)
      PROVE  Steady
  BY <1>1 DEF SaveNote, counters, Steady, Keeps, Total, SaveType, SaveRow
<1>2. ASSUME NEW n \in NoteIds, NEW p \in SaveIds, SaveNoteWithSave(u, n, note[n], p)
      PROVE  Gains(u, p)
  BY <1>2 DEF SaveNoteWithSave, CopyOf, FreshSave, BlankSave, Gains, Keeps, Total,
              SaveType, CountType
<1>3. ASSUME NEW ns \in noteSaves, ns.psave \in SavesOf(u), UnsaveNote(u, ns, save[ns.psave], LeftOn(ns))
      PROVE  Steady \/ Loses(u, ns.psave)
  <2> DEFINE p == ns.psave
  <2>1. CASE UNCHANGED counters /\ (save' = save \/ \E t : save' = [save EXCEPT ![p].top = t])
    <3>1. \A x \in SaveIds : Keeps(x)
      <4>1. CASE save' = save
        BY <4>1 DEF Keeps
      <4>2. ASSUME NEW t, save' = [save EXCEPT ![p].top = t]
            PROVE  \A x \in SaveIds : Keeps(x)
        BY <4>2 DEF Keeps, SaveType, SaveRow
      <4> QED
        BY <2>1, <4>1, <4>2
    <3>2. \A v \in Users : Total(v)' = Total(v)
      BY <2>1 DEF counters, Total
    <3> QED
      BY <3>1, <3>2 DEF Steady
  <2>2. CASE /\ save' = [save EXCEPT ![p].top = None, ![p].status = "deleted"]
             /\ Uncount(u, save[p])
    BY <1>3, <2>2, UncountTotal DEF Loses, Keeps, SaveType, SaveRow, SavesOf, LiveSave
  <2> QED
    BY <1>3, <2>1, <2>2 DEF UnsaveNote
<1> QED
  BY <1>1, <1>2, <1>3 DEF NoteSaveStep, SavesAt, SavesOf

(* createPoints and savePoints add up to the live saves of the user, for any *)
(* number of users, places, saves and notes and whatever clients send.       *)
THEOREM AllPointsCounted == Spec => []PointsCounted
<1>1. Init => PointsCounted
  <2> SUFFICES ASSUME Init, NEW u \in Users
               PROVE  createPoints[u] + savePoints[u] = Cardinality(SavesOf(u))
    BY DEF PointsCounted
  <2>1. SavesOf(u) = {}
    BY LedgerConstants DEF Init, SavesOf, LiveSave, PublicSave, BlankSave
  <2> QED
    BY <2>1, FS_EmptySet DEF Init
<1>2. PointsCounted /\ Typed /\ [Next]_vars => PointsCounted'
  <2> SUFFICES ASSUME PointsCounted, Typed, [Next]_vars
               PROVE  PointsCounted'
    OBVIOUS
  <2>1. ASSUME NEW u \in Users, NEW s \in Sorts, CreateSort(u, s) \/ DeleteSort(s, points[s])
        PROVE  Steady
    BY <2>1 DEF CreateSort, DeleteSort, counters, Steady, Keeps, Total
  <2>2. CASE Rejected \/ UNCHANGED vars
    BY <2>2, SteadyCount DEF Rejected, vars, tables, counters, Steady, Keeps, Total
  <2>3. CASE Steady \/ \E u \in Users, p \in SaveIds : Gains(u, p) \/ Loses(u, p)
    BY <2>3, SteadyCount, GainsCount, LosesCount
  <2> QED
    BY <2>1, <2>2, <2>3, PointMoves, NoteMoves, NoteSaveMoves DEF Next, SortStep
<1> QED
  BY <1>1, <1>2, InitTyped, NextTyped, PTL DEF Spec

--------------------------------------------------------------------------------
(* Notes *)

(* The sorts, and the requests that throw, leave saves and notes alone. *)
LEMMA OthersAlone ==
  ASSUME Rejected \/ UNCHANGED vars \/ \E u \in Users : SortStep(u)
  PROVE  UNCHANGED <<save, note, noteSaves, noteMasks, links>>
BY DEF SortStep, CreateSort, DeleteSort, Rejected, vars, tables, counters, notes

(* The same of transactions. *)
LEMMA OthersUntouched ==
  ASSUME NoTransaction \/ \E u \in Users : SortTransaction(u)
  PROVE  UNCHANGED <<save, note, noteSaves, noteMasks, links>>
BY DEF SortTransaction, CreateSort, DeleteSort, NoTransaction, tables, counters, notes

--------------------------------------------------------------------------------
(* Rows that are in use *)

SaveAges(p) ==
  save[p].status # "free" =>
    /\ save'[p].status \in {save[p].status, "deleted"}
    /\ save'[p].user = save[p].user /\ save'[p].place = save[p].place

NoteAges(n) ==
  note[n].status # "free" =>
    /\ note'[n].status \in {note[n].status, "deleted"}
    /\ note'[n].user = note[n].user /\ note'[n].psave = note[n].psave

(* What is written into a row that is in use, other than a deletion *)
Written(row, new) ==
  new.status = row.status /\ new.user = row.user /\ new.place = row.place

(* A row ages when it is new, written into or deleted. *)
LEMMA Ages ==
  ASSUME NEW x \in SaveIds,
         \/ save[x].status = "free" \/ Written(save[x], save'[x])
         \/ /\ save'[x].status = "deleted"
            /\ save'[x].user = save[x].user /\ save'[x].place = save[x].place
  PROVE  SaveAges(x)
BY DEF SaveAges, Written

(* No handler writes into the row of a deleted save, gives a save away or   *)
(* moves it to another place.                                               *)
LEMMA SavesAge ==
  ASSUME Typed, Transaction, NEW x \in SaveIds
  PROVE  SaveAges(x)
<1> USE DEF Typed, TypeOK, SaveType
<1>0. save[x] \in SaveRow
  OBVIOUS
<1>1. ASSUME NEW u \in Users, PointTransaction(u)
      PROVE  SaveAges(x)
  <2>1. ASSUME NEW pl \in Places, NEW adcode \in Adcodes, NEW s \in Sorts \cup {None}, NEW p \in SaveIds,
               CreatePoint(u, pl, adcode, s, p)
        PROVE  SaveAges(x)
    BY <2>1, Ages DEF CreatePoint, FreshSave, Written
  <2>2. ASSUME NEW q \in SaveIds, NEW p \in SaveIds, NEW src, CreateSave(u, q, src, p)
        PROVE  SaveAges(x)
    BY <2>2, Ages DEF CreateSave, FreshSave, Written
  <2>3. ASSUME NEW p \in SaveIds, NEW old, NEW s,
               UpdatePoint(u, p, old, s) \/ UpdateSave(u, p, old, s)
        PROVE  SaveAges(x)
    BY <1>0, <2>3, Ages DEF UpdatePoint, UpdateSave, Written, SaveRow
  <2>4. ASSUME NEW p \in SaveIds, NEW old, DeleteSave(u, p, old)
        PROVE  SaveAges(x)
    BY <1>0, <2>4, Ages DEF DeleteSave, Written, SaveRow
  <2>5. ASSUME NEW p \in SaveIds, NEW n, NEW written, NEW author, SetTop(p, n, written, author)
        PROVE  SaveAges(x)
    BY <1>0, <2>5, Ages DEF SetTop, Written, SaveRow
  <2> QED
    BY <1>1, <2>1, <2>2, <2>3, <2>4, <2>5 DEF PointTransaction
<1>2. ASSUME NEW u \in Users, NoteTransaction(u)
      PROVE  SaveAges(x)
  <2>1. ASSUME NEW src, NEW n, NEW p \in SaveIds, CreateNoteWithSave(u, src, n, p)
        PROVE  SaveAges(x)
    BY <2>1, Ages DEF CreateNoteWithSave, FreshSave, Written
  <2>2. ASSUME NEW src, NEW mine, NEW n, NEW p \in SaveIds, CreateNote(u, src, mine, n, p)
        PROVE  SaveAges(x)
    <3>1. \/ save'[x] = save[x] \/ save'[x] = [save[x] EXCEPT !.top = n]
          \/ \E b \in BOOLEAN : save'[x] = WithNote(save[x], n, b)
      BY <2>2 DEF CreateNote
    <3>2. Written(save[x], save'[x])
      BY <1>0, <3>1 DEF WithNote, Written, SaveRow
    <3> QED
      BY <3>2, Ages
  <2>3. ASSUME NEW n, NEW p \in SaveIds, DeleteNote(n, p)
        PROVE  SaveAges(x)
    BY <1>0, <2>3, Ages DEF DeleteNote, Written, SaveRow
  <2> QED
    BY <1>2, <2>1, <2>2, <2>3 DEF NoteTransaction
<1>3. ASSUME NEW u \in Users, NoteSaveTransaction(u)
      PROVE  SaveAges(x)
  <2>1. ASSUME NEW n, NEW p \in SaveIds, SaveNote(u, n, p)
        PROVE  SaveAges(x)
    BY <1>0, <2>1, Ages DEF SaveNote, Written, SaveRow
  <2>2. ASSUME NEW n, NEW old, NEW p \in SaveIds, SaveNoteWithSave(u, n, old, p)
        PROVE  SaveAges(x)
    BY <2>2, Ages DEF SaveNoteWithSave, FreshSave, Written
  <2>3. ASSUME NEW ns \in noteSaves, NEW old, NEW left, UnsaveNote(u, ns, old, left)
        PROVE  SaveAges(x)
    <3>1. ASSUME NEW t, save' = [save EXCEPT ![ns.psave] = [@ EXCEPT !.top = t]]
          PROVE  Written(save[x], save'[x])
      BY <1>0, <3>1 DEF Written, SaveRow
    <3>2. ASSUME save' = [save EXCEPT ![ns.psave] = [@ EXCEPT !.top = None, !.status = "deleted"]]
          PROVE  SaveAges(x)
      BY <1>0, <3>2, Ages DEF Written, SaveRow
    <3>3. ASSUME save' = save
          PROVE  Written(save[x], save'[x])
      BY <3>3 DEF Written
    <3>4. \/ save' = save
          \/ \E t : save' = [save EXCEPT ![ns.psave] = [@ EXCEPT !.top = t]]
          \/ save' = [save EXCEPT ![ns.psave] = [@ EXCEPT !.top = None, !.status = "deleted"]]
      BY <2>3 DEF UnsaveNote
    <3> QED
      BY <3>1, <3>2, <3>3, <3>4, Ages
  <2> QED
    BY <1>3, <2>1, <2>2, <2>3 DEF NoteSaveTransaction
<1>4. CASE NoTransaction \/ \E u \in Users : SortTransaction(u)
  BY <1>4, OthersUntouched DEF SaveAges
<1> QED
  BY <1>1, <1>2, <1>3, <1>4 DEF Transaction

(* Nor into the row of a deleted note: a new note takes a new row.          *)
LEMMA NotesAge ==
  ASSUME Typed, Transaction, NEW x \in NoteIds
  PROVE  NoteAges(x)
<1> USE DEF Typed, TypeOK, NoteType
<1>1. ASSUME NEW u \in Users, PointTransaction(u)
      PROVE  note' = note
  BY <1>1 DEF PointTransaction, CreatePoint, CreateSave, UpdatePoint, UpdateSave, Refile,
              DeleteSave, SetTop, notes
<1>2. ASSUME NEW u \in Users, NoteTransaction(u)
      PROVE  NoteAges(x)
  <2>1. \/ \E n \in NoteIds, p \in SaveIds : NewNote(u, n, p)
        \/ \E n \in NoteIds : note' = [note EXCEPT ![n].status = "deleted"]
    BY <1>2 DEF NoteTransaction, CreateNoteWithSave, CreateNote, DeleteNote
  <2>2. ASSUME NEW n \in NoteIds, NEW p \in SaveIds, NewNote(u, n, p)
        PROVE  NoteAges(x)
    BY <2>2 DEF NewNote, NoteAges
  <2>3. ASSUME NEW n \in NoteIds, note' = [note EXCEPT ![n].status = "deleted"]
        PROVE  NoteAges(x)
    BY <2>3 DEF NoteRow, NoteAges
  <2> QED
    BY <2>1, <2>2, <2>3
<1>3. ASSUME NEW u \in Users, NoteSaveTransaction(u)
      PROVE  note' = note
  BY <1>3 DEF NoteSaveTransaction, SaveNote, SaveNoteWithSave, UnsaveNote
<1>4. CASE NoTransaction \/ \E u \in Users : SortTransaction(u)
  BY <1>4, OthersUntouched DEF NoteAges
<1> QED
  BY <1>1, <1>2, <1>3, <1>4 DEF Transaction, NoteAges

--------------------------------------------------------------------------------
(* Saved and masked *)

(* A note that a user saves is taken off the masks, and one that is no      *)
(* longer saved is masked, in one transaction.                              *)
LEMMA MasksRight == ASSUME SavedNotMasked, Transaction PROVE SavedNotMasked'
<1> USE DEF SavedNotMasked
<1>1. ASSUME NEW u \in Users, PointTransaction(u)
      PROVE  SavedNotMasked'
  BY <1>1 DEF PointTransaction, CreatePoint, CreateSave, UpdatePoint, UpdateSave, Refile,
              DeleteSave, SetTop, notes
<1>2. ASSUME NEW u \in Users, NoteTransaction(u)
      PROVE  SavedNotMasked'
  BY <1>2 DEF NoteTransaction, CreateNoteWithSave, CreateNote, DeleteNote
<1>3. ASSUME NEW u \in Users, NoteSaveTransaction(u)
      PROVE  SavedNotMasked'
  BY <1>3 DEF NoteSaveTransaction, SaveNote, SaveNoteWithSave, InsertNoteSave, UnsaveNote
<1>4. CASE NoTransaction \/ \E u \in Users : SortTransaction(u)
  BY <1>4, OthersUntouched
<1> QED
  BY <1>1, <1>2, <1>3, <1>4 DEF Transaction

(* A note that a user saves is taken off the user's masks, and one that is  *)
(* unsaved is taken off the saved ones, whatever else the requests do.      *)
THEOREM NeverSavedAndMasked == Spec => []SavedNotMasked
<1>1. Init => SavedNotMasked
  BY DEF Init, SavedNotMasked
<1>2. SavedNotMasked /\ Typed /\ [Next]_vars => SavedNotMasked'
  BY NextTransacts, MasksRight
<1> QED
  BY <1>1, <1>2, InitTyped, NextTyped, PTL DEF Spec

--------------------------------------------------------------------------------
(* The rows of note_saves *)

(* What a step must leave alone for the rows that it does not touch. *)
KeepsOwners ==
  \A p \in SaveIds : LiveSave(p) => LiveSave(p)' /\ save'[p].user = save[p].user

(* A row of note_saves still hangs on its save when no live save is lost, *)
(* and the new rows name live saves of their users.                          *)
LEMMA KeptRows ==
  ASSUME Typed, NoteSavesHaveSave, KeepsOwners,
         \A ns \in noteSaves' \ noteSaves : LiveSave(ns.psave)' /\ save'[ns.psave].user = ns.user
  PROVE  NoteSavesHaveSave'
BY DEF Typed, TypeOK, NoteSaveRow, KeepsOwners, NoteSavesHaveSave

(* No step on points leaves a row behind: a deletion takes its rows along.  *)
LEMMA PointRows ==
  ASSUME Typed, NoteSavesHaveSave, NEW u \in Users, PointStep(u)
  PROVE  NoteSavesHaveSave'
<1> USE DEF Typed, TypeOK
<1>1. ASSUME NEW pl \in Places, NEW adcode \in Adcodes, NEW s \in Sorts \cup {None}, NEW p \in SaveIds,
             CreatePoint(u, pl, adcode, s, p)
      PROVE  NoteSavesHaveSave'
  <2>1. KeepsOwners /\ noteSaves' = noteSaves
    BY <1>1 DEF CreatePoint, notes, FreshSave, KeepsOwners, LiveSave, SaveType
  <2> QED
    BY <2>1, KeptRows
<1>2. ASSUME NEW q \in SaveIds, NEW p \in SaveIds, CreateSave(u, q, save[q], p)
      PROVE  NoteSavesHaveSave'
  <2>1. KeepsOwners /\ noteSaves' = noteSaves
    BY <1>2 DEF CreateSave, notes, FreshSave, KeepsOwners, LiveSave, SaveType
  <2> QED
    BY <2>1, KeptRows
<1>3. ASSUME NEW p \in SaveIds, NEW s \in Sorts \cup {None},
             UpdatePoint(u, p, save[p], s) \/ UpdateSave(u, p, save[p], s)
      PROVE  NoteSavesHaveSave'
  <2>1. KeepsOwners /\ noteSaves' = noteSaves
    BY <1>3 DEF UpdatePoint, UpdateSave, Refile, notes, KeepsOwners, LiveSave, SaveType, SaveRow
  <2> QED
    BY <2>1, KeptRows
<1>4. ASSUME NEW p \in SavesOf(u), DeleteSave(u, p, save[p])
      PROVE  NoteSavesHaveSave'
  <2> SUFFICES ASSUME NEW ns \in noteSaves'
               PROVE  LiveSave(ns.psave)' /\ save'[ns.psave].user = ns.user
    BY DEF NoteSavesHaveSave
  <2>1. ns \in noteSaves /\ ~(ns.user = u /\ ns.psave = p)
    BY <1>4 DEF DeleteSave
  <2>2. ns.psave \in SaveIds /\ LiveSave(ns.psave) /\ save[ns.psave].user = ns.user
    BY <2>1 DEF NoteSavesHaveSave, NoteSaveRow
  <2>3. ns.psave # p
    BY <2>1, <2>2 DEF SavesOf
  <2> QED
    BY <1>4, <2>2, <2>3 DEF DeleteSave, LiveSave, SaveType, SavesOf
<1>5. ASSUME NEW p \in SaveIds, NEW n \in NoteIds, SetTop(p, n, save[p].note, note[n].user)
      PROVE  NoteSavesHaveSave'
  <2>1. KeepsOwners /\ noteSaves' = noteSaves
    BY <1>5 DEF SetTop, notes, KeepsOwners, LiveSave, SaveType, SaveRow
  <2> QED
    BY <2>1, KeptRows
<1> QED
  BY <1>1, <1>2, <1>3, <1>4, <1>5 DEF PointStep, SavesOf

(* No step on notes does: it deletes no save and adds no row.               *)
LEMMA NoteRows ==
  ASSUME Typed, NoteSavesHaveSave, NEW u \in Users, NoteStep(u)
  PROVE  NoteSavesHaveSave'
<1> USE DEF Typed, TypeOK
<1>1. ASSUME NEW q \in SaveIds, NEW p \in SaveIds, NEW n \in NoteIds,
             CreateNoteWithSave(u, save[q], n, p)
      PROVE  NoteSavesHaveSave'
  <2>1. KeepsOwners /\ noteSaves' = noteSaves
    BY <1>1 DEF CreateNoteWithSave, FreshSave, KeepsOwners, LiveSave, SaveType
  <2> QED
    BY <2>1, KeptRows
<1>2. ASSUME NEW q \in SaveIds, NEW p \in SaveIds, NEW n \in NoteIds,
             CreateNote(u, save[q], save[p], n, p)
      PROVE  NoteSavesHaveSave'
  <2>1. KeepsOwners /\ noteSaves' = noteSaves
    BY <1>2 DEF CreateNote, WithNote, KeepsOwners, LiveSave, SaveType, SaveRow
  <2> QED
    BY <2>1, KeptRows
<1>3. ASSUME NEW n \in NoteIds, DeleteNote(n, note[n].psave)
      PROVE  NoteSavesHaveSave'
  <2>1. KeepsOwners /\ noteSaves' = noteSaves
    BY <1>3 DEF DeleteNote, KeepsOwners, LiveSave, SaveType, SaveRow
  <2> QED
    BY <2>1, KeptRows
<1> QED
  BY <1>1, <1>2, <1>3 DEF NoteStep, SavesAt, SavesOf

(* Nor does one on saved notes: unsave deletes a save with its last row.    *)
LEMMA NoteSaveRows ==
  ASSUME Typed, NoteSavesHaveSave, NEW u \in Users, NoteSaveStep(u)
  PROVE  NoteSavesHaveSave'
<1> USE DEF Typed, TypeOK
<1>1. ASSUME NEW n \in NoteIds, NEW p \in SavesOf(u), SaveNote(u, n, p)
      PROVE  NoteSavesHaveSave'
  <2>1. KeepsOwners
    BY <1>1 DEF SaveNote, KeepsOwners, LiveSave, SaveType, SaveRow
  <2>2. \A ns \in noteSaves' \ noteSaves : ns = [user |-> u, psave |-> p, note |-> n]
    BY <1>1 DEF SaveNote, InsertNoteSave
  <2>3. p \in SaveIds /\ LiveSave(p)' /\ save'[p].user = u
    BY <2>1 DEF KeepsOwners, SavesOf
  <2> QED
    BY <2>1, <2>2, <2>3, KeptRows
<1>2. ASSUME NEW n \in NoteIds, NEW p \in SaveIds, SaveNoteWithSave(u, n, note[n], p)
      PROVE  NoteSavesHaveSave'
  <2>1. KeepsOwners
    BY <1>2 DEF SaveNoteWithSave, FreshSave, KeepsOwners, LiveSave, SaveType
  <2>2. \A ns \in noteSaves' \ noteSaves : ns = [user |-> u, psave |-> p, note |-> n]
    BY <1>2 DEF SaveNoteWithSave, InsertNoteSave
  <2>3. LiveSave(p)' /\ save'[p].user = u
    BY <1>2 DEF SaveNoteWithSave, CopyOf, BlankSave, LiveSave, SaveType
  <2> QED
    BY <2>1, <2>2, <2>3, KeptRows
<1>3. ASSUME NEW ns \in noteSaves, UnsaveNote(u, ns, save[ns.psave], LeftOn(ns))
      PROVE  NoteSavesHaveSave'
  <2> DEFINE p == ns.psave
  <2>1. p \in SaveIds /\ save[p] \in SaveRow
    BY DEF NoteSaveRow, SaveType
  <2>2. CASE save' = save \/ \E t : save' = [save EXCEPT ![p].top = t]
    <3>1. KeepsOwners
      <4>1. CASE save' = save
        BY <4>1 DEF KeepsOwners, LiveSave
      <4>2. ASSUME NEW t, save' = [save EXCEPT ![p].top = t]
            PROVE  KeepsOwners
        BY <2>1, <4>2 DEF KeepsOwners, LiveSave, SaveType, SaveRow
      <4> QED
        BY <2>2, <4>1, <4>2
    <3>2. noteSaves' \subseteq noteSaves
      BY <1>3 DEF UnsaveNote
    <3> QED
      BY <3>1, <3>2, KeptRows
  <2>3. CASE /\ LeftOn(ns) = {}
             /\ save' = [save EXCEPT ![p].top = None, ![p].status = "deleted"]
    <3> SUFFICES ASSUME NEW x \in noteSaves'
                 PROVE  LiveSave(x.psave)' /\ save'[x.psave].user = x.user
      BY DEF NoteSavesHaveSave
    <3>1. x \in noteSaves \ {ns}
      BY <1>3 DEF UnsaveNote
    <3>2. x.psave \in SaveIds /\ LiveSave(x.psave) /\ save[x.psave].user = x.user
          /\ save[p].user = ns.user
      BY <3>1 DEF NoteSavesHaveSave, NoteSaveRow
    <3>3. x.psave # p
      BY <2>3, <3>1, <3>2 DEF LeftOn
    <3> QED
      BY <2>3, <3>2, <3>3 DEF LiveSave, SaveType
  <2> QED
    BY <1>3, <2>2, <2>3 DEF UnsaveNote
<1> QED
  BY <1>1, <1>2, <1>3 DEF NoteSaveStep, SavesAt, SavesOf

(* So every row of note_saves keeps its save. *)
LEMMA RowsHang == NoteSavesHaveSave /\ Typed /\ [Next]_vars => NoteSavesHaveSave'
<1>1. ASSUME Typed, NoteSavesHaveSave,
             Rejected \/ UNCHANGED vars \/ \E u \in Users : SortStep(u)
      PROVE  NoteSavesHaveSave'
  BY <1>1, OthersAlone DEF NoteSavesHaveSave, LiveSave
<1> QED
  BY <1>1, PointRows, NoteRows, NoteSaveRows DEF Next

(* A saved note never loses the save it hangs on, for any number of notes:  *)
(* DELETE point/save takes its rows along, and unsave deletes a save only   *)
(* with the last note on it.                                                *)
THEOREM SavedNotesHang == Spec => []NoteSavesHaveSave
<1>1. Init => NoteSavesHaveSave
  BY DEF Init, NoteSavesHaveSave
<1> QED
  BY <1>1, RowsHang, InitTyped, NextTyped, PTL DEF Spec

--------------------------------------------------------------------------------
(* One's own note *)

OwnNoteRight(p) ==
  LiveSave(p) /\ save[p].note # None =>
    LiveNote(save[p].note) /\ note[save[p].note].psave = p /\ note[save[p].note].user = save[p].user

(* A save keeps its own note when the step leaves its row alone, or is gone. *)
SameOwnNote(p) ==
  LiveSave(p)' => LiveSave(p) /\ save'[p].note = save[p].note /\ save'[p].user = save[p].user

(* A step that writes no note disturbs no own note it does not clear.       *)
LEMMA OwnNoteKept ==
  ASSUME OwnNoteLive, note' = note, NEW p \in SaveIds,
         SameOwnNote(p) \/ save'[p].note = None
  PROVE  OwnNoteRight(p)'
BY DEF OwnNoteLive, OwnNoteRight, SameOwnNote, LiveNote

(* Transactions on points write no note; new saves come without one.        *)
LEMMA PointOwnNotes ==
  ASSUME Typed, OwnNoteLive, NEW u \in Users, PointTransaction(u)
  PROVE  OwnNoteLive'
<1> USE DEF Typed, TypeOK
<1> SUFFICES ASSUME NEW x \in SaveIds
             PROVE  note' = note /\ (SameOwnNote(x) \/ save'[x].note = None)
  BY OwnNoteKept DEF OwnNoteLive, OwnNoteRight
<1>1. ASSUME NEW pl \in Places, NEW adcode \in Adcodes, NEW s \in Sorts \cup {None}, NEW p \in SaveIds,
             CreatePoint(u, pl, adcode, s, p)
      PROVE  note' = note /\ (SameOwnNote(x) \/ save'[x].note = None)
  BY <1>1 DEF CreatePoint, notes, BlankSave, SameOwnNote, LiveSave, SaveType
<1>2. ASSUME NEW q \in SaveIds, NEW p \in SaveIds, NEW src, CreateSave(u, q, src, p)
      PROVE  note' = note /\ (SameOwnNote(x) \/ save'[x].note = None)
  BY <1>2 DEF CreateSave, notes, CopyOf, BlankSave, SameOwnNote, LiveSave, SaveType
<1>3. ASSUME NEW p \in SaveIds, NEW old, NEW s \in Sorts \cup {None},
             UpdatePoint(u, p, old, s) \/ UpdateSave(u, p, old, s)
      PROVE  note' = note /\ SameOwnNote(x)
  BY <1>3 DEF UpdatePoint, UpdateSave, Refile, notes, SameOwnNote, LiveSave, SaveType, SaveRow
<1>4. ASSUME NEW p \in SaveIds, NEW old, DeleteSave(u, p, old)
      PROVE  note' = note /\ SameOwnNote(x)
  BY <1>4 DEF DeleteSave, SameOwnNote, LiveSave, SaveType, SaveRow
<1>5. ASSUME NEW p \in SaveIds, NEW n \in NoteIds, NEW written, NEW author,
             SetTop(p, n, written, author)
      PROVE  note' = note /\ SameOwnNote(x)
  BY <1>5 DEF SetTop, notes, SameOwnNote, LiveSave, SaveType, SaveRow
<1> QED
  BY <1>1, <1>2, <1>3, <1>4, <1>5 DEF PointTransaction

(* A new note was not the own note of any save before. *)
LEMMA NoteOwnNotes ==
  ASSUME Typed, OwnNoteLive, NEW u \in Users, NoteTransaction(u)
  PROVE  OwnNoteLive'
<1> USE DEF Typed, TypeOK
<1> SUFFICES ASSUME NEW x \in SaveIds
             PROVE  OwnNoteRight(x)'
  BY DEF OwnNoteLive, OwnNoteRight
<1>0. OwnNoteRight(x) /\ save[x] \in SaveRow
  BY DEF OwnNoteLive, OwnNoteRight, SaveType
<1>1. ASSUME NEW src, NEW p \in SaveIds, NEW n \in NoteIds,
             CreateNoteWithSave(u, src, n, p)
      PROVE  OwnNoteRight(x)'
  <2>1. CASE x = p
    BY <1>1, <2>1 DEF CreateNoteWithSave, NewNote, BlankSave, OwnNoteRight, LiveNote,
                      SaveType, NoteType
  <2>2. CASE x # p
    BY <1>0, <1>1, <2>2 DEF CreateNoteWithSave, NewNote, OwnNoteRight, LiveSave, LiveNote,
                            SaveType, NoteType, SaveRow
  <2> QED
    BY <2>1, <2>2
<1>2. ASSUME NEW src, NEW mine, NEW p \in SaveIds, HeldBy(p, u), NEW n \in NoteIds,
             CreateNote(u, src, mine, n, p)
      PROVE  OwnNoteRight(x)'
  <2>1. save[p] \in SaveRow /\ save[p].user = u
    BY <1>2 DEF HeldBy, SaveType
  <2>2. CASE x = p
    <3>1. save'[x].note = n /\ save'[x].user = u
      BY <1>2, <2>1, <2>2 DEF CreateNote, WithNote, SaveRow
    <3> QED
      BY <1>2, <2>2, <3>1 DEF CreateNote, NewNote, OwnNoteRight, LiveNote, NoteType
  <2>3. CASE x # p
    <3>1. save'[x] = save[x] \/ save'[x] = [save[x] EXCEPT !.top = n]
      BY <1>2, <2>3 DEF CreateNote
    <3>2. save'[x].note = save[x].note /\ save'[x].user = save[x].user
          /\ save'[x].status = save[x].status
      BY <1>0, <3>1 DEF SaveRow
    <3> QED
      BY <1>0, <1>2, <3>2 DEF CreateNote, NewNote, OwnNoteRight, LiveSave, LiveNote, NoteType
  <2> QED
    BY <2>2, <2>3
<1>3. ASSUME NEW n \in NoteIds, NEW p \in SaveIds, note[n].psave = p, DeleteNote(n, p)
      PROVE  OwnNoteRight(x)'
  <2>1. save'[x].user = save[x].user /\ save'[x].status = save[x].status
        /\ save'[x].note = IF x = p THEN None ELSE save[x].note
    BY <1>0, <1>3 DEF DeleteNote, SaveRow
  <2>2. \A m \in NoteIds : m # n => note'[m] = note[m]
    BY <1>3 DEF DeleteNote, NoteType
  <2>3. save[x].note \in NoteIds \cup {None}
    BY <1>0 DEF SaveRow
  <2> QED
    BY <1>0, <1>3, <2>1, <2>2, <2>3 DEF OwnNoteRight, LiveSave, LiveNote
<1> QED
  BY <1>1, <1>2, <1>3 DEF NoteTransaction

(* Nor do those on saved notes.                                             *)
LEMMA NoteSaveOwnNotes ==
  ASSUME Typed, OwnNoteLive, NEW u \in Users, NoteSaveTransaction(u)
  PROVE  OwnNoteLive'
<1> USE DEF Typed, TypeOK
<1> SUFFICES ASSUME NEW x \in SaveIds
             PROVE  note' = note /\ (SameOwnNote(x) \/ save'[x].note = None)
  BY OwnNoteKept DEF OwnNoteLive, OwnNoteRight
<1>1. ASSUME NEW n \in NoteIds, NEW p \in SaveIds, SaveNote(u, n, p)
      PROVE  note' = note /\ SameOwnNote(x)
  BY <1>1 DEF SaveNote, SameOwnNote, LiveSave, SaveType, SaveRow
<1>2. ASSUME NEW n \in NoteIds, NEW p \in SaveIds, NEW old,
             SaveNoteWithSave(u, n, old, p)
      PROVE  note' = note /\ (SameOwnNote(x) \/ save'[x].note = None)
  BY <1>2 DEF SaveNoteWithSave, CopyOf, BlankSave, SameOwnNote, LiveSave, SaveType
<1>3. ASSUME NEW ns \in noteSaves, NEW old, NEW left, UnsaveNote(u, ns, old, left)
      PROVE  note' = note /\ SameOwnNote(x)
  <2>1. ns.psave \in SaveIds /\ save[x] \in SaveRow
    BY DEF NoteSaveRow, SaveType
  <2>2. ASSUME save' = save
        PROVE  SameOwnNote(x)
    BY <2>2 DEF SameOwnNote, LiveSave
  <2>3. ASSUME NEW t, save' = [save EXCEPT ![ns.psave].top = t]
        PROVE  SameOwnNote(x)
    BY <2>1, <2>3 DEF SameOwnNote, LiveSave, SaveType, SaveRow
  <2>4. ASSUME save' = [save EXCEPT ![ns.psave].top = None, ![ns.psave].status = "deleted"]
        PROVE  SameOwnNote(x)
    BY <2>1, <2>4 DEF SameOwnNote, LiveSave, SaveType, SaveRow
  <2> QED
    BY <1>3, <2>2, <2>3, <2>4 DEF UnsaveNote
<1> QED
  BY <1>1, <1>2, <1>3 DEF NoteSaveTransaction

(* Whatever a request read before, an own note stays right.                 *)
LEMMA OwnNotesRight == ASSUME Typed, OwnNoteLive, Transaction PROVE OwnNoteLive'
<1>1. CASE NoTransaction \/ \E u \in Users : SortTransaction(u)
  BY <1>1, OthersUntouched DEF OwnNoteLive, LiveSave, LiveNote
<1> QED
  BY <1>1, PointOwnNotes, NoteOwnNotes, NoteSaveOwnNotes DEF Transaction

(* At first only the points of the public map have a note of their own. *)
LEMMA InitOwnNotes == Init => OwnNoteLive
<1> SUFFICES ASSUME Init, NEW p \in SaveIds, save[p].note # None
             PROVE  LiveNote(save[p].note) /\ note[save[p].note].psave = p
                    /\ note[save[p].note].user = save[p].user
  BY DEF OwnNoteLive
<1>1. p \in DOMAIN PublicMap /\ save[p] = PublicSave(p)
  BY DEF Init, BlankSave
<1>2. save[p].note = PublicMap[p].note /\ save[p].user = Public
  BY <1>1 DEF PublicSave, BlankSave
<1>3. PublicMap[p].note \in NoteIds /\ PublicNoteOf(PublicMap[p].note) = {p}
  BY <1>1, LedgerConstants DEF PublicNoteOf
<1> QED
  BY <1>2, <1>3 DEF Init, LiveNote

(* A save never shows as its owner's own a note that was deleted, that was  *)
(* written by somebody else or that was written on another save, however    *)
(* often notes are written on it and deleted again.                         *)
THEOREM OwnNotesLive == Spec => []OwnNoteLive
<1>1. OwnNoteLive /\ Typed /\ [Next]_vars => OwnNoteLive'
  BY NextTransacts, OwnNotesRight
<1> QED
  BY <1>1, InitOwnNotes, InitTyped, NextTyped, PTL DEF Spec

--------------------------------------------------------------------------------
(* The note on top *)

TopRight(p) ==
  LiveSave(p) /\ save[p].top # None =>
    LiveNote(save[p].top) \/ \E ns \in noteSaves : ns.psave = p /\ ns.note = save[p].top

SameTop(p) == LiveSave(p)' => LiveSave(p) /\ save'[p].top = save[p].top

(* A save may keep its top note when its row, the live notes and its rows   *)
(* of note_saves are left alone.                                            *)
LEMMA TopKept ==
  ASSUME TopsLiveOrSaved, NEW p \in SaveIds,
         \A n \in NoteIds : LiveNote(n) => LiveNote(n)',
         \A ns \in noteSaves : ns.psave = p => ns \in noteSaves',
         LiveSave(p) /\ save[p].top # None => save[p].top \in NoteIds,
         SameTop(p)
  PROVE  TopRight(p)'
BY DEF TopsLiveOrSaved, TopRight, SameTop

(* A live note, or none, may always come on top.                            *)
LEMMA TopNew ==
  ASSUME NEW p \in SaveIds, save'[p].top # None => note'[save'[p].top].status = "live"
  PROVE  TopRight(p)'
BY DEF TopRight, LiveNote

(* Steps on points bring up live notes only, and take the rows of a deleted *)
(* save away with it.                                                        *)
LEMMA PointTops ==
  ASSUME Typed, TopsLiveOrSaved, NEW u \in Users, PointStep(u)
  PROVE  TopsLiveOrSaved'
<1> USE DEF Typed, TypeOK
<1> SUFFICES ASSUME NEW x \in SaveIds
             PROVE  TopRight(x)'
  BY DEF TopsLiveOrSaved, TopRight
<1>0. save[x] \in SaveRow
  BY DEF SaveType
<1>1. ASSUME NEW pl \in Places, NEW adcode \in Adcodes, NEW s \in Sorts \cup {None}, NEW p \in SaveIds,
             CreatePoint(u, pl, adcode, s, p)
      PROVE  TopRight(x)'
  <2>1. UNCHANGED <<note, noteSaves>> /\ (SameTop(x) \/ save'[x].top = None)
    BY <1>1 DEF CreatePoint, notes, BlankSave, SameTop, LiveSave, SaveType
  <2> QED
    BY <1>0, <2>1, TopKept, TopNew DEF LiveNote, SaveRow
<1>2. ASSUME NEW q \in SaveIds, NEW p \in SaveIds, CreateSave(u, q, save[q], p)
      PROVE  TopRight(x)'
  <2>1. UNCHANGED <<note, noteSaves>>
    BY <1>2 DEF CreateSave, notes
  <2>2. CASE x = p
    <3>1. save'[x].top = CopyOf(u, q, save[q], save[q].toped).top
      BY <1>2, <2>2 DEF CreateSave, SaveType
    <3> QED
      BY <1>2, <2>1, <3>1, TopNew DEF CreateSave, AuthorFound, LiveNote
  <2>3. CASE x # p
    BY <1>0, <1>2, <2>1, <2>3, TopKept DEF CreateSave, SameTop, LiveSave, LiveNote, SaveType, SaveRow
  <2> QED
    BY <2>2, <2>3
<1>3. ASSUME NEW p \in SaveIds, NEW s \in Sorts \cup {None},
             UpdatePoint(u, p, save[p], s) \/ UpdateSave(u, p, save[p], s)
      PROVE  TopRight(x)'
  <2>1. UNCHANGED <<note, noteSaves>> /\ SameTop(x)
    BY <1>3 DEF UpdatePoint, UpdateSave, Refile, notes, SameTop, LiveSave, SaveType, SaveRow
  <2> QED
    BY <1>0, <2>1, TopKept DEF LiveNote, SaveRow
<1>4. ASSUME NEW p \in SaveIds, DeleteSave(u, p, save[p])
      PROVE  TopRight(x)'
  <2>1. CASE x = p
    BY <1>4, <2>1 DEF DeleteSave, TopRight, LiveSave, SaveType, SaveRow
  <2>2. CASE x # p
    <3>1. note' = note /\ SameTop(x) /\ \A ns \in noteSaves : ns.psave = x => ns \in noteSaves'
      BY <1>4, <2>2 DEF DeleteSave, SameTop, LiveSave, SaveType
    <3> QED
      BY <1>0, <3>1, TopKept DEF LiveNote, SaveRow
  <2> QED
    BY <2>1, <2>2
<1>5. ASSUME NEW p \in SaveIds, NEW n \in NoteIds, LiveNote(n),
             SetTop(p, n, save[p].note, note[n].user)
      PROVE  TopRight(x)'
  <2>1. UNCHANGED <<note, noteSaves>>
    BY <1>5 DEF SetTop, notes
  <2>2. SameTop(x) \/ save'[x].top \in {None, n}
    BY <1>5 DEF SetTop, SameTop, LiveSave, SaveType, SaveRow
  <2> QED
    BY <1>0, <1>5, <2>1, <2>2, TopKept, TopNew DEF LiveNote, SaveRow
<1> QED
  BY <1>1, <1>2, <1>3, <1>4, <1>5 DEF PointStep, SavesOf

(* A new note is live, and a deleted one is taken off every save.           *)
LEMMA NoteTops ==
  ASSUME Typed, TopsLiveOrSaved, NEW u \in Users, NoteStep(u)
  PROVE  TopsLiveOrSaved'
<1> USE DEF Typed, TypeOK
<1> SUFFICES ASSUME NEW x \in SaveIds
             PROVE  TopRight(x)'
  BY DEF TopsLiveOrSaved, TopRight
<1>0. save[x] \in SaveRow
  BY DEF SaveType
<1>1. ASSUME NEW q \in SaveIds, NEW p \in SaveIds, NEW n \in NoteIds,
             CreateNoteWithSave(u, save[q], n, p)
      PROVE  TopRight(x)'
  <2>1. noteSaves' = noteSaves /\ (SameTop(x) \/ save'[x].top = None)
    BY <1>1 DEF CreateNoteWithSave, BlankSave, SameTop, LiveSave, SaveType
  <2>2. \A m \in NoteIds : LiveNote(m) => LiveNote(m)'
    BY <1>1 DEF CreateNoteWithSave, NewNote, LiveNote, NoteType
  <2> QED
    BY <1>0, <2>1, <2>2, TopKept, TopNew DEF SaveRow
<1>2. ASSUME NEW q \in SaveIds, NEW p \in SaveIds, NEW n \in NoteIds,
             CreateNote(u, save[q], save[p], n, p)
      PROVE  TopRight(x)'
  <2>1. noteSaves' = noteSaves
    BY <1>2 DEF CreateNote
  <2>2. (\A m \in NoteIds : LiveNote(m) => LiveNote(m)') /\ LiveNote(n)'
    BY <1>2 DEF CreateNote, NewNote, LiveNote, NoteType
  <2>3. SameTop(x) \/ save'[x].top = n
    BY <1>0, <1>2 DEF CreateNote, WithNote, SameTop, LiveSave, SaveRow
  <2> QED
    BY <1>0, <2>1, <2>2, <2>3, TopKept, TopNew DEF LiveNote, SaveRow
<1>3. ASSUME NEW n \in NoteIds, DeleteNote(n, note[n].psave)
      PROVE  TopRight(x)'
  <2>1. save'[x].status = save[x].status
        /\ save'[x].top = IF save[x].top = n THEN None ELSE save[x].top
    BY <1>0, <1>3 DEF DeleteNote, SaveRow
  <2>2. noteSaves' = noteSaves /\ \A m \in NoteIds \ {n} : LiveNote(m)' <=> LiveNote(m)
    BY <1>3 DEF DeleteNote, LiveNote, NoteType
  <2>3. save[x].top \in NoteIds \cup {None}
    BY <1>0 DEF SaveRow
  <2> QED
    BY <2>1, <2>2, <2>3 DEF TopsLiveOrSaved, TopRight, LiveSave
<1> QED
  BY <1>1, <1>2, <1>3 DEF NoteStep, SavesAt, SavesOf

(* After unsave the next note on top is one that is still saved there.      *)
LEMMA NoteSaveTops ==
  ASSUME Typed, TopsLiveOrSaved, NEW u \in Users, NoteSaveStep(u)
  PROVE  TopsLiveOrSaved'
<1> USE DEF Typed, TypeOK
<1> SUFFICES ASSUME NEW x \in SaveIds
             PROVE  TopRight(x)'
  BY DEF TopsLiveOrSaved, TopRight
<1>0. save[x] \in SaveRow
  BY DEF SaveType
<1>1. ASSUME NEW n \in NoteIds, CanBeSaved(u, n), NEW p \in SaveIds, SaveNote(u, n, p)
      PROVE  TopRight(x)'
  <2>1. note' = note /\ noteSaves \subseteq noteSaves'
    BY <1>1 DEF SaveNote, InsertNoteSave
  <2>2. SameTop(x) \/ save'[x].top = n
    BY <1>1 DEF SaveNote, SameTop, LiveSave, SaveType, SaveRow
  <2> QED
    BY <1>0, <1>1, <2>1, <2>2, TopKept, TopNew DEF CanBeSaved, LiveNote, SaveRow
<1>2. ASSUME NEW n \in NoteIds, NEW p \in SaveIds, SaveNoteWithSave(u, n, note[n], p)
      PROVE  TopRight(x)'
  <2> DEFINE row == CopyOf(u, note[n].psave, save[note[n].psave], FALSE)
  <2>1. note' = note /\ noteSaves \subseteq noteSaves'
    BY <1>2 DEF SaveNoteWithSave, InsertNoteSave
  <2>2. CASE x = p
    <3>1. save'[x] = row /\ AuthorFound(row.top)
      BY <1>2, <2>2 DEF SaveNoteWithSave, SaveType
    <3> QED
      BY <2>1, <3>1, TopNew DEF AuthorFound, LiveNote
  <2>3. CASE x # p
    <3>1. SameTop(x)
      BY <1>2, <2>3 DEF SaveNoteWithSave, SameTop, LiveSave, SaveType
    <3> QED
      BY <1>0, <2>1, <3>1, TopKept DEF LiveNote, SaveRow
  <2> QED
    BY <2>2, <2>3
<1>3. ASSUME NEW ns \in noteSaves, UnsaveNote(u, ns, save[ns.psave], LeftOn(ns))
      PROVE  TopRight(x)'
  <2> DEFINE p == ns.psave
  <2>1. p \in SaveIds /\ note' = note /\ noteSaves' = noteSaves \ {ns}
    BY <1>3 DEF UnsaveNote, NoteSaveRow
  <2>2. CASE x # p
    <3>1. SameTop(x)
      <4>1. save'[x] = save[x]
        BY <1>3, <2>1, <2>2 DEF UnsaveNote, SaveType
      <4> QED
        BY <4>1 DEF SameTop, LiveSave
    <3> QED
      BY <1>0, <2>1, <2>2, <3>1, TopKept DEF LiveNote, SaveRow
  <2>3. CASE x = p
    <3>1. CASE save' = save /\ save[p].top = None
      BY <2>3, <3>1, TopNew
    <3>2. ASSUME NEW n \in LeftOn(ns), save' = [save EXCEPT ![p].top = n]
          PROVE  TopRight(x)'
      BY <2>1, <2>3, <3>2 DEF LeftOn, TopRight, LiveSave, SaveType, SaveRow
    <3>3. CASE save' = [save EXCEPT ![p].top = None]
      BY <2>1, <2>3, <3>3, TopNew DEF SaveType, SaveRow
    <3>4. CASE save' = [save EXCEPT ![p].top = None, ![p].status = "deleted"]
      BY <2>1, <2>3, <3>4, TopNew DEF SaveType, SaveRow
    <3> QED
      BY <1>3, <3>1, <3>2, <3>3, <3>4 DEF UnsaveNote
  <2> QED
    BY <2>2, <2>3
<1> QED
  BY <1>1, <1>2, <1>3 DEF NoteSaveStep, SavesAt, SavesOf

(* The note on top of a save is a live note or one that is still among the  *)
(* rows of note_saves of that save: neither copies, deletions of notes and  *)
(* saves, nor the choice of the next note after unsave bring another one up.*)
THEOREM TopNotesLive == Spec => []TopsLiveOrSaved
<1>1. Init => TopsLiveOrSaved
  <2> SUFFICES ASSUME Init, NEW p \in SaveIds
               PROVE  save[p].top = None
    BY DEF TopsLiveOrSaved
  <2> QED
    BY DEF Init, PublicSave, BlankSave
<1>2. TopsLiveOrSaved /\ Typed /\ [Next]_vars => TopsLiveOrSaved'
  <2>1. ASSUME TopsLiveOrSaved, Rejected \/ UNCHANGED vars \/ \E u \in Users : SortStep(u)
        PROVE  TopsLiveOrSaved'
    BY <2>1, OthersAlone DEF TopsLiveOrSaved, LiveSave, LiveNote
  <2> QED
    BY <2>1, PointTops, NoteTops, NoteSaveTops DEF Next
<1> QED
  BY <1>1, <1>2, InitTyped, NextTyped, PTL DEF Spec

--------------------------------------------------------------------------------
(* The links of savers *)

(* What a kept save was copied from was a save once, so that its row has an *)
(* owner for good.                                                          *)
Descends(p) ==
  LiveSave(p) /\ save[p].own = "ONLY_SAVE" =>
    save[p].f \in SaveIds /\ save[save[p].f].status # "free"

LinkedRight(p) ==
  (LiveSave(p) /\ save[p].own = "ONLY_SAVE" /\ save[save[p].f].user # save[p].user) =>
    <<save[p].user, save[save[p].f].user>> \in links

CopiesDescend == \A p \in SaveIds : Descends(p)

CopiesLinked == CopiesDescend /\ \A p \in SaveIds : LinkedRight(p)

(* A row that is in use keeps its owner and its parent and does not become  *)
(* a kept one.                                                              *)
KeepsParent(p) ==
  save[p].status # "free" =>
    /\ save'[p].status # "free"
    /\ save'[p].user = save[p].user
    /\ save'[p].f = save[p].f
    /\ save'[p].status = "live" => save[p].status = "live"
    /\ save'[p].own = "ONLY_SAVE" => save[p].own = "ONLY_SAVE"

(* A step that makes no copy keeps the links right ... *)
LEMMA ParentsKept ==
  ASSUME Typed, CopiesLinked, links \subseteq links',
         \A p \in SaveIds : KeepsParent(p),
         \A p \in SaveIds : save[p].status = "free" =>
           save'[p].status = "free" \/ save'[p].own # "ONLY_SAVE"
  PROVE  CopiesLinked'
<1> SUFFICES ASSUME NEW p \in SaveIds, LiveSave(p)', save'[p].own = "ONLY_SAVE"
             PROVE  /\ save'[p].f \in SaveIds /\ save'[save'[p].f].status # "free"
                    /\ save'[save'[p].f].user # save'[p].user =>
                         <<save'[p].user, save'[save'[p].f].user>> \in links'
  BY DEF CopiesLinked, CopiesDescend, Descends, LinkedRight
<1>1. save[p].status # "free" /\ KeepsParent(p)
  BY DEF LiveSave
<1>2. LiveSave(p) /\ save[p].own = "ONLY_SAVE" /\ save'[p].f = save[p].f
      /\ save'[p].user = save[p].user
  BY <1>1 DEF KeepsParent, LiveSave
<1>3. save[p].f \in SaveIds /\ save[save[p].f].status # "free"
  BY <1>2 DEF CopiesLinked, CopiesDescend, Descends
<1>4. save'[save[p].f].status # "free" /\ save'[save[p].f].user = save[save[p].f].user
  BY <1>3 DEF KeepsParent
<1> QED
  BY <1>2, <1>3, <1>4 DEF CopiesLinked, LinkedRight

(* ... and so does one that copies a save and links its owner. *)
LEMMA CopyLinks ==
  ASSUME Typed, CopiesLinked, NEW u \in Users, NEW q \in SaveIds, NEW p \in SaveIds,
         NEW src, NEW toped, ReadAs(q, src), FreshSave(p),
         save' = [save EXCEPT ![p] = CopyOf(u, q, src, toped)],
         links' = Linked(u, src.user)
  PROVE  CopiesLinked'
<1> SUFFICES ASSUME NEW x \in SaveIds, LiveSave(x)', save'[x].own = "ONLY_SAVE"
             PROVE  /\ save'[x].f \in SaveIds /\ save'[save'[x].f].status # "free"
                    /\ save'[save'[x].f].user # save'[x].user =>
                         <<save'[x].user, save'[save'[x].f].user>> \in links'
  BY DEF CopiesLinked, CopiesDescend, Descends, LinkedRight
<1>1. p # q /\ save'[q] = save[q] /\ src.user = save[q].user /\ save[q].status # "free"
  BY DEF ReadAs, FreshSave, Typed, TypeOK, SaveType
<1>2. links \subseteq links'
  BY DEF Linked
<1>3. CASE x = p
  <2>1. save'[x].f = q /\ save'[x].user = u
    BY <1>3 DEF CopyOf, BlankSave, Typed, TypeOK, SaveType
  <2> QED
    BY <1>1, <2>1 DEF Linked
<1>4. CASE x # p
  <2>1. save'[x] = save[x] /\ LiveSave(x) /\ save[x].own = "ONLY_SAVE"
    BY <1>4 DEF LiveSave, Typed, TypeOK, SaveType
  <2>2. save[x].f \in SaveIds /\ save[save[x].f].status # "free"
    BY <2>1 DEF CopiesLinked, CopiesDescend, Descends
  <2>3. save'[save[x].f] = save[save[x].f]
    BY <2>2 DEF FreshSave, Typed, TypeOK, SaveType
  <2> QED
    BY <1>2, <2>1, <2>2, <2>3 DEF CopiesLinked, LinkedRight
<1> QED
  BY <1>3, <1>4

(* Among the transactions on points only the saving of one makes a copy.    *)
LEMMA PointLinks ==
  ASSUME Typed, CopiesLinked, NEW u \in Users, PointTransaction(u)
  PROVE  CopiesLinked'
<1> USE DEF Typed, TypeOK
<1> DEFINE Plain == /\ links \subseteq links'
                    /\ \A p \in SaveIds : KeepsParent(p)
                    /\ \A p \in SaveIds : save[p].status = "free" =>
                         save'[p].status = "free" \/ save'[p].own # "ONLY_SAVE"
<1>1. ASSUME NEW pl \in Places, NEW adcode \in Adcodes, NEW s \in Sorts \cup {None}, NEW p \in SaveIds,
             CreatePoint(u, pl, adcode, s, p)
      PROVE  Plain
  BY <1>1 DEF CreatePoint, FreshSave, BlankSave, KeepsParent, SaveType
<1>2. ASSUME NEW q \in SaveIds, NEW src, ReadAs(q, src), NEW p \in SaveIds,
             CreateSave(u, q, src, p)
      PROVE  CopiesLinked'
  <2>1. /\ FreshSave(p) /\ links' = Linked(u, src.user)
        /\ save' = [save EXCEPT ![p] = CopyOf(u, q, src, src.toped)]
    BY <1>2 DEF CreateSave
  <2> QED
    BY <1>2, <2>1, CopyLinks
<1>3. ASSUME NEW p \in SaveIds, NEW old, NEW s \in Sorts \cup {None},
             UpdatePoint(u, p, old, s) \/ UpdateSave(u, p, old, s)
      PROVE  Plain
  BY <1>3 DEF UpdatePoint, UpdateSave, Refile, KeepsParent, SaveType, SaveRow
<1>4. ASSUME NEW p \in SaveIds, HeldBy(p, u), NEW old, DeleteSave(u, p, old)
      PROVE  Plain
  BY <1>4 DEF DeleteSave, KeepsParent, SaveType, SaveRow, HeldBy
<1>5. ASSUME NEW p \in SaveIds, NEW n \in NoteIds, NEW written, NEW author,
             SetTop(p, n, written, author)
      PROVE  Plain
  BY <1>5 DEF SetTop, KeepsParent, SaveType, SaveRow
<1>6. Plain => CopiesLinked'
  BY ParentsKept
<1> QED
  BY <1>1, <1>2, <1>3, <1>4, <1>5, <1>6 DEF PointTransaction

(* A note makes a save one's own, which needs no link.                      *)
LEMMA NoteLinks ==
  ASSUME Typed, CopiesLinked, NEW u \in Users, NoteTransaction(u)
  PROVE  CopiesLinked'
<1> USE DEF Typed, TypeOK
<1> DEFINE Plain == /\ links \subseteq links'
                    /\ \A p \in SaveIds : KeepsParent(p)
                    /\ \A p \in SaveIds : save[p].status = "free" =>
                         save'[p].status = "free" \/ save'[p].own # "ONLY_SAVE"
<1>1. ASSUME NEW src, NEW p \in SaveIds, NEW n \in NoteIds,
             CreateNoteWithSave(u, src, n, p)
      PROVE  Plain
  BY <1>1 DEF CreateNoteWithSave, FreshSave, BlankSave, KeepsParent, SaveType
<1>2. ASSUME NEW src, NEW mine, NEW p \in SaveIds, HeldBy(p, u), NEW n \in NoteIds,
             CreateNote(u, src, mine, n, p)
      PROVE  Plain
  <2>1. links' = links
    BY <1>2 DEF CreateNote
  <2>2. ASSUME NEW x \in SaveIds
        PROVE  /\ save'[x].status = save[x].status /\ save'[x].user = save[x].user
               /\ save'[x].f = save[x].f
               /\ save'[x].own = save[x].own \/ (x = p /\ save'[x].own = "SAVE_FIND")
    <3>1. save[x] \in SaveRow
      BY DEF SaveType
    <3> QED
      BY <1>2, <3>1 DEF CreateNote, WithNote, SaveRow
  <2>3. \A x \in SaveIds : save[x].status = "free" => x # p
    BY <1>2 DEF HeldBy
  <2>4. ASSUME NEW x \in SaveIds
        PROVE  KeepsParent(x)
    BY <2>2 DEF KeepsParent
  <2> QED
    BY <2>1, <2>2, <2>4
<1>3. ASSUME NEW n \in NoteIds, NEW p \in SaveIds, DeleteNote(n, p)
      PROVE  Plain
  BY <1>3 DEF DeleteNote, KeepsParent, SaveType, SaveRow
<1>4. Plain => CopiesLinked'
  BY ParentsKept
<1> QED
  BY <1>1, <1>2, <1>3, <1>4 DEF NoteTransaction

(* Saving a note copies the save it was written on, and links its owner.    *)
LEMMA NoteSaveLinks ==
  ASSUME Typed, CopiesLinked, NEW u \in Users, NoteSaveTransaction(u)
  PROVE  CopiesLinked'
<1> USE DEF Typed, TypeOK
<1> DEFINE Plain == /\ links \subseteq links'
                    /\ \A p \in SaveIds : KeepsParent(p)
                    /\ \A p \in SaveIds : save[p].status = "free" =>
                         save'[p].status = "free" \/ save'[p].own # "ONLY_SAVE"
<1>1. ASSUME NEW n \in NoteIds, NEW p \in SaveIds, SaveNote(u, n, p)
      PROVE  Plain
  BY <1>1 DEF SaveNote, KeepsParent, SaveType, SaveRow
<1>2. ASSUME NEW n \in NoteIds, NEW p \in SaveIds, NEW old, old.psave \in SaveIds,
             SaveNoteWithSave(u, n, old, p)
      PROVE  CopiesLinked'
  <2> DEFINE q == old.psave
  <2>1. q \in SaveIds /\ ReadAs(q, save[q])
    BY <1>2 DEF SaveNoteWithSave, LiveSave, ReadAs
  <2>2. /\ FreshSave(p) /\ links' = Linked(u, save[q].user)
        /\ save' = [save EXCEPT ![p] = CopyOf(u, q, save[q], FALSE)]
    BY <1>2 DEF SaveNoteWithSave
  <2> QED
    BY <2>1, <2>2, CopyLinks
<1>3. ASSUME NEW ns \in noteSaves, HeldBy(ns.psave, u), NEW old, NEW left,
             UnsaveNote(u, ns, old, left)
      PROVE  Plain
  <2>1. ns.psave \in SaveIds /\ save[ns.psave].status # "free"
    BY <1>3 DEF HeldBy, NoteSaveRow
  <2>2. links' = links
    BY <1>3 DEF UnsaveNote
  <2>3. ASSUME save' = save
        PROVE  Plain
    BY <2>2, <2>3 DEF KeepsParent
  <2>4. ASSUME NEW t, save' = [save EXCEPT ![ns.psave].top = t]
        PROVE  Plain
    BY <2>1, <2>2, <2>4 DEF KeepsParent, SaveType, SaveRow
  <2>5. ASSUME save' = [save EXCEPT ![ns.psave].top = None, ![ns.psave].status = "deleted"]
        PROVE  Plain
    BY <2>1, <2>2, <2>5 DEF KeepsParent, SaveType, SaveRow
  <2>6. \/ save' = save
        \/ \E t : save' = [save EXCEPT ![ns.psave].top = t]
        \/ save' = [save EXCEPT ![ns.psave].top = None, ![ns.psave].status = "deleted"]
    BY <1>3 DEF UnsaveNote
  <2> QED
    BY <2>3, <2>4, <2>5, <2>6
<1>4. Plain => CopiesLinked'
  BY ParentsKept
<1> QED
  BY <1>1, <1>2, <1>3, <1>4 DEF NoteSaveTransaction

(* So every transaction keeps the links right ...                           *)
LEMMA LinksRight == ASSUME Typed, CopiesLinked, Transaction PROVE CopiesLinked'
<1>1. ASSUME NoTransaction \/ \E u \in Users : SortTransaction(u)
      PROVE  CopiesLinked'
  <2>1. UNCHANGED <<save, links>>
    BY <1>1, OthersUntouched
  <2> QED
    BY <2>1 DEF CopiesLinked, CopiesDescend, Descends, LinkedRight, LiveSave
<1> QED
  BY <1>1, PointLinks, NoteLinks, NoteSaveLinks DEF Transaction

(* ... as they are at first, when nobody has kept anything ...              *)
LEMMA InitLinks == Init => CopiesLinked
<1> SUFFICES ASSUME Init, NEW p \in SaveIds
             PROVE  ~(LiveSave(p) /\ save[p].own = "ONLY_SAVE")
  BY DEF CopiesLinked, CopiesDescend, Descends, LinkedRight
<1> QED
  BY DEF Init, LiveSave, PublicSave, BlankSave

(* ... and then whoever has kept a save follows the owner.                  *)
LEMMA LinkedSavers == CopiesLinked => SaversLinked
BY DEF CopiesLinked, LinkedRight, SaversLinked

(* Whoever keeps a save of somebody else's point follows its owner, also    *)
(* when the save it was copied from is deleted or promoted afterwards.      *)
THEOREM SaversFollow == Spec => []SaversLinked
<1>1. CopiesLinked /\ Typed /\ [Next]_vars => CopiesLinked'
  BY NextTransacts, LinksRight
<1> QED
  BY <1>1, InitLinks, LinkedSavers, InitTyped, NextTyped, PTL DEF Spec
================================================================================
